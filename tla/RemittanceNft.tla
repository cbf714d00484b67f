---------------------------- MODULE RemittanceNft ----------------------------
(***************************************************************************)
(* contracts/remittance_nft/src/lib.rs: the credit-score NFT.  Each user   *)
(* owns at most one; the loan manager and other authorized minters adjust  *)
(* its score, record defaults on it and burn it.                           *)
(*                                                                         *)
(* A user's storage keys are one record, and a call's effect on them is a  *)
(* function of that record, so that the loan manager can make several of   *)
(* these calls in one transaction (LoanManager).  The metadata URI, the    *)
(* history hash and the recipient commitment are payloads nothing depends  *)
(* on and are left out.  A legacy Score key is read as the metadata it is  *)
(* migrated to on first access.                                            *)
(***************************************************************************)
EXTENDS Integers, Sequences, FiniteSets

CONSTANTS
    Users,              \* addresses that own NFTs, mint and administer
    NoUser,             \* stands for an absent address
    Manager,            \* the address of the loan manager contract
    MaxScore,           \* MAX_SCORE (850)
    MinCreditScore,     \* MIN_CREDIT_SCORE (300), floor of decrease_score
    MaxHistory,         \* MAX_SCORE_HISTORY_ENTRIES (50)
    MaxMinters,         \* MAX_AUTHORIZED_MINTERS (32)
    DefaultBurnThreshold, \* DEFAULT_BURN_THRESHOLD (3)
    MaxBurnThreshold,   \* MAX_ALLOWED_BURN_THRESHOLD (1000)
    TransferCooldown,   \* TRANSFER_COOLDOWN_LEDGERS
    ScoreUnit,          \* repayment units per score point (100)
    InitialScores,      \* scores passed to mint and admin_remint
    Penalties,          \* points passed to decrease_score
    Deltas,             \* deltas passed to apply_score_delta
    Repayments,         \* amounts passed to update_score
    Thresholds,         \* thresholds passed to set_default_burn_threshold
    MaxDefaults,        \* bound on the defaults recorded for a user
    MaxLedger           \* bound on the ledger sequence

NoScore == -1

ScoreRange == 0..MaxScore

ASSUME UsersAssumption == IsFiniteSet(Users) /\ NoUser \notin Users /\ Manager \notin Users
ASSUME ScoreAssumption ==
    /\ MaxScore \in Nat /\ MinCreditScore \in 0..MaxScore
    /\ MaxHistory \in Nat \ {0} /\ MaxMinters \in Nat \ {0}
    /\ DefaultBurnThreshold \in 1..MaxBurnThreshold /\ MaxBurnThreshold \in Nat
    /\ TransferCooldown \in Nat /\ ScoreUnit \in Nat \ {0}
    /\ InitialScores \subseteq Nat /\ Penalties \subseteq Nat /\ Deltas \subseteq Int
    /\ Repayments \subseteq Int /\ Thresholds \subseteq Nat
    /\ MaxDefaults \in Nat /\ MaxLedger \in Nat

VARIABLES
    ledger,        \* env.ledger().sequence()
    nft,           \* per user: the record of its storage keys
    nftAdmin,      \* admin_key()
    nftProposed,   \* DataKey::ProposedAdmin
    nftPaused,     \* DataKey::Paused
    minterKeys,    \* addresses with a DataKey::AuthorizedMinter key
    minterList,    \* DataKey::AuthorizedMinters
    burnThreshold, \* burn_threshold_key()
    scoreFloor     \* DataKey::MinRepaymentAmount

nftAdminVars  == <<nftAdmin, nftProposed, nftPaused>>
minterVars    == <<minterKeys, minterList>>
nftConfigVars == <<burnThreshold, scoreFloor>>
nftVars       == <<nft, nftAdminVars, minterVars, nftConfigVars>>

NoNft == [score |-> NoScore, history |-> <<>>, seized |-> FALSE, defaults |-> 0,
          burned |-> FALSE, remint |-> FALSE, nextTransfer |-> 0]

(* The state initialize(admin) leaves. *)
NftInit ==
    /\ nft = [u \in Users |-> NoNft]
    /\ nftAdmin \in Users
    /\ nftProposed = NoUser
    /\ nftPaused = FALSE
    /\ minterKeys = {nftAdmin}
    /\ minterList = <<nftAdmin>>
    /\ burnThreshold = DefaultBurnThreshold
    /\ scoreFloor = 0

------------------------------------------------------------------------------
(* What the calls do to one user's record.                                  *)

AtMost(n, bound)  == IF n > bound THEN bound ELSE n
AtLeast(n, bound) == IF n < bound THEN bound ELSE n

HasActiveNft(r) == r.score # NoScore

GetScore(r) == IF HasActiveNft(r) THEN r.score ELSE 0

(* Mutated form: the new entry is dropped once the history is full. *)
AppendUntilFull(history, old, new) ==
    IF Len(history) >= MaxHistory THEN history ELSE Append(history, <<old, new>>)

AppendScoreHistory(history, old, new) ==
    Append(SubSeq(history, AtLeast(Len(history) - (MaxHistory - 1), 0) + 1, Len(history)),
           <<old, new>>)

Rescored(r, new) ==
    [r EXCEPT !.score = new, !.history = AppendScoreHistory(@, r.score, new)]

DecreasedScore(r, points) ==
    LET new == AtLeast(AtLeast(r.score - points, 0), MinCreditScore)
    IN  IF HasActiveNft(r) /\ new # r.score THEN Rescored(r, new) ELSE r

AdjustedScore(r, delta) ==
    LET new == AtMost(AtLeast(r.score + delta, 0), MaxScore)
    IN  IF new # r.score THEN Rescored(r, new) ELSE r

(* Mutated form: a burn leaves an earlier remint approval in place. *)
BurnedKeepingApproval(r) ==
    [r EXCEPT !.score = NoScore, !.history = <<>>, !.seized = FALSE,
              !.nextTransfer = 0, !.burned = TRUE]

Burned(r) ==
    [r EXCEPT !.score = NoScore, !.history = <<>>, !.seized = FALSE,
              !.remint = FALSE, !.nextTransfer = 0, !.burned = TRUE]

DefaultRecorded(r) ==
    LET n       == r.defaults + 1
        flagged == [r EXCEPT !.defaults = n, !.seized = TRUE]
    IN  IF ~HasActiveNft(r) THEN r
        ELSE IF n >= burnThreshold THEN Burned(flagged)
        ELSE flagged

------------------------------------------------------------------------------
(* Calls.                                                                   *)

(* require_admin_or_authorized_minter: the caller is the admin, or signs as *)
(* an authorized minter.                                                    *)
ByAdminOrMinter == ~nftPaused

OnlyNft(u, r) ==
    /\ nft' = [nft EXCEPT ![u] = r]
    /\ UNCHANGED <<nftAdminVars, minterVars, nftConfigVars>>

Mint(u, score) ==
    /\ ByAdminOrMinter
    /\ ~HasActiveNft(nft[u])
    /\ ~nft[u].burned
    /\ OnlyNft(u, [nft[u] EXCEPT !.score = AtMost(score, MaxScore)])

AdminRemint(u, score) ==
    /\ ~nftPaused
    /\ nft[u].burned
    /\ nft[u].remint
    /\ ~HasActiveNft(nft[u])
    /\ OnlyNft(u, [nft[u] EXCEPT !.score = AtMost(score, MaxScore), !.burned = FALSE,
                                 !.remint = FALSE, !.seized = FALSE,
                                 !.nextTransfer = 0])

(* update_score: a repayment of at least ScoreUnit earns its points, and is *)
(* recorded in the history even when the score is at its maximum.           *)
UpdateScore(u, amount) ==
    /\ amount > 0
    /\ amount >= scoreFloor
    /\ amount >= ScoreUnit
    /\ ByAdminOrMinter
    /\ HasActiveNft(nft[u])
    /\ OnlyNft(u, Rescored(nft[u], AtMost(nft[u].score + amount \div ScoreUnit, MaxScore)))

DecreaseScore(u, points) ==
    /\ ByAdminOrMinter
    /\ OnlyNft(u, DecreasedScore(nft[u], points))

ApplyScoreDelta(u, delta) ==
    /\ ByAdminOrMinter
    /\ HasActiveNft(nft[u])
    /\ OnlyNft(u, AdjustedScore(nft[u], delta))

SeizeCollateral(u) ==
    /\ ByAdminOrMinter
    /\ HasActiveNft(nft[u])
    /\ ~nft[u].seized
    /\ OnlyNft(u, [nft[u] EXCEPT !.seized = TRUE])

RecordDefault(u) ==
    /\ ByAdminOrMinter
    /\ nft[u].defaults < MaxDefaults
    /\ OnlyNft(u, DefaultRecorded(nft[u]))

Burn(u) ==
    /\ ByAdminOrMinter
    /\ HasActiveNft(nft[u])
    /\ OnlyNft(u, Burned(nft[u]))

(* Mutated form: the seized flag stays behind. *)
ReceivedUnseized(from, to) ==
    [nft[to] EXCEPT !.score = nft[from].score,
                    !.history = nft[from].history,
                    !.defaults = IF nft[from].defaults > 0 THEN nft[from].defaults ELSE @,
                    !.nextTransfer = ledger + TransferCooldown]

(* The recipient's record after transfer: absent keys of the sender do not  *)
(* overwrite the recipient's.                                               *)
Received(from, to) ==
    [nft[to] EXCEPT !.score = nft[from].score,
                    !.history = IF nft[from].history # <<>> THEN nft[from].history ELSE @,
                    !.defaults = IF nft[from].defaults > 0 THEN nft[from].defaults ELSE @,
                    !.seized = @ \/ nft[from].seized,
                    !.nextTransfer = ledger + TransferCooldown]

Transfer(from, to) ==
    /\ from # to
    /\ ByAdminOrMinter
    /\ ledger >= nft[from].nextTransfer
    /\ HasActiveNft(nft[from])
    /\ ~HasActiveNft(nft[to])
    /\ nft' = [nft EXCEPT
                ![to]   = Received(from, to),
                ![from] = [@ EXCEPT !.score = NoScore, !.history = <<>>,
                                    !.defaults = 0, !.seized = FALSE,
                                    !.remint = FALSE, !.nextTransfer = 0]]
    /\ UNCHANGED <<nftAdminVars, minterVars, nftConfigVars>>

ApproveRemint(u) ==
    /\ ~nftPaused
    /\ OnlyNft(u, [nft[u] EXCEPT !.remint = TRUE])

------------------------------------------------------------------------------
(* Calls that need the admin's authorization.                               *)

AuthorizeMinter(m) ==
    /\ m \notin minterKeys
    /\ Len(minterList) < MaxMinters
    /\ minterKeys' = minterKeys \cup {m}
    /\ minterList' = Append(minterList, m)
    /\ UNCHANGED <<nft, nftAdminVars, nftConfigVars>>

RevokeMinter(m) ==
    /\ minterKeys' = minterKeys \ {m}
    /\ minterList' = SelectSeq(minterList, LAMBDA x : x # m)
    /\ UNCHANGED <<nft, nftAdminVars, nftConfigVars>>

SetDefaultBurnThreshold(n) ==
    /\ n > 0 /\ n <= MaxBurnThreshold
    /\ ~nftPaused
    /\ burnThreshold' = n
    /\ UNCHANGED <<nft, nftAdminVars, minterVars, scoreFloor>>

SetScoreFloor(amount) ==
    /\ amount >= 0
    /\ scoreFloor' = amount
    /\ UNCHANGED <<nft, nftAdminVars, minterVars, burnThreshold>>

SetNftPaused(b) ==
    /\ nftPaused' = b
    /\ UNCHANGED <<nft, nftAdmin, nftProposed, minterVars, nftConfigVars>>

ProposeNftAdmin(a) ==
    /\ nftProposed' = a
    /\ UNCHANGED <<nft, nftAdmin, nftPaused, minterVars, nftConfigVars>>

AcceptNftAdmin ==
    /\ nftProposed # NoUser
    /\ nftAdmin' = nftProposed
    /\ nftProposed' = NoUser
    /\ UNCHANGED <<nft, nftPaused, minterVars, nftConfigVars>>

SetNftAdmin(a) ==
    /\ nftAdmin' = a
    /\ nftProposed' = NoUser
    /\ UNCHANGED <<nft, nftPaused, minterVars, nftConfigVars>>

------------------------------------------------------------------------------
NftUserStep ==
    \E u \in Users :
        \/ \E s \in InitialScores : Mint(u, s) \/ AdminRemint(u, s)
        \/ \E n \in Repayments : UpdateScore(u, n)
        \/ \E p \in Penalties : DecreaseScore(u, p)
        \/ \E d \in Deltas : ApplyScoreDelta(u, d)
        \/ SeizeCollateral(u)
        \/ RecordDefault(u)
        \/ Burn(u)
        \/ \E v \in Users : Transfer(u, v)
        \/ ApproveRemint(u)

NftAdminStep ==
    \/ \E m \in Users \cup {Manager} : AuthorizeMinter(m) \/ RevokeMinter(m)
    \/ \E n \in Thresholds : SetDefaultBurnThreshold(n)
    \/ \E n \in Repayments : SetScoreFloor(n)
    \/ \E b \in BOOLEAN : SetNftPaused(b)
    \/ \E a \in Users : ProposeNftAdmin(a) \/ SetNftAdmin(a)
    \/ AcceptNftAdmin

NftStep == NftUserStep \/ NftAdminStep

LedgerClose == ledger < MaxLedger /\ ledger' = ledger + 1

------------------------------------------------------------------------------
(* Properties.                                                              *)

(* The score history is a gapless account of the current score: every entry *)
(* starts where the previous one ended and the last one ends at the score,  *)
(* through transfers, burns and remints and past the 50-entry limit, which  *)
(* it never exceeds.                                                        *)
HistoryExplainsScore ==
    \A u \in Users :
        LET h == nft[u].history
        IN  /\ Len(h) <= MaxHistory
            /\ \A i \in 1..(Len(h) - 1) : h[i][2] = h[i + 1][1]
            /\ h # <<>> => h[Len(h)][2] = nft[u].score
==============================================================================

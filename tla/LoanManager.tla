----------------------------- MODULE LoanManager -----------------------------
(***************************************************************************)
(* contracts/loan_manager/src/lib.rs, composed with the NFT contract it    *)
(* calls (RemittanceNft).  A contract call is one atomic step: the calls   *)
(* it makes to the NFT and token contracts commit or revert with it, and a *)
(* call that returns an error or panics leaves no trace, so every early    *)
(* return and every panic is a guard.                                      *)
(*                                                                         *)
(* The lending pool is seen as the loan manager sees it: a token balance   *)
(* that deposits and withdrawals move, and a pause flag.  Accounts outside *)
(* the two contracts are taken to have the tokens they transfer.  Amounts  *)
(* (i128, checked arithmetic) are unbounded integers.  The requested term  *)
(* is left out: approve_loan replaces it by the default term and nothing   *)
(* reads it.                                                               *)
(***************************************************************************)
EXTENDS RemittanceNft

CONSTANTS
    MaxLoanId,      \* bound on the loans ever requested
    Bps,            \* 10_000, the unit of rates and ratios
    Term,           \* DEFAULT_TERM_LEDGERS, the accrual period of a rate
    Precision,      \* PRECISION of accrue_interest
    MaxLateFee,     \* MAX_LATE_FEE_CAP_BPS
    MaxBonus,       \* MAX_LIQUIDATION_BONUS_BPS
    RiskTimelock,   \* RISK_TIMELOCK_LEDGERS
    LatePenalty,    \* LATE_REPAYMENT_SCORE_PENALTY
    DefaultPenalty, \* DEFAULT_SCORE_PENALTY_POINTS
    MaxExtensions,  \* MAX_EXTENSIONS
    ExtensionFee,   \* EXTENSION_FEE_BPS
    DebtMultiplier, \* MAX_PENALTY_MULTIPLIER
    MinWindow,      \* MIN_DEFAULT_WINDOW
    DefaultConfig,  \* the parameters initialize writes or the code defaults to
    DefaultRisk,    \* the same for the timelocked risk parameters
    Amounts,        \* amounts passed to request, repay, deposit and refinance
    Terms,          \* terms and extensions passed by borrowers
    OracleRates,    \* rates the oracle may answer
    Settings,       \* per parameter: the values the admin may set
    PoolFunds       \* balances the pool may be moved to by its depositors

RiskParams == {"lateFee", "threshold", "bonus"}

ConfigFields == {"minScore", "maxLoan", "minRepay", "maxLoans", "rate", "minRate",
                 "maxRate", "term", "minTerm", "maxTerm", "grace", "window"}

LoanIds == 1..MaxLoanId

ASSUME LoanConstants ==
    /\ MaxLoanId \in Nat /\ Bps \in Nat \ {0} /\ Term \in Nat \ {0}
    /\ Precision \in Nat \ {0} /\ MaxLateFee \in Nat /\ MaxBonus \in 0..Bps
    /\ RiskTimelock \in Nat /\ LatePenalty \in Nat /\ DefaultPenalty \in Nat
    /\ MaxExtensions \in Nat /\ ExtensionFee \in Nat
    /\ DebtMultiplier \in Nat \ {0} /\ MinWindow \in Nat
    /\ Amounts \subseteq Int /\ Terms \subseteq Nat /\ OracleRates \subseteq Nat
    /\ PoolFunds \subseteq Nat
    /\ Settings \in [ConfigFields \cup RiskParams -> SUBSET Nat]
ASSUME ConfigAssumption ==
    /\ DefaultConfig \in [ConfigFields -> Nat]
    /\ DefaultConfig["grace"] <= DefaultConfig["window"]
    /\ DefaultRisk \in [RiskParams -> Nat]

VARIABLES
    poolBalance,   \* token balance of the lending pool
    poolPaused,    \* is_paused of the lending pool
    held,          \* token balance of this contract
    loans,         \* DataKey::Loan; status "Absent" where no loan is stored
    loanCounter,   \* DataKey::LoanCounter
    loanCount,     \* DataKey::BorrowerLoanCount
    borrowerLoans, \* DataKey::BorrowerLoans, as a set: ids are never repeated
    outstanding,   \* DataKey::TotalOutstanding
    config,        \* the parameters the admin sets at once
    oracle,        \* whether DataKey::RateOracle is set
    risk,          \* the three timelocked parameters
    pending,       \* DataKey::PendingRiskChange, NoChange where absent
    admin,         \* DataKey::Admin
    proposedAdmin, \* DataKey::ProposedAdmin
    paused         \* DataKey::Paused

poolVars  == <<poolBalance, poolPaused>>
loanVars  == <<loans, loanCounter, loanCount, borrowerLoans, outstanding, held>>
paramVars == <<config, oracle, risk, pending>>
adminVars == <<admin, proposedAdmin, paused>>
vars == <<ledger, nftVars, poolVars, loanVars, paramVars, adminVars>>

NoChange == [value |-> 0, eta |-> 0]

NoLoan == [borrower |-> NoUser, amount |-> 0, collateral |-> 0, principalPaid |-> 0,
           interestPaid |-> 0, interest |-> 0, lateFeePaid |-> 0, lateFee |-> 0,
           rate |-> 0, due |-> 0, lastInterest |-> 0, lastLateFee |-> 0,
           residual |-> 0, extensions |-> 0, status |-> "Absent"]

(* The state initialize leaves: it requires that the NFT contract has       *)
(* authorized this contract as a minter.  The users' NFTs are minted.       *)
Init ==
    /\ ledger = 1
    /\ nft \in [Users -> {[NoNft EXCEPT !.score = s] : s \in InitialScores \cap ScoreRange}]
    /\ nftAdmin \in Users
    /\ nftProposed = NoUser /\ nftPaused = FALSE
    /\ minterKeys = {nftAdmin, Manager} /\ minterList = <<nftAdmin, Manager>>
    /\ burnThreshold = DefaultBurnThreshold /\ scoreFloor = 0
    /\ poolBalance \in PoolFunds /\ poolPaused = FALSE
    /\ held = 0
    /\ loans = [i \in LoanIds |-> NoLoan]
    /\ loanCounter = 0
    /\ loanCount = [b \in Users |-> 0]
    /\ borrowerLoans = [b \in Users |-> {}]
    /\ outstanding = 0
    /\ config = DefaultConfig /\ oracle = FALSE
    /\ risk = DefaultRisk /\ pending = [p \in RiskParams |-> NoChange]
    /\ admin = nftAdmin /\ proposedAdmin = NoUser /\ paused = FALSE

------------------------------------------------------------------------------
(* Debt.                                                                    *)

RemainingPrincipal(l) == l.amount - l.principalPaid

Debt(l) == RemainingPrincipal(l) + l.interest + l.lateFee

(* Mutated form: the residual keeps what has been carried into a unit. *)
AccrueKeepingResidual(l) ==
    LET scaled  == (RemainingPrincipal(l) * l.rate * (ledger - l.lastInterest) * Precision)
                       \div (Bps * Term)
        carried == l.residual + (scaled % Precision)
    IN  IF l.status # "Approved" \/ l.lastInterest = 0 \/ ledger <= l.lastInterest
        THEN l
        ELSE [l EXCEPT !.interest = @ + (scaled \div Precision) + (carried \div Precision),
                       !.residual = carried,
                       !.lastInterest = ledger]

(* Interest accrues on the remaining principal; what is below one unit is   *)
(* carried in the residual, what is below 1/Precision is dropped.           *)
AccrueInterest(l) ==
    LET scaled  == (RemainingPrincipal(l) * l.rate * (ledger - l.lastInterest) * Precision)
                       \div (Bps * Term)
        carried == l.residual + (scaled % Precision)
    IN  IF l.status # "Approved" \/ l.lastInterest = 0 \/ ledger <= l.lastInterest
        THEN l
        ELSE IF RemainingPrincipal(l) <= 0
        THEN [l EXCEPT !.lastInterest = ledger]
        ELSE [l EXCEPT !.interest = @ + (scaled \div Precision) + (carried \div Precision),
                       !.residual = carried % Precision,
                       !.lastInterest = ledger]

GraceEnds(l) == l.due + config["grace"]

(* Mutated form: an accrual does not move its starting point. *)
AccrueSameLedgersAgain(l) ==
    LET start    == AtLeast(l.lastLateFee, GraceEnds(l))
        fee      == (l.amount * AtMost(risk["lateFee"], MaxLateFee) * (ledger - start))
                        \div (Bps * Term)
        capacity == AtLeast(l.amount * DebtMultiplier - Debt(l), 0)
    IN  IF l.status # "Approved" \/ ledger <= start \/ RemainingPrincipal(l) <= 0
        THEN l
        ELSE [l EXCEPT !.lateFee = @ + AtMost(fee, capacity)]

(* Late fees accrue on the original amount after the grace period, as long  *)
(* as the debt stays within DebtMultiplier times that amount.               *)
AccrueLateFee(l) ==
    LET start    == AtLeast(l.lastLateFee, GraceEnds(l))
        fee      == (l.amount * AtMost(risk["lateFee"], MaxLateFee) * (ledger - start))
                        \div (Bps * Term)
        capacity == AtLeast(l.amount * DebtMultiplier - Debt(l), 0)
    IN  IF l.status # "Approved" \/ l.due = 0 \/ ledger <= start
        THEN l
        ELSE IF RemainingPrincipal(l) <= 0
        THEN [l EXCEPT !.lastLateFee = ledger]
        ELSE [l EXCEPT !.lateFee = @ + AtMost(fee, capacity), !.lastLateFee = ledger]

Accrued(l) == AccrueLateFee(AccrueInterest(l))

------------------------------------------------------------------------------
(* proportional_repayment_split: each bucket (principal, interest, late     *)
(* fees) gets its share rounded down; the units left over go, one each, to  *)
(* the buckets with the largest remainders that are not yet paid in full.   *)

Buckets == 1..3

Dues(l) == <<RemainingPrincipal(l), l.interest, l.lateFee>>

Share(l, amount, i) == (amount * Dues(l)[i]) \div Debt(l)

Remainder(l, amount, i) == (amount * Dues(l)[i]) % Debt(l)

Unallocated(l, amount) ==
    amount - Share(l, amount, 1) - Share(l, amount, 2) - Share(l, amount, 3)

Open(l, amount) == {i \in Buckets : Dues(l)[i] > Share(l, amount, i)}

(* Mutated form: the left-over units all go to the largest remainder. *)
NobodyPrecedes(l, amount, i) == {}

(* The buckets served before bucket i. *)
Precede(l, amount, i) ==
    {j \in Open(l, amount) :
        \/ Remainder(l, amount, j) > Remainder(l, amount, i)
        \/ Remainder(l, amount, j) = Remainder(l, amount, i) /\ j < i}

Split(l, amount, i) ==
    Share(l, amount, i)
    + IF /\ i \in Open(l, amount)
         /\ Cardinality(Precede(l, amount, i)) < Unallocated(l, amount)
      THEN 1 ELSE 0

(* Otherwise the loop panics: "repayment allocation exhausted". *)
SplitDefined(l, amount) == Unallocated(l, amount) <= Cardinality(Open(l, amount))

ApplyPayment(l, amount) ==
    IF amount <= 0 THEN l
    ELSE [l EXCEPT !.principalPaid = @ + Split(l, amount, 1),
                   !.interestPaid  = @ + Split(l, amount, 2),
                   !.interest      = @ - Split(l, amount, 2),
                   !.lateFeePaid   = @ + Split(l, amount, 3),
                   !.lateFee       = @ - Split(l, amount, 3)]

------------------------------------------------------------------------------
(* Shared parts of the calls.                                               *)

(* Mutated form: the pauses of the other contracts are not looked at. *)
OnlyOwnPause == ~paused

(* require_not_paused: a pause of the pool or of the NFT cascades. *)
NotPaused == ~paused /\ ~poolPaused /\ ~nftPaused

WithinDefaultWindow(l) == ledger <= l.due + config["window"]

AdjustOutstanding(delta) ==
    /\ outstanding + delta >= 0
    /\ outstanding' = outstanding + delta

CountDown(b) == [loanCount EXCEPT ![b] = AtLeast(@ - 1, 0)]

(* Calls to the NFT contract made as an authorized minter. *)
NftCall(b, r) ==
    /\ Manager \in minterKeys
    /\ nft' = [nft EXCEPT ![b] = r]
    /\ UNCHANGED <<nftAdminVars, minterVars, nftConfigVars>>

InterestRates ==
    IF oracle
    THEN {IF r < config["minRate"] \/ r > config["maxRate"] THEN config["rate"] ELSE r :
            r \in OracleRates}
    ELSE {config["rate"]}

Sum(f, S) == Cardinality(UNION {{i} \X (1..f[i]) : i \in S})

------------------------------------------------------------------------------
(* The life of a loan.                                                      *)

NextId == loanCounter + 1

RequestLoan(b, amount) ==
    /\ NotPaused
    /\ NextId <= MaxLoanId
    /\ amount > 0 /\ amount <= config["maxLoan"]
    /\ GetScore(nft[b]) >= config["minScore"]
    /\ ~nft[b].seized
    /\ loanCount[b] < config["maxLoans"]
    /\ \E r \in InterestRates :
           loans' = [loans EXCEPT ![NextId] =
                       [NoLoan EXCEPT !.borrower = b, !.amount = amount, !.rate = r,
                                      !.status = "Pending"]]
    /\ loanCounter' = NextId
    /\ loanCount' = [loanCount EXCEPT ![b] = @ + 1]
    /\ borrowerLoans' = [borrowerLoans EXCEPT ![b] = @ \cup {NextId}]
    /\ UNCHANGED <<ledger, nftVars, poolVars, outstanding, held, paramVars, adminVars>>

AvailableLiquidity == poolBalance - outstanding

ApproveLoan(i) ==
    LET l == loans[i]
    IN  /\ NotPaused
        /\ l.status = "Pending"
        /\ AvailableLiquidity >= l.amount
        /\ loans' = [loans EXCEPT ![i] =
                       [l EXCEPT !.status = "Approved",
                                 !.due = ledger + config["term"],
                                 !.lastInterest = ledger,
                                 !.lastLateFee = ledger + config["term"] + config["grace"]]]
        /\ AdjustOutstanding(l.amount)
        /\ poolBalance >= l.amount
        /\ poolBalance' = poolBalance - l.amount
        /\ UNCHANGED <<ledger, nftVars, poolPaused, loanCounter, loanCount,
                       borrowerLoans, held, paramVars, adminVars>>

(* A debt of at most the minimum repayment is closed by any payment. *)
IsDust(debt) == debt <= config["minRepay"]

FullyRepaid(l) == l.principalPaid = l.amount /\ l.interest = 0 /\ l.lateFee = 0

(* Mutated form: a closed loan keeps its collateral record. *)
ClosedKeepingCollateral(l) ==
    [l EXCEPT !.principalPaid = l.amount, !.interest = 0, !.lateFee = 0,
              !.status = "Repaid"]

Closed(l) ==
    [l EXCEPT !.principalPaid = l.amount, !.interest = 0, !.lateFee = 0,
              !.collateral = 0, !.status = "Repaid"]

(* A repayment of at least ScoreUnit moves the score of a borrower that has *)
(* one: down when it closes a late loan, up otherwise.                      *)
ScoreRepayment(b, amount, lateClose) ==
    IF amount >= ScoreUnit /\ GetScore(nft[b]) > 0
    THEN NftCall(b, IF lateClose THEN DecreasedScore(nft[b], LatePenalty)
                                 ELSE AdjustedScore(nft[b], amount \div ScoreUnit))
    ELSE UNCHANGED nftVars

Repay(i, amount) ==
    LET l         == Accrued(loans[i])
        paid      == ApplyPayment(l, amount)
        completed == IsDust(Debt(l)) \/ FullyRepaid(paid)
        late      == ledger > GraceEnds(l)
    IN  /\ NotPaused
        /\ amount > 0
        /\ l.status = "Approved"
        /\ WithinDefaultWindow(l)
        /\ amount <= Debt(l)
        /\ \/ amount = Debt(l)
           \/ amount >= config["minRepay"]
           \/ IsDust(Debt(l))
        /\ SplitDefined(l, amount)
        /\ loans' = [loans EXCEPT ![i] = IF completed THEN Closed(paid) ELSE paid]
        /\ IF completed
           THEN /\ AdjustOutstanding(-l.amount)
                /\ loanCount' = CountDown(l.borrower)
                /\ held >= l.collateral
                /\ held' = held - l.collateral
           ELSE UNCHANGED <<outstanding, loanCount, held>>
        /\ poolBalance' = poolBalance + amount
        /\ ScoreRepayment(l.borrower, amount, completed /\ late)
        /\ UNCHANGED <<ledger, poolPaused, loanCounter, borrowerLoans, paramVars,
                       adminVars>>

DepositCollateral(i, amount) ==
    /\ NotPaused
    /\ amount > 0
    /\ loans[i].status = "Approved"
    /\ ~nft[loans[i].borrower].seized
    /\ loans' = [loans EXCEPT ![i].collateral = @ + amount]
    /\ held' = held + amount
    /\ UNCHANGED <<ledger, nftVars, poolVars, loanCounter, loanCount, borrowerLoans,
                   outstanding, paramVars, adminVars>>

ReleaseCollateral(i) ==
    /\ loans[i].status = "Repaid"
    /\ held >= loans[i].collateral
    /\ loans' = [loans EXCEPT ![i].collateral = 0]
    /\ held' = held - loans[i].collateral
    /\ UNCHANGED <<ledger, nftVars, poolVars, loanCounter, loanCount, borrowerLoans,
                   outstanding, paramVars, adminVars>>

BelowThreshold(l) ==
    /\ Debt(l) > 0
    /\ l.collateral <= 0 \/ l.collateral * Bps < Debt(l) * risk["threshold"]

(* What a liquidation sends to the pool, and to the liquidator; the rest of *)
(* the collateral goes back to the borrower.                                *)
Recovered(l) == AtMost(l.collateral, Debt(l))

LiquidatorBonus(l) ==
    AtMost((l.collateral * risk["bonus"]) \div Bps, l.collateral - Recovered(l))

Liquidate(i) ==
    LET l == Accrued(loans[i])
    IN  /\ NotPaused
        /\ l.status = "Approved"
        /\ BelowThreshold(l)
        /\ Recovered(l) > 0 => SplitDefined(l, Recovered(l))
        /\ loans' = [loans EXCEPT ![i] =
                       [ApplyPayment(l, Recovered(l)) EXCEPT !.status = "Liquidated",
                                                             !.collateral = 0]]
        /\ AdjustOutstanding(-l.amount)
        /\ loanCount' = CountDown(l.borrower)
        /\ held >= l.collateral
        /\ held' = held - l.collateral
        /\ poolBalance' = poolBalance + Recovered(l)
        /\ UNCHANGED <<ledger, nftVars, poolPaused, loanCounter, borrowerLoans,
                       paramVars, adminVars>>

(* cancel_loan by the borrower and reject_loan by the admin; neither frees  *)
(* the borrower's slot and neither looks at the pauses.                     *)
Withdrawn(i, status) ==
    /\ loans[i].status = "Pending"
    /\ held >= loans[i].collateral
    /\ loans' = [loans EXCEPT ![i].status = status, ![i].collateral = 0]
    /\ held' = held - loans[i].collateral
    /\ UNCHANGED <<ledger, nftVars, poolVars, loanCounter, loanCount, borrowerLoans,
                   outstanding, paramVars, adminVars>>

CancelLoan(i) == Withdrawn(i, "Cancelled")
RejectLoan(i) == Withdrawn(i, "Rejected")

PurgeFreesSlot(l) == l.status \in {"Cancelled", "Rejected"}

PurgeLoan(i) ==
    LET l == loans[i]
    IN  /\ l.status \in {"Repaid", "Cancelled", "Rejected"}
        /\ held >= l.collateral
        /\ held' = held - l.collateral
        /\ loans' = [loans EXCEPT ![i] = NoLoan]
        /\ loanCount' = IF PurgeFreesSlot(l) THEN CountDown(l.borrower) ELSE loanCount
        /\ UNCHANGED <<ledger, nftVars, poolVars, loanCounter, borrowerLoans,
                       outstanding, paramVars, adminVars>>

(* Mutated form: the delta is taken from the remaining principal. *)
DeltaFromRemaining(l, newAmount) == newAmount - RemainingPrincipal(l)

OutstandingDelta(l, newAmount) == newAmount - l.amount

(* Mutated form: the fraction is upside down. *)
ReturnedUpsideDown(l, newAmount) ==
    IF newAmount < RemainingPrincipal(l)
    THEN (l.collateral * RemainingPrincipal(l)) \div newAmount
    ELSE 0

(* The collateral a refinancing to a smaller amount gives back. *)
ReturnedCollateral(l, newAmount) ==
    IF newAmount < RemainingPrincipal(l)
    THEN (l.collateral * (RemainingPrincipal(l) - newAmount)) \div RemainingPrincipal(l)
    ELSE 0

(* The pool pays out, or the borrower returns, the difference between the   *)
(* new amount and the remaining principal.                                  *)
DrawOrReturn(l, newAmount) ==
    LET additional == newAmount - RemainingPrincipal(l)
    IN  /\ additional > 0 =>
              /\ poolBalance - (outstanding - l.amount) >= additional
              /\ poolBalance >= additional
        /\ poolBalance' = poolBalance - additional

RefinanceLoan(i, newAmount, newTerm) ==
    LET l == Accrued(loans[i])
    IN  /\ NotPaused
        /\ l.status = "Approved"
        /\ WithinDefaultWindow(l)
        /\ newAmount > 0 /\ newAmount <= config["maxLoan"]
        /\ newTerm >= config["minTerm"] /\ newTerm <= config["maxTerm"]
        /\ GetScore(nft[l.borrower]) >= config["minScore"]
        /\ l.collateral >= newAmount
        /\ DrawOrReturn(l, newAmount)
        /\ held >= ReturnedCollateral(l, newAmount)
        /\ held' = held - ReturnedCollateral(l, newAmount)
        /\ AdjustOutstanding(OutstandingDelta(l, newAmount))
        /\ \E r \in InterestRates :
               loans' = [loans EXCEPT ![i] =
                  [l EXCEPT !.interestPaid = @ + l.interest, !.interest = 0,
                            !.lateFeePaid = @ + l.lateFee, !.lateFee = 0,
                            !.collateral = @ - ReturnedCollateral(l, newAmount),
                            !.amount = newAmount, !.principalPaid = 0, !.rate = r,
                            !.lastInterest = ledger, !.due = ledger + newTerm,
                            !.lastLateFee = ledger + newTerm]]
        /\ UNCHANGED <<ledger, nftVars, poolPaused, loanCounter, loanCount,
                       borrowerLoans, paramVars, adminVars>>

ExtendLoan(i, extra) ==
    LET l   == loans[i]
        fee == (RemainingPrincipal(l) * ExtensionFee) \div Bps
    IN  /\ NotPaused
        /\ extra > 0
        /\ l.status = "Approved"
        /\ WithinDefaultWindow(l)
        /\ l.extensions < MaxExtensions
        /\ loans' = [loans EXCEPT ![i].due = @ + extra, ![i].extensions = @ + 1]
        /\ poolBalance' = poolBalance + fee
        /\ UNCHANGED <<ledger, nftVars, poolPaused, loanCounter, loanCount,
                       borrowerLoans, outstanding, held, paramVars, adminVars>>

------------------------------------------------------------------------------
(* Defaults.                                                                *)

(* Mutated form: eligible as soon as the loan is past due. *)
PastDue(l) == l.status = "Approved" /\ ledger > l.due

(* Mutated form: the status is not looked at. *)
PastWindow(l) == l.status # "Absent" /\ ~WithinDefaultWindow(l)

Defaultable(l) == l.status = "Approved" /\ ~WithinDefaultWindow(l)

(* Mutated form: the default is not recorded on the NFT. *)
ScoreOnlyPenalty(r, n) == IF n = 0 THEN r ELSE DecreasedScore(r, DefaultPenalty)

(* decrease_score and record_default, n times over. *)
Penalised(r, n) ==
    LET after[k \in 0..n] ==
            IF k = 0 THEN r
            ELSE DefaultRecorded(DecreasedScore(after[k - 1], DefaultPenalty))
    IN  after[n]

DefaultedLoan(l) == [l EXCEPT !.status = "Defaulted", !.collateral = 0]

(* The effect of defaulting the loans in D, one after the other. *)
DefaultLoans(D) ==
    LET amounts    == [i \in LoanIds |-> loans[i].amount]
        collateral == [i \in LoanIds |-> loans[i].collateral]
        ofBorrower(b) == {i \in D : loans[i].borrower = b}
    IN  /\ loans' = [i \in LoanIds |-> IF i \in D THEN DefaultedLoan(loans[i]) ELSE loans[i]]
        /\ AdjustOutstanding(-Sum(amounts, D))
        /\ loanCount' = [b \in Users |-> AtLeast(loanCount[b] - Cardinality(ofBorrower(b)), 0)]
        /\ held >= Sum(collateral, D)
        /\ held' = held - Sum(collateral, D)
        /\ poolBalance' = poolBalance + Sum(collateral, D)
        /\ Manager \in minterKeys
        /\ nft' = [b \in Users |-> Penalised(nft[b], Cardinality(ofBorrower(b)))]
        /\ UNCHANGED <<ledger, nftAdminVars, minterVars, nftConfigVars, poolPaused,
                       loanCounter, borrowerLoans, paramVars, adminVars>>

(* check_default on an eligible loan; on a Defaulted one it changes nothing *)
(* and on any other it fails.                                               *)
CheckDefault(i) == NotPaused /\ Defaultable(loans[i]) /\ DefaultLoans({i})

(* check_defaults: the ids that are not eligible are skipped. *)
CheckDefaults(ids) ==
    LET D == {i \in ids : Defaultable(loans[i])}
    IN  NotPaused /\ D # {} /\ DefaultLoans(D)

------------------------------------------------------------------------------
(* Parameters.                                                              *)

Configure(f, v) ==
    /\ config' = [config EXCEPT ![f] = v]
    /\ UNCHANGED <<ledger, nftVars, poolVars, loanVars, oracle, risk, pending, adminVars>>

SetMinScore(v)           == v <= MaxScore /\ Configure("minScore", v)
SetMaxLoanAmount(v)      == v > 0 /\ Configure("maxLoan", v)
SetMinRepaymentAmount(v) == v >= 0 /\ Configure("minRepay", v)
SetMaxLoansPerBorrower(v) == v > 0 /\ Configure("maxLoans", v)
SetInterestRate(v)       == v > 0 /\ Configure("rate", v)
SetMinRate(v)            == v > 0 /\ v <= config["maxRate"] /\ Configure("minRate", v)
SetMaxRate(v)            == v > 0 /\ v >= config["minRate"] /\ Configure("maxRate", v)
SetDefaultTerm(v)        == v > 0 /\ Configure("term", v)
SetMinTerm(v)            == v > 0 /\ v <= config["maxTerm"] /\ Configure("minTerm", v)
SetMaxTerm(v)            == v > 0 /\ v >= config["minTerm"] /\ Configure("maxTerm", v)
SetGracePeriod(v)        == v <= config["window"] /\ Configure("grace", v)

SetDefaultWindow(v) ==
    /\ v >= MinWindow
    /\ v >= config["grace"]
    /\ Configure("window", v)

SetRateOracle ==
    /\ oracle' = TRUE
    /\ UNCHANGED <<ledger, nftVars, poolVars, loanVars, config, risk, pending, adminVars>>

ValidRisk(p, v) ==
    /\ p = "lateFee"   => v <= MaxLateFee
    /\ p = "threshold" => v >= Bps
    /\ p = "bonus"     => v <= MaxBonus

ProposeRiskChange(p, v) ==
    /\ ValidRisk(p, v)
    /\ pending[p] = NoChange
    /\ pending' = [pending EXCEPT ![p] = [value |-> v, eta |-> ledger + RiskTimelock]]
    /\ UNCHANGED <<ledger, nftVars, poolVars, loanVars, config, oracle, risk, adminVars>>

(* Mutated form: a change can be executed before its eta. *)
Immediately(p) == pending[p] # NoChange

TimelockElapsed(p) == pending[p] # NoChange /\ ledger >= pending[p].eta

ExecuteRiskChange(p) ==
    /\ TimelockElapsed(p)
    /\ risk' = [risk EXCEPT ![p] = pending[p].value]
    /\ pending' = [pending EXCEPT ![p] = NoChange]
    /\ UNCHANGED <<ledger, nftVars, poolVars, loanVars, config, oracle, adminVars>>

CancelRiskChange(p) ==
    /\ pending[p] # NoChange
    /\ pending' = [pending EXCEPT ![p] = NoChange]
    /\ UNCHANGED <<ledger, nftVars, poolVars, loanVars, config, oracle, risk, adminVars>>

ProposeAdmin(a) ==
    /\ proposedAdmin' = a
    /\ UNCHANGED <<ledger, nftVars, poolVars, loanVars, paramVars, admin, paused>>

AcceptAdmin ==
    /\ proposedAdmin # NoUser
    /\ admin' = proposedAdmin
    /\ proposedAdmin' = NoUser
    /\ UNCHANGED <<ledger, nftVars, poolVars, loanVars, paramVars, paused>>

SetPaused(b) ==
    /\ paused' = b
    /\ UNCHANGED <<ledger, nftVars, poolVars, loanVars, paramVars, admin, proposedAdmin>>

------------------------------------------------------------------------------
(* The lending pool's own depositors and admin (LendingPool).               *)

PoolMoves(balance) ==
    /\ poolBalance' = balance
    /\ UNCHANGED <<ledger, nftVars, poolPaused, loanVars, paramVars, adminVars>>

SetPoolPaused(b) ==
    /\ poolPaused' = b
    /\ UNCHANGED <<ledger, nftVars, poolBalance, loanVars, paramVars, adminVars>>

------------------------------------------------------------------------------
BorrowerStep ==
    \/ \E b \in Users, n \in Amounts : RequestLoan(b, n)
    \/ \E i \in LoanIds :
          \/ \E n \in Amounts : Repay(i, n) \/ DepositCollateral(i, n)
          \/ \E t \in Terms : ExtendLoan(i, t)
          \/ CancelLoan(i)
          \/ ReleaseCollateral(i)
          \/ Liquidate(i)

AdminLoanStep ==
    \/ \E i \in LoanIds :
          \/ ApproveLoan(i) \/ RejectLoan(i) \/ PurgeLoan(i) \/ CheckDefault(i)
          \/ \E n \in Amounts, t \in Terms : RefinanceLoan(i, n, t)
    \/ \E ids \in SUBSET LoanIds : CheckDefaults(ids)

ConfigStep ==
    \/ \E v \in Settings["minScore"] : SetMinScore(v)
    \/ \E v \in Settings["maxLoan"]  : SetMaxLoanAmount(v)
    \/ \E v \in Settings["minRepay"] : SetMinRepaymentAmount(v)
    \/ \E v \in Settings["maxLoans"] : SetMaxLoansPerBorrower(v)
    \/ \E v \in Settings["rate"]     : SetInterestRate(v)
    \/ \E v \in Settings["minRate"]  : SetMinRate(v)
    \/ \E v \in Settings["maxRate"]  : SetMaxRate(v)
    \/ \E v \in Settings["term"]     : SetDefaultTerm(v)
    \/ \E v \in Settings["minTerm"]  : SetMinTerm(v)
    \/ \E v \in Settings["maxTerm"]  : SetMaxTerm(v)
    \/ \E v \in Settings["grace"]    : SetGracePeriod(v)
    \/ \E v \in Settings["window"]   : SetDefaultWindow(v)
    \/ SetRateOracle

RiskStep ==
    \E p \in RiskParams :
        \/ \E v \in Settings[p] : ProposeRiskChange(p, v)
        \/ ExecuteRiskChange(p)
        \/ CancelRiskChange(p)

AdminStep ==
    \/ \E a \in Users : ProposeAdmin(a)
    \/ AcceptAdmin
    \/ \E b \in BOOLEAN : SetPaused(b)

EnvironmentStep ==
    \/ LedgerClose /\ UNCHANGED <<nftVars, poolVars, loanVars, paramVars, adminVars>>
    \/ \E n \in PoolFunds : PoolMoves(n)
    \/ \E b \in BOOLEAN : SetPoolPaused(b)
    \/ NftStep /\ UNCHANGED <<ledger, poolVars, loanVars, paramVars, adminVars>>

Next == BorrowerStep \/ AdminLoanStep \/ ConfigStep \/ RiskStep \/ AdminStep
        \/ EnvironmentStep

Spec == Init /\ [][Next]_vars

------------------------------------------------------------------------------
(* Properties.                                                              *)

Statuses == {"Absent", "Pending", "Approved", "Repaid", "Defaulted", "Liquidated",
             "Cancelled", "Rejected"}

Loan == [borrower : Users \cup {NoUser}, amount : Nat, collateral : Nat,
         principalPaid : Nat, interestPaid : Nat, interest : Nat, lateFeePaid : Nat,
         lateFee : Nat, rate : Nat, due : Nat, lastInterest : Nat, lastLateFee : Nat,
         residual : Nat, extensions : Nat, status : Statuses]

(* The storage keys hold values of the types lib.rs declares; no i128       *)
(* amount of a loan, and no total, is ever negative.                        *)
TypeOK ==
    /\ ledger \in Nat
    /\ poolBalance \in Nat /\ poolPaused \in BOOLEAN
    /\ held \in Nat
    /\ loans \in [LoanIds -> Loan]
    /\ loanCounter \in 0..MaxLoanId
    /\ loanCount \in [Users -> Nat]
    /\ borrowerLoans \in [Users -> SUBSET LoanIds]
    /\ outstanding \in Nat
    /\ config \in [ConfigFields -> Nat] /\ oracle \in BOOLEAN
    /\ risk \in [RiskParams -> Nat]
    /\ pending \in [RiskParams -> [value : Nat, eta : Nat]]
    /\ admin \in Users /\ proposedAdmin \in Users \cup {NoUser}
    /\ paused \in BOOLEAN

WithStatus(S) == {i \in LoanIds : loans[i].status \in S}

OutstandingIsApproved ==
    outstanding = Sum([i \in LoanIds |-> loans[i].amount], WithStatus({"Approved"}))

CountIsOpenLoans ==
    \A b \in Users :
        loanCount[b] =
          Cardinality({i \in WithStatus({"Pending", "Approved", "Cancelled", "Rejected"}) :
                          loans[i].borrower = b})

LoansListedOnce ==
    /\ \A i \in LoanIds : loans[i].status # "Absent" =>
          /\ i <= loanCounter
          /\ \A b \in Users : i \in borrowerLoans[b] <=> b = loans[i].borrower
    /\ \A b \in Users : borrowerLoans[b] \subseteq 1..loanCounter

PrincipalNotOverpaid ==
    \A i \in LoanIds :
        /\ loans[i].principalPaid <= loans[i].amount
        /\ loans[i].status = "Repaid" => FullyRepaid(loans[i])

(* The books kept beside the loans agree with them.  TotalOutstanding,      *)
(* which approve_loan and refinance_loan subtract from the pool's balance,  *)
(* is the sum of the amounts of the approved loans: every way out of        *)
(* Approved gives back what is recorded then, after any refinancing.        *)
(* BorrowerLoanCount, which request_loan compares with the limit, counts    *)
(* the borrower's open requests and loans, and the cancelled and rejected   *)
(* ones until they are purged.  BorrowerLoans lists a loan for its borrower *)
(* and nobody else, and ids are handed out once.  No repayment, partial or  *)
(* final, pays more than the principal, and a repaid loan has nothing left  *)
(* to pay.                                                                  *)
BooksBalance ==
    OutstandingIsApproved /\ CountIsOpenLoans /\ LoansListedOnce /\ PrincipalNotOverpaid

(* The contract holds exactly the collateral its loans record, and only     *)
(* approved loans have any: every call that ends a loan pays all of it out, *)
(* once, and never from another loan's.                                     *)
CollateralIsHeld ==
    /\ held = Sum([i \in LoanIds |-> loans[i].collateral], LoanIds)
    /\ \A i \in LoanIds : loans[i].collateral > 0 => loans[i].status = "Approved"

(* What set_grace_period and set_default_window keep: a step in the proof   *)
(* that nobody is defaulted in the grace period.                            *)
GraceWithinWindow == config["grace"] <= config["window"]

(* For every debt a loan can reach and every amount up to it, the split     *)
(* loop terminates without panicking, allocates the whole amount and        *)
(* overpays no bucket.                                                      *)
SplitIsExact ==
    \A i \in WithStatus({"Approved"}) :
        LET l == Accrued(loans[i])
        IN  \A n \in 1..Debt(l) :
                /\ SplitDefined(l, n)
                /\ Split(l, n, 1) + Split(l, n, 2) + Split(l, n, 3) = n
                /\ \A k \in Buckets : Split(l, n, k) <= Dues(l)[k]

Transitions ==
    {<<"Absent", "Pending">>, <<"Pending", "Approved">>, <<"Pending", "Cancelled">>,
     <<"Pending", "Rejected">>, <<"Approved", "Repaid">>, <<"Approved", "Defaulted">>,
     <<"Repaid", "Absent">>, <<"Cancelled", "Absent">>, <<"Rejected", "Absent">>}

(* A loan changes status only along the state machine; a repaid or          *)
(* liquidated loan is never reopened, a defaulted one at most liquidated,   *)
(* and a purged id is never reused.  From where a loan is liquidated is not *)
(* part of this.                                                            *)
StatusMachine ==
    [][\A i \in LoanIds :
          loans'[i].status \notin {loans[i].status, "Liquidated"} =>
             /\ <<loans[i].status, loans'[i].status>> \in Transitions
             /\ loans[i].status = "Absent" => i > loanCounter]_vars

(* No loan is defaulted while its borrower is in the grace period, whatever *)
(* the admin does to the two windows.                                       *)
NoDefaultInGrace ==
    [][\A i \in LoanIds :
          loans[i].status = "Approved" /\ loans'[i].status = "Defaulted" =>
             ledger > GraceEnds(loans[i])]_vars

(* While any of the three contracts is paused no credit is given, repaid or *)
(* written off: the debts and their total stay as they are.                 *)
PauseFreezesDebt ==
    [][paused \/ poolPaused \/ nftPaused =>
          /\ outstanding' = outstanding
          /\ \A i \in WithStatus({"Approved"}) : loans'[i] = loans[i]]_vars

(* Whoever defaults while holding an NFT is barred from new credit: the     *)
(* NFT is flagged as seized or, after too many defaults, burned.            *)
DefaultMarksBorrower ==
    [][\A i \in LoanIds :
          LET b == loans[i].borrower
          IN  /\ loans[i].status = "Approved" /\ loans'[i].status = "Defaulted"
              /\ HasActiveNft(nft'[b])
              => nft'[b].seized]_vars
==============================================================================

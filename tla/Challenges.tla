------------------------------ MODULE Challenges ------------------------------
(***************************************************************************)
(* Wallet authentication: a challenge is stored when it is issued and      *)
(* consumed by the login that presents it signed.  Logins overlap and are  *)
(* sent again, challenges expire while a login is under way, expired rows  *)
(* are cleaned up in batches, and the database may fail.                   *)
(*                                                                         *)
(* A challenge's message, nonce and time of issue are one value; the       *)
(* signature is abstracted to whose key made it.                           *)
(***************************************************************************)
EXTENDS Naturals, FiniteSets

CONSTANTS
    Wallets,
    ChallengeIds,       \* random nonces
    Logins,             \* overlapping login requests
    CleanupBatch        \* EXPIRED_ROW_CLEANUP_BATCH_SIZE

ASSUME ChallengeAssumption ==
    CleanupBatch \in Nat \ {0} /\ Wallets # {} /\ ChallengeIds # {}

VARIABLES
    challengeRow,   \* auth_challenge_nonces: "none", "issued", "consumed" or "deleted"
    challengeFor,   \* challenge -> the wallet it was issued to
    stale,          \* challenges whose five minutes are over
    loginCall,      \* logins under way
    tokens          \* challenge -> how many tokens were signed for it

challengeVars == <<challengeRow, challengeFor, stale, loginCall, tokens>>

-------------------------------------------------------------------------------
NoLogin == [pc |-> "idle", challenge |-> CHOOSE c \in ChallengeIds : TRUE,
            wallet |-> CHOOSE w \in Wallets : TRUE]

ChallengeInit ==
    /\ challengeRow = [c \in ChallengeIds |-> "none"]
    /\ challengeFor = [c \in ChallengeIds |-> CHOOSE w \in Wallets : TRUE]
    /\ stale = {}
    /\ loginCall = [q \in Logins |-> NoLogin]
    /\ tokens = [c \in ChallengeIds |-> 0]

(* The oldest expired rows are deleted, up to the batch size.               *)
Cleanup(deleted) ==
    LET expired == {c \in stale : challengeRow[c] \in {"issued", "consumed"}}
    IN  /\ deleted \subseteq expired
        /\ Cardinality(deleted) = IF Cardinality(expired) < CleanupBatch
                                  THEN Cardinality(expired) ELSE CleanupBatch

(* issueChallenge: clean up, then insert; either query may fail.            *)
IssueChallenge(c, wallet) ==
    /\ challengeRow[c] = "none"
    /\ \E deleted \in SUBSET stale, inserted \in BOOLEAN :
          /\ Cleanup(deleted)
          /\ challengeRow' = [d \in ChallengeIds |->
                                IF d \in deleted THEN "deleted"
                                ELSE IF d = c /\ inserted THEN "issued"
                                ELSE challengeRow[d]]
          /\ challengeFor' = IF inserted THEN [challengeFor EXCEPT ![c] = wallet] ELSE challengeFor
    /\ UNCHANGED <<stale, loginCall, tokens>>

ChallengeExpires(c) ==
    /\ challengeRow[c] # "none" /\ c \notin stale
    /\ stale' = stale \cup {c}
    /\ UNCHANGED <<challengeRow, challengeFor, loginCall, tokens>>

(* login up to its synchronous checks: the message is recent and carries    *)
(* the signature of the wallet that calls.                                  *)
StartLogin(q, c, wallet) ==
    /\ loginCall[q].pc = "idle" /\ challengeRow[c] # "none" /\ c \notin stale
    /\ loginCall' = [loginCall EXCEPT ![q] = [pc |-> "consume", challenge |-> c, wallet |-> wallet]]
    /\ UNCHANGED <<challengeRow, challengeFor, stale, tokens>>

\* Mutant: the row is consumed whether or not it was before.
ConsumableAgain(c, wallet) ==
    /\ challengeRow[c] \in {"issued", "consumed"}
    /\ challengeFor[c] = wallet /\ c \notin stale

Consumable(c, wallet) ==
    /\ challengeRow[c] = "issued"
    /\ challengeFor[c] = wallet /\ c \notin stale

(* consumeChallenge, one conditional UPDATE; the database may fail before   *)
(* or after it has been applied, and the login with it.                     *)
ConsumeChallenge(q) ==
    LET c == loginCall[q].challenge
    IN  /\ loginCall[q].pc = "consume"
        /\ \/ /\ Consumable(c, loginCall[q].wallet)
              /\ challengeRow' = [challengeRow EXCEPT ![c] = "consumed"]
              /\ \/ loginCall' = [loginCall EXCEPT ![q].pc = "token"]
                 \/ loginCall' = [loginCall EXCEPT ![q] = NoLogin]
           \/ /\ loginCall' = [loginCall EXCEPT ![q] = NoLogin]
              /\ UNCHANGED challengeRow
        /\ UNCHANGED <<challengeFor, stale, tokens>>

SignToken(q) ==
    LET c == loginCall[q].challenge
    IN  /\ loginCall[q].pc = "token"
        /\ tokens' = [tokens EXCEPT ![c] = @ + 1]
        /\ loginCall' = [loginCall EXCEPT ![q] = NoLogin]
        /\ UNCHANGED <<challengeRow, challengeFor, stale>>

(* The process of a login stops. *)
LoginLost(q) ==
    /\ loginCall[q].pc # "idle"
    /\ loginCall' = [loginCall EXCEPT ![q] = NoLogin]
    /\ UNCHANGED <<challengeRow, challengeFor, stale, tokens>>

ChallengeNext ==
    \/ \E c \in ChallengeIds :
          \/ ChallengeExpires(c)
          \/ \E w \in Wallets : IssueChallenge(c, w) \/ \E q \in Logins : StartLogin(q, c, w)
    \/ \E q \in Logins : ConsumeChallenge(q) \/ SignToken(q) \/ LoginLost(q)

ChallengeSpec == ChallengeInit /\ [][ChallengeNext]_challengeVars

-------------------------------------------------------------------------------
(* Every variable has its type. *)
ChallengeTypeOK ==
    /\ challengeRow \in [ChallengeIds -> {"none", "issued", "consumed", "deleted"}]
    /\ challengeFor \in [ChallengeIds -> Wallets]
    /\ stale \subseteq ChallengeIds
    /\ loginCall \in [Logins -> [pc : {"idle", "consume", "token"}, challenge : ChallengeIds,
                                 wallet : Wallets]]
    /\ tokens \in [ChallengeIds -> Nat]

(* A challenge signs in once: however often its login is sent, overlaps,    *)
(* or is lost, and whenever its row is cleaned up, at most one token is     *)
(* signed or about to be signed for it, and that for the wallet it was      *)
(* issued to.                                                               *)
OneLoginPerChallenge ==
    \A c \in ChallengeIds :
        LET about == {q \in Logins : loginCall[q].pc = "token" /\ loginCall[q].challenge = c}
        IN  /\ tokens[c] + Cardinality(about) <= 1
            /\ \A q \in about : loginCall[q].wallet = challengeFor[c]
===============================================================================

--------------------------- MODULE PrivilegedActions ---------------------------
(***************************************************************************)
(* Dual control over high-impact admin actions: a request that one admin   *)
(* opens, another approves, either may revoke, and either may execute,     *)
(* while calls overlap, approvals expire, executors fail half-way and      *)
(* processes stop.  The executor resolves a discrepancy or submits a       *)
(* configuration transaction signed beforehand.                            *)
(*                                                                         *)
(* A payload is abstracted to what it acts on, and stands for its hash.    *)
(***************************************************************************)
EXTENDS Naturals, FiniteSets

CONSTANTS
    Admins, NoAdmin,
    PrivRequests,    \* rows of privileged_action_requests
    Discrepancies,   \* rows of reconciliation_discrepancies
    ConfigChange,    \* the payload that is a configuration transaction
    ExecuteCalls     \* overlapping calls of executeRequest

ASSUME PrivilegedAssumption ==
    NoAdmin \notin Admins /\ ConfigChange \notin Discrepancies /\ PrivRequests # {}

VARIABLES
    privRequest,     \* the rows
    openDiscrepancies,
    executeCall,     \* the calls of executeRequest under way
    effects          \* request -> how often its executor has taken effect

privilegedVars == <<privRequest, openDiscrepancies, executeCall, effects>>

-------------------------------------------------------------------------------
Payloads == Discrepancies \cup {ConfigChange}

NoPrivRequest == [status |-> "none", initiator |-> NoAdmin, approver |-> NoAdmin,
                  payload |-> ConfigChange, expired |-> FALSE]

NoCall == [pc |-> "idle", request |-> CHOOSE r \in PrivRequests : TRUE, by |-> NoAdmin]

PrivilegedInit ==
    /\ privRequest = [r \in PrivRequests |-> NoPrivRequest]
    /\ openDiscrepancies = Discrepancies
    /\ executeCall = [c \in ExecuteCalls |-> NoCall]
    /\ effects = [r \in PrivRequests |-> 0]

CreateRequest(r, by, payload) ==
    /\ privRequest[r].status = "none"
    /\ privRequest' = [privRequest EXCEPT ![r] =
           [NoPrivRequest EXCEPT !.status = "pending", !.initiator = by, !.payload = payload]]
    /\ UNCHANGED <<openDiscrepancies, executeCall, effects>>

(* One conditional UPDATE, bound to the payload the approver has reviewed.  *)
ApproveRequest(r, by, reviewed) ==
    /\ privRequest[r].status = "pending" /\ ~privRequest[r].expired
    /\ privRequest[r].initiator # by
    /\ privRequest[r].payload = reviewed
    /\ privRequest' = [privRequest EXCEPT ![r].status = "approved", ![r].approver = by]
    /\ UNCHANGED <<openDiscrepancies, executeCall, effects>>

RevokeRequest(r, by) ==
    /\ privRequest[r].status \in {"pending", "approved"}
    /\ by \in {privRequest[r].initiator, privRequest[r].approver}
    /\ privRequest' = [privRequest EXCEPT ![r].status = "revoked"]
    /\ UNCHANGED <<openDiscrepancies, executeCall, effects>>

RequestExpires(r) ==
    /\ privRequest[r].status # "none" /\ ~privRequest[r].expired
    /\ privRequest' = [privRequest EXCEPT ![r].expired = TRUE]
    /\ UNCHANGED <<openDiscrepancies, executeCall, effects>>

(* executeRequest reads the row and compares its hash with its payload.     *)
ReadRequest(c, r, by) ==
    /\ executeCall[c].pc = "idle" /\ privRequest[r].status # "none"
    /\ executeCall' = [executeCall EXCEPT ![c] = [pc |-> "claim", request |-> r, by |-> by]]
    /\ UNCHANGED <<privRequest, openDiscrepancies, effects>>

Claimable(row, by) ==
    /\ row.status = "approved" /\ ~row.expired
    /\ by \in {row.initiator, row.approver}

\* Mutant: the claim does not look at the status again.
ClaimUnconditionally(c) ==
    LET r == executeCall[c].request
    IN  /\ executeCall[c].pc = "claim"
        /\ privRequest[r].approver # NoAdmin
        /\ privRequest' = [privRequest EXCEPT ![r].status = "executing"]
        /\ executeCall' = [executeCall EXCEPT ![c].pc = "execute"]
        /\ UNCHANGED <<openDiscrepancies, effects>>

(* The claim is one conditional UPDATE; who does not get it is refused.     *)
ClaimRequest(c) ==
    LET r == executeCall[c].request
    IN  /\ executeCall[c].pc = "claim"
        /\ IF Claimable(privRequest[r], executeCall[c].by)
           THEN /\ privRequest' = [privRequest EXCEPT ![r].status = "executing"]
                /\ executeCall' = [executeCall EXCEPT ![c].pc = "execute"]
           ELSE /\ executeCall' = [executeCall EXCEPT ![c] = NoCall]
                /\ UNCHANGED privRequest
        /\ UNCHANGED <<openDiscrepancies, effects>>

(* The executor.  A discrepancy is resolved in a transaction that first     *)
(* locks the row and requires it to be open; a configuration transaction is *)
(* submitted, and the network may or may not take it.  Either may also      *)
(* throw after it has taken effect.                                         *)
RunExecutor(c) ==
    LET r == executeCall[c].request
        target == privRequest[r].payload
    IN  /\ executeCall[c].pc = "execute"
        /\ \/ /\ target \in openDiscrepancies \cup {ConfigChange}
              /\ effects' = [effects EXCEPT ![r] = @ + 1]
              /\ openDiscrepancies' = openDiscrepancies \ {target}
              /\ \E pc \in {"record", "fail"} : executeCall' = [executeCall EXCEPT ![c].pc = pc]
           \/ /\ \/ executeCall' = [executeCall EXCEPT ![c].pc = "fail"]
                 \/ target = ConfigChange /\ executeCall' = [executeCall EXCEPT ![c].pc = "record"]
              /\ UNCHANGED <<effects, openDiscrepancies>>
        /\ UNCHANGED privRequest

(* The outcome is written by id; a failing write is caught and the request  *)
(* recorded as failed.                                                      *)
RecordOutcome(c) ==
    LET r == executeCall[c].request
    IN  /\ \/ /\ executeCall[c].pc = "record"
              /\ \/ /\ privRequest' = [privRequest EXCEPT ![r].status = "executed"]
                    /\ executeCall' = [executeCall EXCEPT ![c] = NoCall]
                 \/ /\ executeCall' = [executeCall EXCEPT ![c].pc = "fail"]
                    /\ UNCHANGED privRequest
           \/ /\ executeCall[c].pc = "fail"
              /\ privRequest' = [privRequest EXCEPT ![r].status = "failed"]
              /\ executeCall' = [executeCall EXCEPT ![c] = NoCall]
        /\ UNCHANGED <<openDiscrepancies, effects>>

(* The process of a call stops, or its last write fails. *)
CallLost(c) ==
    /\ executeCall[c].pc # "idle"
    /\ executeCall' = [executeCall EXCEPT ![c] = NoCall]
    /\ UNCHANGED <<privRequest, openDiscrepancies, effects>>

PrivilegedNext ==
    \/ \E r \in PrivRequests :
          \/ RequestExpires(r)
          \/ \E by \in Admins :
                \/ RevokeRequest(r, by)
                \/ \E p \in Payloads : CreateRequest(r, by, p) \/ ApproveRequest(r, by, p)
                \/ \E c \in ExecuteCalls : ReadRequest(c, r, by)
    \/ \E c \in ExecuteCalls :
          ClaimRequest(c) \/ RunExecutor(c) \/ RecordOutcome(c) \/ CallLost(c)

PrivilegedSpec == PrivilegedInit /\ [][PrivilegedNext]_privilegedVars

-------------------------------------------------------------------------------
(* Every variable has its type. *)
PrivilegedTypeOK ==
    /\ privRequest \in
         [PrivRequests -> [status : {"none", "pending", "approved", "revoked", "executing",
                                     "executed", "failed"},
                           initiator : Admins \cup {NoAdmin}, approver : Admins \cup {NoAdmin},
                           payload : Payloads, expired : BOOLEAN]]
    /\ openDiscrepancies \subseteq Discrepancies
    /\ executeCall \in [ExecuteCalls -> [pc : {"idle", "claim", "execute", "record", "fail"},
                                         request : PrivRequests, by : Admins \cup {NoAdmin}]]
    /\ effects \in [PrivRequests -> Nat]

Claimed == {"executing", "executed", "failed"}

(* Whatever calls overlap, expire, fail or are lost, a privileged action    *)
(* takes effect at most once per request, only under the approval of a      *)
(* second admin, never for a revoked request; and each discrepancy is       *)
(* resolved by one request only.                                            *)
DualControl ==
    /\ \A r \in PrivRequests : effects[r] > 0 =>
          /\ effects[r] = 1
          /\ privRequest[r].approver \in Admins \ {privRequest[r].initiator}
          /\ privRequest[r].status \in Claimed
    /\ \A r, s \in PrivRequests :
          /\ effects[r] > 0 /\ effects[s] > 0
          /\ privRequest[r].payload = privRequest[s].payload
          /\ privRequest[r].payload # ConfigChange
          => r = s
================================================================================

------------------------------ MODULE Remittances ------------------------------
(***************************************************************************)
(* Remittances behind the idempotency middleware: requests that create a   *)
(* remittance or submit its signed payment, each looked up under its       *)
(* Idempotency-Key before it runs and remembered after it has finished,    *)
(* while clients retry, requests overlap and processes stop.               *)
(*                                                                         *)
(* A response is abstracted to its class: "ok", "refused" (4xx) or "error" *)
(* (5xx).  A signed payment carries one account sequence number, so the    *)
(* network takes it at most once however often it is sent.  It arrives in  *)
(* the body of the submission and is not compared with the payment built   *)
(* for the remittance named in the path.                                   *)
(***************************************************************************)
EXTENDS Naturals, FiniteSets

CONSTANTS
    RemittanceIds,       \* ids a created row may get
    NoRemittance,
    HttpRequests,        \* requests in flight
    IdempotencyKeys,
    MaxRequests,         \* bound on requests received
    Senders, Owner       \* who calls; every remittance is Owner's

ASSUME RemittanceAssumption ==
    NoRemittance \notin RemittanceIds /\ MaxRequests \in Nat /\ Owner \in Senders

VARIABLES
    remittances,   \* id -> status and whether a transaction hash is stored
    paid,          \* payments the network has taken, and under which id they were sent
    replies,       \* idempotency cache: key -> class of the stored response
    http,          \* requests in flight
    received       \* requests received so far

remittanceVars == <<remittances, paid, replies, http, received>>

-------------------------------------------------------------------------------
NoRequest == [pc |-> "idle", key |-> "none", id |-> NoRemittance, by |-> Owner, reply |-> "none"]

Absent == [status |-> "none", hash |-> FALSE]

RemittanceInit ==
    /\ remittances = [i \in RemittanceIds |-> Absent]
    /\ paid = {}
    /\ replies = [k \in IdempotencyKeys |-> "none"]
    /\ http = [q \in HttpRequests |-> NoRequest]
    /\ received = 0

Step(q, pc) == http' = [http EXCEPT ![q].pc = pc]

Reply(q, class) == http' = [http EXCEPT ![q].pc = "finish", ![q].reply = class]

(* What the handler throws, or a database call in it, ends in its catch     *)
(* block.                                                                   *)
Throw(q, class) == http' = [http EXCEPT ![q].pc = "catch", ![q].reply = class]

(* idempotencyMiddleware: a stored response is replayed and the request     *)
(* ends; otherwise, or when the cache cannot be read, the handler runs.     *)
Receive(q, key, id, by) ==
    /\ http[q].pc = "idle" /\ received < MaxRequests
    /\ received' = received + 1
    /\ \E hit \in {TRUE, FALSE} :
          /\ hit => replies[key] # "none"
          /\ http' = IF hit THEN http
                     ELSE [http EXCEPT ![q] = [NoRequest EXCEPT
                              !.pc = IF id = NoRemittance THEN "create" ELSE "read",
                              !.key = key, !.id = id, !.by = by]]
    /\ UNCHANGED <<remittances, paid, replies>>

(* createRemittance: the row is inserted as pending, or building the        *)
(* payment or the insert fails and nothing is stored.                       *)
CreateRemittance(q) ==
    /\ http[q].pc = "create"
    /\ \/ /\ \E i \in RemittanceIds :
                /\ remittances[i] = Absent
                /\ remittances' = [remittances EXCEPT ![i].status = "pending"]
          /\ Reply(q, "ok")
       \/ /\ Reply(q, "error")
          /\ UNCHANGED remittances
    /\ UNCHANGED <<paid, replies, received>>

Status(id, status, hash) == [remittances EXCEPT ![id] = [status |-> status, hash |-> hash]]

(* submitRemittanceTransaction, up to its checks. *)
ReadForSubmit(q) ==
    LET id == http[q].id
    IN  /\ http[q].pc = "read"
        /\ remittances[id].status # "none"
        /\ \/ IF http[q].by = Owner /\ remittances[id].status = "pending"
              THEN Step(q, "mark") ELSE Throw(q, "refused")
           \/ Throw(q, "error")
        /\ UNCHANGED <<remittances, paid, replies, received>>

\* Mutant: the row is marked only after the payment has been sent.
MarkLate(q) ==
    /\ http[q].pc = "mark"
    /\ Step(q, "submit")
    /\ UNCHANGED <<remittances, paid, replies, received>>

MarkProcessing(q) ==
    /\ http[q].pc = "mark"
    /\ \/ remittances' = Status(http[q].id, "processing", FALSE) /\ Step(q, "submit")
       \/ UNCHANGED remittances /\ Throw(q, "error")
    /\ UNCHANGED <<paid, replies, received>>

(* submitSignedTx sends the payment of the body, whichever remittance it    *)
(* was built for, and returns a hash and a status that is not looked at -   *)
(* the payment may be confirmed, known already, rejected, queued or not     *)
(* found yet - or throws, before or after the network has taken it.         *)
SubmitPayment(q) ==
    /\ http[q].pc = "submit"
    /\ \/ UNCHANGED paid
       \/ \E x \in RemittanceIds :
             /\ remittances[x] # Absent /\ \A t \in paid : t.payment # x
             /\ paid' = paid \cup {[under |-> http[q].id, payment |-> x]}
    /\ Step(q, "complete") \/ Throw(q, "error")
    /\ UNCHANGED <<remittances, replies, received>>

MarkCompleted(q) ==
    /\ http[q].pc = "complete"
    /\ \/ remittances' = Status(http[q].id, "completed", TRUE) /\ Step(q, "notify")
       \/ UNCHANGED remittances /\ Throw(q, "error")
    /\ UNCHANGED <<paid, replies, received>>

(* The notification is awaited: its failure is caught like any other.       *)
NotifySender(q) ==
    /\ http[q].pc = "notify"
    /\ Reply(q, "ok") \/ Throw(q, "error")
    /\ UNCHANGED <<remittances, paid, replies, received>>

(* The catch block: failed, without a hash, whatever the row says.  If that *)
(* query fails too, its error takes the place of the first.                 *)
MarkFailed(q) ==
    /\ http[q].pc = "catch"
    /\ \/ remittances' = Status(http[q].id, "failed", FALSE) /\ Step(q, "finish")
       \/ UNCHANGED remittances /\ Reply(q, "error")
    /\ UNCHANGED <<paid, replies, received>>

(* The response goes out; unless it is a 5xx it is stored under the key,    *)
(* which a failing cache skips.                                             *)
Respond(q) ==
    /\ http[q].pc = "finish"
    /\ \/ /\ http[q].reply # "error"
          /\ replies' = [replies EXCEPT ![http[q].key] = http[q].reply]
       \/ UNCHANGED replies
    /\ http' = [http EXCEPT ![q] = NoRequest]
    /\ UNCHANGED <<remittances, paid, received>>

(* The process stops; the client may send the request again.                *)
RequestLost(q) ==
    /\ http[q].pc # "idle"
    /\ http' = [http EXCEPT ![q] = NoRequest]
    /\ UNCHANGED <<remittances, paid, replies, received>>

RemittanceNext ==
    \E q \in HttpRequests :
        \/ \E key \in IdempotencyKeys, by \in Senders : Receive(q, key, NoRemittance, by)
        \/ \E key \in IdempotencyKeys, by \in Senders, id \in RemittanceIds :
              remittances[id] # Absent /\ Receive(q, key, id, by)
        \/ CreateRemittance(q) \/ ReadForSubmit(q) \/ MarkProcessing(q) \/ SubmitPayment(q)
        \/ MarkCompleted(q) \/ NotifySender(q) \/ MarkFailed(q) \/ Respond(q)
        \/ RequestLost(q)

RemittanceSpec == RemittanceInit /\ [][RemittanceNext]_remittanceVars

-------------------------------------------------------------------------------
(* Every variable has its type. *)
RemittanceTypeOK ==
    /\ remittances \in [RemittanceIds -> [status : {"none", "pending", "processing", "completed",
                                                    "failed"}, hash : BOOLEAN]]
    /\ paid \subseteq [under : RemittanceIds, payment : RemittanceIds]
    /\ replies \in [IdempotencyKeys -> {"none", "ok", "refused"}]
    /\ http \in [HttpRequests ->
                   [pc : {"idle", "create", "read", "mark", "submit", "complete", "notify", "catch",
                          "finish"},
                    key : IdempotencyKeys \cup {"none"},
                    id : RemittanceIds \cup {NoRemittance}, by : Senders,
                    reply : {"none", "ok", "refused", "error"}]]
    /\ received \in 0..MaxRequests

(* A remittance under which the network has taken a payment is not offered  *)
(* for submission again, through overlapping submissions, lost requests,    *)
(* failing queries and retries.  (The payment may have been built for       *)
(* another remittance, of which nothing is said.)                           *)
SubmittedIsNeverPending == \A t \in paid : remittances[t.under].status # "pending"
================================================================================

------------------------------- MODULE Webhooks -------------------------------
(***************************************************************************)
(* Delivery of one indexed event to one webhook subscription: the first    *)
(* request, made before any row exists; passes of the retry processor,     *)
(* which the 10 second interval starts whether or not the last one has     *)
(* ended; and the owner deleting the subscription meanwhile.  Rows of      *)
(* different subscriptions and events never touch each other, so one row   *)
(* is enough.  Callback URLs, payloads and the subscription's audit trail  *)
(* are left out.                                                           *)
(*                                                                         *)
(* The query of processRetries names the column id of two joined tables    *)
(* that both have one, which Postgres refuses, so retryWebhookDelivery is  *)
(* never called, no row is ever dead-lettered, and there is none to        *)
(* re-drive.                                                               *)
(*                                                                         *)
(* Time is abstracted: a scheduled retry is "waiting" until it is "due".   *)
(* A process that restarts forgets what it had sent and not yet recorded.  *)
(***************************************************************************)
EXTENDS Naturals

CONSTANTS
    Passes,             \* overlapping passes of the retry processor
    MaxWebhookFaults    \* bound on failing queries and restarts

VARIABLES
    subscribed,    \* the subscription exists
    sender,        \* where sendToWebhook is
    delivery,      \* the row of webhook_deliveries: "none", or what became of it
    pass,          \* each pass: where it is
    webhookFaults

webhookVars == <<subscribed, sender, delivery, pass, webhookFaults>>

-------------------------------------------------------------------------------
WebhookInit ==
    /\ subscribed = TRUE
    /\ sender = [pc |-> "idle", ok |-> FALSE]
    /\ delivery = "none"
    /\ pass = [p \in Passes |-> "idle"]
    /\ webhookFaults = 0

WebhookFault == webhookFaults < MaxWebhookFaults /\ webhookFaults' = webhookFaults + 1

(* dispatch finds the subscription; the request goes out before any row.    *)
Dispatch ==
    /\ sender.pc = "idle" /\ subscribed
    /\ sender' = [sender EXCEPT !.pc = "post"]
    /\ UNCHANGED <<subscribed, delivery, pass, webhookFaults>>

(* postWebhook: an answer, with a 2xx status or another; or a timeout or an *)
(* answer lost, which is caught.                                            *)
PostFirst ==
    /\ sender.pc = "post"
    /\ \/ \E ok \in BOOLEAN : sender' = [pc |-> "insert", ok |-> ok]
       \/ sender' = [sender EXCEPT !.pc = "catch"]
    /\ UNCHANGED <<subscribed, delivery, pass, webhookFaults>>

(* An INSERT that succeeds, or that the database or the foreign key to the  *)
(* subscription refuses.                                                    *)
Inserts(row) == subscribed /\ delivery' = row /\ UNCHANGED webhookFaults

Refused ==
    /\ UNCHANGED delivery
    /\ \/ WebhookFault
       \/ ~subscribed /\ UNCHANGED webhookFaults

(* The row is inserted with what the request returned; an INSERT refused is *)
(* caught like a request that failed, a request answered 2xx included.      *)
InsertDelivery ==
    /\ sender.pc = "insert"
    /\ \/ /\ Inserts(IF sender.ok THEN "delivered" ELSE "waiting")
          /\ sender' = [sender EXCEPT !.pc = "done"]
       \/ Refused /\ sender' = [sender EXCEPT !.pc = "catch"]
    /\ UNCHANGED <<subscribed, pass>>

(* The catch block schedules the first retry; what it throws is logged.     *)
InsertFailed ==
    /\ sender.pc = "catch"
    /\ Inserts("waiting") \/ Refused
    /\ sender' = [sender EXCEPT !.pc = "done"]
    /\ UNCHANGED <<subscribed, pass>>

RetryComesDue ==
    /\ delivery = "waiting"
    /\ delivery' = "due"
    /\ UNCHANGED <<subscribed, sender, pass, webhookFaults>>

(* The interval starts a pass. *)
ProcessRetries(p) ==
    /\ pass[p] = "idle"
    /\ pass' = [pass EXCEPT ![p] = "query"]
    /\ UNCHANGED <<subscribed, sender, delivery, webhookFaults>>

(* Its query is refused, the error logged, and the pass is over.            *)
RetryQueryFails(p) ==
    /\ pass[p] = "query"
    /\ pass' = [pass EXCEPT ![p] = "idle"]
    /\ UNCHANGED <<subscribed, sender, delivery, webhookFaults>>

(* The deliveries of a deleted subscription go with it. *)
DeleteSubscription ==
    /\ subscribed
    /\ subscribed' = FALSE
    /\ delivery' = "none"
    /\ UNCHANGED <<sender, pass, webhookFaults>>

(* A restart of the process that dispatches and retries. *)
WebhookRestart ==
    /\ WebhookFault
    /\ sender' = IF sender.pc = "idle" THEN sender ELSE [sender EXCEPT !.pc = "done"]
    /\ pass' = [p \in Passes |-> "idle"]
    /\ UNCHANGED <<subscribed, delivery>>

PassStep(p) == ProcessRetries(p) \/ RetryQueryFails(p)

WebhookNext ==
    \/ Dispatch \/ PostFirst \/ InsertDelivery \/ InsertFailed
    \/ RetryComesDue
    \/ \E p \in Passes : PassStep(p)
    \/ DeleteSubscription
    \/ WebhookRestart

(* Requests end (their timeout sees to that), time passes, and the interval *)
(* keeps starting passes.                                                   *)
WebhookFairness ==
    /\ WF_webhookVars(PostFirst \/ InsertDelivery \/ InsertFailed)
    /\ WF_webhookVars(RetryComesDue)
    /\ \A p \in Passes : WF_webhookVars(PassStep(p))

WebhookSpec == WebhookInit /\ [][WebhookNext]_webhookVars /\ WebhookFairness

-------------------------------------------------------------------------------
(* "Webhook delivery fails [...] Exponential backoff to the attempt cap":   *)
(* a recorded delivery does not wait for ever; it is delivered,             *)
(* dead-lettered after its last attempt, or gone with its subscription.     *)
DeliveriesSettle == delivery # "none" ~> delivery \in {"none", "delivered", "dead"}
===============================================================================

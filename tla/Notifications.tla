---------------------------- MODULE Notifications ----------------------------
(***************************************************************************)
(* In-app notifications of one user, from the row to the list on screen:   *)
(* rows are inserted by some process, marked as read and cleaned up; the   *)
(* process that inserts a row pushes it to the event streams connected to  *)
(* that very process; the client keeps what the stream brings under one    *)
(* query key, while the list it shows is another query, fetched when it is *)
(* mounted, invalidated by a mutation, and every 60 seconds.               *)
(*                                                                         *)
(* Notifications are numbered in the order of created_at.                  *)
(***************************************************************************)
EXTENDS Naturals, FiniteSets

CONSTANTS
    NNotes,
    NoteLimit,          \* notifications a list or a stream's first message holds
    ApiProcesses,
    NoProcess,
    MaxConnects         \* bound on attempts to connect the stream

ASSUME NoteAssumption == {NNotes, NoteLimit, MaxConnects} \subseteq Nat

VARIABLES
    noteRow,      \* notification -> the status of its row
    noteStream,   \* the client's stream: where it is and with which process
    streamed,     \* data of the query ["notifications"]
    listQuery,    \* data of the query ["notifications", params]: note -> status
    listFetch,    \* the request for it, if one is under way
    markRequest,  \* the mark-read request under way
    connects      \* attempts to connect

noteVars == <<noteRow, noteStream, streamed, listQuery, listFetch, markRequest, connects>>

-------------------------------------------------------------------------------
Notes == 1..NNotes
Nothing == [n \in Notes |-> "none"]

NoteInit ==
    /\ noteRow = Nothing
    /\ noteStream = [pc |-> "off", process |-> NoProcess]
    /\ streamed = {}
    /\ listQuery = Nothing
    /\ listFetch = [pc |-> "idle", data |-> Nothing]
    /\ markRequest = [pc |-> "idle", ids |-> {}]
    /\ connects = 0

Stored == {n \in Notes : noteRow[n] \in {"unread", "read"}}

(* getNotificationsForUser: the newest rows, up to the limit. *)
Newest == {n \in Stored : Cardinality({m \in Stored : m > n}) < NoteLimit}

Listed == [n \in Notes |-> IF n \in Newest THEN noteRow[n] ELSE "none"]

(* createNotification in process p: the row, then the push to the streams   *)
(* of that process, which the connection may lose.                          *)
CreateNotification(n, p) ==
    /\ noteRow[n] = "none" /\ \A m \in 1..(n - 1) : noteRow[m] # "none"
    /\ noteRow' = [noteRow EXCEPT ![n] = "unread"]
    /\ streamed' \in IF noteStream = [pc |-> "open", process |-> p]
                     THEN {streamed, streamed \cup {n}} ELSE {streamed}
    /\ UNCHANGED <<noteStream, listQuery, listFetch, markRequest, connects>>

(* streamNotifications in process p reads the unread rows and sends them    *)
(* first; it subscribes only after that.                                    *)
ConnectStream(p) ==
    /\ noteStream.pc = "off" /\ connects < MaxConnects
    /\ connects' = connects + 1
    /\ noteStream' = [pc |-> "init", process |-> p]
    /\ streamed' = streamed \cup {n \in Newest : noteRow[n] = "unread"}
    /\ UNCHANGED <<noteRow, listQuery, listFetch, markRequest>>

SubscribeStream ==
    /\ noteStream.pc = "init"
    /\ noteStream' = [noteStream EXCEPT !.pc = "open"]
    /\ UNCHANGED <<noteRow, streamed, listQuery, listFetch, markRequest, connects>>

(* An error is followed by another attempt; a stream that ends in order is  *)
(* not opened again.                                                        *)
StreamEnds ==
    /\ noteStream.pc \in {"init", "open"}
    /\ \E pc \in {"off", "over"} : noteStream' = [pc |-> pc, process |-> NoProcess]
    /\ UNCHANGED <<noteRow, streamed, listQuery, listFetch, markRequest, connects>>

NewListFetch == [pc |-> "sent", data |-> Nothing]

\* Mutant: the list is not polled, and only fetched while it is empty.
PollListOnce ==
    /\ listFetch.pc = "idle" /\ listQuery = Nothing
    /\ listFetch' = NewListFetch
    /\ UNCHANGED <<noteRow, noteStream, streamed, listQuery, markRequest, connects>>

(* refetchInterval, and the fetch on mount. *)
PollList ==
    /\ listFetch.pc = "idle"
    /\ listFetch' = NewListFetch
    /\ UNCHANGED <<noteRow, noteStream, streamed, listQuery, markRequest, connects>>

ListIsServed ==
    /\ listFetch.pc = "sent"
    /\ listFetch' = [pc |-> "answered", data |-> Listed]
    /\ UNCHANGED <<noteRow, noteStream, streamed, listQuery, markRequest, connects>>

(* The answer arrives; or the request fails. *)
ListArrives ==
    /\ listFetch.pc = "answered"
    /\ listQuery' = listFetch.data
    /\ listFetch' = [pc |-> "idle", data |-> Nothing]
    /\ UNCHANGED <<noteRow, noteStream, streamed, markRequest, connects>>

ListFetchFails ==
    /\ listFetch.pc = "sent"
    /\ listFetch' = [pc |-> "idle", data |-> Nothing]
    /\ UNCHANGED <<noteRow, noteStream, streamed, listQuery, markRequest, connects>>

(* The user marks one of the notifications shown, or all of them.           *)
StartMarkRead(ids) ==
    /\ markRequest.pc = "idle"
    /\ \E n \in ids : listQuery[n] = "unread"
    /\ markRequest' = [pc |-> "sent", ids |-> ids]
    /\ UNCHANGED <<noteRow, noteStream, streamed, listQuery, listFetch, connects>>

(* markRead and markAllRead touch unread rows only; the answer may be lost. *)
MarkRead ==
    /\ markRequest.pc = "sent"
    /\ noteRow' = [n \in Notes |-> IF n \in markRequest.ids /\ noteRow[n] = "unread"
                                   THEN "read" ELSE noteRow[n]]
    /\ \E pc \in {"done", "idle"} : markRequest' = [markRequest EXCEPT !.pc = pc]
    /\ UNCHANGED <<noteStream, streamed, listQuery, listFetch, connects>>

(* onSuccess invalidates both queries; only the list has a fetch to start,  *)
(* and it starts afresh.                                                    *)
MarkReadSucceeds ==
    /\ markRequest.pc = "done"
    /\ markRequest' = [pc |-> "idle", ids |-> {}]
    /\ listFetch' = NewListFetch
    /\ UNCHANGED <<noteRow, noteStream, streamed, listQuery, connects>>

(* The clean-up deletes old rows, read ones sooner: the oldest first.       *)
DeleteOldNotifications(n) ==
    /\ n \in Stored /\ \A m \in Stored : m < n => noteRow[m] = "unread" /\ noteRow[n] = "read"
    /\ noteRow' = [noteRow EXCEPT ![n] = "deleted"]
    /\ UNCHANGED <<noteStream, streamed, listQuery, listFetch, markRequest, connects>>

NoteNext ==
    \/ \E n \in Notes, p \in ApiProcesses : CreateNotification(n, p)
    \/ \E n \in Notes : DeleteOldNotifications(n)
    \/ \E p \in ApiProcesses : ConnectStream(p)
    \/ SubscribeStream \/ StreamEnds
    \/ PollList \/ ListIsServed \/ ListArrives \/ ListFetchFails
    \/ \E ids \in {Notes} \cup {{n} : n \in Notes} : StartMarkRead(ids)
    \/ MarkRead \/ MarkReadSucceeds

(* Not every request fails or is overtaken by the next invalidation.        *)
NoteProgress ==
    /\ SF_noteVars(ListIsServed)
    /\ SF_noteVars(ListArrives)

(* The list stays mounted and is polled. *)
NoteSpec == NoteInit /\ [][NoteNext]_noteVars /\ WF_noteVars(PollList) /\ NoteProgress

-------------------------------------------------------------------------------
NoteStatuses == {"none", "unread", "read", "deleted"}

(* Every variable has its type. *)
NoteTypeOK ==
    /\ noteRow \in [Notes -> NoteStatuses]
    /\ noteStream \in [pc : {"off", "init", "open", "over"}, process : ApiProcesses \cup {NoProcess}]
    /\ streamed \subseteq Notes
    /\ listQuery \in [Notes -> NoteStatuses]
    /\ listFetch \in [pc : {"idle", "sent", "answered"}, data : [Notes -> NoteStatuses]]
    /\ markRequest \in [pc : {"idle", "sent", "done"}, ids : SUBSET Notes]
    /\ connects \in 0..MaxConnects

(* Whatever the stream loses - rows inserted by another process, or between *)
(* the first message and the subscription, or after it has ended - the list *)
(* on screen comes to agree with the newest rows, and to stay so once       *)
(* nothing new happens.                                                     *)
ListConverges == <>[](listQuery = Listed)
==============================================================================

---------------------------- MODULE SorobanWrites ----------------------------
(***************************************************************************)
(* The backend's submissions to the Soroban RPC and their degraded mode:   *)
(* submitSignedTx and withStaleRead of services/sorobanService.ts, the     *)
(* durable queue of services/sorobanWriteQueue.ts and the replay pass of   *)
(* services/sorobanWriteReplayProcessor.ts, behind the circuit breaker of  *)
(* each backend process (SorobanCircuitBreaker).                           *)
(*                                                                         *)
(* A step is what a process does between two awaits.  The RPC is up or     *)
(* down; a call that fails may still have reached the network.  The        *)
(* database is taken to answer.  Backoff is abstracted to whether it has   *)
(* passed.  A pass awaits its health probe for less than the interval      *)
(* between passes, so a process runs one pass at a time.  Every queued     *)
(* payload holds its signed transaction and every answer of the RPC the    *)
(* transaction's hash.                                                     *)
(***************************************************************************)
EXTENDS SorobanCircuitBreaker, Sequences, FiniteSets

CONSTANTS
    Backends,       \* backend processes sharing the database
    NoBackend,      \* stands for no process
    Writes,         \* signed transactions, each with its own hash
    BatchSize,      \* SOROBAN_WRITE_REPLAY_BATCH_SIZE
    MaxOutages,     \* bound on the RPC outages
    MaxCrashes      \* bound on the process restarts

ASSUME BackendAssumption == NoBackend \notin Backends
ASSUME WritesAssumption == IsFiniteSet(Writes)
ASSUME ReplayBounds ==
    BatchSize \in Nat \ {0} /\ MaxOutages \in Nat /\ MaxCrashes \in Nat

VARIABLES
    rpc,        \* "up" or "down"
    known,      \* transactions the network has accepted
    outages, crashes,
    breaker,    \* per process: its circuit breaker
    reading,    \* processes with a read call in flight
    call,       \* per transaction: its client's request [at, pc]
    queue,      \* soroban_write_queue: the transactions in id order
    row,        \* per transaction: [status, ready] of its row
    pass        \* per process: its replay pass [pc, batch]

rpcVars   == <<rpc, known, outages>>
queueVars == <<queue, row>>
vars == <<rpcVars, crashes, breaker, reading, call, queueVars, pass>>

NoCall == [at |-> NoBackend, pc |-> "idle"]
NoRow  == [status |-> "absent", ready |-> FALSE]
NoPass == [pc |-> "idle", batch |-> <<>>]

Init ==
    /\ rpc = "up" /\ known = {} /\ outages = 0 /\ crashes = 0
    /\ breaker = [p \in Backends |-> NewBreaker]
    /\ reading = {}
    /\ call = [w \in Writes |-> NoCall]
    /\ queue = <<>>
    /\ row = [w \in Writes |-> NoRow]
    /\ pass = [p \in Backends |-> NoPass]

Breaks(p, b) == breaker' = [breaker EXCEPT ![p] = b]

(* A failed call's request may have reached the network all the same. *)
MaybeReached(w) == known' \in {known, known \cup {w}}

------------------------------------------------------------------------------
(* withStaleRead.                                                           *)

(* A read that is not admitted is answered from the snapshots. *)
StartRead(p) ==
    /\ p \notin reading
    /\ Breaks(p, AfterShortCircuit(breaker[p]))
    /\ reading' = IF ShouldShortCircuit(breaker[p]) THEN reading ELSE reading \cup {p}
    /\ UNCHANGED <<rpcVars, crashes, call, queueVars, pass>>

(* The loader returns, fails with a transient RPC error, or fails with      *)
(* another error (a contract error in the simulation, a value that does not *)
(* parse), which the breaker is not told of.                                *)
EndRead(p) ==
    /\ p \in reading
    /\ reading' = reading \ {p}
    /\ \/ rpc = "up" /\ Breaks(p, RecordSuccess(breaker[p]))
       \/ rpc = "down" /\ Breaks(p, RecordFailure(breaker[p]))
       \/ UNCHANGED breaker
    /\ UNCHANGED <<rpcVars, crashes, call, queueVars, pass>>

------------------------------------------------------------------------------
(* submitSignedTx for a client's request.                                   *)

StartSubmit(p, w) ==
    /\ call[w].pc = "idle"
    /\ Breaks(p, AfterShortCircuit(breaker[p]))
    /\ call' = [call EXCEPT ![w] =
                  [at |-> p, pc |-> IF ShouldShortCircuit(breaker[p])
                                    THEN "queueing" ELSE "sending"]]
    /\ UNCHANGED <<rpcVars, crashes, reading, queueVars, pass>>

Continue(w, pc) == call' = [call EXCEPT ![w].pc = pc]

(* The request ends: with a result, QUEUED, or an error. *)
Answer(w) == call' = [call EXCEPT ![w] = NoCall]

(* sendTransaction throws: a transient error queues the transaction. *)
SendFails(w) ==
    LET p == call[w].at
    IN  /\ call[w].pc = "sending"
        /\ rpc = "down"
        /\ Breaks(p, RecordFailure(breaker[p]))
        /\ Continue(w, "queueing") \/ Answer(w)
        /\ MaybeReached(w)
        /\ UNCHANGED <<rpc, outages, crashes, reading, queueVars, pass>>

(* The RPC answers PENDING (which is then polled, to no effect here),       *)
(* TRY_AGAIN_LATER, DUPLICATE or ERROR.                                     *)
SendAnswered(w) ==
    LET p == call[w].at
    IN  /\ call[w].pc = "sending"
        /\ rpc = "up"
        /\ Breaks(p, RecordSuccess(breaker[p]))
        /\ \/ w \notin known /\ known' = known \cup {w} /\ Answer(w)
           \/ w \notin known /\ Continue(w, "queueing") /\ UNCHANGED known
           \/ Answer(w) /\ UNCHANGED known
        /\ UNCHANGED <<rpc, outages, crashes, reading, queueVars, pass>>

(* Mutated form: a transaction that had a row before loses its place. *)
InsertedAgain(w) ==
    /\ queue' = Append(queue, w)
    /\ row' = [row EXCEPT ![w] = [status |-> "pending", ready |-> TRUE]]

(* INSERT ... ON CONFLICT (idempotency_key) DO NOTHING *)
Inserted(w) ==
    IF row[w].status = "absent"
    THEN /\ queue' = Append(queue, w)
         /\ row' = [row EXCEPT ![w] = [status |-> "pending", ready |-> TRUE]]
    ELSE UNCHANGED queueVars

Enqueue(w) ==
    /\ call[w].pc = "queueing"
    /\ Inserted(w)
    /\ Answer(w)
    /\ UNCHANGED <<rpcVars, crashes, breaker, reading, pass>>

------------------------------------------------------------------------------
(* runSorobanWriteReplayOnce.                                               *)

Goto(p, pc) == pass' = [pass EXCEPT ![p].pc = pc]

(* checkAvailability up to its first await: a recent answer is reused; an   *)
(* open circuit answers with the last one, however old.                     *)
StartPass(p) ==
    LET b     == breaker[p]
        short == ShouldShortCircuit(b)
    IN  /\ pass[p].pc = "idle"
        /\ \/ /\ b.fresh \/ short
              /\ b.cached = "up"
              /\ Goto(p, "listing")
           \/ /\ b.fresh \/ short
              /\ b.cached # "up"
              /\ UNCHANGED pass
           \/ ~b.fresh /\ ~short /\ Goto(p, "probing")
        /\ Breaks(p, IF b.fresh THEN b ELSE AfterShortCircuit(b))
        /\ UNCHANGED <<rpcVars, crashes, reading, call, queueVars>>

EndProbe(p) ==
    /\ pass[p].pc = "probing"
    /\ Breaks(p, Probed(breaker[p], rpc = "up"))
    /\ Goto(p, IF rpc = "up" THEN "listing" ELSE "idle")
    /\ UNCHANGED <<rpcVars, crashes, reading, call, queueVars>>

Ready(w) == row[w].status = "pending" /\ row[w].ready

(* listReadyForReplay: the ready rows in id order, up to the batch size. *)
ListReady ==
    LET taken[n \in 0..Len(queue)] ==
            IF n = 0 THEN <<>>
            ELSE IF Ready(queue[n]) /\ Len(taken[n - 1]) < BatchSize
            THEN Append(taken[n - 1], queue[n])
            ELSE taken[n - 1]
    IN  taken[Len(queue)]

(* The rest of a pass: it ends with its batch. *)
Drain(batch) == IF batch = <<>> THEN NoPass ELSE [pc |-> "sending", batch |-> batch]

ListReadyForReplay(p) ==
    /\ pass[p].pc = "listing"
    /\ pass' = [pass EXCEPT ![p] = Drain(ListReady)]
    /\ UNCHANGED <<rpcVars, crashes, breaker, reading, call, queueVars>>

Replayed(p) == Head(pass[p].batch)

ReplayFails(p) ==
    /\ pass[p].pc = "sending"
    /\ rpc = "down"
    /\ Breaks(p, RecordFailure(breaker[p]))
    /\ MaybeReached(Replayed(p))
    /\ Goto(p, "failed")
    /\ UNCHANGED <<rpc, outages, crashes, reading, call, queueVars>>

(* Only PENDING is polled; DUPLICATE, ERROR and TRY_AGAIN_LATER return.     *)
ReplayAnswered(p) ==
    LET w == Replayed(p)
    IN  /\ pass[p].pc = "sending"
        /\ rpc = "up"
        /\ Breaks(p, RecordSuccess(breaker[p]))
        /\ \/ w \notin known /\ known' = known \cup {w} /\ Goto(p, "polling")
           \/ Goto(p, "submitted") /\ UNCHANGED known
        /\ UNCHANGED <<rpc, outages, crashes, reading, call, queueVars>>

ReplayPollEnds(p) ==
    /\ pass[p].pc = "polling"
    /\ \/ Goto(p, "submitted")
       \/ rpc = "down" /\ Goto(p, "failed")
    /\ UNCHANGED <<rpcVars, crashes, breaker, reading, call, queueVars>>

MarkApplied(p) ==
    /\ pass[p].pc = "submitted"
    /\ row' = [row EXCEPT ![Replayed(p)].status = "applied"]
    /\ pass' = [pass EXCEPT ![p] = Drain(Tail(@.batch))]
    /\ UNCHANGED <<rpcVars, crashes, breaker, reading, call, queue>>

(* markPendingAfterFailure: pending again, once its backoff has passed. *)
Rescheduled(w) == row' = [row EXCEPT ![w] = [status |-> "pending", ready |-> FALSE]]

(* A failure ends the pass. *)
MarkFailed(p) ==
    /\ pass[p].pc = "failed"
    /\ Rescheduled(Replayed(p))
    /\ pass' = [pass EXCEPT ![p] = NoPass]
    /\ UNCHANGED <<rpcVars, crashes, breaker, reading, call, queue>>

------------------------------------------------------------------------------
(* Time, the RPC endpoint and the processes.                                *)

BackoffElapses(w) ==
    /\ row[w].status = "pending" /\ ~row[w].ready
    /\ row' = [row EXCEPT ![w].ready = TRUE]
    /\ UNCHANGED <<rpcVars, crashes, breaker, reading, call, queue, pass>>

CooldownElapses(p) ==
    /\ breaker[p].state = "open" /\ ~breaker[p].cooled
    /\ Breaks(p, [breaker[p] EXCEPT !.cooled = TRUE])
    /\ UNCHANGED <<rpcVars, crashes, reading, call, queueVars, pass>>

CacheExpires(p) ==
    /\ breaker[p].fresh
    /\ Breaks(p, [breaker[p] EXCEPT !.fresh = FALSE])
    /\ UNCHANGED <<rpcVars, crashes, reading, call, queueVars, pass>>

RpcGoesDown ==
    /\ rpc = "up" /\ outages < MaxOutages
    /\ rpc' = "down" /\ outages' = outages + 1
    /\ UNCHANGED <<known, crashes, breaker, reading, call, queueVars, pass>>

RpcComesBack ==
    /\ rpc = "down" /\ rpc' = "up"
    /\ UNCHANGED <<known, outages, crashes, breaker, reading, call, queueVars, pass>>

(* A restart loses everything but the database; validateConfig reports the  *)
(* first health check to the new breaker.                                   *)
Restart(p) ==
    /\ crashes < MaxCrashes
    /\ crashes' = crashes + 1
    /\ Breaks(p, IF rpc = "up" THEN RecordSuccess(NewBreaker) ELSE RecordFailure(NewBreaker))
    /\ reading' = reading \ {p}
    /\ call' = [w \in Writes |-> IF call[w].at = p THEN NoCall ELSE call[w]]
    /\ pass' = [pass EXCEPT ![p] = NoPass]
    /\ UNCHANGED <<rpcVars, queueVars>>

------------------------------------------------------------------------------
Replay(p) ==
    \/ StartPass(p) \/ EndProbe(p) \/ ListReadyForReplay(p) \/ ReplayFails(p)
    \/ ReplayAnswered(p) \/ ReplayPollEnds(p) \/ MarkApplied(p) \/ MarkFailed(p)

Complete(w) == SendFails(w) \/ SendAnswered(w) \/ Enqueue(w)

Next ==
    \/ \E p \in Backends :
          \/ StartRead(p) \/ EndRead(p)
          \/ \E w \in Writes : StartSubmit(p, w)
          \/ Replay(p)
          \/ CooldownElapses(p) \/ CacheExpires(p) \/ Restart(p)
    \/ \E w \in Writes : Complete(w) \/ BackoffElapses(w)
    \/ RpcGoesDown \/ RpcComesBack

(* Calls in flight end (every RPC call and poll has a timeout), the replay  *)
(* timer keeps firing, time passes, and an outage ends.                     *)
Fairness ==
    /\ \A p \in Backends :
          /\ WF_vars(Replay(p)) /\ WF_vars(EndRead(p))
          /\ WF_vars(CooldownElapses(p)) /\ WF_vars(CacheExpires(p))
    /\ \A w \in Writes : WF_vars(Complete(w)) /\ WF_vars(BackoffElapses(w))
    /\ WF_vars(RpcComesBack)

Spec == Init /\ [][Next]_vars /\ Fairness

------------------------------------------------------------------------------
(* Properties.                                                              *)

(* A transaction is in the table at most once, and for good: a client's     *)
(* retries, other processes, replays and restarts neither add a second row  *)
(* nor lose the first.                                                      *)
QueuedOnce ==
    \A w \in Writes :
        Cardinality({i \in 1..Len(queue) : queue[i] = w})
          = IF row[w].status = "absent" THEN 0 ELSE 1

(* The trial of a half-open circuit was admitted and no call is in flight   *)
(* that would report a result: nothing is admitted any more.                *)
Wedged(p) ==
    /\ breaker[p].state = "half-open" /\ breaker[p].trial
    /\ p \notin reading
    /\ pass[p].pc \notin {"probing", "sending"}
    /\ \A w \in Writes : call[w].at = p => call[w].pc # "sending"

Drained == \A w \in Writes : row[w].status = "pending" ~> row[w].status = "applied"

(* As long as one process is not wedged for ever, every queued write is     *)
(* eventually taken off the queue: whatever opened the circuit, it          *)
(* half-opens, a probe closes it, and backoffs, restarts and other writes'  *)
(* failures only delay the replay.                                          *)
DrainedUnlessWedged == (\E p \in Backends : []<>~Wedged(p)) => Drained

(* "Failed writes are rescheduled [...] and remain `pending`, so nothing is *)
(* lost": a row is marked applied only when the network has accepted its    *)
(* transaction.                                                             *)
AppliedIsKnown == \A w \in Writes : row[w].status = "applied" => w \in known
==============================================================================

----------------------------- MODULE EventIndexer -----------------------------
(***************************************************************************)
(* The backend's event indexer: processes that poll the chain for contract *)
(* events from a shared cursor, store them and their score effects in one  *)
(* transaction, then run the side effects of what they inserted (webhooks, *)
(* event stream, notifications), record a checkpoint and raise the cursor. *)
(* Any of them may fail or restart between two of these steps, and an      *)
(* operator may reindex a range or reprocess the quarantine at any time.   *)
(*                                                                         *)
(* Chain is the sequence of events the network emits, oldest first, each a *)
(* record of its ledger, type, loan and borrower.  "Malformed" stands for  *)
(* an event that parseEvent throws on until a newer parser is deployed,    *)
(* and "Unsupported" for one it answers null for.                          *)
(***************************************************************************)
EXTENDS Integers, Sequences, FiniteSets

CONSTANTS
    Chain, NoLoan, NoBorrower,
    Workers,          \* processes, each with one indexer
    BatchSize,        \* ledgers per poll
    MaxTip,           \* ledgers the network closes
    MaxFaults,        \* failed calls and restarts
    MaxRetries,       \* of withTransaction, on transient errors
    RepaymentDelta, DefaultPenalty, BaseScore, MinScore, MaxScore

ASSUME IndexerAssumption ==
    /\ BatchSize \in Nat \ {0} /\ {MaxTip, MaxFaults, MaxRetries} \subseteq Nat
    /\ Chain \in Seq([ledger : Nat \ {0}, type : STRING, loan : STRING, borrower : STRING])
    /\ \A i, j \in DOMAIN Chain : i <= j => Chain[i].ledger <= Chain[j].ledger

(* SCORE_DELTAS and the bounds of current_score *)
ASSUME ScoreAssumption ==
    /\ {RepaymentDelta, DefaultPenalty, MinScore, BaseScore, MaxScore} \subseteq Nat
    /\ MinScore <= BaseScore /\ BaseScore <= MaxScore

VARIABLES
    tip,              \* latest ledger of the network
    cursor,           \* indexer_state.last_ledger
    checkpoints,      \* ledger_checkpoints
    contractEvents,   \* rows of contract_events
    quarantine,       \* rows of quarantine_events
    swallowed,        \* malformed events whose quarantine row failed to insert
    retried,          \* events an attempt had inserted that was then tried again
    scores,           \* scores.current_score
    effects,          \* how often the side effects of an event were started
    newParser, faults,
    worker            \* what each process is doing

indexerVars == <<tip, cursor, checkpoints, contractEvents, quarantine, swallowed, retried,
                 scores, effects, newParser, faults, worker>>

-------------------------------------------------------------------------------
Lesser(a, b) == IF a <= b THEN a ELSE b
Greater(a, b) == IF a >= b THEN a ELSE b

Last(S) == CHOOSE e \in S : \A f \in S : e >= f

Events == DOMAIN Chain
Ledger == [e \in Events |-> Chain[e].ledger]
Borrowers == {Chain[e].borrower : e \in Events} \ {NoBorrower}

Malformed == {e \in Events : Chain[e].type = "Malformed"}
Unsupported == {e \in Events : Chain[e].type = "Unsupported"}
Recognised == Events \ Unsupported

Throws(e) == e \in Malformed /\ ~newParser
ParsesToNull(e) == e \in Unsupported

(* The unique indexes of contract_events, which ON CONFLICT DO NOTHING      *)
(* defers to: event id; loan and type for approvals and defaults; loan,     *)
(* type and ledger for the other events of a loan.                          *)
RowKey ==
    [e \in Events |->
        LET c == Chain[e]
            once == c.type \in {"LoanApproved", "LoanDefaulted"}
        IN  [loan   |-> c.loan,
             type   |-> IF c.loan = NoLoan THEN "" ELSE c.type,
             ledger |-> IF c.loan = NoLoan \/ once THEN 0 ELSE c.ledger,
             id     |-> IF c.loan = NoLoan THEN e ELSE 0]]

Recorded(e) == \E f \in contractEvents : RowKey[f] = RowKey[e]

(* The rows a transaction really inserts. *)
Inserted(batch) ==
    {e \in batch : ~Recorded(e) /\ \A f \in batch : f < e => RowKey[f] # RowKey[e]}

\* Mutant: the end of the range is exclusive.
FetchEventsInRangeExclusive(from, to) ==
    {e \in Events : from <= Ledger[e] /\ Ledger[e] < to}

FetchEventsInRange(from, to) == {e \in Events : from <= Ledger[e] /\ Ledger[e] <= to}

(* The score deltas gathered from the inserted events of one borrower; a    *)
(* seized collateral carries no address.                                    *)
ScoreDelta(S, b) ==
    LET Of(t) == Cardinality({e \in S : Chain[e].borrower = b /\ Chain[e].type = t})
    IN  RepaymentDelta * Of("LoanRepaid")
          - DefaultPenalty * (Of("LoanDefaulted") + Of("CollateralLiquidated"))

Clamp(n) == IF n < MinScore THEN MinScore ELSE IF n > MaxScore THEN MaxScore ELSE n

(* INSERT 500 - delta ON CONFLICT current + EXCLUDED - 500, both clamped;   *)
(* a borrower without a row counts as one at 500.                           *)
UpdateUserScoresBulk(updates) ==
    [b \in Borrowers |->
        IF updates[b] = 0 THEN scores[b]
        ELSE Clamp(scores[b] + Clamp(BaseScore - updates[b]) - BaseScore)]

NoEvents == [e \in Events |-> 0]
NoUpdates == [b \in Borrowers |-> 0]

(* insertedEvents, as how often it holds each event, and scoreUpdates after *)
(* S was inserted too.  storeEvents declares both outside the callback of   *)
(* its transaction.                                                         *)
Gather(w, S) == [e \in Events |-> worker[w].inserted[e] + IF e \in S THEN 1 ELSE 0]
GatherUpdates(w, S) == [b \in Borrowers |-> worker[w].updates[b] + ScoreDelta(S, b)]

Idle == [pc |-> "idle", job |-> "none", from |-> 0, to |-> 0, batch |-> {},
         inserted |-> NoEvents, updates |-> NoUpdates, attempt |-> 0]

At(w, pc) == worker[w].pc = pc

Goto(w, pc) == worker' = [worker EXCEPT ![w].pc = pc]

Finish(w) == worker' = [worker EXCEPT ![w] = Idle]

-------------------------------------------------------------------------------
IndexerInit ==
    /\ tip = 0 /\ cursor = 0 /\ checkpoints = {} /\ contractEvents = {}
    /\ quarantine = {} /\ swallowed = {} /\ retried = {}
    /\ scores = [b \in Borrowers |-> BaseScore]
    /\ effects = [e \in Events |-> 0]
    /\ newParser = FALSE /\ faults = 0
    /\ worker = [w \in Workers |-> Idle]

CloseLedger ==
    /\ tip < MaxTip
    /\ tip' = tip + 1
    /\ UNCHANGED <<cursor, checkpoints, contractEvents, quarantine, swallowed, retried, scores,
                   effects, newParser, faults, worker>>

DeployParser ==
    /\ ~newParser
    /\ newParser' = TRUE
    /\ UNCHANGED <<tip, cursor, checkpoints, contractEvents, quarantine, swallowed, retried, scores,
                   effects, faults, worker>>

Job(name, from, to) ==
    [Idle EXCEPT !.pc = "fetch", !.job = name, !.from = from, !.to = to]

\* Mutant: the range starts at the last ledger already indexed.
PollOnceOverlapping(w) ==
    /\ At(w, "idle")
    /\ tip > cursor
    /\ worker' = [worker EXCEPT ![w] = Job("poll", cursor, Lesser(cursor + BatchSize, tip))]
    /\ UNCHANGED <<tip, cursor, checkpoints, contractEvents, quarantine, swallowed, retried, scores,
                   effects, newParser, faults>>

\* Mutant: the newest ledger alone is not worth a poll.
PollOnceLate(w) ==
    /\ At(w, "idle")
    /\ tip > cursor + 1
    /\ worker' = [worker EXCEPT ![w] =
                     Job("poll", cursor + 1, Lesser(cursor + BatchSize, tip))]
    /\ UNCHANGED <<tip, cursor, checkpoints, contractEvents, quarantine, swallowed, retried, scores,
                   effects, newParser, faults>>

(* pollOnce up to its call of processChunk: the cursor and the tip are read *)
(* once, the range is fixed before anything is fetched.                     *)
PollOnce(w) ==
    /\ At(w, "idle")
    /\ tip > cursor
    /\ worker' = [worker EXCEPT ![w] =
                     Job("poll", cursor + 1, Lesser(cursor + BatchSize, tip))]
    /\ UNCHANGED <<tip, cursor, checkpoints, contractEvents, quarantine, swallowed, retried, scores,
                   effects, newParser, faults>>

(* One chunk of reindexRange, requested by an operator. *)
ReindexRange(w, from, to) ==
    /\ At(w, "idle")
    /\ worker' = [worker EXCEPT ![w] = Job("reindex", from, to)]
    /\ UNCHANGED <<tip, cursor, checkpoints, contractEvents, quarantine, swallowed, retried, scores,
                   effects, newParser, faults>>

(* reprocessQuarantinedEvents, one row: skipped while it does not parse.    *)
ReprocessQuarantined(w, e) ==
    /\ At(w, "idle")
    /\ e \in quarantine /\ ~Throws(e)
    /\ worker' = [worker EXCEPT ![w] =
                     [Idle EXCEPT !.pc = "store", !.job = "reprocess", !.batch = {e}]]
    /\ UNCHANGED <<tip, cursor, checkpoints, contractEvents, quarantine, swallowed, retried, scores,
                   effects, newParser, faults>>

(* The fetch and the parse loop of storeEvents: what throws is quarantined, *)
(* a quarantine row that cannot be written is only logged, and what parses  *)
(* to null is passed over.                                                  *)
FetchAndParse(w) ==
    /\ At(w, "fetch")
    /\ LET range == {e \in FetchEventsInRange(worker[w].from, worker[w].to) : Ledger[e] <= tip}
           bad == {e \in range : Throws(e)}
           null == {e \in range : ParsesToNull(e)}
       IN  /\ \E lost \in SUBSET bad :
                 /\ lost # {} => faults < MaxFaults
                 /\ quarantine' = quarantine \cup (bad \ lost)
                 /\ swallowed' = swallowed \cup lost
                 /\ faults' = faults + IF lost = {} THEN 0 ELSE 1
           /\ worker' = [worker EXCEPT ![w].pc = "store", ![w].batch = range \ (bad \cup null)]
    /\ UNCHANGED <<tip, cursor, checkpoints, contractEvents, retried, scores, effects, newParser>>

\* Mutant: effects run for every event of the batch, inserted or not.
StoreEventsReplaying(w) ==
    /\ At(w, "store")
    /\ LET new == Inserted(worker[w].batch)
       IN  /\ contractEvents' = contractEvents \cup new
           /\ scores' = UpdateUserScoresBulk(GatherUpdates(w, new))
           /\ worker' = [worker EXCEPT ![w].pc = "effects", ![w].updates = NoUpdates,
                                       ![w].inserted = Gather(w, worker[w].batch)]
    /\ UNCHANGED <<tip, cursor, checkpoints, quarantine, swallowed, retried, effects, newParser, faults>>

\* Mutant: score deltas are gathered whether or not the row was inserted.
StoreEventsRescoring(w) ==
    /\ At(w, "store")
    /\ LET new == Inserted(worker[w].batch)
       IN  /\ contractEvents' = contractEvents \cup new
           /\ scores' = UpdateUserScoresBulk(GatherUpdates(w, worker[w].batch))
           /\ worker' = [worker EXCEPT ![w].pc = "effects", ![w].updates = NoUpdates,
                                       ![w].inserted = Gather(w, new)]
    /\ UNCHANGED <<tip, cursor, checkpoints, quarantine, swallowed, retried, effects, newParser, faults>>

(* The transaction of storeEvents: event rows and score changes together,   *)
(* the latter with what earlier attempts have left in scoreUpdates.         *)
StoreEvents(w) ==
    /\ At(w, "store")
    /\ LET new == Inserted(worker[w].batch)
       IN  /\ contractEvents' = contractEvents \cup new
           /\ scores' = UpdateUserScoresBulk(GatherUpdates(w, new))
           /\ worker' = [worker EXCEPT ![w].pc = "effects", ![w].updates = NoUpdates,
                                       ![w].inserted = Gather(w, new)]
    /\ UNCHANGED <<tip, cursor, checkpoints, quarantine, swallowed, retried, effects, newParser, faults>>

(* An attempt fails with a transient error after the events up to n of its  *)
(* batch: the rows are rolled back, what the callback has gathered is not,  *)
(* and withTransaction runs it again.                                       *)
StoreRetries(w) ==
    /\ At(w, "store") /\ worker[w].batch # {} /\ worker[w].attempt < MaxRetries
    /\ faults < MaxFaults /\ faults' = faults + 1
    /\ \E n \in {0} \cup worker[w].batch :
          LET seen == {e \in Inserted(worker[w].batch) : e <= n}
          IN  /\ retried' = retried \cup seen
              /\ worker' = [worker EXCEPT ![w].attempt = @ + 1,
                                          ![w].inserted = Gather(w, seen),
                                          ![w].updates = GatherUpdates(w, seen)]
    /\ UNCHANGED <<tip, cursor, checkpoints, contractEvents, quarantine, swallowed, scores,
                   effects, newParser>>

(* One turn of the loop over insertedEvents after the commit: webhooks,     *)
(* stream and notifications are started and not awaited.                    *)
RunEffects(w) ==
    /\ At(w, "effects")
    /\ \E e \in Events :
          /\ worker[w].inserted[e] > 0
          /\ effects' = [effects EXCEPT ![e] = @ + 1]
          /\ worker' = [worker EXCEPT ![w].inserted[e] = @ - 1]
    /\ UNCHANGED <<tip, cursor, checkpoints, contractEvents, quarantine, swallowed, retried, scores,
                   newParser, faults>>

(* What each job does after storeEvents has returned. *)
AfterStore(w) ==
    /\ At(w, "effects") /\ worker[w].inserted = NoEvents
    /\ \/ /\ worker[w].job = "poll"
          /\ Goto(w, "checkpoint")
          /\ UNCHANGED quarantine
       \/ /\ worker[w].job = "reindex"
          /\ Finish(w)
          /\ UNCHANGED quarantine
       \/ /\ worker[w].job = "reprocess"
          /\ Finish(w)
          /\ quarantine' = quarantine \ worker[w].batch
    /\ UNCHANGED <<tip, cursor, checkpoints, contractEvents, swallowed, retried, scores, effects, newParser, faults>>

Verified(from, to) == [from |-> from, to |-> to, status |-> "verified"]

(* A range that does not follow the last one leaves a suspect gap. *)
Gap(from) ==
    LET ends == {c.to : c \in checkpoints}
    IN  IF ends # {} /\ from > Last(ends) + 1
        THEN {[from |-> Last(ends) + 1, to |-> from - 1, status |-> "suspect"]} ELSE {}

RecordCheckpoint(w) ==
    /\ At(w, "checkpoint")
    /\ checkpoints' = checkpoints \cup Gap(worker[w].from)
                                  \cup {Verified(worker[w].from, worker[w].to)}
    /\ Goto(w, "cursor")
    /\ UNCHANGED <<tip, cursor, contractEvents, quarantine, swallowed, retried, scores, effects, newParser, faults>>

\* Mutant: the cursor is set, not raised.
UpdateLastIndexedLedgerBlindly(w) ==
    /\ At(w, "cursor")
    /\ cursor' = worker[w].to
    /\ Finish(w)
    /\ UNCHANGED <<tip, checkpoints, contractEvents, quarantine, swallowed, retried, scores, effects,
                   newParser, faults>>

UpdateLastIndexedLedger(w) ==
    /\ At(w, "cursor")
    /\ cursor' = Greater(cursor, worker[w].to)
    /\ Finish(w)
    /\ UNCHANGED <<tip, checkpoints, contractEvents, quarantine, swallowed, retried, scores, effects, newParser, faults>>

(* A call of the step under way fails, in a transaction for good or after   *)
(* its last attempt, and scheduleNextPoll polls again, or the process       *)
(* restarts: either way the rest of the job is lost.                        *)
JobFails(w) ==
    /\ ~At(w, "idle") /\ faults < MaxFaults
    /\ faults' = faults + 1
    /\ Finish(w)
    /\ UNCHANGED <<tip, cursor, checkpoints, contractEvents, quarantine, swallowed, retried, scores,
                   effects, newParser>>

PollStep(w) ==
    \/ PollOnce(w) \/ FetchAndParse(w) \/ StoreEvents(w) \/ RunEffects(w)
    \/ AfterStore(w) \/ RecordCheckpoint(w) \/ UpdateLastIndexedLedger(w)

IndexerNext ==
    \/ CloseLedger
    \/ DeployParser
    \/ \E w \in Workers :
          \/ PollStep(w)
          \/ \E from, to \in 1..MaxTip :
                from <= to /\ to < from + BatchSize /\ ReindexRange(w, from, to)
          \/ \E e \in quarantine : ReprocessQuarantined(w, e)
          \/ StoreRetries(w)
          \/ JobFails(w)

(* The poll timer is re-armed in a finally block and runs beside any        *)
(* request the process serves; a step under way is awaited by nobody else.  *)
IndexerFairness ==
    \A w \in Workers :
        WF_indexerVars(PollStep(w)) /\ SF_indexerVars(PollOnce(w))

IndexerSpec == IndexerInit /\ [][IndexerNext]_indexerVars /\ IndexerFairness

-------------------------------------------------------------------------------
(* Every variable has its type. *)
IndexerTypeOK ==
    /\ tip \in 0..MaxTip /\ cursor \in 0..MaxTip /\ faults \in 0..MaxFaults
    /\ checkpoints \subseteq [from : 1..MaxTip, to : 1..MaxTip, status : {"verified", "suspect"}]
    /\ contractEvents \subseteq Events /\ quarantine \subseteq Events
    /\ swallowed \subseteq Events /\ retried \subseteq Events
    /\ scores \in [Borrowers -> Int] /\ effects \in [Events -> Nat]
    /\ newParser \in BOOLEAN
    /\ worker \in [Workers -> [pc : {"idle", "fetch", "store", "effects", "checkpoint", "cursor"},
                               job : {"none", "poll", "reindex", "reprocess"},
                               from : 0..MaxTip, to : 0..MaxTip,
                               batch : SUBSET Events, inserted : [Events -> Nat],
                               updates : [Borrowers -> Int], attempt : 0..MaxRetries]]

(* An event that parses and has a row key of its own. *)
Ordinary ==
    {e \in Recognised \ Malformed : \A f \in Events : RowKey[f] = RowKey[e] => f = e}

(* The indexer's tables implement the abstract log: through failures,       *)
(* restarts, concurrent polls, reindexing and reprocessing, the row of an   *)
(* ordinary event is never lost again once it is there, and last_ledger     *)
(* never passes an ordinary event that has no row.                          *)
Log == INSTANCE EventLog WITH
          Events <- Ordinary, LedgerOf <- Ledger, mark <- cursor,
          log <- contractEvents \cap Ordinary

ImplementsEventLog == Log!Spec

(* In a ledger that a checkpoint calls verified, whoever recorded the       *)
(* checkpoint and whatever failed before, every event that parses has a row *)
(* with its key (its own, unless another event has the key), and every      *)
(* event that does not has one, is quarantined, or was logged when its      *)
(* quarantine row could not be written.  Default checks and rebuilds rely   *)
(* on it.  Nothing is promised of the events that parse to null.            *)
VerifiedRangesComplete ==
    \A c \in checkpoints : c.status = "verified" =>
        \A e \in Recognised : Ledger[e] \in c.from..c.to =>
            \/ Recorded(e)
            \/ e \in Malformed /\ e \in quarantine \cup swallowed

(* The side effects of an event are started at most once, by one process,   *)
(* and only for an event that is stored, however often its ledger is        *)
(* scanned - except for an event that an attempt of a transaction had       *)
(* inserted before it was tried again.  Even then its key has a row.        *)
EffectsAtMostOnce ==
    \A e \in Events :
        /\ effects[e] > 0 => Recorded(e)
        /\ e \notin retried => effects[e] <= 1 /\ (effects[e] = 1 => e \in contractEvents)

(* Each stored event has changed its borrower's score exactly once, for     *)
(* every borrower none of whose events was in an attempt tried again.       *)
ScoresCountEventsOnce ==
    \A b \in Borrowers :
        (\A e \in retried : Chain[e].borrower # b)
            => scores[b] = BaseScore - ScoreDelta(contractEvents, b)

(* "On-time payments increase score by 15 pts each": a borrower of whom     *)
(* only repayments are stored is not below the score everyone starts from.  *)
RepaymentsRaiseScores ==
    \A b \in Borrowers :
        (\A e \in contractEvents : Chain[e].borrower = b => Chain[e].type = "LoanRepaid")
            => scores[b] >= BaseScore

(* Once faults cease, the cursor reaches the last ledger the network closes *)
(* and stays there, whichever processes poll, restart or serve requests.    *)
IndexerCatchesUp == <>[](cursor = tip)
===============================================================================

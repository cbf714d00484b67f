-------------------------- MODULE EventIndexerProofs --------------------------
(***************************************************************************)
(* The rows of ordinary events implement the abstract log, verified        *)
(* checkpoints miss no event that is recognised, and side effects and      *)
(* score changes happen at most once for what no transaction tried again   *)
(* had inserted: for every chain of events, any number of processes,       *)
(* failures and retries.  And the types of the indexer's and of the        *)
(* reconciliations' tables: a custody event has at most one row.           *)
(***************************************************************************)
EXTENDS MCIndexing, Recursion, FiniteSetTheorems

EmittedBy(l) == {e \in Events : Ledger[e] <= l}
Stored == {e \in Events : Recorded(e)}
Accounted == Stored \cup quarantine \cup swallowed

(* The events of a range, and up to a ledger, that are not passed over.     *)
Within(from, to) == {e \in Recognised : from <= Ledger[e] /\ Ledger[e] <= to}
Due(l) == {e \in Recognised : Ledger[e] <= l}

Batches == SUBSET Events
Inserts == [Events -> Nat]
Deltas == [Borrowers -> Int]
WorkerSteps == {"idle", "fetch", "store", "effects", "checkpoint", "cursor"}
WorkerJobs == {"none", "poll", "reindex", "reprocess"}
WorkerType == [pc : WorkerSteps, job : WorkerJobs, from : Nat, to : Nat, batch : Batches,
               inserted : Inserts, updates : Deltas, attempt : Nat]

(* What a process k has achieved so far, given the cursor, the tip and the  *)
(* events accounted for and stored: a poll started no later than the ledger *)
(* after the cursor, and by the time of its checkpoint has left nothing of  *)
(* its range unaccounted for.                                               *)
Sound(k, cur, t, acc, sto) ==
    /\ k.job = "poll" => 1 <= k.from /\ k.from <= cur + 1 /\ k.to <= t
    /\ k.pc = "store" => k.batch \subseteq EmittedBy(t)
    /\ k.job = "poll" /\ k.pc = "store" => Within(k.from, k.to) \subseteq acc \cup k.batch
    /\ k.job = "poll" /\ k.pc \in {"effects", "checkpoint", "cursor"}
          => Within(k.from, k.to) \subseteq acc
    /\ k.job = "reprocess" /\ k.pc = "effects" => k.batch \subseteq sto
    /\ k.pc \in {"checkpoint", "cursor"} => k.job = "poll"

TablesEmitted ==
    /\ contractEvents \subseteq EmittedBy(tip)
    /\ quarantine \subseteq EmittedBy(tip) /\ swallowed \subseteq EmittedBy(tip)
    /\ quarantine \cup swallowed \subseteq Malformed

CheckpointsAccounted ==
    \A c \in checkpoints : c.status = "verified" =>
        \A e \in Recognised : Ledger[e] \in c.from..c.to => e \in Accounted

IndexInv ==
    /\ tip \in Nat /\ cursor \in Nat /\ cursor <= tip
    /\ worker \in [Workers -> WorkerType]
    /\ TablesEmitted
    /\ Due(cursor) \subseteq Accounted
    /\ \A w \in Workers : Sound(worker[w], cursor, tip, Accounted, Stored)
    /\ CheckpointsAccounted

(* What a process k has gathered: nothing outside a transaction, within one *)
(* only what earlier attempts have left behind, and after it the events     *)
(* whose effects are to be run.                                             *)
Gathered(k, again) ==
    /\ k.pc \in {"idle", "fetch", "checkpoint", "cursor"} => k.inserted = NoEvents
    /\ k.pc # "store" => k.updates = NoUpdates
    /\ k.pc = "store" => \A e \in Events : k.inserted[e] > 0 => e \in k.batch \cap again
    /\ \A b \in Borrowers : k.updates[b] # 0 => \E e \in again : Chain[e].borrower = b

(* An event waits for its effects in one process at most, once, and only    *)
(* before they have run, unless an attempt that was tried again had it.     *)
EffectsOnce ==
    /\ retried \subseteq Events
    /\ \A w \in Workers : Gathered(worker[w], retried)
    /\ effects \in Inserts /\ \A e \in Events : effects[e] > 0 => Recorded(e)
    /\ \A w \in Workers, e \in Events :
          worker[w].pc = "effects" /\ worker[w].inserted[e] > 0 => Recorded(e)
    /\ \A e \in Events \ retried : effects[e] <= 1 /\ (effects[e] = 1 => e \in contractEvents)
    /\ \A w \in Workers, e \in Events \ retried : worker[w].inserted[e] > 0 =>
          worker[w].inserted[e] = 1 /\ e \in contractEvents /\ effects[e] = 0
    /\ \A v, w \in Workers, e \in Events \ retried :
          worker[v].inserted[e] > 0 /\ worker[w].inserted[e] > 0 => v = w

-------------------------------------------------------------------------------
LEMMA LedgersTyped ==
    Events \subseteq Nat /\ \A e \in Events : Ledger[e] \in Nat /\ Ledger[e] >= 1
  <1> DEFINE Event == [ledger : Nat \ {0}, type : STRING, loan : STRING, borrower : STRING]
  <1>1. Chain \in Seq(Event)
    BY IndexerAssumption
  <1>2. Events \subseteq Nat /\ \A e \in Events : Chain[e] \in Event
    <2> HIDE DEF Event
    <2> QED BY <1>1 DEF Events
  <1>3. \A e \in Events : Chain[e].ledger \in Nat /\ Chain[e].ledger >= 1
    BY <1>2
  <1> QED BY <1>2, <1>3 DEF Ledger

LEMMA EmittedGrows ==
    ASSUME NEW t \in Nat, NEW t2 \in Nat, t <= t2
    PROVE  EmittedBy(t) \subseteq EmittedBy(t2)
  <1> SUFFICES ASSUME NEW e \in Events, Ledger[e] <= t PROVE Ledger[e] <= t2
    BY DEF EmittedBy
  <1>1. Ledger[e] \in Nat
    BY LedgersTyped
  <1> QED BY <1>1

LEMMA NothingEmitted == Due(0) = {}
  <1> SUFFICES ASSUME NEW e \in Events, Ledger[e] <= 0 PROVE FALSE
    BY DEF Due, Recognised
  <1>1. Ledger[e] \in Nat /\ Ledger[e] >= 1
    BY LedgersTyped
  <1> QED BY <1>1

(* After the transaction every event of the batch is stored. *)
LEMMA BatchIsStored ==
    ASSUME NEW batch \in SUBSET Events,
           contractEvents' = contractEvents \cup Inserted(batch)
    PROVE  batch \subseteq Stored'
  <1> SUFFICES ASSUME NEW e \in batch PROVE \E f \in contractEvents' : RowKey[f] = RowKey[e]
    BY DEF Stored, Recorded
  <1>1. CASE Recorded(e)
    BY <1>1 DEF Recorded
  <1>2. CASE ~Recorded(e)
    <2> DEFINE S == {f \in batch : RowKey[f] = RowKey[e]}
    <2>1. PICK f \in S : \A g \in S : f <= g
      <3>1. S \in SUBSET Nat /\ S # {}
        BY LedgersTyped
      <3> QED BY <3>1, LeastNumber
    <2>2. ~Recorded(f)
      BY <1>2 DEF Recorded
    <2>3. \A g \in batch : g < f => RowKey[g] # RowKey[f]
      BY <2>1, LedgersTyped
    <2>4. f \in Inserted(batch)
      BY <2>2, <2>3 DEF Inserted
    <2> QED BY <2>4
  <1> QED BY <1>1, <1>2

-------------------------------------------------------------------------------
(* Scores.  What an update takes from a score depends on the kinds of the   *)
(* events inserted only, so deltas add up over disjoint sets of events.     *)
OfKind(S, b, t) == {e \in S : Chain[e].borrower = b /\ Chain[e].type = t}

Count(S, b, t) == Cardinality(OfKind(S, b, t))

Apart(S, T) == S \cap T = {}

LEMMA EventsFinite == IsFiniteSet(Events)
  <1>1. Len(Chain) \in Nat /\ Events = 1..Len(Chain)
    <2> DEFINE Event == [ledger : Nat \ {0}, type : STRING, loan : STRING, borrower : STRING]
    <2>1. Chain \in Seq(Event)
      BY IndexerAssumption
    <2> HIDE DEF Event
    <2> QED BY <2>1 DEF Events
  <1> QED BY <1>1, FS_Interval

LEMMA CountsAdd ==
    ASSUME NEW S \in SUBSET Events, NEW T \in SUBSET Events, Apart(S, T), NEW b, NEW t
    PROVE  /\ Count(S, b, t) \in Nat /\ Count(T, b, t) \in Nat
           /\ Count(S \cup T, b, t) = Count(S, b, t) + Count(T, b, t)
  <1> DEFINE P == OfKind(S, b, t)
             Q == OfKind(T, b, t)
  <1>1. P \in SUBSET Events /\ Q \in SUBSET Events /\ P \cap Q = {}
        /\ OfKind(S \cup T, b, t) = P \cup Q
    BY DEF OfKind, Apart
  <1>2. IsFiniteSet(P) /\ IsFiniteSet(Q)
    <2> HIDE DEF P, Q
    <2> QED BY <1>1, EventsFinite, FS_Subset
  <1> HIDE DEF P, Q
  <1>3. Cardinality(P \cup Q) = Cardinality(P) + Cardinality(Q) - Cardinality({})
    BY <1>1, <1>2, FS_Union
  <1>4. Cardinality(P) \in Nat /\ Cardinality(Q) \in Nat /\ Cardinality({}) = 0
    BY <1>2, FS_CardinalityType, FS_EmptySet
  <1>5. Count(S, b, t) = Cardinality(P) /\ Count(T, b, t) = Cardinality(Q)
        /\ Count(S \cup T, b, t) = Cardinality(P \cup Q)
    BY <1>1 DEF Count, P, Q
  <1> QED BY <1>3, <1>4, <1>5

LEMMA DeltaByCounts ==
    ASSUME NEW S, NEW b
    PROVE  ScoreDelta(S, b) =
             RepaymentDelta * Count(S, b, "LoanRepaid")
               - DefaultPenalty * (Count(S, b, "LoanDefaulted")
                                     + Count(S, b, "CollateralLiquidated"))
  BY DEF ScoreDelta, Count, OfKind

LEMMA DeltasAdd ==
    ASSUME NEW S \in SUBSET Events, NEW T \in SUBSET Events, Apart(S, T), NEW b
    PROVE  /\ ScoreDelta(S, b) \in Int /\ ScoreDelta(T, b) \in Int
           /\ ScoreDelta(S \cup T, b) = ScoreDelta(S, b) + ScoreDelta(T, b)
  <1> DEFINE r(X) == Count(X, b, "LoanRepaid")
             d(X) == Count(X, b, "LoanDefaulted")
             c(X) == Count(X, b, "CollateralLiquidated")
             U == S \cup T
  <1>1. /\ r(S) \in Nat /\ r(T) \in Nat /\ r(U) = r(S) + r(T)
        /\ d(S) \in Nat /\ d(T) \in Nat /\ d(U) = d(S) + d(T)
        /\ c(S) \in Nat /\ c(T) \in Nat /\ c(U) = c(S) + c(T)
    <2>1. \A t : /\ Count(S, b, t) \in Nat /\ Count(T, b, t) \in Nat
                 /\ Count(U, b, t) = Count(S, b, t) + Count(T, b, t)
      <3> TAKE t
      <3> QED BY CountsAdd
    <2> QED BY <2>1
  <1>2. /\ ScoreDelta(S, b) = RepaymentDelta * r(S) - DefaultPenalty * (d(S) + c(S))
        /\ ScoreDelta(T, b) = RepaymentDelta * r(T) - DefaultPenalty * (d(T) + c(T))
        /\ ScoreDelta(U, b) = RepaymentDelta * r(U) - DefaultPenalty * (d(U) + c(U))
    BY DeltaByCounts
  <1>3. RepaymentDelta \in Nat /\ DefaultPenalty \in Nat
    BY ScoreAssumption
  <1> HIDE DEF r, d, c, U
  <1>4. /\ RepaymentDelta * r(U) = RepaymentDelta * r(S) + RepaymentDelta * r(T)
        /\ DefaultPenalty * (d(U) + c(U))
             = DefaultPenalty * (d(S) + c(S)) + DefaultPenalty * (d(T) + c(T))
    BY <1>1, <1>3
  <1>5. /\ RepaymentDelta * r(S) \in Int /\ RepaymentDelta * r(T) \in Int
        /\ DefaultPenalty * (d(S) + c(S)) \in Int /\ DefaultPenalty * (d(T) + c(T)) \in Int
    BY <1>1, <1>3
  <1>6. ScoreDelta(U, b) = ScoreDelta(S, b) + ScoreDelta(T, b)
    BY <1>2, <1>4, <1>5
  <1> QED BY <1>2, <1>5, <1>6 DEF U

LEMMA NoDelta == \A b : ScoreDelta({}, b) = 0
  <1> SUFFICES ASSUME NEW b PROVE ScoreDelta({}, b) = 0
    OBVIOUS
  <1>1. \A t : Count({}, b, t) = 0
    BY FS_EmptySet DEF Count, OfKind
  <1>2. ScoreDelta({}, b) = RepaymentDelta * 0 - DefaultPenalty * (0 + 0)
    BY <1>1, DeltaByCounts
  <1> QED BY <1>2, ScoreAssumption

(* Only the events of a borrower change its score. *)
LEMMA NoneOfBorrower ==
    ASSUME NEW S \in SUBSET Events, NEW b, \A e \in S : Chain[e].borrower # b
    PROVE  ScoreDelta(S, b) = 0
  <1>1. \A t : OfKind(S, b, t) = {}
    BY DEF OfKind
  <1>2. \A t : Count(S, b, t) = 0
    BY <1>1, FS_EmptySet DEF Count
  <1>3. ScoreDelta(S, b) = RepaymentDelta * 0 - DefaultPenalty * (0 + 0)
    BY <1>2, DeltaByCounts
  <1> QED BY <1>3, ScoreAssumption

LEMMA DeltaTyped ==
    ASSUME NEW S \in SUBSET Events, NEW b
    PROVE  ScoreDelta(S, b) \in Int
  <1>1. {} \in SUBSET Events /\ Apart(S, {})
    BY DEF Apart
  <1> QED BY <1>1, DeltasAdd

LEMMA GatheredTyped ==
    ASSUME IndexInv, NEW w \in Workers, NEW S \in SUBSET Events
    PROVE  Gather(w, S) \in Inserts /\ GatherUpdates(w, S) \in Deltas
  <1>1. worker[w].inserted \in [Events -> Nat] /\ worker[w].updates \in [Borrowers -> Int]
    BY DEF IndexInv, WorkerType, Inserts, Deltas
  <1>2. Gather(w, S) \in Inserts
    BY <1>1 DEF Gather, Inserts
  <1>3. \A b \in Borrowers : worker[w].updates[b] + ScoreDelta(S, b) \in Int
    BY <1>1, DeltaTyped
  <1> QED BY <1>2, <1>3 DEF GatherUpdates, Deltas

LEMMA NothingGathered == NoEvents \in Inserts /\ NoUpdates \in Deltas
  BY DEF NoEvents, NoUpdates, Inserts, Deltas

-------------------------------------------------------------------------------
(* As the tables, the cursor and the tip grow, no process loses what it     *)
(* has achieved.                                                            *)
LEMMA SoundStays ==
    ASSUME NEW k \in WorkerType, NEW cur \in Nat, NEW t \in Nat, NEW acc, NEW sto,
           NEW cur2 \in Nat, NEW t2 \in Nat, NEW acc2, NEW sto2,
           cur <= cur2, t <= t2, acc \subseteq acc2, sto \subseteq sto2,
           Sound(k, cur, t, acc, sto)
    PROVE  Sound(k, cur2, t2, acc2, sto2)
  <1>1. k.from \in Nat /\ k.to \in Nat
    BY DEF WorkerType
  <1>2. EmittedBy(t) \subseteq EmittedBy(t2)
    BY EmittedGrows
  <1> QED BY <1>1, <1>2 DEF Sound

LEMMA IdleIsSound ==
    ASSUME NEW cur, NEW t, NEW acc, NEW sto
    PROVE  Idle \in WorkerType /\ Sound(Idle, cur, t, acc, sto)
  BY NothingGathered DEF Idle, WorkerType, WorkerSteps, WorkerJobs, Batches, Sound

LEMMA IndexInitInv == IndexerInit => IndexInv
  <1> SUFFICES ASSUME IndexerInit PROVE IndexInv
    OBVIOUS
  <1>1. \A w \in Workers : worker[w] = Idle
    BY DEF IndexerInit
  <1>2. worker \in [Workers -> WorkerType]
    BY IdleIsSound DEF IndexerInit
  <1>3. Due(cursor) = {}
    BY NothingEmitted DEF IndexerInit
  <1>4. CheckpointsAccounted /\ TablesEmitted
    BY DEF IndexerInit, CheckpointsAccounted, TablesEmitted
  <1>5. tip \in Nat /\ cursor \in Nat /\ cursor <= tip
    BY DEF IndexerInit
  <1> QED BY <1>1, <1>2, <1>3, <1>4, <1>5, IdleIsSound DEF IndexInv

-------------------------------------------------------------------------------
(* A step of a process w that may add to the tables: it suffices to look at *)
(* w itself.                                                                *)
LEMMA WorkerMoves ==
    ASSUME IndexInv, NEW w \in Workers, NEW k \in WorkerType,
           worker' = [worker EXCEPT ![w] = k],
           cursor' \in Nat, cursor <= cursor', cursor' <= tip, UNCHANGED tip,
           TablesEmitted', Due(cursor') \subseteq Accounted',
           Accounted \subseteq Accounted', Stored \subseteq Stored',
           Sound(k, cursor', tip, Accounted', Stored'),
           CheckpointsAccounted'
    PROVE  IndexInv'
  <1>1. worker' \in [Workers -> WorkerType]
    BY DEF IndexInv
  <1>2. ASSUME NEW v \in Workers PROVE Sound(worker'[v], cursor', tip', Accounted', Stored')
    <2>1. CASE v = w
      BY <2>1 DEF IndexInv
    <2>2. CASE v # w
      <3>1. worker'[v] = worker[v] /\ worker[v] \in WorkerType
        BY <2>2 DEF IndexInv
      <3>2. Sound(worker[v], cursor, tip, Accounted, Stored) /\ tip \in Nat /\ cursor \in Nat
        BY DEF IndexInv
      <3>3. Sound(worker[v], cursor', tip, Accounted', Stored')
        BY <3>1, <3>2, SoundStays
      <3> QED BY <3>1, <3>3
    <2> QED BY <2>1, <2>2
  <1>3. tip' \in Nat /\ cursor' <= tip'
    BY DEF IndexInv
  <1> QED BY <1>1, <1>2, <1>3 DEF IndexInv

(* Checkpoints stay complete while the tables grow. *)
LEMMA VerifiedStays ==
    ASSUME CheckpointsAccounted, UNCHANGED checkpoints, Accounted \subseteq Accounted'
    PROVE  CheckpointsAccounted'
  BY DEF CheckpointsAccounted

(* A process that takes up work or drops it: nothing else changes.          *)
LEMMA QuietMove ==
    ASSUME IndexInv, NEW w \in Workers, NEW k \in WorkerType,
           worker' = [worker EXCEPT ![w] = k],
           Sound(k, cursor, tip, Accounted, Stored),
           UNCHANGED <<tip, cursor, checkpoints, contractEvents, quarantine, swallowed>>
    PROVE  IndexInv'
  <1>1. Accounted' = Accounted /\ Stored' = Stored
    BY DEF Accounted, Stored, Recorded
  <1>2. TablesEmitted' /\ Due(cursor') \subseteq Accounted' /\ CheckpointsAccounted'
    BY <1>1 DEF IndexInv, TablesEmitted, CheckpointsAccounted
  <1>3. Sound(k, cursor', tip, Accounted', Stored') /\ cursor' \in Nat /\ cursor <= cursor'
        /\ cursor' <= tip
    BY <1>1 DEF IndexInv
  <1> QED BY <1>1, <1>2, <1>3, WorkerMoves

(* How a step shows in the abstract log: the network closes a ledger,       *)
(* events are entered, or the mark moves.                                   *)
StepKind ==
    \/ tip < MaxTip /\ tip' = tip + 1 /\ cursor' = cursor /\ contractEvents' = contractEvents
    \/ tip' = tip /\ cursor' = cursor /\ contractEvents \subseteq contractEvents'
    \/ tip' = tip /\ cursor <= cursor' /\ contractEvents' = contractEvents

LEMMA CloseKeepsInv ==
    ASSUME IndexInv, CloseLedger
    PROVE  IndexInv' /\ StepKind
  <1>1. Accounted' = Accounted /\ Stored' = Stored
    BY DEF CloseLedger, Accounted, Stored, Recorded
  <1>2. /\ tip \in Nat /\ tip' \in Nat /\ tip <= tip' /\ cursor' = cursor /\ cursor \in Nat
        /\ cursor' <= tip' /\ worker' = worker
    BY DEF CloseLedger, IndexInv
  <1>3. EmittedBy(tip) \subseteq EmittedBy(tip')
    BY <1>2, EmittedGrows
  <1>4. TablesEmitted'
    BY <1>3 DEF TablesEmitted, IndexInv, CloseLedger
  <1>5. \A v \in Workers : Sound(worker'[v], cursor', tip', Accounted', Stored')
    <2> SUFFICES ASSUME NEW v \in Workers PROVE Sound(worker[v], cursor, tip', Accounted, Stored)
      BY <1>1, <1>2
    <2>1. worker[v] \in WorkerType /\ Sound(worker[v], cursor, tip, Accounted, Stored)
      BY DEF IndexInv
    <2> QED BY <1>2, <2>1, SoundStays
  <1>6. CheckpointsAccounted'
    BY <1>1 DEF CloseLedger, IndexInv, CheckpointsAccounted
  <1>7. StepKind
    BY DEF StepKind, CloseLedger
  <1> QED BY <1>1, <1>2, <1>4, <1>5, <1>6, <1>7 DEF IndexInv

LEMMA SameTables ==
    ASSUME UNCHANGED <<tip, cursor, contractEvents, quarantine, swallowed>>
    PROVE  Accounted' = Accounted /\ Stored' = Stored /\ StepKind
  BY DEF Accounted, Stored, Recorded, StepKind

LEMMA DeployKeepsInv ==
    ASSUME IndexInv, DeployParser
    PROVE  IndexInv' /\ StepKind
  <1>1. Accounted' = Accounted /\ Stored' = Stored /\ StepKind
    BY SameTables DEF DeployParser
  <1> QED BY <1>1 DEF DeployParser, IndexInv, TablesEmitted, CheckpointsAccounted

(* A job begins: a poll from the ledger after the cursor up to the tip at   *)
(* the most, a reindex anywhere, a quarantined row that was emitted.        *)
LEMMA JobStartsKeepsInv ==
    ASSUME IndexInv, NEW w \in Workers,
           \/ PollOnce(w)
           \/ \E from, to \in 1..MaxTip : ReindexRange(w, from, to)
           \/ \E e \in quarantine : ReprocessQuarantined(w, e)
    PROVE  IndexInv' /\ StepKind
  <1>0. tip \in Nat /\ cursor \in Nat /\ BatchSize \in Nat /\ MaxTip \in Nat
    BY IndexerAssumption DEF IndexInv
  <1>1. ASSUME NEW name \in {"poll", "reindex"}, NEW from \in Nat, NEW to \in Nat
        PROVE  LET k == Job(name, from, to)
               IN  /\ k \in WorkerType /\ k.job = name /\ k.pc = "fetch"
                   /\ k.from = from /\ k.to = to
    BY IdleIsSound DEF Job, Idle, WorkerType, WorkerSteps, WorkerJobs
  <1>2. CASE PollOnce(w)
    <2> DEFINE to == Lesser(cursor + BatchSize, tip)
               k == Job("poll", cursor + 1, to)
    <2>1. to \in Nat /\ to <= tip
      BY <1>0 DEF Lesser
    <2>2. /\ k \in WorkerType /\ k.job = "poll" /\ k.pc = "fetch"
          /\ k.from = cursor + 1 /\ k.to = to
      BY <1>0, <1>1, <2>1
    <2> HIDE DEF k, to
    <2>3. Sound(k, cursor, tip, Accounted, Stored)
      BY <1>0, <2>1, <2>2 DEF Sound
    <2>4. worker' = [worker EXCEPT ![w] = k]
      BY <1>2 DEF PollOnce, k, to
    <2>5. UNCHANGED <<tip, cursor, checkpoints, contractEvents, quarantine, swallowed>>
      BY <1>2 DEF PollOnce
    <2> QED BY <2>2, <2>3, <2>4, <2>5, QuietMove, SameTables
  <1>3. ASSUME NEW from \in 1..MaxTip, NEW to \in 1..MaxTip, ReindexRange(w, from, to)
        PROVE  IndexInv' /\ StepKind
    <2> DEFINE k == Job("reindex", from, to)
    <2>1. k \in WorkerType /\ k.job = "reindex" /\ k.pc = "fetch"
      BY <1>0, <1>1
    <2> HIDE DEF k
    <2>2. Sound(k, cursor, tip, Accounted, Stored)
      BY <2>1 DEF Sound
    <2>3. worker' = [worker EXCEPT ![w] = k]
      BY <1>3 DEF ReindexRange, k
    <2>4. UNCHANGED <<tip, cursor, checkpoints, contractEvents, quarantine, swallowed>>
      BY <1>3 DEF ReindexRange
    <2> QED BY <2>1, <2>2, <2>3, <2>4, QuietMove, SameTables
  <1>4. ASSUME NEW e \in quarantine, ReprocessQuarantined(w, e)
        PROVE  IndexInv' /\ StepKind
    <2> DEFINE k == [Idle EXCEPT !.pc = "store", !.job = "reprocess", !.batch = {e}]
    <2>1. e \in EmittedBy(tip) /\ e \in Events
      BY DEF IndexInv, TablesEmitted, EmittedBy
    <2>2. {e} \in Batches /\ {} \in Batches
      BY <2>1 DEF Batches
    <2>3. /\ k \in WorkerType /\ k.job = "reprocess" /\ k.pc = "store"
          /\ k.batch = {e}
      BY <2>2, NothingGathered DEF Idle, WorkerType, WorkerSteps, WorkerJobs
    <2> HIDE DEF k
    <2>4. Sound(k, cursor, tip, Accounted, Stored)
      BY <2>1, <2>3 DEF Sound
    <2>5. worker' = [worker EXCEPT ![w] = k]
      BY <1>4 DEF ReprocessQuarantined, k
    <2>6. UNCHANGED <<tip, cursor, checkpoints, contractEvents, quarantine, swallowed>>
      BY <1>4 DEF ReprocessQuarantined
    <2> QED BY <2>3, <2>4, <2>5, <2>6, QuietMove, SameTables
  <1> QED BY <1>2, <1>3, <1>4

(* The fetched range is split into what is quarantined, what is swallowed,  *)
(* what parses to null and the batch: no recognised event of it is lost.    *)
LEMMA FetchKeepsInv ==
    ASSUME IndexInv, NEW w \in Workers, FetchAndParse(w)
    PROVE  IndexInv' /\ StepKind
  <1> DEFINE range == {e \in FetchEventsInRange(worker[w].from, worker[w].to) : Ledger[e] <= tip}
             bad == {e \in range : Throws(e)}
             null == {e \in range : ParsesToNull(e)}
             good == range \ (bad \cup null)
             k == [worker[w] EXCEPT !.pc = "store", !.batch = good]
  <1>1. /\ quarantine \subseteq quarantine' /\ quarantine' \subseteq quarantine \cup bad
        /\ swallowed \subseteq swallowed' /\ swallowed' \subseteq swallowed \cup bad
        /\ bad \subseteq quarantine' \cup swallowed'
        /\ worker' = [worker EXCEPT ![w] = k] /\ worker[w].pc = "fetch"
        /\ UNCHANGED <<tip, cursor, checkpoints, contractEvents>>
    BY DEF FetchAndParse, At
  <1>2. /\ range \subseteq EmittedBy(tip) /\ bad \subseteq range /\ good \subseteq range
        /\ bad \subseteq Malformed /\ null \cap Recognised = {}
    BY DEF FetchEventsInRange, EmittedBy, Throws, ParsesToNull, Recognised
  <1>3. worker[w].job = "poll" => Within(worker[w].from, worker[w].to) \subseteq bad \cup good
    <2> SUFFICES ASSUME worker[w].job = "poll", NEW e \in Within(worker[w].from, worker[w].to)
                 PROVE  e \in range
      BY <1>2 DEF Within
    <2>1. worker[w].to <= tip /\ worker[w].to \in Nat /\ tip \in Nat
      BY DEF IndexInv, Sound, WorkerType
    <2>2. e \in Events /\ Ledger[e] \in Nat
          /\ worker[w].from <= Ledger[e] /\ Ledger[e] <= worker[w].to
      BY LedgersTyped DEF Within, Recognised
    <2> QED BY <2>1, <2>2 DEF FetchEventsInRange
  <1>4. good \in Batches /\ "store" \in WorkerSteps /\ worker[w] \in WorkerType
    BY <1>2 DEF EmittedBy, Batches, WorkerSteps, IndexInv
  <1> HIDE DEF range, bad, null, good
  <1>5. /\ k \in WorkerType /\ k.pc = "store" /\ k.job = worker[w].job /\ k.from = worker[w].from
        /\ k.to = worker[w].to /\ k.batch = good
    BY <1>4 DEF WorkerType
  <1> HIDE DEF k
  <1>6. Accounted \subseteq Accounted' /\ Stored' = Stored /\ bad \subseteq Accounted'
    BY <1>1 DEF Accounted, Stored, Recorded
  <1>7. TablesEmitted'
    BY <1>1, <1>2 DEF IndexInv, TablesEmitted
  <1>8. Sound(k, cursor', tip, Accounted', Stored')
    <2>1. Sound(worker[w], cursor, tip, Accounted, Stored)
      BY DEF IndexInv
    <2> QED BY <1>1, <1>2, <1>3, <1>5, <1>6, <2>1 DEF Sound
  <1>10. CheckpointsAccounted' /\ Due(cursor') \subseteq Accounted'
    BY <1>1, <1>6, VerifiedStays DEF IndexInv
  <1>11. cursor' \in Nat /\ cursor <= cursor' /\ cursor' <= tip
    BY <1>1 DEF IndexInv
  <1>12. StepKind
    BY <1>1 DEF StepKind
  <1> QED BY <1>1, <1>5, <1>6, <1>7, <1>8, <1>10, <1>11, <1>12, WorkerMoves

(* The transaction stores the whole batch. *)
LEMMA StoreKeepsInv ==
    ASSUME IndexInv, NEW w \in Workers, StoreEvents(w)
    PROVE  IndexInv' /\ StepKind
  <1> DEFINE batch == worker[w].batch
             new == Inserted(batch)
             ins == Gather(w, new)
             k == [worker[w] EXCEPT !.pc = "effects", !.updates = NoUpdates, !.inserted = ins]
  <1>1. /\ contractEvents' = contractEvents \cup new /\ worker[w].pc = "store"
        /\ worker' = [worker EXCEPT ![w] = k]
        /\ UNCHANGED <<tip, cursor, checkpoints, quarantine, swallowed>>
    BY DEF StoreEvents, At
  <1>2. worker[w] \in WorkerType /\ "effects" \in WorkerSteps /\ batch \in SUBSET Events
    BY DEF IndexInv, WorkerType, WorkerSteps, Batches
  <1>3. new \subseteq batch /\ new \in SUBSET Events
    BY <1>2 DEF Inserted
  <1>4. batch \subseteq EmittedBy(tip)
    BY <1>1 DEF IndexInv, Sound
  <1>5. batch \subseteq Stored' /\ Stored \subseteq Stored' /\ Stored' \subseteq Accounted'
        /\ Accounted \subseteq Accounted'
    <2>1. batch \subseteq Stored'
      BY <1>1, <1>2, BatchIsStored
    <2>2. \A e \in Events : Recorded(e) => Recorded(e)'
      BY <1>1 DEF Recorded
    <2> QED BY <1>1, <2>1, <2>2 DEF Stored, Accounted
  <1>6. /\ k \in WorkerType /\ k.pc = "effects" /\ k.job = worker[w].job /\ k.from = worker[w].from
        /\ k.to = worker[w].to /\ k.batch = batch
    <2>1. ins \in Inserts /\ NoUpdates \in Deltas
      BY <1>3, GatheredTyped, NothingGathered
    <2> HIDE DEF ins
    <2> QED BY <1>2, <2>1 DEF WorkerType
  <1> HIDE DEF k, new
  <1>7. TablesEmitted'
    BY <1>1, <1>3, <1>4 DEF IndexInv, TablesEmitted
  <1>8. Sound(k, cursor', tip, Accounted', Stored')
    <2>1. Sound(worker[w], cursor, tip, Accounted, Stored)
      BY DEF IndexInv
    <2> QED BY <1>1, <1>5, <1>6, <2>1 DEF Sound
  <1>9. CheckpointsAccounted' /\ Due(cursor') \subseteq Accounted'
    BY <1>1, <1>5, VerifiedStays DEF IndexInv
  <1>10. cursor' \in Nat /\ cursor <= cursor' /\ cursor' <= tip
    BY <1>1 DEF IndexInv
  <1>11. StepKind
    BY <1>1 DEF StepKind
  <1> QED BY <1>1, <1>5, <1>6, <1>7, <1>8, <1>9, <1>10, <1>11, WorkerMoves

(* Gathering and running effects change nothing but the process and the     *)
(* counts of effects.                                                       *)
LEMMA GatheringMoves ==
    ASSUME IndexInv, NEW w \in Workers, NEW ins \in Inserts, NEW upd \in Deltas, NEW n \in Nat,
           worker' = [worker EXCEPT ![w] = [worker[w] EXCEPT !.inserted = ins, !.updates = upd,
                                                             !.attempt = n]],
           UNCHANGED <<tip, cursor, checkpoints, contractEvents, quarantine, swallowed>>
    PROVE  IndexInv' /\ StepKind
  <1> DEFINE k == [worker[w] EXCEPT !.inserted = ins, !.updates = upd, !.attempt = n]
  <1>1. worker[w] \in WorkerType /\ Sound(worker[w], cursor, tip, Accounted, Stored)
    BY DEF IndexInv
  <1>2. /\ k \in WorkerType /\ k.pc = worker[w].pc /\ k.job = worker[w].job
        /\ k.from = worker[w].from /\ k.to = worker[w].to /\ k.batch = worker[w].batch
    BY <1>1 DEF WorkerType
  <1> HIDE DEF k
  <1>3. Sound(k, cursor, tip, Accounted, Stored)
    BY <1>1, <1>2 DEF Sound
  <1> QED BY <1>2, <1>3, QuietMove, SameTables DEF k

LEMMA RetryGathers ==
    ASSUME IndexInv, NEW w \in Workers, StoreRetries(w)
    PROVE  \E S \in SUBSET Inserted(worker[w].batch) :
              /\ S \in SUBSET Events /\ retried' = retried \cup S
              /\ worker' = [worker EXCEPT ![w] =
                    [worker[w] EXCEPT !.inserted = Gather(w, S), !.updates = GatherUpdates(w, S),
                                      !.attempt = worker[w].attempt + 1]]
  <1>1. PICK n \in {0} \cup worker[w].batch :
          LET seen == {e \in Inserted(worker[w].batch) : e <= n}
          IN  /\ retried' = retried \cup seen
              /\ worker' = [worker EXCEPT ![w].attempt = @ + 1,
                                          ![w].inserted = Gather(w, seen),
                                          ![w].updates = GatherUpdates(w, seen)]
    BY DEF StoreRetries
  <1> DEFINE S == {e \in Inserted(worker[w].batch) : e <= n}
  <1>2. S \in SUBSET Inserted(worker[w].batch) /\ S \in SUBSET Events
    BY DEF IndexInv, WorkerType, Batches, Inserted
  <1>3. /\ retried' = retried \cup S
        /\ worker' = [worker EXCEPT ![w] =
              [worker[w] EXCEPT !.inserted = Gather(w, S), !.updates = GatherUpdates(w, S),
                                !.attempt = worker[w].attempt + 1]]
    <2> HIDE DEF S
    <2> QED BY <1>1 DEF S, IndexInv
  <1> HIDE DEF S
  <1> QED BY <1>2, <1>3

LEMMA RetryKeepsInv ==
    ASSUME IndexInv, NEW w \in Workers, StoreRetries(w)
    PROVE  IndexInv' /\ StepKind
  <1>1. PICK S \in SUBSET Events :
          worker' = [worker EXCEPT ![w] =
             [worker[w] EXCEPT !.inserted = Gather(w, S), !.updates = GatherUpdates(w, S),
                               !.attempt = worker[w].attempt + 1]]
    BY RetryGathers
  <1>2. UNCHANGED <<tip, cursor, checkpoints, contractEvents, quarantine, swallowed>>
    BY DEF StoreRetries
  <1>3. worker[w].attempt + 1 \in Nat
    BY DEF IndexInv, WorkerType
  <1> QED BY <1>1, <1>2, <1>3, GatheredTyped, GatheringMoves

(* One event's effects are started, and it is taken off what was gathered.  *)
LEMMA EffectTaken ==
    ASSUME IndexInv, NEW w \in Workers, RunEffects(w)
    PROVE  \E e \in Events :
              /\ worker[w].pc = "effects" /\ worker[w].inserted[e] > 0
              /\ effects' = [effects EXCEPT ![e] = @ + 1]
              /\ [worker[w].inserted EXCEPT ![e] = @ - 1] \in Inserts
              /\ worker' = [worker EXCEPT ![w] =
                    [worker[w] EXCEPT !.inserted = [worker[w].inserted EXCEPT ![e] = @ - 1],
                                      !.updates = worker[w].updates,
                                      !.attempt = worker[w].attempt]]
  <1>1. PICK e \in Events :
          /\ worker[w].inserted[e] > 0 /\ effects' = [effects EXCEPT ![e] = @ + 1]
          /\ worker' = [worker EXCEPT ![w].inserted[e] = @ - 1]
    BY DEF RunEffects
  <1>2. worker[w] \in WorkerType /\ worker[w].inserted \in [Events -> Nat]
    BY DEF IndexInv, WorkerType, Inserts
  <1> DEFINE ins == [worker[w].inserted EXCEPT ![e] = @ - 1]
  <1>3. ins \in Inserts
    BY <1>1, <1>2 DEF Inserts
  <1>4. worker' = [worker EXCEPT ![w] = [worker[w] EXCEPT !.inserted = ins]]
    BY <1>1
  <1> HIDE DEF ins
  <1>5. [worker[w] EXCEPT !.inserted = ins]
          = [worker[w] EXCEPT !.inserted = ins, !.updates = worker[w].updates,
                              !.attempt = worker[w].attempt]
    BY <1>2 DEF WorkerType
  <1>6. worker[w].pc = "effects"
    BY DEF RunEffects, At
  <1> QED BY <1>1, <1>3, <1>4, <1>5, <1>6 DEF ins

LEMMA EffectsKeepInv ==
    ASSUME IndexInv, NEW w \in Workers, RunEffects(w)
    PROVE  IndexInv' /\ StepKind
  <1>1. PICK ins \in Inserts :
          worker' = [worker EXCEPT ![w] =
             [worker[w] EXCEPT !.inserted = ins, !.updates = worker[w].updates,
                               !.attempt = worker[w].attempt]]
    BY EffectTaken
  <1>2. UNCHANGED <<tip, cursor, checkpoints, contractEvents, quarantine, swallowed>>
    BY DEF RunEffects
  <1>3. worker[w].updates \in Deltas /\ worker[w].attempt \in Nat
    BY DEF IndexInv, WorkerType
  <1> QED BY <1>1, <1>2, <1>3, GatheringMoves

(* A process that goes on to another step without touching anything else.   *)
LEMMA GotoMoves ==
    ASSUME IndexInv, NEW w \in Workers, NEW pc \in WorkerSteps, Goto(w, pc)
    PROVE  \E k \in WorkerType :
              /\ worker' = [worker EXCEPT ![w] = k] /\ k.pc = pc /\ k.job = worker[w].job
              /\ k.from = worker[w].from /\ k.to = worker[w].to /\ k.batch = worker[w].batch
              /\ k.inserted = worker[w].inserted /\ k.updates = worker[w].updates
  <1> DEFINE k == [worker[w] EXCEPT !.pc = pc]
  <1>1. worker[w] \in WorkerType
    BY DEF IndexInv
  <1>2. /\ k \in WorkerType /\ k.pc = pc /\ k.job = worker[w].job /\ k.from = worker[w].from
        /\ k.to = worker[w].to /\ k.batch = worker[w].batch /\ k.inserted = worker[w].inserted /\ k.updates = worker[w].updates
    BY <1>1 DEF WorkerType
  <1>3. worker' = [worker EXCEPT ![w] = k]
    BY DEF Goto
  <1> HIDE DEF k
  <1> QED BY <1>2, <1>3

LEMMA FinishQuietly ==
    ASSUME IndexInv, NEW w \in Workers, Finish(w),
           UNCHANGED <<tip, cursor, checkpoints, contractEvents, quarantine, swallowed>>
    PROVE  IndexInv' /\ StepKind
  BY IdleIsSound, QuietMove, SameTables DEF Finish

(* A reprocessed row leaves the quarantine only when its event is stored.   *)
LEMMA AfterStoreKeepsInv ==
    ASSUME IndexInv, NEW w \in Workers, AfterStore(w)
    PROVE  IndexInv' /\ StepKind
  <1>0. /\ worker[w].pc = "effects"
        /\ UNCHANGED <<tip, cursor, checkpoints, contractEvents, swallowed>>
    BY DEF AfterStore, At
  <1>1. CASE worker[w].job = "poll" /\ Goto(w, "checkpoint") /\ UNCHANGED quarantine
    <2>1. PICK k \in WorkerType :
             /\ worker' = [worker EXCEPT ![w] = k] /\ k.pc = "checkpoint" /\ k.job = worker[w].job
             /\ k.from = worker[w].from /\ k.to = worker[w].to /\ k.batch = worker[w].batch
             /\ k.inserted = worker[w].inserted /\ k.updates = worker[w].updates
      BY <1>1, GotoMoves DEF WorkerSteps
    <2>2. Sound(worker[w], cursor, tip, Accounted, Stored)
      BY DEF IndexInv
    <2>3. Sound(k, cursor, tip, Accounted, Stored)
      BY <1>0, <1>1, <2>1, <2>2 DEF Sound
    <2> QED BY <1>0, <1>1, <2>1, <2>3, QuietMove, SameTables
  <1>2. CASE worker[w].job = "reindex" /\ Finish(w) /\ UNCHANGED quarantine
    BY <1>0, <1>2, FinishQuietly
  <1>3. CASE /\ worker[w].job = "reprocess" /\ Finish(w)
             /\ quarantine' = quarantine \ worker[w].batch
    <2>1. worker[w].batch \subseteq Stored
      BY <1>0, <1>3 DEF IndexInv, Sound
    <2>2. Stored' = Stored
      BY <1>0 DEF Stored, Recorded
    <2>3. Accounted' = Accounted
      BY <1>0, <1>3, <2>1, <2>2 DEF Accounted, Stored
    <2>4. TablesEmitted' /\ Due(cursor') \subseteq Accounted'
      BY <1>0, <1>3, <2>3 DEF IndexInv, TablesEmitted
    <2>5. worker' = [worker EXCEPT ![w] = Idle] /\ Idle \in WorkerType
          /\ Sound(Idle, cursor', tip, Accounted', Stored')
      BY <1>3, IdleIsSound DEF Finish
    <2>8. CheckpointsAccounted'
      BY <1>0, <2>3, VerifiedStays DEF IndexInv
    <2>9. cursor' \in Nat /\ cursor <= cursor' /\ cursor' <= tip /\ tip' = tip
      BY <1>0 DEF IndexInv
    <2>10. StepKind
      BY <1>0 DEF StepKind
    <2> QED BY <2>2, <2>3, <2>4, <2>5, <2>8, <2>9, <2>10, WorkerMoves
  <1> QED BY <1>1, <1>2, <1>3 DEF AfterStore

(* By the time of its checkpoint a poll has accounted for its whole range.  *)
LEMMA CheckpointKeepsInv ==
    ASSUME IndexInv, NEW w \in Workers, RecordCheckpoint(w)
    PROVE  IndexInv' /\ StepKind
  <1>0. /\ worker[w].pc = "checkpoint" /\ Goto(w, "cursor")
        /\ checkpoints' = checkpoints \cup Gap(worker[w].from)
                                      \cup {Verified(worker[w].from, worker[w].to)}
        /\ UNCHANGED <<tip, cursor, contractEvents, quarantine, swallowed>>
    BY DEF RecordCheckpoint, At
  <1>1. PICK k \in WorkerType :
           /\ worker' = [worker EXCEPT ![w] = k] /\ k.pc = "cursor" /\ k.job = worker[w].job
           /\ k.from = worker[w].from /\ k.to = worker[w].to /\ k.batch = worker[w].batch
           /\ k.inserted = worker[w].inserted /\ k.updates = worker[w].updates
    BY <1>0, GotoMoves DEF WorkerSteps
  <1>2. Accounted' = Accounted /\ Stored' = Stored /\ StepKind
    BY <1>0, SameTables
  <1>3. Sound(worker[w], cursor, tip, Accounted, Stored)
    BY DEF IndexInv
  <1>4. Sound(k, cursor', tip, Accounted', Stored')
    BY <1>0, <1>1, <1>2, <1>3 DEF Sound
  <1>5. CheckpointsAccounted'
    <2>1. Within(worker[w].from, worker[w].to) \subseteq Accounted
      BY <1>0, <1>3 DEF Sound
    <2>2. \A c \in Gap(worker[w].from) : c.status # "verified"
      BY DEF Gap
    <2>3. \A c \in {Verified(worker[w].from, worker[w].to)} :
             c.from = worker[w].from /\ c.to = worker[w].to
      BY DEF Verified
    <2>4. worker[w].from \in Nat /\ worker[w].to \in Nat
      BY DEF IndexInv, WorkerType
    <2>5. \A e \in Recognised : Ledger[e] \in worker[w].from..worker[w].to => e \in Accounted
      BY <2>1, <2>4 DEF Within
    <2>6. ASSUME NEW c \in checkpoints', c.status = "verified", NEW e \in Recognised,
                 Ledger[e] \in c.from..c.to
          PROVE  e \in Accounted'
      <3>1. CASE c \in checkpoints
        BY <1>2, <2>6, <3>1 DEF IndexInv, CheckpointsAccounted
      <3>2. CASE c \in {Verified(worker[w].from, worker[w].to)}
        BY <1>2, <2>3, <2>5, <2>6, <3>2
      <3> QED BY <1>0, <2>2, <2>6, <3>1, <3>2
    <2> QED BY <2>6 DEF CheckpointsAccounted
  <1>7. TablesEmitted' /\ Due(cursor') \subseteq Accounted'
    BY <1>0, <1>2 DEF IndexInv, TablesEmitted
  <1>8. cursor' \in Nat /\ cursor <= cursor' /\ cursor' <= tip /\ tip' = tip
    BY <1>0 DEF IndexInv
  <1> QED BY <1>1, <1>2, <1>4, <1>5, <1>7, <1>8, WorkerMoves

(* The cursor rises over a range that began at most one ledger above it.    *)
LEMMA CursorKeepsInv ==
    ASSUME IndexInv, NEW w \in Workers, UpdateLastIndexedLedger(w)
    PROVE  IndexInv' /\ StepKind
  <1>0. /\ worker[w].pc = "cursor" /\ cursor' = Greater(cursor, worker[w].to) /\ Finish(w)
        /\ UNCHANGED <<tip, checkpoints, contractEvents, quarantine, swallowed>>
    BY DEF UpdateLastIndexedLedger, At
  <1>1. /\ cursor \in Nat /\ tip \in Nat /\ cursor <= tip
        /\ worker[w].from \in Nat /\ worker[w].to \in Nat
        /\ worker[w].from <= cursor + 1 /\ worker[w].to <= tip
        /\ Within(worker[w].from, worker[w].to) \subseteq Accounted
        /\ Due(cursor) \subseteq Accounted
    BY <1>0 DEF IndexInv, Sound, WorkerType
  <1>2. cursor' \in Nat /\ cursor <= cursor' /\ cursor' <= tip /\ tip' = tip
    BY <1>0, <1>1 DEF Greater
  <1>3. Accounted' = Accounted /\ Stored' = Stored
    BY <1>0 DEF Accounted, Stored, Recorded
  <1>4. Due(cursor') \subseteq Accounted'
    <2> SUFFICES ASSUME NEW e \in Recognised, Ledger[e] <= cursor' PROVE e \in Accounted
      BY <1>3 DEF Due
    <2>1. Ledger[e] \in Nat
      BY LedgersTyped DEF Recognised
    <2>2. CASE Ledger[e] <= cursor
      BY <1>1, <2>2 DEF Due
    <2>3. CASE ~(Ledger[e] <= cursor)
      <3>1. worker[w].from <= Ledger[e] /\ Ledger[e] <= worker[w].to
        BY <1>0, <1>1, <2>1, <2>3 DEF Greater
      <3> QED BY <1>1, <3>1 DEF Within
    <2> QED BY <2>2, <2>3
  <1>5. worker' = [worker EXCEPT ![w] = Idle] /\ Idle \in WorkerType
        /\ Sound(Idle, cursor', tip, Accounted', Stored')
    BY <1>0, IdleIsSound DEF Finish
  <1>8. CheckpointsAccounted' /\ TablesEmitted'
    BY <1>0, <1>3, VerifiedStays DEF IndexInv, TablesEmitted
  <1>9. StepKind
    BY <1>0, <1>2 DEF StepKind
  <1> QED BY <1>2, <1>3, <1>4, <1>5, <1>8, <1>9, WorkerMoves

-------------------------------------------------------------------------------
LEMMA IndexNextInv == IndexInv /\ [IndexerNext]_indexerVars => IndexInv' /\ StepKind
  <1> SUFFICES ASSUME IndexInv, [IndexerNext]_indexerVars PROVE IndexInv' /\ StepKind
    OBVIOUS
  <1>1. CASE UNCHANGED indexerVars
    <2>1. Accounted' = Accounted /\ Stored' = Stored /\ StepKind
      BY <1>1, SameTables DEF indexerVars
    <2> QED BY <1>1, <2>1
            DEF indexerVars, IndexInv, TablesEmitted, CheckpointsAccounted
  <1>2. ASSUME NEW w \in Workers, JobFails(w) PROVE IndexInv' /\ StepKind
    BY <1>2, FinishQuietly DEF JobFails
  <1>3. ASSUME NEW w \in Workers, PollStep(w) PROVE IndexInv' /\ StepKind
    BY <1>3, JobStartsKeepsInv, FetchKeepsInv, StoreKeepsInv, EffectsKeepInv, AfterStoreKeepsInv,
       CheckpointKeepsInv, CursorKeepsInv DEF PollStep
  <1> QED BY <1>1, <1>2, <1>3, CloseKeepsInv, DeployKeepsInv, JobStartsKeepsInv, RetryKeepsInv
          DEF IndexerNext

(* The inductive invariant of every indexer process and table: below the    *)
(* cursor, in every verified checkpoint and in every range under way, no    *)
(* event that parseEvent recognises is lost.                                *)
THEOREM IndexInvHolds == IndexerSpec => []IndexInv
  BY IndexInitInv, IndexNextInv, PTL DEF IndexerSpec

(* However polls, reindexing, retries and failures interleave, a ledger     *)
(* that a checkpoint of recordCheckpoint calls verified has no recognised   *)
(* event missing.                                                           *)
THEOREM VerifiedAlwaysComplete == IndexerSpec => []VerifiedRangesComplete
  <1>1. IndexInv => VerifiedRangesComplete
    BY DEF IndexInv, CheckpointsAccounted, VerifiedRangesComplete, TablesEmitted, Accounted,
           Stored, Recognised
  <1> QED BY <1>1, IndexInvHolds, PTL

(* The rows of ordinary events are a log of the chain that only grows, and  *)
(* last_ledger never passes an ordinary event missing from it, on every     *)
(* chain and with any number of processes and failures.                     *)
THEOREM IndexerImplementsLog == IndexerSpec => ImplementsEventLog
  <1>1. IndexerInit => Log!Init
    BY DEF IndexerInit, Log!Init
  <1>2. IndexInv /\ IndexInv' /\ StepKind => [Log!Next]_(Log!vars)
    <2> SUFFICES ASSUME IndexInv, IndexInv', StepKind PROVE Log!Next
      OBVIOUS
    <2>1. CASE tip < MaxTip /\ tip' = tip + 1 /\ cursor' = cursor /\ contractEvents' = contractEvents
      BY <2>1 DEF Log!Next, Log!Close
    <2>2. CASE tip' = tip /\ cursor' = cursor /\ contractEvents \subseteq contractEvents'
      <3>1. contractEvents' \subseteq EmittedBy(tip)
        BY <2>2 DEF IndexInv, TablesEmitted
      <3> QED BY <2>2, <3>1 DEF Log!Next, Log!Enter, Log!Emitted, EmittedBy
    <2>3. CASE tip' = tip /\ cursor <= cursor' /\ contractEvents' = contractEvents
      <3>1. cursor' \in cursor..tip
        BY <2>3 DEF IndexInv
      <3>2. ASSUME NEW e \in Ordinary, Ledger[e] <= cursor' PROVE e \in contractEvents
        <4>1. e \in Accounted' /\ e \notin Malformed
          BY <3>2 DEF IndexInv, Due, Ordinary
        <4>2. PICK f \in contractEvents' : RowKey[f] = RowKey[e]
          BY <4>1 DEF IndexInv, TablesEmitted, Accounted, Stored, Recorded
        <4>3. f \in Events
          BY <2>3, <4>2 DEF IndexInv, TablesEmitted, EmittedBy
        <4> QED BY <2>3, <4>2, <4>3 DEF Ordinary
      <3> QED BY <2>3, <3>1, <3>2 DEF Log!Next, Log!Advance, Log!Emitted
    <2> QED BY <2>1, <2>2, <2>3 DEF StepKind
  <1> QED BY <1>1, <1>2, IndexInvHolds, IndexNextInv, PTL
          DEF IndexerSpec, ImplementsEventLog, Log!Spec

-------------------------------------------------------------------------------
(* Effects.  A process that takes up work, goes on or drops it waits for no *)
(* effects it did not wait for before.                                      *)
LEMMA EffectsQuiet ==
    ASSUME EffectsOnce, IndexInv, NEW w \in Workers, NEW k \in WorkerType,
           worker' = [worker EXCEPT ![w] = k], Gathered(k, retried),
           k.inserted \in {NoEvents, worker[w].inserted},
           k.pc = "effects" => worker[w].pc = "effects",
           UNCHANGED <<contractEvents, retried, effects>>
    PROVE  EffectsOnce'
  <1>1. /\ worker'[w] = k /\ \A v \in Workers : v # w => worker'[v] = worker[v]
        /\ \A e \in Events : Recorded(e)' = Recorded(e)
    BY DEF IndexInv, Recorded
  <1>2. \A v \in Workers, e \in Events :
           worker'[v].inserted[e] > 0 =>
              /\ worker'[v].inserted = worker[v].inserted
              /\ worker'[v].pc = "effects" => worker[v].pc = "effects"
    BY <1>1 DEF NoEvents
  <1>3. \A v \in Workers : Gathered(worker'[v], retried')
    BY <1>1 DEF EffectsOnce
  <1> QED BY <1>1, <1>2, <1>3 DEF EffectsOnce

LEMMA IdleGathers == \A again : Gathered(Idle, again)
  BY DEF Gathered, Idle, NoUpdates

LEMMA FinishKeepsEffects ==
    ASSUME EffectsOnce, IndexInv, NEW w \in Workers, Finish(w),
           UNCHANGED <<contractEvents, retried, effects>>
    PROVE  EffectsOnce'
  <1>1. Idle \in WorkerType /\ Idle.inserted = NoEvents /\ Idle.pc = "idle"
    BY IdleIsSound DEF Idle
  <1>2. worker' = [worker EXCEPT ![w] = Idle]
    BY DEF Finish
  <1> QED BY <1>1, <1>2, IdleGathers, EffectsQuiet

LEMMA JobStartKeepsEffects ==
    ASSUME EffectsOnce, IndexInv, NEW w \in Workers,
           \/ PollOnce(w)
           \/ \E from, to \in 1..MaxTip : ReindexRange(w, from, to)
           \/ \E e \in quarantine : ReprocessQuarantined(w, e)
    PROVE  EffectsOnce'
  <1>1. UNCHANGED <<contractEvents, retried, effects>>
    BY DEF PollOnce, ReindexRange, ReprocessQuarantined
  <1>2. ASSUME NEW k, worker' = [worker EXCEPT ![w] = k], k.inserted = NoEvents,
               k.updates = NoUpdates, k.pc \in {"fetch", "store"}
        PROVE  EffectsOnce'
    <2>1. k \in WorkerType
      <3>1. worker'[w] = k /\ worker' \in [Workers -> WorkerType]
        BY <1>2, JobStartsKeepsInv DEF IndexInv
      <3> QED BY <3>1
    <2>2. Gathered(k, retried)
      BY <1>2 DEF Gathered, NoEvents, NoUpdates
    <2> QED BY <1>1, <1>2, <2>1, <2>2, EffectsQuiet
  <1>3. ASSUME NEW name, NEW from, NEW to, worker' = [worker EXCEPT ![w] = Job(name, from, to)]
        PROVE  EffectsOnce'
    <2> DEFINE k == Job(name, from, to)
    <2>1. k.inserted = NoEvents /\ k.updates = NoUpdates /\ k.pc = "fetch"
      BY DEF Job, Idle
    <2> HIDE DEF k
    <2> QED BY <1>2, <1>3, <2>1 DEF k
  <1>4. CASE PollOnce(w)
    <2>1. worker' = [worker EXCEPT ![w] = Job("poll", cursor + 1, Lesser(cursor + BatchSize, tip))]
      BY <1>4 DEF PollOnce
    <2> QED BY <1>3, <2>1
  <1>5. ASSUME NEW from \in 1..MaxTip, NEW to \in 1..MaxTip, ReindexRange(w, from, to)
        PROVE  EffectsOnce'
    BY <1>3, <1>5 DEF ReindexRange
  <1>6. ASSUME NEW e \in quarantine, ReprocessQuarantined(w, e) PROVE EffectsOnce'
    <2> DEFINE k == [Idle EXCEPT !.pc = "store", !.job = "reprocess", !.batch = {e}]
    <2>1. k.inserted = NoEvents /\ k.updates = NoUpdates /\ k.pc = "store"
      BY DEF Idle
    <2>2. worker' = [worker EXCEPT ![w] = k]
      BY <1>6 DEF ReprocessQuarantined
    <2> HIDE DEF k
    <2> QED BY <1>2, <2>1, <2>2
  <1> QED BY <1>4, <1>5, <1>6

LEMMA FetchKeepsEffects ==
    ASSUME EffectsOnce, IndexInv, NEW w \in Workers, FetchAndParse(w)
    PROVE  EffectsOnce'
  <1>1. UNCHANGED <<contractEvents, retried, effects>> /\ worker[w].pc = "fetch"
    BY DEF FetchAndParse, At
  <1>2. PICK batch : worker' = [worker EXCEPT ![w].pc = "store", ![w].batch = batch]
    BY DEF FetchAndParse
  <1> DEFINE k == [worker[w] EXCEPT !.pc = "store", !.batch = batch]
  <1>3. worker' = [worker EXCEPT ![w] = k] /\ worker[w] \in WorkerType
    BY <1>2 DEF IndexInv
  <1>4. k.pc = "store" /\ k.inserted = worker[w].inserted /\ k.updates = worker[w].updates
    BY <1>3 DEF WorkerType
  <1> HIDE DEF k
  <1>5. k \in WorkerType
    <2>1. worker'[w] = k /\ worker' \in [Workers -> WorkerType]
      BY <1>3, FetchKeepsInv DEF IndexInv
    <2> QED BY <2>1
  <1>6. Gathered(worker[w], retried)
    BY DEF EffectsOnce
  <1>7. Gathered(k, retried)
    BY <1>1, <1>4, <1>6 DEF Gathered, NoEvents, NoUpdates
  <1> QED BY <1>1, <1>3, <1>4, <1>5, <1>7, EffectsQuiet

LEMMA GotoKeepsEffects ==
    ASSUME EffectsOnce, IndexInv, NEW w \in Workers, NEW pc \in {"checkpoint", "cursor"},
           Goto(w, pc), worker[w].pc # "store", worker[w].inserted = NoEvents,
           UNCHANGED <<contractEvents, retried, effects>>
    PROVE  EffectsOnce'
  <1>1. PICK k \in WorkerType :
           /\ worker' = [worker EXCEPT ![w] = k] /\ k.pc = pc
           /\ k.inserted = worker[w].inserted /\ k.updates = worker[w].updates
    BY GotoMoves DEF WorkerSteps
  <1>2. Gathered(worker[w], retried)
    BY DEF EffectsOnce
  <1>3. Gathered(k, retried)
    BY <1>1, <1>2 DEF Gathered
  <1> QED BY <1>1, <1>3, EffectsQuiet

(* What a transaction inserts had no row, so its effects have not run and   *)
(* no process waits for them.                                               *)
LEMMA StoreKeepsEffects ==
    ASSUME EffectsOnce, IndexInv, NEW w \in Workers, StoreEvents(w)
    PROVE  EffectsOnce'
  <1> DEFINE batch == worker[w].batch
             new == Inserted(batch)
             ins == Gather(w, new)
             k == [worker[w] EXCEPT !.pc = "effects", !.updates = NoUpdates, !.inserted = ins]
  <1>1. /\ contractEvents' = contractEvents \cup new /\ worker[w].pc = "store"
        /\ worker' = [worker EXCEPT ![w] = k] /\ UNCHANGED <<retried, effects>>
    BY DEF StoreEvents, At
  <1>2. /\ worker[w] \in WorkerType /\ batch \in SUBSET Events /\ worker \in [Workers -> WorkerType]
        /\ worker[w].inserted \in [Events -> Nat]
    BY DEF IndexInv, WorkerType, Batches, Inserts
  <1>3. new \subseteq batch /\ \A e \in new : e \in Events /\ ~Recorded(e) /\ e \notin contractEvents
    BY <1>2 DEF Inserted, Recorded
  <1>4. /\ \A e \in Events : Recorded(e) => Recorded(e)'
        /\ \A e \in batch : Recorded(e)'
    <2>1. batch \subseteq Stored'
      BY <1>1, <1>2, BatchIsStored
    <2> QED BY <1>1, <1>2, <2>1 DEF Stored, Recorded
  <1>5. \A e \in Events : ins[e] = worker[w].inserted[e] + IF e \in new THEN 1 ELSE 0
    BY DEF Gather
  <1>6. k.pc = "effects" /\ k.updates = NoUpdates /\ k.inserted = ins
    <2> HIDE DEF ins
    <2> QED BY <1>2 DEF WorkerType
  <1>7. worker'[w] = k /\ \A v \in Workers : v # w => worker'[v] = worker[v]
    BY <1>1, <1>2
  <1> HIDE DEF k, new, ins
  <1>8. \A e \in Events : worker[w].inserted[e] > 0 => e \in batch /\ e \in retried
    BY <1>1 DEF EffectsOnce, Gathered
  <1>9. \A e \in Events \ retried : ins[e] > 0 => ins[e] = 1 /\ e \in new
    BY <1>2, <1>5, <1>8
  <1>10. \A e \in Events : ins[e] > 0 => e \in batch
    BY <1>2, <1>3, <1>5, <1>8
  <1>11. \A v \in Workers : Gathered(worker'[v], retried')
    <2>1. Gathered(k, retried)
      BY <1>6 DEF Gathered, NoUpdates
    <2> QED BY <1>1, <1>7, <2>1 DEF EffectsOnce
  <1>12. \A e \in new : effects[e] = 0
    BY <1>3 DEF EffectsOnce, Inserts
  <1>13. \A v \in Workers, e \in Events \ retried : worker'[v].inserted[e] > 0 =>
            worker'[v].inserted[e] = 1 /\ e \in contractEvents' /\ effects'[e] = 0
    <2> SUFFICES ASSUME NEW v \in Workers, NEW e \in Events \ retried, worker'[v].inserted[e] > 0
                 PROVE  worker'[v].inserted[e] = 1 /\ e \in contractEvents' /\ effects'[e] = 0
      OBVIOUS
    <2>1. CASE v = w
      BY <1>1, <1>6, <1>7, <1>9, <1>12, <2>1
    <2>2. CASE v # w
      BY <1>1, <1>7, <2>2 DEF EffectsOnce
    <2> QED BY <2>1, <2>2
  <1>14. \A u, v \in Workers, e \in Events \ retried :
            worker'[u].inserted[e] > 0 /\ worker'[v].inserted[e] > 0 => u = v
    <2>1. \A v \in Workers, e \in Events \ retried :
             v # w /\ worker'[v].inserted[e] > 0 => e \notin new
      BY <1>3, <1>7 DEF EffectsOnce
    <2>2. \A e \in Events \ retried : worker'[w].inserted[e] > 0 => e \in new
      BY <1>6, <1>7, <1>9
    <2> QED BY <1>7, <2>1, <2>2 DEF EffectsOnce
  <1>15. \A v \in Workers, e \in Events :
            worker'[v].pc = "effects" /\ worker'[v].inserted[e] > 0 => Recorded(e)'
    BY <1>4, <1>6, <1>7, <1>10 DEF EffectsOnce
  <1> QED BY <1>1, <1>4, <1>11, <1>13, <1>14, <1>15 DEF EffectsOnce

(* An attempt that is tried again marks what it leaves behind. *)
LEMMA RetryKeepsEffects ==
    ASSUME EffectsOnce, IndexInv, NEW w \in Workers, StoreRetries(w)
    PROVE  EffectsOnce'
  <1>1. PICK S \in SUBSET Events :
          /\ S \subseteq Inserted(worker[w].batch) /\ retried' = retried \cup S
          /\ worker' = [worker EXCEPT ![w] =
                [worker[w] EXCEPT !.inserted = Gather(w, S), !.updates = GatherUpdates(w, S),
                                  !.attempt = worker[w].attempt + 1]]
    BY RetryGathers
  <1> DEFINE ins == Gather(w, S)
             upd == GatherUpdates(w, S)
             k == [worker[w] EXCEPT !.inserted = ins, !.updates = upd,
                                    !.attempt = worker[w].attempt + 1]
  <1>2. /\ worker[w].pc = "store" /\ UNCHANGED <<contractEvents, effects>>
        /\ S \subseteq worker[w].batch
    BY <1>1 DEF StoreRetries, At, Inserted
  <1>3. /\ worker[w] \in WorkerType /\ worker \in [Workers -> WorkerType]
        /\ worker[w].inserted \in [Events -> Nat] /\ worker[w].updates \in [Borrowers -> Int]
    BY DEF IndexInv, WorkerType, Inserts, Deltas
  <1>4. /\ \A e \in Events : ins[e] = worker[w].inserted[e] + IF e \in S THEN 1 ELSE 0
        /\ \A b \in Borrowers : upd[b] = worker[w].updates[b] + ScoreDelta(S, b)
    BY DEF Gather, GatherUpdates
  <1> HIDE DEF ins, upd
  <1>5. k.pc = "store" /\ k.inserted = ins /\ k.updates = upd /\ k.batch = worker[w].batch
    BY <1>2, <1>3 DEF WorkerType
  <1>6. worker'[w] = k /\ \A v \in Workers : v # w => worker'[v] = worker[v]
    BY <1>1, <1>3 DEF ins, upd
  <1> HIDE DEF k
  <1>7. Gathered(worker[w], retried)
    BY DEF EffectsOnce
  <1>8. ASSUME NEW b \in Borrowers, upd[b] # 0 PROVE \E e \in retried' : Chain[e].borrower = b
    <2>1. CASE worker[w].updates[b] # 0
      BY <1>1, <1>7, <2>1 DEF Gathered
    <2>2. CASE worker[w].updates[b] = 0
      <3>1. ScoreDelta(S, b) # 0
        BY <1>4, <1>8, <2>2
      <3>2. \E e \in S : Chain[e].borrower = b
        BY <3>1, NoneOfBorrower
      <3> QED BY <1>1, <3>2
    <2> QED BY <2>1, <2>2
  <1>9. ASSUME NEW e \in Events, ins[e] > 0 PROVE e \in worker[w].batch /\ e \in retried'
    <2>1. worker[w].inserted[e] > 0 \/ e \in S
      BY <1>3, <1>4, <1>9
    <2>2. worker[w].inserted[e] > 0 => e \in worker[w].batch /\ e \in retried
      BY <1>2, <1>7 DEF Gathered
    <2> QED BY <1>1, <1>2, <2>1, <2>2
  <1>10. Gathered(k, retried')
    BY <1>5, <1>8, <1>9 DEF Gathered
  <1>11. \A v \in Workers : Gathered(worker'[v], retried')
    <2>1. \A v \in Workers : Gathered(worker[v], retried')
      BY <1>1 DEF EffectsOnce, Gathered
    <2> QED BY <1>6, <1>10, <2>1
  <1>12. \A e \in Events : Recorded(e)' = Recorded(e)
    BY <1>2 DEF Recorded
  <1>13. \A v \in Workers, e \in Events \ retried' :
            worker'[v].inserted[e] > 0 => worker'[v] = worker[v]
    BY <1>5, <1>6, <1>9
  <1>14. \A v \in Workers : worker'[v].pc = "effects" => worker'[v] = worker[v]
    BY <1>5, <1>6
  <1>15. Events \ retried' \subseteq Events \ retried /\ retried' \subseteq Events
    BY <1>1 DEF EffectsOnce
  <1>16. \A v \in Workers, e \in Events :
            worker'[v].pc = "effects" /\ worker'[v].inserted[e] > 0 => Recorded(e)'
    BY <1>12, <1>14 DEF EffectsOnce
  <1>17. \A v \in Workers, e \in Events \ retried' : worker'[v].inserted[e] > 0 =>
            worker'[v].inserted[e] = 1 /\ e \in contractEvents' /\ effects'[e] = 0
    BY <1>2, <1>13, <1>15 DEF EffectsOnce
  <1>18. \A u, v \in Workers, e \in Events \ retried' :
            worker'[u].inserted[e] > 0 /\ worker'[v].inserted[e] > 0 => u = v
    BY <1>13, <1>15 DEF EffectsOnce
  <1> QED BY <1>2, <1>11, <1>12, <1>15, <1>16, <1>17, <1>18 DEF EffectsOnce

LEMMA RunKeepsEffects ==
    ASSUME EffectsOnce, IndexInv, NEW w \in Workers, RunEffects(w)
    PROVE  EffectsOnce'
  <1>1. PICK e \in Events :
           /\ worker[w].pc = "effects" /\ worker[w].inserted[e] > 0
           /\ effects' = [effects EXCEPT ![e] = @ + 1]
           /\ worker' = [worker EXCEPT ![w] =
                 [worker[w] EXCEPT !.inserted = [worker[w].inserted EXCEPT ![e] = @ - 1],
                                   !.updates = worker[w].updates, !.attempt = worker[w].attempt]]
    BY EffectTaken
  <1> DEFINE ins == [worker[w].inserted EXCEPT ![e] = @ - 1]
             k == [worker[w] EXCEPT !.inserted = ins, !.updates = worker[w].updates,
                                    !.attempt = worker[w].attempt]
  <1>2. UNCHANGED <<contractEvents, retried>> /\ \A f \in Events : Recorded(f)' = Recorded(f)
    BY DEF RunEffects, Recorded
  <1>3. /\ worker[w] \in WorkerType /\ worker \in [Workers -> WorkerType]
        /\ worker[w].inserted \in [Events -> Nat] /\ effects \in [Events -> Nat]
    BY DEF IndexInv, EffectsOnce, WorkerType, Inserts
  <1>4. /\ ins[e] = worker[w].inserted[e] - 1
        /\ \A f \in Events : f # e => ins[f] = worker[w].inserted[f]
    BY <1>3
  <1> HIDE DEF ins
  <1>5. k.pc = "effects" /\ k.inserted = ins /\ k.updates = worker[w].updates
    BY <1>1, <1>3 DEF WorkerType
  <1>6. worker'[w] = k /\ \A v \in Workers : v # w => worker'[v] = worker[v]
    BY <1>1, <1>3 DEF ins
  <1> HIDE DEF k
  <1>7. /\ effects'[e] = effects[e] + 1 /\ \A f \in Events : f # e => effects'[f] = effects[f]
        /\ effects' \in Inserts
    BY <1>1, <1>3 DEF Inserts
  <1>8. \A v \in Workers : Gathered(worker'[v], retried')
    <2>1. Gathered(worker[w], retried)
      BY DEF EffectsOnce
    <2>2. Gathered(k, retried)
      BY <1>1, <1>5, <2>1 DEF Gathered
    <2> QED BY <1>2, <1>6, <2>2 DEF EffectsOnce
  <1>9. Recorded(e)
    BY <1>1 DEF EffectsOnce
  <1>10. \A v \in Workers, f \in Events : worker'[v].inserted[f] > 0 =>
            worker[v].inserted[f] > 0 /\ (worker'[v].pc = "effects" => worker[v].pc = "effects")
    BY <1>1, <1>3, <1>4, <1>5, <1>6
  <1>11. e \notin retried =>
            /\ worker[w].inserted[e] = 1 /\ e \in contractEvents /\ effects[e] = 0
            /\ \A v \in Workers : v # w => ~(worker[v].inserted[e] > 0)
    BY <1>1 DEF EffectsOnce
  <1>12. e \notin retried => \A v \in Workers : ~(worker'[v].inserted[e] > 0)
    BY <1>4, <1>5, <1>6, <1>11
  <1>13. \A v \in Workers, f \in Events \ retried : worker'[v].inserted[f] > 0 =>
            f # e /\ worker'[v].inserted[f] = worker[v].inserted[f]
    BY <1>4, <1>5, <1>6, <1>12
  <1>14. \A v \in Workers, f \in Events \ retried : worker'[v].inserted[f] > 0 =>
            worker'[v].inserted[f] = 1 /\ f \in contractEvents' /\ effects'[f] = 0
    BY <1>2, <1>7, <1>10, <1>13 DEF EffectsOnce
  <1>15. \A u, v \in Workers, f \in Events \ retried :
            worker'[u].inserted[f] > 0 /\ worker'[v].inserted[f] > 0 => u = v
    BY <1>10 DEF EffectsOnce
  <1>16. \A v \in Workers, f \in Events :
            worker'[v].pc = "effects" /\ worker'[v].inserted[f] > 0 => Recorded(f)'
    BY <1>2, <1>10 DEF EffectsOnce
  <1>17. \A f \in Events : effects'[f] > 0 => Recorded(f)'
    BY <1>2, <1>7, <1>9 DEF EffectsOnce
  <1>18. \A f \in Events \ retried : effects'[f] <= 1 /\ (effects'[f] = 1 => f \in contractEvents')
    BY <1>2, <1>7, <1>11 DEF EffectsOnce
  <1> QED BY <1>2, <1>7, <1>8, <1>14, <1>15, <1>16, <1>17, <1>18 DEF EffectsOnce

LEMMA EffectsNext == IndexInv /\ EffectsOnce /\ [IndexerNext]_indexerVars => EffectsOnce'
  <1> SUFFICES ASSUME IndexInv, EffectsOnce, [IndexerNext]_indexerVars PROVE EffectsOnce'
    OBVIOUS
  <1>1. ASSUME UNCHANGED <<worker, contractEvents, retried, effects>> PROVE EffectsOnce'
    BY <1>1 DEF EffectsOnce, Recorded
  <1>2. ASSUME NEW w \in Workers, AfterStore(w) PROVE EffectsOnce'
    BY <1>2, FinishKeepsEffects, GotoKeepsEffects DEF AfterStore, At
  <1>3. ASSUME NEW w \in Workers, RecordCheckpoint(w) PROVE EffectsOnce'
    <2>1. worker[w].pc = "checkpoint"
      BY <1>3 DEF RecordCheckpoint, At
    <2>2. worker[w].inserted = NoEvents
      BY <2>1 DEF EffectsOnce, Gathered
    <2> QED BY <1>3, <2>1, <2>2, GotoKeepsEffects DEF RecordCheckpoint
  <1>4. ASSUME NEW w \in Workers, UpdateLastIndexedLedger(w) \/ JobFails(w) PROVE EffectsOnce'
    BY <1>4, FinishKeepsEffects DEF UpdateLastIndexedLedger, JobFails
  <1>5. ASSUME NEW w \in Workers, PollStep(w) PROVE EffectsOnce'
    BY <1>2, <1>3, <1>4, <1>5, JobStartKeepsEffects, FetchKeepsEffects, StoreKeepsEffects,
       RunKeepsEffects DEF PollStep
  <1>6. CloseLedger \/ DeployParser \/ UNCHANGED indexerVars
          => UNCHANGED <<worker, contractEvents, retried, effects>>
    BY DEF CloseLedger, DeployParser, indexerVars
  <1> QED BY <1>1, <1>4, <1>5, <1>6, JobStartKeepsEffects, RetryKeepsEffects DEF IndexerNext

LEMMA EffectsInitInv == IndexerInit => EffectsOnce
  <1> SUFFICES ASSUME IndexerInit PROVE EffectsOnce
    OBVIOUS
  <1>1. \A w \in Workers : worker[w] = Idle
    BY DEF IndexerInit
  <1>2. Idle.inserted = NoEvents /\ \A e \in Events : NoEvents[e] = 0 /\ effects[e] = 0
    BY DEF Idle, NoEvents, IndexerInit
  <1>3. effects \in Inserts /\ retried = {}
    BY DEF IndexerInit, Inserts
  <1> QED BY <1>1, <1>2, <1>3, IdleGathers DEF EffectsOnce

LEMMA EffectsOnceHolds == IndexerSpec => []EffectsOnce
  BY EffectsInitInv, EffectsNext, IndexInvHolds, PTL DEF IndexerSpec

(* However often a ledger is scanned, and by however many processes, the    *)
(* webhooks and notifications of an event are started only when its key has *)
(* a row, and at most once unless a transaction that was tried again had    *)
(* inserted it.                                                             *)
THEOREM EffectsAlwaysOnce == IndexerSpec => []EffectsAtMostOnce
  <1>1. EffectsOnce => EffectsAtMostOnce
    BY DEF EffectsOnce, EffectsAtMostOnce
  <1> QED BY <1>1, EffectsOnceHolds, PTL

-------------------------------------------------------------------------------
(* No events of the chain together take a borrower's score to one of its    *)
(* bounds: there an update is cut off and the score forgets the rest, so    *)
(* what is counted once no longer shows in it.                              *)
ScoresStayInRange ==
    \A S \in SUBSET Events, b \in Borrowers : BaseScore - ScoreDelta(S, b) \in MinScore..MaxScore

(* The transaction of storeEvents moves every score by the deltas of the    *)
(* rows it inserts, and of no others, where no attempt has left any behind. *)
LEMMA StoreCountsOnce ==
    ASSUME ScoresStayInRange, IndexInv, EffectsOnce, ScoresCountEventsOnce,
           NEW w \in Workers, StoreEvents(w)
    PROVE  ScoresCountEventsOnce'
  <1> DEFINE new == Inserted(worker[w].batch)
  <1>1. /\ contractEvents' = contractEvents \cup new /\ retried' = retried
        /\ scores' = UpdateUserScoresBulk(GatherUpdates(w, new)) /\ worker[w].pc = "store"
    BY DEF StoreEvents, At
  <1>2. worker[w].batch \in SUBSET Events /\ contractEvents \in SUBSET Events
    BY DEF IndexInv, WorkerType, Batches, TablesEmitted, EmittedBy
  <1>3. new \in SUBSET Events /\ contractEvents \cap new = {}
    BY <1>2 DEF Inserted, Recorded
  <1> HIDE DEF new
  <1>4. ASSUME NEW b \in Borrowers, \A e \in retried : Chain[e].borrower # b
        PROVE  scores'[b] = BaseScore - ScoreDelta(contractEvents \cup new, b)
    <2> DEFINE old == ScoreDelta(contractEvents, b)
               more == ScoreDelta(new, b)
    <2>1. /\ old \in Int /\ more \in Int
          /\ ScoreDelta(contractEvents \cup new, b) = old + more
      <3>1. Apart(contractEvents, new)
        BY <1>3 DEF Apart
      <3> QED BY <1>2, <1>3, <3>1, DeltasAdd
    <2>2. /\ BaseScore - more \in MinScore..MaxScore
          /\ BaseScore - ScoreDelta(contractEvents \cup new, b) \in MinScore..MaxScore
      <3>1. contractEvents \cup new \in SUBSET Events
        BY <1>2, <1>3
      <3> QED BY <1>3, <3>1 DEF ScoresStayInRange
    <2>3. scores[b] = BaseScore - old
      BY <1>4 DEF ScoresCountEventsOnce
    <2>4. scores'[b] = IF more = 0 THEN scores[b]
                       ELSE Clamp(scores[b] + Clamp(BaseScore - more) - BaseScore)
      <3>1. worker[w].updates[b] = 0
        BY <1>4 DEF EffectsOnce, Gathered
      <3>2. GatherUpdates(w, new)[b] = more
        BY <2>1, <3>1 DEF GatherUpdates
      <3> QED BY <1>1, <3>2 DEF UpdateUserScoresBulk
    <2> HIDE DEF old, more
    <2>5. Clamp(BaseScore - more) = BaseScore - more
      BY <2>1, <2>2, ScoreAssumption DEF Clamp
    <2>6. scores[b] + Clamp(BaseScore - more) - BaseScore = BaseScore - (old + more)
      BY <2>1, <2>3, <2>5, ScoreAssumption
    <2>7. Clamp(BaseScore - (old + more)) = BaseScore - (old + more)
      BY <2>1, <2>2, ScoreAssumption DEF Clamp
    <2> QED BY <2>1, <2>3, <2>4, <2>6, <2>7, ScoreAssumption
  <1> QED BY <1>1, <1>4 DEF ScoresCountEventsOnce

LEMMA OnlyStoringScores ==
    ASSUME [IndexerNext]_indexerVars
    PROVE  \/ scores' = scores /\ contractEvents' = contractEvents /\ retried \subseteq retried'
           \/ \E w \in Workers : StoreEvents(w)
  BY DEF IndexerNext, indexerVars, PollStep, CloseLedger, DeployParser, PollOnce, ReindexRange,
         ReprocessQuarantined, FetchAndParse, StoreRetries, RunEffects, AfterStore, RecordCheckpoint,
         UpdateLastIndexedLedger, JobFails

(* Whatever is polled, reindexed or reprocessed again, by however many      *)
(* processes and after whatever failures, updateUserScoresBulk has applied  *)
(* each stored event to its borrower's score exactly once - for a borrower  *)
(* none of whose events was in an attempt tried again, on every chain whose *)
(* scores stay clear of the bounds they are clamped to.                     *)
THEOREM ScoresAlwaysCountOnce ==
    ASSUME ScoresStayInRange
    PROVE  IndexerSpec => []ScoresCountEventsOnce
  <1>1. IndexerInit => ScoresCountEventsOnce
    BY NoDelta, ScoreAssumption DEF IndexerInit, ScoresCountEventsOnce
  <1>2. IndexInv /\ EffectsOnce /\ ScoresCountEventsOnce /\ [IndexerNext]_indexerVars => ScoresCountEventsOnce'
    BY StoreCountsOnce, OnlyStoringScores DEF ScoresCountEventsOnce
  <1> QED BY <1>1, <1>2, IndexInvHolds, EffectsOnceHolds, PTL DEF IndexerSpec

-------------------------------------------------------------------------------
(* Types.  The ledgers of a range or a checkpoint are ledgers that closed:  *)
(* a poll's range starts after the cursor, so from the first ledger on.     *)
CheckpointRow == [from : 1..MaxTip, to : 1..MaxTip, status : {"verified", "suspect"}]

RangeOK(k) ==
    /\ k.from \in 0..MaxTip /\ k.to \in 0..MaxTip
    /\ k.attempt \in 0..MaxRetries
    /\ k.job = "poll" => k.from >= 1 /\ k.to >= 1

RangeInv ==
    /\ tip <= MaxTip /\ faults \in 0..MaxFaults
    /\ checkpoints \subseteq CheckpointRow
    /\ scores \in [Borrowers -> Int] /\ newParser \in BOOLEAN
    /\ \A w \in Workers : RangeOK(worker[w])

LEMMA ClampTyped == \A n \in Int : Clamp(n) \in Int
  BY ScoreAssumption DEF Clamp

LEMMA ScoresStayNumbers ==
    ASSUME scores \in [Borrowers -> Int], NEW u \in Deltas
    PROVE  UpdateUserScoresBulk(u) \in [Borrowers -> Int]
<1> SUFFICES ASSUME NEW b \in Borrowers
             PROVE  (IF u[b] = 0 THEN scores[b]
                     ELSE Clamp(scores[b] + Clamp(BaseScore - u[b]) - BaseScore)) \in Int
  BY DEF UpdateUserScoresBulk
<1>1. u[b] \in Int
  BY DEF Deltas
<1>2. Clamp(BaseScore - u[b]) \in Int
  BY <1>1, ClampTyped, ScoreAssumption
<1> DEFINE n == scores[b] + Clamp(BaseScore - u[b]) - BaseScore
<1>3. n \in Int
  BY <1>2, ScoreAssumption
<1> HIDE DEF n
<1>4. Clamp(n) \in Int
  BY <1>3, ClampTyped
<1> QED
  BY <1>4 DEF n

LEMMA LastIsOne ==
    ASSUME NEW S \in SUBSET (1..MaxTip), S # {}
    PROVE  Last(S) \in S
<1> DEFINE T == {MaxTip - e : e \in S}
<1>0. MaxTip \in Nat
  BY IndexerAssumption
<1>1. T \in SUBSET Nat /\ T # {}
  <2>1. \A e \in S : MaxTip - e \in Nat
    BY <1>0
  <2>2. T \in SUBSET Nat
    BY <2>1
  <2>3. PICK e \in S : TRUE
    OBVIOUS
  <2>4. MaxTip - e \in T
    OBVIOUS
  <2> QED BY <2>2, <2>4
<1> HIDE DEF T
<1>2. PICK m \in T : \A k \in T : m <= k
  BY <1>1, LeastNumber
<1>3. PICK e \in S : m = MaxTip - e
  BY <1>2 DEF T
<1>4. \A f \in S : MaxTip - f \in T
  BY DEF T
<1>5. \A f \in S : e >= f
  BY <1>0, <1>2, <1>3, <1>4
<1> QED
  BY <1>5 DEF Last

LEMMA GapTyped ==
    ASSUME checkpoints \subseteq CheckpointRow, NEW from \in 1..MaxTip
    PROVE  Gap(from) \subseteq CheckpointRow
<1> DEFINE ends == {c.to : c \in checkpoints}
<1>1. ends \in SUBSET (1..MaxTip)
  BY DEF CheckpointRow
<1> HIDE DEF ends
<1>2. CASE ends # {} /\ from > Last(ends) + 1
  <2>1. Last(ends) \in 1..MaxTip
    BY <1>1, <1>2, LastIsOne
  <2> DEFINE l == Last(ends)
  <2> HIDE DEF l
  <2>2. l \in 1..MaxTip /\ from > l + 1
    BY <1>2, <2>1 DEF l
  <2>3. l + 1 \in 1..MaxTip /\ from - 1 \in 1..MaxTip
    BY <2>2, IndexerAssumption
  <2>4. [from |-> l + 1, to |-> from - 1, status |-> "suspect"] \in CheckpointRow
    BY <2>3 DEF CheckpointRow
  <2>5. Gap(from) = {[from |-> l + 1, to |-> from - 1, status |-> "suspect"]}
    BY <1>2 DEF Gap, ends, l
  <2> QED BY <2>4, <2>5
<1>3. CASE ~(ends # {} /\ from > Last(ends) + 1)
  BY <1>3 DEF Gap, ends
<1> QED
  BY <1>2, <1>3

LEMMA RangeInitInv == IndexerInit => RangeInv
<1> SUFFICES ASSUME IndexerInit PROVE RangeInv
  OBVIOUS
<1>1. RangeOK(Idle)
  BY IndexerAssumption DEF Idle, RangeOK
<1>2. \A w \in Workers : RangeOK(worker[w])
  BY <1>1 DEF IndexerInit
<1>3. scores \in [Borrowers -> Int]
  BY ScoreAssumption DEF IndexerInit
<1>4. tip <= MaxTip /\ faults \in 0..MaxFaults /\ checkpoints \subseteq CheckpointRow
  <2>1. tip = 0 /\ faults = 0 /\ checkpoints = {}
    BY DEF IndexerInit
  <2> QED BY <2>1, IndexerAssumption
<1>5. newParser \in BOOLEAN
  BY DEF IndexerInit
<1> QED
  BY <1>2, <1>3, <1>4, <1>5 DEF RangeInv

(* What changes of a process that keeps or ends its job. *)
LEMMA RangesKept ==
    ASSUME IndexInv, RangeInv, NEW w \in Workers, NEW k, RangeOK(k),
           worker' = [worker EXCEPT ![w] = k]
    PROVE  \A v \in Workers : RangeOK(worker'[v])
  BY DEF IndexInv, RangeInv

LEMMA IdleRange == RangeOK(Idle)
  BY IndexerAssumption DEF Idle, RangeOK

LEMMA JobRange ==
    ASSUME NEW from \in 1..MaxTip, NEW to \in 1..MaxTip, NEW name
    PROVE  RangeOK(Job(name, from, to))
  BY IndexerAssumption DEF Job, Idle, RangeOK

LEMMA WorkerRange ==
    ASSUME IndexInv, RangeInv, NEW w \in Workers, NEW pc, NEW batch, NEW ins, NEW upd, NEW n
    PROVE  /\ RangeOK([worker[w] EXCEPT !.pc = pc])
           /\ RangeOK([worker[w] EXCEPT !.pc = pc, !.batch = batch])
           /\ RangeOK([worker[w] EXCEPT !.pc = pc, !.updates = upd, !.inserted = ins])
           /\ n \in 0..MaxRetries =>
                 RangeOK([worker[w] EXCEPT !.inserted = ins, !.updates = upd, !.attempt = n])
  BY DEF IndexInv, RangeInv, RangeOK, WorkerType

LEMMA RangeStepInv ==
    ASSUME IndexInv, RangeInv, NEW w \in Workers,
           \/ PollStep(w) \/ StoreRetries(w) \/ JobFails(w)
           \/ \E from, to \in 1..MaxTip : ReindexRange(w, from, to)
           \/ \E e \in quarantine : ReprocessQuarantined(w, e)
    PROVE  RangeInv'
<1>0. /\ MaxTip \in Nat /\ MaxFaults \in Nat /\ MaxRetries \in Nat /\ BatchSize \in Nat \ {0}
      /\ tip \in Nat /\ cursor \in Nat /\ cursor <= tip /\ tip <= MaxTip
      /\ faults \in 0..MaxFaults /\ checkpoints \subseteq CheckpointRow
      /\ scores \in [Borrowers -> Int] /\ newParser \in BOOLEAN
      /\ worker \in [Workers -> WorkerType]
  BY IndexerAssumption DEF IndexInv, RangeInv
<1> DEFINE Typed == /\ tip' = tip /\ newParser' = newParser
                    /\ faults' \in 0..MaxFaults /\ checkpoints' \subseteq CheckpointRow
                    /\ scores' \in [Borrowers -> Int]
<1>1. ASSUME Typed, NEW k, RangeOK(k), worker' = [worker EXCEPT ![w] = k]
      PROVE  RangeInv'
  <2>1. \A v \in Workers : RangeOK(worker'[v])
    BY <1>1, RangesKept
  <2> QED BY <1>0, <1>1, <2>1 DEF RangeInv, RangeOK
<1>2. CASE PollOnce(w)
  <2> DEFINE to == Lesser(cursor + BatchSize, tip)
  <2>1. cursor + 1 \in 1..MaxTip /\ to \in 1..MaxTip
    BY <1>0, <1>2 DEF PollOnce, Lesser
  <2>2. worker' = [worker EXCEPT ![w] = Job("poll", cursor + 1, to)] /\ Typed
    BY <1>0, <1>2 DEF PollOnce
  <2> HIDE DEF to, Typed
  <2> QED BY <1>1, <2>1, <2>2, JobRange
<1>3. ASSUME NEW from \in 1..MaxTip, NEW to \in 1..MaxTip, ReindexRange(w, from, to)
      PROVE  RangeInv'
  <2>1. worker' = [worker EXCEPT ![w] = Job("reindex", from, to)] /\ Typed
    BY <1>0, <1>3 DEF ReindexRange
  <2> HIDE DEF Typed
  <2> QED BY <1>1, <2>1, JobRange
<1>4. ASSUME NEW e \in quarantine, ReprocessQuarantined(w, e) PROVE RangeInv'
  <2> DEFINE k == [Idle EXCEPT !.pc = "store", !.job = "reprocess", !.batch = {e}]
  <2>1. RangeOK(k)
    BY <1>0 DEF RangeOK, Idle
  <2>2. worker' = [worker EXCEPT ![w] = k] /\ Typed
    BY <1>0, <1>4 DEF ReprocessQuarantined
  <2> HIDE DEF Typed, k
  <2> QED BY <1>1, <2>1, <2>2
<1>5. CASE FetchAndParse(w)
  <2>1. PICK batch : worker' = [worker EXCEPT ![w].pc = "store", ![w].batch = batch]
    BY <1>5 DEF FetchAndParse
  <2> DEFINE k == [worker[w] EXCEPT !.pc = "store", !.batch = batch]
  <2>2. worker' = [worker EXCEPT ![w] = k] /\ RangeOK(k)
    BY <2>1, WorkerRange
  <2>3. faults' \in 0..MaxFaults
    BY <1>0, <1>5 DEF FetchAndParse
  <2>4. Typed
    BY <1>0, <1>5, <2>3 DEF FetchAndParse
  <2> HIDE DEF Typed, k
  <2> QED BY <1>1, <2>2, <2>4
<1>6. CASE StoreEvents(w)
  <2> DEFINE new == Inserted(worker[w].batch)
             ins == Gather(w, new)
             k == [worker[w] EXCEPT !.pc = "effects", !.updates = NoUpdates, !.inserted = ins]
  <2>1. /\ worker' = [worker EXCEPT ![w] = k]
        /\ scores' = UpdateUserScoresBulk(GatherUpdates(w, new))
    BY <1>6 DEF StoreEvents
  <2>2. new \in SUBSET Events
    BY <1>0 DEF Inserted, WorkerType, Batches
  <2> HIDE DEF new, ins
  <2>3. RangeOK(k) /\ scores' \in [Borrowers -> Int]
    <3>1. GatherUpdates(w, new) \in Deltas
      BY <2>2, GatheredTyped
    <3>2. RangeOK(k)
      BY WorkerRange
    <3> QED BY <1>0, <2>1, <3>1, <3>2, ScoresStayNumbers
  <2>4. Typed
    BY <1>0, <1>6, <2>3 DEF StoreEvents
  <2> HIDE DEF Typed, k
  <2> QED BY <1>1, <2>1, <2>3, <2>4
<1>7. CASE RunEffects(w)
  <2>1. PICK ins \in Inserts :
          worker' = [worker EXCEPT ![w] =
             [worker[w] EXCEPT !.inserted = ins, !.updates = worker[w].updates,
                               !.attempt = worker[w].attempt]]
    BY <1>7, EffectTaken
  <2> DEFINE k == [worker[w] EXCEPT !.inserted = ins, !.updates = worker[w].updates,
                                    !.attempt = worker[w].attempt]
  <2>2. worker' = [worker EXCEPT ![w] = k] /\ RangeOK(k)
    <3>1. worker[w].attempt \in 0..MaxRetries
      BY DEF RangeInv, RangeOK
    <3> QED BY <2>1, <3>1, WorkerRange
  <2>3. Typed
    BY <1>0, <1>7 DEF RunEffects
  <2> HIDE DEF Typed, k
  <2> QED BY <1>1, <2>2, <2>3
<1>8. CASE AfterStore(w)
  <2> DEFINE k == [worker[w] EXCEPT !.pc = "checkpoint"]
  <2>1. worker' = [worker EXCEPT ![w] = k] \/ worker' = [worker EXCEPT ![w] = Idle]
    BY <1>8 DEF AfterStore, Goto, Finish
  <2>2. RangeOK(k) /\ RangeOK(Idle)
    BY WorkerRange, IdleRange
  <2>3. Typed
    BY <1>0, <1>8 DEF AfterStore
  <2> HIDE DEF Typed, k
  <2> QED BY <1>1, <2>1, <2>2, <2>3
<1>9. CASE RecordCheckpoint(w)
  <2> DEFINE k == [worker[w] EXCEPT !.pc = "cursor"]
  <2>1. worker' = [worker EXCEPT ![w] = k] /\ RangeOK(k)
    BY <1>9, WorkerRange DEF RecordCheckpoint, Goto
  <2>2. worker[w].from \in 1..MaxTip /\ worker[w].to \in 1..MaxTip
    <3>1. worker[w].pc = "checkpoint"
      BY <1>9 DEF RecordCheckpoint, At
    <3>2. worker[w].job = "poll"
      BY <3>1 DEF IndexInv, Sound
    <3> QED BY <1>0, <3>2 DEF RangeInv, RangeOK
  <2>3. Verified(worker[w].from, worker[w].to) \in CheckpointRow
    BY <2>2 DEF Verified, CheckpointRow
  <2>4. checkpoints' \subseteq CheckpointRow
    BY <1>0, <1>9, <2>2, <2>3, GapTyped DEF RecordCheckpoint
  <2>5. Typed
    BY <1>0, <1>9, <2>4 DEF RecordCheckpoint
  <2> HIDE DEF Typed, k
  <2> QED BY <1>1, <2>1, <2>5
<1>10. CASE UpdateLastIndexedLedger(w)
  <2>1. worker' = [worker EXCEPT ![w] = Idle] /\ Typed
    BY <1>0, <1>10 DEF UpdateLastIndexedLedger, Finish
  <2> HIDE DEF Typed
  <2> QED BY <1>1, <2>1, IdleRange
<1>11. CASE JobFails(w)
  <2>1. worker' = [worker EXCEPT ![w] = Idle] /\ Typed
    BY <1>0, <1>11 DEF JobFails, Finish
  <2> HIDE DEF Typed
  <2> QED BY <1>1, <2>1, IdleRange
<1>12. CASE StoreRetries(w)
  <2>1. PICK S \in SUBSET Events :
          worker' = [worker EXCEPT ![w] =
             [worker[w] EXCEPT !.inserted = Gather(w, S), !.updates = GatherUpdates(w, S),
                               !.attempt = worker[w].attempt + 1]]
    BY <1>12, RetryGathers
  <2> DEFINE k == [worker[w] EXCEPT !.inserted = Gather(w, S), !.updates = GatherUpdates(w, S),
                                    !.attempt = worker[w].attempt + 1]
  <2>2. worker' = [worker EXCEPT ![w] = k] /\ RangeOK(k)
    <3>1. worker[w].attempt \in 0..MaxRetries /\ worker[w].attempt < MaxRetries
      BY <1>12 DEF RangeInv, RangeOK, StoreRetries
    <3>2. worker[w].attempt + 1 \in 0..MaxRetries
      BY <1>0, <3>1
    <3> QED BY <2>1, <3>2, WorkerRange
  <2>3. faults' \in 0..MaxFaults
    <3>1. faults < MaxFaults /\ faults' = faults + 1
      BY <1>12 DEF StoreRetries
    <3> QED BY <1>0, <3>1
  <2>4. Typed
    BY <1>0, <1>12, <2>3 DEF StoreRetries
  <2> HIDE DEF Typed, k
  <2> QED BY <1>1, <2>2, <2>4
<1> QED
  BY <1>2, <1>3, <1>4, <1>5, <1>6, <1>7, <1>8, <1>9, <1>10, <1>11, <1>12 DEF PollStep

LEMMA RangeNextInv == IndexInv /\ RangeInv /\ [IndexerNext]_indexerVars => RangeInv'
<1> SUFFICES ASSUME IndexInv, RangeInv, [IndexerNext]_indexerVars PROVE RangeInv'
  OBVIOUS
<1>1. CASE UNCHANGED indexerVars
  BY <1>1 DEF indexerVars, RangeInv, RangeOK
<1>2. CASE CloseLedger
  BY <1>2, IndexerAssumption DEF CloseLedger, IndexInv, RangeInv, RangeOK
<1>3. CASE DeployParser
  BY <1>3 DEF DeployParser, RangeInv, RangeOK
<1> QED
  BY <1>1, <1>2, <1>3, RangeStepInv DEF IndexerNext

LEMMA IndexerTyped == IndexInv /\ EffectsOnce /\ RangeInv => IndexerTypeOK
<1> SUFFICES ASSUME IndexInv, EffectsOnce, RangeInv PROVE IndexerTypeOK
  OBVIOUS
<1>1. tip \in 0..MaxTip /\ cursor \in 0..MaxTip
  BY IndexerAssumption DEF IndexInv, RangeInv
<1>2. contractEvents \subseteq Events /\ quarantine \subseteq Events /\ swallowed \subseteq Events
  BY DEF IndexInv, TablesEmitted, EmittedBy
<1>3. effects \in [Events -> Nat] /\ retried \subseteq Events
  BY DEF EffectsOnce, Inserts
<1>4. worker \in [Workers -> [pc : {"idle", "fetch", "store", "effects", "checkpoint", "cursor"},
                               job : {"none", "poll", "reindex", "reprocess"},
                               from : 0..MaxTip, to : 0..MaxTip,
                               batch : SUBSET Events, inserted : [Events -> Nat],
                               updates : [Borrowers -> Int], attempt : 0..MaxRetries]]
  BY DEF IndexInv, RangeInv, RangeOK, WorkerType, WorkerSteps, WorkerJobs, Batches, Inserts, Deltas
<1> QED
  BY <1>1, <1>2, <1>3, <1>4 DEF RangeInv, IndexerTypeOK, CheckpointRow

-------------------------------------------------------------------------------
(* The two reconciliations.  A custody event has at most one row, a sweep   *)
(* has rows of the table before it, and one at hand while it looks for a    *)
(* score.                                                                   *)
Marks == {"pending", "half_applied", "reconciled"}
ReconRow == [event : CustodyEvents, attempts : 0..StaleAttempts, state : Marks]
RowToDo == [id : Nat, attempts : 0..StaleAttempts]
Corrections == [BorrowerIds -> Scores \cup {NoValue}]
SweepSteps == {"idle", "fetch", "row", "found", "missing", "lookup"}
SweepRecord == [pc : SweepSteps, todo : Seq(RowToDo), corrections : Corrections]

RowsOK(rows, indexed) ==
    /\ rows \in Seq(ReconRow)
    /\ \A i \in 1..Len(rows) : rows[i].event \in indexed
    /\ \A i, j \in 1..Len(rows) : rows[i].event = rows[j].event => i = j

SweepOK(k, n) ==
    /\ k \in SweepRecord
    /\ \A i \in 1..Len(k.todo) : k.todo[i].id \in 1..n
    /\ k.pc \in {"found", "missing", "lookup"} => k.todo # <<>>

ScoreRunOK(k) ==
    \E B : k \in [pc : {"idle", "read"}, batches : B, corrections : Corrections]

ReconTables ==
    /\ custodyIndexed \subseteq CustodyEvents /\ scoreIndexed \subseteq CustodyEvents
    /\ RowsOK(reconRows, custodyIndexed)
    /\ nftScore \in [BorrowerIds -> Scores] /\ dbScore \in Corrections
    /\ scoreMoves \in 0..MaxScoreMoves /\ reconcileFaults \in 0..MaxReconcileFaults

SweepsOK ==
    /\ sweep = [p \in SweepProcesses |-> sweep[p]]
    /\ \A p \in SweepProcesses : SweepOK(sweep[p], Len(reconRows))

ScoreRunsOK ==
    /\ scoreRun = [p \in ScoreProcesses |-> scoreRun[p]]
    /\ \A p \in ScoreProcesses : ScoreRunOK(scoreRun[p])

ReconInv == ReconTables /\ SweepsOK /\ ScoreRunsOK

LEMMA IdleRuns == (\A n : SweepOK(NoSweep, n)) /\ ScoreRunOK(NoScoreRun)
<1>1. NoCorrections \in Corrections
  BY DEF NoCorrections, Corrections
<1>2. ScoreRunOK(NoScoreRun)
  BY <1>1 DEF NoScoreRun, ScoreRunOK
<1>3. NoSweep \in SweepRecord /\ NoSweep.todo = <<>> /\ NoSweep.pc = "idle"
  BY <1>1 DEF NoSweep, SweepRecord, SweepSteps
<1>4. \A n : SweepOK(NoSweep, n)
  BY <1>3 DEF SweepOK
<1> QED
  BY <1>2, <1>4

LEMMA ReconInitInv == ReconInit => ReconInv
<1> SUFFICES ASSUME ReconInit PROVE ReconInv
  OBVIOUS
<1>1. ReconTables
  <2>1. RowsOK(reconRows, custodyIndexed)
    BY DEF ReconInit, RowsOK
  <2>2. dbScore \in Corrections
    BY DEF ReconInit, Corrections
  <2>3. scoreMoves \in 0..MaxScoreMoves /\ reconcileFaults \in 0..MaxReconcileFaults
    BY ReconciliationAssumption DEF ReconInit
  <2> QED BY <2>1, <2>2, <2>3 DEF ReconInit, ReconTables
<1>2. SweepsOK
  BY IdleRuns DEF ReconInit, SweepsOK
<1>3. ScoreRunsOK
  BY IdleRuns DEF ReconInit, ScoreRunsOK
<1> QED
  BY <1>1, <1>2, <1>3 DEF ReconInv

(* One process moves on, and rows are only added.                           *)
LEMMA SweepMoves ==
    ASSUME SweepsOK, NEW p \in SweepProcesses, NEW k, SweepOK(k, Len(reconRows')),
           sweep' = [sweep EXCEPT ![p] = k],
           Len(reconRows) \in Nat, Len(reconRows') \in Nat, Len(reconRows) <= Len(reconRows')
    PROVE  SweepsOK'
<1>1. sweep' = [q \in SweepProcesses |-> IF q = p THEN k ELSE sweep[q]]
  BY DEF SweepsOK
<1>2. ASSUME NEW q \in SweepProcesses PROVE SweepOK(sweep'[q], Len(reconRows'))
  <2>1. CASE q = p
    BY <1>1, <2>1
  <2>2. CASE q # p
    <3>1. sweep'[q] = sweep[q] /\ SweepOK(sweep[q], Len(reconRows))
      BY <1>1, <2>2 DEF SweepsOK
    <3>2. 1..Len(reconRows) \subseteq 1..Len(reconRows')
      OBVIOUS
    <3> QED BY <3>1, <3>2 DEF SweepOK
  <2> QED BY <2>1, <2>2
<1>3. sweep' = [q \in SweepProcesses |-> sweep'[q]]
  BY <1>1
<1> QED
  BY <1>2, <1>3 DEF SweepsOK

LEMMA ScoreRunMoves ==
    ASSUME ScoreRunsOK, NEW p \in ScoreProcesses, NEW k, ScoreRunOK(k),
           scoreRun' = [scoreRun EXCEPT ![p] = k]
    PROVE  ScoreRunsOK'
<1>1. scoreRun' = [q \in ScoreProcesses |-> IF q = p THEN k ELSE scoreRun[q]]
  BY DEF ScoreRunsOK
<1>2. ASSUME NEW q \in ScoreProcesses PROVE ScoreRunOK(scoreRun'[q])
  BY <1>1 DEF ScoreRunsOK
<1>3. scoreRun' = [q \in ScoreProcesses |-> scoreRun'[q]]
  BY <1>1
<1> QED
  BY <1>2, <1>3 DEF ScoreRunsOK

LEMMA RowLengths ==
    ASSUME NEW rows, NEW indexed, RowsOK(rows, indexed)
    PROVE  Len(rows) \in Nat /\ DOMAIN rows = 1..Len(rows)
  BY DEF RowsOK

LEMMA CustodyFinite == IsFiniteSet(CustodyEvents)
<1> DEFINE Event == [kind : {"approve", "repay", "default"}, borrower : BorrowerIds,
                     loan : Nat, delta : Nat, score : {"ScoreUpdated", "ScoreDecr"}]
<1>1. Custody \in Seq(Event)
  BY ReconciliationAssumption
<1> HIDE DEF Event
<1>2. Len(Custody) \in Nat /\ CustodyEvents = 1..Len(Custody)
  BY <1>1 DEF CustodyEvents
<1> QED
  BY <1>2, FS_Interval

(* An order of n events that names all of them names none twice.            *)
LEMMA OrdersAreInjective ==
    ASSUME NEW S, IsFiniteSet(S), NEW order \in [1..Cardinality(S) -> S],
           \A e \in S : \E i \in 1..Cardinality(S) : order[i] = e
    PROVE  \A i, j \in 1..Cardinality(S) : order[i] = order[j] => i = j
<1> DEFINE n == Cardinality(S)
           I == 1..n
<1>1. n \in Nat
  BY FS_CardinalityType
<1>2. IsFiniteSet(I) /\ Cardinality(I) = n
  <2> HIDE DEF n
  <2> QED BY <1>1, FS_Interval
<1>3. order \in Surjection(I, S)
  BY DEF Surjection
<1> HIDE DEF I
<1>4. order \in Injection(I, S)
  BY <1>2, <1>3, FS_SurjSameCardinalityImpliesInj DEF n
<1>5. \A i, j \in I : order[i] = order[j] => i = j
  BY <1>4 DEF Injection, IsInjective
<1> QED
  BY <1>5 DEF I

LEMMA BackfillRows ==
    ASSUME RowsOK(reconRows, custodyIndexed), custodyIndexed \subseteq CustodyEvents,
           NEW p, BackfillPendingRows(p)
    PROVE  RowsOK(reconRows', custodyIndexed) /\ Len(reconRows) <= Len(reconRows')
<1> DEFINE missing == custodyIndexed \ {reconRows[i].event : i \in DOMAIN reconRows}
           n == Cardinality(missing)
<1>1. PICK order \in [1..n -> missing] :
         /\ \A e \in missing : \E i \in 1..n : order[i] = e
         /\ reconRows' = reconRows \o
               [i \in 1..n |-> [event |-> order[i], state |-> "pending", attempts |-> 0]]
  BY DEF BackfillPendingRows
<1>2. missing \subseteq CustodyEvents /\ IsFiniteSet(missing)
  <2>1. missing \in SUBSET CustodyEvents
    OBVIOUS
  <2> HIDE DEF missing
  <2> QED BY <2>1, CustodyFinite, FS_Subset
<1>3. n \in Nat
  BY <1>2, FS_CardinalityType
<1>4. \A i, j \in 1..n : order[i] = order[j] => i = j
  <2> HIDE DEF missing
  <2> QED BY <1>1, <1>2, OrdersAreInjective
<1>5. missing \subseteq custodyIndexed
      /\ \A i \in 1..Len(reconRows) : reconRows[i].event \notin missing
  BY RowLengths
<1> HIDE DEF missing, n
<1> DEFINE new == [i \in 1..n |-> [event |-> order[i], state |-> "pending", attempts |-> 0]]
           m == Len(reconRows)
           all == reconRows \o new
<1>6. new \in Seq(ReconRow) /\ Len(new) = n /\ \A i \in 1..n : new[i].event = order[i]
  <2>1. 0 \in 0..StaleAttempts
    BY ReconciliationAssumption
  <2>2. \A i \in 1..n : [event |-> order[i], state |-> "pending", attempts |-> 0] \in ReconRow
    BY <1>1, <1>2, <2>1 DEF ReconRow, Marks
  <2>3. new \in [1..n -> ReconRow]
    BY <2>2
  <2>4. \A i \in 1..n : new[i].event = order[i]
    OBVIOUS
  <2> HIDE DEF new
  <2> QED BY <1>3, <2>3, <2>4
<1> HIDE DEF new
<1>7. reconRows \in Seq(ReconRow) /\ m \in Nat
  BY DEF RowsOK
<1>8. /\ all \in Seq(ReconRow) /\ Len(all) = m + n
      /\ \A i \in 1..m : all[i] = reconRows[i]
      /\ \A i \in (m + 1)..(m + n) : all[i] = new[i - m]
  BY <1>3, <1>6, <1>7
<1>9. reconRows' = all
  BY <1>1 DEF new
<1> HIDE DEF all
<1>10. \A i \in 1..(m + n) : i \in 1..m \/ (i \in (m + 1)..(m + n) /\ i - m \in 1..n)
  BY <1>3, <1>7
<1>11. /\ \A i \in 1..m : all[i].event = reconRows[i].event
       /\ \A i \in (m + 1)..(m + n) : i - m \in 1..n /\ all[i].event = order[i - m]
                                      /\ all[i].event \in missing
  <2>1. ASSUME NEW i \in (m + 1)..(m + n)
        PROVE  i - m \in 1..n /\ all[i].event = order[i - m] /\ all[i].event \in missing
    <3>1. i - m \in 1..n /\ all[i] = new[i - m]
      BY <1>3, <1>7, <1>8
    <3>2. all[i].event = order[i - m] /\ order[i - m] \in missing
      BY <1>6, <3>1
    <3> QED BY <3>1, <3>2
  <2> QED BY <1>8, <2>1
<1>12. \A i \in 1..m : reconRows[i].event \in custodyIndexed /\ reconRows[i].event \notin missing
  BY <1>5 DEF RowsOK
<1>13. \A i \in 1..(m + n) : all[i].event \in custodyIndexed
  BY <1>5, <1>10, <1>11, <1>12
<1>14. ASSUME NEW i \in 1..(m + n), NEW j \in 1..(m + n), all[i].event = all[j].event
       PROVE  i = j
  <2>1. CASE i \in 1..m /\ j \in 1..m
    BY <1>11, <1>14, <2>1 DEF RowsOK
  <2>2. CASE i \in (m + 1)..(m + n) /\ j \in (m + 1)..(m + n)
    <3>1. i - m = j - m
      BY <1>4, <1>11, <1>14, <2>2
    <3> QED BY <1>3, <1>7, <3>1
  <2>3. CASE i \in 1..m /\ j \in (m + 1)..(m + n)
    BY <1>11, <1>12, <1>14, <2>3
  <2>4. CASE i \in (m + 1)..(m + n) /\ j \in 1..m
    BY <1>11, <1>12, <1>14, <2>4
  <2> QED BY <1>10, <2>1, <2>2, <2>3, <2>4
<1>15. m <= m + n
  BY <1>3, <1>7
<1> QED
  BY <1>8, <1>9, <1>13, <1>14, <1>15 DEF RowsOK

LEMMA UpdatedRows ==
    ASSUME NEW indexed, RowsOK(reconRows, indexed), NEW id \in 1..Len(reconRows), NEW state \in Marks,
           UpdateRow(id, state)
    PROVE  RowsOK(reconRows', indexed) /\ Len(reconRows') = Len(reconRows)
<1> DEFINE a == reconRows[id].attempts
           b == IF a < StaleAttempts THEN a + 1 ELSE a
           row == [reconRows[id] EXCEPT !.state = state, !.attempts = b]
<1>1. reconRows \in Seq(ReconRow) /\ Len(reconRows) \in Nat /\ reconRows[id] \in ReconRow
  BY DEF RowsOK
<1>2. a \in 0..StaleAttempts /\ StaleAttempts \in Nat
  BY <1>1, ReconciliationAssumption DEF ReconRow
<1>3. reconRows' = [reconRows EXCEPT ![id] = row]
  BY DEF UpdateRow
<1>4. b \in 0..StaleAttempts
  <2> HIDE DEF a
  <2> QED BY <1>2
<1> HIDE DEF a, b
<1>5. row \in ReconRow /\ row.event = reconRows[id].event
  BY <1>1, <1>4 DEF ReconRow
<1> HIDE DEF row
<1>6. reconRows' \in Seq(ReconRow) /\ Len(reconRows') = Len(reconRows)
      /\ \A i \in 1..Len(reconRows) : reconRows'[i] = IF i = id THEN row ELSE reconRows[i]
  BY <1>1, <1>3, <1>5
<1>7. \A i \in 1..Len(reconRows) : reconRows'[i].event = reconRows[i].event
  BY <1>5, <1>6
<1> QED
  BY <1>6, <1>7 DEF RowsOK

(* What a step that leaves the indexer's tables and the scores on chain     *)
(* alone has to show.                                                       *)
LEMMA ReconParts ==
    ASSUME ReconInv, UNCHANGED <<indexVars, nftScore, scoreMoves>>,
           RowsOK(reconRows', custodyIndexed), dbScore' \in Corrections,
           reconcileFaults' \in 0..MaxReconcileFaults, SweepsOK', ScoreRunsOK'
    PROVE  ReconInv'
  BY DEF ReconInv, ReconTables, indexVars

LEMMA FaultCounted ==
    ASSUME ReconInv, ReconcileFault
    PROVE  reconcileFaults' \in 0..MaxReconcileFaults
  BY ReconciliationAssumption DEF ReconInv, ReconTables, ReconcileFault

LEMMA ScoreRead ==
    ASSUME ReconInv, NEW b, NEW v, GetOnChainCreditScore(b, v)
    PROVE  reconcileFaults' \in 0..MaxReconcileFaults
<1>1. reconcileFaults \in 0..MaxReconcileFaults
  BY DEF ReconInv, ReconTables
<1> QED
  BY <1>1, FaultCounted DEF GetOnChainCreditScore, ReadsScore, ReadsDefault, ReadThrows

LEMMA ScoresWritten ==
    ASSUME dbScore \in Corrections, NEW c \in Corrections, SetAbsoluteUserScores(c)
    PROVE  dbScore' \in Corrections
  BY DEF Corrections, SetAbsoluteUserScores

LEMMA RunsStay ==
    /\ SweepsOK /\ sweep' = sweep /\ Len(reconRows') = Len(reconRows) => SweepsOK'
    /\ ScoreRunsOK /\ scoreRun' = scoreRun => ScoreRunsOK'
  BY DEF SweepsOK, ScoreRunsOK

(* The rows a sweep has before it, given the first of them.                 *)
LEMMA SweepHead ==
    ASSUME NEW n \in Nat, NEW k, SweepOK(k, n), k.todo # <<>>
    PROVE  /\ Head(k.todo) \in RowToDo /\ Head(k.todo).id \in 1..n
           /\ Tail(k.todo) \in Seq(RowToDo)
           /\ \A i \in 1..Len(Tail(k.todo)) : Tail(k.todo)[i].id \in 1..n
<1> DEFINE t == k.todo
<1>1. t \in Seq(RowToDo) /\ t # <<>> /\ \A i \in 1..Len(t) : t[i].id \in 1..n
  BY DEF SweepOK, SweepRecord
<1> HIDE DEF t
<1>2. Len(t) \in Nat /\ 1 \in 1..Len(t) /\ Head(t) = t[1] /\ t[1] \in RowToDo
  BY <1>1
<1>3. Tail(t) \in Seq(RowToDo) /\ Len(Tail(t)) = Len(t) - 1
      /\ \A i \in 1..Len(Tail(t)) : Tail(t)[i] = t[i + 1]
  BY <1>1
<1>4. \A i \in 1..Len(Tail(t)) : i + 1 \in 1..Len(t)
  BY <1>2, <1>3
<1>5. \A i \in 1..Len(Tail(t)) : Tail(t)[i].id \in 1..n
  BY <1>1, <1>3, <1>4
<1> QED
  BY <1>1, <1>2, <1>3, <1>5 DEF t

LEMMA SweepAt ==
    ASSUME NEW n, NEW k, SweepOK(k, n), NEW pc \in SweepSteps,
           pc \in {"found", "missing", "lookup"} => k.todo # <<>>
    PROVE  SweepOK([k EXCEPT !.pc = pc], n)
  BY DEF SweepOK, SweepRecord

LEMMA SweepWith ==
    ASSUME NEW n, NEW k, SweepOK(k, n), NEW todo \in Seq(RowToDo),
           \A i \in 1..Len(todo) : todo[i].id \in 1..n
    PROVE  SweepOK([k EXCEPT !.pc = "row", !.todo = todo], n)
  BY DEF SweepOK, SweepRecord, SweepSteps

LEMMA SweepStepInv ==
    ASSUME ReconInv, NEW p \in SweepProcesses, SweepStep(p) \/ SweepFails(p)
    PROVE  ReconInv'
<1>0. /\ RowsOK(reconRows, custodyIndexed) /\ custodyIndexed \subseteq CustodyEvents
      /\ dbScore \in Corrections /\ reconcileFaults \in 0..MaxReconcileFaults
      /\ SweepsOK /\ ScoreRunsOK /\ SweepOK(sweep[p], Len(reconRows)) /\ Len(reconRows) \in Nat
      /\ sweep[p] \in SweepRecord
  BY RowLengths DEF ReconInv, ReconTables, SweepsOK, SweepOK
<1> DEFINE n == Len(reconRows)
<1>1. ASSUME NEW k, SweepOK(k, n), sweep' = [sweep EXCEPT ![p] = k], reconRows' = reconRows,
             UNCHANGED <<indexVars, nftScore, scoreRun, scoreMoves>>, dbScore' \in Corrections,
             reconcileFaults' \in 0..MaxReconcileFaults
      PROVE  ReconInv'
  <2>1. SweepsOK'
    <3>1. SweepOK(k, Len(reconRows')) /\ Len(reconRows') \in Nat
          /\ Len(reconRows) <= Len(reconRows')
      BY <1>0, <1>1
    <3> QED BY <1>0, <1>1, <3>1, SweepMoves
  <2>2. ScoreRunsOK'
    BY <1>0, <1>1, RunsStay
  <2> QED BY <1>0, <1>1, <2>1, <2>2, ReconParts
<1>2. ASSUME sweep[p].todo # <<>>,
             NEW state \in Marks, UpdateRow(Head(sweep[p].todo).id, state),
             NEW k, SweepOK(k, n), sweep' = [sweep EXCEPT ![p] = k],
             UNCHANGED <<indexVars, nftScore, dbScore, scoreRun, scoreMoves, reconcileFaults>>
      PROVE  ReconInv'
  <2>1. Head(sweep[p].todo).id \in 1..n
    BY <1>0, <1>2, SweepHead
  <2>2. RowsOK(reconRows', custodyIndexed) /\ Len(reconRows') = n
    BY <1>0, <1>2, <2>1, UpdatedRows
  <2>3. SweepsOK'
    <3>1. SweepOK(k, Len(reconRows')) /\ Len(reconRows') \in Nat
          /\ Len(reconRows) <= Len(reconRows')
      BY <1>0, <1>2, <2>2
    <3> QED BY <1>0, <1>2, <3>1, SweepMoves
  <2>4. ScoreRunsOK'
    BY <1>0, <1>2, RunsStay
  <2> QED BY <1>0, <1>2, <2>2, <2>3, <2>4, ReconParts
<1>3. NextRow(p) /\ sweep[p].todo # <<>> =>
         /\ sweep' = [sweep EXCEPT ![p] = [sweep[p] EXCEPT !.pc = "row", !.todo = Tail(@)]]
         /\ SweepOK([sweep[p] EXCEPT !.pc = "row", !.todo = Tail(@)], n)
  <2> SUFFICES ASSUME NextRow(p), sweep[p].todo # <<>>
               PROVE  /\ sweep' = [sweep EXCEPT ![p] = [sweep[p] EXCEPT !.pc = "row", !.todo = Tail(@)]]
                      /\ SweepOK([sweep[p] EXCEPT !.pc = "row", !.todo = Tail(@)], n)
    OBVIOUS
  <2> DEFINE t == Tail(sweep[p].todo)
  <2>1. t \in Seq(RowToDo) /\ \A i \in 1..Len(t) : t[i].id \in 1..n
    BY <1>0, SweepHead
  <2>2. sweep' = [sweep EXCEPT ![p] = [sweep[p] EXCEPT !.pc = "row", !.todo = t]]
    BY DEF NextRow
  <2>3. SweepOK([sweep[p] EXCEPT !.pc = "row", !.todo = t], n)
    <3> HIDE DEF t
    <3> QED BY <1>0, <2>1, SweepWith
  <2> QED BY <1>0, <2>2, <2>3 DEF SweepRecord
<1>4. CASE BackfillPendingRows(p)
  <2> DEFINE k == [sweep[p] EXCEPT !.pc = "fetch"]
  <2>1. RowsOK(reconRows', custodyIndexed) /\ n <= Len(reconRows')
    BY <1>0, <1>4, BackfillRows
  <2>2. Len(reconRows') \in Nat
    BY <2>1, RowLengths
  <2>3. SweepOK(sweep[p], Len(reconRows'))
    <3>1. 1..n \subseteq 1..Len(reconRows')
      BY <1>0, <2>1, <2>2
    <3> QED BY <1>0, <3>1 DEF SweepOK
  <2>4. SweepOK(k, Len(reconRows'))
    BY <2>3, SweepAt DEF SweepSteps
  <2>5. sweep' = [sweep EXCEPT ![p] = k]
        /\ UNCHANGED <<indexVars, nftScore, dbScore, scoreRun, scoreMoves, reconcileFaults>>
    BY <1>4 DEF BackfillPendingRows
  <2> HIDE DEF k
  <2>6. SweepsOK' /\ ScoreRunsOK'
    BY <1>0, <2>1, <2>2, <2>4, <2>5, SweepMoves, RunsStay
  <2> QED BY <1>0, <2>1, <2>5, <2>6, ReconParts
<1>5. CASE FetchUnresolvedRows(p)
  <2> DEFINE U == {i \in DOMAIN reconRows : reconRows[i].state \in Unresolved}
             rows == OrderByLimit(U, n, MaxRowsPerRun)
             todo == [i \in DOMAIN rows |->
                        [id |-> rows[i], attempts |-> reconRows[rows[i]].attempts]]
             k == [sweep[p] EXCEPT !.pc = "row", !.todo = todo]
  <2>1. U \in SUBSET (1..n)
    BY <1>0, RowLengths
  <2> HIDE DEF U
  <2>2. rows \in Seq(U)
    BY <1>0, <2>1, SelectionTyped
  <2>3. sweep' = [sweep EXCEPT ![p] = k] /\ reconRows' = reconRows
        /\ UNCHANGED <<indexVars, nftScore, dbScore, scoreRun, scoreMoves, reconcileFaults>>
    BY <1>5 DEF FetchUnresolvedRows, U
  <2> HIDE DEF rows
  <2>4. Len(rows) \in Nat /\ DOMAIN rows = 1..Len(rows) /\ \A i \in 1..Len(rows) : rows[i] \in 1..n
    <3>1. Len(rows) \in Nat /\ DOMAIN rows = 1..Len(rows)
      BY <2>2
    <3>2. \A i \in 1..Len(rows) : rows[i] \in U
      BY <2>2
    <3> QED BY <2>1, <3>1, <3>2
  <2>5. \A i \in 1..n : reconRows[i].attempts \in 0..StaleAttempts
    <3>1. \A i \in 1..n : reconRows[i] \in ReconRow
      BY <1>0 DEF RowsOK
    <3> QED BY <3>1 DEF ReconRow
  <2>6. \A i \in 1..Len(rows) :
           [id |-> rows[i], attempts |-> reconRows[rows[i]].attempts] \in RowToDo
    BY <1>0, <2>4, <2>5 DEF RowToDo
  <2>7. todo \in [1..Len(rows) -> RowToDo] /\ \A i \in 1..Len(rows) : todo[i].id = rows[i]
    BY <2>4, <2>6
  <2> HIDE DEF todo
  <2>8. todo \in Seq(RowToDo) /\ Len(todo) = Len(rows)
    BY <2>4, <2>7
  <2>9. \A i \in 1..Len(todo) : todo[i].id \in 1..n
    BY <2>4, <2>7, <2>8
  <2>10. SweepOK(k, n)
    BY <1>0, <2>8, <2>9, SweepWith
  <2> HIDE DEF k
  <2> QED BY <1>0, <1>1, <2>3, <2>10
<1>6. CASE FindMatchingScoreLedger(p)
  <2> DEFINE pc == IF Matched(reconRows[Head(sweep[p].todo).id].event) THEN "found" ELSE "missing"
             k == [sweep[p] EXCEPT !.pc = pc]
  <2>1. pc \in {"found", "missing"} /\ sweep[p].todo # <<>>
    BY <1>6 DEF FindMatchingScoreLedger
  <2>2. sweep' = [sweep EXCEPT ![p] = k] /\ reconRows' = reconRows
        /\ UNCHANGED <<indexVars, nftScore, dbScore, scoreRun, scoreMoves, reconcileFaults>>
    BY <1>6 DEF FindMatchingScoreLedger
  <2> HIDE DEF pc
  <2>3. SweepOK(k, n)
    BY <1>0, <2>1, SweepAt DEF SweepSteps
  <2> HIDE DEF k
  <2> QED BY <1>0, <1>1, <2>2, <2>3
<1>7. CASE MarkReconciled(p)
  <2>1. sweep[p].todo # <<>>
    BY <1>0, <1>7 DEF MarkReconciled, SweepOK
  <2> DEFINE k == [sweep[p] EXCEPT !.pc = "row", !.todo = Tail(@)]
  <2>2. sweep' = [sweep EXCEPT ![p] = k] /\ SweepOK(k, n)
    BY <1>3, <1>7, <2>1 DEF MarkReconciled
  <2> HIDE DEF k
  <2> QED BY <1>2, <1>7, <2>1, <2>2 DEF MarkReconciled, Marks
<1>8. CASE MarkState(p)
  <2> DEFINE row == Head(sweep[p].todo)
             stale == row.attempts + 1 >= StaleAttempts
             state == IF stale THEN "half_applied" ELSE "pending"
  <2>1. sweep[p].pc = "missing" /\ UpdateRow(row.id, state)
        /\ UNCHANGED <<indexVars, nftScore, dbScore, scoreRun, scoreMoves, reconcileFaults>>
    BY <1>8 DEF MarkState
  <2>2. sweep[p].todo # <<>>
    BY <1>0, <2>1 DEF SweepOK
  <2>3. NextRow(p) \/ sweep' = [sweep EXCEPT ![p].pc = "lookup"]
    BY <1>8 DEF MarkState
  <2>4. state \in Marks
    BY DEF Marks
  <2> HIDE DEF state
  <2>5. CASE NextRow(p)
    <3> DEFINE k == [sweep[p] EXCEPT !.pc = "row", !.todo = Tail(@)]
    <3>1. sweep' = [sweep EXCEPT ![p] = k] /\ SweepOK(k, n)
      BY <1>3, <2>2, <2>5
    <3> HIDE DEF k
    <3> QED BY <1>2, <2>1, <2>2, <2>4, <3>1
  <2>6. CASE sweep' = [sweep EXCEPT ![p].pc = "lookup"]
    <3> DEFINE k == [sweep[p] EXCEPT !.pc = "lookup"]
    <3>1. sweep' = [sweep EXCEPT ![p] = k] /\ SweepOK(k, n)
      BY <1>0, <2>2, <2>6, SweepAt DEF SweepSteps
    <3> HIDE DEF k
    <3> QED BY <1>2, <2>1, <2>2, <2>4, <3>1
  <2> QED BY <2>3, <2>5, <2>6
<1>9. CASE LookUpScore(p)
  <2> DEFINE b == RowEvent(p).borrower
  <2> HIDE DEF b
  <2>1. PICK v \in Scores \cup {NoValue} :
           /\ GetOnChainCreditScore(b, v)
           /\ sweep' = [sweep EXCEPT ![p].pc = "row", ![p].todo = Tail(@),
                                     ![p].corrections[b] = IF v = NoValue THEN @ ELSE v]
    BY <1>9 DEF LookUpScore, b
  <2> DEFINE t == Tail(sweep[p].todo)
             c == [sweep[p].corrections EXCEPT ![b] = IF v = NoValue THEN @ ELSE v]
             k == [sweep[p] EXCEPT !.pc = "row", !.todo = t, !.corrections = c]
  <2>2. sweep[p].todo # <<>> /\ sweep[p].corrections \in Corrections
    BY <1>0, <1>9 DEF LookUpScore, SweepOK, SweepRecord
  <2>3. t \in Seq(RowToDo) /\ \A i \in 1..Len(t) : t[i].id \in 1..n
    BY <1>0, <2>2, SweepHead
  <2>4. c \in Corrections
    BY <2>2 DEF Corrections
  <2>5. sweep' = [sweep EXCEPT ![p] = k]
    BY <2>1
  <2> HIDE DEF t, c
  <2>6. SweepOK(k, n)
    BY <1>0, <2>3, <2>4 DEF SweepOK, SweepRecord, SweepSteps
  <2>7. reconcileFaults' \in 0..MaxReconcileFaults
    BY <2>1, ScoreRead
  <2> HIDE DEF k
  <2> QED BY <1>0, <1>1, <1>9, <2>5, <2>6, <2>7 DEF LookUpScore
<1>10. CASE FinishSweep(p)
  <2>1. sweep[p].corrections \in Corrections
    BY <1>0 DEF SweepRecord
  <2>2. dbScore' \in Corrections
    BY <1>0, <1>10, <2>1, ScoresWritten DEF FinishSweep
  <2> QED BY <1>0, <1>1, <1>10, <2>2, IdleRuns DEF FinishSweep
<1>11. CASE SweepFails(p)
  BY <1>0, <1>1, <1>11, IdleRuns, FaultCounted DEF SweepFails
<1> QED
  BY <1>4, <1>5, <1>6, <1>7, <1>8, <1>9, <1>10, <1>11 DEF SweepStep

LEMMA ScoreRunInv ==
    ASSUME ReconInv, NEW p \in ScoreProcesses, ScoreRunStep(p) \/ ScoreRunFails(p)
    PROVE  ReconInv'
<1>0. /\ RowsOK(reconRows, custodyIndexed)
      /\ dbScore \in Corrections /\ reconcileFaults \in 0..MaxReconcileFaults
      /\ SweepsOK /\ ScoreRunsOK /\ ScoreRunOK(scoreRun[p])
  BY DEF ReconInv, ReconTables, ScoreRunsOK
<1>1. ASSUME NEW k, ScoreRunOK(k), scoreRun' = [scoreRun EXCEPT ![p] = k], reconRows' = reconRows,
             UNCHANGED <<indexVars, nftScore, sweep, scoreMoves>>, dbScore' \in Corrections,
             reconcileFaults' \in 0..MaxReconcileFaults
      PROVE  ReconInv'
  BY <1>0, <1>1, ScoreRunMoves, RunsStay, ReconParts
<1>2. CASE FetchActiveBorrowerScores(p)
  <2>1. PICK batches : scoreRun' = [scoreRun EXCEPT ![p].pc = "read", ![p].batches = batches]
    BY <1>2 DEF FetchActiveBorrowerScores
  <2> DEFINE k == [scoreRun[p] EXCEPT !.pc = "read", !.batches = batches]
  <2>2. ScoreRunOK(k)
    <3>1. PICK B : scoreRun[p] \in [pc : {"idle", "read"}, batches : B, corrections : Corrections]
      BY <1>0 DEF ScoreRunOK
    <3>2. k \in [pc : {"idle", "read"}, batches : {batches}, corrections : Corrections]
      BY <3>1
    <3> QED BY <3>2 DEF ScoreRunOK
  <2>3. scoreRun' = [scoreRun EXCEPT ![p] = k]
    BY <2>1
  <2> HIDE DEF k
  <2> QED BY <1>0, <1>1, <1>2, <2>2, <2>3 DEF FetchActiveBorrowerScores
<1>3. CASE ReadScore(p)
  <2> DEFINE batch == Head(scoreRun[p].batches)
  <2>1. PICK r \in batch, v \in Scores \cup {NoValue} :
           /\ GetOnChainCreditScore(r.borrower, v)
           /\ scoreRun' = [scoreRun EXCEPT
                 ![p].batches = IF batch = {r} THEN Tail(@) ELSE [@ EXCEPT ![1] = batch \ {r}],
                 ![p].corrections[r.borrower] =
                    IF AutoCorrect /\ v # NoValue /\ Diverges(r.db, v) THEN v ELSE @]
    BY <1>3 DEF ReadScore
  <2>2. PICK B : scoreRun[p] \in [pc : {"idle", "read"}, batches : B, corrections : Corrections]
    BY <1>0 DEF ScoreRunOK
  <2> DEFINE c == [scoreRun[p].corrections EXCEPT ![r.borrower] =
                      IF AutoCorrect /\ v # NoValue /\ Diverges(r.db, v) THEN v ELSE @]
             rest == IF batch = {r} THEN Tail(scoreRun[p].batches)
                     ELSE [scoreRun[p].batches EXCEPT ![1] = batch \ {r}]
             k == [scoreRun[p] EXCEPT !.batches = rest, !.corrections = c]
  <2>3. c \in Corrections
    <3>1. scoreRun[p].corrections \in Corrections
      BY <2>2
    <3> QED BY <3>1 DEF Corrections
  <2>4. scoreRun' = [scoreRun EXCEPT ![p] = k] /\ ScoreRunOK(k)
    <3>1. scoreRun' = [scoreRun EXCEPT ![p] = k]
      BY <2>1, Zenon
    <3> HIDE DEF rest, c
    <3>2. k \in [pc : {"idle", "read"}, batches : {rest}, corrections : Corrections]
      BY <2>2, <2>3
    <3> QED BY <3>1, <3>2 DEF ScoreRunOK
  <2>5. reconcileFaults' \in 0..MaxReconcileFaults
    BY <2>1, ScoreRead
  <2> HIDE DEF k
  <2> QED BY <1>0, <1>1, <1>3, <2>4, <2>5 DEF ReadScore
<1>4. CASE FinishScoreRun(p)
  <2>1. scoreRun[p].corrections \in Corrections
    BY <1>0 DEF ScoreRunOK
  <2>2. dbScore' \in Corrections
    BY <1>0, <1>4, <2>1, ScoresWritten DEF FinishScoreRun
  <2> QED BY <1>0, <1>1, <1>4, <2>2, IdleRuns DEF FinishScoreRun
<1>5. CASE ScoreRunFails(p)
  BY <1>0, <1>1, <1>5, IdleRuns, FaultCounted DEF ScoreRunFails
<1> QED
  BY <1>2, <1>3, <1>4, <1>5 DEF ScoreRunStep

LEMMA ReconNextInv == ASSUME ReconInv, ReconNext PROVE ReconInv'
<1>1. ASSUME NEW e \in CustodyEvents, IndexCustodyEvent(e) \/ IndexScoreEvent(e) PROVE ReconInv'
  <2>1. RowsOK(reconRows', custodyIndexed') /\ custodyIndexed' \subseteq CustodyEvents
        /\ scoreIndexed' \subseteq CustodyEvents
    BY <1>1 DEF ReconInv, ReconTables, RowsOK, IndexCustodyEvent, IndexScoreEvent
  <2>2. UNCHANGED <<reconRows, nftScore, dbScore, sweep, scoreRun, scoreMoves, reconcileFaults>>
    BY <1>1 DEF IndexCustodyEvent, IndexScoreEvent
  <2> QED BY <2>1, <2>2, RunsStay DEF ReconInv, ReconTables
<1>2. ASSUME NEW b \in BorrowerIds, ScoreMoves(b) PROVE ReconInv'
  <2>1. scoreMoves' \in 0..MaxScoreMoves
    BY <1>2, ReconciliationAssumption DEF ReconInv, ReconTables, ScoreMoves
  <2>2. nftScore' \in [BorrowerIds -> Scores] /\ dbScore' \in Corrections
    BY <1>2 DEF ReconInv, ReconTables, ScoreMoves, Corrections
  <2>3. UNCHANGED <<indexVars, reconRows, sweep, scoreRun, reconcileFaults>>
    BY <1>2 DEF ScoreMoves
  <2> QED BY <2>1, <2>2, <2>3, RunsStay DEF ReconInv, ReconTables, indexVars
<1> QED
  BY <1>1, <1>2, SweepStepInv, ScoreRunInv DEF ReconNext

LEMMA ReconTyped == ReconInv => ReconTypeOK
<1> SUFFICES ASSUME ReconInv PROVE ReconTypeOK
  OBVIOUS
<1>1. RowsOK(reconRows, custodyIndexed) /\ Len(reconRows) \in Nat
      /\ DOMAIN reconRows = 1..Len(reconRows)
  BY RowLengths DEF ReconInv, ReconTables
<1>2. ASSUME NEW i \in DOMAIN reconRows
      PROVE  /\ reconRows[i] \in [event : custodyIndexed, attempts : 0..StaleAttempts,
                                  state : {"pending", "half_applied", "reconciled"}]
             /\ \A j \in DOMAIN reconRows : reconRows[i].event = reconRows[j].event => i = j
  <2>1. reconRows[i] \in ReconRow /\ reconRows[i].event \in custodyIndexed
    BY <1>1 DEF RowsOK
  <2>2. \A j \in DOMAIN reconRows : reconRows[i].event = reconRows[j].event => i = j
    BY <1>1 DEF RowsOK
  <2> QED BY <2>1, <2>2 DEF ReconRow, Marks
<1>3. ASSUME NEW p \in SweepProcesses
      PROVE  /\ sweep[p].pc \in {"idle", "fetch", "row", "found", "missing", "lookup"}
             /\ sweep[p].todo \in Seq([id : DOMAIN reconRows, attempts : 0..StaleAttempts])
             /\ sweep[p].corrections \in [BorrowerIds -> Scores \cup {NoValue}]
  <2> DEFINE t == sweep[p].todo
             R == [id : DOMAIN reconRows, attempts : 0..StaleAttempts]
  <2>1. SweepOK(sweep[p], Len(reconRows))
    BY DEF ReconInv, SweepsOK
  <2>2. /\ sweep[p].pc \in SweepSteps /\ sweep[p].corrections \in Corrections
        /\ t \in Seq(RowToDo) /\ \A i \in 1..Len(t) : t[i].id \in 1..Len(reconRows)
    BY <2>1 DEF SweepOK, SweepRecord
  <2> HIDE DEF t
  <2>3. Len(t) \in Nat /\ \A i \in 1..Len(t) : t[i] \in RowToDo
    BY <2>2
  <2>4. \A i \in 1..Len(t) : t[i] \in R
    BY <1>1, <2>2, <2>3 DEF RowToDo
  <2> HIDE DEF R
  <2>5. t \in Seq(R)
    BY <2>2, <2>3, <2>4
  <2> QED BY <2>2, <2>5 DEF t, R, SweepSteps, Corrections
<1>4. ASSUME NEW p \in ScoreProcesses
      PROVE  /\ scoreRun[p].pc \in {"idle", "read"}
             /\ scoreRun[p].corrections \in [BorrowerIds -> Scores \cup {NoValue}]
  BY DEF ReconInv, ScoreRunsOK, ScoreRunOK, Corrections
<1> QED
  BY <1>2, <1>3, <1>4 DEF ReconInv, ReconTables, ReconTypeOK, Corrections

IndexingInv == IndexInv /\ EffectsOnce /\ RangeInv /\ ReconInv

(* Checkpoints and ranges name ledgers that closed, a custody event has at  *)
(* most one row of cross_contract_reconciliation however many sweeps insert *)
(* the rows they find missing, and a sweep only updates rows there are.     *)
THEOREM IndexingTypesHold == Spec => []IndexingTypeOK
<1>1. Init => IndexingInv
  BY IndexInitInv, EffectsInitInv, RangeInitInv, ReconInitInv DEF Init, IndexingInv
<1>2. IndexingInv /\ [Next]_<<part, indexerVars, reconVars>> => IndexingInv'
  <2> SUFFICES ASSUME IndexingInv, [Next]_<<part, indexerVars, reconVars>> PROVE IndexingInv'
    OBVIOUS
  <2>1. UNCHANGED reconVars => ReconInv'
    BY DEF reconVars, IndexingInv, ReconInv, ReconTables, SweepsOK, ScoreRunsOK
  <2>2. [IndexerNext]_indexerVars => IndexInv' /\ EffectsOnce' /\ RangeInv'
    BY IndexNextInv, EffectsNext, RangeNextInv DEF IndexingInv
  <2>3. RowsNext \/ ScoresNext => ReconNext
    <3>1. Sweeper \in SweepProcesses
      BY ReconciliationAssumption DEF Sweeper
    <3> QED BY <3>1 DEF RowsNext, ScoresNext, ReconNext
  <2>4. RowsNext \/ ScoresNext => ReconInv'
    BY <2>3, ReconNextInv DEF IndexingInv
  <2>5. CASE UNCHANGED <<part, indexerVars, reconVars>>
    BY <2>1, <2>2, <2>5 DEF IndexingInv
  <2>6. CASE Next
    BY <2>1, <2>2, <2>4, <2>6 DEF Next, IndexingInv
  <2> QED BY <2>5, <2>6
<1>3. IndexingInv => IndexingTypeOK
  BY IndexerTyped, ReconTyped DEF IndexingInv, IndexingTypeOK
<1> QED
  BY <1>1, <1>2, <1>3, PTL DEF Spec
===============================================================================

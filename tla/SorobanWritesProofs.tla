------------------------- MODULE SorobanWritesProofs -------------------------
(***************************************************************************)
(* Theorems about the write queue and the circuit breaker in front of the  *)
(* RPC, for any number of backend processes, transactions, outages and     *)
(* restarts and any batch size: a transaction is queued at most once and   *)
(* its row is never lost, and a half-open circuit admits one trial call.   *)
(***************************************************************************)
EXTENDS MCSorobanWrites, Recursion, FiniteSetTheorems

CallRecord == [at : Backends \cup {NoBackend}, pc : {"idle", "sending", "queueing"}]

RowRecord == [status : {"absent", "pending", "applied"}, ready : BOOLEAN]

PassRecord ==
    [pc : {"idle", "probing", "listing", "sending", "polling", "submitted", "failed"},
     batch : Seq(Writes)]

WritesTyped ==
    /\ breaker \in [Backends -> Breaker]
    /\ call \in [Writes -> CallRecord]
    /\ queue \in Seq(Writes)
    /\ row \in [Writes -> RowRecord]
    /\ pass \in [Backends -> PassRecord]

Queued(w) == row[w].status # "absent"

(* The rows and the queue are the same transactions, each in one place. *)
RowsAreQueued ==
    /\ \A w \in Writes : Queued(w) <=> \E i \in 1..Len(queue) : queue[i] = w
    /\ \A i, j \in 1..Len(queue) : queue[i] = queue[j] => i = j

HasBatch(pc) == pc \in {"sending", "polling", "submitted", "failed"}

(* A pass works on transactions that are queued. *)
BatchesAreQueued ==
    \A p \in Backends :
        /\ HasBatch(pass[p].pc) => pass[p].batch # <<>>
        /\ \A i \in 1..Len(pass[p].batch) : Queued(pass[p].batch[i])

QueueInv == WritesTyped /\ RowsAreQueued /\ BatchesAreQueued

(* What was admitted since the circuit half-opened is its trial. *)
TrialsCounted ==
    /\ trials \in [Backends -> 0..1]
    /\ \A p \in Backends :
          trials[p] = 1 => breaker[p].state = "half-open" /\ breaker[p].trial

(* The inductive invariant. *)
WriteInv == QueueInv /\ TrialsCounted

------------------------------------------------------------------------------
(* The circuit breaker.                                                     *)

(* shouldShortCircuit: a half-open circuit is left with its trial taken,    *)
(* and admits a call only if it was not.                                    *)
LEMMA ShortCircuitTyped ==
    ASSUME NEW b \in Breaker
    PROVE  /\ AfterShortCircuit(b) \in Breaker
           /\ AfterShortCircuit(b).state = "half-open" => AfterShortCircuit(b).trial
           /\ ~ShouldShortCircuit(b) /\ b.state = "half-open" => ~b.trial
<1> DEFINE h == HalfOpened(b)
           c == [b EXCEPT !.state = "half-open", !.trial = FALSE]
<1>1. c \in Breaker
  BY DEF Breaker
<1>2. h \in Breaker /\ (b.state = "half-open" => h = b)
  <2>1. h = b \/ h = c
    BY DEF HalfOpened
  <2>2. b.state = "half-open" => h = b
    BY DEF HalfOpened
  <2> QED BY <1>1, <2>1, <2>2
<1>3. /\ AfterShortCircuit(b) = IF h.state = "half-open" THEN [h EXCEPT !.trial = TRUE] ELSE h
      /\ ShouldShortCircuit(b) <=> h.state = "open" \/ (h.state = "half-open" /\ h.trial)
  BY DEF AfterShortCircuit, ShouldShortCircuit
<1> HIDE DEF h, c
<1> DEFINE t == [h EXCEPT !.trial = TRUE]
<1>4. t \in Breaker /\ t.trial = TRUE
  BY <1>2 DEF Breaker
<1> HIDE DEF t
<1>5. AfterShortCircuit(b) \in {h, t} /\ (AfterShortCircuit(b) = h => h.state # "half-open" \/ h = t)
  BY <1>3 DEF t
<1> QED
  BY <1>2, <1>3, <1>4, <1>5

(* recordSuccess and recordFailure end the trial. *)
LEMMA RecordedTyped ==
    ASSUME NEW b \in Breaker
    PROVE  /\ RecordSuccess(b) \in Breaker /\ RecordSuccess(b).state # "half-open"
           /\ RecordFailure(b) \in Breaker /\ RecordFailure(b).state # "half-open"
           /\ \A up \in BOOLEAN : Probed(b, up) \in Breaker /\ Probed(b, up).state # "half-open"
<1>1. RecordSuccess(b) \in Breaker /\ RecordSuccess(b).state # "half-open"
  <2> DEFINE n == 0
             r == [b EXCEPT !.state = "closed", !.failures = n, !.trial = FALSE]
  <2>1. RecordSuccess(b) = r /\ n \in 0..FailureThreshold
    BY ThresholdAssumption DEF RecordSuccess
  <2> HIDE DEF n
  <2>2. r \in Breaker /\ r.state = "closed"
    BY <2>1 DEF Breaker
  <2> QED BY <2>1, <2>2
<1>2. RecordFailure(b) \in Breaker /\ RecordFailure(b).state # "half-open"
  <2> DEFINE n     == Counted(b.failures)
             opens == b.state # "open" /\ (b.state = "half-open" \/ n >= FailureThreshold)
             s     == IF opens THEN "open" ELSE b.state
             k     == IF opens THEN FALSE ELSE b.cooled
             r     == [b EXCEPT !.failures = n, !.trial = FALSE, !.state = s, !.cooled = k]
  <2>1. RecordFailure(b) = r
    BY DEF RecordFailure, Breaker
  <2>2. n \in 0..FailureThreshold
    BY ThresholdAssumption DEF Breaker, Counted
  <2>3. s \in {"closed", "open"} /\ k \in BOOLEAN
    BY DEF Breaker
  <2> HIDE DEF n, opens, s, k
  <2>4. r \in Breaker /\ r.state = s
    BY <2>2, <2>3 DEF Breaker
  <2> QED BY <2>1, <2>3, <2>4
<1>3. ASSUME NEW c \in Breaker, c.state # "half-open", NEW a \in {"up", "down"}
      PROVE  /\ [c EXCEPT !.cached = a, !.fresh = TRUE] \in Breaker
             /\ [c EXCEPT !.cached = a, !.fresh = TRUE].state # "half-open"
  BY <1>3 DEF Breaker
<1>4. ASSUME NEW up \in BOOLEAN PROVE Probed(b, up) \in Breaker /\ Probed(b, up).state # "half-open"
  BY <1>1, <1>2, <1>3 DEF Probed
<1> QED
  BY <1>1, <1>2, <1>4

(* What a step does to the breaker of one process keeps the count. *)
Admissible(p) ==
    breaker'[p].state = "half-open" =>
       /\ Admits(p) => /\ breaker'[p].trial
                       /\ breaker[p].state = "half-open" => ~breaker[p].trial
       /\ breaker[p].state = "half-open" /\ breaker[p].trial => breaker'[p].trial

Guarded == breaker' \in [Backends -> Breaker] /\ \A p \in Backends : Admissible(p)

(* A step that leaves the breakers alone and admits nothing. *)
LEMMA NothingAdmitted ==
    ASSUME WritesTyped, breaker' = breaker, \A q \in Backends : ~Admits(q)
    PROVE  Guarded
BY DEF WritesTyped, Guarded, Admissible

(* A step in which process p asks its breaker. *)
LEMMA AskedBreaker ==
    ASSUME WritesTyped, NEW p \in Backends, Breaks(p, AfterShortCircuit(breaker[p])),
           \A q \in Backends : Admits(q) => q = p /\ ~ShouldShortCircuit(breaker[p])
    PROVE  Guarded
<1> DEFINE b == breaker[p]
           c == AfterShortCircuit(b)
<1>1. breaker \in [Backends -> Breaker] /\ b \in Breaker
  BY DEF WritesTyped
<1>2. /\ c \in Breaker /\ (c.state = "half-open" => c.trial)
      /\ ~ShouldShortCircuit(b) /\ b.state = "half-open" => ~b.trial
  BY <1>1, ShortCircuitTyped
<1>3. breaker' = [breaker EXCEPT ![p] = c]
  BY DEF Breaks
<1> HIDE DEF c
<1>4. /\ breaker' \in [Backends -> Breaker] /\ breaker'[p] = c
      /\ \A q \in Backends : q # p => breaker'[q] = breaker[q]
  BY <1>1, <1>2, <1>3
<1>5. Admissible(p)
  BY <1>2, <1>4 DEF Admissible
<1>6. ASSUME NEW q \in Backends, q # p PROVE Admissible(q)
  BY <1>4, <1>6 DEF Admissible
<1> QED
  BY <1>4, <1>5, <1>6 DEF Guarded

(* A step that gives the breaker of p, if it is one, another value, and     *)
(* admits nothing.                                                          *)
LEMMA ToldBreaker ==
    ASSUME WritesTyped, NEW p, NEW c, breaker' = [breaker EXCEPT ![p] = c],
           p \in Backends =>
              /\ c \in Breaker
              /\ c.state = "half-open" /\ breaker[p].state = "half-open" /\ breaker[p].trial => c.trial,
           \A q \in Backends : ~Admits(q)
    PROVE  Guarded
<1>1. breaker \in [Backends -> Breaker]
  BY DEF WritesTyped
<1>2. /\ breaker' \in [Backends -> Breaker]
      /\ \A q \in Backends : breaker'[q] = IF q = p THEN c ELSE breaker[q]
  BY <1>1
<1>3. ASSUME NEW q \in Backends PROVE Admissible(q)
  BY <1>2 DEF Admissible
<1> QED
  BY <1>2, <1>3 DEF Guarded

(* Steps that move neither reads nor calls nor passes admit nothing. *)
LEMMA NobodyEnters ==
    ASSUME NEW p \in Backends, reading' \subseteq reading,
           \A w \in Writes : call[w].pc = "idle" => call'[w].pc # "sending",
           pass[p].pc = "idle" => pass'[p].pc # "probing"
    PROVE  ~Admits(p)
<1>1. ASSUME NEW w \in Writes PROVE ~(call[w].pc = "idle" /\ call'[w] = [at |-> p, pc |-> "sending"])
  <2> SUFFICES ASSUME call'[w] = [at |-> p, pc |-> "sending"] PROVE call'[w].pc = "sending"
    OBVIOUS
  <2> QED OBVIOUS
<1> QED
  BY <1>1 DEF Admits

------------------------------------------------------------------------------
(* The breakers' side of the steps.                                         *)

(* withStaleRead. *)
LEMMA ReadsGuarded ==
    ASSUME WritesTyped, NEW p \in Backends, StartRead(p) \/ EndRead(p)
    PROVE  Guarded
<1>1. call' = call /\ pass' = pass
  BY DEF StartRead, EndRead
<1>2. CASE StartRead(p)
  <2>1. ASSUME NEW q \in Backends, Admits(q) PROVE q = p /\ ~ShouldShortCircuit(breaker[p])
    <3>1. \A w \in Writes : ~(call[w].pc = "idle" /\ call'[w] = [at |-> q, pc |-> "sending"])
      <4> SUFFICES ASSUME NEW w \in Writes, call'[w] = [at |-> q, pc |-> "sending"]
                   PROVE  call'[w].pc = "sending"
        BY <1>1
      <4> QED OBVIOUS
    <3>2. q \notin reading /\ q \in reading'
      BY <1>1, <2>1, <3>1 DEF Admits
    <3> QED
      BY <1>2, <3>2 DEF StartRead
  <2> QED
    BY <1>2, <2>1, AskedBreaker DEF StartRead
<1>3. CASE EndRead(p)
  <2>1. \A q \in Backends : ~Admits(q)
    BY <1>1, <1>3, NobodyEnters DEF EndRead
  <2>2. CASE breaker' = breaker
    BY <2>1, <2>2, NothingAdmitted
  <2>3. ASSUME NEW c \in Breaker, Breaks(p, c), c.state # "half-open" PROVE Guarded
    BY <2>1, <2>3, ToldBreaker DEF Breaks
  <2>4. breaker[p] \in Breaker
    BY DEF WritesTyped
  <2> QED
    BY <1>3, <2>2, <2>3, <2>4, RecordedTyped DEF EndRead
<1> QED
  BY <1>2, <1>3

(* submitSignedTx asks the breaker. *)
LEMMA StartSubmitGuarded ==
    ASSUME WritesTyped, NEW p \in Backends, NEW w \in Writes, StartSubmit(p, w)
    PROVE  Guarded
<1> DEFINE pc == IF ShouldShortCircuit(breaker[p]) THEN "queueing" ELSE "sending"
<1>1. /\ reading' = reading /\ pass' = pass /\ call \in [Writes -> CallRecord]
      /\ call' = [call EXCEPT ![w] = [at |-> p, pc |-> pc]]
      /\ Breaks(p, AfterShortCircuit(breaker[p]))
  BY DEF StartSubmit, WritesTyped
<1>2. ASSUME NEW q \in Backends, Admits(q) PROVE q = p /\ ~ShouldShortCircuit(breaker[p])
  <2>1. PICK v \in Writes : call[v].pc = "idle" /\ call'[v] = [at |-> q, pc |-> "sending"]
    BY <1>1, <1>2 DEF Admits
  <2>2. call'[v].pc = "sending" /\ call'[v].at = q
    BY <2>1
  <2>3. v = w
    BY <1>1, <2>1, <2>2
  <2>4. call'[v].at = p /\ call'[v].pc = pc
    BY <1>1, <2>3
  <2> QED
    BY <2>2, <2>4
<1> QED
  BY <1>1, <1>2, AskedBreaker

(* The rest of submitSignedTx reports to it. *)
LEMMA CompleteGuarded ==
    ASSUME WritesTyped, NEW w \in Writes, Complete(w)
    PROVE  Guarded
<1> DEFINE p == call[w].at
<1>1. reading' = reading /\ pass' = pass /\ call \in [Writes -> CallRecord]
  BY DEF Complete, SendFails, SendAnswered, Enqueue, WritesTyped
<1>2. /\ Continue(w, "queueing") \/ Answer(w)
      /\ call[w].pc \in {"sending", "queueing"}
  BY DEF Complete, SendFails, SendAnswered, Enqueue
<1>3. ASSUME NEW v \in Writes, call[v].pc = "idle" PROVE call'[v].pc # "sending"
  BY <1>1, <1>2, <1>3 DEF Continue, Answer, CallRecord, NoCall
<1>4. \A q \in Backends : ~Admits(q)
  BY <1>1, <1>3, NobodyEnters
<1>5. CASE breaker' = breaker
  BY <1>4, <1>5, NothingAdmitted
<1>6. CASE Breaks(p, RecordSuccess(breaker[p])) \/ Breaks(p, RecordFailure(breaker[p]))
  <2>1. PICK c : /\ breaker' = [breaker EXCEPT ![p] = c]
                 /\ p \in Backends => c \in Breaker /\ c.state # "half-open"
    <3>1. p \in Backends => breaker[p] \in Breaker
      BY DEF WritesTyped
    <3> HIDE DEF p
    <3> QED BY <1>6, <3>1, RecordedTyped DEF Breaks
  <2> HIDE DEF p
  <2> QED BY <1>4, <2>1, ToldBreaker
<1> QED
  BY <1>5, <1>6 DEF Complete, SendFails, SendAnswered, Enqueue

(* checkAvailability asks the breaker unless the cached answer is recent. *)
LEMMA StartPassGuarded ==
    ASSUME WritesTyped, NEW p \in Backends, StartPass(p)
    PROVE  Guarded
<1> DEFINE b == breaker[p]
<1>1. reading' = reading /\ call' = call /\ pass \in [Backends -> PassRecord] /\ pass[p].pc = "idle"
  BY DEF StartPass, WritesTyped
<1>2. \/ ~b.fresh /\ ~ShouldShortCircuit(b) /\ Goto(p, "probing")
      \/ Goto(p, "listing")
      \/ pass' = pass
  BY DEF StartPass
<1>3. Breaks(p, IF b.fresh THEN b ELSE AfterShortCircuit(b))
  BY DEF StartPass
<1>4. ASSUME NEW q \in Backends, Admits(q) PROVE q = p /\ ~b.fresh /\ ~ShouldShortCircuit(b)
  <2>1. \A w \in Writes : ~(call[w].pc = "idle" /\ call'[w] = [at |-> q, pc |-> "sending"])
    <3> SUFFICES ASSUME NEW w \in Writes, call'[w] = [at |-> q, pc |-> "sending"]
                 PROVE  call'[w].pc = "sending"
      BY <1>1
    <3> QED OBVIOUS
  <2>2. pass[q].pc = "idle" /\ pass'[q].pc = "probing"
    BY <1>1, <1>4, <2>1 DEF Admits
  <2> QED
    BY <1>1, <1>2, <2>2 DEF Goto, PassRecord
<1>5. CASE b.fresh
  <2>1. breaker' = [breaker EXCEPT ![p] = breaker[p]] /\ breaker \in [Backends -> Breaker]
    BY <1>3, <1>5 DEF Breaks, WritesTyped
  <2>2. breaker' = breaker
    BY <2>1
  <2> QED BY <1>4, <1>5, <2>2, NothingAdmitted
<1>6. CASE ~b.fresh
  BY <1>3, <1>4, <1>6, AskedBreaker
<1> QED
  BY <1>5, <1>6

(* The rest of the replay pass. *)
LEMMA ReplayGuarded ==
    ASSUME WritesTyped, NEW p \in Backends,
           \/ EndProbe(p) \/ ListReadyForReplay(p) \/ ReplayFails(p) \/ ReplayAnswered(p)
           \/ ReplayPollEnds(p) \/ MarkApplied(p) \/ MarkFailed(p)
    PROVE  Guarded
<1>1. reading' = reading /\ call' = call /\ pass \in [Backends -> PassRecord] /\ breaker[p] \in Breaker
  BY DEF EndProbe, ListReadyForReplay, ReplayFails, ReplayAnswered, ReplayPollEnds, MarkApplied,
         MarkFailed, WritesTyped
<1>2. pass[p].pc # "idle" /\ \A q \in Backends : q # p => pass'[q] = pass[q]
  BY <1>1 DEF EndProbe, ListReadyForReplay, ReplayFails, ReplayAnswered, ReplayPollEnds, MarkApplied,
         MarkFailed, Goto
<1>3. \A q \in Backends : ~Admits(q)
  BY <1>1, <1>2, NobodyEnters
<1>4. CASE breaker' = breaker
  BY <1>3, <1>4, NothingAdmitted
<1>5. ASSUME NEW c \in Breaker, Breaks(p, c), c.state # "half-open" PROVE Guarded
  BY <1>3, <1>5, ToldBreaker DEF Breaks
<1> QED
  BY <1>1, <1>4, <1>5, RecordedTyped
     DEF EndProbe, ListReadyForReplay, ReplayFails, ReplayAnswered, ReplayPollEnds, MarkApplied,
         MarkFailed

(* Time, outages and restarts. *)
LEMMA WorldGuarded ==
    ASSUME WritesTyped,
           \/ \E p \in Backends : CooldownElapses(p) \/ CacheExpires(p) \/ Restart(p)
           \/ \E w \in Writes : BackoffElapses(w)
           \/ RpcGoesDown \/ RpcComesBack
    PROVE  Guarded
<1>1. ASSUME NEW p \in Backends, CooldownElapses(p) PROVE Guarded
  <2> DEFINE c == [breaker[p] EXCEPT !.cooled = TRUE]
  <2>1. breaker[p] \in Breaker /\ breaker[p].state = "open" /\ breaker' = [breaker EXCEPT ![p] = c]
        /\ reading' = reading /\ call' = call /\ pass' = pass
    BY <1>1 DEF CooldownElapses, Breaks, WritesTyped
  <2>2. c \in Breaker /\ c.state # "half-open"
    BY <2>1 DEF Breaker
  <2>3. \A q \in Backends : ~Admits(q)
    BY <2>1, NobodyEnters
  <2> HIDE DEF c
  <2> QED BY <2>1, <2>2, <2>3, ToldBreaker
<1>2. ASSUME NEW p \in Backends, CacheExpires(p) PROVE Guarded
  <2> DEFINE c == [breaker[p] EXCEPT !.fresh = FALSE]
  <2>1. breaker[p] \in Breaker /\ breaker' = [breaker EXCEPT ![p] = c]
        /\ reading' = reading /\ call' = call /\ pass' = pass
    BY <1>2 DEF CacheExpires, Breaks, WritesTyped
  <2>2. c \in Breaker /\ c.trial = breaker[p].trial
    BY <2>1 DEF Breaker
  <2>3. \A q \in Backends : ~Admits(q)
    BY <2>1, NobodyEnters
  <2> HIDE DEF c
  <2> QED BY <2>1, <2>2, <2>3, ToldBreaker
<1>3. ASSUME NEW p \in Backends, Restart(p) PROVE Guarded
  <2>1. NewBreaker \in Breaker
    BY ThresholdAssumption DEF NewBreaker, Breaker
  <2>2. PICK c \in Breaker : c.state # "half-open" /\ breaker' = [breaker EXCEPT ![p] = c]
    BY <1>3, <2>1, RecordedTyped DEF Restart, Breaks
  <2>3. /\ reading' \subseteq reading /\ pass' = [pass EXCEPT ![p] = NoPass]
        /\ call' = [w \in Writes |-> IF call[w].at = p THEN NoCall ELSE call[w]]
    BY <1>3 DEF Restart
  <2>4. ASSUME NEW q \in Backends PROVE ~Admits(q)
    <3>1. \A w \in Writes : call[w].pc = "idle" => call'[w].pc # "sending"
      BY <2>3 DEF NoCall
    <3>2. pass[q].pc = "idle" => pass'[q].pc # "probing"
      BY <2>3 DEF NoPass, WritesTyped
    <3> QED BY <2>3, <3>1, <3>2, NobodyEnters
  <2> QED BY <2>2, <2>4, ToldBreaker
<1>4. CASE (\E w \in Writes : BackoffElapses(w)) \/ RpcGoesDown \/ RpcComesBack
  <2>1. breaker' = breaker /\ reading' = reading /\ call' = call /\ pass' = pass
    BY <1>4 DEF BackoffElapses, RpcGoesDown, RpcComesBack
  <2>2. \A q \in Backends : ~Admits(q)
    BY <2>1, NobodyEnters
  <2> QED BY <2>1, <2>2, NothingAdmitted
<1> QED
  BY <1>1, <1>2, <1>3, <1>4

(* Any step. *)
LEMMA NextGuarded ==
    ASSUME WritesTyped, Next
    PROVE  Guarded
BY ReadsGuarded, StartSubmitGuarded, CompleteGuarded, StartPassGuarded, ReplayGuarded, WorldGuarded
   DEF Next, Replay

------------------------------------------------------------------------------
(* The queue's side of the steps.                                           *)

(* The transactions listReadyForReplay returns have rows. *)
LEMMA ListReadyQueued ==
    ASSUME QueueInv
    PROVE  ListReady \in Seq(Writes) /\ \A i \in 1..Len(ListReady) : Queued(ListReady[i])
<1> DEFINE N == Len(queue)
           V == {s \in Seq(Writes) : \A i \in 1..Len(s) : Queued(s[i])}
           one(n, s) == IF Ready(queue[n]) /\ Len(s) < BatchSize THEN Append(s, queue[n]) ELSE s
           step == [x \in (1..N) \X V |-> one(x[1], x[2])]
           P(t) == t = [n \in 0..N |->
                          IF n = 0 THEN <<>>
                          ELSE IF Ready(queue[n]) /\ Len(t[n - 1]) < BatchSize
                          THEN Append(t[n - 1], queue[n])
                          ELSE t[n - 1]]
<1>1. N \in Nat /\ <<>> \in V /\ queue \in Seq(Writes)
  BY DEF QueueInv, WritesTyped
<1>2. ASSUME NEW n \in 1..N, NEW s \in V PROVE one(n, s) \in V
  <2> DEFINE x == queue[n]
             a == Append(s, x)
  <2>1. x \in Writes /\ s \in Seq(Writes) /\ \A i \in 1..Len(s) : Queued(s[i])
    BY <1>1
  <2>2. CASE Ready(x)
    <3>1. Queued(x)
      BY <2>2 DEF Ready, Queued
    <3> HIDE DEF x
    <3>2. /\ a \in Seq(Writes) /\ Len(a) = Len(s) + 1 /\ a[Len(s) + 1] = x
          /\ \A i \in 1..Len(s) : a[i] = s[i]
      BY <2>1
    <3> HIDE DEF a
    <3>3. \A i \in 1..Len(a) : Queued(a[i])
      BY <2>1, <3>1, <3>2
    <3>4. a \in V
      BY <3>2, <3>3
    <3> QED BY <3>4 DEF a, x
  <2>3. CASE ~Ready(x)
    BY <2>3
  <2> QED BY <2>2, <2>3
<1>3. \A n \in 1..N, s \in V : step[<<n, s>>] = one(n, s)
  OBVIOUS
<1>4. ListReady = (CHOOSE t : P(t))[N]
  BY DEF ListReady
<1> HIDE DEF step, one, N, V
<1>5. PICK g \in [0..N -> V] : g[0] = <<>> /\ \A i \in 1..N : g[i] = step[<<i, g[i - 1]>>]
  <2> DEFINE e == <<>>
  <2>1. N \in Nat /\ e \in V /\ Steps(step, V, N)
    BY <1>1, <1>2, <1>3 DEF Steps
  <2> HIDE DEF e, P
  <2>2. \E g : Unfolds(g, V, e, N, step)
    BY <2>1, RecursiveFunction
  <2> QED BY <2>2 DEF e, Unfolds
<1>6. P(g)
  <2>1. ASSUME NEW i \in 1..N PROVE g[i] = one(i, g[i - 1])
    <3>1. i - 1 \in 0..N
      BY <1>1
    <3>2. g[i - 1] \in V
      BY <3>1
    <3> QED BY <1>3, <1>5, <3>2
  <2>2. g = [n \in 0..N |-> g[n]]
    OBVIOUS
  <2>3. \A n \in 0..N : g[n] = IF n = 0 THEN <<>> ELSE one(n, g[n - 1])
    BY <1>5, <2>1
  <2>4. g = [n \in 0..N |-> IF n = 0 THEN <<>> ELSE one(n, g[n - 1])]
    BY <2>2, <2>3
  <2> QED BY <2>4 DEF one
<1> DEFINE T == CHOOSE t : P(t)
<1>7. P(T)
  BY <1>6
<1> HIDE DEF T
<1>8. T = [n \in 0..N |-> IF n = 0 THEN <<>> ELSE one(n, T[n - 1])]
  BY <1>7 DEF one
<1> HIDE DEF P
<1>9. \A n \in 0..N : T[n] = IF n = 0 THEN <<>> ELSE one(n, T[n - 1])
  BY <1>8
<1>10. \A n \in 0..N : T[n] \in V
  <2> DEFINE S == {n \in 0..N : T[n] \in V}
  <2>1. 0 \in S
    <3>1. 0 \in 0..N
      BY <1>1
    <3>2. T[0] \in V
      BY <1>1, <1>9, <3>1
    <3> QED BY <3>1, <3>2
  <2>2. ASSUME NEW n \in 1..N, n - 1 \in S PROVE n \in S
    <3>1. T[n] = one(n, T[n - 1]) /\ T[n - 1] \in V /\ n \in 0..N
      BY <1>1, <1>9, <2>2
    <3> QED BY <1>2, <3>1
  <2> HIDE DEF S
  <2>3. \A n \in 0..N : n \in S
    BY <1>1, <2>1, <2>2, UpTo
  <2> QED BY <2>3 DEF S
<1>11. ListReady \in V
  BY <1>1, <1>4, <1>10 DEF T
<1> QED
  BY <1>11 DEF V

(* A pass that works on transactions queued after the step. *)
PassOK(q) ==
    /\ q \in PassRecord
    /\ HasBatch(q.pc) => q.batch # <<>>
    /\ \A i \in 1..Len(q.batch) : row'[q.batch[i]].status # "absent"

RowsKept == \A w \in Writes : Queued(w) => row'[w].status # "absent"

(* What a step leaves of the queue, the rows and the passes. *)
QueueKept ==
    /\ call' \in [Writes -> CallRecord]
    /\ queue' \in Seq(Writes)
    /\ row' \in [Writes -> RowRecord]
    /\ pass' \in [Backends -> PassRecord]
    /\ RowsAreQueued'
    /\ BatchesAreQueued'

(* The passes of the other processes. *)
LEMMA PassesKept ==
    ASSUME QueueInv, RowsKept, NEW p \in Backends, NEW q, PassOK(q),
           pass' = [pass EXCEPT ![p] = q]
    PROVE  pass' \in [Backends -> PassRecord] /\ BatchesAreQueued'
<1>1. /\ pass \in [Backends -> PassRecord] /\ q \in PassRecord
  BY DEF QueueInv, WritesTyped, PassOK
<1>2. /\ pass' \in [Backends -> PassRecord] /\ pass'[p] = q
      /\ \A x \in Backends : x # p => pass'[x] = pass[x]
  BY <1>1
<1>3. ASSUME NEW x \in Backends PROVE PassOK(pass'[x])
  <2>1. CASE x = p
    BY <1>2, <2>1
  <2>2. CASE x # p
    <3>1. pass[x] \in PassRecord /\ (HasBatch(pass[x].pc) => pass[x].batch # <<>>)
      BY <1>1 DEF QueueInv, BatchesAreQueued
    <3>2. ASSUME NEW i \in 1..Len(pass[x].batch) PROVE row'[pass[x].batch[i]].status # "absent"
      <4>1. pass[x].batch[i] \in Writes
        BY <3>1 DEF PassRecord
      <4>2. Queued(pass[x].batch[i])
        BY DEF QueueInv, BatchesAreQueued
      <4> QED BY <4>1, <4>2 DEF RowsKept
    <3> QED BY <1>2, <2>2, <3>1, <3>2 DEF PassOK
  <2> QED BY <2>1, <2>2
<1> QED
  BY <1>2, <1>3 DEF PassOK, BatchesAreQueued, Queued, HasBatch

(* Without a change of the rows nothing is lost. *)
LEMMA SameRows ==
    ASSUME QueueInv, UNCHANGED queueVars
    PROVE  /\ queue' \in Seq(Writes) /\ row' \in [Writes -> RowRecord]
           /\ RowsAreQueued' /\ RowsKept
BY DEF QueueInv, WritesTyped, queueVars, RowsAreQueued, RowsKept, Queued

(* A row that stays a row. *)
LEMMA RowUpdated ==
    ASSUME QueueInv, queue' = queue, NEW w \in Writes, NEW r \in RowRecord, Queued(w),
           r.status # "absent", row' = [row EXCEPT ![w] = r]
    PROVE  /\ queue' \in Seq(Writes) /\ row' \in [Writes -> RowRecord]
           /\ RowsAreQueued' /\ RowsKept
<1>1. row \in [Writes -> RowRecord] /\ queue \in Seq(Writes) /\ RowsAreQueued
  BY DEF QueueInv, WritesTyped
<1>2. /\ row' \in [Writes -> RowRecord] /\ row'[w] = r
      /\ \A v \in Writes : v # w => row'[v] = row[v]
  BY <1>1
<1>3. \A v \in Writes : Queued(v) <=> row'[v].status # "absent"
  BY <1>2 DEF Queued
<1> QED
  BY <1>1, <1>2, <1>3 DEF RowsAreQueued, RowsKept, Queued

(* Steps that touch neither rows nor passes. *)
LEMMA OnlyCallsMove ==
    ASSUME QueueInv, UNCHANGED queueVars, pass' = pass, call' \in [Writes -> CallRecord]
    PROVE  QueueKept
<1>1. /\ queue' \in Seq(Writes) /\ row' \in [Writes -> RowRecord] /\ RowsAreQueued'
  BY SameRows
<1>2. pass' \in [Backends -> PassRecord] /\ BatchesAreQueued'
  BY DEF queueVars, QueueInv, WritesTyped, BatchesAreQueued, Queued
<1> QED
  BY <1>1, <1>2 DEF QueueKept

(* Steps of the replay pass that only move its program counter. *)
LEMMA OnlyPassMoves ==
    ASSUME QueueInv, UNCHANGED <<queueVars, call>>, NEW p \in Backends, NEW pc,
           pc \in {"idle", "probing", "listing", "sending", "polling", "submitted", "failed"},
           HasBatch(pc) => HasBatch(pass[p].pc), Goto(p, pc)
    PROVE  QueueKept
<1>1. /\ queue' \in Seq(Writes) /\ row' \in [Writes -> RowRecord] /\ RowsAreQueued' /\ RowsKept
  BY SameRows
<1> DEFINE q == [pass[p] EXCEPT !.pc = pc]
<1>2. pass[p] \in PassRecord /\ pass \in [Backends -> PassRecord]
  BY DEF QueueInv, WritesTyped
<1>3. q \in PassRecord /\ q.pc = pc /\ q.batch = pass[p].batch
  BY <1>2 DEF PassRecord
<1>4. pass' = [pass EXCEPT ![p] = q]
  BY <1>2 DEF Goto
<1> HIDE DEF q
<1>5. PassOK(q)
  <2>1. HasBatch(q.pc) => q.batch # <<>>
    BY <1>3 DEF QueueInv, BatchesAreQueued
  <2>2. ASSUME NEW i \in 1..Len(q.batch) PROVE row'[q.batch[i]].status # "absent"
    <3>1. q.batch[i] \in Writes
      BY <1>3 DEF PassRecord
    <3>2. Queued(q.batch[i])
      BY <1>3 DEF QueueInv, BatchesAreQueued
    <3> QED BY <1>1, <3>1, <3>2 DEF RowsKept
  <2> QED BY <1>3, <2>1, <2>2 DEF PassOK
<1>6. pass' \in [Backends -> PassRecord] /\ BatchesAreQueued'
  BY <1>1, <1>4, <1>5, PassesKept
<1>7. call' \in [Writes -> CallRecord]
  BY DEF QueueInv, WritesTyped
<1> QED
  BY <1>1, <1>6, <1>7 DEF QueueKept

(* A pass without a batch. *)
LEMMA NoPassOK == PassOK(NoPass)
<1>1. NoPass = [pc |-> "idle", batch |-> <<>>] /\ <<>> \in Seq(Writes) /\ Len(<<>>) = 0
  BY DEF NoPass
<1>2. NoPass \in PassRecord /\ NoPass.pc = "idle" /\ NoPass.batch = <<>>
  BY <1>1 DEF PassRecord
<1> QED
  BY <1>1, <1>2 DEF PassOK, HasBatch

(* A pass with what is left of its batch. *)
LEMMA DrainOK ==
    ASSUME NEW batch \in Seq(Writes), \A i \in 1..Len(batch) : row'[batch[i]].status # "absent"
    PROVE  PassOK(Drain(batch))
<1>1. CASE batch = <<>>
  BY <1>1, NoPassOK DEF Drain
<1>2. CASE batch # <<>>
  <2> DEFINE q == [pc |-> "sending", batch |-> batch]
  <2>1. q \in PassRecord /\ q.pc = "sending" /\ q.batch = batch
    BY DEF PassRecord
  <2>2. Drain(batch) = q
    BY <1>2 DEF Drain
  <2> HIDE DEF q
  <2> QED BY <1>2, <2>1, <2>2 DEF PassOK
<1> QED
  BY <1>1, <1>2

(* The transaction a pass works on. *)
LEMMA ReplayedQueued ==
    ASSUME QueueInv, NEW p \in Backends, HasBatch(pass[p].pc)
    PROVE  /\ Replayed(p) \in Writes /\ Queued(Replayed(p))
           /\ pass[p].batch \in Seq(Writes) /\ pass[p].batch # <<>>
<1>1. pass[p].batch \in Seq(Writes) /\ pass[p].batch # <<>>
  BY DEF QueueInv, WritesTyped, BatchesAreQueued, PassRecord
<1>2. 1 \in 1..Len(pass[p].batch) /\ Replayed(p) = pass[p].batch[1]
  BY <1>1 DEF Replayed
<1>3. Queued(pass[p].batch[1])
  BY <1>2 DEF QueueInv, BatchesAreQueued
<1> QED
  BY <1>1, <1>2, <1>3

(* Reads and requests. *)
LEMMA RequestsKeepQueue ==
    ASSUME QueueInv,
           \/ \E p \in Backends : StartRead(p) \/ EndRead(p) \/ \E w \in Writes : StartSubmit(p, w)
           \/ \E w \in Writes : SendFails(w) \/ SendAnswered(w)
    PROVE  QueueKept
<1>1. UNCHANGED queueVars /\ pass' = pass
  BY DEF StartRead, EndRead, StartSubmit, SendFails, SendAnswered
<1>2. call \in [Writes -> CallRecord]
  BY DEF QueueInv, WritesTyped
<1>3. ASSUME NEW w \in Writes, NEW c \in CallRecord, call' = [call EXCEPT ![w] = c]
      PROVE  call' \in [Writes -> CallRecord]
  BY <1>2, <1>3
<1>4. ASSUME NEW p \in Backends, StartRead(p) \/ EndRead(p) PROVE call' \in [Writes -> CallRecord]
  BY <1>2, <1>4 DEF StartRead, EndRead
<1>5. ASSUME NEW p \in Backends, NEW w \in Writes, StartSubmit(p, w)
      PROVE  call' \in [Writes -> CallRecord]
  <2>1. PICK pc \in {"queueing", "sending"} : call' = [call EXCEPT ![w] = [at |-> p, pc |-> pc]]
    BY <1>5 DEF StartSubmit
  <2>2. [at |-> p, pc |-> pc] \in CallRecord
    BY DEF CallRecord
  <2> QED BY <1>3, <2>1, <2>2
<1>6. ASSUME NEW w \in Writes, SendFails(w) \/ SendAnswered(w) PROVE call' \in [Writes -> CallRecord]
  <2>1. CASE Answer(w)
    <3>1. NoCall \in CallRecord
      BY DEF NoCall, CallRecord
    <3> QED BY <1>3, <2>1, <3>1 DEF Answer
  <2>2. CASE Continue(w, "queueing")
    <3> DEFINE c == [call[w] EXCEPT !.pc = "queueing"]
    <3>1. c \in CallRecord
      BY <1>2 DEF CallRecord
    <3>2. call' = [call EXCEPT ![w] = c]
      BY <1>2, <2>2 DEF Continue
    <3> HIDE DEF c
    <3> QED BY <1>3, <3>1, <3>2
  <2> QED BY <1>6, <2>1, <2>2 DEF SendFails, SendAnswered
<1>7. call' \in [Writes -> CallRecord]
  BY <1>4, <1>5, <1>6
<1> QED
  BY <1>1, <1>7, OnlyCallsMove

(* enqueueSorobanWrite: the row is new and takes the last place, or there   *)
(* is one already.                                                          *)
LEMMA EnqueueKeepsQueue ==
    ASSUME QueueInv, NEW w \in Writes, Enqueue(w)
    PROVE  QueueKept
<1>1. call \in [Writes -> CallRecord] /\ NoCall \in CallRecord /\ pass' = pass
  BY DEF QueueInv, WritesTyped, NoCall, CallRecord, Enqueue
<1>2. call' \in [Writes -> CallRecord]
  BY <1>1 DEF Enqueue, Answer
<1>3. CASE Queued(w)
  <2>1. UNCHANGED queueVars
    BY <1>3 DEF Enqueue, Inserted, Queued
  <2> QED BY <1>1, <1>2, <2>1, OnlyCallsMove
<1>4. CASE ~Queued(w)
  <2> DEFINE r == [status |-> "pending", ready |-> TRUE]
             n == Len(queue)
  <2>1. /\ queue \in Seq(Writes) /\ row \in [Writes -> RowRecord]
        /\ pass \in [Backends -> PassRecord] /\ RowsAreQueued /\ BatchesAreQueued
    BY DEF QueueInv, WritesTyped
  <2>2. queue' = Append(queue, w) /\ row' = [row EXCEPT ![w] = r]
    BY <1>4 DEF Enqueue, Inserted, Queued
  <2>3. r \in RowRecord /\ r.status = "pending"
    BY DEF RowRecord
  <2> HIDE DEF r
  <2>4. /\ row' \in [Writes -> RowRecord] /\ row'[w] = r
        /\ \A v \in Writes : v # w => row'[v] = row[v]
    BY <2>1, <2>2, <2>3
  <2>5. n \in Nat
    BY <2>1
  <2>6. /\ queue' \in Seq(Writes) /\ Len(queue') = n + 1 /\ queue'[n + 1] = w
        /\ \A i \in 1..n : queue'[i] = queue[i]
    BY <2>1, <2>2
  <2>7. \A i \in 1..n : queue[i] # w /\ queue[i] \in Writes
    <3>1. \A i \in 1..n : queue[i] # w
      BY <1>4, <2>1 DEF RowsAreQueued
    <3>2. \A i \in 1..n : queue[i] \in Writes
      BY <2>1
    <3> QED BY <3>1, <3>2
  <2>8. RowsKept
    BY <2>3, <2>4 DEF RowsKept, Queued
  <2>9. RowsAreQueued'
    <3>1. ASSUME NEW v \in Writes
          PROVE  row'[v].status # "absent" <=> \E i \in 1..Len(queue') : queue'[i] = v
      <4>1. CASE v = w
        BY <2>3, <2>4, <2>5, <2>6, <4>1
      <4>2. CASE v # w
        <5>1. Queued(v) <=> \E i \in 1..n : queue[i] = v
          BY <2>1 DEF RowsAreQueued
        <5>2. (\E i \in 1..Len(queue') : queue'[i] = v) <=> \E i \in 1..n : queue[i] = v
          <6> HIDE DEF n
          <6>1. ASSUME NEW i \in 1..Len(queue'), queue'[i] = v PROVE i \in 1..n /\ queue[i] = v
            BY <2>5, <2>6, <4>2, <6>1
          <6>2. ASSUME NEW i \in 1..n, queue[i] = v PROVE i \in 1..Len(queue') /\ queue'[i] = v
            BY <2>5, <2>6, <6>2
          <6> QED BY <6>1, <6>2
        <5> QED BY <2>4, <4>2, <5>1, <5>2 DEF Queued
      <4> QED BY <4>1, <4>2
    <3>2. ASSUME NEW i \in 1..Len(queue'), NEW j \in 1..Len(queue'), queue'[i] = queue'[j]
          PROVE  i = j
      <4>1. \A k, l \in 1..n : queue[k] = queue[l] => k = l
        BY <2>1 DEF RowsAreQueued
      <4> HIDE DEF n
      <4>2. i \in 1..n \/ i = n + 1
        BY <2>5, <2>6
      <4>3. j \in 1..n \/ j = n + 1
        BY <2>5, <2>6
      <4> QED BY <2>6, <2>7, <3>2, <4>1, <4>2, <4>3
    <3> QED BY <3>1, <3>2 DEF RowsAreQueued, Queued
  <2>10. BatchesAreQueued'
    <3>1. ASSUME NEW p \in Backends, NEW i \in 1..Len(pass[p].batch)
          PROVE  row'[pass[p].batch[i]].status # "absent"
      <4>1. pass[p].batch[i] \in Writes
        BY <2>1 DEF PassRecord
      <4>2. Queued(pass[p].batch[i])
        BY <2>1 DEF BatchesAreQueued
      <4> QED BY <2>8, <4>1, <4>2 DEF RowsKept
    <3>2. \A p \in Backends : HasBatch(pass[p].pc) => pass[p].batch # <<>>
      BY <2>1 DEF BatchesAreQueued
    <3> QED BY <1>1, <3>1, <3>2 DEF BatchesAreQueued, Queued, HasBatch
  <2> QED BY <1>1, <1>2, <2>1, <2>4, <2>6, <2>9, <2>10 DEF QueueKept
<1> QED
  BY <1>3, <1>4

(* The replay pass up to its marks. *)
LEMMA PassKeepsQueue ==
    ASSUME QueueInv, NEW p \in Backends,
           \/ StartPass(p) \/ EndProbe(p) \/ ReplayFails(p) \/ ReplayAnswered(p)
           \/ ReplayPollEnds(p)
    PROVE  QueueKept
<1>1. UNCHANGED <<queueVars, call>>
  BY DEF StartPass, EndProbe, ReplayFails, ReplayAnswered, ReplayPollEnds
<1>2. \/ pass' = pass
      \/ Goto(p, "idle") \/ Goto(p, "probing") \/ Goto(p, "listing")
      \/ /\ pass[p].pc \in {"sending", "polling"}
         /\ Goto(p, "polling") \/ Goto(p, "submitted") \/ Goto(p, "failed")
  BY DEF StartPass, EndProbe, ReplayFails, ReplayAnswered, ReplayPollEnds
<1>3. CASE pass' = pass
  <2>1. call' \in [Writes -> CallRecord] /\ UNCHANGED queueVars
    BY <1>1 DEF QueueInv, WritesTyped
  <2> QED BY <1>3, <2>1, OnlyCallsMove
<1>4. CASE Goto(p, "idle") \/ Goto(p, "probing") \/ Goto(p, "listing")
  <2>1. ASSUME NEW pc \in {"idle", "probing", "listing"}, Goto(p, pc) PROVE QueueKept
    <3>1. ~HasBatch(pc)
      BY DEF HasBatch
    <3> QED BY <1>1, <2>1, <3>1, OnlyPassMoves
  <2> QED BY <1>4, <2>1
<1>5. CASE /\ pass[p].pc \in {"sending", "polling"}
           /\ Goto(p, "polling") \/ Goto(p, "submitted") \/ Goto(p, "failed")
  <2>1. HasBatch(pass[p].pc)
    BY <1>5 DEF HasBatch
  <2>2. ASSUME NEW pc \in {"polling", "submitted", "failed"}, Goto(p, pc) PROVE QueueKept
    BY <1>1, <2>1, <2>2, OnlyPassMoves
  <2> QED BY <1>5, <2>2
<1> QED
  BY <1>2, <1>3, <1>4, <1>5

(* listReadyForReplay. *)
LEMMA ListKeepsQueue ==
    ASSUME QueueInv, NEW p \in Backends, ListReadyForReplay(p)
    PROVE  QueueKept
<1> DEFINE b == ListReady
<1>1. UNCHANGED queueVars /\ call' = call /\ pass' = [pass EXCEPT ![p] = Drain(b)]
  BY DEF ListReadyForReplay
<1>2. b \in Seq(Writes) /\ \A i \in 1..Len(b) : Queued(b[i])
  BY ListReadyQueued
<1> HIDE DEF b
<1>3. /\ queue' \in Seq(Writes) /\ row' \in [Writes -> RowRecord] /\ RowsAreQueued' /\ RowsKept
  BY <1>1, SameRows
<1>4. \A i \in 1..Len(b) : row'[b[i]].status # "absent"
  BY <1>1, <1>2 DEF Queued, queueVars
<1>5. PassOK(Drain(b))
  BY <1>2, <1>4, DrainOK
<1>6. pass' \in [Backends -> PassRecord] /\ BatchesAreQueued'
  BY <1>1, <1>3, <1>5, PassesKept
<1>7. call' \in [Writes -> CallRecord]
  BY <1>1 DEF QueueInv, WritesTyped
<1> QED
  BY <1>3, <1>6, <1>7 DEF QueueKept

(* markApplied and markPendingAfterFailure. *)
LEMMA MarksKeepQueue ==
    ASSUME QueueInv, NEW p \in Backends, MarkApplied(p) \/ MarkFailed(p)
    PROVE  QueueKept
<1> DEFINE w == Replayed(p)
           a == [row[w] EXCEPT !.status = "applied"]
           f == [status |-> "pending", ready |-> FALSE]
           b == pass[p].batch
<1>1. HasBatch(pass[p].pc) /\ queue' = queue /\ call' = call
  BY DEF MarkApplied, MarkFailed, HasBatch
<1>2. w \in Writes /\ Queued(w) /\ b \in Seq(Writes) /\ b # <<>>
  BY <1>1, ReplayedQueued
<1>3. row \in [Writes -> RowRecord] /\ pass \in [Backends -> PassRecord] /\ call \in [Writes -> CallRecord]
  BY DEF QueueInv, WritesTyped
<1>4. \A i \in 1..Len(b) : Queued(b[i])
  BY DEF QueueInv, BatchesAreQueued
<1>5. a \in RowRecord /\ a.status = "applied" /\ f \in RowRecord /\ f.status = "pending"
  <2> HIDE DEF w
  <2> QED BY <1>2, <1>3 DEF RowRecord
<1>6. CASE MarkApplied(p)
  <2>1. row' = [row EXCEPT ![w] = a] /\ pass' = [pass EXCEPT ![p] = Drain(Tail(b))]
    <3>1. row' = [row EXCEPT ![w].status = "applied"] /\ pass' = [pass EXCEPT ![p] = Drain(Tail(@.batch))]
      BY <1>6 DEF MarkApplied
    <3> HIDE DEF w
    <3> QED BY <1>2, <1>3, <3>1
  <2> HIDE DEF w, a, b
  <2>2. /\ queue' \in Seq(Writes) /\ row' \in [Writes -> RowRecord] /\ RowsAreQueued' /\ RowsKept
    BY <1>1, <1>2, <1>5, <2>1, RowUpdated
  <2>3. Tail(b) \in Seq(Writes) /\ Len(b) \in Nat /\ Len(b) # 0 /\ Len(Tail(b)) = Len(b) - 1
        /\ \A i \in 1..Len(Tail(b)) : Tail(b)[i] = b[i + 1]
    BY <1>2
  <2>4. ASSUME NEW i \in 1..Len(Tail(b)) PROVE row'[Tail(b)[i]].status # "absent"
    <3>1. i + 1 \in 1..Len(b)
      BY <2>3
    <3>2. b[i + 1] \in Writes
      BY <1>2, <3>1
    <3> QED BY <1>4, <2>2, <2>3, <3>1, <3>2 DEF RowsKept
  <2>5. PassOK(Drain(Tail(b)))
    BY <2>3, <2>4, DrainOK
  <2>6. pass' \in [Backends -> PassRecord] /\ BatchesAreQueued'
    BY <2>1, <2>2, <2>5, PassesKept
  <2> QED BY <1>1, <1>3, <2>2, <2>6 DEF QueueKept
<1>7. CASE MarkFailed(p)
  <2>1. row' = [row EXCEPT ![w] = f] /\ pass' = [pass EXCEPT ![p] = NoPass]
    BY <1>7 DEF MarkFailed, Rescheduled
  <2> HIDE DEF w, f
  <2>2. /\ queue' \in Seq(Writes) /\ row' \in [Writes -> RowRecord] /\ RowsAreQueued' /\ RowsKept
    BY <1>1, <1>2, <1>5, <2>1, RowUpdated
  <2>3. pass' \in [Backends -> PassRecord] /\ BatchesAreQueued'
    BY <2>1, <2>2, NoPassOK, PassesKept
  <2> QED BY <1>1, <1>3, <2>2, <2>3 DEF QueueKept
<1> QED
  BY <1>6, <1>7

(* Time, outages and restarts. *)
LEMMA WorldKeepsQueue ==
    ASSUME QueueInv,
           \/ \E p \in Backends : CooldownElapses(p) \/ CacheExpires(p) \/ Restart(p)
           \/ \E w \in Writes : BackoffElapses(w)
           \/ RpcGoesDown \/ RpcComesBack
    PROVE  QueueKept
<1>1. /\ row \in [Writes -> RowRecord] /\ pass \in [Backends -> PassRecord]
      /\ call \in [Writes -> CallRecord]
  BY DEF QueueInv, WritesTyped
<1>2. ASSUME NEW p \in Backends, Restart(p) PROVE QueueKept
  <2>1. /\ UNCHANGED queueVars /\ pass' = [pass EXCEPT ![p] = NoPass]
        /\ call' = [w \in Writes |-> IF call[w].at = p THEN NoCall ELSE call[w]]
    BY <1>2 DEF Restart
  <2>2. /\ queue' \in Seq(Writes) /\ row' \in [Writes -> RowRecord] /\ RowsAreQueued' /\ RowsKept
    BY <2>1, SameRows
  <2>3. pass' \in [Backends -> PassRecord] /\ BatchesAreQueued'
    BY <2>1, <2>2, NoPassOK, PassesKept
  <2>4. NoCall \in CallRecord
    BY DEF NoCall, CallRecord
  <2>5. call' \in [Writes -> CallRecord]
    BY <1>1, <2>1, <2>4
  <2> QED BY <2>2, <2>3, <2>5 DEF QueueKept
<1>3. ASSUME NEW w \in Writes, BackoffElapses(w) PROVE QueueKept
  <2> DEFINE r == [row[w] EXCEPT !.ready = TRUE]
  <2>1. r \in RowRecord /\ r.status = row[w].status
    BY <1>1 DEF RowRecord
  <2>2. /\ row' = [row EXCEPT ![w] = r] /\ queue' = queue /\ pass' = pass /\ call' = call
        /\ row[w].status = "pending"
    BY <1>1, <1>3 DEF BackoffElapses
  <2>3. Queued(w)
    BY <2>2 DEF Queued
  <2> HIDE DEF r
  <2>4. /\ queue' \in Seq(Writes) /\ row' \in [Writes -> RowRecord] /\ RowsAreQueued' /\ RowsKept
    BY <2>1, <2>2, <2>3, RowUpdated
  <2>5. BatchesAreQueued'
    <3>1. ASSUME NEW p \in Backends, NEW i \in 1..Len(pass[p].batch)
          PROVE  row'[pass[p].batch[i]].status # "absent"
      <4>1. pass[p].batch[i] \in Writes
        BY <1>1 DEF PassRecord
      <4>2. Queued(pass[p].batch[i])
        BY DEF QueueInv, BatchesAreQueued
      <4> QED BY <2>4, <4>1, <4>2 DEF RowsKept
    <3>2. \A p \in Backends : HasBatch(pass[p].pc) => pass[p].batch # <<>>
      BY DEF QueueInv, BatchesAreQueued
    <3> QED BY <2>2, <3>1, <3>2 DEF BatchesAreQueued, Queued, HasBatch
  <2> QED BY <1>1, <2>2, <2>4, <2>5 DEF QueueKept
<1>4. CASE (\E p \in Backends : CooldownElapses(p) \/ CacheExpires(p)) \/ RpcGoesDown \/ RpcComesBack
  <2>1. UNCHANGED queueVars /\ pass' = pass /\ call' = call
    BY <1>4 DEF CooldownElapses, CacheExpires, RpcGoesDown, RpcComesBack
  <2> QED BY <1>1, <2>1, OnlyCallsMove
<1> QED
  BY <1>2, <1>3, <1>4

(* Any step. *)
LEMMA NextKeepsQueue ==
    ASSUME QueueInv, Next
    PROVE  QueueKept
BY RequestsKeepQueue, EnqueueKeepsQueue, PassKeepsQueue, ListKeepsQueue, MarksKeepQueue, WorldKeepsQueue
   DEF Next, Replay, Complete

------------------------------------------------------------------------------
(* The theorems.                                                            *)

(* The history counts what a half-open circuit admits: none before its      *)
(* trial is taken, and one since.                                           *)
LEMMA TrialsStayCounted ==
    ASSUME TrialsCounted, Guarded, MCNext
    PROVE  TrialsCounted'
<1> DEFINE t(p) == IF breaker'[p].state # "half-open" THEN 0
                   ELSE (IF breaker[p].state = "half-open" THEN trials[p] ELSE 0)
                        + IF Admits(p) THEN 1 ELSE 0
<1>1. trials' = [p \in Backends |-> t(p)]
  BY DEF MCNext
<1>2. ASSUME NEW p \in Backends
      PROVE  t(p) \in 0..1 /\ (t(p) = 1 => breaker'[p].state = "half-open" /\ breaker'[p].trial)
  <2>1. CASE breaker'[p].state # "half-open"
    BY <2>1
  <2>2. CASE breaker'[p].state = "half-open"
    <3> DEFINE c == IF breaker[p].state = "half-open" THEN trials[p] ELSE 0
    <3>1. c \in 0..1 /\ (c = 1 => breaker[p].state = "half-open" /\ breaker[p].trial)
      BY DEF TrialsCounted
    <3>2. /\ Admits(p) => breaker'[p].trial /\ (breaker[p].state = "half-open" => ~breaker[p].trial)
          /\ breaker[p].state = "half-open" /\ breaker[p].trial => breaker'[p].trial
      BY <2>2 DEF Guarded, Admissible
    <3>3. t(p) = c + IF Admits(p) THEN 1 ELSE 0
      BY <2>2
    <3> HIDE DEF c, t
    <3>4. CASE Admits(p)
      <4>1. c = 0
        BY <3>1, <3>2, <3>4
      <4>2. t(p) = 1
        BY <3>3, <3>4, <4>1
      <4> QED BY <2>2, <3>2, <3>4, <4>2
    <3>5. CASE ~Admits(p)
      <4>1. t(p) = c
        BY <3>1, <3>3, <3>5
      <4> QED BY <2>2, <3>1, <3>2, <4>1
    <3> QED BY <3>4, <3>5
  <2> QED BY <2>1, <2>2
<1> HIDE DEF t
<1> QED
  BY <1>1, <1>2 DEF TrialsCounted

LEMMA WriteInvInit ==
    ASSUME MCInit
    PROVE  WriteInv
<1>1. /\ NewBreaker \in Breaker
  BY ThresholdAssumption DEF NewBreaker, Breaker
<1>2. NoCall \in CallRecord /\ NoRow \in RowRecord /\ NoRow.status = "absent"
  BY DEF NoCall, CallRecord, NoRow, RowRecord
<1>3. NoPass \in PassRecord /\ NoPass.pc = "idle" /\ NoPass.batch = <<>>
  <2>1. <<>> \in Seq(Writes)
    OBVIOUS
  <2> QED BY <2>1 DEF NoPass, PassRecord
<1>4. /\ breaker = [p \in Backends |-> NewBreaker] /\ call = [w \in Writes |-> NoCall]
      /\ queue = <<>> /\ row = [w \in Writes |-> NoRow] /\ pass = [p \in Backends |-> NoPass]
      /\ trials = [p \in Backends |-> 0]
  BY DEF MCInit, Init
<1>5. queue \in Seq(Writes) /\ Len(queue) = 0
  BY <1>4
<1>6. WritesTyped
  BY <1>1, <1>2, <1>3, <1>4, <1>5 DEF WritesTyped
<1>7. RowsAreQueued
  BY <1>2, <1>4, <1>5 DEF RowsAreQueued, Queued
<1>8. BatchesAreQueued
  BY <1>3, <1>4 DEF BatchesAreQueued, HasBatch
<1>9. TrialsCounted
  BY <1>4 DEF TrialsCounted
<1> QED
  BY <1>6, <1>7, <1>8, <1>9 DEF WriteInv, QueueInv

(* The queue, the rows and the passes of every process agree, and a         *)
(* half-open circuit's trial is what it has admitted, in every reachable    *)
(* state.                                                                   *)
THEOREM WriteInvHolds == MCSpec => []WriteInv
<1>1. MCInit => WriteInv
  BY WriteInvInit
<1>2. ASSUME WriteInv, [MCNext]_mvars PROVE WriteInv'
  <2>1. CASE MCNext
    <3>1. QueueInv /\ WritesTyped /\ TrialsCounted /\ Next
      BY <1>2, <2>1 DEF WriteInv, QueueInv, MCNext
    <3>2. Guarded
      BY <3>1, NextGuarded
    <3>3. QueueKept
      BY <3>1, NextKeepsQueue
    <3>4. TrialsCounted'
      BY <2>1, <3>1, <3>2, TrialsStayCounted
    <3>5. WritesTyped'
      BY <3>2, <3>3 DEF Guarded, QueueKept, WritesTyped
    <3> QED BY <3>3, <3>4, <3>5 DEF WriteInv, QueueInv, QueueKept
  <2>2. CASE UNCHANGED mvars
    <3>1. /\ breaker' = breaker /\ call' = call /\ queue' = queue /\ row' = row /\ pass' = pass
          /\ trials' = trials
      BY <2>2 DEF mvars, vars, queueVars
    <3> QED BY <1>2, <3>1 DEF WriteInv, QueueInv, WritesTyped, RowsAreQueued, BatchesAreQueued,
                              Queued, TrialsCounted
  <2> QED BY <1>2, <2>1, <2>2
<1> QED
  BY <1>1, <1>2, PTL DEF MCSpec

(* A transaction is in soroban_write_queue at most once and for good,       *)
(* whatever clients, processes, replays and restarts do.                    *)
THEOREM WritesAlwaysQueuedOnce == MCSpec => []QueuedOnce
<1>1. WriteInv => QueuedOnce
  <2> SUFFICES ASSUME WriteInv, NEW w \in Writes
               PROVE  Cardinality({i \in 1..Len(queue) : queue[i] = w})
                        = IF row[w].status = "absent" THEN 0 ELSE 1
    BY DEF QueuedOnce
  <2> DEFINE places == {i \in 1..Len(queue) : queue[i] = w}
  <2>1. RowsAreQueued
    BY DEF WriteInv, QueueInv
  <2>2. CASE Queued(w)
    <3>1. PICK i \in 1..Len(queue) : queue[i] = w
      BY <2>1, <2>2 DEF RowsAreQueued
    <3>2. places = {i}
      BY <2>1, <3>1 DEF RowsAreQueued
    <3> HIDE DEF places
    <3>3. Cardinality(places) = 1
      BY <3>2, FS_Singleton
    <3> QED BY <2>2, <3>3 DEF places, Queued
  <2>3. CASE ~Queued(w)
    <3>1. places = {}
      BY <2>1, <2>3 DEF RowsAreQueued
    <3> HIDE DEF places
    <3>2. Cardinality(places) = 0
      BY <3>1, FS_EmptySet
    <3> QED BY <2>3, <3>2 DEF places, Queued
  <2> QED BY <2>2, <2>3
<1> QED
  BY <1>1, WriteInvHolds, PTL

(* "one trial call is allowed": a half-open circuit lets one read, write or *)
(* probe through.                                                           *)
THEOREM TrialIsAlwaysOne == MCSpec => []OneTrial
<1>1. WriteInv => OneTrial
  BY DEF WriteInv, TrialsCounted, OneTrial
<1> QED
  BY <1>1, WriteInvHolds, PTL
==============================================================================

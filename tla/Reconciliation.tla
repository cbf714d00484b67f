---------------------------- MODULE Reconciliation ----------------------------
(***************************************************************************)
(* The two jobs that compare the database with the contracts.  The sweep   *)
(* of crossContractReconciler.ts keeps one row per custody event (loan     *)
(* approved, repaid, defaulted) and settles it once a score event of the   *)
(* borrower, no older than the custody event, has been indexed; rows that  *)
(* wait too long are half applied and have the score corrected.  The run   *)
(* of scoreReconciliationService.ts compares the scores of borrowers with  *)
(* an active loan.  Every process has both timers; a run of one never      *)
(* overlaps itself within its process, runs of different processes may.    *)
(* Both read the score on chain, and write it later, in one query, with    *)
(* everything else they found.                                             *)
(*                                                                         *)
(* Custody lists the custody events, one per ledger, in that order; the    *)
(* score event one gives rise to has its ledger and borrower.  Its type is *)
(* that of the row the indexer stores: ScoreUpdated where the NFT raised   *)
(* the score, ScoreDecr where it lowered it, for a default or a repayment  *)
(* that is late.  Both may be indexed at any time, the latter perhaps      *)
(* never.                                                                  *)
(***************************************************************************)
EXTENDS Integers, Sequences, FiniteSets, Selection

CONSTANTS
    NBorrowers,          \* borrowers, numbered in the order of their addresses
    Custody,             \* sequence of [kind, borrower, loan, delta, score]
    Scores,              \* values of a credit score
    DefaultScore,        \* DEFAULT_CREDIT_SCORE
    SweepProcesses, ScoreProcesses,
    MaxRowsPerRun,       \* CROSS_RECONCILE_MAX_ROWS_PER_RUN
    StaleAttempts,       \* CROSS_RECONCILE_STALE_ATTEMPTS
    MaxBorrowersPerRun,  \* SCORE_RECONCILIATION_MAX_BORROWERS_PER_RUN
    ScoreBatchSize,      \* SCORE_RECONCILIATION_BATCH_SIZE
    CorrectThreshold,    \* SCORE_RECONCILIATION_AUTOCORRECT_THRESHOLD
    AutoCorrect,         \* the ..._AUTOCORRECT_ENABLED of both jobs
    MaxScoreMoves,       \* bound on score changes on chain and by the indexer
    MaxReconcileFaults   \* bound on failing calls and lost processes

BorrowerIds == 1..NBorrowers
CustodyEvents == DOMAIN Custody

ASSUME ReconciliationAssumption ==
    /\ Custody \in Seq([kind : {"approve", "repay", "default"}, borrower : BorrowerIds,
                        loan : Nat, delta : Nat, score : {"ScoreUpdated", "ScoreDecr"}])
    /\ Scores \subseteq Nat /\ DefaultScore \in Scores
    /\ {MaxRowsPerRun, StaleAttempts, MaxBorrowersPerRun, ScoreBatchSize} \subseteq Nat \ {0}
    /\ {CorrectThreshold, MaxScoreMoves, MaxReconcileFaults} \subseteq Nat
    /\ AutoCorrect \in BOOLEAN /\ SweepProcesses # {}

VARIABLES
    custodyIndexed,  \* custody events with a row in contract_events
    scoreIndexed,    \* custody events whose score event has one
    reconRows,       \* cross_contract_reconciliation, in the order of its ids
    nftScore,        \* borrower -> score on chain
    dbScore,         \* borrower -> scores.current_score
    sweep,           \* process -> its run of crossContractReconciler
    scoreRun,        \* process -> its run of scoreReconciliationService
    scoreMoves, reconcileFaults

reconVars == <<custodyIndexed, scoreIndexed, reconRows, nftScore, dbScore, sweep, scoreRun,
               scoreMoves, reconcileFaults>>
indexVars == <<custodyIndexed, scoreIndexed>>

-------------------------------------------------------------------------------
NoValue == -1    \* no row in scores, no correction
NoCorrections == [b \in BorrowerIds |-> NoValue]
NoSweep == [pc |-> "idle", todo |-> <<>>, corrections |-> NoCorrections]
NoScoreRun == [pc |-> "idle", batches |-> <<>>, corrections |-> NoCorrections]

ReconInit ==
    /\ custodyIndexed = {} /\ scoreIndexed = {}
    /\ reconRows = <<>>
    /\ nftScore \in [BorrowerIds -> Scores]
    /\ dbScore = [b \in BorrowerIds |-> NoValue]
    /\ sweep = [p \in SweepProcesses |-> NoSweep]
    /\ scoreRun = [p \in ScoreProcesses |-> NoScoreRun]
    /\ scoreMoves = 0 /\ reconcileFaults = 0

ReconcileFault ==
    reconcileFaults < MaxReconcileFaults /\ reconcileFaults' = reconcileFaults + 1

(* getOnChainCreditScore: the score (the default for a borrower without an  *)
(* NFT), the default also for an RPC that keeps failing in a transient way; *)
(* any other failure is thrown.                                             *)
ReadsScore(b, v) == v = nftScore[b] /\ UNCHANGED reconcileFaults
ReadsDefault(v) == v = DefaultScore /\ ReconcileFault
ReadThrows(v) == v = NoValue /\ ReconcileFault

GetOnChainCreditScore(b, v) == ReadsScore(b, v) \/ ReadsDefault(v) \/ ReadThrows(v)

(* setAbsoluteUserScoresBulk: one query for all corrections, none if there  *)
(* are none.                                                                *)
SetAbsoluteUserScores(corrections) ==
    dbScore' = [b \in BorrowerIds |->
                  IF corrections[b] = NoValue THEN dbScore[b] ELSE corrections[b]]

-------------------------------------------------------------------------------
(* The sweep.  The timer ticks and missing rows are inserted, in no         *)
(* particular order.                                                        *)
BackfillPendingRows(p) ==
    LET missing == custodyIndexed \ {reconRows[i].event : i \in DOMAIN reconRows}
        n == Cardinality(missing)
    IN  /\ sweep[p].pc = "idle"
        /\ \E order \in [1..n -> missing] :
              /\ \A e \in missing : \E i \in 1..n : order[i] = e
              /\ reconRows' = reconRows \o
                    [i \in 1..n |-> [event |-> order[i], state |-> "pending", attempts |-> 0]]
        /\ sweep' = [sweep EXCEPT ![p].pc = "fetch"]
        /\ UNCHANGED <<indexVars, nftScore, dbScore, scoreRun, scoreMoves, reconcileFaults>>

\* Mutant: rows found half applied are not looked at again.
OnlyPending == {"pending"}

Unresolved == {"pending", "half_applied"}

(* The oldest unresolved rows, with their attempts as of now.               *)
FetchUnresolvedRows(p) ==
    LET rows == OrderByLimit({i \in DOMAIN reconRows : reconRows[i].state \in Unresolved},
                             Len(reconRows), MaxRowsPerRun)
    IN  /\ sweep[p].pc = "fetch"
        /\ sweep' = [sweep EXCEPT ![p].pc = "row",
                        ![p].todo = [i \in DOMAIN rows |->
                                       [id |-> rows[i], attempts |-> reconRows[rows[i]].attempts]]]
        /\ UNCHANGED <<indexVars, reconRows, nftScore, dbScore, scoreRun, scoreMoves,
                       reconcileFaults>>

(* UPDATE ... WHERE id, whatever another process has made of the row.       *)
(* Attempts beyond StaleAttempts make no difference and are not counted.    *)
UpdateRow(id, state) ==
    reconRows' = [reconRows EXCEPT ![id].state = state,
                                   ![id].attempts = IF @ < StaleAttempts THEN @ + 1 ELSE @]

NextRow(p) == sweep' = [sweep EXCEPT ![p].pc = "row", ![p].todo = Tail(@)]

RowEvent(p) == Custody[reconRows[Head(sweep[p].todo).id].event]

SCORE_EVENT_TYPES == {"ScoreUpdated", "ScoreDecreased"}

(* A score event of the borrower, at the ledger of the custody event or     *)
(* later: perhaps that of another of its loans.  Only of these types: one   *)
(* stored as ScoreDecr is never found.                                      *)
Matched(e) ==
    \E f \in scoreIndexed :
        /\ Custody[f].borrower = Custody[e].borrower /\ f >= e
        /\ Custody[f].score \in SCORE_EVENT_TYPES

FindMatchingScoreLedger(p) ==
    /\ sweep[p].pc = "row" /\ sweep[p].todo # <<>> /\ RowEvent(p).delta # 0
    /\ sweep' = [sweep EXCEPT ![p].pc =
                    IF Matched(reconRows[Head(sweep[p].todo).id].event) THEN "found" ELSE "missing"]
    /\ UNCHANGED <<indexVars, reconRows, nftScore, dbScore, scoreRun, scoreMoves, reconcileFaults>>

MarkReconciled(p) ==
    /\ \/ sweep[p].pc = "row" /\ sweep[p].todo # <<>> /\ RowEvent(p).delta = 0
       \/ sweep[p].pc = "found"
    /\ UpdateRow(Head(sweep[p].todo).id, "reconciled")
    /\ NextRow(p)
    /\ UNCHANGED <<indexVars, nftScore, dbScore, scoreRun, scoreMoves, reconcileFaults>>

MarkState(p) ==
    LET row == Head(sweep[p].todo)
        stale == row.attempts + 1 >= StaleAttempts
    IN  /\ sweep[p].pc = "missing"
        /\ UpdateRow(row.id, IF stale THEN "half_applied" ELSE "pending")
        /\ IF stale /\ AutoCorrect THEN sweep' = [sweep EXCEPT ![p].pc = "lookup"] ELSE NextRow(p)
        /\ UNCHANGED <<indexVars, nftScore, dbScore, scoreRun, scoreMoves, reconcileFaults>>

(* A failing look-up is logged. *)
LookUpScore(p) ==
    LET b == RowEvent(p).borrower
    IN  /\ sweep[p].pc = "lookup"
        /\ \E v \in Scores \cup {NoValue} :
              /\ GetOnChainCreditScore(b, v)
              /\ sweep' = [sweep EXCEPT ![p].pc = "row", ![p].todo = Tail(@),
                                        ![p].corrections[b] = IF v = NoValue THEN @ ELSE v]
        /\ UNCHANGED <<indexVars, reconRows, nftScore, dbScore, scoreRun, scoreMoves>>

FinishSweep(p) ==
    /\ sweep[p].pc = "row" /\ sweep[p].todo = <<>>
    /\ SetAbsoluteUserScores(sweep[p].corrections)
    /\ sweep' = [sweep EXCEPT ![p] = NoSweep]
    /\ UNCHANGED <<indexVars, reconRows, nftScore, scoreRun, scoreMoves, reconcileFaults>>

(* A query fails, or the process stops and starts again.                    *)
SweepFails(p) ==
    /\ sweep[p].pc # "idle" /\ ReconcileFault
    /\ sweep' = [sweep EXCEPT ![p] = NoSweep]
    /\ UNCHANGED <<indexVars, reconRows, nftScore, dbScore, scoreRun, scoreMoves>>

SweepStep(p) ==
    \/ BackfillPendingRows(p) \/ FetchUnresolvedRows(p) \/ FindMatchingScoreLedger(p)
    \/ MarkReconciled(p) \/ MarkState(p) \/ LookUpScore(p) \/ FinishSweep(p)

-------------------------------------------------------------------------------
(* A borrower with a loan that is approved and has neither a LoanRepaid row *)
(* - one for a repayment in part will do - nor a LoanDefaulted row.         *)
Active(b) ==
    \E e \in custodyIndexed :
        /\ Custody[e].kind = "approve" /\ Custody[e].borrower = b
        /\ \A f \in custodyIndexed :
              Custody[f].loan = Custody[e].loan => Custody[f].kind = "approve"

ActiveBorrowers ==
    OrderByLimit({b \in BorrowerIds : Active(b)}, NBorrowers, MaxBorrowersPerRun)

(* The timer ticks: the active borrowers and their scores in the database,  *)
(* cut into batches.                                                        *)
FetchActiveBorrowerScores(p) ==
    LET found == ActiveBorrowers
        rows(k) == {[borrower |-> found[i], db |-> dbScore[found[i]]] :
                       i \in {j \in DOMAIN found : (j - 1) \div ScoreBatchSize = k - 1}}
        n == (Len(found) + ScoreBatchSize - 1) \div ScoreBatchSize
    IN  /\ scoreRun[p].pc = "idle"
        /\ scoreRun' = [scoreRun EXCEPT ![p].pc = "read", ![p].batches = [k \in 1..n |-> rows(k)]]
        /\ UNCHANGED <<indexVars, reconRows, nftScore, dbScore, sweep, scoreMoves, reconcileFaults>>

\* Mutant: a difference of exactly the threshold is left alone.
DivergesBeyond(db, v) ==
    db = NoValue \/ v - db > CorrectThreshold \/ db - v > CorrectThreshold

(* A missing score, or one too far from the score read.                     *)
Diverges(db, v) ==
    \/ db = NoValue
    \/ db # v /\ (v - db >= CorrectThreshold \/ db - v >= CorrectThreshold)

(* The scores of a batch are read side by side, batch after batch; a        *)
(* borrower whose score cannot be read is passed over.                      *)
ReadScore(p) ==
    LET batch == Head(scoreRun[p].batches)
    IN  /\ scoreRun[p].pc = "read" /\ scoreRun[p].batches # <<>>
        /\ \E r \in batch, v \in Scores \cup {NoValue} :
              /\ GetOnChainCreditScore(r.borrower, v)
              /\ scoreRun' = [scoreRun EXCEPT
                    ![p].batches = IF batch = {r} THEN Tail(@) ELSE [@ EXCEPT ![1] = batch \ {r}],
                    ![p].corrections[r.borrower] =
                       IF AutoCorrect /\ v # NoValue /\ Diverges(r.db, v) THEN v ELSE @]
        /\ UNCHANGED <<indexVars, reconRows, nftScore, dbScore, sweep, scoreMoves>>

FinishScoreRun(p) ==
    /\ scoreRun[p].pc = "read" /\ scoreRun[p].batches = <<>>
    /\ SetAbsoluteUserScores(scoreRun[p].corrections)
    /\ scoreRun' = [scoreRun EXCEPT ![p] = NoScoreRun]
    /\ UNCHANGED <<indexVars, reconRows, nftScore, sweep, scoreMoves, reconcileFaults>>

ScoreRunFails(p) ==
    /\ scoreRun[p].pc # "idle" /\ ReconcileFault
    /\ scoreRun' = [scoreRun EXCEPT ![p] = NoScoreRun]
    /\ UNCHANGED <<indexVars, reconRows, nftScore, dbScore, sweep, scoreMoves>>

ScoreRunStep(p) == FetchActiveBorrowerScores(p) \/ ReadScore(p) \/ FinishScoreRun(p)

-------------------------------------------------------------------------------
(* The indexer stores a custody event or a score event. *)
IndexCustodyEvent(e) ==
    /\ e \notin custodyIndexed
    /\ custodyIndexed' = custodyIndexed \cup {e}
    /\ UNCHANGED <<scoreIndexed, reconRows, nftScore, dbScore, sweep, scoreRun, scoreMoves,
                   reconcileFaults>>

IndexScoreEvent(e) ==
    /\ e \notin scoreIndexed /\ Custody[e].delta # 0
    /\ scoreIndexed' = scoreIndexed \cup {e}
    /\ UNCHANGED <<custodyIndexed, reconRows, nftScore, dbScore, sweep, scoreRun, scoreMoves,
                   reconcileFaults>>

(* A score changes on chain, or the indexer applies a change to a row.      *)
ScoreMoves(b) ==
    /\ scoreMoves < MaxScoreMoves /\ scoreMoves' = scoreMoves + 1
    /\ \E v \in Scores :
          \/ nftScore' = [nftScore EXCEPT ![b] = v] /\ UNCHANGED dbScore
          \/ dbScore' = [dbScore EXCEPT ![b] = v] /\ UNCHANGED nftScore
    /\ UNCHANGED <<indexVars, reconRows, sweep, scoreRun, reconcileFaults>>

ReconNext ==
    \/ \E p \in SweepProcesses : SweepStep(p) \/ SweepFails(p)
    \/ \E p \in ScoreProcesses : ScoreRunStep(p) \/ ScoreRunFails(p)
    \/ \E e \in CustodyEvents : IndexCustodyEvent(e) \/ IndexScoreEvent(e)
    \/ \E b \in BorrowerIds : ScoreMoves(b)

(* Timers keep ticking, and a run, whose requests time out, goes on. *)
ReconProgress ==
    /\ \A p \in SweepProcesses : WF_reconVars(SweepStep(p))
    /\ \A p \in ScoreProcesses : WF_reconVars(ScoreRunStep(p))

ReconSpec == ReconInit /\ [][ReconNext]_reconVars /\ ReconProgress

-------------------------------------------------------------------------------
(* Every variable has its type. *)
ReconTypeOK ==
    /\ custodyIndexed \subseteq CustodyEvents /\ scoreIndexed \subseteq CustodyEvents
    /\ \A i \in DOMAIN reconRows :
          /\ reconRows[i] \in [event : custodyIndexed, attempts : 0..StaleAttempts,
                               state : {"pending", "half_applied", "reconciled"}]
          /\ \A j \in DOMAIN reconRows : reconRows[i].event = reconRows[j].event => i = j
    /\ nftScore \in [BorrowerIds -> Scores] /\ dbScore \in [BorrowerIds -> Scores \cup {NoValue}]
    /\ \A p \in SweepProcesses :
          /\ sweep[p].pc \in {"idle", "fetch", "row", "found", "missing", "lookup"}
          /\ sweep[p].todo \in Seq([id : DOMAIN reconRows, attempts : 0..StaleAttempts])
          /\ sweep[p].corrections \in [BorrowerIds -> Scores \cup {NoValue}]
    /\ \A p \in ScoreProcesses :
          /\ scoreRun[p].pc \in {"idle", "read"}
          /\ scoreRun[p].corrections \in [BorrowerIds -> Scores \cup {NoValue}]
    /\ scoreMoves \in 0..MaxScoreMoves /\ reconcileFaults \in 0..MaxReconcileFaults

(* A row for which there is a score event that matches, or that expects     *)
(* none, and that is not kept out of the query by older rows without one.   *)
Settleable(e) ==
    \E i \in DOMAIN reconRows :
        /\ reconRows[i].event = e
        /\ Custody[e].delta = 0 \/ Matched(e)
        /\ Cardinality({j \in 1..(i - 1) : /\ Custody[reconRows[j].event].delta # 0
                                           /\ ~Matched(reconRows[j].event)}) < MaxRowsPerRun

Reconciled(e) ==
    \E i \in DOMAIN reconRows : reconRows[i].event = e /\ reconRows[i].state = "reconciled"

(* A custody row that can be settled is in the end reconciled for good,     *)
(* also when its score event is indexed only after the row was found half   *)
(* applied, and although a sweep of another process that missed the event   *)
(* may set a reconciled row back.                                           *)
RowsReconcile ==
    \A e \in CustodyEvents : <>Settleable(e) => <>[]Reconciled(e)

Agrees(b) ==
    /\ dbScore[b] # NoValue
    /\ \/ dbScore[b] = nftScore[b]
       \/ (dbScore[b] - nftScore[b]) \in (1 - CorrectThreshold)..(CorrectThreshold - 1)

(* The score of a borrower the run keeps finding active ends up within the  *)
(* threshold of the score on chain, whatever stale or defaulted readings    *)
(* overlapping runs of the two jobs write in between, if corrections are on.*)
ScoresConverge ==
    AutoCorrect => \A b \in BorrowerIds :
        <>[](\E i \in DOMAIN ActiveBorrowers : ActiveBorrowers[i] = b) => <>[]Agrees(b)

(* As long as no score moves, what a reconciliation writes is the score on  *)
(* chain: the comments of the code call it the authoritative value.         *)
CorrectionsAreOnChain ==
    [][\A b \in BorrowerIds :
          scoreMoves' = 0 /\ dbScore'[b] # dbScore[b] => dbScore'[b] = nftScore[b]]_reconVars
===============================================================================

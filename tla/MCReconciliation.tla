--------------------------- MODULE MCReconciliation ---------------------------
(***************************************************************************)
(* A small instance of Reconciliation, and two parts of its behaviour that *)
(* are explored on their own: what happens to the rows does not depend on  *)
(* the scores, and to the score of a borrower a sweep that finds a score   *)
(* event does nothing.                                                     *)
(***************************************************************************)
EXTENDS Reconciliation

(* A borrower has a loan approved, another defaulted and repays a third.    *)
MCCustody ==
    << [kind |-> "approve", borrower |-> 1, loan |-> 1, delta |-> 0, score |-> "ScoreUpdated"],
       [kind |-> "default", borrower |-> 1, loan |-> 2, delta |-> 1, score |-> "ScoreDecr"],
       [kind |-> "repay",   borrower |-> 1, loan |-> 3, delta |-> 1, score |-> "ScoreUpdated"] >>

(* Sweeps of every process over the rows that expect a score event, and no  *)
(* run over the scores.                                                     *)
RowsNext ==
    \/ \E p \in SweepProcesses : SweepStep(p) \/ SweepFails(p)
    \/ \E e \in CustodyEvents :
          Custody[e].delta # 0 /\ (IndexCustodyEvent(e) \/ IndexScoreEvent(e))

(* One process sweeps and runs over the scores; an approval and a default   *)
(* are indexed, score events are not.                                       *)
Sweeper == CHOOSE p \in SweepProcesses : TRUE

ScoresNext ==
    \/ SweepStep(Sweeper) \/ SweepFails(Sweeper)
    \/ \E p \in ScoreProcesses : ScoreRunStep(p) \/ ScoreRunFails(p)
    \/ \E e \in CustodyEvents : Custody[e].kind # "repay" /\ IndexCustodyEvent(e)
    \/ \E b \in BorrowerIds : ScoreMoves(b)
===============================================================================

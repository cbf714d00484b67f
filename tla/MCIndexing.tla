------------------------------ MODULE MCIndexing ------------------------------
(***************************************************************************)
(* The indexer, and the two reconciliations that read the tables it        *)
(* writes, on small instances.  Reconciliation has what it reads change at *)
(* any time, so its behaviours do not depend on the indexer's and one part *)
(* at a time is let run: "part" chooses the indexer, the sweeps over the   *)
(* custody rows, or the corrections of scores.                             *)
(***************************************************************************)
EXTENDS MCEventIndexer, MCReconciliation

VARIABLE part

(* The requests of the operator reach one process, and reindex every ledger *)
(* once all are closed.                                                     *)
Operated == CHOOSE w \in Workers : TRUE

Requests ==
    \A w \in Workers :
        /\ worker'[w].job \in {"reindex", "reprocess"} => w = Operated
        /\ worker'[w].job = "reindex" => tip = MaxTip /\ worker'[w].from = 1 /\ worker'[w].to = MaxTip

Init ==
    /\ part \in {"indexer", "rows", "scores"}
    /\ IndexerInit /\ ReconInit
    /\ part # "scores" => nftScore = [b \in BorrowerIds |-> DefaultScore]

Next ==
    /\ UNCHANGED part
    /\ \/ part = "indexer" /\ IndexerNext /\ Requests /\ UNCHANGED reconVars
       \/ part = "rows" /\ RowsNext /\ UNCHANGED indexerVars
       \/ part = "scores" /\ ScoresNext /\ UNCHANGED indexerVars

(* Each part's own fairness.  The indexer has nothing to do while no ledger *)
(* closes, so its fairness asks for nothing in the other parts.             *)
Spec ==
    /\ Init /\ [][Next]_<<part, indexerVars, reconVars>>
    /\ IndexerFairness
    /\ \A p \in SweepProcesses :
          WF_reconVars((part = "rows" \/ (part = "scores" /\ p = Sweeper)) /\ SweepStep(p))
    /\ \A p \in ScoreProcesses : WF_reconVars(part = "scores" /\ ScoreRunStep(p))

(* Every variable has its type, and a custody event has at most one row. *)
IndexingTypeOK == IndexerTypeOK /\ ReconTypeOK

(* The score of a borrower the run keeps finding active ends up within the  *)
(* threshold of the score on chain, whatever stale or defaulted readings    *)
(* overlapping runs of the two jobs write in between.                       *)
ActiveScoresConverge == part = "scores" => ScoresConverge
===============================================================================

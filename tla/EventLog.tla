------------------------------- MODULE EventLog -------------------------------
(***************************************************************************)
(* What the event indexer promises to everything that reads its tables: a  *)
(* log of the chain's events that only grows, never runs ahead of the      *)
(* chain, and a mark below which no event is missing from it.              *)
(***************************************************************************)
EXTENDS Naturals

CONSTANTS Events, LedgerOf, MaxTip

VARIABLES tip, mark, log

vars == <<tip, mark, log>>

Emitted(l) == {e \in Events : LedgerOf[e] <= l}

Init == tip = 0 /\ mark = 0 /\ log = {}

(* The network closes a ledger. *)
Close == tip < MaxTip /\ tip' = tip + 1 /\ UNCHANGED <<mark, log>>

(* Emitted events are entered, in any number and any order. *)
Enter ==
    /\ log \subseteq log' /\ log' \subseteq log \cup Emitted(tip)
    /\ UNCHANGED <<tip, mark>>

(* The mark moves up to a ledger below which the log is complete. *)
Advance ==
    /\ mark' \in mark..tip
    /\ Emitted(mark') \subseteq log
    /\ UNCHANGED <<tip, log>>

Next == Close \/ Enter \/ Advance

Spec == Init /\ [][Next]_vars
===============================================================================

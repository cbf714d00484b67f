--------------------------- MODULE MCSorobanWrites ---------------------------
(***************************************************************************)
(* SorobanWrites on small instances, with a history variable: how many     *)
(* calls each half-open circuit has admitted since it half-opened.         *)
(***************************************************************************)
EXTENDS SorobanWrites, TLC

VARIABLE trials

mvars == <<vars, trials>>

MCInit == Init /\ trials = [p \in Backends |-> 0]

(* A call went past the breaker of p in this step. *)
Admits(p) ==
    \/ p \notin reading /\ p \in reading'
    \/ pass[p].pc = "idle" /\ pass'[p].pc = "probing"
    \/ \E w \in Writes : call[w].pc = "idle" /\ call'[w] = [at |-> p, pc |-> "sending"]

MCNext ==
    /\ Next
    /\ trials' = [p \in Backends |->
                    IF breaker'[p].state # "half-open" THEN 0
                    ELSE (IF breaker[p].state = "half-open" THEN trials[p] ELSE 0)
                         + IF Admits(p) THEN 1 ELSE 0]

MCSpec == MCInit /\ [][MCNext]_mvars /\ Fairness

(* "one trial call is allowed": a half-open circuit lets one read, write or *)
(* probe through, however many arrive.                                      *)
OneTrial == \A p \in Backends : trials[p] <= 1
==============================================================================

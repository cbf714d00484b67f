-------------------------------- MODULE MCJobs --------------------------------
(***************************************************************************)
(* Two background jobs on small instances: the default checker and         *)
(* notifications.  They share no variable - where one reads what another   *)
(* part writes, its module has that input change at any time - so a        *)
(* behaviour of both satisfies a property of one exactly if that one's     *)
(* behaviour does, and one job at a time is let run: "job" chooses it.     *)
(***************************************************************************)
EXTENDS DefaultChecker, Notifications

VARIABLE job

vars == <<job, checkerVars, noteVars>>

Init ==
    /\ job \in {"defaults", "notifications"}
    /\ CheckerInit /\ NoteInit

Next ==
    /\ UNCHANGED job
    /\ \/ job = "defaults" /\ CheckerNext /\ UNCHANGED noteVars
       \/ job = "notifications" /\ NoteNext /\ UNCHANGED checkerVars

(* The jobs' fairness: of a job that is not let run, only the timers and    *)
(* the poll are enabled to begin with.                                      *)
Spec ==
    /\ Init /\ [][Next]_vars
    /\ CheckerProgress /\ NoteProgress
    /\ WF_checkerVars(job = "defaults" /\ TimerTicks)
    /\ WF_noteVars(job = "notifications" /\ PollList)

(* Every variable of both jobs has its type, and only a loan that was       *)
(* repaid or defaulted is hidden from the default checker.                  *)
JobsTypeOK == CheckerTypeOK /\ NoteTypeOK
===============================================================================

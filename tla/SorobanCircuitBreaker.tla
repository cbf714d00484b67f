------------------------ MODULE SorobanCircuitBreaker ------------------------
(***************************************************************************)
(* backend/src/services/sorobanCircuitBreaker.ts: the circuit breaker and  *)
(* cached health probe in front of the Soroban RPC, as functions of the    *)
(* breaker's fields.  The methods do not await, so each is one step of the *)
(* process that calls it (SorobanWrites).                                  *)
(*                                                                         *)
(* Time is abstracted to what the code compares: whether the cooldown of   *)
(* an open circuit has passed (cooled) and whether the cached availability *)
(* is recent (fresh).  consecutiveFailures is only compared with the       *)
(* threshold and counted up to it.  The stale-read snapshots and the       *)
(* fields that only getStatus reports are left out.                        *)
(***************************************************************************)
EXTENDS Naturals

CONSTANT FailureThreshold   \* SOROBAN_CIRCUIT_FAILURE_THRESHOLD

ASSUME ThresholdAssumption == FailureThreshold \in Nat \ {0}

Breaker ==
    [state    : {"closed", "open", "half-open"},
     failures : 0..FailureThreshold,  \* consecutiveFailures
     cooled   : BOOLEAN,              \* cooldownMs have passed since openedAt
     trial    : BOOLEAN,              \* halfOpenInFlight
     cached   : {"none", "up", "down"}, \* cachedAvailability
     fresh    : BOOLEAN]              \* checkedAt is within healthCacheMs

NewBreaker ==
    [state |-> "closed", failures |-> 0, cooled |-> FALSE, trial |-> FALSE,
     cached |-> "none", fresh |-> FALSE]

(* Mutated form: an open circuit stays open. *)
NeverHalfOpens(b) == b

(* The change of state shouldShortCircuit makes before it decides. *)
HalfOpened(b) ==
    IF b.state = "open" /\ b.cooled
    THEN [b EXCEPT !.state = "half-open", !.trial = FALSE]
    ELSE b

ShouldShortCircuit(b) ==
    \/ HalfOpened(b).state = "open"
    \/ HalfOpened(b).state = "half-open" /\ HalfOpened(b).trial

(* Mutated form: the trial call is not recorded. *)
AdmittedUnrecorded(b) == HalfOpened(b)

(* What shouldShortCircuit leaves behind; a half-open circuit admits one    *)
(* trial call.                                                              *)
AfterShortCircuit(b) ==
    IF HalfOpened(b).state = "half-open"
    THEN [HalfOpened(b) EXCEPT !.trial = TRUE]
    ELSE HalfOpened(b)

RecordSuccess(b) == [b EXCEPT !.state = "closed", !.failures = 0, !.trial = FALSE]

Counted(n) == IF n < FailureThreshold THEN n + 1 ELSE n

RecordFailure(b) ==
    LET n     == Counted(b.failures)
        opens == b.state # "open" /\ (b.state = "half-open" \/ n >= FailureThreshold)
    IN  [b EXCEPT !.failures = n, !.trial = FALSE,
                  !.state  = IF opens THEN "open" ELSE @,
                  !.cooled = IF opens THEN FALSE ELSE @]

(* runProbe with the health check's result. *)
Probed(b, up) ==
    IF up THEN [RecordSuccess(b) EXCEPT !.cached = "up", !.fresh = TRUE]
          ELSE [RecordFailure(b) EXCEPT !.cached = "down", !.fresh = TRUE]
==============================================================================

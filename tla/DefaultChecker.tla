---------------------------- MODULE DefaultChecker ----------------------------
(***************************************************************************)
(* The job that has overdue loans marked as defaulted.  Every process runs *)
(* it from its own timer, an operator may run it too, and a Redis lock     *)
(* with a time to live keeps runs apart - unless a run outlives the lock.  *)
(* A run reads the loans it believes to be overdue from the indexed events *)
(* and submits check_defaults in batches, several at a time, all from the  *)
(* same account: a transaction built on an account sequence that has       *)
(* since moved is refused.                                                 *)
(*                                                                         *)
(* Loans are numbered in the order of the due ledger the query computes,   *)
(* the ledger of LoanApproved plus the term; "window" stands for a loan    *)
(* past it that the contract does not yet let default, in its grace and    *)
(* default window or extended or refinanced.  A lock value is abstracted   *)
(* to the run that took the lock.                                          *)
(***************************************************************************)
EXTENDS Naturals, Sequences, FiniteSets, Selection

CONSTANTS
    NLoans,
    CheckerProcesses,
    NoHolder,
    CheckBatchSize,     \* DEFAULT_CHECK_BATCH_SIZE
    MaxLoansPerRun,     \* DEFAULT_CHECK_MAX_LOANS_PER_RUN
    CheckConcurrency,   \* DEFAULT_CHECK_CONCURRENCY
    MaxOperatorRuns,    \* bound on runs asked for by an operator
    MaxCheckerFaults    \* bound on failures, lost processes and ledger gaps

ASSUME CheckerAssumption ==
    /\ {NLoans, MaxOperatorRuns, MaxCheckerFaults} \subseteq Nat
    /\ {CheckBatchSize, MaxLoansPerRun, CheckConcurrency} \subseteq Nat \ {0}

VARIABLES
    checkerLock,     \* default_checker:running
    lockValue,       \* process -> currentLockValue
    checkRun,        \* the calls of checkOverdueLoans under way
    dueLoan,         \* loan -> its state on chain
    closingIndexed,  \* loans with a LoanRepaid or LoanDefaulted row in contract_events
    checkSubmitted,  \* loans named by the transaction the network has accepted
    suspectRange,    \* an unresolved ledger gap is recorded
    checkerFaults, operatorRuns

checkerVars == <<checkerLock, lockValue, checkRun, dueLoan, closingIndexed, checkSubmitted,
                 suspectRange, checkerFaults, operatorRuns>>

-------------------------------------------------------------------------------
DueLoans == 1..NLoans
CheckRuns == CheckerProcesses \X {"timer", "operator"}
ProcessOf(x) == x[1]

NoCheck == [pc |-> "idle", todo |-> <<>>, ready |-> {}]

CheckerInit ==
    /\ checkerLock = NoHolder
    /\ lockValue = [p \in CheckerProcesses |-> NoHolder]
    /\ checkRun = [x \in CheckRuns |-> NoCheck]
    /\ dueLoan = [l \in DueLoans |-> "current"]
    /\ closingIndexed = {}
    /\ checkSubmitted = {}
    /\ suspectRange = FALSE
    /\ checkerFaults = 0 /\ operatorRuns = 0

loanVars == <<dueLoan, closingIndexed>>

(* Loans for which the contract has emitted LoanRepaid, as it does for a    *)
(* repayment in part too, or LoanDefaulted; a liquidation emits neither.    *)
ClosingEvents == {l \in DueLoans : dueLoan[l] \in {"partly", "repaid", "defaulted"}}

Fault == checkerFaults < MaxCheckerFaults /\ checkerFaults' = checkerFaults + 1

AtCheck(x, pc) == checkRun' = [checkRun EXCEPT ![x].pc = pc]

(* SET NX EX.  A run that does not get the lock, or cannot reach Redis,     *)
(* does nothing.                                                            *)
AcquireLock(x) ==
    /\ checkRun[x].pc = "idle" /\ checkerLock = NoHolder
    /\ x[2] = "operator" => operatorRuns < MaxOperatorRuns
    /\ operatorRuns' = IF x[2] = "operator" THEN operatorRuns + 1 ELSE operatorRuns
    /\ checkerLock' = x
    /\ lockValue' = [lockValue EXCEPT ![ProcessOf(x)] = x]
    /\ AtCheck(x, "gate")
    /\ UNCHANGED <<loanVars, checkSubmitted, suspectRange, checkerFaults>>

\* Mutant: the lock has no time to live of its own.
LockExpiresWithRun ==
    /\ checkerLock # NoHolder /\ checkRun[checkerLock].pc # "idle"
    /\ checkerLock' = NoHolder
    /\ UNCHANGED <<lockValue, checkRun, loanVars, checkSubmitted, suspectRange, checkerFaults,
                   operatorRuns>>

(* Ten minutes pass, whether or not the run has ended.                      *)
LockExpires ==
    /\ checkerLock # NoHolder
    /\ checkerLock' = NoHolder
    /\ UNCHANGED <<lockValue, checkRun, loanVars, checkSubmitted, suspectRange, checkerFaults,
                   operatorRuns>>

(* hasUnresolvedLedgerGaps: a recorded gap ends the run, whoever asked for  *)
(* it; a query that fails counts as none.                                   *)
CheckLedgerRanges(x) ==
    /\ checkRun[x].pc = "gate"
    /\ \/ AtCheck(x, IF suspectRange THEN "release" ELSE "fetch") /\ UNCHANGED checkerFaults
       \/ AtCheck(x, "fetch") /\ Fault
    /\ UNCHANGED <<checkerLock, lockValue, loanVars, checkSubmitted, suspectRange, operatorRuns>>

(* fetchOverdueLoanIds: approved, past due, and no LoanRepaid or            *)
(* LoanDefaulted event - although the contract emits LoanRepaid for a       *)
(* repayment in part as well, and neither for a liquidation.                *)
OverdueLoanIds ==
    OrderByLimit({l \in DueLoans : dueLoan[l] # "current" /\ l \notin closingIndexed},
                 NLoans, MaxLoansPerRun)

(* An operator may name the loans. *)
FetchTargets(x) ==
    /\ checkRun[x].pc = "fetch"
    /\ \E ids \in {OverdueLoanIds} \cup (IF x[2] = "operator" THEN {<<l>> : l \in DueLoans} ELSE {}) :
          checkRun' = [checkRun EXCEPT ![x].pc = "submit", ![x].todo = ids]
    /\ UNCHANGED <<checkerLock, lockValue, loanVars, checkSubmitted, suspectRange, checkerFaults,
                   operatorRuns>>

(* A worker takes the next batch and builds its transaction on the sequence *)
(* the account has now.                                                     *)
PrepareBatch(x) ==
    LET todo == checkRun[x].todo
        n == IF Len(todo) < CheckBatchSize THEN Len(todo) ELSE CheckBatchSize
        batch == [loans |-> {todo[i] : i \in 1..n}, current |-> TRUE]
    IN  /\ checkRun[x].pc = "submit" /\ todo # <<>>
        /\ Cardinality(checkRun[x].ready) < CheckConcurrency
        /\ checkRun' = [checkRun EXCEPT ![x].todo = SubSeq(todo, n + 1, Len(todo)),
                                        ![x].ready = @ \cup {batch}]
        /\ UNCHANGED <<checkerLock, lockValue, loanVars, checkSubmitted, suspectRange,
                       checkerFaults, operatorRuns>>

(* sendTransaction: accepted if the sequence is still current and no other  *)
(* transaction waits, refused otherwise; the request may fail or time out.  *)
(* The outcome is reported and changes nothing else.                        *)
SendBatch(x) ==
    \E batch \in checkRun[x].ready :
        /\ checkRun[x].pc = "submit"
        /\ checkRun' = [checkRun EXCEPT ![x].ready = @ \ {batch}]
        /\ \/ /\ checkSubmitted' = IF batch.current /\ checkSubmitted = {} THEN batch.loans
                                   ELSE checkSubmitted
              /\ UNCHANGED checkerFaults
           \/ Fault /\ UNCHANGED checkSubmitted
        /\ UNCHANGED <<checkerLock, lockValue, loanVars, suspectRange, operatorRuns>>

(* check_defaults passes over loans that are not active, or whose window    *)
(* has not passed: it may or may not have for one repaid in part.           *)
ContractChecksDefaults ==
    LET In(state) == {l \in checkSubmitted : dueLoan[l] = state}
    IN  /\ checkSubmitted # {}
        /\ checkSubmitted' = {}
        /\ \E partly \in SUBSET In("partly") :
              dueLoan' = [l \in DueLoans |->
                            IF l \in In("due") \cup partly THEN "defaulted" ELSE dueLoan[l]]
        /\ checkRun' = [x \in CheckRuns |->
                          [checkRun[x] EXCEPT !.ready = {[b EXCEPT !.current = FALSE] : b \in @}]]
        /\ UNCHANGED <<checkerLock, lockValue, closingIndexed, suspectRange, checkerFaults,
                       operatorRuns>>

(* All batches are done, or the RPC or the database has failed the run.     *)
EndRun(x) ==
    /\ \/ /\ checkRun[x].pc = "submit" /\ checkRun[x].todo = <<>> /\ checkRun[x].ready = {}
          /\ UNCHANGED checkerFaults
       \/ checkRun[x].pc \in {"gate", "fetch"} /\ Fault
    /\ AtCheck(x, "release")
    /\ UNCHANGED <<checkerLock, lockValue, loanVars, checkSubmitted, suspectRange, operatorRuns>>

(* deleteIfMatch with the value the process holds, which may by now be the  *)
(* value of its other run; Redis may be out of reach.                       *)
ReleaseLock(x) ==
    LET value == lockValue[ProcessOf(x)]
    IN  /\ checkRun[x].pc = "release"
        /\ \/ /\ checkerLock' = IF value # NoHolder /\ checkerLock = value THEN NoHolder
                                ELSE checkerLock
              /\ UNCHANGED checkerFaults
           \/ Fault /\ UNCHANGED checkerLock
        /\ lockValue' = [lockValue EXCEPT ![ProcessOf(x)] = NoHolder]
        /\ checkRun' = [checkRun EXCEPT ![x] = NoCheck]
        /\ UNCHANGED <<loanVars, checkSubmitted, suspectRange, operatorRuns>>

(* A process stops with its runs and starts again; the lock stays.          *)
ProcessRestarts(p) ==
    /\ \E x \in CheckRuns : ProcessOf(x) = p /\ checkRun[x].pc # "idle"
    /\ Fault
    /\ lockValue' = [lockValue EXCEPT ![p] = NoHolder]
    /\ checkRun' = [x \in CheckRuns |-> IF ProcessOf(x) = p THEN NoCheck ELSE checkRun[x]]
    /\ UNCHANGED <<checkerLock, loanVars, checkSubmitted, suspectRange, operatorRuns>>

TermPasses(l) ==
    /\ dueLoan[l] = "current" /\ \A k \in 1..(l - 1) : dueLoan[k] # "current"
    /\ dueLoan' = [dueLoan EXCEPT ![l] = "window"]
    /\ UNCHANGED <<checkerLock, lockValue, checkRun, closingIndexed, checkSubmitted, suspectRange,
                   checkerFaults, operatorRuns>>

WindowPasses(l) ==
    /\ dueLoan[l] = "window"
    /\ dueLoan' = [dueLoan EXCEPT ![l] = "due"]
    /\ UNCHANGED <<checkerLock, lockValue, checkRun, closingIndexed, checkSubmitted, suspectRange,
                   checkerFaults, operatorRuns>>

\* Mutant: a loan is repaid or liquidated whatever its status.
LoanIsServedAgain(l) ==
    /\ dueLoan[l] # "current"
    /\ \E state \in {"repaid", "partly", "liquidated"} : dueLoan' = [dueLoan EXCEPT ![l] = state]
    /\ UNCHANGED <<checkerLock, lockValue, checkRun, closingIndexed, checkSubmitted, suspectRange,
                   checkerFaults, operatorRuns>>

(* The borrower repays an overdue loan, in full or in part, or somebody     *)
(* liquidates it.                                                           *)
LoanIsServed(l) ==
    /\ dueLoan[l] \in {"window", "due"}
    /\ \E state \in {"repaid", "partly", "liquidated"} : dueLoan' = [dueLoan EXCEPT ![l] = state]
    /\ UNCHANGED <<checkerLock, lockValue, checkRun, closingIndexed, checkSubmitted, suspectRange,
                   checkerFaults, operatorRuns>>

EventsAreIndexed ==
    /\ closingIndexed # ClosingEvents
    /\ closingIndexed' = ClosingEvents
    /\ UNCHANGED <<checkerLock, lockValue, checkRun, dueLoan, checkSubmitted, suspectRange,
                   checkerFaults, operatorRuns>>

(* recordCheckpoint finds a gap.  Nothing removes a suspect row or changes  *)
(* its status.                                                              *)
GapAppears ==
    /\ ~suspectRange /\ Fault
    /\ suspectRange' = TRUE
    /\ UNCHANGED <<checkerLock, lockValue, checkRun, loanVars, checkSubmitted, operatorRuns>>

RunStep(x) ==
    \/ CheckLedgerRanges(x) \/ FetchTargets(x) \/ PrepareBatch(x) \/ SendBatch(x) \/ EndRun(x)
    \/ ReleaseLock(x)

CheckerNext ==
    \/ \E x \in CheckRuns : AcquireLock(x) \/ RunStep(x)
    \/ \E p \in CheckerProcesses : ProcessRestarts(p)
    \/ \E l \in DueLoans : TermPasses(l) \/ WindowPasses(l) \/ LoanIsServed(l)
    \/ LockExpires \/ ContractChecksDefaults \/ EventsAreIndexed
    \/ GapAppears

TimerTicks == \E p \in CheckerProcesses : AcquireLock(<<p, "timer">>)

(* A run, whose requests time out, goes on; the lock expires; the network   *)
(* and the indexer make progress.                                           *)
CheckerProgress ==
    /\ \A x \in CheckRuns : WF_checkerVars(RunStep(x))
    /\ WF_checkerVars(LockExpires)
    /\ WF_checkerVars(ContractChecksDefaults)
    /\ WF_checkerVars(EventsAreIndexed)

(* Some process's timer keeps ticking. *)
CheckerSpec ==
    /\ CheckerInit /\ [][CheckerNext]_checkerVars
    /\ WF_checkerVars(TimerTicks) /\ CheckerProgress

-------------------------------------------------------------------------------
(* Every variable has its type. *)
CheckerTypeOK ==
    /\ checkerLock \in CheckRuns \cup {NoHolder}
    /\ lockValue \in [CheckerProcesses -> CheckRuns \cup {NoHolder}]
    /\ \A x \in CheckRuns :
         /\ checkRun[x].pc \in {"idle", "gate", "fetch", "submit", "release"}
         /\ checkRun[x].todo \in Seq(DueLoans)
         /\ checkRun[x].ready \subseteq [loans : SUBSET DueLoans, current : BOOLEAN]
    /\ dueLoan \in [DueLoans -> {"current", "window", "due", "partly", "liquidated",
                              "defaulted", "repaid"}]
    /\ closingIndexed \subseteq ClosingEvents
    /\ checkSubmitted \subseteq DueLoans
    /\ suspectRange \in BOOLEAN
    /\ checkerFaults \in 0..MaxCheckerFaults /\ operatorRuns \in 0..MaxOperatorRuns

(* Older loans that the query returns and check_defaults passes over take   *)
(* all the places of a run.                                                 *)
CrowdedOut(l) ==
    Cardinality({k \in 1..(l - 1) : dueLoan[k] \in {"window", "liquidated"}}) >= MaxLoansPerRun

(* A loan that may default does not stay so for ever, unless a ledger gap   *)
(* is recorded, which closes the gate for good, or it is again and again    *)
(* kept out of the query by older loans that cannot default - although runs *)
(* crash holding the lock, outlive it, spoil each other's sequence numbers  *)
(* and take only so many loans at a time.  (Once repaid in part it is out   *)
(* of reach: its LoanRepaid event hides it from the query.)                 *)
OverdueLoansAreSettled ==
    \A l \in DueLoans : []<>(dueLoan[l] # "due" \/ suspectRange \/ CrowdedOut(l))
===============================================================================

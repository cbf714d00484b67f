--------------------------- MODULE PoolOperations ---------------------------
(***************************************************************************)
(* Deposits, withdrawals and repayments as the web client runs them: the   *)
(* TanStack mutation with its optimistic update, roll-back and             *)
(* invalidation, then - for a deposit or withdrawal, whose mutation only   *)
(* builds the transaction - the wallet's signature, the submission, the    *)
(* pause that stands for confirmation, and the reconciliation.             *)
(*                                                                         *)
(* One cached query stands for each of those an operation touches (pool    *)
(* statistics, the depositor's portfolio, the loan): they are snapshotted, *)
(* rolled back and invalidated alike.  Its data is abstracted to the set   *)
(* of operations it reflects.                                              *)
(***************************************************************************)
EXTENDS FiniteSets

CONSTANTS
    PoolOps,    \* deposits and withdrawals
    RepayOps    \* repayments, which the server submits within the mutation

ASSUME PoolOpAssumption == PoolOps \cap RepayOps = {}

VARIABLES
    operation,  \* op -> where its hook is, and its snapshot
    query,      \* the cached query: what it reflects, and isInvalidated
    fetch,      \* the request for that query, if one is under way
    pending,    \* transactions handed to the network, or queued for it
    chain,      \* operations applied on chain
    served      \* operations the API's answers reflect

poolOpVars == <<operation, query, fetch, pending, chain, served>>

-------------------------------------------------------------------------------
Ops == PoolOps \cup RepayOps

Fresh(data) == [data |-> data, invalid |-> FALSE]

(* A fetch that starts keeps the query it found, to be able to revert to it. *)
NoFetch == [pc |-> "idle", data |-> {}, revert |-> Fresh({})]
NewFetch(found) == [pc |-> "sent", data |-> {}, revert |-> found]

PoolOpInit ==
    /\ operation = [o \in Ops |-> [pc |-> "idle", snapshot |-> {}]]
    /\ query = Fresh({})
    /\ fetch = NoFetch
    /\ pending = {} /\ chain = {} /\ served = {}

At(o, pc) == operation' = [operation EXCEPT ![o].pc = pc]

(* setQueryData also clears the invalidated mark; the fetch goes on.        *)
SetData(data) == query' = Fresh(data)

(* invalidateQueries marks the query and starts its fetch afresh.           *)
Invalidate == query' = [query EXCEPT !.invalid = TRUE] /\ fetch' = NewFetch(query')

(* The hook starts its mutation; onMutate first cancels the query's fetch,  *)
(* which puts the query back to what it was when the fetch began.           *)
StartOperation(o) ==
    /\ operation[o].pc = "idle"
    /\ At(o, "cancelled")
    /\ query' = IF fetch.pc = "idle" THEN query ELSE fetch.revert
    /\ fetch' = NoFetch
    /\ UNCHANGED <<pending, chain, served>>

(* ... and, once that is done, takes the snapshot and updates the data.     *)
OnMutate(o) ==
    /\ operation[o].pc = "cancelled"
    /\ operation' = [operation EXCEPT ![o].pc = "request", ![o].snapshot = query.data]
    /\ SetData(query.data \cup {o})
    /\ UNCHANGED <<fetch, pending, chain, served>>

(* mutationFn.  An error may come back although the server has submitted    *)
(* the repayment.                                                           *)
MutationFn(o) ==
    /\ operation[o].pc = "request"
    /\ pending' \in IF o \in RepayOps THEN {pending, pending \cup {o}} ELSE {pending}
    /\ \E pc \in {"success", "error"} : At(o, pc)
    /\ UNCHANGED <<query, fetch, chain, served>>

OnError(o) ==
    /\ operation[o].pc = "error"
    /\ SetData(operation[o].snapshot)
    /\ At(o, "rolled back")
    /\ UNCHANGED <<fetch, pending, chain, served>>

\* Mutant: only a mutation that succeeded invalidates.
OnSettledIfSuccessful(o) ==
    /\ \/ operation[o].pc = "success" /\ At(o, "built") /\ Invalidate
       \/ operation[o].pc = "rolled back" /\ At(o, "done") /\ UNCHANGED <<query, fetch>>
    /\ UNCHANGED <<pending, chain, served>>

(* onSettled runs either way; then the hook goes on with the next step.     *)
OnSettled(o) ==
    /\ \/ operation[o].pc = "success" /\ o \in PoolOps /\ At(o, "built")
       \/ operation[o].pc = "success" /\ o \in RepayOps /\ At(o, "complete")
       \/ operation[o].pc = "rolled back" /\ At(o, "done")
    /\ Invalidate
    /\ UNCHANGED <<pending, chain, served>>

(* The wallet signs, or the user declines. *)
SignTransaction(o) ==
    /\ operation[o].pc = "built"
    /\ At(o, "signed") \/ At(o, "done")
    /\ UNCHANGED <<query, fetch, pending, chain, served>>

(* POST /pool/submit.  submitSignedTx answers with a status - confirmed,    *)
(* failed, not found, queued, rejected - that the hook does not look at; an *)
(* error may also follow a submission, when recording it fails.             *)
SubmitPoolTransaction(o) ==
    /\ operation[o].pc = "signed"
    /\ pending' \in {pending, pending \cup {o}}
    /\ At(o, "submitted") \/ At(o, "done")
    /\ UNCHANGED <<query, fetch, chain, served>>

(* "Simulate confirmation polling": two seconds pass. *)
WaitForConfirmation(o) ==
    /\ operation[o].pc = "submitted"
    /\ At(o, "complete")
    /\ UNCHANGED <<query, fetch, pending, chain, served>>

(* The operation is shown as confirmed and the queries are reconciled.      *)
CompleteTransaction(o) ==
    /\ operation[o].pc = "complete"
    /\ At(o, "reconciling")
    /\ Invalidate
    /\ UNCHANGED <<pending, chain, served>>

(* The awaited fetch has ended; a pool operation invalidates once more.     *)
Reconciled(o) ==
    /\ operation[o].pc = "reconciling" /\ fetch.pc = "idle"
    /\ At(o, "done")
    /\ IF o \in PoolOps THEN Invalidate ELSE UNCHANGED <<query, fetch>>
    /\ UNCHANGED <<pending, chain, served>>

(* The query is fetched again when a component mounts or the browser is     *)
(* back online.                                                             *)
Refetch ==
    /\ fetch.pc = "idle"
    /\ fetch' = NewFetch(query)
    /\ UNCHANGED <<operation, query, pending, chain, served>>

FetchIsServed ==
    /\ fetch.pc = "sent"
    /\ fetch' = [fetch EXCEPT !.pc = "answered", !.data = served]
    /\ UNCHANGED <<operation, query, pending, chain, served>>

FetchEnds ==
    /\ fetch' = NoFetch
    /\ \/ fetch.pc = "answered" /\ SetData(fetch.data)
       \/ fetch.pc = "sent" /\ UNCHANGED query
    /\ UNCHANGED <<operation, pending, chain, served>>

(* The network applies a transaction or drops it; the indexer follows.      *)
NetworkStep(o) ==
    /\ \/ /\ o \in pending
          /\ pending' = pending \ {o}
          /\ chain' \in {chain, chain \cup {o}}
          /\ UNCHANGED served
       \/ /\ o \in chain \ served
          /\ served' = served \cup {o}
          /\ UNCHANGED <<pending, chain>>
    /\ UNCHANGED <<operation, query, fetch>>

PoolOpNext ==
    \/ \E o \in Ops :
          \/ StartOperation(o) \/ OnMutate(o) \/ MutationFn(o) \/ OnError(o) \/ OnSettled(o)
          \/ SignTransaction(o) \/ SubmitPoolTransaction(o) \/ WaitForConfirmation(o)
          \/ CompleteTransaction(o) \/ Reconciled(o) \/ NetworkStep(o)
    \/ Refetch \/ FetchIsServed \/ FetchEnds

PoolOpSpec == PoolOpInit /\ [][PoolOpNext]_poolOpVars

-------------------------------------------------------------------------------
(* Every variable has its type. *)
PoolOpTypeOK ==
    /\ operation \in
         [Ops -> [pc : {"idle", "cancelled", "request", "success", "error", "rolled back", "built",
                        "signed", "submitted", "complete", "reconciling", "done"},
                  snapshot : SUBSET Ops]]
    /\ query \in [data : SUBSET Ops, invalid : BOOLEAN]
    /\ fetch \in [pc : {"idle", "sent", "answered"}, data : SUBSET Ops,
                   revert : [data : SUBSET Ops, invalid : BOOLEAN]]
    /\ pending \subseteq Ops /\ chain \subseteq Ops /\ served \subseteq chain

Mutating(o) == operation[o].pc \in {"request", "success", "error", "rolled back"}

(* However mutations and fetches overlap - one mutation's snapshot holding  *)
(* another's optimistic update, a roll-back landing after the other has     *)
(* settled - an optimistic figure the server never confirmed is shown only  *)
(* while some mutation is under way or the query is marked for a new fetch. *)
OptimismIsTransient ==
    (\A o \in Ops : ~Mutating(o)) /\ ~query.invalid => query.data \subseteq served
=============================================================================

# A TLA+ model of RemitLend

RemitLend lends against a borrower's remittance history. Liquidity providers
deposit a token into a pool, borrowers hold an NFT with a credit score, and a
loan manager moves money between the two. These are Soroban contracts (Rust,
`contracts/`). A Node backend (`backend/`) builds and submits transactions,
indexes the contracts' events, notifies, checks for defaults and keeps
remittances; a web frontend (`frontend/`) signs with the user's wallet.

This directory models the four stateful contracts, the backend's services and
background jobs and the client's money operations; checks them with TLC on small
instances; and proves the properties that matter most with TLAPS for every value
of the constants.

## 1. Inventory

| Part | State | Operations | What is hard | What makes it correct |
|---|---|---|---|---|
| lending pool contract | shares, totals, managed assets, timestamps, pauses, yield limits and usage | deposit, withdraw, emergency withdraw, distribute yield, administration | rounding; four keys updated side by side; limits per period and per distributor | totals equal the sums; no rounding profit; every share backed; limits per period |
| remittance NFT contract | score, history, default count, seized, burned, remint marks per address; minters | mint, rescore, default, burn, transfer, remint, minters | the record of an NFT is many keys under an address and a transfer moves them; caps | history explains the score; a default follows the NFT; a remint is approved after the burn |
| loan manager contract | loans, counter, per-borrower count and list, outstanding total, held collateral, parameters, timelocked changes, pause | request, approve, repay, collateral, liquidate, cancel, reject, purge, refinance, extend, default, setters | hand-kept totals over ten exits; accrual cut at arbitrary ledgers; parameters that move under open loans; cascaded pauses; NFT changes while a loan runs | totals and collateral match the loans; a state machine; no default in grace; exact split; announced risk changes |
| multisig governance contract | a pending transfer, its signers and approvals, the last close | propose, approve, finalize, cancel, expire | timelock against expiry; one storage key for successive proposals | threshold and timelock of the very proposal that is executed |
| Soroban RPC circuit breaker | state, failure count, trial flag, cached probe (per process) | short-circuit test, success, failure, probe | one trial call shared by reads, writes and probes across awaits | one trial; recovers |
| Soroban write queue and replay | durable rows (pending/applied, next attempt) | enqueue, list, apply, reschedule; a timer-driven pass | crash between submit and mark; lost answers; backoff | one row per transaction; the queue drains; nothing is lost |
| event indexer | cursor, checkpoints, events, quarantine, scores | poll, store, side effects, reindex, reprocess | crash between store, checkpoint and cursor; several processes on one cursor; events that do not parse; transactions tried again | a log that only grows and a cursor that never passes a missing event; effects and scores once |
| score and cross-contract reconciliation | a row per custody event with its state and attempts, corrections gathered by a run | insert rows, match score events, flag, read scores on chain, write corrections | overlapping runs of several processes; score events indexed late; scores that cannot be read | rows and scores end up reconciled; what is written is the score on chain |
| webhook delivery | deliveries with attempts, retry time, dead letters | first delivery, retry pass, delete (re-drive is never reached) | overlapping passes; restarts; a retry query that fails | every recorded delivery is settled (it is not: run `webhook_retries`) |
| default checker | a lock with a time to live | run over batches from timers and by operators | the lock outlived by its run, or left by a crash; one account sequence; a query with a limit; a gate that never reopens | an overdue loan is dealt with in the end |
| notifications | rows; streams; the client's list | insert, push, stream, poll, mark read, clean up | only the inserting process pushes; a gap between first message and subscription | the list on screen converges |
| authentication | challenges | issue, consume, clean up, log in | the same login twice at once; expiry under way | one token per challenge |
| remittances, idempotency middleware | rows; responses by key | create, submit; look up, store | look-up before and storage after the handler; three steps without a transaction; a payment that need not be the remittance's own | a remittance under which a payment was taken is never open for payment again |
| privileged actions | requests and discrepancies | create, approve, revoke, execute | overlapping executions; an executor that throws after taking effect | at most once, under a second admin's approval |
| key rotation | batches, records and the key they are wrapped under | start, resume, verify, roll back | paging over a list that shrinks; overlapping and lost runs; keys named by the environment; no KMS | what a completed batch leaves behind |
| web client's pool operations | optimistic cache, snapshot, fetch | mutate, roll back, sign, submit, reconcile | overlapping snapshots; fetches under way | unconfirmed figures are transient |

**How they interact.** The loan manager calls the NFT contract (score, seized
flag, penalties) as an authorized minter and moves tokens out of and into the
pool's address directly; the pool knows of loans only through its balance. A
pause of the pool or of the NFT pauses the loan manager. A contract call and all
the calls it makes are one transaction: it commits as a whole or leaves no
trace, so concurrency in the contracts is the order of calls by different
parties. The backend reaches the chain through one RPC endpoint; its processes
share a database and a cache, each has its own circuit breaker and timers. What
the indexer stores drives webhooks, notifications, the default checker's query
and what the client fetches; the default checker gates on the indexer's
checkpoints, and the reconciliations compare its rows and scores with the chain.

`PROJECT.json` lists every component with its status, and under `hazards` what
is hard to test, each at its line with the property that would catch it.

## 2. Modules

| Module | Models | Uses |
|---|---|---|
| `LendingPool` | `contracts/lending_pool/src/lib.rs`, one token | |
| `RemittanceNft` | `contracts/remittance_nft/src/lib.rs` | |
| `LoanManager` | `contracts/loan_manager/src/lib.rs` composed with the NFT contract | `RemittanceNft` |
| `Governance` | `contracts/multisig_governance/src/lib.rs` | |
| `SorobanCircuitBreaker` | `sorobanCircuitBreaker.ts`, as functions of its fields | |
| `SorobanWrites` | `submitSignedTx`, `withStaleRead` of `sorobanService.ts`, `sorobanWriteQueue.ts`, `sorobanWriteReplayProcessor.ts` | `SorobanCircuitBreaker` |
| `EventLog` | abstract: what the indexer promises its readers | |
| `EventIndexer` | `eventIndexer.ts`, `ledgerCheckpoints.ts`, `scoresService.ts`, `withTransaction` of `db/connection.ts`, the operator calls of `indexerController.ts` | `EventLog` (refinement) |
| `Reconciliation` | `crossContractReconciler.ts`, `scoreReconciliationService.ts`, `getOnChainCreditScore` of `sorobanService.ts`, the absolute write of `scoresService.ts` | |
| `Webhooks` | `webhookService.ts`, `webhookRetryProcessor.ts` | |
| `DefaultChecker` | `defaultChecker.ts` | |
| `Notifications` | `notificationService.ts`, `notificationController.ts`, `useNotificationStream.ts` | |
| `Challenges` | `challengeNonceService.ts` and the login of `authController.ts` | |
| `Remittances` | `remittanceController.ts`, `remittanceService.ts` behind `idempotency.ts` | |
| `PrivilegedActions` | `privilegedActionService.ts`, the resolution of `discrepancyLedgerService.ts` | |
| `KeyRotation` | `keyRotationService.ts` | |
| `PoolOperations` | the deposit, withdrawal and repayment hooks of `useApi.ts`, `useRepaymentOperation.ts`, `useConfirmedReconciliation.ts` | |
| `MC...` | instances; some add history variables (what each distributor paid, exact debts, announced risk changes, admitted trial calls) | |
| `Selection` | the `ORDER BY ... LIMIT` queries of the checker and the reconciliations | used by `DefaultChecker`, `Reconciliation` |
| `LendingPoolProofs`, `LoanManagerProofs`, `RemittanceNftProofs`, `SorobanWritesProofs` | theorems about the module of that name | |
| `LoanBooksProofs` | theorems about the amounts of the loan manager: totals, collateral, split, accrual, announced risk | `LoanManagerProofs` |
| `EventIndexerProofs` | theorems about the indexer, and the types of the reconciliations beside it | |
| `ServicesProofs` | theorems about governance, challenges, remittances, privileged actions, pool operations, key rotation, the default checker and notifications | |
| `Recursion` | induction and recursive functions over `0 .. N`, for the proofs | |

Every definition that stands for code is listed in `PROJECT.json` under `map`
with its lines. "Mutated form" and "Mutant" definitions are deliberate mistakes
next to the definition they replace; `mutants` says which property must catch
each.

**Contracts.** A variable is a storage key (the comment at its declaration names
the `DataKey`), an action is a public call, its guard the conjunction of the
call's checks and early returns. A failed call is no step. `i128` amounts are
unbounded integers because the code's arithmetic is checked and an overflow
reverts. `ledger` is `env.ledger().sequence()`. Callers that the code
authenticates are not variables: an action by the admin exists whenever an
admin does.

- `LendingPool`: `Withdraw` and `EmergencyWithdraw` share `RedeemShares` as in
  the code; `TransferIn`/`TransferOut` are token movements behind the pool's
  back (donations, loans and their repayments).
- `RemittanceNft`: one record per address gathers the keys stored under it.
- `LoanManager`: `AccrueInterest` and `AccrueLateFee` are the two accruals
  every debt computation makes; `Split` is the largest-remainder repayment
  split; `DefaultLoans` is the loop of `check_defaults`. The pool is seen from
  outside as a balance (`PoolMoves`) and a pause flag. The NFT contract's own
  calls are steps of the same specification (`NftStep`).
- `Governance`: `votes` is a history variable, who approved which proposal;
  time is the ledger's timestamp.

**Backend and client.** A step is what a process does between two awaits; a
transaction and a single SQL statement are atomic. Time is reduced to what the
code compares: a cooldown, a cache entry, a backoff, a lock's life have passed or
have not. A request that failed may have reached the other side
(`MaybeReached`). A restart loses everything but the tables. A call of the
database, the cache, the KMS or the network may fail wherever the code makes one.

- `EventIndexer`: a process is a record with its program counter, its job (poll,
  reindex, reprocess), its range, its batch, and what `storeEvents` has gathered:
  the events whose side effects are left to start, and the score updates.
  `RowKey` stands for the unique indexes that `ON CONFLICT DO NOTHING` defers to;
  `loan_events` is a view over the same table. An event has one of three fates:
  it parses and is stored; the parser throws ("Malformed"), and it is
  quarantined, or `swallowed` when that insert fails as well; or the parser
  answers null ("Unsupported") and it is passed over. `StoreRetries` is an attempt
  of `withTransaction` that fails with a transient error: its rows are rolled
  back, what the callback gathered is not, and `retried` (a history variable)
  remembers the events concerned.
- `Reconciliation`: a sweep and a score run are records with their program
  counter, what is left to do and the corrections they will write in one query.
  The tables they read change at any time; a read of a score returns it, the
  default, or throws. A score event carries the type under which it is stored,
  and the sweep matches only `SCORE_EVENT_TYPES`.
- `Webhooks`: the first request, the INSERT and its catch block, and the passes
  of the retry processor, each of which ends at its query. What lies behind the
  query (retries, dead letters, re-drives) is never reached and not modelled.
- `DefaultChecker`: a loan past the due ledger the query computes is in its
  window, may default, or is served (repaid, repaid in part, liquidated); only
  what emits `LoanRepaid` or `LoanDefaulted` leaves the query.
- `Remittances`: the middleware's look-up is part of `Receive` and its storage
  part of `Respond`; the handlers are the steps between, each of whose database
  calls may throw into the catch block. `paid` holds each payment taken with the
  id it was sent under, since the body's payment is not compared with the row's.
- `KeyRotation`: `kms` says whether a KMS endpoint is set. With one a data key is
  wrapped under the key id given, without one under the one local key. A batch's
  old key is `PII_KEK_ID` of the process that starts it, any key at all.
- `PoolOperations`: the data of a cached query is the set of operations it
  reflects; the network and the API are the environment. A fetch remembers the
  state it found, to which `cancelQueries` reverts the query.

## 3. Runs

All bounds are named constants in the cfg files.

| Run | Question | Bounds and why they are enough |
|---|---|---|
| `pool` | Do shares, totals, depositors and managed assets stay in step, can rounding be exploited, does the share price ever fall, does the yield limit hold per period? | 2 accounts with 4 tokens, amounts 0, 1, 3, virtual offset 2: divisions with a remainder in either direction, providers who leave and return; 3 ledgers, period 1: two resets |
| `loans` | Do the outstanding total, the slots, the lists and the held collateral match the loans through every exit? Is interest accurate however it is cut into accruals, is a late fee charged once and only after grace, is the split exact? | 2 users, 2 ids, amounts 1 to 3, 5 ledgers with a term of 1 and rates that leave fractions: every exit, a loan accrued, extended, refinanced and late, and two loans open at once for three ledgers, or to the end when both are of one unit and without collateral (`DebtFocus`); the split is evaluated for every amount up to the debt |
| `loan_params` | Nobody defaulted in grace, debts frozen by any pause, risk changes announced for the whole timelock, every default marks its borrower? | 2 users, 4 ledgers; either the windows and three pauses move, or a risk parameter does, or the NFTs do |
| `replay` | Is a transaction queued once, is one trial admitted, does the queue drain? | 1 process, 2 transactions, threshold 2, one outage, one restart |
| `indexing` | Does the indexer implement the abstract log, are verified ranges complete, are effects and scores applied once, does the cursor catch up? Do custody rows and the scores of active borrowers end up reconciled? | 2 processes, 2 ledgers in batches of 2, two repayments that share a row key, an event that parses only after a deployment and one that parses to null, 1 fault (a failed call, a restart, a lost quarantine row or a transaction tried again); two sweeps and two score runs, 2 custody events with one row per sweep, half applied after 2 attempts, two scores as far apart as the threshold, 1 score change, 1 fault |
| `services` | One login per challenge; no remittance with a payment pending; dual control; what a rotation leaves; transient optimism; approved transfers? Does the NFT's history explain its score, does a default stick to it, is every remint approved after its burn? | 2 or 3 of everything that can overlap: logins, requests with 2 keys, executions, rotation runs of 2 batches between 2 keys over 3 records in pages of 1, a deposit and a repayment, two proposals of two signers over 7 time units; NFTs of 2 users with a history of 2, 2 minters, 2 defaults, 2 ledgers: every limit is reached |
| `jobs` | Is every overdue loan dealt with unless a gap or older loans keep it out, does the list on screen converge? | 2 loans with one per run, a timer and an operator, 1 fault; 2 notifications with a list of 1, two processes |
| `loan_settle` (violation) | `refinance_loan` "Settles all accrued interest and late fees" | as `loans`, one user and one loan |
| `replay_lost` (violation) | failed writes "remain `pending`, so nothing is lost" | 2 transactions, one outage |
| `indexer_scores` (violation) | "On-time payments increase score by 15 pts each" | as `indexing` |
| `reconcile_defaults` (violation) | "correct the DB score to the authoritative on-chain value" | one borrower, one failing read |
| `webhook_retries` (violation) | "Webhook delivery fails [...] Exponential backoff to the attempt cap" | one delivery, 2 overlapping passes, 1 fault |

The state constraints (`Focus`, `NftOrMinterFocus`, `LoanFocus`, `DebtFocus`,
`ParamsOrNftFocus`, `VerificationAlone`) keep a run to the part of the state its question is about;
the calls outside it are still taken once from every state inside.
`loans` leaves out the pauses, the parameters and the NFT's own calls, which
`loan_params` has. `VerificationAlone` stops a rotation at its verification, which
writes a flag nothing reads. In `indexing` the operator's requests reach one
process and reindex every ledger once all are closed (`Requests`); the proofs have
no such restriction. `MaxRetries` is the code's own 3, of which the one fault
leaves room for one. Symmetry is used only in runs whose
properties are invariants or of the form `[][A]_v` and treat all users alike.

`MCServices`, `MCJobs` and `MCIndexing` put several components into one run. They
share no variable: where one reads what another writes, its module lets that input change
at any time. A behaviour of all of them together satisfies a property of one
exactly if that component's own behaviour does, so the run lets one component at
a time move, chosen initially.

Deadlock is checked except in runs that really stop: the loan's life cycle, when
the ids and ledgers of the bound are used up, and the services, jobs and
indexing, when the bound on requests, faults and ledgers is.

**Fairness.** The contracts have none: nobody is obliged to call them.

- `SorobanWrites`: weak fairness of calls in flight (every RPC call and poll has
  a time-out), of the replay timer (`setInterval`), of the passing of cooldowns,
  cache life and backoff, and an outage ends. Clients, reads and restarts have
  none.
- `EventIndexer`: weak fairness of each process's next step, strong fairness of
  starting a poll, because the timer is re-armed in a `finally` block and runs
  beside whatever an operator asks the same process to do. Faults are bounded by
  `MaxFaults`, the closing of ledgers has no fairness.
- `Reconciliation`: both timers keep ticking in every process and a run goes on,
  since its reads time out. Indexing and score changes have none.
- `Webhooks`: a request and the writing of its row go on (requests time out), a
  scheduled retry falls due, and the interval keeps starting passes, which go on:
  more than enough for a retry, were the query to work.
- `DefaultChecker`: a run goes on, the timer of some process ticks, the lock
  expires (its time to live), the network applies what it accepted, the indexer
  follows. Nothing resolves a recorded gap, since no code does.
- `Notifications`: the mounted list is polled, and not every request fails or is
  overtaken by the next invalidation (strong fairness of being served and of
  arriving).

**Refinement.** `EventLog` is what everything that reads the indexer's tables
relies on: a log of emitted events that only grows and a mark below which none
is missing. `EventIndexer` implements it with `mark <- cursor` and
`log <- contractEvents \cap Ordinary`, over the ordinary events: those that parse
and have a row key of their own. For the others the code gives no such promise:
one that parses to null is passed over, one that throws is not in the table, and
of two with the same key one has no row. `ImplementsEventLog` is checked by the
run and proved (section 4).

**What the passing runs show.** Within the bounds, the contracts' hand-kept
totals never drift from the records they summarise, in any order of calls; value
is conserved (share price, collateral, split, interest); the queue of writes is
drained after any outage or restart unless the breaker is wedged (below); the
indexer survives failures at every step and several processes on one cursor
without losing an event it recognises or, transactions tried again aside,
repeating its effects; and the services keep their
promise under overlapping, repeated and lost requests. Some promises are weaker
than one might expect, and the properties say so: `StatusMachine` leaves open
from where a loan is liquidated and `InterestIsAccurate` what becomes of the
fraction of a unit, where code and documents differ (below);
`LateFeesOnlyForLateLedgers` is checked with a fixed grace period, and
`DefaultMarksBorrower` speaks of what the borrower's address holds at the default,
so an NFT transferred away before is not marked; `CompletedLeavesOne` allows the
record the paging skips, speaks of the key the batch names rather than the one the
records are under, and without a KMS of labels only; `DrainedUnlessWedged` leaves
out the wedged breaker; `SubmittedIsNeverPending` speaks of the remittance a
payment was sent under, which may not be the one it was built for, and does not
keep two overlapping requests from both submitting; `VerifiedRangesComplete`
counts a swallowed event as known to the log and an event that shares its key as
stored, and leaves out events that parse to null; `EffectsAtMostOnce` and
`ScoresCountEventsOnce` leave out events whose transaction was tried again;
`OverdueLoansAreSettled` leaves out a recorded gap and a loan that older ones keep
out of the query's limit, and counts a loan repaid in part as settled;
`ListConverges` is about the polled list, not the stream; `RowsReconcile` is about
rows that a score event of `SCORE_EVENT_TYPES` matches and that older rows without
one do not keep out of the query's limit; and `ActiveScoresConverge` leaves out a
borrower whose only loan is repaid in part, whom the query takes for inactive.

**What the violation runs show.**

- `loan_settle`: refinancing adds the accrued interest and fees to the paid
  totals and zeroes them without any transfer, so the pool never gets them.
- `replay_lost`: a replay answered `ERROR` or `TRY_AGAIN_LATER` returns normally
  and its row is marked applied. Transactions carry a time bound of 30 seconds,
  so this is what a replay after a longer outage meets.
- `indexer_scores`: `updateUserScoresBulk` inserts `500 - delta` and adds
  `EXCLUDED.current_score - 500`: a repayment lowers the score, a default raises
  it.
- `reconcile_defaults`: `getOnChainCreditScore` answers a transient RPC failure
  with the default score, and a reconciliation with autocorrection on writes it
  over the borrower's score. While the borrower stays active a later run puts it
  right (`ActiveScoresConverge`), and so does a sweep that finds a row of the
  borrower still half applied; otherwise nothing does.
- `webhook_retries`: the query of `processRetries` selects `id` from two joined
  tables that both have one. Postgres refuses it, the error is caught and logged,
  and a delivery whose first request failed waits for ever: no retry, no dead
  letter, nothing for an operator to re-drive.

**Other places where text and code differ, or that a reader should know of**, met
while modelling and not given a run:

- Pool: `TotalDeposits` ("net of withdrawals") goes below zero when yield is
  withdrawn, since `saturating_sub` on an `i128` does not stop at zero
  (`lending_pool/src/lib.rs:689`, comment at 150); a new yield period resets only
  the counter of the distributor that triggers it (`:521`).
- NFT: `transfer` gives an NFT to a burned account without an approved remint
  (`remittance_nft/src/lib.rs:944`, comment at 552); `decrease_score` raises
  scores below the floor to it (`:771`).
- Loan manager: the fraction of a unit that an accrual leaves is carried forward
  (`loan_manager/src/lib.rs:414`), where `docs/loan-cost-disclosure.md:131` (with
  143) has it "**not** carried forward" but "dropped at the boundary"; each accrual
  drops what is below the residual's own unit, although "no precision is lost"; the cap "Total debt
  cannot exceed 2x original principal" holds late fees only (`:216`); the
  coverage check of a refinancing precedes the return of collateral (`:2019`);
  `liquidate` takes an approved loan, from anyone, where
  `docs/domain-state-machines.md:84` and `:101` have the admin liquidate a
  defaulted one and no edge from approved to liquidated.
- Indexer: an event for which `parseEvent` answers null (`eventIndexer.ts:668`) is
  neither stored nor quarantined while checkpoint and cursor move on, where
  `docs/domain-state-machines.md:259` says "quarantined [...] rather than dropped".
  `insertedEvents` and `scoreUpdates` (`:690`, `:695`) are declared outside the
  callback that `withTransaction` of `db/connection.ts:152` runs again on transient
  errors, so the effects and score changes of a first attempt are repeated, although
  the comment at `:843` has both "committed or rolled back together".
  Nothing changes or removes a suspect checkpoint (`:446`), which
  `docs/domain-state-machines.md:260` says "forces reconciliation": the default
  checker's gate stays shut.
- Reconciliation: `SCORE_EVENT_TYPES` (`crossContractReconciler.ts:63`) has
  `ScoreDecreased`, the NFT emits `ScoreDecr` (`remittance_nft/src/lib.rs:781`),
  which is the name stored, so rows of defaults and late repayments match only a
  later rise of the borrower's score.
- Governance: a delay of at least the lifetime makes a proposal nobody can
  finalize (`multisig_governance/src/lib.rs:398`).
- Degraded mode: when the trial call of a half-open circuit is a read that fails
  with anything but a transient message, nothing is reported to the breaker,
  `halfOpenInFlight` stays true and every later call is refused until the process
  restarts (`sorobanService.ts:232`; `sorobanCircuitBreaker.ts:33` says writes
  "will be replayed automatically"). A failed write backs off while later ones
  are replayed (`sorobanWriteReplayProcessor.ts:101`; line 50 says "a later write
  can never overtake an earlier one"). `runInFlight` is tested before an await and
  set after it (`:57`).
- Remittances: the signed payment is not compared with the remittance in the path
  (`remittanceController.ts:259`): B's payment sent under A completes A and leaves B
  pending. The catch block turns a completed remittance into a failed one
  when the notification after it throws (`remittanceController.ts:292`).
- Key rotation: each page starts one further although the rotated records have
  left the list, so the last record is skipped (`keyRotationController.ts:164`
  has the same offset; `pii-handling-runbook.md:101`), and the row of a rotated
  record does not name its batch. `docs/THREAT_MODEL_PII_KEY_ROTATION.md:85` has
  `PII_KEK_ID` updated before the rotation starts; then the batch names the new key
  as its old one, the scan is empty and it completes with every record left. Without
  a KMS endpoint every data key is wrapped under `PII_KEK_KEY` whatever id is given
  (`keyRotationService.ts:866`), and a rotation changes labels only.
- Default checker: batches sent side by side are built on one account sequence,
  so all but one are refused; a send answered `ERROR` is counted as successful; a
  liquidated loan stays active for the query, and a loan repaid in part leaves
  it.
- Notifications: the stream writes a query key nobody reads, and one that ends
  cleanly is not reopened; the list is right because it is polled.
- Client: a deposit is shown as confirmed after a pause of two seconds
  ("Simulate confirmation polling"), whatever became of the transaction, where
  `docs/domain-state-machines.md:354` says never to report success.

## 4. Theorems

TLC checks each property first; the proofs then hold for every value of the
constants, subject to the assumptions named in the module of the component.

| Module | Inductive invariant and why it is needed | Proved |
|---|---|---|
| `LendingPoolProofs` | `PoolInv`: types, accounted shares, `managed >= totalShares`. That redemption keeps `managed` a natural number needs `managed >= totalShares`, which needs the total to cover the redeemer's shares | `TypeCorrect`, `SharesAlwaysAccounted`, `SharesAlwaysBacked`, `RoundTripsNeverProfit`, `SharePriceMonotone` |
| | `YieldInv`: what a distributor paid in the current period is at most the counter the code compares with the limit, although a new period resets one counter only | `YieldAlwaysWithinLimit` |
| `LoanManagerProofs` | `LoanInv`: loans are records with a known status, ids above the counter are unused, grace is within the window. Nothing about amounts, so the theorems do not depend on the interest arithmetic | `LoanInvHolds`, `GraceAlwaysWithinWindow`, `StatusMachineHolds`, `NobodyDefaultedInGrace`, `PauseAlwaysFreezes` |
| `LoanBooksProofs` | `BooksInv`: types of every amount, and the stored totals, counts and collateral as sums over the loans. A total stays a natural number only because it is that sum | `LoanTypesHold`, `BooksAlwaysBalance`, `CollateralAlwaysHeld`, `SplitAlwaysExact` |
| | `NftsShaped`: what a seizure finds in the NFT contract | `DefaultAlwaysMarks` |
| | `NoticeInv`: a pending change was announced with the execution ledger it carries | `RiskAlwaysAnnounced` |
| | `DebtInv`: the interest charged, with its residual, is the exact interest but for one unit of the residual per accrual; the late fees charged and those due for the late ledgers not yet accrued are together at most the exact fee | `InterestAlwaysAccurate`, `FeesAlwaysForLateLedgers` |
| `RemittanceNftProofs` | `NftInv`: records are typed, the history ends with the current score, flag and count of a default travel with the NFT | `HistoryAlwaysExplains`, `DefaultsAlwaysStick`, `RemintsAlwaysApproved` |
| `SorobanWritesProofs` | `WriteInv`: queue and rows are the same transactions, a replay pass works on queued ones, and what a half-open circuit admitted is its trial | `WritesAlwaysQueuedOnce`, `TrialIsAlwaysOne` |
| `EventIndexerProofs` | `IndexInv`: a poll began at most one ledger above the cursor, and every recognised event in its range is in its batch, stored under its key, or malformed and quarantined or swallowed; tables hold emitted events only. `EffectsOnce`: what a process has gathered beyond one of each event it will insert, or already has, belongs to `retried` events | `VerifiedAlwaysComplete`, `EffectsAlwaysOnce`, `IndexerImplementsLog`, `ScoresAlwaysCountOnce` |
| | `RangeInv`, `ReconInv`: a job's range lies within the closed ledgers and a sweep's rows within the table, which only grows; a row answers one custody event | `IndexingTypesHold` |
| `ServicesProofs` | `GovInv`: the approvals of the active proposal were all given to that very proposal by its signers, and its timelock is no shorter than the minimum | `TransfersAlwaysApproved` |
| | `ChallengeInv`: at most one login is about to sign for a challenge, and then its row is spent and no token signed | `ChallengesSignInOnce` |
| | `PrivilegedInv`: one call at most holds a claimed request, it has an approver other than its initiator, and what it resolved is no longer open | `DualControlHolds` |
| | `RemittanceInv`: a request that has come to the payment has marked its row, and no step makes a marked row pending again, whichever payment it sends | `SubmittedNeverPending` |
| | `PoolOpInv`: a fetch under way carries only what the API has served, and what cancelling it would put back satisfies the property too | `OptimismAlwaysTransient` |
| | `RotationInv`: with a KMS labels say what a record is wrapped under, a run that has worked through a page has counted a failure, so that only an empty scan completes a batch, and after a completed batch at most one record is left with its old key unless a batch moves records to that key | `CompletedAlwaysLeavesOne` |
| | `CheckerInv`: a run holds loans of the contract, and a lock value names a run; with `NoteTypeOK` | `JobTypesHold` |
| `Recursion` | none: `LeastNumber`, `UpTo` (induction), `RecursiveFunction` and `SelectionTyped` | |

**Sums.** In `LendingPoolProofs` the sum over accounts is the cardinality of the
set of share units, and in `LoanBooksProofs` that of the units of the loans'
amounts, so that adding and removing units follows from the library's facts on
finite sets. The rounding arguments rest on `FloorBounds`, `MintBounds` and
`RedeemBounds`. In `LoanManagerProofs` each call's lemma shows `LoansMove`: what
that call may make of each loan.

**Recursion.** A theorem with an operator as parameter cannot be instantiated by
the provers, so `Recursion` states induction over `0 .. N` with the predicate as a
set and the step of a recursion as a function. That gives a recursive
function its defining equation (`ListReady`, `Page`, `OrderByLimit`), and what is
needed of each is then an induction over its length: that a page holds
different records, that a query returns what it selected from.

**Scores.** `ScoresAlwaysCountOnce` carries the hypothesis `ScoresStayInRange`: no
selection of the chain's events takes a score to a bound of its range. Where
scores are cut off at a bound the order of events matters and no sum describes the
outcome, in the code as in the model: the clamped cases are left to the run's
types. The chain of the run satisfies it. Given it, and no transaction of the
borrower's events tried again, the proof is that the deltas of a batch add over disjoint sets of
events, and that a stored event is in no later batch.

`IndexerImplementsLog` is the refinement: the initial states map to initial
states and each step is, by `StepKind`, a closed ledger, new rows, or a move of
the mark. What carries it is `BatchIsStored`: after the transaction every event of
the batch has a row with its key, the conflicting ones that of the earliest of the
batch, whose existence is the well-foundedness of the natural numbers
(`LeastNumber`). For an ordinary event that row is its own.

**Assumptions.** Each constant's is in the module that declares it and is
evaluated by TLC in every run. Besides types and finiteness they say what the code
guarantees: `ScoreAssumption` that the bounds of a score enclose its default,
`ReconciliationAssumption` that some process sweeps, as its timer does in each,
`IndexerAssumption` that the chain lists events in the order of their ledgers.

**Only model-checked.** Every invariant and every step property of the runs has
a theorem. Liveness under fairness (`DrainedUnlessWedged`, `IndexerCatchesUp`,
`OverdueLoansAreSettled`, `ListConverges`, `RowsReconcile`,
`ActiveScoresConverge`) is out of the prover's reach and stays with TLC. The score
that repeated defaults leave (`Penalised`) is not computed by any proof: they use
that the record keeps its shape and is seized.

## 5. Not modelled

- Contract upgrades and migrations, the upgrade proxy: they replace the code that
  is modelled. Events and time-to-live extensions of storage, the metadata URI
  and history hash of an NFT: nothing reads them.
- `emergency_pause.rs` takes its caller from `env.invoker()`, which soroban-sdk
  does not have, and no contract reads its flags. `admin_handover.rs` has no
  callers. The oracle adapter and filters, the money library and the small
  settlement contracts keep no state the others use; the loan manager treats an
  oracle's rate as any answer. `money::round_div`, which the pool and the loan
  manager call with `Floor`, is integer division where they use it.
- Transaction building and result decoding, stale-read snapshots, the shadow
  rebuild and the adaptive interval of the indexer, e-mail and SMS, retries,
  dead letters, re-drives and editing of webhook subscriptions, the egress check, cryptography, token revocation and the
  login throttle.
- Loan state events are appended per request and replayed for display. The score
  decay job names the columns of `scores` as migration 1789000000000 leaves them
  (`borrower`, `score`), every other service as it finds them (`user_id`,
  `current_score`): no schema runs both, and the models are of the services on
  the schema they name. Connection fail-over has no callers. Caches and rate
  limits are bounded counters in Redis; the two uses that others depend on (the
  checker's lock, the idempotency responses) are modelled with them.
- The rest of the repository is presentation, routing, validation, configuration
  and generated API documentation: about nine tenths of its lines. It keeps
  little state of its own: what is fetched and shown, client-side stores, and an
  offline queue into which nothing enqueues. So the share of lines the
  map covers stays small even where the components with state are covered.

## 6. Running

    tlc -workers 2 -config MCIndexing.cfg MCIndexing
    tlapm EventIndexerProofs.tla

`PROJECT.json` names the module and cfg of each run. The longest runs
(`replay`, `indexing`) take under four minutes with two workers.

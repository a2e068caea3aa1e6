# Formal model of the DEEIX Chat back end

This directory holds TLA+ models of the DEEIX Chat back end (`src/backend`) and of
the parts of its clients that take part in a protocol, the TLC configurations that
check them on small instances, and theorems about them checked by TLAPS.
`PROJECT.json` maps every definition to the source lines it translates and lists
runs, mutants, findings, hazards and theorems.

To check a run: `tlc -workers 2 -config MCUsageBudget.cfg MCUsageBudget`.
To check the proofs of a module: `tlapm UsageProofs.tla`.

## 1. The system

The back end is a Go service (Gin, Gorm on PostgreSQL or SQLite, Redis or an
in-process cache).  HTTP handlers (`internal/transport/http`) call application
services (`internal/application`), which call repositories and caches
(`internal/infra`).  Several requests of one user run concurrently, and several
server processes may share one PostgreSQL and Redis.

| Component | State | Operations | Hard behaviour | What makes it correct | Modules |
|---|---|---|---|---|---|
| Usage billing (`postgres/billing`, `application/billing`) | account balance, reservations, usage ledger, balance transactions | reserve, renew, release, mark for reconciliation, settle by balance or by plan credit, record only | concurrent calls of one user, leases that lapse, retries after lost answers, month boundaries | no call billed twice, every bill paid, plan credit not overspent, no budget promised twice | `UsageBudget`, `UsageBudgetSteps`, `LeasePool` |
| Paid model call (`handler_message_send.go`, `handler_media.go`, `handler_temporary_chat.go`, `service_billing.go`) | where the handler is, retry attempts, contexts | authorize, run, renew, release, build the bill, settle, mark | disconnects, crashes, database faults, deadlines | usage that cost money is billed or kept for reconciliation; holds end | `UsageRequest` |
| Payments and redemption codes | payment orders, codes, redemptions | create order, callback, redeem | duplicate callbacks, expiry, limits per code and per user | one credit per payment, limits hold | `Credits` |
| Subscription timeline | subscription segments | grant, replace, normalise, split around higher plans, switch to free | two grants at once, tiers that displace each other | no overlap, no gap, no time lost, the best plan first | `SubscriptionTimeline`, `SubscriptionBank` |
| Generation streams (`generation_stream.go`, caches) | events with sequence numbers, text checkpoint, owner, active lease, cancel marker | register, publish, subscribe, resume, cancel, finish, reset | readers that join late, trimmed windows, leases across processes | a reader sees the text exactly once and in order; a cancelled run stops; the list of running generations is true | `GenerationStream`, `GenerationLease` |
| Content moderation (`application/contentmoderation`) | tasks, barrier, block state of a run, pending blocks | enqueue, wait, block, withdraw, recover | results racing the end of generation, failing writes, crash | blocked content is withdrawn and stays so; every run is decided | `ModerationBarrier` |
| File processing (`application/processing`, file queues) | queue, leased messages, claim of the file row | enqueue, read, claim timed out, renew, settle, requeue, dead-letter | slow workers, crash, lost claims | one message per file; no file is stuck | `FileProcessing` |
| Embedding (`application/embedding`, settings) | embed status, signature, chunks, runtime settings | embed, change settings, reconcile, clone | jobs overtaken by changes, copies of files | what is ready is searchable in the present space | `EmbeddingIndex` |
| Channel routing | circuit states, failure windows, probes | check, record, release, open, reset, enable | half-open probes under concurrency, cached settings | one probe at a time; a circuit does not stay open | `CircuitBreaker` |
| Sessions | session row, cookie | refresh, rotate, log out | concurrent refresh, lost answers, grace | a revoked session stays revoked; rotation loses nobody | `SessionRotation` |
| Companion reminders (`persistence/companion`) | reminder, occurrences, consents, claims | commands, scheduler, claim, send, finish | crash between send and record, several dispatchers | nothing is sent twice, too late or without consent | `ReminderDispatch` |
| To-do lists (`persistence/miniapptodo`, mini app) | tasks, steps, lists, receipts; a device's queue and snapshot | operations, undo; queue, synchronise, resolve | repetition and undo, offline devices, late requests | an undo is exact; devices come to agree | `TodoOperations`, `TodoSync` |
| Conversation core | messages, branches, context artifacts, tool calls | send, retry, fork, compact, share | cancellation, post-billing tasks | one answer per run; compaction keeps the scope | - |
| Registration, rewards | codes, check-ins, invitations | register, check in, invite | limits | one reward per day, per invitation | - |
| Companion initiative, follow-ups | leases, topics, credits | prepare, accept | crash, several workers | one message per opportunity | - |
| Everything else | rows edited one at a time | settings, memories, skills, prompts, audit, logs, uploads, adapters | little interaction | - | - |

How they interact.  A message handler asks usage billing for a reservation before it
starts the call and renews it from a goroutine while the call runs.  The channel's
circuits decide which upstream may be called.  The handler registers the run,
publishes to the generation stream, waits at the moderation barrier, and then
releases the reservation or settles it.  Moderation may cancel the run and reset its
stream.  Payments, redemption codes, check-ins, invitations and administrators change
the same balance; an order or a code for a plan is laid on the subscription timeline,
which decides the plan credit of a month.  Uploads go through the file queue to the
embedding jobs.  The modules cut these where one side only needs a
nondeterministic choice of the other: the call is one step of `UsageRequest`, a
deposit one step of `UsageBudget`, a withdrawal one of the sources of resets in
`GenerationStream`.

## 2. What is modelled

Conventions.  A database transaction that locks all it touches is one action; where
it reads before it locks, or where other writers do not take the lock, its statements
are steps.  A rejected operation changes nothing and is simply not enabled.  Data that
the properties do not tell apart is a member of a small set.  Variables marked
`history` record what happened and guard nothing except the named bounds.

### Totals

`Total(column)` is SQL's `COALESCE(SUM(column), 0)` over the rows of a table.  It
is the cardinality of a set of units and not a recursion, so that facts about
sums can be proved (`TotalsProofs`: type, monotonicity, splitting off a row,
changing a row).

### UsageBudget - the billing repository

One user; users do not share billing rows.  Each operation of the repository is
one database transaction and one action:

| Code | Model |
|---|---|
| `ReserveUsageBalance` | `Reserve` |
| `RenewUsageBalanceReservation`, `ReleaseUsageBalanceReservation`, `MarkUsageReservationReconciliationRequired` | `Renew`, `Release`, `MarkReconciliation` |
| `RecordUsageWithAuthorization` | `RecordUsage`, which chooses between |
| `AddUsageAndSettleBalance`, `AddPeriodUsageAndSettleOverage`, `AddUsage` | `SettleUsage`, `SettlePeriod`, `AddUsage` |
| `SetBillingAccountBalance`; the credit of top-ups, redemptions, rewards | `AdminSet`; `Deposit` |
| `expires_at` compared with the clock; `monthBounds` | `Tick`; `NextMonth` |

Variables are the rows: `balance`, `reservation` (by `ref_no`), `ledger` and
`transactions` (sequences, a row's position is its id), plus the current `month`.
`ttl` is the number of ticks to `expires_at`.

Abstractions: amounts are small naturals.  A free model costs 0, so
`is_free_model` is not a column of its own.  `billing_at` is a month.  The
saturation of sums at the largest int64 is left out.  Prices and plans change at
any time, hence `charge`, `prepaid` and `limit` are chosen freely from their
sets.  The transaction types `usage_reserve` and `usage_refund` of older versions
are only read by the code and never written.  Rows kept for reconciliation are
resolved by hand; no code of the repository does it.

### UsageBudgetSteps - reserving, statement by statement

Reserving, settling and every change of the balance are serialised on the lock of
the account row.  Renewing, releasing and marking update only their reservation row
and can commit between two reads of a reserving transaction on PostgreSQL.  Here
`ReserveUsageBalance` is `Count` (lock, free slots), `SumBalance`, `SumCredit`,
`Insert` or `Reject`; `Unlocked` operations of `UsageBudget` run between them,
`Locked` ones wait.  One time stamp is taken at the start, as in the code, and
constant `Punctual` says that no call marks its reservation after its lease has lapsed.
Without it TLC violates `GrantsWithinBudget`: a lapsed hold that is marked between two of
the reads takes budget and a slot again that the grant has already counted as free, the
sixth slot of `LeasePool` below, which the code accepts.  `tx.fair` is history.

### LeasePool - what reservations promise

The abstract specification: a pool of `Slots` leases that are taken, lapse, are
returned, blocked or billed.  `UsageBudget!ImplementsLeasePool` instantiates it
with the refinement mapping `Phase`: a reservation is `held` while active and
unexpired, `lapsed` when active and expired, `blocked` under reconciliation.  The
pool promises the slot limit when a lease is taken.  It does not promise it for
ever: marking a lapsed hold for reconciliation takes a slot again, so a sixth slot
can be occupied until the bill is reconciled.  The code does this on purpose (the
hold is real), and `Block` allows it.

### UsageRequest - one paid call

Extends `UsageBudget` with the handler: `Authorize` (`AuthorizeUsage`),
`RenewLease` (the renewal goroutine), `CallReturns` (with or without usage to
bill), `ReleaseBudget`, `BuildLedger`, `SettleBudget`, `MarkBudget` (the two steps
of `RecordSendMessageBilling` and `markUsageAuthorizationForReconciliation`).
`Fault` is a database call that fails, in one of two ways: rolled back, or
committed with the answer lost.  `Retry` is `retryUsageBillingOperation`.
`ContextEnds` is a client that disconnects (for the handlers that bill under the
request's context) or the 10 s deadline of a detached billing context.  `Crash`
stops every handler.  After the bill is settled the code writes it to the
message and schedules compaction; neither touches billing state and both are
left out.

### Credits - payment orders and redemption codes

What fills an account.  `UsageBudget` takes a deposit as one step; here the
transactions that make it are modelled lock by lock, for several users and with
several `Workers` running at once.

| Code | Model |
|---|---|
| `CreatePaymentOrder`, `CreateTopUpPaymentOrder` | `CreateOrder` |
| `StripeWebhook`, `EPayNotify`, `CompletePaymentOrder` | `CustomerPays`, `Callback` |
| `RedeemCode` (service) | `Redeem` |
| `SELECT ... FOR UPDATE` of the order or code and the checks after it | `LockRow`, `PayableOrder`, `RedeemableCode` |
| `getOrCreateBillingAccountForUpdate` | `LockAccount` |
| `MarkPaymentOrderPaidAndCreditBalance` | `CommitTopUp` |
| `applyRedemptionBalance` | `CommitBalanceCode` |
| `MarkPaymentOrderPaidAndGrantSubscription`, `applyRedemptionSubscription` | `CommitGrant` |
| `CreateRedemptionCodes`, `PatchRedemptionCode`, `DeleteRedemptionCode` | `CreateCode`, `PatchCode`, `DeleteCode` |
| a transaction that is rolled back | `Abort` |

A session (`tx[w]`) is the transaction of one worker.  Its writes become visible
at commit and it reads the rows it changes under their locks, so they are written
in the commit step; what it read before and uses then (`seen`, the time stamp
`at`) is kept in the session.  A request refused under the lock is rolled back
with whatever it wrote.  The locks are PostgreSQL's; SQLite runs one transaction
at a time, which is one of the interleavings.

Not in this module: what a call costs and what the administrator sets (in
`UsageBudget`), signatures and amounts in the provider's currency, the billing
mode, and the dates of a granted subscription (a grant is an entry here and laid on
the timeline in `SubscriptionTimeline`).  An order without credit and a code without
a limit appear as such; a code that never expires is one with a late date.  A grant of a
plan that is no longer active, or whose price is for life, is refused for good by the
code; here that refusal is one of the outcomes of `Abort`, so that a paid order for such
a plan, which is never settled, is not told apart from one that fails for a while.

### SubscriptionTimeline and SubscriptionBank - periods of plans

`SubscriptionTimeline` keeps the rows of one user.  `Normalize`, `Place` and `Build` are
the pure functions of the code: the first merges touching rows; the second places a grant
before, between and after what blocks it (`FreeSlots`), cuts lesser plans (`Cut`) and queues
what it takes from them (`Displaced`); the third places until the queue is empty.  `Apply`
turns the result into updates and inserts.  The loops of the code are written without
recursion where they allow it: a merged row is a head with what is `Joined` to it, the
slots of a grant are the first free ones, the queue is a set with the order `Earlier`.  A grant is `Read`, `Lock`, `Commit`: the
rows are read with their locks, but only rows that exist can be locked, so on
PostgreSQL (READ COMMITTED) two grants to a user without rows do not exclude each
other.  `Serial` = TRUE runs one transaction at a time.  `Set` is the administrator's
replacement and `SetFree` the same with the free plan, which is also what an empty code
means: everything paid expires, and nothing asks whether some is left.  A user who
subscribes to a plan other than free whose price is zero replaces his timeline likewise
(`service.go:660` asks for entitlements only if the plan is free); that is a `Set`.
`CheckFree` and `SwitchToFree` are the two steps of `Subscribe` to the free plan,
`Advance` a slot of time.

`SubscriptionBank` is the promise: time left per plan, always spent from the best
plan, added to by a grant, replaced or taken by nobody but an administrator and such a
subscription (`Replace`, `Clear`).  `ImplementsBank` maps `left[p]` to the time that the
rows of `p` still cover.

Abstractions: a transaction is shorter than a slot; one price per plan; no renewal
flags, no deactivated or re-ranked plans; the free plan's endless row is the absence
of rows; plans of the same start, tier and end, which only overlap, are not ordered.

### GenerationStream - events and the clients that follow them

The cache holds `events` (a window of `MaxEvents`), a checkpoint (`text`, `textSeq`),
and the counter `seq`.  `Publish` appends an event and, for a delta, `Flush` keeps the
checkpoint; `Settle`, `Withdraw`, `TellBlocked`, `Conclude` and `Finish` are the
handler's way out through the moderation barrier; `LateWithdraw` and `LateTellBlocked`
are the worker that finds a hit after the barrier.  A client subscribes in the code's
steps: `SubscribeList` reads the retained window, `SubscribeSnapshot` the checkpoint,
`CheckActive` and `ActiveTick` ask whether the run is active, `ReadEvents` reads on
from a cursor, `Deliver` hands over a batch.  `Disconnect` loses the connection; the
client resumes from the greatest sequence number it saw, at most `MaxResumes` times.
`said` is history.

Left out: the 15 minute retention, the owner check (in `GenerationLease`), the older
protocol without checkpoints, Redis' approximate trimming and stream ids, the
sanitising of payloads.  Clients write no shared state, so one client beside the
handler shows all that two could.

### GenerationLease - registering, cancelling, finishing a run

Requests of one owner with one run id, at processes of their own or at the same one.
Shared: the lease, the owner, the cancel marker.  Per process: the registry entry
`active`, its refresh goroutine and its timer.  `StoreRegistration`, `Install`, the
three steps of `finish` (`FinishRemove`, `FinishClear`, `FinishStop`), those of
`cancelActive` (`CancelMark`, `CancelStop`, `CancelClear`) and of the expiry timer are
separate because the code lets go of its mutex between them.  `overlapped` is history:
two requests ran at once under the run id.  `At` places each request once.

Left out: the feed of a user's active generations, non-streaming calls, the exact
lifetimes (a lease may expire when nobody refreshes it).

### ModerationBarrier - checks against the end of a generation

One persisted run, checks of its input and output, the barrier (`barrier`), the rows
(`run`, `answer`, `user`), the blocks kept in memory (`pendingBlock`), the recovery
loop of the process and another process (`peer`).  `Finish`, `Find` and `Report` are
the worker of one check, `LateApply`, `LateMark`, `LateRemove` what it does when the
barrier has settled; `MarkModerating`, `EnqueueOutput`, `MarkOutputsEnqueued`,
`WaitAll`, `Settle`, `ApplyBlock`, `Pass`, `WriteMessages`, `FinalizeMessages`,
`Upsert` the handler; `Retry...` and `Stale...` the loops; `Peer...` another process
that takes the run for stale.  `Fails` is a database write that fails, `Crash` ends
the process.

Left out: the worker pool and its queue, temporary chats, embedding after a pass,
reused user messages, files, retention.  A stale run is recovered only after its
handler ended or crashed (the code waits two minutes).

### FileProcessing - the file queue and its workers

The queue (`queue`, `inflight` leases) and the file row with its claim.  `durable`
chooses Redis or the queue in memory.  `ClaimTimedOut`, `Read`, `TryClaim`,
`ExtractFails`, `MarkFailed`, `Extract`, `Embed`, `WriteReady`, `Verify`, `Reset`,
`Requeue`, `FinalizeRead`, `ForceFailed`, `Override`, `Bury`, `Lookup` and `Settle` are the
steps of a worker between database and queue; `Lapse` is a lease that runs out,
`RenewLease` its renewal, `Abandon` a worker that learns it lost its lease.  The name
of a worker stands for its attempt id.

Left out: images without OCR, videos, deletion, copied processing states, quarantined
messages, the mode without a cache.  With embedding off, the first "ready" write clears
the attempt, as in the code.

### EmbeddingIndex - the embedding space of files

A file and its copy, jobs, administrators that change the settings.  A signature is a
model and a host, or a model and `Legacy`: what the first start of a process and an
upgrade derive from the model alone (`SignatureOf`).  `Claim`, `Replace`, `Count`,
`Check`, `SetReady`, `Recheck` and `SetStale` are the job.  `BeginPatch` is a PATCH
that names any of the keys, or other settings only; `BeginDelete` deletes one key, which
gives it its deployed default (`Baseline`), keeps the signature and marks no file.  Both
go on with `WritePatch`, `List` and `Publish`; a PATCH that touches the space ends with
`Aim` and `Mark`.  `FailPatch` is a request that fails after its rows were written: the
database has the new settings, the process the old ones, and the next request computes
its signature from those.  `Clone...` is the clone of a shared file, `Restart` a process
that starts with the stored settings, `Timeout` the sweep that fails jobs after six
minutes (a job lives five).  Two variables are history: `overtaken`, a job read the
settings before a change and claimed after it; `mixed`, a change was put on top of
another one that had failed.

Left out: text, chunks and vectors themselves, message embeddings, knowledge bases,
quotas, the deletion of files, the queue of reindexing, a start that cannot store the
signature it derives (it derives the same one whenever it needs it).  The dimensions of
a vector belong to the model.

### CircuitBreaker - circuits of an upstream and its models

`circuit` and `fails` per scope, in memory or by the Redis scripts (`InMemory`), and
`cached`, each process's view of the setting.  A call resolves its route (`Load`,
`Resolve`, `CheckModel`), then succeeds, fails, is ignored or dropped, and its outcome
arrives later (`Record`, `Clear`, `Release`).  Administrators `OpenCircuit`,
`ResetCircuit`, `Enable` and `Disable` (two steps each).  Times are what remains of
them, counted down by `Tick`.  `slow` is history: a probe outlived its token.

Left out: weighted choice, API keys, the backoff of rate limits, failover.  A refused
call leaves no trace.

### SessionRotation - refreshing one session

One session of one browser whose tabs share a cookie.  `Send` presents the
cookie, `Check` parses the token and reads the row, `ReadClock` takes the time `now`
before the transaction begins, and `Rotate` or `Refuse` is that transaction: under the
lock of the row it compares with `now`, and writes `now` and an expiry counted from it,
however long it waited.  `Answer` and `Receive` deliver the new cookie, `Lose` loses the
answer; the previous token is accepted for `Grace` ticks.  `signedOut` and `astray` (tabs
that did not take turns, two answers lost in a row, or one that was not made up for within
the grace and the life of the token) are history.

Left out: sign-in, user deactivation, the id of the access token.

### ReminderDispatch - one reminder and its messages

`plan` (the reminder), `events` (its occurrences), `account` (consents), `worker` (the
dispatchers).  Commands of the user: `Create`, `Delete`, `Pause`, `Resume`, `Rename`,
`Reschedule`, `Snooze`, `Complete` (skipping is the same), `Grant`, `Disable`.  `Tick`
is the scheduler, `BeginClaim`, `Claim` or `Skip` or `ClaimNothing`, `Send`, `Finish`
a dispatcher, `Minute` a dispatch that is older than a minute.  A calendar is a start,
a period and an end.  `sent`, `plan.since` and `account.accepted` are history.

Left out: the interpretation of what the user says, limits and batches, rebinding of
the WeChat account and change of template, deactivation of the user.  The revision
check and the replay of a command by its request id leave no trace.

### TodoOperations - to-do lists of one owner

Tasks that repeat, with steps, in lists; the owner's lock serialises operations, so each
`Apply` is one action.  `Save`, `CompleteTask`, `ReopenTask`, `ToggleStep`, `DeleteTask`,
`Restore`, `CreateList`, `DeleteList`, with the cascades over steps and the next
occurrence that `createNext` makes and `undoNext` takes back.  Operations with a stale
version or a known receipt change nothing.  `touched` and `shadow` are history.

Left out: dates beyond "repeats once", limits, names.

### TodoSync - devices that share a task

A device has a `snapshot`, a `queue` of operations and an editor; it shows the overlay
of both (`Shown`).  `Queue`, `Edit`, `SaveEdit`, `Toggle`, `Remove`, `Undo` are the
user, `Send`, `Arrive`, `Accept`, `Refresh` the synchronisation, `Lose` a request or
answer that is lost (with timeouts and restarts of the app), `ArriveLate` a request
that was given up and still arrives, `UseCloud` the user who drops a refused change.
The server is `Effect` guarded by the receipt and the version.

Left out: "keep as a new to-do", search, export, reminders, sign-in.  Reading the
snapshot is one step with the answer, and the snapshot is whole: the code sends the last
hundred finished or deleted rows (`miniapptodo/store.go:130`), so that a device may miss
older ones.

## 3. Properties and runs

Each run checks one module or, where two small modules are independent of each other,
their sum: in `MCFiles`, `MCPlans`, `MCAccess` and `MCTodo` a variable `about`, chosen
at the start and never changed, says which of the two moves; the other does nothing.
The fairness of a sum is that of its parts, written with subscripts that exclude `about`.
A state constraint cuts behaviours after steps that carry no fairness (a user, an
administrator, a fault), so that a behaviour within the constraint can always go on
and a liveness property is not satisfied by being cut.

| Run | Module | Bounds | Properties |
|---|---|---|---|
| `budget` | `UsageBudget` | 3 calls, or 2 and a bill without reservation; 2 slots, credit 2, charges 1 and 3, two months, one deposit or setting | `ChargedOnce`, `AuditTrail`, `BilledIsPaid`, `CreditWithinPlan`, `GrantWithinBudget`, `ImplementsLeasePool` |
| `request` | `UsageRequest` | 2 calls, one under a context of its own and one under its request's; 2 faults, 3 attempts, 1 crash, leases of 2 ticks, a model that loses its price | `ReleasedOnlyUnbilled`, `BillableAccountedFor`, `BilledWhatItCost`, `CallsSettle` |
| `disconnect` | `UsageRequest` | 2 calls under their request, no fault | violation of `BillableNeverLapses` |
| `credits` | `Credits` | 2 workers, 2 users, an order and a code for balance or one of them for a plan, limits 1 and 2, 1 rollback, deadline 0 of 1 ticks | `CreditedOnce`, `BalanceExplained`, `RedemptionsWithinLimits`, `WithinUserLimit`, `Progress` |
| `plans` | `UsageBudgetSteps`, `SubscriptionTimeline` | 3 calls, 2 slots; 3 plans of 3 tiers, 4 grants of 2 or 3 slots, 5 slots of time | `GrantsWithinBudget`; `TimelineSafety`, `ImplementsBank` |
| `stream` | `GenerationStream` | 1 client with 2 resumes, 4 events before the last ones, window 3, batches of 2, both withdrawals | `StreamSafety`, `NothingWithdrawnRetained`, `ResumesEnd` |
| `lease` | `GenerationLease` | 2 requests at 1 or 2 processes, 1 cancellation, a crash | `LeaseSafety`, `ListIsTrue`, `CancelStops` |
| `barrier` | `ModerationBarrier` | a check of the input and one of the output, 3 failing writes, a crash, another process | `BarrierSafety`, `BarrierProgress`, `KnownBlocksConverge` |
| `files` | `FileProcessing`, `EmbeddingIndex` | 1 file in Redis or 2 in memory with room for 1, 2 workers, 1 retry, up to 4 disturbances of 2 faults, 1 crash, 2 lapses; 1 file and its copy, 2 models, a service or none, 2 jobs, 2 changes, 1 deleted setting, 1 fault, 1 restart, up to 3 of these | `QueueSafety`, `ReadyIsFinal`; `IndexSafety`; `NoFileIsStuck` of both |
| `access` | `CircuitBreaker`, `SessionRotation` | 2 calls, 2 models and their upstream, 2 orders of an administrator; 2 tabs, 2 lost answers, 3 tokens, 3 ticks | `CircuitSafety`, `Recovers`; `SessionIsKept` |
| `reminders` | `ReminderDispatch` | 2 dispatchers, 2 commands, 2 consents, 1 crash, 4 days, a reminder for one moment or one that repeats | `ReminderSafety`, `ClaimedIsCurrent`, `RemindersProgress` |
| `todo` | `TodoOperations`, `TodoSync` | a task of 2 steps that repeats once, 6 operations; 2 devices, a task and a step, 3 changes, 1 lost request | `OperationsAreSafe`; `SyncIsSafe`, `DevicesAgree` |

What the groups contain: `StreamSafety` is `TypeOK` and `TextIsExact`; `LeaseSafety` is
`TypeOK`, `RefreshIsOwned`, `RunningIsStoppable`; `ListIsTrue` is `LeaseEnds` and
`RunningIsListed`; `BarrierSafety` is `TypeOK`, `HitIsNeverForgotten`,
`BlockedIsWithdrawn`; `BarrierProgress` is `BarrierEnds`, `InputHitStopsGeneration`,
`RunsAreDecided`; `QueueSafety` is `TypeOK`, `OneMessagePerFile`, `LiveFileHasMessage`;
`IndexSafety` is `IndexTypeOK`, `ReadyHasChunks`, `RetrievesOwnSpace`, `ReadyIsSearchable`;
`CircuitSafety` is `TypeOK` and `OneProbe`; `SessionIsKept` is `TypeOK`,
`BrowserKeepsSession`, `DeadStaysDead`; `ReminderSafety` is `TypeOK`, `OncePerTime`,
`SentOnce`, `SendsWithinConsents`, `ActiveIsAlive`; `TimelineSafety` is `TimelineTypeOK`
and `Contiguous`; `OperationsAreSafe` is `TypeOK`, `StepsFollowTask`, `ListsAreLive`,
`ChangeIsVersioned`, `UndoKeepsChanges`, `UndoIsExact`; `SyncIsSafe` is `TypeOK`,
`ProblemsAreReal`, `OwnOperationsApply`, `DroppedStaysDropped`; `CallsSettle` is
`HoldsEnd` and `BillableEventuallyAccountedFor`; `Progress` is `RequestsEnd` and
`PaidIsSettled`; `NoFileIsStuck` is `FilesEnd` and `FilesSettle`.

### Why the bounds suffice

*Billing.*  The slot limit bites with more calls than slots, so three calls over two
slots reach it, and a call that lost its slot by lapsing can meet two others.  Charges
below and above the credit and the share of a call split a bill between credit and
balance; charge 0 is in `request`.  Two months cover a call authorized in one and
started or settled in the next.  One deposit suffices to have balance and to change it
under running calls; the balance can become negative.  Leases of two ticks (in
`request`) let a renewal come before or after the first tick.  With two faults and
three attempts marking for reconciliation can be reached (by a model without price) and
succeeds; no request of the run is both detached and interrupted, so that the deadline
of a detached context is not reached.  A fault more in the marking loop could make it fail too,
which the code cannot prevent and `BillableAccountedFor` does not promise.

*Credits.*  Two workers are what it takes to race for a row: a third could only wait
for the same locks or repeat what one of the two did.  Two users redeem one code and
hold different accounts; limits 1 and 2 are reached and lowered.  A deadline at time 0
lets a callback come at and after it, and a request be stamped before the deadline and
locked after it.  `OneKind` keeps apart what shares no row.

*Streams and leases.*  Four events over a window of three trim the window once while a
checkpoint covers it; batches of two make a reader come back.  Two requests are what it
takes to overlap; placed together or apart they share a registry or only the cache.

*Barrier.*  One check per direction meets every order of results, barrier and
settlement; a second of the same direction would only be a later result.  Three
failing writes make a block fail at the handler, at its last write and at the first
repetition, so that recovery works from the recorded hits alone; with two, TLC missed
what section 4 says of `InputBlockIsKept`.

*Files.*  Two workers meet at a message; a queue for one message is full with the
second file.  With a durable queue two faults, a crash and two lapses meet, four at a
time, and `FilesEnd` excuses only a lapse that meets something else.  In the index two
models and two changes reach "there and back", and the default model differs from the
first, so that a deleted setting moves the space.  Three kinds of behaviour divide the
run: the queue, the index with its first signature made of model and host, and the index
with a legacy one, no clone and one job at a time.  `FewDisturbances` lets three changes, deletions, faults
and restarts meet when no job is at work, two beside a job and one beside a clone;
`FewJobs` keeps to one job beside a clone.  TLC finds `RetrievesOwnSpace` violated when
either exception, deletions or `mixed`, is dropped: both are reached.

*Access.*  Two calls are what it takes to probe a circuit twice; thresholds of 1 and 2
and 2 open models make both ways in which an upstream trips, joined by "or"
(`BothNeeded` = FALSE); beside an administrator there is one call to one model.  The
circuits are those in memory; Redis keeps them alike but for the probe of a circuit that
is found closed (`AfterCheck`).  Three tokens allow
a rotation by each tab.  A token lives two ticks and the grace is one, so that within three
ticks an answer is made up for or too late, a token expires, and a request that read the
clock before that rotates after it.

*Reminders.*  Two dispatchers race for an occurrence; a reminder with two times has a
present and a next occurrence; `FewCommands` lets a second consent meet at most one
command.

*To-do.*  One next occurrence is what completing makes and undoing takes back; six
operations complete, undo, change and complete again.  Three changes of two devices
reach a conflict between a pending change and one that the other device sent.
`PhoneFirst` is symmetry, written as a constraint since symmetry sets are not used with
liveness; `FewLostRemovals` bounds losses beside deletions.

*Plans.*  Four grants of three tiers displace what displaced another; an administrator's
replacement, with a plan or with none, counts as a grant.

Symmetry over calls is used in runs without liveness only.  `CHECK_DEADLOCK FALSE`:
with its bounds used up and all calls ended, each of these systems rests.

### Fairness, and why the code justifies it

| Specification | Fair | Not fair |
|---|---|---|
| `UsageRequest!FairRequestSpec` | each handler's next step (upstream calls and billing run under timeouts), the clock | deposits, new calls, renewals, disconnects, crashes |
| `Credits!FairSpec` | each worker's next step; strongly, the callback of each order: Stripe and EPay repeat what was not acknowledged, and the code answers an error as long as the order is not paid | customers, administrators, clock, rollbacks |
| `GenerationStream!StreamFairSpec` | the handler's step (its call has a deadline), the lapse of an abandoned lease, the request that is served | disconnects, resumes, crashes, hits |
| `GenerationLease!FairSpec` | each handler, each refresh goroutine, each cancellation under way, the lapse of a lease | retries, cancellations, crashes |
| `ModerationBarrier!FairBarrierSpec` | the handler, the recovery loop, the writes of another process that has begun, what a worker does after it found a hit | that a check ends: the wait has a time limit and needs no answer |
| `FileProcessing!Fairness`, `EmbeddingIndex!IndexFairness` | uploads under way, worker loops, the lapse of a lease nobody renews; job steps and the timeout sweep | uploads, faults, crashes, settings, clones |
| `CircuitBreaker!Fairness` | the clock | calls, administrators |
| `ReminderDispatch!FairSpec` | the scheduler and each dispatcher (tickers that are never left), minutes | users, consents, crashes |
| `TodoSync!Fairness` | synchronisation (triggered when the app is shown, the network returns or a change is made), closing the editor, late requests; strongly, the user who decides a conflict that is shown | changes, losses |

The provider's repetition (`Credits`), and in `TodoSync` the user who opens the app
again and decides a conflict, are assumptions about the environment; the others are
goroutines, tickers and timeouts.
`Recovers` quantifies over each circuit (upstream and models) separately.

Every property of a passing run has a mutant: a plausible bug (an operator named
`Mutant of ...` beside the definition it replaces) under which TLC finds it violated.

## 4. Findings

### The bill of a client that leaves (`disconnect`)

The non-streaming `SendMessage` bills under the HTTP request's context
(`handler_message_send.go:479`).  If the client leaves, settlement and the marking that
should catch its failure are both cancelled; the hold lapses and the usage is never
billed.  `service_billing.go:176` says such a failure becomes a conservative blocking
state.  The other three handlers use a context of their own.  `BillableNeverLapses`
states the promise; `BillableAccountedFor` is what holds: it excuses calls whose
context ended.

### What else the code does not keep

These formulas stand in their modules and are violated under the bounds of the run of
their module (or those noted); the properties of the runs carry the corresponding
exception.  To see one, add it to the `.cfg`.

| Formula | What happens |
|---|---|
| `UsageBudget!CreditWithinPlanAcrossMonths` | A call authorized before and started after the turn of the month is covered by the old month's credit, but its row is dated in the new month, where the old month's sum does not see it (`repository.go:635`); `service.go:1218` promises that one share of credit is not taken twice. |
| `UsageBudget!ReservationsDoNotChangeCharge` | Settlement subtracts the credit that other running calls hold (`repository.go:662`), so a call pays from the balance while plan credit remains, also when the others are released; the comment at line 692 says reservations do not change what is charged. |
| `Credits!ExpiredIsRecorded` | A callback after the deadline sets the status to expired and returns an error from inside the transaction, which rolls it back (`repository.go:880`); no other code stores the status of `types.go:83`. |
| `SubscriptionTimeline!PaidTimeIsKept`, `FreeOnlyWhenEmpty` (in `MCPlans`, `Serial <- FALSE`) | Two grants to a user without rows both start now, since there is no row to lock (`repository.go:2580`); the switch to free looks for paid plans outside of its transaction (`service.go:660`). |
| `UsageBudgetSteps!SharesLeaveRoom` | A release between counting the slots and adding up the holds gives the last slot's share while another slot is free (`repository_reservation.go:111`). |
| `GenerationStream!TextIsExactForSlowReaders` | A reader that the window ran over misses deltas (`generation_stream.go:408`). |
| `GenerationStream!NotesReplayable` (`MaxEvents` 6, `MaxSeq` 5) | Notes between the two reads of a subscription precede the checkpoint's number and are not replayed after the next disconnect, against the comment at `generation_stream.go:385`. |
| `GenerationStream!InterruptedMeansUnfinished` | A client that resumes between the last event and the end of the lease is told to retry a run that finished (`handler_message_send.go:853`). |
| exception `late = "none"` of `NothingWithdrawnRetained` | A hit after the barrier resets the stream, and the handler then appends the completed answer (`service_moderation.go:64`). |
| exceptions `overlapped` of `GenerationLease` | A retry under the run id of a request that still runs is unlisted when that one finishes (`generation_stream.go:462`); a registration at another process clears the cancel marker (`memory/generation_stream.go:33`).  `LeaseEnds` allows that a finished run is listed once more for the length of a lease (`generation_stream.go:477`). |
| `ModerationBarrier!LateBlocksConverge` | The handler's last writes cover what a late hit withdrew (`coordinator.go:255`). |
| `ModerationBarrier!InputHitBlocksUser` | Recovery takes the latest hit; if the output was hit after the input, the user's message stays (`cleanup.go:160`). |
| `ModerationBarrier!BlockedLosesText` | A block that could not be written is kept in memory only; after a restart the run is marked blocked and its text stays (`contentmoderation/service.go:299`). |
| exceptions of `ReadyIsFinal`, `FilesEnd` | A failure that is forced without the attempt overrides a file that became ready (`processing/service.go:788`); two workers that reclaim a message in turn leave a file in extraction without message (`conversation_cache.go:199`); the queue in memory does not survive a restart (`file_queue.go:48`). |
| exceptions `deletions` and `mixed` of `RetrievesOwnSpace` and `ReadyIsSearchable` | Deleting the embedding model restores its default and keeps the stored signature, so that vectors of two spaces share it and retrieval mixes them; deleting the signature leaves ready files that nothing finds until a request names the space or the process restarts (`settings/handler.go:447`, `service.go:443`). A PATCH that fails after its rows were written leaves process and database apart (`service.go:439`, `handler.go:354`); sent again it heals, but a different one computes its signature from the settings of the process and stores that of a space nobody has. |
| exception `failures` of `ReadyIsSearchable` | The same request, or one whose marking fails, leaves ready files of the old space unmarked until it is sent again (`handler.go:362`). |
| exceptions of `ReadyHasChunks` and `ReadyIsSearchable`; `RetrievesOwnSpace` with two `Patches` | A copy is created "ready" before its vectors are copied and stays so if that fails; it is written ready after a change of settings; a job overtaken by two changes leaves old vectors ready; two administrators at once store the signature of a space that has one of their changes (`conversation/repository.go:2895`, `2926`, `2936`, `settings/handler.go:310`). |
| `ModerationBarrier!InputBlockIsKept` | If the withdrawal for a hit of the input fails three times, recovery applies the latest recorded hit, which may be one of the output, and drops the kept block of the input: the user's message is never blocked (`cleanup.go:160`, `172`).  Found when `BlockedIsWithdrawn` could not be proved; it excepts runs whose output was hit, too (`OutputHit`). |
| `ModerationBarrier!BlockedStaysBlocked` | If no hit could be recorded, a run that was decided as blocked may end as failed open, its answer withdrawn (`cleanup.go:148`).  Found by the same attempt. |
| exception of `DeadStaysDead` (in `Over`) | A refresh takes `now` before its transaction (`auth/service.go:1117`) and is measured by it under the lock (`user/repository.go:1424`, `1456`): one that waited beyond the expiry still rotates, and the expired session lives again. |
| exception `TooLate` of `BrowserKeepsSession` | The grace accepts the previous token, but `token.Parse` refuses one that has expired itself (`auth/service.go:1085`): an answer lost at the end of a token's life cannot be made up for. |
| `CircuitBreaker!OneProbeOfUpstream` (`BothNeeded` TRUE, `OpenModels` 2, `UpstreamThreshold` 1) | A late failure that does not trip the upstream a second time clears the token of its probe (`memory/channel.go:107`), so that a second call probes it.  Found when `OneProbe` could not be proved; it excepts such upstreams (`Forgets`). |
| `CircuitBreaker!ManualStaysOpen` | A late failure or success replaces the 24 hours of an administrator (`memory/channel.go:106`). |
| `CircuitBreaker!CleanStart` | A call that loaded the old setting records its failure between clearing and enabling (`service_model.go:921`). |
| `ReminderDispatch!SentIsRecorded` | A rename during sending makes a message known as sent "uncertain" (`reminders.go:399`). |
| `ReminderDispatch!OneConsentKept` | Every receipt adds a credit; `companion-assistant.md:56` says one is kept. |
| `ReminderDispatch!SendsWithinConsents` with `Legacy = {c1}` | A client without receipts that repeats its report after the credit was spent grants a second message (`notification_consents.go:87`). |
| `TodoOperations!UntouchedCanBeUndone`, `StepsShareList` (`MaxOps` 8) | An old deleted copy of a step makes an undo a conflict (`operations.go:301`); a restored step keeps the list it was deleted in. |
| `TodoSync!NoSilentOverwrite` (`MaxMade` 5, `MaxLost` 0, no deletions, the tablet offline until all changes are made) | A pending change of a task keeps the version it counted for changes of its steps that were then dropped, and replaces another device's text (`store.ts:44`). |

## 5. Proofs

| Module | Of | Theorems | Assumptions on the constants |
|---|---|---|---|
| `UsageProofs` | `UsageBudget` | `TypeCorrect`, `ChargedOnceCorrect`, `AuditTrailCorrect`, `BilledIsPaidCorrect`, `CreditWithinPlanCorrect`, `GrantWithinBudgetCorrect`, `LeasePoolImplemented` | finitely many calls; months and amounts are naturals |
| `UsageProofs` | `UsageBudgetSteps` | `GrantsWithinBudgetCorrect` | those of `UsageBudget`, and `Punctual` |
| `UsageProofs` | `UsageRequest` | `RequestTypeCorrect`, `RepositoryImplemented`, `ReleasedOnlyUnbilledCorrect`, `BilledWhatItCostCorrect`, `BillableAccountedForCorrect` | those and `RequestAssumption`; the last one: `MaxFaults < Attempts` |
| `CreditsProofs` | `Credits` | `CreditsTypeCorrect`, `PaymentsCreditedOnce`, `NoCreditLost`, `CodesWithinLimits`, `UserLimitKept` | none on users, orders, codes and workers (infinitely many too); limits and times are naturals |
| `GenerationProofs` | `GenerationLease` | `LeaseSafetyCorrect` | requests are placed at processes |
| `GenerationProofs` | `GenerationStream` | `CacheTypeCorrect`, `NothingWithdrawnRetainedCorrect`, `StreamSafetyCorrect` | none on clients; limits are naturals, window and size of a read positive |
| `AccessProofs` | `CircuitBreaker` | `CircuitSafetyCorrect` | the times are positive; a token lives shorter than a circuit stays open, that shorter than one opened by hand |
| `AccessProofs` | `SessionRotation` | `SessionIsKeptCorrect` | the grace is positive and shorter than a token's life; times are naturals; any requests |
| `AccessProofs` | `ModerationBarrier` | `BarrierSafetyCorrect` | finitely many checks, each of one direction |
| `FilesProofs` | `FileProcessing` | `QueueSafetyCorrect`, `ReadyIsFinalCorrect` | none on files and workers; limits are naturals |
| `FilesProofs` | `EmbeddingIndex` | `IndexSafetyCorrect`, `ReadyHasChunksCorrect` | none on jobs, models, hosts; limits are naturals; the first: one administrator |
| `TimelineProofs` | `SubscriptionTimeline` | `TimelineTypeCorrect`, `TimelineSafetyCorrect`, `BankImplemented` | finitely many plans, equal tiers allowed; lengths are positive; the second and third: `Serial` |
| `AgendaProofs` | `ReminderDispatch` | `ReminderSafetyCorrect`, `SentOnceCorrect`, `ClaimedIsCurrentCorrect` | some calendar exists; the first: `Legacy = {}` |
| `AgendaProofs` | `TodoOperations` | `OperationsAreSafeCorrect` | steps have names of their own, any number of them; `MaxOcc` and `MaxOps` are naturals |

The assumptions are named in the modules (`...Assumption`) and evaluated by the runs.
Each inductive invariant was an invariant of a run of TLC before it was proved; it stands
in the module it is about.  `TotalsProofs` holds the lemmas about sums.

* `UsageProofs` proves `TypeCorrect`, `ChargedOnceCorrect`,
  `AuditTrailCorrect`, `BilledIsPaidCorrect` and `CreditWithinPlanCorrect` from the
  inductive invariant `Invariant`: the five properties and `CoveredWithinBilled`
  (no row is covered beyond its bill).  The last is what `CreditWithinPlan` lacks to
  be inductive: a settlement covers at most `limit - Used(month)`, and `Used` counts
  what was billed, so the sum of what was covered must be bounded by the sum of
  what was billed.  `TotalMonotone` gives that, `TotalSplit` splits off the new row.
* `GrantWithinBudgetCorrect` proves the action property from type correctness:
  only `Reserve` turns a reservation active, and it grants at most what
  `Remaining` left; `TotalChange` gives the sums after the grant.
* `GrantsWithinBudgetCorrect` proves the same of the reservation taken statement by
  statement.  The inductive invariant `StepsInvariant` adds `ReadsHold`: what the open
  transaction has read of slots, balance and credit is still free.  `HoldsShrink` shows
  why under `Punctual`: whatever commits between its reads keeps every amount and lets no
  reservation hold that did not, so that no sum grows.
* `LeasePoolImplemented` in the same module is `Spec => ImplementsLeasePool`: the initial states correspond and each action is a pool step or a stutter.  A
  settlement is `Bill`, and `ChargedOnce` shows its count goes from 0 to 1.
* `CreditsProofs` proves `CreditsTypeCorrect`, `PaymentsCreditedOnce`,
  `NoCreditLost` and `CodesWithinLimits` from the inductive invariant `Invariant`
  of `Credits`.  The four properties alone are not inductive: a commit uses what
  its session found some steps earlier.  `SessionsSound` says that this still
  holds (the locked order is pending, the locked code has a use left, `seen` is
  the balance), `LocksExclusive` is why no other step can have changed it, and
  `RowsSound` covers rows that do not exist yet.  `StepCases` sorts the steps into
  those that write no row, a new order, a commit (`Effect`), and a change of a
  code; each part of the invariant is proved for these four.  `SumStep` gives the
  sum up to a new transaction, from `TotalSplit`.
* `UsageProofs` also proves `RequestTypeCorrect`, `RepositoryImplemented`,
  `ReleasedOnlyUnbilledCorrect` and `BilledWhatItCostCorrect` for every number of
  requests, attempts, faults and crashes (`RequestAssumption` besides those of
  `UsageBudget`).  The inductive invariant `RequestInvariant` is `RequestTypeOK`, the
  `Invariant` of `UsageBudget`, and `HandlerSound`: the stage of a handler says what
  its reservation can be (nothing is settled before `settling`, nothing released while
  the call runs), and a settled row was billed what the handler computed.
  `RepositoryImplemented`, `RequestSpec => Spec`, needs it because a handler settles
  with the charge and the date it remembered; with it, all that is proved of
  `UsageBudget` holds of paid calls, retried and interrupted ones too.
* `BillableAccountedForCorrect` has the hypothesis `MaxFaults < Attempts`: a handler marks
  a bill it could not settle for reconciliation in as many attempts as `Attempts`, and if
  every one fails the bill lapses, which the code cannot prevent.  What it adds to
  `RequestInvariant` counts (`AccountSound`): a retry loop has failed no oftener than
  calls have failed, so under the hypothesis it gives up only when it has settled or
  marked, or its context ended.
* `UserLimitKept` needs `UserLimitsHeld`: the user of a session that has locked a code has
  redeemed it less often than its limit per user allows.  Every change of the code and every
  redemption take that lock, so it still holds when the session commits one more.
* `GenerationProofs`: `LeaseInvariant` adds `EntriesAreLocal` to the two properties: a
  registry holds only requests of its own process, and only a handler between removing
  and stopping has taken an entry.
* `GenerationProofs` also proves `NothingWithdrawnRetainedCorrect` from `CacheInvariant`:
  until the barrier blocks a run the cache has all that was said and no terminal event of
  moderation; from the withdrawal on it has no text, and the handler is past everything
  but that event (`CacheSound`).  `AppendKeeps` says what an append, which may push events
  out of the window, leaves; `SeqWithin` bounds the numbers by the one terminal event of
  the handler and the one of a late worker.
* `GenerationProofs` also proves `StreamSafetyCorrect` from `StreamInvariant`.
  `StreamSound` says that events are numbered without a gap, that deltas are what was said,
  and that the text is in the cache (`Kept`) or was withdrawn for good (`Cleared`).
  `ReaderSound` is the argument: the records a goroutine has read are consecutive, so its
  `Place` is one number, and the client has the text up to that place or up to its
  checkpoint, whichever is further (`InStep`); a read that starts beyond the next number
  has skipped text only if the window ran over the reader, and a reader of a withdrawn run
  gets no more text (`Frozen`).  The two reads of a subscription are not atomic, and the
  window may be older than the checkpoint: `WindowSound` is all that is left of it, and
  enough, since the checkpoint has every delta that was said before it.  What a replay of
  any length makes of a client (`ReplayReads`) takes an induction: `Induction` is the least
  counterexample of `WFMin`, over a set and not over an operator, and shows both that the
  recursive function `Replay` is built from exists (`ReplayStates`) and what it keeps.
* `AccessProofs`: `CircuitInvariant` says which tokens a call can hold at each stage
  (`CallsSound`), that a circuit the administrator opened does not become half-open
  (`CircuitsSound`), and that while a call holds a token its circuit grants no other: it is
  closed, will not be half-open before the call's time is over, or keeps the token until
  then (`TokensSound`).
* `AccessProofs` also proves `SessionIsKeptCorrect`.  `BrowserKeepsSession` is not inductive:
  that the server accepts the token in the jar says nothing of the answer that will replace
  it.  `SessionInvariant` adds that nothing astray means at most one request, which the
  browser hears, and no lost answer that can no longer be made up for (`TakeTurns`), that
  what a request has read of the clock is past (`TimesArePast`), and what its token is at
  each stage (`TokenIsKept`): the one in the jar is the one before it once it has rotated.
  `JarIsAccepted` then holds at any time a request has read: that time is not later than
  the present one, at which the grace is open.  `DeadStaysDead` is about `Over`, a session
  that is revoked, or has expired with no request under way that read the clock before;
  `DeadStep` shows that no step leads out of it, since a rotation needs such a request.
* `AccessProofs` proves `BarrierSafetyCorrect`, too: `BarrierInvariant` adds to the two properties that the barrier
  counts the checks that have not reported (`CountSound`), what each phase of handler,
  checks and recovery can be (`PhasesSound`), what the decision is made from
  (`DecisionSound`, `RecordSound`), and `WithdrawalSound`: whoever forgets a block has
  withdrawn the run before, and what is kept or about to be written is enough.
* `FilesProofs`: `QueueInvariant` says that there is one message of a file, in the
  queue or leased (`OneOf`), that ids are given once, so that a worker that was overtaken
  cannot settle another file's message (`IdsSound`), that an upload that is not through has
  no message yet (`UploadsSound`), that what is ready is nobody's attempt
  (`AttemptsSound`), and, as long as no process stops and no lease lapses at work, that
  each worker holds the lease of its message and ends it only when its file is done
  (`CalmSound`).  `Moves` sorts the steps by what they do to messages: they move among
  leases and workers, one is read, one is added for a file that has none, or all are lost.
  `ReadyIsFinalCorrect` follows because only a worker that failed writes without its
  attempt.
* `FilesProofs` also proves `IndexSafetyCorrect`.  `ChunksSound` says which jobs, rows and
  clones rely on vectors, and that none of them loses its own; `ReadyHasChunks` follows for
  any number of administrators (`ReadyHasChunksCorrect`).  `SettingsSound` says that
  signatures name their spaces (`Coherent`: a signature is the one of its space, the legacy
  one that of the first), those in the database, in the process, under way in a change and
  in a job; and that the process works with the stored settings but between the write of a
  change and its publication, or after one that failed.  A change computed from a process
  that is behind keeps `Coherent` only if it writes what the database has already, which is
  what `mixed` excludes, as deletions are excluded (`Orderly`); a second administrator would
  break it, too, hence the hypothesis (section 4).  `JobsSound` is why what is ready is found: until
  the change is published every job works for the present settings; a job that does owns
  its row; vectors lie under the signature of the job that owns the row; so a ready file
  with old vectors is about to be marked, by the change or by the job that made it ready.
* `TimelineProofs`: `TimelineInvariant` adds to `TimelineSafety` that a grant has read the
  rows there are (`CallsSound`) and that a switch to the free plan ends nothing
  (`FreeIsEmpty`).  The argument is about the line of segments and queued
  grants that `Build` works on: the segments leave no gap and are ordered by tier
  (`InOrder`), and each queued grant begins where the tiers from its own up reach
  (`Reaches`).  So a placement is one piece behind these tiers (`SlotsInOrder`,
  `PlacedWhole`), what is left of the others follows it without a gap (`CutBehind`,
  `PlacedInOrder`), and what it takes from them, it takes so that they are reached where
  that is granted again (`DisplacedReaches`, `PlacementInOrder`).  `Normalize` keeps all of
  it (`NormalizeInOrder`, `NormalizeReaches`); `BuildIs` shows by `Induction` that the
  recursive function of `Build` exists, `BuildSound` what it keeps, for a queue of any
  length.  `ApplyRows` shows that each segment gets one row, that rows used again keep
  their ids, and that a row under way keeps its beginning.
* `TimelineProofs` also proves `BankImplemented`, by counting slots.  `Normalize` keeps
  the slots of every plan (`NormalizeSlots`); a placement adds those of the grant, disjoint
  from what its plan had, and takes from each lesser plan what lies before its end
  (`PlacedSlots`); what is queued for it has a unit for each slot that was taken, neither
  more nor less (`DisplacedSlots`, `UnitsDisplaced`).  So slots laid out and units waiting
  stay the same for every plan (`Amount`, `PlacementKeeps`).  `Build` makes length times
  plans placements and no more: that the queue is empty by then follows from `Work`, a
  grant's slots times the plans of its tier and below, which every placement makes less
  (`PlacementEnds`), since what it displaces is no longer than itself and of a lower tier.
  With `BuildKeeps` a commit is the bank's `Grant` (`CommitLeaves`); a slot that passes is
  `Spend` of the plan whose row covers it, the best one because the timeline is in order
  (`AdvanceLeaves`); `BankStep` puts the steps together.
* `AgendaProofs`: `ReminderInvariant` says that the calendar has moved beyond each
  occurrence it made, so that no time is made twice, and that what is open is of the present
  calendar and fell, or falls, due after the reminder became active (`CalendarSound`); that
  what is being sent or was sent has fallen due, that two dispatchers never hold the same
  message, and that what still waits is not among these (`SendingSound`): a snooze always
  moves the due time beyond them.  `PlanStep` proves it for whatever the user or the
  scheduler makes of plan and occurrences, `NoticedStep` for what dispatchers write.
  `CreditsSound` counts each message under way as a credit taken; it needs `Legacy = {}`,
  the other two theorems do not, and section 4 shows what happens without it.  That a
  suspended occurrence is of the present calendar had to be added for `Resume`.
* `AgendaProofs` also proves `OperationsAreSafe`, from `OperationsInvariant`.  Lemmas say what
  each operation makes of the rows (`RemovedTo`, `ReturnedTo`, `FinishedTo`, `ReopenedTo`):
  every row is as before or a new version of it.  `RowsSound` keeps the times of the rows
  behind the time of the next operation, so that the rows an operation changes can be told
  from all others by their times: that is what makes an undo exact
  (`DeletionCanBeUndone`, `CompletionCanBeUndone`, kept in `UndoReady`).  `TouchedSound`
  says that a row that was touched differs from what was generated, or its task does; so
  `MayUndo`, which compares both, deletes nothing that was touched: a change of one step
  counts as a change of its task.

Only model-checked: everything of `TodoSync`; `ResumesEnd` of `GenerationStream`; `RemindersProgress`, `ListIsTrue` and `CancelStops`,
`KnownBlocksConverge`, `Recovers`, `CallsSettle`, `Progress`, `NoFileIsStuck`,
`BarrierProgress`, which are liveness or state it.  What a library fold or `SelectSeq`
computes is out of the prover's reach (`TodoSync` filters its outbox with it).  Liveness under fairness and
ENABLED stay with TLC too.

## 6. Plan

Proofs: the invariants of `TodoSync`, which uses the operations of `TodoOperations`.

Modules: registration codes, check-ins and invitations (limits under concurrency); the
conversation core (branches, the tool loop, compaction with its scope, post-billing
tasks); the companion's conversation lease, initiatives and follow-ups; the backoff of
rate limits and failover.

## 7. Not modelled

User interface, model adapters, text processing, reports, settings and other
single-row edits have no protocol that interleavings could break; generated API
documentation is no program.  Usage pricing is arithmetic over tokens and rates without
state; a model needs only that a call costs some amount.  What each modelled part leaves
out stands under section 2; every component is listed with its status and reason in
`PROJECT.json`.

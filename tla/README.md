# Verification of TabroAPI

TabroAPI is a gateway: a client sends an AI API request (Anthropic, OpenAI,
Gemini or media format), the gateway picks an upstream account, forwards the
request and charges somebody for it. The money may be kept locally or by an
external billing authority (the "billing center"). The Go code is under
`src/backend`; this directory holds TLA+ models of its protocols, TLC
configurations and TLAPS proofs. `PROJECT.json` maps every definition to its
lines and lists the hazards the properties are for.

## 1. Inventory

| Component | State | Operations | Hard behaviour | What makes it correct |
|---|---|---|---|---|
| **Billing operation** (`billingcenter/coordinator.go`, `operation.go`, `execution.go`, `repository/billing_center_repo.go`) | a row per operation: state, version, attempt, remote version | Reserve, Dispatch, enqueue of a terminal event, mark for reconciliation | duplicates of a request, unknown outcomes of two HTTP calls, crash anywhere, commits of unknown outcome | one permit to call the supplier; no release of permitted work; no charge without work |
| **Billing outbox** (`billingcenter/worker.go`, `client.go`, repository) | an event per operation: status, lease | claim, deliver, complete, retry, block | several workers, lease expiry, late and lost answers, redelivery | final rows never change and repeat what the authority said; nothing waits for ever |
| **Billing reconciliation** (`billingcenter/reconciliation.go`, `repository/billing_center_reconciliation.go`) | receipts | scan, fetch, validate, apply a decision | races every other writer of the two rows | applied once, on the state it was taken for; eventually applied |
| **Gateway execution, usage settlement, media jobs** (`service/gateway_billing_*.go`, `media_billing_*.go`, `usage_billing_repo.go`) | execution in memory; media job rows; usage ledger | prepare, gate before each supplier write, finish, usage, poll of jobs | stale read in Finish, failover, in-memory usage, jobs that outlive requests | the settlement is part of the ledger's transaction and built on the operation's own version |
| **Replay tool** (`billingmigration/registrations.go`) | the outbox row | replay of a blocked event | operator acts at any time | a replayed event can be finished |
| **Central payment bridge** (`billingcenter/payment_*.go`) | checkout and refund jobs, payment outbox | checkout, paid, cancelled, refund, deliver, poll | webhook against poll, provider call never retried, several processes, order of events of one entity | one payment and one refund at most; the authority is told only what the provider did; ends are final; payments are credited without callbacks |
| **Local payment orders** (`service/payment_order*.go`, `payment_fulfillment.go`, `payment_refund.go`) | order rows, redeem codes, audit log | create, webhook, verify, cancel, expire, fulfil, retry, refund | webhook against expiry, retried fulfilment, failed statements between two effects | credited once and only when paid; a payment settles; a refund gives back and takes once |
| **Redeem codes** (`service/redeem_service.go`, `handler/admin/redeem_handler.go`, `repository/redeem_code_repo.go`, `user_repo.go`) | code rows, balances, a Redis lock without owner | redeem, create-and-redeem, expire, delete; charges and saves of a user | a lock that lapses, retries of an order, whole-row saves from stale reads | a row pays once; answers are true; balances add up |
| **Idempotency coordinator** (`service/idempotency.go`, `repository/idempotency_repo.go`) | record: status, lock, expiry | execute, replay, reclaim, mark, clean up | expiry while the owner runs, store errors before and after a statement | one execution at a time; no second effect inside a record's lifetime; a replay is of the same request. A record in `processing` whose lock has elapsed is *not* reclaimed before `expires_at` |
| **System operation lock** (`service/system_operation_lock_service.go`) | one row of the same table | acquire, renew, release | missed renewals, late claims, takeover | exclusion until a lease lapses, which has a cause |
| **Concurrency slots** (`service/concurrency_service.go`, `repository/concurrency_cache.go`, `handler/gateway_helper.go`) | Redis sorted sets and waiting counters | take, wait, release, sweep, clean at start | cancelled clients, lost answers, TTL against long requests, a process that starts beside another | never above the limit and no slot leaks, but for named causes |
| **User message queue** (`service/user_msg_queue_service.go`) | a Redis lock with an id, the last completion | acquire, delay, release, clean up | fail-open calls, TTL, client away, lost TTL | one message at a time with the delay between, but for named causes; the lock comes free |
| **OAuth token refresh** (`service/oauth_refresh_api.go`, `token_refresh_service.go`, token providers) | credentials row, token cache, Redis lock, process mutex | refresh if needed, recover, 401, administrator's refresh | single-use tokens, lock TTL, degraded mode, stale lists | the live token is the stored one; an account is disabled only with a cause |
| **Scheduler snapshot** (`service/scheduler_snapshot_service.go`, `repository/scheduler_*`, `account_repo.go`) | account payloads, a list per bucket, outbox with watermark | write and enqueue, poll, rebuild, fall back | late commits, several pollers, copies written from stale reads | no event is passed over; the cache catches up with the database |
| **Authority route and migration fence** (migrations 119-125, `billingmigration/`, `cmd/billing-migrate`) | a route per account: mode, epoch, batch; the audit of its export; the snapshot file | map, shadow, drain, freeze, export, record, activate; triggers on every local money table | writers in flight during the switch, commands at another isolation level, a command that dies between file and record | the funds of a fenced account stand still; the authority opens with exactly them; admitted work is charged |
| Account selection, failover and rate limits | statistics, cooldowns | pick, fail over | retries, capacity | bounded attempts |
| OpenAI WebSocket pool and forwarder | pooled connections | lease, prewarm | capacity | no connection shared |
| Usage record pool, billing cache | queues, Redis counters | enqueue, flush | overflow, staleness | local charging only |
| Promo codes, subscriptions queue, sessions, API keys, login | rows and caches | authenticate, extend | stale cache | single use |
| Conversion, pricing, administration, monitoring, frontend, generated code | - | - | - | no concurrent state of their own |

How they interact: the HTTP middleware prepares a billed execution and finishes
it (`server/middleware/gateway_billing.go`); the upstream client asks it for
permission before each supplier write (`repository/http_upstream.go`); the
handler runs the usage task, whose ledger transaction inserts the settlement
event (`repository/usage_billing_repo.go`); the media service persists jobs that
are billed by a background worker; outbox workers of every process deliver
events to the authority and apply operators' decisions. A local payment order
credits by creating and redeeming a code. The coordinator and the system lock
share one table and its statements. A request passes the message queue and the
two stages of slots before the supplier, takes its token from the provider that
refreshes it, and its account from the scheduler's cache.

## 2. Modules

`BillingCenter.tla` models one operation and everything that can touch it.
All statements are keyed by the operation and none relates two operations, so
one operation is the whole protocol. Granularity: a database statement or
transaction is one step; a read whose result a later statement uses is a step
of its own, and the reader keeps what it saw (`seen`, `got`); an HTTP call is
sent, applied by the authority (late, or never) and answered (or not).

| State | Code |
|---|---|
| `op` | row of `billing_center_operations`: state, version, attempt, remote version (`rver`) |
| `outbox` | the operation's row of `billing_center_outbox` (a unique key allows one): status, kind, the version in its body, lease token (`holder`), whether the lease is live |
| `receipt` | a row of `billing_center_reconciliation_receipts` |
| `exec[e]` | a request or WebSocket turn: where it is, what it last read, whether it attempted a dispatch, whether a job took over |
| `task[e]` | its usage task (text) or persisted media job |
| `worker[w]` | a delivery goroutine of some process |
| `permits` | executions whose `BeforeSupplierRequest` returned nil |
| `auth`, `case`, `*Sent` | the reservation at the authority, the published decision, the requests on the wire |

| Actions | Code |
|---|---|
| `CreateIntent`, `GetOperation`, `SendReserve`, `ReserveAnswer`, `BindReservation` | `Coordinator.Reserve` and its statements |
| `BeforeSupplierRequest`, `ClaimDispatch`, `DispatchAnswer`, `ConfirmDispatched` | `Execution.BeforeSupplierRequest`, `Coordinator.Dispatch` |
| `CreateJob`, `GiveUp`, `SupplierAccepted`, `SupplierFailed`, `Failover` | media service, handlers, upstream client |
| `Finish`, `FinishRelease`, `FinishMark`, `ExecCrash` | `GatewayBillingCoordinator.Finish`; a crash |
| `JobReport`, `ReconcileFailure`, `ReconcileFailureMark`, `AttachUsage`, `ApplyUsage`, `TaskCrash` | media polling, usage attachment, ledger transaction |
| `PendingReconciliations`, `FetchResolution`, `NothingToReconcile`, `ApplyReconciliation` | `Worker.reconcile` |
| `Claim`, `NothingToClaim`, `DeliveryConfirmed`, `Complete`, `Retry`, `WorkerCrash`, `LeaseExpires` | `Worker.RunOnce`, `deliver` |
| `Replay` | `billing-migrate replay-outbox` |
| `Authority*`, `AdminResolve` | the external service, as the client relies on it |

Abstractions: payloads, quotes and amounts are dropped (their equality checks
compare a deterministic body with itself); time is not a number, so what
depends on age or on a deadline may happen or not; the lease token is the
worker that holds it, because a worker drops its token before it claims again.
`AttachUsage` joins two reads, of the operation and of its event: what the
later transaction compares is the remote version, and every write that moves
it leaves a state that transaction refuses. The mutated operators (`Mutant:`)
stand beside their originals and are used by nothing.

`BillingPermit.tla` is the abstract promise: at most one permit, given while the
operation is open; closed once; the gateway closes it as settled only after the
permit and as released only without one; an operator may close it either way.

`MCBillingCenter.tla` gives the small instances; `BillingCenterProofs.tla` extends
`BillingCenter` with the proofs.

`PaymentBridge.tla` models one order that the authority sells, one refund of it,
and the bridges of several gateway processes that work on both. Granularity is
the same as above.

| State | Code |
|---|---|
| `order` | what is frozen about the order: imported or not, and what its provider adapter can be asked |
| `job`, `refund` | rows of `billing_center_payment_jobs`, `billing_center_refund_jobs`: state, whose reference or id is stored |
| `outbox`, `delivered` | rows of `billing_center_payment_outbox` in the order of `created_at`; those with `delivered_at` |
| `bridge[p]` | where process `p` is inside `Tick`, the events of its page, the last answer |
| `sent`, `calls` | requests on the wire; how often the provider was asked to create and to refund |
| `auth`, `psp` | the order at the authority, the payment at the provider |

| Actions | Code |
|---|---|
| `ReadEvents`, `SendEvent`, `EventDelivered`, `EventFailed`, `DeliverFails` | `PaymentBridge.Deliver` |
| `PaymentWork`, `PaymentWorkFails` | the page of work in `Tick` |
| `CreateOrder`, `ClaimCheckout`, `ClaimAnswer`, `CreatePayment`, `CompleteCheckout`, `CheckoutFails` | `Checkout` and its statements |
| `Notify` | the provider's callback |
| `PollSelect`, `QueryOrder`, `RecordAnswer`, `PollFails` | `PollPayments` |
| `AdoptOrder`, `CreateRefund`, `ClaimRefund`, `SendRefund`, `RefundAnswer`, `QueryRefund`, `FinishRefund`, `RefundFails` | `Refund`, `finishRefund` and their statements |
| `Crash` | the process stops anywhere and starts a new tick |
| `Authority*`, `Provider*`, `CustomerPays`, `SessionCloses` | the two external services, as the bridge relies on them |

Abstractions: pages are never full (one order has at most four events); the
`Deliver` that ends a tick and the one that begins the next are one; `created_at`
is the start of the transaction, so an event is inserted anywhere in the outbox;
an order and its refund are never on one page of work, because the authority
asks for a refund only of a paid order. Amounts, currencies and hashes compare a
value with its own frozen copy and are dropped. The state
`reconciliation_required` is never written (`ReconcileOrder` has no caller, and
`finishRefund` refuses an answer without an id), so it does not occur. The
provider's outcomes are final: a paid session does not close, a successful
refund does not fail. What an adapter's `CreatePayment` returns as its reference
is always kept as "session"; some adapters return none, and for those no step
looks at it.

`MCPaymentBridge.tla` names the kinds of order (by provider adapter, and
imported); `PaymentBridgeProofs.tla` extends `PaymentBridge` with the proofs.

### Records: `IdempotencyRecords`, `Idempotency`, `SystemLock`

`IdempotencyRecords` holds the six statements of
`repository/idempotency_repo.go` as operators from a row to a row
(`CreateProcessing`, `TryReclaim`, `ExtendProcessingLock`, `MarkSucceeded`,
`MarkFailedRetryable`, `DeleteExpired`); a NULL lock is 0, and `TryReclaim`
leaves the fingerprint as it is. Its two users are modelled on one row each.

`Idempotency`: `row` is the record, `req[r]` a call of `Execute` with the time it
captured at its start and what it read. `Begin`, `Create`, `GetExisting`,
`ReclaimExpired`, `GetLatest`, `ReclaimFailed`, `Execute`, `ExecuteReturns`,
`MarkFailed`, `MarkDone` follow the function from repository call to repository
call, each of which may fail before or after its statement took effect; `Crash`,
`Cleanup` (the cleanup service) and `Tick` are the environment. `slow` remembers
that an owner outlived its record or claimed after its own lock deadline.

`SystemLock`: `op[o]` is an update, rollback or restart; `Renew` is one round of the
renewal goroutine, `Finish` and `Release` its end. `late` and `foreign` remember the two
ways a lease may lapse: a claim too late for a missed renewal, and a row that
still carries an earlier operation's id, for which no renewal matches.

### `RedeemCodes`

One code, its row (`code`), the balances, the Redis lock and error counters, calls
that redeem it (`call[c]`), an administrator's expire (`expire`) and saves of user rows
(`save[s]`). `Lookup`, `Create`, `Latest` are create-and-redeem; `CheckLimit`,
`AcquireLock`, `ReadCode`, `ReadUser`, `Transaction`, `Reread`, `ReleaseLock` are `Redeem`, whose
transaction is one step because its first statement locks the row; `Delete`,
`ExpireRead`/`ExpireWrite`, `Debit`, `SaveRead`/`SaveWrite` are what else touches the rows.
`ExportRedeem` hands an unused code to the billing authority; from then on a trigger (`NotMoved`)
refuses every update of the row, so the transaction of a redeem that read it earlier fails.

### `AuthorityRoute`

One account on its way from local money to the authority.

| State | Code |
|---|---|
| `route` | the row of `billing_center_account_routes`: mode, epoch, batch; `opening` is the export the authority opened the account with |
| `money` | the local rows: wallet, one order, the status of one key |
| `holder` | the transaction that holds the lock of the `users` row |
| `writer[w]` | a charge, or a step of an order's or a refund's life: admitted by the application, inside its transaction, or refused by the trigger |
| `command[o]` | a run of `billing-migrate`: what it waits for and what its snapshot shows |
| `files`, `recorded` | export files; the hash in the audit row `export` |

| Actions | Code |
|---|---|
| `Admit` | `GatewayBillingCoordinator.Route`, `legacyPaymentAuthority` |
| `AssertLegacyWrite`, `LegacyWriteFenced`, `Commit` | the triggers of migration 120, the end of the transaction and what the application does next |
| `DisableKey` | an update of a key that the trigger exempts |
| `BeginCommand`, `GiveUp`, `Map`, `Shadow`, `Drain`, `Freeze` | `billing-migrate`, `Source` |
| `Export`, `WriteFile`, `BeginRecord`, `RecordExport`, `Activate` | the export command in its three steps, and the activation with the target's receipt |

What matters is when each side reads. A writer runs at READ COMMITTED and looks at
the route once it holds the row. A command runs at SERIALIZABLE: its snapshot comes with
its first statement, the one that waits. If the row it waited for was *updated*, it
fails (`Touch`); if it was only *locked*, it goes on with what it saw before the wait (`clear`,
`recorded`). Every change of a route updates the `users` row, so a route cannot change
unnoticed, and the model reads it as it is. `SetRoute` is the trigger that allows the
transitions of modes. The statuses of an order are those the counts tell apart. `Reviewed` is the
operator's evidence, taken at its word: no request of the gateway is under way. The mode
`fenced` is allowed by the table and written by nothing; a subscription's charge is a charge that does not
update the `users` row; a rollback of a refused refund is left to `PaymentRefunds`.

### `PaymentOrders`, `PaymentRefunds`

`PaymentOrders` follows an order from creation to fulfilment. A worker is a request
handler or the expiry job, at the place its `pc` names.

| Actions | Code |
|---|---|
| `CheckPendingLimit`, `Insert`, `Invoke` | `CreateOrder` |
| `CancelOrder`, `ExpireTimedOutOrder`, `VerifyOrder`, `QueryOrder`, `CancelPayment`, `UpdateStatus` | `cancelCore`, `checkPaid`, the expiry loop |
| `Notify`, `ToPaid`, `AlreadyProcessed`, `RetryFulfillment`, `Reset` | callbacks, `confirmPayment`, retry by the administrator |
| `Claim`, `Lookup`, `CreateCode`, `Redeem` | `executeFulfillment`, `doBalance` |
| `CheckAudit`, `ReadSub`, `WriteSub` | `doSub` |
| `MarkCompleted`, `MarkFailed`, `Crash` | the ends of a fulfilment |

`prompt`, `blind` and `hurt` are history: paid in time, provider not reached, fulfilment
cut short. `Redeem` is one step because `RedeemCodes` shows that a code pays once. A creation that
fails may have opened the payment at the provider before the order's row could not be updated; `Invoke` is one
step, so that a customer who pays between the provider's answer and the write of `FAILED` is not modelled.

`PaymentRefunds` is `payment_refund.go` for one completed order: `PrepareRefund` (the
plan, made before any lock), `Lock`, `Deduct`, `GatewayRefund`, `Rollback`, `RestoreStatus`,
`MarkRefundFailed`, `MarkRefundOk`, each of which may fail. A deduction or a rollback that answers an
error may have been committed all the same: the answer was lost, or `ExtendSubscription` failed in
one of the statements after its update. A subscription that the deduction would end is
deleted (`revoked`) and cannot be extended again; one that expired by itself can. `net` remembers
what was deducted less what was given back, `kept` what was deducted by statements that answered an error.

### `TokenRefresh`, `UserMsgQueue`

`TokenRefresh` has one account whose supplier rotates the refresh token; a
generation (`gen`) is one pair of tokens, `live` the one the supplier accepts.
`Enter`, `Acquire`, `Reread`, `Refresh`, `Recover`, `Persist`, `Release` are `RefreshIfNeeded`
inside its two locks; `List`, `Consider`, `PostRefresh`, `Retry`, `GiveUp`, `SetError` the
background service; `Select`, `Lookup`, `Wait`, `CheckTokenVersion`, `SetAccessToken` the
token providers; `Answer`, `InvalidateToken`, `ForceRefresh`, `SetTempUnschedulable` the
401 handler; `Admin*` the administrator's refresh, which takes no lock. Calls that
fail are actions of their own (`AcquireFails`, ...). `causes` remembers what may cost the
account its token.

`UserMsgQueue` is the queue of one account: `lock` with its owner, whether the owner
knows it, and its time to live; `gap`, the ticks since the last completion. `marks`
remembers why a message may be sent beside another.

### `ConcurrencySlots`

`slots[k]` and `wait[k]` are the sorted set and the counter of a user or an account,
`req[r]` a request on its way through the two stages, `proc[i]` a process with the
phase of its cleaning at start. `Acquire`, `TryIsFull`, `Count`, `QueueIsFull`, `Uncount`,
`Leave`, `GiveUp` are the helper's loop, in the two orders of the handlers (Anthropic counts
first, OpenAI tries first); `Select`, `Refuse`, `Finish`, `Release`, `Goes` the handler; `SlotExpires`,
`CounterExpires`, `Start`, `Clean` time and processes. A member that nobody will
release is kept as `left`.

### `SchedulerSnapshot`

`db` is one account's row (a version, and whether it is available), `payload` its
copy in Redis, `list` the bucket's list, `outbox` the committed events, `recent` the dedup
window. Writers are the operations of `account_repo.go` and `group_repo.go`, by what they write, enqueue and
synchronise (`kind`): `Change`, `Unbind`, `Enqueue`, `Insert` (the commit, in any order of ids),
`SyncRead`, `SetAccount`. Pollers replay: `ListAfter` (the next `Page` by id), `GetAccount`, `WriteAccount`, `HandleGroup`,
`SetOutboxWatermark`; pollers and full rebuilds rebuild a bucket: `TryLockBucket`, `LoadAccounts`,
`WriteAccounts`, `SetActive`; a request falls back to the database in any state (`Fallback`): on an empty list, a
missing payload, a failed read, or a snapshot that was replaced while it was read.
Nothing ends a rebuild whose lock lapses (`LockExpires`): the lock's 30 seconds begin at SETNX, those of the
context with the answer, and a Redis call that is under way is not cut. It is remembered as `stray`, and
so is a rebuild that takes the lock while a stray one is still under way.

### MC modules

`MCRecords`, `MCPaymentOrders`, `MCTokenRefresh`, `MCPaymentBridge` (with `AuthorityRoute`) and `MCLive` put two modules side by side: a
variable `part` says which of them a behaviour belongs to, and the other stays in
an initial state. They share no variable, so every behaviour of each is there
and nothing else; what the frozen part could choose at first is tied to the
choices of the running one. Fairness is restated for the part that runs. `MCLive` joins
`BillingCenter` and `PaymentBridge` for their liveness and pairs their fairness conditions one by one:
`part` never changes, so "a step of this kind here or of that kind there" is, in every
behaviour, the condition on the part that runs.
`MCTokenRefresh`, `MCSchedulerSnapshot`, `MCConcurrencySlots` and `MCRedeemCodes` further split their
component into casts or scenarios, each with some of the actors or events: a
cast removes only actors that may as well never act.
`MCBillingCenter` only gives an instance. Where a bound (a clock, faults,
calls) ends the system, the run sets `CHECK_DEADLOCK FALSE`.

## 3. Runs

| Run | Instance | Shows |
|---|---|---|
| `billing_center` | 2 executions (one media), 2 workers | type invariant; `OnePermit`, `NoReleaseOfPermittedWork`, `NoChargeWithoutWork`, `FinalMirrorsAuthority`, `RowsAgree`; `FinalIsFinal`; the protocol implements `BillingPermit` |
| `billing_release` | 2 executions, 1 worker | violation: a release after dispatch started |
| `billing_replay` | 1 execution, 1 worker | violation: the result of a replayed event cannot be recorded |
| `payment_bridge` | 2 processes, all kinds of order; beside it an account that moves: 2 writers, 2 operators, 2 batches | type invariant; `OneExternalEffect`, `PaymentOutcomeIsTrue`, `RefundOutcomeIsTrue`, `RowsAgree`, `PaidKeepsReference`; `SettledIsFinal`; of the move `SwitchSound`, `FencedMoneyStands` |
| `live` | 1 media execution and 1 worker; 1 process and the kinds of order whose liveness differs; fairness | `OutcomeArrives`, `DecisionArrives` |
| `authority_freeze` | 1 writer, 1 operator, 1 batch | violation: an account is frozen with an open order |
| `records` | 3 requests with 2 payloads; 3 system operations with 2 ids | `OneExecutionAtATime`, `ExclusionUntilLapse`, `RecordsSound`, `NoSecondEffectBeforeExpiry` |
| `redeem_codes` | 2 calls of 2 users, or 1 call among charges and 2 saves | `PaidOncePerRow`, `AnswersSound`, `BalanceAddsUp` |
| `payment_orders` | 1 order of either type, 2 workers, 2 faults; 2 refunds, 3 faults (206,000 states) | `BalanceCreditedOnce`, `CreditNeedsPayment`, `OrdersSound`, `OrdersSettle` (fairness); `OneRefundAtATime`, `RefundsSound` |
| `token_refresh` | casts of 2 callers, 3 generations, 1 fault; 2 messages, 1 fault | `OneRefreshAtATime`, `CredentialsSound`, `QueueSound`, `Progress` (fairness) |
| `slots` | 3 requests of 1 process, or 2 of 2 processes, 1 fault, 1 crash | `SlotLimits`, `NothingLeaks` |
| `scheduler` | five casts, 2 changes each, 1 fault where it matters (545,000 states) | `ReplaySafe`, `CacheConverges` (fairness) |

### Grouped properties

Some properties are conjunctions of named parts, each stated with its comment in
the module; a mutant in `PROJECT.json` breaks each part that says something about the code.

| Property | Parts |
|---|---|
| `SwitchSound` | types; `OpeningIsLocal`; `AdmittedWorkIsCharged`; `OpenOrderWasRaced` |
| `OutcomeArrives` | `BillingCenter!DeliveryIsDecided`; `PaymentBridge!PaymentIsCredited` |
| `DecisionArrives` | `BillingCenter!DecisionIsApplied`; `PaymentBridge!RefundIsDecided` |
| `RecordsSound` | types of both; `ReplayedFromSameRequest` (a replay is the result of a request that asked for the same); `LapseHasCause` |
| `AnswersSound` | types; `OkMeansPaid`; `PaidUserGetsOkUnlessErased` |
| `OrdersSound` | types; `CompletedWasCredited`; `StrandedOnlyByFault`; `PromptPaymentLostOnlyIfBlind`; `GrantedTwiceOnlyAfterFault` |
| `OrdersSettle` | `PaidIsNotClosed`; `CompletedStays`; `PaymentSettles`; `OverdueLeavesPending` |
| `RefundsSound` | types; `RefundWithinAmount`; `PaidBackIsFinal`; `GivenBackUnlessLogged`; `DeductedWithinAmount`; `StuckOnlyByFault` |
| `CredentialsSound` | types; `LiveTokenKept`; `DisabledWithCause`; `StoredForward` |
| `QueueSound` | types; `Serialized`; `GapKept` |
| `Progress` | `DueIsSettled`; `LockComesFree` |
| `SlotLimits`, `NothingLeaks` | types, `LimitKept`, `WaitBounded`; `NoSlotLeaks`, `WaitMatches` |
| `ReplaySafe` | types; `WatermarkCovers`; rebuilds never replace a newer list with an older one (where no request falls back and while no rebuild is stray) |
| `CacheConverges` | `ListConverges` where full rebuilds run; `PayloadFollows` where one poller is the only writer of payloads |

### Bounds

Billing: nothing is cut off by a state constraint: versions grow only with the
steps of finitely many executions and one terminal event, so the state space is
finite. Two executions give every race between an owner and a duplicate (a
third has the same role as the second); one of them is a media job and the other
text, the two kinds of work. Two workers give every race for a lease: a third
could only hold an older token. The workers are interchangeable, hence the symmetry of
`billing_center`; liveness runs without symmetry. No billing run disables deadlock
checking: a worker can always poll.

The bridge in `payment_bridge` has no bound beyond the number of processes: an order has one
job, one refund and at most four events, and the call counters cannot pass one.
Two processes give every race for a claim and every stale answer against a
newer one; a third only repeats the part of the second. The liveness run keeps
one process for the order, whose ticks are where progress comes from; crashes are part of it.

The account in `payment_bridge`: two writers are one that holds the lock and one admitted before
or after; two operators run two commands of the seven against each other; two batches are a
route's own and another. `MinBalance` bounds the charges: with 1 to spend and one order a
wallet reaches every relation to its export. The status of a key changes once.

`records`: three requests are an owner, one that read its record, and one that
claims in between; two payloads make a conflict. Times are one or two ticks (TTL
2, processing timeout 1, backoff 1; lease 3 with a renewal each tick) and the
clock stops after 3 or 4, past every deadline of the first owner. Two operations
may share an id, as retries do. One renewal fails.

`redeem_codes`: a code is worth 1 or -2 (a refund larger than the balance), one
error reaches the limit, a user is charged once. The two scenarios keep the
retries of a code apart from the saves of a row: they meet only in the balance.

`payment_orders`: one order, since orders meet only in the pending limit (see
below) and in a user's subscription, which starts absent. Two workers
race; two faults are a failed call and a failure of its repair. Refunds: an
amount of 2 gives a part and the whole; a holding of 0, 1 or 3 is none, less and more
than the amount; three faults are a failed gateway, a failed rollback and an audit log
that cannot be written.

`token_refresh`: a request has the lenient policy (Claude, OpenAI: use the old
token if the refresh fails) or the strict one (Gemini, Antigravity); each is cast beside a
background service, as are a second service and an administrator. The strict cast has no
faults, to keep it small: a strict request that fails ends with an error and touches nothing. Three generations are a rotation and the
one that overtakes it. The queue has a lock of 3 ticks and delays of 1 or 2.

`slots`: a user with two slots and an account with one make both limits bite;
one waiting place per key is full with two requests; one failover.

`scheduler`: two changes are the smallest number that can be reordered; a batch of
two holds both. The casts: `pollers`, two pollers and changes of a group or of every bucket, with one failed
call, crash, or rebuild that outlives its lock; `rebuild`, a poller, the full rebuild and a request that falls back;
`copies`, a stale copy written beside a synchronisation; `syncs`, two changes that enqueue and synchronise, so
that the synchronisations may cross and the second event may fall into the window of the first, beside
the full rebuild; `events`, one poller alone. Faults are left to the casts whose properties are about them. In
the cast of two pollers the account stays available, because its property looks only at versions.
Outside `events` the account is available at first. The writers are alike: the order of their kinds, and
of the changes of one kind, is fixed. No cast has a stray rebuild beside the full one: what it
adds is a list written without the lock, which a request that falls back writes in `rebuild`.

### Fairness

`BillingCenter!Fairness`. Worker goroutines poll for ever (`Worker.Run`), so each
worker keeps stepping; it does not spend its whole life in one of the two halves
of a round; an answer, a decision and a due event that are there again and again
are in the end taken, because a crash, an outage or an expired lease does not
recur every time (the lease is validated to be longer than an attempt,
`NewWorker`). A lease whose holder is gone expires. Of the authority: an event
that it received and can apply, it applies, which for a usage charge means that
the payer's funds return, and an event it can never apply gets its final
refusal. Nothing is assumed of requests, jobs, operators or administrators.

`PaymentBridge!Fairness`: `Run` ticks for ever, so each bridge keeps stepping,
and each step on the way of an event, a poll or a refund query is taken in the
end if it is possible again and again: no call fails and no crash strikes at the
same place every time. An event that reached the authority is applied. Nothing
is assumed of the callback, the customer or the provider; `Notify` may never
happen. A payment whose provider can only be asked by a reference that was lost
(Stripe, `byReference`) is outside `PaymentIsCredited`, as a refund that cannot be
asked for is outside `RefundIsDecided`: the code decides neither.

`PaymentOrders!Fairness`: a handler that was started goes on; the expiry job looks
at every overdue order; the provider repeats a callback until it is answered. The
last two are strong, because the two workers are the model's and the code does not ration them.

`TokenRefresh`: the services loop for ever and enter the API in the end although
another caller holds the process mutex now and then; a request inside the
API goes on; a Redis lock expires. `UserMsgQueue`: handlers run, the supplier
answers, time passes, and the worker's ticker fires; its two calls are never
both enabled, so one conjunct is enough.

`SchedulerSnapshot`: timers fire, calls return, a lock expires. A full rebuild that keeps
finding the bucket's lock taken still comes in time (strong fairness of `TryLockBucket`).

### Findings

The three violations are findings of `PROJECT.json`:
- `DefiniteResultIsRecorded`: `Replay` returns a blocked event to the queue but
  leaves its operation in `reconciliation_required`; `Complete` needs the pending
  state, so the answer can never be stored and the event circulates until an
  operator's decision supersedes it.
- `ReleaseOnlyBeforeDispatch`: a duplicate that read the row as reserved can
  queue a release after another execution's dispatch, if that was never
  confirmed locally. `NoReleaseOfPermittedWork` holds, so what ran is not given back.
- `FreezeLeavesNoOpenOrder`: `Freeze` counts open orders in a snapshot from before it waits for the
  `users` row. A writer that only locks that row (an order is created, a status changes) can
  commit during the wait and is not counted; the order stays open in an account where nothing
  can complete it. `OpenOrderWasRaced` shows that this is the only way.

### What the code does not give

The properties name their exceptions, and each exception is a behaviour the
runs reach. A reader may take them as the limits of the code's guarantees. For the
hazards that are exceptions themselves a property bounds what goes wrong rather than forbids it (their
notes in `PROJECT.json` say so).

- Billing: a process that dies after Reserve leaves the row reserved, and no sweep releases it.
- Payment bridge: a process that dies between the claim of a checkout and the provider's call
  leaves the order dispatching for ever; a poll takes the 20 rows oldest by `updated_at`, which polling does not
  move, so 20 open orders shut out the rest.
- Move of an account: an export whose file is lost, or after which a key's status changes, cannot be
  recorded again under its batch, so that batch is never activated.
- Idempotency: a request that read a succeeded record just as it expired can
  take it over after another one reclaimed and finished it (`TakenOver`), and a second effect
  starts beside a result that is still valid: its own, or, once it ended, that of a request that
  follows it. The latter takes four requests; the proof found it, and no run of three can.
  An owner that outlives its record shares the key (`slow`).
- System lock: a takeover leaves the earlier operation's id in the row, so the
  new holder's renewals match nothing and its lease lapses while it works.
- Redeem: expiring a code writes the whole row read before and can erase a
  `used_by`; a save of a user writes the balance it read over a charge.
- Orders: a fulfilment cut off after its claim leaves `RECHARGING`, which nothing
  takes up; a failed audit read or write lets a retry grant a subscription twice; a
  payment made in time is lost if the query at expiry failed and the callback comes after the grace;
  a failed creation sets `FAILED` whatever the status is by then.
  The count of pending orders locks nothing, so two creations can pass it together.
- Refunds: a deduction that was committed and answered an error is not given back and not logged, the
  order is restored, and a retry deducts again (the check of the audit log looks for
  failed rollbacks only); a rollback that answered an error may have given back what the log says it did
  not. Without a trade number the gateway is not asked and the refund
  succeeds; a lost answer of the gateway allows a second payment back (no refund
  id is sent); a rollback that can be neither done nor logged is deducted twice.
- Tokens: a 401 rewrites the credentials of the request's copy and can store an
  older pair over a newer one; a holder slower than the lock's time to live, or Redis
  away, lets a single-use token be spent twice, which the recovery repairs if it can read the row.
- Queue: a client that goes away while its message is at the supplier gives the
  lock back; every Redis error lets a message go on unlocked.
- Slots: a process that starts removes the live slots of the others; a
  client that goes away gives its slot back while the supplier still works; a failed count is undone
  all the same and uncounts somebody else.
- Scheduler: an event inserted late, with an id below the watermark, is passed over; two
  synchronisations of one account can cross; a second change within the dedup
  window of a handled event writes none. Full rebuilds repair all three (cast `syncs`). A rebuild that outlives its lock, or a request that falls
  back, can put an older list over a newer one: `SetSnapshot` has no fence. The next rebuild repairs it.

## 4. Proofs

`BillingCenterProofs.tla`, for any sets of executions and workers:

- `TypeCorrect`: `Spec => []TypeOK`, one lemma per action.
- `AtMostOnePermit`: `Spec => []OnePermit`. `OnePermit` is not inductive: it says
  nothing about messages in flight. `Inv` adds `PermitInv`: before dispatch no
  Dispatch request exists; every request on the wire names the attempt stored in
  the row; the authority dispatched only attempts that were sent; an execution
  that waits to confirm was dispatched; every permit was. `Decisions` says that a
  decision, published or held by a worker, is terminal, so that applying one
  cannot lead the row back to an undispatched state. Most steps change none of
  these (`Quiet`); `ClaimDispatch`, `AuthorityDispatch` and `ConfirmDispatched`
  are proved one by one.

- `RowsTellOneStory`: `Spec => []RowsAgree`; `FinalIsTheAuthoritys`:
  `Spec => []FinalMirrorsAuthority`; `WhatIsFinalStays`: `Spec => FinalIsFinal`. They
  need each other and two facts about what is in flight. `Closing` says that the
  authority's last answer has one author (event, expiry or operator), that the
  published decision is that answer, and that a worker about to apply a decision
  or to acknowledge an event holds exactly it (`Heard`): so the two transactions that
  close an operation can only write what the authority says. `OpenVerdict` is the
  other direction: before its last answer nobody has heard one, so the authority
  may go on. `Versions` keeps the stored remote version from going back: an
  execution about to confirm a dispatch read the version it adds one to, and every
  other write of the row breaks its compare-and-set. Steps that leave the two rows
  alone share `StillMove`, moves before any event is queued `EarlyMove`, the
  enqueueing transaction `EnqueueMove`; workers, operator and authority are proved
  action by action.
- `PermittedWorkStays`: `Spec => []NoReleaseOfPermittedWork`; `ChargesAreForWork`:
  `Spec => []NoChargeWithoutWork`. `PermitGuards` ties the money to the permit: an execution at
  the supplier, its task and its job have one, and the queued event, if any, is a settlement exactly
  when there is one (`EventFits`). For a release that is about to be queued this needs
  `ReleaseIsOld`: it carries the version that was read while the row was reserved, a permit moved
  the row past it, and the transaction that queues the event compares. A release can still be
  queued between a dispatch and its confirmation (the finding `ReleaseOnlyBeforeDispatch`);
  then no permit is given any more.
- `KeepsThePromise`: `Spec => ImplementsPermit`, the refinement of `BillingPermit`.
  `Promised` names what the abstract state sees; each step of the protocol leaves it
  (`Goes`), gives the permit (`Grants`), lets the authority close the operation on an event
  (`Delivers`) or on an operator's decision (`Decides`), and the guards of the abstract steps
  are the invariants above.

The only assumption is `ConstantsAssumption`.

`PaymentBridgeProofs.tla`, for any set of processes and of kinds of order:

- `TypeCorrect`: `Spec => []TypeOK`, with the lemma that inserting an event anywhere
  keeps the outbox free of duplicates (`EnqueueType`).
- `AtMostOneEffect`, `PaymentsAreTrue`, `RefundsAreTrue`: the three invariants about the
  outside world, from one inductive invariant `Inv`. Its part `Effects` says that a
  call not made yet belongs to a row that nobody claimed or to the one bridge that
  claimed it; its part `Truth` says that what a bridge has heard and not yet
  recorded (`Heard`), what is queued and what was sent (always something queued)
  agree with the provider. Most steps leave the bridge away from these places
  (`RestingStep`); `ClaimCheckout`, `CreatePayment`, `Paid`, `Cancelled`, the refund's steps
  and the provider's own are proved one by one.
- `RowsAgreeAlways`, `ReferenceIsKept`, `EndsAreFinal`: `RowsAgree`, `PaidKeepsReference` and
  `SettledIsFinal`, from `RowsInv`. With the provider's refund id in every ended refund
  these are inductive: the guards of the statements look at the row, and the row
  tells what is queued.

Its second part is about the move of an account to the authority (`AuthorityRoute`), in the
composition the run `payment_bridge` checks, for any sets of writers, operators and batches:
`MoveIsSound` (`MCSpec => []SwitchSound`) and `MoveKeepsFunds` (`MCSpec => FencedMoneyStands`). A step of the
composition is a step of the account or leaves it alone (`IsAMove`), so the argument is one about
`AuthorityRoute` itself. What the authority
opens with says nothing about the steps before, so the invariant `MoveInv` adds four facts.
`WritersHoldTheRow`: a writer inside its transaction holds the `users` row of an account that is not
fenced, so no command commits beside it. `NoChargeMeetsTheFence`: a charge under way excludes the fence
and any waiting `Freeze` that may still succeed; a drain fails every command that waits, so a `Freeze`
that meets a draining account was begun after the last charge was admitted. `SnapshotsAreTrue`: every
export, in a file, in a command or recorded, shows the funds as they still are. `AuditIsWrittenOnce`:
what a command knows of the audit is what the audit says, or nothing yet; so a receipt that
matches what an activation read matches what is recorded now.

The assumptions are `OrdersAssumption` and `AuthorityAssumption`, which names `Nothing` apart from the rest.

`RedeemCodesProofs.tla`, for any sets of calls, saves and users:

- `RowIsPaidOnce`, `AnswersAreSound`. Neither speaks of the rows that calls and
  administrators hold in memory, which is where a late write comes from. So `RowsKnown` says
  what stays true of a row once it was read: its id was issued, and if the row with that id
  was no longer unused then, it is not now. `PaidRowIsUsed` and `ReadersSawThePayment` follow the
  payment into the row and into every later copy, up to the one write that erases it
  (`expire.erased`); `RowsBacked` says that a row that names a user names one who was paid.
  The Redis lock occurs nowhere in the argument: the update of `Use` alone carries it.
- `BalancesAddUp`: `Spec => []BalanceAddsUp`. What a user was paid and given is a sum over the calls and
  saves that name him, finitely many at any time (`FewName`). The lemmas
  before it give the library's sum the laws of a sum: that it exists, that it is one, that any
  element may be taken out first. They replace induction by a smallest set, or a smallest
  size, that lacks the property (`LeastSubset`).

The only assumption is `RedeemAssumption`.

`IdempotencyProofs.tla`, for any requests, payloads, times, operations and ids:

- `ExecutesAlone`, `ReplaysOwnResult`, `NoRepeatBeforeExpiry`, of the coordinator. `OwnerHoldsRow`:
  until an owner is slow, the row is in processing with the deadlines that owner
  wrote, and whoever found an earlier record expired started before its lock ends, so that
  `TryReclaim` refuses him. `SameFingerprint` and `StoredResult` follow the id: whoever owned or read the
  row with an id asked for what its fingerprint says, and the stored answer is that of such a request.
- `LockAdmitsOne`, of the system lock: up to the first lapse a holder's lease is in the row (`HoldersLeased`)
  and no statement claims over a valid lease. It needs no relation of interval and lease.
- `RecordsAreSound`, which also says that a lapse has a cause. `RenewsInTime`: the next renewal
  comes before the lease ends, and while none failed, so does the one after it.
  This one needs `Patient`: at most one renewal fails, and twice the interval is shorter than the lease. The
  code renews every `max(lease / 3, 1 s)`, so every lease above two seconds has that.

The assumptions on the constants are `TimesAssumption` and `LockAssumption`.

`PaymentOrdersProofs.tla`, for any orders, workers, refunds, amounts and numbers of faults:

- `CreditsABalanceOnce`, `CreditsThePaid`, `StatusesAreSound`. The claim that sets `RECHARGING` is the
  lock of a fulfilment, and no other worker changes that status: `OneWorker`. The place of a worker
  says what its order's rows say (`WorkerOK`), the rows agree with the payment and with what was
  credited (`OrderOK`), and a paid order is in somebody's hands or was hurt by a fault (`Carried`).
- `PaidStaysOpen`, `CompletedIsFinal`: the two parts of `OrdersSettle` that need no fairness.
- `RefundsRunAlone`, `RefundsAreSound`. One refund is at work, so a step keeps its own part
  of the invariant only (`WorkerMoves`). `PaidBackStands` is about the statuses that can still be
  written once the gateway paid; `Books` holds the net deduction, less what was
  `kept`, against the plan of the refund at work, or against the audit log that forbids another.

The assumptions are `OrdersAssumption` and `RefundConstants`.

`TokenRefreshProofs.tla`, for any processes, callers, generations, messages and faults:

- `RefreshesAlone`, `CredentialsStaySound`. `MutexOK` and `LockOK` say who may be past which lock.
  `Ordered` and `Pending` are about every copy of the account in the row and in callers' hands:
  none is ahead of the supplier, a later generation has no lower version, and a pair still to be
  stored is the live one and is in one caller's hands. The recovery is what makes
  this inductive: it keeps a caller that was told `invalid_grant` from calling the account dead
  while the live pair is stored. The theorems are about `Spec`, where every caller runs beside every other;
  the run checks casts of two.
- `MessagesAreSound`, of the message queue: while nothing befell the lock, whoever is past it owns
  it (`Holding`), and an owner waits for what is left of the greatest delay that can be
  drawn, or has waited for it (`Spaced`).

The assumptions are `RefreshAssumption` and `MessagesAssumption`.

`ConcurrencySlotsProofs.tla`, for any processes, requests, users, accounts and limits: `LimitsHold` and
`ExitsLeaveNothing`. Both are about Redis on one side and the requests on the other, and what a request
holds follows from where it is: `ShapeOK` says which places own which slots, `HeldOK` that a request
that still needs a slot has it or was cancelled, `SlotsOK` whose each member of a set is, and
`WaitOK` what the counters count. The sets of members and of waiting requests are finite
because every one of them came by a step, so the cardinalities in `LimitKept`
and `WaitBounded` mean something for infinitely many requests too. The assumption is `SlotsAssumption`.

`SchedulerSnapshotProofs.tla`, for any writers, pollers, rebuild workers, requests, batch sizes and numbers
of faults:

- `ReplayLosesNothing`: `Spec => [](TypeOK /\ WatermarkCovers)`. `IdsApart` and `Marks` say that the watermark, and the
  last event each poller listed, are ids of committed events, and that an event still to be inserted has
  an id of its own; so an insert that commits below one of them is late, and no other is. `AllReplayed`
  says that what is up to a poller's last event is handled or still in its batch.
- `ListsGrowNewer`: `Spec /\ []NoFallback => ListNeverOlder`, where the latter exempts the steps beside a
  stray rebuild. `OneRebuild`: nothing is ahead of the row (`NothingAhead`), and either no rebuild is
  stray, and the lock's holder is alone between the lock and the switch and loaded the row after the list
  was made (`LockHeld`), or every rebuild under way is (`AllStray`), so that once they have ended the lock protects the
  list again. A request that falls back takes no lock, which is why `NoFallback` is there.
- `ReplayIsSafe`: `MCSpec => ReplaySafe`, both for the casts of the run.

The assumption is `SchedulerAssumption`: the sets of workers are disjoint and a batch holds at least one event.

Each invariant was checked by TLC on the instance of its run before it was proved.

Only model-checked:

- `OutcomeArrives`, `DecisionArrives`, `Progress`, `CacheConverges` and the parts `PaymentSettles`
  and `OverdueLeavesPending` of `OrdersSettle`: liveness under fairness, which the prover cannot reach.

Every safety invariant and action property of the passing runs has a theorem.

## 5. Not modelled

- Authority route: the registration of workspaces and credentials, the mapping of identities
  and the policy of groups and channels; several accounts that share a group.
- Account selection, failover, rate limits: mostly scoring; the loop's bound is a
  counter. WebSocket pool and forwarder: in-process mutexes around a pool; planned.
- Usage record pool and billing cache: central billing runs usage tasks
  synchronously and does not use the cache for money.
- Session limit and RPM caches: single Redis scripts. Promo codes and the
  subscription queue: single transactions under row locks.
- API keys, sessions, login: sequential checks; conversion, pricing,
  administration, monitoring, frontend and generated code: no concurrent state.
- Inside the modelled parts: quoting and pricing, shadow mode and the other entries
  of the ledger transaction (billing); full pages and mismatched amounts (payment bridge); the daily limit,
  cancel rate limit and choice of a provider (orders); concurrency and
  subscription codes (redeem); supplier protocols and privacy settings (tokens);
  throttle mode (queue); pings during a wait (slots); which buckets an event touches (scheduler).

## 6. Plan

1. Workspaces and credentials beside `AuthorityRoute`: several accounts, the policy of their group.
2. An abstract specification of an order's life that `PaymentBridge` implements; pages over several orders.
4. `WSPool`.

# Formal models of ai-platform-template

TLA+ models of the parts of the platform where interleavings, crashes and
timeouts decide correctness: the asynchronous task pipeline (task table,
transactional outbox, Redis Streams queue, worker), the Redis task store, the
polling worker over the other queues, quota, rate limiting, the LLM fallback
chain with its circuit breakers, idempotency keys, and the life of an API
process from opening its resources to closing them under requests. TLC checks
each on small instances; TLAPS proves the safety properties and the refinements
of nine of them for every value of the constants.

`PROJECT.json` is the machine-readable index: components, runs, the source
lines behind every definition, hazards, mutants and theorems.

## The system

| Component | Source (`src/app/`) | State | Operations | Hard because |
|---|---|---|---|---|
| Task store | `modules/messaging/tasks/adapters/{postgres,memory}.py` | task rows: status, attempts, lease, ttl | create, mark_processing, mark_completed, mark_failed, reclaim, delete_expired | leases expire under a running handler; marks are not fenced |
| Task dispatch | `tasks/service.py`, `tasks/outbox.py`, `tasks/message.py` | none | submit, reclaim (queue or outbox backend) | two systems, one of them without a transaction |
| Outbox | `modules/messaging/outbox/` | event rows: status, attempts, lock, due time | enqueue, claim_pending, mark_published, mark_failed, delete_published_before | locks expire while records are sent; marks are not fenced |
| Queue (Redis Streams) | `queue/adapters/redis_stream.py` | stream, pending list, dead stream | send, receive, ack, nack | redelivery of what is still being handled |
| Worker | `queue/worker.py`, `bootstrap/worker.py` | coroutines in flight | receive, dispatch, process_task | a crash or a failed call at every await |
| Loops | `tasks/relay.py` | none | relay, reclaim, cleanup | all processes run all loops |
| Circuit breaker | `core/resilience.py` | state, failures, cooldown, probe lease | try_acquire, release_probe, record_success, record_failure | callers answer late and in any order |
| Fallback chain | `modules/ai/llm/{runtime,router}.py` | breakers per role and target | ainvoke, chat_model | concurrent calls, deadline, cancellation |
| Idempotency | `modules/platform/idempotency/` | one row per key: status, token, hash, response | check_or_store, store_response, delete_expired | late originals, concurrent reclaim |
| Redis task store | `tasks/adapters/redis.py` | one JSON value with a TTL per task | as the task store | WATCH/EXEC retries with an old clock; marks are three unguarded commands |
| Other gateways | `queue/adapters/{memory,sqs,rabbitmq}.py` | messages held, delivery tags, receipt handles | send, receive, ack, nack | nack is two calls; handles and tags go out of date |
| Polling worker | `queue/worker.py`, `bootstrap/worker.py` | active coroutines, semaphore, shutdown event | tick, dispatch, drain, signal | received and not yet started work; everybody waits at shutdown |
| Quota | `modules/platform/quota/` | counters, reservations | reserve, finalize, refund, reset | several documents without a transaction (Mongo) |
| Rate limiter | `modules/platform/rate_limit/` | two window counters per key | check | truncation at the window boundary, eviction |
| Resources | `bootstrap/resources.py`, `bootstrap/addons/`, `core/config/` | exit stack, opened features | open, close | order of opening and closing, half-open startup |
| API process | `bootstrap/application.py`, `serve.py`, `core/{health,middleware}.py` | phase, exit timer, draining flag, requests in flight | signals, probes, drain | signals, timeouts and cancellation meet |
| Completions | `business/completions/service.py`, `api/sse.py` | handler generator, observation | complete, stream | disconnects and deadlines in the middle of a frame |

The task pipeline is where they meet. The API submits a task: the outbox
backend writes the row and its event in one transaction, the queue backend
writes the row and then sends the message. A relay loop in each worker process
claims pending events and sends them. Handlers receive messages, claim the task
under a lease, run it and settle it. Reclaim loops return tasks with expired
leases to QUEUED and announce them again, up to `TASKS_MAX_ATTEMPTS` claims.
Cleanup loops purge expired tasks and old events.

What makes each part correct:

- tasks: one live handler per task; no queued task is lost silently; every task
  is settled; a queued task has a claim left under the cap; a settled task stays
  settled;
- outbox: published means sent; two publishers do not hold one row under a live
  lock; giving up takes the full number of attempts; every event leaves;
- breaker: never past its threshold while closed, one probe at a time, never
  wedged;
- idempotency: one live claim; a replay answers the same request; the first
  stored response stays;
- Redis task store: the transitions of the task store, claims exclusive, the key
  of an unsettled task gone at `expires_at`, give or take what its writes round;
- gateways and worker: no message lost, retries and coroutines bounded, a
  signal ends the process;
- quota: the usage is what the live reservations cost, within the limit, a key
  charged once, a refund returned once;
- rate limiter: no burst past the limit beyond what the weights allow, refusals
  do not feed on themselves;
- API process: openers find what they need, users close before their services,
  nothing is closed under a request, probes see the drain, one response and one
  observation per call, a signal stops the process.

## Modules

| Module | Models |
|---|---|
| `TaskMessage` | task ids, the only part of a message that decides anything |
| `TaskStore` | the task table and its statements |
| `OutboxRelay` | the outbox table and `publish_pending`, one publisher per process |
| `RedisStreamQueue` | the stream, its consumer group and dead stream |
| `TaskPipeline` | their composition: dispatch, relay, handlers, reclaim, cleanup, faults, time |
| `OutboxPublisher` | the outbox on its own with any sink (queue or webhook), several publishers |
| `CircuitBreaker` | the breaker as operators on one record |
| `FallbackChain` | concurrent `ainvoke` calls over a chain of breakers |
| `Idempotency` | requests under one key |
| `RedisTaskStore` | the Redis task store command by command, against `TaskStore` |
| `PollingWorker` | the worker process over the memory, SQS and RabbitMQ gateways |
| `QuotaLedger` | what a quota store promises: atomic operations on one ledger |
| `QuotaStore` | the memory, Postgres and Mongo stores, each shown to implement `QuotaLedger` |
| `RateLimiter` | both sliding-window limiters and a clock |
| `ResourceGraph` | settings, their validation, the openers in order and the exit stack |
| `Application` | `ResourceGraph` inside an API process: lifespan, signals, requests, streams, drain |
| `MC*` | the same with the constants' values and symmetry sets, for TLC |
| `*Proofs` | theorems about `TaskPipeline`, `OutboxPublisher`, `FallbackChain`, `RedisTaskStore`, `PollingWorker`, `QuotaStore`, `Application`; `RequestGuardProofs` is about `Idempotency` and `RateLimiter` |

### How state and actions correspond to the code

*Time.* The code compares `locked_until`, `expires_at`, `available_at`,
`published_at`, `_open_until`, `_probe_lease_until` and `updated_at` only with
the current time. A model keeps the outcome of the comparison and lets it flip
at any moment (`LeaseExpires`, `LockExpires`, `BecomesDue`, `CooldownEnds`,
`Expires`, ...). This covers every choice of the timeouts and every delay
between reading the clock and committing. `RedisTaskStore` and `RateLimiter`
need distances between times (a lease counted from an old reading, a weight),
so they have a clock that ticks. In `RedisTaskStore` `SECOND` ticks make a
second: `expires_at` and the leases are exact, while `create` truncates to whole
seconds (`WholeSeconds`), Redis answers `TTL` to the nearest second (`Ttl`), the
code makes none of them one (`Remaining`), and SETEX counts from its own arrival
(`EndOf`).

*Refinement.* `QuotaStore` maps its rows and counters to a ledger, whose
`LedgerSpec` is a property of its run and a theorem: a Mongo reservation counts from the charge, not the
insert, usage carried by a migration between two counters is still usage, and a
refund counts when the counter is decremented. `RedisTaskStore` maps its values
to the rows of `TaskStore` (a lease is live while it ends after the clock) and
every change of them must be a transition of that module.

*Steps.* A statement or transaction in Postgres, a command or `MULTI` in Redis
and a stretch of code between two awaits are one step each. A coroutine's `pc`
names the call it awaits (`require`, `mark_processing`, `complete`,
`mark_completed`, `mark_failed`, `ack`, `nack`, `nack_dead`).

*Faults.* `Crash` kills a coroutine between any two awaits; the crash of a
process is the crash of its coroutines and batches one after the other, in any
order. `CallFails` makes the awaited call raise without effect, and the code's
own error path follows. A call that took effect and whose answer was lost is a
crash after the step. `MAX_FAULTS` and `MAX_CRASHES` bound how often this
happens in the checked instances; the theorems hold for every bound.

*Batches.* `SKIP LOCKED` and `LIMIT` let a statement take any part of the
matching rows, so a batch is any non-empty set within the limit.

*Pools.* `MsgId` and `Event` are pools of names. Redis and Postgres never reuse
an id; the model reuses one when nothing refers to it, which renames rows and
keeps the state space finite.

*History variables.* `unsent`, `overrun` (`TaskPipeline`), `sent`, `overdue`
(`OutboxPublisher`), `disturbed` (`FallbackChain`), `lapsed` (`Idempotency`),
`overrun`, `lag` (`RedisTaskStore`), `over`, `stolen` (`PollingWorker`),
`fault`, `carried` (`QuotaStore`), `admitted` (`RateLimiter`), `early` and `gave_up`
(`Application`) record what the properties refer to. No guard reads them. `carried` is what the
migrations under way took from one counter and did not add to another yet.
`stolen` has pairs: the body that was settled, and the body whose handler did it.
`lag` adds up how long the calls took that wrote a task, `early` says that the
first signal came before the lifespan had installed its `HealthService`.

*Backends.* A module over several backends chooses one in its initial state
(`backend`, `config`, `settings`) and keeps it, so one run covers them all.

*Brokers.* In `PollingWorker` the broker is external: copies are ready or held.
An outdated SQS receipt handle may be ignored or obeyed. A RabbitMQ reconnection
requeues what was held and starts delivery tags again at one, while the
gateway's `_inflight` keeps its entries.

*Postgres quota.* An operation is one transaction under READ COMMITTED: the
upsert of the counter locks its row to the end, what a transaction writes is
seen at its commit, and a reset deletes the rows its statement saw.

*API process.* Middlewares run from the outside in: per-IP limit, timeout, gzip,
tracker, access log, body limit. A request's `pc` says where it waits. uvicorn's
listener and its cancellation of requests, asyncio's finalisation of abandoned
generators and a client's disconnect are external actions. With graceful
shutdown disabled there is no tracker; the model counts and nobody reads it, nor
with a graceful timeout of zero seconds, where `_drain_in_flight` returns at once.

### Simplifications

- `XAUTOCLAIM` and the `XPENDING` read of the count are one step. They differ
  only for an entry acknowledged in between, which is settled already.
- A batch received at once is received message by message.
- A message received past `max_deliveries` is dead-lettered inside `receive`;
  the model gives this call a handler slot, since it can fail or die there too.
- The dead stream keeps its entries; the code trims it at 10 000.
- `TaskPipeline` leaves out the worker's semaphore and back-pressure, which are
  in `PollingWorker`; that module in turn leaves the handler open (it returns,
  raises, or raises a non-retryable error).
- Queues in `PollingWorker` have no order, and a body is sent once. RabbitMQ's
  are classic ones, without `x-delivery-count` (`rabbitmq.py:169`). The further
  messages of a RabbitMQ batch are pulled or not: that the 50 ms timeout of such
  a pull (`rabbitmq.py:112`) may leave a message delivered and held by nobody,
  until the channel is closed, is left out.
- The workers, the API and the Redis server share one clock, and an expired key
  that is watched aborts the EXEC like a written one.
- The Langfuse flush between the drain and the closing of the resources
  (`application.py:108`), a wait on a thread without a timeout, is taken to end.
- Quota is modelled for one subject and one resource. `QuotaStore` tells no
  error from another: a call ends with a reservation or without one.
- The weights of `RateLimiter` are computed in floating point; where the exact
  product is a whole number the model also lets it come out just below.
- The process of `Application` has one resource per feature; what a broken
  connection does to a request is left out.
- Malformed bodies, event types, request ids, payloads, results and error texts
  are left out.
- A role's chain is its own model: breakers are kept per role and target.

## Runs

Every run passes, and checks deadlock except where a quiescent system is
legitimate (every task settled, every request answered), where the cfg says so.
The type invariants of `QuotaStore`, `Application`, `PollingWorker`,
`RedisTaskStore` and `RateLimiter` hold on the instances below but are no
properties of their runs: they document the state. All are proved, as parts of
the inductive invariants below.

| Run | Instance | Shows |
|---|---|---|
| `TaskPipelineOutbox` | 1 task, 2 handlers, 2 messages, 2 events, 1 fault | lease exclusion, no silent loss, claims left under the cap, final outcomes |
| `TaskPipelineQueue` | 2 tasks in one reclaim batch, 2 faults | queue dispatch loses a task only by a send that was not made |
| `TaskPipelineLiveness` | 1 task, 2 faults, fair | every queued task is settled, purged or visibly given up |
| `OutboxPublisher` | 2 publishers, 2 rows, batches of 2, 1 crash | at-least-once, exclusive batches, retry cap, stable outcome |
| `OutboxPublisherLiveness` | 2 publishers, 1 row, 1 crash, fair | every event leaves the outbox |
| `FallbackChain` | 3 calls, 2 targets, threshold 2, fair clock | one probe unless disturbed, threshold, a refusing breaker admits again |
| `Idempotency` | 4 requests, 2 hashes | one live claim, own replays, first response kept |
| `QuotaStore` | 3 callers, 1 key, a limit that two of them use up, 3 stores | every store implements the ledger; counters not negative; a conflict has a winner |
| `Application` | 249 valid settings; 2 requests under 3 of them | order of opening and closing, drain, one response, one observation in the end, a signal stops the process |
| `PollingWorker` | 2 bodies, 3 copies, 1 handler at a time, batches of 2, 1 fault, 3 backends | nothing lost, bounded retries and coroutines, a signal ends the process |
| `RedisTaskStore` | 1 task, 2 workers, reclaim, lease 1 s, TTL 2 s, seconds of 3 ticks | claims exclusive, unsettled tasks end near `expires_at`, the contract of `TaskStore` |
| `RateLimiter` | 2 keys, limit 3, windows of 4 ticks, 11 ticks, 2 backends | bursts bounded, no starvation |

### Where the promises end

Several properties carry an exception. Each names a behaviour of the code, found
while the property was first stated without it:

- A handler that outlives its lease marks the task whatever happened to it since
  (`postgres.py:126`, `redis.py:158`): FAILED may become COMPLETED, although
  `openspec/specs/messaging/tasks/spec.md:92` says "A failed task SHALL be
  terminal". `TerminalIsFinal` allows such a task another outcome, though not to
  be opened again, and `ImplementsTaskStore` holds without overruns. For the same
  reason a published row of the outbox whose lock ran out may be put back
  (`adapters.py:102`); `PublishedOnce` excepts it.
- `TASKS_MAX_ATTEMPTS` is looked at by reclaim alone: `mark_processing` takes over
  a task whose lease ran out whatever its attempts (`postgres.py:49`), so a
  redelivery that is faster than reclaim claims it once more than the cap.
  `QueuedUnderCap` is about QUEUED tasks.
- The relay gives an event up after `max_attempts` (`publisher.py:117`) and its
  task stays QUEUED; with queue dispatch a send that fails after a reclaim has
  the same effect (`service.py:60`). `QueuedIsAnnounced` asks for a trace:
  a FAILED event, a dead letter or an unmade send.
- A report from before a breaker opened frees the slot of the running probe
  (`resilience.py:225`), so there may be two: `SingleProbeUndisturbed`.
- RabbitMQ delivery tags start again after a reconnection, and a handler from
  before settles whichever message has its tag now (`rabbitmq.py:154`): `stolen`
  in `NothingLost` and `RetriesBounded`. It may lose that message, or put it back
  with its own, lower count and so grant it another round of attempts.
- `RetriesBounded` counts what nack puts back. That every redelivery reports a
  higher count than the one before
  (`openspec/specs/messaging/queue/spec.md:14`) is more than it says.
- Every write of the Redis store sets the TTL anew, from a rounded one that was
  read before (`redis.py:34`, `156`, `181`): a claim or a reclaim moves the end of
  the key by up to a second either way, later still by the time it takes, and near
  the end, where the rounded TTL is none, always to a second from then.
  `EndsAsPromised` states this bound for tasks that are not settled. A mark that
  comes after the key has gone writes it anew (`redis.py:158`); the task is then
  kept, settled, past its TTL.
- The in-memory queue polled with a wait of zero seconds waits without a timeout
  (`memory.py:40`), so a worker does not stop until a message comes: `waits` in
  `SignalStopsWorker`. What it holds dies with the process.
- The Mongo store does not survive a crash between its commands, a reset beside
  other operations, or a retry that finds a reservation not yet charged: each
  sets `fault`, after which `ImplementsLedger` promises nothing. A migration may
  take the usage past the limit, since both windows were charged against it. A
  concurrent duplicate whose winner was deleted meanwhile re-raises
  `DuplicateKeyError` (`mongo.py:111`), where
  `openspec/specs/platform/quota/spec.md:24` rules an internal error out;
  `ConflictHasWinner` is about Postgres. On
  Postgres a reset overlapping a reserve leaves a reservation without its usage.
- A signal during startup marks the placeholder health service, which is then
  replaced (`application.py:102`): with a readiness delay the process serves and
  reports ready until it exits, although
  `openspec/specs/core/health-drain/spec.md:16` says of a probe within the delay
  that "the response is `503` with status `draining`". `DrainingIsSeen` states that
  a probe which arrives after the signal is told ok in this case only, and
  behaviours of the run reach it.
- With limit 1 the truncated weight lets two requests through across a boundary,
  which the limiter's docstring rules out; `BurstBounded` states what the
  arithmetic gives, and is proved for every limit.


### Bounds

A race for a lease takes two handlers. A duplicate takes two messages, and a
second announcement two events: with `TASKS_MAX_ATTEMPTS = 2` a task is
announced once on submit and once on reclaim, so the pools never block it.
`WORKER_MAX_ATTEMPTS = QUEUE_MAX_DELIVERIES = 2` reaches both ways to the dead
stream. One fault with two handlers, or two with one, reaches a crash of the
handler and a failure of its recovery. Two publishers and two rows in a batch
reach a lock lost by one while the other publishes, and a batch abandoned
half-way. Three calls are needed for a stale report beside two probes. Four
requests give an original, a reclaimer, a replay and another request.

Three callers are an original, a retry under its key and another client, of which
the limit admits two; two windows are the old and the new policy, and a Mongo
behaviour is followed up to its first fault. `Application` starts settings with at most one feature
per choice of services, tasks with every queue, store and dispatch, and one with
everything, and explores requests only under three small ones: what a request
does depends on the middlewares, not on the resources. Two requests are a
request beside a probe, or two that drain. `PollingWorker`: twice the
concurrency and a batch are reached with one handler at a time and batches of
two (at most three coroutines), two attempts reach the cap, three copies a
republished message beside its original and another one; `SentInOrder` only
breaks the symmetry of the bodies. `RedisTaskStore`: three ticks a second are the
fewest that round both ways. The lease is one second and the TTL two, so within
five ticks (`MaxTime`) a lease runs out, the task is reclaimed and claimed a
second time (`MaxClaims`), a truncated TTL ends under a call, and rounded ones end
before and after `expires_at`; a submission takes up to a tick (`MaxLag`), a
claim as long as it likes.
`RateLimiter`: limit 3 over windows of 4 ticks gives weights that are truncated,
and eleven ticks are a window, its successor and most of a third, where the
first bucket is evicted or expires.

### Fairness

`TaskPipeline`: the reclaim and relay loops and `receive` run again and again
(`_every` and the worker loop survive exceptions), a coroutine that is not
killed goes on, and time passes. Weak fairness suffices; submissions, faults,
the end of a ttl and the purge are not fair. `OutboxPublisher`: the relay loop
and the clock. `FallbackChain`: the clock only, since calls may never come and
never be answered. `PollingWorker`: the worker's loop, each coroutine (a
handler's calls carry timeouts) and the end of the background loops, never
senders, signals or faults. `Application`: opening and closing end, timers fire,
uvicorn closes its listener and cancels what is left after the graceful timeout,
and a cancelled request unwinds (`Unwind`: its finally clauses run shielded in a
stream; a handler that swallows its cancellation and goes on is excluded). The
generator of a stream cut while a frame was being sent is closed by the event loop
(`Finalize`), when it is collected or, at the latest, when the loop is closed;
a process that is killed before that observes nothing more. No request need ever
end by itself.

Liveness runs use no symmetry.

`OutboxPublisherLiveness` has one row on purpose. Batches are unordered in the
model, so with several rows a newer one could be preferred for ever, which the
code's order by `available_at` excludes; and a publisher that is slower than the
retention time in every batch could abandon each of them on a purged row, which
takes a lock and a retention time shorter than a batch, for ever. Neither is a
question about the row itself; the rest of a batch abandoned on a purged row is
therefore in the safety run only.

## Proofs

Assumptions are those of the modules: positive limits, and the placeholder
values lie outside the sets they mark. Sets of tasks, handlers, messages,
processes, calls and requests are arbitrary; only `QuotaStore` assumes that its
callers are finitely many, since it adds up what they reserved.
Every safety property of the runs is a theorem, and so are both refinements; of
`ObservedOnce` the part without fairness is.
None of them is inductive as it stands. Each module has one invariant `IInv`
(`LimiterInv` for `RateLimiter`) with `Init => IInv`, `IInv /\ [Next]_vars => IInv'` and `IInv => P`.

`RequestGuardProofs`, on `Idempotency`: `TypeCorrect`, `MutualExclusion`
(`OneLiveClaim`), `ReplayIsOwn` (`ReplayMatchesRequest`), `ResponseIsKept`
(`FirstResponseKept`). The invariant adds that a working
request whose claim has not lapsed owns the in-progress row and that the row is
neither expired nor stuck (`ClaimIsLive`), that the row's hash is the hash of
the request that holds its token (`TokenHasHash`), and that a completed row
holds a response stored by its owner (`CompletedIsStored`).

The same module, on `RateLimiter`: `LimiterTypeCorrect`, `BurstsAreBounded`
(`BurstBounded`), `RefusalsEnd` (`NotStarved`), for every limit, window length,
eviction threshold and set of keys. `BurstBounded` counts requests, the limiter
only keeps buckets. The invariant ties the two: what a key was admitted in the
last ticks is in its current and, beyond the start of the window, its previous
bucket (`AdmittedIsCounted`), no bucket holds more than the limit
(`CountsLimited`), both together no more than the limit and what the current
window has earned back (`WindowsBounded`), and no bucket goes before the last
check that may read it (`BucketsKept`, where eviction and the TTL come in). The
arithmetic is in lemmas of its own: a truncated weight keeps all of the previous
window but the share that has passed and at most one request more, however the
product was rounded (`KeptShare`, `WeightedBounds`), and a tick leaves the two
buckets that a check reads alone or makes the current one the previous
(`TickBuckets`).

`FallbackChainProofs`: `TypeCorrect`, `BelowThreshold`
(`ClosedBelowThreshold`), `OneProbe` (`SingleProbeUndisturbed`). The invariant
adds that a call which holds a probe slot of an undisturbed breaker finds it
half-open with a live lease (`ProbeHoldsSlot`); then the breaker admits nobody
beside it.

`TaskPipelineProofs`: `TypeCorrect`, `LeaseExclusion`
(`AtMostOneLiveHandler`), `UnderCap` (`QueuedUnderCap`), `TerminalStays`
(`TerminalIsFinal`), `NoSilentLoss` (`QueuedIsAnnounced`). The invariant has two
parts. `StateOK` types every table
and relates the fields of a row (a row with a lease is PROCESSING, a queued row
is below the cap, a row not inserted has no attempts, a busy coroutine has a
task). `LeaseOK` says that a handler whose lease is live finds its task barred
from claims (PROCESSING under a live lease, or already settled or purged), that
it is the only such handler of the task, and that a running handler of a task
that never overran holds its lease and finds the task in flight (PROCESSING
under a live lease, or purged). The proof goes variable group by
variable group (`TasksKept`, `OutboxKept`, `QueueKept`, `HandlerKept`,
`DispatchKept`, `CountersKept`), so an action is looked at only where it
changes something; claiming, settling and lease expiry have lemmas of their own.

`NoSilentLoss` has a second induction on top of the first (`AnnounceOK`). An
event that was sent is about to be PUBLISHED, and a stream entry is about to go
once its handler acknowledges it, so neither is enough to keep a task announced.
The witness of a queued task is an event that nobody sent yet (or that was given
up), an entry that no handler is acknowledging, a dead letter, or a direct send.
A handler comes to acknowledge only when the task is not QUEUED, and whoever
queues it again announces it anew. For this to hold across duplicates the
publisher's record and the row (`RecordsMatch`), and the coroutine and the entry
(`EntriesMatch`), must name the same task.

`OutboxPublisherProofs`: `TypeCorrect`, `AtLeastOnce` (`PublishedWasSent`),
`ExclusiveClaims` (`NoDoubleClaim`), `FailedAtCap` (`GivesUpAtCap`),
`PublishedStays` (`PublishedOnce`). The properties speak of rows, a mark acts on
what the publisher remembers of a row. The invariant relates the two: a
remembered send was taken by the sink (`SettledWasSent`), the attempts remembered
are not ahead of the row's (`AttemptsNotAhead`), a publisher holds a row once
(`HeldOnce`) and, unless a lock ran out on it, finds it pending and locked
(`HeldIsLocked`).

`RedisTaskStoreProofs`: `ExclusiveLeases` (`LeaseExclusion`), `EndsKept`
(`EndsAsPromised`), `RefinesTaskStore` (`ImplementsTaskStore`), the last
being the refinement of `TaskStore` step by step. The invariant says what a
client may rely on between two commands: while nobody wrote the key it watches,
what it read is still there and was accepted (`WatchSound`), although by the
clock of its first try; and the task of a worker whose lease runs is locked by
that lease, settled or gone (`LeaseSound`). For the end of the key, `TtlSound`
bounds the TTL a transaction holds by what is left of the value it read, and
`ValueSound` carries the bound from write to write: each uses up less than a second
of rounding and the time since its call began. The attempts of an unsettled task
tell how many claims and reclaims that were (`Rewritten`).

`ApplicationProofs`: `ValidSettingsOpen` (`OpenersFindTheirServices`),
`ServicesOutliveUsers` (`UsersCloseFirst`), `DrainsFirst`
(`NothingClosedUnderRequests`), `LateProbesRefused` (`DrainingIsSeen`),
`SingleResponse` (`OneResponse`), `SingleObservation` (`ObservationsInOrder`:
never observed twice, and once when over, but for streams whose generator is still
to be closed, which is what fairness is for in `ObservedOnce`).
`GraphSound`: what is live is what the openers before the current one opened,
and the exit stack is the pending closes in the order of opening; since every
opener comes after the services it uses, for every setting that passes the
validators, both orders follow. `TrackerSound`: the tracker's count is the number
of requests inside, so a drain that ends without a timeout leaves none.
`ServerSound` ties the phase, the draining flag and the timers together, and
`RequestSound` a request's place to what it has answered and observed.

`QuotaStoreProofs`: `TypeCorrect`, `CountersStayPositive` (`NeverNegative`),
`WinnerStays` (`ConflictHasWinner`), `StoresImplementLedger`
(`ImplementsLedger`). That no counter goes below zero rests
on the floor (`Floored`) or, on Mongo, on the counter's being at least the sum of
what the callers may still take off it (`MongoSound`, `Covered`). That a conflict
has a winner rests on who looks for it locking the counter's row to its commit
(`PgSound`). A sum over a set of callers is a fold, about which
nothing can be proved here by induction; the proofs witness it by running totals
along an enumeration of the callers instead (`IsTotal`), and an update at one
caller shifts the totals from its place on.

`StoresImplementLedger` adds to that invariant what holds until a fault
(`Sound`). `Books` says whose reservation a row is: a stored row belongs to a
caller that is charging it or was charged, who holds a reservation holds one that
was charged, a refund under way is of a row that is marked refunded and of the
same cost, no two refunds are of one row, and a key names one row while there is
one window. `Carrying` makes `carried` the sum of what the migrations hold
(`IsSum`, running totals of integers), so a migration changes no usage. `Covered`
shows that on memory and Postgres the floor at zero is never needed without a
fault, so a refund gives back exactly the cost. Before the window changes, the
first counter is the whole usage (`SteadyFacts`), which turns the stores' own
check of the limit into the ledger's. Each action then is a step of the ledger
(`LedgerReserves`, `LedgerFinalizes`, `LedgerRefunds`, `LedgerResets`), or leaves
it alone (`LedgerStays`); a Mongo reserve is a step at its charge, a refund at
its decrement, a reset at the deletion of the rows.

`PollingWorkerProofs`: `TypeCorrect`, `MessagesKept` (`NothingLost`),
`RetriesCapped` (`RetriesBounded`), `ConcurrencyCapped` (`ActiveBounded`). `Safe`
is `NothingLost` made inductive: there is a copy besides the one that a handler,
having republished it, is about to acknowledge. How the count of a message
relates to what its handlers hold differs by gateway (`MemorySound`, `SqsSound`,
`RabbitSound`): in memory a handler has the copy to itself, SQS counts receives,
so handlers that may still put a message back have counts of their own, and on
RabbitMQ an entry of `_inflight` and the coroutine it was made for belong to one
channel.

Three of these proofs failed first because a model was too kind.
`RedisTaskStore` took the TTL and the EXEC of a transaction for one step; they
are two commands in the code, which is how a slow one lengthens a task's life, and
a mark can find its key gone in between. In `Application` two cases of a cancelled
request overlapped. `RetriesBounded` excused a message only when the handler that
settled it through a reused tag was another body's; with three attempts a late
handler of an earlier delivery of the same message also restores a lower count.
The models and properties were corrected, and the runs repeated.

### Only model-checked

The liveness properties: `QueuedIsSettled`, `EventIsSettled`, `NeverWedged`,
`SignalStops`, `ObservedOnce`, `SignalStopsWorker`. Fairness and ENABLED are out of the prover's
reach.

## Not modelled

Left out: error formatting, logging, tracing and telemetry export (no state that
another part waits for), identity and audit (stateless checks, an append-only
log), the cache (single-step reads and writes nothing depends on), object
storage, the model-server client, RAG and evals (sequential code around external
services), webhook signing and HTTP (its outcome is a sink of the outbox), and
`TypedMessageDispatcher`, which the application does not use.

Every safety property stated above is proved; what remains open is to model
more of the code, and the liveness properties for every value of the constants.

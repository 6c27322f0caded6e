# harness-one: TLA+ models, model checking and proofs

harness-one is a TypeScript library for building agents on large language models: an agent loop
with tools, guardrails and tracing, orchestration of several agents, sessions, memory stores, and
the concurrency helpers these stand on. Almost all of it runs in one JavaScript thread. Its hard
behaviours are therefore those of *interleaved segments*: code between two `await`s or `yield`s
runs alone, and anything may happen at the suspension itself: another call, an abort signal, a
timer, `dispose()`. Only the Redis store shares state with other processes.

This directory holds TLA+ specifications of those parts, written from the code; the
configurations with which TLC checks them on small instances; and proofs, checked by TLAPS, that
the most important properties hold for every number of calls, tenants, runs and entries. Paths
below are relative to `src/`; `core/` stands for `packages/core/src/`.

Modelled: async lock, admission controller, circuit breaker, agent loop, fallback adapter, agent
pool, delegation between agents, session manager, tracing and its exporters, file memory store,
Redis memory store. Section 1 is the inventory of the whole system, section 2 the order in which
it was modelled and what is left, sections 3 to 5 describe what exists, section 6 what the models
and proofs leave out.

## 1. Inventory

### 1.1 Infrastructure (`core/infra`)

| component | state | operations | used by | what is hard |
|---|---|---|---|---|
| async lock `async-lock.ts` | `held`, `disposed`, waiter queue | `acquire(signal)`, the release closure, `withLock`, `dispose` | fallback adapter, delegation tracker, handoff, cost tracker | hand-off against newcomers, abort against hand-off and dispose, double release |
| admission controller `admission-controller.ts` | per tenant: `inflight`, queue of grants | `acquire(tenant, signal, timeout)`, `release` of a permit, `withPermit` | applications that bound the concurrency of a tenant | timeout and abort against a grant, double release, budget |
| circuit breaker `circuit-breaker.ts` | `state`, `consecutiveFailures`, `lastFailureTime`, `halfOpenProbe` | `execute`, `state`, `recordSuccess`, `recordFailure`, `reset` | adapter caller (when configured), applications | outcomes that arrive after the circuit has moved, probe slot |
| LRU cache, lazy value, timers, back-off, JSON schema, redaction, ids | small, sequential | | everywhere | eviction order; a lazy value that failed |

Correct means: mutual exclusion and FIFO order without lost wake-ups or leaked listeners; an
exact budget; a circuit that trips exactly at its threshold and whose probe slot is never leaked.

### 1.2 Agent loop (`core/core`)

State of one `AgentLoop`: the coordinator's status, its `AbortController`, the slot for the handler
of the external signal, the usage; per run: iteration and attempt counters, the conversation, the
open span and trace, the latch of `onIterationEnd`. Operations: `run()` (an async generator),
`abort()`, `dispose()`, the external `AbortSignal`. `run()` is composed of the iteration
coordinator (start, pre-iteration checks, finalisation), the iteration runner (one turn: input
guard, model call, output guard, tools), the lifecycle (the ways an iteration ends), the adapter
caller (retry with back-off) and the streaming retry. It calls the adapter, the execution
strategy, guardrails, hooks and the trace manager. Hard: abort at every suspension, a reader that
closes the stream, a second run while the first is suspended, errors of attempts that are retried.
Correct means: a well-formed event stream, spans, hooks and listeners that balance, tool calls
that are all answered before the model is called again, bounded work after an abort, termination.

Around it: the fallback adapter (`currentIndex` and `failureCount` under an async lock; `chat()`
and `stream()` that move on to the next adapter; hard because calls that began on an adapter which
has been left still report), the resilient loop (retries whole runs), middleware, the output
parser, the SSE framing, the stream aggregator (sequential).

### 1.3 Orchestration and sessions (`core/orchestration`, `core/session`)

| component | state | operations | what is hard |
|---|---|---|---|
| agent pool | `entries` (idle or active agents), idle timers, pending queue, counters, latch of `dispose` | `acquire`, `acquireAsync`, `release`, `resize`, `drain`, `dispose` | expiry in the middle of acquire and release, waiters against timers and signals, release during dispose |
| orchestrator, delegation tracker | agents, delegation chains, a lock per source agent, in-flight counter | `register`, `unregister`, `delegate`, `dispose`, `drainAndDispose` | cycles of delegation that close while strategies are awaited, agents that go while they delegate, drain against delegations that wait for the lock |
| message queue, handoff, shared context | per-agent queues with caps, receipts | `send`, `broadcast`, `handoff` | callbacks in the middle of `send` |
| session manager | sessions, locks, LRU order, queue of pending events, GC timer | `create`, `get`, `access`, `lock`, the unlock closure, `destroy`, `list`, `gc`, `dispose` | event handlers that call the manager again in the middle of a call, stale unlock closures, GC and eviction against locks |

### 1.4 Guardrails, tools, tracing, memory, the rest

| component | state | what is hard |
|---|---|---|
| tool registry `core/tools` | tools, per-turn and per-session counters | refund of a failed call against `resetTurn()` |
| guardrail pipeline, rate limiter, self-healing `core/guardrails` | event log, windows per key | timeouts and fail-open/fail-closed, re-entrant eviction |
| trace manager and exporters `core/observe` | traces, spans, LRU, retry counters; lazy `initialize()` and pending exports | eviction of live traces, late calls about them, first exports racing for `initialize()`, flush and shutdown against exports that hang |
| cost tracker, lifecycle, alerts `core/observe` | record buffer, thresholds, state machine | eviction against running totals |
| file store `core/memory` | entry files, an index file, an in-process lock | crash or failing disk operation between two files, partial removals, update against delete |
| relay, in-memory store `core/memory` | versions, entries | check-then-act over an `await` |
| Redis store `packages/redis` | entries, version keys, the SET of ids; per connection: watched keys | optimistic transactions of concurrent calls, two-step deletes |
| context and checkpoints `core/context` | checkpoints, files | cap and pruning under concurrent saves, crash in a rename |
| preset `packages/preset` | harness: running calls, shutdown state | `run()` against `shutdown()` and `drain()` |
| devkit `packages/devkit` | evaluation results | bounded pool of the runner |
| Langfuse, OpenTelemetry exporters | span maps | eviction of spans in use |
| RAG, prompt, io, redact, evolve-check, testing kit, CLI, model, schema and tokenizer adapters, apps, examples | data, text, conversions | nothing concurrent that keeps state, apart from the coding agent's checkpoints |

`PROJECT.json` lists each component with its files and status, and every hazard at the line where
it bites, those of components still to be modelled included.

## 2. Plan

Order: first what the rest stands on, then the core of the library, then stores and composites.

| step | modules | abstract specification | status |
|---|---|---|---|
| 1 | `AsyncLock` | `FifoSemaphore`, Capacity 1 | modelled, checked, proved |
| 2 | `AdmissionController` | `FifoSemaphore`, one per tenant | modelled, checked, proved |
| 3 | `CircuitBreaker` | - | modelled, checked, proved |
| 4 | `AgentLoop` | `EventStream`, one per run | modelled, checked; safety proved |
| 5 | `AgentPool` | - | modelled, checked; safety proved |
| 6 | `RedisStore` | - | modelled, checked; safety proved |
| 7 | `Fallback`, over the line of an async lock | - | modelled, checked; safety proved |
| 8 | `Delegation`, over one line per lock | - | modelled, checked; safety proved |
| 9 | `Sessions`, with the event bus and its handlers | - | modelled, checked; safety proved |
| 10 | `TraceExporters`, and `Tracing` over it | - | modelled but for the dead handles, checked; safety proved |
| 11 | `FileStore`, with crashes | - | modelled, checked; safety proved |
| 12 | message queue and handoff; tool registry; relay; guardrail pipeline; cost tracker; preset | - | left out (section 6) |

Every safety property that a passing run checks is also a theorem; what is left to TLC is liveness.
A theorem still worth having is a refinement for the stores: that a client of `FileStore` or
`RedisStore` sees a map from ids to entries whose updates are atomic.

## 3. The models

Each module models the whole of a handler in one action, from its entry or from the suspension
where it was left to its next suspension. A function of the code that several handlers call
(`handoff()`, `recordFailure()`, `checkPreIteration()`, `disposeEntrySync()`) is an operator that
their actions share. History variables, marked *history* where they are declared, record what the
code does not store and a property needs. `PROJECT.json` maps each definition to its source lines.

Operators whose comment begins with *Mutant:* are not used by any specification: each is the
definition that comes after it, with a plausible mistake in it. Putting the mutant in the
place of that definition makes TLC report the property that is named with it in `PROJECT.json`,
which shows that the property can fail.

### AsyncLock - `core/infra/async-lock.ts`

`held`, `disposed` and `queue` are the variables of the closure. `phase[r]` is how far the r-th
`acquire()` call is: not made, waiting, granted (its promise is resolved but the caller has not
resumed), inside `withLock`'s function, released, rejected. `listening` is the set of calls whose
`onAbort` is registered on their signal, `fired` the signals that have aborted. `Handoff` gives the
lock to the head of the queue before any other code runs, so that a newcomer who calls `acquire()`
between the release and the resumption of the waiter still finds `held`. The release closure may
be called again at any time; its flag is the "released" phase.

### AdmissionController - `core/infra/admission-controller.ts`

`inflight` and `queue` per tenant; `armed` are the waiting calls whose timer and abort listener are
set. `AcquireFree` tests the free permit before the signal, as the code does, so a call whose
signal has already aborted is admitted. `Serve` is `release()` with its shift of the queue.

### FifoSemaphore

What these two promise: owners, a line, `Capacity`. `AsyncLock!Refinement` is the specification
with one unit, `owners` being the granted calls and `line` the queue. The controller implements
one semaphore per tenant (`AdmissionController!Refinement`): each step is, for every tenant at
once, a step of that tenant's semaphore or none.

### CircuitBreaker - `core/infra/circuit-breaker.ts`

A call is two actions: `Admit` or `Reject` up to `await fn()`, and `Succeed` or `Fail` any time
later. Time is one bit, `elapsed`: whether `resetTimeoutMs` has passed since the last failure.
`ReadState` is the getter, which has the side effect of opening the half-open window. `period` is
history: the calls admitted since the state last became half open. `onStateChange` is not modelled:
it runs inside the segment and what it throws is swallowed.

### AgentLoop - `core/core/agent-loop.ts` and seven modules behind it

One loop object and the generators its `run()` returns. `status`, `aborted`, `handler`, `usage` are
the coordinator's; `pc[r]` is the `yield` or `await` at which run r is suspended and `ctx[r]` its
local state. The actions follow the source: `Refuse`, `Start`, `Top` (run, startRun and the checks
before an iteration, in their order), `PreError`, `PreDone`, `Warn`, `Begin` (the coordinator),
`GuardInput` to `PushLast` (the runner, the adapter caller and the streaming retry), `Bail` and
`Terminate` (the lifecycle), `Finish`, `Close` and `Finalize` (the `finally` block). `Abort`,
`Signal` and `Dispose` may come at each suspension. The model's answer is a number of tokens and
a number of tool calls; guardrails, hooks, the execution strategy, pruning and the adapter decide
nondeterministically, and throw where the code lets it through (`Throws`). A result that the tool
output guard rejects is told as `guardrail_blocked` before the stub goes to the conversation
(`Note`, `BlockResult`). `out[r]` is history: the last event of a run, how many of each kind there
were, and how many model calls and tool batches began after an abort.

### EventStream

What `run()` promises its reader: `iteration_start` first; content only until something terminal
was said; one error at most; `done` once, right after the final message or the error; nothing
after it. `AgentLoop!Streams` is the refinement, for each run.

### AgentPool - `core/orchestration/agent-pool.ts`, `pool-pending-acquire.ts`

Agents are numbered in the order of their creation, which is the order of the `entries` map and
therefore the order of each scan; those past `maxAge` are then a prefix `1..old`. `acquire`,
`acquireAsync`, `release` and `resize` have no suspension, so each of their outcomes is one
action; `dispose()` is suspended after each agent (`PoolDispose`, then `DisposeNext`), and releases,
acquisitions and cancellations come in between. `drain()` is `dispose()` after a wait, so it adds
no behaviour. An acquisition includes the warm-up, the sweep of expired idle agents, and the
queue; `factory()` may throw in it (`CreateFails`, `WarmUpFails`, which leaves the agents made
so far). `min` may be above `max`: neither is compared with the other. The release of an expired
agent includes `fulfillPending`, which serves as many waiters as
there are idle agents that have not expired, in the order of the queue (`Served`, `Handouts`).
`stale` is history: the agents
that a second release took from the caller they had been given to, which is what `release()` does
when a former holder calls it again; `ExclusiveAgent` says nothing of those.

### RedisStore - `packages/redis/src`

The server is external: atomic commands, `MULTI`/`EXEC`, expiry, and, per connection, the watched
keys (`watched`) and whether one was touched (`dirty`). `Conn` tells which connection a call uses;
calls may share one, as all calls of one store do, and then `EXEC` and `UNWATCH` of one drop the
watches of the others, while what a call that threw has watched voids the batch of the next. A
connection may be lost (`Reconnect`), a command fail with or without its effect (`Throw`, and the
"failed" and "failing" outcomes). `content[i]` is the set of calls whose change the entry carries: a
read-modify-write carries what it has read and itself, a `write()` only itself.

`update()` is `WATCH`, `GET`, `EXEC`, `UNWATCH` with its retries; `updateWithVersion()` watches the
version key, reads the version, finds the latest entry of its key and executes; `setWithTtl()` finds
it and sends one batch; `delete()` is `DEL` and then `SREM`. To find the latest entry is to read the
index (`FindIds`) and then the entries (`FindLatest`), which settles `place`, the entry the call is
about: one that `write()` made, or a new one. Calls by id and by key may thus meet on one entry. The
calls of `Sweeps` begin with `List` (`SMEMBERS`) and go on as `compact()` or `repair()` (`Choose`,
what `MGET` shows, then `Sweep`, one batch) or as `clear()` (`Clear`). A call is "void" when it
returns without an error although its batch was not executed.

The history says what the code lets happen, and the properties leave out: `torn` are the calls whose
watch was dropped before their `EXEC`, `dropped` the changes that went with their entry, `clobbered`
those that a call without a watch on the entry overwrote, `revived` the entries such a call brought
back, `orphaned` those that lost their id in the index (by a `clear()`, whose reading and `DEL` are
two commands, or by the `SREM` of a `delete()` after they were revived).

### Delegation - `core/orchestration/orchestrator.ts`, `delegation-tracker.ts`

`chain` is the set of edges of all the inner sets of the tracker, `lock[a]` the lock object of a
source (named by the call that made it, because `unregister()` and `dispose()` drop the object and
the next delegation makes a new one, while calls still wait for the old one), `line` the calls that
wait for any of them, oldest first. A `delegate()` call is refused, runs without a lock
(`DelegateUnlocked`), or takes its lock or waits (`DelegateLocked`); `Begin` is the microtask in
which `withLock()` resumes and the counter goes up; `Select` is the strategy's answer with the cycle
check, the caps, the edge and the `finally` of the same segment; `Leave` hands the lock on. The
strategy may answer with any agent, also one that has left since it was asked. `Poll` and
`Deadline` are the timer of `drainAndDispose()`; a timer runs when no continuation is ready
(`Quiescent`). The lock is used as the FIFO semaphore that `AsyncLock` is proved to implement.
`Reaches` says which pairs the breadth-first search finds, as the least closed set.

### Sessions - `core/session/manager.ts`, `session-lru.ts`, `session-event-bus.ts`, `session-gc.ts`

All of it is synchronous, and the interleaving is re-entrance: each event calls handlers, and a
handler may call the manager in the middle of a call of it. `stack` is what the calls in progress
still have to do, the innermost first: an event to emit, a handler that runs, the next eviction,
the deletion that comes after an `evicted` event, the next session of a `gc()` walk, the pending
events to deliver. A call pushes its steps (`Push`); the actions of `Step` take the first one.
`order` and `locked` are the two structures of the LRU; `emitting` and `pending` are those of the
bus, whose queue drops low events first. Sessions are numbered as they are created; the ttl of one
may run out between calls, inside a handler, or in the middle of a `gc()` walk. `touched` is
history: the sessions on which a handler called back while they were being evicted.

### FileStore - `core/memory/fs-store.ts`, `fs-io.ts`

`file` and `index` are the disk, `line` is the in-process lock (a chain of promises), `pc`, `op` and
`mem` are how far each call is, what it does and what it has read. One action is one disk operation;
a write to a temporary file and its rename are one, since readers never look at temporary files.
`Fail` is a disk operation that fails, `Crash` a process that dies and starts again between any two.
`Sweep` is `batchUnlink()`, each of whose removals may fail. `dirty` is history: some call broke off
between the entries and the index since the index was last rebuilt.

### TraceExporters, Tracing - `core/observe/trace-*.ts`, `core/infra/lazy-async.ts`

`TraceExporters` is the coordinator: `lazy` is the cached promise of each exporter's lazy
`initialize()`, `job` the promises made for exports and initialisations, `pending` those among
`pendingExports`, `drain` where each `flush()` and `dispose()` stands. What an exporter does is
external: each of its functions settles some time or never. `Tracing` extends it with the trace
manager: traces, spans, the list of the LRU, the retry counters; `endSpan()` and `endTrace()`
include the exports they ask for, and `Clear` is the end of `dispose()`. `owed` and `resets` are
history.

### Fallback - `core/core/fallback-adapter.ts`

`current` and `failures` are the closure's; `call[c]` is what a `chat()` or `stream()` call is
doing: asking the adapter it found current, queued at the lock with a success or a failure to
report, or back from its section. The section awaits nothing, so `Section` is all of it, for the
head of the line. `Attempt` is one turn of the loop, shared by `Begin` and `Resume`. `failed` is
history: the attempts that failed on each adapter.

## 4. What TLC checks

Bounds are chosen so that each mutant and each finding is reached well inside them; a reader who
raises them needs only the `.cfg` files.

| run | instance | distinct states | what it shows |
|---|---|---|---|
| `async_lock` | 4 calls, 3 with a signal | 4.6 k | no leaked listener, every waiter settles, refinement of the semaphore (exclusion and order) |
| `admission` | 2 tenants, 2 permits each; 4 and 2 calls, 2 with a signal, 1 with a timeout | 23 k | exact budget, refinement per tenant |
| `breaker` | 4 calls, threshold 2, at most 4 failures, records from outside | 59 k | the circuit trips exactly, the slot is live, one call admitted per stay in HALF_OPEN |
| `agent_loop` | 2 runs, the second opened whenever the code lets it, 2 iterations, 1 retry, token limit 0, answers of up to 1 token and 2 calls, 1 chunk | 555 k | stream, spans and hooks, bounded work after abort, answered calls, one run in an iteration, termination |
| `pool` | 5 calls, 1 to 2 agents, 2 waiters, ageing, resize, a factory that throws | 375 k (symmetry of calls) | exclusive agents, books of entries and queue, idle timers, nothing left after `dispose()` |
| `redis` | any 3 (`MaxCalls`) of: 1 write, 2 updates with 2 attempts and 1 delete of one entry; 2 updateWithVersion calls and 1 setWithTtl on its key; 1 compact, repair or clear; over two clients, each of several calls | 192 k | no acknowledged change lost but as the text says, a version taken once, complete index, repair deletes nothing readable, calls end |
| `delegation` | 3 agents, at most 1 registered at a time; 5 delegations, one without a source; 3 edges | 1.25 M | no cycle, the drain waits for all, the lines empty |
| `sessions` | 4 sessions, cap 1, 2 lock holders, 2 pending events, one call back per handled event | 8.13 M (symmetry of holders) | LRU and map agree between calls, size bound, locked sessions stay |
| `files` | 4 calls of any kind, 2 keys, any failure, any crash | 0.9 M (symmetry) | true index, known keys, no lost update |
| `tracing` | 3 traces with a cap of 2, 1 span, 1 exporter, a `flush()` and a `dispose()` | 1.04 M | flush covers what was asked, `initialize()` shared, LRU and retry counters exact, flush returns |
| `fallback` | 3 calls, 3 adapters, one without `stream()`, 2 failures to switch | 0.79 M | every switch is paid for, calls settle |
| `redis_shared` | 2 updates over one connection | - | a counterexample, see below |

Why these are enough to be interesting: with four lock calls an owner, two waiters and a newcomer
coexist, so that removal from the middle of the queue and barging are both possible; three of the
four may abort. The second admission tenant is there to show that it is not affected. Two failures
more than the threshold leave room for late failures after the trip. Two iterations and two calls
per answer exercise the latch, the slot of the open span and the order of results; with a token
limit of 0 a budget is met exactly (an answer of 0 tokens) and passed. A pool of at most two
agents with two waiters expires, recycles and re-creates. Two attempts let an `update()` both
succeed after a conflict and give up (`MAX_RETRIES` in the code is 3; the proofs hold for every
number). Any three of the eight calls on the store may be made, over the client they share or over
two: a change and what it meets on the entry, and a third call whose `EXEC` drops a watch, or
whose reading is old. The four safety properties were checked with `MaxCalls = 4` as well (9
million states), and are proved. Three agents close a circle of three, with a second delegation of
one of them to wait in line; at most one is registered at a time, which keeps the instance small
and is no restriction on the chain, since a strategy may answer with an agent that has left. With
a cap of one session the second is within the threshold and the third creation evicts. Four file
calls are two entries of one key with an update and a delete, or a crash with the rebuild that
repairs it. Three adapters switch twice, so that a late failure of the first may arrive while the
second is current.

*Bounds in the guards.* `MaxFailures` (breaker), `MaxCost`, `MaxTools` and `MaxChunks` (loop; the
last stands for `maxStreamBytes`), `MaxAgents` (pool: the agents ever created), `N`, `Nested`
(sessions: those ever created; calls back per handled event), `MaxJobs`, `MaxInits`, `N`, `M`,
`MaxRetries` (tracing), `MaxCalls` (store: how many of the calls are made), one abort per signal.
Each run or call is made at most once, so that the number of calls bounds everything else.

*Deadlock.* The lock, the admission controller and the breaker can always take a step (a second
release, a read of the state), so deadlock is checked and shows nothing more. The others
really stop when all calls are over; their configurations say so, and termination is checked by
`RunsEnd`, `CallsEnd`, `LineEmpties`, `DrainsReturn` and `CallsSettle`.

*Fairness.* Lock and admission: the caller whose promise was resolved resumes (`Enter`), since the
microtask queue is drained, and `withLock`/`withPermit` release in their `finally` once the
function settles (`Release`); nothing makes a timer or a signal fire, so waiters are served
without their help. Agent loop: a reader that has opened a run pulls it or closes it, and the
model, tools, guards and timers settle (weak fairness of `Step` for each run; not of `Close` or
`Abort`). Store: the server answers each command and each reply resumes its call (weak fairness of
each `update()` and `updateWithVersion()`). An `updateWithVersion()` retries without a limit after
a null `EXEC`. It ends all the same: the batch was void because something its connection watched
was touched, which takes another call to make a change each time, and once its own version has
moved on the next read of it refuses the call; of the calls there is a bound (`MaxCalls`), and of
changes by them. Delegation: strategies answer, ready continuations and the drain's timer run;
nothing makes an agent register. Tracing: only deadlines fire and what is ready runs; exporters
may hang for ever. Fallback: adapters answer (the code sets no deadline), and the section and the
continuation of each call run.

### What the code does otherwise than its documents say

`redis_shared` ends in a counterexample. It checks the property of the sentence "The
read-modify-write cycle is protected against concurrent mutations"
(packages/redis/src/update-txn.ts:38-39): two updates go over one client, the `EXEC` of the first
drops the watch of the second (131), whose write then overwrites it.

Read in the code while modelling, and not the subject of a run:

- Circuit breaker. "In HALF_OPEN, only one probe runs at a time" (circuit-breaker.ts:64): a late
  failure of a call from the CLOSED period empties the slot of the probe in flight (160), and the
  next stay starts a second one beside it. `OneProbePerPeriod` is what holds. Any late success
  closes an open circuit (153), whatever its age.
- Agent loop. "`running` - currently inside `run()`" (types.ts:344): closing the stream before its
  terminal event leaves the loop `running` (iteration-coordinator.ts:421), and every later `run()`
  throws. `startRun` overwrites the slot of the external handler (169) when the previous run is
  still suspended at its `done`; its listener then outlives it. Tokens of an answer that loses
  against an abort are on the iteration span (iteration-runner.ts:295-297) but not in the usage
  (324-325). `run()` after `dispose()` is accepted and leaves the status `disposed`
  (agent-loop.ts:286, iteration-coordinator.ts:118); a run stopped before its first iteration
  reports the usage of the run before it (agent-loop.ts:310). A reader that closes the stream in
  mid-iteration skips `onIterationEnd`, against docs/security/core.md:61-63.
- Agent pool. `release()` is "Idempotent" (orchestration/types.ts:163): a second release by a former
  holder frees the agent under its new holder (agent-pool.ts:478). "Try to fulfill pending requests
  with a new agent" (483): an expired agent is released, and a waiter stays queued although the pool
  has room. "Recycle: dispose idle agent if above min" (288): `min` is never compared. A `resize()`
  that grows the pool serves no waiter. An expired agent that is released while `dispose()` is
  suspended is disposed twice. The warm-up makes `min` agents without a look at `max` (302).
- Redis store. `setEntry` (codec.ts:79-98) does not look at the reply of `EXEC`: a `write()` or
  `setWithTtl()` over a connection that carries a touched watch is lost without an error. The watch
  may be of a call in progress or left behind by one that threw: `updateWithVersion()` has no
  `UNWATCH` but on a refused version (index.ts:258-265). "MUST advance the key's version on every
  mutation path" (packages/core/src/memory/store.ts:97-103): only `updateWithVersion()` does, so
  that it overwrites an `update()` made after its read and brings a deleted entry back, as
  `setWithTtl()` does, which watches nothing (`clobbered`, `revived`); between `DEL` and `SREM`
  the entry that comes back loses its place in the index. A reconnection drops every watch
  silently. `clear()` takes the whole index away although it deletes only the entries it listed
  (index.ts:201-204): one that is written in between stays stored, but `query()`, `count()` and the
  next `clear()` do not see it. It leaves the version keys, where memory/store.ts:112 says "Note
  `clear()` resets all versions to 0" of `getVersion()`, which this store does not have.
- Delegation. An agent that is unregistered while a strategy is awaited gets its edge all the
  same. A delegation from an agent that was unregistered and registered again takes a new lock, so
  that two selections of one source run at once, against the comment at orchestrator.ts:415-421;
  the cycle check and the edge are in one segment, so `Acyclic` holds. `drainAndDispose()` that
  finds the counter at 0 disposes at once, also when a call was granted a lock and has not begun;
  the poll that comes later does wait for all (`DrainWaits`).
- Sessions. `create()` may return a session that a handler has evicted already; a second `lock()`
  of a locked session is accepted; an unlock closure unlocks whatever locked the session last; a
  `destroy()` in a handler of `evicted` makes `destroyed` come twice; a handler that causes events
  of its own kind loops for ever (`Nested` bounds it here). A handler that accesses or locks and
  unlocks a session in the middle of its eviction puts the id back into the LRU order, where it
  stays after the session is gone; a later `evictExcess()` counts it as an eviction, so that the
  map may stay above the cap and the threshold by one for each such id. `SizeBound` says so with
  `touched`; with `N = 5` TLC reaches a state that needs the term.
- File store. A key that is written twice leaves its older entry on disk, and deleting the newer one
  drops the key although the older entry is there. `read()` and `query()` do not use the index.
- Tracing. There is no disposed flag: an export after `dispose()` initialises the exporter again.
  `endTrace()` and `endSpan()` called twice export twice; `endSpan()` throws once its trace was
  evicted; an exporter whose `initialize()` failed is called all the same; the flush of
  `dispose()` has no deadline, so only `flush()` is shown to return.
- Fallback. "Max consecutive failures" (fallback-adapter.ts:18): a success empties the count when
  its turn at the lock comes, which need not be the order in which the answers came, and a late
  success of an adapter that was left empties the count of the new one; `SwitchPaid` therefore
  counts all failures of an adapter, not consecutive ones. `maxFailures` is not validated (56); 0
  behaves as 1. "try each adapter at most once per chat() call" (fallback-adapter.ts:93, 130): a
  call tries the same adapter again while its failures are below the threshold, and may throw
  without having reached the next one. A stream that fails after its first chunks starts again on
  the next adapter.

## 5. What is proved

Each theorem is about the specification of its component (`Spec`, or the name the module gives it:
`BreakerSpec`, `FallbackSpec`, `PoolSpec`, `SessionSpec`), for every value of its constants under
the component's assumption, which only says what kind of values the code takes; no theorem assumes
how calls share a connection or keeps them apart on the entries. TLC evaluates those assumptions
on each run. Some components share a module of proofs. For each there is a theorem that its
inductive invariant holds (`LockInvariance` and so on); the others follow from it.

| module, component | theorems | inductive invariant, and what it adds to the properties |
|---|---|---|
| `InfraProofs`, lock | `LockTypeOK`, `LockMutualExclusion`, `LockNoLostWakeup`, `LockListeners`, `LockNoBarging`, `LockRefinement` | `LockInv`: types, `HeldIffOwned` (mutual exclusion is not inductive without it: a newcomer looks at `held`, not at the owners), and the queue holding the waiting calls once each |
| `InfraProofs`, breaker | `BreakerTypeOK`, `BreakerTrips`, `BreakerSlot`, `BreakerOneProbe` | `BreakerInv`: `PeriodIsSlot`, the calls admitted in a stay are exactly the holder of the slot |
| `ModelCallProofs`, admission | `AdmissionTypeOK`, `AdmissionBudget`, `AdmissionNoIdlePermit`, `AdmissionQueue`, `AdmissionRefinement` | `AdmissionInv`: `QueueIsPending` and `ArmedIsPending` (a grant goes to a pending call, a cancelled one has left the queue) and the finiteness of the holders, which makes their number change by one |
| `ModelCallProofs`, fallback | `FallbackTypeOK`, `FallbackSwitchPaid` | `FallbackInv`, the ledger of each adapter: what is charged to it and what is queued against it never exceeds what failed on it |
| `AgentLoopProofs` | `LoopTypeOK`, `LoopOneWorking`, `LoopSpanLedger`, `LoopOneError`, `LoopStartsNumbered`, `LoopEndHookOnce`, `LoopIterationLedger`, `LoopAbortBounds`, `LoopSoundCall`, `LoopDisposed`, `LoopStreams` | `LoopInv`: for each run `RunOK`, which ties each suspension to the local counters and to what the reader has heard, and `LateOK`, to what may still begin after an abort; `Solo`: until an abort one run at a time is active and the status says so |
| `OrchestrationProofs`, delegation | `DelegationAcyclic`, `DelegationCap`, `DelegationTypeOK`, `DelegationInflight`, `DelegationDrain` | `DelegationInv`: the lines hold the waiting calls once each, a lock that is waited for has exactly one holder, and the counter is the number of running delegations |
| `OrchestrationProofs`, pool | `PoolExclusive`, `PoolBooksBalance`, `PoolIdleTimed`, `PoolNothingLeft` | `PoolInv`: agents are made in the order of their numbers (`InOrder`), the size and the counters until `dispose()` (`PoolBalance`), whoever was served remembers an agent and it is active (`HeldKnown`, `Exclusive`), what is live after the latch is on the list to be torn down (`Dismantled`) |
| `RedisStoreProofs` | `StoreTypeOK`, `StoreNoLostUpdate`, `StoreOnePerVersion`, `StoreIndexComplete`, `StoreRepairSpares` | `StoreInv`: an `update()` or `updateWithVersion()` whose watch has not been torn still watches its key, and if that was not touched has read all live changes (of its like) and the current version (`UpdateOK`, `SwapOK`); the entry a call by key is about is of its key (`PlaceOK`); ids are written before they are listed or deleted, and new ones are new (`OldIds`, `NewIds`); between `DEL` and `SREM`, or once `repair()` found it missing, an entry comes back only as `revived` (`GapOK`) |
| `KeptStateProofs`, sessions | `SessionLruAgrees`, `SessionLockedStays`, `SessionSizeBound` | `LruInv`: the map against the LRU in the middle of calls too, where a session that is being evicted is in neither of its structures (`Agree`); `SizeInv` adds the shape of the stack (`Bus`, `Interrupted`), what becomes of a session a handler called back on (`CalledBack`) and the count (`Bounded`) |
| `KeptStateProofs`, file store | `FileStoreIndexTrue`, `FileStoreKeyKnown`, `FileStoreNoLostUpdate` | `FileStoreInv`: only the head of the line is past its first step (`LineInv`), what it has read is still what the disk says (`MemInv`), and the index but for the entries it is at work on (`IndexInv`, `KeyInv`) |
| `TracingProofs` | `TracingLruIsRunning`, `TracingNoOrphans`, `TracingFlushCovers`, `TracingInitOnce` | `ExportersInv`: no run of `initialize()` has a later number than its exporter counts, and those not behind the cached promise were cut off by a `dispose()` each (`InitInv`), what a drain owes is unsettled (`OwedInv`); `TracingInv` adds traces listed once and spans of one trace each |

`SeqLemmas` holds what they all need about appending to, shifting, splicing and filtering sequences.

How the arguments go. For lock and admission one lemma per kind of step (the free resource, the
queue, cancellation, release) shows what it does to queue and phases. `LockRefinement` then maps
each step to `Take`, `Join`, `Refuse`, `Pass`, `Leave`, `Close` or a stutter;
`AdmissionRefinement` maps a step of a call to one of these for its own tenant (`OwnTenant`), and
shows that the semaphores of the other tenants stutter (`OtherTenants`). For the agent loop,
`StepSound` shows of each action of one run that it takes `RunOK` to `RunOK` and that the reader
hears a step of `EventStream` or nothing (`Heard`); `StepEffects` says what a step of one run does
to the state all share; `RunStep` and `OuterStep` put them together. For the store, there is one
lemma for each kind of step: one that leaves entries and versions alone (`QuietStep`), one by
which entries go (`GoneStep`), and a batch that executes (`BatchStep`). Each rests on `OthersOK`,
the part of the invariant that is about the other calls: a batch touches the watched key of every
other call on the same entry or version, which cannot succeed with what it has read unless its
watch was dropped, and in that case it is in `torn`. `StoreStep` goes through the actions.

`DelegationAcyclic` needs no invariant but itself: an edge from s to t is added only if some set
that contains t and is closed under the chain leaves s out. Take any set of agents S. If it meets
that closed set, the part inside has a member without an edge into that part, and since the closed
set has no edges out of itself and s is not in it, that member has no edge into S at all; if it
does not meet it, t is not in S, and the new edge is not inside S. `DelegationDrain` says that
when the poll finds the counter at 0 nobody is left: nobody runs by `DelegationInflight`, nobody
is between a grant and its section because a timer finds no continuation ready, and a waiter would
have a holder to wait for. In the fallback adapter the count that a switch empties was collected
from failures of the adapter that is left, each of which is in `failed` once; a report of another
adapter is dropped by the stale check.

The pool's steps are a few changes to the `entries` map: agents are made, go, or change between
idle and active. `LedgerStep` says once what such a change needs to keep the books (new agents
follow the last, the map stays within its bound, each that leaves is counted), `BornLemma` that
the warm-up and `resize()` make exactly the next ones that fit, and `HandUse` that a hand-over
keeps one holder for each agent. The release of an expired agent hands several agents out at once;
`HandoutLemma` shows that they are different ones. A holder whose agent a second release gave away
is in `stale`, and nothing is claimed of it.

For the sessions the argument is about re-entrance. `evictExcess()` takes a session out of the LRU,
emits `evicted`, and only then deletes it; whatever handlers do meanwhile, `Agree` says that the
deletion that waits on the stack is of a session in neither structure, thus not of a locked one,
unless a handler called back on that very session. `SessionLockedStays` and `SessionLruAgrees`
follow. The size bound is a count of `Live`, the sessions no deletion waits for. It grows only in
`create()`, which starts an eviction pass when it passes the threshold; a pass stops early only
when the order runs out or when it pops an id that is no live session, and each such id is one of a
session that was called back on and is now in `Left`, once. The count must also survive
passes inside passes, hence the shape of the stack: one delivery of events at most, the handler
right before it, and behind it at most one interrupted eviction that has not told its event.

For the file store each disk operation of the call inside the lock is one lemma: the call works
from what it has read, which `MemInv` says is still there, because no other call is past its first
step; between its operations the index is wrong for at most the entry it adds or deletes, and a
call that breaks off there sets `dirty`, until a rebuild, for which nothing about the old index is
needed.

For tracing, both the map and the LRU list are filtered when traces leave. `Filter` is read off a
recursive function, whose existence has to be shown before its equations can be used: `KeptExists`
does it by a least counterexample, and the facts about lists are an induction over a set of lists
(`ListInduction` in `SeqLemmas`), since the induction theorems of the library, which take an
operator, cannot be cited.

The store's theorems hold however calls share connections, which is why their properties have
exceptions: `redis_shared` shows that a plain `UpdateProtected` fails, and `NoLostUpdate` says what
is left of it, that a change is lost only to a call that had no watch on the entry, be it that it
never took one or that its watch was dropped.

Only model-checked: liveness (`WaitersSettle`, `RunsEnd`, `CallsEnd`, `LineEmpties`, `CallsSettle`,
`DrainsReturn`), which needs fairness and is out of the prover's reach. Every other property of the
passing runs is stated by a theorem of the table.

## 6. What is not modelled

- Wall-clock time: timers fire at any time while armed, durations are not compared. In the agent
  loop `maxDurationMs` may have passed at any check.
- Data: messages, prompts, tool arguments, schemas, JSON, redaction, token estimates, model
  protocols. Validation of arguments is left out, and so are logging and metrics.
- Agent loop: the circuit breaker and the adapter timeout of the adapter caller, which `AgentLoop`
  does not pass to it; conversation pruning (a warning event is all that is kept of it).
- Agent pool: roles, and the polling of `drain()`.
- Redis store: chunks of 100 reads and 1000 deletions (one command each in the model), corrupt
  entries but for the failure of an `update()` (`repair()` removes those as well), and the times
  that make one entry the latest of its key (any may be). On servers before 6.0.9 expiry does not
  touch watches, and an `update()` can then bring an entry back between `DEL` and `SREM`.
- Delegation: hierarchical children, the status of agents, and what `orchestrator.ts` forwards to
  the message queue and the shared context.
- Sessions: metadata, the counters of dropped events, handlers that throw (they are caught).
- File store: the temporary files, corrupt files, the filters of `query()`, and which entries
  `compact()` chooses (any choice is allowed). A crash between a disk operation and the
  answer to its caller is the crash after the operation.
- Tracing: the handles given out while every exporter is unhealthy, sampling, attributes, redaction,
  views, and `flushTimeoutMs = 0`.
- Steps that the code separates by microtasks or phases and the model takes as one, because
  nothing the properties are about can come in between: the edge of a delegation and the decrement
  in its `finally` (orchestrator.ts:431-444); the settlement of an export and its removal from
  `pendingExports` (trace-exporter-coordinator.ts:165-175); the `reset()` of the coordinator and
  the clearing of the maps in `dispose()` (trace-manager.ts:574-579); the phases of `compact()`
  under the lock (fs-store.ts:282-353). The file store's `updatedAt` is a strict clock, without
  ties.
- Sequential components with state: the message queue, the handoff receipts, the tool registry's
  counters, the cost tracker's totals, the rate limiter's windows. Their operations do not suspend;
  what is hard about the first is a callback that sends again in the middle of `send()`
  (message-queue.ts:204), which can break its order and its cap. The relay's check-then-act
  is listed as a hazard.
- The components with status "not_modelled" in `PROJECT.json`, each with its reason there: either
  named above or sequential and without state worth a model.

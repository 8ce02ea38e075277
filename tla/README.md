# SuiteHarness in TLA+

SuiteHarness is a server that runs agents for the products of a company: a
message arrives on a channel, is stored in a durable session, is executed by an
agent with tools, and its answer is stored and published. Several server
processes may serve one conversation over one SQLite database, and any of them
may die at any time. This directory models the parts of the server that hold
state and where an order of events nobody wrote a test for could do harm.

## Inventory

| Part | Source | State | What makes it hard |
|---|---|---|---|
| Session store | `sessions/sqlite.py` (twin: `sessions/memory.py`) | session row with revision and invalidation watermark, transcript, checkpoints, run claims, stop requests, resume points | compare-and-swap, idempotency keys, leases judged by a clock read earlier, pruning |
| Channel application | `server/application.py` | local variables of one coroutine per delivery, the in-process session lock, the archive file | redelivery, several processes, crash at any await, stop and invalidation at any time, continuation of a stopped run |
| Execution runner | `execution/runner.py` | run state, event queue, journal | batches of tool calls, approvals, cancellation, budgets |
| Capability authority, tool registry, approvals | `execution/in_memory.py`, `channels/approvals.py` | grants and their parents, activation owners, pending challenges | revocation while in use, decision against timeout |
| Kernel and effect scopes | `runtime/kernel.py`, `runtime/effects.py`, `runtime/customer_bundle.py` | slots, scopes, run leases, poisoned tenants | activation with rollback, close while in use, failing disposers |
| Plugins | `plugins/*` | started plugins in dependency order | two-phase start, reverse rollback |
| Delegation | `multiagent/*` | task table, budget of a run tree, child slots | cancellation, restart, budget returned on failure paths |
| Event deduplication | `persistence/events.py`, `channels/feishu/processor.py` | processing leases, retained completions, owner tokens | lease expiry against a slow handler |
| Product state, MCP cursors | `persistence/state.py`, `persistence/mcp.py` | records with revisions, retained command results | replay of a command after later ones, expiry of what is retained |
| Container sandbox | `sandbox/docker.py`, `persistence/sandbox.py`, brokers | active leases, quarantine table and its cache | crash while a container runs, failing cleanup |
| MCP client, WebSocket server, host | `mcp/*`, `channels/websocket/*`, `server/*` | connections, task tables, start and stop order | reconnects, bounded queues, shutdown |
| Adapters, configuration, tools, memory selection | the rest | little or none | input and output, formats |

`PROJECT.json` lists every part with its status and every hazard with its line.

How the parts interact: a channel gives a message to the channel application;
the application writes to the session store before, during and after it lets
the activated bundle execute the run; the runner reports tool calls, progress
checkpoints and one result back through a queue; the application turns progress
into resume points and the result into a terminal event, a checkpoint of the
run history, a session status, an archive entry and an answer.

## Modules

* `SessionStore` - the durable store for one session identity. A public method
  of `SQLiteSessionStore` is one `BEGIN IMMEDIATE ... COMMIT` transaction, so it
  is one action; the outcome of a call that raises or changes nothing is an
  operator of its own (`ClaimOutcome`, `AppendOutcome`, `CheckpointOutcome`).
  `claim_run` and `finalize_run` read the clock before they queue for the
  database lock: their actions take a `now` that may lie in the past. Removals
  that depend on sizes in bytes are a choice (`kept`).
* `ChannelApplication` - extends `SessionStore` with server processes. `h[p]`
  holds the local variables of the coroutine `_handle_locked` that process `p`
  runs for the session (its lock admits one). Each await on the store is one
  action, and what the code does up to the next await belongs to it. A model
  context is read in two steps, `ReadRecent` (the transcript after the cutoff of
  the snapshot, split by `prepare` into recent messages and the working summary)
  and `ReadArchive`; `prepare` awaits its summary callback but reads no store, so
  it belongs to the first. The summary and its `covered_revision` travel in every
  checkpoint beside the run history. The runner
  is seen from outside: `RunnerTool`, `RunnerCheckpoint` and `RunnerFinish` put
  events in the queue that `ConsumeEvent` takes. `StopMessage` and
  `InvalidateMemory` take no lock. `Drop` is the death of a process or the
  cancellation of its task outside the guarded section; `Interrupt` is a
  cancellation inside it. `LegacyStore` is a database from before the claim
  table existed. `executions`, `toolsStarted` and `answers` are history variables.
* `EventDedupe` - the reservation of channel events. `processing` and `completed`
  are the two SQLite tables, or the one dictionary of the in-memory
  deduplicator split by its third field; `durable` says which is configured. A
  task of `process_payload` reads the clock, waits for the lock (`claim`),
  works under `asyncio.timeout` (`work`), waits to `complete`, or unwinds and
  waits to `release`. `Vanish` is the death of its process, or a second
  cancellation while it waits.
* `SandboxLease` - the Docker backend of one process and its restarts. A request
  is the name of its container; each await on the store or on the Docker
  command line is one action; `containers` is the daemon (external). A
  container is created only while its `docker run` is in flight, and at the
  death of the process perhaps just after; the daemon is taken not to create it
  later than that. Concurrent requests have different names: shell
  calls are named by run and call, MCP sessions and probes by random numbers.
* `ProductState` - `compare_and_set` with its idempotency rows (`Outcome` is what
  it decides, `CompareAndSet` what it commits; an error rolls the purge back),
  arbitrary clients that retry (`Command`), and the durable MCP transport
  (`Connect` to `Disconnect`) that saves its cursor after every operation.
  `written` is a history variable. A cursor is a number: the server's event ids
  in the order it issued them.
* `MCSessionStore`, `MCChannelApplication`, `MCContinuation`, `MCStores` -
  instances for TLC.
* `SessionStoreProofs`, `EventDedupeProofs`, `SandboxLeaseProofs`,
  `ProductStateProofs` - the theorems.

Data is abstracted to what the properties tell apart: a message and its run are
one value (`run_id` is a hash of the message's identity); a payload is its
status, whether it is safe to resume, and for a user event the delivery
it came from; a resume point is how many tool calls it covers; the working
summary is the set of runs whose answers it may speak of. Payload sizes,
streamed text and formatting are left out.

## Runs

| Run | What it asks | Result |
|---|---|---|
| `session_store` | the store under arbitrary clients | holds |
| `app_redelivery` | one message, three deliveries, two processes, two deaths, expiring leases, a stop, an interruption, a store fault, a denied commit, a legacy database | holds |
| `app_record` | two messages, three handlers, an invalidation, a history at its limit and trimmed by size | holds |
| `app_continuation` | stop or interruption, resume points, continuation, invalidation | holds |
| `app_liveness` | every handler ends, under fairness | holds |
| `stores` | event deduplication, sandbox leases, product state and MCP cursors | holds |
| `app_concurrent` | two processes never run one conversation concurrently | violated |
| `app_received_at` | a redelivered message is no idempotency conflict | violated |
| `app_lost_entry` | the entry of an unfinished run is never lost | violated |
| `app_unsafe_resume` | a continuation covers every started tool call when `before_commit` may be cancelled | violated |
| `app_unsafe_fault` | the same when a store call of the event loop may fail | violated |
| `app_stale_summary` | the working summary is reset by an invalidation | violated |

The six violations are disagreements between the code and its own comments;
`findings` in `PROJECT.json` quotes them. Each is a run of its own with one
property, so that the passing runs state what does hold: `app_record` shows
that although a started checkpoint may lose an entry, the checkpoint that
commits an outcome does not, and that the messages and the archive text of a
model context (everything but the working summary) hold no answer the handler's
own cutoff excludes; `app_continuation` shows that continuation is exact when
`before_commit` is not cancelled and no store call of the event loop fails.
`app_redelivery` includes such a failing call: it does no harm to what that run
states.

### Bounds

Two processes are enough for every race on the store, since it is the only
thing they share; a third handler, in either process, is what meets the remains
of the first two. The clock moves by one or two units against leases of one and
two: the cases are a lease that is live, just expired and long expired. One or
two messages, one source with two versions, one invalidation and one stop
suffice for each pair of racing operations to happen in both orders.
In `app_redelivery` at most four disturbances (deaths, clock ticks, faults,
interruptions, stops) happen in one behaviour (`MaxDisturbances`).
`app_stale_summary` looks for one behaviour, so its constraint
(`OneMessageAtATime`) only narrows the search; no recent message is kept
there (`ShortTerm = {0}`), as when the newest pair alone exceeds
`max_short_term_bytes`, and elsewhere one is.
`MCSessionStore` has one key more than checkpoints it retains, and follows two of the five statuses, which the store treats
alike. The scan window (`ScanLimit`, `conversation_scan_limit`) covers the
transcripts of the instances. This matters: with the smallest legal window of 2
the recovery path may not see a terminal event that was committed, declares the
run uncertain, and `OneOutcome` fails; the default of 256 makes that a matter of
256 later events.

`MCStores` follows one of its components at a time, chosen initially, since they
share no state. Two tasks and two events over a table with one place: a
duplicate, a late owner and a full table all occur; a lease of three against a
timeout and a lock wait of one each is the tightest the assumption allows. Two
containers suffice for a reconciliation that overlaps a request. Two connections,
of which one may connect twice, overtake each other and reach the limit on
idempotency rows; two idempotency keys over two state keys with room for one
record meet replay, reuse, expiry and the limit on records. In the runs, as in the code, every operation of a durable connection
uses up one of the namespace's idempotency rows for their whole retention: at
the limit (100,000 in seven days by default) the save is refused and the
connection is disabled.

### Fairness

`FairAppSpec` assumes weak fairness of a handler's steps (the event loop runs
every coroutine that is ready) and of the end of a run (the runner has a
timeout). It assumes nothing about time, stops, deliveries or crashes.

## Proofs

`SessionStoreProofs` proves, for all constants that satisfy the named
assumptions of `SessionStore` (nulls are not members, limits and leases are
positive naturals), that `StoreSpec` implies every property of the run
`session_store`. Type correctness (`StoreTypeCorrect`) is inductive by itself.
The four data invariants are inductive only together: `KeysCommitOnce` needs
nothing else, but `SnapshotSuffixExact` for a new event needs that its revision
is above the revision of every stored checkpoint, which is `RevisionsOrdered`,
and `CutoffIsAnEvent` must know that events are never removed. Their
conjunction with the type invariant is the inductive invariant
(`DataInv`, lemmas `DataInit`, `DataStep`); one lemma covers the steps that leave
the rows alone (`QuietStep`), one the append (`AppendStep`), one the checkpoint
with its pruning (`CheckpointStep`). The action properties `ClaimLifecycle`,
`StopFrozenAfterFinalize`, `RevisionCoversChange` and `CutoffMonotone` follow
action by action from the type invariant; `NewestCheckpointKept` also needs the
order of the revisions (`CheckpointKeepsNewest`).

`EventDedupeProofs` proves `OneWorker` and `LiveRowsKept`. The assumption that
carries them is `LeaseExceedsTimeout`: the code enforces that the lease exceeds
the timeout, and the margin (60 seconds by default, against a SQLite busy
timeout of 30) must cover the wait of a claim for the lock, because the lease is
dated from before the wait. `DedupeInv` says that a working task holds the row of
its event and that the row expires after the task's deadline; owner tokens are
distinct, so nobody else's release or completion touches it. A consequence: the
error "event claim ownership expired before completion" is never raised
while the assumption holds. The deadline is when the cancellation is
delivered; what a cancelled handler still does to unwind is not covered.

`SandboxLeaseProofs` proves `NoOrphan` and `FailClosed`. `SandboxInv` adds which
points of a request may have a container, that a running request owns its
row, and that a quarantined name has no running request, so that
reconciliation, which clears a row whoever owns it, never clears one in use.
This rests on one process per deployment and one reconciliation at a time: a
second process loads the active leases of the first as quarantined, and its
reconciliation may clear such a row before the container exists.

`ProductStateProofs` proves `RetentionWindow`, `CursorKept` and `LoneLinkLives`.
`StoreInv` adds that a write whose window is open at the true time is still
retained, whatever older clocks purged by; `LinkInv` that a connection whose
revision is current has seen the stored cursor, and that its next save id has
never been used.

Only model-checked: everything about `ChannelApplication`. Liveness, ENABLED and
what recursive definitions compute are out of the prover's reach.

## Plan

In this order; each module comes with its runs and, where marked, proofs.

1. The rest of the sandbox: the readiness cache, the broker's capacity and its
   sessions.
2. `EffectScope`, then `Kernel` on top of it (activation, run leases, close,
   quarantine) and `Plugins`. Abstract specification: a tenant is served by
   at most one activation, and only while its resources are open; `Kernel` is to
   implement it. Proofs: disposal at most once and in reverse order.
3. `CapabilityAuthority`, `Approvals`, `ExecutionRunner`, then `Delegation` over
   them (task table and budget). Proofs: a child's grant never exceeds its
   parent's; the budget is never overdrawn.
4. Refinement of `SessionStore` by `ChannelApplication` (every step of a handler
   is a step of the store or leaves it alone), and a proof of `AtMostOnce`.
5. `McpConnection` and `WebSocketTasks`: reconnects and bounded task tables.
   Runs over several components where they interact: deduplicated delivery into
   the channel application.

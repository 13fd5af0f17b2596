# Verification of the Ayaka inference engine

TLA+ specifications of the concurrent core of `src/python/ayaka`: how a request is queued,
batched, put on the device, settled and ended, how its output reaches the caller, how several
ranks agree on a step, and how the memory it uses is owned meanwhile.
TLC checks the specifications on small instances; TLAPS proves the most important safety
properties for every value of the constants.

Paths below are relative to `src/python/ayaka/` unless they start with `src/`.

## 1. The system

A request enters through `runtime/llm.py` (library) or `serving/` (HTTP), becomes a
`RequestLifecycle` (`request/`), waits in the scheduler (`sched/`), and is served by engine
iterations (`runtime/engine.py`). One iteration is: settle what the device finished, flush
reports into lifecycles, plan up to `max_inflight` batches, prepare their KV pages, adopt each as
an execution ticket, launch it. The engine is one thread. What runs beside it: the device, client
threads that set cancellation tokens and read output streams, and allocator callers (the
accounting classes in `memory/` are locked because loaders, caches and workers share them).

| Part | State | Operations | What makes it hard |
| --- | --- | --- | --- |
| executor (`executor/base.py`, `ticket.py`) | tickets, fences, registry | adopt, launch, cancel, poll, drain, quarantine, shutdown | part of a step enqueued before its fence; cancellation at any point; fences that raise |
| settlement (`executor/completion.py`) | bindings of slices to tickets | adopt, handle, retire, shutdown | token set by another thread between two reads in one call |
| lifecycle (`request/`) | state, epoch, slice, output | begin, commit, publish, discard, reports | stale completions, id reuse |
| scheduler queue (`sched/core.py`) | staging deque, hot window, id set | add, requeue, drop, drain | dropped entries that stay staged, ids that come back |
| decode ring (`sched/core.py`, `continuous.py`) | dense array, index, cursor | add, remove, select, advance | removal under the cursor, overlapping tickets |
| planner (`sched/continuous.py`, `budget.py`, `policy.py`) | candidate, chunk cap, ages | build, prepare, shrink, preempt, adopt | padding, retries, fairness |
| KV runtime (`runtime/kv.py`, `memory/transaction.py`) | versions, pending steps | prepare, commit, rollback, retire | preemption racing settlement |
| page allocator (`memory/allocator.py`) | page states, reference counts, epochs | allocate, commit, release, reclaim | reuse of a page the device still uses |
| memory ledger (`memory/ledger.py`) | reservations, tickets, locks | reserve, materialize, commit, transfer | transfers, over-subscription between two steps |
| memory manager (`memory/manager.py`, `transaction.py`, `sequence.py`) | page tables, transactions, leases | reserve, prepare, launch, commit, retire, fail; fork, pin, truncate, preempt, release | pages shared by sequences and overlapping steps; releases that arrive meanwhile |
| prefix cache and host tier (`memory/tiering.py`, `prefix/`, `memory/manager.py`) | placement records, copies in flight, host slots, cached chains | spill, promote, poll, reconcile, quarantine, evict, relieve pressure, shut down | copies that run on their own; blocks recomputed, evicted or attached meanwhile |
| library facade and output streams (`runtime/llm.py`, `collection.py`) | command queue, futures, bounded streams, lifecycles | submit, cancel, admit, publish, settle, close | three kinds of threads; overflow; consumers that leave; a step that raises |
| engine client (`runtime/engine_client.py`) | admissions, client streams, the wire | submit, reply, pump, close | closures, events and replies on different paths |
| distributed steps (`distributed/execution.py`, `worker/distributed.py`) | collectives submitted, votes, worker state, flights | broadcast, grant, launch, prove, commit, publish, recover, shut down | a rank that fails or misses a deadline others met |
| serving service (`serving/service.py`, `generation.py`, `runtime/serving.py`, `kvcache/resize.py`) | commands, controls, handles, streams, cache generations | reserve, submit, admit, collect, resize, fail, close | disconnects, timeouts and shutdown racing the owner thread; a resize that fails half way |
| grouped KV cache, lanes, router, migration, pipeline-parallel scheduler | groups, queues, envelopes | grouped steps, stages, routing | not modelled, see section 5 |
| speculative decoding, sampling, graphs, models, layers, kernels, loader, tokenizers, configs, device, metrics | tensors, tables | numeric or start-up code | not protocol code |

`PROJECT.json` lists every component with its status and every hazard with the line where it
bites and the properties that would catch it.

## 2. Modules

Every module names the files it is translated from; the map in `PROJECT.json` gives the lines of
each definition. Operators whose comment starts with *Mutant* are deliberately wrong variants of
the definition that follows them; no specification uses them, they only serve to show that a
property can fail.

### Executor (`Executor`, `StepLease`, `TicketProtocol`, `MCExecutor`, `ExecutorProofs`)

`ticket[t]` is an `ExecutionTicket`, `lease[t]` the place of its `KVExecutionResources`, `work[t]`
the units of device work still running, `phase` the executor's control state. Actions are the
calls of the engine thread (`Adopt`, `AbortPrepared`, `Cancel`, `Launch*`, `Poll*`, `Shutdown`) and
of the settlement (`BeginSettle`, `Commit`, `Retire`, `SettleFault`), and the device's
`DeviceFinish`. A launch may break off after any part of the step was enqueued and any part of
that was fenced. A fence may raise or fail at any time but does not claim quiescence falsely,
which `FenceResult` enforces.

`StepLease` is the contract of `ExecutionResources` ("Exclusive lease") without tickets;
`TicketProtocol` is what the completion coordinator relies on. `Executor` implements both
(`ImplementsStepLease`, `ImplementsTicketProtocol`).

### Settlement (`Lifecycle`, `Settlement`, `MCSettlement`, `SettlementProofs`)

`Lifecycle` has no variables: `RequestStateMachine` and the slice methods of `RequestLifecycle` as
operators on a record, with each `ValueError` as a predicate. `Settlement` puts lifecycles, their
registry, their KV sequences, the scheduler's places and reports, and abstract tickets together
and takes `CompletionCoordinator.adopt`, `handle` and `Engine.step` apart at every point where
another thread can set a cancellation token. Its tickets are those of `TicketProtocol`
(`FollowsTicketProtocol`), so that `Executor` and `Settlement` meet at a checked interface
instead of in one product of state spaces. Abstracted: `prepare_request` without the prefix lookup (`runtime/kv.py:379`), which only
binds a fresh sequence further on, or defers it; one candidate plan per `schedule()`, where the code tries a second one
(`sched/continuous.py:212`); a decode whose token is set stands in no queue until its abort, where the code keeps it in `_running` and skips it (line 260).

### Scheduler (`WaitingQueue`, `DecodeRing`, `BatchPlanner`, and their `MC` modules)

`WaitingQueue` is `SchedulerCore`'s staging deque, hot window and `_waiting_ids`, with
`schedule()` (drain, choose, requeue owners), settlement, preemption, abort and `forget`.
`DecodeRing` is the dense running array with its index and cursor; positions count from 0 as in the
code; `waited` is auxiliary and counts full rounds a request was passed over. `BatchPlanner` is
one `schedule()`: candidate building against `BatchBudget`, ranking and aging, then the
prepare loop with `_shrink_transient` and `_try_preempt_one`, then adoption and settlement.
The runtime's answer to `prepare` is a free choice, and so is the configuration (`settings`), within
`Settings`. Abstracted: a second candidate plan in one `schedule()`, and in `WaitingQueue` the time a cancelled slice stays active
in no queue before its abort (`sched/core.py:576`), which ends there at once. `BatchPlanner` keeps the ring in order when a request joins or leaves;
the physical order with its swap-with-last is the subject of `DecodeRing`.

### KV memory (`PageAllocator`, `MemoryManager`, `MCMemoryManager`, `MemoryManagerProofs`)

`PageAllocator` has no variables: each method of the allocator is an operator on the record of all pages,
the ready pages, the reclaim heap and the epoch; where the method raises, it sets `fault`. `MemoryManager` adds the
sequences (`seq`), the record a step has as transaction and then as lease (`step`), and pinned prefixes (`pub`), with
one action per method. Each method runs under the manager's lock. `DeviceRuns` is the device: it executes
the copies and the writes of a launched step on `bytes`, at any time between launch and commit, so that what
a sequence reads (`text`) can be compared with what is there. A version is only ever compared with the one a
reservation was planned at; `moved` records whether it still is that one. `doubtful` is auxiliary: the pages a failed
step may write until its safe epoch; the late writes themselves do not reach `bytes`. `Rejected` are the pages a commit
rejected and the retirement has not given back yet.

### Front end (`Frontend`, `EngineClient`, `MCEngineClient`)

`Frontend` is `AyakaLLM` with its `OutputCollector` and the consumer `AsyncAyakaLLM.generate`. A submission `u` is one call of
`submit()`; `fut[u]` is its future, `buf[u]`, `lost[u]` its `OutputStream`, `streams` the collector, `life` and `out` the
lifecycles and slices of the engine as far as the front end sees them, `pc` the place of the owner thread in `_run`: admit,
step, settle, or close, fail the stragglers, stop. Threads meet at the queue, the tokens and the streams, and each action is
what happens between two of those. `EngineClient` extends it with the two deployments (`mode`). In "inproc" the client
delegates; in "zmq" the control call, the server thread, its callback, the output channel, the pump and the client's own streams
are steps of their own, and the owner's passes also send (`Wire*`). The engine inside is `Settlement` reduced to: a unit has
at most one slice out, and its settlement publishes. Text, log-probabilities and message encoding are left out.
A deadline or a queue timeout (`runtime/engine.py:191`) aborts a request as a token does and is not an action of its own; a slice that publishes nothing
ends its lifecycle, so a prefill chunk before the last one is not represented; `engine.close()` does not raise; and the server
thread stays until the owner has stopped, so a close that timed out with the owner still draining (`runtime/engine_client.py:242`) is left out.

### Group of ranks (`StepGroup`, `MCStepGroup`, `StepGroupProofs`)

Each rank has its KV worker (`kv`, `last`, `gen`), its local worker and work in flight (`local`, `flights`), its control plane
(`plane`) and its place in the protocol (`pc`). One action is what a rank does from the return of one collective to
the submission of the next, so the protocol is as asynchronous as the ranks. `wire[p][r]` is the sequence of collectives rank
`r` submitted on plane `p`; the process group matches them by position, as torch does, whatever they carry, and a call
returns when every rank has submitted its own (`Complete`). A rank may instead time out while the same call completes for
others. Entries remember step and phase, which the real votes do not; nothing but the properties reads them. `Faults` are
the calls of the rank-local host that may raise. `Recover` replaces the plane or keeps it, as `reinitialize()` decides; a rank that keeps
it goes on at the position its predecessor left.

### Host tier and prefix cache (`Tiering`, `MCTiering`)

`kv` is everything behind the memory manager's lock, and a method is an operator from one such record to the next. `rec` is the
tier's index of placements, `copies` what the engine has issued on the copy stream and not yet reported, in stream order.
`CopyRuns` is the device: it moves `data` and `host` when it likes, so that what a reader finds in a page can be compared with
the block it stands for. The engine may raise in a submit after it had issued part of a copy; the target is then in
quarantine until a drain. Abstracted: a block is its identity (the chain that ends with it), and only full
blocks exist; byte budgets are one bound on transfers, and a refusal leaves no trace; the order of evictable leaves is left open; `Retire` is `complete_step`,
so commit and retirement are one step; `Pressure` asks for one page; promotions that landed in one poll are visited parents first; what a freed page or slot holds is `Junk`. A copy into a page that its
promotion no longer owns writes `Stray`, which the reading properties excuse: who may own that page then is what
`CopiesOwnTheirTarget` is about, and `tiering_recompute` refutes it.


### Serving service (`Serving`, `MCServing`, `ServingProofs`, `ServingRequestProofs`, `ServingStreamProofs`)

`at[c]` is where `GenerationPipeline` is with client `c`, `handle[c]` its `GenerationHandle`, `cmds` and `controls` the two bounded queues of
`ServingService`, `pc` the place of the owner thread in `_run`: admit, controls, step, collect, or one of the steps of a resize, of a
failure or of the end. `tail[t]` is a cache generation: the engine and the slab it owns, `open`, `closing`, or `released`; `bound` is the
one the runtime holds and `serving` the one the service runs, which differ in the middle of a resize. `closer` is a thread in
`ServingRuntime.close`. The engine inside is `Settlement` reduced to: a request has a lifecycle and at most one slice in flight, which the device
finishes or loses. Text is the number of engine events it was decoded from; a parser may withhold the last of it until the end.
Abstracted: a pass of `_run` takes commands until the queue is empty, in the code at most 32 (`serving/service.py:613`); what `_collect` finds past its
cursor is one delta, the byte limit of a stream is its event limit, and a parser does not raise (line 446); every reason to reject a resize, the host
mirror's (`runtime/serving.py:605`) included, is one branch; `_bind_tail` does not raise (line 1197).

## 3. Runs

A passing run is explored completely by TLC. A run marked *expected violation* checks one
statement quoted from a doc or a comment, and TLC finds the behaviour of the code that refutes it
(section *Findings*).

* **`executor`** (`MCExecutor`, `Executor.cfg`): Two tickets of up to two units of device work each compete for the one place of the registry, with launches that break off, fences that fail or raise, drain proofs, cancellation at every point, settlement faults and shutdown: nothing is published or given back while the device uses it; the executor implements the StepLease contract and the ticket protocol its settlement relies on; every submission is retired or quarantined, and shutdown closes unless a ticket is quarantined.  
  Checks `SettledWorkIsQuiescent`, `ImplementsStepLease`, `ImplementsTicketProtocol`, `WorkIsDecided`.
* **`engine_client`** (`MCEngineClient`, `EngineClient.cfg`): A parallel family, a long request, two requests that compete for the queue or two that share an id, in process and over the wire, with consumers that leave, orphaned admissions, overflowing streams, a close at any time and a step that raises: every consumer gets its own events in order and the end last, streams and requests end together, and everybody who waits is answered.  
  Checks `DeliveriesAreFaithful`, `StreamsFollowRequests`, `FrontendComesToRest`.
* **`group`** (`MCStepGroup`, `StepGroup.cfg`): Two ranks run two steps, fail in any phase, miss deadlines that their peer meets, recover once, on a new control plane or on the old one, and shut down, in any interleaving: votes of different steps or phases are never counted together but for the shutdown vote of a rank that recovered on the old plane, no phase begins before the one before it was unanimous, a rank frees its state only when no rank has work in flight, and every call into the group returns although a peer may stall for good.  
  Checks `GrantsNeverMix`, `PhasesAreUnanimous`, `ClosesQuiescent`, `CallsReturn`.
* **`memory`** (`MCMemoryManager`, `MemoryManager.cfg`): Three pages under two overlapping steps, forks and truncations of two sequences, or a pinned prefix, or failing steps with a later safe epoch: page counters are the owners, no call of the manager is refused by the allocator, nobody ever reads a row another step has written, and a page goes back only when nobody can touch it.  
  Checks `AllocatorInvariant`, `ReadsSeeOwnTokens`, `RefsMatchOwners`, `AbandonedPagesWait`.
* **`queue_pressure`** (`MCWaitingQueue`, `WaitingQueue_pressure.cfg`): Three requests, a window smaller than the backlog, two tickets, shrinking plans and preemption: every live request keeps exactly one place, dropped entries neither linger in the window nor use it up, and as long as no final chunk was halved the owners of partial prompts stay visible and within their limit.  
  Checks `EveryRequestHasOnePlace`, `PartialPrefillsProgress`.
* **`ring`** (`MCDecodeRing`, `DecodeRing.cfg`): Four requests join, are cancelled and leave in any order while two decode tickets are out: the cursor stays on the request it points at across every swap-with-last removal, nobody of a stable set is passed over for ceil(N/D) full rounds, and a runnable request is served or leaves unless new requests join for ever.  
  Checks `ServedWithinBound`, `CursorKeepsIdentity`, `ServedUnlessArrivals`.
* **`planner`** (`MCBatchPlanner`, `BatchPlanner.cfg`): Mixed batches, decodes or prefills first, and separate ones with a burst limit and refusing advisors, with padding, drafts, chunking, refusals and preemption: every candidate and every retry of it fits the step, and every retry makes progress, so schedule() returns.  
  Checks `FitIsLargest`, `PlanFits`, `RetriesConverge`.
* **`serving`** (`MCServing`, `Serving.cfg`): Clients that read, stop reading or disconnect, cache resizes by swap and by rebuild, shutdowns that time out and are tried again, and lost slices, failed workers, steps, builds and cleanups: a stream that ends well is complete, no cache is freed under work, an answered resize leaves the service on the cache it names, requests are accounted for, and whoever waits is answered.  
  Checks `FinishedStreamsAreWhole`, `ReleasedTailsAreIdle`, `ResizesAreAllOrNothing`, `RequestsAreConserved`, `ClientsHearBack`.
* **`settlement_overlap`** (`MCSettlement`, `Settlement_overlap.cfg`): Two requests and two overlapping tickets, with speculative decodes, a preemption, a cancel thread interleaved at every token read of adopt() and handle(), failing callbacks, aborts, and an id that is submitted again once its request was forgotten: no race leaves a request waiting for a ticket that is gone, touches another ticket's requests, publishes a token ahead of its KV, leaks a sequence or is taken for a fault.  
  Checks `SliceIsTracked`, `RingMirrorsKV`, `EndedRequestsLetGo`, `OnlyResourcesFault`, `PublishesBehindKV`, `SettlementIsConfined`, `FollowsTicketProtocol`.
* **`settlement_liveness`** (`MCSettlement`, `Settlement_liveness.cfg`): Two requests with two-chunk prompts share one ticket at a time: no chunk is taken for a fault by the settlement of another, and with a stepping engine thread and a device that finishes, every claimed slice is settled and every cancelled request becomes terminal, unless a ticket was lost or the engine loop failed.  
  Checks `RequestsMoveOn`.
* **`tiering`** (`MCTiering`, `Tiering.cfg`): A chain of three blocks on three device pages and two host slots, two requests that attach, resume, compute and leave, spills, promotions, recomputation, eviction, memory pressure, a copy that fails and a close at any time: every page and slot has one owner, nobody reads bytes that are not its block, a host copy is what it says and is kept exactly as long as the chain before it has records, and a close gives everything back.  
  Checks `TierOwnership`, `ReadersSeeTheirBlocks`, `CloseIsClean`, `HostTierIsSound`.
* **`tiering_recompute`** (`MCTiering`, `Tiering_recompute.cfg`, expected violation): A block is recomputed while its promotion is on the copy stream: reconciliation gives the reserved page back although the copy will still write it.  
  Checks `CopiesOwnTheirTarget`.

### Bounds

* `executor`: two tickets and two units of work under `MaxInflight` 1. Tickets interact only through
  the registry bound and shutdown; two units are needed for a fence that covers part of a step.
* `settlement_*`: two lifecycles, whose ids are free in `settlement_overlap` so that the second may reuse the first's;
  one or two tickets, prompts of one or two tokens, one or two output tokens, one preemption (`MaxPreempt`),
  drafts of one token. A chunk boundary needs a prompt of two (`settlement_liveness`), a stale slice
  needs a second ticket, the rebinding of section *Findings* needs one preemption.
* `queue_pressure`: a window smaller than the number of requests, so that the drain stops in the middle of the
  backlog; two tickets so that `schedule()` runs while a partial prefill is out.
* `ring`: four requests, two slots and two tickets, so that a removal can hit the tail, the cursor, both or
  neither, and three requests are not a multiple of the slots; `waited` stops at the number of requests, which
  is above every bound the property compares it with.
* `planner`: padding 2 with a budget of 5 slots (not a multiple), prompts longer than the
  chunk cap, drafts of up to two tokens; `CountBound` caps bypass counts and ages just above
  `MaxBypass`, the only value they are compared with. `Settings` holds three configurations; the mixed one that
  serves decodes first has three requests, the others two.
* `memory`: three pages of two positions. `Settings` holds three configurations: two sequences of up to three tokens
  under two overlapping steps; the same under one step with a pinned prefix; one sequence with steps that fail at or
  one epoch ahead of the present. `MaxAppend` is two rows per reservation, so that one can cross a page boundary and
  reject a page; the commit floor is one row or all.
* `engine_client`: a family of two children, a request with two events under a `StreamLimit` of one (so that it overflows if its
  consumer waits), two submissions that compete for a queue of one command, with different ids or the same; one
  desertion (a cancel, a consumer that leaves, a caller that abandons its future), one failing step. Over the wire one submission at a time,
  since control calls are serial.
* `group`: two ranks, source and publisher different; two steps, the second without a generation, so that stale votes have a step to meet; one
  recovery per rank, on a new plane or on the old one; one shutdown vote per plane; execute, commit, publication and close may fail, and a
  rank refuses to prepare for a stale step, a step it was not given, another generation or a failed state (a refusal by the host itself
  looks the same to the group and is left out of `MCFaults`); one of the two ranks may stall for ever. With two
  ranks every disagreement between a rank and the rest is there; `StepGroupProofs` has no such bound.
* `tiering`: a chain of three blocks (a parent, a child, a grandchild, so that a chain can break in the middle), three pages, two host slots (fewer than blocks), two
  transfers, one failing submit, two requests. `tiering_recompute` uses the same module with the bounds of its counterexample.
* `serving`: `Scenarios` combines in pairs what can interact: two streams and a failure; a stream and a shutdown tried twice; a stream, a resize
  and a failure; two resizes or one and a shutdown with two failures. Capacities are such that 3 pages are swapped in, 4 need a rebuild and 1
  is below the floor; streams hold one event, so that a reader that is late overflows them; every queue holds one entry; two resizes, one of them restored, build at most three generations (`MaxTails`).

### Fairness

Safety runs have none. The liveness runs assume weak fairness of

* the engine thread: `AyakaLLM._run` calls `Engine.step` in a loop, and every settlement or
  cancellation step is taken by that loop (`runtime/llm.py:115`);
* the device: a unit of work that was enqueued ends (the code has no answer to a device that
  never does; its own drain has the same premise);
* in `DecodeRing`, of `schedule()` and of the settlement of its tickets, which the same loop makes;
* the handling of a completed ticket in `Settlement` (`HandleBegin`), strongly: it is possible only between two engine
  steps, and `Engine.step` begins each of them with the completed tickets;
* in `EngineClient`, the owner thread, the device, the client's pump thread, the control calls that were begun (a
  client that sent a message waits for the reply, with a timeout; the server thread answers) and consumers that read;
  a consumer may leave at any time, and then nobody reads;
* in `StepGroup`, the ranks of `Live`. The others may stall for good, in a collective or before it. That a
  live rank still returns rests on the deadline of every phase (`_budget`, `distributed/execution.py:429`), which may be `None`
  by configuration: `CallsReturn` is about groups with deadlines.

* in `Serving`, the owner thread (`_run` is a loop), the event loop that resolves futures and reads streams, and the device
  for work it did not lose.

Nothing is assumed of clients that did not call, of cancellation, of memory pressure, of arrivals or of faults.
`Settlement` treats a ticket that stays quarantined, which the executor keeps for ever by
design, and an engine loop that failed as excused; the excuse is spelled out in the property.

### Findings

Disagreements between the code and what its own docs, comments or tests say of it, each with the
run whose counterexample shows it.

* `CopiesOwnTheirTarget` (code bug, run `tiering_recompute`, `src/python/ayaka/memory/tiering.py:1069`): When a block that is being promoted was recomputed on the device meanwhile, reconcile() aborts the promotion and releases its reserved page, its host slot and its budget at once, although the asynchronous host-to-device copy is still queued on the copy stream and will write that page. src/python/ayaka/memory/tiering.py:49 says "the two transient states are the only ones that touch both tiers, and each owns its destination resource until the transfer resolves".

Further statements of docs and comments are stated in the modules and refuted by TLC. No listed run is devoted to
them; each is seen by adding the line named here to the given configuration in place of its properties.

* `INVARIANT CancelIsSafe` in `Settlement_overlap.cfg`. `runtime/llm.py:89` says of `cancel` "Thread-safe cancel signal;
  the owner loop converts it to an abort." A token set between the choice of a request and `adopt()` makes the
  preflight (`executor/completion.py:398`) raise `ValueError`, which leaves `Engine.step` and ends the owner loop.
* `INVARIANT RebindingPlansValidate` in `Settlement_overlap.cfg`. `runtime/kv.py:423` says "Rebinding here prevents a plan from being
  built on the pre-reset view and failing validation." With two steps in flight a DECODING request that was preempted in this
  step, its report not flushed yet, is rebound with zero computed tokens and planned as PREFILL while its state is still
  DECODING: `adopt()` raises `ValueError` out of `Engine.step`.
* `INVARIANT StagedDropsAreSkipped` in `WaitingQueue_pressure.cfg` with `IdOf <- SharedIds` and without `SYMMETRY`.
  `sched/core.py:546` says of a dropped entry "Still staged: the drain skips it via `_waiting_ids`." It does not when the
  id was added again meanwhile: the old request enters the window in the place of the new one.
* `INVARIANT WrittenPagesWait` in `MemoryManager.cfg`. A failed step keeps the pages it had reserved until its safe epoch
  (`memory/manager.py:1318`), but a sequence released meanwhile gives back at once pages which the step may still write
  (`memory/manager.py:1977`).
* `INVARIANT AdmittedReachTheHost` in `EngineClient.cfg`. The server thread submits and then hangs its callback on the future
  (`runtime/engine_client.py:224`). If the owner admits and ends the request in between, its events and its closure are on the wire
  before the admission. The pump has dropped the stream when the admission arrives, and the caller gets an error for a request
  that was served, although the module doc (line 13) promises of the early attach that "no published event can be missed".
* `PROPERTY OnlySlowConsumersOverflow` in `EngineClient.cfg`. Overflow is documented as the answer to a slow consumer
  (`runtime/collection.py:4`). Behind the server nobody reads the streams of the core, so a request with more
  events than `stream_limit` is given up although its consumer on the other side keeps pace.
* `INVARIANT CleanShutdownIsGroupWide` in `StepGroup.cfg`. `distributed/execution.py:23` says that after "a refusal or deadline
  failure" in a shutdown "no rank reports a clean shutdown". A deadline that passes on one rank in the final barrier leaves it
  FAILED while its peers have closed.
* `INVARIANT FailedSwapsKeepTheOldCache` in `Serving.cfg`. `runtime/serving.py:1335` says of a resize that "a failure leaves the old
  cache serving". A swap whose teardown raises has bound the new cache and dropped the owner of the old one.
* `INVARIANT OnlyDrainPermitsRelease` in `Serving.cfg`. `serving/service.py:664` says "only proven drain permits release". `close()`
  reads `_fatal` and `_stopped` one after the other, and an owner that fails in between lets the release begin undrained. The
  teardown's own guard still holds it back (`ReleasedTailsAreIdle`).
* `INVARIANT SubmittedIsAccounted` in `Serving.cfg`. `serving/stats.py:436` says "Submitted = rejected + admitted". A command whose
  future was withdrawn and that is left for the owner's last drain is neither.
* `INVARIANT QueuedResizesHaveAnOwner` in `Serving.cfg`. `resize()` reads `ready` before it takes the lock (`serving/service.py:252`), so a
  control can be queued after the last drain, and nobody answers it. A resize whose caller timed out is still applied.
* `PROPERTY ClientsHearBackFromAClose` in `Serving.cfg`. `_raise_if_admission_closed` exists because "affected clients would wait
  forever" (`serving/service.py:572`), but the closing branch of `_run` never calls it: a slice lost during a shutdown leaves its client without
  an end.
* Without the excuse `Displaced` in `OpenStreamsAreRegistered` (module `Frontend`), `engine_client` fails. An id
  submitted again while its first stream is open is refused, and the refusal drops the id from the collector
  (`runtime/llm.py:188`), so the first caller's stream is never written or closed again; `runtime/llm.py:301` counts on the end.
* `INVARIANT EveryGrantIsPure` in `StepGroup.cfg`. `recover()` says that it will "optionally replace the plane" and that "stale steps from
  before the failure are rejected by the monotonic step check plus the generation guard" (`distributed/execution.py:271`). Both checks
  look at envelopes, and a vote has none. A rank broadcasts, misses its deadline, recovers without a new plane and votes for a shutdown; its peer
  has entered the broadcast and votes to prepare; the two yes votes stand at the same position, and the peer launches the step. `GrantsNeverMix`
  and `PhasesAreUnanimous` excuse exactly that vote (`Rejoins`) and hold for everything else; `ClosesQuiescent` holds without an excuse.

Smaller differences met on the way:

* `_shrink_transient` (`sched/continuous.py:653`) halves a slice that was to end its prompt without asking
  `max_num_partial_prefills`, so two requests can be between chunks under a limit of one. `WaitingQueue` follows
  it with the auxiliary `shrunk`, and `PartialPrefillsProgress` holds as long as it did not happen;
  `configs/scheduler.py:107` leaves enforcing the limit to the scheduler.
* Swap-with-last removal (`sched/core.py:630`) pulls the decode cursor back: with a steady stream of short
  requests a runnable one is never served, which `ServedUnlessArrivals` has to exclude, although
  `sched/README.md:37` promises "round-robin decode fairness".
* `_append_prefills` (`sched/continuous.py:512`) counts a bypass while it builds a candidate, so prepares that
  fail do age a waiting request; `sched/README.md:129` says they do not.
* With separate batches the stale plan of `RebindingPlansValidate` needs only one ticket in flight: the decode
  candidate preempts the request and the prefill candidate of the same `schedule()` plans it (`AdoptRaises`
  of `BatchPlanner`).
* Between the commit and the retirement of a speculative step that rejected a whole page, the page is RESERVED
  without a reservation, and `RuntimeMemoryManager.assert_invariants` (`memory/manager.py:2153`) would raise
  "reservation registry does not match reserved-page accounting". `RefsMatchOwners` states the same
  equality with exactly these pages (`Rejected`) as the exception.
* A stream that overflowed drops one event and may take the next ones if its consumer reads in between, before the owner
  loop gives the request up: what the consumer got then has a gap. `DeliveriesAreFaithful` excuses streams that overflowed.
* `ZmqEngineCoreClient.close` clears admissions that were not decided, and an overflowed client stream is dropped
  without being closed (`runtime/engine_client.py:389`).
* `CudaTransferEngine.drain` synchronises the stream only if transfers are pending (`memory/tiering.py:604`), while the comment at
  line 1404 relies on a quiescent stream. The first block of a chain, once only on the host, is never promoted, and a promotion that landed under a parent
  that failed waits for the next poll.
* `TierManager.assert_invariants` promises "that no tracked device page is FREE" (`memory/tiering.py:1573`). Between a drop of
  cache entries the tier is not told of (`PrefixService.evict`, or the drop loop of `evict_prefixes_for_pressure`) and the next
  reconciliation, a DEVICE record names a page that was freed, and the assertion would raise. `TierOwnership` states it with
  exactly these records (`Outdated`) as the exception, fails without it, and adds that the place where the code does assert, after the
  poll of `shutdown_tier` (`memory/manager.py:1250`), is never reached in such a state.
* `HostSlotPool.acquire` is documented as returning the lowest free slot and returns the oldest one.
* A rank that is FAILED only because of the final barrier cannot be rejoined by peers that are READY: their `recover()`
  refuses. `LocalWorker` has no `recover`. The pipeline-parallel path stamps `worker_generation=0`, so its steps are refused
  after a recovery (`distributed/execution.py:406`).
* `CacheResizeFatal` is "Raised only when the old slab was already released" (`kvcache/resize.py:117`), and also when the teardown
  before a rebuild fails. `ready` is documented as false once the worker left READY (`serving/service.py:229`), but
  `accepting_work` does not look at the worker. The deferred admission of `_admit` needs a local decision
  that needs remote KV, which `RouteDecision` forbids.
* `memory/allocator.py:1017` calls the safe epoch of a page "monotonic for a page lifetime". A release that leaves another owner
  on the page drops its epoch; only the epoch of the last release counts.

## 4. Proofs

`ExecutorProofs` proves `ExecutorTypeOK`, `SettledWorkIsQuiescent`, `CommittedWorkSucceeded`,
`ClosedLeavesNothing`, `HostFailureIsFinal` and `ImplementsStepLease` for any sets of tickets and
units and any `MaxInflight`, from `ExecutorAssumption` alone. The invariants are not inductive: why a
completed ticket is quiescent depends on how its state, its fences, its need for a drain proof
and its lease fit together. `ExecutorInv` adds, per ticket, `StateInv` (which flags a state allows),
`FenceInv` (a launch without need of a proof has a fence for every running unit) and `LeaseInv`
(where the bundle may be in each state). One lemma per operator on tickets shows that it keeps
`TicketInv`; `OneTicketStep` lifts this to the functions; `QueryKeeps` deals with a poll.
`ClosedLeavesNothing` needs `ClosedInv` besides, and the refinement is shown move by move
(`LeaseMoves`); so is `ImplementsTicketProtocol`, the refinement of the protocol the engine relies on. The two liveness properties are
model-checked only; `CommittedWorkSucceeded`, `ClosedLeavesNothing` and `HostFailureIsFinal` are proved and have no place in a run.

`SettlementProofs` proves `SettlementIsConfined` and `FollowsTicketProtocol` for any requests, ids, tickets and limits, from
`LifecycleAssumption` and `SettlementAssumption`. Both rest on the inductive invariant `Basic`: the types, and for every place of
the engine thread which ticket it holds and what the ticket's record says (`ControlInv`, `TicketInv`, `AdoptInv`).

`DecodeRingProofs` proves `RingTypeOK`, `RingIsDense` and `CursorKeepsIdentity` for any requests,
slots and tickets. The conjunction of the first two is inductive: the swap of a
removal is right because array and index are inverse to each other before it. The bound
`ServedWithinBound` counts rounds over cardinalities and is model-checked.

`MemoryManagerProofs` proves `AllocatorInvariant` for any pages, page size, sequences, steps and bounds, from
`AllocatorAssumption` and `ManagerAssumption`. `KeepLists` and `DeferredLists` reduce an operation to what it does to single
pages; with them one lemma per allocator operation shows that it keeps the invariant whatever it is called with. The
inductive invariant `Books` adds what the manager's calls need: epochs are naturals, and the reservations of a step are a
sequence, which has a last element (`MaxExists`, from the well-foundedness of the naturals). That the manager never makes the
allocator raise and that the counters are the owners (`RefsMatchOwners`) are statements about
cardinalities and are model-checked only.

`StepGroupProofs` proves `GrantsNeverMix`, `PhasesAreUnanimous` and `ClosesQuiescent` for any number of ranks, steps, recoveries
and faults, and whether recoveries replace the control plane or go on with the old one, from `GroupAssumption` alone. No
message says which step or phase it belongs to, so the argument is about positions: the inductive invariant `GroupInv` says that all
ranks' entries at one position of a plane belong to the same step and phase (`AllPure`), because what a rank submits at a
position is determined by what stands before it, unless a new incarnation took the plane over there (`Rejoin`), and that what a rank knows in each place of the protocol (`RankInv`) follows
from the entries up to its own last one: unanimous where it went on, divided or unfinished where it failed. Across planes two facts
hold the argument together: the source broadcasts a step at one position only (`Once`), and a flight was granted behind every barrier and
shutdown vote of its rank (`FlightOK`, `Precedes`), so whoever meets the others at a barrier meets nobody with work in flight.
Wires only grow (`Grown`), so such facts survive the steps of others (`SameKeeps`); one lemma per action shows the rest.
`LaunchesAreGranted`, `CommitsAreProven` and `PublicationsAreAcknowledged` are the three parts of
`PhasesStayUnanimous`. That calls return is a liveness property and model-checked only.

`ServingProofs`, `ServingRequestProofs` and `ServingStreamProofs` prove the four safety properties of `Serving` for any clients, admins,
generations, limits and scenarios, from `ServingAssumption` and `LimitsAssumption` (finitely many clients; the limits are naturals).
All rest on `TypeOK`. None of the properties is inductive:

* `ResizesAreAllOrNothing` and `ReleasedTailsAreIdle` need `CacheInv`, which says for every place of the owner thread which generations
  are alive and what the answer in preparation promises (`LoopCache`, `PlannedCache`, `SwappedCache`, `NoCache`, `AnswerCache`), and
  `IdleInv`: a resize runs only while nothing is in flight, no request is active and the loop has not stopped.
* `RequestsAreConserved` needs `PlaceInv`, where a client may be while its command is queued, its future open or its handle held, and
  `CountInv`, the counters as cardinalities of these sets; a command is queued at most once, so the length of the queue is the
  cardinality of the set of its clients (`QueuedMore`, `QueuedLess`).
* `FinishedStreamsAreWhole` needs `StreamInv` about the whole stream of a client, what it has read followed by what is still queued:
  reading moves an event from one to the other, so only the owner changes it. `Grows` says that its text grows up to the handle's cursor,
  short of it while the parser withholds some, `EndsWell` that a stream which ends with success has all the text of its request.
  The data lemmas `FeedGrows`, `TerminalEnds` and `SettleEnds` follow `put`, `feed` and `finish`; `StepAdvances` and `CloseAdvances`
  say what the engine may do to a request meanwhile.

That whoever waits is answered (`ClientsHearBack`) is a liveness property and model-checked only.

`Tiering` has a recursive definition and its properties count owners; `Frontend` and `EngineClient` are bounded by the
instances checked. They are model-checked only.

Liveness under fairness is out of the prover's reach, and so is induction over data (what a fold
or a recursive definition computes for every input): those statements are only model-checked.

## 5. Not modelled, and the plan

Numeric and start-up code is left out: sampling, models, layers, attention, kernels,
checkpoint loading, tokenizers, configuration, command line, metrics, device bring-up and collectives probing. It is by far the
largest part of the source; it has no protocol a model checker could explore. HTTP parsing and formatting are I/O.

Protocol code that is not modelled yet, in the order a next step would take:

1. memory ledger (`memory/ledger.py`): ownership of bytes between reservation, materialisation and transfer;
2. the grouped KV cache (`kvcache/grouped_manager.py`): all-or-nothing steps over several memory managers, each of which
   `MemoryManager` models; and `runtime/kv.py` over `MemoryManager`, shown to implement the KV sequences of `Settlement`;
3. lanes and the worker multiplexer (`worker/`), shown to provide the fences of `Executor`;
4. the pipeline-parallel scheduler and the older `DistributedKVCoordinator`, beside `StepGroup`;
5. the IPC engine registry (`runtime/ipc_engine.py`), router and migration (`serving/`), the global prefix index;
6. a composition of `WaitingQueue` and `BatchPlanner`, for requests that fill the hot window before they are eligible;
7. proofs: the queue invariants (`EveryRequestHasOnePlace`), `RefsMatchOwners` of the
   memory manager, `TierOwnership`.

------------------------------ MODULE Serving -------------------------------
(***************************************************************************)
(* The HTTP-facing front end: GenerationPipeline (serving/generation.py),  *)
(* ServingService with its GenerationHandles (serving/service.py), and the *)
(* cache owner behind it, ServingRuntime.apply_resize and close            *)
(* (runtime/serving.py, kvcache/resize.py).                                *)
(*                                                                         *)
(* Client tasks reserve, submit and read; admin threads ask for another    *)
(* cache capacity; a closer shuts down.  One owner thread admits commands, *)
(* runs cache controls, steps the engine and collects its output.  A       *)
(* "tail" is one generation of the engine with the KV slab it owns; a      *)
(* resize replaces the tail.  Of the engine the model keeps what the       *)
(* service sees: a request has a lifecycle and at most one slice in flight.*)
(***************************************************************************)
EXTENDS Integers, Sequences, FiniteSets, FiniteSetsExt

CONSTANTS
    Clients,        \* one generation request each
    Admins,         \* one cache resize each
    MaxTails,       \* bound: generations of the cache
    InitialPages,   \* capacity of the first tail
    MinPages,       \* minimum_pages(): one context and the padding page
    DevicePages,    \* what the device can hold, in pages
    SafetyPages,    \* resize_safety_bytes, in pages
    KVBudget,       \* the frozen KV budget, in pages
    MaxConcurrent,  \* max_concurrent_requests
    MaxCommands,    \* max_pending_commands
    MaxControls,    \* max_pending_controls
    MaxAdmitted,    \* max_admitted_requests
    StreamLimit,    \* max_stream_events
    MaxEvents,      \* bound: events of each client's request
    Scenarios       \* bounds: who takes part, the capacities asked for, the calls of
                    \* ServingRuntime.close, and the failures: of device, worker,
                    \* allocation, cleanup, a client's connection or its deadline

ASSUME LimitsAssumption ==
    /\ MaxConcurrent \in Nat /\ MaxCommands \in Nat /\ MaxControls \in Nat
    /\ MaxAdmitted \in Nat /\ StreamLimit \in Nat
    /\ MinPages \in Nat /\ DevicePages \in Nat /\ SafetyPages \in Nat /\ KVBudget \in Nat

ASSUME ServingAssumption ==
    /\ IsFiniteSet(Clients)
    /\ MaxTails \in Nat \ {0} /\ InitialPages \in Nat
    /\ \A s \in Scenarios : /\ s.clients \subseteq Clients /\ s.asks \subseteq Nat
                           /\ s.closes \in Nat /\ s.faults \in Nat

VARIABLES
    at,        \* [Clients -> where GenerationPipeline is with the request]
    active,    \* GenerationPipeline.active
    got,       \* [Clients -> events next_event() returned]
    fut,       \* [Clients -> the future of submit()]
    handle,    \* [Clients -> GenerationHandle]
    cmds,      \* ServingService._commands
    handles,   \* keys of ServingService._handles
    controls,  \* ServingService._controls
    admin,     \* [Admins -> where resize() is, and its answer]
    pc,        \* where the owner thread is
    todo,      \* handles this _collect() has still to visit
    flags,     \* _closing, _fatal, _drained, _stopped
    serving,   \* the tail whose engine is ServingService.engine
    bound,     \* the tail ServingRuntime._tail
    tail,      \* [Tails -> state and capacity]
    job,       \* the last control taken, and its answer
    req,       \* [Clients -> the engine's lifecycle of the request]
    worker,    \* has the device worker left READY?
    count,     \* ServingStats: submitted, rejected, admitted, settled
    closer,    \* where ServingRuntime.close is
    closes,    \* calls of ServingRuntime.close still to come
    faults     \* failures still to come

clientVars == <<at, active, got>>
queueVars  == <<fut, cmds, controls, admin>>
cacheVars  == <<serving, bound, tail, job>>
closeVars  == <<closer, closes>>
vars == <<at, active, got, fut, handle, cmds, handles, controls, admin, pc, todo,
          flags, serving, bound, tail, job, req, worker, count, closer, closes, faults>>

NoHandle == [queue |-> <<>>, sent |-> FALSE, error |-> FALSE,
             cancelled |-> FALSE, cursor |-> 0, held |-> FALSE]

NoRequest == [st |-> "none", why |-> "none", n |-> 0, pend |-> FALSE, flight |-> "no"]

\* A stream event carries the text up to the n-th engine event.
Delta(n) == [kind |-> "delta", n |-> n]
Terminal(kind) == [kind |-> kind, n |-> 0]

\* Generations are numbered in the order they are built.
Tails == 1 .. MaxTails
FirstTail == 1

Init ==
    /\ \E s \in Scenarios : \E ask \in [s.admins -> s.asks] :
          /\ at = [c \in Clients |-> IF c \in s.clients THEN "idle" ELSE "absent"]
          /\ admin = [z \in Admins |->
                         [st |-> IF z \in s.admins THEN "idle" ELSE "absent",
                          pages |-> IF z \in s.admins THEN ask[z] ELSE 0]]
          /\ closes = s.closes /\ faults = s.faults
    /\ active = 0
    /\ got = [c \in Clients |-> <<>>]
    /\ fut = [c \in Clients |-> "none"]
    /\ handle = [c \in Clients |-> NoHandle]
    /\ cmds = <<>> /\ handles = {} /\ controls = <<>>
    /\ pc = "admit" /\ todo = {}
    /\ flags = [closing |-> FALSE, fatal |-> FALSE, drained |-> FALSE, stopped |-> FALSE]
    /\ serving = FirstTail /\ bound = FirstTail
    /\ tail = [t \in Tails |-> IF t = FirstTail THEN [st |-> "open", pages |-> InitialPages]
                                                ELSE [st |-> "none", pages |-> 0]]
    /\ job = [who |-> {}, pages |-> 0, was |-> InitialPages, reply |-> "none"]
    /\ req = [c \in Clients |-> NoRequest] /\ worker = "ready"
    /\ count = [submitted |-> 0, rejected |-> 0, admitted |-> 0, settled |-> 0]
    /\ closer = "idle"

Fault == faults > 0 /\ faults' = faults - 1

InFlight == {c \in Clients : req[c].flight # "no"}
Quarantined == {c \in Clients : req[c].flight = "quar"}

\* ServingService.ready: Executor.accepting_work asks for no quarantined ticket
\* and an executor that is not stopping; the worker's own state is not asked.
Ready ==
    /\ ~flags.closing /\ ~flags.fatal /\ ~flags.stopped
    /\ tail[serving].st = "open"
    /\ Quarantined = {}

-----------------------------------------------------------------------------
(* Client tasks: GenerationPipeline                                        *)

\* A limit of 0 is none.
Within(n, limit) == limit = 0 \/ n < limit

Reserve(c) ==
    /\ at[c] = "idle"
    /\ IF Ready /\ Within(active, MaxConcurrent)
       THEN at' = [at EXCEPT ![c] = "preparing"] /\ active' = active + 1
       ELSE at' = [at EXCEPT ![c] = "refused"] /\ active' = active
    /\ UNCHANGED <<got, queueVars, handle, handles, pc, todo, flags, cacheVars,
                   req, worker, count, closeVars, faults>>

\* The except clause of prepare(), when there is nothing to withdraw.
GivesUp(c) == at' = [at EXCEPT ![c] = "refused"] /\ active' = active - 1

\* Validation fails or the client goes while processor.prepare runs.
PrepareFails(c) ==
    /\ Fault
    /\ at[c] = "preparing"
    /\ GivesUp(c)
    /\ UNCHANGED <<got, queueVars, handle, handles, pc, todo, flags, cacheVars,
                   req, worker, count, closeVars>>

\* ServingService.submit, under the lock that the owner's last drain takes too.
Submit(c) ==
    /\ at[c] = "preparing"
    /\ \/ /\ ~Ready
          /\ GivesUp(c)
          /\ UNCHANGED <<fut, cmds, count>>
       \/ /\ Ready /\ Len(cmds) >= MaxCommands
          /\ GivesUp(c)
          /\ count' = [count EXCEPT !.submitted = @ + 1, !.rejected = @ + 1]
          /\ UNCHANGED <<fut, cmds>>
       \/ /\ Ready /\ Len(cmds) < MaxCommands
          /\ at' = [at EXCEPT ![c] = "waiting"] /\ active' = active
          /\ count' = [count EXCEPT !.submitted = @ + 1]
          /\ cmds' = Append(cmds, c)
          /\ fut' = [fut EXCEPT ![c] = "pending"]
    /\ UNCHANGED <<got, handle, handles, controls, admin, pc, todo, flags, cacheVars,
                   req, worker, closeVars, faults>>

\* The future resolves: a handle, or the error of _admit or of the last drain.
Resolve(c) ==
    /\ at[c] = "waiting" /\ fut[c] \in {"handle", "error"}
    /\ IF fut[c] = "handle"
       THEN at' = [at EXCEPT ![c] = "reading"] /\ active' = active
       ELSE GivesUp(c)
    /\ UNCHANGED <<got, queueVars, handle, handles, pc, todo, flags, cacheVars,
                   req, worker, count, closeVars, faults>>

\* The client disconnects before it has a handle: the request's token is set
\* and the future cancelled; cancel_late cancels a handle that was made already.
Withdraw(c) ==
    /\ Fault
    /\ at[c] = "waiting"
    /\ at' = [at EXCEPT ![c] = "withdrawn"] /\ active' = active - 1
    /\ fut' = [fut EXCEPT ![c] = IF @ = "pending" THEN "cancelled" ELSE @]
    /\ handle' = [handle EXCEPT ![c].cancelled = fut[c] = "handle"]
    /\ UNCHANGED <<got, cmds, controls, admin, handles, pc, todo, flags, cacheVars,
                   req, worker, count, closeVars>>

\* release().
Release(c, phase) ==
    /\ at' = [at EXCEPT ![c] = phase]
    /\ active' = active - 1

\* next_event(): the head of the queue, or a waiter that the next put() wakes.
NextEvent(c) ==
    /\ at[c] = "reading"
    /\ IF handle[c].queue = <<>>
       THEN /\ at' = [at EXCEPT ![c] = "asleep"]
            /\ UNCHANGED <<active, got, handle>>
       ELSE LET e == Head(handle[c].queue) IN
            /\ got' = [got EXCEPT ![c] = Append(@, e)]
            /\ handle' = [handle EXCEPT ![c].queue = Tail(@),
                                        ![c].cancelled = @ \/ e.kind # "delta"]
            /\ IF e.kind = "delta" THEN UNCHANGED <<at, active>> ELSE Release(c, "done")
    /\ UNCHANGED <<queueVars, handles, pc, todo, flags, cacheVars,
                   req, worker, count, closeVars, faults>>

\* The client disconnects while it streams.
Leave(c) ==
    /\ Fault
    /\ at[c] \in {"reading", "asleep"}
    /\ Release(c, "left")
    /\ handle' = [handle EXCEPT ![c].cancelled = TRUE]
    /\ UNCHANGED <<got, queueVars, handles, pc, todo, flags, cacheVars,
                   req, worker, count, closeVars>>

-----------------------------------------------------------------------------
(* Admin threads: ServingRuntime.resize and ServingService.resize          *)

\* ready is read without the lock ...
AskResize(z) ==
    /\ admin[z].st = "idle"
    /\ admin' = [admin EXCEPT ![z].st = IF Ready THEN "checked" ELSE "unavailable"]
    /\ UNCHANGED <<clientVars, fut, cmds, controls, handle, handles, pc, todo, flags,
                   cacheVars, req, worker, count, closeVars, faults>>

\* ... and the control is queued under it.
QueueResize(z) ==
    /\ admin[z].st = "checked"
    /\ IF Len(controls) >= MaxControls
       THEN /\ admin' = [admin EXCEPT ![z].st = "unavailable"]
            /\ controls' = controls
       ELSE /\ admin' = [admin EXCEPT ![z].st = "queued"]
            /\ controls' = Append(controls, z)
    /\ UNCHANGED <<clientVars, fut, cmds, handle, handles, pc, todo, flags,
                   cacheVars, req, worker, count, closeVars, faults>>

\* future.result(timeout) runs out; the control stays where it is.
ResizeTimesOut(z) ==
    /\ admin[z].st = "queued"
    /\ admin' = [admin EXCEPT ![z].st = "unavailable"]
    /\ UNCHANGED <<clientVars, fut, cmds, controls, handle, handles, pc, todo, flags,
                   cacheVars, req, worker, count, closeVars, faults>>

-----------------------------------------------------------------------------
(* The owner thread: admission                                             *)

\* Mutant: a withdrawn command is skipped without being counted.
AdmitUncounted(c) ==
    \/ /\ fut[c] = "cancelled"
       /\ UNCHANGED <<fut, handle, handles, req, count>>
    \/ /\ fut[c] = "pending"
       /\ count' = [count EXCEPT !.admitted = @ + 1]
       /\ fut' = [fut EXCEPT ![c] = "handle"]
       /\ req' = [req EXCEPT ![c].st = "active"]
       /\ handles' = handles \cup {c}
       /\ UNCHANGED handle

\* _admit: withdrawn, not ready, too many handles, past its queue deadline or
\* refused by Engine.submit; or admitted.  A router never defers a request:
\* RouteDecision refuses the decision _admit waits for.
AdmitCommand(c) ==
    \/ /\ fut[c] = "cancelled"
       /\ count' = [count EXCEPT !.rejected = @ + 1]
       /\ UNCHANGED <<fut, handle, handles, req>>
    \/ /\ fut[c] = "pending"
       /\ count' = [count EXCEPT !.rejected = @ + 1]
       /\ fut' = [fut EXCEPT ![c] = "error"]
       /\ UNCHANGED <<handle, handles, req>>
    \/ /\ fut[c] = "pending"
       /\ Ready /\ Within(Cardinality(handles), MaxAdmitted)
       /\ count' = [count EXCEPT !.admitted = @ + 1]
       /\ fut' = [fut EXCEPT ![c] = "handle"]
       /\ req' = [req EXCEPT ![c].st = "active"]
       /\ handles' = handles \cup {c}
       /\ UNCHANGED handle

Admit ==
    /\ pc = "admit" /\ cmds # <<>>
    /\ cmds' = Tail(cmds)
    /\ AdmitCommand(Head(cmds))
    /\ UNCHANGED <<clientVars, controls, admin, pc, todo, flags, cacheVars, worker,
                   closeVars, faults>>

\* The queue is empty.  A pass also ends after 32 commands; left out.
AdmitDone ==
    /\ pc = "admit" /\ cmds = <<>>
    /\ pc' = "controls"
    /\ UNCHANGED <<clientVars, queueVars, handle, handles, todo, flags, cacheVars,
                   req, worker, count, closeVars, faults>>

-----------------------------------------------------------------------------
(* The owner thread: cache controls                                        *)

\* Pages still held on the device: a tail whose cleanup failed keeps its slab.
Held == MapThenSumSet(LAMBDA t : tail[t].pages,
                      {t \in Tails : tail[t].st \in {"open", "closing", "stuck"}})
Headroom == DevicePages - Held

\* validate_resize: the mode of the plan, or "rejected".
PlanResize(pages) ==
    LET old == tail[bound].pages IN
    IF \/ pages < MinPages
       \/ pages > KVBudget
       \/ pages > Headroom + old - SafetyPages
    THEN "rejected"
    ELSE IF pages = old THEN "ok"
    ELSE IF pages <= Headroom - SafetyPages THEN "swap" ELSE "rebuild"

\* The gates of _apply_controls and apply_resize: no handle, no request, no ticket.
Busy ==
    \/ handles # {}
    \/ \E c \in Clients : req[c].st = "active"
    \/ InFlight # {}

Answered(z, reply) ==
    [admin EXCEPT ![z].st = IF @ = "queued" THEN reply ELSE @]

\* _apply_controls takes one control: refused when closing, else planned.
TakeControl ==
    /\ pc = "controls" /\ controls # <<>>
    /\ controls' = Tail(controls)
    /\ LET z == Head(controls)
           plan == IF Busy THEN "rejected" ELSE PlanResize(admin[z].pages)
       IN IF flags.closing
          THEN /\ admin' = Answered(z, "unavailable")
               /\ UNCHANGED <<pc, job>>
          ELSE /\ job' = [who |-> {z}, pages |-> admin[z].pages, was |-> tail[bound].pages,
                          reply |-> plan]
               /\ pc' = IF plan \in {"swap", "rebuild"} THEN plan ELSE "answer"
               /\ UNCHANGED admin
    /\ UNCHANGED <<clientVars, fut, cmds, handle, handles, todo, flags, serving, bound,
                   tail, req, worker, count, closeVars, faults>>

ControlsDone ==
    /\ pc = "controls" /\ controls = <<>>
    /\ pc' = IF flags.closing THEN "close" ELSE "step"
    /\ UNCHANGED <<clientVars, queueVars, handle, handles, todo, flags, cacheVars,
                   req, worker, count, closeVars, faults>>

\* The next generation (owner_incarnation only grows).
NewTail(t) == tail[t].st = "none" /\ \A u \in Tails : tail[u].st = "none" => t <= u

\* _build_tail(pages) materializes a slab, or raises.
Built(t, pages) == NewTail(t) /\ tail' = [tail EXCEPT ![t] = [st |-> "open", pages |-> pages]]

ResizeStep(next, reply) ==
    /\ pc' = next /\ job' = [job EXCEPT !.reply = reply]
    /\ UNCHANGED <<clientVars, queueVars, handle, handles, todo, flags, serving,
                   req, worker, count, closeVars>>

\* SWAP: the new tail is built beside the old one.
SwapBuild ==
    /\ pc = "swap"
    /\ \/ /\ \E t \in Tails : Built(t, job.pages)
          /\ ResizeStep("drop", "swap") /\ UNCHANGED <<bound, faults>>
       \/ /\ Fault
          /\ ResizeStep("answer", "failed") /\ UNCHANGED <<bound, tail>>

\* The old tail is torn down and the new one bound; also when the teardown raises.
SwapDrop ==
    /\ pc = "drop"
    /\ \E t \in Tails \ {bound} : tail[t].st = "open" /\ bound' = t
    /\ \/ /\ tail' = [tail EXCEPT ![bound].st = "released"]
          /\ ResizeStep("answer", "ok") /\ UNCHANGED faults
       \/ /\ Fault
          /\ tail' = [tail EXCEPT ![bound].st = "stuck"]
          /\ ResizeStep("answer", "failed")

\* REBUILD: the old tail goes first; if that raises, the engine must restart.
RebuildDrop ==
    /\ pc = "rebuild"
    /\ \/ /\ tail' = [tail EXCEPT ![bound].st = "released"]
          /\ ResizeStep("build", "rebuild") /\ UNCHANGED faults
       \/ /\ Fault
          /\ tail' = [tail EXCEPT ![bound].st = "stuck"]
          /\ ResizeStep("answer", "fatal")
    /\ UNCHANGED bound

\* The new capacity is built, or the old one restored, or neither.
RebuildBuild ==
    /\ pc = "build"
    /\ \/ /\ \E t \in Tails : Built(t, job.pages) /\ bound' = t
          /\ ResizeStep("answer", "ok") /\ UNCHANGED faults
       \/ /\ Fault
          /\ ResizeStep("restore", "rebuild") /\ UNCHANGED <<bound, tail>>

Restore ==
    /\ pc = "restore"
    /\ \/ /\ \E t \in Tails : Built(t, job.was) /\ bound' = t
          /\ ResizeStep("answer", "rejected") /\ UNCHANGED faults
       \/ /\ Fault
          /\ ResizeStep("answer", "fatal") /\ UNCHANGED <<bound, tail>>

\* Mutant: the service keeps the engine it was built with.
AnswerKeepsEngine ==
    /\ pc = "answer"
    /\ \E z \in job.who : admin' = Answered(z, job.reply)
    /\ pc' = IF job.reply = "fatal" THEN "fail" ELSE "controls"
    /\ UNCHANGED <<clientVars, fut, cmds, controls, handle, handles, todo, flags, serving,
                   bound, tail, job, req, worker, count, closeVars, faults>>

\* The service follows the controller's engine and answers the admin;
\* CacheResizeFatal leaves the loop.
Answer ==
    /\ pc = "answer"
    /\ serving' = bound
    /\ \E z \in job.who : admin' = Answered(z, job.reply)
    /\ pc' = IF job.reply = "fatal" THEN "fail" ELSE "controls"
    /\ UNCHANGED <<clientVars, fut, cmds, controls, handle, handles, todo, flags,
                   bound, tail, job, req, worker, count, closeVars, faults>>

-----------------------------------------------------------------------------
(* The owner thread: the engine                                            *)

\* The device finishes a slice.
DeviceDone(c) ==
    /\ req[c].flight = "run"
    /\ req' = [req EXCEPT ![c].flight = "done"]
    /\ UNCHANGED <<clientVars, queueVars, handle, handles, pc, todo, flags, cacheVars,
                   worker, count, closeVars, faults>>

\* A poll or drain finds that a slice's completion cannot be known.
DeviceLost(c) ==
    /\ pc \in {"step", "close", "failclose"} \/ closer = "teardown"
    /\ req[c].flight = "run"
    /\ Fault
    /\ req' = [req EXCEPT ![c].flight = "quar"]
    /\ UNCHANGED <<clientVars, queueVars, handle, handles, pc, todo, flags, cacheVars,
                   worker, count, closeVars>>

\* The device worker fails during a step.
WorkerFails ==
    /\ pc = "step" /\ worker = "ready" /\ Fault
    /\ worker' = "failed"
    /\ UNCHANGED <<clientVars, queueVars, handle, handles, pc, todo, flags, cacheVars,
                   req, count, closeVars>>

Ended(q, why) == [st |-> "ended", why |-> why, n |-> q.n, pend |-> q.pend, flight |-> "no"]

\* _collect has the handles S to visit.  After it the loop looks for a quarantined
\* ticket or a failed worker; a closing pass ends only on a proven drain.
CollectNext(phase, S) ==
    /\ todo' = S
    /\ flags' = [flags EXCEPT !.drained =
                    @ \/ (S = {} /\ phase \in {"collectClosed", "collectFail"})]
    /\ pc' = IF S # {} THEN phase
             ELSE CASE phase = "collect" ->
                         IF worker = "failed" \/ \E c \in Clients : req'[c].flight = "quar"
                         THEN "fail" ELSE "admit"
                    [] phase = "collectOpen"   -> "admit"
                    [] phase = "collectClosed" -> "final"
                    [] phase = "collectFail"   -> "failrest"

\* What one Engine.step makes of a request before it launches: a token or
\* a deadline aborts, a finished slice settles, an abort without a slice is flushed.
Stepped(c, late, out) ==
    LET q == [req[c] EXCEPT !.pend = @ \/ at[c] = "withdrawn" \/ c \in late] IN
    CASE q.st # "active"                                -> req[c]
      [] q.st = "active" /\ q.pend /\ q.flight \in {"no", "done"}
                                                        -> Ended(q, "cancelled")
      [] q.st = "active" /\ ~q.pend /\ q.flight = "done" ->
            IF out[c] = "failed" THEN Ended(q, "failed")
            ELSE IF out[c] = "stop" \/ q.n + 1 = MaxEvents[c]
            THEN [Ended(q, "stop") EXCEPT !.n = @ + 1]
            ELSE [q EXCEPT !.n = @ + 1, !.flight = "no"]
      [] OTHER                                          -> q

\* Engine.step: settles, flushes and launches some of the runnable requests,
\* at least one when nothing is in flight; a failed worker takes nothing.
Step ==
    /\ pc = "step"
    /\ \E late \in {{}} \cup {{c} : c \in {d \in Clients : req[d].st = "active"}},
          out \in [{d \in Clients : req[d].flight = "done"} -> {"more", "stop", "failed"}] :
       LET r == [c \in Clients |-> Stepped(c, late, out)]
           runnable == {c \in Clients : r[c].st = "active" /\ ~r[c].pend /\ r[c].flight = "no"}
       IN /\ IF late = {} THEN UNCHANGED faults ELSE Fault
          /\ \E go \in SUBSET runnable :
             /\ IF worker = "failed" THEN go = {}
                ELSE go = {} => runnable = {} \/ \E c \in Clients : r[c].flight # "no"
             /\ req' = [c \in Clients |-> IF c \in go THEN [r[c] EXCEPT !.flight = "run"]
                                                      ELSE r[c]]
    /\ CollectNext("collect", handles)
    /\ UNCHANGED <<clientVars, queueVars, handle, handles, cacheVars,
                   worker, count, closeVars>>

\* Engine.step raises.
StepRaises ==
    /\ pc = "step" /\ Fault
    /\ pc' = "fail"
    /\ UNCHANGED <<clientVars, queueVars, handle, handles, todo, flags, cacheVars,
                   req, worker, count, closeVars>>

\* ResidentKVEngine.close: every request is aborted and finished slices settle ...
Aborted(q) == [q EXCEPT !.pend = @ \/ q.st = "active"]
Drained == [c \in Clients |-> IF req[c].flight = "done"
                              THEN Ended(Aborted(req[c]), "cancelled")
                              ELSE Aborted(req[c])]
Flushed(r) == [c \in Clients |-> IF r[c].st = "active" THEN Ended(r[c], "cancelled")
                                                       ELSE r[c]]
Quiet == \A c \in Clients : Drained[c].flight = "no"

\* Mutant: the worker's resources are released whatever is in flight.
EngineCloseEager(t, result) ==
    /\ result = "closed"
    /\ req' = [c \in Clients |-> [Flushed(Drained)[c] EXCEPT !.flight = Drained[c].flight]]
    /\ tail' = [tail EXCEPT ![t].st = "released"] /\ UNCHANGED faults

\* ... and only when no ticket is left are the reports flushed and the worker
\* and its resources closed, which may raise and keep the slab.
EngineClose(t, result) ==
    \/ /\ result = "open" /\ ~Quiet
       /\ req' = Drained /\ UNCHANGED faults
       /\ tail' = [tail EXCEPT ![t].st = IF @ = "open" THEN "closing" ELSE @]
    \/ /\ result = "closed" /\ Quiet
       /\ req' = Flushed(Drained) /\ UNCHANGED faults
       /\ tail' = [tail EXCEPT ![t].st = "released"]
    \/ /\ result = "raised" /\ Quiet /\ tail[t].st # "released"
       /\ IF tail[t].st = "stuck" THEN UNCHANGED faults ELSE Fault
       /\ req' = Drained
       /\ tail' = [tail EXCEPT ![t].st = "stuck"]

\* The closing branch of _run.
Close ==
    /\ pc = "close"
    /\ \E result \in {"open", "closed", "raised"} :
          /\ EngineClose(serving, result)
          /\ \/ result = "open" /\ CollectNext("collectOpen", handles)
             \/ result = "closed" /\ CollectNext("collectClosed", handles)
             \/ result = "raised" /\ pc' = "fail" /\ UNCHANGED <<todo, flags>>
    /\ UNCHANGED <<clientVars, queueVars, handle, handles, serving, bound, job,
                   worker, count, closeVars>>

-----------------------------------------------------------------------------
(* The owner thread: _collect                                              *)

\* put(): the terminal has a slot of its own, once; any other event needs room,
\* and one without room is the handle's error.
Put(h, e) ==
    IF e.kind # "delta"
    THEN IF h.sent THEN h ELSE [h EXCEPT !.queue = Append(@, e), !.sent = TRUE]
    ELSE IF Len(h.queue) >= StreamLimit THEN [h EXCEPT !.error = TRUE]
    ELSE [h EXCEPT !.queue = Append(@, e), !.held = FALSE]

\* parser.feed on the events past the cursor; the parser may hold text back.
Feed(h, n, hold) ==
    IF h.cursor = n THEN h
    ELSE LET m == [h EXCEPT !.cursor = n] IN
         IF h.error \/ h.cancelled THEN m
         ELSE IF hold THEN [m EXCEPT !.held = TRUE] ELSE Put(m, Delta(n))

\* Mutant: the parser is not finished.
SettleUnfinished(h, q) ==
    LET e == [h EXCEPT !.error = @ \/ q.why = "failed"] IN
    Put(e, Terminal(IF e.error THEN "failed"
                    ELSE IF h.cancelled \/ q.why = "cancelled" THEN "cancelled" ELSE "stop"))

\* A terminal lifecycle: parser.finish() unless it failed or was cancelled, then
\* the terminal event.
Settle(h, q) ==
    LET e == [h EXCEPT !.error = @ \/ q.why = "failed"]
        cancelled == h.cancelled \/ q.why = "cancelled"
        f == IF ~e.error /\ ~cancelled /\ e.held THEN Put(e, Delta(e.cursor)) ELSE e
    IN Put(f, Terminal(IF f.error THEN "failed" ELSE IF cancelled THEN "cancelled" ELSE "stop"))

\* A put wakes the waiter of next_event().
Woken(S) == [c \in Clients |-> IF c \in S /\ at[c] = "asleep" /\ handle'[c].queue # <<>>
                               THEN "reading" ELSE at[c]]

\* One handle of _collect.
Collect(c) ==
    /\ c \in todo
    /\ \E hold \in BOOLEAN :
       LET q == req[c]
           h == Feed(handle[c], q.n, hold)
           aborted == handle[c].cancelled \/ h.error # handle[c].error
       IN IF q.st = "active"
          THEN /\ handle' = [handle EXCEPT ![c] = h]
               /\ req' = [req EXCEPT ![c].pend = @ \/ aborted]
               /\ UNCHANGED <<handles, count>>
          ELSE /\ handle' = [handle EXCEPT ![c] = Settle(h, q)]
               /\ req' = [req EXCEPT ![c].st = "gone"]
               /\ handles' = handles \ {c}
               /\ count' = [count EXCEPT !.settled = @ + 1]
    /\ at' = Woken({c})
    /\ CollectNext(pc, todo \ {c})
    /\ UNCHANGED <<active, got, queueVars, cacheVars, worker, closeVars, faults>>

-----------------------------------------------------------------------------
(* The owner thread: _fail_engine and the finally clause                   *)

Fail ==
    /\ pc = "fail"
    /\ flags' = [flags EXCEPT !.fatal = TRUE]
    /\ handle' = [c \in Clients |-> [handle[c] EXCEPT !.error = @ \/ c \in handles]]
    /\ pc' = "failclose"
    /\ UNCHANGED <<clientVars, queueVars, handles, todo, cacheVars,
                   req, worker, count, closeVars, faults>>

FailClose ==
    /\ pc = "failclose"
    /\ \E result \in {"open", "closed", "raised"} :
          /\ EngineClose(serving, result)
          /\ IF result = "closed" THEN CollectNext("collectFail", handles)
             ELSE pc' = "failrest" /\ UNCHANGED <<todo, flags>>
    /\ UNCHANGED <<clientVars, queueVars, handle, handles, serving, bound, job,
                   worker, count, closeVars>>

\* Mutant: an undrained failure leaves its clients without a terminal.
FailRestSilent ==
    /\ pc = "failrest"
    /\ pc' = "final"
    /\ UNCHANGED <<clientVars, queueVars, handle, handles, todo, flags, cacheVars,
                   req, worker, count, closeVars, faults>>

\* Every client still without a terminal gets one.
FailRest ==
    /\ pc = "failrest"
    /\ handle' = [c \in Clients |-> IF c \in handles THEN Put(handle[c], Terminal("failed"))
                                                     ELSE handle[c]]
    /\ at' = Woken(handles)
    /\ pc' = "final"
    /\ UNCHANGED <<active, got, queueVars, handles, todo, flags, cacheVars,
                   req, worker, count, closeVars, faults>>

\* The finally clause, under the lock: futures that are not done get an error.
Final ==
    /\ pc = "final"
    /\ flags' = [flags EXCEPT !.stopped = TRUE]
    /\ LET left == {c \in Clients : fut[c] = "pending"} IN
       /\ fut' = [c \in Clients |-> IF c \in left THEN "error" ELSE fut[c]]
       /\ count' = [count EXCEPT !.rejected = @ + Cardinality(left)]
    /\ cmds' = <<>> /\ controls' = <<>>
    /\ admin' = [z \in Admins |-> IF admin[z].st = "queued"
                                  THEN [admin[z] EXCEPT !.st = "unavailable"] ELSE admin[z]]
    /\ pc' = "off"
    /\ UNCHANGED <<clientVars, handle, handles, todo, cacheVars, req, worker,
                   closeVars, faults>>

-----------------------------------------------------------------------------
(* ServingRuntime.close, on a thread of its own; it may be called again.   *)

CloseStep(next) ==
    /\ closer' = next
    /\ UNCHANGED <<clientVars, queueVars, handle, handles, pc, todo, serving, bound, job,
                   worker, count>>

AskClose ==
    /\ closer = "idle" /\ closes > 0
    /\ closes' = closes - 1
    /\ flags' = [flags EXCEPT !.closing = TRUE]
    /\ CloseStep("join")
    /\ UNCHANGED <<tail, req, faults>>

\* join() returns, with the thread gone or at its timeout; an undrained failure
\* raises.
Join ==
    /\ closer = "join"
    /\ CloseStep(IF flags.fatal /\ ~flags.drained THEN "idle" ELSE "joined")
    /\ UNCHANGED <<flags, closes, tail, req, faults>>

\* Only then is _stopped read.
ReadStopped ==
    /\ closer = "joined"
    /\ CloseStep(IF flags.stopped THEN "teardown" ELSE "idle")
    /\ UNCHANGED <<flags, closes, tail, req, faults>>

\* _teardown_tail: a tail with work left is retained.
Teardown ==
    /\ closer = "teardown"
    /\ \E result \in {"open", "closed", "raised"} :
          /\ EngineClose(bound, result)
          /\ CloseStep(IF result = "closed" THEN "closed" ELSE "idle")
    /\ UNCHANGED <<flags, closes>>

-----------------------------------------------------------------------------
Owner ==
    \/ Admit \/ AdmitDone
    \/ TakeControl \/ ControlsDone \/ Answer
    \/ SwapBuild \/ SwapDrop \/ RebuildDrop \/ RebuildBuild \/ Restore
    \/ Step \/ StepRaises \/ Close
    \/ \E c \in Clients : Collect(c)
    \/ Fail \/ FailClose \/ FailRest \/ Final

Client(c) ==
    \/ Reserve(c) \/ PrepareFails(c) \/ Submit(c) \/ Withdraw(c) \/ Leave(c)
    \/ Resolve(c) \/ NextEvent(c)

Closer == AskClose \/ Join \/ ReadStopped \/ Teardown

Next ==
    \/ \E c \in Clients : Client(c) \/ DeviceDone(c) \/ DeviceLost(c)
    \/ \E z \in Admins : AskResize(z) \/ QueueResize(z) \/ ResizeTimesOut(z)
    \/ WorkerFails
    \/ Owner
    \/ Closer

Spec == Init /\ [][Next]_vars

\* The owner thread and the event loop run, and the device finishes what it was
\* given unless it loses it.
Fairness ==
    /\ WF_vars(Owner)
    /\ WF_vars(\E c \in Clients : Resolve(c) \/ NextEvent(c))
    /\ WF_vars(\E c \in Clients : DeviceDone(c))

FairSpec == Spec /\ Fairness

-----------------------------------------------------------------------------
(* Properties                                                              *)

\* A stream the client read to its end has one terminal, at the end, and grows
\* all the way there.  When the terminal reports success the engine finished the
\* request and every published event reached the client: no overflow, withheld
\* parser text, failure or shutdown is ever reported as a complete answer
\* (GenerationHandle.put, ServingService._collect, _fail_engine).
FinishedStreamsAreWhole ==
    \A c \in Clients : at[c] = "done" =>
       LET g == got[c]
           last == g[Len(g)]
       IN /\ last.kind # "delta"
          /\ \A i \in 1 .. Len(g) - 1 : g[i].kind = "delta"
          /\ \A i, j \in 1 .. Len(g) - 1 : i < j => g[i].n < g[j].n
          /\ last.kind = "stop" =>
                /\ req[c].why = "stop"
                /\ Len(g) > 1 /\ g[Len(g) - 1].n = req[c].n

\* A cache generation is released only when nothing runs on it: no slice is in
\* flight, lost ones included, and no request is active, whether a resize, the
\* closing loop, the failure path or a later ServingRuntime.close releases it
\* (apply_resize, _teardown_tail, ResidentKVEngine.close).
ReleasedTailsAreIdle ==
    [][(\E t \in Tails : tail[t].st # "released" /\ tail'[t].st = "released")
          => \A c \in Clients : req'[c].flight = "no" /\ req'[c].st # "active"]_vars

\* Once a resize is answered and the loop goes on, the service runs the one
\* usable cache the runtime has bound: of the requested capacity after a success
\* and of the old one after a rejection, restored or never touched
\* (apply_resize, _apply_controls).
ResizesAreAllOrNothing ==
    pc \in {"admit", "controls", "step", "collect"} =>
       /\ serving = bound
       /\ flags.closing \/ tail[bound].st = "open"
       /\ \A t \in Tails : tail[t].st \in {"open", "closing"} => t = bound
       /\ job.reply = "ok" => tail[bound].pages = job.pages
       /\ job.reply = "rejected" => tail[bound].pages = job.was

\* Every request offered is queued, rejected or admitted, every admitted one is
\* settled or has a handle, and the pipeline's slots are the clients that hold
\* one.  Only a command withdrawn before the owner's last drain goes uncounted
\* (ServingService.submit, _admit, _collect and the finally clause of _run).
RequestsAreConserved ==
    LET lost == count.submitted - count.rejected - count.admitted - Len(cmds)
        withdrawn == {c \in Clients : fut[c] = "cancelled"}
    IN /\ lost \in 0 .. (IF flags.stopped THEN Cardinality(withdrawn) ELSE 0)
       /\ count.admitted = count.settled + Cardinality(handles)
       /\ active = Cardinality({c \in Clients :
                       at[c] \in {"preparing", "waiting", "reading", "asleep"}})

\* A client that waits for its handle or for an event is answered, through a
\* lost slice, a failed worker, a failed step, a resize and a shutdown.  The one
\* case the code leaves open is a shutdown that loses a slice: the closing loop
\* never looks for quarantined tickets (_run, _fail_engine, next_event).
ClientsHearBack ==
    \A c \in Clients :
       at[c] \in {"waiting", "reading", "asleep"}
          ~> \/ at[c] \notin {"waiting", "reading", "asleep"}
             \/ flags.closing /\ Quarantined # {}

\* Not so: "a failure leaves the old cache serving" (ServingRuntime.apply_resize);
\* a SWAP whose teardown raises binds the new cache and drops the old one's owner.
FailedSwapsKeepTheOldCache ==
    pc \in {"admit", "controls", "step", "collect"} /\ job.reply = "failed"
       => tail[bound].pages = job.was

\* Not so: "only proven drain permits release" (ServingService.close); an owner
\* that fails between the two reads of close() lets the release begin undrained.
OnlyDrainPermitsRelease == closer = "teardown" => flags.drained

\* Not so: "Submitted = rejected + admitted" (ServingStats), once a withdrawn
\* command is left for the last drain.
SubmittedIsAccounted ==
    flags.stopped => count.submitted = count.rejected + count.admitted

\* Not so: a closing service answers every client (the reason the docstring of
\* _raise_if_admission_closed gives for looking at quarantined tickets).
ClientsHearBackFromAClose ==
    \A c \in Clients :
       at[c] \in {"waiting", "reading", "asleep"}
          ~> at[c] \notin {"waiting", "reading", "asleep"}

\* Not so: an admin whose control is queued has an owner to answer it; ready is
\* read before the lock, so a control can be queued after the last drain
\* (ServingService.resize).
QueuedResizesHaveAnOwner ==
    \A z \in Admins : admin[z].st = "queued" => ~flags.stopped
=============================================================================

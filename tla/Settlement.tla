----------------------------- MODULE Settlement -----------------------------
(***************************************************************************)
(* From a scheduled plan to settled requests: CompletionCoordinator        *)
(* (executor/completion.py), LifecycleManager (request/lifecycle.py), the  *)
(* KV sequences behind it (runtime/kv.py) and the engine step and          *)
(* scheduler calls that feed it (runtime/engine.py, sched/core.py,         *)
(* sched/continuous.py).                                                   *)
(*                                                                         *)
(* One engine thread takes every step but two: the device finishes tickets *)
(* and any thread may set a request's cancellation token (AyakaLLM.cancel, *)
(* runtime/llm.py).  The token is read several times inside one call of    *)
(* handle() and of adopt(), so those calls are split at each read.         *)
(*                                                                         *)
(* Tickets are the abstract ones of TicketProtocol, which Executor is      *)
(* shown to implement.  A ticket slot is reused once its ticket is gone;   *)
(* the code takes fresh ids, so a slice is never confused with an earlier  *)
(* one that is still owned (SliceIsTracked).  Which requests share a step, *)
(* how far a prompt chunk reaches, and when pressure preempts or refuses,  *)
(* are free choices here.                                                  *)
(***************************************************************************)
EXTENDS Lifecycle, FiniteSets

CONSTANTS Lives,        \* RequestLifecycle objects that may ever exist
          IdsOf,        \* the request ids each may be submitted with
          Tickets,      \* ticket slots
          MaxInflight,  \* plan.max_inflight
          MaxPreempt,   \* bound: recompute preemptions in a behaviour
          MaxDrafts     \* longest speculative draft of a decode slice

ASSUME SettlementAssumption ==
    /\ MaxInflight \in Nat \ {0} /\ MaxPreempt \in Nat /\ MaxDrafts \in Nat
    /\ NoStep \notin Tickets \cup Lives \cup UNION {IdsOf[l] : l \in Lives}

VARIABLES life,      \* the lifecycle records
          reg,       \* where LifecycleManager keeps each: _active, _finished
          kv,        \* physical sequences: version, committed tokens, live
          place,     \* scheduler: in the waiting queue, in the decode ring
          pend,      \* scheduler: the pending report of each request id
          aborting,  \* scheduler: _abort_pending
          stops,     \* stop decisions of the step that are not yet carried out
          tk,        \* tickets, as the coordinator sees them
          bind,      \* _bindings: the slice of each request of a ticket
          pc,        \* where the engine thread stands inside adopt or handle
          eng,       \* which part of Engine.step it is in
          why,       \* what ended the engine loop, or how a ticket was lost
          preempts,  \* preemptions so far
          IdOf       \* the request id of each lifecycle; NoStep before it has one

requestVars == <<life, reg, kv>>
schedVars == <<place, pend, aborting, stops>>
vars == <<life, reg, kv, place, pend, aborting, stops, tk, bind, pc, eng, why,
          preempts, IdOf>>

Ids == UNION {IdsOf[l] : l \in Lives}
NoTicket == [state |-> "absent", status |-> "NONE", cancel |-> FALSE]
NoReport == [life |-> NoStep, outcome |-> "NONE", epoch |-> 0]
NoPlan == [l \in {} |-> NoSlice]
IdlePc == [at |-> "idle", t |-> NoStep, todo |-> {}, cur |-> NoStep,
           keep |-> NoPlan, ignored |-> {}, published |-> {}]

SettlementInit ==
    /\ life = [l \in Lives |-> NewLife]
    /\ reg = [l \in Lives |-> "unborn"]
    /\ kv = [l \in Lives |-> [version |-> 0, tokens |-> 0, live |-> FALSE]]
    /\ place = [l \in Lives |-> "none"]
    /\ pend = [i \in Ids |-> NoReport]
    /\ aborting = {}
    /\ stops = {}
    /\ tk = [t \in Tickets |-> NoTicket]
    /\ bind = [t \in Tickets |-> NoPlan]
    /\ pc = IdlePc
    /\ eng = "between"
    /\ why = {}
    /\ preempts = 0
    /\ IdOf = [l \in Lives |-> NoStep]

-----------------------------------------------------------------------------
Bound(t) == DOMAIN bind[t]

\* SchedulerCore._inflight_ids_all: adopted and not yet settled by the scheduler.
InFlight(l) == \E t \in Tickets : tk[t].state # "absent" /\ l \in Bound(t)

At(engine, step) == eng = engine /\ pc.at = step

\* retire_terminal: a lifecycle leaves _active with its terminal transition.
Retired(regs, ls, lifes) ==
    [l \in Lives |-> IF l \in ls /\ regs[l] = "active" /\ IsTerminal(lifes[l])
                     THEN "finished" ELSE regs[l]]

Report(l, outcome) == [life |-> l, outcome |-> outcome, epoch |-> life[l].epoch]

\* _queue_report: at most one pending observation per request id.
Queue(ls, outcome) ==
    [i \in Ids |-> IF \E l \in ls : IdOf[l] = i
                   THEN Report(CHOOSE l \in ls : IdOf[l] = i, outcome)
                   ELSE pend[i]]

Drop(ls) == [l \in Lives |-> IF l \in ls THEN "none" ELSE place[l]]

Release(ls) == [l \in Lives |-> IF l \in ls THEN [kv[l] EXCEPT !.live = FALSE]
                                ELSE kv[l]]

\* An exception out of Engine.step ends the owner loop of AyakaLLM._run.
FailEngine(reason) == eng' = "failed" /\ why' = why \cup {reason}

-----------------------------------------------------------------------------
(* Between two engine steps: submission, abort, the result being consumed *)

\* Engine.submit -> SchedulerCore._add_single: an id is free again once its
\* request was forgotten and has given its KV back.
Create(l, id) ==
    /\ At("between", "idle")
    /\ reg[l] = "unborn" /\ id \in IdsOf[l]
    /\ \A m \in Lives : IdOf[m] = id =>
         reg[m] \notin {"active", "finished"} /\ ~kv[m].live
    /\ life' = [life EXCEPT ![l] = Queued(NewLife)]
    /\ reg' = [reg EXCEPT ![l] = "active"]
    /\ kv' = [kv EXCEPT ![l].live = TRUE]
    /\ place' = [place EXCEPT ![l] = "queue"]
    /\ pend' = [pend EXCEPT ![id] = [life |-> l, outcome |-> "ADMITTED", epoch |-> NewLife.epoch]]
    /\ IdOf' = [IdOf EXCEPT ![l] = id]
    /\ UNCHANGED <<aborting, stops, tk, bind, pc, eng, why, preempts>>

\* LifecycleManager.forget, once the output was consumed.
Forget(l) ==
    /\ At("between", "idle")
    /\ reg[l] = "finished"
    /\ reg' = [reg EXCEPT ![l] = "forgotten"]
    /\ UNCHANGED <<life, kv, schedVars, tk, bind, pc, eng, why, preempts, IdOf>>

\* LifecycleManager.cancel from another thread: only the token.
CancelToken(l) ==
    /\ reg[l] = "active"
    /\ ~life[l].token
    /\ life' = [life EXCEPT ![l].token = TRUE]
    /\ UNCHANGED <<reg, kv, schedVars, tk, bind, pc, eng, why, preempts, IdOf>>

\* Executor.cancel on a ticket that is not being settled.
CancelledTicket(r) ==
    IF r.state = "live" THEN [r EXCEPT !.cancel = TRUE]
    ELSE IF r.state = "done" /\ r.status = "SUCCEEDED"
         THEN [r EXCEPT !.status = "CANCELLED"] ELSE r

\* Mutant: a request that is not in flight is dropped without a report.
AbortSilently(l) ==
    /\ At("between", "idle")
    /\ reg[l] = "active" /\ ~IsTerminal(life[l]) /\ l \notin aborting
    /\ life' = [life EXCEPT ![l].token = TRUE]
    /\ IF InFlight(l)
       THEN aborting' = aborting \cup {l} /\ UNCHANGED <<kv, place>>
       ELSE place' = Drop({l}) /\ kv' = Release({l}) /\ UNCHANGED aborting
    /\ UNCHANGED <<reg, pend, stops, tk, bind, pc, eng, why, preempts, IdOf>>

\* SchedulerCore.abort: an in-flight request is only marked, and a ticket is
\* cancelled once every request in it is.
Abort(l) ==
    /\ At("between", "idle")
    /\ reg[l] = "active" /\ ~IsTerminal(life[l]) /\ l \notin aborting
    /\ life' = [life EXCEPT ![l].token = TRUE]
    /\ IF InFlight(l)
       THEN /\ aborting' = aborting \cup {l}
            /\ tk' = [t \in Tickets |->
                        IF Bound(t) \subseteq aborting' THEN CancelledTicket(tk[t])
                        ELSE tk[t]]
            /\ UNCHANGED <<kv, place, pend>>
       ELSE /\ pend' = Queue({l}, "ABORTED")
            /\ place' = Drop({l})
            /\ kv' = Release({l})
            /\ UNCHANGED <<aborting, tk>>
    /\ UNCHANGED <<reg, stops, bind, pc, eng, why, preempts, IdOf>>

\* Engine.step aborts every active request whose token is set, then polls.
BeginStep ==
    /\ At("between", "idle")
    /\ \A l \in Lives : reg[l] = "active" /\ life[l].token =>
         IsTerminal(life[l]) \/ l \in aborting \/ pend[IdOf[l]].outcome = "ABORTED"
    /\ eng' = "settle"
    /\ UNCHANGED <<requestVars, schedVars, tk, bind, pc, why, preempts, IdOf>>

-----------------------------------------------------------------------------
(* The device *)

\* Mutant: the verdict on a cancelled ticket is that of its fences.
CompleteAnyway(t) ==
    /\ tk[t].state = "live"
    /\ \E status \in {"SUCCEEDED", "FAILED"} :
         tk' = [tk EXCEPT ![t].state = "done", ![t].status = status]
    /\ UNCHANGED <<requestVars, schedVars, bind, pc, eng, why, preempts, IdOf>>

\* The executor's verdict: a cancelled ticket never succeeds.
Complete(t) ==
    /\ tk[t].state = "live"
    /\ \E status \in IF tk[t].cancel THEN {"FAILED", "CANCELLED"}
                     ELSE {"SUCCEEDED", "FAILED"} :
         tk' = [tk EXCEPT ![t].state = "done", ![t].status = status]
    /\ UNCHANGED <<requestVars, schedVars, bind, pc, eng, why, preempts, IdOf>>

-----------------------------------------------------------------------------
(* CompletionCoordinator.handle *)

Settling == pc.t \in Tickets /\ tk[pc.t].state = "settling"

\* The except clause: quarantined for good, nothing is given back.
Lose(reason) ==
    /\ tk' = [tk EXCEPT ![pc.t].state = "lost"]
    /\ why' = why \cup {reason}
    /\ pc' = IdlePc

NextSlice(l, ignore) ==
    pc' = [pc EXCEPT !.at = "slice", !.todo = @ \ {l}, !.cur = NoStep,
                     !.ignored = IF ignore THEN @ \cup {l} ELSE @]

\* Validate before committing physical state.
PreflightPasses(t) ==
    \A l \in Bound(t) : Accepts(life[l], bind[t][l]) =>
        CanCommit(life[l], bind[t][l], bind[t][l].version + 1)

HandleBegin(t) ==
    /\ pc.at = "idle" /\ eng \in {"settle", "failed"}
    /\ tk[t].state = "done"
    /\ LET next == [IdlePc EXCEPT !.t = t, !.todo = Bound(t)]
       IN  IF tk[t].status # "SUCCEEDED"
           THEN /\ pc' = [next EXCEPT !.at = "discard"]
                /\ tk' = [tk EXCEPT ![t].state = "settling"]
                /\ UNCHANGED why
           ELSE IF PreflightPasses(t)
           THEN /\ pc' = [next EXCEPT !.at = "commit"]
                /\ tk' = [tk EXCEPT ![t].state = "settling"]
                /\ UNCHANGED why
           ELSE /\ pc' = IdlePc
                /\ tk' = [tk EXCEPT ![t].state = "lost"]
                /\ why' = why \cup {"preflight"}
    /\ UNCHANGED <<requestVars, schedVars, bind, eng, preempts, IdOf>>

\* Tokens a speculative slice may publish: accepted drafts and the target,
\* truncated at the output budget and at a token stop.
Emissions(l, s) ==
    IF s.drafts > 0 /\ Accepts(life[l], s)
    THEN {n \in 1 .. s.drafts + 1 : life[l].out + n <= MaxOut}
    ELSE {0}

\* Mutant: the KV of a slice keeps every draft row.
KeepAllRows(s, keep) == s.count + s.drafts

\* KV rows kept for a slice whose emission is keep (0: not speculative).
Written(s, keep) == IF keep = 0 THEN s.count ELSE keep

\* _speculative_settlement and resources.commit, with the version check.
HandleCommit ==
    /\ pc.at = "commit"
    /\ LET t == pc.t
           fits == \A l \in Bound(t) : kv[l].version = bind[t][l].version
       IN  \E keep \in [Bound(t) -> 0 .. MaxDrafts + 1] :
             /\ \A l \in Bound(t) : keep[l] \in Emissions(l, bind[t][l])
             /\ kv' = [l \in Lives |->
                         IF l \in Bound(t)
                         THEN [kv[l] EXCEPT !.version = @ + 1,
                                            !.tokens = @ + Written(bind[t][l], keep[l])]
                         ELSE kv[l]]
             /\ IF fits
                THEN /\ pc' = [pc EXCEPT !.at = "slice", !.keep = keep]
                     /\ UNCHANGED <<tk, why>>
                ELSE Lose("version")
    /\ UNCHANGED <<life, reg, schedVars, bind, eng, preempts, IdOf>>

DiscardInto(l, cancel, fail) ==
    /\ life' = [life EXCEPT ![l] = Discard(life[l], bind[pc.t][l], cancel, fail)]
    /\ reg' = Retired(reg, {l}, life')

\* The predicate at the head of the per-slice loop.
SliceHead(l) ==
    /\ pc.at = "slice" /\ l \in pc.todo
    /\ IF Accepts(life[l], bind[pc.t][l])
       THEN /\ pc' = [pc EXCEPT !.at = "apply", !.cur = l]
            /\ UNCHANGED <<life, reg>>
       ELSE DiscardInto(l, FALSE, FALSE) /\ NextSlice(l, TRUE)
    /\ UNCHANGED <<kv, schedVars, tk, bind, eng, why, preempts, IdOf>>

\* Mutant: no refusal is tolerated.
RefusedAlways(l, reason) == Lose(reason) /\ UNCHANGED <<life, reg>>

\* except ValueError: cancellation between predicate and guard is tolerated,
\* any other refusal is a fault.
Refused(l, reason) ==
    IF life[l].token \/ IsTerminal(life[l]) \/ life[l].epoch # bind[pc.t][l].epoch
    THEN DiscardInto(l, FALSE, FALSE) /\ NextSlice(l, TRUE) /\ UNCHANGED <<tk, why>>
    ELSE Lose(reason) /\ UNCHANGED <<life, reg>>

\* commit_computed_range or commit_speculative_range, with its own guards.
SliceApply ==
    /\ pc.at = "apply"
    /\ LET l == pc.cur
           s == bind[pc.t][l]
           keep == pc.keep[l]
           version == kv[l].version
           can == IF keep = 0 THEN CanCommit(life[l], s, version)
                  ELSE CanCommitSpeculative(life[l], s, version, keep)
           done == IF keep = 0 THEN CommitRange(life[l], s, version)
                   ELSE CommitSpeculative(life[l], s, version, keep)
       IN  IF can
           THEN /\ life' = [life EXCEPT ![l] = done]
                /\ pc' = IF keep = 0 THEN [pc EXCEPT !.at = "ask"]
                         ELSE [pc EXCEPT !.at = "check", !.published = @ \cup {l}]
                /\ UNCHANGED <<reg, tk, why>>
           ELSE Refused(l, "apply")
    /\ UNCHANGED <<kv, schedVars, bind, eng, preempts, IdOf>>

\* Publish only what the request still accepts ...
SliceAsk ==
    /\ pc.at = "ask"
    /\ LET s == bind[pc.t][pc.cur]
       IN  pc' = [pc EXCEPT !.at =
                    IF s.sample /\ Accepts(life[pc.cur], s) THEN "publish" ELSE "check"]
    /\ UNCHANGED <<requestVars, schedVars, tk, bind, eng, why, preempts, IdOf>>

\* ... and publish_sample asks once more.
SlicePublish ==
    /\ pc.at = "publish"
    /\ LET l == pc.cur
       IN  IF CanPublish(life[l], bind[pc.t][l])
           THEN /\ life' = [life EXCEPT ![l] = PublishSample(life[l])]
                /\ pc' = [pc EXCEPT !.at = "check", !.published = @ \cup {l}]
                /\ UNCHANGED <<reg, tk, why>>
           ELSE Refused(l, "publish")
    /\ UNCHANGED <<kv, schedVars, bind, eng, preempts, IdOf>>

\* A token set while the slice was settled.
SliceCheck ==
    /\ pc.at = "check"
    /\ LET l == pc.cur
       IN  IF life[l].token
           THEN DiscardInto(l, TRUE, FALSE) /\ NextSlice(l, TRUE)
           ELSE NextSlice(l, FALSE) /\ UNCHANGED <<life, reg>>
    /\ UNCHANGED <<kv, schedVars, tk, bind, eng, why, preempts, IdOf>>

\* A ticket that failed or was cancelled takes its requests with it.
SliceDrop(l) ==
    /\ pc.at = "discard" /\ l \in pc.todo
    /\ DiscardInto(l, tk[pc.t].status = "CANCELLED", tk[pc.t].status = "FAILED")
    /\ pc' = [pc EXCEPT !.todo = @ \ {l}, !.ignored = @ \cup {l}]
    /\ UNCHANGED <<kv, schedVars, tk, bind, eng, why, preempts, IdOf>>

\* Mutant: the sequences of every aborted request are released with the ticket.
RetireReleasingAborts ==
    /\ pc.at \in {"slice", "discard"} /\ pc.todo = {}
    /\ kv' = Release(pc.ignored \cup aborting)
    /\ tk' = [tk EXCEPT ![pc.t].state = "retired"]
    /\ pc' = [pc EXCEPT !.at = "update"]
    /\ UNCHANGED <<life, reg, schedVars, bind, eng, why, preempts, IdOf>>

\* Mutant: ignored sequences are not released.
RetireReleasingNothing ==
    /\ pc.at \in {"slice", "discard"} /\ pc.todo = {}
    /\ tk' = [tk EXCEPT ![pc.t].state = "retired"]
    /\ pc' = [pc EXCEPT !.at = "update"]
    /\ UNCHANGED <<life, reg, kv, schedVars, bind, eng, why, preempts, IdOf>>

\* resources.retire releases the ignored sequences, then acknowledge_retired.
HandleRetire ==
    /\ pc.at \in {"slice", "discard"} /\ pc.todo = {}
    /\ kv' = Release(pc.ignored)
    /\ tk' = [tk EXCEPT ![pc.t].state = "retired"]
    /\ pc' = [pc EXCEPT !.at = "update"]
    /\ UNCHANGED <<life, reg, schedVars, bind, eng, why, preempts, IdOf>>

\* A resource callback raised: commit, or retire, at any point.
SettleFault ==
    /\ Settling /\ pc.at \in {"commit", "slice", "discard"}
    /\ Lose("resource")
    /\ UNCHANGED <<requestVars, schedVars, bind, eng, preempts, IdOf>>

-----------------------------------------------------------------------------
(* Engine.step after a result: scheduler bookkeeping, finishes, reports *)

\* Where ContinuousScheduler.update_from_output puts a settled request back.
Requeued(l, s) ==
    IF IsTerminal(life[l]) \/ life[l].token THEN "none"
    ELSE IF s.phase = "PREFILL" /\ SliceEnd(s) < Prompt THEN "queue" ELSE "ring"

\* The output owner may stop a request on a token it published
\* (OutputProcessor.on_published), then update_from_output; after a failed step
\* only Engine.close settles tickets and nobody tells the scheduler.
Update ==
    /\ pc.at = "update"
    /\ LET t == pc.t
           dropped == IF tk[t].status = "SUCCEEDED" THEN pc.ignored ELSE Bound(t)
           final == Bound(t) \cap aborting
           live == {l \in final : ~IsTerminal(life[l])}
           heard == {l \in pc.published : ~IsTerminal(life[l])
                                            /\ life[l].epoch = bind[t][l].epoch}
       IN  /\ IF eng = "failed"
              THEN UNCHANGED <<schedVars, kv>>
              ELSE /\ place' = [l \in Lives |->
                                 IF l \in dropped \cup final THEN "none"
                                 ELSE IF l \in Bound(t) THEN Requeued(l, bind[t][l])
                                 ELSE place[l]]
                   /\ pend' = Queue(live, "ABORTED")
                   /\ kv' = Release(final)
                   /\ aborting' = aborting \ final
                   /\ \E decided \in SUBSET heard : stops' = stops \cup decided
           /\ tk' = [tk EXCEPT ![t] = NoTicket]
           /\ bind' = [bind EXCEPT ![t] = NoPlan]
    /\ pc' = IdlePc
    /\ UNCHANGED <<life, reg, eng, why, preempts, IdOf>>

\* What Engine._finish and SchedulerCore.finish_request require.
Finishable(l) ==
    /\ reg[l] = "active" /\ ~IsTerminal(life[l])
    /\ life[l].slice = NoSlice /\ ~InFlight(l)

\* The budget is spent and no report says so yet (_finish_exhausted).
Exhausted(l) ==
    Finishable(l) /\ ~life[l].token /\ life[l].out >= MaxOut /\ kv[l].live

\* Engine._finish: for each stop decision before the flush, for each exhausted
\* request after it.
Finish(l) ==
    /\ \/ At("settle", "idle") /\ l \in stops /\ Finishable(l)
       \/ At("plan", "idle") /\ Exhausted(l)
    /\ pend' = Queue({l}, "FINISHED")
    /\ place' = Drop({l})
    /\ kv' = Release({l})
    /\ aborting' = aborting \ {l}
    /\ stops' = stops \ {l}
    /\ UNCHANGED <<life, reg, tk, bind, pc, eng, why, preempts, IdOf>>

\* A report applies to the active lifecycle of its id at its epoch.
Applies(l, r) ==
    /\ reg[l] = "active" /\ r # NoReport
    /\ r.life = l /\ r.epoch = life[l].epoch

\* flush_reports -> LifecycleManager.apply.
Flush ==
    /\ At("settle", "idle")
    /\ \A l \in stops : ~Finishable(l)
    /\ LET hit == {l \in Lives : Applies(l, pend[IdOf[l]])}
           known == \A i \in Ids : pend[i] # NoReport =>
                      \E l \in Lives : IdOf[l] = i /\ reg[l] \in {"active", "finished"}
           after == [l \in Lives |->
                       IF l \in hit THEN Reported(life[l], pend[IdOf[l]].outcome)
                       ELSE life[l]]
       IN  IF known /\ \A l \in hit : Reportable(life[l], pend[IdOf[l]].outcome)
           THEN /\ life' = after
                /\ reg' = Retired(reg, hit, after)
                /\ eng' = "plan"
                /\ UNCHANGED why
           ELSE FailEngine("report") /\ UNCHANGED <<life, reg>>
    /\ pend' = [i \in Ids |-> NoReport]
    /\ stops' = {}
    /\ UNCHANGED <<kv, place, aborting, tk, bind, pc, preempts, IdOf>>

-----------------------------------------------------------------------------
(* Scheduler.schedule and CompletionCoordinator.adopt / launch *)

Schedulable == {"ADMITTED", "PREFILL", "DECODING", "STREAMING"}

Eligible(l) ==
    /\ reg[l] = "active" /\ ~IsTerminal(life[l]) /\ ~life[l].token /\ ~InFlight(l)
    /\ \/ place[l] = "ring"
       \/ place[l] = "queue" /\ life[l].state \in Schedulable \cup {"PREEMPTED"}

\* KVRequestPreparer.prepare_request, for requests taken from the queue.
Prepared(l) ==
    LET r == life[l]
        resumed == Transition(Transition(r, "WAITING"), "ADMITTED")
    IN  IF place[l] = "ring" THEN r
        ELSE IF r.state = "PREEMPTED" THEN Rebind(resumed, kv[l].version, kv[l].tokens)
        ELSE IF kv[l].version # r.version \/ kv[l].tokens # r.computed
             THEN Rebind(r, kv[l].version, kv[l].tokens) ELSE r

\* The slices _append_decodes and _append_prefills may cut from a snapshot.
SlicesOf(r, t, ring) ==
    LET slice(count, phase, sample, drafts) ==
            [step |-> t, epoch |-> r.epoch, version |-> r.version,
             start |-> r.computed, count |-> count, phase |-> phase,
             sample |-> sample, drafts |-> drafts]
        atEnd == r.computed + 1 = Known(r)
    IN  IF ring
        THEN {slice(1, "DECODE", atEnd, k) : k \in 0 .. IF atEnd THEN MaxDrafts ELSE 0}
        ELSE {slice(n, "PREFILL", r.computed + n = Prompt /\ Prompt = Known(r), 0)
                : n \in 1 .. Prompt - r.computed}

\* One candidate plan: a nonempty set of requests, prepared, with a slice each.
\* prepare_request also ran for entries that then did not fit.
Select(t, S, extra) ==
    /\ At("plan", "idle")
    /\ ~\E l \in Lives : Exhausted(l)
    /\ Cardinality({u \in Tickets : tk[u].state # "absent"}) < MaxInflight
    /\ tk[t].state = "absent"
    /\ \A l \in S \cup extra : Eligible(l)
    /\ \A l \in extra : place[l] = "queue" /\ Prepared(l) # life[l]
    /\ S \cup extra # {}
    /\ LET ready == [l \in Lives |-> IF l \in S \cup extra THEN Prepared(l) ELSE life[l]]
       IN  IF \A l \in S : HasSnapshot(ready[l])
           THEN /\ \E plan \in [S -> UNION {SlicesOf(ready[l], t, place[l] = "ring") : l \in S}] :
                     /\ \A l \in S : plan[l] \in SlicesOf(ready[l], t, place[l] = "ring")
                     /\ bind' = [bind EXCEPT ![t] = plan]
                /\ life' = ready
                /\ IF S = {} THEN pc' = IdlePc /\ eng' = "between"
                   ELSE pc' = [IdlePc EXCEPT !.at = "adopt", !.t = t] /\ UNCHANGED eng
                /\ UNCHANGED why
           ELSE FailEngine("snapshot") /\ UNCHANGED <<life, bind, pc>>
    /\ UNCHANGED <<reg, kv, schedVars, tk, preempts, IdOf>>

\* Mutant: the victim stays in the decode ring.
PreemptInPlace(v) ==
    /\ At("plan", "adopt")
    /\ preempts < MaxPreempt
    /\ v \notin Bound(pc.t) /\ ~InFlight(v)
    /\ reg[v] = "active" /\ ~IsTerminal(life[v]) /\ ~life[v].token
    /\ life[v].slice = NoSlice /\ kv[v].tokens > 0
    /\ kv' = [kv EXCEPT ![v].tokens = 0, ![v].version = @ + 1]
    /\ pend' = Queue({v}, "PREEMPTED")
    /\ preempts' = preempts + 1
    /\ UNCHANGED <<life, reg, place, aborting, stops, tk, bind, pc, eng, why, IdOf>>

\* _try_preempt_one while the plan cannot be prepared: the victim's KV is reset
\* at once, its lifecycle only when the report is flushed.
Preempt(v) ==
    /\ At("plan", "adopt")
    /\ preempts < MaxPreempt
    /\ v \notin Bound(pc.t) /\ ~InFlight(v)
    /\ reg[v] = "active" /\ ~IsTerminal(life[v]) /\ ~life[v].token
    /\ life[v].slice = NoSlice
    /\ \/ place[v] = "ring"
       \/ /\ place[v] = "queue" /\ life[v].computed > 0
          /\ IsLegal(life[v].state, "PREEMPTED") /\ pend[IdOf[v]] = NoReport
    /\ kv[v].tokens > 0
    /\ kv' = [kv EXCEPT ![v].tokens = 0, ![v].version = @ + 1]
    /\ pend' = Queue({v}, "PREEMPTED")
    /\ place' = [place EXCEPT ![v] = "queue"]
    /\ preempts' = preempts + 1
    /\ UNCHANGED <<life, reg, aborting, stops, tk, bind, pc, eng, why, IdOf>>

\* A permanent prepare refusal fails one request of the plan.
FailRequest(l) ==
    /\ At("plan", "adopt") /\ l \in Bound(pc.t)
    /\ LET rest == Bound(pc.t) \ {l}
       IN  /\ bind' = [bind EXCEPT ![pc.t] = [m \in rest |-> bind[pc.t][m]]]
           /\ IF rest = {} THEN pc' = IdlePc /\ eng' = "between"
              ELSE UNCHANGED <<pc, eng>>
    /\ pend' = Queue({l}, "FAILED")
    /\ place' = Drop({l})
    /\ kv' = Release({l})
    /\ aborting' = aborting \ {l}
    /\ UNCHANGED <<life, reg, stops, tk, why, preempts, IdOf>>

\* Transient refusal with nothing left to shrink or preempt: schedule() returns
\* None, which ends the step's scheduling loop.
GiveUp ==
    /\ At("plan", "adopt")
    /\ bind' = [bind EXCEPT ![pc.t] = NoPlan]
    /\ pc' = IdlePc
    /\ eng' = "between"
    /\ UNCHANGED <<requestVars, schedVars, tk, why, preempts, IdOf>>

\* adopt(): all requests are validated before ownership moves.  A refusal is an
\* exception nobody above catches.
AdoptPreflight ==
    /\ At("plan", "adopt")
    /\ IF \A l \in Bound(pc.t) : CanBegin(life[l], bind[pc.t][l])
       THEN /\ tk' = [tk EXCEPT ![pc.t].state = "adopted"]
            /\ pc' = [pc EXCEPT !.at = "claim", !.todo = Bound(pc.t)]
            /\ UNCHANGED <<bind, eng, why>>
       ELSE /\ FailEngine(IF \E l \in Bound(pc.t) : life[l].token THEN "cancel" ELSE "phase")
            /\ bind' = [bind EXCEPT ![pc.t] = NoPlan]
            /\ pc' = IdlePc
            /\ UNCHANGED tk
    /\ UNCHANGED <<requestVars, schedVars, preempts, IdOf>>

\* begin_slice for each request; one cancelled since the preflight is skipped.
AdoptClaim(l) ==
    /\ pc.at = "claim" /\ l \in pc.todo
    /\ LET s == bind[pc.t][l]
       IN  IF CanBegin(life[l], s)
           THEN life' = [life EXCEPT ![l] = BeginSlice(life[l], s)] /\ UNCHANGED why
           ELSE /\ UNCHANGED life
                /\ why' = IF life[l].token THEN why ELSE why \cup {"claim"}
    /\ pc' = [pc EXCEPT !.todo = @ \ {l}]
    /\ UNCHANGED <<reg, kv, schedVars, tk, bind, eng, preempts, IdOf>>

\* Mutant: a ticket nobody accepts any more is not cancelled.
LaunchNothing ==
    /\ pc.at = "claim" /\ pc.todo = {}
    /\ LET t == pc.t
       IN  IF \E l \in Bound(t) : Accepts(life[l], bind[t][l])
           THEN tk' = [tk EXCEPT ![t].state = "live"] ELSE UNCHANGED tk
    /\ pc' = IdlePc
    /\ UNCHANGED <<requestVars, schedVars, bind, eng, why, preempts, IdOf>>

\* launch(): nothing is enqueued for requests that are all invalidated.  The
\* prefill slices leave the queue with adoption.
Launch ==
    /\ pc.at = "claim" /\ pc.todo = {}
    /\ LET t == pc.t
       IN  IF \E l \in Bound(t) : Accepts(life[l], bind[t][l])
           THEN \E state \in {"live", "lost"} :
                  /\ tk' = [tk EXCEPT ![t].state = state]
                  /\ why' = IF state = "lost" THEN why \cup {"resource"} ELSE why
           ELSE /\ tk' = [tk EXCEPT ![t].state = "done", ![t].status = "CANCELLED"]
                /\ UNCHANGED why
    /\ place' = [l \in Lives |->
                   IF l \in Bound(pc.t) /\ place[l] = "queue" THEN "none" ELSE place[l]]
    /\ pc' = IdlePc
    /\ UNCHANGED <<requestVars, pend, aborting, stops, bind, eng, preempts, IdOf>>

EndStep ==
    /\ At("plan", "idle")
    /\ ~\E l \in Lives : Exhausted(l)
    /\ eng' = "between"
    /\ UNCHANGED <<requestVars, schedVars, tk, bind, pc, why, preempts, IdOf>>

-----------------------------------------------------------------------------
HandleSteps ==
    \/ HandleCommit \/ SliceApply \/ SliceAsk \/ SlicePublish \/ SliceCheck
    \/ HandleRetire \/ Update
    \/ \E l \in Lives : SliceHead(l) \/ SliceDrop(l)

PlanSteps ==
    \/ AdoptPreflight \/ Launch \/ GiveUp
    \/ \E l \in Lives : AdoptClaim(l) \/ Preempt(l) \/ FailRequest(l)

SettlementNext ==
    \/ \E l \in Lives, id \in Ids : Create(l, id)
    \/ \E l \in Lives : Forget(l) \/ CancelToken(l) \/ Abort(l) \/ Finish(l)
    \/ \E t \in Tickets : Complete(t) \/ HandleBegin(t)
    \/ \E t \in Tickets, S \in SUBSET Lives, extra \in SUBSET Lives :
         S \cap extra = {} /\ Select(t, S, extra)
    \/ HandleSteps \/ PlanSteps \/ SettleFault
    \/ BeginStep \/ Flush \/ EndStep

SettlementSafety == SettlementInit /\ [][SettlementNext]_vars

\* The owner thread keeps stepping and no call inside a step blocks; every step
\* polls every completed ticket; the device finishes what it was given.  Clients
\* need not submit, cancel or consume anything.
SettlementFairness ==
    /\ WF_vars(HandleSteps \/ AdoptPreflight \/ Launch
                \/ \E l \in Lives : AdoptClaim(l) \/ Finish(l))
    /\ WF_vars(BeginStep) /\ WF_vars(Flush) /\ WF_vars(EndStep)
    /\ \A l \in Lives : WF_vars(life[l].token /\ Abort(l))
    /\ \A t \in Tickets : WF_vars(Complete(t)) /\ SF_vars(HandleBegin(t))

SettlementSpec == SettlementSafety /\ SettlementFairness

-----------------------------------------------------------------------------
(* Properties *)

\* A slice a request is waiting for belongs to a ticket that is still owned and
\* that captured this very lifecycle with this very slice: no settlement path,
\* race or failure leaves a request waiting for a ticket that is gone
\* (CompletionCoordinator.handle / _discard).
SliceIsTracked ==
    \A l \in Lives : life[l].slice # NoSlice =>
        \E t \in Tickets :
            /\ tk[t].state \in {"adopted", "live", "done", "settling", "lost"}
            /\ l \in Bound(t) /\ bind[t][l] = life[l].slice

\* Whenever the scheduler may plan a request from the decode ring, its host
\* counters are those of its KV sequence: the version and the committed tokens
\* of commit_computed_range agree with what resources.commit wrote, whichever
\* of commit, publish, discard and release a race made it take.
RingMirrorsKV ==
    \A l \in Lives :
        eng = "plan" /\ pc.at = "idle" /\ place[l] = "ring" /\ Eligible(l) =>
            /\ kv[l].live
            /\ kv[l].version = life[l].version
            /\ kv[l].tokens = life[l].computed
            /\ HasSnapshot(life[l])

\* A request that ended lets go of everything and no other does: terminal
\* lifecycles have left _active and live ones have not (retire_terminal is called
\* on every path that ends a request); and outside a step a terminal request that
\* no ticket holds has released its KV, so its id can be used again
\* (KVSequenceAllocator.create), while one that could still be scheduled has not.
EndedRequestsLetGo ==
    pc.at = "idle" =>
        \A l \in Lives : reg[l] # "unborn" =>
            /\ IsTerminal(life[l]) <=> reg[l] # "active"
            /\ eng = "between" /\ ~InFlight(l) =>
                   /\ IsTerminal(life[l]) => ~kv[l].live
                   /\ ~IsTerminal(life[l]) /\ ~kv[l].live => pend[IdOf[l]].life = l

\* Settlement never quarantines a ticket, and the report flush never raises, of
\* their own: every refused guard inside handle() is explained by cancellation,
\* and what is lost is lost to a failing resource callback ("an unexpected
\* mismatch in a live one is a fault", completion.py).
OnlyResourcesFault ==
    why \cap {"preflight", "version", "apply", "publish", "claim", "report", "snapshot"} = {}

\* A token is published only behind the KV of every token before it, by a ticket
\* that succeeded, and to a request that was not terminal.
PublishesBehindKV ==
    [][\A l \in Lives : life'[l].out > life[l].out =>
          /\ Settling /\ tk[pc.t].status = "SUCCEEDED" /\ l \in Bound(pc.t)
          /\ kv[l].tokens = Prompt + life'[l].out - 1
          /\ ~IsTerminal(life[l])]_vars

\* Settling a ticket touches only the lifecycles it captured: a request that
\* reuses an id is never redirected to ("reaping/reusing a request ID cannot
\* redirect an old completion to its replacement", completion.py).
SettlementIsConfined ==
    [][\A l \in Lives : Settling /\ l \notin Bound(pc.t) =>
          /\ reg'[l] = reg[l] /\ kv'[l] = kv[l]
          /\ life'[l] = life[l] \/ life'[l] = [life[l] EXCEPT !.token = TRUE]]_vars

\* A ticket as TicketProtocol has it.
TicketView(t) ==
    [state |-> IF tk[t].state = "retired" THEN "gone" ELSE tk[t].state,
     status |-> IF tk[t].state \in {"done", "settling"} THEN tk[t].status ELSE "NONE",
     cancel |-> tk[t].state = "live" /\ tk[t].cancel]

Protocol == INSTANCE TicketProtocol WITH tk <- [t \in Tickets |-> TicketView(t)]

\* Settlement uses tickets as the executor provides them: each is settled once,
\* with the outcome it was delivered with, and given up only by retirement.
FollowsTicketProtocol == Protocol!ProtocolSpec

Broken == eng = "failed" \/ \E t \in Tickets : tk[t].state = "lost"

\* Every claimed slice is settled, unless its ticket is quarantined.
SlicesSettle ==
    \A l \in Lives : life[l].slice # NoSlice ~> life[l].slice = NoSlice \/ Broken

\* A cancelled request becomes terminal, whichever step the signal met.
CancellationEnds ==
    \A l \in Lives : reg[l] = "active" /\ life[l].token
                        ~> IsTerminal(life[l]) \/ Broken

\* No request is stuck: what was claimed is settled and what was cancelled ends,
\* unless a ticket was lost or the loop failed (handle(), Engine.abort).
RequestsMoveOn == SlicesSettle /\ CancellationEnds

\* "Thread-safe cancel signal; the owner loop converts it to an abort."
\* (runtime/llm.py): a concurrent cancel never ends the engine loop.
CancelIsSafe == "cancel" \notin why

\* "Rebinding here prevents a plan from being built on the pre-reset view and
\* failing validation." (runtime/kv.py): no plan is refused by adopt().
RebindingPlansValidate == "phase" \notin why
=============================================================================

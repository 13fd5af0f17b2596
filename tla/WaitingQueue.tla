---------------------------- MODULE WaitingQueue ----------------------------
(***************************************************************************)
(* The two-level waiting queue of the scheduler (sched/core.py) as the     *)
(* continuous scheduler drives it (sched/continuous.py): an arrival deque, *)
(* the bounded hot window that ranking sees, the id set that answers       *)
(* membership for both, and the partial prefills that own pages between    *)
(* two chunks.                                                             *)
(*                                                                         *)
(* A queue entry stands for the lifecycle it carries.  An entry dropped    *)
(* while staged stays in the deque until a drain meets it; the drain runs  *)
(* in schedule() only, and schedule() does nothing while max_inflight      *)
(* tickets are out.  Which candidates a plan takes, and whether a slice    *)
(* ends its prompt, are free choices within the partial-prefill limit.     *)
(***************************************************************************)
EXTENDS Integers, FiniteSets, SequencesExt

CONSTANTS Lives,        \* RequestLifecycle objects that may ever exist
          IdOf,         \* the request id each one is created with
          Window,       \* HOT_WINDOW_SIZE
          MaxPartial,   \* plan.max_num_partial_prefills
          MaxInflight,  \* plan.max_inflight
          Pressure      \* whether StepRuntime.prepare may refuse a plan

ASSUME QueueAssumption ==
    /\ Window \in Nat \ {0} /\ MaxPartial \in Nat \ {0} /\ MaxInflight \in Nat \ {0}
    /\ MaxPartial <= Window /\ Pressure \in BOOLEAN

VARIABLES staging,     \* _staging
          hot,         \* _hot
          waitingIds,  \* _waiting_ids
          prefilling,  \* _prefilling
          running,     \* _running
          tickets,     \* _inflight_request_ids, with the slices that end a prompt
          stage,       \* the lifecycle: unborn, active, ended, forgotten
          shrunk       \* auxiliary: a slice that ended its prompt was halved

queueVars == <<staging, hot, waitingIds, prefilling, running, tickets, stage, shrunk>>

Queue == [staging |-> staging, hot |-> hot, ids |-> waitingIds]
Assign(q) == staging' = q.staging /\ hot' = q.hot /\ waitingIds' = q.ids

QueueInit ==
    /\ staging = <<>> /\ hot = <<>> /\ waitingIds = {}
    /\ prefilling = {} /\ running = {} /\ tickets = {}
    /\ stage = [l \in Lives |-> "unborn"]
    /\ shrunk = FALSE

InFlight(l) == \E b \in tickets : l \in b.lives

-----------------------------------------------------------------------------
(* The queue's own operations, on a record of its three parts *)

WaitingAdd(q, l) ==
    [q EXCEPT !.staging = Append(@, l), !.ids = @ \cup {IdOf[l]}]

\* _waiting_remove: the first window entry with this id goes; a staged one is
\* left to the drain.
WaitingRemove(q, l) ==
    IF IdOf[l] \notin q.ids THEN q
    ELSE [q EXCEPT !.ids = @ \ {IdOf[l]},
                   !.hot = RemoveFirstMatch(@, LAMBDA e : IdOf[e] = IdOf[l])]

\* Staged entries the drain admits when n of them have been looked at.
Admitted(q, n) ==
    SelectSeq(SubSeq(q.staging, 1, n), LAMBDA e : IdOf[e] \in q.ids)

\* _drain_window: pop until the window is full or the deque is empty.
Drain(q) ==
    LET room == Window - Len(q.hot)
        looked == {n \in 0 .. Len(q.staging) :
                     \/ n = Len(q.staging) /\ Len(Admitted(q, n)) <= room
                     \/ Len(Admitted(q, n)) = room}
        n == CHOOSE k \in looked : \A j \in looked : k <= j
    IN  IF room <= 0 THEN q
        ELSE [q EXCEPT !.hot = @ \o Admitted(q, n),
                       !.staging = SubSeq(@, n + 1, Len(@))]

\* Mutant: a continuation queues up behind everybody else.
RequeueStaged(q, l, owners) == IF IdOf[l] \in q.ids THEN q ELSE WaitingAdd(q, l)

\* Mutant: a request that does not own a partial prefill is not queued again.
RequeueOwners(q, l, owners) ==
    IF IdOf[l] \in q.ids \/ l \notin owners THEN q
    ELSE [staging |-> IF Len(q.hot) >= Window THEN <<Last(q.hot)>> \o q.staging ELSE q.staging,
          hot |-> <<l>> \o (IF Len(q.hot) >= Window THEN Front(q.hot) ELSE q.hot),
          ids |-> q.ids \cup {IdOf[l]}]

\* _requeue: the owner of a partial prefill goes to the head of the window, at
\* the cost of the window's last entry.
Requeue(q, l, owners) ==
    IF IdOf[l] \in q.ids THEN q
    ELSE IF l \notin owners THEN WaitingAdd(q, l)
    ELSE LET full == Len(q.hot) >= Window
         IN  [staging |-> IF full THEN <<Last(q.hot)>> \o q.staging ELSE q.staging,
              hot |-> <<l>> \o (IF full THEN Front(q.hot) ELSE q.hot),
              ids |-> q.ids \cup {IdOf[l]}]

-----------------------------------------------------------------------------
\* _add_single; an id is taken until its lifecycle is forgotten.
Add(l) ==
    /\ stage[l] = "unborn"
    /\ \A m \in Lives : IdOf[m] = IdOf[l] => stage[m] \in {"unborn", "forgotten"}
    /\ stage' = [stage EXCEPT ![l] = "active"]
    /\ Assign(WaitingAdd(Queue, l))
    /\ UNCHANGED <<prefilling, running, tickets, shrunk>>

\* abort, finish_request and fail_request of a request no ticket holds: _drop,
\* and the report that ends the lifecycle.
Drop(l) ==
    /\ stage[l] = "active" /\ ~InFlight(l)
    /\ stage' = [stage EXCEPT ![l] = "ended"]
    /\ Assign(WaitingRemove(Queue, l))
    /\ prefilling' = prefilling \ {l}
    /\ running' = running \ {l}
    /\ UNCHANGED <<tickets, shrunk>>

\* LifecycleManager.forget, in the owner loop after the engine step that applied
\* the report: that step called schedule() unless every ticket was out.
Forget(l) ==
    /\ stage[l] = "ended"
    /\ Contains(staging, l) => Cardinality(tickets) = MaxInflight \/ Len(hot) >= Window
    /\ stage' = [stage EXCEPT ![l] = "forgotten"]
    /\ UNCHANGED <<staging, hot, waitingIds, prefilling, running, tickets, shrunk>>

\* The window entries _append_prefills ranks.
Candidates(q) == {l \in Lives : stage[l] = "active" /\ ~InFlight(l) /\ Contains(q.hot, l)}

\* Mutant: the limit counts only the prefills of this plan.
PartialsFitPlan(S, last) == Cardinality(S \ last) <= MaxPartial

\* At most MaxPartial owners: a new partial prompt needs a free slot; the slices
\* of "last" end their prompt.
PartialsFit(S, last) ==
    S \subseteq last \cup prefilling
        \/ Cardinality(prefilling \cup (S \ last)) <= MaxPartial

\* schedule(): drain, plan, and under pressure shrink the plan ("cut" no longer
\* end their prompt) and preempt V; then adopt prefills S and decodes D.  Only
\* adoption takes entries from the queue; the order of its slices is free.
Schedule(S, last, cut, D, V) ==
    /\ Cardinality(tickets) < MaxInflight
    /\ Pressure \/ cut \cup V = {}
    /\ LET drained == Drain(Queue)
           free == {l \in Lives : stage[l] = "active" /\ ~InFlight(l)}
           owners == prefilling \ V
           requeue(q, v) == Requeue(q, v, owners)
           queued == FoldLeft(requeue, drained, SetToSeq(V))
       IN  /\ S \subseteq Candidates(drained) /\ D \subseteq running \cap free
           /\ V \subseteq ((running \cup prefilling) \cap free) \ (S \cup D)
           /\ V # {} => (Candidates(drained) \cup (running \cap free)) \ V # {}
           /\ PartialsFit(S, last)
           /\ Assign(FoldLeft(WaitingRemove, queued, SetToSeq(S)))
           /\ prefilling' = owners \cup S
           /\ tickets' = IF S \cup D = {} THEN tickets
                         ELSE tickets \cup {[lives |-> S \cup D, last |-> (last \ cut) \cup D]}
    /\ running' = running \ V
    /\ shrunk' = (shrunk \/ cut # {})
    /\ UNCHANGED stage

\* update_from_output: survivors go back to the queue or on to decoding, the
\* others are dropped.
Settle(b, gone) ==
    /\ b \in tickets /\ gone \subseteq b.lives
    /\ LET partial == b.lives \ (b.last \cup gone)
           owners == (prefilling \ b.lives) \cup partial
           requeue(q, l) == Requeue(q, l, owners)
       IN  /\ \E order \in SetToSeqs(partial) :
                Assign(FoldLeft(WaitingRemove, FoldLeft(requeue, Queue, order),
                                SetToSeq(gone)))
           /\ prefilling' = owners
    /\ running' = (running \cup (b.last \ gone)) \ gone
    /\ tickets' = tickets \ {b}
    /\ stage' = [l \in Lives |-> IF l \in gone THEN "ended" ELSE stage[l]]
    /\ UNCHANGED shrunk

QueueNext ==
    \/ \E l \in Lives : Add(l) \/ Drop(l) \/ Forget(l)
    \/ \E S, V \in SUBSET Lives, D \in SUBSET running : \E last \in SUBSET S :
         \E cut \in SUBSET last : Schedule(S, last, cut, D, V)
    \/ \E b \in tickets : \E gone \in SUBSET b.lives : Settle(b, gone)

QueueSpec == QueueInit /\ [][QueueNext]_queueVars

-----------------------------------------------------------------------------
Entries(l) == {i \in 1 .. Len(hot \o staging) : (hot \o staging)[i] = l}
Waiting(l) == stage[l] = "active" /\ IdOf[l] \in waitingIds

\* No request is lost and none is in two places: an active request waits, or
\* decodes, or is in one ticket (queue ownership moves only with adoption and
\* comes back with settlement, _prepare_and_adopt and update_from_output).  One
\* that waits has exactly one entry, so no plan holds it twice, and the bounded
\* window holds waiting requests only: what was dropped does not use it up
\* (_waiting_remove, _drain_window).
EveryRequestHasOnePlace ==
    /\ \A l \in Lives : stage[l] = "active" =>
         \/ Waiting(l) /\ l \notin running /\ ~InFlight(l)
         \/ ~Waiting(l) /\ (l \in running \/ InFlight(l))
    /\ \A l \in Lives : Waiting(l) => Cardinality(Entries(l)) = 1
    /\ Len(hot) <= Window /\ \A i \in 1 .. Len(hot) : Waiting(hot[i])

\* "Parking it behind the staging queue can deadlock a full hot window ... Keep
\* that owner visible" (_requeue): whoever owns a partial prefill and waits can
\* be seen by the next plan, as long as the number of owners is limited.
OwnersAreVisible ==
    ~shrunk => \A l \in prefilling : Waiting(l) => Contains(hot, l)

\* No more than max_num_partial_prefills requests are between two chunks, however
\* tickets overlap, settle and are preempted.  Only _shrink_transient, which
\* turns a last chunk into a partial one without asking, goes past the limit.
PartialLimit ==
    ~shrunk => Cardinality({l \in prefilling : Waiting(l)}) <= MaxPartial

\* Partial prefills go on: no more of them than slots, and each in sight of the
\* planner, so that none waits in staging for a slot it holds itself (_requeue).
PartialPrefillsProgress == OwnersAreVisible /\ PartialLimit

\* "Still staged: the drain skips it via `_waiting_ids`." (_waiting_remove): an
\* entry dropped while staged never enters the window.
StagedDropsAreSkipped == \A i \in 1 .. Len(hot) : stage[hot[i]] = "active"
=============================================================================

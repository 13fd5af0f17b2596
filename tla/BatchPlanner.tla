---------------------------- MODULE BatchPlanner ----------------------------
(***************************************************************************)
(* How the continuous scheduler makes one batch (sched/continuous.py):     *)
(* candidate construction against a BatchBudget (sched/budget.py), ranking *)
(* with aging (sched/policy.py), and the prepare loop that shrinks the     *)
(* candidate, preempts or gives up when the runtime refuses it.            *)
(*                                                                         *)
(* One ticket is in flight at a time and settles before the next step.     *)
(* Requests are numbered by arrival_ns.  Physical memory is the runtime's  *)
(* free choice to accept or refuse a plan.                                 *)
(***************************************************************************)
EXTENDS Integers, Sequences, FiniteSets, SequencesExt

CONSTANTS Requests,    \* 1 .. N
          Prompt,      \* prompt length of each request
          Priority,    \* request.priority; all equal under FCFS
          MaxTokens,   \* BatchBudget.max_physical_tokens
          MaxSeqs,     \* BatchBudget.max_sequences
          Padding,     \* token_padding_multiple
          ChunkCap,    \* _prefill_chunk_size
          MaxPartial,  \* max_num_partial_prefills
          MaxBypass,   \* max_bypass
          MaxDrafts,   \* drafts a proposer offers for one decode
          Settings,    \* configurations a scheduler may be created with
          CountBound   \* bypass counts and ages are exact up to here

ASSUME PlannerAssumption ==
    /\ {MaxTokens, MaxSeqs, Padding, ChunkCap, MaxPartial, MaxBypass} \subseteq Nat \ {0}
    /\ MaxDrafts \in Nat /\ CountBound > MaxBypass
    /\ \A c \in Settings :
         /\ c.mixed \in BOOLEAN        \* allow_mixed_batches
         /\ c.decodeFirst \in BOOLEAN  \* decode_first
         /\ c.maxBurst \in Nat         \* max_decode_burst; 0 for None
         /\ c.refusals \in BOOLEAN     \* prepare_request and admission may refuse
         /\ c.mixed => c.maxBurst = 0
         /\ c.clients \subseteq Requests  \* the requests that arrive

VARIABLES settings,  \* the configuration of this scheduler
          waiting,   \* requests in the hot window
          owners,    \* _prefilling: between two chunks, or in flight
          running,   \* decode ring as seen from its cursor
          computed,  \* computed_tokens
          bypass,    \* QueueEntry.bypass_count
          age,       \* _service_round - QueueEntry.ready_round
          reported,  \* preempted, report not applied yet
          rebound,   \* rebound while DECODING: the report came too late
          plan,      \* slices of the candidate, or of the ticket in flight
          todo,      \* builders _candidate_plans has not run yet
          stage,     \* "idle", "building", "preparing", "inflight" or "raised"
          cap,       \* _effective_prefill_chunk_size
          streak,    \* _successful_prepares_since_pressure
          burst      \* _decode_burst

queueVars == <<waiting, owners, running, computed, bypass, age, reported, rebound>>
capVars == <<cap, streak>>
plannerVars == <<settings, queueVars, plan, todo, stage, capVars, burst>>

LesserOf(a, b) == IF a < b THEN a ELSE b
GreaterOf(a, b) == IF a > b THEN a ELSE b
Capped(n) == LesserOf(n, CountBound)

PlannerInit ==
    /\ settings \in Settings
    /\ waiting = {} /\ owners = {} /\ running = <<>>
    /\ reported = {} /\ rebound = {}
    /\ computed = [r \in Requests |-> 0]
    /\ bypass = [r \in Requests |-> 0]
    /\ age = [r \in Requests |-> 0]
    /\ plan = <<>> /\ todo = <<>> /\ stage = "idle"
    /\ cap = ChunkCap /\ streak = 0 /\ burst = 0

-----------------------------------------------------------------------------
(* BatchBudget: logical tokens and sequences of a batch. *)

\* physical_token_slots
Slots(n) == ((n + Padding - 1) \div Padding) * Padding

CanAdd(b, n, new) ==
    b.sequences + new <= MaxSeqs /\ Slots(b.logical + n) <= MaxTokens

\* Mutant: the unused tail of the last padded block is not credited.
FittableByBlocks(b, n, new) ==
    IF b.sequences + new > MaxSeqs THEN 0
    ELSE LesserOf(n, GreaterOf(0, (MaxTokens \div Padding) * Padding - Slots(b.logical)))

LargestFittable(b, n, new) ==
    IF b.sequences + new > MaxSeqs THEN 0
    ELSE LET capacity == (MaxTokens \div Padding) * Padding
         IN  LesserOf(n, GreaterOf(0, capacity - Slots(b.logical) + ((-b.logical) % Padding)))

SliceEnd(s) == s.start + s.count
Rows(p) == FoldLeft(LAMBDA n, s : n + s.count + s.drafts, 0, p)
BudgetOf(p) == [logical |-> Rows(p), sequences |-> Len(p)]
Planned(p) == {p[i].req : i \in DOMAIN p}
IsPrefill(s) == s.phase = "PREFILL"
IsDecode(s) == s.phase = "DECODE"

-----------------------------------------------------------------------------
(* policy.order(), then the owners of partial prompts first. *)

Aged(r) == bypass[r] >= MaxBypass \/ age[r] >= MaxBypass

LexLess(x, y) ==
    \E i \in DOMAIN x : x[i] < y[i] /\ \A j \in 1 .. i - 1 : x[j] = y[j]

RankKey(r) ==
    <<IF r \in owners THEN 0 ELSE 1>> \o
    (IF Aged(r) THEN <<0, -bypass[r], -age[r], r>> ELSE <<1, -Priority[r], r, 0>>)

Ranked(S) == SetToSortSeq(S, LAMBDA x, y : LexLess(RankKey(x), RankKey(y)))

-----------------------------------------------------------------------------
(* Candidate construction: batch records what has been put together so far. *)

NoBatch == [slices |-> <<>>, partial |-> owners, marked |-> {}, prepared |-> {}]

\* _append_decodes
AppendDecodes(a) ==
    LET room == Cardinality({n \in 1 .. Len(running) :
                    /\ Len(a.slices) + n <= MaxSeqs
                    /\ Slots(Rows(a.slices) + n) <= MaxTokens})
        decode(r) == [req |-> r, phase |-> "DECODE", start |-> 0, count |-> 1, drafts |-> 0]
    IN  [a EXCEPT !.slices = @ \o [i \in 1 .. room |-> decode(running[i])]]

\* Mutant: a proposal is taken whole if any of it fits.
AppendDraftsWhole(a, k) ==
    LET step(p, i) ==
            IF IsDecode(p[i]) /\ LargestFittable(BudgetOf(p), k, 0) > 0
            THEN [p EXCEPT ![i].drafts = k] ELSE p
    IN  [a EXCEPT !.slices =
            IF k = 0 THEN @ ELSE FoldLeft(step, @, [i \in 1 .. Len(@) |-> i])]

\* _append_speculation: drafts spend what is left of the token budget.
AppendDrafts(a, k) ==
    LET step(p, i) ==
            IF IsDecode(p[i]) THEN [p EXCEPT ![i].drafts = LargestFittable(BudgetOf(p), k, 0)]
            ELSE p
    IN  [a EXCEPT !.slices =
            IF k = 0 THEN @ ELSE FoldLeft(step, @, [i \in 1 .. Len(@) |-> i])]

\* computed_tokens after prepare_request(), which rebinds a request whose KV a
\* preemption has reset.
Seen(r) == IF r \in reported THEN 0 ELSE computed[r]

\* The width _append_prefills asks for: a reduced cap holds for continuations.
Requested(r) ==
    LesserOf(Prompt[r] - Seen(r), IF Seen(r) = 0 THEN ChunkCap ELSE cap)

\* One round of the loop of _append_prefills.
AppendPrefill(a, r, unprepared, unadmitted) ==
    LET b == BudgetOf(a.slices)
        chunk == LargestFittable(b, Requested(r), 1)
        partial == Seen(r) + chunk < Prompt[r]
        full == LargestFittable(b, 1, 1) = 0
        next == [a EXCEPT !.prepared = @ \cup {r}]
        blocked == partial /\ r \notin a.partial /\ Cardinality(a.partial) >= MaxPartial
    IN  IF full \/ r \in unprepared THEN a
        ELSE IF r \in unadmitted \/ blocked THEN [next EXCEPT !.marked = @ \cup {r}]
        ELSE [next EXCEPT !.partial = IF partial THEN @ \cup {r} ELSE @,
                       !.slices = Append(@, [req |-> r, phase |-> "PREFILL",
                                             start |-> Seen(r), count |-> chunk,
                                             drafts |-> 0])]

AppendPrefills(a, unprepared, unadmitted) ==
    FoldLeft(LAMBDA x, r : AppendPrefill(x, r, unprepared, unadmitted), a, Ranked(waiting))

Candidate(builder, k, unprepared, unadmitted) ==
    CASE builder = "DECODE" -> AppendDrafts(AppendDecodes(NoBatch), k)
      [] builder = "PREFILL" -> AppendPrefills(NoBatch, unprepared, unadmitted)
      [] OTHER ->
            IF settings.decodeFirst
            THEN AppendPrefills(AppendDrafts(AppendDecodes(NoBatch), k), unprepared, unadmitted)
            ELSE AppendDrafts(AppendDecodes(AppendPrefills(NoBatch, unprepared, unadmitted)), k)

-----------------------------------------------------------------------------
(* The engine step: flush_reports(), then schedule(). *)

\* add_request(): a new entry of the present round, with no bypass.
Arrive(r) ==
    /\ stage \in {"idle", "inflight"}
    /\ r \notin waiting \cup owners \cup ToSet(running)
    /\ waiting' = waiting \cup {r}
    /\ UNCHANGED <<owners, running, computed, bypass, age, reported, rebound, plan, todo, stage, capVars, burst>>

\* _apply_capacity_hint: the advisor lowers the cap and never raises it.
HintedCap(hint) == LesserOf(cap, GreaterOf(1, LesserOf(hint, ChunkCap)))

\* flush_reports() applies the preemptions; schedule() starts.
Start(hint) ==
    /\ stage = "idle"
    /\ waiting # {} \/ running # <<>>
    /\ computed' = [r \in Requests |-> IF r \in reported THEN 0 ELSE computed[r]]
    /\ reported' = {}
    /\ cap' = HintedCap(hint)
    /\ streak' = IF HintedCap(hint) < cap THEN 0 ELSE streak
    /\ todo' = IF settings.mixed THEN <<"MIXED">>
               ELSE IF settings.decodeFirst /\ (settings.maxBurst = 0 \/ burst < settings.maxBurst)
                    THEN <<"DECODE", "PREFILL">> ELSE <<"PREFILL", "DECODE">>
    /\ stage' = "building"
    /\ UNCHANGED <<waiting, owners, running, bypass, age, rebound, plan, burst>>

\* _candidate_plans yields its next plan, if it can make one.
Build(k, unprepared, unadmitted) ==
    /\ stage = "building"
    /\ IF todo = <<>> THEN /\ stage' = "idle"
                           /\ UNCHANGED <<plan, todo, bypass, computed, reported, rebound>>
       ELSE LET made == Candidate(Head(todo), k, unprepared, unadmitted)
            IN  /\ plan' = made.slices
                /\ todo' = Tail(todo)
                /\ stage' = IF made.slices = <<>> THEN "building" ELSE "preparing"
                /\ bypass' = [r \in Requests |->
                                IF r \in made.marked THEN Capped(bypass[r] + 1) ELSE bypass[r]]
                /\ computed' = [r \in Requests |-> IF r \in made.prepared THEN Seen(r) ELSE computed[r]]
                /\ reported' = reported \ made.prepared
                /\ rebound' = rebound \cup {r \in made.prepared \cap reported : computed[r] = Prompt[r]}
    /\ UNCHANGED <<waiting, owners, running, age, capVars, burst>>

-----------------------------------------------------------------------------
(* _prepare_and_adopt *)

\* _shrink_transient: drafts, then half the widest prefill, then a one-token
\* prefill, then the last decode.  <<>> when there is nothing to give up.
Shrunk(p) ==
    LET prefills == {i \in DOMAIN p : IsPrefill(p[i])}
        key(i) == <<-p[i].count, IF computed[p[i].req] = 0 THEN 0 ELSE 1, -i>>
        widest == CHOOSE i \in prefills : \A j \in prefills \ {i} : LexLess(key(i), key(j))
    IN  IF \E i \in DOMAIN p : p[i].drafts > 0
        THEN [i \in DOMAIN p |-> [p[i] EXCEPT !.drafts = 0]]
        ELSE IF prefills # {} /\ p[widest].count > 1
        THEN [p EXCEPT ![widest].count = @ \div 2]
        ELSE IF Len(p) = 1 THEN <<>>
        ELSE RemoveAt(p, IF prefills # {} THEN widest ELSE Len(p))

\* _reduce_chunk_cap
ReduceCap ==
    IF cap > 1 /\ \E i \in DOMAIN plan : IsPrefill(plan[i])
    THEN cap' = GreaterOf(1, cap \div 2) /\ streak' = 0
    ELSE UNCHANGED capVars

\* Mutant: a victim whose report is pending may be chosen again.
VictimsReported(p) ==
    (ToSet(running) \cup owners \cup {r \in waiting : computed[r] > 0}) \ Planned(p)

\* _try_preempt_one: who holds pages and is not part of the plan.
Victims(p) ==
    (ToSet(running) \cup owners \cup {r \in waiting : computed[r] > 0 /\ r \notin reported})
        \ Planned(p)

\* select_preemption_victim: lowest priority, then newest.
Victim(p) ==
    CHOOSE v \in Victims(p) :
        \A w \in Victims(p) \ {v} : LexLess(<<Priority[v], -v>>, <<Priority[w], -w>>)

\* Preempted: out of the ring, the report queued, and requeued if not waiting.
PreemptOne(v) ==
    /\ running' = SelectSeq(running, LAMBDA r : r # v)
    /\ owners' = owners \ {v}
    /\ reported' = reported \cup {v}
    /\ waiting' = waiting \cup {v}
    /\ bypass' = IF v \in waiting THEN bypass ELSE [bypass EXCEPT ![v] = 0]
    /\ age' = IF v \in waiting THEN age ELSE [age EXCEPT ![v] = 0]
    /\ UNCHANGED <<computed, rebound, plan, stage>>

\* A transient refusal: shrink, else preempt (the controller may decline), else
\* give this candidate up.
PrepareRefused(canPreempt) ==
    /\ stage = "preparing"
    /\ ReduceCap
    /\ IF Shrunk(plan) # <<>>
       THEN plan' = Shrunk(plan) /\ UNCHANGED <<queueVars, stage>>
       ELSE IF canPreempt /\ Victims(plan) # {} THEN PreemptOne(Victim(plan))
       ELSE plan' = <<>> /\ stage' = "building" /\ UNCHANGED queueVars
    /\ UNCHANGED <<todo, burst>>

\* A permanent refusal fails the request it names; the FAILED report replaces a
\* pending PREEMPTED one.
PrepareFailed(r) ==
    /\ stage = "preparing" /\ r \in Planned(plan)
    /\ plan' = SelectSeq(plan, LAMBDA s : s.req # r)
    /\ stage' = IF plan' = <<>> THEN "building" ELSE "preparing"
    /\ waiting' = waiting \ {r} /\ owners' = owners \ {r}
    /\ running' = SelectSeq(running, LAMBDA x : x # r)
    /\ computed' = [computed EXCEPT ![r] = 0]
    /\ bypass' = [bypass EXCEPT ![r] = 0]
    /\ age' = [age EXCEPT ![r] = 0]
    /\ reported' = reported \ {r} /\ rebound' = rebound \ {r}
    /\ UNCHANGED <<todo, capVars, burst>>

\* _recover_chunk_cap
RecoverCap ==
    IF cap >= ChunkCap THEN UNCHANGED capVars
    ELSE IF streak < 3 THEN streak' = streak + 1 /\ UNCHANGED cap
    ELSE cap' = LesserOf(ChunkCap, cap * 2) /\ streak' = 0

\* adopt() refuses a prefill of a request that is still DECODING: ValueError out
\* of Engine.step.
AdoptRaises ==
    /\ stage = "preparing" /\ Planned(plan) \cap rebound # {}
    /\ stage' = "raised"
    /\ UNCHANGED <<queueVars, plan, todo, capVars, burst>>

\* The runtime accepts the plan: one service round, the cursor moves behind the
\* decodes taken, prefills leave the queue.
PrepareAdopted ==
    /\ stage = "preparing" /\ Planned(plan) \cap rebound = {}
    /\ stage' = "inflight" /\ todo' = <<>>
    /\ RecoverCap
    /\ burst' = IF settings.maxBurst = 0 THEN 0
                ELSE IF \A i \in DOMAIN plan : IsDecode(plan[i]) THEN LesserOf(burst + 1, settings.maxBurst)
                ELSE 0
    /\ LET decodes == {plan[i].req : i \in {j \in DOMAIN plan : IsDecode(plan[j])}}
           prefills == Planned(plan) \ decodes
       IN  /\ running' = SelectSeq(running, LAMBDA r : r \notin decodes)
                         \o SelectSeq(running, LAMBDA r : r \in decodes)
           /\ waiting' = waiting \ prefills
           /\ owners' = owners \cup prefills
           /\ age' = [r \in Requests |->
                        IF r \in waiting \ prefills THEN Capped(age[r] + 1) ELSE 0]
           /\ bypass' = [r \in Requests |-> IF r \in prefills THEN 0 ELSE bypass[r]]
    /\ UNCHANGED <<computed, reported, rebound, plan>>

\* update_from_output() of a successful ticket; the requests of done finish.
Settle(done) ==
    /\ stage = "inflight"
    /\ done \subseteq {r \in Planned(plan) : r \in ToSet(running)}
    /\ LET ran(r) == \E i \in DOMAIN plan : plan[i].req = r /\ IsPrefill(plan[i])
           end(r) == LET i == CHOOSE j \in DOMAIN plan : plan[j].req = r IN SliceEnd(plan[i])
           ended == {r \in Planned(plan) : ran(r) /\ end(r) = Prompt[r]}
           between == {r \in Planned(plan) : ran(r) /\ end(r) < Prompt[r]}
       IN  /\ computed' = [r \in Requests |->
                 IF r \in done THEN 0 ELSE IF r \in ended \cup between THEN end(r) ELSE computed[r]]
           /\ running' = SelectSeq(running, LAMBDA r : r \notin done)
                         \o SetToSortSeq(ended, <)
           /\ owners' = (owners \ ended) \cup between
           /\ waiting' = waiting \cup between
    /\ plan' = <<>> /\ stage' = "idle"
    /\ UNCHANGED <<bypass, age, reported, rebound, todo, capVars, burst>>

\* update_from_output() of a ticket that failed: its requests are dropped.
SettleFailed ==
    /\ stage = "inflight"
    /\ running' = SelectSeq(running, LAMBDA r : r \notin Planned(plan))
    /\ owners' = owners \ Planned(plan)
    /\ computed' = [r \in Requests |-> IF r \in Planned(plan) THEN 0 ELSE computed[r]]
    /\ plan' = <<>> /\ stage' = "idle"
    /\ UNCHANGED <<waiting, bypass, age, reported, rebound, todo, capVars, burst>>

Refusable == IF settings.refusals THEN {{}} \cup {{r} : r \in waiting} ELSE {{}}

PlannerStep ==
    \/ \E r \in settings.clients : Arrive(r)
    \/ \E hint \in {1, ChunkCap} : Start(hint)
    \/ \E k \in {0, MaxDrafts}, u \in Refusable, v \in Refusable : Build(k, u, v)
    \/ \E canPreempt \in BOOLEAN : PrepareRefused(canPreempt)
    \/ \E r \in Requests : PrepareFailed(r)
    \/ PrepareAdopted \/ AdoptRaises
    \/ \E done \in SUBSET Planned(plan) : Settle(done)
    \/ SettleFailed

PlannerNext == PlannerStep /\ UNCHANGED settings

PlannerSafety == PlannerInit /\ [][PlannerNext]_plannerVars

-----------------------------------------------------------------------------
PlannerTypeOK ==
    /\ waiting \subseteq Requests /\ owners \subseteq Requests /\ reported \cup rebound \subseteq waiting
    /\ ToSet(running) \subseteq Requests /\ IsInjective(running)
    /\ \A r \in Requests : computed[r] \in 0 .. Prompt[r]
    /\ bypass \in [Requests -> 0 .. CountBound] /\ age \in [Requests -> 0 .. CountBound]
    /\ \A i \in DOMAIN plan :
         /\ plan[i].req \in Requests /\ plan[i].phase \in {"PREFILL", "DECODE"}
         /\ plan[i].count \in Nat \ {0} /\ plan[i].drafts \in 0 .. MaxDrafts
         /\ IsPrefill(plan[i]) => SliceEnd(plan[i]) <= Prompt[plan[i].req]
    /\ stage \in {"idle", "building", "preparing", "inflight", "raised"}
    /\ cap \in 1 .. ChunkCap /\ streak \in 0 .. 3

\* A candidate never exceeds the padded token slots or the sequences of a step,
\* as built, with the drafts that were cut to fit, and after any retry; each of
\* its slices is one the request has (PlannerTypeOK).
PlanFits ==
    /\ PlannerTypeOK
    /\ Slots(Rows(plan)) <= MaxTokens /\ Len(plan) <= MaxSeqs
    /\ Cardinality(Planned(plan)) = Len(plan)

\* The closed form of largest_fittable() is the largest width can_add() accepts,
\* at every fill level of a batch.
FitIsLargest ==
    LET b == BudgetOf(plan)
    IN  \A n \in 1 .. MaxTokens + 1, new \in {0, 1} :
          LET fits == {k \in 1 .. n : CanAdd(b, k, new)}
              fit == LargestFittable(b, n, new)
          IN  IF fits = {} THEN fit = 0 ELSE fit \in fits /\ \A k \in fits : k <= fit

\* Every retry of _prepare_and_adopt gives up rows of the plan or leaves fewer
\* requests to preempt, so schedule() returns whatever the runtime refuses.
Effort == <<Rows(plan), Cardinality(Victims(plan))>>
RetriesConverge ==
    [][stage = "preparing" /\ stage' = "preparing" => LexLess(Effort', Effort)]_plannerVars

=============================================================================

----------------------------- MODULE Lifecycle -----------------------------
(***************************************************************************)
(* One request's host-side state: RequestStateMachine (request/machine.py),*)
(* its transition table (request/states.py), and the P0 slice methods of   *)
(* RequestLifecycle (request/lifecycle.py).  No variables: an operator     *)
(* takes a lifecycle record and returns the one the method leaves behind,  *)
(* and the method's ValueError is the negation of a named predicate.       *)
(*                                                                         *)
(* Token values, timestamps and retry counters are left out.  Epochs are   *)
(* never reused by a process (next_request_epoch); here they are unique    *)
(* within a lifecycle, and whoever compares epochs of two lifecycles       *)
(* compares the lifecycles as well.                                        *)
(***************************************************************************)
EXTENDS Integers

CONSTANTS Prompt,   \* request.prompt_len
          MaxOut,   \* request.stop.max_tokens
          NoStep    \* the step of the slice a lifecycle does not have

ASSUME LifecycleAssumption == Prompt \in Nat \ {0} /\ MaxOut \in Nat \ {0}

Terminal == {"FINISHED", "CANCELLED", "FAILED"}

\* The graph of states.py without the edges to CANCELLED and FAILED, which
\* every non-terminal state has.
Successors ==
    [CREATED |-> {"VALIDATING"},
     VALIDATING |-> {"TOKENIZING"},
     TOKENIZING |-> {"CACHE_LOOKUP"},
     CACHE_LOOKUP |-> {"WAITING", "WAITING_REMOTE_KV"},
     WAITING |-> {"ADMITTED", "WAITING_KV"},
     WAITING_KV |-> {"WAITING", "ADMITTED"},
     WAITING_REMOTE_KV |-> {"WAITING", "CACHE_LOOKUP"},
     ADMITTED |-> {"PREFILL", "DECODING", "PREEMPTED", "SWAPPED", "MIGRATING"},
     PREFILL |-> {"DECODING", "PREEMPTED", "SWAPPED", "PAUSED", "MIGRATING",
                  "RETRYING", "FINISHED"},
     DECODING |-> {"STREAMING", "FINISHED", "PREEMPTED", "SWAPPED", "PAUSED",
                   "MIGRATING", "RETRYING"},
     STREAMING |-> {"DECODING", "FINISHED", "PAUSED", "PREEMPTED", "SWAPPED"},
     PREEMPTED |-> {"WAITING"},
     SWAPPED |-> {"WAITING", "ADMITTED", "PREEMPTED"},
     PAUSED |-> {"PREFILL", "DECODING", "STREAMING", "PREEMPTED", "SWAPPED"},
     MIGRATING |-> {"ADMITTED", "PREFILL", "DECODING", "RETRYING"},
     RETRYING |-> {"WAITING", "CACHE_LOOKUP"},
     FINISHED |-> {}, CANCELLED |-> {}, FAILED |-> {}]

IsLegal(src, dst) ==
    \/ dst \in Successors[src]
    \/ src \notin Terminal /\ dst \in {"CANCELLED", "FAILED"}

NoSlice == [step |-> NoStep, epoch |-> 0, version |-> 0, start |-> 0,
            count |-> 0, phase |-> "PREFILL", sample |-> FALSE, drafts |-> 0]

\* A lifecycle as LifecycleManager.create leaves it.
NewLife == [state |-> "CREATED", token |-> FALSE, epoch |-> 1, bound |-> 0,
            version |-> 0, computed |-> 0, out |-> 0, slice |-> NoSlice,
            base |-> 0, committed |-> FALSE]

IsTerminal(l) == l.state \in Terminal
Known(l) == Prompt + l.out
SliceEnd(s) == s.start + s.count

-----------------------------------------------------------------------------
(* RequestStateMachine *)

\* transition(): a recompute preemption drops the progress with the KV, and the
\* edges after which old completions must not apply take a new epoch.
Transition(l, dst) ==
    [l EXCEPT !.state = dst,
              !.computed = IF dst = "PREEMPTED" THEN 0 ELSE @,
              !.epoch = IF dst \in {"PREEMPTED", "SWAPPED", "RETRYING",
                                    "CANCELLED", "FAILED"} THEN @ + 1 ELSE @]

\* on_cancelled and on_failed are idempotent: the loser of a race is a no-op.
OnCancelled(l) == IF IsTerminal(l) THEN l ELSE Transition(l, "CANCELLED")
OnFailed(l) == IF IsTerminal(l) THEN l ELSE Transition(l, "FAILED")

\* LifecycleManager.advance_to_queue, then the first bind_sequence
\* (SchedulerCore._add_single): the first binding keeps the epoch.
Queued(l) == [l EXCEPT !.state = "WAITING", !.bound = l.epoch]

-----------------------------------------------------------------------------
(* RequestLifecycle *)

\* bind_sequence() of an already bound request takes a new epoch.
Rebind(l, version, tokens) ==
    [l EXCEPT !.epoch = @ + 1, !.bound = l.epoch + 1, !.version = version,
              !.computed = tokens]

HasSnapshot(l) == l.bound = l.epoch

\* RequestStepInput.validate_slice against the lifecycle's present snapshot.
SliceFits(l, s) ==
    /\ s.epoch = l.epoch
    /\ s.version = l.version
    /\ s.start = l.computed
    /\ SliceEnd(s) <= Known(l)
    /\ IF s.phase = "PREFILL"
       THEN s.start < Prompt /\ SliceEnd(s) <= Prompt
       ELSE s.start >= Prompt
    /\ s.sample => SliceEnd(s) = Known(l) /\ l.out < MaxOut

PhaseAllowed(l, s) ==
    l.state \in IF s.phase = "PREFILL" THEN {"ADMITTED", "PREFILL"}
                ELSE {"ADMITTED", "DECODING", "STREAMING"}

CanBegin(l, s) ==
    /\ l.slice = NoSlice
    /\ ~IsTerminal(l) /\ ~l.token
    /\ HasSnapshot(l)
    /\ SliceFits(l, s)
    /\ PhaseAllowed(l, s)

BeginSlice(l, s) ==
    LET entered == IF s.phase = "PREFILL" THEN "PREFILL" ELSE "DECODING"
        moved == IF l.state = "ADMITTED" THEN Transition(l, entered) ELSE l
    IN  [moved EXCEPT !.slice = s, !.base = l.out, !.committed = FALSE]

OwnsSlice(l, s) == l.slice = s

Accepts(l, s) ==
    OwnsSlice(l, s) /\ l.epoch = s.epoch /\ ~IsTerminal(l) /\ ~l.token

\* validate_forward_commit(); the input snapshot taken by begin_slice differs
\* from the present one only if a token was published meanwhile.
CanCommit(l, s, version) ==
    /\ Accepts(l, s)
    /\ ~l.committed
    /\ version = s.version + 1
    /\ PhaseAllowed(l, s)
    /\ HasSnapshot(l)
    /\ SliceFits(l, s)
    /\ l.base = l.out

ClearSlice(l) == [l EXCEPT !.slice = NoSlice, !.base = 0, !.committed = FALSE]

CommitRange(l, s, version) ==
    LET done == s.phase = "PREFILL" /\ SliceEnd(s) = Prompt
        ran == [l EXCEPT !.computed = SliceEnd(s), !.version = version,
                         !.state = IF done THEN "DECODING" ELSE @,
                         !.committed = TRUE]
    IN  IF s.sample THEN ran ELSE ClearSlice(ran)

CanPublish(l, s) ==
    /\ Accepts(l, s)
    /\ l.committed /\ s.sample
    /\ l.out < MaxOut
    /\ l.state \in {"DECODING", "STREAMING"}
    /\ l.computed = Known(l)

PublishSample(l) == ClearSlice([l EXCEPT !.out = @ + 1])

\* commit_speculative_range() with the accepted drafts and the target token:
\* each row is committed and each token published at the known boundary.
CanCommitSpeculative(l, s, version, tokens) ==
    /\ CanCommit(l, s, version)
    /\ s.phase = "DECODE" /\ s.sample
    /\ tokens >= 1 /\ l.out + tokens <= MaxOut

CommitSpeculative(l, s, version, tokens) ==
    ClearSlice([l EXCEPT !.computed = s.start + tokens, !.out = @ + tokens,
                         !.version = version])

\* discard_slice(): the slice goes and so does the epoch it was claimed under.
DiscardSlice(l) == [ClearSlice(l) EXCEPT !.epoch = @ + 1]

\* Mutant: a cancelled request keeps the slice it waits for.
DiscardUnlessCancelled(l, s, cancel, fail) ==
    IF l.epoch = s.epoch /\ ~IsTerminal(l) /\ (l.token \/ cancel)
    THEN OnCancelled([l EXCEPT !.token = TRUE])
    ELSE IF OwnsSlice(l, s) THEN DiscardSlice(l) ELSE l

\* CompletionCoordinator._discard.
Discard(l, s, cancel, fail) ==
    LET current == l.epoch = s.epoch /\ ~IsTerminal(l)
        dropped == IF OwnsSlice(l, s) THEN DiscardSlice(l) ELSE l
    IN  IF current /\ (l.token \/ cancel)
        THEN OnCancelled([dropped EXCEPT !.token = TRUE])
        ELSE IF current /\ fail THEN OnFailed(dropped) ELSE dropped

-----------------------------------------------------------------------------
(* LifecycleManager.apply_one for the outcomes schedulers report *)

OutcomeState ==
    [ADMITTED |-> "ADMITTED", PREEMPTED |-> "PREEMPTED",
     FINISHED |-> "FINISHED", ABORTED |-> "CANCELLED", FAILED |-> "FAILED"]

\* Whether apply_one raises on a report whose epoch is current.
Reportable(l, outcome) ==
    \/ outcome \in {"ABORTED", "FAILED"}
    \/ /\ IsLegal(l.state, OutcomeState[outcome])
       /\ outcome = "FINISHED" => l.slice = NoSlice

Reported(l, outcome) ==
    CASE outcome = "ABORTED" -> OnCancelled([l EXCEPT !.token = TRUE])
      [] outcome = "FAILED" -> OnFailed(l)
      [] OTHER -> Transition(l, OutcomeState[outcome])
=============================================================================

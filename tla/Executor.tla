------------------------------ MODULE Executor ------------------------------
(***************************************************************************)
(* The nonblocking executor (executor/base.py, executor/ticket.py) and the *)
(* KV resource bundle each of its tickets owns (KVExecutionResources in    *)
(* runtime/kv.py).                                                         *)
(*                                                                         *)
(* One engine thread calls Adopt, Launch, Cancel, Poll, Shutdown and the   *)
(* settlement steps; the device runs beside it.  A ticket's device work is *)
(* a set of units (kernels, copies).  A fence covers one unit; a drain     *)
(* proof covers all of them, whether or not a fence was recorded.  Fences  *)
(* may raise or report a failure at any time but never claim that running  *)
(* work is quiescent (FenceResult, ticket.py:56-72).                       *)
(*                                                                         *)
(* Step ids and error texts are left out: a ticket is its own identity and *)
(* adoption takes each ticket at most once.                                *)
(***************************************************************************)
EXTENDS Integers, FiniteSets

CONSTANTS Tickets,      \* ticket identities the executor may ever hand out
          Units,        \* units of device work one step may enqueue
          MaxInflight,  \* Executor(max_inflight=...)
          Drain         \* the whole-ticket drain proof, as a fence

ASSUME ExecutorAssumption ==
    /\ MaxInflight \in Nat \ {0}
    /\ Drain \notin Units

VARIABLES ticket,  \* ExecutionTicket fields, per ticket
          lease,   \* where the ticket's resource bundle stands
          work,    \* device: units of the ticket still running
          phase    \* executor control state

execVars == <<ticket, lease, work, phase>>

States == {"ABSENT", "ADOPTED", "SUBMITTED", "DRAINING", "QUARANTINED",
           "COMPLETED", "RETIRED"}
Statuses == {"NONE", "SUCCEEDED", "FAILED", "CANCELLED"}
Leases == {"caller", "owned", "submitted", "committed", "retired"}
Phases == {"created", "initialized", "stopping", "closed"}

TicketRecord ==
    [state : States, fences : SUBSET Units, drainFence : BOOLEAN,
     needsDrain : BOOLEAN, hostFailure : BOOLEAN, cancelled : BOOLEAN,
     samples : BOOLEAN, execFailed : BOOLEAN, terminal : Statuses,
     settling : BOOLEAN]

NoTicket ==
    [state |-> "ABSENT", fences |-> {}, drainFence |-> FALSE,
     needsDrain |-> FALSE, hostFailure |-> FALSE, cancelled |-> FALSE,
     samples |-> FALSE, execFailed |-> FALSE, terminal |-> "NONE",
     settling |-> FALSE]

\* Types, and that a completed ticket carries the outcome poll_terminal returns
\* (ExecutionTicket.terminal is None until Executor._finish).
ExecutorTypeOK ==
    /\ ticket \in [Tickets -> TicketRecord]
    /\ lease \in [Tickets -> Leases]
    /\ work \in [Tickets -> SUBSET Units]
    /\ phase \in Phases
    /\ \A t \in Tickets :
         ticket[t].state = "COMPLETED" => ticket[t].terminal # "NONE"

ExecutorInit ==
    /\ ticket = [t \in Tickets |-> NoTicket]
    /\ lease = [t \in Tickets |-> "caller"]
    /\ work = [t \in Tickets |-> {}]
    /\ phase = "created"

-----------------------------------------------------------------------------
\* The registry self._tickets: adopted and not yet acknowledged as retired.
Registered == {t \in Tickets : ticket[t].state \notin {"ABSENT", "RETIRED"}}

AnyQuarantined == \E t \in Tickets : ticket[t].state = "QUARANTINED"

HasSubmissionCapacity ==
    /\ phase = "initialized"
    /\ Cardinality(Registered) < MaxInflight
    /\ ~AnyQuarantined

\* Executor.quarantine: ownership is kept; only a failure that leaves the
\* host's accounting intact may later be proved drained.
Quarantined(tk, host) ==
    [tk EXCEPT !.state = "QUARANTINED",
               !.hostFailure = @ \/ host,
               !.needsDrain = ~(tk.hostFailure \/ host)]

\* Executor._finish.
Finished(tk, status) == [tk EXCEPT !.state = "COMPLETED", !.terminal = status]

\* Mutant: a cancellation that arrived while the work ran is forgotten.
VerdictIgnoringCancel(tk) ==
    IF tk.needsDrain \/ tk.execFailed \/ ~tk.samples THEN "FAILED"
    ELSE "SUCCEEDED"

\* The tail of Executor._poll, once every queried fence is quiescent.
Verdict(tk) ==
    IF tk.needsDrain \/ tk.execFailed THEN "FAILED"
    ELSE IF tk.cancelled THEN "CANCELLED"
    ELSE IF tk.samples THEN "SUCCEEDED" ELSE "FAILED"

\* Mutant: submitted work is given up at once instead of being drained.
CancelledWithoutDraining(tk) ==
    IF tk.settling \/ tk.state \in {"RETIRED", "COMPLETED"} THEN tk
    ELSE Finished([tk EXCEPT !.cancelled = TRUE], "CANCELLED")

\* Executor.cancel.  A settling or retired ticket is left alone; a completed
\* success is demoted; submitted work goes on until it is quiescent.
CancelledTicket(tk) ==
    LET marked == [tk EXCEPT !.cancelled = TRUE]
    IN IF \/ tk.settling \/ tk.state = "RETIRED"
          \/ tk.state = "COMPLETED" /\ tk.terminal # "SUCCEEDED" THEN tk
       ELSE IF tk.state \in {"ADOPTED", "COMPLETED"}
            THEN Finished(marked, "CANCELLED")
       ELSE IF tk.state = "QUARANTINED" THEN marked
       ELSE [marked EXCEPT !.state = "DRAINING"]

\* Executor.drain starts a recovery proof only when one is needed and possible.
WantsDrain(tk) == ~tk.hostFailure /\ tk.needsDrain /\ ~tk.drainFence

-----------------------------------------------------------------------------
Initialize ==
    /\ phase \in {"created", "initialized"}
    /\ phase' = "initialized"
    /\ UNCHANGED <<ticket, lease, work>>

\* Executor.adopt: the registry entry precedes resources.adopt, whose refusal
\* removes it again and leaves the bundle with the caller.
Adopt(t) ==
    /\ HasSubmissionCapacity
    /\ ticket[t].state = "ABSENT"
    /\ lease[t] = "caller"
    /\ ticket' = [ticket EXCEPT ![t].state = "ADOPTED"]
    /\ lease' = [lease EXCEPT ![t] = "owned"]
    /\ UNCHANGED <<work, phase>>

\* KVExecutionResources.abort: a preparation no executor took is rolled back.
AbortPrepared(t) ==
    /\ ticket[t].state = "ABSENT"
    /\ lease[t] = "caller"
    /\ lease' = [lease EXCEPT ![t] = "retired"]
    /\ UNCHANGED <<ticket, work, phase>>

\* Executor.launch on a stopping executor, and CompletionCoordinator.launch
\* when no captured request accepts the step, only cancel.
Cancel(t) ==
    /\ t \in Registered
    /\ ticket' = [ticket EXCEPT ![t] = CancelledTicket(@)]
    /\ UNCHANGED <<lease, work, phase>>

\* resources.mark_submitted raised: nothing was enqueued, the host's
\* accounting is ambiguous.
LaunchRefused(t) ==
    /\ ticket[t].state = "ADOPTED"
    /\ phase = "initialized"
    /\ ticket' = [ticket EXCEPT ![t] = Quarantined(@, TRUE)]
    /\ UNCHANGED <<lease, work, phase>>

\* _enqueue returned: every unit it started has a fence.
LaunchEnqueued(t) ==
    /\ ticket[t].state = "ADOPTED"
    /\ phase = "initialized"
    /\ \E started \in (SUBSET Units) \ {{}}, sampled \in BOOLEAN :
         /\ work' = [work EXCEPT ![t] = started]
         /\ ticket' = [ticket EXCEPT ![t].state = "SUBMITTED",
                                     ![t].fences = started,
                                     ![t].samples = sampled]
    /\ lease' = [lease EXCEPT ![t] = "submitted"]
    /\ UNCHANGED phase

\* _enqueue raised, or returned without a fence: any part of the step may be
\* running and any part of that may lack a fence.
LaunchFailed(t) ==
    /\ ticket[t].state = "ADOPTED"
    /\ phase = "initialized"
    /\ \E started \in SUBSET Units, sampled \in BOOLEAN :
         \E fenced \in SUBSET started :
           /\ work' = [work EXCEPT ![t] = started]
           /\ ticket' = [ticket EXCEPT ![t].state = "DRAINING",
                                       ![t].needsDrain = TRUE,
                                       ![t].fences = fenced,
                                       ![t].samples = sampled]
    /\ lease' = [lease EXCEPT ![t] = "submitted"]
    /\ UNCHANGED phase

Launch(t) == LaunchRefused(t) \/ LaunchEnqueued(t) \/ LaunchFailed(t)

-----------------------------------------------------------------------------
\* Polling.  Running(t, f): the work fence f stands for is not finished.
Running(t, f) == IF f = Drain THEN work[t] # {} ELSE f \in work[t]

Results == {"pending", "succeeded", "failed", "failed_live", "raised"}

\* What a fence may answer.  FenceResult refuses pending with quiescence and
\* success without it; an error, or a failure without quiescence, proves
\* nothing and may come at any time.
MayAnswer(t, f, r) ==
    /\ r = "pending" => Running(t, f)
    /\ r \in {"succeeded", "failed"} => ~Running(t, f)

\* One pass over the fences fs in _poll, starting from ticket record tk:
\* "asked" are the fences queried, all of them unless one ends the pass.
Stopping(asked, r) == {f \in asked : r[f] \in {"failed_live", "raised"}}

Seen(tk, asked, r) ==
    [tk EXCEPT !.execFailed = tk.execFailed
                 \/ (\E f \in asked : r[f] \in {"failed", "failed_live"})]

AfterQuery(tk, asked, r) ==
    IF Stopping(asked, r) # {} THEN Quarantined(Seen(tk, asked, r), FALSE)
    ELSE IF \E f \in asked : r[f] = "pending" THEN Seen(tk, asked, r)
    ELSE Finished(Seen(tk, asked, r), Verdict(Seen(tk, asked, r)))

QueryFences(t, tk, fs) ==
    \E asked \in SUBSET fs : \E r \in [asked -> Results] :
      /\ \A f \in asked : MayAnswer(t, f, r[f])
      /\ asked = fs \/ Stopping(asked, r) # {}
      /\ \A f, g \in Stopping(asked, r) : f = g
      /\ ticket' = [ticket EXCEPT ![t] = AfterQuery(tk, asked, r)]

\* Mutant: draining tickets are skipped.
PollableUnlessDraining(t) ==
    ticket[t].state \in {"SUBMITTED", "QUARANTINED"} /\ ~ticket[t].hostFailure

\* The early return of _poll.
Pollable(t) ==
    /\ ticket[t].state \in {"SUBMITTED", "DRAINING", "QUARANTINED"}
    /\ ~ticket[t].hostFailure

\* Mutant: recorded fences decide even when the launch broke off.
PollRecordedFences(t) ==
    /\ Pollable(t)
    /\ ticket[t].fences # {}
    /\ QueryFences(t, ticket[t], ticket[t].fences)
    /\ UNCHANGED <<lease, work, phase>>

\* The ordinary case: the fences recorded by _enqueue decide.
PollFences(t) ==
    /\ Pollable(t)
    /\ ~ticket[t].needsDrain
    /\ ticket[t].fences # {}
    /\ QueryFences(t, ticket[t], ticket[t].fences)
    /\ UNCHANGED <<lease, work, phase>>

\* Completion became uncertain: recorded fences are ignored and only a proof
\* over the whole ticket counts.  Establishing the proof may itself fail.
PollDrain(t) ==
    /\ Pollable(t)
    /\ ticket[t].needsDrain
    /\ \/ QueryFences(t, [ticket[t] EXCEPT !.drainFence = TRUE], {Drain})
       \/ /\ ~ticket[t].drainFence
          /\ ticket' = [ticket EXCEPT ![t] = Quarantined(@, FALSE)]
    /\ UNCHANGED <<lease, work, phase>>

Poll(t) == PollFences(t) \/ PollDrain(t)

\* The device finishes one unit.
DeviceFinish(t) ==
    /\ \E u \in work[t] : work' = [work EXCEPT ![t] = @ \ {u}]
    /\ UNCHANGED <<ticket, lease, phase>>

-----------------------------------------------------------------------------
\* Settlement of a completed ticket by the CompletionCoordinator.
BeginSettle(t) ==
    /\ ticket[t].state = "COMPLETED"
    /\ ~ticket[t].settling
    /\ ticket' = [ticket EXCEPT ![t].settling = TRUE]
    /\ UNCHANGED <<lease, work, phase>>

\* KVExecutionResources._require_completion.
CompletionConfirmed(t, succeeded) ==
    /\ ticket[t].state = "COMPLETED"
    /\ ticket[t].settling
    /\ (ticket[t].terminal = "SUCCEEDED") = succeeded

\* KVExecutionResources.commit.
Commit(t) ==
    /\ CompletionConfirmed(t, TRUE)
    /\ lease[t] = "submitted"
    /\ lease' = [lease EXCEPT ![t] = "committed"]
    /\ UNCHANGED <<ticket, work, phase>>

\* KVExecutionResources.retire, then Executor.acknowledge_retired, which drops
\* the ticket from the registry.
Retire(t) ==
    /\ CompletionConfirmed(t, lease[t] = "committed")
    /\ lease[t] # "retired"
    /\ lease' = [lease EXCEPT ![t] = "retired"]
    /\ ticket' = [ticket EXCEPT ![t] = [NoTicket EXCEPT !.state = "RETIRED"]]
    /\ UNCHANGED <<work, phase>>

\* Any exception during settlement (a commit or retire callback, a version
\* mismatch): the bundle is retained and never retried.
SettleFault(t) ==
    /\ ticket[t].state = "COMPLETED"
    /\ ticket[t].settling
    /\ ticket' = [ticket EXCEPT ![t] = Quarantined(@, TRUE)]
    /\ UNCHANGED <<lease, work, phase>>

-----------------------------------------------------------------------------

\* Mutant: adopted tickets are left as they are.
ShutdownKeepingAdopted ==
    /\ phase # "closed"
    /\ \/ Registered = {} /\ phase' = "closed"
       \/ phase' = "stopping"
    /\ UNCHANGED <<ticket, lease, work>>

\* One ticket in the loop of Executor.shutdown: cancel what was never launched,
\* start the drain proof that is needed ("stuck": it cannot be established).
ShutdownTicket(tk, stuck) ==
    IF tk.state = "ADOPTED" THEN CancelledTicket(tk)
    ELSE IF tk.state \in {"ABSENT", "RETIRED"} \/ ~WantsDrain(tk) THEN tk
    ELSE IF stuck THEN Quarantined(tk, FALSE)
    ELSE [tk EXCEPT !.drainFence = TRUE]

\* Executor.shutdown: only an empty registry is closed, and the backend's
\* _close may raise.
Shutdown ==
    /\ phase # "closed"
    /\ \E stuck \in SUBSET {t \in Registered : WantsDrain(ticket[t])} :
         ticket' = [t \in Tickets |-> ShutdownTicket(ticket[t], t \in stuck)]
    /\ \/ Registered = {} /\ phase' = "closed"
       \/ phase' = "stopping"
    /\ UNCHANGED <<lease, work>>

\* The calls the engine thread makes, and the device's own steps.
ExecutorNext ==
    \/ Initialize
    \/ Shutdown
    \/ \E t \in Tickets :
         \/ Adopt(t) \/ AbortPrepared(t) \/ Cancel(t) \/ Launch(t) \/ Poll(t)
         \/ BeginSettle(t) \/ Commit(t) \/ Retire(t) \/ SettleFault(t)
         \/ DeviceFinish(t)

\* An engine iteration launches what it adopted, polls every ticket and settles
\* what it polled; the owner repeats shutdown until it succeeds; enqueued device
\* work ends.
ExecutorFairness ==
    /\ WF_execVars(Shutdown /\ phase = "stopping" /\ phase' = "closed")
    /\ \A t \in Tickets :
         /\ WF_execVars(Launch(t))
         /\ WF_execVars(Poll(t))
         /\ WF_execVars(DeviceFinish(t))
         /\ WF_execVars(BeginSettle(t))
         /\ WF_execVars(Commit(t))
         /\ WF_execVars(Retire(t))

ExecutorSafety == ExecutorInit /\ [][ExecutorNext]_execVars
ExecutorSpec == ExecutorSafety /\ ExecutorFairness

-----------------------------------------------------------------------------
\* KV pages are published and given back only when nothing the step enqueued
\* still runs: whatever fences fail, however a launch breaks off and whenever
\* cancellation arrives (Executor.launch, cancel and _poll against commit and
\* retire of KVExecutionResources).
SettledWorkIsQuiescent ==
    \A t \in Tickets : lease[t] \in {"committed", "retired"} => work[t] = {}

\* KV of a step is published only for an outcome nobody had reason to doubt:
\* every fence of a complete launch succeeded, tokens were sampled, nobody
\* cancelled, and no drain proof was needed (_poll 338-346, cancel 245-250).
CommittedWorkSucceeded ==
    \A t \in Tickets : lease[t] = "committed" =>
      /\ ticket[t].terminal = "SUCCEEDED"
      /\ ticket[t].samples /\ ticket[t].fences # {}
      /\ ~ticket[t].execFailed /\ ~ticket[t].cancelled /\ ~ticket[t].drainFence
      /\ ticket[t].hostFailure \/ ~ticket[t].needsDrain

\* A closed executor left nothing behind: no work runs and every bundle is back
\* with its caller or retired (Executor.shutdown closes an empty registry).
ClosedLeavesNothing ==
    phase = "closed" =>
      \A t \in Tickets : work[t] = {} /\ lease[t] \in {"caller", "retired"}

\* Ambiguous host accounting is final: no poll, cancel, drain or shutdown moves
\* such a ticket, and its bundle is neither published nor given back
\* ("callbacks are not blindly retried", ExecutionResources).
HostFailureIsFinal ==
    [][\A t \in Tickets : ticket[t].hostFailure =>
         /\ ticket'[t].state = "QUARANTINED"
         /\ ticket'[t].hostFailure
         /\ lease'[t] = lease[t]]_execVars

\* Every submission is decided: the bundle is given back, or the ticket is
\* visibly quarantined; none stays submitted, draining or half settled
\* (poll_terminal, CompletionCoordinator.handle).
SubmissionIsDecided ==
    \A t \in Tickets :
      ticket[t].state = "SUBMITTED" ~>
        ticket[t].state \in {"RETIRED", "QUARANTINED"}

\* A shutdown ends: the executor closes unless some ticket is quarantined
\* (Executor.shutdown repeated by CompletionCoordinator.shutdown).
ShutdownEnds == phase = "stopping" ~> (phase = "closed" \/ AnyQuarantined)

\* Whatever was begun ends: submissions are decided and a shutdown closes, unless
\* a ticket is visibly quarantined (poll_terminal, handle, Executor.shutdown).
WorkIsDecided == SubmissionIsDecided /\ ShutdownEnds

-----------------------------------------------------------------------------
\* How a bundle of the executor looks to the StepLease contract.
LeaseUse(t) ==
    IF work[t] # {} THEN "running"
    ELSE CASE lease[t] = "caller" -> "free"
           [] lease[t] = "owned" -> "held"
           [] lease[t] = "submitted" -> "quiet"
           [] lease[t] = "committed" -> "written"
           [] lease[t] = "retired" -> "gone"

Contract == INSTANCE StepLease WITH Steps <- Tickets,
                                    use <- [t \in Tickets |-> LeaseUse(t)]

\* The executor implements the StepLease contract: a bundle is written or given
\* back only while the device does not use it, and at most once, whatever
\* cancellation, fence errors, failed launches and shutdown do.
ImplementsStepLease == Contract!LeaseSpec

\* How a ticket of the executor looks to its settlement: a quarantine that a
\* drain proof may still end is work in flight.
TicketView(tk) ==
    LET view(state, status, cancel) ==
            [state |-> state, status |-> status, cancel |-> cancel]
    IN  IF tk.state = "ABSENT" THEN view("absent", "NONE", FALSE)
        ELSE IF tk.state = "RETIRED" THEN view("gone", "NONE", FALSE)
        ELSE IF tk.hostFailure THEN view("lost", "NONE", FALSE)
        ELSE IF tk.state = "ADOPTED" THEN view("adopted", "NONE", FALSE)
        ELSE IF tk.state = "COMPLETED"
             THEN view(IF tk.settling THEN "settling" ELSE "done", tk.terminal, FALSE)
        ELSE view("live", "NONE", tk.cancelled)

Protocol == INSTANCE TicketProtocol WITH tk <- [t \in Tickets |-> TicketView(ticket[t])]

\* The executor implements the ticket protocol its settlement relies on: a
\* cancelled ticket never comes back successful, an outcome is delivered once
\* and is the one that is settled, and a lost ticket stays lost.
ImplementsTicketProtocol == Protocol!ProtocolSpec
=============================================================================

----------------------------- MODULE StepGroup -----------------------------
(***************************************************************************)
(* The distributed step protocol of one group of ranks: every rank drives  *)
(* a DistributedStepWorker (worker/distributed.py) whose coordinator       *)
(* (distributed/execution.py) runs broadcast, all-grant, launch, success   *)
(* proof, commit acknowledgement, publication and barrier around the       *)
(* rank-local worker, and a coordinated shutdown.                          *)
(*                                                                         *)
(* A rank is sequential: one action is what it does from the return of one *)
(* collective to the submission of the next one, or to its return to the   *)
(* engine.  Ranks interleave freely.                                       *)
(***************************************************************************)
EXTENDS Integers, Sequences

CONSTANTS
  Ranks,        \* the ranks of the process group
  Source,       \* the rank that broadcasts the envelope
  Publisher,    \* the rank that publishes the output
  MaxStep,      \* bound: step ids are 1..MaxStep
  MaxPlane,     \* bound: at most MaxPlane recoveries per rank
  MaxVotes,     \* bound: shutdown votes of one rank on one plane
  Identity,     \* worker_generation of a step's envelope; NoIdentity for none
  Faults,       \* the calls of the rank-local host that may raise
  Live          \* the ranks that keep running (the others may stall for good)

Steps == 1..MaxStep
Planes == 0..MaxPlane
NoIdentity == -1

ASSUME GroupAssumption ==
  /\ Source \in Ranks /\ Publisher \in Ranks
  /\ MaxStep \in Nat /\ MaxPlane \in Nat /\ MaxVotes \in Nat
  /\ Identity \in [Steps -> Nat \union {NoIdentity}]
  /\ Live \subseteq Ranks

VARIABLES
  kv,       \* RankLocalKVWorker._state of each rank
  last,     \* RankLocalKVWorker._last_step
  gen,      \* RankLocalKVWorker._generation
  local,    \* the WorkerLifecycle state of the rank-local worker
  flights,  \* its registered flights: steps not yet proved quiescent
  plane,    \* the control plane the rank's coordinator holds
  wire,     \* wire[p][r]: the collectives rank r has submitted on plane p
  staged,   \* the step the rank's engine passed to execute() last
  env,      \* the step the rank works on: staged, then what the envelope says
  published,\* the steps whose output the publisher has published, with the plane
  pc        \* the collective (or device work) the rank waits for

vars == <<kv, last, gen, local, flights, plane, wire, staged, env, published, pc>>
host == <<kv, last, gen, local, flights>>

(***************************************************************************)
(* A submitted collective.  The control plane matches the n-th submission  *)
(* of every rank and sees op, yes and (for a broadcast) the source's       *)
(* payload; why, step and gen only record which call of the code this was, *)
(* and which incarnation of the rank made it.                              *)
(***************************************************************************)
Entry(r, op, why, step, yes, id) ==
  [op |-> op, why |-> why, step |-> step, yes |-> yes, id |-> id, gen |-> gen[r]]

Entries ==
  [op : {"broadcast", "grant", "barrier"},
   why : {"step", "prepare", "proof", "commit", "end", "vote", "close"},
   step : Steps \union {0}, yes : BOOLEAN, id : Nat \union {NoIdentity},
   gen : Planes]

Init ==
  /\ kv = [r \in Ranks |-> "READY"]
  /\ last = [r \in Ranks |-> 0]
  /\ gen = [r \in Ranks |-> 0]
  /\ local = [r \in Ranks |-> "READY"]
  /\ flights = [r \in Ranks |-> {}]
  /\ plane = [r \in Ranks |-> 0]
  /\ wire = [p \in Planes |-> [r \in Ranks |-> <<>>]]
  /\ staged = [r \in Ranks |-> 0]
  /\ env = [r \in Ranks |-> 0]
  /\ published = {}
  /\ pc = [r \in Ranks |-> "idle"]

(***************************************************************************)
(* The control plane (torch.distributed, external).  A wait returns once   *)
(* every rank has submitted the same operation at this position; ranks in  *)
(* different operations wait until a deadline.  A wait can time out on one *)
(* rank although it completes on another.                                  *)
(***************************************************************************)
Sent(r) == wire[plane[r]][r]
At(q, r) == wire[plane[r]][q][Len(Sent(r))]
Complete(r) ==
  \A q \in Ranks : /\ Len(wire[plane[r]][q]) >= Len(Sent(r))
                   /\ At(q, r).op = At(r, r).op
AllYes(r) == \A q \in Ranks : At(q, r).yes

Call(r, entry, point) ==
  /\ wire' = [wire EXCEPT ![plane[r]][r] = Append(@, entry)]
  /\ env' = [env EXCEPT ![r] = entry.step]
  /\ pc' = [pc EXCEPT ![r] = point]

Return(r) ==
  /\ pc' = [pc EXCEPT ![r] = "idle"]
  /\ env' = [env EXCEPT ![r] = 0]
  /\ UNCHANGED wire

\* WorkerLifecycle.fail: a closed worker stays closed.
Failed(state) == IF state = "CLOSED" THEN state ELSE "FAILED"

\* An exception leaves run(): worker.fail and host.fail, then re-raised.
Raise(r) ==
  /\ kv' = [kv EXCEPT ![r] = "FAILED"]
  /\ local' = [local EXCEPT ![r] = Failed(@)]
  /\ Return(r)

MayFault(call) == {TRUE} \union (IF call \in Faults THEN {FALSE} ELSE {})

-----------------------------------------------------------------------------
(* DistributedStepWorker.execute and DistributedStepCoordinator.run        *)

Run(r) ==
  /\ pc[r] = "idle"
  /\ kv[r] # "CLOSED"
  /\ \E s \in Steps :
       /\ s > staged[r]
       /\ staged' = [staged EXCEPT ![r] = s]
       /\ Call(r, Entry(r, "broadcast", "step", s, TRUE,
                        IF r = Source THEN Identity[s] ELSE NoIdentity), "broadcast")
  /\ UNCHANGED <<host, plane, published>>

\* _admit and RankLocalKVWorker.begin: which envelopes this rank may begin.
Admits(r, s, id) ==
  /\ id = NoIdentity \/ id = gen[r]
  /\ kv[r] = "READY"
  /\ s > last[r]

\* The envelope arrived: admit it, let the host prepare, vote once.
Prepare(r) ==
  /\ pc[r] = "broadcast"
  /\ Complete(r)
  /\ LET s == At(Source, r).step IN
     \/ \E identical \in MayFault("admit"), reserved \in MayFault("prepare") :
          LET begun == identical /\ Admits(r, s, At(Source, r).id)
          IN /\ kv' = [kv EXCEPT ![r] = IF begun THEN "RUNNING" ELSE @]
             /\ Call(r, Entry(r, "grant", "prepare", s,
                              begun /\ staged[r] = s /\ reserved, NoIdentity), "prepare")
             /\ UNCHANGED local
     \/ Raise(r)
  /\ UNCHANGED <<last, gen, flights, plane, staged, published>>

\* _end_step: RankLocalKVWorker.complete for a rank that had begun.
EndStep(r) ==
  /\ kv' = [kv EXCEPT ![r] = IF @ = "RUNNING" THEN "READY" ELSE @]
  /\ last' = [last EXCEPT ![r] = IF kv[r] = "RUNNING" THEN env[r] ELSE @]

\* Some rank refused: roll back; DistributedStepRefused is raised.
Refuse(r) ==
  /\ pc[r] = "prepare"
  /\ Complete(r)
  /\ ~AllYes(r)
  /\ EndStep(r)
  /\ Return(r)
  /\ UNCHANGED <<gen, local, flights, plane, staged, published>>

\* The grant was unanimous: LocalWorker.execute registers the flight first.
Launch(r) ==
  /\ pc[r] = "prepare"
  /\ Complete(r)
  /\ AllYes(r)
  /\ flights' = [flights EXCEPT ![r] = IF local[r] = "READY" THEN @ \union {env[r]} ELSE @]
  /\ pc' = [pc EXCEPT ![r] = "launch"]
  /\ UNCHANGED <<kv, last, gen, local, plane, wire, staged, env, published>>

\* Mutant: the proof is voted as soon as execute returns, fence or not.
ProveUnfenced(r) ==
  /\ pc[r] = "launch"
  /\ \E ok \in MayFault("execute") :
       flights' = [flights EXCEPT ![r] = IF ok THEN @ \ {env[r]} ELSE @]
  /\ \/ /\ Call(r, Entry(r, "grant", "proof", env[r], env[r] \in flights[r], NoIdentity),
                "proof")
        /\ UNCHANGED <<kv, local>>
     \/ Raise(r)
  /\ UNCHANGED <<last, gen, plane, staged, published>>

\* execute and the fence ended; a proved fence retires the flight.  One vote.
Prove(r) ==
  /\ pc[r] = "launch"
  /\ \/ \E ok \in MayFault("execute") :
          /\ flights' = [flights EXCEPT ![r] = IF ok THEN @ \ {env[r]} ELSE @]
          /\ Call(r, Entry(r, "grant", "proof", env[r],
                           ok /\ env[r] \in flights[r], NoIdentity), "proof")
          /\ UNCHANGED <<kv, local>>
     \/ /\ \E ok \in MayFault("execute") :
             flights' = [flights EXCEPT ![r] = IF ok THEN @ \ {env[r]} ELSE @]
        /\ Raise(r)
  /\ UNCHANGED <<last, gen, plane, staged, published>>

\* The success proof holds on every rank: commit, acknowledge.
Commit(r) ==
  /\ pc[r] = "proof"
  /\ Complete(r)
  /\ AllYes(r)
  /\ \/ \E ok \in MayFault("commit") :
          /\ Call(r, Entry(r, "grant", "commit", env[r], ok, NoIdentity), "commit")
          /\ UNCHANGED <<kv, local>>
     \/ Raise(r)
  /\ UNCHANGED <<last, gen, flights, plane, staged, published>>

\* Every rank acknowledged: the publisher publishes, all meet at the barrier.
Publish(r) ==
  /\ pc[r] = "commit"
  /\ Complete(r)
  /\ AllYes(r)
  /\ \/ /\ published' = IF r = Publisher THEN published \union {<<plane[r], env[r]>>}
                                         ELSE published
        /\ \/ /\ Call(r, Entry(r, "barrier", "end", env[r], TRUE, NoIdentity), "end")
              /\ UNCHANGED <<kv, local>>
           \/ Raise(r)
     \/ /\ r = Publisher
        /\ FALSE \in MayFault("publish")
        /\ Raise(r)
        /\ UNCHANGED published
  /\ UNCHANGED <<last, gen, flights, plane, staged>>

Finish(r) ==
  /\ pc[r] = "end"
  /\ Complete(r)
  /\ EndStep(r)
  /\ Return(r)
  /\ UNCHANGED <<gen, local, flights, plane, staged, published>>

\* The success proof or the acknowledgement was refused: fail closed.
FailClosed(r) ==
  /\ pc[r] \in {"proof", "commit"}
  /\ Complete(r)
  /\ ~AllYes(r)
  /\ Raise(r)
  /\ UNCHANGED <<last, gen, flights, plane, staged, published>>

\* Mutant: the barrier that ends a step has no deadline.
TimeoutUnlessEnding(r) ==
  /\ pc[r] \in {"broadcast", "prepare", "proof", "commit"}
  /\ Raise(r)
  /\ UNCHANGED <<last, gen, flights, plane, staged, published>>

\* Mutant: a deadline in the prepare vote is taken for a refusal.
TimeoutAsRefusal(r) ==
  /\ pc[r] \in {"broadcast", "prepare", "proof", "commit", "end"}
  /\ \/ /\ pc[r] = "prepare"
        /\ EndStep(r)
        /\ Return(r)
        /\ UNCHANGED local
     \/ /\ pc[r] # "prepare"
        /\ Raise(r)
        /\ UNCHANGED last
  /\ UNCHANGED <<gen, flights, plane, staged, published>>

\* The deadline passes, or the plane reports an error, inside a wait of run().
Timeout(r) ==
  /\ pc[r] \in {"broadcast", "prepare", "proof", "commit", "end"}
  /\ Raise(r)
  /\ UNCHANGED <<last, gen, flights, plane, staged, published>>

-----------------------------------------------------------------------------
(* DistributedStepWorker.shutdown and DistributedStepCoordinator.shutdown  *)

Votes(r) == Len(SelectSeq(Sent(r), LAMBDA e : e.why = "vote"))

\* Mutant: a rank votes without having drained, whatever its local worker's state.
ShutdownUndrained(r) ==
  /\ pc[r] = "idle"
  /\ kv[r] # "CLOSED"
  /\ Votes(r) < MaxVotes
  /\ local' = [local EXCEPT ![r] = IF @ = "READY" THEN "CLOSING" ELSE @]
  /\ Call(r, Entry(r, "grant", "vote", 0, kv[r] = "READY", NoIdentity), "vote")
  /\ UNCHANGED <<kv, last, gen, flights, plane, staged, published>>

\* request_closing; an undrained rank returns, a drained one votes.
Shutdown(r) ==
  /\ pc[r] = "idle"
  /\ kv[r] # "CLOSED"
  /\ Votes(r) < MaxVotes
  /\ local' = [local EXCEPT ![r] = IF @ = "READY" THEN "CLOSING" ELSE @]
  /\ \/ /\ flights[r] # {}
        /\ local[r] = "READY"
        /\ UNCHANGED <<kv, wire, env, pc>>
     \/ /\ flights[r] = {}
        /\ kv' = [kv EXCEPT ![r] = IF local[r] = "FAILED" THEN "FAILED" ELSE @]
        /\ Call(r, Entry(r, "grant", "vote", 0, kv'[r] = "READY", NoIdentity), "vote")
  /\ UNCHANGED <<last, gen, flights, plane, staged, published>>

\* A refusal, or a deadline in the vote or in the barrier: never a clean close.
ShutdownFails(r) ==
  /\ \/ pc[r] = "vote"
     \/ pc[r] = "close"
  /\ kv' = [kv EXCEPT ![r] = IF @ = "READY" THEN "FAILED" ELSE @]
  /\ Return(r)
  /\ UNCHANGED <<last, gen, local, flights, plane, staged, published>>

ShutdownAgreed(r) ==
  /\ pc[r] = "vote"
  /\ Complete(r)
  /\ AllYes(r)
  /\ Call(r, Entry(r, "barrier", "close", 0, TRUE, NoIdentity), "close")
  /\ UNCHANGED <<host, plane, staged, published>>

\* The barrier returned (now, or in a call whose cleanup failed): close both
\* owners.  A failed cleanup leaves the rank-local worker FAILED.
CloseRank(r) ==
  /\ \/ pc[r] = "close" /\ Complete(r)
     \/ pc[r] = "idle" /\ kv[r] = "CLOSED" /\ local[r] # "CLOSED"
  /\ kv' = [kv EXCEPT ![r] = "CLOSED"]
  /\ \E clean \in MayFault("close") :
       local' = [local EXCEPT ![r] = IF clean THEN "CLOSED" ELSE "FAILED"]
  /\ Return(r)
  /\ UNCHANGED <<last, gen, flights, plane, staged, published>>

-----------------------------------------------------------------------------
(* The engine around the group                                             *)

\* A drain fence of the executor's ticket proves the failed step quiescent.
Drain(r) ==
  /\ pc[r] = "idle"
  /\ local[r] # "CLOSED"
  /\ \E s \in flights[r] : flights' = [flights EXCEPT ![r] = @ \ {s}]
  /\ UNCHANGED <<kv, last, gen, local, plane, wire, staged, env, pc, published>>

\* recover: reinitialize may rebuild the rank-local worker, and may return a new
\* control plane; otherwise the new incarnation goes on with the old one.
Recover(r) ==
  /\ pc[r] = "idle"
  /\ kv[r] = "FAILED"
  /\ gen[r] < MaxPlane
  /\ kv' = [kv EXCEPT ![r] = "READY"]
  /\ gen' = [gen EXCEPT ![r] = @ + 1]
  /\ \/ plane' = [plane EXCEPT ![r] = @ + 1]
     \/ UNCHANGED plane
  /\ \/ UNCHANGED local
     \/ /\ local[r] = "FAILED"
        /\ flights[r] = {}
        /\ local' = [local EXCEPT ![r] = "READY"]
  /\ UNCHANGED <<last, flights, wire, staged, env, pc, published>>

RankStep(r) ==
  \/ Prepare(r) \/ Refuse(r) \/ Launch(r) \/ Prove(r) \/ Commit(r) \/ Publish(r)
  \/ Finish(r) \/ FailClosed(r) \/ Timeout(r)
  \/ ShutdownAgreed(r) \/ ShutdownFails(r) \/ CloseRank(r)

EngineStep(r) == Run(r) \/ Shutdown(r) \/ Drain(r) \/ Recover(r)

Next == \E r \in Ranks : RankStep(r) \/ EngineStep(r)

Spec == Init /\ [][Next]_vars

\* A live rank's thread keeps running; nothing makes an engine call again.
FairSpec == Spec /\ \A r \in Live : WF_vars(RankStep(r))

-----------------------------------------------------------------------------
(* Properties                                                              *)

GroupTypeOK ==
  /\ kv \in [Ranks -> {"READY", "RUNNING", "FAILED", "CLOSED"}]
  /\ last \in [Ranks -> Steps \union {0}]
  /\ gen \in [Ranks -> Planes]
  /\ local \in [Ranks -> {"READY", "CLOSING", "FAILED", "CLOSED"}]
  /\ flights \in [Ranks -> SUBSET Nat]
  /\ plane \in [Ranks -> Planes]
  /\ wire \in [Planes -> [Ranks -> Seq(Entries)]]
  /\ staged \in [Ranks -> Steps \union {0}]
  /\ env \in [Ranks -> Steps \union {0}]
  /\ published \subseteq Planes \X Nat
  /\ pc \in [Ranks -> {"idle", "broadcast", "prepare", "launch", "proof", "commit",
                       "end", "vote", "close"}]

\* The n-th call of rank r on plane p is the yes to a shutdown of an incarnation that
\* took the plane over as its predecessor left it: recover() returned no new one,
\* so this rank's position on the plane may be one where its peers run a step.
Rejoins(p, r, n) ==
  /\ wire[p][r][n].why = "vote" /\ wire[p][r][n].yes
  /\ n > 1 /\ wire[p][r][n - 1].gen # wire[p][r][n].gen

\* Every rank has joined the n-th collective of plane p.
Joined(p, n) == \A q \in Ranks : n <= Len(wire[p][q])

\* Votes never mix: when an all-grant is unanimous, every rank cast its vote in
\* the same phase and for the same step, though the collective carries neither.
\* This survives every failure, and every recovery on a new plane or on the old
\* one, but for one case: a rank that recovered on the old plane may vote for the
\* shutdown at a position where its peers vote in a step.
GrantsNeverMix ==
  \A p \in Planes, r, q \in Ranks :
    \A n \in 1..Len(wire[p][r]) :
      (/\ Joined(p, n)
       /\ \A x \in Ranks : wire[p][x][n].op = "grant" /\ wire[p][x][n].yes) =>
        \/ /\ wire[p][r][n].why = wire[p][q][n].why
           /\ wire[p][r][n].step = wire[p][q][n].step
        \/ Rejoins(p, r, n) \/ Rejoins(p, q, n)

\* GrantsNeverMix without the exception: false, because the monotonic step check
\* and the generation guard of recover() protect envelopes, not votes.
EveryGrantIsPure ==
  \A p \in Planes, r, q \in Ranks :
    \A n \in 1..Len(wire[p][r]) :
      (/\ Joined(p, n)
       /\ \A x \in Ranks : wire[p][x][n].op = "grant" /\ wire[p][x][n].yes) =>
        /\ wire[p][r][n].why = wire[p][q][n].why
        /\ wire[p][r][n].step = wire[p][q][n].step

\* Rank r voted yes in this phase of step s, in the n-th collective of plane p.
SaysYes(p, r, n, why, s) ==
  wire[p][r][n].why = why /\ wire[p][r][n].step = s /\ wire[p][r][n].yes

\* Every rank voted yes in this phase of step s, in the n-th collective of plane
\* p, or rejoined the plane there with a shutdown vote.
Unanimous(p, n, why, s) ==
  /\ Joined(p, n)
  /\ \A q \in Ranks : SaysYes(p, q, n, why, s) \/ Rejoins(p, q, n)

\* A single refusal rolls the candidate back before any rank enqueues work: a
\* step is in flight on a rank only if every rank granted that very step.
LaunchIsUnanimous ==
  \A r \in Ranks : \A s \in flights[r] :
    \E p \in Planes : \E n \in 1..Len(wire[p][r]) :
      SaysYes(p, r, n, "prepare", s) /\ Unanimous(p, n, "prepare", s)

\* A rank acknowledges a commit only behind the global success proof: every rank
\* proved this step, and no rank has it in flight any more.
CommitIsProven ==
  \A p \in Planes, r \in Ranks : \A n \in 1..Len(wire[p][r]), s \in Steps :
    SaysYes(p, r, n, "commit", s) =>
      /\ n > 1 /\ Unanimous(p, n - 1, "proof", s)
      /\ \A q \in Ranks : s \notin flights[q]

\* Output is published only after the commit acknowledgements of all ranks.
PublishIsAcknowledged ==
  \A x \in published :
    \E n \in 1..Len(wire[x[1]][Publisher]) :
      /\ SaysYes(x[1], Publisher, n, "commit", x[2])
      /\ Unanimous(x[1], n, "commit", x[2])

\* Each phase of a step rests on the unanimous end of the one before it, on
\* every rank and across failures: launches on the prepare votes, commits on
\* the success proofs, publication on the commit acknowledgements (with the
\* exception of GrantsNeverMix: a rejoining rank is counted with a yes).
PhasesAreUnanimous == LaunchIsUnanimous /\ CommitIsProven /\ PublishIsAcknowledged

\* A rank frees its device state only when no rank of the group has work in
\* flight: the unanimous vote and the barrier come after every drain.
ClosesQuiescent ==
  [][\A r \in Ranks : (local[r] # "CLOSED" /\ local'[r] = "CLOSED") =>
        \A q \in Ranks : flights[q] = {}]_vars

\* A wedged or dead peer costs a deadline, never a hang: every call of a running
\* rank into the group returns.
CallsReturn == \A r \in Live : (pc[r] # "idle") ~> (pc[r] = "idle")

\* execution.py:22-24: a deadline failure in the shutdown means that "no rank
\* reports a clean shutdown".
CleanShutdownIsGroupWide ==
  \A r, q \in Ranks : local[r] = "CLOSED" => kv[q] # "FAILED"
=============================================================================

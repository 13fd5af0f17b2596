--------------------------- MODULE ExecutorProofs ---------------------------
(***************************************************************************)
(* Proofs about Executor, for any sets of tickets and units and any        *)
(* max_inflight: the inductive invariant, the safety properties it yields, *)
(* and the refinements of the StepLease contract and of TicketProtocol.    *)
(*                                                                         *)
(* The actions change one ticket at a time (Shutdown changes all of them   *)
(* alike), so the invariant is one predicate per ticket over its record,   *)
(* its bundle and its device work.                                         *)
(***************************************************************************)
EXTENDS Executor, TLAPS

\* A record whose success nobody had reason to doubt.
Clean(tk) ==
    /\ tk.samples /\ tk.fences # {}
    /\ ~tk.execFailed /\ ~tk.cancelled /\ ~tk.drainFence
    /\ tk.hostFailure \/ ~tk.needsDrain

\* What every state says about the bundle and about the work still running.
StateInv(tk, l, w) ==
    /\ tk.state \in {"ABSENT", "ADOPTED"} =>
         ~tk.needsDrain /\ ~tk.drainFence /\ ~tk.cancelled /\ ~tk.execFailed
         /\ ~tk.settling
    /\ tk.state = "ABSENT" => l \in {"caller", "retired"}
    /\ tk.state = "ADOPTED" => l = "owned"
    /\ tk.state \in {"SUBMITTED", "DRAINING"} =>
         l = "submitted" /\ ~tk.hostFailure /\ ~tk.settling
    /\ tk.state = "QUARANTINED" =>
         tk.hostFailure \/ (tk.needsDrain /\ l = "submitted" /\ ~tk.settling)
    /\ tk.state = "COMPLETED" =>
         w = {} /\ l \in {"owned", "submitted", "committed"} /\ tk.terminal # "NONE"
    /\ tk.state = "RETIRED" => l = "retired"
    /\ tk.hostFailure => tk.state = "QUARANTINED"

\* Where no drain proof is needed, the recorded fences cover what runs; where
\* one was needed, it was obtained before the ticket completed.
FenceInv(tk, w) ==
    /\ tk.state \in {"SUBMITTED", "DRAINING"} /\ ~tk.needsDrain =>
         w \subseteq tk.fences /\ tk.fences # {} /\ ~tk.drainFence
    /\ tk.state = "COMPLETED" /\ tk.needsDrain => tk.drainFence

\* What the bundle says about the ticket.
LeaseInv(tk, l, w) ==
    /\ l \in {"caller", "owned", "committed", "retired"} => w = {}
    /\ l = "retired" => tk.state \in {"ABSENT", "RETIRED"}
    /\ l = "committed" =>
         /\ tk.terminal = "SUCCEEDED" /\ Clean(tk)
         /\ tk.settling /\ tk.state \in {"COMPLETED", "QUARANTINED"}
         /\ tk.state = "QUARANTINED" => tk.hostFailure
    /\ tk.state = "COMPLETED" /\ tk.terminal = "SUCCEEDED" =>
         Clean(tk) /\ l \in {"submitted", "committed"}

TicketInv(tk, l, w) ==
    /\ tk \in TicketRecord /\ l \in Leases /\ w \in SUBSET Units
    /\ StateInv(tk, l, w)
    /\ FenceInv(tk, w)
    /\ LeaseInv(tk, l, w)

ExecutorInv ==
    /\ ExecutorTypeOK
    /\ \A t \in Tickets : TicketInv(ticket[t], lease[t], work[t])

USE DEF TicketRecord, States, Statuses, Leases

LEMMA CancelKeeps ==
    ASSUME NEW tk, NEW l, NEW w, TicketInv(tk, l, w), tk.state # "ABSENT"
    PROVE  TicketInv(CancelledTicket(tk), l, w)
<1> DEFINE marked == [tk EXCEPT !.cancelled = TRUE]
<1> USE DEF TicketInv, StateInv, FenceInv, LeaseInv, Clean, Finished
<1>1. CASE tk.settling \/ tk.state = "RETIRED"
           \/ (tk.state = "COMPLETED" /\ tk.terminal # "SUCCEEDED")
  BY <1>1 DEF CancelledTicket
<1>2. CASE ~tk.settling /\ (tk.state = "ADOPTED"
           \/ (tk.state = "COMPLETED" /\ tk.terminal = "SUCCEEDED"))
  <2>1. CancelledTicket(tk) = Finished(marked, "CANCELLED")
    BY <1>2 DEF CancelledTicket
  <2> QED BY ZenonT(60), <1>2, <2>1, ZenonT(60)
<1>3. CASE ~tk.settling /\ tk.state = "QUARANTINED"
  <2>1. CancelledTicket(tk) = marked
    BY <1>3 DEF CancelledTicket
  <2> QED BY ZenonT(60), <1>3, <2>1
<1>4. CASE ~tk.settling /\ tk.state \in {"SUBMITTED", "DRAINING"}
  <2>1. CancelledTicket(tk) = [marked EXCEPT !.state = "DRAINING"]
    BY <1>4 DEF CancelledTicket
  <2> QED BY ZenonT(60), <1>4, <2>1
<1> QED BY Zenon, <1>1, <1>2, <1>3, <1>4

LEMMA QuarantineKeeps ==
    ASSUME NEW tk, NEW l, NEW w, TicketInv(tk, l, w),
           tk.state \in {"SUBMITTED", "DRAINING", "QUARANTINED"}, ~tk.hostFailure
    PROVE  TicketInv(Quarantined(tk, FALSE), l, w)
  BY ZenonT(60) DEF Quarantined, TicketInv, StateInv, FenceInv, LeaseInv

LEMMA DrainStartKeeps ==
    ASSUME NEW tk, NEW l, NEW w, TicketInv(tk, l, w), tk.needsDrain,
           tk.state \in {"SUBMITTED", "DRAINING", "QUARANTINED"}, ~tk.hostFailure
    PROVE  TicketInv([tk EXCEPT !.drainFence = TRUE], l, w)
  BY Zenon DEF TicketInv, StateInv, FenceInv, LeaseInv, Clean

LEMMA ShutdownKeeps ==
    ASSUME NEW tk, NEW l, NEW w, NEW stuck \in BOOLEAN, TicketInv(tk, l, w)
    PROVE  TicketInv(ShutdownTicket(tk, stuck), l, w)
<1>1. CASE tk.state = "ADOPTED"
  BY <1>1, CancelKeeps DEF ShutdownTicket
<1>2. CASE tk.state \in {"ABSENT", "RETIRED"} \/ ~WantsDrain(tk)
  BY Zenon, <1>1, <1>2 DEF ShutdownTicket
<1>3. CASE tk.state \notin {"ABSENT", "RETIRED", "ADOPTED"} /\ WantsDrain(tk)
  <2>1. tk.state \in {"SUBMITTED", "DRAINING", "QUARANTINED"}
        /\ ~tk.hostFailure /\ tk.needsDrain
    BY <1>3 DEF WantsDrain, TicketInv, FenceInv
  <2> QED BY Zenon, <1>3, <2>1, QuarantineKeeps, DrainStartKeeps DEF ShutdownTicket
<1> QED BY <1>1, <1>2, <1>3

LEMMA SettleFaultKeeps ==
    ASSUME NEW tk, NEW l, NEW w, TicketInv(tk, l, w),
           tk.state = "COMPLETED", tk.settling
    PROVE  TicketInv(Quarantined(tk, TRUE), l, w)
  BY ZenonT(60) DEF Quarantined, TicketInv, StateInv, FenceInv, LeaseInv, Clean

\* Noting a fence failure changes nothing else.
LEMMA SeenKeeps ==
    ASSUME NEW tk, NEW l, NEW w, TicketInv(tk, l, w), NEW b \in BOOLEAN,
           tk.state \in {"SUBMITTED", "DRAINING", "QUARANTINED"}, ~tk.hostFailure
    PROVE  TicketInv([tk EXCEPT !.execFailed = tk.execFailed \/ b], l, w)
  BY DEF TicketInv, StateInv, FenceInv, LeaseInv, Clean

\* The tail of _poll is sound once nothing runs.
LEMMA FinishKeeps ==
    ASSUME NEW tk, NEW l, TicketInv(tk, l, {}), tk.needsDrain => tk.drainFence,
           tk.state \in {"SUBMITTED", "DRAINING", "QUARANTINED"}, ~tk.hostFailure
    PROVE  TicketInv(Finished(tk, Verdict(tk)), l, {})
<1>1. Verdict(tk) \in {"SUCCEEDED", "FAILED", "CANCELLED"}
  BY DEF Verdict
<1>2. Verdict(tk) = "SUCCEEDED" =>
        tk.samples /\ ~tk.needsDrain /\ ~tk.execFailed /\ ~tk.cancelled
  BY DEF Verdict
<1>3. l = "submitted"
  BY DEF TicketInv, StateInv
<1> QED BY Zenon, <1>1, <1>2, <1>3 DEF Finished, TicketInv, StateInv, FenceInv, LeaseInv, Clean

-----------------------------------------------------------------------------
\* A step that changes one ticket keeps the invariant if it keeps that ticket's.
LEMMA OneTicketStep ==
    ASSUME ExecutorInv, NEW t \in Tickets, phase' \in Phases,
           TicketInv(ticket'[t], lease'[t], work'[t]),
           ticket' = [ticket EXCEPT ![t] = ticket'[t]],
           lease' = [lease EXCEPT ![t] = lease'[t]],
           work' = [work EXCEPT ![t] = work'[t]]
    PROVE  ExecutorInv'
<1>1. \A u \in Tickets : TicketInv(ticket'[u], lease'[u], work'[u])
  BY DEF ExecutorInv, ExecutorTypeOK
<1>2. ticket' \in [Tickets -> TicketRecord] /\ lease' \in [Tickets -> Leases]
      /\ work' \in [Tickets -> SUBSET Units]
  BY SMTT(60) DEF ExecutorInv, ExecutorTypeOK, TicketInv
<1>3. \A u \in Tickets : ticket'[u].state = "COMPLETED" => ticket'[u].terminal # "NONE"
  BY SMTT(60), <1>1 DEF TicketInv, StateInv
<1> QED BY <1>1, <1>2, <1>3 DEF ExecutorInv, ExecutorTypeOK

LEMMA QueryKeeps ==
    ASSUME ExecutorInv, NEW t \in Tickets, NEW tk, NEW fs,
           Pollable(t), UNCHANGED <<lease, work, phase>>,
           TicketInv(tk, lease[t], work[t]),
           tk.state = ticket[t].state, tk.hostFailure = ticket[t].hostFailure,
           \/ fs = {Drain} /\ tk.drainFence
           \/ fs = tk.fences /\ work[t] \subseteq fs /\ ~tk.needsDrain,
           QueryFences(t, tk, fs)
    PROVE  ExecutorInv'
<1>1. tk.state \in {"SUBMITTED", "DRAINING", "QUARANTINED"} /\ ~tk.hostFailure
  BY DEF Pollable
<1>2. PICK asked \in SUBSET fs : \E r \in [asked -> Results] :
        /\ \A f \in asked : MayAnswer(t, f, r[f])
        /\ asked = fs \/ Stopping(asked, r) # {}
        /\ ticket' = [ticket EXCEPT ![t] = AfterQuery(tk, asked, r)]
  BY Zenon DEF QueryFences
<1>3. PICK r \in [asked -> Results] :
        /\ \A f \in asked : MayAnswer(t, f, r[f])
        /\ asked = fs \/ Stopping(asked, r) # {}
        /\ ticket' = [ticket EXCEPT ![t] = AfterQuery(tk, asked, r)]
  BY Zenon, <1>2
<1> DEFINE seen == Seen(tk, asked, r)
<1>4. /\ TicketInv(seen, lease[t], work[t]) /\ ~seen.hostFailure
      /\ seen.state \in {"SUBMITTED", "DRAINING", "QUARANTINED"}
      /\ seen.needsDrain = tk.needsDrain /\ seen.drainFence = tk.drainFence
  <2> DEFINE b == \E f \in asked : r[f] \in {"failed", "failed_live"}
  <2>1. b \in BOOLEAN
    OBVIOUS
  <2>2. seen = [tk EXCEPT !.execFailed = tk.execFailed \/ b]
    BY DEF Seen
  <2> HIDE DEF b, seen
  <2>3. TicketInv(seen, lease[t], work[t])
    BY <1>1, <2>1, <2>2, SeenKeeps
  <2> QED BY <1>1, <2>2, <2>3 DEF TicketInv
<1> HIDE DEF seen
<1>5. TicketInv(AfterQuery(tk, asked, r), lease[t], work[t])
  <2>1. CASE Stopping(asked, r) # {}
    BY Zenon, <1>4, <2>1, QuarantineKeeps DEF AfterQuery, seen
  <2>2. CASE Stopping(asked, r) = {} /\ \E f \in asked : r[f] = "pending"
    BY <1>4, <2>2 DEF AfterQuery, seen
  <2>3. CASE Stopping(asked, r) = {} /\ ~\E f \in asked : r[f] = "pending"
    <3>1. asked = fs
      BY <1>3, <2>3
    <3>2. \A f \in fs : ~Running(t, f)
      BY <1>3, <2>3, <3>1 DEF MayAnswer, Stopping, Results
    <3>3. work[t] = {}
      <4>1. CASE fs = {Drain}
        BY <3>2, <4>1 DEF Running
      <4>2. CASE fs = tk.fences /\ work[t] \subseteq fs
        BY SMTT(60), <3>2, <4>2, ExecutorAssumption DEF Running, TicketInv
      <4> QED BY <4>1, <4>2
    <3>4. seen.needsDrain => seen.drainFence
      BY <1>4
    <3>5. AfterQuery(tk, asked, r) = Finished(seen, Verdict(seen))
      BY SMTT(60), <2>3 DEF AfterQuery, seen
    <3> QED BY <1>4, <3>3, <3>4, <3>5, FinishKeeps, SMTT(30)
  <2> QED BY SMTT(60), <2>1, <2>2, <2>3
<1>6. /\ ticket'[t] = AfterQuery(tk, asked, r)
      /\ ticket' = [ticket EXCEPT ![t] = ticket'[t]]
      /\ lease' = [lease EXCEPT ![t] = lease'[t]]
      /\ work' = [work EXCEPT ![t] = work'[t]]
      /\ phase' \in Phases
  BY <1>3 DEF ExecutorInv, ExecutorTypeOK
<1> QED BY <1>5, <1>6, OneTicketStep

-----------------------------------------------------------------------------
LEMMA ExecutorInitInv == ExecutorInit => ExecutorInv
  BY SMTT(60) DEF ExecutorInit, ExecutorInv, ExecutorTypeOK, NoTicket, Phases,
         TicketInv, StateInv, FenceInv, LeaseInv

LEMMA ExecutorStepInv == ExecutorInv /\ [ExecutorNext]_execVars => ExecutorInv'
<1> SUFFICES ASSUME ExecutorInv, [ExecutorNext]_execVars PROVE ExecutorInv'
  OBVIOUS
<1> DEFINE Frame(t) ==
      /\ phase' \in Phases
      /\ ticket' = [ticket EXCEPT ![t] = ticket'[t]]
      /\ lease' = [lease EXCEPT ![t] = lease'[t]]
      /\ work' = [work EXCEPT ![t] = work'[t]]
<1>0. /\ \A t \in Tickets : TicketInv(ticket[t], lease[t], work[t])
      /\ ticket \in [Tickets -> TicketRecord] /\ lease \in [Tickets -> Leases]
      /\ work \in [Tickets -> SUBSET Units] /\ phase \in Phases
  BY DEF ExecutorInv, ExecutorTypeOK
<1>1. CASE Initialize
  BY <1>1 DEF Initialize, ExecutorInv, ExecutorTypeOK, Phases
<1>2. CASE Shutdown
  <2>1. PICK stuck \in SUBSET Tickets :
          ticket' = [t \in Tickets |-> ShutdownTicket(ticket[t], t \in stuck)]
    BY SMTT(60), <1>2 DEF Shutdown, Registered
  <2>2. \A t \in Tickets : TicketInv(ticket'[t], lease[t], work[t])
    <3> SUFFICES ASSUME NEW t \in Tickets PROVE TicketInv(ticket'[t], lease[t], work[t])
      OBVIOUS
    <3> DEFINE s == t \in stuck
    <3>1. ticket'[t] = ShutdownTicket(ticket[t], s) /\ s \in BOOLEAN
      BY <2>1
    <3> HIDE DEF s
    <3> QED BY <1>0, <3>1, ShutdownKeeps
  <2>3. ticket' \in [Tickets -> TicketRecord]
    BY <2>1, <2>2 DEF TicketInv
  <2>4. \A t \in Tickets : ticket'[t].state = "COMPLETED" => ticket'[t].terminal # "NONE"
    BY SMTT(60), <2>2 DEF TicketInv, StateInv
  <2> QED BY SMTT(60), <1>2, <2>2, <2>3, <2>4 DEF Shutdown, ExecutorInv, ExecutorTypeOK, Phases
<1>3. ASSUME NEW t \in Tickets, Adopt(t) PROVE ExecutorInv'
  <2>1. Frame(t)
    BY <1>0, <1>3 DEF Adopt
  <2>2. TicketInv(ticket'[t], lease'[t], work'[t])
    BY SMTT(60), <1>0, <1>3, SMTT(30) DEF Adopt, TicketInv, StateInv, FenceInv, LeaseInv
  <2> QED BY <2>1, <2>2, OneTicketStep
<1>4. ASSUME NEW t \in Tickets, AbortPrepared(t) PROVE ExecutorInv'
  <2>1. Frame(t)
    BY <1>0, <1>4 DEF AbortPrepared
  <2>2. TicketInv(ticket'[t], lease'[t], work'[t])
    BY SMTT(60), <1>0, <1>4 DEF AbortPrepared, TicketInv, StateInv, FenceInv, LeaseInv
  <2> QED BY <2>1, <2>2, OneTicketStep
<1>5. ASSUME NEW t \in Tickets, Cancel(t) PROVE ExecutorInv'
  <2>1. Frame(t)
    BY <1>0, <1>5 DEF Cancel
  <2>2. TicketInv(ticket'[t], lease'[t], work'[t])
    BY <1>0, <1>5, CancelKeeps DEF Cancel, Registered
  <2> QED BY <2>1, <2>2, OneTicketStep
<1>6. ASSUME NEW t \in Tickets, LaunchRefused(t) PROVE ExecutorInv'
  <2>1. Frame(t)
    BY <1>0, <1>6 DEF LaunchRefused
  <2>2. TicketInv(ticket'[t], lease'[t], work'[t])
    <3>1. /\ ticket'[t] = Quarantined(ticket[t], TRUE)
          /\ lease'[t] = lease[t] /\ work'[t] = work[t]
          /\ TicketInv(ticket[t], lease[t], work[t]) /\ ticket[t].state = "ADOPTED"
      BY <1>0, <1>6 DEF LaunchRefused
    <3> QED BY ZenonT(60), <3>1, ZenonT(60) DEF Quarantined, TicketInv, StateInv, FenceInv, LeaseInv
  <2> QED BY <2>1, <2>2, OneTicketStep
<1>7. ASSUME NEW t \in Tickets, LaunchEnqueued(t) PROVE ExecutorInv'
  <2>1. Frame(t)
    BY Zenon, <1>0, <1>7 DEF LaunchEnqueued
  <2>2. TicketInv(ticket'[t], lease'[t], work'[t])
    <3>1. PICK started \in (SUBSET Units) \ {{}}, sampled \in BOOLEAN :
            /\ work' = [work EXCEPT ![t] = started]
            /\ ticket' = [ticket EXCEPT ![t].state = "SUBMITTED",
                                        ![t].fences = started,
                                        ![t].samples = sampled]
      BY Zenon, <1>7 DEF LaunchEnqueued
    <3>2. /\ work'[t] = started /\ lease'[t] = "submitted"
          /\ ticket'[t] = [ticket[t] EXCEPT !.state = "SUBMITTED", !.fences = started,
                                            !.samples = sampled]
      BY Zenon, <1>0, <1>7, <3>1 DEF LaunchEnqueued
    <3>3. TicketInv(ticket[t], lease[t], work[t]) /\ ticket[t].state = "ADOPTED"
      BY <1>0, <1>7 DEF LaunchEnqueued
    <3> QED BY ZenonT(60), <3>2, <3>3, ZenonT(60) DEF TicketInv, StateInv, FenceInv, LeaseInv
  <2> QED BY <2>1, <2>2, OneTicketStep
<1>8. ASSUME NEW t \in Tickets, LaunchFailed(t) PROVE ExecutorInv'
  <2>1. Frame(t)
    BY Zenon, <1>0, <1>8 DEF LaunchFailed
  <2>2. TicketInv(ticket'[t], lease'[t], work'[t])
    <3>1. PICK started \in SUBSET Units, sampled \in BOOLEAN, fenced \in SUBSET Units :
            /\ work' = [work EXCEPT ![t] = started]
            /\ ticket' = [ticket EXCEPT ![t].state = "DRAINING",
                                        ![t].needsDrain = TRUE,
                                        ![t].fences = fenced,
                                        ![t].samples = sampled]
      BY Zenon, <1>8 DEF LaunchFailed
    <3>2. /\ work'[t] = started /\ lease'[t] = "submitted"
          /\ ticket'[t] = [ticket[t] EXCEPT !.state = "DRAINING", !.needsDrain = TRUE,
                                            !.fences = fenced, !.samples = sampled]
      BY Zenon, <1>0, <1>8, <3>1 DEF LaunchFailed
    <3>3. TicketInv(ticket[t], lease[t], work[t]) /\ ticket[t].state = "ADOPTED"
      BY <1>0, <1>8 DEF LaunchFailed
    <3> QED BY ZenonT(60), <3>2, <3>3, ZenonT(60) DEF TicketInv, StateInv, FenceInv, LeaseInv
  <2> QED BY <2>1, <2>2, OneTicketStep
<1>9. ASSUME NEW t \in Tickets, PollFences(t) PROVE ExecutorInv'
  <2>1. work[t] \subseteq ticket[t].fences
    BY SMTT(60), <1>0, <1>9 DEF PollFences, Pollable, TicketInv, StateInv, FenceInv
  <2> QED BY <1>0, <1>9, <2>1, QueryKeeps DEF PollFences
<1>10. ASSUME NEW t \in Tickets, PollDrain(t) PROVE ExecutorInv'
  <2> DEFINE started == [ticket[t] EXCEPT !.drainFence = TRUE]
  <2>1. /\ ticket[t].state \in {"SUBMITTED", "DRAINING", "QUARANTINED"}
        /\ ~ticket[t].hostFailure /\ ticket[t].needsDrain
    BY <1>10 DEF PollDrain, Pollable
  <2>2. CASE QueryFences(t, started, {Drain})
    <3>1. TicketInv(started, lease[t], work[t])
      BY <1>0, <2>1, DrainStartKeeps
    <3>2. started.state = ticket[t].state /\ started.drainFence
          /\ started.hostFailure = ticket[t].hostFailure
      BY <1>0
    <3> HIDE DEF started
    <3> QED BY <1>10, <2>2, <3>1, <3>2, QueryKeeps DEF PollDrain
  <2>3. CASE ticket' = [ticket EXCEPT ![t] = Quarantined(ticket[t], FALSE)]
    <3>1. Frame(t)
      BY <1>0, <1>10, <2>3 DEF PollDrain
    <3>2. TicketInv(ticket'[t], lease'[t], work'[t])
      BY Zenon, <1>0, <1>10, <2>1, <2>3, QuarantineKeeps DEF PollDrain
    <3> QED BY <3>1, <3>2, OneTicketStep
  <2> QED BY Zenon, <1>10, <2>2, <2>3 DEF PollDrain
<1>11. ASSUME NEW t \in Tickets, BeginSettle(t) PROVE ExecutorInv'
  <2>1. Frame(t)
    BY <1>0, <1>11 DEF BeginSettle
  <2>2. TicketInv(ticket'[t], lease'[t], work'[t])
    <3>1. /\ ticket'[t] = [ticket[t] EXCEPT !.settling = TRUE]
          /\ lease'[t] = lease[t] /\ work'[t] = work[t]
          /\ TicketInv(ticket[t], lease[t], work[t]) /\ ticket[t].state = "COMPLETED"
      BY <1>0, <1>11 DEF BeginSettle
    <3> QED BY ZenonT(60), <3>1 DEF TicketInv, StateInv, FenceInv, LeaseInv, Clean
  <2> QED BY <2>1, <2>2, OneTicketStep
<1>12. ASSUME NEW t \in Tickets, Commit(t) PROVE ExecutorInv'
  <2>1. Frame(t)
    BY <1>0, <1>12 DEF Commit
  <2>2. TicketInv(ticket'[t], lease'[t], work'[t])
    <3>1. /\ ticket'[t] = ticket[t] /\ lease'[t] = "committed" /\ work'[t] = work[t]
          /\ TicketInv(ticket[t], lease[t], work[t]) /\ CompletionConfirmed(t, TRUE)
          /\ lease[t] = "submitted"
      BY Zenon, <1>0, <1>12 DEF Commit
    <3> QED BY ZenonT(60), <3>1, ZenonT(60) DEF CompletionConfirmed, TicketInv, StateInv, FenceInv,
                                  LeaseInv, Clean
  <2> QED BY <2>1, <2>2, OneTicketStep
<1>13. ASSUME NEW t \in Tickets, Retire(t) PROVE ExecutorInv'
  <2>1. Frame(t)
    BY <1>0, <1>13 DEF Retire
  <2>2. TicketInv(ticket'[t], lease'[t], work'[t])
    <3>1. /\ ticket'[t] = [NoTicket EXCEPT !.state = "RETIRED"]
          /\ lease'[t] = "retired" /\ work'[t] = work[t]
          /\ TicketInv(ticket[t], lease[t], work[t]) /\ ticket[t].state = "COMPLETED"
      BY <1>0, <1>13 DEF Retire, CompletionConfirmed
    <3> QED BY ZenonT(60), <3>1 DEF NoTicket, TicketInv, StateInv, FenceInv, LeaseInv
  <2> QED BY <2>1, <2>2, OneTicketStep
<1>14. ASSUME NEW t \in Tickets, SettleFault(t) PROVE ExecutorInv'
  <2>1. Frame(t)
    BY <1>0, <1>14 DEF SettleFault
  <2>2. TicketInv(ticket'[t], lease'[t], work'[t])
    BY Zenon, <1>0, <1>14, SettleFaultKeeps DEF SettleFault
  <2> QED BY <2>1, <2>2, OneTicketStep
<1>15. ASSUME NEW t \in Tickets, DeviceFinish(t) PROVE ExecutorInv'
  <2>1. Frame(t)
    BY <1>0, <1>15 DEF DeviceFinish
  <2>2. TicketInv(ticket'[t], lease'[t], work'[t])
    <3>1. PICK u \in work[t] : work' = [work EXCEPT ![t] = work[t] \ {u}]
      BY Zenon, <1>15 DEF DeviceFinish
    <3>2. /\ ticket'[t] = ticket[t] /\ lease'[t] = lease[t]
          /\ work'[t] = work[t] \ {u}
          /\ TicketInv(ticket[t], lease[t], work[t])
      BY <1>0, <1>15, <3>1 DEF DeviceFinish
    <3> QED BY <3>2, ZenonT(60) DEF TicketInv, StateInv, FenceInv, LeaseInv, Clean
  <2> QED BY <2>1, <2>2, OneTicketStep
<1>16. CASE UNCHANGED execVars
  BY <1>16 DEF execVars, ExecutorInv, ExecutorTypeOK
<1> QED
  BY <1>1, <1>2, <1>3, <1>4, <1>5, <1>6, <1>7, <1>8, <1>9, <1>10, <1>11, <1>12,
     <1>13, <1>14, <1>15, <1>16 DEF ExecutorNext, Launch, Poll

\* The inductive invariant holds in every reachable state of the executor.
THEOREM ExecutorInvariant == ExecutorSafety => []ExecutorInv
  BY ExecutorInitInv, ExecutorStepInv, PTL DEF ExecutorSafety

\* Types, and outcomes of completed tickets, for every executor.
THEOREM ExecutorTypeCorrect == ExecutorSafety => []ExecutorTypeOK
<1>1. ExecutorInv => ExecutorTypeOK
  BY DEF ExecutorInv
<1> QED BY <1>1, ExecutorInvariant, PTL

\* KV of a step is published or given back only when nothing the step enqueued
\* still runs, for any number of tickets and units (commit and retire of
\* KVExecutionResources behind Executor.launch, cancel, _poll and shutdown).
THEOREM ExecutorSettlesQuiescentWork == ExecutorSafety => []SettledWorkIsQuiescent
<1>1. ExecutorInv => SettledWorkIsQuiescent
  BY DEF ExecutorInv, TicketInv, LeaseInv, SettledWorkIsQuiescent
<1> QED BY <1>1, ExecutorInvariant, PTL

\* KV is published only for work that succeeded beyond doubt.
THEOREM ExecutorCommitsSuccess == ExecutorSafety => []CommittedWorkSucceeded
<1>1. ExecutorInv => CommittedWorkSucceeded
  BY SMTT(60) DEF ExecutorInv, TicketInv, LeaseInv, Clean, CommittedWorkSucceeded
<1> QED BY <1>1, ExecutorInvariant, PTL

-----------------------------------------------------------------------------
\* Closing needs an empty registry, and nothing is admitted afterwards.
ClosedInv == phase = "closed" => Registered = {}

\* A closed executor left nothing behind (Executor.shutdown).
THEOREM ExecutorClosesClean == ExecutorSafety => []ClosedLeavesNothing
<1>1. ExecutorInit => ClosedInv
  BY DEF ExecutorInit, ClosedInv
<1>2. ExecutorInv /\ ClosedInv /\ [ExecutorNext]_execVars => ClosedInv'
  <2> SUFFICES ASSUME ExecutorInv, ClosedInv, [ExecutorNext]_execVars, phase' = "closed"
               PROVE  Registered' = {}
    BY DEF ClosedInv
  <2>1. CASE Shutdown
    <3>1. \A t \in Tickets : ticket[t].state \in {"ABSENT", "RETIRED"}
      BY <2>1 DEF Shutdown, Registered
    <3>2. PICK stuck : ticket' = [t \in Tickets |-> ShutdownTicket(ticket[t], t \in stuck)]
      BY <2>1 DEF Shutdown
    <3>3. \A t \in Tickets : ticket'[t] = ticket[t]
      BY Zenon, <3>1, <3>2 DEF ShutdownTicket
    <3> QED BY <3>1, <3>3 DEF Registered
  <2>2. CASE ~Shutdown
    <3>1. phase = "closed" /\ \A t \in Tickets : ticket[t].state \in {"ABSENT", "RETIRED"}
      BY ZenonT(60), <2>2, ZenonT(60) DEF ClosedInv, Registered, ExecutorNext, execVars, Initialize, Adopt,
         AbortPrepared, Cancel, Launch, LaunchRefused, LaunchEnqueued, LaunchFailed,
         Poll, PollFences, PollDrain, BeginSettle, Commit, Retire, SettleFault,
         DeviceFinish
    <3>2. UNCHANGED ticket
      BY ZenonT(60), <2>2, <3>1 DEF Registered, ExecutorNext, execVars, Initialize, Adopt,
         HasSubmissionCapacity, AbortPrepared, Cancel, Launch, LaunchRefused,
         LaunchEnqueued, LaunchFailed, Poll, PollFences, PollDrain, Pollable,
         BeginSettle, Commit, CompletionConfirmed, Retire, SettleFault, DeviceFinish
    <3> QED BY <3>1, <3>2 DEF Registered
  <2> QED BY <2>1, <2>2
<1>3. ExecutorInv /\ ClosedInv => ClosedLeavesNothing
  BY SMTT(60) DEF ExecutorInv, ClosedInv, Registered, TicketInv, StateInv, LeaseInv,
     ExecutorTypeOK, ClosedLeavesNothing
<1> QED BY <1>1, <1>2, <1>3, ExecutorInvariant, PTL DEF ExecutorSafety

\* No step touches the bundle of a ticket whose host accounting is ambiguous, or
\* lets it leave quarantine.
THEOREM ExecutorKeepsHostFailures == ExecutorSafety => HostFailureIsFinal
<1> DEFINE Final == \A t \in Tickets : ticket[t].hostFailure =>
                      /\ ticket'[t].state = "QUARANTINED"
                      /\ ticket'[t].hostFailure
                      /\ lease'[t] = lease[t]
<1>1. ExecutorInv /\ [ExecutorNext]_execVars => [Final]_execVars
  <2> SUFFICES ASSUME ExecutorInv, ExecutorNext, NEW t \in Tickets, ticket[t].hostFailure
               PROVE  /\ ticket'[t].state = "QUARANTINED" /\ ticket'[t].hostFailure
                      /\ lease'[t] = lease[t]
    BY DEF execVars
  <2>1. ticket[t].state = "QUARANTINED" /\ ticket[t] \in TicketRecord
        /\ ticket \in [Tickets -> TicketRecord] /\ lease \in [Tickets -> Leases]
    BY SMTT(60) DEF ExecutorInv, ExecutorTypeOK, TicketInv, StateInv
  <2>2. CASE Initialize \/ AbortPrepared(t) \/ DeviceFinish(t)
    BY <2>1, <2>2 DEF Initialize, AbortPrepared, DeviceFinish
  <2>3. CASE Shutdown
    BY Zenon, <2>1, <2>3 DEF Shutdown, ShutdownTicket, WantsDrain
  <2>4. CASE Cancel(t)
    BY <2>1, <2>4 DEF Cancel, CancelledTicket
  <2>5. ASSUME NEW u \in Tickets,
               \/ Adopt(u) \/ AbortPrepared(u) \/ Cancel(u) \/ Launch(u) \/ Poll(u)
               \/ BeginSettle(u) \/ Commit(u) \/ Retire(u) \/ SettleFault(u)
               \/ DeviceFinish(u),
               u # t
        PROVE  ticket'[t] = ticket[t] /\ lease'[t] = lease[t]
    BY ZenonT(60), <2>1, <2>5, ZenonT(60) DEF Adopt, AbortPrepared, Cancel, Launch, LaunchRefused,
       LaunchEnqueued, LaunchFailed, Poll, PollFences, PollDrain, QueryFences,
       BeginSettle, Commit, Retire, SettleFault, DeviceFinish
  <2>6. ~(Adopt(t) \/ Launch(t) \/ Poll(t) \/ BeginSettle(t) \/ Commit(t)
           \/ Retire(t) \/ SettleFault(t))
    BY <2>1 DEF Adopt, Launch, LaunchRefused, LaunchEnqueued, LaunchFailed, Poll,
       PollFences, PollDrain, Pollable, BeginSettle, Commit, CompletionConfirmed,
       Retire, SettleFault
  <2> QED BY SMTT(60), <2>1, <2>2, <2>3, <2>4, <2>5, <2>6 DEF ExecutorNext
<1> QED BY <1>1, ExecutorInvariant, PTL DEF ExecutorSafety, HostFailureIsFinal

-----------------------------------------------------------------------------
\* The moves the StepLease contract allows one bundle.
LeaseMoves ==
    {<<"free", "held">>, <<"held", "running">>, <<"held", "quiet">>,
     <<"running", "quiet">>, <<"quiet", "written">>, <<"free", "gone">>,
     <<"held", "gone">>, <<"quiet", "gone">>, <<"written", "gone">>}

LEMMA OneLeaseMove ==
    ASSUME NEW t \in Tickets, <<LeaseUse(t), LeaseUse(t)'>> \in LeaseMoves,
           \A u \in Tickets \ {t} : LeaseUse(u)' = LeaseUse(u)
    PROVE  Contract!LeaseNext
<1> DEFINE use == [u \in Tickets |-> LeaseUse(u)]
<1>1. use' = [use EXCEPT ![t] = LeaseUse(t)']
  BY Zenon
<1>2. use[t] = LeaseUse(t)
  OBVIOUS
<1> QED BY Zenon, <1>1, <1>2 DEF Contract!LeaseNext, Contract!Take, Contract!Start,
        Contract!Quiesce, Contract!Write, Contract!GiveBack, Contract!Move, LeaseMoves

\* Every step of the executor is a step of the contract or leaves it unchanged.
LEMMA ExecutorStepLease ==
    ExecutorInv /\ [ExecutorNext]_execVars =>
      Contract!LeaseNext \/ UNCHANGED [t \in Tickets |-> LeaseUse(t)]
<1> DEFINE Same(t) == LeaseUse(t)' = LeaseUse(t)
<1> SUFFICES ASSUME ExecutorInv, [ExecutorNext]_execVars
             PROVE  Contract!LeaseNext \/ \A t \in Tickets : Same(t)
  OBVIOUS
<1>0. /\ \A t \in Tickets : TicketInv(ticket[t], lease[t], work[t])
      /\ lease \in [Tickets -> Leases] /\ work \in [Tickets -> SUBSET Units]
  BY DEF ExecutorInv, ExecutorTypeOK
<1>1. CASE UNCHANGED <<lease, work>>
  BY <1>1 DEF LeaseUse
<1>2. ASSUME NEW t \in Tickets, <<LeaseUse(t), LeaseUse(t)'>> \in LeaseMoves \/ Same(t),
             lease' = [lease EXCEPT ![t] = lease'[t]],
             work' = [work EXCEPT ![t] = work'[t]]
      PROVE  Contract!LeaseNext \/ \A u \in Tickets : Same(u)
  <2>1. \A u \in Tickets \ {t} : Same(u)
    BY <1>0, <1>2 DEF LeaseUse
  <2> QED BY <1>2, <2>1, OneLeaseMove
<1>3. ASSUME NEW t \in Tickets, Adopt(t) \/ AbortPrepared(t)
      PROVE  Contract!LeaseNext \/ \A u \in Tickets : Same(u)
  <2>1. lease[t] = "caller" /\ lease'[t] \in {"owned", "retired"} /\ work[t] = {}
        /\ work' = work /\ lease' = [lease EXCEPT ![t] = lease'[t]]
    BY <1>0, <1>3 DEF Adopt, AbortPrepared, TicketInv, LeaseInv
  <2>2. <<LeaseUse(t), LeaseUse(t)'>> \in LeaseMoves
    BY <2>1 DEF LeaseUse, LeaseMoves
  <2> QED BY <1>0, <1>2, <2>1, <2>2
<1>4. ASSUME NEW t \in Tickets, LaunchEnqueued(t) \/ LaunchFailed(t)
      PROVE  Contract!LeaseNext \/ \A u \in Tickets : Same(u)
  <2>1. /\ lease[t] = "owned" /\ lease'[t] = "submitted" /\ work[t] = {}
        /\ work' = [work EXCEPT ![t] = work'[t]]
        /\ lease' = [lease EXCEPT ![t] = lease'[t]]
    BY ZenonT(60), <1>0, <1>4 DEF LaunchEnqueued, LaunchFailed, TicketInv, StateInv, LeaseInv
  <2>2. <<LeaseUse(t), LeaseUse(t)'>> \in LeaseMoves
    BY <2>1 DEF LeaseUse, LeaseMoves
  <2> QED BY <1>2, <2>1, <2>2
<1>5. ASSUME NEW t \in Tickets, Commit(t) \/ Retire(t)
      PROVE  Contract!LeaseNext \/ \A u \in Tickets : Same(u)
  <2>1. /\ work[t] = {} /\ work' = work /\ lease' = [lease EXCEPT ![t] = lease'[t]]
        /\ \/ lease[t] = "submitted" /\ lease'[t] = "committed"
           \/ lease[t] \in {"owned", "submitted", "committed"} /\ lease'[t] = "retired"
    BY <1>0, <1>5 DEF Commit, Retire, CompletionConfirmed, TicketInv, StateInv
  <2>2. <<LeaseUse(t), LeaseUse(t)'>> \in LeaseMoves
    BY <2>1 DEF LeaseUse, LeaseMoves
  <2> QED BY <1>0, <1>2, <2>1, <2>2
<1>6. ASSUME NEW t \in Tickets, DeviceFinish(t)
      PROVE  Contract!LeaseNext \/ \A u \in Tickets : Same(u)
  <2>1. /\ work[t] # {} /\ lease' = lease /\ work' = [work EXCEPT ![t] = work'[t]]
    BY <1>0, <1>6 DEF DeviceFinish
  <2>2. lease[t] = "submitted"
    BY SMTT(60), <1>0, <2>1 DEF TicketInv, LeaseInv
  <2>3. <<LeaseUse(t), LeaseUse(t)'>> \in LeaseMoves \/ Same(t)
    BY <2>1, <2>2 DEF LeaseUse, LeaseMoves
  <2> QED BY <1>0, <1>2, <2>1, <2>3
<1> QED
  BY Zenon, <1>1, <1>3, <1>4, <1>5, <1>6 DEF ExecutorNext, execVars, Initialize, Shutdown,
     Cancel, Launch, LaunchRefused, Poll, PollFences, PollDrain, BeginSettle, SettleFault

\* The executor implements the StepLease contract for any tickets and units: a
\* bundle is written or given back only while the device does not use it, the
\* device starts on it at most once, and it is given back at most once.
THEOREM ExecutorImplementsStepLease == ExecutorSafety => ImplementsStepLease
<1>1. ExecutorInit => Contract!LeaseInit
  BY DEF ExecutorInit, Contract!LeaseInit, LeaseUse
<1> QED BY <1>1, ExecutorStepLease, ExecutorInvariant, PTL
        DEF ExecutorSafety, ImplementsStepLease, Contract!LeaseSpec

-----------------------------------------------------------------------------
\* What a record that was launched looks like from the settlement.
InFlight(tk) == tk.state \in {"SUBMITTED", "DRAINING", "QUARANTINED"} /\ ~tk.hostFailure

ViewMoves(tk, new) ==
    TicketView(new) = TicketView(tk) \/ Protocol!Moves(TicketView(tk), TicketView(new))

\* The view of a ticket, by its state.
LEMMA ViewForms ==
    ASSUME NEW tk
    PROVE  /\ tk.state = "ABSENT" => TicketView(tk) = Protocol!None
           /\ tk.state = "RETIRED" => TicketView(tk) = Protocol!Plain("gone")
           /\ tk.state \notin {"ABSENT", "RETIRED"} /\ tk.hostFailure
                => TicketView(tk) = Protocol!Plain("lost")
           /\ tk.state = "ADOPTED" /\ ~tk.hostFailure
                => TicketView(tk) = Protocol!Plain("adopted")
           /\ tk.state = "COMPLETED" /\ ~tk.hostFailure /\ tk.settling
                => TicketView(tk) = Protocol!Settled(tk.terminal)
           /\ tk.state = "COMPLETED" /\ ~tk.hostFailure /\ ~tk.settling
                => TicketView(tk) = Protocol!Done(tk.terminal)
           /\ InFlight(tk) => TicketView(tk) = Protocol!Live(tk.cancelled)
  BY Zenon DEF TicketView, InFlight, Protocol!View, Protocol!None, Protocol!Plain, Protocol!Live,
     Protocol!Done, Protocol!Settled

\* Work in flight that stays in flight is at most marked as cancelled.
LEMMA FlightMoves ==
    ASSUME NEW tk \in TicketRecord, NEW new \in TicketRecord, InFlight(tk), InFlight(new),
           new.cancelled = tk.cancelled \/ new.cancelled
    PROVE  ViewMoves(tk, new)
<1>1. TicketView(tk) = Protocol!Live(tk.cancelled) /\ TicketView(new) = Protocol!Live(new.cancelled)
  BY ViewForms
<1>2. tk.cancelled \in BOOLEAN /\ new.cancelled \in BOOLEAN
  OBVIOUS
<1>3. CASE new.cancelled = tk.cancelled
  BY <1>1, <1>3 DEF ViewMoves
<1>4. CASE new.cancelled = TRUE
  BY Zenon, <1>1, <1>2, <1>4 DEF ViewMoves, Protocol!Moves, Protocol!Completes
<1> QED BY Zenon, <1>2, <1>3, <1>4

\* Work in flight completes with the verdict of _poll: no success after a
\* cancellation, and no cancellation without one.
LEMMA VerdictMoves ==
    ASSUME NEW tk \in TicketRecord, InFlight(tk), ~tk.settling
    PROVE  ViewMoves(tk, Finished(tk, Verdict(tk)))
<1>1. Verdict(tk) \in {"FAILED", IF tk.cancelled THEN "CANCELLED" ELSE "SUCCEEDED"}
  BY DEF Verdict
<1>2. TicketView(tk) = Protocol!Live(tk.cancelled)
  BY ViewForms
<1>3. TicketView(Finished(tk, Verdict(tk))) = Protocol!Done(Verdict(tk))
  <2>1. /\ Finished(tk, Verdict(tk)).state = "COMPLETED"
        /\ Finished(tk, Verdict(tk)).terminal = Verdict(tk)
        /\ ~Finished(tk, Verdict(tk)).hostFailure /\ ~Finished(tk, Verdict(tk)).settling
    BY DEF InFlight, Finished
  <2> QED BY <2>1, ViewForms
<1>4. tk.cancelled \in BOOLEAN
  OBVIOUS
<1> QED BY Zenon, <1>1, <1>2, <1>3, <1>4 DEF ViewMoves, Protocol!Moves, Protocol!Completes

LEMMA CancelMoves ==
    ASSUME NEW tk, NEW l, NEW w, TicketInv(tk, l, w), tk.state # "ABSENT"
    PROVE  ViewMoves(tk, CancelledTicket(tk))
<1> USE DEF TicketInv, StateInv
<1>1. CASE tk.settling \/ tk.state = "RETIRED"
           \/ (tk.state = "COMPLETED" /\ tk.terminal # "SUCCEEDED")
  BY <1>1 DEF CancelledTicket, ViewMoves
<1>2. CASE ~tk.settling /\ tk.state = "ADOPTED"
  <2>1. /\ CancelledTicket(tk).state = "COMPLETED" /\ CancelledTicket(tk).terminal = "CANCELLED"
        /\ ~CancelledTicket(tk).hostFailure /\ ~CancelledTicket(tk).settling /\ ~tk.hostFailure
    BY <1>2 DEF CancelledTicket, Finished
  <2>2. TicketView(tk) = Protocol!Plain("adopted")
        /\ TicketView(CancelledTicket(tk)) = Protocol!Done("CANCELLED")
    BY SMTT(60), <1>2, <2>1, ViewForms
  <2> QED BY SMTT(60), <2>2 DEF ViewMoves, Protocol!Moves, Protocol!Launches
<1>3. CASE ~tk.settling /\ tk.state = "COMPLETED" /\ tk.terminal = "SUCCEEDED"
  <2>1. /\ CancelledTicket(tk).state = "COMPLETED" /\ CancelledTicket(tk).terminal = "CANCELLED"
        /\ ~CancelledTicket(tk).hostFailure /\ ~CancelledTicket(tk).settling /\ ~tk.hostFailure
    BY <1>3 DEF CancelledTicket, Finished
  <2>2. TicketView(tk) = Protocol!Done("SUCCEEDED")
        /\ TicketView(CancelledTicket(tk)) = Protocol!Done("CANCELLED")
    BY SMTT(60), <1>3, <2>1, ViewForms
  <2> QED BY SMTT(60), <2>2 DEF ViewMoves, Protocol!Moves, Protocol!Demotes
<1>4. CASE ~tk.settling /\ tk.state = "QUARANTINED" /\ tk.hostFailure
  <2>1. CancelledTicket(tk).state = "QUARANTINED" /\ CancelledTicket(tk).hostFailure
    BY <1>4 DEF CancelledTicket
  <2> QED BY SMTT(60), <1>4, <2>1, ViewForms DEF ViewMoves
<1>5. CASE ~tk.settling /\ InFlight(tk)
  <2>1. CancelledTicket(tk) \in TicketRecord /\ InFlight(CancelledTicket(tk))
        /\ CancelledTicket(tk).cancelled
    BY Zenon, <1>5 DEF CancelledTicket, InFlight
  <2> QED BY SMTT(60), <1>5, <2>1, FlightMoves
<1> QED BY <1>1, <1>2, <1>3, <1>4, <1>5 DEF InFlight

LEMMA ShutdownMoves ==
    ASSUME NEW tk, NEW l, NEW w, NEW stuck \in BOOLEAN, TicketInv(tk, l, w)
    PROVE  ViewMoves(tk, ShutdownTicket(tk, stuck))
<1>1. CASE tk.state = "ADOPTED"
  BY <1>1, CancelMoves DEF ShutdownTicket
<1>2. CASE tk.state # "ADOPTED" /\ (tk.state \in {"ABSENT", "RETIRED"} \/ ~WantsDrain(tk))
  BY Zenon, <1>2 DEF ShutdownTicket, ViewMoves
<1>3. CASE tk.state \notin {"ABSENT", "RETIRED", "ADOPTED", "COMPLETED"} /\ WantsDrain(tk)
  <2>1. ShutdownTicket(tk, stuck) \in {Quarantined(tk, FALSE), [tk EXCEPT !.drainFence = TRUE]}
    BY Zenon, <1>3 DEF ShutdownTicket
  <2>2. InFlight(tk) /\ tk \in TicketRecord
    BY <1>3 DEF InFlight, WantsDrain, TicketInv
  <2>3. ASSUME NEW new \in {Quarantined(tk, FALSE), [tk EXCEPT !.drainFence = TRUE]}
        PROVE  new \in TicketRecord /\ InFlight(new) /\ new.cancelled = tk.cancelled
    BY Zenon, <2>2 DEF Quarantined, InFlight
  <2> QED BY Zenon, <2>1, <2>2, <2>3, FlightMoves
<1>4. CASE tk.state = "COMPLETED" /\ WantsDrain(tk)
  BY <1>4 DEF WantsDrain, TicketInv, FenceInv
<1> QED BY <1>1, <1>2, <1>3, <1>4

LEMMA QueryMoves ==
    ASSUME NEW t \in Tickets, NEW tk \in TicketRecord, NEW fs, InFlight(tk), ~tk.settling,
           ticket \in [Tickets -> TicketRecord], QueryFences(t, tk, fs)
    PROVE  ViewMoves(tk, ticket'[t])
<1>0. PICK asked \in SUBSET fs :
        \E r : ticket' = [ticket EXCEPT ![t] = AfterQuery(tk, asked, r)]
  BY Zenon DEF QueryFences
<1>1. PICK r : ticket' = [ticket EXCEPT ![t] = AfterQuery(tk, asked, r)]
  BY Zenon, <1>0
<1> DEFINE b == \E f \in asked : r[f] \in {"failed", "failed_live"}
           seen == Seen(tk, asked, r)
<1>2. seen = [tk EXCEPT !.execFailed = tk.execFailed \/ b] /\ b \in BOOLEAN
  BY DEF Seen
<1> HIDE DEF b
<1>3. /\ seen \in TicketRecord /\ InFlight(seen) /\ ~seen.settling
      /\ seen.cancelled = tk.cancelled
  BY <1>2 DEF InFlight
<1> HIDE DEF seen
<1>4. TicketView(seen) = TicketView(tk)
  BY SMTT(60), <1>3, ViewForms
<1>5. ticket'[t] \in {Quarantined(seen, FALSE), seen, Finished(seen, Verdict(seen))}
  BY SMTT(60), <1>1 DEF AfterQuery, seen
<1>6. /\ Quarantined(seen, FALSE) \in TicketRecord /\ InFlight(Quarantined(seen, FALSE))
      /\ Quarantined(seen, FALSE).cancelled = tk.cancelled
  BY Zenon, <1>3 DEF Quarantined, InFlight
<1>7. ViewMoves(tk, Quarantined(seen, FALSE))
  BY Zenon, <1>6, FlightMoves
<1>8. ViewMoves(seen, Finished(seen, Verdict(seen)))
  BY SMTT(60), <1>3, VerdictMoves
<1>9. ViewMoves(tk, Finished(seen, Verdict(seen)))
  BY SMTT(60), <1>4, <1>8 DEF ViewMoves
<1>10. ViewMoves(tk, seen)
  BY <1>4 DEF ViewMoves
<1> QED BY Zenon, <1>5, <1>7, <1>9, <1>10

\* Every step of the executor moves each ticket as the protocol allows.
LEMMA ExecutorStepProtocol ==
    ExecutorInv /\ [ExecutorNext]_execVars =>
      \A t \in Tickets : ViewMoves(ticket[t], ticket'[t])
<1> SUFFICES ASSUME ExecutorInv, [ExecutorNext]_execVars, NEW t \in Tickets
             PROVE  ViewMoves(ticket[t], ticket'[t])
  OBVIOUS
<1>0. /\ TicketInv(ticket[t], lease[t], work[t]) /\ ticket[t] \in TicketRecord
      /\ ticket \in [Tickets -> TicketRecord]
  BY DEF ExecutorInv, ExecutorTypeOK
<1> USE DEF TicketInv, StateInv
<1>1. CASE ticket'[t] = ticket[t]
  BY <1>1 DEF ViewMoves
<1>2. CASE Shutdown
  <2>1. PICK stuck : ticket' = [u \in Tickets |-> ShutdownTicket(ticket[u], u \in stuck)]
    BY <1>2 DEF Shutdown
  <2> DEFINE s == t \in stuck
  <2>2. ticket'[t] = ShutdownTicket(ticket[t], s) /\ s \in BOOLEAN
    BY <2>1
  <2> HIDE DEF s
  <2> QED BY SMTT(60), <1>0, <2>2, ShutdownMoves
<1>3. CASE Adopt(t)
  <2>1. ticket[t].state = "ABSENT" /\ ticket'[t].state = "ADOPTED" /\ ~ticket'[t].hostFailure
    BY <1>0, <1>3 DEF Adopt
  <2> QED BY SMTT(60), <2>1, ViewForms DEF ViewMoves, Protocol!Moves
<1>4. CASE Cancel(t)
  BY SMTT(60), <1>0, <1>4, CancelMoves DEF Cancel, Registered
<1>5. CASE LaunchRefused(t)
  <2>1. /\ ticket[t].state = "ADOPTED" /\ ~ticket[t].hostFailure
        /\ ticket'[t].state = "QUARANTINED" /\ ticket'[t].hostFailure
    BY Zenon, <1>0, <1>5 DEF LaunchRefused, Quarantined
  <2> QED BY Zenon, <2>1, ViewForms DEF ViewMoves, Protocol!Moves, Protocol!Launches
<1>6. CASE LaunchEnqueued(t) \/ LaunchFailed(t)
  <2>1. /\ ticket[t].state = "ADOPTED" /\ ticket'[t].state \in {"SUBMITTED", "DRAINING"}
        /\ ticket'[t].cancelled = FALSE /\ ~ticket'[t].hostFailure /\ ~ticket[t].hostFailure
    <3>1. CASE LaunchEnqueued(t)
      BY <1>0, <3>1 DEF LaunchEnqueued
    <3>2. CASE LaunchFailed(t)
      BY <1>0, <3>2 DEF LaunchFailed
    <3> QED BY Zenon, <1>6, <3>1, <3>2
  <2>2. TicketView(ticket'[t]) = Protocol!Live(FALSE)
    BY Zenon, <2>1, ViewForms DEF InFlight
  <2> QED BY Zenon, <2>1, <2>2, ViewForms DEF ViewMoves, Protocol!Moves, Protocol!Launches
<1>7. CASE PollFences(t)
  BY SMTT(60), <1>0, <1>7, QueryMoves DEF PollFences, Pollable, InFlight
<1>8. CASE PollDrain(t)
  <2> DEFINE started == [ticket[t] EXCEPT !.drainFence = TRUE]
  <2>1. InFlight(ticket[t]) /\ ~ticket[t].settling
    BY <1>0, <1>8 DEF PollDrain, Pollable, InFlight
  <2>2. started \in TicketRecord /\ InFlight(started) /\ ~started.settling
        /\ started.cancelled = ticket[t].cancelled
    BY Zenon, <1>0, <2>1 DEF InFlight
  <2>3. CASE QueryFences(t, started, {Drain})
    <3> HIDE DEF started
    <3>1. ViewMoves(started, ticket'[t])
      BY SMTT(60), <1>0, <2>2, <2>3, QueryMoves
    <3>2. TicketView(started) = TicketView(ticket[t])
      BY SMTT(60), <2>1, <2>2, ViewForms
    <3> QED BY SMTT(60), <3>1, <3>2 DEF ViewMoves
  <2>4. CASE ticket' = [ticket EXCEPT ![t] = Quarantined(ticket[t], FALSE)]
    <3>1. ticket'[t] \in TicketRecord /\ InFlight(ticket'[t])
          /\ ticket'[t].cancelled = ticket[t].cancelled
      BY Zenon, <1>0, <2>1, <2>4 DEF Quarantined, InFlight
    <3> QED BY SMTT(60), <1>0, <2>1, <3>1, FlightMoves
  <2> QED BY Zenon, <1>8, <2>3, <2>4 DEF PollDrain
<1>9. CASE BeginSettle(t)
  <2>1. /\ ticket'[t] = [ticket[t] EXCEPT !.settling = TRUE] /\ ~ticket[t].settling
        /\ ticket[t].state = "COMPLETED" /\ ~ticket[t].hostFailure
        /\ ticket[t].terminal \in {"SUCCEEDED", "FAILED", "CANCELLED"}
    BY <1>0, <1>9 DEF BeginSettle
  <2>2. /\ ticket'[t].state = "COMPLETED" /\ ~ticket'[t].hostFailure /\ ticket'[t].settling
        /\ ticket'[t].terminal = ticket[t].terminal
    BY <1>0, <2>1
  <2> QED BY Zenon, <2>1, <2>2, ViewForms DEF ViewMoves, Protocol!Moves, Protocol!Settles
<1>10. CASE Retire(t) \/ SettleFault(t)
  <2>1. /\ ticket[t].settling /\ ticket[t].state = "COMPLETED" /\ ~ticket[t].hostFailure
        /\ ticket[t].terminal \in {"SUCCEEDED", "FAILED", "CANCELLED"}
    BY Zenon, <1>0, <1>10 DEF Retire, SettleFault, CompletionConfirmed
  <2>2. \/ ticket'[t].state = "RETIRED"
        \/ ticket'[t].state = "QUARANTINED" /\ ticket'[t].hostFailure
    <3>1. CASE Retire(t)
      BY <1>0, <3>1 DEF Retire, NoTicket
    <3>2. CASE SettleFault(t)
      BY <1>0, <3>2 DEF SettleFault, Quarantined
    <3> QED BY <1>10, <3>1, <3>2
  <2>3. TicketView(ticket'[t]) \in {Protocol!Plain("gone"), Protocol!Plain("lost")}
    BY SMTT(60), <2>2, ViewForms
  <2> QED BY SMTT(60), <2>1, <2>3, ViewForms DEF ViewMoves, Protocol!Moves, Protocol!Settles
<1>11. ASSUME NEW u \in Tickets \ {t},
              \/ Adopt(u) \/ Cancel(u) \/ Launch(u) \/ Poll(u)
              \/ BeginSettle(u) \/ Retire(u) \/ SettleFault(u)
       PROVE  ticket'[t] = ticket[t]
  BY ZenonT(60), <1>0, <1>11, ZenonT(60) DEF Adopt, Cancel, Launch, LaunchRefused, LaunchEnqueued,
     LaunchFailed, Poll, PollFences, PollDrain, QueryFences, BeginSettle, Retire, SettleFault
<1>12. ASSUME NEW u \in Tickets,
              Initialize \/ AbortPrepared(u) \/ Commit(u) \/ DeviceFinish(u) \/ UNCHANGED execVars
       PROVE  ticket'[t] = ticket[t]
  BY Zenon, <1>12 DEF Initialize, AbortPrepared, Commit, DeviceFinish, execVars
<1> QED BY Zenon, <1>1, <1>2, <1>3, <1>4, <1>5, <1>6, <1>7, <1>8, <1>9, <1>10, <1>11, <1>12
        DEF ExecutorNext, Launch, Poll

\* The executor implements the ticket protocol its settlement relies on, for any
\* tickets and units: a cancelled ticket never comes back successful, an outcome
\* is delivered once and is the one that is settled, and a lost ticket stays lost
\* (Executor.launch, cancel, _poll and shutdown under CompletionCoordinator).
THEOREM ExecutorImplementsTicketProtocol == ExecutorSafety => ImplementsTicketProtocol
<1>1. ExecutorInit => Protocol!ProtocolInit
  <2>1. TicketView(NoTicket) = Protocol!None
    BY SMTT(60), ViewForms DEF NoTicket
  <2> QED BY <2>1 DEF ExecutorInit, Protocol!ProtocolInit
<1>2. ExecutorInv /\ [ExecutorNext]_execVars => Protocol!ProtocolNext
  BY SMTT(60), ExecutorStepProtocol DEF ViewMoves, Protocol!ProtocolNext
<1> QED BY <1>1, <1>2, ExecutorInvariant, PTL
        DEF ExecutorSafety, ImplementsTicketProtocol, Protocol!ProtocolSpec
=============================================================================

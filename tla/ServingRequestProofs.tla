------------------------ MODULE ServingRequestProofs ------------------------
(***************************************************************************)
(* Proofs about the requests of Serving, for any number of clients and any *)
(* limits: every request offered is accounted for.                         *)
(***************************************************************************)
EXTENDS ServingProofs, FiniteSetTheorems

\* The clients that hold a slot of the pipeline, and those with a queued command.
Holding == {c \in Clients : at[c] \in {"preparing", "waiting", "reading", "asleep"}}
Queued == {cmds[i] : i \in 1 .. Len(cmds)}
Withdrawn == {c \in Clients : fut[c] = "cancelled"}
Lost == count.submitted - count.rejected - count.admitted - Len(cmds)

\* A command is queued once, while its future is open; a handle belongs to a
\* future that was given one.
PlaceInv ==
    /\ todo \subseteq handles
    /\ \A c \in Clients : at[c] \in {"absent", "idle", "preparing"} => fut[c] = "none"
    /\ \A c \in handles : fut[c] = "handle"
    /\ \A i, j \in 1 .. Len(cmds) : cmds[i] = cmds[j] => i = j
    /\ \A i \in 1 .. Len(cmds) : fut[cmds[i]] \in {"pending", "cancelled"}
    /\ \A c \in Clients : fut[c] = "pending" => c \in Queued
    /\ flags.stopped => cmds = <<>>

CountInv ==
    /\ Len(cmds) = Cardinality(Queued)
    /\ Lost \in 0 .. (IF flags.stopped THEN Cardinality(Withdrawn) ELSE 0)
    /\ count.admitted = count.settled + Cardinality(handles)
    /\ active = Cardinality(Holding)

Counters == [submitted : Int, rejected : Int, admitted : Int, settled : Int]
CountTypes == count \in Counters

RequestInv == TypeOK /\ CountTypes /\ CacheInv /\ IdleInv /\ PlaceInv /\ CountInv

LEMMA InitRequests == Init => CountTypes /\ PlaceInv /\ CountInv
<1> SUFFICES ASSUME Init PROVE CountTypes /\ PlaceInv /\ CountInv
    OBVIOUS
<1>1. /\ fut = [c \in Clients |-> "none"] /\ cmds = <<>> /\ handles = {} /\ todo = {}
      /\ active = 0
      /\ count = [submitted |-> 0, rejected |-> 0, admitted |-> 0, settled |-> 0]
      /\ flags.stopped = FALSE
    BY DEF Init
<1>2. \A c \in Clients : at[c] \in {"idle", "absent"}
    BY DEF Init
<1>3. Len(cmds) = 0 /\ 1 .. 0 = {}
    BY <1>1
<1>4. Queued = {} /\ Holding = {}
    BY <1>2, <1>3 DEF Queued, Holding
<1>5. Cardinality({}) = 0
    BY FS_EmptySet
<1>6. PlaceInv
    BY <1>1, <1>2, <1>3 DEF PlaceInv
<1>7. Lost = 0
    BY <1>1, <1>3 DEF Lost
<1>8. CountTypes
    BY <1>1 DEF CountTypes, Counters
<1> QED
    BY <1>1, <1>3, <1>4, <1>5, <1>6, <1>7, <1>8 DEF CountInv

LEMMA CountersType ==
    ASSUME NEW f \in Counters
    PROVE  /\ [f EXCEPT !.submitted = @ + 1, !.rejected = @ + 1] \in Counters
           /\ [f EXCEPT !.submitted = @ + 1] \in Counters
           /\ [f EXCEPT !.rejected = @ + 1] \in Counters
           /\ [f EXCEPT !.admitted = @ + 1] \in Counters
           /\ [f EXCEPT !.settled = @ + 1] \in Counters
           /\ \A k \in Int : [f EXCEPT !.rejected = @ + k] \in Counters
<1>1. /\ f.submitted \in Int /\ f.rejected \in Int
      /\ f.admitted \in Int /\ f.settled \in Int
    BY DEF Counters
<1>2. f.submitted + 1 \in Int /\ f.rejected + 1 \in Int
    BY <1>1
<1>3. [f EXCEPT !.submitted = f.submitted + 1, !.rejected = f.rejected + 1] \in Counters
    BY Zenon, <1>2 DEF Counters
<1>4. ASSUME NEW k \in Int PROVE [f EXCEPT !.rejected = @ + k] \in Counters
    BY <1>1 DEF Counters
<1> QED
    BY <1>1, <1>3, <1>4 DEF Counters

LEMMA CountTypesStep == TypeOK /\ CountTypes /\ [Next]_vars => CountTypes'
<1> SUFFICES ASSUME TypeOK, count \in Counters, [Next]_vars PROVE count' \in Counters
    BY DEF CountTypes
<1>1. Cardinality({c \in Clients : fut[c] = "pending"}) \in Int
    BY ServingAssumption, FS_Subset, FS_CardinalityType
<1>2. CASE UNCHANGED count
    BY <1>2
<1>3. ASSUME NEW c \in Clients, Submit(c) PROVE count' \in Counters
    BY Zenon, <1>3, CountersType DEF Submit
<1>4. CASE Admit
    BY Zenon, <1>4, CountersType DEF Admit, AdmitCommand
<1>5. ASSUME NEW c \in Clients, Collect(c) PROVE count' \in Counters
  <2>1. UNCHANGED count \/ count' = [count EXCEPT !.settled = @ + 1]
      BY <1>5, Zenon DEF Collect
  <2> QED
      BY Zenon, <2>1, CountersType
<1>6. CASE Final
    BY Zenon, <1>1, <1>6, CountersType DEF Final
<1>7. ASSUME NEW c \in Clients,
             \/ Reserve(c) \/ PrepareFails(c) \/ Withdraw(c) \/ Leave(c) \/ Resolve(c)
             \/ NextEvent(c) \/ DeviceDone(c) \/ DeviceLost(c)
      PROVE  UNCHANGED count
    BY SMTT(60), <1>7 DEF Reserve, PrepareFails, Withdraw, Leave, Resolve, NextEvent, DeviceDone, DeviceLost
<1>8. ASSUME NEW z \in Admins, AskResize(z) \/ QueueResize(z) \/ ResizeTimesOut(z)
      PROVE  UNCHANGED count
    BY SMTT(60), <1>8 DEF AskResize, QueueResize, ResizeTimesOut
<1>9. WorkerFails \/ AdmitDone \/ TakeControl \/ ControlsDone \/ Answer \/ Step \/ StepRaises
         => UNCHANGED count
    BY SMTT(60) DEF WorkerFails, AdmitDone, TakeControl, ControlsDone, Answer, Step, StepRaises
<1>10. SwapBuild \/ SwapDrop \/ RebuildDrop \/ RebuildBuild \/ Restore => UNCHANGED count
    BY SMTT(60) DEF SwapBuild, SwapDrop, RebuildDrop, RebuildBuild, Restore, ResizeStep
<1>11. Close \/ Fail \/ FailClose \/ FailRest => UNCHANGED count
    BY DEF Close, Fail, FailClose, FailRest
<1>12. Closer => UNCHANGED count
    BY DEF Closer, AskClose, Join, ReadStopped, Teardown, CloseStep
<1>13. UNCHANGED vars => UNCHANGED count
    BY DEF vars
<1> QED
    BY SMTT(60), <1>2, <1>3, <1>4, <1>5, <1>6, <1>7, <1>8, <1>9, <1>10, <1>11, <1>12, <1>13
       DEF Next, Client, Owner

LEMMA FiniteClients ==
    ASSUME NEW S \in SUBSET Clients
    PROVE  /\ IsFiniteSet(S) /\ Cardinality(S) \in Nat
           /\ \A c \in Clients : c \notin S => Cardinality(S \cup {c}) = Cardinality(S) + 1
           /\ \A c \in S : Cardinality(S \ {c}) = Cardinality(S) - 1
<1>1. IsFiniteSet(S) /\ Cardinality(S) \in Nat
    BY ServingAssumption, FS_Subset, FS_CardinalityType
<1>2. ASSUME NEW c \in Clients, c \notin S PROVE Cardinality(S \cup {c}) = Cardinality(S) + 1
    BY Zenon, <1>1, <1>2, FS_AddElement
<1>3. ASSUME NEW c \in S PROVE Cardinality(S \ {c}) = Cardinality(S) - 1
    BY Zenon, <1>1, <1>3, FS_RemoveElement
<1> QED
    BY <1>1, <1>2, <1>3

Slots == {"preparing", "waiting", "reading", "asleep"}

\* The pipeline's slots follow the place of the one client that moves.
LEMMA SlotMoves ==
    ASSUME TypeOK, active = Cardinality(Holding), NEW c \in Clients, NEW p,
           at' = [at EXCEPT ![c] = p],
           \/ (p \in Slots <=> at[c] \in Slots) /\ active' = active
           \/ p \in Slots /\ at[c] \notin Slots /\ active' = active + 1
           \/ p \notin Slots /\ at[c] \in Slots /\ active' = active - 1
    PROVE  active' = Cardinality(Holding')
<1>1. /\ at \in [Clients -> Places] /\ Holding \in SUBSET Clients
      /\ Holding = {d \in Clients : at[d] \in Slots}
      /\ Holding' = {d \in Clients : at'[d] \in Slots}
    BY DEF TypeOK, ClientTypes, Holding, Slots
<1>2. CASE (p \in Slots <=> at[c] \in Slots) /\ active' = active
  <2>1. Holding' = Holding
      BY <1>1, <1>2
  <2> QED
      BY <1>2, <2>1
<1>3. CASE p \in Slots /\ at[c] \notin Slots /\ active' = active + 1
  <2>1. Holding' = Holding \cup {c} /\ c \notin Holding
      BY <1>1, <1>3
  <2> QED
      BY <1>1, <1>3, <2>1, FiniteClients
<1>4. CASE p \notin Slots /\ at[c] \in Slots /\ active' = active - 1
  <2>1. Holding' = Holding \ {c} /\ c \in Holding
      BY <1>1, <1>4
  <2> QED
      BY <1>1, <1>4, <2>1, FiniteClients
<1> QED
    BY <1>2, <1>3, <1>4

\* What the places of the commands depend on.
LEMMA SamePlaces ==
    ASSUME PlaceInv, UNCHANGED <<fut, cmds, handles>>, todo' \subseteq handles,
           flags'.stopped = flags.stopped,
           \A c \in Clients : at'[c] \in {"absent", "idle", "preparing"}
                                 => at[c] \in {"absent", "idle", "preparing"}
    PROVE  PlaceInv'
BY SMTT(60) DEF PlaceInv, Queued

LEMMA SameCounts ==
    ASSUME CountInv, UNCHANGED <<fut, cmds, handles, count>>, flags'.stopped = flags.stopped,
           active' = Cardinality(Holding')
    PROVE  CountInv'
BY Zenon DEF CountInv, Queued, Lost, Withdrawn

LEMMA QueuedType ==
    ASSUME TypeOK
    PROVE  Queued \in SUBSET Clients
<1>1. cmds \in Seq(Clients)
    BY DEF TypeOK, QueueTypes
<1>2. \A i \in 1 .. Len(cmds) : cmds[i] \in Clients
    BY <1>1
<1> QED
    BY <1>2 DEF Queued

\* One more command at the end of the queue.
LEMMA QueuedMore ==
    ASSUME TypeOK, PlaceInv, Len(cmds) = Cardinality(Queued), NEW c \in Clients,
           fut[c] = "none", cmds' = Append(cmds, c)
    PROVE  /\ Queued' = Queued \cup {c}
           /\ Len(cmds') = Len(cmds) + 1 /\ Len(cmds') = Cardinality(Queued')
           /\ \A i \in 1 .. Len(cmds) : cmds'[i] = cmds[i]
           /\ cmds'[Len(cmds) + 1] = c
           /\ c \notin Queued
<1>1. /\ cmds \in Seq(Clients) /\ Len(cmds) \in Nat
      /\ Len(cmds') = Len(cmds) + 1
      /\ \A i \in 1 .. Len(cmds) : cmds'[i] = cmds[i]
      /\ cmds'[Len(cmds) + 1] = c
    BY DEF TypeOK, QueueTypes
<1>2. Queued' = Queued \cup {c} /\ Queued \in SUBSET Clients
  <2>1. 1 .. Len(cmds') = (1 .. Len(cmds)) \cup {Len(cmds) + 1}
      BY <1>1
  <2>2. ASSUME NEW d \in Queued' PROVE d \in Queued \cup {c}
      BY ZenonT(60), <1>1, <2>1 DEF Queued
  <2>3. ASSUME NEW d \in Queued \cup {c} PROVE d \in Queued'
      BY Zenon, <1>1, <2>1 DEF Queued
  <2> QED
      BY <2>2, <2>3, QueuedType
<1>3. c \notin Queued
    BY Zenon DEF PlaceInv, Queued
<1> QED
    BY <1>1, <1>2, <1>3, FiniteClients

\* One command fewer at its head.
LEMMA QueuedLess ==
    ASSUME TypeOK, PlaceInv, Len(cmds) = Cardinality(Queued), cmds # <<>>, cmds' = Tail(cmds)
    PROVE  /\ Head(cmds) \in Queued /\ Head(cmds) \in Clients
           /\ Queued' = Queued \ {Head(cmds)}
           /\ Len(cmds') = Len(cmds) - 1 /\ Len(cmds') = Cardinality(Queued')
           /\ \A i \in 1 .. Len(cmds') : i + 1 \in 1 .. Len(cmds) /\ cmds'[i] = cmds[i + 1]
           /\ cmds' \in Seq(Clients)
<1>1. /\ cmds \in Seq(Clients) /\ Len(cmds) \in Nat /\ Len(cmds) > 0
      /\ Len(cmds') = Len(cmds) - 1 /\ cmds' \in Seq(Clients)
      /\ \A i \in 1 .. Len(cmds') : cmds'[i] = cmds[i + 1]
      /\ Head(cmds) = cmds[1]
    BY DEF TypeOK, QueueTypes
<1>2. \A i \in 1 .. Len(cmds') : i + 1 \in 1 .. Len(cmds) /\ i + 1 # 1
    BY <1>1
<1>3. Head(cmds) \in Queued /\ Head(cmds) \in Clients /\ Queued \in SUBSET Clients
  <2>1. 1 \in 1 .. Len(cmds)
      BY <1>1
  <2> QED
      BY Zenon, <1>1, <2>1, QueuedType DEF Queued
<1>4. Queued' = Queued \ {Head(cmds)}
  <2>1. ASSUME NEW d \in Queued' PROVE d \in Queued \ {Head(cmds)}
    <3>1. PICK i \in 1 .. Len(cmds') : d = cmds'[i]
        BY Zenon DEF Queued
    <3>2. i + 1 \in 1 .. Len(cmds) /\ i + 1 # 1 /\ d = cmds[i + 1] /\ 1 \in 1 .. Len(cmds)
        BY <1>1, <1>2, <3>1
    <3>3. d # cmds[1]
        BY <3>2 DEF PlaceInv
    <3> QED
        BY Zenon, <1>1, <3>2, <3>3 DEF Queued
  <2>2. ASSUME NEW d \in Queued, d # Head(cmds) PROVE d \in Queued'
    <3>1. PICK i \in 1 .. Len(cmds) : d = cmds[i]
        BY Zenon DEF Queued
    <3>2. i # 1
        BY <1>1, <2>2, <3>1
    <3>3. i - 1 \in 1 .. Len(cmds') /\ cmds'[i - 1] = cmds[(i - 1) + 1] /\ (i - 1) + 1 = i
        BY <1>1, <3>2
    <3> QED
        BY Zenon, <3>1, <3>3 DEF Queued
  <2> QED
      BY <2>1, <2>2
<1> QED
    BY <1>1, <1>2, <1>3, <1>4, FiniteClients

LEMMA ClientRequests ==
    ASSUME TypeOK, CountTypes, PlaceInv, CountInv, NEW c \in Clients, Client(c)
    PROVE  PlaceInv' /\ CountInv'
<1>1. at \in [Clients -> Places] /\ active = Cardinality(Holding) /\ todo \subseteq handles
    BY DEF TypeOK, ClientTypes, CountInv, PlaceInv
<1>2. ASSUME UNCHANGED <<fut, cmds, handles, count, todo, flags>>,
             NEW p \in Places, at' = [at EXCEPT ![c] = p],
             p \in {"absent", "idle", "preparing"} => at[c] \in {"absent", "idle", "preparing"},
             \/ (p \in Slots <=> at[c] \in Slots) /\ active' = active
             \/ p \in Slots /\ at[c] \notin Slots /\ active' = active + 1
             \/ p \notin Slots /\ at[c] \in Slots /\ active' = active - 1
      PROVE  PlaceInv' /\ CountInv'
  <2>1. active' = Cardinality(Holding')
      BY Zenon, <1>1, <1>2, SlotMoves
  <2>2. \A d \in Clients : at'[d] \in {"absent", "idle", "preparing"}
                              => at[d] \in {"absent", "idle", "preparing"}
      BY <1>1, <1>2
  <2> QED
      BY <1>1, <1>2, <2>1, <2>2, SamePlaces, SameCounts
<1>3. CASE Reserve(c)
  <2>1. at[c] = "idle" /\ UNCHANGED <<fut, cmds, handles, count, todo, flags>>
      BY <1>3 DEF Reserve, queueVars
  <2>2. \/ at' = [at EXCEPT ![c] = "preparing"] /\ active' = active + 1
        \/ at' = [at EXCEPT ![c] = "refused"] /\ active' = active
      BY <1>3 DEF Reserve
  <2> QED
      BY <1>2, <2>1, <2>2 DEF Places, Slots
<1>4. CASE PrepareFails(c)
  <2>1. /\ at[c] = "preparing" /\ UNCHANGED <<fut, cmds, handles, count, todo, flags>>
        /\ at' = [at EXCEPT ![c] = "refused"] /\ active' = active - 1
      BY <1>4 DEF PrepareFails, GivesUp, queueVars
  <2> QED
      BY <1>2, <2>1 DEF Places, Slots
<1>5. CASE Resolve(c)
  <2>1. at[c] = "waiting" /\ UNCHANGED <<fut, cmds, handles, count, todo, flags>>
      BY <1>5 DEF Resolve, queueVars
  <2>2. \/ at' = [at EXCEPT ![c] = "reading"] /\ active' = active
        \/ at' = [at EXCEPT ![c] = "refused"] /\ active' = active - 1
      BY <1>5 DEF Resolve, GivesUp
  <2> QED
      BY <1>2, <2>1, <2>2 DEF Places, Slots
<1>6. CASE Leave(c)
  <2>1. /\ at[c] \in {"reading", "asleep"} /\ UNCHANGED <<fut, cmds, handles, count, todo, flags>>
        /\ at' = [at EXCEPT ![c] = "left"] /\ active' = active - 1
      BY <1>6 DEF Leave, Release, queueVars
  <2> QED
      BY SMTT(60), <1>2, <2>1 DEF Places, Slots
<1>7. CASE NextEvent(c)
  <2>1. at[c] = "reading" /\ UNCHANGED <<fut, cmds, handles, count, todo, flags>>
      BY <1>7 DEF NextEvent, queueVars
  <2>2. \/ at' = [at EXCEPT ![c] = "asleep"] /\ active' = active
        \/ at' = at /\ active' = active
        \/ at' = [at EXCEPT ![c] = "done"] /\ active' = active - 1
      BY <1>7 DEF NextEvent, Release
  <2>3. CASE at' = at /\ active' = active
    <3>1. active' = Cardinality(Holding')
        BY <1>1, <2>3 DEF Holding
    <3> QED
        BY <1>1, <2>1, <2>3, <3>1, SamePlaces, SameCounts
  <2> QED
      BY <1>2, <2>1, <2>2, <2>3 DEF Places, Slots
<1>8. CASE Withdraw(c)
  <2>1. /\ at[c] = "waiting" /\ UNCHANGED <<cmds, handles, count, todo, flags>>
        /\ at' = [at EXCEPT ![c] = "withdrawn"] /\ active' = active - 1
        /\ fut' = [fut EXCEPT ![c] = IF @ = "pending" THEN "cancelled" ELSE @]
      BY <1>8 DEF Withdraw
  <2>2. /\ \A d \in Clients : fut'[d] = fut[d] \/ (fut[d] = "pending" /\ fut'[d] = "cancelled")
        /\ cmds \in Seq(Clients)
      BY <2>1 DEF TypeOK, QueueTypes
  <2>3. active' = Cardinality(Holding')
      BY Zenon, <1>1, <2>1, SlotMoves DEF Slots
  <2>4. PlaceInv'
    <3>1. \A d \in Clients : at'[d] \in {"absent", "idle", "preparing"}
                                => at[d] \in {"absent", "idle", "preparing"}
        BY <1>1, <2>1
    <3>2. \A d \in handles : fut'[d] = "handle"
        BY SMTT(60), <2>2 DEF PlaceInv, TypeOK, HandleTypes
    <3>3. \A i \in 1 .. Len(cmds) : fut'[cmds[i]] \in {"pending", "cancelled"}
        BY SMTT(60), <2>2 DEF PlaceInv
    <3>4. \A d \in Clients : at'[d] \in {"absent", "idle", "preparing"} => fut'[d] = "none"
        BY <2>2, <3>1 DEF PlaceInv
    <3>5. \A d \in Clients : fut'[d] = "pending" => d \in Queued'
        BY <2>1, <2>2 DEF PlaceInv, Queued
    <3> QED
        BY SMTT(60), <2>1, <3>2, <3>3, <3>4, <3>5 DEF PlaceInv
  <2>5. CountInv'
    <3>1. Cardinality(Withdrawn) <= Cardinality(Withdrawn') /\ Cardinality(Withdrawn') \in Nat
      <4>1. Withdrawn \subseteq Withdrawn' /\ Withdrawn' \in SUBSET Clients
          BY <2>2 DEF Withdrawn
      <4> QED
          BY <4>1, FiniteClients, FS_Subset
    <3>2. Lost' = Lost /\ Queued' = Queued /\ Cardinality(Withdrawn) \in Nat
      <4>1. Withdrawn \in SUBSET Clients
          BY DEF Withdrawn
      <4>2. Lost' = Lost /\ Queued' = Queued
          BY SMTT(60), <2>1 DEF Lost, Queued
      <4> QED
          BY <4>1, <4>2, FiniteClients
    <3>3. Lost' \in 0 .. (IF flags'.stopped THEN Cardinality(Withdrawn') ELSE 0)
        BY SMTT(60), <2>1, <3>1, <3>2 DEF CountInv
    <3> QED
        BY <2>1, <2>3, <3>2, <3>3 DEF CountInv
  <2> QED
      BY <2>4, <2>5
<1>9. CASE Submit(c)
  <2>1. at[c] = "preparing" /\ UNCHANGED <<handles, todo, flags>> /\ CountTypes
      BY <1>9 DEF Submit, CountTypes
  <2>2. CASE GivesUp(c) /\ UNCHANGED <<fut, cmds, count>>
      BY <1>2, <2>1, <2>2 DEF GivesUp, Places, Slots
  <2>3. CASE /\ GivesUp(c) /\ UNCHANGED <<fut, cmds>>
             /\ count' = [count EXCEPT !.submitted = @ + 1, !.rejected = @ + 1]
    <3>1. at' = [at EXCEPT ![c] = "refused"] /\ active' = active - 1
        BY <2>3 DEF GivesUp
    <3>2. active' = Cardinality(Holding')
        BY Zenon, <1>1, <2>1, <3>1, SlotMoves DEF Slots
    <3>3. \A d \in Clients : at'[d] \in {"absent", "idle", "preparing"}
                                => at[d] \in {"absent", "idle", "preparing"}
        BY <1>1, <3>1
    <3>4. /\ count'.submitted = count.submitted + 1 /\ count'.rejected = count.rejected + 1
          /\ count'.admitted = count.admitted /\ count'.settled = count.settled
          /\ count.submitted \in Int /\ count.rejected \in Int /\ count.admitted \in Int
          /\ Len(cmds) \in Int
        BY <2>1, <2>3 DEF CountTypes, Counters, TypeOK, QueueTypes
    <3>5. Lost' = Lost
        BY SMTT(60), <2>3, <3>4 DEF Lost
    <3>6. PlaceInv'
        BY <1>1, <2>1, <2>3, <3>3, SamePlaces
    <3> QED
        BY Zenon, <2>1, <2>3, <3>2, <3>4, <3>5, <3>6 DEF CountInv, Queued, Withdrawn
  <2>4. CASE /\ Ready
             /\ at' = [at EXCEPT ![c] = "waiting"] /\ active' = active
             /\ count' = [count EXCEPT !.submitted = @ + 1]
             /\ cmds' = Append(cmds, c)
             /\ fut' = [fut EXCEPT ![c] = "pending"]
    <3>1. active' = Cardinality(Holding')
        BY Zenon, <1>1, <2>1, <2>4, SlotMoves DEF Slots
    <3>2. /\ fut[c] = "none" /\ ~flags.stopped /\ fut'[c] = "pending"
          /\ \A d \in Clients \ {c} : fut'[d] = fut[d] /\ at'[d] = at[d]
          /\ at'[c] = "waiting"
        BY <1>1, <2>1, <2>4 DEF PlaceInv, Ready, TypeOK, QueueTypes
    <3>3. /\ Queued' = Queued \cup {c}
          /\ Len(cmds') = Len(cmds) + 1 /\ Len(cmds') = Cardinality(Queued')
          /\ \A i \in 1 .. Len(cmds) : cmds'[i] = cmds[i]
          /\ cmds'[Len(cmds) + 1] = c
          /\ c \notin Queued
        BY <2>4, <3>2, QueuedMore DEF CountInv
    <3>4. cmds \in Seq(Clients) /\ Len(cmds) \in Nat
        BY DEF TypeOK, QueueTypes
    <3>5. \A i \in 1 .. Len(cmds') : i \in 1 .. Len(cmds) \/ i = Len(cmds) + 1
        BY <3>3, <3>4
    <3>6. \A i \in 1 .. Len(cmds) : cmds[i] # c /\ cmds[i] \in Clients
        BY <3>3, <3>4 DEF Queued
    <3>7. PlaceInv'
      <4>1. \A i, j \in 1 .. Len(cmds') : cmds'[i] = cmds'[j] => i = j
          BY SMTT(60), <3>3, <3>5, <3>6 DEF PlaceInv
      <4>2. \A i \in 1 .. Len(cmds') : fut'[cmds'[i]] \in {"pending", "cancelled"}
          BY SMTT(60), <3>2, <3>3, <3>5, <3>6 DEF PlaceInv
      <4>3. \A d \in Clients : fut'[d] = "pending" => d \in Queued'
          BY SMTT(60), <3>2, <3>3 DEF PlaceInv
      <4>4. \A d \in handles : fut'[d] = "handle"
          BY SMTT(60), <3>2 DEF PlaceInv, TypeOK, HandleTypes
      <4>5. \A d \in Clients : at'[d] \in {"absent", "idle", "preparing"} => fut'[d] = "none"
          BY SMTT(60), <3>2 DEF PlaceInv
      <4> QED
          BY SMTT(60), <2>1, <3>2, <4>1, <4>2, <4>3, <4>4, <4>5 DEF PlaceInv
    <3>8. /\ count'.submitted = count.submitted + 1 /\ count'.rejected = count.rejected
          /\ count'.admitted = count.admitted /\ count'.settled = count.settled
          /\ count.submitted \in Int /\ count.rejected \in Int /\ count.admitted \in Int
        BY <2>1, <2>4 DEF CountTypes, Counters
    <3>9. Lost' = Lost
        BY SMTT(60), <3>3, <3>4, <3>8 DEF Lost
    <3>10. Lost' \in 0 .. (IF flags'.stopped THEN Cardinality(Withdrawn') ELSE 0)
        BY SMTT(60), <2>1, <3>2, <3>9 DEF CountInv
    <3> QED
        BY SMTT(60), <2>1, <3>1, <3>3, <3>7, <3>8, <3>10 DEF CountInv
  <2> QED
      BY <1>9, <2>2, <2>3, <2>4 DEF Submit
<1> QED
    BY <1>3, <1>4, <1>5, <1>6, <1>7, <1>8, <1>9 DEF Client

LEMMA AdmitRequests ==
    ASSUME TypeOK, CountTypes, PlaceInv, CountInv, Admit
    PROVE  PlaceInv' /\ CountInv'
<1> DEFINE c == Head(cmds)
<1>1. /\ cmds # <<>> /\ cmds' = Tail(cmds) /\ AdmitCommand(c)
      /\ UNCHANGED <<at, active, pc, todo, flags>> /\ pc = "admit"
    BY DEF Admit, clientVars
<1> HIDE DEF c
<1>2. /\ c \in Queued /\ c \in Clients /\ Queued' = Queued \ {c}
      /\ Len(cmds') = Len(cmds) - 1 /\ Len(cmds') = Cardinality(Queued')
      /\ \A i \in 1 .. Len(cmds') : i + 1 \in 1 .. Len(cmds) /\ cmds'[i] = cmds[i + 1]
      /\ cmds' \in Seq(Clients)
    BY <1>1, QueuedLess DEF CountInv, c
<1>3. /\ Len(cmds) \in Nat /\ Len(cmds') \in Nat /\ CountTypes
      /\ handles \in SUBSET Clients /\ Queued \in SUBSET Clients
      /\ fut \in [Clients -> {"none", "pending", "cancelled", "handle", "error"}]
    BY SMTT(60), <1>2, QueuedType DEF TypeOK, QueueTypes, CountTypes, HandleTypes
<1>4. ~flags.stopped
    BY <1>1 DEF PlaceInv
<1>5. \A i \in 1 .. Len(cmds') : cmds'[i] \in Queued'
    BY DEF Queued
<1>6. \A i, j \in 1 .. Len(cmds') : cmds'[i] = cmds'[j] => i = j
  <2> SUFFICES ASSUME NEW i \in 1 .. Len(cmds'), NEW j \in 1 .. Len(cmds'), cmds'[i] = cmds'[j]
               PROVE  i = j
      OBVIOUS
  <2>1. /\ i + 1 \in 1 .. Len(cmds) /\ j + 1 \in 1 .. Len(cmds)
        /\ cmds[i + 1] = cmds[j + 1]
      BY Zenon, <1>2
  <2>2. \A k, m \in 1 .. Len(cmds) : cmds[k] = cmds[m] => k = m
      BY SMTT(60) DEF PlaceInv
  <2>3. i + 1 = j + 1
      BY <2>1, <2>2
  <2> QED
      BY <1>3, <2>3
<1>7. ASSUME \A d \in Clients \ {c} : fut'[d] = fut[d], fut'[c] # "pending",
             handles' = handles \/ (handles' = handles \cup {c} /\ fut'[c] = "handle"),
             c \in handles => fut'[c] = "handle",
             fut[c] \in {"pending", "cancelled"}
      PROVE  PlaceInv'
  <2>1. \A i \in 1 .. Len(cmds') : fut'[cmds'[i]] \in {"pending", "cancelled"}
    <3>1. \A i \in 1 .. Len(cmds') : cmds'[i] \in Clients \ {c}
        BY Zenon, <1>2, <1>3, <1>5
    <3>2. \A i \in 1 .. Len(cmds') : fut[cmds'[i]] \in {"pending", "cancelled"}
        BY ZenonT(60), <1>2 DEF PlaceInv
    <3> QED
        BY <1>7, <3>1, <3>2
  <2>2. \A d \in Clients : fut'[d] = "pending" => d \in Queued'
      BY SMTT(60), <1>2, <1>7 DEF PlaceInv
  <2>3. \A d \in handles' : fut'[d] = "handle"
      BY SMTT(60), <1>3, <1>7 DEF PlaceInv
  <2>4. \A d \in Clients : at'[d] \in {"absent", "idle", "preparing"} => fut'[d] = "none"
      BY SMTT(60), <1>1, <1>7 DEF PlaceInv
  <2>5. todo' \subseteq handles'
      BY SMTT(60), <1>1, <1>7 DEF PlaceInv
  <2> QED
      BY SMTT(60), <1>1, <1>4, <1>6, <2>1, <2>2, <2>3, <2>4, <2>5 DEF PlaceInv
<1>8. /\ count.submitted \in Int /\ count.rejected \in Int /\ count.admitted \in Int
      /\ count.settled \in Int /\ Cardinality(handles) \in Nat /\ Lost = 0
  <2>1. Lost \in 0 .. 0
      BY <1>4 DEF CountInv
  <2> QED
      BY <1>3, <2>1, FiniteClients DEF CountTypes, Counters
<1>9. ASSUME Lost' = 0, count'.admitted = count'.settled + Cardinality(handles')
      PROVE  CountInv'
  <2>1. active' = Cardinality(Holding')
      BY <1>1 DEF CountInv, Holding
  <2>2. Lost' \in 0 .. (IF flags'.stopped THEN Cardinality(Withdrawn') ELSE 0)
      BY <1>1, <1>4, <1>9
  <2> QED
      BY SMTT(60), <1>2, <1>9, <2>1, <2>2 DEF CountInv
<1>10. CASE /\ count' = [count EXCEPT !.rejected = @ + 1]
            /\ UNCHANGED handles
            /\ \/ fut[c] = "cancelled" /\ fut' = fut
               \/ fut[c] = "pending" /\ fut' = [fut EXCEPT ![c] = "error"]
  <2>1. /\ count'.submitted = count.submitted /\ count'.rejected = count.rejected + 1
        /\ count'.admitted = count.admitted /\ count'.settled = count.settled
      BY <1>3, <1>10 DEF CountTypes, Counters
  <2>2. Lost' = 0
      BY SMTT(60), <1>2, <1>3, <1>8, <2>1 DEF Lost
  <2>3. CountInv'
      BY <1>9, <1>10, <2>1, <2>2 DEF CountInv
  <2>4. c \notin handles
      BY <1>10 DEF PlaceInv
  <2>5. PlaceInv'
      BY <1>2, <1>3, <1>7, <1>10, <2>4
  <2> QED
      BY <2>3, <2>5
<1>11. CASE /\ fut[c] = "pending"
            /\ count' = [count EXCEPT !.admitted = @ + 1]
            /\ fut' = [fut EXCEPT ![c] = "handle"]
            /\ handles' = handles \cup {c}
  <2>1. /\ count'.submitted = count.submitted /\ count'.rejected = count.rejected
        /\ count'.admitted = count.admitted + 1 /\ count'.settled = count.settled
      BY <1>3, <1>11 DEF CountTypes, Counters
  <2>2. Lost' = 0
      BY SMTT(60), <1>2, <1>3, <1>8, <2>1 DEF Lost
  <2>3. c \notin handles
      BY <1>11 DEF PlaceInv
  <2>4. Cardinality(handles') = Cardinality(handles) + 1
      BY <1>2, <1>3, <1>11, <2>3, FiniteClients
  <2>5. CountInv'
      BY SMTT(60), <1>8, <1>9, <2>1, <2>2, <2>4 DEF CountInv
  <2>6. PlaceInv'
      BY <1>2, <1>3, <1>7, <1>11
  <2> QED
      BY <2>5, <2>6
<1> QED
    BY <1>1, <1>10, <1>11 DEF AdmitCommand

LEMMA CollectRequests ==
    ASSUME TypeOK, CountTypes, PlaceInv, CountInv, NEW c \in Clients, Collect(c)
    PROVE  PlaceInv' /\ CountInv'
<1>1. /\ c \in todo /\ c \in handles /\ at' = Woken({c}) /\ UNCHANGED <<active, fut, cmds>>
      /\ CollectNext(pc, todo \ {c})
    BY DEF Collect, queueVars, PlaceInv
<1>2. /\ pc \in Collecting /\ todo \ {c} \in SUBSET Clients /\ handles \in SUBSET Clients
      /\ at \in [Clients -> Places] /\ CountTypes
    BY <1>1 DEF TypeOK, OwnerTypes, HandleTypes, ClientTypes, CountTypes
<1>3. flags'.stopped = flags.stopped /\ todo' = todo \ {c}
    BY <1>1, <1>2, CollectNextType DEF CollectNext
<1>4. \A d \in Clients : at'[d] = at[d] \/ (at[d] = "asleep" /\ at'[d] = "reading")
    BY SMTT(60), <1>1, <1>2 DEF Woken
<1>5. Holding' = Holding
    BY <1>4 DEF Holding
<1>6. \/ UNCHANGED <<handles, count>>
      \/ handles' = handles \ {c} /\ count' = [count EXCEPT !.settled = @ + 1]
    BY DEF Collect
<1>7. PlaceInv'
  <2>1. todo' \subseteq handles' /\ handles' \subseteq handles
      BY <1>3, <1>6 DEF PlaceInv
  <2>2. \A d \in Clients : at'[d] \in {"absent", "idle", "preparing"} => fut'[d] = "none"
      BY Zenon, <1>1, <1>4 DEF PlaceInv
  <2>3. \A d \in handles' : fut'[d] = "handle"
      BY Zenon, <1>1, <2>1 DEF PlaceInv
  <2>4. Queued' = Queued
      BY Zenon, <1>1 DEF Queued
  <2>5. /\ \A i, j \in 1 .. Len(cmds') : cmds'[i] = cmds'[j] => i = j
        /\ \A i \in 1 .. Len(cmds') : fut'[cmds'[i]] \in {"pending", "cancelled"}
        /\ \A d \in Clients : fut'[d] = "pending" => d \in Queued'
    <3>1. cmds' = cmds /\ fut' = fut
        BY <1>1
    <3>2. \A i, j \in 1 .. Len(cmds') : cmds'[i] = cmds'[j] => i = j
      <4>1. \A i, j \in 1 .. Len(cmds) : cmds[i] = cmds[j] => i = j
          BY Zenon DEF PlaceInv
      <4> QED
          BY <3>1, <4>1
    <3>3. \A i \in 1 .. Len(cmds') : fut'[cmds'[i]] \in {"pending", "cancelled"}
        BY Zenon, <3>1 DEF PlaceInv
    <3>4. \A d \in Clients : fut'[d] = "pending" => d \in Queued'
        BY Zenon, <3>1, <2>4 DEF PlaceInv
    <3> QED
        BY Zenon, <3>2, <3>3, <3>4
  <2>6. flags'.stopped => cmds' = <<>>
      BY Zenon, <1>1, <1>3 DEF PlaceInv
  <2> QED
      BY Zenon, <2>1, <2>2, <2>3, <2>5, <2>6 DEF PlaceInv
<1>8. active' = Cardinality(Holding')
    BY <1>1, <1>5 DEF CountInv
<1>9. CASE UNCHANGED <<handles, count>>
    BY SMTT(60), <1>1, <1>3, <1>7, <1>8, <1>9, SameCounts
<1>10. CASE handles' = handles \ {c} /\ count' = [count EXCEPT !.settled = @ + 1]
  <2>1. /\ count'.submitted = count.submitted /\ count'.rejected = count.rejected
        /\ count'.admitted = count.admitted /\ count'.settled = count.settled + 1
        /\ count.settled \in Int
      BY <1>2, <1>10 DEF CountTypes, Counters
  <2>2. Cardinality(handles') = Cardinality(handles) - 1 /\ Cardinality(handles) \in Nat
      BY <1>1, <1>2, <1>10, FiniteClients
  <2>3. Lost' = Lost /\ Queued' = Queued /\ Withdrawn' = Withdrawn
    <3>1. cmds' = cmds /\ fut' = fut
        BY <1>1
    <3> QED
        BY Zenon, <2>1, <3>1 DEF Lost, Queued, Withdrawn
  <2>4. count'.admitted = count'.settled + Cardinality(handles')
      BY SMTT(60), <2>1, <2>2 DEF CountInv
  <2> QED
      BY SMTT(60), <1>1, <1>3, <1>7, <1>8, <2>3, <2>4 DEF CountInv
<1> QED
    BY <1>6, <1>9, <1>10

LEMMA FinalRequests ==
    ASSUME TypeOK, CountTypes, PlaceInv, CountInv, IdleInv, Final
    PROVE  PlaceInv' /\ CountInv'
<1> DEFINE left == {c \in Clients : fut[c] = "pending"}
<1>1. /\ pc = "final" /\ flags' = [flags EXCEPT !.stopped = TRUE]
      /\ fut' = [c \in Clients |-> IF c \in left THEN "error" ELSE fut[c]]
      /\ count' = [count EXCEPT !.rejected = @ + Cardinality(left)]
      /\ cmds' = <<>> /\ UNCHANGED <<at, active, handles, todo>>
    BY DEF Final, clientVars
<1>2. /\ flags'.stopped /\ ~flags.stopped
      /\ handles \in SUBSET Clients /\ CountTypes /\ left \in SUBSET Clients
      /\ Queued \in SUBSET Clients /\ Withdrawn \in SUBSET Clients
    BY <1>1, QueuedType DEF IdleInv, TypeOK, OwnerTypes, Flags, HandleTypes, CountTypes, Withdrawn
<1>3. Len(cmds') = 0 /\ 1 .. 0 = {}
    BY <1>1
<1>4. Queued' = {}
    BY <1>3 DEF Queued
<1>5. PlaceInv'
  <2>1. \A d \in handles : fut'[d] = "handle"
      BY <1>1, <1>2 DEF PlaceInv
  <2>2. \A d \in Clients : at'[d] \in {"absent", "idle", "preparing"} => fut'[d] = "none"
      BY <1>1 DEF PlaceInv
  <2>3. \A d \in Clients : fut'[d] # "pending"
      BY <1>1
  <2> QED
      BY <1>1, <1>3, <2>1, <2>2, <2>3 DEF PlaceInv
<1>6. left \subseteq Queued /\ Queued \ left \subseteq Withdrawn
  <2>1. left \subseteq Queued
      BY SMTT(60) DEF PlaceInv
  <2>2. \A d \in Queued : fut[d] \in {"pending", "cancelled"}
      BY SMTT(60) DEF PlaceInv, Queued
  <2> QED
      BY <1>2, <2>1, <2>2 DEF Withdrawn
<1>7. Withdrawn' = Withdrawn
    BY <1>1 DEF Withdrawn
<1> HIDE DEF left
<1>8. /\ Cardinality(Queued) \in Nat /\ Cardinality(left) \in Nat /\ Cardinality(Withdrawn) \in Nat
      /\ IsFiniteSet(Queued) /\ IsFiniteSet(left) /\ IsFiniteSet(Withdrawn)
    BY <1>2, FiniteClients
<1>9. /\ Cardinality(left) <= Cardinality(Queued)
      /\ Cardinality(Queued) - Cardinality(left) <= Cardinality(Withdrawn)
  <2>1. Cardinality(left) <= Cardinality(Queued)
      BY SMTT(60), <1>6, <1>8, FS_Subset
  <2>2. Cardinality(Queued \ left) = Cardinality(Queued) - Cardinality(Queued \cap left)
      BY Zenon, <1>8, FS_Difference
  <2>3. Queued \cap left = left
      BY <1>6
  <2>4. Cardinality(Queued \ left) <= Cardinality(Withdrawn)
      BY <1>6, <1>8, FS_Subset
  <2> QED
      BY <2>1, <2>2, <2>3, <2>4
<1>10. /\ count'.submitted = count.submitted
       /\ count'.rejected = count.rejected + Cardinality(left)
       /\ count'.admitted = count.admitted /\ count'.settled = count.settled
       /\ count.submitted \in Int /\ count.rejected \in Int /\ count.admitted \in Int
    BY <1>1, <1>2, <1>8 DEF CountTypes, Counters
<1>11. Lost' = Cardinality(Queued) - Cardinality(left)
  <2>1. Lost \in 0 .. 0 /\ Len(cmds) = Cardinality(Queued)
      BY <1>2 DEF CountInv
  <2>2. count.submitted - count.rejected - count.admitted = Cardinality(Queued)
      BY SMTT(60), <1>8, <1>10, <2>1 DEF Lost
  <2>3. Lost' = count.submitted - (count.rejected + Cardinality(left)) - count.admitted - 0
      BY <1>3, <1>10 DEF Lost
  <2> QED
      BY SMTT(60), <1>8, <1>10, <2>2, <2>3
<1>12. Lost' \in 0 .. (IF flags'.stopped THEN Cardinality(Withdrawn') ELSE 0)
    BY <1>2, <1>7, <1>8, <1>9, <1>11
<1>13. active' = Cardinality(Holding') /\ count'.admitted = count'.settled + Cardinality(handles')
    BY <1>1, <1>10 DEF CountInv, Holding
<1>14. Len(cmds') = Cardinality(Queued')
    BY <1>3, <1>4, FS_EmptySet
<1> QED
    BY <1>5, <1>12, <1>13, <1>14 DEF CountInv

LEMMA RequestStep ==
    TypeOK /\ CountTypes /\ IdleInv /\ PlaceInv /\ CountInv /\ [Next]_vars
       => PlaceInv' /\ CountInv'
<1> SUFFICES ASSUME TypeOK, CountTypes, IdleInv, PlaceInv, CountInv, [Next]_vars
             PROVE  PlaceInv' /\ CountInv'
    OBVIOUS
<1>1. handles \in SUBSET Clients /\ flags \in Flags /\ at \in [Clients -> Places]
    BY DEF TypeOK, HandleTypes, OwnerTypes, ClientTypes
<1>2. ASSUME UNCHANGED <<active, fut, cmds, handles, count>>, flags'.stopped = flags.stopped,
             todo' = todo \/ todo' = handles,
             at' = at \/ \E S \in SUBSET Clients : at' = Woken(S)
      PROVE  PlaceInv' /\ CountInv'
  <2>1. \A d \in Clients : at'[d] = at[d] \/ (at[d] = "asleep" /\ at'[d] = "reading")
      BY SMTT(60), <1>1, <1>2 DEF Woken
  <2>2. Holding' = Holding
      BY <2>1 DEF Holding
  <2>3. active' = Cardinality(Holding')
      BY <1>2, <2>2 DEF CountInv
  <2>4. todo' \subseteq handles
      BY <1>2 DEF PlaceInv
  <2>5. PlaceInv'
      BY SMTT(60), <1>2, <2>1, <2>4, SamePlaces
  <2> QED
      BY SMTT(60), <1>2, <2>3, <2>5, SameCounts
<1>3. CASE UNCHANGED vars
    BY SMTT(60), <1>2, <1>3 DEF vars
<1>4. ASSUME NEW c \in Clients, DeviceDone(c) \/ DeviceLost(c)
      PROVE  PlaceInv' /\ CountInv'
    BY <1>2, <1>4 DEF DeviceDone, DeviceLost, clientVars, queueVars
<1>5. ASSUME NEW z \in Admins, AskResize(z) \/ QueueResize(z) \/ ResizeTimesOut(z)
      PROVE  PlaceInv' /\ CountInv'
    BY SMTT(60), <1>2, <1>5 DEF AskResize, QueueResize, ResizeTimesOut, clientVars
<1>6. CASE WorkerFails \/ AdmitDone \/ ControlsDone \/ StepRaises
  <2>1. CASE WorkerFails
      BY <1>2, <2>1 DEF WorkerFails, clientVars, queueVars
  <2>2. CASE AdmitDone
      BY <1>2, <2>2 DEF AdmitDone, clientVars, queueVars
  <2>3. CASE ControlsDone
      BY <1>2, <2>3 DEF ControlsDone, clientVars, queueVars
  <2>4. CASE StepRaises
      BY <1>2, <2>4 DEF StepRaises, clientVars, queueVars
  <2> QED
      BY Zenon, <1>6, <2>1, <2>2, <2>3, <2>4
<1>7. CASE TakeControl \/ Answer
    BY SMTT(60), <1>2, <1>7 DEF TakeControl, Answer, clientVars
<1>8. CASE SwapBuild \/ SwapDrop \/ RebuildDrop \/ RebuildBuild \/ Restore
  <2>1. \E next, reply : ResizeStep(next, reply)
      BY <1>8 DEF SwapBuild, SwapDrop, RebuildDrop, RebuildBuild, Restore
  <2> QED
      BY <1>2, <2>1 DEF ResizeStep, clientVars, queueVars
<1>9. CASE AskClose \/ Join \/ ReadStopped \/ Teardown
  <2>1. \E next : CloseStep(next)
    <3>1. CASE AskClose
        BY Zenon, <3>1 DEF AskClose
    <3>2. CASE Join
        BY Zenon, <3>2 DEF Join
    <3>3. CASE ReadStopped
        BY Zenon, <3>3 DEF ReadStopped
    <3>4. CASE Teardown
        BY Zenon, <3>4 DEF Teardown
    <3> QED
        BY Zenon, <1>9, <3>1, <3>2, <3>3, <3>4
  <2>2. flags'.stopped = flags.stopped
      BY <1>1, <1>9 DEF AskClose, Join, ReadStopped, Teardown, Flags
  <2> QED
      BY SMTT(60), <1>2, <2>1, <2>2 DEF CloseStep, clientVars, queueVars
<1>10. ASSUME NEW phase \in Collecting, CollectNext(phase, handles)
       PROVE  todo' = handles /\ flags'.stopped = flags.stopped
    BY <1>1, <1>10, CollectNextType DEF CollectNext
<1>11. CASE Step \/ Close \/ FailClose
  <2>1. UNCHANGED <<at, active, fut, cmds, handles, count>>
    <3>1. CASE Step
        BY <3>1 DEF Step, clientVars, queueVars
    <3>2. CASE Close
        BY <3>2 DEF Close, clientVars, queueVars
    <3>3. CASE FailClose
        BY <3>3 DEF FailClose, clientVars, queueVars
    <3> QED
        BY Zenon, <1>11, <3>1, <3>2, <3>3
  <2>2. \/ \E phase \in Collecting : CollectNext(phase, handles)
        \/ UNCHANGED <<todo, flags>>
      BY SMTT(60), <1>11 DEF Step, Close, FailClose, Collecting
  <2>3. (todo' = handles \/ todo' = todo) /\ flags'.stopped = flags.stopped
      BY <1>10, <2>2
  <2> QED
      BY SMTT(60), <1>2, <2>1, <2>3
<1>12. CASE Fail \/ FailRest
  <2>1. flags'.stopped = flags.stopped
      BY <1>1, <1>12 DEF Fail, FailRest, Flags
  <2> QED
      BY <1>1, <1>2, <1>12, <2>1 DEF Fail, FailRest, clientVars, queueVars
<1> QED
    BY SMTT(60), <1>3, <1>4, <1>5, <1>6, <1>7, <1>8, <1>9, <1>11, <1>12, ClientRequests, AdmitRequests,
       CollectRequests, FinalRequests DEF Next, Owner, Closer

\* Every request offered is queued, rejected or admitted, every admitted one is
\* settled or has a handle, and the pipeline's slots are the clients that hold one,
\* for any number of clients and any limits (ServingService.submit, _admit,
\* _collect and the finally clause of _run).
THEOREM RequestsConserved == Spec => []RequestsAreConserved
<1>1. Init => RequestInv
    BY InitTypeOK, InitTail, InitRequests DEF RequestInv
<1>2. RequestInv /\ [Next]_vars => RequestInv'
    BY TypeStep, CountTypesStep, TailStep, RequestStep DEF RequestInv
<1>3. RequestInv => RequestsAreConserved
    BY SMTT(60) DEF RequestInv, CountInv, RequestsAreConserved, Lost, Withdrawn, Holding
<1> QED
    BY <1>1, <1>2, <1>3, PTL DEF Spec
=============================================================================

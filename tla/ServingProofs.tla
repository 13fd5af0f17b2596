---------------------------- MODULE ServingProofs ----------------------------
(***************************************************************************)
(* Proofs about Serving, for any clients, admins, cache generations,       *)
(* limits and scenarios: resizes are all or nothing, and a cache           *)
(* generation is released only when nothing runs on it.                    *)
(***************************************************************************)
EXTENDS Serving, TLAPS

\* The owner thread serves, or is between two passes of its loop.
Looping == {"admit", "controls", "step", "collect", "close", "collectOpen"}
\* It replaces the cache.
Resizing == {"swap", "drop", "rebuild", "build", "restore"}
\* It is on its way out.
Ending == {"fail", "failclose", "collectFail", "failrest", "collectClosed", "final", "off"}

\* _collect runs.
Collecting == {"collect", "collectOpen", "collectClosed", "collectFail"}

TailStates == {"none", "open", "closing", "stuck", "released"}
Replies == {"none", "swap", "rebuild", "ok", "rejected", "failed", "fatal"}
Cache == [st : TailStates, pages : Nat]
Job == [who : SUBSET Admins, pages : Nat, was : Nat, reply : Replies]
Ask == [st : {"absent", "idle", "checked", "queued", "unavailable"} \cup Replies, pages : Nat]
Ends == {"stop", "failed", "cancelled"}
Event == [kind : {"delta"} \cup Ends, n : Nat]
Handle == [queue : Seq(Event), sent : BOOLEAN, error : BOOLEAN,
           cancelled : BOOLEAN, cursor : Nat, held : BOOLEAN]
Request == [st : {"none", "active", "ended", "gone"}, why : {"none"} \cup Ends,
            n : Nat, pend : BOOLEAN, flight : {"no", "run", "done", "quar"}]
Flags == [closing : BOOLEAN, fatal : BOOLEAN, drained : BOOLEAN, stopped : BOOLEAN]
Places == {"absent", "idle", "preparing", "waiting", "withdrawn", "refused", "reading",
           "asleep", "done", "left"}

ClientTypes ==
    at \in [Clients -> Places] /\ active \in Int /\ got \in [Clients -> Seq(Event)]
QueueTypes ==
    /\ fut \in [Clients -> {"none", "pending", "cancelled", "handle", "error"}]
    /\ cmds \in Seq(Clients) /\ controls \in Seq(Admins) /\ admin \in [Admins -> Ask]
HandleTypes == handle \in [Clients -> Handle] /\ handles \in SUBSET Clients
OwnerTypes ==
    /\ pc \in Looping \cup Resizing \cup Ending \cup {"answer"}
    /\ todo \in SUBSET Clients /\ (todo # {} => pc \in Collecting)
    /\ flags \in Flags
CacheTypes ==
    serving \in Tails /\ bound \in Tails /\ tail \in [Tails -> Cache] /\ job \in Job
EngineTypes ==
    req \in [Clients -> Request] /\ worker \in {"ready", "failed"}
CloseTypes ==
    /\ closer \in {"idle", "join", "joined", "teardown", "closed"}
    /\ closes \in Int /\ faults \in Int

TypeOK ==
    /\ ClientTypes /\ QueueTypes /\ HandleTypes /\ OwnerTypes
    /\ CacheTypes /\ EngineTypes /\ CloseTypes

-----------------------------------------------------------------------------
(* Types                                                                   *)

LEMMA InitTypeOK == Init => TypeOK
<1> SUFFICES ASSUME Init PROVE TypeOK
    OBVIOUS
<1>1. PICK s \in Scenarios : \E ask \in [s.admins -> s.asks] :
          /\ at = [c \in Clients |-> IF c \in s.clients THEN "idle" ELSE "absent"]
          /\ admin = [z \in Admins |->
                         [st |-> IF z \in s.admins THEN "idle" ELSE "absent",
                          pages |-> IF z \in s.admins THEN ask[z] ELSE 0]]
          /\ closes = s.closes /\ faults = s.faults
    BY DEF Init
<1>2. PICK ask \in [s.admins -> s.asks] :
          /\ at = [c \in Clients |-> IF c \in s.clients THEN "idle" ELSE "absent"]
          /\ admin = [z \in Admins |->
                         [st |-> IF z \in s.admins THEN "idle" ELSE "absent",
                          pages |-> IF z \in s.admins THEN ask[z] ELSE 0]]
          /\ closes = s.closes /\ faults = s.faults
    BY <1>1
<1>3. at \in [Clients -> Places] /\ closes \in Int /\ faults \in Int
    BY <1>2, ServingAssumption DEF Places
<1>4. admin \in [Admins -> Ask]
    BY <1>2, ServingAssumption DEF Ask
<1>5. /\ tail \in [Tails -> Cache] /\ serving \in Tails /\ bound \in Tails
      /\ job \in Job
    BY ServingAssumption DEF Init, Tails, FirstTail, Cache, TailStates, Job, Replies
<1>6. /\ handle \in [Clients -> Handle] /\ req \in [Clients -> Request]
      /\ flags \in Flags
    BY DEF Init, NoHandle, NoRequest, Handle, Request, Flags
<1> QED
    BY <1>3, <1>4, <1>5, <1>6 DEF Init, TypeOK, ClientTypes, QueueTypes, HandleTypes, OwnerTypes, CacheTypes,
           EngineTypes, CloseTypes, Looping

LEMMA CancelledType ==
    ASSUME NEW f \in [Clients -> Handle], NEW c \in Clients, NEW b \in BOOLEAN
    PROVE  /\ [f EXCEPT ![c].cancelled = b] \in [Clients -> Handle]
           /\ \A q \in Seq(Event) :
                 [f EXCEPT ![c].queue = q, ![c].cancelled = b] \in [Clients -> Handle]
BY ZenonT(60) DEF Handle

LEMMA AnsweredType ==
    ASSUME admin \in [Admins -> Ask], NEW z \in Admins, NEW reply \in Replies \cup {"unavailable"}
    PROVE  Answered(z, reply) \in [Admins -> Ask]
<1>1. admin[z] \in Ask
    OBVIOUS
<1>2. [admin EXCEPT ![z].st = reply] \in [Admins -> Ask]
    BY DEF Ask
<1>3. [admin EXCEPT ![z].st = @] \in [Admins -> Ask]
    BY DEF Ask
<1> QED
    BY <1>2, <1>3 DEF Answered

LEMMA PutType ==
    ASSUME NEW h \in Handle, NEW e \in Event
    PROVE  Put(h, e) \in Handle
<1>1. h.queue \in Seq(Event) /\ Append(h.queue, e) \in Seq(Event)
    BY DEF Handle
<1>2. /\ [h EXCEPT !.queue = Append(@, e), !.sent = TRUE] \in Handle
      /\ [h EXCEPT !.error = TRUE] \in Handle
      /\ [h EXCEPT !.queue = Append(@, e), !.held = FALSE] \in Handle
    BY Zenon, <1>1 DEF Handle
<1> QED
    BY <1>2 DEF Put

LEMMA FeedType ==
    ASSUME NEW h \in Handle, NEW n \in Nat, NEW hold \in BOOLEAN
    PROVE  Feed(h, n, hold) \in Handle
<1> DEFINE m == [h EXCEPT !.cursor = n]
<1>1. m \in Handle /\ [m EXCEPT !.held = TRUE] \in Handle
    BY Zenon DEF Handle
<1>2. Put(m, Delta(n)) \in Handle
    BY <1>1, PutType DEF Delta, Event
<1> QED
    BY <1>1, <1>2 DEF Feed

LEMMA SettleType ==
    ASSUME NEW h \in Handle, NEW q \in Request
    PROVE  Settle(h, q) \in Handle
<1> DEFINE e == [h EXCEPT !.error = @ \/ q.why = "failed"]
           cancelled == h.cancelled \/ q.why = "cancelled"
           f == IF ~e.error /\ ~cancelled /\ e.held THEN Put(e, Delta(e.cursor)) ELSE e
           k == IF f.error THEN "failed" ELSE IF cancelled THEN "cancelled" ELSE "stop"
<1>1. e \in Handle
    BY Zenon DEF Handle
<1>2. Delta(e.cursor) \in Event /\ Terminal(k) \in Event
    BY <1>1 DEF Delta, Terminal, Event, Handle, Ends
<1>3. f \in Handle
    BY <1>1, <1>2, PutType
<1>4. Put(f, Terminal(k)) \in Handle
    BY <1>2, <1>3, PutType
<1> QED
    BY <1>4 DEF Settle

LEMMA EndedType ==
    ASSUME NEW q \in Request, NEW why \in Ends
    PROVE  Ended(q, why) \in Request
BY DEF Ended, Request

LEMMA SteppedType ==
    ASSUME TypeOK, NEW c \in Clients, NEW late, NEW out
    PROVE  Stepped(c, late, out) \in Request
<1> DEFINE q == [req[c] EXCEPT !.pend = @ \/ at[c] = "withdrawn" \/ c \in late]
<1>1. req[c] \in Request /\ q \in Request
  <2>1. req[c] \in Request
      BY DEF TypeOK, EngineTypes
  <2>2. (req[c].pend \/ at[c] = "withdrawn" \/ c \in late) \in BOOLEAN
      OBVIOUS
  <2> QED
      BY Zenon, <2>1, <2>2 DEF Request
<1>2. /\ Ended(q, "cancelled") \in Request /\ Ended(q, "failed") \in Request
      /\ Ended(q, "stop") \in Request
    BY <1>1, EndedType DEF Ends
<1> HIDE DEF q
<1>3. [Ended(q, "stop") EXCEPT !.n = @ + 1] \in Request
    BY <1>2 DEF Request
<1>4. [q EXCEPT !.n = @ + 1, !.flight = "no"] \in Request
  <2>1. q.n + 1 \in Nat
      BY <1>1 DEF Request
  <2>2. [q EXCEPT !.n = q.n + 1] \in Request
      BY <1>1, <2>1 DEF Request
  <2> QED
      BY Zenon, <1>1, <2>1 DEF Request
<1>5. Stepped(c, late, out) \in {req[c], Ended(q, "cancelled"), Ended(q, "failed"),
            [Ended(q, "stop") EXCEPT !.n = @ + 1], [q EXCEPT !.n = @ + 1, !.flight = "no"], q}
    BY Zenon DEF Stepped, q
<1> QED
    BY <1>1, <1>2, <1>3, <1>4, <1>5

LEMMA DrainedType ==
    ASSUME TypeOK
    PROVE  /\ Drained \in [Clients -> Request]
           /\ Flushed(Drained) \in [Clients -> Request]
<1>1. ASSUME NEW q \in Request PROVE Aborted(q) \in Request
  <2>1. (q.pend \/ q.st = "active") \in BOOLEAN
      OBVIOUS
  <2> QED
      BY Zenon, <2>1 DEF Aborted, Request
<1>2. Drained \in [Clients -> Request]
    BY <1>1, EndedType DEF Drained, TypeOK, EngineTypes, Ends
<1>3. Flushed(Drained) \in [Clients -> Request]
    BY <1>2, EndedType DEF Flushed, Ends
<1> QED
    BY <1>2, <1>3

LEMMA TailUpdate ==
    ASSUME NEW f \in [Tails -> Cache], NEW t \in Tails, NEW x \in TailStates
    PROVE  /\ [f EXCEPT ![t].st = x] \in [Tails -> Cache]
           /\ [f EXCEPT ![t].st = x][t].st = x
           /\ [f EXCEPT ![t].st = x][t].pages = f[t].pages
           /\ \A u \in Tails \ {t} : [f EXCEPT ![t].st = x][u] = f[u]
BY DEF Cache

LEMMA EngineCloseType ==
    ASSUME TypeOK, NEW t \in Tails, NEW result, EngineClose(t, result)
    PROVE  req' \in [Clients -> Request] /\ tail' \in [Tails -> Cache] /\ faults' \in Int
<1>1. req' \in [Clients -> Request]
    BY DrainedType DEF EngineClose
<1>2. tail' \in [Tails -> Cache]
  <2>1. tail \in [Tails -> Cache] /\ tail[t].st \in TailStates
      BY DEF TypeOK, CacheTypes, Cache
  <2>2. \E x \in TailStates : tail' = [tail EXCEPT ![t].st = x]
      BY <2>1 DEF EngineClose, TailStates
  <2> QED
      BY <2>1, <2>2, TailUpdate
<1>3. faults' \in Int
    BY DEF EngineClose, TypeOK, CloseTypes, Fault
<1> QED
    BY <1>1, <1>2, <1>3

\* Where _collect goes on, and the flags it keeps.
LEMMA CollectNextType ==
    ASSUME TypeOK, NEW phase \in Collecting, NEW S \in SUBSET Clients, CollectNext(phase, S)
    PROVE  /\ todo' \in SUBSET Clients /\ flags' \in Flags
           /\ todo' # {} => pc' \in Collecting
           /\ flags'.closing = flags.closing /\ flags'.stopped = flags.stopped
           /\ phase \in {"collect", "collectOpen"} => pc' \in {phase, "fail", "admit"}
           /\ phase = "collectClosed" => pc' \in {phase, "final"}
           /\ phase = "collectFail" => pc' \in {phase, "failrest"}
<1>1. flags \in Flags
    BY DEF TypeOK, OwnerTypes
<1>2. (flags.drained \/ (S = {} /\ phase \in {"collectClosed", "collectFail"})) \in BOOLEAN
    OBVIOUS
<1>3. /\ flags' \in Flags
      /\ flags'.closing = flags.closing /\ flags'.stopped = flags.stopped
    BY Zenon, <1>1, <1>2 DEF CollectNext, Flags
<1>4. CASE S # {}
    BY <1>3, <1>4 DEF CollectNext, Collecting
<1>5. CASE S = {}
  <2>1. CASE phase = "collect"
      BY <1>3, <1>5, <2>1 DEF CollectNext
  <2>2. CASE phase = "collectOpen"
      BY <1>3, <1>5, <2>2 DEF CollectNext
  <2>3. CASE phase = "collectClosed"
      BY <1>3, <1>5, <2>3 DEF CollectNext
  <2>4. CASE phase = "collectFail"
      BY <1>3, <1>5, <2>4 DEF CollectNext
  <2> QED
      BY <2>1, <2>2, <2>3, <2>4 DEF Collecting
<1> QED
    BY <1>4, <1>5

LEMMA SameTypes ==
    ASSUME TypeOK
    PROVE  /\ UNCHANGED clientVars => ClientTypes'
           /\ UNCHANGED queueVars => QueueTypes'
           /\ UNCHANGED <<handle, handles>> => HandleTypes'
           /\ UNCHANGED <<pc, todo, flags>> => OwnerTypes'
           /\ UNCHANGED cacheVars => CacheTypes'
           /\ UNCHANGED <<req, worker>> => EngineTypes'
           /\ UNCHANGED <<closeVars, faults>> => CloseTypes'
<1>1. UNCHANGED clientVars => ClientTypes'
    BY DEF TypeOK, ClientTypes, clientVars
<1>2. UNCHANGED queueVars => QueueTypes'
    BY DEF TypeOK, QueueTypes, queueVars
<1>3. UNCHANGED <<handle, handles>> => HandleTypes'
    BY DEF TypeOK, HandleTypes
<1>4. UNCHANGED <<pc, todo, flags>> => OwnerTypes'
    BY DEF TypeOK, OwnerTypes
<1>5. UNCHANGED cacheVars => CacheTypes'
    BY DEF TypeOK, CacheTypes, cacheVars
<1>6. UNCHANGED <<req, worker>> => EngineTypes'
    BY DEF TypeOK, EngineTypes
<1>7. UNCHANGED <<closeVars, faults>> => CloseTypes'
    BY DEF TypeOK, CloseTypes, closeVars
<1> QED
    BY <1>1, <1>2, <1>3, <1>4, <1>5, <1>6, <1>7

\* A step of the clients keeps the types.
LEMMA ClientTypesStep ==
    ASSUME TypeOK, NEW c \in Clients, Client(c)
    PROVE  TypeOK'
<1>1. CASE Reserve(c)
  <2>1. ClientTypes'
    <3>1. at' \in [Clients -> Places]
        BY <1>1, LimitsAssumption DEF TypeOK, ClientTypes, Reserve, Places
    <3>2. active' \in Int
        BY <1>1, LimitsAssumption DEF TypeOK, ClientTypes, Reserve, Places
    <3>3. got' \in [Clients -> Seq(Event)]
        BY <1>1, LimitsAssumption DEF TypeOK, ClientTypes, Reserve, Places
    <3> QED
        BY <3>1, <3>2, <3>3 DEF ClientTypes
  <2> QED
      BY <1>1, <2>1, SameTypes DEF TypeOK, Reserve
<1>2. CASE PrepareFails(c)
  <2>1. ClientTypes'
      BY <1>2 DEF TypeOK, ClientTypes, PrepareFails, GivesUp, Places
  <2>2. CloseTypes'
      BY <1>2 DEF TypeOK, CloseTypes, PrepareFails, Fault, closeVars
  <2> QED
      BY <1>2, <2>1, <2>2, SameTypes DEF TypeOK, PrepareFails
<1>3. CASE Submit(c)
  <2>1. ClientTypes'
    <3>1. at' \in [Clients -> Places]
        BY Zenon, <1>3, LimitsAssumption DEF TypeOK, ClientTypes, Submit, GivesUp, Places
    <3>2. active' \in Int
        BY <1>3, LimitsAssumption DEF TypeOK, ClientTypes, Submit, GivesUp, Places
    <3>3. got' \in [Clients -> Seq(Event)]
        BY <1>3, LimitsAssumption DEF TypeOK, ClientTypes, Submit, GivesUp, Places
    <3> QED
        BY <3>1, <3>2, <3>3 DEF ClientTypes
  <2>2. QueueTypes'
    <3>1. fut' \in [Clients -> {"none", "pending", "cancelled", "handle", "error"}]
        BY SMTT(60), <1>3, LimitsAssumption DEF TypeOK, QueueTypes, Submit
    <3>2. cmds' \in Seq(Clients)
      <4>1. cmds \in Seq(Clients) /\ Append(cmds, c) \in Seq(Clients)
          BY DEF TypeOK, QueueTypes
      <4> QED
          BY Zenon, <1>3, <4>1 DEF Submit
    <3>3. controls' \in Seq(Admins)
        BY <1>3, LimitsAssumption DEF TypeOK, QueueTypes, Submit
    <3>4. admin' \in [Admins -> Ask]
        BY <1>3, LimitsAssumption DEF TypeOK, QueueTypes, Submit
    <3> QED
        BY <3>1, <3>2, <3>3, <3>4 DEF QueueTypes
  <2>3. EngineTypes'
      BY <1>3 DEF TypeOK, EngineTypes, Submit
  <2> QED
      BY <1>3, <2>1, <2>2, <2>3, SameTypes DEF TypeOK, Submit
<1>4. CASE Resolve(c)
  <2>1. ClientTypes'
    <3>1. at' \in [Clients -> Places]
        BY Zenon, <1>4 DEF TypeOK, ClientTypes, Resolve, GivesUp, Places
    <3>2. active' \in Int
        BY <1>4 DEF TypeOK, ClientTypes, Resolve, GivesUp, Places
    <3>3. got' \in [Clients -> Seq(Event)]
        BY <1>4 DEF TypeOK, ClientTypes, Resolve, GivesUp, Places
    <3> QED
        BY <3>1, <3>2, <3>3 DEF ClientTypes
  <2> QED
      BY <1>4, <2>1, SameTypes DEF TypeOK, Resolve
<1>5. CASE Withdraw(c)
  <2>1. ClientTypes'
      BY <1>5 DEF TypeOK, ClientTypes, Withdraw, Places
  <2>2. QueueTypes'
      BY <1>5 DEF TypeOK, QueueTypes, Withdraw
  <2>3. HandleTypes'
    <3>1. (fut[c] = "handle") \in BOOLEAN
        OBVIOUS
    <3> QED
        BY Zenon, <1>5, <3>1, CancelledType DEF TypeOK, HandleTypes, Withdraw
  <2>4. CloseTypes'
      BY <1>5 DEF TypeOK, CloseTypes, Withdraw, Fault, closeVars
  <2> QED
      BY <1>5, <2>1, <2>2, <2>3, <2>4, SameTypes DEF TypeOK, Withdraw
<1>6. CASE NextEvent(c)
  <2> DEFINE e == Head(handle[c].queue)
  <2>1. CASE handle[c].queue = <<>>
    <3>1. ClientTypes'
        BY <1>6, <2>1 DEF TypeOK, ClientTypes, NextEvent, Places
    <3> QED
        BY <1>6, <2>1, <3>1, SameTypes DEF TypeOK, NextEvent
  <2>2. CASE handle[c].queue # <<>>
    <3>1. /\ handle[c].queue \in Seq(Event)
          /\ e \in Event /\ Tail(handle[c].queue) \in Seq(Event)
        BY <2>2 DEF TypeOK, HandleTypes, Handle
    <3>2. (handle[c].cancelled \/ e.kind # "delta") \in BOOLEAN
        OBVIOUS
    <3> HIDE DEF e
    <3>3. Append(got[c], e) \in Seq(Event)
        BY <3>1 DEF TypeOK, ClientTypes
    <3>4. /\ got' = [got EXCEPT ![c] = Append(@, e)]
          /\ handle' = [handle EXCEPT ![c].queue = Tail(@),
                                      ![c].cancelled = @ \/ e.kind # "delta"]
          /\ IF e.kind = "delta" THEN UNCHANGED <<at, active>> ELSE Release(c, "done")
        BY Zenon, <1>6, <2>2 DEF NextEvent, e
    <3>5. ClientTypes'
        BY SMTT(60), <3>3, <3>4 DEF TypeOK, ClientTypes, Release, Places
    <3>6. HandleTypes'
        BY Zenon, <1>6, <3>1, <3>2, <3>4, CancelledType DEF TypeOK, HandleTypes, NextEvent
    <3> QED
        BY Zenon, <1>6, <3>5, <3>6, SameTypes DEF TypeOK, NextEvent
  <2> QED
      BY <2>1, <2>2
<1>7. CASE Leave(c)
  <2>1. ClientTypes'
      BY <1>7 DEF TypeOK, ClientTypes, Leave, Release, Places
  <2>2. HandleTypes'
      BY ZenonT(60), <1>7 DEF TypeOK, HandleTypes, Leave, Handle
  <2>3. CloseTypes'
      BY <1>7 DEF TypeOK, CloseTypes, Leave, Fault, closeVars
  <2> QED
      BY <1>7, <2>1, <2>2, <2>3, SameTypes DEF TypeOK, Leave
<1> QED
    BY <1>1, <1>2, <1>3, <1>4, <1>5, <1>6, <1>7 DEF Client

\* A step of the device, the admins or the closing thread keeps the types.
LEMMA OutsideTypesStep ==
    ASSUME TypeOK,
           \/ \E c \in Clients : DeviceDone(c) \/ DeviceLost(c)
           \/ \E z \in Admins : AskResize(z) \/ QueueResize(z) \/ ResizeTimesOut(z)
           \/ WorkerFails \/ Closer
    PROVE  TypeOK'
<1>1. ASSUME NEW c \in Clients, DeviceDone(c) PROVE TypeOK'
  <2>1. EngineTypes'
      BY <1>1 DEF TypeOK, EngineTypes, DeviceDone, Request
  <2> QED
      BY <1>1, <2>1, SameTypes DEF TypeOK, DeviceDone
<1>2. ASSUME NEW c \in Clients, DeviceLost(c) PROVE TypeOK'
  <2>1. EngineTypes'
      BY <1>2 DEF TypeOK, EngineTypes, DeviceLost, Request
  <2>2. CloseTypes'
      BY <1>2 DEF TypeOK, CloseTypes, DeviceLost, Fault, closeVars
  <2> QED
      BY <1>2, <2>1, <2>2, SameTypes DEF TypeOK, DeviceLost
<1>3. ASSUME NEW z \in Admins, AskResize(z) PROVE TypeOK'
  <2>1. QueueTypes'
      BY SMTT(60), <1>3 DEF TypeOK, QueueTypes, AskResize, Ask
  <2> QED
      BY SMTT(60), <1>3, <2>1, SameTypes DEF TypeOK, AskResize
<1>4. ASSUME NEW z \in Admins, QueueResize(z) PROVE TypeOK'
  <2>1. QueueTypes'
    <3>1. fut' \in [Clients -> {"none", "pending", "cancelled", "handle", "error"}]
        BY <1>4, LimitsAssumption DEF TypeOK, QueueTypes, QueueResize, Ask
    <3>2. cmds' \in Seq(Clients)
        BY <1>4, LimitsAssumption DEF TypeOK, QueueTypes, QueueResize, Ask
    <3>3. controls' \in Seq(Admins)
      <4>1. controls \in Seq(Admins) /\ Append(controls, z) \in Seq(Admins)
          BY DEF TypeOK, QueueTypes
      <4> QED
          BY <1>4, <4>1 DEF QueueResize
    <3>4. admin' \in [Admins -> Ask]
        BY ZenonT(60), <1>4, LimitsAssumption DEF TypeOK, QueueTypes, QueueResize, Ask
    <3> QED
        BY <3>1, <3>2, <3>3, <3>4 DEF QueueTypes
  <2> QED
      BY SMTT(60), <1>4, <2>1, SameTypes DEF TypeOK, QueueResize
<1>5. ASSUME NEW z \in Admins, ResizeTimesOut(z) PROVE TypeOK'
  <2>1. QueueTypes'
      BY Zenon, <1>5 DEF TypeOK, QueueTypes, ResizeTimesOut, Ask
  <2> QED
      BY <1>5, <2>1, SameTypes DEF TypeOK, ResizeTimesOut
<1>6. ASSUME WorkerFails PROVE TypeOK'
  <2>1. EngineTypes' /\ CloseTypes'
      BY <1>6 DEF TypeOK, EngineTypes, CloseTypes, WorkerFails, Fault, closeVars
  <2> QED
      BY <1>6, <2>1, SameTypes DEF TypeOK, WorkerFails
<1>7. ASSUME AskClose PROVE TypeOK'
  <2>1. OwnerTypes'
      BY Zenon, <1>7 DEF TypeOK, OwnerTypes, AskClose, CloseStep, Flags
  <2>2. CacheTypes' /\ EngineTypes' /\ CloseTypes'
      BY <1>7 DEF TypeOK, CacheTypes, EngineTypes, CloseTypes, AskClose, CloseStep
  <2> QED
      BY <1>7, <2>1, <2>2, SameTypes DEF TypeOK, AskClose, CloseStep
<1>8. ASSUME Join \/ ReadStopped PROVE TypeOK'
  <2>1. OwnerTypes' /\ CacheTypes' /\ EngineTypes' /\ CloseTypes'
      BY <1>8 DEF TypeOK, OwnerTypes, CacheTypes, EngineTypes, CloseTypes, Join, ReadStopped,
                  CloseStep
  <2> QED
      BY Zenon, <1>8, <2>1, SameTypes DEF TypeOK, Join, ReadStopped, CloseStep
<1>9. ASSUME Teardown PROVE TypeOK'
  <2>1. bound \in Tails
      BY DEF TypeOK, CacheTypes
  <2>2. req' \in [Clients -> Request] /\ tail' \in [Tails -> Cache] /\ faults' \in Int
      BY <1>9, <2>1, EngineCloseType DEF Teardown
  <2>3. OwnerTypes' /\ CacheTypes' /\ EngineTypes' /\ CloseTypes'
      BY <1>9, <2>2 DEF TypeOK, OwnerTypes, CacheTypes, EngineTypes, CloseTypes, Teardown,
                        CloseStep
  <2> QED
      BY <1>9, <2>3, SameTypes DEF TypeOK, Teardown, CloseStep
<1> QED
    BY <1>1, <1>2, <1>3, <1>4, <1>5, <1>6, <1>7, <1>8, <1>9 DEF Closer

\* Admission and cache control keep the types.
LEMMA ControlTypesStep ==
    ASSUME TypeOK, Admit \/ AdmitDone \/ TakeControl \/ ControlsDone \/ Answer
    PROVE  TypeOK'
<1>1. CASE Admit
  <2> DEFINE c == Head(cmds)
  <2>1. c \in Clients /\ Tail(cmds) \in Seq(Clients)
      BY <1>1 DEF Admit, TypeOK, QueueTypes
  <2>2. AdmitCommand(c) /\ cmds' = Tail(cmds)
      BY <1>1 DEF Admit
  <2> HIDE DEF c
  <2>3. QueueTypes'
    <3>1. fut' \in [Clients -> {"none", "pending", "cancelled", "handle", "error"}]
        BY <2>1, <2>2 DEF AdmitCommand, TypeOK, QueueTypes
    <3> QED
        BY <1>1, <2>1, <2>2, <3>1 DEF Admit, TypeOK, QueueTypes
  <2>4. HandleTypes'
      BY <2>1, <2>2 DEF AdmitCommand, TypeOK, HandleTypes
  <2>5. EngineTypes'
    <3>1. req' \in [Clients -> Request]
      <4>1. [req EXCEPT ![c].st = "active"] \in [Clients -> Request]
          BY ZenonT(60), <2>1 DEF TypeOK, EngineTypes, Request
      <4> QED
          BY <2>2, <4>1 DEF AdmitCommand, TypeOK, EngineTypes
    <3> QED
        BY <1>1, <3>1 DEF Admit, TypeOK, EngineTypes
  <2> QED
      BY <1>1, <2>3, <2>4, <2>5, SameTypes DEF TypeOK, Admit
<1>2. CASE AdmitDone
  <2>1. OwnerTypes'
      BY <1>2 DEF AdmitDone, TypeOK, OwnerTypes, Looping, Collecting
  <2> QED
      BY <1>2, <2>1, SameTypes DEF TypeOK, AdmitDone
<1>3. CASE ControlsDone
  <2>1. OwnerTypes'
      BY <1>3 DEF ControlsDone, TypeOK, OwnerTypes, Looping, Collecting
  <2> QED
      BY <1>3, <2>1, SameTypes DEF TypeOK, ControlsDone
<1>4. CASE Answer
  <2>1. OwnerTypes'
      BY Zenon, <1>4 DEF Answer, TypeOK, OwnerTypes, Looping, Ending, Collecting
  <2>2. QueueTypes'
    <3>1. PICK z \in Admins : admin' = Answered(z, job.reply)
        BY <1>4 DEF Answer, TypeOK, CacheTypes, Job
    <3>2. job.reply \in Replies
        BY DEF TypeOK, CacheTypes, Job
    <3>3. admin' \in [Admins -> Ask]
        BY <3>1, <3>2, AnsweredType DEF TypeOK, QueueTypes
    <3> QED
        BY Zenon, <1>4, <3>3 DEF Answer, TypeOK, QueueTypes
  <2>3. CacheTypes'
      BY Zenon, <1>4 DEF Answer, TypeOK, CacheTypes
  <2> QED
      BY Zenon, <1>4, <2>1, <2>2, <2>3, SameTypes DEF TypeOK, Answer
<1>5. CASE TakeControl
  <2> DEFINE z == Head(controls)
             plan == IF Busy THEN "rejected" ELSE PlanResize(admin[z].pages)
  <2>1. z \in Admins /\ Tail(controls) \in Seq(Admins)
    <3>1. controls \in Seq(Admins) /\ controls # <<>>
        BY Zenon, <1>5 DEF TakeControl, TypeOK, QueueTypes
    <3> QED
        BY <3>1
  <2>2. plan \in {"rejected", "ok", "swap", "rebuild"}
      BY DEF PlanResize
  <2>3. /\ controls' = Tail(controls) /\ UNCHANGED <<fut, cmds>>
        /\ IF flags.closing
           THEN admin' = Answered(z, "unavailable") /\ UNCHANGED <<pc, job>>
           ELSE /\ job' = [who |-> {z}, pages |-> admin[z].pages, was |-> tail[bound].pages,
                           reply |-> plan]
                /\ pc' = IF plan \in {"swap", "rebuild"} THEN plan ELSE "answer"
                /\ UNCHANGED admin
      BY Zenon, <1>5 DEF TakeControl
  <2> HIDE DEF z, plan
  <2>4. admin' \in [Admins -> Ask]
      BY <2>1, <2>3, AnsweredType DEF TypeOK, QueueTypes
  <2>5. QueueTypes'
      BY Zenon, <2>1, <2>3, <2>4 DEF TypeOK, QueueTypes
  <2>6. job' \in Job
    <3>1. admin[z].pages \in Nat /\ tail[bound].pages \in Nat /\ {z} \in SUBSET Admins
        BY <2>1 DEF TypeOK, QueueTypes, Ask, CacheTypes, Cache
    <3>2. [who |-> {z}, pages |-> admin[z].pages, was |-> tail[bound].pages,
           reply |-> plan] \in Job
        BY Zenon, <2>2, <3>1 DEF Job, Replies
    <3> QED
        BY Zenon, <2>3, <3>2 DEF TypeOK, CacheTypes
  <2>7. CacheTypes'
      BY Zenon, <1>5, <2>6 DEF TakeControl, TypeOK, CacheTypes
  <2>8. OwnerTypes'
    <3>1. pc' \in {"controls", "swap", "rebuild", "answer"}
        BY Zenon, <1>5, <2>2, <2>3 DEF TakeControl
    <3>2. todo = {} /\ todo' = todo /\ flags' = flags
        BY Zenon, <1>5 DEF TakeControl, TypeOK, OwnerTypes, Collecting
    <3> QED
        BY <3>1, <3>2 DEF TypeOK, OwnerTypes, Looping, Resizing
  <2> QED
      BY Zenon, <1>5, <2>5, <2>7, <2>8, SameTypes DEF TypeOK, TakeControl
<1> QED
    BY <1>1, <1>2, <1>3, <1>4, <1>5

\* A step of a resize keeps the types.
LEMMA ResizeTypesStep ==
    ASSUME TypeOK, SwapBuild \/ SwapDrop \/ RebuildDrop \/ RebuildBuild \/ Restore
    PROVE  TypeOK'
<1>1. ASSUME NEW next \in {"drop", "answer", "build", "restore"}, NEW reply \in Replies,
             ResizeStep(next, reply), pc \in Resizing
      PROVE  /\ OwnerTypes' /\ job' \in Job
             /\ UNCHANGED <<clientVars, queueVars, handle, handles, serving, req, worker,
                            count, closeVars>>
  <2>1. OwnerTypes'
    <3>1. todo = {}
        BY <1>1 DEF TypeOK, OwnerTypes, Resizing, Collecting
    <3> QED
        BY <1>1, <3>1 DEF ResizeStep, TypeOK, OwnerTypes, Resizing
  <2>2. job' \in Job
      BY <1>1 DEF ResizeStep, TypeOK, CacheTypes, Job
  <2> QED
      BY <1>1, <2>1, <2>2 DEF ResizeStep
<1>2. ASSUME NEW t \in Tails, NEW pages \in Nat, Built(t, pages)
      PROVE  tail' \in [Tails -> Cache]
    BY <1>2 DEF Built, TypeOK, CacheTypes, Cache, TailStates
<1>3. job.pages \in Nat /\ job.was \in Nat /\ bound \in Tails /\ tail \in [Tails -> Cache]
    BY DEF TypeOK, CacheTypes, Job
<1>4. /\ [tail EXCEPT ![bound].st = "released"] \in [Tails -> Cache]
      /\ [tail EXCEPT ![bound].st = "stuck"] \in [Tails -> Cache]
  <2>1. "released" \in TailStates /\ "stuck" \in TailStates
      BY DEF TailStates
  <2> QED
      BY <1>3, <2>1, TailUpdate
<1>5. /\ OwnerTypes' /\ job' \in Job
      /\ UNCHANGED <<clientVars, queueVars, handle, handles, serving, req, worker,
                     count, closeVars>>
  <2>1. pc \in Resizing
      BY DEF SwapBuild, SwapDrop, RebuildDrop, RebuildBuild, Restore, Resizing
  <2>2. \E next \in {"drop", "answer", "build", "restore"}, reply \in Replies :
           ResizeStep(next, reply)
      BY DEF SwapBuild, SwapDrop, RebuildDrop, RebuildBuild, Restore, Replies
  <2> QED
      BY <1>1, <2>1, <2>2
<1>6. tail' \in [Tails -> Cache]
  <2>1. CASE SwapBuild
      BY <1>2, <1>3, <2>1 DEF SwapBuild
  <2>2. CASE SwapDrop
      BY <1>4, <2>2 DEF SwapDrop
  <2>3. CASE RebuildDrop
      BY <1>4, <2>3 DEF RebuildDrop
  <2>4. CASE RebuildBuild
      BY <1>2, <1>3, <2>4 DEF RebuildBuild
  <2>5. CASE Restore
      BY <1>2, <1>3, <2>5 DEF Restore
  <2> QED
      BY <2>1, <2>2, <2>3, <2>4, <2>5
<1>7. bound' \in Tails
    BY <1>3 DEF SwapBuild, SwapDrop, RebuildDrop, RebuildBuild, Restore
<1>8. faults' \in Int
    BY DEF SwapBuild, SwapDrop, RebuildDrop, RebuildBuild, Restore, Fault, TypeOK, CloseTypes
<1>9. CacheTypes' /\ CloseTypes'
    BY <1>5, <1>6, <1>7, <1>8 DEF TypeOK, CacheTypes, CloseTypes, closeVars
<1> QED
    BY <1>5, <1>9, SameTypes DEF TypeOK

\* Stepping and closing the engine keep the types.
LEMMA EngineTypesStep ==
    ASSUME TypeOK, Step \/ StepRaises \/ Close \/ FailClose
    PROVE  TypeOK'
<1>1. /\ handles \in SUBSET Clients /\ serving \in Tails
      /\ pc \notin Collecting => todo = {}
    BY DEF TypeOK, HandleTypes, CacheTypes, OwnerTypes
<1>2. CASE Step
  <2> DEFINE r(late, out) == [c \in Clients |-> Stepped(c, late, out)]
             runs(late, out) == {c \in Clients : r(late, out)[c].st = "active"
                                      /\ ~r(late, out)[c].pend /\ r(late, out)[c].flight = "no"}
  <2>0. PICK late \in {{}} \cup {{c} : c \in {d \in Clients : req[d].st = "active"}},
             out \in [{d \in Clients : req[d].flight = "done"} -> {"more", "stop", "failed"}] :
           /\ IF late = {} THEN UNCHANGED faults ELSE Fault
           /\ \E go \in SUBSET runs(late, out) :
                 req' = [c \in Clients |-> IF c \in go
                                           THEN [r(late, out)[c] EXCEPT !.flight = "run"]
                                           ELSE r(late, out)[c]]
      BY ZenonT(60), <1>2, Zenon DEF Step
  <2>1. PICK go \in SUBSET runs(late, out) :
           req' = [c \in Clients |-> IF c \in go
                                     THEN [r(late, out)[c] EXCEPT !.flight = "run"]
                                     ELSE r(late, out)[c]]
      BY Zenon, <2>0
  <2>2. req' \in [Clients -> Request]
    <3>1. ASSUME NEW c \in Clients
          PROVE  /\ Stepped(c, late, out) \in Request
                 /\ [Stepped(c, late, out) EXCEPT !.flight = "run"] \in Request
      <4>1. Stepped(c, late, out) \in Request
          BY Zenon, SteppedType
      <4> QED
          BY <4>1 DEF Request
    <3> QED
        BY <2>1, <3>1
  <2>3. OwnerTypes'
    <3>1. CollectNext("collect", handles) /\ "collect" \in Collecting
        BY <1>2 DEF Step, Collecting
    <3>2. /\ todo' \in SUBSET Clients /\ flags' \in Flags
          /\ todo' # {} => pc' \in Collecting
          /\ pc' \in {"collect", "fail", "admit"}
        BY Zenon, <1>1, <3>1, CollectNextType
    <3> QED
        BY Zenon, <3>2 DEF OwnerTypes, Looping, Ending
  <2>4. EngineTypes' /\ CloseTypes'
      BY SMTT(60), <1>2, <2>0, <2>2 DEF Step, Fault, TypeOK, EngineTypes, CloseTypes, closeVars
  <2> QED
      BY Zenon, <1>2, <2>3, <2>4, SameTypes DEF TypeOK, Step
<1>3. CASE StepRaises
  <2>1. OwnerTypes' /\ CloseTypes'
      BY <1>3 DEF StepRaises, Fault, TypeOK, OwnerTypes, CloseTypes, closeVars, Ending,
                  Collecting
  <2> QED
      BY <1>3, <2>1, SameTypes DEF TypeOK, StepRaises
<1>4. CASE Close
  <2>1. PICK result \in {"open", "closed", "raised"} :
          /\ EngineClose(serving, result)
          /\ \/ result = "open" /\ CollectNext("collectOpen", handles)
             \/ result = "closed" /\ CollectNext("collectClosed", handles)
             \/ result = "raised" /\ pc' = "fail" /\ UNCHANGED <<todo, flags>>
      BY <1>4 DEF Close
  <2>2. req' \in [Clients -> Request] /\ tail' \in [Tails -> Cache] /\ faults' \in Int
      BY <1>1, <2>1, EngineCloseType
  <2>3. OwnerTypes'
    <3>1. CASE CollectNext("collectOpen", handles)
      <4>1. "collectOpen" \in Collecting
          BY DEF Collecting
      <4> QED
          BY SMTT(60), <1>1, <3>1, <4>1, CollectNextType DEF OwnerTypes, Looping, Ending
    <3>2. CASE CollectNext("collectClosed", handles)
      <4>1. "collectClosed" \in Collecting
          BY DEF Collecting
      <4> QED
          BY SMTT(60), <1>1, <3>2, <4>1, CollectNextType DEF OwnerTypes, Looping, Ending
    <3>3. CASE pc' = "fail" /\ UNCHANGED <<todo, flags>>
        BY Zenon, <1>1, <1>4, <3>3 DEF Close, TypeOK, OwnerTypes, Ending, Collecting
    <3> QED
        BY <2>1, <3>1, <3>2, <3>3
  <2>4. CacheTypes' /\ EngineTypes' /\ CloseTypes'
      BY Zenon, <1>4, <2>2 DEF Close, TypeOK, CacheTypes, EngineTypes, CloseTypes, closeVars
  <2> QED
      BY Zenon, <1>4, <2>3, <2>4, SameTypes DEF TypeOK, Close
<1>5. CASE FailClose
  <2>1. PICK result \in {"open", "closed", "raised"} :
          /\ EngineClose(serving, result)
          /\ IF result = "closed" THEN CollectNext("collectFail", handles)
             ELSE pc' = "failrest" /\ UNCHANGED <<todo, flags>>
      BY SMTT(60), <1>5 DEF FailClose
  <2>2. req' \in [Clients -> Request] /\ tail' \in [Tails -> Cache] /\ faults' \in Int
      BY <1>1, <2>1, EngineCloseType
  <2>3. OwnerTypes'
    <3>1. CASE CollectNext("collectFail", handles)
      <4>1. "collectFail" \in Collecting
          BY DEF Collecting
      <4> QED
          BY <1>1, <3>1, <4>1, CollectNextType DEF OwnerTypes, Looping, Ending
    <3>2. CASE pc' = "failrest" /\ UNCHANGED <<todo, flags>>
        BY SMTT(60), <1>1, <1>5, <3>2 DEF FailClose, TypeOK, OwnerTypes, Ending, Collecting
    <3> QED
        BY <2>1, <3>1, <3>2
  <2>4. CacheTypes' /\ EngineTypes' /\ CloseTypes'
      BY Zenon, <1>5, <2>2 DEF FailClose, TypeOK, CacheTypes, EngineTypes, CloseTypes, closeVars
  <2> QED
      BY Zenon, <1>5, <2>3, <2>4, SameTypes DEF TypeOK, FailClose
<1> QED
    BY <1>2, <1>3, <1>4, <1>5

\* Collecting, failing and the last drain keep the types.
LEMMA CollectTypesStep ==
    ASSUME TypeOK, (\E c \in Clients : Collect(c)) \/ Fail \/ FailRest \/ Final
    PROVE  TypeOK'
<1>1. ASSUME NEW S \in SUBSET Clients PROVE Woken(S) \in [Clients -> Places]
    BY DEF Woken, TypeOK, ClientTypes, Places
<1>2. ASSUME NEW c \in Clients, Collect(c) PROVE TypeOK'
  <2>1. PICK hold \in BOOLEAN :
       LET q == req[c]
           h == Feed(handle[c], q.n, hold)
           aborted == handle[c].cancelled \/ h.error # handle[c].error
       IN IF q.st = "active"
          THEN /\ handle' = [handle EXCEPT ![c] = h]
               /\ req' = [req EXCEPT ![c].pend = @ \/ aborted]
               /\ UNCHANGED <<handles, count>>
          ELSE /\ handle' = [handle EXCEPT ![c] = Settle(h, q)]
               /\ req' = [req EXCEPT ![c].st = "gone"]
               /\ handles' = handles \ {c}
               /\ count' = [count EXCEPT !.settled = @ + 1]
      BY <1>2 DEF Collect
  <2> DEFINE h == Feed(handle[c], req[c].n, hold)
  <2>2. req[c] \in Request /\ handle[c] \in Handle /\ req[c].n \in Nat
      BY DEF TypeOK, EngineTypes, HandleTypes, Request
  <2>3. h \in Handle /\ Settle(h, req[c]) \in Handle
      BY SMTT(60), <2>2, FeedType, SettleType
  <2>4. HandleTypes'
      BY <2>1, <2>3 DEF TypeOK, HandleTypes
  <2>5. req' \in [Clients -> Request]
    <3>1. (req[c].pend \/ handle[c].cancelled \/ h.error # handle[c].error) \in BOOLEAN
        OBVIOUS
    <3>2. ASSUME NEW b \in BOOLEAN PROVE [req EXCEPT ![c].pend = b] \in [Clients -> Request]
        BY DEF TypeOK, EngineTypes, Request
    <3>3. [req EXCEPT ![c].st = "gone"] \in [Clients -> Request]
        BY DEF TypeOK, EngineTypes, Request
    <3> HIDE DEF h
    <3>4. \/ req' = [req EXCEPT ![c].pend = req[c].pend \/ handle[c].cancelled
                                               \/ h.error # handle[c].error]
          \/ req' = [req EXCEPT ![c].st = "gone"]
        BY <2>1 DEF h
    <3> QED
        BY Zenon, <3>1, <3>2, <3>3, <3>4
  <2>6. EngineTypes'
      BY <1>2, <2>1, <2>5 DEF Collect, TypeOK, EngineTypes
  <2>7. OwnerTypes'
    <3>1. pc \in Collecting /\ todo \ {c} \in SUBSET Clients
        BY <1>2 DEF Collect, TypeOK, OwnerTypes
    <3>2. CollectNext(pc, todo \ {c})
        BY <1>2 DEF Collect
    <3> QED
        BY Zenon, <3>1, <3>2, CollectNextType DEF Collecting, OwnerTypes, Looping, Ending
  <2>8. ClientTypes'
      BY <1>1, <1>2 DEF Collect, TypeOK, ClientTypes
  <2> QED
      BY Zenon, <1>2, <2>4, <2>6, <2>7, <2>8, SameTypes DEF TypeOK, Collect
<1>3. CASE Fail
  <2>1. HandleTypes'
    <3>1. ASSUME NEW c \in Clients
          PROVE  [handle[c] EXCEPT !.error = @ \/ c \in handles] \in Handle
      <4>1. handle[c] \in Handle /\ (handle[c].error \/ c \in handles) \in BOOLEAN
          BY DEF TypeOK, HandleTypes
      <4> QED
          BY Zenon, <4>1 DEF Handle
    <3> QED
        BY <1>3, <3>1 DEF Fail, TypeOK, HandleTypes
  <2>2. OwnerTypes'
      BY Zenon, <1>3 DEF Fail, TypeOK, OwnerTypes, Flags, Ending, Collecting
  <2> QED
      BY <1>3, <2>1, <2>2, SameTypes DEF TypeOK, Fail
<1>4. CASE FailRest
  <2>1. HandleTypes'
    <3>1. Terminal("failed") \in Event
        BY DEF Terminal, Event, Ends
    <3> QED
        BY SMTT(60), <1>4, <3>1, PutType DEF FailRest, TypeOK, HandleTypes
  <2>2. OwnerTypes'
      BY SMTT(60), <1>4 DEF FailRest, TypeOK, OwnerTypes, Ending, Collecting
  <2>3. ClientTypes'
      BY SMTT(60), <1>1, <1>4 DEF FailRest, TypeOK, ClientTypes, HandleTypes
  <2> QED
      BY Zenon, <1>4, <2>1, <2>2, <2>3, SameTypes DEF TypeOK, FailRest
<1>5. CASE Final
  <2>1. OwnerTypes'
      BY Zenon, <1>5 DEF Final, TypeOK, OwnerTypes, Flags, Ending, Collecting
  <2>2. QueueTypes'
    <3>1. fut' \in [Clients -> {"none", "pending", "cancelled", "handle", "error"}]
        BY <1>5 DEF Final, TypeOK, QueueTypes
    <3>2. admin' \in [Admins -> Ask]
      <4>1. ASSUME NEW z \in Admins
            PROVE  admin[z] \in Ask /\ [admin[z] EXCEPT !.st = "unavailable"] \in Ask
          BY Zenon DEF TypeOK, QueueTypes, Ask
      <4> QED
          BY <1>5, <4>1 DEF Final
    <3>3. cmds' = <<>> /\ controls' = <<>>
        BY <1>5 DEF Final
    <3> QED
        BY <3>1, <3>2, <3>3 DEF QueueTypes
  <2>3. EngineTypes'
      BY <1>5 DEF Final, TypeOK, EngineTypes
  <2> QED
      BY <1>5, <2>1, <2>2, <2>3, SameTypes DEF TypeOK, Final
<1> QED
    BY <1>2, <1>3, <1>4, <1>5

LEMMA TypeStep == TypeOK /\ [Next]_vars => TypeOK'
<1> SUFFICES ASSUME TypeOK, [Next]_vars PROVE TypeOK'
    OBVIOUS
<1>1. CASE UNCHANGED vars
    BY Zenon, <1>1, SameTypes DEF vars, TypeOK, clientVars, queueVars, cacheVars, closeVars
<1>2. CASE Next
    BY Zenon, <1>2, ClientTypesStep, OutsideTypesStep, ControlTypesStep, ResizeTypesStep,
       EngineTypesStep, CollectTypesStep DEF Next, Owner
<1> QED
    BY <1>1, <1>2

-----------------------------------------------------------------------------
(* The cache                                                               *)

Alive(t) == tail[t].st \in {"open", "closing"}

\* The one usable cache.
Only(t) == \A u \in Tails : Alive(u) => u = t

\* What the answer of the last resize says of the cache that is bound.
ReplyIsTrue ==
    /\ job.reply = "ok" => tail[bound].pages = job.pages
    /\ job.reply = "rejected" => tail[bound].pages = job.was

\* The cache, by the place of the owner thread.
LoopCache ==
    /\ serving = bound /\ Only(bound) /\ ReplyIsTrue
    /\ tail[bound].st = "open" \/ flags.closing
PlannedCache ==
    serving = bound /\ Only(bound) /\ tail[bound].st = "open" /\ tail[bound].pages = job.was
SwappedCache ==
    /\ tail[bound].st = "open" /\ tail[bound].pages = job.was
    /\ \E t \in Tails \ {bound} :
          /\ tail[t].st = "open" /\ tail[t].pages = job.pages
          /\ \A u \in Tails : Alive(u) => u \in {t, bound}
NoCache == \A u \in Tails : ~Alive(u)
AnswerCache ==
    /\ job.reply \in {"ok", "rejected", "failed", "fatal"}
    /\ job.reply # "fatal" => Only(bound) /\ tail[bound].st = "open" /\ ReplyIsTrue

CacheInv ==
    /\ pc \in Looping => LoopCache
    /\ pc \in {"close", "collectOpen"} => flags.closing
    /\ pc \in {"swap", "rebuild"} => PlannedCache
    /\ pc = "drop" => SwappedCache
    /\ pc \in {"build", "restore"} => NoCache
    /\ pc = "answer" => AnswerCache

\* Nothing is computed while the cache is replaced, and the closing thread touches
\* a cache only once the owner thread has stopped.
IdleInv ==
    /\ pc \in Resizing => \A c \in Clients : req[c].flight = "no" /\ req[c].st # "active"
    /\ flags.stopped <=> pc = "off"
    /\ closer = "teardown" => flags.stopped

LEMMA InitTail == Init => CacheInv /\ IdleInv
<1> SUFFICES ASSUME Init PROVE CacheInv /\ IdleInv
    OBVIOUS
<1>1. FirstTail \in Tails
    BY ServingAssumption DEF Tails, FirstTail
<1>2. LoopCache
    BY Zenon, <1>1 DEF Init, LoopCache, Only, Alive, ReplyIsTrue
<1> QED
    BY Zenon, <1>2 DEF Init, CacheInv, IdleInv, Looping, Resizing

\* A step of the loop that leaves the caches alone.
LEMMA LoopStep ==
    ASSUME CacheInv, UNCHANGED cacheVars, flags.closing => flags'.closing,
           \/ pc' = pc
           \/ pc \in Looping /\ pc' \in Looping \cup Ending
           \/ pc' \in Ending,
           pc' # pc /\ pc' \in {"close", "collectOpen"} => flags.closing
    PROVE  CacheInv'
<1>1. /\ LoopCache => LoopCache'
      /\ PlannedCache => PlannedCache'
      /\ SwappedCache => SwappedCache'
      /\ NoCache => NoCache'
      /\ AnswerCache => AnswerCache'
    BY Zenon DEF LoopCache, PlannedCache, SwappedCache, NoCache, AnswerCache, Only, Alive, ReplyIsTrue,
           cacheVars
<1> QED
    BY SMTT(60), <1>1 DEF CacheInv, Looping, Ending

\* Steps of the loop that touch no cache: clients, admins, admission, the engine,
\* collecting, failing, and the closing thread before its teardown.
LEMMA CalmSteps ==
    ASSUME TypeOK, CacheInv, IdleInv,
           \/ \E c \in Clients : Client(c) \/ DeviceDone(c) \/ DeviceLost(c)
           \/ \E z \in Admins : AskResize(z) \/ QueueResize(z) \/ ResizeTimesOut(z)
           \/ WorkerFails
           \/ AskClose \/ Join \/ ReadStopped
           \/ Admit \/ AdmitDone \/ ControlsDone \/ Step \/ StepRaises
           \/ \E c \in Clients : Collect(c)
           \/ Fail \/ FailRest \/ Final
    PROVE  CacheInv' /\ IdleInv' /\ tail' = tail
<1>1. ASSUME NEW c \in Clients, Client(c)
      PROVE  UNCHANGED <<pc, flags, cacheVars, req, closer>>
    BY Zenon, <1>1 DEF Client, Reserve, PrepareFails, Submit, Withdraw, Leave, Resolve, NextEvent,
                closeVars
<1>2. ASSUME NEW z \in Admins, AskResize(z) \/ QueueResize(z) \/ ResizeTimesOut(z)
      PROVE  UNCHANGED <<pc, flags, cacheVars, req, closer>>
    BY Zenon, <1>2 DEF AskResize, QueueResize, ResizeTimesOut, closeVars
<1>3. ASSUME WorkerFails
      PROVE  UNCHANGED <<pc, flags, cacheVars, req, closer>>
    BY Zenon, <1>3 DEF WorkerFails, closeVars
<1>4. ASSUME UNCHANGED <<pc, flags, cacheVars, req, closer>>
      PROVE  CacheInv' /\ IdleInv' /\ tail' = tail
  <2>1. CacheInv'
      BY <1>4, LoopStep
  <2> QED
      BY Zenon, <1>4, <2>1 DEF IdleInv, cacheVars
<1>5. ASSUME NEW c \in Clients, DeviceDone(c) \/ DeviceLost(c)
      PROVE  CacheInv' /\ IdleInv' /\ tail' = tail
  <2>1. /\ UNCHANGED <<pc, flags, cacheVars, closer>> /\ req[c].flight = "run"
      BY <1>5 DEF DeviceDone, DeviceLost, closeVars
  <2>2. CacheInv'
      BY Zenon, <2>1, LoopStep
  <2>3. pc \notin Resizing
      BY Zenon, <2>1 DEF IdleInv
  <2> QED
      BY Zenon, <2>1, <2>2, <2>3 DEF IdleInv, cacheVars
<1>6. ASSUME AskClose
      PROVE  CacheInv' /\ IdleInv' /\ tail' = tail
  <2>1. /\ UNCHANGED <<pc, cacheVars, req>> /\ closer' = "join"
        /\ flags' = [flags EXCEPT !.closing = TRUE]
      BY <1>6 DEF AskClose, CloseStep, cacheVars
  <2>2. flags'.closing /\ flags'.stopped = flags.stopped
      BY <2>1 DEF TypeOK, OwnerTypes, Flags
  <2>3. CacheInv'
      BY <2>1, <2>2, LoopStep
  <2> QED
      BY <2>1, <2>2, <2>3 DEF IdleInv, cacheVars
<1>7. ASSUME Join \/ ReadStopped
      PROVE  CacheInv' /\ IdleInv' /\ tail' = tail
  <2>1. /\ UNCHANGED <<pc, cacheVars, req, flags>>
        /\ closer' \in {"idle", "joined"} \/ (closer' = "teardown" /\ flags.stopped)
      BY Zenon, <1>7 DEF Join, ReadStopped, CloseStep, cacheVars
  <2>2. CacheInv'
      BY SMTT(60), <2>1, LoopStep
  <2> QED
      BY Zenon, <2>1, <2>2 DEF IdleInv, cacheVars
<1>8. ASSUME Admit \/ AdmitDone \/ ControlsDone
      PROVE  CacheInv' /\ IdleInv' /\ tail' = tail
  <2>1. /\ UNCHANGED <<cacheVars, flags, closer>>
        /\ pc \in {"admit", "controls"} /\ pc' \in {"admit", "controls", "close", "step"}
        /\ pc' = "close" => flags.closing
      BY Zenon, <1>8 DEF Admit, AdmitDone, ControlsDone, closeVars
  <2>2. CacheInv'
      BY <2>1, LoopStep DEF Looping
  <2> QED
      BY Zenon, <2>1, <2>2 DEF IdleInv, Resizing, cacheVars
<1>9. ASSUME NEW phase \in Collecting, NEW S \in SUBSET Clients, CollectNext(phase, S),
             UNCHANGED <<cacheVars, closer>>, pc = "step" \/ pc = phase,
             pc = "step" => phase = "collect"
      PROVE  CacheInv' /\ IdleInv' /\ tail' = tail
  <2>1. /\ flags'.closing = flags.closing /\ flags'.stopped = flags.stopped
        /\ phase \in {"collect", "collectOpen"} => pc' \in {phase, "fail", "admit"}
        /\ phase = "collectClosed" => pc' \in {phase, "final"}
        /\ phase = "collectFail" => pc' \in {phase, "failrest"}
      BY Zenon, <1>9, CollectNextType
  <2>2. CASE phase \in {"collect", "collectOpen"}
    <3>1. CacheInv'
        BY Zenon, <1>9, <2>1, <2>2, LoopStep DEF Looping, Ending
    <3> QED
        BY Zenon, <1>9, <2>1, <2>2, <3>1 DEF IdleInv, Resizing, cacheVars
  <2>3. CASE phase \in {"collectClosed", "collectFail"}
    <3>1. CacheInv'
        BY Zenon, <1>9, <2>1, <2>3, LoopStep DEF Looping, Ending
    <3> QED
        BY Zenon, <1>9, <2>1, <2>3, <3>1 DEF IdleInv, Resizing, cacheVars
  <2> QED
      BY <1>9, <2>2, <2>3 DEF Collecting
<1>10. ASSUME Step
       PROVE  CacheInv' /\ IdleInv' /\ tail' = tail
  <2>1. "collect" \in Collecting /\ handles \in SUBSET Clients
      BY DEF Collecting, TypeOK, HandleTypes
  <2>2. CollectNext("collect", handles) /\ UNCHANGED <<cacheVars, closer>> /\ pc = "step"
      BY <1>10 DEF Step, closeVars
  <2> QED
      BY SMTT(60), <1>9, <2>1, <2>2
<1>11. ASSUME NEW c \in Clients, Collect(c)
       PROVE  CacheInv' /\ IdleInv' /\ tail' = tail
  <2>1. pc \in Collecting /\ todo \ {c} \in SUBSET Clients
      BY Zenon, <1>11 DEF Collect, TypeOK, OwnerTypes
  <2>2. pc # "step"
      BY <2>1 DEF Collecting
  <2>3. CollectNext(pc, todo \ {c}) /\ UNCHANGED <<cacheVars, closer>>
      BY SMTT(60), <1>11 DEF Collect, closeVars
  <2> QED
      BY SMTT(60), <1>9, <2>1, <2>2, <2>3
<1>12. ASSUME StepRaises \/ Fail \/ FailRest
       PROVE  CacheInv' /\ IdleInv' /\ tail' = tail
  <2>1. /\ UNCHANGED <<cacheVars, closer>> /\ pc \in {"step", "fail", "failrest"}
        /\ pc' \in {"fail", "failclose", "final"}
        /\ flags' = flags \/ flags' = [flags EXCEPT !.fatal = TRUE]
      BY Zenon, <1>12 DEF StepRaises, Fail, FailRest, closeVars
  <2>2. flags'.closing = flags.closing /\ flags'.stopped = flags.stopped
      BY <2>1 DEF TypeOK, OwnerTypes, Flags
  <2>3. CacheInv'
      BY <2>1, <2>2, LoopStep DEF Ending
  <2> QED
      BY <2>1, <2>2, <2>3 DEF IdleInv, Resizing, cacheVars
<1>13. ASSUME Final
       PROVE  CacheInv' /\ IdleInv' /\ tail' = tail
  <2>1. /\ UNCHANGED <<cacheVars, closer>> /\ pc' = "off"
        /\ flags' = [flags EXCEPT !.stopped = TRUE]
      BY <1>13 DEF Final, closeVars
  <2>2. flags'.closing = flags.closing /\ flags'.stopped
      BY <2>1 DEF TypeOK, OwnerTypes, Flags
  <2>3. CacheInv'
      BY <2>1, <2>2, LoopStep DEF Ending
  <2> QED
      BY <2>1, <2>2, <2>3 DEF IdleInv, Resizing, cacheVars
<1> QED
    BY Zenon, <1>1, <1>2, <1>3, <1>4, <1>5, <1>6, <1>7, <1>8, <1>10, <1>11, <1>12, <1>13

\* A drained engine has nothing in flight, and a flushed one no request either.
LEMMA ClosedEngineIsIdle ==
    ASSUME TypeOK, NEW t \in Tails, NEW result, EngineClose(t, result)
    PROVE  /\ \A u \in Tails \ {t} : tail'[u] = tail[u]
           /\ tail'[t].pages = tail[t].pages
           /\ Alive(t)' => Alive(t)
           /\ (\E u \in Tails : tail[u].st # "released" /\ tail'[u].st = "released")
                 => \A c \in Clients : req'[c].flight = "no" /\ req'[c].st # "active"
<1>1. tail \in [Tails -> Cache] /\ tail[t].st \in TailStates
    BY DEF TypeOK, CacheTypes, Cache
<1>2. \E x \in TailStates : tail' = [tail EXCEPT ![t].st = x]
    BY <1>1 DEF EngineClose, TailStates
<1>3. /\ \A u \in Tails \ {t} : tail'[u] = tail[u]
      /\ tail'[t].pages = tail[t].pages
    BY <1>1, <1>2, TailUpdate
<1>4. CASE result = "closed"
  <2>1. Quiet /\ req' = Flushed(Drained) /\ tail'[t].st = "released"
      BY <1>1, <1>4 DEF EngineClose, Cache
  <2>2. ASSUME NEW c \in Clients
        PROVE  req'[c].flight = "no" /\ req'[c].st # "active"
    <3>1. Drained[c].flight = "no"
        BY Zenon, <2>1 DEF Quiet
    <3>2. req'[c] = IF Drained[c].st = "active" THEN Ended(Drained[c], "cancelled") ELSE Drained[c]
        BY Zenon, <2>1 DEF Flushed
    <3> QED
      <4>1. CASE Drained[c].st = "active"
        <5>1. req'[c] = Ended(Drained[c], "cancelled")
            BY Zenon, <3>2, <4>1
        <5>2. \A q : Ended(q, "cancelled").flight = "no" /\ Ended(q, "cancelled").st = "ended"
            BY DEF Ended
        <5>3. "ended" # "active"
            OBVIOUS
        <5> QED
            BY Zenon, <5>1, <5>2, <5>3
      <4>2. CASE Drained[c].st # "active"
          BY Zenon, <3>1, <3>2, <4>2
      <4> QED
          BY Zenon, <4>1, <4>2
  <2> QED
      BY Zenon, <1>3, <2>1, <2>2 DEF Alive
<1>5. CASE result # "closed"
  <2>1. /\ tail'[t].st \in {"closing", "stuck"} \/ tail'[t].st = tail[t].st
        /\ tail'[t].st = "closing" => Alive(t)
      BY <1>1, <1>5 DEF EngineClose, Cache, Alive
  <2> QED
      BY Zenon, <1>3, <2>1 DEF Alive
<1> QED
    BY Zenon, <1>4, <1>5

\* What releases a cache runs on nothing.
IdleRelease ==
    (\E t \in Tails : tail[t].st # "released" /\ tail'[t].st = "released")
       => \A c \in Clients : req'[c].flight = "no" /\ req'[c].st # "active"

\* The closing loop, the failure path and ServingRuntime.close.
LEMMA CloseSteps ==
    ASSUME TypeOK, CacheInv, IdleInv, Close \/ FailClose \/ Teardown
    PROVE  CacheInv' /\ IdleInv' /\ IdleRelease
<1>1. serving \in Tails /\ bound \in Tails /\ handles \in SUBSET Clients
    BY DEF TypeOK, CacheTypes, HandleTypes
<1>2. CASE Close
  <2>1. PICK result \in {"open", "closed", "raised"} :
          /\ EngineClose(serving, result)
          /\ \/ result = "open" /\ CollectNext("collectOpen", handles)
             \/ result = "closed" /\ CollectNext("collectClosed", handles)
             \/ result = "raised" /\ pc' = "fail" /\ UNCHANGED <<todo, flags>>
      BY Zenon, <1>2 DEF Close
  <2>2. IdleRelease
      BY Zenon, <1>1, <2>1, ClosedEngineIsIdle DEF IdleRelease
  <2>3. pc = "close" /\ UNCHANGED <<serving, bound, job, closer>>
      BY Zenon, <1>2 DEF Close, closeVars
  <2>4. serving = bound /\ Only(bound) /\ ReplyIsTrue /\ flags.closing
      BY Zenon, <2>3 DEF CacheInv, LoopCache, Looping
  <2>5. "collectOpen" \in Collecting /\ "collectClosed" \in Collecting
      BY DEF Collecting
  <2>6. /\ flags'.closing = flags.closing /\ flags'.stopped = flags.stopped
        /\ pc' \in {"collectOpen", "admit"} \cup Ending
        /\ pc' # "off"
      BY SMTT(60), <1>1, <2>1, <2>5, CollectNextType DEF Ending
  <2>7. /\ \A u \in Tails \ {bound} : tail'[u] = tail[u]
        /\ tail'[bound].pages = tail[bound].pages
      BY Zenon, <1>1, <2>1, <2>4, ClosedEngineIsIdle
  <2>8. LoopCache'
      BY Zenon, <2>3, <2>4, <2>6, <2>7 DEF LoopCache, Only, Alive, ReplyIsTrue
  <2>9. CacheInv'
      BY Zenon, <2>4, <2>6, <2>8 DEF CacheInv, Looping, Ending
  <2> QED
      BY Zenon, <2>2, <2>3, <2>6, <2>9 DEF IdleInv, Resizing, Ending
<1>3. CASE FailClose
  <2>1. PICK result \in {"open", "closed", "raised"} :
          /\ EngineClose(serving, result)
          /\ IF result = "closed" THEN CollectNext("collectFail", handles)
             ELSE pc' = "failrest" /\ UNCHANGED <<todo, flags>>
      BY Zenon, <1>3 DEF FailClose
  <2>2. IdleRelease
      BY Zenon, <1>1, <2>1, ClosedEngineIsIdle DEF IdleRelease
  <2>3. pc = "failclose" /\ UNCHANGED closer
      BY Zenon, <1>3 DEF FailClose, closeVars
  <2>4. "collectFail" \in Collecting
      BY DEF Collecting
  <2>5. flags'.stopped = flags.stopped /\ pc' \in {"collectFail", "failrest"}
      BY <1>1, <2>1, <2>4, CollectNextType
  <2> QED
      BY Zenon, <2>2, <2>3, <2>5 DEF CacheInv, IdleInv, Looping, Resizing
<1>4. CASE Teardown
  <2>1. IdleRelease
      BY Zenon, <1>1, <1>4, ClosedEngineIsIdle DEF IdleRelease, Teardown
  <2>2. /\ closer = "teardown" /\ closer' \in {"closed", "idle"} /\ UNCHANGED <<pc, flags>>
      BY SMTT(60), <1>4 DEF Teardown, CloseStep
  <2>3. pc = "off"
      BY <2>2 DEF IdleInv
  <2> QED
      BY Zenon, <2>1, <2>2, <2>3 DEF CacheInv, IdleInv, Looping, Resizing
<1> QED
    BY <1>2, <1>3, <1>4

\* A cache that is built is the one that opens.
LEMMA BuiltCache ==
    ASSUME TypeOK, NEW t \in Tails, NEW pages \in Nat, Built(t, pages)
    PROVE  /\ tail[t].st = "none" /\ tail'[t].st = "open" /\ tail'[t].pages = pages
           /\ \A u \in Tails \ {t} : tail'[u] = tail[u]
<1>1. /\ tail \in [Tails -> Cache] /\ tail[t].st = "none"
      /\ tail' = [tail EXCEPT ![t] = [st |-> "open", pages |-> pages]]
    BY DEF Built, NewTail, TypeOK, CacheTypes
<1>2. tail'[t] = [st |-> "open", pages |-> pages]
    BY <1>1
<1>3. \A u \in Tails \ {t} : tail'[u] = tail[u]
    BY <1>1
<1> QED
    BY SMTT(60), <1>1, <1>2, <1>3

\* Cache control and resizes.
LEMMA ResizeSteps ==
    ASSUME TypeOK, CacheInv, IdleInv,
           \/ TakeControl \/ Answer
           \/ SwapBuild \/ SwapDrop \/ RebuildDrop \/ RebuildBuild \/ Restore
    PROVE  CacheInv' /\ IdleInv' /\ IdleRelease
<1>1. /\ bound \in Tails /\ tail \in [Tails -> Cache] /\ job.pages \in Nat /\ job.was \in Nat
      /\ job \in Job
    BY DEF TypeOK, CacheTypes, Job
<1>2. ASSUME NEW next, NEW reply, ResizeStep(next, reply)
      PROVE  /\ pc' = next /\ job'.reply = reply /\ job'.pages = job.pages /\ job'.was = job.was
             /\ UNCHANGED <<serving, flags, req, closer>>
    BY <1>1, <1>2 DEF ResizeStep, Job, closeVars
<1>3. ASSUME NEW next \in Resizing \cup {"answer"}, NEW reply, ResizeStep(next, reply),
             pc \in Resizing
      PROVE  IdleInv'
    BY Zenon, <1>2, <1>3 DEF IdleInv, Resizing
<1>4. ASSUME pc \in Resizing, UNCHANGED req PROVE IdleRelease
    BY Zenon, <1>4 DEF IdleRelease, IdleInv
<1>6. CASE TakeControl
  <2> DEFINE z == Head(controls)
             plan == IF Busy THEN "rejected" ELSE PlanResize(admin[z].pages)
  <2>1. /\ pc = "controls" /\ UNCHANGED <<flags, serving, bound, tail, req, closer>>
        /\ IF flags.closing
           THEN UNCHANGED <<pc, job>>
           ELSE /\ job' = [who |-> {z}, pages |-> admin[z].pages, was |-> tail[bound].pages,
                           reply |-> plan]
                /\ pc' = IF plan \in {"swap", "rebuild"} THEN plan ELSE "answer"
      BY Zenon, <1>6 DEF TakeControl, closeVars
  <2>2. LoopCache
      BY Zenon, <2>1 DEF CacheInv, Looping
  <2>3. /\ plan \in {"rejected", "ok", "swap", "rebuild"}
        /\ plan = "ok" => admin[z].pages = tail[bound].pages
        /\ plan \in {"swap", "rebuild"} => ~Busy
      BY Zenon DEF PlanResize
  <2> HIDE DEF z, plan
  <2>4. IdleRelease
      BY Zenon, <2>1 DEF IdleRelease
  <2>5. CASE flags.closing
    <3>1. CacheInv'
        BY Zenon, <2>1, <2>5, LoopStep DEF cacheVars
    <3> QED
        BY Zenon, <2>1, <2>4, <2>5, <3>1 DEF IdleInv
  <2>6. CASE ~flags.closing
    <3>1. Only(bound)' /\ tail'[bound'].st = "open" /\ serving' = bound'
        BY Zenon, <2>1, <2>2, <2>6 DEF LoopCache, Only, Alive
    <3>2. job'.pages = admin[z].pages /\ job'.was = tail[bound].pages /\ job'.reply = plan
        BY SMTT(60), <2>1, <2>6
    <3>3. CASE plan \in {"swap", "rebuild"}
      <4>1. pc' = plan /\ PlannedCache'
          BY Zenon, <2>1, <2>6, <3>1, <3>2, <3>3 DEF PlannedCache
      <4>2. \A c \in Clients : req[c].flight = "no" /\ req[c].st # "active"
          BY Zenon, <2>3, <3>3 DEF Busy, InFlight
      <4>3. CacheInv'
          BY SMTT(60), <3>3, <4>1 DEF CacheInv, Looping
      <4> QED
          BY Zenon, <2>1, <2>4, <3>3, <4>1, <4>2, <4>3 DEF IdleInv
    <3>4. CASE plan \in {"rejected", "ok"}
      <4>1. pc' = "answer"
          BY Zenon, <2>1, <2>6, <3>4
      <4>2. AnswerCache'
          BY Zenon, <2>1, <2>3, <3>1, <3>2, <3>4 DEF AnswerCache, ReplyIsTrue
      <4>3. CacheInv'
          BY SMTT(60), <4>1, <4>2 DEF CacheInv, Looping
      <4> QED
          BY Zenon, <2>1, <2>4, <4>1, <4>3 DEF IdleInv, Resizing
    <3> QED
        BY Zenon, <2>3, <3>3, <3>4
  <2> QED
      BY <2>5, <2>6
<1>7. CASE Answer
  <2>1. /\ pc = "answer" /\ serving' = bound /\ UNCHANGED <<flags, bound, tail, job, req, closer>>
        /\ pc' = IF job.reply = "fatal" THEN "fail" ELSE "controls"
      BY Zenon, <1>7 DEF Answer, closeVars
  <2>2. AnswerCache
      BY <2>1 DEF CacheInv
  <2>3. CASE job.reply = "fatal"
    <3>1. CacheInv'
        BY Zenon, <2>1, <2>3 DEF CacheInv, Looping
    <3> QED
        BY Zenon, <2>1, <2>3, <3>1 DEF IdleInv, Resizing, IdleRelease
  <2>4. CASE job.reply # "fatal"
    <3>1. LoopCache'
        BY Zenon, <2>1, <2>2, <2>4 DEF AnswerCache, LoopCache, Only, Alive, ReplyIsTrue
    <3>2. CacheInv'
        BY Zenon, <2>1, <2>4, <3>1 DEF CacheInv
    <3> QED
        BY Zenon, <2>1, <2>4, <3>2 DEF IdleInv, Resizing, IdleRelease
  <2> QED
      BY <2>3, <2>4
<1>8. CASE SwapBuild
  <2>1. pc = "swap" /\ PlannedCache
      BY SMTT(60), <1>8 DEF SwapBuild, CacheInv
  <2>2. CASE /\ \E t \in Tails : Built(t, job.pages)
             /\ ResizeStep("drop", "swap") /\ UNCHANGED <<bound, faults>>
    <3>1. PICK t \in Tails : Built(t, job.pages)
        BY <2>2
    <3>2. /\ tail[t].st = "none" /\ tail'[t].st = "open" /\ tail'[t].pages = job.pages
          /\ \A u \in Tails \ {t} : tail'[u] = tail[u]
        BY Zenon, <1>1, <3>1, BuiltCache
    <3>3. t # bound
        BY Zenon, <2>1, <3>2 DEF PlannedCache
    <3>4. pc' = "drop" /\ job'.pages = job.pages /\ job'.was = job.was /\ bound' = bound
        BY Zenon, <1>2, <2>2
    <3>5. SwappedCache'
      <4>1. t \in Tails \ {bound} /\ bound \in Tails \ {t} /\ tail'[bound] = tail[bound]
          BY Zenon, <1>1, <3>2, <3>3 DEF TypeOK, CacheTypes
      <4>2. \A u \in Tails : Alive(u)' => u \in {t, bound}
        <5>1. ASSUME NEW u \in Tails, Alive(u)', u # t PROVE u = bound
          <6>1. Alive(u)
              BY Zenon, <3>2, <5>1 DEF Alive
          <6> QED
              BY Zenon, <2>1, <6>1 DEF PlannedCache, Only
        <5> QED
            BY Zenon, <5>1
      <4> QED
          BY Zenon, <2>1, <3>2, <3>4, <4>1, <4>2 DEF PlannedCache, SwappedCache
    <3>6. CacheInv'
        BY Zenon, <3>4, <3>5 DEF CacheInv, Looping
    <3> QED
        BY Zenon, <1>2, <1>3, <1>4, <2>1, <2>2, <3>6 DEF Resizing
  <2>3. CASE ResizeStep("answer", "failed") /\ UNCHANGED <<bound, tail>>
    <3>1. pc' = "answer" /\ job'.reply = "failed" /\ bound' = bound /\ tail' = tail
        BY Zenon, <1>2, <2>3
    <3>2. AnswerCache'
        BY Zenon, <2>1, <3>1 DEF PlannedCache, AnswerCache, Only, Alive, ReplyIsTrue
    <3>3. CacheInv'
        BY Zenon, <3>1, <3>2 DEF CacheInv, Looping
    <3> QED
        BY Zenon, <1>2, <1>3, <1>4, <2>1, <2>3, <3>3 DEF Resizing
  <2> QED
      BY Zenon, <1>8, <2>2, <2>3 DEF SwapBuild
<1>9. CASE SwapDrop
  <2>1. pc = "drop" /\ SwappedCache
      BY <1>9 DEF SwapDrop, CacheInv
  <2>2. PICK t \in Tails \ {bound} :
           /\ tail[t].st = "open" /\ tail[t].pages = job.pages
           /\ \A u \in Tails : Alive(u) => u \in {t, bound}
      BY Zenon, <2>1 DEF SwappedCache
  <2>3. bound' = t
      BY <1>9, <2>2 DEF SwapDrop, Alive
  <2>4. PICK x \in {"released", "stuck"} :
          /\ tail' = [tail EXCEPT ![bound].st = x]
          /\ ResizeStep("answer", IF x = "released" THEN "ok" ELSE "failed")
      BY <1>9 DEF SwapDrop
  <2>6. /\ tail'[bound].st \notin {"open", "closing"}
        /\ \A u \in Tails \ {bound} : tail'[u] = tail[u]
    <3>1. x \in TailStates
        BY DEF TailStates
    <3> QED
        BY <1>1, <2>4, <3>1, TailUpdate
  <2>7. /\ pc' = "answer" /\ job'.reply = IF x = "released" THEN "ok" ELSE "failed"
        /\ job'.pages = job.pages
      BY <1>2, <2>4
  <2>8. tail'[t].st = "open" /\ tail'[t].pages = job.pages
      BY Zenon, <2>2, <2>6
  <2>9. AnswerCache'
    <3>1. Only(bound)'
        BY Zenon, <2>2, <2>3, <2>6 DEF Only, Alive
    <3> QED
        BY <2>3, <2>4, <2>7, <2>8, <3>1 DEF AnswerCache, ReplyIsTrue
  <2>10. CacheInv'
      BY Zenon, <2>7, <2>9 DEF CacheInv, Looping
  <2> QED
      BY <1>2, <1>3, <1>4, <2>1, <2>4, <2>10 DEF Resizing
<1>10. CASE RebuildDrop
  <2>1. pc = "rebuild" /\ PlannedCache
      BY <1>10 DEF RebuildDrop, CacheInv
  <2>2. PICK x \in {"released", "stuck"} :
          /\ tail' = [tail EXCEPT ![bound].st = x] /\ bound' = bound
          /\ IF x = "released" THEN ResizeStep("build", "rebuild")
             ELSE ResizeStep("answer", "fatal")
      BY <1>10 DEF RebuildDrop
  <2>3. NoCache'
    <3>1. x \in TailStates
        BY DEF TailStates
    <3>2. /\ tail'[bound].st \notin {"open", "closing"}
          /\ \A u \in Tails \ {bound} : tail'[u] = tail[u]
        BY <1>1, <2>2, <3>1, TailUpdate
    <3> QED
        BY Zenon, <2>1, <3>2 DEF PlannedCache, NoCache, Only, Alive
  <2>4. /\ pc' = IF x = "released" THEN "build" ELSE "answer"
        /\ x # "released" => job'.reply = "fatal"
      BY <1>2, <2>2
  <2>5. CacheInv'
      BY Zenon, <2>3, <2>4 DEF CacheInv, Looping, AnswerCache
  <2> QED
      BY <1>2, <1>3, <1>4, <2>1, <2>2, <2>5 DEF Resizing
<1>11. ASSUME NEW t \in Tails, NEW pages \in Nat, Built(t, pages), bound' = t,
              NEW reply \in {"ok", "rejected"}, ResizeStep("answer", reply),
              reply = "ok" => pages = job.pages, reply = "rejected" => pages = job.was,
              pc \in {"build", "restore"}
       PROVE  CacheInv' /\ IdleInv' /\ IdleRelease
  <2>1. NoCache
      BY SMTT(60), <1>11 DEF CacheInv
  <2>2. /\ tail'[t].st = "open" /\ tail'[t].pages = pages
        /\ \A u \in Tails \ {t} : tail'[u] = tail[u]
      BY Zenon, <1>11, BuiltCache
  <2>3. /\ pc' = "answer" /\ job'.reply = reply /\ job'.pages = job.pages /\ job'.was = job.was
      BY Zenon, <1>2, <1>11
  <2>4. AnswerCache'
    <3>1. Only(bound)'
        BY Zenon, <1>11, <2>1, <2>2 DEF NoCache, Only, Alive
    <3> QED
        BY Zenon, <1>11, <2>2, <2>3, <3>1 DEF AnswerCache, ReplyIsTrue
  <2>5. CacheInv'
      BY Zenon, <2>3, <2>4 DEF CacheInv, Looping
  <2> QED
      BY Zenon, <1>2, <1>3, <1>4, <1>11, <2>5 DEF Resizing
<1>12. CASE RebuildBuild
  <2>1. pc = "build" /\ NoCache
      BY Zenon, <1>12 DEF RebuildBuild, CacheInv
  <2>2. CASE /\ \E t \in Tails : Built(t, job.pages) /\ bound' = t
             /\ ResizeStep("answer", "ok")
      BY <1>1, <1>11, <2>1, <2>2
  <2>3. CASE ResizeStep("restore", "rebuild") /\ UNCHANGED <<bound, tail>>
    <3>1. pc' = "restore" /\ NoCache'
        BY Zenon, <1>2, <2>1, <2>3 DEF NoCache, Alive
    <3>2. CacheInv'
        BY <3>1 DEF CacheInv, Looping
    <3> QED
        BY Zenon, <1>2, <1>3, <1>4, <2>1, <2>3, <3>2 DEF Resizing
  <2> QED
      BY Zenon, <1>12, <2>2, <2>3 DEF RebuildBuild
<1>13. CASE Restore
  <2>1. pc = "restore" /\ NoCache
      BY SMTT(60), <1>13 DEF Restore, CacheInv
  <2>2. CASE /\ \E t \in Tails : Built(t, job.was) /\ bound' = t
             /\ ResizeStep("answer", "rejected")
      BY SMTT(60), <1>1, <1>11, <2>1, <2>2
  <2>3. CASE ResizeStep("answer", "fatal")
    <3>1. pc' = "answer" /\ job'.reply = "fatal"
        BY Zenon, <1>2, <2>3
    <3>2. CacheInv'
        BY Zenon, <3>1 DEF CacheInv, Looping, AnswerCache
    <3> QED
        BY Zenon, <1>2, <1>3, <1>4, <2>1, <2>3, <3>2 DEF Resizing
  <2> QED
      BY SMTT(60), <1>13, <2>2, <2>3 DEF Restore
<1> QED
    BY <1>6, <1>7, <1>8, <1>9, <1>10, <1>12, <1>13

LEMMA TailStep == TypeOK /\ CacheInv /\ IdleInv /\ [Next]_vars => CacheInv' /\ IdleInv'
<1> SUFFICES ASSUME TypeOK, CacheInv, IdleInv, [Next]_vars PROVE CacheInv' /\ IdleInv'
    OBVIOUS
<1>1. CASE UNCHANGED vars
  <2>1. UNCHANGED <<pc, flags, cacheVars, req, closer>>
      BY Zenon, <1>1 DEF vars, cacheVars
  <2>2. CacheInv'
      BY SMTT(60), <2>1, LoopStep
  <2> QED
      BY Zenon, <2>1, <2>2 DEF IdleInv
<1>2. CASE Next
    BY Zenon, <1>2, CalmSteps, CloseSteps, ResizeSteps DEF Next, Owner, Closer
<1> QED
    BY <1>1, <1>2

\* Once a resize is answered and the loop goes on, the service runs the one usable
\* cache the runtime has bound, of the requested capacity after a success and of the
\* old one after a rejection, for any number of resizes, failures and generations
\* (apply_resize, _apply_controls).
THEOREM ResizesAllOrNothing == Spec => []ResizesAreAllOrNothing
<1>1. Init => TypeOK /\ CacheInv /\ IdleInv
    BY InitTypeOK, InitTail
<1>2. TypeOK /\ CacheInv /\ IdleInv /\ [Next]_vars => (TypeOK /\ CacheInv /\ IdleInv)'
    BY TypeStep, TailStep
<1>3. CacheInv => ResizesAreAllOrNothing
    BY Zenon DEF CacheInv, LoopCache, Only, Alive, ReplyIsTrue, ResizesAreAllOrNothing, Looping
<1> QED
    BY <1>1, <1>2, <1>3, PTL DEF Spec

\* A cache generation is released only when no slice is in flight and no request is
\* active, whoever releases it (apply_resize, _teardown_tail, ResidentKVEngine.close).
THEOREM TailsReleasedIdle == Spec => ReleasedTailsAreIdle
<1>1. Init => TypeOK /\ CacheInv /\ IdleInv
    BY InitTypeOK, InitTail
<1>2. TypeOK /\ CacheInv /\ IdleInv /\ [Next]_vars => (TypeOK /\ CacheInv /\ IdleInv)'
    BY TypeStep, TailStep
<1>3. TypeOK /\ CacheInv /\ IdleInv /\ [Next]_vars => [IdleRelease]_vars
  <2>1. ASSUME TypeOK, CacheInv, IdleInv, Next PROVE IdleRelease
    <3>1. tail' = tail => IdleRelease
        BY SMTT(60) DEF IdleRelease
    <3> QED
        BY Zenon, <2>1, <3>1, CalmSteps, CloseSteps, ResizeSteps DEF Next, Owner, Closer
  <2> QED
      BY <2>1
<1>4. ReleasedTailsAreIdle <=> [][IdleRelease]_vars
    BY DEF ReleasedTailsAreIdle, IdleRelease
<1> QED
    BY <1>1, <1>2, <1>3, <1>4, PTL DEF Spec
=============================================================================

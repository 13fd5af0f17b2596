---------------------------- MODULE EngineClient ----------------------------
(***************************************************************************)
(* The engine-core split (runtime/engine_client.py) over the front end of  *)
(* module Frontend.                                                        *)
(*                                                                         *)
(* In mode "inproc" InprocEngineCoreClient delegates to AyakaLLM.  In mode *)
(* "zmq" the AyakaLLM runs behind EngineCoreServer: a client thread sends  *)
(* one control message at a time and waits for its reply, the server       *)
(* thread calls AyakaLLM.submit and then hangs a callback on the future,   *)
(* the owner thread pushes events and closures on the output channel, and  *)
(* the client's pump thread feeds them to streams of its own.  The client  *)
(* refuses an id whose stream is open, so ids over the wire are distinct.  *)
(***************************************************************************)
EXTENDS Frontend

CONSTANT Modes       \* [deployment -> the sets of submissions made in it]

ASSUME DistinctIds ==
    \A S \in Modes["zmq"] : \A u, v \in S : IdOf[u] = IdOf[v] => u = v

VARIABLES
    mode,
    call,      \* [Subs -> the client's submit(): "no", "sent", "answered", "replied",
               \* "raised"]
    server,    \* the server thread: "idle", "gone", or the submission whose
               \* future still lacks its callback
    hooked,    \* submissions whose server-side future has its callback
    wire,      \* the PUSH/PULL channel
    adm,       \* [Subs -> the admission future: "none", "waiting", "ok", "error"]
    hfut,      \* [Subs -> the future submit() returned: "pending", "stream", "error"]
    hstreams,  \* ids in the client's collector
    hbuf, hlost, hgot, hreader, \* the client's streams and their consumers
    hclosing   \* ZmqEngineCoreClient.close(): "no", "asked", "done"

hostVars == <<call, server, hooked, wire, adm, hfut, hstreams,
              hbuf, hlost, hgot, hreader, hclosing>>
clientVars == <<vars, mode, hostVars>>

ClientInit ==
    /\ Init
    /\ mode \in DOMAIN Modes /\ {u \in Subs : fut[u] = "none"} \in Modes[mode]
    /\ call = [u \in Subs |-> "no"]
    /\ server = "idle" /\ hooked = {} /\ wire = <<>>
    /\ adm = [u \in Subs |-> "none"]
    /\ hfut = [u \in Subs |-> "none"]
    /\ hstreams = {}
    /\ hbuf = [u \in Subs |-> <<>>]
    /\ hlost = [u \in Subs |-> FALSE]
    /\ hgot = [u \in Subs |-> <<>>]
    /\ hreader = [u \in Subs |-> "none"]
    /\ hclosing = "no"

-----------------------------------------------------------------------------
(* Messages of the output channel                                          *)

Msg(kind, u, e) == [kind |-> kind, sub |-> u, event |-> e]
Result(u) == Msg(IF fut'[u] = "stream" THEN "admitted" ELSE "failed", u, CLOSED)

\* CoreOutputClosed for every id a settlement pass drops, in any order.
ClosedMsgs(R) ==
    {q \in [1 .. Cardinality(R) -> {Msg("closed", u, CLOSED) : u \in {v \in Subs : IdOf[v] \in R}}] :
        \A i, j \in DOMAIN q : q[i] = q[j] => i = j}

Done(state) == state \in {"refused", "cancelled", "error", "stream"}

\* Futures that this step decides and whose callback is in place, in order.
Decided(q) == SelectSeq(q, LAMBDA u : u \in hooked /\ fut[u] = "pending")

-----------------------------------------------------------------------------
(* The client's threads                                                    *)

\* The control socket carries one call at a time (_control_lock), and none
\* after a call that timed out.
ControlFree == \A u \in Subs : call[u] \notin {"sent", "raised"}

\* submit(): register the admission, attach the stream, send.
ClientSubmit(u) ==
    /\ fut[u] = "none" /\ call[u] = "no" /\ ControlFree
    /\ hclosing = "no"
    /\ call' = [call EXCEPT ![u] = "sent"]
    /\ adm' = [adm EXCEPT ![u] = "waiting"]
    /\ hfut' = [hfut EXCEPT ![u] = "pending"]
    /\ hstreams' = hstreams \cup {IdOf[u]}
    /\ UNCHANGED <<vars, mode, server, hooked, wire, hbuf, hlost, hgot, hreader, hclosing>>

\* _admission_resolved(): the stream is looked up when the admission resolves.
Resolved(u, state) ==
    IF state = "ok" /\ IdOf[u] \in hstreams THEN "stream" ELSE "error"

\* The reply arrived: hang _admission_resolved on the admission future, which
\* calls it at once when the pump has already decided it.
ClientReplied(u) ==
    /\ call[u] = "answered"
    /\ call' = [call EXCEPT ![u] = "replied"]
    /\ hfut' = IF adm[u] \in {"ok", "error"}
               THEN [hfut EXCEPT ![u] = Resolved(u, adm[u])] ELSE hfut
    /\ UNCHANGED <<vars, mode, server, hooked, wire, adm, hstreams,
                   hbuf, hlost, hgot, hreader, hclosing>>

\* The server is gone: recv_multipart times out and submit() raises.
ClientTimeout(u) ==
    /\ call[u] = "sent" /\ server = "gone"
    /\ call' = [call EXCEPT ![u] = "raised"]
    /\ hfut' = [hfut EXCEPT ![u] = "error"]
    /\ UNCHANGED <<vars, mode, server, hooked, wire, adm, hstreams,
                   hbuf, hlost, hgot, hreader, hclosing>>

\* _pump(), CoreSubmitResult: resolve the admission; an error drops the stream.
PumpResult(m) ==
    LET u == m.sub
        state == IF m.kind = "admitted" THEN "ok" ELSE "error"
    IN
    /\ m.kind \in {"admitted", "failed"}
    /\ adm' = [adm EXCEPT ![u] = state]
    /\ hstreams' = IF state = "error" THEN hstreams \ {IdOf[u]} ELSE hstreams
    /\ hfut' = IF call[u] = "replied" THEN [hfut EXCEPT ![u] = Resolved(u, state)] ELSE hfut
    /\ UNCHANGED <<hbuf, hlost>>

\* _pump(), OutputEvent: the client's collector, whose overflows nobody reads.
PumpEvent(m) ==
    LET u == m.sub
        e == m.event
        put == Put(hbuf[u], e)
    IN
    /\ m.kind = "event"
    /\ IF IdOf[u] \in hstreams
       THEN /\ hlost' = [hlost EXCEPT ![u] = @ \/ Refused(hbuf[u])]
            /\ hbuf' = [hbuf EXCEPT ![u] =
                           IF e.fin /\ e.unit = IdOf[u] THEN Closed(put) ELSE put]
       ELSE UNCHANGED <<hlost, hbuf>>
    /\ UNCHANGED <<adm, hfut, hstreams>>

\* _pump(), CoreOutputClosed: an overflowed stream is dropped unclosed.
PumpClosed(m) ==
    LET u == m.sub IN
    /\ m.kind = "closed"
    /\ hbuf' = IF IdOf[u] \in hstreams /\ ~hlost[u]
               THEN [hbuf EXCEPT ![u] = Closed(@)] ELSE hbuf
    /\ hstreams' = hstreams \ {IdOf[u]}
    /\ UNCHANGED <<adm, hfut, hlost>>

Pump ==
    /\ hclosing # "done" /\ wire # <<>>
    /\ wire' = Tail(wire)
    /\ PumpResult(Head(wire)) \/ PumpEvent(Head(wire)) \/ PumpClosed(Head(wire))
    /\ UNCHANGED <<vars, mode, call, server, hooked, hgot, hreader, hclosing>>

\* A consumer of a client stream: read, or leave and cancel over the wire.
HostRead(u) ==
    /\ hfut[u] = "stream" /\ hreader[u] = "none" /\ hbuf[u] # <<>>
    /\ hbuf' = [hbuf EXCEPT ![u] = Tail(@)]
    /\ IF Head(hbuf[u]) = CLOSED
       THEN hreader' = [hreader EXCEPT ![u] = "finished"] /\ hgot' = hgot
       ELSE hgot' = [hgot EXCEPT ![u] = Append(@, Head(hbuf[u]))] /\ hreader' = hreader
    /\ UNCHANGED <<vars, mode, call, server, hooked, wire, adm, hfut, hstreams, hlost, hclosing>>

HostLeave(u) ==
    /\ hfut[u] = "stream" /\ hreader[u] = "none"
    /\ hclosing = "no" /\ server = "idle" /\ ControlFree
    /\ hreader' = [hreader EXCEPT ![u] = "left"]
    /\ token' = Cancelled(IdOf[u])
    /\ deserted < MaxDesertions /\ deserted' = deserted + 1
    /\ UNCHANGED <<cmds, fut, reader, got, ownerVars, closing, collVars,
                   life, inc, pend, flight, count, mode, call, server, hooked, wire,
                   adm, hfut, hstreams, hbuf, hlost, hgot, hclosing>>

\* close(): the server passes it on to AyakaLLM.close ...
HostClose ==
    /\ hclosing = "no" /\ ControlFree /\ server \in {"idle", "gone"}
    /\ hclosing' = "asked"
    /\ closing' = (closing \/ server = "idle")
    /\ UNCHANGED <<callerVars, ownerVars, collVars, engineVars,
                   mode, call, server, hooked, wire, adm, hfut, hstreams,
                   hbuf, hlost, hgot, hreader>>

\* ... and once it answers, or the call times out, the pump stops, admissions
\* are forgotten and every stream the collector still knows is closed.
HostClosed ==
    /\ hclosing = "asked"
    /\ hclosing' = "done"
    /\ hbuf' = [u \in Subs |-> IF IdOf[u] \in hstreams
                               THEN Closed(hbuf[u]) ELSE hbuf[u]]
    /\ hstreams' = {}
    /\ UNCHANGED <<vars, mode, call, server, hooked, wire, adm, hfut, hlost, hgot, hreader>>

-----------------------------------------------------------------------------
(* The server thread                                                       *)

\* _handle_control, submit: reply, then AyakaLLM.submit; a refusal is sent at
\* once, otherwise the callback is still to be hung on the future.
ServerSubmit(u) ==
    /\ call[u] = "sent" /\ server = "idle"
    /\ call' = [call EXCEPT ![u] = "answered"]
    /\ Submit(u)
    /\ IF fut'[u] = "refused"
       THEN wire' = Append(wire, Result(u)) /\ server' = server
       ELSE wire' = wire /\ server' = u
    /\ UNCHANGED <<mode, hooked, adm, hfut, hstreams, hbuf, hlost, hgot, hreader, hclosing>>

\* future.add_done_callback: called at once when the owner has already
\* decided the future.
ServerHook(u) ==
    /\ server = u
    /\ server' = "idle"
    /\ IF Done(fut[u])
       THEN /\ wire' = Append(wire, Msg(IF fut[u] = "stream" THEN "admitted" ELSE "failed", u, CLOSED))
            /\ hooked' = hooked
       ELSE wire' = wire /\ hooked' = hooked \cup {u}
    /\ UNCHANGED <<vars, mode, call, adm, hfut, hstreams, hbuf, hlost, hgot, hreader, hclosing>>

\* The owner stopped or close was handled: the sockets are closed with no
\* linger, and what the channel has not delivered may be lost.
ServerExit ==
    /\ stopped /\ server = "idle"
    /\ server' = "gone"
    /\ \E n \in 0 .. Len(wire) : wire' = SubSeq(wire, 1, n)
    /\ UNCHANGED <<vars, mode, call, hooked, adm, hfut, hstreams,
                   hbuf, hlost, hgot, hreader, hclosing>>

-----------------------------------------------------------------------------
(* The owner thread, seen from the output channel                          *)

OwnerKeepsHost == UNCHANGED <<mode, call, server, hooked, adm, hfut, hstreams,
                              hbuf, hlost, hgot, hreader, hclosing>>

\* A future decided by admission or by the finally clause runs its callback.
WireAdmit(u) ==
    /\ Admit(u)
    /\ wire' = IF u \in hooked /\ fut[u] = "pending" THEN Append(wire, Result(u)) ELSE wire
    /\ OwnerKeepsHost

\* The collector forwards an event it has a stream for.
WirePublish(x, fin, more) ==
    /\ Publish(x, fin, more)
    /\ wire' = IF streams[ParentOf(x)] = NoSub THEN wire
               ELSE Append(wire, Msg("event", inc[x], Event(inc[x], x, count[x], fin)))
    /\ OwnerKeepsHost

\* Mutant: _notify_settled is told of a family with each child that ends.
WireSettleEachChild ==
    /\ Settle
    /\ \E q \in ClosedMsgs(Settled \cup {r \in Active : \E x \in UnitsOf(r) : life[x] = "ended"}) :
          wire' = wire \o q
    /\ OwnerKeepsHost

\* _settle() notifies the server of every id it has dropped.
WireSettle ==
    /\ Settle
    /\ \E q \in ClosedMsgs(Settled) : wire' = wire \o q
    /\ OwnerKeepsHost

WireStragglers ==
    /\ FailStragglers
    /\ \E q \in ClosedMsgs(Active) : wire' = wire \o q
    /\ OwnerKeepsHost

WireFinalize ==
    /\ Finalize
    /\ wire' = wire \o [i \in 1 .. Len(Decided(cmds)) |-> Result(Decided(cmds)[i])]
    /\ OwnerKeepsHost

WireOwner ==
    \/ \E u \in Subs : WireAdmit(u)
    \/ \E x \in Units, fin, more \in BOOLEAN : WirePublish(x, fin, more)
    \/ WireSettle
    \/ WireStragglers
    \/ WireFinalize
    \/ /\ \/ BeginStep \/ EndStep \/ StepRaises \/ ClosePass \/ FatalClose
          \/ \E x \in Units : EndUnpublished(x)
       /\ wire' = wire /\ OwnerKeepsHost

-----------------------------------------------------------------------------

InprocNext == mode = "inproc" /\ Next /\ UNCHANGED <<mode, hostVars>>

ZmqNext ==
    /\ mode = "zmq"
    /\ \/ WireOwner
       \/ \E x \in Units : DeviceDone(x) /\ UNCHANGED <<mode, hostVars>>
       \/ Pump \/ HostClose \/ HostClosed \/ ServerExit
       \/ \E u \in Subs :
            \/ ClientSubmit(u) \/ ClientReplied(u) \/ ClientTimeout(u)
            \/ ServerSubmit(u) \/ ServerHook(u)
            \/ HostRead(u) \/ HostLeave(u)

ClientNext == InprocNext \/ ZmqNext

ClientSpec == ClientInit /\ [][ClientNext]_clientVars

OwnerStep ==
    \/ mode = "inproc" /\ Owner /\ UNCHANGED <<mode, hostVars>>
    \/ mode = "zmq" /\ WireOwner

ControlStep(u) ==
    mode = "zmq" /\ (ServerSubmit(u) \/ ServerHook(u) \/ ClientReplied(u) \/ ClientTimeout(u))

ReadStep(u) ==
    \/ mode = "inproc" /\ Read(u) /\ UNCHANGED <<mode, hostVars>>
    \/ mode = "zmq" /\ HostRead(u)

\* The owner, control and pump threads run, the device finishes what it was
\* given, and a consumer that has not left keeps reading.
ClientFairness ==
    /\ WF_clientVars(OwnerStep)
    /\ WF_clientVars(\E x \in Units : DeviceDone(x) /\ UNCHANGED <<mode, hostVars>>)
    /\ WF_clientVars(mode = "zmq" /\ (Pump \/ HostClosed))
    /\ WF_clientVars(\E u \in Subs : ControlStep(u))
    /\ WF_clientVars(\E u \in Subs : ReadStep(u))

FairClientSpec == ClientSpec /\ ClientFairness

-----------------------------------------------------------------------------

\* Events of unit x the consumer of u was given, or that wait for it.
HostDeliveredOf(u, x) == SelectSeq(hgot[u] \o hbuf[u], LAMBDA e : e.unit = x)

\* A client stream carries the events of its own submission, each unit's
\* without gaps from the first on unless the stream overflowed, and nothing
\* behind the end marker.
HostStreamsAreFaithful ==
    \A u \in Subs :
        /\ \A i \in 1 .. Len(hbuf[u]) : hbuf[u][i] = CLOSED => i = Len(hbuf[u])
        /\ \A x \in Units :
             LET d == HostDeliveredOf(u, x) IN
             /\ \A i \in 1 .. Len(d) : d[i].sub = u
             /\ \A i, j \in 1 .. Len(d) : i < j => d[i].index < d[j].index
             /\ ~hlost[u] => \A i \in 1 .. Len(d) : d[i].index = i - 1

\* CoreOutputClosed: "no further events will arrive for this request".
ClosureIsLast ==
    \A i, j \in 1 .. Len(wire) :
        i < j /\ wire[i].kind = "closed" /\ wire[j].kind = "event" => wire[i].sub # wire[j].sub

\* Both collectors, of the owner thread and of the client's pump, hand every
\* consumer the events of its own request in order, without a gap unless the
\* stream overflowed, and its end last; on the wire between them a closure comes
\* behind every event of its request.
DeliveriesAreFaithful == StreamsAreFaithful /\ HostStreamsAreFaithful /\ ClosureIsLast

\* The caller of a request the core admitted is given its stream, as long as
\* nobody closes the client.
AdmittedReachTheHost ==
    \A u \in Subs :
        hfut[u] = "error" /\ call[u] # "raised" /\ hclosing = "no" => fut[u] # "stream"

\* Events of u on the wire or in the client's stream that nobody has read.
Unread(u) ==
    Cardinality({i \in 1 .. Len(wire) : wire[i].kind = "event" /\ wire[i].sub = u})
    + Len(SelectSeq(hbuf[u], LAMBDA e : e # CLOSED))

\* The core gives up a stream only when its consumer has fallen behind by
\* the limit of the stream.
OnlySlowConsumersOverflow ==
    [][\A u \in Subs : mode = "zmq" /\ ~lost[u] /\ lost'[u] => Unread(u) >= StreamLimit]_clientVars

\* Somebody waits: for a future, or for the rest of a stream it reads and that
\* was not displaced.  Over the wire a client stream that overflowed, a core that died and a client
\* that was closed may leave a caller waiting for ever.
Waiting(u) ==
    IF mode = "inproc"
    THEN \/ fut[u] = "pending"
         \/ fut[u] = "stream" /\ reader[u] \in {"none", "reading"} /\ ~Displaced(u)
    ELSE /\ hfut[u] = "pending" \/ (hfut[u] = "stream" /\ hreader[u] = "none")
         /\ ~(hlost[u] \/ server = "gone" \/ hclosing # "no")

\* Whatever happens to the engine, every accepted submission is decided,
\* every consumer that keeps reading reaches the end of its stream, and a
\* front end that was closed stops: it comes to rest again and again.
FrontendComesToRest ==
    []<>((closing => stopped) /\ \A u \in Subs : ~Waiting(u))
=============================================================================

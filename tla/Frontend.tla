------------------------------ MODULE Frontend ------------------------------
(***************************************************************************)
(* The push front end of the engine: AyakaLLM (runtime/llm.py), its        *)
(* OutputCollector and OutputStreams (runtime/collection.py) and the       *)
(* asyncio consumer AsyncAyakaLLM.generate.                                *)
(*                                                                         *)
(* Caller threads put (request, future) commands on a bounded queue, set   *)
(* cancellation tokens and read streams.  One owner thread loops: admit    *)
(* commands, step the engine, settle streams; or, when closing, abort,     *)
(* close the engine, settle.  The engine is kept to what the front end     *)
(* sees of it: a unit (a request, or one child of a parallel family) has a *)
(* lifecycle, at most one slice in flight, and publishes events when that  *)
(* slice settles.                                                          *)
(***************************************************************************)
EXTENDS Naturals, Sequences, FiniteSets

CONSTANTS
    Subs,            \* submissions: one per call of submit()
    Callers,         \* the sets of submissions a behaviour may make
    IdOf,            \* [Subs -> request ids]
    Kids,            \* [request ids -> SUBSET units]; {} for a plain request
    MaxPending,      \* max_pending_commands
    CommandsPerPass, \* _COMMANDS_PER_PASS
    StreamLimit,     \* stream_limit
    MaxEvents,       \* bound: [units -> events the unit publishes]
    MaxDesertions,   \* bound: cancel() calls and consumers that leave
    MayFail,         \* may Engine.step raise?
    NoSub            \* no submission / no stream

Ids == {IdOf[u] : u \in Subs}

\* The requests the engine knows for an id: its children, or itself.
UnitsOf(r) == IF Kids[r] = {} THEN {r} ELSE Kids[r]

Units == UNION {UnitsOf(r) : r \in Ids}

\* _child_parents, and the identity on plain requests.
ParentOf(x) == CHOOSE r \in Ids : x \in UnitsOf(r)

\* An OutputEvent: the incarnation it belongs to, its request id, its
\* event_index, and whether it carries a finish_reason.
Event(u, x, i, fin) == [sub |-> u, unit |-> x, index |-> i, fin |-> fin]

\* The terminal marker of a stream's deque.
CLOSED == Event(NoSub, NoSub, 0, TRUE)

VARIABLES
    cmds,      \* AyakaLLM._commands
    fut,       \* [Subs -> state of the future returned by submit]
    reader,    \* [Subs -> the consumer of the submission's stream]
    pc,        \* where the owner thread is in _run
    passed,    \* commands taken in this pass of _admit_pending
    todo,      \* units whose slice this poll() settles
    closing, stopped,
    streams,   \* OutputCollector._streams: [Ids -> Subs or NoSub]
    overflowed,\* OutputCollector._overflowed
    parallel,  \* keys of AyakaLLM._parallel
    buf,       \* [Subs -> OutputStream._events]
    lost,      \* [Subs -> OutputStream.overflowed]
    deserted,  \* cancel() calls and consumers that left so far (bounded)
    got,       \* [Subs -> events next_event() returned]
    life,      \* [Units -> lifecycle: "none", "active", "ended"]
    inc,       \* [Units -> the submission the lifecycle was created for]
    token,     \* [Units -> cancellation token set]
    pend,      \* [Units -> abort recorded by the scheduler]
    flight,    \* [Units -> its slice: "no", "run", "done"]
    count      \* [Units -> length of the output state's event list]

callerVars == <<cmds, fut, reader, got, deserted>>
ownerVars  == <<pc, passed, todo, stopped>>
collVars   == <<streams, overflowed, parallel, buf, lost>>
engineVars == <<life, inc, token, pend, flight, count>>
vars == <<cmds, fut, reader, got, deserted, pc, passed, todo, closing, stopped,
          streams, overflowed, parallel, buf, lost,
          life, inc, token, pend, flight, count>>

Init ==
    /\ cmds = <<>>
    /\ \E C \in Callers : fut = [u \in Subs |-> IF u \in C THEN "none" ELSE "absent"]
    /\ reader = [u \in Subs |-> "none"]
    /\ got = [u \in Subs |-> <<>>] /\ deserted = 0
    /\ pc = "admit" /\ passed = 0 /\ todo = {}
    /\ closing = FALSE /\ stopped = FALSE
    /\ streams = [r \in Ids |-> NoSub]
    /\ overflowed = {} /\ parallel = {}
    /\ buf = [u \in Subs |-> <<>>]
    /\ lost = [u \in Subs |-> FALSE]
    /\ life = [x \in Units |-> "none"]
    /\ inc = [x \in Units |-> NoSub]
    /\ token = [x \in Units |-> FALSE]
    /\ pend = [x \in Units |-> FALSE]
    /\ flight = [x \in Units |-> "no"]
    /\ count = [x \in Units |-> 0]

-----------------------------------------------------------------------------
(* OutputStream                                                            *)

\* put() and close() look only at the last element of the deque.
IsClosed(b) == b # <<>> /\ b[Len(b)] = CLOSED

Closed(b) == IF IsClosed(b) THEN b ELSE Append(b, CLOSED)

\* put() refuses an event of an open stream whose deque is full.
Refused(b) == ~IsClosed(b) /\ Len(b) >= StreamLimit

\* Mutant: the limit is taken for the first length that is full.
PutBelowLimit(b, e) == IF IsClosed(b) \/ Len(b) + 1 >= StreamLimit THEN b ELSE Append(b, e)

Put(b, e) == IF IsClosed(b) \/ Refused(b) THEN b ELSE Append(b, e)

-----------------------------------------------------------------------------
(* Caller threads                                                          *)

\* submit(): refused once stopped or closing, or when the queue is full.
SubmitOK == ~stopped /\ ~closing /\ Len(cmds) < MaxPending

Submit(u) ==
    /\ fut[u] = "none"
    /\ IF SubmitOK
       THEN cmds' = Append(cmds, u) /\ fut' = [fut EXCEPT ![u] = "pending"]
       ELSE cmds' = cmds /\ fut' = [fut EXCEPT ![u] = "refused"]
    /\ UNCHANGED <<reader, got, deserted, ownerVars, closing, collVars, engineVars>>

\* The task awaiting submit() is cancelled: wrap_future cancels the future,
\* which only works before the owner has started on it.
CancelFuture(u) ==
    /\ fut[u] = "pending"
    /\ deserted < MaxDesertions /\ deserted' = deserted + 1
    /\ fut' = [fut EXCEPT ![u] = "cancelled"]
    /\ UNCHANGED <<cmds, reader, got, ownerVars, closing, collVars, engineVars>>

\* cancel(): a parent this front end opened fans out to its children; only a
\* lifecycle the registry still holds as active has a token to set.
Cancelled(r) ==
    LET hit == IF r \in parallel THEN Kids[r] ELSE {r}
    IN  [x \in Units |-> token[x] \/ (x \in hit /\ life[x] = "active")]

Cancel(r) ==
    /\ token' = Cancelled(r) /\ token' # token
    /\ deserted < MaxDesertions /\ deserted' = deserted + 1
    /\ UNCHANGED <<cmds, fut, reader, got, ownerVars, closing, collVars,
                   life, inc, pend, flight, count>>

\* generate(): one turn of next_event(); on the end marker its finally
\* clause cancels the id.
Read(u) ==
    /\ fut[u] = "stream" /\ reader[u] \in {"none", "reading"}
    /\ buf[u] # <<>>
    /\ buf' = [buf EXCEPT ![u] = Tail(@)]
    /\ IF Head(buf[u]) = CLOSED
       THEN /\ reader' = [reader EXCEPT ![u] = "finished"]
            /\ token' = Cancelled(IdOf[u])
            /\ got' = got
       ELSE /\ reader' = [reader EXCEPT ![u] = "reading"]
            /\ got' = [got EXCEPT ![u] = Append(@, Head(buf[u]))]
            /\ token' = token
    /\ UNCHANGED <<cmds, fut, deserted, ownerVars, closing, streams, overflowed, parallel,
                   lost, life, inc, pend, flight, count>>

\* generate() left early: the same finally clause.
Leave(u) ==
    /\ fut[u] = "stream" /\ reader[u] \in {"none", "reading"}
    /\ deserted < MaxDesertions /\ deserted' = deserted + 1
    /\ reader' = [reader EXCEPT ![u] = "left"]
    /\ token' = Cancelled(IdOf[u])
    /\ UNCHANGED <<cmds, fut, got, ownerVars, closing, collVars,
                   life, inc, pend, flight, count>>

\* The task awaiting the admission is cancelled after the owner has taken the
\* command: generate() never enters its try block, nobody reads the stream
\* and nothing cancels the request.
Orphan(u) ==
    /\ fut[u] = "stream" /\ reader[u] = "none"
    /\ deserted < MaxDesertions /\ deserted' = deserted + 1
    /\ reader' = [reader EXCEPT ![u] = "orphan"]
    /\ UNCHANGED <<cmds, fut, got, ownerVars, closing, collVars, engineVars>>

\* close() from any thread.
Close ==
    /\ ~closing
    /\ closing' = TRUE
    /\ UNCHANGED <<callerVars, ownerVars, collVars, engineVars>>

-----------------------------------------------------------------------------
(* The owner thread: admission                                             *)

Skip(u) ==
    /\ fut[u] = "cancelled"
    /\ UNCHANGED <<fut, collVars, engineVars>>

\* attach() refuses an id whose stream is open.  Either failure path drops
\* the id from the collector and from _parallel.
Drop(r) ==
    /\ streams' = [streams EXCEPT ![r] = NoSub]
    /\ overflowed' = overflowed \ {r}
    /\ parallel' = parallel \ {r}

Duplicate(u) ==
    LET r == IdOf[u] IN
    /\ fut[u] = "pending"
    /\ streams[r] # NoSub
    /\ Drop(r)
    /\ fut' = [fut EXCEPT ![u] = "error"]
    /\ UNCHANGED <<buf, lost, engineVars>>

\* engine.submit() raises: always for an id whose lifecycle is still known,
\* otherwise for lack of capacity or an unsupported option.
Refuse(u) ==
    LET r == IdOf[u] IN
    /\ fut[u] = "pending"
    /\ streams[r] = NoSub
    /\ Drop(r)
    /\ fut' = [fut EXCEPT ![u] = "error"]
    /\ UNCHANGED <<buf, lost, engineVars>>

Accept(u) ==
    LET r == IdOf[u] IN
    /\ fut[u] = "pending"
    /\ streams[r] = NoSub
    /\ \A x \in UnitsOf(r) : life[x] = "none"
    /\ streams' = [streams EXCEPT ![r] = u]
    /\ overflowed' = overflowed \ {r}
    /\ parallel' = IF Kids[r] = {} THEN parallel ELSE parallel \cup {r}
    /\ fut' = [fut EXCEPT ![u] = "stream"]
    /\ life' = [x \in Units |-> IF x \in UnitsOf(r) THEN "active" ELSE life[x]]
    /\ inc' = [x \in Units |-> IF x \in UnitsOf(r) THEN u ELSE inc[x]]
    /\ UNCHANGED <<buf, lost, token, pend, flight, count>>

\* One command of _admit_pending.
Admit(u) ==
    /\ pc = "admit" /\ passed < CommandsPerPass
    /\ cmds # <<>> /\ Head(cmds) = u
    /\ cmds' = Tail(cmds)
    /\ passed' = passed + 1
    /\ Skip(u) \/ Duplicate(u) \/ Refuse(u) \/ Accept(u)
    /\ UNCHANGED <<reader, got, deserted, pc, todo, closing, stopped>>

-----------------------------------------------------------------------------
(* The engine step                                                         *)

\* The scheduler's abort() of a set of units that are still active.
Aborted(X) == [x \in Units |-> pend[x] \/ (x \in X /\ life[x] = "active")]

AbortToken(X) == [x \in Units |-> token[x] \/ (x \in X /\ life[x] = "active")]

\* The queue is drained or the pass is used up: Engine.step() turns tokens
\* into aborts and polls for the slices the device has finished.
BeginStep ==
    /\ pc = "admit"
    /\ cmds = <<>> \/ passed = CommandsPerPass
    /\ ~closing
    /\ pc' = "step" /\ passed' = 0
    /\ pend' = Aborted({x \in Units : token[x]})
    /\ todo' = {x \in Units : flight[x] = "done"}
    /\ UNCHANGED <<callerVars, closing, stopped, collVars,
                   life, inc, token, flight, count>>

\* OutputProcessor.on_published -> OutputCollector.on_output_event: one event
\* of a settled slice; a speculative slice publishes several (more).  The
\* finish reason closes a plain stream and ends the request.
Publish(x, fin, more) ==
    LET r == ParentOf(x)
        s == streams[r]
        e == Event(inc[x], x, count[x], fin)
        put == Put(buf[s], e)
    IN
    /\ pc = "step" /\ x \in todo
    /\ life[x] = "active" /\ ~pend[x]
    /\ count[x] < MaxEvents[x]
    /\ count[x] + 1 = MaxEvents[x] => fin
    /\ fin => ~more
    /\ count' = [count EXCEPT ![x] = @ + 1]
    /\ life' = IF fin THEN [life EXCEPT ![x] = "ended"] ELSE life
    /\ todo' = IF more THEN todo ELSE todo \ {x}
    /\ flight' = IF more THEN flight ELSE [flight EXCEPT ![x] = "no"]
    /\ IF s = NoSub
       THEN UNCHANGED <<overflowed, buf, lost>>
       ELSE /\ overflowed' = IF Refused(buf[s]) THEN overflowed \cup {r} ELSE overflowed
            /\ lost' = IF Refused(buf[s]) THEN [lost EXCEPT ![s] = TRUE] ELSE lost
            /\ buf' = [buf EXCEPT ![s] =
                          IF fin /\ x = r THEN Closed(put) ELSE put]
    /\ UNCHANGED <<callerVars, pc, passed, closing, stopped, streams, parallel,
                   inc, token, pend>>

\* A slice settles without an event: the sample of a cancelled request is
\* discarded, or the request failed.  Either ends the lifecycle.
EndUnpublished(x) ==
    /\ pc = "step" /\ x \in todo
    /\ todo' = todo \ {x}
    /\ flight' = [flight EXCEPT ![x] = "no"]
    /\ life' = [life EXCEPT ![x] = IF @ = "active" THEN "ended" ELSE @]
    /\ UNCHANGED <<callerVars, pc, passed, closing, stopped, collVars,
                   inc, token, pend, count>>

Launchable == {x \in Units : life[x] = "active" /\ ~pend[x] /\ flight[x] = "no"}

\* The poll is handled: reports of aborted requests are applied, and some
\* live requests are launched, at least one when nothing is in flight.
EndStep ==
    /\ pc = "step" /\ todo = {}
    /\ pc' = "settle"
    /\ life' = [x \in Units |-> IF life[x] = "active" /\ pend[x] /\ flight[x] = "no"
                               THEN "ended" ELSE life[x]]
    /\ \E X \in SUBSET Launchable :
          /\ X = {} => Launchable = {} \/ \E x \in Units : flight[x] # "no"
          /\ flight' = [x \in Units |-> IF x \in X THEN "run" ELSE flight[x]]
    /\ UNCHANGED <<callerVars, passed, todo, closing, stopped, collVars,
                   inc, token, pend, count>>

\* Engine.step() raises: the owner goes to its except clause.
StepRaises ==
    /\ MayFail /\ pc = "step"
    /\ pc' = "fatal" /\ todo' = {}
    /\ UNCHANGED <<callerVars, passed, closing, stopped, collVars, engineVars>>

\* The device finishes a slice.
DeviceDone(x) ==
    /\ flight[x] = "run"
    /\ flight' = [flight EXCEPT ![x] = "done"]
    /\ UNCHANGED <<callerVars, ownerVars, closing, collVars,
                   life, inc, token, pend, count>>

-----------------------------------------------------------------------------
(* Settlement and shutdown                                                 *)

Active == {r \in Ids : streams[r] # NoSub}

\* Mutant: a family is over with its first child.
FinishedWithAnyChild ==
    {r \in Active \ overflowed :
        IF r \in parallel THEN \E x \in Kids[r] : life[x] = "ended" ELSE life[r] = "ended"}

\* _settle(): the second loop takes plain requests whose lifecycle is
\* terminal and families whose children all are (or are unknown).
Finished ==
    {r \in Active \ overflowed :
        IF r \in parallel THEN \A x \in Kids[r] : life[x] \in {"none", "ended"}
                          ELSE life[r] = "ended"}

Settled == overflowed \cup Finished

CloseStreams(R) ==
    buf' = [u \in Subs |-> IF IdOf[u] \in R /\ streams[IdOf[u]] = u
                           THEN Closed(buf[u]) ELSE buf[u]]

\* _forget(): the output state goes; the registry refuses to forget a
\* lifecycle that is still active.
Forgotten(R) ==
    [x \in Units |-> IF ParentOf(x) \in R /\ life[x] = "ended" THEN "none" ELSE life[x]]

\* drop() and _forget_family() of a set of ids.
DropAll(R) ==
    /\ streams' = [r \in Ids |-> IF r \in R THEN NoSub ELSE streams[r]]
    /\ overflowed' = overflowed \ R
    /\ parallel' = parallel \ R
    /\ CloseStreams(R)
    /\ life' = Forgotten(R)
    /\ count' = [x \in Units |-> IF ParentOf(x) \in R THEN 0 ELSE count[x]]

\* _settle(): abort and drop overflowed streams, then drop finished ones.
\* The abort's report is applied by a later step, so the lifecycle of an
\* overflowed stream is still active when _forget() is called.
Settle ==
    /\ pc \in {"settle", "closedSettle", "drainSettle", "fatalSettle"}
    /\ pc' = IF pc \in {"closedSettle", "fatalSettle"} THEN "straggle" ELSE "admit"
    /\ DropAll(Settled)
    /\ LET X == UNION {UnitsOf(r) : r \in overflowed} IN
       /\ token' = [x \in Units |-> life'[x] # "none" /\ AbortToken(X)[x]]
       /\ pend' = [x \in Units |-> life'[x] # "none" /\ Aborted(X)[x]]
    /\ UNCHANGED <<callerVars, passed, todo, closing, stopped, lost, inc, flight>>

\* Slices the device has finished settle in coordinator.shutdown(): their
\* requests were aborted, so nothing is published.
Drained ==
    [x \in Units |-> IF flight[x] = "done" THEN "no" ELSE flight[x]]

DrainedLife ==
    [x \in Units |-> IF flight[x] = "done" /\ (pend[x] \/ token[x]) /\ life[x] = "active"
                     THEN "ended" ELSE life[x]]

\* The closing branch of _run: _abort_active() and engine.close().
ClosePass ==
    /\ pc = "admit" /\ closing
    /\ cmds = <<>> \/ passed = CommandsPerPass
    /\ passed' = 0
    /\ LET X == UNION {UnitsOf(r) : r \in Active} IN
       /\ token' = AbortToken(X)
       /\ pend' = Aborted(X)
       /\ life' = [x \in Units |-> IF flight[x] = "done" /\ (pend[x] \/ token[x] \/ x \in X)
                                      /\ life[x] = "active"
                                   THEN "ended" ELSE life[x]]
    /\ flight' = Drained
    /\ pc' = IF \A x \in Units : flight[x] # "run" THEN "closedSettle" ELSE "drainSettle"
    /\ UNCHANGED <<callerVars, todo, closing, stopped, collVars, inc, count>>

\* The except clause: engine.close() once, whatever it returns.
FatalClose ==
    /\ pc = "fatal"
    /\ pc' = "fatalSettle"
    /\ \/ flight' = Drained /\ life' = DrainedLife
       \/ UNCHANGED <<flight, life>>
    /\ UNCHANGED <<callerVars, passed, todo, closing, stopped, collVars,
                   inc, token, pend, count>>

\* _fail_stragglers(): close what settlement could not finish.
FailStragglers ==
    /\ pc = "straggle"
    /\ pc' = "final"
    /\ DropAll(Active)
    /\ UNCHANGED <<callerVars, passed, todo, closing, stopped, lost,
                   inc, token, pend, flight>>

\* Mutant: the finally clause leaves the queue as it is.
FinalizeKeepingQueue ==
    /\ pc = "final"
    /\ pc' = "off" /\ stopped' = TRUE
    /\ UNCHANGED <<callerVars, passed, todo, closing, collVars, engineVars>>

\* The finally clause, under the submit lock: stop, then fail what is queued.
Finalize ==
    /\ pc = "final"
    /\ pc' = "off" /\ stopped' = TRUE
    /\ cmds' = <<>>
    /\ fut' = [u \in Subs |-> IF fut[u] = "pending" THEN "error" ELSE fut[u]]
    /\ UNCHANGED <<reader, got, deserted, passed, todo, closing, collVars, engineVars>>

-----------------------------------------------------------------------------

Owner ==
    \/ \E u \in Subs : Admit(u)
    \/ BeginStep
    \/ \E x \in Units : \/ \E fin, more \in BOOLEAN : Publish(x, fin, more)
                        \/ EndUnpublished(x)
    \/ EndStep
    \/ StepRaises
    \/ Settle
    \/ ClosePass
    \/ FatalClose
    \/ FailStragglers
    \/ Finalize

Next ==
    \/ Owner
    \/ Close
    \/ \E x \in Units : DeviceDone(x)
    \/ \E u \in Subs : \/ Submit(u) \/ CancelFuture(u)
                      \/ Read(u) \/ Leave(u) \/ Orphan(u)
    \/ \E r \in Ids : Cancel(r)

Spec == Init /\ [][Next]_vars

-----------------------------------------------------------------------------

\* What the consumer of a stream was given so far and what waits for it.
Delivered(u) == SelectSeq(got[u] \o buf[u], LAMBDA e : e # CLOSED)

DeliveredOf(u, x) == SelectSeq(Delivered(u), LAMBDA e : e.unit = x)

\* The consumer saw the end marker, or will after what is buffered.
Ended(u) == reader[u] = "finished" \/ IsClosed(buf[u])

\* A stream carries events of its own submission only, each unit's in the
\* order they were published, and all of them unless the stream overflowed;
\* the end marker comes last.
StreamsAreFaithful ==
    \A u \in Subs :
        /\ \A i \in 1 .. Len(buf[u]) : buf[u][i] = CLOSED => i = Len(buf[u])
        /\ \A x \in Units :
             LET d == DeliveredOf(u, x) IN
             /\ \A i \in 1 .. Len(d) : d[i].sub = u
             /\ \A i, j \in 1 .. Len(d) : i < j => d[i].index < d[j].index
             /\ ~lost[u] /\ inc[x] = u /\ streams[IdOf[u]] = u => Len(d) = count[x]

\* A stream ends only when no unit of it can publish any more, or when the
\* owner thread is gone.
EndedStreamsAreOver ==
    \A u \in Subs : fut[u] = "stream" /\ Ended(u) =>
        \/ pc \in {"final", "off"}
        \/ \A x \in Units : inc[x] = u /\ life[x] = "active" => pend[x]

\* Another submission of the same id was refused: _admit_pending then drops
\* the id, and with it a stream that may still be open.
Displaced(u) == \E v \in Subs \ {u} : IdOf[v] = IdOf[u] /\ fut[v] = "error"

\* A stream that was handed out and has not ended is known to the collector:
\* whatever happens to its request, settlement will end it.
OpenStreamsAreRegistered ==
    \A u \in Subs : fut[u] = "stream" /\ ~Ended(u) /\ ~Displaced(u) => streams[IdOf[u]] = u

\* Engine-side state outlives its stream only when the stream overflowed (the
\* abort is still unreported when _forget is called) or was displaced, or the
\* owner is gone.
OnlyOverflowLeaks ==
    \A x \in Units : life[x] # "none" /\ streams[ParentOf(x)] = NoSub =>
        lost[inc[x]] \/ Displaced(inc[x]) \/ pc \in {"final", "off"}

\* Streams and requests end together: _settle ends no stream whose request can
\* still publish, loses no stream that has not ended, and forgets the request
\* of every stream it drops unless that stream overflowed; a stream whose id
\* was submitted again while it was open is excepted.
StreamsFollowRequests ==
    EndedStreamsAreOver /\ OpenStreamsAreRegistered /\ OnlyOverflowLeaks
=============================================================================

------------------------- MODULE ServingStreamProofs -------------------------
(***************************************************************************)
(* Proofs about the streams of Serving, for any number of clients and      *)
(* events and any bound on the stream queue: a stream that was read to its *)
(* end is whole.                                                           *)
(***************************************************************************)
EXTENDS ServingProofs

\* The events of a request in the order the client sees them, read and unread.
Stream(c) == got[c] \o handle[c].queue

\* How many of the events of s are text, for a handle h.
Texts(s, h) == IF h.sent THEN Len(s) - 1 ELSE Len(s)

\* The stream s of a handle h: text that grows up to the cursor, short of it while
\* the parser withholds some, and all of it unless the handle failed or was
\* cancelled; then the terminal.
Grows(s, h) ==
    /\ h.sent => Len(s) > 0 /\ s[Len(s)].kind # "delta"
    /\ \A i \in 1 .. Texts(s, h) :
          s[i].kind = "delta" /\ s[i].n <= h.cursor /\ (h.held => s[i].n < h.cursor)
    /\ \A i, j \in 1 .. Texts(s, h) : i < j => s[i].n < s[j].n
    /\ ~h.sent /\ ~h.error /\ ~h.cancelled /\ ~h.held /\ h.cursor > 0
          => Len(s) > 0 /\ s[Len(s)].n = h.cursor

\* A stream that ends well has all the text of a request q that finished.
EndsWell(s, h, q) ==
    h.sent /\ s[Len(s)].kind = "stop"
       => q.st = "gone" /\ q.why = "stop" /\ Len(s) > 1 /\ s[Len(s) - 1].n = q.n

\* An ended request has no slice, and one that finished has text.
LifeOK(q) ==
    /\ q.st # "active" => q.flight = "no"
    /\ q.st = "ended" => q.why \in Ends
    /\ q.why = "stop" => q.n > 0

\* Before its future, and while it has no handle.
Early == {"absent", "idle", "preparing"}

\* A handle is made for an admitted request, and has no terminal before its request
\* is settled or the engine given up.
LifeOf(c) ==
    /\ LifeOK(req[c])
    /\ c \in todo => c \in handles
    /\ c \in handles => fut[c] = "handle" /\ req[c].st \in {"active", "ended"}
    /\ at[c] \in Early => fut[c] = "none"
    /\ fut[c] # "handle" => req[c].st = "none" /\ ~handle[c].sent
    /\ c \in handles /\ pc \notin {"final", "off"} => ~handle[c].sent
    /\ at[c] \in Early \cup {"waiting"} => ~handle[c].cancelled

StreamOf(c) ==
    /\ Grows(Stream(c), handle[c])
    /\ EndsWell(Stream(c), handle[c], req[c])
    /\ handle[c].cursor <= req[c].n
    /\ at[c] = "done" => got[c] # <<>> /\ got[c][Len(got[c])].kind # "delta"

StreamInv == \A c \in Clients : LifeOf(c) /\ StreamOf(c)

LEMMA AppendFacts ==
    ASSUME NEW S, NEW s \in Seq(S), NEW e \in S
    PROVE  /\ Append(s, e) \in Seq(S) /\ Len(Append(s, e)) = Len(s) + 1 /\ Len(s) \in Nat
           /\ Append(s, e)[Len(s) + 1] = e
           /\ \A i \in 1 .. Len(s) : Append(s, e)[i] = s[i]
OBVIOUS

LEMMA HeadFacts ==
    ASSUME NEW S, NEW s \in Seq(S), s # <<>>
    PROVE  Head(s) \in S /\ Tail(s) \in Seq(S) /\ Len(s) \in Nat /\ Len(s) > 0
OBVIOUS

LEMMA StreamShapes ==
    ASSUME NEW S, NEW g \in Seq(S), NEW q \in Seq(S)
    PROVE  /\ g \o q \in Seq(S) /\ Len(g \o q) = Len(g) + Len(q)
           /\ Len(g) \in Nat /\ Len(q) \in Nat
           /\ \A i \in 1 .. Len(g) : (g \o q)[i] = g[i]
           /\ \A e \in S : g \o Append(q, e) = Append(g \o q, e)
           /\ q # <<>> => Append(g, Head(q)) \o Tail(q) = g \o q
<1>1. /\ g \o q \in Seq(S) /\ Len(g \o q) = Len(g) + Len(q)
      /\ Len(g) \in Nat /\ Len(q) \in Nat
    OBVIOUS
<1>2. \A i \in 1 .. Len(g) : (g \o q)[i] = g[i]
    OBVIOUS
<1>3. ASSUME NEW e \in S PROVE g \o Append(q, e) = Append(g \o q, e)
    OBVIOUS
<1>4. q # <<>> => Append(g, Head(q)) \o Tail(q) = g \o q
    OBVIOUS
<1> QED
    BY Zenon, <1>1, <1>2, <1>3, <1>4

\* A stream that has not ended, value by value.
LEMMA OpenStream ==
    ASSUME NEW s \in Seq(Event), NEW h \in Handle, ~h.sent
    PROVE  Grows(s, h) <=>
             /\ \A i \in 1 .. Len(s) :
                   s[i].kind = "delta" /\ s[i].n <= h.cursor /\ (h.held => s[i].n < h.cursor)
             /\ \A i, j \in 1 .. Len(s) : i < j => s[i].n < s[j].n
             /\ ~h.error /\ ~h.cancelled /\ ~h.held /\ h.cursor > 0
                   => Len(s) > 0 /\ s[Len(s)].n = h.cursor
BY DEF Grows, Texts

\* Text up to the cursor is put behind shorter text.
LEMMA TextGrows ==
    ASSUME NEW s \in Seq(Event), NEW h \in Handle, NEW f \in Handle,
           ~h.sent, ~f.sent, ~f.held, f.cursor = h.cursor, Grows(s, h),
           \A i \in 1 .. Len(s) : s[i].n < h.cursor
    PROVE  LET t == Append(s, Delta(f.cursor)) IN
           Grows(t, f) /\ Len(t) > 0 /\ t[Len(t)].n = f.cursor
<1> DEFINE e == Delta(f.cursor)
           t == Append(s, e)
<1>1. e \in Event /\ e.kind = "delta" /\ e.n = f.cursor /\ f.cursor \in Nat
    BY DEF Delta, Event, Handle
<1> HIDE DEF e
<1>2. /\ t \in Seq(Event) /\ Len(t) = Len(s) + 1 /\ Len(s) \in Nat
      /\ \A i \in 1 .. Len(s) : t[i] = s[i]
      /\ t[Len(s) + 1] = e
    BY <1>1, AppendFacts
<1> HIDE DEF t
<1>3. \A i \in 1 .. Len(t) : i \in 1 .. Len(s) \/ i = Len(s) + 1
    BY <1>2
<1>4. \A i \in 1 .. Len(s) : s[i].kind = "delta"
    BY OpenStream
<1>5. \A i \in 1 .. Len(t) : t[i].kind = "delta" /\ t[i].n <= f.cursor
  <2> TAKE i \in 1 .. Len(t)
  <2>1. CASE i \in 1 .. Len(s)
    <3>1. s[i] \in Event /\ s[i].n < f.cursor
        BY <2>1
    <3>2. s[i].n \in Nat
        BY <3>1 DEF Event
    <3> QED
        BY <1>1, <1>2, <1>4, <2>1, <3>1, <3>2
  <2>2. CASE i = Len(s) + 1
      BY <1>1, <1>2, <2>2
  <2> QED
      BY <1>3, <2>1, <2>2
<1>6. \A i, j \in 1 .. Len(t) : i < j => t[i].n < t[j].n
  <2> SUFFICES ASSUME NEW i \in 1 .. Len(t), NEW j \in 1 .. Len(t), i < j PROVE t[i].n < t[j].n
      OBVIOUS
  <2>1. i \in 1 .. Len(s)
      BY <1>2, <1>3
  <2>2. CASE j \in 1 .. Len(s)
      BY <1>2, <2>1, <2>2, OpenStream
  <2>3. CASE j = Len(s) + 1
      BY <1>1, <1>2, <2>1, <2>3
  <2> QED
      BY <1>3, <2>2, <2>3
<1>7. Len(t) > 0 /\ t[Len(t)].n = f.cursor
    BY <1>1, <1>2
<1>8. Grows(t, f)
    BY SMTT(60), <1>2, <1>5, <1>6, <1>7, OpenStream
<1> QED
    BY <1>7, <1>8 DEF t, e

\* parser.feed moves the cursor and keeps the stream growing.
LEMMA FeedGrows ==
    ASSUME NEW g \in Seq(Event), NEW h \in Handle, NEW n \in Nat, NEW hold \in BOOLEAN,
           ~h.sent, h.cursor <= n, Grows(g \o h.queue, h)
    PROVE  LET f == Feed(h, n, hold) IN
           f \in Handle /\ ~f.sent /\ f.cursor = n /\ f.cancelled = h.cancelled
              /\ Grows(g \o f.queue, f)
<1> DEFINE s == g \o h.queue
           m == [h EXCEPT !.cursor = n]
           w == [m EXCEPT !.held = TRUE]
           o == [m EXCEPT !.error = TRUE]
           p == [m EXCEPT !.queue = Append(@, Delta(n)), !.held = FALSE]
<1>1. h.queue \in Seq(Event) /\ s \in Seq(Event) /\ h.cursor \in Nat
    BY StreamShapes DEF Handle
<1>2. Delta(n) \in Event /\ Delta(n).kind = "delta"
    BY DEF Delta, Event
<1>3. CASE h.cursor = n
    BY <1>3 DEF Feed
<1>4. CASE h.cursor # n
  <2>1. h.cursor < n
      BY <1>1, <1>4
  <2>2. \A i \in 1 .. Len(s) : s[i].kind = "delta" /\ s[i].n < n /\ s[i].n <= n
    <3> TAKE i \in 1 .. Len(s)
    <3>1. s[i] \in Event
        BY <1>1
    <3>2. s[i].n \in Nat
        BY <3>1 DEF Event
    <3>3. s[i].kind = "delta" /\ s[i].n <= h.cursor
        BY Zenon, <1>1, OpenStream
    <3> QED
        BY SMTT(60), <1>1, <2>1, <3>2, <3>3
  <2>3. \A i, j \in 1 .. Len(s) : i < j => s[i].n < s[j].n
      BY Zenon, <1>1, OpenStream
  <2>4. /\ m \in Handle /\ ~m.sent /\ m.cursor = n /\ m.cancelled = h.cancelled
        /\ m.queue = h.queue /\ m.error = h.error
      BY SMTT(60) DEF Handle
  <2>5. /\ w \in Handle /\ ~w.sent /\ w.cursor = n /\ w.cancelled = h.cancelled
        /\ w.queue = h.queue /\ w.held = TRUE
      BY Zenon, <2>4 DEF Handle
  <2>6. /\ o \in Handle /\ ~o.sent /\ o.cursor = n /\ o.cancelled = h.cancelled
        /\ o.queue = h.queue /\ o.error = TRUE
      BY Zenon, <2>4 DEF Handle
  <2>7. /\ p \in Handle /\ ~p.sent /\ p.cursor = n /\ p.cancelled = h.cancelled
        /\ p.queue = Append(h.queue, Delta(n)) /\ p.held = FALSE
    <3>1. Append(h.queue, Delta(n)) \in Seq(Event)
        BY <1>1, <1>2
    <3> QED
        BY Zenon, <2>4, <3>1 DEF Handle
  <2> HIDE DEF m, w, o, p
  <2>8. CASE h.error \/ h.cancelled
    <3>1. Feed(h, n, hold) = m
        BY <1>4, <2>8 DEF Feed, m
    <3>2. Grows(s, m)
        BY Zenon, <1>1, <2>2, <2>3, <2>4, <2>8, OpenStream
    <3> QED
        BY <2>4, <3>1, <3>2
  <2>9. CASE ~(h.error \/ h.cancelled) /\ hold
    <3>1. Feed(h, n, hold) = w
        BY <1>4, <2>9 DEF Feed, m, w
    <3>2. Grows(s, w)
        BY Zenon, <1>1, <2>2, <2>3, <2>5, OpenStream
    <3> QED
        BY <2>5, <3>1, <3>2
  <2>10. CASE ~(h.error \/ h.cancelled) /\ ~hold
    <3>1. Feed(h, n, hold) = Put(m, Delta(n))
        BY <1>4, <2>10 DEF Feed, m
    <3>2. Put(m, Delta(n)) = IF Len(m.queue) >= StreamLimit THEN o ELSE p
        BY <1>2 DEF Put, o, p
    <3>3. Grows(s, o)
        BY Zenon, <1>1, <2>2, <2>3, <2>6, OpenStream
    <3>4. Grows(s, w)
        BY Zenon, <1>1, <2>2, <2>3, <2>5, OpenStream
    <3>5. Grows(Append(s, Delta(n)), p)
        BY Zenon, <1>1, <2>2, <2>5, <2>7, <3>4, TextGrows
    <3>6. g \o p.queue = Append(s, Delta(n))
      <4>1. g \o Append(h.queue, Delta(n)) = Append(g \o h.queue, Delta(n))
          BY SMTT(60), <1>1, <1>2
      <4> QED
          BY Zenon, <2>7, <4>1
    <3> QED
        BY Zenon, <2>6, <2>7, <3>1, <3>2, <3>3, <3>5, <3>6
  <2> QED
      BY <2>8, <2>9, <2>10
<1> QED
    BY <1>3, <1>4

\* A terminal ends a growing stream, and well only with all the text of the request.
LEMMA TerminalEnds ==
    ASSUME NEW g \in Seq(Event), NEW h \in Handle, NEW k \in Ends, NEW r \in Request,
           ~h.sent, Grows(g \o h.queue, h),
           k = "stop" => /\ r.st = "gone" /\ r.why = "stop" /\ Len(g \o h.queue) > 0
                         /\ (g \o h.queue)[Len(g \o h.queue)].n = r.n
    PROVE  LET z == Put(h, Terminal(k)) IN
           /\ z \in Handle /\ z.sent /\ z.cursor = h.cursor /\ z.cancelled = h.cancelled
           /\ Grows(g \o z.queue, z) /\ EndsWell(g \o z.queue, z, r)
<1> DEFINE e == Terminal(k)
           s == g \o h.queue
           f == [h EXCEPT !.queue = Append(@, e), !.sent = TRUE]
           t == Append(s, e)
<1>1. /\ h.queue \in Seq(Event) /\ s \in Seq(Event) /\ e \in Event /\ e.kind = k
      /\ k # "delta"
    BY StreamShapes DEF Handle, Terminal, Event, Ends
<1>2. Put(h, e) = f
    BY <1>1 DEF Put
<1>3. /\ f \in Handle /\ f.sent = TRUE /\ f.cursor = h.cursor /\ f.cancelled = h.cancelled
      /\ f.held = h.held /\ f.queue = Append(h.queue, e)
  <2>1. Append(h.queue, e) \in Seq(Event)
      BY <1>1
  <2> QED
      BY Zenon, <2>1 DEF Handle
<1>4. g \o f.queue = t
    BY SMTT(60), <1>1, <1>3, StreamShapes
<1>5. /\ Len(t) = Len(s) + 1 /\ Len(s) \in Nat /\ t[Len(t)] = e
      /\ \A i \in 1 .. Len(s) : t[i] = s[i]
    BY <1>1, AppendFacts
<1>6. k = "stop" => r.st = "gone" /\ r.why = "stop" /\ Len(s) > 0 /\ s[Len(s)].n = r.n
    OBVIOUS
<1> HIDE DEF t, f, e, s
<1>7. Grows(t, f)
  <2>1. Texts(t, f) = Len(s)
      BY <1>3, <1>5 DEF Texts
  <2>2. \A i \in 1 .. Len(s) : t[i].kind = "delta" /\ t[i].n <= f.cursor
                                  /\ (f.held => t[i].n < f.cursor)
    <3>1. \A i \in 1 .. Len(s) : s[i].kind = "delta" /\ s[i].n <= h.cursor
                                    /\ (h.held => s[i].n < h.cursor)
        BY Zenon, <1>1, OpenStream DEF s
    <3> QED
        BY <1>3, <1>5, <3>1
  <2>3. \A i, j \in 1 .. Len(s) : i < j => t[i].n < t[j].n
      BY Zenon, <1>1, <1>5, OpenStream DEF s
  <2> QED
      BY SMTT(60), <1>1, <1>3, <1>5, <2>1, <2>2, <2>3 DEF Grows
<1>8. EndsWell(t, f, r)
  <2> SUFFICES ASSUME t[Len(t)].kind = "stop"
               PROVE  r.st = "gone" /\ r.why = "stop" /\ Len(t) > 1 /\ t[Len(t) - 1].n = r.n
      BY DEF EndsWell
  <2>1. k = "stop"
      BY <1>1, <1>5
  <2>2. r.st = "gone" /\ r.why = "stop" /\ Len(s) > 0 /\ s[Len(s)].n = r.n
      BY <1>6, <2>1
  <2>3. Len(t) - 1 = Len(s) /\ Len(s) \in 1 .. Len(s)
      BY <1>5, <2>2
  <2>4. t[Len(s)] = s[Len(s)]
      BY <1>5, <2>3
  <2> QED
      BY <1>5, <2>2, <2>3, <2>4
<1> QED
    BY Zenon, <1>2, <1>3, <1>4, <1>7, <1>8 DEF e

\* A terminal lifecycle ends the stream, and well only when it finished.
LEMMA SettleEnds ==
    ASSUME NEW g \in Seq(Event), NEW h \in Handle, NEW q \in Request, NEW r \in Request,
           ~h.sent, h.cursor = q.n, Grows(g \o h.queue, h),
           q.why \in Ends, q.why = "stop" => q.n > 0,
           r.st = "gone", r.why = q.why, r.n = q.n
    PROVE  LET f == Settle(h, q) IN
           f \in Handle /\ f.sent /\ f.cursor = q.n /\ f.cancelled = h.cancelled
              /\ Grows(g \o f.queue, f) /\ EndsWell(g \o f.queue, f, r)
<1> DEFINE s == g \o h.queue
           e == [h EXCEPT !.error = @ \/ q.why = "failed"]
           cancelled == h.cancelled \/ q.why = "cancelled"
           d == [e EXCEPT !.error = TRUE]
           p == [e EXCEPT !.queue = Append(@, Delta(e.cursor)), !.held = FALSE]
           f == IF ~e.error /\ ~cancelled /\ e.held THEN Put(e, Delta(e.cursor)) ELSE e
           k == IF f.error THEN "failed" ELSE IF cancelled THEN "cancelled" ELSE "stop"
<1>1. h.queue \in Seq(Event) /\ s \in Seq(Event) /\ h.cursor \in Nat /\ q.n \in Nat
    BY StreamShapes DEF Handle, Request
<1>2. /\ e \in Handle /\ ~e.sent /\ e.cursor = h.cursor /\ e.queue = h.queue
      /\ e.held = h.held /\ e.cancelled = h.cancelled
      /\ e.error = (h.error \/ q.why = "failed")
  <2>1. (h.error \/ q.why = "failed") \in BOOLEAN
      OBVIOUS
  <2> QED
      BY Zenon, <2>1 DEF Handle
<1>3. Grows(s, e)
    BY ZenonT(60), <1>1, <1>2, OpenStream
<1>4. /\ Delta(e.cursor) \in Event /\ Delta(e.cursor).kind = "delta"
    BY <1>2 DEF Delta, Event, Handle
<1>5. /\ d \in Handle /\ ~d.sent /\ d.cursor = h.cursor /\ d.queue = h.queue /\ d.error = TRUE
      /\ d.held = h.held /\ d.cancelled = h.cancelled
    BY Zenon, <1>2 DEF Handle
<1>6. /\ p \in Handle /\ ~p.sent /\ p.cursor = h.cursor /\ p.held = FALSE
      /\ p.queue = Append(h.queue, Delta(e.cursor)) /\ p.error = e.error
      /\ p.cancelled = h.cancelled
  <2>1. Append(h.queue, Delta(e.cursor)) \in Seq(Event)
      BY <1>1, <1>4
  <2> QED
      BY ZenonT(60), <1>2, <2>1 DEF Handle
<1> HIDE DEF e, d, p
<1>7. /\ f \in Handle /\ ~f.sent /\ f.cursor = h.cursor /\ Grows(g \o f.queue, f)
      /\ f.cancelled = h.cancelled
      /\ ~f.error /\ ~cancelled =>
            /\ h.cursor > 0 => Len(g \o f.queue) > 0 /\ (g \o f.queue)[Len(g \o f.queue)].n = h.cursor
            /\ q.why = "stop"
  <2>1. CASE ~e.error /\ ~cancelled /\ e.held
    <3>1. f = IF Len(e.queue) >= StreamLimit THEN d ELSE p
        BY <1>4, <2>1 DEF Put, d, p
    <3>2. Grows(s, d)
        BY ZenonT(60), <1>1, <1>2, <1>3, <1>5, OpenStream
    <3>3. \A i \in 1 .. Len(s) : s[i].n < e.cursor
        BY Zenon, <1>1, <1>2, <1>3, <2>1, OpenStream
    <3>4. p.cursor = e.cursor
        BY <1>2, <1>6
    <3>5. LET t == Append(s, Delta(p.cursor)) IN
          Grows(t, p) /\ Len(t) > 0 /\ t[Len(t)].n = p.cursor
        BY Zenon, <1>1, <1>2, <1>3, <1>6, <3>3, <3>4, TextGrows
    <3>6. g \o p.queue = Append(s, Delta(p.cursor))
        BY SMTT(60), <1>1, <1>4, <1>6, <3>4, StreamShapes
    <3>7. q.why = "stop"
        BY Zenon, <1>2, <2>1 DEF Ends
    <3> QED
        BY Zenon, <1>5, <1>6, <3>1, <3>2, <3>5, <3>6, <3>7
  <2>2. CASE ~(~e.error /\ ~cancelled /\ e.held)
    <3>1. f = e
        BY <2>2
    <3>2. ASSUME ~e.error, ~cancelled
          PROVE  /\ h.cursor > 0 => Len(s) > 0 /\ s[Len(s)].n = h.cursor
                 /\ q.why = "stop"
      <4>1. ~e.held /\ ~e.cancelled
          BY <1>2, <2>2, <3>2
      <4>2. q.why = "stop"
          BY Zenon, <1>2, <3>2 DEF Ends
      <4> QED
          BY Zenon, <1>1, <1>2, <1>3, <3>2, <4>1, <4>2, OpenStream
    <3> QED
        BY Zenon, <1>2, <1>3, <3>1, <3>2
  <2> QED
      BY Zenon, <2>1, <2>2
<1>8. k \in Ends /\ Settle(h, q) = Put(f, Terminal(k))
    BY DEF Ends, Settle, e
<1>9. k = "stop" => ~f.error /\ ~cancelled
    OBVIOUS
<1> HIDE DEF f, k
<1>10. /\ f \in Handle /\ ~f.sent /\ Grows(g \o f.queue, f) /\ k \in Ends
       /\ f.cursor = q.n /\ f.cancelled = h.cancelled
    BY <1>7, <1>8
<1>11. k = "stop" => /\ r.st = "gone" /\ r.why = "stop" /\ Len(g \o f.queue) > 0
                      /\ (g \o f.queue)[Len(g \o f.queue)].n = r.n
    BY <1>7, <1>9
<1>12. LET z == Put(f, Terminal(k)) IN
           /\ z \in Handle /\ z.sent /\ z.cursor = f.cursor /\ z.cancelled = f.cancelled
           /\ Grows(g \o z.queue, z) /\ EndsWell(g \o z.queue, z, r)
    BY Zenon, <1>10, <1>11, TerminalEnds
<1> QED
    BY <1>8, <1>10, <1>12

\* What a pass of the engine may make of a request.
Advances(q, r) ==
    /\ r.n >= q.n
    /\ IF q.st = "active" THEN r.st \in {"active", "ended"}
       ELSE r.st = q.st /\ r.why = q.why /\ r.n = q.n

LEMMA EndedAdvances ==
    ASSUME NEW q \in Request, NEW why \in Ends, q.st = "active", why = "stop" => q.n > 0
    PROVE  LifeOK(Ended(q, why)) /\ Advances(q, Ended(q, why))
BY DEF LifeOK, Advances, Ended, Ends, Request

LEMMA SteppedAdvances ==
    ASSUME TypeOK, StreamInv, NEW c \in Clients, NEW late, NEW out
    PROVE  /\ LifeOK(Stepped(c, late, out))
           /\ Advances(req[c], Stepped(c, late, out))
<1> DEFINE q == [req[c] EXCEPT !.pend = @ \/ at[c] = "withdrawn" \/ c \in late]
           s == [Ended(q, "stop") EXCEPT !.n = @ + 1]
           m == [q EXCEPT !.n = @ + 1, !.flight = "no"]
<1>1. req[c] \in Request /\ LifeOK(req[c])
    BY DEF TypeOK, EngineTypes, StreamInv, LifeOf
<1>2. /\ q \in Request /\ q.st = req[c].st /\ q.why = req[c].why /\ q.n = req[c].n
      /\ q.flight = req[c].flight
  <2>1. (req[c].pend \/ at[c] = "withdrawn" \/ c \in late) \in BOOLEAN
      OBVIOUS
  <2> QED
      BY Zenon, <1>1, <2>1 DEF Request
<1> HIDE DEF q
<1>3. CASE q.st # "active"
  <2>1. Stepped(c, late, out) = req[c]
      BY <1>3, Zenon DEF Stepped, q
  <2> QED
      BY <1>1, <1>2, <1>3, <2>1 DEF Advances, Request
<1>4. CASE q.st = "active"
  <2>1. Stepped(c, late, out) \in {Ended(q, "cancelled"), Ended(q, "failed"), s, m, q}
      BY <1>4, Zenon DEF Stepped, q
  <2>2. LifeOK(q) /\ Advances(req[c], q)
      BY <1>1, <1>2, <1>4 DEF LifeOK, Advances, Request
  <2>3. ASSUME NEW why \in Ends, why # "stop"
        PROVE  LifeOK(Ended(q, why)) /\ Advances(req[c], Ended(q, why))
    <3>1. LifeOK(Ended(q, why)) /\ Advances(q, Ended(q, why))
        BY <1>2, <1>4, <2>3, EndedAdvances
    <3> QED
        BY <1>2, <1>4, <3>1 DEF Advances
  <2>4. LifeOK(s) /\ Advances(req[c], s)
    <3>1. /\ s.st = "ended" /\ s.why = "stop" /\ s.n = q.n + 1 /\ s.flight = "no"
          /\ q.n \in Nat
        BY <1>2 DEF Ended, Request
    <3> QED
        BY <1>2, <1>4, <3>1 DEF LifeOK, Advances, Ends
  <2>5. LifeOK(m) /\ Advances(req[c], m)
    <3>1. m.st = "active" /\ m.why = q.why /\ m.n = q.n + 1 /\ q.n \in Nat
        BY <1>2, <1>4 DEF Request
    <3> QED
        BY <1>2, <1>4, <3>1, <2>2 DEF LifeOK, Advances
  <2>6. "cancelled" \in Ends /\ "failed" \in Ends
      BY DEF Ends
  <2> QED
      BY <2>1, <2>2, <2>3, <2>4, <2>5, <2>6
<1> QED
    BY <1>3, <1>4

LEMMA StepAdvances ==
    ASSUME TypeOK, StreamInv, Step, NEW c \in Clients
    PROVE  LifeOK(req'[c]) /\ Advances(req[c], req'[c])
<1> DEFINE r(late, out) == [d \in Clients |-> Stepped(d, late, out)]
           runs(late, out) == {d \in Clients : r(late, out)[d].st = "active"
                                    /\ ~r(late, out)[d].pend /\ r(late, out)[d].flight = "no"}
           goes(late, out, go) ==
               req' = [d \in Clients |-> IF d \in go THEN [r(late, out)[d] EXCEPT !.flight = "run"]
                                                      ELSE r(late, out)[d]]
<1>0. PICK late \in {{}} \cup {{d} : d \in {d \in Clients : req[d].st = "active"}},
           out \in [{d \in Clients : req[d].flight = "done"} -> {"more", "stop", "failed"}] :
         \E go \in SUBSET runs(late, out) : goes(late, out, go)
    BY ZenonT(60) DEF Step
<1>1. PICK go \in SUBSET runs(late, out) : goes(late, out, go)
    BY Zenon, <1>0
<1> DEFINE s == Stepped(c, late, out)
<1>2. s \in Request /\ LifeOK(s) /\ Advances(req[c], s)
    BY SteppedType, SteppedAdvances
<1>3. req'[c] = IF c \in go THEN [s EXCEPT !.flight = "run"] ELSE s
    BY <1>1
<1>4. c \in go => s.st = "active"
    BY Zenon, <1>1
<1> HIDE DEF s
<1> QED
    BY <1>2, <1>3, <1>4 DEF LifeOK, Advances, Request

LEMMA CloseAdvances ==
    ASSUME TypeOK, StreamInv, NEW t, NEW result, EngineClose(t, result), NEW c \in Clients
    PROVE  LifeOK(req'[c]) /\ Advances(req[c], req'[c])
<1> DEFINE q == req[c]
           a == Aborted(q)
           d == Drained[c]
<1>1. q \in Request /\ LifeOK(q) /\ "cancelled" \in Ends
    BY DEF TypeOK, EngineTypes, StreamInv, LifeOf, Ends
<1>2. /\ a \in Request /\ a.st = q.st /\ a.why = q.why /\ a.n = q.n /\ a.flight = q.flight
  <2>1. (q.pend \/ q.st = "active") \in BOOLEAN
      OBVIOUS
  <2> QED
      BY Zenon, <1>1, <2>1 DEF Aborted, Request
<1>3. d = IF q.flight = "done" THEN Ended(a, "cancelled") ELSE a
    BY DEF Drained
<1>4. Flushed(Drained)[c] = IF d.st = "active" THEN Ended(d, "cancelled") ELSE d
    BY DEF Flushed
<1>5. req'[c] = d \/ req'[c] = Flushed(Drained)[c]
    BY DEF EngineClose
<1> HIDE DEF q, a, d
<1>6. d \in Request /\ LifeOK(d) /\ Advances(q, d)
  <2>1. CASE q.flight = "done"
    <3>1. q.st = "active"
        BY <1>1, <2>1 DEF LifeOK
    <3>2. LifeOK(Ended(a, "cancelled")) /\ Advances(a, Ended(a, "cancelled"))
        BY <1>1, <1>2, <3>1, EndedAdvances
    <3>3. Ended(a, "cancelled") \in Request
        BY <1>1, <1>2, EndedType
    <3> QED
        BY <1>2, <1>3, <2>1, <3>1, <3>2, <3>3 DEF Advances
  <2>2. CASE q.flight # "done"
      BY <1>1, <1>2, <1>3, <2>2 DEF LifeOK, Advances, Request
  <2> QED
      BY <2>1, <2>2
<1>7. LifeOK(Flushed(Drained)[c]) /\ Advances(q, Flushed(Drained)[c])
  <2>1. CASE d.st = "active"
    <3>1. LifeOK(Ended(d, "cancelled")) /\ Advances(d, Ended(d, "cancelled"))
        BY <1>1, <1>6, <2>1, EndedAdvances
    <3>2. q.st = "active"
        BY <1>6, <2>1 DEF Advances
    <3>3. Ended(d, "cancelled").n = d.n /\ Ended(d, "cancelled").st = "ended"
        BY DEF Ended
    <3> QED
        BY SMTT(60), <1>4, <1>6, <2>1, <3>1, <3>2, <3>3 DEF Advances
  <2>2. CASE d.st # "active"
      BY SMTT(60), <1>4, <1>6, <2>2
  <2> QED
      BY <2>1, <2>2
<1> QED
    BY <1>5, <1>6, <1>7 DEF q

\* A client whose stream is left alone; a sleeping one may wake.
LEMMA Prefixes ==
    \A n \in Nat : (n > 0 => n \in 1 .. n) /\ \A i \in 1 .. n - 1 : i \in 1 .. n
OBVIOUS

LEMMA Counters ==
    (\A h \in Handle : h.cursor \in Nat) /\ (\A q \in Request : q.n \in Nat)
BY DEF Handle, Request

LEMMA NoFurther == \A x, y, z \in Nat : x <= y /\ y <= z => x <= z
OBVIOUS

LEMMA SameStream ==
    ASSUME NEW c \in Clients, LifeOf(c), StreamOf(c), TypeOK, TypeOK',
           got'[c] = got[c], handle'[c] = handle[c],
           fut'[c] # "handle" => fut[c] # "handle",
           at'[c] = "done" => at[c] = "done",
           at'[c] \in Early => at[c] \in Early /\ fut'[c] = fut[c],
           at'[c] = "waiting" => at[c] \in Early \cup {"waiting"},
           c \in handles' => c \in handles,
           c \in todo' => c \in handles',
           pc \in {"final", "off"} => pc' \in {"final", "off"},
           LifeOK(req'[c]), Advances(req[c], req'[c])
    PROVE  LifeOf(c)' /\ StreamOf(c)'
<1>1. req[c] \in Request /\ req'[c] \in Request /\ handle[c] \in Handle
    BY Zenon DEF TypeOK, EngineTypes, HandleTypes
<1>2. LifeOf(c)'
  <2>1. c \in handles' => fut'[c] = "handle" /\ req'[c].st \in {"active", "ended"}
      BY Zenon DEF LifeOf, Advances
  <2>2. fut'[c] # "handle" => req'[c].st = "none" /\ ~handle'[c].sent
      BY Zenon DEF LifeOf, Advances
  <2>3. c \in handles' /\ pc' \notin {"final", "off"} => ~handle'[c].sent
      BY Zenon DEF LifeOf
  <2>4. at'[c] \in Early \cup {"waiting"} => ~handle'[c].cancelled
      BY Zenon DEF LifeOf
  <2>5. at'[c] \in Early => fut'[c] = "none"
    <3>1. at[c] \in Early => fut[c] = "none"
        BY Zenon DEF LifeOf
    <3> QED
        BY Zenon, <3>1
  <2> QED
      BY Zenon, <2>1, <2>2, <2>3, <2>4, <2>5 DEF LifeOf
<1>3. StreamOf(c)'
  <2>1. Stream(c)' = Stream(c)
      BY Zenon DEF Stream
  <2>2. Grows(Stream(c)', handle'[c])
      BY Zenon, <2>1 DEF StreamOf
  <2>3. EndsWell(Stream(c)', handle'[c], req'[c])
      BY Zenon, <2>1 DEF StreamOf, EndsWell, Advances
  <2>4. handle'[c].cursor <= req'[c].n
    <3>1. handle'[c].cursor <= req[c].n /\ req[c].n <= req'[c].n
        BY Zenon DEF StreamOf, Advances
    <3>2. handle'[c].cursor \in Nat /\ req[c].n \in Nat /\ req'[c].n \in Nat
        BY Zenon, <1>1, Counters
    <3> QED
        BY Zenon, <3>1, <3>2, NoFurther
  <2>5. at'[c] = "done" => got'[c] # <<>> /\ got'[c][Len(got'[c])].kind # "delta"
      BY Zenon DEF StreamOf
  <2> QED
      BY Zenon, <2>2, <2>3, <2>4, <2>5 DEF StreamOf
<1> QED
    BY Zenon, <1>2, <1>3

\* An unchanged request advances.
LEMMA StandsStill ==
    ASSUME NEW c \in Clients, LifeOf(c), TypeOK, req'[c] = req[c]
    PROVE  LifeOK(req'[c]) /\ Advances(req[c], req'[c])
<1>1. req[c] \in Request /\ LifeOK(req[c])
    BY SMTT(60) DEF TypeOK, EngineTypes, LifeOf
<1> QED
    BY SMTT(60), <1>1 DEF Advances, Request

\* Cancelling a handle, or marking its error, keeps its stream.
LEMMA WeakerHandle ==
    ASSUME NEW s \in Seq(Event), NEW h \in Handle, NEW f \in Handle, NEW q, Grows(s, h),
           EndsWell(s, h, q), f.sent = h.sent, f.held = h.held, f.cursor = h.cursor,
           h.error => f.error, h.cancelled => f.cancelled
    PROVE  Grows(s, f) /\ EndsWell(s, f, q)
<1>1. Texts(s, f) = Texts(s, h)
    BY DEF Texts
<1> QED
    BY Zenon, <1>1 DEF Grows, EndsWell

LEMMA InitStreams == Init => StreamInv
<1> SUFFICES ASSUME Init, NEW c \in Clients PROVE LifeOf(c) /\ StreamOf(c)
    BY DEF StreamInv
<1>1. /\ handle[c] = NoHandle /\ got[c] = <<>> /\ req[c] = NoRequest /\ fut[c] = "none"
      /\ handles = {} /\ todo = {}
    BY Zenon DEF Init
<1>2. at[c] # "done"
    BY Zenon DEF Init
<1>3. /\ NoHandle.queue = <<>> /\ ~NoHandle.sent /\ ~NoHandle.cancelled
      /\ NoHandle.cursor = 0 /\ NoRequest.n = 0 /\ NoRequest.st = "none"
      /\ NoRequest.why = "none" /\ NoRequest.flight = "no"
    BY DEF NoHandle, NoRequest
<1>4. LifeOf(c)
    BY SMTT(60), <1>1, <1>3 DEF LifeOf, LifeOK
<1>5. Stream(c) = <<>>
    BY <1>1, <1>3 DEF Stream
<1>6. StreamOf(c)
    BY SMTT(60), <1>1, <1>2, <1>3, <1>5 DEF StreamOf, Grows, Texts, EndsWell
<1> QED
    BY <1>4, <1>6

\* A client reads its stream, or gives it up.
LEMMA ClientStreams ==
    ASSUME TypeOK, TypeOK', StreamInv, NEW c \in Clients, Client(c)
    PROVE  StreamInv'
<1>1. UNCHANGED <<req, handles, todo, pc>>
    BY Zenon DEF Client, Reserve, PrepareFails, Submit, Withdraw, Leave, Resolve, NextEvent
<1>2. /\ at \in [Clients -> Places] /\ got \in [Clients -> Seq(Event)]
      /\ handle \in [Clients -> Handle] /\ handle' \in [Clients -> Handle]
      /\ fut \in [Clients -> {"none", "pending", "cancelled", "handle", "error"}]
    BY DEF TypeOK, ClientTypes, QueueTypes, HandleTypes
<1>3. \A d \in Clients : LifeOf(d) /\ StreamOf(d) /\ LifeOK(req'[d]) /\ Advances(req[d], req'[d])
    BY <1>1, StandsStill DEF StreamInv
<1>4. ASSUME NEW d \in Clients \ {c} PROVE LifeOf(d)' /\ StreamOf(d)'
  <2>1. at'[d] = at[d]
      BY Zenon, <1>2, <1>4 DEF Client, Reserve, PrepareFails, Submit, Withdraw, Leave, Resolve,
         NextEvent, GivesUp, Release
  <2>2. got'[d] = got[d] /\ fut'[d] = fut[d]
      BY Zenon, <1>2, <1>4 DEF Client, Reserve, PrepareFails, Submit, Withdraw, Leave, Resolve,
         NextEvent, queueVars
  <2>3. handle'[d] = handle[d]
      BY Zenon, <1>2, <1>4 DEF Client, Reserve, PrepareFails, Submit, Withdraw, Leave, Resolve, NextEvent
  <2>4. LifeOf(d) /\ (d \in todo' => d \in handles')
      BY Zenon, <1>1, <1>3 DEF LifeOf
  <2> QED
      BY Zenon, <1>1, <1>3, <2>1, <2>2, <2>3, <2>4, SameStream
<1> SUFFICES LifeOf(c)' /\ StreamOf(c)'
    BY Zenon, <1>4 DEF StreamInv
<1>5. ASSUME UNCHANGED <<got, handle>>, fut'[c] # "handle" => fut[c] # "handle",
             at'[c] # "done", at'[c] \in Early => at[c] \in Early /\ fut'[c] = fut[c],
             at'[c] = "waiting" => at[c] \in Early \cup {"waiting"}
      PROVE  LifeOf(c)' /\ StreamOf(c)'
  <2>1. LifeOf(c) /\ (c \in todo' => c \in handles')
      BY SMTT(60), <1>1, <1>3 DEF LifeOf
  <2> QED
      BY Zenon, <1>1, <1>3, <1>5, <2>1, SameStream
<1>6. CASE Reserve(c)
  <2>1. at[c] = "idle" /\ at'[c] \in {"preparing", "refused"} /\ UNCHANGED <<got, handle, fut>>
      BY SMTT(60), <1>2, <1>6 DEF Reserve, queueVars
  <2> QED
      BY SMTT(60), <1>5, <2>1 DEF Early
<1>14. CASE PrepareFails(c) \/ Resolve(c)
  <2>1. at'[c] \in {"refused", "reading"} /\ UNCHANGED <<got, handle, fut>>
      BY SMTT(60), <1>2, <1>14 DEF PrepareFails, Resolve, GivesUp, queueVars
  <2> QED
      BY <1>5, <2>1 DEF Early
<1>7. CASE Submit(c)
  <2>1. at[c] = "preparing" /\ fut[c] = "none"
      BY <1>2, <1>3, <1>7 DEF Submit, LifeOf, Early
  <2>2. at'[c] \in {"refused", "waiting"} /\ UNCHANGED <<got, handle>>
      BY <1>2, <1>7 DEF Submit, GivesUp
  <2> QED
      BY Zenon, <1>5, <2>1, <2>2 DEF Early
<1>8. ASSUME got'[c] = got[c], handle'[c].queue = handle[c].queue,
             handle'[c].sent = handle[c].sent, handle'[c].error = handle[c].error,
             handle'[c].held = handle[c].held, handle'[c].cursor = handle[c].cursor,
             handle[c].cancelled => handle'[c].cancelled,
             at'[c] \in {"withdrawn", "left"}, fut'[c] # "handle" => fut[c] # "handle"
      PROVE  LifeOf(c)' /\ StreamOf(c)'
  <2>1. LifeOf(c)'
      BY Zenon, <1>1, <1>3, <1>8 DEF LifeOf, Early
  <2>2. Stream(c)' = Stream(c)
      BY Zenon, <1>8 DEF Stream
  <2>3. Stream(c) \in Seq(Event) /\ handle[c] \in Handle /\ handle'[c] \in Handle
    <3>1. handle[c] \in Handle /\ handle'[c] \in Handle /\ got[c] \in Seq(Event)
        BY <1>2
    <3> QED
        BY Zenon, <3>1, StreamShapes DEF Stream, Handle
  <2>4. Grows(Stream(c)', handle'[c]) /\ EndsWell(Stream(c)', handle'[c], req'[c])
    <3>1. Grows(Stream(c), handle[c]) /\ EndsWell(Stream(c), handle[c], req[c])
        BY Zenon, <1>3 DEF StreamOf
    <3>2. Grows(Stream(c), handle'[c]) /\ EndsWell(Stream(c), handle'[c], req[c])
        BY Zenon, <1>8, <2>3, <3>1, WeakerHandle
    <3> QED
        BY Zenon, <1>1, <2>2, <3>2
  <2>5. handle'[c].cursor <= req'[c].n /\ at'[c] # "done"
      BY Zenon, <1>1, <1>3, <1>8 DEF StreamOf
  <2> QED
      BY Zenon, <2>1, <2>4, <2>5 DEF StreamOf
<1>9. ASSUME NEW b \in BOOLEAN, handle' = [handle EXCEPT ![c].cancelled = b]
      PROVE  /\ handle'[c].queue = handle[c].queue
             /\ handle'[c].sent = handle[c].sent /\ handle'[c].error = handle[c].error
             /\ handle'[c].held = handle[c].held /\ handle'[c].cursor = handle[c].cursor
             /\ handle'[c].cancelled = b
  <2>1. handle[c] \in Handle /\ handle'[c] = [handle[c] EXCEPT !.cancelled = b]
      BY <1>2, <1>9
  <2> QED
      BY <2>1 DEF Handle
<1>10. CASE Withdraw(c)
  <2>1. at[c] = "waiting" /\ at'[c] = "withdrawn" /\ got'[c] = got[c]
      BY <1>2, <1>10 DEF Withdraw
  <2>2. ~handle[c].cancelled
      BY Zenon, <1>3, <2>1 DEF LifeOf, Early
  <2>3. (fut[c] = "handle") \in BOOLEAN /\ handle' = [handle EXCEPT ![c].cancelled = fut[c] = "handle"]
      BY <1>10 DEF Withdraw
  <2>4. fut'[c] # "handle" => fut[c] # "handle"
      BY <1>2, <1>10 DEF Withdraw
  <2> QED
      BY <1>8, <1>9, <2>1, <2>2, <2>3, <2>4
<1>11. CASE Leave(c)
  <2>1. at'[c] = "left" /\ got'[c] = got[c] /\ fut'[c] = fut[c]
      BY <1>2, <1>11 DEF Leave, Release, queueVars
  <2>2. TRUE \in BOOLEAN /\ handle' = [handle EXCEPT ![c].cancelled = TRUE]
      BY <1>11 DEF Leave
  <2> QED
      BY <1>8, <1>9, <2>1, <2>2
<1>12. CASE NextEvent(c) /\ handle[c].queue = <<>>
  <2>1. at'[c] = "asleep" /\ UNCHANGED <<got, handle, fut>>
      BY <1>2, <1>12 DEF NextEvent, queueVars
  <2> QED
      BY Zenon, <1>5, <2>1 DEF Early
<1>13. CASE NextEvent(c) /\ handle[c].queue # <<>>
  <2> DEFINE h == handle[c]
             e == Head(h.queue)
             f == handle'[c]
  <2>1. h \in Handle /\ h.queue \in Seq(Event) /\ got[c] \in Seq(Event)
      BY SMTT(60), <1>2 DEF Handle
  <2>2. e \in Event /\ Tail(h.queue) \in Seq(Event)
      BY SMTT(60), <1>13, <2>1, HeadFacts
  <2>3. got'[c] = Append(got[c], e) /\ fut' = fut /\ at[c] = "reading"
      BY <1>2, <1>13 DEF NextEvent, queueVars
  <2>4. f = [h EXCEPT !.queue = Tail(@), !.cancelled = @ \/ e.kind # "delta"]
      BY Zenon, <1>2, <1>13 DEF NextEvent
  <2>5. /\ f \in Handle /\ f.queue = Tail(h.queue) /\ f.sent = h.sent /\ f.error = h.error
        /\ f.held = h.held /\ f.cursor = h.cursor /\ (h.cancelled => f.cancelled)
      BY <1>2, <2>1, <2>4 DEF Handle
  <2>6. at'[c] = IF e.kind = "delta" THEN "reading" ELSE "done"
      BY <1>2, <1>13, <2>3 DEF NextEvent, Release
  <2> HIDE DEF e
  <2>7. Stream(c)' = Stream(c) /\ Stream(c) \in Seq(Event)
    <3>1. Append(got[c], e) \o Tail(h.queue) = got[c] \o h.queue
        BY ZenonT(60), <1>13, <2>1, <2>2, StreamShapes DEF e
    <3>2. Stream(c) \in Seq(Event)
        BY <2>1, StreamShapes DEF Stream
    <3> QED
        BY Zenon, <2>3, <2>5, <3>1, <3>2 DEF Stream
  <2> HIDE DEF h, f
  <2>8. LifeOf(c)'
      BY Zenon, <1>1, <1>3, <2>3, <2>5, <2>6 DEF LifeOf, Early, f, h
  <2>9. Grows(Stream(c)', handle'[c]) /\ EndsWell(Stream(c)', handle'[c], req'[c])
    <3>1. Grows(Stream(c), h) /\ EndsWell(Stream(c), h, req[c])
        BY Zenon, <1>3 DEF StreamOf, h
    <3>2. Grows(Stream(c), f) /\ EndsWell(Stream(c), f, req[c])
        BY Zenon, <2>1, <2>5, <2>7, <3>1, WeakerHandle
    <3> QED
        BY Zenon, <1>1, <2>7, <3>2 DEF f
  <2>10. handle'[c].cursor <= req'[c].n
      BY Zenon, <1>1, <1>3, <2>5 DEF StreamOf, f, h
  <2>11. at'[c] = "done" => got'[c] # <<>> /\ got'[c][Len(got'[c])].kind # "delta"
      BY SMTT(60), <2>1, <2>2, <2>3, <2>6, AppendFacts
  <2> QED
      BY Zenon, <2>8, <2>9, <2>10, <2>11 DEF StreamOf
<1> QED
    BY Zenon, <1>6, <1>7, <1>10, <1>11, <1>12, <1>13, <1>14 DEF Client

\* A request that is admitted gets an empty handle.
LEMMA AdmitStreams ==
    ASSUME TypeOK, TypeOK', StreamInv, Admit
    PROVE  StreamInv'
<1>1. /\ cmds # <<>> /\ cmds \in Seq(Clients) /\ req \in [Clients -> Request]
      /\ fut \in [Clients -> {"none", "pending", "cancelled", "handle", "error"}]
    BY SMTT(60) DEF Admit, TypeOK, QueueTypes, EngineTypes
<1>2. PICK c \in Clients : c = Head(cmds)
    BY <1>1, HeadFacts
<1>3. UNCHANGED <<at, got, pc, todo, handle>>
    BY DEF Admit, AdmitCommand, clientVars
<1>4. AdmitCommand(c)
    BY <1>2 DEF Admit
<1>5. \A d \in Clients : LifeOf(d) /\ StreamOf(d)
    BY DEF StreamInv
<1>6. ASSUME NEW d \in Clients, fut'[d] = fut[d] \/ fut[d] = "pending", req'[d] = req[d],
             d \in handles' <=> d \in handles, fut[d] = "handle" => fut'[d] = "handle"
      PROVE  LifeOf(d)' /\ StreamOf(d)'
  <2>1. LifeOK(req'[d]) /\ Advances(req[d], req'[d])
      BY Zenon, <1>5, <1>6, StandsStill
  <2>2. /\ at'[d] \in Early => at[d] \in Early /\ fut'[d] = fut[d]
        /\ d \in todo' => d \in handles'
      BY Zenon, <1>3, <1>5, <1>6 DEF LifeOf
  <2> QED
      BY Zenon, <1>3, <1>5, <1>6, <2>1, <2>2, SameStream
<1>7. ASSUME NEW d \in Clients \ {c} PROVE LifeOf(d)' /\ StreamOf(d)'
    BY <1>1, <1>2, <1>4, <1>6, <1>7 DEF AdmitCommand
<1>8. CASE /\ UNCHANGED <<handles, req>>
           /\ fut' = fut \/ (fut[c] = "pending" /\ fut' = [fut EXCEPT ![c] = "error"])
    BY <1>1, <1>2, <1>6, <1>7, <1>8 DEF StreamInv
<1>9. CASE /\ fut[c] = "pending" /\ fut' = [fut EXCEPT ![c] = "handle"]
           /\ req' = [req EXCEPT ![c].st = "active"] /\ handles' = handles \cup {c}
  <2>1. /\ req[c] \in Request /\ req'[c].st = "active" /\ req'[c].n = req[c].n
        /\ req'[c].why = req[c].why /\ fut'[c] = "handle"
      BY <1>1, <1>2, <1>9 DEF Request
  <2>2. LifeOf(c) /\ StreamOf(c) /\ ~handle[c].sent
      BY <1>2, <1>5, <1>9 DEF LifeOf
  <2>3. LifeOf(c)'
    <3>1. LifeOK(req'[c])
        BY Zenon, <2>1, <2>2 DEF LifeOf, LifeOK
    <3>2. at[c] \notin Early /\ c \in handles'
        BY <1>9, <2>2 DEF LifeOf
    <3> QED
        BY Zenon, <1>3, <2>1, <2>2, <3>1, <3>2 DEF LifeOf
  <2>4. StreamOf(c)'
    <3>1. Stream(c)' = Stream(c)
        BY <1>3 DEF Stream
    <3> QED
        BY Zenon, <1>3, <2>1, <2>2, <3>1 DEF StreamOf, EndsWell
  <2> QED
      BY <1>7, <2>3, <2>4 DEF StreamInv
<1> QED
    BY <1>4, <1>8, <1>9 DEF AdmitCommand

\* _collect feeds a handle, and ends it when its request has ended.
LEMMA CollectStreams ==
    ASSUME TypeOK, TypeOK', StreamInv, NEW c \in Clients, Collect(c)
    PROVE  StreamInv'
<1> DEFINE q == req[c]
           r == req'[c]
           h == handle[c]
           z == handle'[c]
<1>1. /\ at \in [Clients -> Places] /\ req \in [Clients -> Request] /\ q \in Request
      /\ got \in [Clients -> Seq(Event)] /\ handle \in [Clients -> Handle] /\ h \in Handle
      /\ r \in Request
    BY DEF TypeOK, ClientTypes, EngineTypes, HandleTypes
<1>2. c \in todo /\ UNCHANGED <<got, fut>> /\ at' = Woken({c}) /\ todo' = todo \ {c}
    BY DEF Collect, CollectNext, queueVars
<1>4. \A d \in Clients : LifeOf(d) /\ StreamOf(d)
    BY DEF StreamInv
<1>3. c \in handles /\ fut[c] = "handle" /\ pc \in Collecting /\ pc \notin {"final", "off"}
    BY Zenon, <1>2, <1>4 DEF LifeOf, TypeOK, OwnerTypes, Collecting
<1>5. \A d \in Clients : at'[d] = at[d] \/ (at[d] = "asleep" /\ at'[d] = "reading")
    BY Zenon, <1>1, <1>2 DEF Woken
<1>6. ASSUME NEW d \in Clients \ {c} PROVE LifeOf(d)' /\ StreamOf(d)'
  <2>1. req'[d] = req[d]
      BY <1>1, <1>6 DEF Collect
  <2>2. handle'[d] = handle[d]
      BY <1>1, <1>6 DEF Collect
  <2>3. d \in handles' <=> d \in handles
      BY <1>6 DEF Collect
  <2>4. LifeOK(req'[d]) /\ Advances(req[d], req'[d])
      BY Zenon, <1>4, <2>1, StandsStill
  <2>5. d \in todo' => d \in handles'
      BY Zenon, <1>2, <1>4, <2>3 DEF LifeOf
  <2>6. /\ at'[d] = "done" => at[d] = "done"
        /\ at'[d] \in Early => at[d] \in Early
        /\ at'[d] = "waiting" => at[d] = "waiting"
      BY Zenon, <1>5 DEF Early
  <2> QED
      BY Zenon, <1>2, <1>3, <1>4, <2>2, <2>3, <2>4, <2>5, <2>6, SameStream
<1>7. /\ got[c] \in Seq(Event) /\ q.n \in Nat /\ LifeOK(q) /\ q.st \in {"active", "ended"} /\ ~h.sent
      /\ h.cursor <= q.n /\ Grows(got[c] \o h.queue, h)
      /\ (at[c] \in Early \cup {"waiting"} => ~h.cancelled)
    BY Zenon, <1>1, <1>3, <1>4 DEF LifeOf, StreamOf, Stream, Request
<1>8. PICK hold \in BOOLEAN :
         LET f == Feed(h, q.n, hold) IN
         IF q.st = "active"
         THEN /\ handle' = [handle EXCEPT ![c] = f]
              /\ \E b : req' = [req EXCEPT ![c].pend = b]
              /\ UNCHANGED handles
         ELSE /\ handle' = [handle EXCEPT ![c] = Settle(f, q)]
              /\ req' = [req EXCEPT ![c].st = "gone"]
              /\ handles' = handles \ {c}
    BY Zenon DEF Collect
<1> DEFINE f == Feed(h, q.n, hold)
<1>9. /\ f \in Handle /\ ~f.sent /\ f.cursor = q.n /\ f.cancelled = h.cancelled
      /\ Grows(got[c] \o f.queue, f)
  <2> DEFINE g == got[c]
             n == q.n
  <2>1. /\ g \in Seq(Event) /\ h \in Handle /\ n \in Nat /\ ~h.sent /\ h.cursor <= n
        /\ Grows(g \o h.queue, h)
      BY Zenon, <1>1, <1>7
  <2> HIDE DEF g, n, h, q
  <2>2. LET y == Feed(h, n, hold) IN
        y \in Handle /\ ~y.sent /\ y.cursor = n /\ y.cancelled = h.cancelled /\ Grows(g \o y.queue, y)
      BY <2>1, FeedGrows
  <2> QED
      BY Zenon, <2>2 DEF g, n
<1> HIDE DEF f
<1>10. CASE q.st = "active"
  <2>1. z = f /\ c \in handles' /\ \E b : req' = [req EXCEPT ![c].pend = b]
      BY Zenon, <1>1, <1>3, <1>8, <1>10 DEF f
  <2>2. r.st = q.st /\ r.why = q.why /\ r.n = q.n /\ r.flight = q.flight
      BY <1>1, <2>1 DEF Request
  <2> HIDE DEF r, q, z, h
  <2>3. LifeOf(c)'
    <3>1. LifeOK(r)
        BY SMTT(60), <1>7, <2>2 DEF LifeOK
    <3>2. ~z.sent /\ (at'[c] \in Early \cup {"waiting"} => ~z.cancelled)
        BY <1>5, <1>7, <1>9, <2>1 DEF Early
    <3>3. at'[c] \in Early => fut'[c] = "none"
        BY Zenon, <1>2, <1>4, <1>5 DEF LifeOf, Early
    <3> QED
        BY <1>2, <1>3, <1>10, <2>1, <2>2, <3>1, <3>2, <3>3 DEF LifeOf, r, z
  <2>4. StreamOf(c)'
    <3>1. Grows(Stream(c)', z)
        BY <1>2, <1>9, <2>1 DEF Stream, z
    <3>2. EndsWell(Stream(c)', z, r)
        BY <1>9, <2>1 DEF EndsWell
    <3>3. z.cursor <= r.n
        BY <1>7, <1>9, <2>1, <2>2
    <3>4. at'[c] = "done" => got'[c] # <<>> /\ got'[c][Len(got'[c])].kind # "delta"
        BY Zenon, <1>2, <1>4, <1>5 DEF StreamOf
    <3> QED
        BY Zenon, <3>1, <3>2, <3>3, <3>4 DEF StreamOf, z, r
  <2> QED
      BY <1>6, <2>3, <2>4 DEF StreamInv
<1>11. CASE q.st # "active"
  <2>1. z = Settle(f, q) /\ c \notin handles' /\ req' = [req EXCEPT ![c].st = "gone"]
      BY <1>1, <1>8, <1>11 DEF f
  <2>2. r.st = "gone" /\ r.why = q.why /\ r.n = q.n /\ r.flight = q.flight
      BY <1>1, <2>1 DEF Request
  <2>3. q.why \in Ends /\ (q.why = "stop" => q.n > 0) /\ q.flight = "no"
      BY Zenon, <1>7, <1>11 DEF LifeOK
  <2> HIDE DEF r, q, z, h
  <2>4. /\ z \in Handle /\ z.sent /\ z.cursor = q.n /\ z.cancelled = f.cancelled
        /\ Grows(got[c] \o z.queue, z) /\ EndsWell(got[c] \o z.queue, z, r)
      BY <1>1, <1>7, <1>9, <2>1, <2>2, <2>3, SettleEnds
  <2>5. LifeOf(c)'
    <3>1. LifeOK(r)
        BY <2>2, <2>3 DEF LifeOK
    <3>2. at'[c] \in Early \cup {"waiting"} => ~z.cancelled
        BY Zenon, <1>5, <1>7, <1>9, <2>4 DEF Early
    <3>3. at'[c] \in Early => fut'[c] = "none"
        BY Zenon, <1>2, <1>4, <1>5 DEF LifeOf, Early
    <3> QED
        BY <1>2, <1>3, <2>1, <3>1, <3>2, <3>3 DEF LifeOf, r, z
  <2>6. StreamOf(c)'
    <3>1. Grows(Stream(c)', z) /\ EndsWell(Stream(c)', z, r)
        BY Zenon, <1>2, <2>4 DEF Stream, z
    <3>2. z.cursor <= r.n
        BY SMTT(60), <1>7, <2>2, <2>4
    <3>3. at'[c] = "done" => got'[c] # <<>> /\ got'[c][Len(got'[c])].kind # "delta"
        BY Zenon, <1>2, <1>4, <1>5 DEF StreamOf
    <3> QED
        BY Zenon, <3>1, <3>2, <3>3 DEF StreamOf, z, r
  <2> QED
      BY <1>6, <2>5, <2>6 DEF StreamInv
<1> QED
    BY <1>10, <1>11

\* _fail_engine marks every handle, and then ends it.
LEMMA FailStreams ==
    ASSUME TypeOK, TypeOK', StreamInv, Fail \/ FailRest
    PROVE  StreamInv'
<1>1. /\ UNCHANGED <<got, fut, req, handles, todo>> /\ pc \notin {"final", "off"}
      /\ at \in [Clients -> Places] /\ req \in [Clients -> Request]
      /\ got \in [Clients -> Seq(Event)] /\ handle \in [Clients -> Handle]
    BY DEF Fail, FailRest, clientVars, queueVars, TypeOK, ClientTypes, EngineTypes, HandleTypes
<1> SUFFICES ASSUME NEW c \in Clients PROVE LifeOf(c)' /\ StreamOf(c)'
    BY DEF StreamInv
<1> DEFINE h == handle[c]
           z == handle'[c]
<1>2. LifeOf(c) /\ StreamOf(c) /\ h \in Handle /\ got[c] \in Seq(Event) /\ req[c] \in Request
    BY SMTT(60), <1>1 DEF StreamInv
<1>3. at'[c] = at[c] \/ (at[c] = "asleep" /\ at'[c] = "reading")
    BY <1>1 DEF Fail, FailRest, Woken, clientVars
<1>4. ASSUME z.cursor = h.cursor, z.cancelled = h.cancelled,
             z.sent = h.sent \/ (c \in handles /\ pc' = "final"),
             Grows(got[c] \o z.queue, z), EndsWell(got[c] \o z.queue, z, req[c])
      PROVE  LifeOf(c)' /\ StreamOf(c)'
  <2>1. fut'[c] # "handle" => req'[c].st = "none" /\ ~z.sent
      BY Zenon, <1>1, <1>2, <1>4 DEF LifeOf
  <2>2. LifeOf(c)'
      BY Zenon, <1>1, <1>2, <1>3, <1>4, <2>1 DEF LifeOf, Early
  <2>3. Stream(c)' = got[c] \o z.queue
      BY <1>1 DEF Stream
  <2>4. StreamOf(c)'
      BY Zenon, <1>1, <1>2, <1>3, <1>4, <2>3 DEF StreamOf
  <2> QED
      BY <2>2, <2>4
<1>5. CASE Fail
  <2>1. z = [h EXCEPT !.error = @ \/ c \in handles] /\ (h.error \/ c \in handles) \in BOOLEAN
      BY <1>5 DEF Fail
  <2>2. /\ z \in Handle /\ z.queue = h.queue /\ z.sent = h.sent /\ z.cancelled = h.cancelled
        /\ z.held = h.held /\ z.cursor = h.cursor /\ (h.error => z.error)
      BY Zenon, <1>2, <2>1 DEF Handle
  <2>3. got[c] \o h.queue \in Seq(Event)
      BY SMTT(60), <1>2, StreamShapes DEF Handle
  <2> HIDE DEF z, h
  <2>4. Grows(got[c] \o h.queue, z) /\ EndsWell(got[c] \o h.queue, z, req[c])
      BY Zenon, <1>2, <2>2, <2>3, WeakerHandle DEF StreamOf, Stream, h
  <2> QED
      BY Zenon, <1>4, <2>2, <2>4
<1>6. CASE FailRest /\ c \in handles
  <2>1. z = Put(h, Terminal("failed")) /\ pc' = "final"
      BY Zenon, <1>6 DEF FailRest
  <2>2. ~h.sent /\ Grows(got[c] \o h.queue, h) /\ "failed" \in Ends
      BY Zenon, <1>1, <1>2, <1>6 DEF LifeOf, StreamOf, Stream, Ends
  <2> HIDE DEF z, h
  <2>3. /\ z.cursor = h.cursor /\ z.cancelled = h.cancelled
        /\ Grows(got[c] \o z.queue, z) /\ EndsWell(got[c] \o z.queue, z, req[c])
      BY Zenon, <1>2, <2>1, <2>2, TerminalEnds
  <2> QED
      BY Zenon, <1>4, <1>6, <2>1, <2>3
<1>7. CASE FailRest /\ c \notin handles
  <2>1. z = h
      BY Zenon, <1>7 DEF FailRest
  <2>2. Grows(got[c] \o h.queue, h) /\ EndsWell(got[c] \o h.queue, h, req[c])
      BY Zenon, <1>2 DEF StreamOf, Stream
  <2> HIDE DEF z, h
  <2> QED
      BY SMTT(60), <1>4, <2>1, <2>2
<1> QED
    BY <1>5, <1>6, <1>7

LEMMA StreamStep ==
    TypeOK /\ TypeOK' /\ StreamInv /\ [Next]_vars => StreamInv'
<1> SUFFICES ASSUME TypeOK, TypeOK', StreamInv, [Next]_vars PROVE StreamInv'
    OBVIOUS
<1>1. ASSUME UNCHANGED <<at, got, handle, handles, fut>>, todo' \in {todo, handles},
             pc \in {"final", "off"} => pc' \in {"final", "off"},
             \A c \in Clients : LifeOK(req'[c]) /\ Advances(req[c], req'[c])
      PROVE  StreamInv'
  <2> SUFFICES ASSUME NEW c \in Clients PROVE LifeOf(c)' /\ StreamOf(c)'
      BY DEF StreamInv
  <2>1. LifeOf(c) /\ StreamOf(c)
      BY DEF StreamInv
  <2>2. c \in todo' => c \in handles'
      BY Zenon, <1>1, <2>1 DEF LifeOf
  <2> QED
      BY Zenon, <1>1, <2>1, <2>2, SameStream
<1>2. req' = req => \A c \in Clients : LifeOK(req'[c]) /\ Advances(req[c], req'[c])
    BY StandsStill DEF StreamInv
<1>3. CASE UNCHANGED vars
    BY Zenon, <1>1, <1>2, <1>3 DEF vars
<1>4. ASSUME NEW d \in Clients, DeviceDone(d) \/ DeviceLost(d)
      PROVE  StreamInv'
  <2>1. PICK x : req' = [req EXCEPT ![d].flight = x] /\ req[d].flight = "run"
      BY <1>4 DEF DeviceDone, DeviceLost
  <2>2. ASSUME NEW c \in Clients PROVE LifeOK(req'[c]) /\ Advances(req[c], req'[c])
    <3>1. LifeOf(c) /\ req[c] \in Request /\ req \in [Clients -> Request]
        BY DEF StreamInv, TypeOK, EngineTypes
    <3>2. CASE c # d
        BY <2>1, <3>1, <3>2, StandsStill
    <3>3. CASE c = d
      <4>1. req'[c].st = req[c].st /\ req'[c].n = req[c].n /\ req'[c].why = req[c].why
          BY <2>1, <3>1, <3>3 DEF Request
      <4>2. req[c].st = "active" /\ req[c].n \in Nat
          BY <2>1, <3>1, <3>3 DEF LifeOf, LifeOK, Request
      <4>3. req[c].why = "stop" => req[c].n > 0
          BY Zenon, <3>1 DEF LifeOf, LifeOK
      <4>4. LifeOK(req'[c])
        <5>1. "active" # "ended"
            OBVIOUS
        <5> QED
            BY Zenon, <4>1, <4>2, <4>3, <5>1 DEF LifeOK
      <4>5. req'[c].n >= req[c].n
          BY <4>1, <4>2
      <4>6. Advances(req[c], req'[c])
          BY Zenon, <4>1, <4>2, <4>5 DEF Advances
      <4> QED
          BY Zenon, <4>4, <4>6
    <3> QED
        BY Zenon, <3>2, <3>3
  <2> QED
      BY <1>1, <1>4, <2>2 DEF DeviceDone, DeviceLost, clientVars, queueVars
<1>5. ASSUME NEW z \in Admins, AskResize(z) \/ QueueResize(z) \/ ResizeTimesOut(z)
      PROVE  StreamInv'
    BY <1>1, <1>2, <1>5 DEF AskResize, QueueResize, ResizeTimesOut, clientVars
<1>6. CASE WorkerFails \/ AdmitDone \/ ControlsDone \/ StepRaises
    BY Zenon, <1>1, <1>2, <1>6 DEF WorkerFails, AdmitDone, ControlsDone, StepRaises, clientVars, queueVars
<1>7. CASE TakeControl \/ Answer
    BY Zenon, <1>1, <1>2, <1>7 DEF TakeControl, Answer, clientVars
<1>8. CASE SwapBuild \/ SwapDrop \/ RebuildDrop \/ RebuildBuild \/ Restore
  <2>1. \E next, reply : ResizeStep(next, reply)
      BY <1>8 DEF SwapBuild, SwapDrop, RebuildDrop, RebuildBuild, Restore
  <2>2. pc \notin {"final", "off"}
      BY <1>8 DEF SwapBuild, SwapDrop, RebuildDrop, RebuildBuild, Restore
  <2> QED
      BY <1>1, <1>2, <2>1, <2>2 DEF ResizeStep, clientVars, queueVars
<1>9. CASE AskClose \/ Join \/ ReadStopped
  <2>1. req' = req /\ \E next : CloseStep(next)
      BY <1>9 DEF AskClose, Join, ReadStopped
  <2> QED
      BY SMTT(60), <1>1, <1>2, <2>1 DEF CloseStep, clientVars, queueVars
<1>10. CASE Teardown
  <2>1. PICK result, next : EngineClose(bound, result) /\ CloseStep(next)
      BY <1>10 DEF Teardown
  <2> QED
      BY Zenon, <1>1, <2>1, CloseAdvances DEF CloseStep, clientVars, queueVars
<1>11. CASE Step
    BY Zenon, <1>1, <1>11, StepAdvances DEF Step, CollectNext, clientVars, queueVars
<1>12. CASE Close \/ FailClose
  <2>1. PICK result : EngineClose(serving, result)
      BY SMTT(60), <1>12 DEF Close, FailClose
  <2>2. UNCHANGED <<at, got, handle, handles, fut>> /\ pc \notin {"final", "off"}
      BY Zenon, <1>12 DEF Close, FailClose, clientVars, queueVars
  <2>3. todo' \in {todo, handles}
      BY <1>12 DEF Close, FailClose, CollectNext
  <2> QED
      BY Zenon, <1>1, <2>1, <2>2, <2>3, CloseAdvances
<1>13. CASE Final
  <2>1. /\ UNCHANGED <<at, got, handle, handles, req, todo>> /\ pc' = "off"
        /\ \A c \in Clients : fut'[c] = IF fut[c] = "pending" THEN "error" ELSE fut[c]
      BY <1>13 DEF Final, clientVars
  <2> SUFFICES ASSUME NEW c \in Clients PROVE LifeOf(c)' /\ StreamOf(c)'
      BY DEF StreamInv
  <2>2. LifeOf(c) /\ StreamOf(c)
      BY DEF StreamInv
  <2>3. /\ at'[c] \in Early => fut'[c] = fut[c]
        /\ c \in todo' => c \in handles'
      BY Zenon, <2>1, <2>2 DEF LifeOf
  <2> QED
      BY Zenon, <1>2, <2>1, <2>2, <2>3, SameStream
<1> QED
    BY Zenon, <1>3, <1>4, <1>5, <1>6, <1>7, <1>8, <1>9, <1>10, <1>11, <1>12, <1>13, ClientStreams,
       AdmitStreams, CollectStreams, FailStreams DEF Next, Owner, Closer

\* A stream that a client has read to its end is text that only grows and then one
\* terminal, and it ends with "stop" only when the request finished and its whole
\* text was delivered, for any number of clients and events and any bound on the
\* stream queue (GenerationHandle.put, next_event, _collect, _fail_engine).
THEOREM FinishedStreamsWhole == Spec => []FinishedStreamsAreWhole
<1> DEFINE IInv == TypeOK /\ StreamInv
<1>1. Init => IInv
    BY InitTypeOK, InitStreams
<1>2. IInv /\ [Next]_vars => IInv'
    BY TypeStep, StreamStep
<1>3. IInv => FinishedStreamsAreWhole
  <2> SUFFICES ASSUME IInv, NEW c \in Clients, at[c] = "done"
               PROVE  LET g == got[c]
                          last == g[Len(g)]
                      IN /\ last.kind # "delta"
                         /\ \A i \in 1 .. Len(g) - 1 : g[i].kind = "delta"
                         /\ \A i, j \in 1 .. Len(g) - 1 : i < j => g[i].n < g[j].n
                         /\ last.kind = "stop" =>
                               /\ req[c].why = "stop"
                               /\ Len(g) > 1 /\ g[Len(g) - 1].n = req[c].n
      BY Zenon DEF FinishedStreamsAreWhole
  <2> DEFINE g == got[c]
             h == handle[c]
             s == Stream(c)
  <2>1. g \in Seq(Event) /\ h \in Handle /\ h.queue \in Seq(Event)
      BY Zenon DEF TypeOK, ClientTypes, HandleTypes, Handle
  <2>2. /\ Len(g) \in Nat /\ Len(s) = Len(g) + Len(h.queue)
        /\ Len(h.queue) \in Nat /\ \A i \in 1 .. Len(g) : s[i] = g[i]
    <3>1. s = g \o h.queue
        BY DEF Stream
    <3> HIDE DEF s, g, h
    <3> QED
        BY SMTT(60), <2>1, <3>1, StreamShapes
  <2>3. StreamOf(c)
      BY DEF StreamInv
  <2>4. /\ Grows(s, h) /\ EndsWell(s, h, req[c]) /\ g # <<>> /\ g[Len(g)].kind # "delta"
      BY Zenon, <2>3 DEF StreamOf
  <2>5. Len(g) > 0
      BY Zenon, <2>1, <2>4, HeadFacts
  <2> HIDE DEF s, h, g
  <2>6. Len(g) \notin 1 .. Texts(s, h)
    <3>1. \A i \in 1 .. Texts(s, h) : s[i].kind = "delta"
        BY Zenon, <2>4 DEF Grows
    <3>2. Len(g) \in 1 .. Len(g)
        BY Zenon, <2>2, <2>5, Prefixes
    <3> QED
        BY Zenon, <2>2, <2>4, <3>1, <3>2
  <2>7. h.sent /\ Len(s) = Len(g)
      BY SMTT(60), <2>1, <2>2, <2>5, <2>6 DEF Texts, Handle
  <2>8. Texts(s, h) = Len(g) - 1
      BY <2>7 DEF Texts
  <2>9. \A i \in 1 .. Len(g) - 1 : g[i].kind = "delta" /\ i \in 1 .. Len(g)
    <3>1. \A i \in 1 .. Len(g) - 1 : s[i].kind = "delta"
        BY Zenon, <2>4, <2>8 DEF Grows
    <3>2. \A i \in 1 .. Len(g) - 1 : i \in 1 .. Len(g)
        BY Zenon, <2>2, Prefixes
    <3> QED
        BY Zenon, <2>2, <3>1, <3>2
  <2>10. \A i, j \in 1 .. Len(g) - 1 : i < j => g[i].n < g[j].n
      BY Zenon, <2>2, <2>4, <2>8, <2>9 DEF Grows
  <2>11. g[Len(g)].kind = "stop" =>
            req[c].why = "stop" /\ Len(g) > 1 /\ g[Len(g) - 1].n = req[c].n
      BY SMTT(60), <2>2, <2>4, <2>5, <2>7 DEF EndsWell
  <2> QED
      BY Zenon, <2>4, <2>9, <2>10, <2>11 DEF g
<1> QED
    BY <1>1, <1>2, <1>3, PTL DEF Spec
=============================================================================

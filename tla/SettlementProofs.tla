-------------------------- MODULE SettlementProofs --------------------------
(***************************************************************************)
(* Proofs about Settlement, for any requests, ids, tickets and limits: the *)
(* inductive invariant, the safety and action properties it yields, and    *)
(* that tickets move as TicketProtocol has them.                           *)
(*                                                                         *)
(* The invariant follows a slice through its stages.  While a ticket holds *)
(* a request, only the settlement of that ticket and the cancellation      *)
(* token may change the request, so each stage says what the next guard of *)
(* adopt() or handle() will find.  Requests no ticket holds are described  *)
(* by where the scheduler keeps them and by the report that waits for them.*)
(***************************************************************************)
EXTENDS Settlement, TLAPS

LifeStates == {"CREATED", "WAITING", "ADMITTED", "PREFILL", "DECODING", "PREEMPTED",
               "FINISHED", "CANCELLED", "FAILED"}

Slices ==
    [step : Tickets \cup {NoStep}, epoch : Nat, version : Nat, start : Nat, count : Nat,
     phase : {"PREFILL", "DECODE"}, sample : BOOLEAN, drafts : Nat]

Lifecycles ==
    [state : LifeStates, token : BOOLEAN, epoch : Nat, bound : Nat, version : Nat,
     computed : Nat, out : Nat, slice : Slices, base : Nat, committed : BOOLEAN]

Outcomes == {"ADMITTED", "PREEMPTED", "FINISHED", "ABORTED", "FAILED"}
Reports == {NoReport} \cup [life : Lives, outcome : Outcomes, epoch : Nat]

Sequences == [version : Nat, tokens : Nat, live : BOOLEAN]

TicketRecords ==
    [state : {"absent", "adopted", "live", "done", "settling", "retired", "lost"},
     status : {"NONE", "SUCCEEDED", "FAILED", "CANCELLED"}, cancel : BOOLEAN]

AdoptSteps == {"adopt", "claim"}
SliceSteps == {"apply", "ask", "publish", "check"}
SettleSteps == {"commit", "discard", "slice"} \cup SliceSteps

RequestTypes ==
    /\ life \in [Lives -> Lifecycles]
    /\ reg \in [Lives -> {"unborn", "active", "finished", "forgotten"}]
    /\ kv \in [Lives -> Sequences]
    /\ IdOf \in [Lives -> Ids \cup {NoStep}]
    /\ \A l \in Lives : reg[l] # "unborn" => IdOf[l] \in Ids

SchedulerTypes ==
    /\ place \in [Lives -> {"none", "queue", "ring"}]
    /\ pend \in [Ids -> Reports]
    /\ aborting \in SUBSET Lives /\ stops \in SUBSET Lives

TicketTypes ==
    /\ tk \in [Tickets -> TicketRecords]
    /\ bind = [t \in Tickets |-> bind[t]]
    /\ \A t \in Tickets : Bound(t) \subseteq Lives /\ \A l \in Bound(t) : bind[t][l] \in Slices

Keeps == UNION {[S -> Nat] : S \in SUBSET Lives}
Steps == {"idle", "update"} \cup AdoptSteps \cup SettleSteps

Threads ==
    [at : Steps, t : Tickets \cup {NoStep}, todo : SUBSET Lives, cur : Lives \cup {NoStep},
     keep : Keeps, ignored : SUBSET Lives, published : SUBSET Lives]

ThreadTypes == pc \in Threads /\ eng \in {"between", "settle", "plan", "failed"}

\* Which ticket the engine thread holds, and in which part of the step it may.
ControlInv ==
    /\ pc.at = "idle" => pc = IdlePc
    /\ pc.at # "idle" => pc.t \in Tickets
    /\ pc.at \in AdoptSteps => eng = "plan"
    /\ pc.at \in SettleSteps \cup {"update"} => eng \in {"settle", "failed"}
    /\ pc.at # "idle" => /\ pc.todo \subseteq Bound(pc.t)
                         /\ pc.ignored \subseteq Bound(pc.t) \ pc.todo
                         /\ pc.published \subseteq Bound(pc.t)
    /\ pc.at \in SliceSteps => pc.cur \in pc.todo
    /\ pc.at \notin SliceSteps => pc.cur = NoStep
    /\ pc.at \in SliceSteps \cup {"slice"} => \A l \in Bound(pc.t) : pc.keep[l] \in Nat

\* A ticket's record, by its state.
TicketInv(t) ==
    /\ tk[t].state = "absent" => tk[t] = NoTicket
    /\ tk[t].state = "adopted" <=> pc.at = "claim" /\ pc.t = t
    /\ tk[t].state = "settling" <=> pc.at \in SettleSteps /\ pc.t = t
    /\ tk[t].state = "retired" <=> pc.at = "update" /\ pc.t = t
    /\ tk[t].state \in {"adopted", "live"} => tk[t].status = "NONE"
    /\ tk[t].state = "adopted" => ~tk[t].cancel
    /\ tk[t].state \in {"done", "settling"} => tk[t].status # "NONE"
    /\ pc.at \in SettleSteps /\ pc.t = t => (tk[t].status = "SUCCEEDED" <=> pc.at # "discard")

\* What the engine thread and its tickets keep, whatever becomes of the requests.
ThreadInv == TicketTypes /\ ThreadTypes /\ ControlInv /\ \A t \in Tickets : TicketInv(t)

\* While adopt() runs nothing is settled, and before it claims the ticket is nobody's.
AdoptInv ==
    pc.at \in AdoptSteps =>
        /\ pc.ignored = {} /\ pc.published = {}
        /\ pc.at = "adopt" => pc.todo = {} /\ tk[pc.t].state = "absent"

Basic == RequestTypes /\ SchedulerTypes /\ ThreadInv /\ AdoptInv


-----------------------------------------------------------------------------
(* What the operators of Lifecycle return *)

LEMMA Names ==
    /\ NoStep \notin Tickets /\ NoStep \notin Lives /\ NoStep \notin Ids
    /\ Prompt \in Nat \ {0} /\ MaxOut \in Nat \ {0} /\ MaxDrafts \in Nat
BY SettlementAssumption, LifecycleAssumption DEF Ids

LEMMA NoSliceType == NoSlice \in Slices /\ NoSlice.step = NoStep
BY DEF NoSlice, Slices

\* Only the token of a lifecycle may be set by another thread.
OnlyToken(r, n) ==
    /\ n \in Lifecycles /\ (r.token => n.token)
    /\ n.state = r.state /\ n.epoch = r.epoch /\ n.bound = r.bound /\ n.version = r.version
    /\ n.computed = r.computed /\ n.out = r.out /\ n.slice = r.slice /\ n.base = r.base
    /\ n.committed = r.committed

LEMMA SetToken ==
    ASSUME NEW r \in Lifecycles
    PROVE  OnlyToken(r, [r EXCEPT !.token = TRUE]) /\ [r EXCEPT !.token = TRUE].token
BY Zenon DEF OnlyToken, Lifecycles

LEMMA SameLife == ASSUME NEW r \in Lifecycles PROVE OnlyToken(r, r)
BY DEF OnlyToken

LEMMA TransitionFields ==
    ASSUME NEW r \in Lifecycles, NEW dst \in LifeStates
    PROVE  LET n == Transition(r, dst) IN
           /\ n \in Lifecycles /\ n.state = dst /\ n.token = r.token /\ n.bound = r.bound
           /\ n.version = r.version /\ n.out = r.out /\ n.slice = r.slice /\ n.base = r.base
           /\ n.committed = r.committed
           /\ n.computed = (IF dst = "PREEMPTED" THEN 0 ELSE r.computed)
           /\ n.epoch = (IF dst \in {"PREEMPTED", "CANCELLED", "FAILED"}
                         THEN r.epoch + 1 ELSE r.epoch)
<1> DEFINE c == IF dst = "PREEMPTED" THEN 0 ELSE r.computed
           e == IF dst \in {"PREEMPTED", "CANCELLED", "FAILED"} THEN r.epoch + 1 ELSE r.epoch
<1>1. Transition(r, dst) = [r EXCEPT !.state = dst, !.computed = c, !.epoch = e]
    BY Zenon DEF Transition, LifeStates
<1>2. c \in Nat /\ e \in Nat
    BY DEF Lifecycles
<1> HIDE DEF c, e
<1>3. [r EXCEPT !.state = dst, !.computed = c, !.epoch = e] \in Lifecycles
    BY Zenon, <1>2 DEF Lifecycles
<1>4. LET n == [r EXCEPT !.state = dst, !.computed = c, !.epoch = e] IN
      /\ n.state = dst /\ n.computed = c /\ n.epoch = e /\ n.token = r.token
      /\ n.bound = r.bound /\ n.version = r.version /\ n.out = r.out /\ n.slice = r.slice
      /\ n.base = r.base /\ n.committed = r.committed
    BY DEF Lifecycles
<1> QED
    BY Zenon, <1>1, <1>3, <1>4 DEF c, e

LEMMA QueuedFields ==
    LET n == Queued(NewLife) IN
    /\ n \in Lifecycles /\ n.state = "WAITING" /\ ~n.token /\ n.epoch = 1 /\ n.bound = 1
    /\ n.version = 0 /\ n.computed = 0 /\ n.out = 0 /\ n.slice = NoSlice
<1>1. NewLife \in Lifecycles
    BY NoSliceType DEF NewLife, Lifecycles, LifeStates
<1>2. Queued(NewLife) = [NewLife EXCEPT !.state = "WAITING", !.bound = 1]
    BY DEF Queued, NewLife
<1>3. [NewLife EXCEPT !.state = "WAITING", !.bound = 1] \in Lifecycles
  <2>1. "WAITING" \in LifeStates /\ 1 \in Nat
      BY DEF LifeStates
  <2> QED
      BY Zenon, <1>1, <2>1 DEF Lifecycles
<1> QED
    BY Zenon, <1>2, <1>3 DEF NewLife

LEMMA RebindFields ==
    ASSUME NEW r \in Lifecycles, NEW v \in Nat, NEW k \in Nat
    PROVE  LET n == Rebind(r, v, k) IN
           /\ n \in Lifecycles /\ n.state = r.state /\ n.token = r.token /\ n.out = r.out
           /\ n.slice = r.slice /\ n.base = r.base /\ n.committed = r.committed
           /\ n.version = v /\ n.computed = k /\ n.epoch = r.epoch + 1 /\ n.bound = r.epoch + 1
<1> DEFINE n == [r EXCEPT !.epoch = r.epoch + 1, !.bound = r.epoch + 1, !.version = v,
                         !.computed = k]
<1>1. r.epoch + 1 \in Nat
    BY DEF Lifecycles
<1>2. n \in Lifecycles
    BY Zenon, <1>1 DEF Lifecycles
<1>3. /\ n.state = r.state /\ n.token = r.token /\ n.out = r.out
      /\ n.slice = r.slice /\ n.base = r.base /\ n.committed = r.committed
      /\ n.version = v /\ n.computed = k /\ n.epoch = r.epoch + 1 /\ n.bound = r.epoch + 1
    BY DEF Lifecycles
<1>4. Rebind(r, v, k) = n
    BY DEF Rebind
<1> QED
    BY Zenon, <1>2, <1>3, <1>4

LEMMA BeginFields ==
    ASSUME NEW r \in Lifecycles, NEW s \in Slices, PhaseAllowed(r, s)
    PROVE  LET n == BeginSlice(r, s) IN
           /\ n \in Lifecycles /\ n.token = r.token /\ n.epoch = r.epoch /\ n.bound = r.bound
           /\ n.version = r.version /\ n.computed = r.computed /\ n.out = r.out
           /\ n.slice = s /\ n.base = r.out /\ ~n.committed
           /\ n.state = IF s.phase = "PREFILL" THEN "PREFILL" ELSE "DECODING"
<1> DEFINE e == IF s.phase = "PREFILL" THEN "PREFILL" ELSE "DECODING"
           m == IF r.state = "ADMITTED" THEN Transition(r, e) ELSE r
<1>1. /\ m \in Lifecycles /\ m.token = r.token /\ m.epoch = r.epoch /\ m.bound = r.bound
      /\ m.version = r.version /\ m.computed = r.computed /\ m.out = r.out
  <2>1. e \in LifeStates /\ e \notin {"PREEMPTED", "CANCELLED", "FAILED"}
      BY DEF LifeStates
  <2> HIDE DEF e
  <2> QED
      BY <2>1, TransitionFields
<1>2. m.state = e
  <2>1. e \in LifeStates /\ r.state \in LifeStates
      BY DEF LifeStates, Lifecycles
  <2>2. r.state = "ADMITTED" \/ r.state = e
      BY <2>1 DEF PhaseAllowed, LifeStates
  <2> HIDE DEF e
  <2> QED
      BY <2>1, <2>2, TransitionFields
<1> HIDE DEF m, e
<1>3. BeginSlice(r, s) = [m EXCEPT !.slice = s, !.base = r.out, !.committed = FALSE]
    BY DEF BeginSlice, m, e
<1>4. r.out \in Nat
    BY DEF Lifecycles
<1> QED
    BY Zenon, <1>1, <1>2, <1>3, <1>4 DEF Lifecycles, e

LEMMA ClearFields ==
    ASSUME NEW r \in Lifecycles
    PROVE  LET n == ClearSlice(r) IN
           /\ n \in Lifecycles /\ n.state = r.state /\ n.token = r.token /\ n.epoch = r.epoch
           /\ n.bound = r.bound /\ n.version = r.version /\ n.computed = r.computed
           /\ n.out = r.out /\ n.slice = NoSlice
<1> DEFINE n == [r EXCEPT !.slice = NoSlice, !.base = 0, !.committed = FALSE]
<1>1. n \in Lifecycles
    BY Zenon, NoSliceType DEF Lifecycles
<1>2. /\ n.state = r.state /\ n.token = r.token /\ n.epoch = r.epoch
      /\ n.bound = r.bound /\ n.version = r.version /\ n.computed = r.computed
      /\ n.out = r.out /\ n.slice = NoSlice
    BY DEF Lifecycles
<1>3. ClearSlice(r) = n
    BY DEF ClearSlice
<1> QED
    BY Zenon, <1>1, <1>2, <1>3

LEMMA CommitFields ==
    ASSUME NEW r \in Lifecycles, NEW s \in Slices, NEW v \in Nat, r.slice = s
    PROVE  LET n == CommitRange(r, s, v) IN
           /\ n \in Lifecycles /\ n.token = r.token /\ n.epoch = r.epoch /\ n.bound = r.bound
           /\ n.version = v /\ n.computed = SliceEnd(s) /\ n.out = r.out
           /\ n.state = (IF s.phase = "PREFILL" /\ SliceEnd(s) = Prompt THEN "DECODING" ELSE r.state)
           /\ n.slice = (IF s.sample THEN s ELSE NoSlice) /\ (s.sample => n.committed)
<1> DEFINE d == IF s.phase = "PREFILL" /\ SliceEnd(s) = Prompt THEN "DECODING" ELSE r.state
           n == [r EXCEPT !.computed = SliceEnd(s), !.version = v, !.state = d,
                          !.committed = TRUE]
<1>1. SliceEnd(s) \in Nat
    BY DEF SliceEnd, Slices
<1>2. d \in LifeStates
    BY DEF LifeStates, Lifecycles
<1>3. CommitRange(r, s, v) = IF s.sample THEN n ELSE ClearSlice(n)
    BY DEF CommitRange
<1> HIDE DEF d
<1>4. n \in Lifecycles
    BY Zenon, <1>1, <1>2 DEF Lifecycles
<1>5. /\ n.token = r.token /\ n.epoch = r.epoch /\ n.bound = r.bound /\ n.version = v
      /\ n.computed = SliceEnd(s) /\ n.out = r.out /\ n.state = d /\ n.slice = s /\ n.committed
    BY DEF Lifecycles
<1> HIDE DEF n
<1>6. CASE s.sample
    BY Zenon, <1>3, <1>4, <1>5, <1>6 DEF d
<1>7. CASE ~s.sample
  <2> DEFINE c == ClearSlice(n)
  <2>1. CommitRange(r, s, v) = c
      BY Zenon, <1>3, <1>7
  <2>2. /\ c \in Lifecycles /\ c.token = n.token /\ c.epoch = n.epoch /\ c.bound = n.bound
        /\ c.version = n.version /\ c.computed = n.computed /\ c.out = n.out
        /\ c.state = n.state /\ c.slice = NoSlice
      BY Zenon, <1>4, ClearFields
  <2> HIDE DEF c
  <2> QED
      BY Zenon, <1>5, <1>7, <2>1, <2>2 DEF d
<1> QED
    BY <1>6, <1>7

LEMMA SpeculativeFields ==
    ASSUME NEW r \in Lifecycles, NEW s \in Slices, NEW v \in Nat, NEW k \in Nat
    PROVE  LET n == CommitSpeculative(r, s, v, k) IN
           /\ n \in Lifecycles /\ n.token = r.token /\ n.epoch = r.epoch /\ n.bound = r.bound
           /\ n.version = v /\ n.computed = s.start + k /\ n.out = r.out + k
           /\ n.state = r.state /\ n.slice = NoSlice
<1> DEFINE n == [r EXCEPT !.computed = s.start + k, !.out = r.out + k, !.version = v]
<1>1. s.start + k \in Nat /\ r.out + k \in Nat
    BY DEF Slices, Lifecycles
<1>2. n \in Lifecycles
    BY Zenon, <1>1 DEF Lifecycles
<1>3. /\ n.token = r.token /\ n.epoch = r.epoch /\ n.bound = r.bound /\ n.version = v
      /\ n.computed = s.start + k /\ n.out = r.out + k /\ n.state = r.state
    BY DEF Lifecycles
<1>4. CommitSpeculative(r, s, v, k) = ClearSlice(n)
    BY DEF CommitSpeculative
<1> HIDE DEF n
<1> QED
    BY SMTT(30), <1>2, <1>3, <1>4, ClearFields

LEMMA PublishFields ==
    ASSUME NEW r \in Lifecycles
    PROVE  LET n == PublishSample(r) IN
           /\ n \in Lifecycles /\ n.token = r.token /\ n.epoch = r.epoch /\ n.bound = r.bound
           /\ n.version = r.version /\ n.computed = r.computed /\ n.out = r.out + 1
           /\ n.state = r.state /\ n.slice = NoSlice
<1> DEFINE n == [r EXCEPT !.out = r.out + 1]
<1>1. n \in Lifecycles
    BY DEF Lifecycles
<1>2. /\ n.token = r.token /\ n.epoch = r.epoch /\ n.bound = r.bound /\ n.version = r.version
      /\ n.computed = r.computed /\ n.out = r.out + 1 /\ n.state = r.state
    BY DEF Lifecycles
<1>3. PublishSample(r) = ClearSlice(n)
    BY DEF PublishSample
<1> HIDE DEF n
<1> QED
    BY SMTT(30), <1>1, <1>2, <1>3, ClearFields

\* _discard clears the slice it was called for; a request that is still the one
\* the slice was cut from ends when its token is set or the ticket did not succeed.
LEMMA DiscardFields ==
    ASSUME NEW r \in Lifecycles, NEW s \in Slices, NEW cancel \in BOOLEAN, NEW fail \in BOOLEAN
    PROVE  LET n == Discard(r, s, cancel, fail) IN
           /\ n \in Lifecycles /\ n.out = r.out /\ n.epoch >= r.epoch
           /\ n.slice = (IF r.slice = s THEN NoSlice ELSE r.slice)
           /\ n.state = r.state \/ (~IsTerminal(r) /\ IsTerminal(n))
           /\ r.epoch = s.epoch /\ ~IsTerminal(r) /\ (r.token \/ cancel \/ fail) => IsTerminal(n)
<1> DEFINE d == IF OwnsSlice(r, s) THEN DiscardSlice(r) ELSE r
           u == [d EXCEPT !.token = TRUE]
           current == r.epoch = s.epoch /\ ~IsTerminal(r)
<1>1. /\ d \in Lifecycles /\ d.state = r.state /\ d.out = r.out /\ d.epoch >= r.epoch
      /\ d.slice = (IF r.slice = s THEN NoSlice ELSE r.slice)
  <2> DEFINE x == ClearSlice(r)
             y == [x EXCEPT !.epoch = x.epoch + 1]
  <2>1. /\ x \in Lifecycles /\ x.state = r.state /\ x.slice = NoSlice /\ x.out = r.out
        /\ x.epoch = r.epoch
      BY Zenon, ClearFields
  <2>2. DiscardSlice(r) = y
      BY DEF DiscardSlice
  <2> HIDE DEF x
  <2>3. y \in Lifecycles
      BY <2>1 DEF Lifecycles
  <2>4. y.state = x.state /\ y.slice = x.slice /\ y.out = x.out /\ y.epoch = x.epoch + 1
      BY <2>1 DEF Lifecycles
  <2> HIDE DEF y
  <2>5. y.epoch >= r.epoch /\ r.epoch >= r.epoch
    <3>1. r.epoch \in Nat
        BY DEF Lifecycles
    <3> QED
        BY <2>1, <2>4, <3>1
  <2>6. CASE r.slice = s
    <3>1. d = y
        BY <2>2, <2>6 DEF OwnsSlice
    <3> QED
        BY Zenon, <2>1, <2>3, <2>4, <2>5, <2>6, <3>1
  <2>7. CASE r.slice # s
    <3>1. d = r
        BY <2>7 DEF OwnsSlice
    <3> QED
        BY Zenon, <2>5, <2>7, <3>1
  <2> QED
      BY <2>6, <2>7
<1>2. Discard(r, s, cancel, fail) =
        IF current /\ (r.token \/ cancel) THEN OnCancelled(u)
        ELSE IF current /\ fail THEN OnFailed(d) ELSE d
    BY Zenon DEF Discard
<1> HIDE DEF d
<1>3. u \in Lifecycles /\ u.state = d.state /\ u.slice = d.slice /\ u.out = d.out /\ u.epoch = d.epoch
    BY Zenon, <1>1 DEF Lifecycles
<1> HIDE DEF u
<1>4. IsTerminal(d) = IsTerminal(r) /\ IsTerminal(u) = IsTerminal(r)
    BY Zenon, <1>1, <1>3 DEF IsTerminal
<1>6. ASSUME NEW x \in Lifecycles, NEW dst \in {"CANCELLED", "FAILED"}, x.epoch >= r.epoch
      PROVE  LET n == Transition(x, dst) IN
             /\ n \in Lifecycles /\ n.slice = x.slice /\ n.out = x.out /\ n.epoch >= r.epoch
             /\ IsTerminal(n)
  <2> DEFINE n == Transition(x, dst)
  <2>0. dst \in LifeStates /\ dst \in {"PREEMPTED", "CANCELLED", "FAILED"}
      BY DEF LifeStates
  <2>1. n \in Lifecycles /\ n.slice = x.slice /\ n.out = x.out /\ n.state = dst /\ n.epoch = x.epoch + 1
      BY Zenon, <2>0, TransitionFields
  <2> HIDE DEF n
  <2>2. x.epoch \in Nat /\ r.epoch \in Nat
      BY DEF Lifecycles
  <2>3. n.epoch >= r.epoch
      BY <1>6, <2>1, <2>2
  <2>4. IsTerminal(n)
      BY <2>1 DEF IsTerminal, Terminal
  <2> QED
      BY Zenon, <2>1, <2>3, <2>4 DEF n
<1>7. CASE current /\ (r.token \/ cancel)
  <2>1. Discard(r, s, cancel, fail) = Transition(u, "CANCELLED")
      BY Zenon, <1>2, <1>4, <1>7 DEF OnCancelled
  <2> QED
      BY Zenon, <1>1, <1>3, <1>6, <1>7, <2>1
<1>8. CASE ~(current /\ (r.token \/ cancel)) /\ current /\ fail
  <2>1. Discard(r, s, cancel, fail) = Transition(d, "FAILED")
      BY Zenon, <1>2, <1>4, <1>8 DEF OnFailed
  <2> QED
      BY Zenon, <1>1, <1>6, <1>8, <2>1
<1>9. CASE ~(current /\ (r.token \/ cancel)) /\ ~(current /\ fail)
  <2>1. Discard(r, s, cancel, fail) = d
      BY Zenon, <1>2, <1>9
  <2> QED
      BY Zenon, <1>1, <1>9, <2>1
<1> QED
    BY <1>7, <1>8, <1>9

-----------------------------------------------------------------------------
(* How a step writes each variable *)

RegStates == {"unborn", "active", "finished", "forgotten"}

LEMMA LifeTo ==
    ASSUME RequestTypes, NEW l \in Lives, NEW n \in Lifecycles, life' = [life EXCEPT ![l] = n]
    PROVE  /\ life' \in [Lives -> Lifecycles] /\ life'[l] = n
           /\ \A m \in Lives : m # l => life'[m] = life[m]
BY DEF RequestTypes

LEMMA TokenTo ==
    ASSUME RequestTypes, NEW l \in Lives, life' = [life EXCEPT ![l].token = TRUE]
    PROVE  /\ life' \in [Lives -> Lifecycles] /\ life'[l].token
           /\ life'[l] = [life[l] EXCEPT !.token = TRUE]
           /\ \A m \in Lives : OnlyToken(life[m], life'[m]) /\ (m # l => life'[m] = life[m])
<1> DEFINE n == [life[l] EXCEPT !.token = TRUE]
<1>1. life[l] \in Lifecycles /\ \A m \in Lives : life[m] \in Lifecycles
    BY DEF RequestTypes
<1>2. OnlyToken(life[l], n) /\ n.token
    BY Zenon, <1>1, SetToken
<1>3. life' = [life EXCEPT ![l] = n]
    BY DEF RequestTypes
<1> HIDE DEF n
<1>4. n \in Lifecycles
    BY Zenon, <1>2 DEF OnlyToken
<1>5. life' \in [Lives -> Lifecycles] /\ life'[l] = n /\ \A m \in Lives : m # l => life'[m] = life[m]
    BY Zenon, <1>3, <1>4, LifeTo
<1> QED
    BY Zenon, <1>1, <1>2, <1>5, SameLife DEF n

LEMMA RetiredIs ==
    ASSUME RequestTypes, NEW ls, NEW lifes
    PROVE  /\ Retired(reg, ls, lifes) \in [Lives -> RegStates]
           /\ \A m \in Lives : Retired(reg, ls, lifes)[m] =
                IF m \in ls /\ reg[m] = "active" /\ IsTerminal(lifes[m]) THEN "finished" ELSE reg[m]
BY DEF RequestTypes, Retired, RegStates

LEMMA ReleaseIs ==
    ASSUME RequestTypes, NEW ls
    PROVE  /\ Release(ls) \in [Lives -> Sequences]
           /\ \A m \in Lives : /\ Release(ls)[m].version = kv[m].version
                               /\ Release(ls)[m].tokens = kv[m].tokens
                               /\ m \in ls => ~Release(ls)[m].live
                               /\ m \notin ls => Release(ls)[m] = kv[m]
<1>1. ASSUME NEW q \in Sequences
      PROVE  LET n == [q EXCEPT !.live = FALSE] IN
             n \in Sequences /\ n.version = q.version /\ n.tokens = q.tokens /\ ~n.live
    BY Zenon DEF Sequences
<1>2. \A m \in Lives : kv[m] \in Sequences
    BY DEF RequestTypes
<1>3. ASSUME NEW m \in Lives
      PROVE  Release(ls)[m] = IF m \in ls THEN [kv[m] EXCEPT !.live = FALSE] ELSE kv[m]
    BY DEF Release
<1>4. \A m \in Lives : Release(ls)[m] \in Sequences
    BY Zenon, <1>1, <1>2, <1>3
<1>5. Release(ls) \in [Lives -> Sequences]
    BY <1>4 DEF Release
<1> QED
    BY Zenon, <1>1, <1>2, <1>3, <1>5

LEMMA QueueIs ==
    ASSUME RequestTypes, SchedulerTypes, NEW ls \in SUBSET Lives, NEW o \in Outcomes
    PROVE  /\ Queue(ls, o) \in [Ids -> Reports]
           /\ \A i \in Ids :
                \/ Queue(ls, o)[i] = pend[i] /\ \A l \in ls : IdOf[l] # i
                \/ \E l \in ls : IdOf[l] = i /\ Queue(ls, o)[i] = Report(l, o)
<1>1. ASSUME NEW l \in Lives PROVE Report(l, o) \in Reports
  <2>1. life[l].epoch \in Nat
      BY DEF RequestTypes, Lifecycles
  <2> QED
      BY <2>1 DEF Report, Reports, Outcomes
<1>2. ASSUME NEW i \in Ids
      PROVE  \/ Queue(ls, o)[i] = pend[i] /\ \A l \in ls : IdOf[l] # i
             \/ \E l \in ls : IdOf[l] = i /\ Queue(ls, o)[i] = Report(l, o)
  <2>1. CASE \E l \in ls : IdOf[l] = i
    <3> DEFINE m == CHOOSE l \in ls : IdOf[l] = i
    <3>1. m \in ls /\ IdOf[m] = i
        BY Zenon, <2>1
    <3>2. Queue(ls, o)[i] = Report(m, o)
        BY <2>1 DEF Queue
    <3> QED
        BY Zenon, <3>1, <3>2
  <2>2. CASE ~\E l \in ls : IdOf[l] = i
      BY <2>2 DEF Queue
  <2> QED
      BY <2>1, <2>2
<1>3. \A i \in Ids : pend[i] \in Reports
    BY DEF SchedulerTypes
<1>4. \A i \in Ids : Queue(ls, o)[i] \in Reports
    BY Zenon, <1>1, <1>2, <1>3
<1> QED
    BY <1>2, <1>4 DEF Queue

LEMMA DropIs ==
    ASSUME SchedulerTypes, NEW ls
    PROVE  /\ Drop(ls) \in [Lives -> {"none", "queue", "ring"}]
           /\ \A m \in Lives : Drop(ls)[m] = IF m \in ls THEN "none" ELSE place[m]
BY DEF Drop, SchedulerTypes

TicketStates == {"absent", "adopted", "live", "done", "settling", "retired", "lost"}

LEMMA TicketTo ==
    ASSUME TicketTypes, NEW t \in Tickets, NEW x \in TicketStates,
           tk' = [tk EXCEPT ![t].state = x]
    PROVE  /\ tk' \in [Tickets -> TicketRecords] /\ tk'[t].state = x
           /\ tk'[t].status = tk[t].status /\ tk'[t].cancel = tk[t].cancel
           /\ \A u \in Tickets : u # t => tk'[u] = tk[u]
BY DEF TicketTypes, TicketRecords, TicketStates

LEMMA DoneTo ==
    ASSUME TicketTypes, NEW t \in Tickets, NEW x \in {"SUCCEEDED", "FAILED", "CANCELLED"},
           tk' = [tk EXCEPT ![t].state = "done", ![t].status = x]
    PROVE  /\ tk' \in [Tickets -> TicketRecords] /\ tk'[t].state = "done"
           /\ tk'[t].status = x /\ tk'[t].cancel = tk[t].cancel
           /\ \A u \in Tickets : u # t => tk'[u] = tk[u]
<1> DEFINE n == [[tk[t] EXCEPT !.state = "done"] EXCEPT !.status = x]
<1>1. tk[t] \in TicketRecords /\ tk \in [Tickets -> TicketRecords]
    BY DEF TicketTypes
<1>2. n \in TicketRecords /\ n.state = "done" /\ n.status = x /\ n.cancel = tk[t].cancel
    BY Zenon, <1>1 DEF TicketRecords
<1>3. tk' = [tk EXCEPT ![t] = n]
    BY Zenon, <1>1
<1> HIDE DEF n
<1> QED
    BY Zenon, <1>1, <1>2, <1>3

LEMMA BindTo ==
    ASSUME TicketTypes, NEW t \in Tickets, NEW p, bind' = [bind EXCEPT ![t] = p]
    PROVE  /\ bind' = [u \in Tickets |-> bind'[u]] /\ bind'[t] = p
           /\ \A u \in Tickets : u # t => bind'[u] = bind[u]
BY DEF TicketTypes

LEMMA NoPlanIs == DOMAIN NoPlan = {}
BY DEF NoPlan


LEMMA IdlePcIs ==
    /\ IdlePc \in Threads /\ IdlePc.at = "idle" /\ IdlePc.t = NoStep /\ IdlePc.todo = {}
    /\ IdlePc.cur = NoStep /\ IdlePc.ignored = {} /\ IdlePc.published = {}
<1>1. NoPlan \in [{} -> Nat]
    BY DEF NoPlan
<1>2. NoPlan \in Keeps /\ "idle" \in Steps
    BY Zenon, <1>1 DEF Keeps, Steps
<1> QED
    BY <1>2 DEF IdlePc, Threads

\* Where pc may go, and the other fields of the new value.
PcMoves(at, t, todo, cur, ignored, published) ==
    /\ pc' \in Threads /\ pc'.at = at /\ pc'.t = t /\ pc'.todo = todo /\ pc'.cur = cur
    /\ pc'.ignored = ignored /\ pc'.published = published

LEMMA PcAt ==
    ASSUME pc \in Threads, NEW at \in Steps, pc' = [pc EXCEPT !.at = at]
    PROVE  PcMoves(at, pc.t, pc.todo, pc.cur, pc.ignored, pc.published) /\ pc'.keep = pc.keep
BY DEF PcMoves, Threads

LEMMA NextSliceMoves ==
    ASSUME pc \in Threads, NEW l \in Lives, NEW ignore \in BOOLEAN, NextSlice(l, ignore)
    PROVE  /\ PcMoves("slice", pc.t, pc.todo \ {l}, NoStep,
                      IF ignore THEN pc.ignored \cup {l} ELSE pc.ignored, pc.published)
           /\ pc'.keep = pc.keep
<1> DEFINE r == IF ignore THEN pc.ignored \cup {l} ELSE pc.ignored
           d == pc.todo \ {l}
<1>1. r \in SUBSET Lives /\ d \in SUBSET Lives /\ "slice" \in Steps /\ NoStep \in Lives \cup {NoStep}
    BY DEF Threads, Steps, SettleSteps
<1>2. pc' = [pc EXCEPT !.at = "slice", !.todo = d, !.cur = NoStep, !.ignored = r]
    BY DEF NextSlice, Threads
<1> HIDE DEF r, d
<1>3. PcMoves("slice", pc.t, d, NoStep, r, pc.published) /\ pc'.keep = pc.keep
    BY Zenon, <1>1, <1>2 DEF PcMoves, Threads
<1> QED
    BY Zenon, <1>3 DEF r, d

\* Nothing of the thread's own moves.
LEMMA QuietThread ==
    ASSUME ThreadInv, UNCHANGED <<tk, bind, pc>>, eng' = eng \/ pc.at = "idle",
           eng' \in {"between", "settle", "plan", "failed"}
    PROVE  ThreadInv'
<1>1. TicketTypes'
    BY Zenon DEF ThreadInv, TicketTypes, Bound
<1>2. ThreadTypes'
    BY Zenon DEF ThreadInv, ThreadTypes
<1>3. ControlInv'
  <2>1. CASE eng' = eng
      BY Zenon, <2>1 DEF ThreadInv, ControlInv, Bound
  <2>2. CASE pc.at = "idle"
      BY <2>2 DEF ThreadInv, ControlInv, Bound, AdoptSteps, SettleSteps, SliceSteps
  <2> QED
      BY <2>1, <2>2
<1>4. \A t \in Tickets : TicketInv(t)'
    BY Zenon DEF ThreadInv, TicketInv
<1> QED
    BY Zenon, <1>1, <1>2, <1>3, <1>4 DEF ThreadInv

\* A settlement goes on with the same ticket.
LEMMA SettlementGoesOn ==
    ASSUME ThreadInv, pc.at \in SettleSteps, UNCHANGED <<tk, bind, eng>>,
           pc' \in Threads, pc'.at \in SettleSteps, pc'.t = pc.t,
           pc'.at = "discard" <=> pc.at = "discard", pc'.todo \subseteq pc.todo,
           pc'.ignored \subseteq pc.ignored \cup (pc.todo \ pc'.todo),
           pc'.published \subseteq Bound(pc.t), pc'.at \in SliceSteps => pc'.cur \in pc'.todo,
           pc'.at \notin SliceSteps => pc'.cur = NoStep,
           pc'.at \in SliceSteps \cup {"slice"} => \A l \in Bound(pc.t) : pc'.keep[l] \in Nat
    PROVE  ThreadInv'
<1> DEFINE at == pc'.at
           todo == pc'.todo
           ignored == pc'.ignored
<1>2. TicketTypes'
    BY Zenon DEF ThreadInv, TicketTypes, Bound
<1>3. ThreadTypes'
    BY Zenon DEF ThreadInv, ThreadTypes
<1>4. at # "idle" /\ at \notin AdoptSteps /\ at # "update" /\ pc.at # "idle" /\ pc.at # "update"
      /\ pc.at \notin AdoptSteps
    BY DEF SettleSteps, SliceSteps, AdoptSteps
<1>5. ControlInv'
  <2>1. pc.t \in Tickets /\ eng \in {"settle", "failed"} /\ pc.todo \subseteq Bound(pc.t)
        /\ pc.ignored \subseteq Bound(pc.t) \ pc.todo
      BY Zenon, <1>4 DEF ThreadInv, ControlInv
  <2>2. Bound(pc.t)' = Bound(pc.t)
      BY Zenon DEF Bound
  <2>3. todo \subseteq Bound(pc.t) /\ ignored \subseteq Bound(pc.t) \ todo
      BY Zenon, <2>1
  <2> QED
      BY Zenon, <1>4, <2>1, <2>2, <2>3 DEF ControlInv
<1>6. ASSUME NEW t \in Tickets PROVE TicketInv(t)'
  <2>1. TicketInv(t) /\ tk'[t] = tk[t]
      BY Zenon DEF ThreadInv
  <2>2. pc.at # "claim" /\ at # "claim"
      BY Zenon, <1>4 DEF AdoptSteps
  <2> QED
      BY Zenon, <1>4, <2>1, <2>2 DEF TicketInv
<1> QED
    BY Zenon, <1>2, <1>3, <1>5, <1>6 DEF ThreadInv

LEMMA SettlingFacts ==
    ASSUME ThreadInv, pc.at \in SettleSteps
    PROVE  /\ pc \in Threads /\ pc.t \in Tickets /\ tk[pc.t].state = "settling" /\ eng \in {"settle", "failed"}
           /\ pc.todo \subseteq Bound(pc.t) /\ pc.ignored \subseteq Bound(pc.t) \ pc.todo
           /\ pc.published \subseteq Bound(pc.t) /\ Bound(pc.t) \subseteq Lives
           /\ \A l \in Bound(pc.t) : bind[pc.t][l] \in Slices
           /\ pc.at \notin {"idle", "update", "adopt", "claim"}
<1>1. pc.at \notin {"idle", "update", "adopt", "claim"}
    BY DEF SettleSteps, SliceSteps
<1> QED
    BY Zenon, <1>1 DEF ThreadInv, ThreadTypes, TicketTypes, ControlInv, TicketInv

\* The thread comes to rest, one ticket having moved to a state of its own.
LEMMA ThreadRests ==
    ASSUME ThreadInv, NEW t \in Tickets, pc.t = t \/ pc.at = "idle", pc' = IdlePc, TicketTypes',
           eng' \in {"between", "settle", "plan", "failed"},
           tk'[t].state \in {"absent", "live", "done", "lost"},
           tk'[t].state = "absent" => tk'[t] = NoTicket,
           tk'[t].state = "live" => tk'[t].status = "NONE",
           tk'[t].state = "done" => tk'[t].status # "NONE",
           \A u \in Tickets : u # t => tk'[u] = tk[u]
    PROVE  ThreadInv'
<1>1. /\ pc' \in Threads /\ pc'.at = "idle" /\ pc'.cur = NoStep
    BY Zenon, IdlePcIs
<1>2. ThreadTypes'
    BY Zenon, <1>1 DEF ThreadTypes
<1>3. "idle" \notin AdoptSteps /\ "idle" \notin SettleSteps /\ "idle" \notin SliceSteps
    BY DEF AdoptSteps, SettleSteps, SliceSteps
<1>4. ControlInv'
    BY <1>1, <1>3 DEF ControlInv
<1>5. ASSUME NEW u \in Tickets PROVE TicketInv(u)'
  <2>1. CASE u = t
      BY Zenon, <1>1, <1>3, <2>1 DEF TicketInv
  <2>2. CASE u # t
    <3>1. pc.t # u \/ pc.at = "idle"
        BY Zenon, <2>2 DEF ThreadInv
    <3>2. tk'[u] = tk[u] /\ TicketInv(u)
        BY Zenon, <2>2 DEF ThreadInv
    <3>3. tk[u].state \notin {"adopted", "settling", "retired"}
        BY Zenon, <1>3, <3>1, <3>2 DEF TicketInv
    <3> QED
        BY Zenon, <1>1, <1>3, <3>2, <3>3 DEF TicketInv
  <2> QED
      BY <2>1, <2>2
<1> QED
    BY Zenon, <1>2, <1>4, <1>5 DEF ThreadInv

LEMMA SameBind ==
    ASSUME TicketTypes, bind' = bind, tk' \in [Tickets -> TicketRecords]
    PROVE  TicketTypes'
BY Zenon DEF TicketTypes, Bound

LEMMA LoseThread ==
    ASSUME ThreadInv, pc.at \in SettleSteps, NEW reason, Lose(reason), UNCHANGED <<bind, eng>>
    PROVE  ThreadInv'
<1>1. pc.t \in Tickets /\ TicketTypes /\ eng \in {"settle", "failed"}
    BY Zenon, SettlingFacts DEF ThreadInv
<1>2. "lost" \in TicketStates
    BY DEF TicketStates
<1>3. /\ tk' \in [Tickets -> TicketRecords] /\ tk'[pc.t].state = "lost"
      /\ \A u \in Tickets : u # pc.t => tk'[u] = tk[u]
    BY Zenon, <1>1, <1>2, TicketTo DEF Lose
<1>4. TicketTypes'
    BY Zenon, <1>1, <1>3, SameBind
<1>5. pc' = IdlePc /\ eng' \in {"between", "settle", "plan", "failed"}
    BY <1>1 DEF Lose
<1>6. "lost" # "absent" /\ "lost" # "live" /\ "lost" # "done"
    OBVIOUS
<1> QED
    BY Zenon, <1>1, <1>3, <1>4, <1>5, <1>6, ThreadRests

LEMMA HandleBeginThread ==
    ASSUME ThreadInv, NEW t \in Tickets, HandleBegin(t)
    PROVE  ThreadInv'
<1>1. pc.at = "idle" /\ eng \in {"settle", "failed"} /\ tk[t].state = "done" /\ UNCHANGED <<bind, eng>>
    BY Zenon DEF HandleBegin
<1>2. TicketTypes /\ TicketInv(t) /\ tk[t].status # "NONE" /\ Bound(t) \subseteq Lives
    BY Zenon, <1>1 DEF ThreadInv, TicketInv, TicketTypes
<1>3. ASSUME NEW at \in {"discard", "commit"}, tk' = [tk EXCEPT ![t].state = "settling"],
             pc' = [[IdlePc EXCEPT !.t = t, !.todo = Bound(t)] EXCEPT !.at = at],
             at = "discard" <=> tk[t].status # "SUCCEEDED"
      PROVE  ThreadInv'
  <2>1. /\ tk' \in [Tickets -> TicketRecords] /\ tk'[t].state = "settling"
        /\ tk'[t].status = tk[t].status
        /\ \A u \in Tickets : u # t => tk'[u] = tk[u]
    <3>1. "settling" \in TicketStates
        BY DEF TicketStates
    <3> QED
        BY Zenon, <1>2, <1>3, <3>1, TicketTo
  <2>2. at \in Steps /\ at \in SettleSteps /\ at \notin SliceSteps \cup {"slice"}
        /\ at \notin AdoptSteps /\ at \notin {"idle", "update", "claim"}
      BY DEF Steps, SettleSteps, SliceSteps, AdoptSteps
  <2>3. PcMoves(at, t, Bound(t), NoStep, {}, {})
      BY Zenon, <1>2, <1>3, <2>2, IdlePcIs DEF PcMoves, Threads
  <2>4. TicketTypes'
      BY Zenon, <1>1, <1>2, <2>1, SameBind
  <2>5. ThreadTypes'
      BY Zenon, <1>1, <2>3 DEF ThreadInv, ThreadTypes, PcMoves
  <2>6. ControlInv'
    <3>1. Bound(t)' = Bound(t)
        BY Zenon, <1>1 DEF Bound
    <3> QED
        BY Zenon, <1>1, <2>2, <2>3, <3>1 DEF ControlInv, PcMoves
  <2>7. ASSUME NEW u \in Tickets PROVE TicketInv(u)'
    <3>1. CASE u = t
        BY Zenon, <1>2, <1>3, <2>1, <2>2, <2>3, <3>1 DEF TicketInv, PcMoves
    <3>2. CASE u # t
      <4>1. tk'[u] = tk[u] /\ TicketInv(u)
          BY Zenon, <2>1, <3>2 DEF ThreadInv
      <4>2. "idle" \notin SettleSteps /\ "idle" # "claim" /\ "idle" # "update"
          BY DEF SettleSteps, SliceSteps
      <4>3. tk[u].state \notin {"adopted", "settling", "retired"}
          BY Zenon, <1>1, <4>1, <4>2 DEF TicketInv
      <4> QED
          BY Zenon, <2>3, <3>2, <4>1, <4>3 DEF TicketInv, PcMoves
    <3> QED
        BY <3>1, <3>2
  <2> QED
      BY Zenon, <2>4, <2>5, <2>6, <2>7 DEF ThreadInv
<1>4. ASSUME tk' = [tk EXCEPT ![t].state = "lost"], pc' = IdlePc
      PROVE  ThreadInv'
  <2>1. "lost" \in TicketStates /\ "lost" # "absent" /\ "lost" # "live" /\ "lost" # "done"
      BY DEF TicketStates
  <2>2. /\ tk' \in [Tickets -> TicketRecords] /\ tk'[t].state = "lost"
        /\ \A u \in Tickets : u # t => tk'[u] = tk[u]
      BY Zenon, <1>2, <1>4, <2>1, TicketTo
  <2>3. TicketTypes' /\ eng' \in {"between", "settle", "plan", "failed"}
      BY Zenon, <1>1, <1>2, <2>2, SameBind
  <2> QED
      BY Zenon, <1>1, <1>4, <2>1, <2>2, <2>3, ThreadRests
<1> QED
    BY Zenon, <1>3, <1>4 DEF HandleBegin

LEMMA HandleCommitThread ==
    ASSUME ThreadInv, HandleCommit
    PROVE  ThreadInv'
<1>1. pc.at = "commit" /\ UNCHANGED <<bind, eng>>
    BY Zenon DEF HandleCommit
<1>2. "commit" \in SettleSteps /\ "slice" \in SettleSteps /\ "slice" \in Steps /\ "slice" \notin SliceSteps
      /\ "commit" \notin SliceSteps /\ "slice" # "discard" /\ "commit" # "discard"
    BY DEF SettleSteps, SliceSteps, Steps
<1>3. PICK keep \in [Bound(pc.t) -> 0 .. MaxDrafts + 1] :
        \/ pc' = [pc EXCEPT !.at = "slice", !.keep = keep] /\ UNCHANGED tk
        \/ Lose("version")
    BY Zenon DEF HandleCommit
<1>4. CASE Lose("version")
    BY Zenon, <1>1, <1>2, <1>4, LoseThread
<1>5. CASE pc' = [pc EXCEPT !.at = "slice", !.keep = keep] /\ UNCHANGED tk
  <2>1. keep \in [Bound(pc.t) -> Nat] /\ Bound(pc.t) \in SUBSET Lives
      BY <1>1, <1>2, SettlingFacts, Names
  <2>2. keep \in Keeps
      BY Zenon, <2>1 DEF Keeps
  <2>3. pc \in Threads /\ pc.cur = NoStep
      BY Zenon, <1>1, <1>2 DEF ThreadInv, ThreadTypes, ControlInv
  <2>4. PcMoves("slice", pc.t, pc.todo, NoStep, pc.ignored, pc.published) /\ pc'.keep = keep
      BY Zenon, <1>2, <1>5, <2>2, <2>3 DEF PcMoves, Threads
  <2>5. \A l \in Bound(pc.t) : pc'.keep[l] \in Nat
      BY <2>1, <2>4
  <2> QED
      BY Zenon, <1>1, <1>2, <1>5, <2>4, <2>5, SettlingFacts, SettlementGoesOn DEF PcMoves
<1> QED
    BY Zenon, <1>3, <1>4, <1>5

\* The per-slice loop takes its next request.
LEMMA NextSliceThread ==
    ASSUME ThreadInv, pc.at \in SliceSteps \cup {"slice"}, NEW l \in pc.todo,
           NEW ignore \in BOOLEAN, NextSlice(l, ignore), UNCHANGED <<tk, bind, eng>>
    PROVE  ThreadInv'
<1>1. pc.at \in SettleSteps /\ "slice" \in SettleSteps /\ "slice" \notin SliceSteps
      /\ "slice" # "discard" /\ pc.at # "discard"
    BY DEF SettleSteps, SliceSteps
<1>2. /\ pc \in Threads /\ pc.todo \subseteq Bound(pc.t) /\ Bound(pc.t) \subseteq Lives
      /\ pc.published \subseteq Bound(pc.t)
    BY Zenon, <1>1, SettlingFacts
<1> DEFINE r == IF ignore THEN pc.ignored \cup {l} ELSE pc.ignored
<1>3. PcMoves("slice", pc.t, pc.todo \ {l}, NoStep, r, pc.published) /\ pc'.keep = pc.keep
    BY Zenon, <1>2, NextSliceMoves
<1>4. r \subseteq pc.ignored \cup (pc.todo \ (pc.todo \ {l})) /\ pc.todo \ {l} \subseteq pc.todo
    BY Zenon
<1>5. \A m \in Bound(pc.t) : pc'.keep[m] \in Nat
    BY Zenon, <1>3 DEF ThreadInv, ControlInv
<1> HIDE DEF r
<1> QED
    BY Zenon, <1>1, <1>2, <1>3, <1>4, <1>5, SettlementGoesOn DEF PcMoves

LEMMA SliceHeadThread ==
    ASSUME ThreadInv, NEW l \in Lives, SliceHead(l)
    PROVE  ThreadInv'
<1>1. pc.at = "slice" /\ l \in pc.todo /\ UNCHANGED <<tk, bind, eng>>
    BY Zenon DEF SliceHead
<1>2. "slice" \in SettleSteps /\ "apply" \in SettleSteps /\ "apply" \in Steps /\ "apply" \in SliceSteps
      /\ "slice" # "discard" /\ "apply" # "discard"
    BY DEF SettleSteps, SliceSteps, Steps
<1>3. CASE NextSlice(l, TRUE)
    BY Zenon, <1>1, <1>3, NextSliceThread
<1>4. CASE pc' = [pc EXCEPT !.at = "apply", !.cur = l]
  <2>1. pc \in Threads /\ \A m \in Bound(pc.t) : pc.keep[m] \in Nat
      BY Zenon, <1>1 DEF ThreadInv, ThreadTypes, ControlInv
  <2>2. PcMoves("apply", pc.t, pc.todo, l, pc.ignored, pc.published) /\ pc'.keep = pc.keep
      BY Zenon, <1>2, <1>4, <2>1 DEF PcMoves, Threads
  <2> QED
      BY Zenon, <1>1, <1>2, <2>1, <2>2, SettlingFacts, SettlementGoesOn DEF PcMoves
<1> QED
    BY Zenon, <1>3, <1>4 DEF SliceHead

LEMMA LoopFacts ==
    ASSUME ThreadInv, pc.at \in SliceSteps
    PROVE  /\ pc.at \in SettleSteps /\ pc.at # "discard"
           /\ pc.cur \in pc.todo /\ pc.cur \in Bound(pc.t) /\ pc.cur \in Lives
           /\ \A m \in Bound(pc.t) : pc.keep[m] \in Nat
<1>1. pc.at \in SettleSteps /\ pc.at # "discard"
    BY DEF SettleSteps, SliceSteps
<1> QED
    BY Zenon, <1>1, SettlingFacts DEF ThreadInv, ControlInv

\* The steps between the head of the loop and its end stay with their request.
LEMMA LoopThread ==
    ASSUME ThreadInv, pc.at \in SliceSteps, NEW at \in SliceSteps, UNCHANGED <<tk, bind, eng>>,
           \/ pc' = [pc EXCEPT !.at = at]
           \/ pc' = [pc EXCEPT !.at = at, !.published = @ \cup {pc.cur}]
    PROVE  ThreadInv'
<1>1. at \in Steps /\ at \in SettleSteps /\ at # "discard"
    BY DEF SettleSteps, SliceSteps, Steps
<1>2. pc \in Threads
    BY Zenon DEF ThreadInv, ThreadTypes
<1>3. CASE pc' = [pc EXCEPT !.at = at]
  <2>1. PcMoves(at, pc.t, pc.todo, pc.cur, pc.ignored, pc.published) /\ pc'.keep = pc.keep
      BY Zenon, <1>1, <1>2, <1>3, PcAt
  <2> QED
      BY Zenon, <1>1, <2>1, LoopFacts, SettlingFacts, SettlementGoesOn DEF PcMoves
<1>4. CASE pc' = [pc EXCEPT !.at = at, !.published = @ \cup {pc.cur}]
  <2> DEFINE p == pc.published \cup {pc.cur}
  <2>1. p \in SUBSET Lives /\ p \subseteq Bound(pc.t)
      BY Zenon, LoopFacts, SettlingFacts
  <2>2. pc' = [pc EXCEPT !.at = at, !.published = p]
      BY <1>2, <1>4 DEF Threads
  <2> HIDE DEF p
  <2>3. PcMoves(at, pc.t, pc.todo, pc.cur, pc.ignored, p) /\ pc'.keep = pc.keep
      BY Zenon, <1>1, <1>2, <2>1, <2>2 DEF PcMoves, Threads
  <2> QED
      BY Zenon, <1>1, <2>1, <2>3, LoopFacts, SettlingFacts, SettlementGoesOn DEF PcMoves
<1> QED
    BY Zenon, <1>3, <1>4

LEMMA RefusedThread ==
    ASSUME ThreadInv, pc.at \in SliceSteps, NEW reason, Refused(pc.cur, reason),
           UNCHANGED <<bind, eng>>
    PROVE  ThreadInv'
<1>1. CASE Lose(reason)
    BY Zenon, <1>1, LoopFacts, LoseThread
<1>2. CASE NextSlice(pc.cur, TRUE) /\ UNCHANGED tk
    BY Zenon, <1>2, LoopFacts, NextSliceThread
<1> QED
    BY Zenon, <1>1, <1>2 DEF Refused

LEMMA SliceApplyThread ==
    ASSUME ThreadInv, SliceApply
    PROVE  ThreadInv'
<1>1. pc.at = "apply" /\ UNCHANGED <<bind, eng>>
    BY Zenon DEF SliceApply
<1>2. "apply" \in SliceSteps /\ "ask" \in SliceSteps /\ "check" \in SliceSteps
    BY DEF SliceSteps
<1>3. \/ Refused(pc.cur, "apply")
      \/ /\ UNCHANGED tk
         /\ \/ pc' = [pc EXCEPT !.at = "ask"]
            \/ pc' = [pc EXCEPT !.at = "check", !.published = @ \cup {pc.cur}]
    BY Zenon DEF SliceApply
<1> QED
    BY Zenon, <1>1, <1>2, <1>3, RefusedThread, LoopThread

LEMMA SliceAskThread ==
    ASSUME ThreadInv, SliceAsk
    PROVE  ThreadInv'
<1>1. "ask" \in SliceSteps /\ "publish" \in SliceSteps /\ "check" \in SliceSteps
    BY DEF SliceSteps
<1> QED
    BY Zenon, <1>1, LoopThread DEF SliceAsk

LEMMA SlicePublishThread ==
    ASSUME ThreadInv, SlicePublish
    PROVE  ThreadInv'
<1>1. "publish" \in SliceSteps /\ "check" \in SliceSteps
    BY DEF SliceSteps
<1> QED
    BY Zenon, <1>1, RefusedThread, LoopThread DEF SlicePublish

LEMMA SliceCheckThread ==
    ASSUME ThreadInv, SliceCheck
    PROVE  ThreadInv'
<1>1. "check" \in SliceSteps
    BY DEF SliceSteps
<1> QED
    BY Zenon, <1>1, LoopFacts, NextSliceThread DEF SliceCheck

LEMMA SliceDropThread ==
    ASSUME ThreadInv, NEW l \in Lives, SliceDrop(l)
    PROVE  ThreadInv'
<1>1. pc.at = "discard" /\ l \in pc.todo /\ UNCHANGED <<tk, bind, eng>>
      /\ pc' = [pc EXCEPT !.todo = @ \ {l}, !.ignored = @ \cup {l}]
    BY Zenon DEF SliceDrop
<1>2. "discard" \in SettleSteps /\ "discard" \notin SliceSteps /\ "discard" # "slice"
    BY DEF SettleSteps, SliceSteps
<1> DEFINE d == pc.todo \ {l}
           i == pc.ignored \cup {l}
<1>3. pc \in Threads /\ pc.cur = NoStep
    BY Zenon, <1>1, <1>2 DEF ThreadInv, ThreadTypes, ControlInv
<1>4. d \in SUBSET Lives /\ i \in SUBSET Lives
    BY <1>3 DEF Threads
<1>5. pc' = [pc EXCEPT !.todo = d, !.ignored = i]
    BY <1>1, <1>3 DEF Threads
<1>6. i \subseteq pc.ignored \cup (pc.todo \ d) /\ d \subseteq pc.todo
    BY Zenon, <1>1
<1> HIDE DEF d, i
<1>7. PcMoves("discard", pc.t, d, NoStep, i, pc.published)
    BY Zenon, <1>1, <1>3, <1>4, <1>5 DEF PcMoves, Threads
<1> QED
    BY Zenon, <1>1, <1>2, <1>6, <1>7, SettlingFacts, SettlementGoesOn DEF PcMoves

LEMMA HandleRetireThread ==
    ASSUME ThreadInv, HandleRetire
    PROVE  ThreadInv'
<1>1. /\ pc.at \in {"slice", "discard"} /\ pc.todo = {} /\ UNCHANGED <<bind, eng>>
      /\ tk' = [tk EXCEPT ![pc.t].state = "retired"] /\ pc' = [pc EXCEPT !.at = "update"]
    BY Zenon DEF HandleRetire
<1>2. pc.at \in SettleSteps /\ pc.at \notin SliceSteps /\ "update" \in Steps /\ "retired" \in TicketStates
      /\ "update" \notin AdoptSteps \cup SettleSteps \cup SliceSteps \cup {"slice", "idle", "claim"}
    BY <1>1 DEF SettleSteps, SliceSteps, Steps, AdoptSteps, TicketStates
<1>3. /\ pc \in Threads /\ pc.t \in Tickets /\ eng \in {"settle", "failed"} /\ TicketTypes
      /\ pc.ignored \subseteq Bound(pc.t) \ pc.todo /\ pc.published \subseteq Bound(pc.t)
      /\ pc.cur = NoStep
    BY Zenon, <1>2, SettlingFacts DEF ThreadInv, ControlInv
<1>4. PcMoves("update", pc.t, pc.todo, pc.cur, pc.ignored, pc.published)
    BY Zenon, <1>1, <1>2, <1>3, PcAt
<1>5. /\ tk' \in [Tickets -> TicketRecords] /\ tk'[pc.t].state = "retired"
      /\ \A u \in Tickets : u # pc.t => tk'[u] = tk[u]
    BY Zenon, <1>1, <1>2, <1>3, TicketTo
<1>6. TicketTypes'
    BY Zenon, <1>1, <1>3, <1>5, SameBind
<1>7. ThreadTypes'
    BY Zenon, <1>1, <1>4 DEF ThreadInv, ThreadTypes, PcMoves
<1>8. ControlInv'
  <2>1. Bound(pc.t)' = Bound(pc.t) /\ pc.todo \subseteq Bound(pc.t)
      BY Zenon, <1>1, <1>2, <1>4, SettlingFacts DEF Bound, PcMoves
  <2> QED
      BY Zenon, <1>1, <1>2, <1>3, <1>4, <2>1 DEF ControlInv, PcMoves
<1>9. ASSUME NEW u \in Tickets PROVE TicketInv(u)'
  <2>1. CASE u = pc.t
    <3>1. tk'[u].state = "retired" /\ pc'.at = "update" /\ pc'.t = u
        BY Zenon, <1>4, <1>5, <2>1 DEF PcMoves
    <3> QED
        BY Zenon, <1>2, <3>1 DEF TicketInv
  <2>2. CASE u # pc.t
    <3>1. tk'[u] = tk[u] /\ TicketInv(u) /\ pc'.t # u
        BY Zenon, <1>4, <1>5, <2>2 DEF ThreadInv, PcMoves
    <3> QED
        BY Zenon, <2>2, <3>1 DEF TicketInv
  <2> QED
      BY <2>1, <2>2
<1> QED
    BY Zenon, <1>6, <1>7, <1>8, <1>9 DEF ThreadInv

LEMMA SettleFaultThread ==
    ASSUME ThreadInv, SettleFault
    PROVE  ThreadInv'
<1>1. pc.at \in SettleSteps
    BY DEF SettleFault, SettleSteps
<1> QED
    BY Zenon, <1>1, LoseThread DEF SettleFault

LEMMA NoTicketIs == NoTicket \in TicketRecords /\ NoTicket.state = "absent"
BY DEF NoTicket, TicketRecords

LEMMA EmptyPlan ==
    ASSUME TicketTypes, NEW t \in Tickets, bind' = [bind EXCEPT ![t] = NoPlan],
           tk' \in [Tickets -> TicketRecords]
    PROVE  /\ TicketTypes' /\ Bound(t)' = {} /\ \A u \in Tickets : u # t => bind'[u] = bind[u]
<1>1. /\ bind' = [u \in Tickets |-> bind'[u]] /\ bind'[t] = NoPlan
      /\ \A u \in Tickets : u # t => bind'[u] = bind[u]
    BY Zenon, BindTo
<1>2. Bound(t)' = {}
    BY Zenon, <1>1, NoPlanIs DEF Bound
<1>3. ASSUME NEW u \in Tickets
      PROVE  Bound(u)' \subseteq Lives /\ \A l \in Bound(u)' : bind'[u][l] \in Slices
  <2>1. CASE u = t
      BY Zenon, <1>2, <2>1
  <2>2. CASE u # t
      BY Zenon, <1>1, <2>2 DEF TicketTypes, Bound
  <2> QED
      BY <2>1, <2>2
<1> QED
    BY Zenon, <1>1, <1>2, <1>3 DEF TicketTypes

LEMMA UpdateThread ==
    ASSUME ThreadInv, Update
    PROVE  ThreadInv'
<1>1. /\ pc.at = "update" /\ tk' = [tk EXCEPT ![pc.t] = NoTicket]
      /\ bind' = [bind EXCEPT ![pc.t] = NoPlan] /\ pc' = IdlePc /\ eng' = eng
    BY Zenon DEF Update
<1>2. pc.t \in Tickets /\ TicketTypes /\ eng' \in {"between", "settle", "plan", "failed"}
    BY <1>1 DEF ThreadInv, ControlInv, ThreadTypes
<1>3. /\ tk' \in [Tickets -> TicketRecords] /\ tk'[pc.t] = NoTicket
      /\ \A u \in Tickets : u # pc.t => tk'[u] = tk[u]
    BY <1>1, <1>2, NoTicketIs DEF TicketTypes
<1>4. TicketTypes'
    BY Zenon, <1>1, <1>2, <1>3, EmptyPlan
<1>5. "absent" # "live" /\ "absent" # "done"
    OBVIOUS
<1> QED
    BY Zenon, <1>1, <1>2, <1>3, <1>4, <1>5, NoTicketIs, ThreadRests

\* A ticket in flight that the thread does not hold.
LEMMA FlightMoves ==
    ASSUME ThreadInv, UNCHANGED <<bind, pc, eng>>, tk' \in [Tickets -> TicketRecords],
           \A u \in Tickets :
             \/ tk'[u] = tk[u]
             \/ /\ tk[u].state \in {"live", "done"} /\ tk'[u].state \in {"live", "done"}
                /\ tk'[u].state = "live" <=> tk'[u].status = "NONE"
    PROVE  ThreadInv'
<1>1. TicketTypes'
    BY Zenon, SameBind DEF ThreadInv
<1>2. ThreadTypes' /\ ControlInv'
    BY Zenon DEF ThreadInv, ThreadTypes, ControlInv, Bound
<1>3. ASSUME NEW u \in Tickets PROVE TicketInv(u)'
  <2>1. TicketInv(u)
      BY Zenon DEF ThreadInv
  <2>2. CASE tk'[u] = tk[u]
      BY Zenon, <2>1, <2>2 DEF TicketInv
  <2>3. CASE /\ tk[u].state \in {"live", "done"} /\ tk'[u].state \in {"live", "done"}
             /\ tk'[u].state = "live" <=> tk'[u].status = "NONE"
    <3>1. tk[u].state \notin {"absent", "adopted", "settling", "retired"}
          /\ tk'[u].state \notin {"absent", "adopted", "settling", "retired"}
        BY <2>3
    <3> QED
        BY Zenon, <2>1, <2>3, <3>1 DEF TicketInv
  <2> QED
      BY Zenon, <2>2, <2>3
<1> QED
    BY Zenon, <1>1, <1>2, <1>3 DEF ThreadInv

LEMMA CompleteThread ==
    ASSUME ThreadInv, NEW t \in Tickets, Complete(t)
    PROVE  ThreadInv'
<1>1. tk[t].state = "live" /\ UNCHANGED <<bind, pc, eng>> /\ TicketTypes
    BY Zenon DEF Complete, ThreadInv
<1>2. PICK x \in {"SUCCEEDED", "FAILED", "CANCELLED"} :
        tk' = [tk EXCEPT ![t].state = "done", ![t].status = x]
    BY Zenon DEF Complete
<1>3. /\ tk' \in [Tickets -> TicketRecords] /\ tk'[t].state = "done" /\ tk'[t].status = x
      /\ \A u \in Tickets : u # t => tk'[u] = tk[u]
    BY Zenon, <1>1, <1>2, DoneTo
<1>4. x # "NONE" /\ "done" # "live"
    OBVIOUS
<1> QED
    BY Zenon, <1>1, <1>3, <1>4, FlightMoves

LEMMA AbortedTicket ==
    ASSUME NEW r \in TicketRecords
    PROVE  LET n == CancelledTicket(r) IN
           /\ n \in TicketRecords /\ n.state = r.state
           /\ n = r \/ (r.state = "live" /\ n.status = r.status /\ n.cancel)
                    \/ (r.state = "done" /\ r.status = "SUCCEEDED" /\ n.status = "CANCELLED"
                          /\ n.cancel = r.cancel)
BY Zenon DEF CancelledTicket, TicketRecords

LEMMA AbortThread ==
    ASSUME ThreadInv, NEW l \in Lives, Abort(l)
    PROVE  ThreadInv'
<1>1. UNCHANGED <<bind, pc, eng>> /\ TicketTypes
    BY Zenon DEF Abort, ThreadInv
<1>2. tk' = tk \/ tk' = [t \in Tickets |-> IF Bound(t) \subseteq aborting' THEN CancelledTicket(tk[t])
                                           ELSE tk[t]]
    BY Zenon DEF Abort
<1>3. \A t \in Tickets : tk[t] \in TicketRecords /\ TicketInv(t)
    BY DEF TicketTypes, ThreadInv
<1>4. \A t \in Tickets : tk'[t] = tk[t] \/ tk'[t] = CancelledTicket(tk[t])
    BY <1>2
<1>5. tk' \in [Tickets -> TicketRecords]
  <2>1. \A t \in Tickets : tk'[t] \in TicketRecords
      BY Zenon, <1>3, <1>4, AbortedTicket
  <2> QED
      BY <1>2, <2>1 DEF TicketTypes, ThreadInv
<1>6. ASSUME NEW u \in Tickets
      PROVE  \/ tk'[u] = tk[u]
             \/ /\ tk[u].state \in {"live", "done"} /\ tk'[u].state \in {"live", "done"}
                /\ tk'[u].state = "live" <=> tk'[u].status = "NONE"
  <2> DEFINE n == CancelledTicket(tk[u])
  <2>1. /\ n.state = tk[u].state
        /\ n = tk[u] \/ (tk[u].state = "live" /\ n.status = tk[u].status)
                     \/ (tk[u].state = "done" /\ n.status = "CANCELLED")
      BY Zenon, <1>3, AbortedTicket
  <2>2. tk[u].state = "live" => tk[u].status = "NONE"
      BY Zenon, <1>3 DEF TicketInv
  <2> HIDE DEF n
  <2>3. tk'[u] = tk[u] \/ tk'[u] = n
      BY Zenon, <1>4 DEF n
  <2>4. "CANCELLED" # "NONE" /\ "done" # "live"
      OBVIOUS
  <2> QED
      BY Zenon, <2>1, <2>2, <2>3, <2>4
<1> QED
    BY Zenon, <1>1, <1>5, <1>6, FlightMoves

\* Inside schedule() and adopt(): the thread holds one ticket, claimed or not.
LEMMA ThreadAdopts ==
    ASSUME ThreadInv, NEW t \in Tickets, pc.at = "idle" \/ (pc.at \in AdoptSteps /\ pc.t = t),
           TicketTypes', pc' \in Threads, pc'.at \in AdoptSteps, pc'.t = t, eng' = "plan",
           pc'.todo \subseteq Bound(t)', pc'.ignored = {}, pc'.published = {}, pc'.cur = NoStep,
           pc'.at = "adopt" => tk'[t] = NoTicket,
           pc'.at = "claim" =>
               tk'[t].state = "adopted" /\ tk'[t].status = "NONE" /\ ~tk'[t].cancel,
           \A u \in Tickets : u # t => tk'[u] = tk[u]
    PROVE  ThreadInv'
<1>1. /\ pc'.at \notin SettleSteps \cup {"update", "idle"} /\ pc'.at \notin SliceSteps \cup {"slice"}
      /\ (pc'.at = "adopt" \/ pc'.at = "claim") /\ "adopt" # "claim"
    BY DEF AdoptSteps, SettleSteps, SliceSteps
<1>2. ThreadTypes'
    BY Zenon DEF ThreadTypes
<1>3. ControlInv'
    BY Zenon, <1>1 DEF ControlInv
<1>4. ASSUME NEW u \in Tickets PROVE TicketInv(u)'
  <2>1. CASE u = t
    <3>1. CASE pc'.at = "adopt"
      <4>1. tk'[u] = NoTicket /\ tk'[u].state = "absent" /\ pc'.at # "claim"
          BY Zenon, <2>1, <3>1, NoTicketIs, <1>1
      <4>2. "absent" \notin {"adopted", "live", "done", "settling", "retired"}
          OBVIOUS
      <4> QED
          BY Zenon, <1>1, <4>1, <4>2 DEF TicketInv
    <3>2. CASE pc'.at = "claim"
      <4>1. tk'[u].state = "adopted" /\ tk'[u].status = "NONE" /\ ~tk'[u].cancel /\ pc'.t = u
          BY Zenon, <2>1, <3>2
      <4>2. "adopted" \notin {"absent", "done", "settling", "retired"}
          OBVIOUS
      <4> QED
          BY Zenon, <1>1, <3>2, <4>1, <4>2 DEF TicketInv
    <3> QED
        BY Zenon, <1>1, <3>1, <3>2
  <2>2. CASE u # t
    <3>1. TicketInv(u) /\ tk'[u] = tk[u] /\ pc'.t # u
        BY Zenon, <2>2 DEF ThreadInv
    <3>2. pc.at = "idle" => pc.at \notin SettleSteps \cup {"update", "claim"}
        BY DEF SettleSteps, SliceSteps
    <3>3. pc.at \in SettleSteps \cup {"update", "claim"} => pc.t # u
        BY Zenon, <2>2, <3>2
    <3> QED
        BY Zenon, <3>1, <3>3 DEF TicketInv
  <2> QED
      BY <2>1, <2>2
<1> QED
    BY Zenon, <1>2, <1>3, <1>4 DEF ThreadInv

LEMMA AdoptFacts ==
    ASSUME ThreadInv, AdoptInv, pc.at \in AdoptSteps
    PROVE  /\ pc \in Threads /\ pc.t \in Tickets /\ eng = "plan" /\ pc.cur = NoStep
           /\ pc.todo \subseteq Bound(pc.t) /\ pc.ignored = {} /\ pc.published = {}
           /\ pc.at = "adopt" => pc.todo = {} /\ tk[pc.t] = NoTicket
           /\ pc.at = "claim" =>
                tk[pc.t].state = "adopted" /\ tk[pc.t].status = "NONE" /\ ~tk[pc.t].cancel
           /\ TicketTypes
<1>1. pc.at # "idle" /\ pc.at \notin SliceSteps
    BY DEF AdoptSteps, SliceSteps
<1>2. /\ pc \in Threads /\ pc.t \in Tickets /\ eng = "plan" /\ pc.cur = NoStep
      /\ pc.todo \subseteq Bound(pc.t) /\ TicketTypes
    BY Zenon, <1>1 DEF ThreadInv, ThreadTypes, ControlInv
<1>3. TicketInv(pc.t)
    BY Zenon, <1>2 DEF ThreadInv
<1>4. "adopted" \in {"adopted", "live"}
    OBVIOUS
<1> QED
    BY Zenon, <1>2, <1>3, <1>4 DEF TicketInv, AdoptInv

LEMMA Unclaimed ==
    ASSUME TicketTypes, NEW t \in Tickets, NEW S \in SUBSET Lives, NEW p, DOMAIN p = S,
           \A l \in S : p[l] \in Slices, bind' = [bind EXCEPT ![t] = p], tk' = tk
    PROVE  TicketTypes' /\ Bound(t)' = S
<1>1. /\ bind' = [u \in Tickets |-> bind'[u]] /\ bind'[t] = p
      /\ \A u \in Tickets : u # t => bind'[u] = bind[u]
    BY Zenon, BindTo
<1>2. Bound(t)' = S
    BY Zenon, <1>1 DEF Bound
<1>3. ASSUME NEW u \in Tickets
      PROVE  Bound(u)' \subseteq Lives /\ \A l \in Bound(u)' : bind'[u][l] \in Slices
  <2>1. CASE u = t
      BY Zenon, <1>1, <1>2, <2>1
  <2>2. CASE u # t
      BY Zenon, <1>1, <2>2 DEF TicketTypes, Bound
  <2> QED
      BY <2>1, <2>2
<1> QED
    BY Zenon, <1>1, <1>2, <1>3 DEF TicketTypes

LEMMA FailRequestThread ==
    ASSUME ThreadInv, AdoptInv, NEW l \in Lives, FailRequest(l)
    PROVE  ThreadInv' /\ AdoptInv'
<1> DEFINE t == pc.t
           rest == Bound(t) \ {l}
           p == [m \in rest |-> bind[t][m]]
<1>1. /\ pc.at = "adopt" /\ tk' = tk /\ bind' = [bind EXCEPT ![t] = p]
      /\ (pc' = IdlePc /\ eng' = "between") \/ (pc' = pc /\ eng' = eng)
    BY Zenon DEF FailRequest, At
<1>2. pc.at \in AdoptSteps
    BY <1>1 DEF AdoptSteps
<1>3. /\ pc \in Threads /\ t \in Tickets /\ eng = "plan" /\ pc.cur = NoStep /\ TicketTypes
      /\ pc.todo = {} /\ pc.ignored = {} /\ pc.published = {} /\ tk[t] = NoTicket
    BY Zenon, <1>1, <1>2, AdoptFacts
<1>4. rest \in SUBSET Lives /\ DOMAIN p = rest /\ \A m \in rest : p[m] \in Slices
    BY <1>3 DEF TicketTypes
<1>5. TicketTypes'
  <2> HIDE DEF p, rest
  <2> QED
    BY Zenon, <1>1, <1>3, <1>4, Unclaimed
<1> HIDE DEF t, p, rest
<1>6. CASE pc' = IdlePc /\ eng' = "between"
  <2>1. ThreadInv'
      BY Zenon, <1>1, <1>3, <1>5, <1>6, NoTicketIs, ThreadRests DEF t
  <2>2. "idle" \notin AdoptSteps
      BY DEF AdoptSteps
  <2> QED
      BY Zenon, <1>6, <2>1, <2>2, IdlePcIs DEF AdoptInv
<1>7. CASE pc' = pc /\ eng' = eng
  <2>1. "adopt" # "claim" /\ {} \subseteq Bound(t)'
      OBVIOUS
  <2>2. ThreadInv'
      BY Zenon, <1>1, <1>2, <1>3, <1>5, <1>7, <2>1, ThreadAdopts DEF t
  <2> QED
      BY Zenon, <1>1, <1>7, <2>2 DEF AdoptInv
<1> QED
    BY Zenon, <1>1, <1>6, <1>7

LEMMA GiveUpThread ==
    ASSUME ThreadInv, AdoptInv, GiveUp
    PROVE  ThreadInv' /\ AdoptInv'
<1>1. /\ pc.at = "adopt" /\ tk' = tk /\ bind' = [bind EXCEPT ![pc.t] = NoPlan]
      /\ pc' = IdlePc /\ eng' = "between"
    BY Zenon DEF GiveUp, At
<1>2. pc.at \in AdoptSteps /\ "idle" \notin AdoptSteps
    BY <1>1 DEF AdoptSteps
<1>3. pc.t \in Tickets /\ TicketTypes /\ tk[pc.t] = NoTicket
    BY Zenon, <1>1, <1>2, AdoptFacts
<1>4. TicketTypes'
    BY Zenon, <1>1, <1>3, EmptyPlan DEF TicketTypes
<1>5. "absent" # "live" /\ "absent" # "done" /\ "absent" \in {"absent", "live", "done", "lost"}
      /\ "between" \in {"between", "settle", "plan", "failed"}
    OBVIOUS
<1>6. ThreadInv'
    BY Zenon, <1>1, <1>3, <1>4, <1>5, NoTicketIs, ThreadRests
<1> QED
    BY Zenon, <1>1, <1>2, <1>6, IdlePcIs DEF AdoptInv

LEMMA AdoptPreflightThread ==
    ASSUME ThreadInv, AdoptInv, AdoptPreflight
    PROVE  ThreadInv' /\ AdoptInv'
<1>1. pc.at = "adopt"
    BY Zenon DEF AdoptPreflight, At
<1>2. pc.at \in AdoptSteps /\ "idle" \notin AdoptSteps
    BY <1>1 DEF AdoptSteps
<1>3. /\ pc \in Threads /\ pc.t \in Tickets /\ eng = "plan" /\ pc.cur = NoStep /\ TicketTypes
      /\ pc.todo = {} /\ pc.ignored = {} /\ pc.published = {} /\ tk[pc.t] = NoTicket
    BY Zenon, <1>1, <1>2, AdoptFacts
<1>4. CASE /\ tk' = [tk EXCEPT ![pc.t].state = "adopted"]
           /\ pc' = [pc EXCEPT !.at = "claim", !.todo = Bound(pc.t)] /\ UNCHANGED <<bind, eng>>
  <2>1. /\ tk' \in [Tickets -> TicketRecords] /\ tk'[pc.t].state = "adopted"
        /\ tk'[pc.t].status = tk[pc.t].status /\ tk'[pc.t].cancel = tk[pc.t].cancel
        /\ \A u \in Tickets : u # pc.t => tk'[u] = tk[u]
    <3>1. "adopted" \in TicketStates
        BY DEF TicketStates
    <3> QED
        BY Zenon, <1>3, <1>4, <3>1, TicketTo
  <2>2. tk[pc.t].status = "NONE" /\ ~tk[pc.t].cancel
      BY <1>3 DEF NoTicket
  <2>3. TicketTypes'
      BY Zenon, <1>3, <1>4, <2>1, SameBind
  <2>4. /\ pc' \in Threads /\ pc'.at = "claim" /\ pc'.t = pc.t /\ pc'.todo = Bound(pc.t)
        /\ pc'.cur = pc.cur /\ pc'.ignored = pc.ignored /\ pc'.published = pc.published
    <3>1. "claim" \in Steps /\ Bound(pc.t) \in SUBSET Lives
        BY <1>3 DEF Steps, AdoptSteps, TicketTypes
    <3> QED
        BY Zenon, <1>3, <1>4, <3>1 DEF Threads
  <2>5. "claim" \in AdoptSteps /\ "claim" # "adopt" /\ Bound(pc.t) \subseteq Bound(pc.t)'
      BY <1>4 DEF AdoptSteps, Bound
  <2>6. ThreadInv'
      BY Zenon, <1>2, <1>3, <1>4, <2>1, <2>2, <2>3, <2>4, <2>5, ThreadAdopts
  <2> QED
      BY Zenon, <1>3, <2>4, <2>5, <2>6 DEF AdoptInv
<1>5. CASE /\ eng' = "failed" /\ bind' = [bind EXCEPT ![pc.t] = NoPlan] /\ pc' = IdlePc /\ tk' = tk
  <2>4. TicketTypes'
      BY Zenon, <1>3, <1>5, EmptyPlan DEF TicketTypes
  <2>5. "absent" # "live" /\ "absent" # "done" /\ "absent" \in {"absent", "live", "done", "lost"}
        /\ "failed" \in {"between", "settle", "plan", "failed"}
      OBVIOUS
  <2>6. ThreadInv'
      BY Zenon, <1>3, <1>5, <2>4, <2>5, NoTicketIs, ThreadRests
  <2> QED
      BY Zenon, <1>2, <1>5, <2>6, IdlePcIs DEF AdoptInv
<1> QED
    BY Zenon, <1>4, <1>5 DEF AdoptPreflight, FailEngine

LEMMA AdoptClaimThread ==
    ASSUME ThreadInv, AdoptInv, NEW l \in Lives, AdoptClaim(l)
    PROVE  ThreadInv' /\ AdoptInv'
<1>1. /\ pc.at = "claim" /\ l \in pc.todo /\ pc' = [pc EXCEPT !.todo = pc.todo \ {l}]
      /\ UNCHANGED <<tk, bind, eng>>
    BY Zenon DEF AdoptClaim
<1>2. pc.at \in AdoptSteps /\ "claim" # "adopt"
    BY <1>1 DEF AdoptSteps
<1>3. /\ pc \in Threads /\ pc.t \in Tickets /\ eng = "plan" /\ pc.cur = NoStep /\ TicketTypes
      /\ pc.todo \subseteq Bound(pc.t) /\ pc.ignored = {} /\ pc.published = {}
      /\ tk[pc.t].state = "adopted" /\ tk[pc.t].status = "NONE" /\ ~tk[pc.t].cancel
    BY Zenon, <1>1, <1>2, AdoptFacts
<1>4. /\ pc' \in Threads /\ pc'.at = pc.at /\ pc'.t = pc.t /\ pc'.todo = pc.todo \ {l}
      /\ pc'.cur = pc.cur /\ pc'.ignored = pc.ignored /\ pc'.published = pc.published
  <2> DEFINE d == pc.todo \ {l}
  <2>1. d \in SUBSET Lives
      BY <1>3 DEF Threads
  <2>2. pc' = [pc EXCEPT !.todo = d]
      BY <1>1
  <2> HIDE DEF d
  <2>3. /\ pc' \in Threads /\ pc'.at = pc.at /\ pc'.t = pc.t /\ pc'.todo = d
        /\ pc'.cur = pc.cur /\ pc'.ignored = pc.ignored /\ pc'.published = pc.published
      BY <1>3, <2>1, <2>2 DEF Threads
  <2> QED
      BY Zenon, <2>3 DEF d
<1>5. TicketTypes' /\ Bound(pc.t)' = Bound(pc.t)
    BY Zenon, <1>1, <1>3, <1>4 DEF TicketTypes, Bound
<1>6. pc'.todo \subseteq Bound(pc.t)'
    BY <1>3, <1>4, <1>5
<1>7. ThreadInv'
    BY Zenon, <1>1, <1>2, <1>3, <1>4, <1>5, <1>6, ThreadAdopts
<1> QED
    BY Zenon, <1>1, <1>2, <1>3, <1>4, <1>7 DEF AdoptInv

LEMMA LaunchThread ==
    ASSUME ThreadInv, AdoptInv, Launch
    PROVE  ThreadInv' /\ AdoptInv'
<1>1. pc.at = "claim" /\ pc' = IdlePc /\ UNCHANGED <<bind, eng>>
    BY Zenon DEF Launch
<1>2. pc.at \in AdoptSteps /\ "idle" \notin AdoptSteps
    BY <1>1 DEF AdoptSteps
<1>3. /\ pc.t \in Tickets /\ eng = "plan" /\ TicketTypes /\ tk[pc.t].status = "NONE"
    BY Zenon, <1>1, <1>2, AdoptFacts
<1>4. /\ tk' \in [Tickets -> TicketRecords]
      /\ \/ tk'[pc.t].state \in {"live", "lost"} /\ tk'[pc.t].status = "NONE"
         \/ tk'[pc.t].state = "done" /\ tk'[pc.t].status = "CANCELLED"
      /\ \A u \in Tickets : u # pc.t => tk'[u] = tk[u]
  <2>1. CASE \E x \in {"live", "lost"} : tk' = [tk EXCEPT ![pc.t].state = x]
    <3>1. PICK x \in {"live", "lost"} : tk' = [tk EXCEPT ![pc.t].state = x]
        BY Zenon, <2>1
    <3>2. x \in TicketStates
        BY DEF TicketStates
    <3> QED
        BY Zenon, <1>3, <3>1, <3>2, TicketTo
  <2>2. CASE tk' = [tk EXCEPT ![pc.t].state = "done", ![pc.t].status = "CANCELLED"]
    <3>1. "CANCELLED" \in {"SUCCEEDED", "FAILED", "CANCELLED"}
        OBVIOUS
    <3> QED
        BY Zenon, <1>3, <2>2, <3>1, DoneTo
  <2> QED
      BY Zenon, <2>1, <2>2 DEF Launch
<1>5. TicketTypes'
    BY Zenon, <1>1, <1>3, <1>4, SameBind
<1>6. /\ tk'[pc.t].state \in {"absent", "live", "done", "lost"} /\ tk'[pc.t].state # "absent"
      /\ tk'[pc.t].state = "live" => tk'[pc.t].status = "NONE"
      /\ tk'[pc.t].state = "done" => tk'[pc.t].status # "NONE"
      /\ "plan" \in {"between", "settle", "plan", "failed"}
    BY <1>4
<1>7. ThreadInv'
    BY Zenon, <1>1, <1>3, <1>4, <1>5, <1>6, ThreadRests
<1> QED
    BY Zenon, <1>1, <1>2, <1>7, IdlePcIs DEF AdoptInv

-----------------------------------------------------------------------------
(* Preparing and planning requests *)

\* prepare_request leaves a queued request with the counters of its sequence,
\* and with a new epoch whenever it changes anything.
LEMMA PreparedFields ==
    ASSUME RequestTypes, NEW l \in Lives, place[l] \in {"ring", "queue"}
    PROVE  LET r == life[l]
               n == Prepared(l)
           IN  /\ n \in Lifecycles /\ n.token = r.token /\ n.out = r.out /\ n.slice = r.slice
               /\ place[l] = "ring" => n = r
               /\ place[l] = "queue" => n.version = kv[l].version /\ n.computed = kv[l].tokens
               /\ n = r \/ (n.epoch = r.epoch + 1 /\ n.bound = n.epoch)
               /\ n.state = (IF place[l] = "queue" /\ r.state = "PREEMPTED" THEN "ADMITTED" ELSE r.state)
               /\ place[l] = "queue" /\ (r.version # kv[l].version \/ r.state = "PREEMPTED")
                    => n.epoch = r.epoch + 1
<1> DEFINE r == life[l]
           w == Transition(r, "WAITING")
           a == Transition(w, "ADMITTED")
           v == kv[l].version
           k == kv[l].tokens
<1>1. r \in Lifecycles /\ v \in Nat /\ k \in Nat
    BY DEF RequestTypes, Sequences
<1>2. /\ "WAITING" \in LifeStates /\ "ADMITTED" \in LifeStates /\ "queue" # "ring"
      /\ "WAITING" \notin {"PREEMPTED", "CANCELLED", "FAILED"}
      /\ "ADMITTED" \notin {"PREEMPTED", "CANCELLED", "FAILED"}
    BY DEF LifeStates
<1>3. Prepared(l) = IF place[l] = "ring" THEN r
                    ELSE IF r.state = "PREEMPTED" THEN Rebind(a, v, k)
                    ELSE IF v # r.version \/ k # r.computed THEN Rebind(r, v, k) ELSE r
    BY Zenon DEF Prepared
<1> HIDE DEF r
<1>4. w \in Lifecycles /\ w.token = r.token /\ w.out = r.out /\ w.slice = r.slice /\ w.epoch = r.epoch
    BY Zenon, <1>1, <1>2, TransitionFields
<1> HIDE DEF w
<1>5. /\ a \in Lifecycles /\ a.token = r.token /\ a.out = r.out /\ a.slice = r.slice
      /\ a.epoch = r.epoch /\ a.state = "ADMITTED"
  <2>1. /\ a \in Lifecycles /\ a.token = w.token /\ a.out = w.out /\ a.slice = w.slice
        /\ a.epoch = w.epoch /\ a.state = "ADMITTED"
      BY <1>2, <1>4, TransitionFields
  <2> QED
      BY Zenon, <1>4, <2>1
<1> HIDE DEF a, v, k
<1>6. CASE place[l] = "ring"
  <2>1. Prepared(l) = r
      BY Zenon, <1>3, <1>6
  <2> QED
      BY Zenon, <1>1, <1>2, <1>6, <2>1 DEF r
<1>7. CASE place[l] = "queue" /\ r.state = "PREEMPTED"
  <2> DEFINE n == Rebind(a, v, k)
  <2>1. Prepared(l) = n
      BY Zenon, <1>2, <1>3, <1>7
  <2>2. /\ n \in Lifecycles /\ n.state = a.state /\ n.token = a.token /\ n.out = a.out
        /\ n.slice = a.slice /\ n.version = v /\ n.computed = k /\ n.epoch = a.epoch + 1
        /\ n.bound = a.epoch + 1
    <3>1. a \in Lifecycles /\ v \in Nat /\ k \in Nat
        BY Zenon, <1>1, <1>5
    <3> QED
        BY <3>1, RebindFields
  <2> HIDE DEF n
  <2> QED
      BY Zenon, <1>2, <1>5, <1>7, <2>1, <2>2 DEF r, v, k
<1>8. CASE place[l] = "queue" /\ r.state # "PREEMPTED" /\ (v # r.version \/ k # r.computed)
  <2> DEFINE n == Rebind(r, v, k)
  <2>1. Prepared(l) = n
      BY Zenon, <1>2, <1>3, <1>8
  <2>2. /\ n \in Lifecycles /\ n.state = r.state /\ n.token = r.token /\ n.out = r.out
        /\ n.slice = r.slice /\ n.version = v /\ n.computed = k /\ n.epoch = r.epoch + 1
        /\ n.bound = r.epoch + 1
      BY <1>1, RebindFields
  <2> HIDE DEF n
  <2> QED
      BY Zenon, <1>2, <1>8, <2>1, <2>2 DEF r, v, k
<1>9. CASE place[l] = "queue" /\ r.state # "PREEMPTED" /\ ~(v # r.version \/ k # r.computed)
  <2>1. Prepared(l) = r
      BY Zenon, <1>2, <1>3, <1>9
  <2> QED
      BY Zenon, <1>1, <1>2, <1>9, <2>1 DEF r, v, k
<1> QED
    BY Zenon, <1>6, <1>7, <1>8, <1>9

\* The slices schedule() may cut from a snapshot.
LEMMA SlicesOfFields ==
    ASSUME NEW r \in Lifecycles, NEW t \in Tickets, NEW ring \in BOOLEAN, NEW s \in SlicesOf(r, t, ring)
    PROVE  /\ s \in Slices /\ s.step = t /\ s.epoch = r.epoch /\ s.version = r.version
           /\ s.start = r.computed
           /\ ring => /\ s.phase = "DECODE" /\ s.count = 1 /\ s.sample = (r.computed + 1 = Known(r))
                      /\ s.drafts > 0 => s.sample
           /\ ~ring => /\ s.phase = "PREFILL" /\ s.drafts = 0 /\ s.count >= 1
                       /\ r.computed + s.count <= Prompt
                       /\ s.sample = (r.computed + s.count = Prompt /\ Prompt = Known(r))
<1> DEFINE slice(count, phase, sample, drafts) ==
               [step |-> t, epoch |-> r.epoch, version |-> r.version,
                start |-> r.computed, count |-> count, phase |-> phase,
                sample |-> sample, drafts |-> drafts]
           atEnd == r.computed + 1 = Known(r)
<1>1. r.epoch \in Nat /\ r.version \in Nat /\ r.computed \in Nat
    BY DEF Lifecycles
<1>2. ASSUME NEW c \in Nat, NEW p \in {"PREFILL", "DECODE"}, NEW x \in BOOLEAN, NEW d \in Nat,
             s = slice(c, p, x, d)
      PROVE  /\ s \in Slices /\ s.step = t /\ s.epoch = r.epoch /\ s.version = r.version
             /\ s.start = r.computed /\ s.count = c /\ s.phase = p /\ s.sample = x /\ s.drafts = d
    BY <1>1, <1>2 DEF Slices
<1>3. CASE ring
  <2>1. PICK k \in 0 .. IF atEnd THEN MaxDrafts ELSE 0 : s = slice(1, "DECODE", atEnd, k)
      BY <1>3 DEF SlicesOf
  <2>2. k \in Nat /\ (k > 0 => atEnd) /\ atEnd \in BOOLEAN
      BY Names
  <2> HIDE DEF slice, atEnd
  <2>3. /\ s \in Slices /\ s.step = t /\ s.epoch = r.epoch /\ s.version = r.version
        /\ s.start = r.computed /\ s.count = 1 /\ s.phase = "DECODE" /\ s.sample = atEnd /\ s.drafts = k
      BY <1>2, <2>1, <2>2
  <2> QED
      BY Zenon, <1>3, <2>2, <2>3 DEF atEnd
<1>4. CASE ~ring
  <2> DEFINE x(n) == r.computed + n = Prompt /\ Prompt = Known(r)
  <2>1. PICK n \in 1 .. Prompt - r.computed : s = slice(n, "PREFILL", x(n), 0)
      BY <1>4 DEF SlicesOf
  <2>2. n \in Nat /\ n >= 1 /\ r.computed + n <= Prompt /\ x(n) \in BOOLEAN
      BY <1>1, Names
  <2> HIDE DEF slice, x
  <2>3. /\ s \in Slices /\ s.step = t /\ s.epoch = r.epoch /\ s.version = r.version
        /\ s.start = r.computed /\ s.count = n /\ s.phase = "PREFILL" /\ s.sample = x(n) /\ s.drafts = 0
      BY <1>2, <2>1, <2>2
  <2> QED
      BY Zenon, <1>4, <2>2, <2>3 DEF x
<1> QED
    BY <1>3, <1>4

\* The lifecycles as _schedule leaves them.
Ready(S) == [l \in Lives |-> IF l \in S THEN Prepared(l) ELSE life[l]]

\* A plan: a slice of its ticket for each request it holds, cut from what it read.
Plan(t, S, R, p) ==
    /\ DOMAIN p = S
    /\ \A l \in S : /\ p[l] \in SlicesOf(R[l], t, place[l] = "ring") /\ p[l] \in Slices
                    /\ p[l].step = t

LEMMA ReadyIs ==
    ASSUME RequestTypes, SchedulerTypes, NEW S \in SUBSET Lives, \A l \in S : Eligible(l)
    PROVE  /\ Ready(S) \in [Lives -> Lifecycles]
           /\ \A l \in Lives : /\ l \in S => Ready(S)[l] = Prepared(l)
                               /\ l \notin S => Ready(S)[l] = life[l]
                               /\ Ready(S)[l] \in Lifecycles
                               /\ Ready(S)[l].slice = life[l].slice
                               /\ Ready(S)[l].token = life[l].token
                               /\ Ready(S)[l].out = life[l].out
<1>1. \A l \in S : place[l] \in {"ring", "queue"}
    BY DEF Eligible
<1>2. \A l \in Lives : Ready(S)[l] = IF l \in S THEN Prepared(l) ELSE life[l]
    BY Zenon DEF Ready
<1>3. ASSUME NEW l \in Lives
      PROVE  /\ l \in S => Ready(S)[l] = Prepared(l)
             /\ l \notin S => Ready(S)[l] = life[l]
             /\ Ready(S)[l] \in Lifecycles /\ Ready(S)[l].slice = life[l].slice
             /\ Ready(S)[l].token = life[l].token /\ Ready(S)[l].out = life[l].out
  <2>1. CASE l \in S
      BY Zenon, <1>1, <1>2, <2>1, PreparedFields
  <2>2. CASE l \notin S
      BY Zenon, <1>2, <2>2 DEF RequestTypes
  <2> QED
      BY Zenon, <2>1, <2>2
<1>4. Ready(S) \in [Lives -> Lifecycles]
    BY <1>3 DEF Ready
<1> QED
    BY Zenon, <1>3, <1>4

LEMMA SelectFacts ==
    ASSUME RequestTypes, SchedulerTypes, NEW t \in Tickets, NEW S \in SUBSET Lives,
           NEW extra \in SUBSET Lives, Select(t, S, extra)
    PROVE  /\ pc.at = "idle" /\ eng = "plan" /\ tk[t].state = "absent"
           /\ UNCHANGED <<reg, kv, place, pend, aborting, stops, tk, preempts, IdOf>>
           /\ \A l \in S \cup extra : Eligible(l)
           /\ \A l \in extra : place[l] = "queue" /\ Prepared(l) # life[l]
           /\ \/ /\ life' = Ready(S \cup extra) /\ \A l \in S : HasSnapshot(life'[l])
                 /\ \E p : bind' = [bind EXCEPT ![t] = p] /\ Plan(t, S, life', p)
                 /\ \/ S = {} /\ pc' = IdlePc /\ eng' = "between"
                    \/ S # {} /\ pc' = [IdlePc EXCEPT !.at = "adopt", !.t = t] /\ eng' = eng
                 /\ why' = why
              \/ eng' = "failed" /\ why' = why \cup {"snapshot"} /\ UNCHANGED <<life, bind, pc>>
<1> DEFINE R == Ready(S \cup extra)
<1>1. /\ pc.at = "idle" /\ eng = "plan" /\ tk[t].state = "absent"
      /\ UNCHANGED <<reg, kv, place, pend, aborting, stops, tk, preempts, IdOf>>
      /\ \A l \in S \cup extra : Eligible(l)
      /\ \A l \in extra : place[l] = "queue" /\ Prepared(l) # life[l]
    BY Zenon DEF Select, At, schedVars
<1>2. \A l \in Lives : R[l] \in Lifecycles
  <2>1. S \cup extra \in SUBSET Lives
      OBVIOUS
  <2> QED
      BY Zenon, <1>1, <2>1, ReadyIs
<1>3. IF \A l \in S : HasSnapshot(R[l])
      THEN /\ \E plan \in [S -> UNION {SlicesOf(R[l], t, place[l] = "ring") : l \in S}] :
                /\ \A l \in S : plan[l] \in SlicesOf(R[l], t, place[l] = "ring")
                /\ bind' = [bind EXCEPT ![t] = plan]
           /\ life' = R
           /\ IF S = {} THEN pc' = IdlePc /\ eng' = "between"
              ELSE pc' = [IdlePc EXCEPT !.at = "adopt", !.t = t] /\ UNCHANGED eng
           /\ UNCHANGED why
      ELSE FailEngine("snapshot") /\ UNCHANGED <<life, bind, pc>>
    BY Zenon DEF Select, Ready
<1> HIDE DEF R
<1>4. CASE \A l \in S : HasSnapshot(R[l])
  <2>1. PICK plan \in [S -> UNION {SlicesOf(R[l], t, place[l] = "ring") : l \in S}] :
          /\ \A l \in S : plan[l] \in SlicesOf(R[l], t, place[l] = "ring")
          /\ bind' = [bind EXCEPT ![t] = plan]
      BY Zenon, <1>3, <1>4
  <2>2. DOMAIN plan = S
      OBVIOUS
  <2>3. ASSUME NEW l \in S PROVE plan[l] \in Slices /\ plan[l].step = t
    <3> DEFINE r == R[l]
               ring == place[l] = "ring"
               s == plan[l]
    <3>1. r \in Lifecycles /\ ring \in BOOLEAN /\ s \in SlicesOf(r, t, ring)
        BY <1>2, <2>1
    <3> HIDE DEF r, ring, s
    <3>2. s \in Slices /\ s.step = t
        BY <3>1, SlicesOfFields
    <3> QED
        BY Zenon, <3>2 DEF s
  <2>4. Plan(t, S, R, plan)
      BY Zenon, <2>1, <2>2, <2>3 DEF Plan
  <2>5. life' = R /\ why' = why
        /\ \/ S = {} /\ pc' = IdlePc /\ eng' = "between"
           \/ S # {} /\ pc' = [IdlePc EXCEPT !.at = "adopt", !.t = t] /\ eng' = eng
      BY Zenon, <1>3, <1>4
  <2> QED
      BY Zenon, <1>1, <1>4, <2>1, <2>4, <2>5 DEF R
<1>5. CASE ~\A l \in S : HasSnapshot(R[l])
    BY Zenon, <1>1, <1>3, <1>5 DEF FailEngine
<1> QED
    BY Zenon, <1>4, <1>5

LEMMA SelectThread ==
    ASSUME RequestTypes, SchedulerTypes, ThreadInv, NEW t \in Tickets, NEW S \in SUBSET Lives,
           NEW extra \in SUBSET Lives, Select(t, S, extra)
    PROVE  ThreadInv' /\ AdoptInv'
<1>0. "idle" \notin AdoptSteps /\ "adopt" \in AdoptSteps /\ "adopt" # "claim" /\ "adopt" \in Steps
    BY DEF AdoptSteps, Steps
<1>1. pc.at = "idle" /\ eng = "plan" /\ tk[t] = NoTicket /\ tk' = tk /\ TicketTypes
  <2>1. pc.at = "idle" /\ eng = "plan" /\ tk[t].state = "absent" /\ tk' = tk
      BY Zenon, SelectFacts
  <2> QED
      BY Zenon, <2>1 DEF ThreadInv, TicketInv
<1>2. CASE /\ \E p : bind' = [bind EXCEPT ![t] = p] /\ Plan(t, S, life', p)
           /\ \/ S = {} /\ pc' = IdlePc /\ eng' = "between"
              \/ S # {} /\ pc' = [IdlePc EXCEPT !.at = "adopt", !.t = t] /\ eng' = eng
  <2>1. PICK p : bind' = [bind EXCEPT ![t] = p] /\ Plan(t, S, life', p)
      BY Zenon, <1>2
  <2>2. DOMAIN p = S /\ \A l \in S : p[l] \in Slices
      BY Zenon, <2>1 DEF Plan
  <2>3. TicketTypes' /\ Bound(t)' = S
      BY Zenon, <1>1, <2>1, <2>2, Unclaimed
  <2>4. CASE pc' = IdlePc /\ eng' = "between"
    <3>1. /\ "absent" \in {"absent", "live", "done", "lost"} /\ "absent" # "live" /\ "absent" # "done"
          /\ "between" \in {"between", "settle", "plan", "failed"}
        OBVIOUS
    <3>2. ThreadInv'
        BY Zenon, <1>1, <2>3, <2>4, <3>1, NoTicketIs, ThreadRests
    <3> QED
        BY Zenon, <1>0, <2>4, <3>2, IdlePcIs DEF AdoptInv
  <2>5. CASE pc' = [IdlePc EXCEPT !.at = "adopt", !.t = t] /\ eng' = eng
    <3>1. /\ pc' \in Threads /\ pc'.at = "adopt" /\ pc'.t = t /\ pc'.todo = {} /\ pc'.cur = NoStep
          /\ pc'.ignored = {} /\ pc'.published = {}
        BY Zenon, <1>0, <2>5, IdlePcIs DEF Threads
    <3>2. {} \subseteq Bound(t)'
        OBVIOUS
    <3>3. ThreadInv'
        BY Zenon, <1>0, <1>1, <2>3, <2>5, <3>1, <3>2, ThreadAdopts
    <3> QED
        BY Zenon, <1>0, <1>1, <3>1, <3>3, NoTicketIs DEF AdoptInv
  <2> QED
      BY Zenon, <1>2, <2>4, <2>5
<1>3. CASE eng' = "failed" /\ UNCHANGED <<life, bind, pc>>
  <2>1. "failed" \in {"between", "settle", "plan", "failed"}
      OBVIOUS
  <2>2. ThreadInv'
      BY Zenon, <1>1, <1>3, <2>1, QuietThread
  <2> QED
      BY Zenon, <1>0, <1>1, <1>3, <2>2 DEF AdoptInv
<1> QED
    BY Zenon, <1>2, <1>3, SelectFacts

-----------------------------------------------------------------------------
(* What becomes of the requests and of the scheduler's books *)

Types == RequestTypes /\ SchedulerTypes

LEMMA SameTypes ==
    ASSUME Types, UNCHANGED <<requestVars, schedVars, IdOf>>
    PROVE  Types'
BY Zenon DEF Types, RequestTypes, SchedulerTypes, requestVars, schedVars

\* Only the lifecycles move, and the registry with them.
LEMMA LifeTypes ==
    ASSUME Types, life' \in [Lives -> Lifecycles], reg' \in [Lives -> RegStates],
           \A l \in Lives : reg'[l] # "unborn" => reg[l] # "unborn",
           UNCHANGED <<kv, schedVars, IdOf>>
    PROVE  Types'
BY Zenon DEF Types, RequestTypes, SchedulerTypes, schedVars, RegStates

\* Requests leave the scheduler with a report and release their KV.
LEMMA BookTypes ==
    ASSUME Types, UNCHANGED <<reg, IdOf>>, life' \in [Lives -> Lifecycles],
           kv' \in [Lives -> Sequences], place' \in [Lives -> {"none", "queue", "ring"}],
           pend' \in [Ids -> Reports], aborting' \in SUBSET Lives, stops' \in SUBSET Lives
    PROVE  Types'
BY Zenon DEF Types, RequestTypes, SchedulerTypes

LEMMA RetiredTypes ==
    ASSUME Types, NEW ls, life' \in [Lives -> Lifecycles], reg' = Retired(reg, ls, life'),
           UNCHANGED <<kv, schedVars, IdOf>>
    PROVE  Types'
<1>1. /\ Retired(reg, ls, life') \in [Lives -> RegStates]
      /\ \A m \in Lives : Retired(reg, ls, life')[m] =
            IF m \in ls /\ reg[m] = "active" /\ IsTerminal(life'[m]) THEN "finished" ELSE reg[m]
    BY Zenon, RetiredIs DEF Types
<1>2. "active" # "unborn"
    OBVIOUS
<1>3. ASSUME NEW l \in Lives, reg'[l] # "unborn" PROVE reg[l] # "unborn"
    BY Zenon, <1>1, <1>2, <1>3
<1> QED
    BY Zenon, <1>1, <1>3, LifeTypes

\* _discard of one slice, its request retired when it ended.
LEMMA DiscardIs ==
    ASSUME Types, TicketTypes, pc.t \in Tickets, NEW l \in Bound(pc.t), NEW cancel \in BOOLEAN,
           NEW fail \in BOOLEAN, DiscardInto(l, cancel, fail)
    PROVE  /\ l \in Lives /\ bind[pc.t][l] \in Slices
           /\ life' \in [Lives -> Lifecycles]
           /\ life'[l] = Discard(life[l], bind[pc.t][l], cancel, fail)
           /\ \A m \in Lives : m # l => life'[m] = life[m]
           /\ reg' = Retired(reg, {l}, life')
<1>1. l \in Lives /\ bind[pc.t][l] \in Slices /\ life[l] \in Lifecycles
    BY Zenon DEF TicketTypes, Types, RequestTypes
<1>2. Discard(life[l], bind[pc.t][l], cancel, fail) \in Lifecycles
    BY Zenon, <1>1, DiscardFields
<1> QED
    BY Zenon, <1>1, <1>2, LifeTo DEF DiscardInto, Types

LEMMA DiscardTypes ==
    ASSUME Types, TicketTypes, pc.t \in Tickets, NEW l \in Bound(pc.t), NEW cancel \in BOOLEAN,
           NEW fail \in BOOLEAN, DiscardInto(l, cancel, fail), UNCHANGED <<kv, schedVars, IdOf>>
    PROVE  Types'
BY Zenon, DiscardIs, RetiredTypes

LEMMA CreateTypes ==
    ASSUME Types, NEW l \in Lives, NEW id \in Ids, Create(l, id)
    PROVE  Types'
<1>1. /\ life' = [life EXCEPT ![l] = Queued(NewLife)] /\ reg' = [reg EXCEPT ![l] = "active"]
      /\ kv' = [kv EXCEPT ![l].live = TRUE] /\ place' = [place EXCEPT ![l] = "queue"]
      /\ pend' = [pend EXCEPT ![id] = [life |-> l, outcome |-> "ADMITTED", epoch |-> NewLife.epoch]]
      /\ IdOf' = [IdOf EXCEPT ![l] = id] /\ UNCHANGED <<aborting, stops>>
    BY Zenon DEF Create
<1>2. life' \in [Lives -> Lifecycles]
    BY Zenon, <1>1, QueuedFields, LifeTo DEF Types
<1>3. reg' \in [Lives -> RegStates] /\ \A m \in Lives : m # l => reg'[m] = reg[m]
    BY <1>1 DEF Types, RequestTypes, RegStates
<1>4. kv' \in [Lives -> Sequences]
    BY Zenon, <1>1 DEF Types, RequestTypes, Sequences
<1>5. place' \in [Lives -> {"none", "queue", "ring"}]
    BY <1>1 DEF Types, SchedulerTypes
<1>6. pend' \in [Ids -> Reports]
  <2>1. NewLife.epoch = 1 /\ "ADMITTED" \in Outcomes
      BY DEF NewLife, Outcomes
  <2>2. [life |-> l, outcome |-> "ADMITTED", epoch |-> 1] \in Reports
      BY <2>1 DEF Reports
  <2>3. pend \in [Ids -> Reports]
      BY Zenon DEF Types, SchedulerTypes
  <2> QED
      BY <1>1, <2>1, <2>2, <2>3
<1>7. /\ IdOf' \in [Lives -> Ids \cup {NoStep}] /\ IdOf'[l] = id
      /\ \A m \in Lives : m # l => IdOf'[m] = IdOf[m]
    BY <1>1 DEF Types, RequestTypes
<1>8. ASSUME NEW m \in Lives, reg'[m] # "unborn" PROVE IdOf'[m] \in Ids
    BY Zenon, <1>3, <1>7, <1>8 DEF Types, RequestTypes
<1> QED
    BY Zenon, <1>1, <1>2, <1>3, <1>4, <1>5, <1>6, <1>7, <1>8
    DEF Types, RequestTypes, SchedulerTypes, RegStates

LEMMA ForgetTypes ==
    ASSUME Types, NEW l \in Lives, Forget(l)
    PROVE  Types'
<1>1. reg[l] = "finished" /\ reg' = [reg EXCEPT ![l] = "forgotten"]
      /\ UNCHANGED <<life, kv, schedVars, IdOf>>
    BY Zenon DEF Forget
<1>2. reg' \in [Lives -> RegStates] /\ \A m \in Lives : reg'[m] # "unborn" => reg[m] # "unborn"
    BY <1>1 DEF Types, RequestTypes, RegStates
<1>3. life' \in [Lives -> Lifecycles]
    BY Zenon, <1>1 DEF Types, RequestTypes
<1> QED
    BY Zenon, <1>1, <1>2, <1>3, LifeTypes

LEMMA CancelTokenTypes ==
    ASSUME Types, NEW l \in Lives, CancelToken(l)
    PROVE  Types'
<1>1. life' = [life EXCEPT ![l].token = TRUE] /\ UNCHANGED <<reg, kv, schedVars, IdOf>>
    BY Zenon DEF CancelToken
<1>2. life' \in [Lives -> Lifecycles] /\ reg' \in [Lives -> RegStates]
    BY Zenon, <1>1, TokenTo DEF Types, RequestTypes, RegStates
<1> QED
    BY Zenon, <1>1, <1>2, LifeTypes

LEMMA AbortTypes ==
    ASSUME Types, NEW l \in Lives, Abort(l)
    PROVE  Types'
<1>1. life' = [life EXCEPT ![l].token = TRUE] /\ UNCHANGED <<reg, stops, IdOf>>
    BY Zenon DEF Abort
<1>2. life' \in [Lives -> Lifecycles] /\ stops' \in SUBSET Lives
    BY Zenon, <1>1, TokenTo DEF Types, SchedulerTypes
<1>3. CASE aborting' = aborting \cup {l} /\ UNCHANGED <<kv, place, pend>>
  <2>1. aborting' \in SUBSET Lives
      BY <1>3 DEF Types, SchedulerTypes
  <2> QED
      BY Zenon, <1>1, <1>2, <1>3, <2>1, BookTypes DEF Types, RequestTypes, SchedulerTypes
<1>4. CASE pend' = Queue({l}, "ABORTED") /\ place' = Drop({l}) /\ kv' = Release({l})
           /\ UNCHANGED aborting
  <2>1. {l} \in SUBSET Lives /\ "ABORTED" \in Outcomes
      BY DEF Outcomes
  <2> QED
      BY Zenon, <1>1, <1>2, <1>4, <2>1, BookTypes, QueueIs, DropIs, ReleaseIs DEF Types, SchedulerTypes
<1> QED
    BY Zenon, <1>3, <1>4 DEF Abort

LEMMA FinishTypes ==
    ASSUME Types, NEW l \in Lives, Finish(l)
    PROVE  Types'
<1>1. /\ pend' = Queue({l}, "FINISHED") /\ place' = Drop({l}) /\ kv' = Release({l})
      /\ aborting' = aborting \ {l} /\ stops' = stops \ {l} /\ UNCHANGED <<life, reg, IdOf>>
    BY Zenon DEF Finish
<1>2. {l} \in SUBSET Lives /\ "FINISHED" \in Outcomes
    BY DEF Outcomes
<1>3. aborting' \in SUBSET Lives /\ stops' \in SUBSET Lives
    BY <1>1 DEF Types, SchedulerTypes
<1>4. life' \in [Lives -> Lifecycles]
    BY Zenon, <1>1 DEF Types, RequestTypes
<1> QED
    BY Zenon, <1>1, <1>2, <1>3, <1>4, BookTypes, QueueIs, DropIs, ReleaseIs DEF Types

LEMMA FailRequestTypes ==
    ASSUME Types, NEW l \in Lives, FailRequest(l)
    PROVE  Types'
<1>1. /\ pend' = Queue({l}, "FAILED") /\ place' = Drop({l}) /\ kv' = Release({l})
      /\ aborting' = aborting \ {l} /\ UNCHANGED <<life, reg, stops, IdOf>>
    BY Zenon DEF FailRequest
<1>2. {l} \in SUBSET Lives /\ "FAILED" \in Outcomes
    BY DEF Outcomes
<1>3. aborting' \in SUBSET Lives /\ stops' \in SUBSET Lives
    BY <1>1 DEF Types, SchedulerTypes
<1>4. life' \in [Lives -> Lifecycles]
    BY Zenon, <1>1 DEF Types, RequestTypes
<1> QED
    BY Zenon, <1>1, <1>2, <1>3, <1>4, BookTypes, QueueIs, DropIs, ReleaseIs DEF Types

LEMMA PreemptTypes ==
    ASSUME Types, NEW v \in Lives, Preempt(v)
    PROVE  Types'
<1>1. /\ kv' = [kv EXCEPT ![v].tokens = 0, ![v].version = @ + 1]
      /\ pend' = Queue({v}, "PREEMPTED") /\ place' = [place EXCEPT ![v] = "queue"]
      /\ UNCHANGED <<life, reg, aborting, stops, IdOf>>
    BY Zenon DEF Preempt
<1>2. {v} \in SUBSET Lives /\ "PREEMPTED" \in Outcomes
    BY DEF Outcomes
<1>3. kv' \in [Lives -> Sequences]
    BY <1>1 DEF Types, RequestTypes, Sequences
<1>4. place' \in [Lives -> {"none", "queue", "ring"}]
    BY <1>1 DEF Types, SchedulerTypes
<1>5. life' \in [Lives -> Lifecycles] /\ aborting' \in SUBSET Lives /\ stops' \in SUBSET Lives
    BY Zenon, <1>1 DEF Types, RequestTypes, SchedulerTypes
<1> QED
    BY Zenon, <1>1, <1>2, <1>3, <1>4, <1>5, BookTypes, QueueIs DEF Types

LEMMA ReportedTypes ==
    ASSUME NEW r \in Lifecycles, NEW o \in Outcomes
    PROVE  Reported(r, o) \in Lifecycles /\ Reported(r, o).slice = r.slice /\ Reported(r, o).out = r.out
<1>1. CASE o = "ABORTED"
  <2> DEFINE u == [r EXCEPT !.token = TRUE]
  <2>1. u \in Lifecycles /\ u.slice = r.slice /\ u.out = r.out
      BY Zenon, SetToken DEF OnlyToken
  <2>2. Reported(r, o) = OnCancelled(u)
      BY <1>1 DEF Reported
  <2> HIDE DEF u
  <2>3. "CANCELLED" \in LifeStates
      BY DEF LifeStates
  <2>4. LET n == Transition(u, "CANCELLED") IN n \in Lifecycles /\ n.slice = u.slice /\ n.out = u.out
      BY Zenon, <2>1, <2>3, TransitionFields
  <2> QED
      BY Zenon, <2>1, <2>2, <2>4 DEF OnCancelled
<1>2. CASE o = "FAILED"
  <2>1. Reported(r, o) = OnFailed(r) /\ "FAILED" \in LifeStates
      BY <1>2 DEF Reported, LifeStates
  <2>2. LET n == Transition(r, "FAILED") IN n \in Lifecycles /\ n.slice = r.slice /\ n.out = r.out
      BY Zenon, <2>1, TransitionFields
  <2> QED
      BY Zenon, <2>1, <2>2 DEF OnFailed
<1>3. CASE o \in {"ADMITTED", "PREEMPTED", "FINISHED"}
  <2>1. Reported(r, o) = Transition(r, o)
      BY <1>3 DEF Reported, OutcomeState
  <2>2. o \in LifeStates
      BY <1>3 DEF LifeStates
  <2>3. LET n == Transition(r, o) IN n \in Lifecycles /\ n.slice = r.slice /\ n.out = r.out
      BY Zenon, <2>2, TransitionFields
  <2> QED
      BY Zenon, <2>1, <2>3
<1> QED
    BY <1>1, <1>2, <1>3 DEF Outcomes

\* The requests a flush reports to.
Hit == {l \in Lives : Applies(l, pend[IdOf[l]])}
Flushed == [l \in Lives |-> IF l \in Hit THEN Reported(life[l], pend[IdOf[l]].outcome) ELSE life[l]]

LEMMA HitReports ==
    ASSUME Types, NEW l \in Hit
    PROVE  l \in Lives /\ reg[l] = "active" /\ IdOf[l] \in Ids /\ pend[IdOf[l]].outcome \in Outcomes
           /\ life[l] \in Lifecycles
<1>1. l \in Lives /\ reg[l] = "active" /\ pend[IdOf[l]] # NoReport /\ life[l] \in Lifecycles
    BY DEF Hit, Applies, Types, RequestTypes
<1>2. IdOf[l] \in Ids
    BY <1>1 DEF Types, RequestTypes
<1>3. pend[IdOf[l]] \in Reports
    BY <1>2 DEF Types, SchedulerTypes
<1>4. pend[IdOf[l]].outcome \in Outcomes
    BY <1>1, <1>3 DEF Reports
<1> QED
    BY <1>1, <1>2, <1>4

LEMMA FlushedIs ==
    ASSUME Types
    PROVE  /\ Flushed \in [Lives -> Lifecycles]
           /\ \A l \in Lives : Flushed[l].slice = life[l].slice /\ Flushed[l].out = life[l].out
           /\ \A l \in Lives : l \notin Hit => Flushed[l] = life[l]
<1>1. ASSUME NEW l \in Lives
      PROVE  /\ Flushed[l] \in Lifecycles /\ Flushed[l].slice = life[l].slice
             /\ Flushed[l].out = life[l].out /\ (l \notin Hit => Flushed[l] = life[l])
  <2>1. CASE l \in Hit
    <3>1. Flushed[l] = Reported(life[l], pend[IdOf[l]].outcome)
        BY Zenon, <2>1 DEF Flushed
    <3> DEFINE r == life[l]
               o == pend[IdOf[l]].outcome
    <3>2. r \in Lifecycles /\ o \in Outcomes
        BY Zenon, <2>1, HitReports
    <3> HIDE DEF r, o
    <3>3. Reported(r, o) \in Lifecycles /\ Reported(r, o).slice = r.slice /\ Reported(r, o).out = r.out
        BY Zenon, <3>2, ReportedTypes
    <3> QED
        BY Zenon, <2>1, <3>1, <3>3 DEF r, o
  <2>2. CASE l \notin Hit
      BY Zenon, <2>2 DEF Flushed, Types, RequestTypes
  <2> QED
      BY <2>1, <2>2
<1>2. Flushed \in [Lives -> Lifecycles]
    BY <1>1 DEF Flushed
<1> QED
    BY Zenon, <1>1, <1>2

LEMMA FlushFacts ==
    ASSUME Flush
    PROVE  /\ pc.at = "idle" /\ eng = "settle"
           /\ pend' = [i \in Ids |-> NoReport] /\ stops' = {}
           /\ UNCHANGED <<kv, place, aborting, tk, bind, pc, preempts, IdOf>>
           /\ \/ life' = Flushed /\ reg' = Retired(reg, Hit, life') /\ eng' = "plan" /\ why' = why
              \/ UNCHANGED <<life, reg>> /\ eng' = "failed" /\ why' = why \cup {"report"}
BY Zenon DEF Flush, At, Hit, Flushed, FailEngine

LEMMA FlushTypes ==
    ASSUME Types, Flush
    PROVE  Types'
<1>1. /\ pend' = [i \in Ids |-> NoReport] /\ stops' = {} /\ UNCHANGED <<kv, place, aborting, IdOf>>
      /\ \/ life' = Flushed /\ reg' = Retired(reg, Hit, life')
         \/ UNCHANGED <<life, reg>>
    BY Zenon, FlushFacts
<1>2. pend' \in [Ids -> Reports] /\ stops' \in SUBSET Lives
    BY <1>1 DEF Reports
<1>3. SchedulerTypes'
    BY Zenon, <1>1, <1>2 DEF Types, SchedulerTypes
<1>4. /\ life' \in [Lives -> Lifecycles] /\ reg' \in [Lives -> RegStates]
      /\ \A m \in Lives : reg'[m] # "unborn" => reg[m] # "unborn"
  <2>1. CASE life' = Flushed /\ reg' = Retired(reg, Hit, life')
    <3>1. /\ Retired(reg, Hit, life') \in [Lives -> RegStates]
          /\ \A m \in Lives : Retired(reg, Hit, life')[m] =
                IF m \in Hit /\ reg[m] = "active" /\ IsTerminal(life'[m]) THEN "finished" ELSE reg[m]
        BY Zenon, RetiredIs DEF Types
    <3>2. "active" # "unborn"
        OBVIOUS
    <3>3. ASSUME NEW m \in Lives, reg'[m] # "unborn" PROVE reg[m] # "unborn"
        BY Zenon, <2>1, <3>1, <3>2, <3>3
    <3> QED
        BY Zenon, <2>1, <3>1, <3>3, FlushedIs
  <2>2. CASE UNCHANGED <<life, reg>>
      BY Zenon, <2>2 DEF Types, RequestTypes, RegStates
  <2> QED
      BY Zenon, <1>1, <2>1, <2>2
<1> QED
    BY Zenon, <1>1, <1>3, <1>4 DEF Types, RequestTypes, RegStates

LEMMA SelectTypes ==
    ASSUME Types, NEW t \in Tickets, NEW S \in SUBSET Lives,
           NEW extra \in SUBSET Lives, Select(t, S, extra)
    PROVE  Types'
<1>0. S \cup extra \in SUBSET Lives
    OBVIOUS
<1>1. UNCHANGED <<reg, kv, place, pend, aborting, stops, IdOf>>
    BY Zenon DEF Select, schedVars
<1>2. \A l \in S \cup extra : Eligible(l)
    BY Zenon DEF Select
<1>3. life' = Ready(S \cup extra) \/ life' = life
    BY Zenon DEF Select, Ready
<1>4. life' \in [Lives -> Lifecycles]
    BY Zenon, <1>0, <1>2, <1>3, ReadyIs DEF Types, RequestTypes
<1> QED
    BY Zenon, <1>1, <1>4, BookTypes DEF Types, RequestTypes, SchedulerTypes

LEMMA AdoptClaimTypes ==
    ASSUME Types, ThreadInv, NEW l \in Lives, AdoptClaim(l)
    PROVE  Types'
<1>1. /\ pc.at = "claim" /\ l \in pc.todo /\ UNCHANGED <<reg, kv, schedVars, IdOf>>
      /\ \/ CanBegin(life[l], bind[pc.t][l]) /\ life' = [life EXCEPT ![l] = BeginSlice(life[l], bind[pc.t][l])]
         \/ life' = life
    BY Zenon DEF AdoptClaim
<1>2. "claim" # "idle"
    OBVIOUS
<1>3. pc.t \in Tickets /\ l \in Bound(pc.t)
    BY Zenon, <1>1, <1>2 DEF ThreadInv, ControlInv
<1>4. bind[pc.t][l] \in Slices /\ life[l] \in Lifecycles
    BY Zenon, <1>3 DEF ThreadInv, TicketTypes, Types, RequestTypes
<1>5. life' \in [Lives -> Lifecycles]
  <2>1. CASE CanBegin(life[l], bind[pc.t][l]) /\ life' = [life EXCEPT ![l] = BeginSlice(life[l], bind[pc.t][l])]
    <3>1. BeginSlice(life[l], bind[pc.t][l]) \in Lifecycles
        BY Zenon, <1>4, <2>1, BeginFields DEF CanBegin
    <3> QED
        BY Zenon, <2>1, <3>1, LifeTo DEF Types
  <2>2. CASE life' = life
      BY Zenon, <2>2 DEF Types, RequestTypes
  <2> QED
      BY Zenon, <1>1, <2>1, <2>2
<1> QED
    BY Zenon, <1>1, <1>5, LifeTypes DEF Types, RequestTypes, RegStates

LEMMA LaunchTypes ==
    ASSUME Types, Launch
    PROVE  Types'
<1>1. /\ place' = [l \in Lives |-> IF l \in Bound(pc.t) /\ place[l] = "queue" THEN "none" ELSE place[l]]
      /\ UNCHANGED <<requestVars, pend, aborting, stops, IdOf>>
    BY Zenon DEF Launch
<1>2. place' \in [Lives -> {"none", "queue", "ring"}]
    BY <1>1 DEF Types, SchedulerTypes
<1> QED
    BY Zenon, <1>1, <1>2 DEF Types, RequestTypes, SchedulerTypes, requestVars

LEMMA SequenceTo ==
    ASSUME NEW q \in Sequences, NEW v \in Nat, NEW k \in Nat
    PROVE  LET n == [q EXCEPT !.version = v, !.tokens = k] IN
           n \in Sequences /\ n.version = v /\ n.tokens = k /\ n.live = q.live
BY Zenon DEF Sequences

LEMMA HandleCommitTypes ==
    ASSUME Types, ThreadInv, HandleCommit
    PROVE  Types'
<1> DEFINE t == pc.t
<1>1. pc.at = "commit" /\ UNCHANGED <<life, reg, schedVars, IdOf>>
    BY Zenon DEF HandleCommit
<1>2. PICK keep \in [Bound(t) -> 0 .. MaxDrafts + 1] :
        kv' = [l \in Lives |->
                 IF l \in Bound(t)
                 THEN [kv[l] EXCEPT !.version = @ + 1,
                                    !.tokens = @ + Written(bind[t][l], keep[l])]
                 ELSE kv[l]]
    BY Zenon DEF HandleCommit
<1>3. t \in Tickets /\ Bound(t) \subseteq Lives /\ \A l \in Bound(t) : bind[t][l] \in Slices
  <2>1. pc.at \in SettleSteps
      BY <1>1 DEF SettleSteps
  <2> QED
      BY Zenon, <2>1, SettlingFacts
<1>4. ASSUME NEW l \in Bound(t) PROVE Written(bind[t][l], keep[l]) \in Nat
  <2>1. keep[l] \in Nat /\ bind[t][l] \in Slices
    <3>1. keep[l] \in 0 .. MaxDrafts + 1
        BY Zenon
    <3> QED
        BY <1>3, <3>1, Names
  <2> QED
      BY <2>1 DEF Written, Slices
<1>5. kv' \in [Lives -> Sequences]
  <2>1. ASSUME NEW q \in Sequences, NEW n \in Nat
        PROVE  [q EXCEPT !.version = @ + 1, !.tokens = @ + n] \in Sequences
    <3>1. q.version + 1 \in Nat /\ q.tokens + n \in Nat
        BY DEF Sequences
    <3> QED
        BY Zenon, <3>1, SequenceTo
  <2>2. ASSUME NEW l \in Lives PROVE kv'[l] \in Sequences
    <3>1. kv[l] \in Sequences
        BY Zenon DEF Types, RequestTypes
    <3>2. CASE l \in Bound(t)
      <4>1. kv'[l] = [kv[l] EXCEPT !.version = @ + 1, !.tokens = @ + Written(bind[t][l], keep[l])]
          BY Zenon, <1>2, <3>2
      <4> QED
          BY Zenon, <1>4, <2>1, <3>1, <3>2, <4>1
    <3>3. CASE l \notin Bound(t)
      <4>1. kv'[l] = kv[l]
          BY Zenon, <1>2, <3>3
      <4> QED
          BY Zenon, <3>1, <4>1
    <3> QED
        BY <3>2, <3>3
  <2> QED
      BY Zenon, <1>2, <2>2
<1> QED
    BY Zenon, <1>1, <1>5 DEF Types, RequestTypes, SchedulerTypes, schedVars

LEMMA HandleRetireTypes ==
    ASSUME Types, HandleRetire
    PROVE  Types'
<1>1. kv' = Release(pc.ignored) /\ UNCHANGED <<life, reg, schedVars, IdOf>>
    BY Zenon DEF HandleRetire
<1>2. kv' \in [Lives -> Sequences]
    BY Zenon, <1>1, ReleaseIs DEF Types
<1> QED
    BY Zenon, <1>1, <1>2 DEF Types, RequestTypes, SchedulerTypes, schedVars

LEMMA RequeuedIs ==
    ASSUME NEW l, NEW s
    PROVE  Requeued(l, s) \in {"none", "queue", "ring"}
BY DEF Requeued

LEMMA UpdateTypes ==
    ASSUME Types, ThreadInv, Update
    PROVE  Types'
<1> DEFINE t == pc.t
           dropped == IF tk[t].status = "SUCCEEDED" THEN pc.ignored ELSE Bound(t)
           final == Bound(t) \cap aborting
           live == {l \in final : ~IsTerminal(life[l])}
           heard == {l \in pc.published : ~IsTerminal(life[l])
                                            /\ life[l].epoch = bind[t][l].epoch}
<1>1. UNCHANGED <<life, reg, IdOf>> /\ pc.published \in SUBSET Lives
  <2>1. pc \in Threads
      BY Zenon DEF ThreadInv, ThreadTypes
  <2>2. pc.published \in SUBSET Lives
      BY <2>1 DEF Threads
  <2> QED
      BY Zenon, <2>2 DEF Update
<1>2. \/ UNCHANGED <<schedVars, kv>>
      \/ /\ place' = [l \in Lives |->
                       IF l \in dropped \cup final THEN "none"
                       ELSE IF l \in Bound(t) THEN Requeued(l, bind[t][l]) ELSE place[l]]
         /\ pend' = Queue(live, "ABORTED") /\ kv' = Release(final) /\ aborting' = aborting \ final
         /\ \E decided \in SUBSET heard : stops' = stops \cup decided
    BY Zenon DEF Update
<1>3. CASE UNCHANGED <<schedVars, kv>>
    BY Zenon, <1>1, <1>3, SameTypes DEF requestVars
<1>4. CASE /\ place' = [l \in Lives |->
                         IF l \in dropped \cup final THEN "none"
                         ELSE IF l \in Bound(t) THEN Requeued(l, bind[t][l]) ELSE place[l]]
           /\ pend' = Queue(live, "ABORTED") /\ kv' = Release(final) /\ aborting' = aborting \ final
           /\ \E decided \in SUBSET heard : stops' = stops \cup decided
  <2>1. /\ live \in SUBSET Lives /\ aborting' \in SUBSET Lives
        /\ "ABORTED" \in Outcomes /\ heard \in SUBSET Lives
    <3>1. aborting \in SUBSET Lives /\ aborting' = aborting \ final
        BY Zenon, <1>4 DEF Types, SchedulerTypes
    <3> QED
        BY <1>1, <3>1 DEF Outcomes
  <2>2. stops' \in SUBSET Lives
    <3>1. stops \in SUBSET Lives /\ \E decided \in SUBSET heard : stops' = stops \cup decided
        BY Zenon, <1>4 DEF Types, SchedulerTypes
    <3> HIDE DEF heard
    <3> QED
        BY <2>1, <3>1
  <2> HIDE DEF dropped, final, live, heard
  <2>3. place' \in [Lives -> {"none", "queue", "ring"}]
    <3>1. \A l \in Lives : place[l] \in {"none", "queue", "ring"}
        BY DEF Types, SchedulerTypes
    <3> QED
        BY <1>4, <3>1, RequeuedIs
  <2>4. pend' \in [Ids -> Reports] /\ kv' \in [Lives -> Sequences]
      BY Zenon, <1>4, <2>1, QueueIs, ReleaseIs DEF Types
  <2>5. life' \in [Lives -> Lifecycles]
      BY Zenon, <1>1 DEF Types, RequestTypes
  <2> QED
      BY Zenon, <1>1, <2>1, <2>2, <2>3, <2>4, <2>5, BookTypes
<1> QED
    BY Zenon, <1>2, <1>3, <1>4

LEMMA SliceHeadTypes ==
    ASSUME Types, ThreadInv, NEW l \in Lives, SliceHead(l)
    PROVE  Types'
<1>1. /\ pc.at = "slice" /\ l \in pc.todo /\ UNCHANGED <<kv, schedVars, IdOf>>
      /\ DiscardInto(l, FALSE, FALSE) \/ UNCHANGED <<life, reg>>
    BY Zenon DEF SliceHead
<1>2. pc.at \in SettleSteps
    BY <1>1 DEF SettleSteps
<1>3. pc.t \in Tickets /\ l \in Bound(pc.t) /\ TicketTypes
    BY Zenon, <1>1, <1>2, SettlingFacts DEF ThreadInv
<1> QED
    BY Zenon, <1>1, <1>3, DiscardTypes, SameTypes DEF requestVars

LEMMA SliceDropTypes ==
    ASSUME Types, ThreadInv, NEW l \in Lives, SliceDrop(l)
    PROVE  Types'
<1>1. /\ pc.at = "discard" /\ l \in pc.todo /\ UNCHANGED <<kv, schedVars, IdOf>>
      /\ DiscardInto(l, tk[pc.t].status = "CANCELLED", tk[pc.t].status = "FAILED")
    BY Zenon DEF SliceDrop
<1>2. pc.at \in SettleSteps
    BY <1>1 DEF SettleSteps
<1>3. pc.t \in Tickets /\ l \in Bound(pc.t) /\ TicketTypes
    BY Zenon, <1>1, <1>2, SettlingFacts DEF ThreadInv
<1>4. (tk[pc.t].status = "CANCELLED") \in BOOLEAN /\ (tk[pc.t].status = "FAILED") \in BOOLEAN
    OBVIOUS
<1> QED
    BY Zenon, <1>1, <1>3, <1>4, DiscardTypes

\* Inside the loop body the slice at hand is one of the ticket's.
LEMMA LoopSlice ==
    ASSUME Types, ThreadInv, pc.at \in SliceSteps
    PROVE  /\ pc.at \in SettleSteps /\ pc.t \in Tickets /\ pc.cur \in pc.todo /\ pc.cur \in Bound(pc.t)
           /\ pc.cur \in Lives /\ bind[pc.t][pc.cur] \in Slices /\ pc.keep[pc.cur] \in Nat
           /\ life[pc.cur] \in Lifecycles /\ kv[pc.cur].version \in Nat /\ TicketTypes
<1>1. pc.at \in SettleSteps /\ pc.at \in SliceSteps \cup {"slice"}
    BY DEF SettleSteps
<1>2. pc.t \in Tickets /\ pc.todo \subseteq Bound(pc.t) /\ Bound(pc.t) \subseteq Lives
      /\ \A l \in Bound(pc.t) : bind[pc.t][l] \in Slices
    BY Zenon, <1>1, SettlingFacts
<1>3. pc.cur \in pc.todo /\ \A l \in Bound(pc.t) : pc.keep[l] \in Nat
    BY Zenon, <1>1 DEF ThreadInv, ControlInv
<1>4. pc.cur \in Bound(pc.t) /\ pc.cur \in Lives
    BY Zenon, <1>2, <1>3
<1>5. life[pc.cur] \in Lifecycles /\ kv[pc.cur] \in Sequences
    BY Zenon, <1>4 DEF Types, RequestTypes
<1>6. kv[pc.cur].version \in Nat
    BY <1>5 DEF Sequences
<1> QED
    BY Zenon, <1>1, <1>2, <1>3, <1>4, <1>5, <1>6 DEF ThreadInv

LEMMA RefusedTypes ==
    ASSUME Types, ThreadInv, pc.at \in SliceSteps, NEW reason, Refused(pc.cur, reason),
           UNCHANGED <<kv, schedVars, IdOf>>
    PROVE  Types'
<1>1. DiscardInto(pc.cur, FALSE, FALSE) \/ UNCHANGED <<life, reg>>
    BY Zenon DEF Refused
<1> QED
    BY Zenon, <1>1, LoopSlice, DiscardTypes, SameTypes DEF requestVars

LEMMA OneLifeTypes ==
    ASSUME Types, NEW l \in Lives, NEW n \in Lifecycles, life' = [life EXCEPT ![l] = n],
           UNCHANGED <<reg, kv, schedVars, IdOf>>
    PROVE  Types'
BY Zenon, LifeTo, LifeTypes DEF Types, RequestTypes, RegStates

LEMMA SliceApplyTypes ==
    ASSUME Types, ThreadInv, SliceApply
    PROVE  Types'
<1> DEFINE l == pc.cur
           r == life[l]
           s == bind[pc.t][l]
           v == kv[l].version
           k == pc.keep[l]
<1>1. pc.at = "apply" /\ UNCHANGED <<kv, schedVars, IdOf>>
    BY Zenon DEF SliceApply
<1>2. pc.at \in SliceSteps
    BY <1>1 DEF SliceSteps
<1>3. l \in Lives /\ r \in Lifecycles /\ s \in Slices /\ v \in Nat /\ k \in Nat
    BY Zenon, <1>2, LoopSlice
<1>4. \/ /\ CanCommit(r, s, v) /\ reg' = reg
         /\ \/ life' = [life EXCEPT ![l] = CommitRange(r, s, v)]
            \/ life' = [life EXCEPT ![l] = CommitSpeculative(r, s, v, k)]
      \/ Refused(l, "apply")
    BY Zenon DEF SliceApply, CanCommitSpeculative
<1> HIDE DEF r, s, v, k
<1>5. CanCommit(r, s, v) => r.slice = s
    BY Zenon DEF CanCommit, Accepts, OwnsSlice
<1>6. CommitSpeculative(r, s, v, k) \in Lifecycles
    BY Zenon, <1>3, SpeculativeFields
<1>7. CanCommit(r, s, v) => CommitRange(r, s, v) \in Lifecycles
    BY Zenon, <1>3, <1>5, CommitFields
<1>8. CASE Refused(l, "apply")
    BY Zenon, <1>1, <1>2, <1>8, RefusedTypes
<1>9. CASE /\ CanCommit(r, s, v) /\ reg' = reg
           /\ \/ life' = [life EXCEPT ![l] = CommitRange(r, s, v)]
              \/ life' = [life EXCEPT ![l] = CommitSpeculative(r, s, v, k)]
    BY Zenon, <1>1, <1>3, <1>6, <1>7, <1>9, OneLifeTypes
<1> QED
    BY Zenon, <1>4, <1>8, <1>9

LEMMA SlicePublishTypes ==
    ASSUME Types, ThreadInv, SlicePublish
    PROVE  Types'
<1>1. /\ pc.at = "publish" /\ UNCHANGED <<kv, schedVars, IdOf>>
      /\ \/ life' = [life EXCEPT ![pc.cur] = PublishSample(life[pc.cur])] /\ reg' = reg
         \/ Refused(pc.cur, "publish")
    BY Zenon DEF SlicePublish
<1>2. pc.at \in SliceSteps
    BY <1>1 DEF SliceSteps
<1>3. pc.cur \in Lives /\ PublishSample(life[pc.cur]) \in Lifecycles
    BY Zenon, <1>2, LoopSlice, PublishFields
<1> QED
    BY Zenon, <1>1, <1>2, <1>3, RefusedTypes, OneLifeTypes

LEMMA SliceCheckTypes ==
    ASSUME Types, ThreadInv, SliceCheck
    PROVE  Types'
<1>1. /\ pc.at = "check" /\ UNCHANGED <<kv, schedVars, IdOf>>
      /\ DiscardInto(pc.cur, TRUE, FALSE) \/ UNCHANGED <<life, reg>>
    BY Zenon DEF SliceCheck
<1>2. pc.at \in SliceSteps
    BY <1>1 DEF SliceSteps
<1> QED
    BY Zenon, <1>1, <1>2, LoopSlice, DiscardTypes, SameTypes DEF requestVars

-----------------------------------------------------------------------------
(* The types and the thread are invariant *)

LEMMA InitBasic == SettlementInit => Basic
<1> SUFFICES ASSUME SettlementInit PROVE Basic
    OBVIOUS
<1>1. NewLife \in Lifecycles
    BY NoSliceType DEF NewLife, Lifecycles, LifeStates
<1>2. RequestTypes
  <2>1. [version |-> 0, tokens |-> 0, live |-> FALSE] \in Sequences
      BY DEF Sequences
  <2> QED
      BY <1>1, <2>1 DEF SettlementInit, RequestTypes
<1>3. SchedulerTypes
    BY DEF SettlementInit, SchedulerTypes, Reports
<1>4. TicketTypes
    BY NoTicketIs, NoPlanIs DEF SettlementInit, TicketTypes, Bound
<1>5. pc = IdlePc /\ eng = "between" /\ \A t \in Tickets : tk[t] = NoTicket
    BY DEF SettlementInit
<1>6. "idle" \notin AdoptSteps \cup SettleSteps \cup SliceSteps \cup {"update", "slice", "claim", "adopt"}
    BY DEF AdoptSteps, SettleSteps, SliceSteps
<1>7. ThreadTypes
    BY <1>5, IdlePcIs DEF ThreadTypes
<1>8. ControlInv
    BY Zenon, <1>5, <1>6, IdlePcIs DEF ControlInv
<1>9. ASSUME NEW t \in Tickets PROVE TicketInv(t)
  <2>1. "absent" \notin {"adopted", "live", "done", "settling", "retired"}
      OBVIOUS
  <2> QED
      BY Zenon, <1>5, <1>6, <2>1, IdlePcIs, NoTicketIs DEF TicketInv
<1>10. AdoptInv
    BY Zenon, <1>5, <1>6, IdlePcIs DEF AdoptInv
<1> QED
    BY Zenon, <1>2, <1>3, <1>4, <1>7, <1>8, <1>9, <1>10 DEF Basic, ThreadInv

LEMMA NotAdopting ==
    ASSUME ThreadInv', eng' \in {"settle", "failed"}
    PROVE  AdoptInv'
<1>1. "plan" \notin {"settle", "failed"}
    OBVIOUS
<1> QED
    BY Zenon, <1>1 DEF ThreadInv, ControlInv, AdoptInv

\* A step of another thread, or one the engine takes between two calls.
LEMMA QuietBasic ==
    ASSUME Basic, Types', UNCHANGED <<tk, bind, pc>>, eng' = eng \/ pc.at = "idle",
           eng' \in {"between", "settle", "plan", "failed"}
    PROVE  Basic'
<1>1. ThreadInv'
    BY Zenon, QuietThread DEF Basic
<1>2. AdoptInv'
    BY Zenon DEF Basic, AdoptInv
<1> QED
    BY Zenon, <1>1, <1>2 DEF Basic, Types

LEMMA HandleBasic ==
    ASSUME Basic, HandleSteps \/ SettleFault
    PROVE  Basic'
<1>0. Types /\ ThreadInv /\ AdoptInv
    BY Zenon DEF Basic, Types
<1>1. ASSUME pc.at \in SettleSteps \cup {"update"}, eng' = eng, ThreadInv', Types' PROVE Basic'
  <2>1. eng' \in {"settle", "failed"}
      BY Zenon, <1>0, <1>1 DEF ThreadInv, ControlInv
  <2> QED
      BY Zenon, <1>1, <2>1, NotAdopting DEF Basic, Types
<1>2. {"commit", "apply", "ask", "publish", "check", "slice", "discard"} \subseteq SettleSteps
    BY DEF SettleSteps, SliceSteps
<1>3. CASE HandleCommit
  <2>1. pc.at = "commit" /\ eng' = eng
      BY Zenon, <1>3 DEF HandleCommit
  <2> QED
      BY <1>0, <1>1, <1>2, <1>3, <2>1, HandleCommitThread, HandleCommitTypes
<1>4. CASE SliceApply
  <2>1. pc.at = "apply" /\ eng' = eng
      BY Zenon, <1>4 DEF SliceApply
  <2> QED
      BY <1>0, <1>1, <1>2, <1>4, <2>1, SliceApplyThread, SliceApplyTypes
<1>5. CASE SliceAsk
  <2>1. pc.at = "ask" /\ eng' = eng /\ UNCHANGED <<requestVars, schedVars, IdOf>>
      BY Zenon, <1>5 DEF SliceAsk
  <2> QED
      BY <1>0, <1>1, <1>2, <1>5, <2>1, SliceAskThread, SameTypes
<1>6. CASE SlicePublish
  <2>1. pc.at = "publish" /\ eng' = eng
      BY Zenon, <1>6 DEF SlicePublish
  <2> QED
      BY <1>0, <1>1, <1>2, <1>6, <2>1, SlicePublishThread, SlicePublishTypes
<1>7. CASE SliceCheck
  <2>1. pc.at = "check" /\ eng' = eng
      BY Zenon, <1>7 DEF SliceCheck
  <2> QED
      BY <1>0, <1>1, <1>2, <1>7, <2>1, SliceCheckThread, SliceCheckTypes
<1>8. CASE HandleRetire
  <2>1. pc.at \in {"slice", "discard"} /\ eng' = eng
      BY Zenon, <1>8 DEF HandleRetire
  <2> QED
      BY <1>0, <1>1, <1>2, <1>8, <2>1, HandleRetireThread, HandleRetireTypes
<1>9. CASE Update
  <2>1. pc.at = "update" /\ eng' = eng
      BY Zenon, <1>9 DEF Update
  <2> QED
      BY <1>0, <1>1, <1>9, <2>1, UpdateThread, UpdateTypes
<1>10. ASSUME NEW l \in Lives, SliceHead(l) PROVE Basic'
  <2>1. pc.at = "slice" /\ eng' = eng
      BY Zenon, <1>10 DEF SliceHead
  <2> QED
      BY <1>0, <1>1, <1>2, <1>10, <2>1, SliceHeadThread, SliceHeadTypes
<1>11. ASSUME NEW l \in Lives, SliceDrop(l) PROVE Basic'
  <2>1. pc.at = "discard" /\ eng' = eng
      BY Zenon, <1>11 DEF SliceDrop
  <2> QED
      BY <1>0, <1>1, <1>2, <1>11, <2>1, SliceDropThread, SliceDropTypes
<1>12. CASE SettleFault
  <2>1. pc.at \in {"commit", "slice", "discard"} /\ eng' = eng /\ UNCHANGED <<requestVars, schedVars, IdOf>>
      BY Zenon, <1>12 DEF SettleFault
  <2> QED
      BY <1>0, <1>1, <1>2, <1>12, <2>1, SettleFaultThread, SameTypes
<1> QED
    BY Zenon, <1>3, <1>4, <1>5, <1>6, <1>7, <1>8, <1>9, <1>10, <1>11, <1>12 DEF HandleSteps

LEMMA PlanBasic ==
    ASSUME Basic, PlanSteps \/ \E t \in Tickets, S \in SUBSET Lives, extra \in SUBSET Lives : Select(t, S, extra)
    PROVE  Basic'
<1>0. Types /\ ThreadInv /\ AdoptInv /\ RequestTypes /\ SchedulerTypes
    BY Zenon DEF Basic, Types
<1>1. ASSUME ThreadInv', AdoptInv', Types' PROVE Basic'
    BY Zenon, <1>1 DEF Basic, Types
<1>2. CASE AdoptPreflight
    BY Zenon, <1>0, <1>1, <1>2, AdoptPreflightThread, SameTypes DEF AdoptPreflight
<1>3. CASE Launch
    BY Zenon, <1>0, <1>1, <1>3, LaunchThread, LaunchTypes
<1>4. CASE GiveUp
    BY Zenon, <1>0, <1>1, <1>4, GiveUpThread, SameTypes DEF GiveUp
<1>5. ASSUME NEW l \in Lives, AdoptClaim(l) PROVE Basic'
    BY Zenon, <1>0, <1>1, <1>5, AdoptClaimThread, AdoptClaimTypes
<1>6. ASSUME NEW l \in Lives, Preempt(l) PROVE Basic'
  <2>1. UNCHANGED <<tk, bind, pc, eng>> /\ eng' \in {"between", "settle", "plan", "failed"}
      BY Zenon, <1>0, <1>6 DEF Preempt, ThreadInv, ThreadTypes
  <2> QED
      BY Zenon, <1>0, <1>6, <2>1, QuietBasic, PreemptTypes
<1>7. ASSUME NEW l \in Lives, FailRequest(l) PROVE Basic'
    BY Zenon, <1>0, <1>1, <1>7, FailRequestThread, FailRequestTypes
<1>8. ASSUME NEW t \in Tickets, NEW S \in SUBSET Lives, NEW extra \in SUBSET Lives, Select(t, S, extra)
      PROVE  Basic'
    BY Zenon, <1>0, <1>1, <1>8, SelectThread, SelectTypes
<1> QED
    BY Zenon, <1>2, <1>3, <1>4, <1>5, <1>6, <1>7, <1>8 DEF PlanSteps

LEMMA BasicStep == Basic /\ [SettlementNext]_vars => Basic'
<1> SUFFICES ASSUME Basic, [SettlementNext]_vars PROVE Basic'
    OBVIOUS
<1>0. Types /\ ThreadInv /\ AdoptInv /\ eng \in {"between", "settle", "plan", "failed"}
    BY Zenon DEF Basic, Types, ThreadInv, ThreadTypes
<1>1. CASE UNCHANGED vars
  <2>1. UNCHANGED <<tk, bind, pc, eng>> /\ UNCHANGED <<requestVars, schedVars, IdOf>>
      BY Zenon, <1>1 DEF vars, requestVars, schedVars
  <2> QED
      BY Zenon, <1>0, <2>1, QuietBasic, SameTypes
<1>2. ASSUME NEW l \in Lives, NEW id \in Ids, Create(l, id) PROVE Basic'
  <2>1. UNCHANGED <<tk, bind, pc, eng>>
      BY Zenon, <1>2 DEF Create
  <2> QED
      BY Zenon, <1>0, <1>2, <2>1, QuietBasic, CreateTypes
<1>3. ASSUME NEW l \in Lives, Forget(l) PROVE Basic'
  <2>1. UNCHANGED <<tk, bind, pc, eng>>
      BY Zenon, <1>3 DEF Forget
  <2> QED
      BY Zenon, <1>0, <1>3, <2>1, QuietBasic, ForgetTypes
<1>4. ASSUME NEW l \in Lives, CancelToken(l) PROVE Basic'
  <2>1. UNCHANGED <<tk, bind, pc, eng>>
      BY Zenon, <1>4 DEF CancelToken
  <2> QED
      BY Zenon, <1>0, <1>4, <2>1, QuietBasic, CancelTokenTypes
<1>5. ASSUME NEW l \in Lives, Abort(l) PROVE Basic'
  <2>1. pc.at = "idle" /\ pc' = pc /\ "idle" \notin AdoptSteps
      BY <1>5 DEF Abort, At, AdoptSteps
  <2>2. AdoptInv'
      BY Zenon, <2>1 DEF AdoptInv
  <2> QED
      BY Zenon, <1>0, <1>5, <2>2, AbortThread, AbortTypes DEF Basic, Types
<1>6. ASSUME NEW l \in Lives, Finish(l) PROVE Basic'
  <2>1. UNCHANGED <<tk, bind, pc, eng>>
      BY Zenon, <1>6 DEF Finish
  <2> QED
      BY Zenon, <1>0, <1>6, <2>1, QuietBasic, FinishTypes
<1>7. ASSUME NEW t \in Tickets, Complete(t) PROVE Basic'
  <2>1. tk[t].state = "live" /\ pc' = pc /\ UNCHANGED <<requestVars, schedVars, IdOf>>
      BY Zenon, <1>7 DEF Complete
  <2>2. pc.at = "adopt" /\ tk[pc.t].state = "absent" /\ pc.t \in Tickets => tk'[pc.t] = tk[pc.t]
    <3>1. \E x : tk' = [tk EXCEPT ![t].state = "done", ![t].status = x]
        BY Zenon, <1>7 DEF Complete
    <3>2. tk \in [Tickets -> TicketRecords]
        BY Zenon, <1>0 DEF ThreadInv, TicketTypes
    <3> QED
        BY <2>1, <3>1, <3>2
  <2>3. pc.at \in AdoptSteps => pc.t \in Tickets
    <3>1. "idle" \notin AdoptSteps
        BY DEF AdoptSteps
    <3> QED
        BY Zenon, <1>0, <3>1 DEF ThreadInv, ControlInv
  <2>4. AdoptInv'
      BY Zenon, <1>0, <2>1, <2>2, <2>3 DEF AdoptInv
  <2> QED
      BY Zenon, <1>0, <1>7, <2>1, <2>4, CompleteThread, SameTypes DEF Basic, Types
<1>8. ASSUME NEW t \in Tickets, HandleBegin(t) PROVE Basic'
  <2>1. eng' \in {"settle", "failed"} /\ UNCHANGED <<requestVars, schedVars, IdOf>>
      BY Zenon, <1>8 DEF HandleBegin
  <2> QED
      BY Zenon, <1>0, <1>8, <2>1, HandleBeginThread, NotAdopting, SameTypes DEF Basic, Types
<1>9. CASE BeginStep \/ EndStep
  <2>1. /\ pc.at = "idle" /\ UNCHANGED <<tk, bind, pc>> /\ UNCHANGED <<requestVars, schedVars, IdOf>>
        /\ eng' \in {"between", "settle", "plan", "failed"}
    <3>1. "settle" \in {"between", "settle", "plan", "failed"}
        OBVIOUS
    <3> QED
        BY Zenon, <1>9, <3>1 DEF BeginStep, EndStep, At
  <2> QED
      BY Zenon, <1>0, <2>1, QuietBasic, SameTypes
<1>10. CASE Flush
  <2>1. /\ pc.at = "idle" /\ UNCHANGED <<tk, bind, pc>> /\ eng' \in {"between", "settle", "plan", "failed"}
      BY <1>10, FlushFacts
  <2> QED
      BY Zenon, <1>0, <1>10, <2>1, QuietBasic, FlushTypes
<1> QED
    BY Zenon, <1>1, <1>2, <1>3, <1>4, <1>5, <1>6, <1>7, <1>8, <1>9, <1>10, HandleBasic, PlanBasic
    DEF SettlementNext

\* In every run the records have their types, and the engine thread holds a ticket
\* exactly while it adopts or settles it (CompletionCoordinator.adopt, handle).
THEOREM SettlementBasics == SettlementSafety => []Basic
<1>1. SettlementInit => Basic
    BY InitBasic
<1>2. Basic /\ [SettlementNext]_vars => Basic'
    BY BasicStep
<1> QED
    BY <1>1, <1>2, PTL DEF SettlementSafety

-----------------------------------------------------------------------------
(* Settlement is confined to the requests of its ticket *)

\* What a step leaves of a request the ticket being settled does not hold.
Untouched(l) ==
    /\ reg'[l] = reg[l] /\ kv'[l] = kv[l]
    /\ life'[l] = life[l] \/ life'[l] = [life[l] EXCEPT !.token = TRUE]

LEMMA DiscardIsConfined ==
    ASSUME Types, TicketTypes, pc.t \in Tickets, NEW m \in Bound(pc.t), NEW cancel \in BOOLEAN,
           NEW fail \in BOOLEAN, DiscardInto(m, cancel, fail), UNCHANGED kv,
           NEW l \in Lives, l \notin Bound(pc.t)
    PROVE  Untouched(l)
<1>1. l # m
    BY Zenon
<1>2. life'[l] = life[l] /\ reg' = Retired(reg, {m}, life')
    BY Zenon, <1>1, DiscardIs
<1>3. reg'[l] = reg[l]
  <2>1. \A u \in Lives : Retired(reg, {m}, life')[u] =
            IF u \in {m} /\ reg[u] = "active" /\ IsTerminal(life'[u]) THEN "finished" ELSE reg[u]
      BY Zenon, RetiredIs DEF Types
  <2> QED
      BY Zenon, <1>1, <1>2, <2>1
<1> QED
    BY Zenon, <1>2, <1>3 DEF Untouched

LEMMA RefusedIsConfined ==
    ASSUME Types, ThreadInv, pc.at \in SliceSteps, NEW reason, Refused(pc.cur, reason), UNCHANGED kv,
           NEW l \in Lives, l \notin Bound(pc.t)
    PROVE  Untouched(l)
<1>1. DiscardInto(pc.cur, FALSE, FALSE) \/ UNCHANGED <<life, reg>>
    BY Zenon DEF Refused
<1>2. CASE DiscardInto(pc.cur, FALSE, FALSE)
    BY Zenon, <1>2, LoopSlice, DiscardIsConfined
<1>3. CASE UNCHANGED <<life, reg>>
    BY Zenon, <1>3 DEF Untouched
<1> QED
    BY Zenon, <1>1, <1>2, <1>3

LEMMA OneLifeIsConfined ==
    ASSUME Types, NEW m \in Lives, NEW n, life' = [life EXCEPT ![m] = n], UNCHANGED <<reg, kv>>,
           NEW l \in Lives, l # m
    PROVE  Untouched(l)
<1>1. life'[l] = life[l]
    BY DEF Types, RequestTypes
<1> QED
    BY Zenon, <1>1 DEF Untouched

LEMMA HandleIsConfined ==
    ASSUME Types, ThreadInv, pc.at \in SettleSteps, HandleSteps \/ SettleFault,
           NEW l \in Lives, l \notin Bound(pc.t)
    PROVE  Untouched(l)
<1>0. /\ pc.t \in Tickets /\ TicketTypes /\ pc.todo \subseteq Bound(pc.t)
      /\ pc.ignored \subseteq Bound(pc.t) \ pc.todo /\ pc.at # "update"
  <2>1. pc.at # "update"
      BY DEF SettleSteps, SliceSteps
  <2> QED
      BY Zenon, <2>1, SettlingFacts DEF ThreadInv
<1>1. ASSUME UNCHANGED <<life, reg, kv>> PROVE Untouched(l)
    BY Zenon, <1>1 DEF Untouched
<1>2. CASE HandleCommit
  <2>1. \E keep : kv' = [m \in Lives |->
                      IF m \in Bound(pc.t)
                      THEN [kv[m] EXCEPT !.version = @ + 1,
                                         !.tokens = @ + Written(bind[pc.t][m], keep[m])]
                      ELSE kv[m]]
      BY Zenon, <1>2 DEF HandleCommit
  <2>2. kv'[l] = kv[l]
      BY Zenon, <2>1
  <2> QED
      BY Zenon, <1>2, <2>2 DEF HandleCommit, Untouched
<1>3. CASE SliceApply
  <2>1. pc.at \in SliceSteps /\ kv' = kv
      BY <1>3 DEF SliceApply, SliceSteps
  <2>2. (\E n : life' = [life EXCEPT ![pc.cur] = n] /\ reg' = reg) \/ Refused(pc.cur, "apply")
      BY Zenon, <1>3 DEF SliceApply
  <2>3. pc.cur \in Lives /\ l # pc.cur
      BY Zenon, <2>1, LoopSlice
  <2> QED
      BY Zenon, <2>1, <2>2, <2>3, OneLifeIsConfined, RefusedIsConfined
<1>4. CASE SliceAsk
    BY Zenon, <1>1, <1>4 DEF SliceAsk, requestVars
<1>5. CASE SlicePublish
  <2>1. pc.at \in SliceSteps /\ kv' = kv
      BY <1>5 DEF SlicePublish, SliceSteps
  <2>2. (\E n : life' = [life EXCEPT ![pc.cur] = n] /\ reg' = reg) \/ Refused(pc.cur, "publish")
      BY Zenon, <1>5 DEF SlicePublish
  <2>3. pc.cur \in Lives /\ l # pc.cur
      BY Zenon, <2>1, LoopSlice
  <2> QED
      BY Zenon, <2>1, <2>2, <2>3, OneLifeIsConfined, RefusedIsConfined
<1>6. CASE SliceCheck
  <2>1. pc.at \in SliceSteps /\ kv' = kv
      BY <1>6 DEF SliceCheck, SliceSteps
  <2>2. DiscardInto(pc.cur, TRUE, FALSE) \/ UNCHANGED <<life, reg>>
      BY Zenon, <1>6 DEF SliceCheck
  <2>3. CASE DiscardInto(pc.cur, TRUE, FALSE)
      BY Zenon, <2>1, <2>3, LoopSlice, DiscardIsConfined
  <2> QED
      BY Zenon, <1>1, <2>1, <2>2, <2>3
<1>7. CASE HandleRetire
  <2>1. kv' = Release(pc.ignored) /\ UNCHANGED <<life, reg>> /\ l \notin pc.ignored
      BY Zenon, <1>0, <1>7 DEF HandleRetire
  <2> QED
      BY Zenon, <2>1, ReleaseIs DEF Types, Untouched
<1>8. CASE Update
    BY Zenon, <1>0, <1>8 DEF Update
<1>9. ASSUME NEW m \in Lives, SliceHead(m) PROVE Untouched(l)
  <2>1. m \in Bound(pc.t) /\ kv' = kv /\ (DiscardInto(m, FALSE, FALSE) \/ UNCHANGED <<life, reg>>)
      BY Zenon, <1>0, <1>9 DEF SliceHead
  <2>2. CASE DiscardInto(m, FALSE, FALSE)
      BY Zenon, <1>0, <2>1, <2>2, DiscardIsConfined
  <2> QED
      BY Zenon, <1>1, <2>1, <2>2
<1>10. ASSUME NEW m \in Lives, SliceDrop(m) PROVE Untouched(l)
  <2>1. /\ m \in Bound(pc.t) /\ kv' = kv
        /\ DiscardInto(m, tk[pc.t].status = "CANCELLED", tk[pc.t].status = "FAILED")
      BY Zenon, <1>0, <1>10 DEF SliceDrop
  <2>2. (tk[pc.t].status = "CANCELLED") \in BOOLEAN /\ (tk[pc.t].status = "FAILED") \in BOOLEAN
      OBVIOUS
  <2> QED
      BY Zenon, <1>0, <2>1, <2>2, DiscardIsConfined
<1>11. CASE SettleFault
    BY Zenon, <1>1, <1>11 DEF SettleFault, requestVars
<1> QED
    BY Zenon, <1>2, <1>3, <1>4, <1>5, <1>6, <1>7, <1>8, <1>9, <1>10, <1>11 DEF HandleSteps

\* While a ticket is settled only its settlement, the device and a cancelling thread move.
LEMMA SettlingSteps ==
    ASSUME Basic, SettlementNext, pc.at \in SettleSteps
    PROVE  \/ HandleSteps \/ SettleFault \/ \E l \in Lives : CancelToken(l)
           \/ \E t \in Tickets : Complete(t)
<1>1. pc.at \notin {"idle", "adopt", "claim"}
    BY DEF SettleSteps, SliceSteps
<1>2. ~PlanSteps
    BY Zenon, <1>1 DEF PlanSteps, AdoptPreflight, Launch, GiveUp, AdoptClaim, Preempt, FailRequest, At
<1>3. \A t, S, extra : ~Select(t, S, extra)
    BY Zenon, <1>1 DEF Select, At
<1>4. ~BeginStep /\ ~Flush /\ ~EndStep /\ \A t : ~HandleBegin(t)
    BY Zenon, <1>1 DEF BeginStep, Flush, EndStep, HandleBegin, At
<1>5. \A l : ~Forget(l) /\ ~Abort(l) /\ ~Finish(l) /\ \A id : ~Create(l, id)
    BY Zenon, <1>1 DEF Forget, Abort, Finish, Create, At
<1> QED
    BY Zenon, <1>2, <1>3, <1>4, <1>5 DEF SettlementNext

LEMMA Confined ==
    ASSUME Basic, [SettlementNext]_vars, Settling, NEW l \in Lives, l \notin Bound(pc.t)
    PROVE  Untouched(l)
<1>0. Types /\ ThreadInv
    BY Zenon DEF Basic, Types
<1>1. pc.at \in SettleSteps
    BY Zenon, <1>0 DEF Settling, ThreadInv, TicketInv
<1>2. CASE UNCHANGED vars
    BY Zenon, <1>2 DEF vars, Untouched
<1>3. CASE SettlementNext
  <2>1. CASE HandleSteps \/ SettleFault
      BY Zenon, <1>0, <1>1, <2>1, HandleIsConfined
  <2>2. ASSUME NEW m \in Lives, CancelToken(m) PROVE Untouched(l)
    <3>1. life' = [life EXCEPT ![m].token = TRUE] /\ UNCHANGED <<reg, kv>>
        BY Zenon, <2>2 DEF CancelToken
    <3>2. life'[l] = life[l] \/ life'[l] = [life[l] EXCEPT !.token = TRUE]
        BY Zenon, <1>0, <3>1, TokenTo DEF Types
    <3> QED
        BY Zenon, <3>1, <3>2 DEF Untouched
  <2>3. ASSUME NEW t \in Tickets, Complete(t) PROVE Untouched(l)
      BY Zenon, <2>3 DEF Complete, requestVars, Untouched
  <2> QED
      BY Zenon, <1>1, <1>3, <2>1, <2>2, <2>3, SettlingSteps
<1> QED
    BY Zenon, <1>2, <1>3

\* In every run a settlement leaves the requests its ticket did not capture alone,
\* whatever their ids: their place in the registry, their KV and all but their
\* cancellation token stay as they are (CompletionCoordinator.handle, _discard).
THEOREM SettlementConfined == SettlementSafety => SettlementIsConfined
<1>1. Basic /\ [SettlementNext]_vars =>
        [\A l \in Lives : Settling /\ l \notin Bound(pc.t) =>
            /\ reg'[l] = reg[l] /\ kv'[l] = kv[l]
            /\ life'[l] = life[l] \/ life'[l] = [life[l] EXCEPT !.token = TRUE]]_vars
  <2> SUFFICES ASSUME Basic, [SettlementNext]_vars, NEW l \in Lives, Settling, l \notin Bound(pc.t)
               PROVE  /\ reg'[l] = reg[l] /\ kv'[l] = kv[l]
                      /\ life'[l] = life[l] \/ life'[l] = [life[l] EXCEPT !.token = TRUE]
      BY Zenon
  <2> QED
      BY Zenon, Confined DEF Untouched
<1> QED
    BY <1>1, SettlementBasics, PTL DEF SettlementSafety, SettlementIsConfined

-----------------------------------------------------------------------------
(* Tickets move as TicketProtocol has them *)

ViewOf(r) ==
    [state |-> IF r.state = "retired" THEN "gone" ELSE r.state,
     status |-> IF r.state \in {"done", "settling"} THEN r.status ELSE "NONE",
     cancel |-> r.state = "live" /\ r.cancel]

ViewMoves(r, n) == ViewOf(n) = ViewOf(r) \/ Protocol!Moves(ViewOf(r), ViewOf(n))

LEMMA ViewForms ==
    ASSUME NEW r \in TicketRecords
    PROVE  /\ r.state = "absent" => ViewOf(r) = Protocol!None
           /\ r.state = "adopted" => ViewOf(r) = Protocol!Plain("adopted")
           /\ r.state = "live" => ViewOf(r) = Protocol!Live(r.cancel)
           /\ r.state = "done" => ViewOf(r) = Protocol!Done(r.status)
           /\ r.state = "settling" => ViewOf(r) = Protocol!Settled(r.status)
           /\ r.state = "retired" => ViewOf(r) = Protocol!Plain("gone")
           /\ r.state = "lost" => ViewOf(r) = Protocol!Plain("lost")
           /\ r.cancel \in BOOLEAN
<1>1. r.cancel \in BOOLEAN
    BY DEF TicketRecords
<1> QED
    BY Zenon, <1>1 DEF ViewOf, Protocol!View, Protocol!None, Protocol!Plain, Protocol!Live, Protocol!Done,
                Protocol!Settled

Verdicts == {"SUCCEEDED", "FAILED", "CANCELLED"}

LEMMA VerdictIs ==
    ASSUME NEW r \in TicketRecords, r.status # "NONE"
    PROVE  r.status \in Verdicts
BY DEF TicketRecords, Verdicts

LEMMA SettledMoves ==
    ASSUME NEW r \in TicketRecords, NEW n \in TicketRecords, r.status \in Verdicts,
           \/ r.state = "settling" /\ n.state \in {"retired", "lost"}
           \/ r.state = "done" /\ n.state = "settling" /\ n.status = r.status
           \/ r.state = "done" /\ n.state = "lost"
    PROVE  ViewMoves(r, n)
<1>1. CASE r.state = "settling" /\ n.state \in {"retired", "lost"}
  <2>1. /\ ViewOf(r) = Protocol!Settled(r.status)
        /\ ViewOf(n) \in {Protocol!Plain("gone"), Protocol!Plain("lost")}
      BY Zenon, <1>1, ViewForms
  <2> QED
      BY Zenon, <2>1 DEF ViewMoves, Protocol!Moves, Protocol!Settles, Verdicts
<1>2. CASE r.state = "done" /\ n.state = "settling" /\ n.status = r.status
  <2>1. ViewOf(r) = Protocol!Done(r.status) /\ ViewOf(n) = Protocol!Settled(r.status)
      BY Zenon, <1>2, ViewForms
  <2> QED
      BY Zenon, <2>1 DEF ViewMoves, Protocol!Moves, Protocol!Settles, Verdicts
<1>3. CASE r.state = "done" /\ n.state = "lost"
  <2>1. ViewOf(r) = Protocol!Done(r.status) /\ ViewOf(n) = Protocol!Plain("lost")
      BY Zenon, <1>3, ViewForms
  <2> QED
      BY Zenon, <2>1 DEF ViewMoves, Protocol!Moves, Protocol!Settles, Verdicts
<1> QED
    BY Zenon, <1>1, <1>2, <1>3

LEMMA FlightViews ==
    ASSUME NEW r \in TicketRecords, NEW n \in TicketRecords,
           \/ r.state = "live" /\ n.state = "live" /\ n.cancel
           \/ /\ r.state = "live" /\ n.state = "done"
              /\ n.status \in IF r.cancel THEN {"FAILED", "CANCELLED"} ELSE {"SUCCEEDED", "FAILED"}
           \/ /\ r.state = "done" /\ r.status = "SUCCEEDED"
              /\ n.state = "done" /\ n.status = "CANCELLED"
    PROVE  ViewMoves(r, n)
<1>0. r.cancel \in BOOLEAN /\ n.cancel \in BOOLEAN
    BY Zenon, ViewForms
<1>1. CASE r.state = "live" /\ n.state = "live" /\ n.cancel
  <2>1. n.cancel = TRUE
      BY <1>0, <1>1
  <2>2. ViewOf(r) = Protocol!Live(r.cancel) /\ ViewOf(n) = Protocol!Live(n.cancel)
      BY Zenon, <1>1, ViewForms
  <2> QED
      BY Zenon, <1>0, <2>1, <2>2 DEF ViewMoves, Protocol!Moves, Protocol!Completes
<1>2. CASE /\ r.state = "live" /\ n.state = "done"
           /\ n.status \in IF r.cancel THEN {"FAILED", "CANCELLED"} ELSE {"SUCCEEDED", "FAILED"}
  <2>1. ViewOf(r) = Protocol!Live(r.cancel) /\ ViewOf(n) = Protocol!Done(n.status)
      BY Zenon, <1>2, ViewForms
  <2>2. n.status = "FAILED" \/ (r.cancel /\ n.status = "CANCELLED") \/ (~r.cancel /\ n.status = "SUCCEEDED")
      BY Zenon, <1>2
  <2> QED
      BY Zenon, <1>0, <2>1, <2>2 DEF ViewMoves, Protocol!Moves, Protocol!Completes
<1>3. CASE /\ r.state = "done" /\ r.status = "SUCCEEDED"
           /\ n.state = "done" /\ n.status = "CANCELLED"
  <2>1. ViewOf(r) = Protocol!Done("SUCCEEDED") /\ ViewOf(n) = Protocol!Done("CANCELLED")
      BY Zenon, <1>3, ViewForms
  <2> QED
      BY Zenon, <2>1 DEF ViewMoves, Protocol!Moves, Protocol!Demotes
<1> QED
    BY Zenon, <1>1, <1>2, <1>3

LEMMA AdoptedMoves ==
    ASSUME NEW r \in TicketRecords, NEW n \in TicketRecords,
           \/ r.state = "absent" /\ n.state = "adopted"
           \/ r.state = "adopted" /\ n.state = "live" /\ ~n.cancel
           \/ r.state = "adopted" /\ n.state = "lost"
           \/ r.state = "adopted" /\ n.state = "done" /\ n.status = "CANCELLED"
           \/ r.state = "retired" /\ n.state = "absent"
    PROVE  ViewMoves(r, n)
<1>1. CASE r.state = "absent" /\ n.state = "adopted"
    BY Zenon, <1>1, ViewForms DEF ViewMoves, Protocol!Moves
<1>2. CASE r.state = "adopted" /\ n.state = "live" /\ ~n.cancel
  <2>1. n.cancel = FALSE
      BY <1>2, ViewForms
  <2>2. ViewOf(r) = Protocol!Plain("adopted") /\ ViewOf(n) = Protocol!Live(n.cancel)
      BY Zenon, <1>2, ViewForms
  <2> QED
      BY Zenon, <2>1, <2>2 DEF ViewMoves, Protocol!Moves, Protocol!Launches
<1>3. CASE r.state = "adopted" /\ n.state = "lost"
  <2>1. ViewOf(r) = Protocol!Plain("adopted") /\ ViewOf(n) = Protocol!Plain("lost")
      BY Zenon, <1>3, ViewForms
  <2> QED
      BY Zenon, <2>1 DEF ViewMoves, Protocol!Moves, Protocol!Launches
<1>4. CASE r.state = "adopted" /\ n.state = "done" /\ n.status = "CANCELLED"
  <2>1. ViewOf(r) = Protocol!Plain("adopted") /\ ViewOf(n) = Protocol!Done("CANCELLED")
      BY Zenon, <1>4, ViewForms
  <2> QED
      BY Zenon, <2>1 DEF ViewMoves, Protocol!Moves, Protocol!Launches
<1>5. CASE r.state = "retired" /\ n.state = "absent"
    BY Zenon, <1>5, ViewForms DEF ViewMoves, Protocol!Moves
<1> QED
    BY Zenon, <1>1, <1>2, <1>3, <1>4, <1>5

\* One ticket moves, the others stay.
LEMMA OneTicketMoves ==
    ASSUME NEW t \in Tickets, ViewMoves(tk[t], tk'[t]), \A u \in Tickets : u # t => tk'[u] = tk[u]
    PROVE  \A u \in Tickets : ViewMoves(tk[u], tk'[u])
BY Zenon DEF ViewMoves

LEMMA LoseMoves ==
    ASSUME ThreadInv, pc.at \in SettleSteps, NEW reason, Lose(reason)
    PROVE  \A u \in Tickets : ViewMoves(tk[u], tk'[u])
<1>1. pc.t \in Tickets /\ tk[pc.t].state = "settling" /\ TicketTypes /\ TicketInv(pc.t)
    BY Zenon, SettlingFacts DEF ThreadInv
<1>2. "lost" \in TicketStates
    BY DEF TicketStates
<1>3. /\ tk' \in [Tickets -> TicketRecords] /\ tk'[pc.t].state = "lost"
      /\ \A u \in Tickets : u # pc.t => tk'[u] = tk[u]
    BY Zenon, <1>1, <1>2, TicketTo DEF Lose
<1>4. tk[pc.t] \in TicketRecords /\ tk'[pc.t] \in TicketRecords
    BY Zenon, <1>1, <1>3 DEF TicketTypes
<1>5. tk[pc.t].status \in Verdicts
    BY Zenon, <1>1, <1>4, VerdictIs DEF TicketInv
<1>6. ViewMoves(tk[pc.t], tk'[pc.t])
    BY Zenon, <1>1, <1>3, <1>4, <1>5, SettledMoves
<1> QED
    BY Zenon, <1>1, <1>3, <1>6, OneTicketMoves

LEMMA SameTickets ==
    ASSUME tk' = tk
    PROVE  \A u \in Tickets : ViewMoves(tk[u], tk'[u])
BY Zenon DEF ViewMoves

LEMMA AbortMoves ==
    ASSUME ThreadInv, NEW l \in Lives, Abort(l)
    PROVE  \A u \in Tickets : ViewMoves(tk[u], tk'[u])
<1>1. tk' = tk \/ tk' = [t \in Tickets |-> IF Bound(t) \subseteq aborting' THEN CancelledTicket(tk[t])
                                           ELSE tk[t]]
    BY Zenon DEF Abort
<1>2. \A t \in Tickets : tk'[t] = tk[t] \/ tk'[t] = CancelledTicket(tk[t])
    BY <1>1
<1> SUFFICES ASSUME NEW u \in Tickets PROVE ViewMoves(tk[u], tk'[u])
    OBVIOUS
<1>3. tk[u] \in TicketRecords
    BY DEF ThreadInv, TicketTypes
<1> DEFINE n == CancelledTicket(tk[u])
<1>4. /\ n \in TicketRecords /\ n.state = tk[u].state
      /\ n = tk[u] \/ (tk[u].state = "live" /\ n.cancel)
                   \/ (tk[u].state = "done" /\ tk[u].status = "SUCCEEDED" /\ n.status = "CANCELLED")
    BY Zenon, <1>3, AbortedTicket
<1>5. tk'[u] = tk[u] \/ tk'[u] = n
    BY Zenon, <1>2
<1> HIDE DEF n
<1>6. CASE tk'[u] = tk[u]
    BY Zenon, <1>6 DEF ViewMoves
<1>7. CASE tk'[u] = n /\ n # tk[u]
  <2>1. ViewMoves(tk[u], n)
      BY Zenon, <1>3, <1>4, <1>7, FlightViews
  <2> QED
      BY Zenon, <1>7, <2>1
<1> QED
    BY Zenon, <1>5, <1>6, <1>7

LEMMA CompleteMoves ==
    ASSUME ThreadInv, NEW t \in Tickets, Complete(t)
    PROVE  \A u \in Tickets : ViewMoves(tk[u], tk'[u])
<1>1. tk[t].state = "live" /\ TicketTypes
    BY Zenon DEF Complete, ThreadInv
<1>2. PICK x \in IF tk[t].cancel THEN {"FAILED", "CANCELLED"} ELSE {"SUCCEEDED", "FAILED"} :
        tk' = [tk EXCEPT ![t].state = "done", ![t].status = x]
    BY Zenon DEF Complete
<1>3. x \in {"SUCCEEDED", "FAILED", "CANCELLED"}
    BY <1>2
<1>4. /\ tk' \in [Tickets -> TicketRecords] /\ tk'[t].state = "done" /\ tk'[t].status = x
      /\ \A u \in Tickets : u # t => tk'[u] = tk[u]
    BY Zenon, <1>1, <1>2, <1>3, DoneTo
<1>5. tk[t] \in TicketRecords /\ tk'[t] \in TicketRecords
    BY Zenon, <1>1, <1>4 DEF TicketTypes
<1>6. ViewMoves(tk[t], tk'[t])
  <2>1. tk'[t].status \in IF tk[t].cancel THEN {"FAILED", "CANCELLED"} ELSE {"SUCCEEDED", "FAILED"}
      BY Zenon, <1>2, <1>4
  <2> QED
      BY Zenon, <1>1, <1>4, <1>5, <2>1, FlightViews
<1> QED
    BY Zenon, <1>4, <1>6, OneTicketMoves

LEMMA HandleBeginMoves ==
    ASSUME ThreadInv, NEW t \in Tickets, HandleBegin(t)
    PROVE  \A u \in Tickets : ViewMoves(tk[u], tk'[u])
<1>1. tk[t].state = "done" /\ TicketTypes /\ TicketInv(t)
    BY Zenon DEF HandleBegin, ThreadInv
<1>2. PICK x \in {"settling", "lost"} : tk' = [tk EXCEPT ![t].state = x]
    BY Zenon DEF HandleBegin
<1>3. x \in TicketStates
    BY <1>2 DEF TicketStates
<1>4. /\ tk' \in [Tickets -> TicketRecords] /\ tk'[t].state = x /\ tk'[t].status = tk[t].status
      /\ \A u \in Tickets : u # t => tk'[u] = tk[u]
    BY Zenon, <1>1, <1>2, <1>3, TicketTo
<1>5. tk[t] \in TicketRecords /\ tk'[t] \in TicketRecords
    BY Zenon, <1>1, <1>4 DEF TicketTypes
<1>6. tk[t].status \in Verdicts
    BY Zenon, <1>1, <1>5, VerdictIs DEF TicketInv
<1>7. ViewMoves(tk[t], tk'[t])
    BY Zenon, <1>1, <1>2, <1>4, <1>5, <1>6, SettledMoves
<1> QED
    BY Zenon, <1>4, <1>7, OneTicketMoves

LEMMA HandleMoves ==
    ASSUME ThreadInv, HandleSteps \/ SettleFault
    PROVE  \A u \in Tickets : ViewMoves(tk[u], tk'[u])
<1>1. ASSUME NEW reason, Lose(reason), pc.at \in {"commit", "discard", "slice", "apply", "publish"}
      PROVE  \A u \in Tickets : ViewMoves(tk[u], tk'[u])
  <2>1. pc.at \in SettleSteps
      BY <1>1 DEF SettleSteps, SliceSteps
  <2> QED
      BY Zenon, <1>1, <2>1, LoseMoves
<1>2. CASE HandleCommit
  <2>1. tk' = tk \/ Lose("version")
      BY Zenon, <1>2 DEF HandleCommit
  <2> QED
      BY Zenon, <1>1, <1>2, <2>1, SameTickets DEF HandleCommit
<1>3. CASE SliceApply
  <2>1. tk' = tk \/ Lose("apply")
      BY Zenon, <1>3 DEF SliceApply, Refused
  <2> QED
      BY Zenon, <1>1, <1>3, <2>1, SameTickets DEF SliceApply
<1>4. CASE SlicePublish
  <2>1. tk' = tk \/ Lose("publish")
      BY Zenon, <1>4 DEF SlicePublish, Refused
  <2> QED
      BY Zenon, <1>1, <1>4, <2>1, SameTickets DEF SlicePublish
<1>5. CASE SettleFault
    BY Zenon, <1>1, <1>5 DEF SettleFault
<1>6. CASE HandleRetire
  <2>1. pc.at \in SettleSteps /\ "retired" \in TicketStates
      BY <1>6 DEF HandleRetire, SettleSteps, TicketStates
  <2>2. pc.t \in Tickets /\ tk[pc.t].state = "settling" /\ TicketTypes /\ TicketInv(pc.t)
      BY Zenon, <2>1, SettlingFacts DEF ThreadInv
  <2>3. /\ tk' \in [Tickets -> TicketRecords] /\ tk'[pc.t].state = "retired"
        /\ \A u \in Tickets : u # pc.t => tk'[u] = tk[u]
      BY Zenon, <1>6, <2>1, <2>2, TicketTo DEF HandleRetire
  <2>4. tk[pc.t] \in TicketRecords /\ tk'[pc.t] \in TicketRecords
      BY Zenon, <2>2, <2>3 DEF TicketTypes
  <2>5. tk[pc.t].status \in Verdicts
      BY Zenon, <2>2, <2>4, VerdictIs DEF TicketInv
  <2>6. ViewMoves(tk[pc.t], tk'[pc.t])
      BY Zenon, <2>2, <2>3, <2>4, <2>5, SettledMoves
  <2> QED
      BY Zenon, <2>2, <2>3, <2>6, OneTicketMoves
<1>7. CASE Update
  <2>1. pc.at = "update" /\ tk' = [tk EXCEPT ![pc.t] = NoTicket]
      BY Zenon, <1>7 DEF Update
  <2>2. pc.t \in Tickets /\ TicketTypes /\ tk[pc.t].state = "retired"
    <3>1. "update" # "idle"
        OBVIOUS
    <3> QED
        BY Zenon, <2>1, <3>1 DEF ThreadInv, ControlInv, TicketInv
  <2>3. /\ tk' \in [Tickets -> TicketRecords] /\ tk'[pc.t] = NoTicket
        /\ \A u \in Tickets : u # pc.t => tk'[u] = tk[u]
      BY <2>1, <2>2, NoTicketIs DEF TicketTypes
  <2>4. tk[pc.t] \in TicketRecords /\ tk'[pc.t] \in TicketRecords /\ tk'[pc.t].state = "absent"
      BY Zenon, <2>2, <2>3, NoTicketIs DEF TicketTypes
  <2>5. ViewMoves(tk[pc.t], tk'[pc.t])
      BY Zenon, <2>2, <2>4, AdoptedMoves
  <2> QED
      BY Zenon, <2>2, <2>3, <2>5, OneTicketMoves
<1>8. CASE \/ SliceAsk \/ SliceCheck \/ \E l \in Lives : SliceHead(l) \/ SliceDrop(l)
    BY Zenon, <1>8, SameTickets DEF SliceAsk, SliceCheck, SliceHead, SliceDrop
<1> QED
    BY Zenon, <1>2, <1>3, <1>4, <1>5, <1>6, <1>7, <1>8 DEF HandleSteps

LEMMA PlanMoves ==
    ASSUME ThreadInv, AdoptInv,
           PlanSteps \/ \E t \in Tickets, S \in SUBSET Lives, extra \in SUBSET Lives : Select(t, S, extra)
    PROVE  \A u \in Tickets : ViewMoves(tk[u], tk'[u])
<1>1. CASE AdoptPreflight
  <2>1. pc.at = "adopt" /\ (tk' = tk \/ tk' = [tk EXCEPT ![pc.t].state = "adopted"])
      BY Zenon, <1>1 DEF AdoptPreflight, At
  <2>2. pc.at \in AdoptSteps /\ "adopted" \in TicketStates
      BY <2>1 DEF AdoptSteps, TicketStates
  <2>3. pc.t \in Tickets /\ TicketTypes /\ tk[pc.t] = NoTicket
      BY Zenon, <2>1, <2>2, AdoptFacts
  <2>4. CASE tk' = [tk EXCEPT ![pc.t].state = "adopted"]
    <3>1. /\ tk' \in [Tickets -> TicketRecords] /\ tk'[pc.t].state = "adopted"
          /\ \A u \in Tickets : u # pc.t => tk'[u] = tk[u]
        BY Zenon, <2>2, <2>3, <2>4, TicketTo
    <3>2. tk[pc.t] \in TicketRecords /\ tk'[pc.t] \in TicketRecords /\ tk[pc.t].state = "absent"
        BY Zenon, <2>3, <3>1, NoTicketIs DEF TicketTypes
    <3>3. ViewMoves(tk[pc.t], tk'[pc.t])
        BY Zenon, <3>1, <3>2, AdoptedMoves
    <3> QED
        BY Zenon, <2>3, <3>1, <3>3, OneTicketMoves
  <2> QED
      BY Zenon, <2>1, <2>4, SameTickets
<1>2. CASE Launch
  <2>1. pc.at = "claim"
      BY Zenon, <1>2 DEF Launch
  <2>2. pc.at \in AdoptSteps
      BY <2>1 DEF AdoptSteps
  <2>3. pc.t \in Tickets /\ TicketTypes /\ tk[pc.t].state = "adopted" /\ ~tk[pc.t].cancel
      BY Zenon, <2>1, <2>2, AdoptFacts
  <2>4. CASE \E x \in {"live", "lost"} : tk' = [tk EXCEPT ![pc.t].state = x]
    <3>1. PICK x \in {"live", "lost"} : tk' = [tk EXCEPT ![pc.t].state = x]
        BY Zenon, <2>4
    <3>2. x \in TicketStates
        BY DEF TicketStates
    <3>3. /\ tk' \in [Tickets -> TicketRecords] /\ tk'[pc.t].state = x /\ tk'[pc.t].cancel = tk[pc.t].cancel
          /\ \A u \in Tickets : u # pc.t => tk'[u] = tk[u]
        BY Zenon, <2>3, <3>1, <3>2, TicketTo
    <3>4. tk[pc.t] \in TicketRecords /\ tk'[pc.t] \in TicketRecords
        BY Zenon, <2>3, <3>3 DEF TicketTypes
    <3>5. ViewMoves(tk[pc.t], tk'[pc.t])
        BY Zenon, <2>3, <3>1, <3>3, <3>4, AdoptedMoves
    <3> QED
        BY Zenon, <2>3, <3>3, <3>5, OneTicketMoves
  <2>5. CASE tk' = [tk EXCEPT ![pc.t].state = "done", ![pc.t].status = "CANCELLED"]
    <3>1. "CANCELLED" \in {"SUCCEEDED", "FAILED", "CANCELLED"}
        OBVIOUS
    <3>2. /\ tk' \in [Tickets -> TicketRecords] /\ tk'[pc.t].state = "done" /\ tk'[pc.t].status = "CANCELLED"
          /\ \A u \in Tickets : u # pc.t => tk'[u] = tk[u]
        BY Zenon, <2>3, <2>5, <3>1, DoneTo
    <3>3. tk[pc.t] \in TicketRecords /\ tk'[pc.t] \in TicketRecords
        BY Zenon, <2>3, <3>2 DEF TicketTypes
    <3>4. ViewMoves(tk[pc.t], tk'[pc.t])
        BY Zenon, <2>3, <3>2, <3>3, AdoptedMoves
    <3> QED
        BY Zenon, <2>3, <3>2, <3>4, OneTicketMoves
  <2> QED
      BY Zenon, <1>2, <2>4, <2>5 DEF Launch
<1>3. CASE GiveUp \/ \E l \in Lives : AdoptClaim(l) \/ Preempt(l) \/ FailRequest(l)
    BY Zenon, <1>3, SameTickets DEF GiveUp, AdoptClaim, Preempt, FailRequest
<1>4. CASE \E t \in Tickets, S \in SUBSET Lives, extra \in SUBSET Lives : Select(t, S, extra)
    BY Zenon, <1>4, SameTickets DEF Select
<1> QED
    BY Zenon, <1>1, <1>2, <1>3, <1>4 DEF PlanSteps

LEMMA TicketsMove ==
    ASSUME Basic, [SettlementNext]_vars
    PROVE  \A u \in Tickets : ViewMoves(tk[u], tk'[u])
<1>0. ThreadInv /\ AdoptInv
    BY Zenon DEF Basic
<1>1. CASE UNCHANGED vars
    BY Zenon, <1>1, SameTickets DEF vars
<1>2. CASE \/ \E l \in Lives, id \in Ids : Create(l, id)
           \/ \E l \in Lives : Forget(l) \/ CancelToken(l) \/ Finish(l)
           \/ BeginStep \/ Flush \/ EndStep
    BY Zenon, <1>2, SameTickets DEF Create, Forget, CancelToken, Finish, BeginStep, Flush, EndStep
<1> QED
    BY Zenon, <1>0, <1>1, <1>2, AbortMoves, CompleteMoves, HandleBeginMoves, HandleMoves, PlanMoves
    DEF SettlementNext

\* In every run the coordinator takes tickets through the states TicketProtocol
\* has: adopted before launched, settled once with the delivered outcome, given up
\* only by retirement or for good (CompletionCoordinator.adopt, launch, handle).
THEOREM SettlementFollowsTicketProtocol == SettlementSafety => FollowsTicketProtocol
<1>1. SettlementInit => Protocol!ProtocolInit
  <2> SUFFICES ASSUME SettlementInit PROVE [t \in Tickets |-> TicketView(t)] = [t \in Tickets |-> Protocol!None]
      BY DEF Protocol!ProtocolInit
  <2>1. ASSUME NEW t \in Tickets PROVE TicketView(t) = Protocol!None
    <3>1. tk[t] = NoTicket
        BY DEF SettlementInit
    <3>2. TicketView(t) = ViewOf(tk[t])
        BY Zenon DEF TicketView, ViewOf
    <3> QED
        BY Zenon, <3>1, <3>2, NoTicketIs, ViewForms
  <2> QED
      BY <2>1
<1>2. Basic /\ [SettlementNext]_vars => Protocol!ProtocolNext
  <2> SUFFICES ASSUME Basic, [SettlementNext]_vars PROVE Protocol!ProtocolNext
      OBVIOUS
  <2>1. \A t \in Tickets : ViewMoves(tk[t], tk'[t])
      BY Zenon, TicketsMove
  <2>2. \A t \in Tickets : TicketView(t) = ViewOf(tk[t]) /\ TicketView(t)' = ViewOf(tk'[t])
      BY Zenon DEF TicketView, ViewOf
  <2> QED
      BY <2>1, <2>2 DEF ViewMoves, Protocol!ProtocolNext
<1> QED
    BY <1>1, <1>2, SettlementBasics, PTL
    DEF SettlementSafety, FollowsTicketProtocol, Protocol!ProtocolSpec
=============================================================================

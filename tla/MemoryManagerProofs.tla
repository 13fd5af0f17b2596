------------------------ MODULE MemoryManagerProofs ------------------------
(***************************************************************************)
(* The allocator's own invariant holds under every sequence of calls the   *)
(* memory manager makes, for any pages, sequences, steps and bounds.  Each *)
(* operation of PageAllocator keeps it by itself; of the manager only two  *)
(* facts are needed: the epochs it passes are naturals, and the            *)
(* reservations of a step are a sequence, so that a last one exists.       *)
(***************************************************************************)
EXTENDS MemoryManager, SequenceTheorems, WellFoundedInduction, TLAPS

Metas == [state : PageStates, resv : {0, 1}, req : Nat, pin : Nat, infl : Nat,
          valid : 0 .. PageSize, pend : Nat \cup {NoEpoch}]

Allocators == [page : [Pages -> Metas], ready : SUBSET Pages,
               heap : SUBSET ((Nat \cup {NoEpoch}) \X Pages),
               epoch : Nat, fault : BOOLEAN]

Sound(a) == a \in Allocators /\ AllocatorOK(a)

\* A page as it is after an operation dropped a reference and before it checks
\* whether it was the last: whatever PageOK says but for the owners.
Loosened(m) ==
    /\ m \in Metas
    /\ m.state \in {"RESERVED", "LIVE"}
    /\ m.state = "RESERVED" => m.req = 0 /\ m.pin = 0
    /\ m.state = "LIVE" => m.resv = 0

-----------------------------------------------------------------------------
(* Single pages *)

\* _mark_for_reclaim_if_unowned turns a page that lost a reference into a good
\* one, with a safe epoch if it is deferred.
LEMMA MarkedPage ==
    ASSUME NEW m, Loosened(m), NEW e \in Nat
    PROVE  /\ MarkForReclaim(m, e) \in Metas
           /\ PageOK(MarkForReclaim(m, e))
           /\ MarkForReclaim(m, e).state # "FREE"
<1>1. m \in Metas /\ m.state \in {"RESERVED", "LIVE"}
  BY DEF Loosened
<1>2. Later(m.pend, e) \in Nat
  BY <1>1 DEF Later, Metas, NoEpoch
<1>3. CASE ~Unowned(m)
  BY <1>3, <1>1 DEF Loosened, MarkForReclaim, PageOK, Metas, Unowned, PageStates
<1>4. CASE Unowned(m)
  <2> DEFINE n == [m EXCEPT !.pend = Later(@, e),
                            !.state = IF m.infl > 0 THEN @ ELSE "RECLAIM_PENDING"]
  <2>1. MarkForReclaim(m, e) = n
    BY <1>4 DEF MarkForReclaim
  <2>2. /\ n.pend = Later(m.pend, e) /\ n.resv = m.resv /\ n.req = m.req
        /\ n.pin = m.pin /\ n.infl = m.infl /\ n.valid = m.valid
        /\ n.state = IF m.infl > 0 THEN m.state ELSE "RECLAIM_PENDING"
        /\ n \in Metas
    BY Zenon, <1>1, <1>2 DEF Metas, PageStates
  <2> HIDE DEF n
  <2>3. PageOK(n)
    BY <2>2, <1>1, <1>2, <1>4 DEF PageOK, Unowned, Metas, PageStates, NoEpoch, Loosened
  <2> QED
    BY <2>1, <2>2, <2>3, <1>1
<1> QED
  BY <1>3, <1>4

LEMMA NewPageOK == NewPage \in Metas /\ PageOK(NewPage) /\ NewPage.state = "FREE"
  BY AllocatorAssumption DEF NewPage, Metas, PageOK, PageStates, NoEpoch, Unowned

-----------------------------------------------------------------------------
(* The two ways an operation changes the pages *)

\* Pages may change as long as none enters or leaves FREE or RECLAIM_PENDING.
LEMMA KeepLists ==
    ASSUME NEW a, Sound(a), NEW f \in [Pages -> Metas],
           \A p \in Pages : /\ PageOK(f[p])
                            /\ f[p] = a.page[p] \/
                               /\ f[p].state \in {"RESERVED", "LIVE"}
                               /\ a.page[p].state \in {"RESERVED", "LIVE"}
    PROVE  Sound([a EXCEPT !.page = f])
<1> DEFINE b == [a EXCEPT !.page = f]
<1>1. /\ b \in Allocators /\ b.page = f /\ b.ready = a.ready /\ b.heap = a.heap
      /\ b.epoch = a.epoch
  BY DEF Sound, Allocators
<1> HIDE DEF b
<1>2. \A p \in Pages : (f[p].state = "FREE") <=> (a.page[p].state = "FREE")
  OBVIOUS
<1>3. \A p \in Pages : (f[p].state = "RECLAIM_PENDING") =>
                           f[p] = a.page[p]
  OBVIOUS
<1>4. \A p \in Pages : (a.page[p].state = "RECLAIM_PENDING") => f[p] = a.page[p]
  OBVIOUS
<1>5. b.ready = {p \in Pages : b.page[p].state = "FREE"}
  BY <1>1, <1>2 DEF Sound, AllocatorOK
<1>6. b.heap = {<<b.page[p].pend, p>> : p \in
                   {q \in Pages : b.page[q].state = "RECLAIM_PENDING"}}
  <2>1. {q \in Pages : b.page[q].state = "RECLAIM_PENDING"}
          = {q \in Pages : a.page[q].state = "RECLAIM_PENDING"}
    BY <1>1, <1>3, <1>4
  <2>2. \A p \in {q \in Pages : a.page[q].state = "RECLAIM_PENDING"} :
            b.page[p].pend = a.page[p].pend
    BY <1>1, <1>4
  <2> QED
    BY <1>1, <2>1, <2>2 DEF Sound, AllocatorOK
<1> QED
  BY <1>1, <1>5, <1>6 DEF Sound, AllocatorOK, b

\* Pages may also become RECLAIM_PENDING if they are pushed on the heap.
LEMMA DeferredLists ==
    ASSUME NEW a, Sound(a), NEW f \in [Pages -> Metas],
           \A p \in Pages : /\ PageOK(f[p])
                            /\ f[p] = a.page[p] \/
                               /\ f[p].state # "FREE"
                               /\ a.page[p].state \in {"RESERVED", "LIVE"}
    PROVE  Sound(Changed(a, f))
<1> DEFINE new == {q \in Pages : /\ f[q].state = "RECLAIM_PENDING"
                                 /\ a.page[q].state # "RECLAIM_PENDING"}
           pushed == {<<f[p].pend, p>> : p \in new}
           b == Changed(a, f)
<1>1. pushed \subseteq (Nat \cup {NoEpoch}) \X Pages
  BY DEF Metas
<1>2. /\ b \in Allocators /\ b.page = f /\ b.ready = a.ready
      /\ b.heap = a.heap \cup pushed /\ b.epoch = a.epoch
  BY Zenon, <1>1 DEF Sound, Allocators, Changed
<1> HIDE DEF b
<1>3. \A p \in Pages : (f[p].state = "FREE") <=> (a.page[p].state = "FREE")
  OBVIOUS
<1>4. \A p \in Pages : (a.page[p].state = "RECLAIM_PENDING") => f[p] = a.page[p]
  OBVIOUS
<1>5. b.ready = {p \in Pages : b.page[p].state = "FREE"}
  BY <1>2, <1>3 DEF Sound, AllocatorOK
<1>6. b.heap = {<<b.page[p].pend, p>> : p \in
                   {q \in Pages : b.page[q].state = "RECLAIM_PENDING"}}
  <2> DEFINE old == {q \in Pages : a.page[q].state = "RECLAIM_PENDING"}
  <2>1. a.heap = {<<a.page[p].pend, p>> : p \in old}
    BY DEF Sound, AllocatorOK
  <2>2. \A p \in old : a.page[p].pend = f[p].pend
    BY <1>4
  <2>3. {q \in Pages : f[q].state = "RECLAIM_PENDING"} = old \cup new
    BY <1>4
  <2>4. a.heap = {<<f[p].pend, p>> : p \in old}
    BY <2>1, <2>2
  <2> HIDE DEF old, new
  <2>5. a.heap \cup pushed = {<<f[p].pend, p>> : p \in old \cup new}
    BY <2>4
  <2> QED
    BY <1>2, <2>3, <2>5
<1> QED
  BY SMTT(60), <1>2, <1>5, <1>6 DEF Sound, AllocatorOK, b

-----------------------------------------------------------------------------
(* The operations *)

LEMMA RaiseSound ==
    ASSUME NEW a, Sound(a)
    PROVE  Sound(Raise(a))
<1> DEFINE b == Raise(a)
<1>1. /\ b \in Allocators /\ b.page = a.page /\ b.ready = a.ready
      /\ b.heap = a.heap /\ b.epoch = a.epoch
  BY Zenon DEF Sound, Allocators, Raise
<1> HIDE DEF b
<1>2. AllocatorOK(b)
  BY <1>1 DEF Sound, AllocatorOK
<1> QED
  BY <1>1, <1>2 DEF Sound, b

\* What an operation may assume of the pages of a sound allocator.
LEMMA PagesSound ==
    ASSUME NEW a, Sound(a), NEW p \in Pages
    PROVE  a.page[p] \in Metas /\ PageOK(a.page[p])
  BY DEF Sound, Allocators, AllocatorOK

LEMMA ReclaimCompletedSound ==
    ASSUME NEW a, Sound(a)
    PROVE  Sound(ReclaimCompleted(a))
<1> DEFINE f == [p \in Pages |-> IF p \in Due(a) THEN NewPage ELSE a.page[p]]
           b == [a EXCEPT !.page = f, !.ready = @ \cup Due(a),
                          !.heap = {h \in @ : h[1] > a.epoch}]
<1>1. SUFFICES Sound(b)
  BY RaiseSound DEF ReclaimCompleted
<1>2. Due(a) \subseteq Pages
  BY DEF Due
<1>3. f \in [Pages -> Metas] /\ \A p \in Pages : PageOK(f[p])
  BY NewPageOK, PagesSound
<1>4. /\ b \in Allocators /\ b.page = f /\ b.ready = a.ready \cup Due(a)
      /\ b.heap = {h \in a.heap : h[1] > a.epoch} /\ b.epoch = a.epoch
  BY Zenon, <1>2, <1>3 DEF Sound, Allocators
<1>5. \A p \in Pages : p \in Due(a) <=>
          a.page[p].state = "RECLAIM_PENDING" /\ a.page[p].pend <= a.epoch
  BY DEF Due, Sound, AllocatorOK
<1>6. \A p \in Pages : f[p] = IF p \in Due(a) THEN NewPage ELSE a.page[p]
  OBVIOUS
<1> HIDE DEF f, b
<1>7. b.ready = {p \in Pages : b.page[p].state = "FREE"}
  BY <1>2, <1>4, <1>6, NewPageOK DEF Sound, AllocatorOK
<1>8. b.heap = {<<b.page[p].pend, p>> : p \in
                   {q \in Pages : b.page[q].state = "RECLAIM_PENDING"}}
  <2> DEFINE old == {q \in Pages : a.page[q].state = "RECLAIM_PENDING"}
             left == {q \in Pages : b.page[q].state = "RECLAIM_PENDING"}
  <2>1. a.heap = {<<a.page[p].pend, p>> : p \in old}
    BY DEF Sound, AllocatorOK
  <2>2. \A p \in old : a.page[p].pend \in Nat /\ a.epoch \in Nat
    BY SMTT(60), PagesSound DEF PageOK, Metas, Sound, Allocators
  <2>3. left = {q \in old : a.page[q].pend > a.epoch}
    BY <1>4, <1>5, <1>6, <2>2, NewPageOK
  <2>4. \A p \in left : b.page[p].pend = a.page[p].pend
    BY <1>4, <1>5, <1>6, <2>2, <2>3
  <2> HIDE DEF old, left
  <2>5. {h \in a.heap : h[1] > a.epoch} = {<<a.page[p].pend, p>> : p \in left}
    BY <2>1, <2>3
  <2>6. {<<a.page[p].pend, p>> : p \in left} = {<<b.page[p].pend, p>> : p \in left}
    BY <2>4
  <2> QED
    BY <1>4, <2>5, <2>6 DEF left
<1> QED
  BY <1>3, <1>4, <1>7, <1>8 DEF Sound, AllocatorOK

LEMMA AdvanceEpochSound ==
    ASSUME NEW a, Sound(a), NEW e \in Nat
    PROVE  Sound(AdvanceEpoch(a, e))
<1> DEFINE b == [a EXCEPT !.epoch = e]
<1>1. /\ b \in Allocators /\ b.page = a.page /\ b.ready = a.ready
      /\ b.heap = a.heap /\ b.epoch = e
  BY DEF Sound, Allocators
<1> HIDE DEF b
<1>2. AllocatorOK(b)
  BY <1>1 DEF Sound, AllocatorOK
<1> QED
  BY <1>1, <1>2, ReclaimCompletedSound DEF Sound, AdvanceEpoch, b

LEMMA AllocateSound ==
    ASSUME NEW a, Sound(a), NEW S, S \subseteq a.ready
    PROVE  Sound(Allocate(a, S))
<1> DEFINE new == [NewPage EXCEPT !.state = "RESERVED", !.resv = 1]
           f == [p \in Pages |-> IF p \in S THEN new ELSE a.page[p]]
           b == Allocate(a, S)
<1>0. /\ NewPage \in Metas
      /\ NewPage.req = 0 /\ NewPage.pin = 0 /\ NewPage.infl = 0
      /\ NewPage.valid = 0 /\ NewPage.pend = NoEpoch
  BY NewPageOK DEF NewPage
<1>a. /\ new.state = "RESERVED" /\ new.resv = 1 /\ new.req = 0 /\ new.pin = 0
      /\ new.infl = 0 /\ new.valid = 0 /\ new.pend = NoEpoch /\ new \in Metas
  BY Zenon, <1>0 DEF Metas, PageStates
<1> HIDE DEF new
<1>1. new \in Metas /\ PageOK(new) /\ new.state = "RESERVED"
  BY <1>a, AllocatorAssumption DEF PageOK, PageStates, NoEpoch, Unowned
<1>2. f \in [Pages -> Metas] /\ \A p \in Pages : PageOK(f[p])
  BY <1>1, PagesSound
<1>3. /\ b \in Allocators /\ b.page = f /\ b.ready = a.ready \ S
      /\ b.heap = a.heap /\ b.epoch = a.epoch
  BY Zenon, <1>2 DEF Sound, Allocators, Allocate, new
<1>4. \A p \in Pages : f[p] = IF p \in S THEN new ELSE a.page[p]
  OBVIOUS
<1>5. \A p \in S : p \in Pages /\ a.page[p].state = "FREE"
  BY DEF Sound, AllocatorOK
<1> HIDE DEF f, b
<1>6. b.ready = {p \in Pages : b.page[p].state = "FREE"}
  BY <1>1, <1>3, <1>4 DEF Sound, AllocatorOK
<1>7. {q \in Pages : b.page[q].state = "RECLAIM_PENDING"}
        = {q \in Pages : a.page[q].state = "RECLAIM_PENDING"}
  BY <1>1, <1>3, <1>4, <1>5
<1>8. \A p \in {q \in Pages : a.page[q].state = "RECLAIM_PENDING"} :
          b.page[p].pend = a.page[p].pend
  BY <1>3, <1>4, <1>5
<1>9. b.heap = {<<b.page[p].pend, p>> : p \in
                   {q \in Pages : b.page[q].state = "RECLAIM_PENDING"}}
  BY <1>3, <1>7, <1>8 DEF Sound, AllocatorOK
<1> QED
  BY <1>2, <1>3, <1>6, <1>9 DEF Sound, AllocatorOK, b

LEMMA RollbackReservedSound ==
    ASSUME NEW a, Sound(a), NEW S \in SUBSET Pages
    PROVE  Sound(RollbackReserved(a, S))
<1> DEFINE f == [p \in Pages |-> IF p \in S THEN NewPage ELSE a.page[p]]
           b == [a EXCEPT !.page = f, !.ready = @ \cup S]
<1>1. SUFFICES ASSUME InState(a, S, {"RESERVED"})
               PROVE  Sound(b)
  BY RaiseSound DEF RollbackReserved
<1>2. f \in [Pages -> Metas] /\ \A p \in Pages : PageOK(f[p])
  BY NewPageOK, PagesSound
<1>3. /\ b \in Allocators /\ b.page = f /\ b.ready = a.ready \cup S
      /\ b.heap = a.heap /\ b.epoch = a.epoch
  BY Zenon, <1>2 DEF Sound, Allocators
<1>4. \A p \in Pages : f[p] = IF p \in S THEN NewPage ELSE a.page[p]
  OBVIOUS
<1>5. \A p \in S : a.page[p].state = "RESERVED"
  BY <1>1 DEF InState
<1> HIDE DEF f, b
<1>6. b.ready = {p \in Pages : b.page[p].state = "FREE"}
  BY <1>3, <1>4, NewPageOK DEF Sound, AllocatorOK
<1>7. {q \in Pages : b.page[q].state = "RECLAIM_PENDING"}
        = {q \in Pages : a.page[q].state = "RECLAIM_PENDING"}
  BY <1>3, <1>4, <1>5, NewPageOK
<1>8. \A p \in {q \in Pages : a.page[q].state = "RECLAIM_PENDING"} :
          b.page[p].pend = a.page[p].pend
  BY <1>3, <1>4, <1>5
<1>9. b.heap = {<<b.page[p].pend, p>> : p \in
                   {q \in Pages : b.page[q].state = "RECLAIM_PENDING"}}
  BY <1>3, <1>7, <1>8 DEF Sound, AllocatorOK
<1> QED
  BY <1>2, <1>3, <1>6, <1>9 DEF Sound, AllocatorOK

LEMMA CommittedPage ==
    ASSUME NEW m \in Metas, PageOK(m), m.state = "RESERVED"
    PROVE  LET n == [m EXCEPT !.resv = 0, !.req = @ + 1, !.state = "LIVE"]
           IN  n \in Metas /\ PageOK(n) /\ n.state = "LIVE"
<1> DEFINE with(k) == [m EXCEPT !.resv = 0, !.req = k, !.state = "LIVE"]
<1>1. ASSUME NEW k \in Nat, k > 0
      PROVE  with(k) \in Metas /\ PageOK(with(k)) /\ with(k).state = "LIVE"
  <2> DEFINE n == with(k)
  <2>1. n \in Metas
    BY Zenon, <1>1 DEF Metas, PageStates
  <2>2. /\ n.state = "LIVE" /\ n.resv = 0 /\ n.req = k /\ n.pin = m.pin
        /\ n.infl = m.infl /\ n.valid = m.valid /\ n.pend = m.pend
    BY <1>1 DEF Metas
  <2> HIDE DEF n
  <2>3. PageOK(n)
    BY <1>1, <2>1, <2>2 DEF Metas, PageOK, Unowned, PageStates
  <2> QED
    BY <2>1, <2>2, <2>3 DEF n
<1>2. m.req + 1 \in Nat /\ m.req + 1 > 0
  BY DEF Metas
<1> QED
  BY Zenon, <1>1, <1>2

LEMMA CommitReservedSound ==
    ASSUME NEW a, Sound(a), NEW S
    PROVE  Sound(CommitReserved(a, S))
<1> DEFINE after(m) == [m EXCEPT !.resv = 0, !.req = @ + 1, !.state = "LIVE"]
           f == [p \in Pages |-> IF p \in S THEN after(a.page[p]) ELSE a.page[p]]
<1>1. SUFFICES ASSUME InState(a, S, {"RESERVED"})
               PROVE  Sound([a EXCEPT !.page = f])
  BY Zenon, RaiseSound DEF CommitReserved
<1>2. \A p \in S \cap Pages :
                    /\ a.page[p].state = "RESERVED"
                    /\ after(a.page[p]) \in Metas /\ PageOK(after(a.page[p]))
                    /\ after(a.page[p]).state = "LIVE"
  BY Zenon, <1>1, PagesSound, CommittedPage DEF InState
<1>3. \A p \in Pages : f[p] = IF p \in S THEN after(a.page[p]) ELSE a.page[p]
  OBVIOUS
<1> HIDE DEF after
<1>4. f \in [Pages -> Metas]
  BY <1>2, PagesSound
<1> HIDE DEF f
<1>5. \A p \in Pages : PageOK(f[p])
  BY <1>2, <1>3, PagesSound
<1> QED
  BY <1>2, <1>3, <1>4, <1>5, KeepLists

LEMMA MarkInflightSound ==
    ASSUME NEW a, Sound(a), NEW S
    PROVE  Sound(MarkInflight(a, S))
<1> DEFINE f == [p \in Pages |-> IF p \in S
                                 THEN [a.page[p] EXCEPT !.infl = @ + 1]
                                 ELSE a.page[p]]
<1>1. SUFFICES ASSUME InState(a, S, {"RESERVED", "LIVE"})
               PROVE  Sound([a EXCEPT !.page = f])
  BY RaiseSound DEF MarkInflight
<1>2. \A p \in S \cap Pages :
                    /\ f[p] \in Metas /\ PageOK(f[p])
                    /\ f[p].state \in {"RESERVED", "LIVE"}
                    /\ a.page[p].state \in {"RESERVED", "LIVE"}
  <2> TAKE p \in S \cap Pages
  <2> DEFINE m == a.page[p]
             n == [m EXCEPT !.infl = @ + 1]
  <2>1. f[p] = n /\ m \in Metas /\ PageOK(m)
    BY PagesSound
  <2>2. m.state \in {"RESERVED", "LIVE"}
    BY <1>1 DEF InState
  <2> HIDE DEF m
  <2>3. n \in Metas /\ PageOK(n) /\ n.state \in {"RESERVED", "LIVE"}
    BY <2>1, <2>2, AllocatorAssumption DEF Metas, PageOK, Unowned, PageStates, NoEpoch
  <2> QED
    BY Zenon, <2>1, <2>2, <2>3 DEF m
<1>3. f \in [Pages -> Metas] /\ \A p \in Pages : PageOK(f[p])
  BY <1>2, PagesSound
<1>4. \A p \in Pages \ S : f[p] = a.page[p]
  OBVIOUS
<1> HIDE DEF f
<1> QED
  BY <1>2, <1>3, <1>4, KeepLists

LEMMA SetValidTokensSound ==
    ASSUME NEW a, Sound(a), NEW S, NEW v
    PROVE  Sound(SetValidTokens(a, S, v))
<1> DEFINE f == [p \in Pages |-> IF p \in S
                                 THEN [a.page[p] EXCEPT !.valid = v[p]]
                                 ELSE a.page[p]]
<1>1. SUFFICES ASSUME InState(a, S, {"RESERVED", "LIVE"}), \A p \in S : v[p] \in 0 .. PageSize
               PROVE  Sound([a EXCEPT !.page = f])
  BY RaiseSound DEF SetValidTokens
<1>2. \A p \in S \cap Pages :
                    /\ f[p] \in Metas /\ PageOK(f[p])
                    /\ f[p].state \in {"RESERVED", "LIVE"}
                    /\ a.page[p].state \in {"RESERVED", "LIVE"}
  <2> TAKE p \in S \cap Pages
  <2> DEFINE m == a.page[p]
             n == [m EXCEPT !.valid = v[p]]
  <2>1. f[p] = n /\ m \in Metas /\ PageOK(m)
    BY PagesSound
  <2>2. m.state \in {"RESERVED", "LIVE"} /\ v[p] \in 0 .. PageSize
    BY <1>1 DEF InState
  <2> HIDE DEF m
  <2>3. n \in Metas /\ PageOK(n) /\ n.state \in {"RESERVED", "LIVE"}
    BY <2>1, <2>2, AllocatorAssumption DEF Metas, PageOK, Unowned, PageStates, NoEpoch
  <2> QED
    BY Zenon, <2>1, <2>2, <2>3 DEF m
<1>3. f \in [Pages -> Metas] /\ \A p \in Pages : PageOK(f[p])
  BY <1>2, PagesSound
<1>4. \A p \in Pages \ S : f[p] = a.page[p]
  OBVIOUS
<1> HIDE DEF f
<1> QED
  BY <1>2, <1>3, <1>4, KeepLists

LEMMA AcquireRequestRefsSound ==
    ASSUME NEW a, Sound(a), NEW S
    PROVE  Sound(AcquireRequestRefs(a, S))
<1> DEFINE f == [p \in Pages |-> IF p \in S
                                 THEN [a.page[p] EXCEPT !.req = @ + 1]
                                 ELSE a.page[p]]
<1>1. SUFFICES ASSUME InState(a, S, {"LIVE"})
               PROVE  Sound([a EXCEPT !.page = f])
  BY RaiseSound DEF AcquireRequestRefs
<1>2. \A p \in S \cap Pages :
                    /\ f[p] \in Metas /\ PageOK(f[p])
                    /\ f[p].state \in {"RESERVED", "LIVE"}
                    /\ a.page[p].state \in {"RESERVED", "LIVE"}
  <2> TAKE p \in S \cap Pages
  <2> DEFINE m == a.page[p]
             n == [m EXCEPT !.req = @ + 1]
  <2>1. f[p] = n /\ m \in Metas /\ PageOK(m)
    BY PagesSound
  <2>2. m.state = "LIVE"
    BY <1>1 DEF InState
  <2> HIDE DEF m
  <2>3. n \in Metas /\ PageOK(n) /\ n.state \in {"RESERVED", "LIVE"}
    BY <2>1, <2>2, AllocatorAssumption DEF Metas, PageOK, Unowned, PageStates, NoEpoch
  <2> QED
    BY Zenon, <2>1, <2>2, <2>3 DEF m
<1>3. f \in [Pages -> Metas] /\ \A p \in Pages : PageOK(f[p])
  BY <1>2, PagesSound
<1>4. \A p \in Pages \ S : f[p] = a.page[p]
  OBVIOUS
<1> HIDE DEF f
<1> QED
  BY <1>2, <1>3, <1>4, KeepLists

LEMMA PinPagesSound ==
    ASSUME NEW a, Sound(a), NEW S
    PROVE  Sound(PinPages(a, S))
<1> DEFINE f == [p \in Pages |-> IF p \in S
                                 THEN [a.page[p] EXCEPT !.pin = @ + 1]
                                 ELSE a.page[p]]
<1>1. SUFFICES ASSUME InState(a, S, {"LIVE"})
               PROVE  Sound([a EXCEPT !.page = f])
  BY RaiseSound DEF PinPages
<1>2. \A p \in S \cap Pages :
                    /\ f[p] \in Metas /\ PageOK(f[p])
                    /\ f[p].state \in {"RESERVED", "LIVE"}
                    /\ a.page[p].state \in {"RESERVED", "LIVE"}
  <2> TAKE p \in S \cap Pages
  <2> DEFINE m == a.page[p]
             n == [m EXCEPT !.pin = @ + 1]
  <2>1. f[p] = n /\ m \in Metas /\ PageOK(m)
    BY PagesSound
  <2>2. m.state = "LIVE"
    BY <1>1 DEF InState
  <2> HIDE DEF m
  <2>3. n \in Metas /\ PageOK(n) /\ n.state \in {"RESERVED", "LIVE"}
    BY <2>1, <2>2, AllocatorAssumption DEF Metas, PageOK, Unowned, PageStates, NoEpoch
  <2> QED
    BY Zenon, <2>1, <2>2, <2>3 DEF m
<1>3. f \in [Pages -> Metas] /\ \A p \in Pages : PageOK(f[p])
  BY <1>2, PagesSound
<1>4. \A p \in Pages \ S : f[p] = a.page[p]
  OBVIOUS
<1> HIDE DEF f
<1> QED
  BY <1>2, <1>3, <1>4, KeepLists

LEMMA AbandonReservedSound ==
    ASSUME NEW a, Sound(a), NEW S, NEW e \in Nat
    PROVE  Sound(AbandonReserved(a, S, e))
<1> DEFINE f == [p \in Pages |-> IF p \in S
                                 THEN MarkForReclaim([a.page[p] EXCEPT !.resv = 0], e)
                                 ELSE a.page[p]]
<1>1. SUFFICES ASSUME InState(a, S, {"RESERVED"}), \A p \in S : a.page[p].resv = 1
               PROVE  Sound(Changed(a, f))
  BY RaiseSound DEF AbandonReserved
<1>2. \A p \in S \cap Pages :
                    /\ f[p] \in Metas /\ PageOK(f[p])
                    /\ f[p].state # "FREE"
                    /\ a.page[p].state \in {"RESERVED", "LIVE"}
  <2> TAKE p \in S \cap Pages
  <2> DEFINE m == a.page[p]
             n == [m EXCEPT !.resv = 0]
  <2>1. f[p] = MarkForReclaim(n, e) /\ m \in Metas /\ PageOK(m)
    BY PagesSound
  <2>2. m.state = "RESERVED" /\ m.resv = 1
    BY <1>1 DEF InState
  <2> HIDE DEF m
  <2>3. Loosened(n)
    BY <2>1, <2>2 DEF Metas, PageOK, Unowned, PageStates, Loosened
  <2>4. e \in Nat
    OBVIOUS
  <2> QED
    BY <2>1, <2>2, <2>3, <2>4, MarkedPage DEF m
<1>3. f \in [Pages -> Metas] /\ \A p \in Pages : PageOK(f[p])
  BY <1>2, PagesSound
<1>4. \A p \in Pages \ S : f[p] = a.page[p]
  OBVIOUS
<1> HIDE DEF f
<1> QED
  BY <1>2, <1>3, <1>4, DeferredLists

LEMMA ReleaseRequestRefsSound ==
    ASSUME NEW a, Sound(a), NEW S, NEW n,
           NEW e \in [Pages -> Nat]
    PROVE  Sound(ReleaseRequestRefs(a, S, n, e))
<1> DEFINE f == [p \in Pages |-> IF p \in S
                                 THEN MarkForReclaim([a.page[p] EXCEPT !.req = @ - n[p]], e[p])
                                 ELSE a.page[p]]
<1>1. SUFFICES ASSUME InState(a, S, {"LIVE"}),
                      \A p \in S : n[p] \in 1 .. a.page[p].req
               PROVE  Sound(Changed(a, f))
  BY RaiseSound DEF ReleaseRequestRefs
<1>2. \A p \in S \cap Pages :
                    /\ f[p] \in Metas /\ PageOK(f[p])
                    /\ f[p].state # "FREE"
                    /\ a.page[p].state \in {"RESERVED", "LIVE"}
  <2> TAKE p \in S \cap Pages
  <2> DEFINE m == a.page[p]
             less == [m EXCEPT !.req = @ - n[p]]
  <2>1. f[p] = MarkForReclaim(less, e[p]) /\ m \in Metas /\ PageOK(m)
    BY PagesSound
  <2>2. m.state = "LIVE" /\ n[p] \in 1 .. m.req
    BY <1>1 DEF InState
  <2> HIDE DEF m
  <2>3. Loosened(less)
    BY <2>1, <2>2 DEF Metas, PageOK, Unowned, PageStates, Loosened
  <2>4. e[p] \in Nat
    OBVIOUS
  <2> QED
    BY <2>1, <2>2, <2>3, <2>4, MarkedPage DEF m
<1>3. f \in [Pages -> Metas] /\ \A p \in Pages : PageOK(f[p])
  BY <1>2, PagesSound
<1>4. \A p \in Pages \ S : f[p] = a.page[p]
  OBVIOUS
<1> HIDE DEF f
<1> QED
  BY <1>2, <1>3, <1>4, DeferredLists

LEMMA UnpinPagesSound ==
    ASSUME NEW a, Sound(a), NEW S, NEW e \in Nat
    PROVE  Sound(UnpinPages(a, S, e))
<1> DEFINE f == [p \in Pages |-> IF p \in S
                                 THEN MarkForReclaim([a.page[p] EXCEPT !.pin = @ - 1], e)
                                 ELSE a.page[p]]
<1>1. SUFFICES ASSUME InState(a, S, {"LIVE"}), \A p \in S : a.page[p].pin > 0
               PROVE  Sound(Changed(a, f))
  BY RaiseSound DEF UnpinPages
<1>2. \A p \in S \cap Pages :
                    /\ f[p] \in Metas /\ PageOK(f[p])
                    /\ f[p].state # "FREE"
                    /\ a.page[p].state \in {"RESERVED", "LIVE"}
  <2> TAKE p \in S \cap Pages
  <2> DEFINE m == a.page[p]
             n == [m EXCEPT !.pin = @ - 1]
  <2>1. f[p] = MarkForReclaim(n, e) /\ m \in Metas /\ PageOK(m)
    BY PagesSound
  <2>2. m.state = "LIVE" /\ m.pin > 0
    BY <1>1 DEF InState
  <2> HIDE DEF m
  <2>3. Loosened(n)
    BY <2>1, <2>2 DEF Metas, PageOK, Unowned, PageStates, Loosened
  <2>4. e \in Nat
    OBVIOUS
  <2> QED
    BY <2>1, <2>2, <2>3, <2>4, MarkedPage DEF m
<1>3. f \in [Pages -> Metas] /\ \A p \in Pages : PageOK(f[p])
  BY <1>2, PagesSound
<1>4. \A p \in Pages \ S : f[p] = a.page[p]
  OBVIOUS
<1> HIDE DEF f
<1> QED
  BY <1>2, <1>3, <1>4, DeferredLists

LEMMA UnmarkInflightSound ==
    ASSUME NEW a, Sound(a), NEW S
    PROVE  Sound(UnmarkInflight(a, S))
<1> DEFINE after(m) == IF Unowned(m) /\ m.pend # NoEpoch
                       THEN MarkForReclaim(m, m.pend) ELSE m
           f == [p \in Pages |-> IF p \in S
                                 THEN after([a.page[p] EXCEPT !.infl = @ - 1])
                                 ELSE a.page[p]]
<1>1. SUFFICES ASSUME InState(a, S, {"RESERVED", "LIVE"}),
                      \A p \in S : a.page[p].infl > 0
               PROVE  Sound(Changed(a, f))
  BY RaiseSound DEF UnmarkInflight
<1>2. \A p \in S \cap Pages :
                    /\ f[p] \in Metas /\ PageOK(f[p])
                    /\ f[p].state # "FREE"
                    /\ a.page[p].state \in {"RESERVED", "LIVE"}
  <2> TAKE p \in S \cap Pages
  <2> DEFINE m == a.page[p]
             n == [m EXCEPT !.infl = @ - 1]
  <2>1. f[p] = after(n) /\ m \in Metas /\ PageOK(m)
    BY PagesSound
  <2>2. m.state \in {"RESERVED", "LIVE"} /\ m.infl > 0
    BY <1>1 DEF InState
  <2> HIDE DEF m
  <2>3. Loosened(n) /\ n.pend = m.pend /\ n.state = m.state
        /\ (Unowned(n) <=> Unowned(m))
    BY <2>1, <2>2 DEF Metas, PageOK, Unowned, PageStates, Loosened
  <2> HIDE DEF n
  <2>4. CASE Unowned(n) /\ n.pend # NoEpoch
    <3>1. n.pend \in Nat
      BY <2>3, <2>4 DEF Loosened, Metas
    <3> QED
      BY <2>1, <2>2, <2>3, <2>4, <3>1, MarkedPage DEF m
  <2>5. CASE ~(Unowned(n) /\ n.pend # NoEpoch)
    <3>1. ~Unowned(n)
      BY <2>1, <2>2, <2>3, <2>5 DEF PageOK
    <3>2. PageOK(n) /\ n \in Metas
      BY <3>1, <2>2, <2>3 DEF Loosened, PageOK, Metas, PageStates
    <3> QED
      BY <2>1, <2>2, <2>3, <2>5, <3>2 DEF m
  <2> QED
    BY SMTT(60), <2>4, <2>5
<1>3. f \in [Pages -> Metas] /\ \A p \in Pages : PageOK(f[p])
  BY <1>2, PagesSound
<1>4. \A p \in Pages \ S : f[p] = a.page[p]
  OBVIOUS
<1> HIDE DEF f
<1> QED
  BY <1>2, <1>3, <1>4, DeferredLists

-----------------------------------------------------------------------------
(* The manager *)

SeqsOK(f) ==
    /\ DOMAIN f = Slots
    /\ \A s \in Slots : "relEpoch" \in DOMAIN f[s] /\ f[s].relEpoch \in Nat

StepsOK(f) ==
    /\ DOMAIN f = Steps
    /\ \A t \in Steps : "resv" \in DOMAIN f[t] /\ \E S : f[t].resv \in Seq(S)

\* The inductive invariant.
Books == limit \in Settings /\ Sound(pool) /\ SeqsOK(seq) /\ StepsOK(step)

\* A set of reservations has a last one.
LEMMA MaxExists ==
    ASSUME NEW n \in Nat, NEW T, T \subseteq 1 .. n, T # {}
    PROVE  \E i \in T : \A j \in T : j <= i
<1> DEFINE R == {ss \in Nat \X Nat : ss[1] < ss[2]}
           D == {n - i : i \in T}
<1>1. IsWellFoundedOn(R, Nat)
  BY NatLessThanWellFounded DEF OpToRel
<1>2. D \subseteq Nat /\ D # {}
  <2>1. \A i \in T : n - i \in Nat
    OBVIOUS
  <2>2. PICK i \in T : TRUE
    BY Zenon
  <2>3. n - i \in D
    OBVIOUS
  <2> QED
    BY <2>1, <2>3
<1> HIDE DEF D
<1>3. \E x \in D : \A y \in D : ~(<<y, x>> \in R)
  <2> HIDE DEF R
  <2> QED
    BY Zenon, <1>1, <1>2, WFMin
<1>4. PICK x \in D : \A y \in D : ~(y < x)
  BY Zenon, <1>2, <1>3
<1>5. PICK i \in T : x = n - i
  BY <1>4 DEF D
<1>6. \A j \in T : n - j \in D
  BY DEF D
<1>7. \A j \in T : j <= i
  BY <1>4, <1>5, <1>6
<1> QED
  BY <1>5, <1>7

LEMMA DroppedSound ==
    ASSUME NEW a, Sound(a), NEW n \in Nat, NEW list, DOMAIN list = 1 .. n,
           NEW S, NEW epochOf, \A s \in S : epochOf[s] \in Nat
    PROVE  Sound(Dropped(a, list, S, epochOf))
<1> DEFINE holders(p) == {i \in DOMAIN list :
                             list[i] \in S /\ p \in PagesOf(seq[list[i]].table)}
           last(p) == CHOOSE i \in holders(p) : \A j \in holders(p) : j <= i
           e == [p \in Pages |-> IF holders(p) = {} THEN 0
                                 ELSE epochOf[list[last(p)]]]
<1>1. ASSUME NEW p \in Pages, holders(p) # {}
      PROVE  epochOf[list[last(p)]] \in Nat
  <2>1. holders(p) \subseteq 1 .. n
    OBVIOUS
  <2>2. \A i \in holders(p) : list[i] \in S
    OBVIOUS
  <2> HIDE DEF holders
  <2>3. last(p) \in holders(p)
    BY SMTT(60), <1>1, <2>1, MaxExists
  <2> QED
    BY <2>2, <2>3
<1>2. e \in [Pages -> Nat]
  <2> HIDE DEF holders, last
  <2> QED
    BY <1>1
<1>3. Dropped(a, list, S, epochOf)
        = ReleaseRequestRefs(a, UNION {PagesOf(seq[s].table) : s \in S},
              [p \in Pages |-> Cardinality(holders(p))], e)
  BY DEF Dropped
<1> HIDE DEF e
<1> QED
  BY <1>2, <1>3, ReleaseRequestRefsSound

LEMMA DroppedNowSound ==
    ASSUME Books, NEW s \in Slots
    PROVE  Sound(DroppedNow(s))
<1>1. pool.epoch \in Nat
  BY DEF Books, Sound, Allocators
<1>2. DOMAIN <<s>> = 1 .. 1
  OBVIOUS
<1> QED
  BY Zenon, <1>1, <1>2, DroppedSound DEF Books, DroppedNow

LEMMA ReleasedSound ==
    ASSUME StepsOK(step), NEW t \in Steps, NEW a, Sound(a),
           NEW epochOf, \A s \in Slots : epochOf[s] \in Nat
    PROVE  Sound(Released(a, t, epochOf))
<1> DEFINE list == [i \in DOMAIN step[t].resv |-> step[t].resv[i].seq]
<1>1. PICK S : step[t].resv \in Seq(S)
  BY DEF StepsOK
<1>2. Len(step[t].resv) \in Nat /\ DOMAIN list = 1 .. Len(step[t].resv)
  BY <1>1
<1>3. \A s \in Leaving(t) : epochOf[s] \in Nat
  BY DEF Leaving
<1> HIDE DEF list
<1>4. Sound(Dropped(a, list, Leaving(t), epochOf))
  BY <1>2, <1>3, DroppedSound
<1> QED
  BY <1>4 DEF Released, list

LEMMA EpochsAreNaturals ==
    ASSUME Books
    PROVE  /\ pool.epoch \in Nat
           /\ limit.epoch \in Nat
           /\ limit.delays \subseteq Nat
           /\ \A s \in Slots : seq[s].relEpoch \in Nat
  BY ManagerAssumption DEF Books, Sound, Allocators, SeqsOK

LEMMA NewRecords ==
    /\ "relEpoch" \in DOMAIN NewSeq /\ NewSeq.relEpoch = 0
    /\ "resv" \in DOMAIN NewStep /\ NewStep.resv \in Seq({})
  BY DEF NewSeq, NewStep

\* The end of a transaction or lease leaves the slots and steps in order.
LEMMA StepCleared ==
    ASSUME StepsOK(step), NEW t \in Steps
    PROVE  StepsOK([step EXCEPT ![t] = NewStep])
  BY NewRecords DEF StepsOK

LEMMA StageSet ==
    ASSUME StepsOK(step), NEW t \in Steps, NEW v
    PROVE  StepsOK([step EXCEPT ![t].stage = v])
  BY DEF StepsOK

LEMMA DetachedKeeps ==
    ASSUME SeqsOK(seq), NEW t \in Steps, NEW failure
    PROVE  SeqsOK(Detached(t, failure))
<1>1. \A k : \A s \in Slots :
        LET x == [seq[s] EXCEPT !.pending = NoStep, !.lease = NoStep, !.moved = FALSE,
                                !.blocked = k]
        IN  "relEpoch" \in DOMAIN x /\ x.relEpoch \in Nat
  BY DEF SeqsOK
<1> QED
  BY <1>1, NewRecords DEF SeqsOK, Detached

LEMMA RollBackKeepsBooks ==
    ASSUME Books, NEW t \in Steps, RollBack(t)
    PROVE  Sound(pool') /\ SeqsOK(seq') /\ StepsOK(step')
<1> DEFINE a == RollbackReserved(pool, AllocatedPages(t))
           e == [s \in Slots |-> seq[s].relEpoch]
<1>1. Sound(a)
  BY RollbackReservedSound DEF Books, AllocatedPages
<1>2. \A s \in Slots : e[s] \in Nat
  BY EpochsAreNaturals
<1>3. pool' = Released(a, t, e)
  BY DEF RollBack
<1> HIDE DEF a, e
<1>4. Sound(pool')
  BY <1>1, <1>2, <1>3, ReleasedSound DEF Books
<1> QED
  BY Zenon, <1>4, DetachedKeeps, StepCleared DEF RollBack, Books

\* What the ends of a lease have in common; the sequences are left to them.
LEMMA FinishKeepsPool ==
    ASSUME Books, NEW t \in Steps, NEW a, Sound(a), NEW safe \in Nat
    PROVE  Sound(Released(a, t, [s \in Slots |-> Later(seq[s].relEpoch, safe)]))
<1> DEFINE e == [s \in Slots |-> Later(seq[s].relEpoch, safe)]
<1>1. \A s \in Slots : e[s] \in Nat
  BY EpochsAreNaturals DEF Later
<1> HIDE DEF e
<1>2. Sound(Released(a, t, e))
  BY <1>1, ReleasedSound DEF Books
<1> QED
  BY <1>2 DEF e

-----------------------------------------------------------------------------
(* One lemma per operation *)

LEMMA CreateBooks ==
    ASSUME Books, NEW s \in Slots, CreateSequence(s)
    PROVE  Sound(pool') /\ SeqsOK(seq') /\ StepsOK(step')
<1>1. SeqsOK([seq EXCEPT ![s] = [NewSeq EXCEPT !.live = TRUE]])
  BY NewRecords DEF Books, SeqsOK
<1> QED
  BY <1>1 DEF Books, CreateSequence

LEMMA ReleaseBooks ==
    ASSUME Books, NEW s \in Slots, ReleaseSequence(s)
    PROVE  Sound(pool') /\ SeqsOK(seq') /\ StepsOK(step')
<1>1. CASE Busy(s)
  <2>1. SeqsOK([seq EXCEPT ![s].rel = TRUE,
                           ![s].relEpoch = Later(@, pool.epoch)])
    BY EpochsAreNaturals DEF Books, SeqsOK, Later
  <2> QED
    BY Zenon, <1>1, <2>1 DEF Books, ReleaseSequence
<1>2. CASE ~Busy(s)
  <2>1. SeqsOK([seq EXCEPT ![s] = NewSeq])
    BY NewRecords DEF Books, SeqsOK
  <2> QED
    BY Zenon, <1>2, <2>1, DroppedNowSound DEF Books, ReleaseSequence
<1> QED
  BY <1>1, <1>2

LEMMA PreemptBooks ==
    ASSUME Books, NEW s \in Slots, PreemptSequence(s)
    PROVE  Sound(pool') /\ SeqsOK(seq') /\ StepsOK(step')
<1>1. Sound(pool')
  BY SMTT(60), DroppedNowSound, ReclaimCompletedSound DEF PreemptSequence
<1>2. SeqsOK([seq EXCEPT ![s].table = <<>>, ![s].tokens = 0, ![s].moved = Bump(s)])
  BY DEF Books, SeqsOK
<1> QED
  BY SMTT(60), <1>1, <1>2 DEF Books, PreemptSequence

LEMMA TruncateBooks ==
    ASSUME Books, NEW s \in Slots, NEW n, TruncateSequence(s, n)
    PROVE  Sound(pool') /\ SeqsOK(seq') /\ StepsOK(step')
<1> DEFINE table == seq[s].table
           kept == Lay(table, n)
           gone == SubSeq(table, Len(kept) + 1, Len(table))
           tail == kept[Len(kept)]
           shrunk == IF /\ kept # <<>>
                        /\ tail.valid < table[Len(kept)].valid
                        /\ MayShrink(pool.page[tail.page])
                     THEN SetValidTokens(pool, {tail.page},
                                         [p \in Pages |-> tail.valid])
                     ELSE pool
           e == [p \in Pages |-> pool.epoch]
<1>1. Sound(shrunk)
  BY SMTT(60), SetValidTokensSound DEF Books
<1>2. e \in [Pages -> Nat]
  BY EpochsAreNaturals
<1>3. pool' = ReclaimCompleted(ReleaseRequestRefs(shrunk, PagesOf(gone),
                                   [p \in Pages |-> 1], e))
  BY Zenon DEF TruncateSequence
<1>4. SeqsOK([seq EXCEPT ![s].table = kept, ![s].tokens = n, ![s].moved = Bump(s)])
  BY DEF Books, SeqsOK
<1>5. SeqsOK(seq') /\ step' = step
  BY Zenon, <1>4 DEF TruncateSequence
<1> HIDE DEF shrunk, e, gone
<1>6. Sound(pool')
  BY <1>1, <1>2, <1>3, ReleaseRequestRefsSound, ReclaimCompletedSound
<1> QED
  BY <1>5, <1>6 DEF Books

LEMMA PinBooks ==
    ASSUME Books, NEW k \in Pubs, NEW s \in Slots, NEW n, PinPrefix(k, s, n)
    PROVE  Sound(pool') /\ SeqsOK(seq') /\ StepsOK(step')
  BY PinPagesSound DEF Books, PinPrefix

LEMMA UnpinBooks ==
    ASSUME Books, NEW k \in Pubs, UnpinPrefix(k)
    PROVE  Sound(pool') /\ SeqsOK(seq') /\ StepsOK(step')
  BY EpochsAreNaturals, UnpinPagesSound, ReclaimCompletedSound DEF Books, UnpinPrefix

LEMMA AttachedSeqs ==
    ASSUME Books, NEW s \in Slots, NEW table, NEW tokens
    PROVE  SeqsOK(Attached(s, table, tokens))
  BY DEF Books, SeqsOK, Attached

LEMMA AttachBooks ==
    ASSUME Books, NEW k \in Pubs, NEW s \in Slots, AttachPinnedPrefix(s, k)
    PROVE  Sound(pool') /\ SeqsOK(seq') /\ StepsOK(step')
  BY AttachedSeqs, AcquireRequestRefsSound DEF Books, AttachPinnedPrefix

LEMMA ForkBooks ==
    ASSUME Books, NEW source \in Slots, NEW s \in Slots, NEW n,
           ForkSequence(source, s, n)
    PROVE  Sound(pool') /\ SeqsOK(seq') /\ StepsOK(step')
<1> DEFINE S == PagesOf(Lay(seq[source].table, n))
           held == AcquireRequestRefs(PinPages(pool, S), S)
<1>1. Sound(held)
  BY PinPagesSound, AcquireRequestRefsSound DEF Books
<1>2. pool' = ReclaimCompleted(UnpinPages(held, S, pool.epoch))
  BY SMTT(60) DEF ForkSequence
<1>3. SeqsOK(seq') /\ step' = step
  BY SMTT(60), AttachedSeqs DEF ForkSequence
<1> HIDE DEF S, held
<1>4. Sound(pool')
  BY <1>1, <1>2, EpochsAreNaturals, UnpinPagesSound, ReclaimCompletedSound
<1> QED
  BY <1>3, <1>4 DEF Books

LEMMA BeginBooks ==
    ASSUME Books, NEW t \in Steps, BeginTransaction(t)
    PROVE  Sound(pool') /\ SeqsOK(seq') /\ StepsOK(step')
  BY Zenon, StageSet DEF Books, BeginTransaction

LEMMA ReservationAppended ==
    ASSUME StepsOK(step), NEW t \in Steps, NEW r
    PROVE  StepsOK([step EXCEPT ![t].resv = Append(@, r)])
<1> DEFINE f == [step EXCEPT ![t].resv = Append(@, r)]
<1>1. /\ DOMAIN f = Steps
      /\ \A u \in Steps : "resv" \in DOMAIN f[u]
      /\ \A u \in Steps \ {t} : f[u] = step[u]
      /\ f[t].resv = Append(step[t].resv, r)
  BY DEF StepsOK
<1> HIDE DEF f
<1>2. PICK S : step[t].resv \in Seq(S)
  BY DEF StepsOK
<1>3. step[t].resv \in Seq(S \cup {r})
  BY <1>2
<1>4. Append(step[t].resv, r) \in Seq(S \cup {r})
  BY <1>3, AppendProperties
<1>5. \A u \in Steps : \E Q : f[u].resv \in Seq(Q)
  BY Zenon, <1>1, <1>4 DEF StepsOK
<1> QED
  BY <1>1, <1>5 DEF StepsOK, f

LEMMA ReserveBooks ==
    ASSUME Books, NEW t \in Steps, NEW s \in Slots, NEW n, NEW floor,
           TryReserve(t, s, n, floor)
    PROVE  Sound(pool') /\ SeqsOK(seq') /\ StepsOK(step')
<1> DEFINE table == seq[s].table
           base == seq[s].tokens
           cow == CowTail(table)
           need == DivCeil(base + n) - Len(table) + (IF cow THEN 1 ELSE 0)
           ready == IF need = 0 THEN pool ELSE ReclaimCompleted(pool)
           old == IF cow THEN SubSeq(table, 1, Len(table) - 1) ELSE table
           new(pick) == [i \in 1 .. need |-> [page |-> pick[i], valid |-> 0]]
           planned(pick) == Lay(old \o new(pick), base + n)
           record(pick) ==
               [seq |-> s, base |-> base, count |-> n, floor |-> floor,
                table |-> planned(pick), alloc |-> PagesOf(new(pick)),
                copy |-> IF cow THEN TailCopy(table, planned(pick)) ELSE <<>>]
<1>1. Sound(ready)
  BY ReclaimCompletedSound DEF Books
<1>2. \/ /\ \E pick \in Picks(ready, need) :
              /\ pool' = Allocate(ready, {pick[i] : i \in 1 .. need})
              /\ step' = [step EXCEPT ![t].resv = Append(@, record(pick))]
         /\ seq' = [seq EXCEPT ![s].pending = t, ![s].moved = FALSE]
      \/ pool' = ready /\ seq' = seq /\ step' = step
  BY Zenon DEF TryReserve
<1> HIDE DEF table, base, cow, need, ready, old, record
<1>3. CASE pool' = ready /\ seq' = seq /\ step' = step
  BY <1>1, <1>3 DEF Books
<1>4. CASE /\ \E pick \in Picks(ready, need) :
                /\ pool' = Allocate(ready, {pick[i] : i \in 1 .. need})
                /\ step' = [step EXCEPT ![t].resv = Append(@, record(pick))]
           /\ seq' = [seq EXCEPT ![s].pending = t, ![s].moved = FALSE]
  <2>1. PICK pick \in Picks(ready, need) :
              /\ pool' = Allocate(ready, {pick[i] : i \in 1 .. need})
              /\ step' = [step EXCEPT ![t].resv = Append(@, record(pick))]
    BY Zenon, <1>4
  <2>2. {pick[i] : i \in 1 .. need} \subseteq ready.ready
    BY DEF Picks
  <2>3. Sound(pool')
    BY <1>1, <2>1, <2>2, AllocateSound
  <2>4. StepsOK(step')
    BY Zenon, <2>1, ReservationAppended DEF Books
  <2>5. SeqsOK([seq EXCEPT ![s].pending = t, ![s].moved = FALSE])
    BY DEF Books, SeqsOK
  <2> QED
    BY <1>4, <2>3, <2>4, <2>5
<1> QED
  BY Zenon, <1>2, <1>3, <1>4

LEMMA PrepareBooks ==
    ASSUME Books, NEW t \in Steps, PrepareStep(t)
    PROVE  Sound(pool') /\ SeqsOK(seq') /\ StepsOK(step')
<1>1. CASE step[t].resv # <<>> /\ PlanValid(t)
  <2>1. SeqsOK([s \in Slots |-> IF s \in SequencesOf(t)
                  THEN [seq[s] EXCEPT !.pending = NoStep, !.lease = t]
                  ELSE seq[s]])
    BY DEF Books, SeqsOK
  <2> QED
    BY ZenonT(60), <1>1, <2>1, StageSet DEF Books, PrepareStep
<1>2. CASE ~(step[t].resv # <<>> /\ PlanValid(t))
  BY Zenon, <1>2, RollBackKeepsBooks DEF PrepareStep
<1> QED
  BY <1>1, <1>2

LEMMA MarkBooks ==
    ASSUME Books, NEW t \in Steps, MarkStepInFlight(t)
    PROVE  Sound(pool') /\ SeqsOK(seq') /\ StepsOK(step')
  BY Zenon, MarkInflightSound, StageSet DEF Books, MarkStepInFlight

LEMMA RunBooks ==
    ASSUME Books, NEW t \in Steps, DeviceRuns(t)
    PROVE  Sound(pool') /\ SeqsOK(seq') /\ StepsOK(step')
<1>1. StepsOK([step EXCEPT ![t].ran = TRUE])
  BY DEF Books, StepsOK
<1> QED
  BY <1>1 DEF Books, DeviceRuns

LEMMA ReleaseCopiedSound ==
    ASSUME NEW a, Sound(a), NEW t \in Steps
    PROVE  Sound(ReleaseCopied(a, t))
<1> DEFINE e == [p \in Pages |-> a.epoch]
<1>1. e \in [Pages -> Nat]
  BY DEF Sound, Allocators
<1> HIDE DEF e
<1> QED
  BY SMTT(60), <1>1, ReleaseRequestRefsSound DEF ReleaseCopied, e

LEMMA CommitBooks ==
    ASSUME Books, NEW t \in Steps, CommitStep(t)
    PROVE  Sound(pool') /\ SeqsOK(seq') /\ StepsOK(step')
<1> DEFINE of(w, s) == CHOOSE i \in DOMAIN w : step[t].resv[i].seq = s
           f(w) == [s \in Slots |->
                      IF s \notin SequencesOf(t) THEN seq[s]
                      ELSE [seq[s] EXCEPT
                              !.table = KeptTable(step[t].resv[of(w, s)], w[of(w, s)]),
                              !.tokens = @ + w[of(w, s)], !.moved = Bump(s)]]
<1>1. PICK w \in WrittenCounts(t) : pool' = CommittedPool(t, w) /\ seq' = f(w)
  BY Zenon DEF CommitStep
<1>2. Sound(CommittedPool(t, w))
  <2>1. \A S \in SUBSET Pages : Sound(AbandonReserved(pool, S, pool.epoch))
    BY SMTT(60), EpochsAreNaturals, AbandonReservedSound DEF Books
  <2> QED
    BY Zenon, <2>1, CommitReservedSound, SetValidTokensSound, ReleaseCopiedSound
       DEF CommittedPool, AllocatedPages
<1>3. SeqsOK(f(w))
  <2> HIDE DEF of
  <2> QED
    BY DEF Books, SeqsOK
<1>4. StepsOK(step')
  BY Zenon, StageSet DEF Books, CommitStep
<1> QED
  BY Zenon, <1>1, <1>2, <1>3, <1>4

LEMMA RetireBooks ==
    ASSUME Books, NEW t \in Steps, RetireStep(t)
    PROVE  Sound(pool') /\ SeqsOK(seq') /\ StepsOK(step')
<1>1. Sound(UnmarkInflight(pool, TouchedPages(t)))
  BY UnmarkInflightSound DEF Books
<1>2. Sound(pool')
  BY <1>1, FinishKeepsPool, EpochsAreNaturals DEF RetireStep, FinishLease
<1> QED
  BY Zenon, <1>2, DetachedKeeps, StepCleared DEF RetireStep, FinishLease, Books

LEMMA AbortBooks ==
    ASSUME Books, NEW t \in Steps, AbortPreparedStep(t)
    PROVE  Sound(pool') /\ SeqsOK(seq') /\ StepsOK(step')
<1>1. Sound(RollbackReserved(pool, AllocatedPages(t)))
  BY RollbackReservedSound DEF Books, AllocatedPages
<1>2. Sound(pool')
  BY SMTT(60), <1>1, FinishKeepsPool, EpochsAreNaturals DEF AbortPreparedStep, FinishLease
<1> QED
  BY Zenon, <1>2, DetachedKeeps, StepCleared DEF AbortPreparedStep, FinishLease, Books

LEMMA FailBooks ==
    ASSUME Books, NEW t \in Steps, NEW d \in limit.delays, FailInFlightStep(t, d)
    PROVE  Sound(pool') /\ SeqsOK(seq') /\ StepsOK(step')
<1> DEFINE safe == pool.epoch + d
<1>1. safe \in Nat
  BY EpochsAreNaturals
<1>2. pool' = Released(Abandon(t, safe), t,
                       [s \in Slots |-> Later(seq[s].relEpoch, safe)])
  BY SMTT(60), <1>1 DEF FailInFlightStep, FinishLease, NoEpoch
<1>3. SeqsOK(seq')
  BY DetachedKeeps DEF FailInFlightStep, FinishLease, Books
<1>4. StepsOK(step')
  BY Zenon, StepCleared DEF FailInFlightStep, FinishLease, Books
<1> HIDE DEF safe
<1>5. Sound(Abandon(t, safe))
  BY <1>1, AbandonReservedSound, UnmarkInflightSound DEF Books, Abandon
<1> QED
  BY SMTT(60), <1>1, <1>2, <1>3, <1>4, <1>5, FinishKeepsPool

LEMMA EpochBooks ==
    ASSUME Books, Advance \/ ReclaimDeferred
    PROVE  Sound(pool') /\ SeqsOK(seq') /\ StepsOK(step')
<1>1. pool.epoch + 1 \in Nat
  BY EpochsAreNaturals
<1> QED
  BY <1>1, AdvanceEpochSound, ReclaimCompletedSound DEF Books, Advance, ReclaimDeferred

-----------------------------------------------------------------------------

LEMMA InitBooks == Init => Books
<1> SUFFICES ASSUME Init PROVE Books
  OBVIOUS
<1>1. /\ NewAllocator \in Allocators
      /\ NewAllocator.page = [p \in Pages |-> NewPage]
      /\ NewAllocator.ready = Pages /\ NewAllocator.heap = {}
      /\ NewAllocator.epoch = 0
  BY SMTT(60), NewPageOK DEF NewAllocator, Allocators
<1>2. AllocatorOK(NewAllocator)
  BY <1>1, NewPageOK DEF AllocatorOK
<1> QED
  BY <1>1, <1>2, NewRecords DEF Init, Books, Sound, SeqsOK, StepsOK

LEMMA NextBooks == Books /\ [Next]_vars => Books'
<1> SUFFICES ASSUME Books, [Next]_vars PROVE Books'
  OBVIOUS
<1>1. CASE UNCHANGED vars
  BY SMTT(60), <1>1 DEF vars, Books, Sound, AllocatorOK, SeqsOK, StepsOK
<1>2. CASE Next
  <2>1. Step /\ limit' = limit
    BY <1>2 DEF Next
  <2>2. Sound(pool') /\ SeqsOK(seq') /\ StepsOK(step')
    BY Zenon, <2>1, CreateBooks, ReleaseBooks, PreemptBooks, TruncateBooks, PinBooks,
       UnpinBooks, AttachBooks, ForkBooks, BeginBooks, ReserveBooks,
       RollBackKeepsBooks, PrepareBooks, MarkBooks, RunBooks, CommitBooks,
       RetireBooks, AbortBooks, FailBooks, EpochBooks
       DEF Step, RollbackTransaction
  <2> QED
    BY <2>1, <2>2 DEF Books
<1> QED
  BY <1>1, <1>2

\* Whatever the manager does, the allocator's own assert_invariants holds: the
\* ready queue is exactly the FREE pages, the reclaim heap exactly the deferred
\* ones, each with its safe epoch, and no free or deferred page has an owner or
\* a launched step on it (PageAllocator, memory/allocator.py).
THEOREM AllocatorStaysConsistent == Spec => []AllocatorInvariant
<1>1. Books => AllocatorInvariant
  BY DEF Books, Sound, AllocatorInvariant
<1> QED
  BY <1>1, InitBooks, NextBooks, PTL DEF Spec
=============================================================================

--------------------------- MODULE PageAllocator ---------------------------
(***************************************************************************)
(* PageAllocator (memory/allocator.py) and PageMetadata                    *)
(* (memory/metadata.py): who owns each physical KV page and when a page    *)
(* nobody owns may be used again.  No variables: an operator takes the     *)
(* allocator as a record `a' and returns the one the method leaves behind. *)
(* A method that raises validates its whole batch first and changes        *)
(* nothing; here it only sets a.fault.                                     *)
(*                                                                         *)
(* A handle is its page: generations are left out.  They reject the handle *)
(* of an earlier lifetime, and whoever cites a page in MemoryManager holds *)
(* a reference on it (RefsMatchOwners), so its lifetime has not ended.     *)
(* The padding page, PERMANENT from construction on and refused by every   *)
(* operation, is not among Pages.  Cache references are left out with the  *)
(* prefix cache that takes them.  The deque of free pages is the set       *)
(* a.ready, so any free page may be handed out next.                       *)
(***************************************************************************)
EXTENDS Integers, FiniteSets

CONSTANTS Pages,          \* the physical pages other than the padding page
          PageSize        \* KV positions per page

ASSUME AllocatorAssumption == PageSize \in Nat \ {0}

PageStates == {"FREE", "RESERVED", "LIVE", "RECLAIM_PENDING"}

\* pending_free_epoch = None.
NoEpoch == -1

NewPage == [state |-> "FREE", resv |-> 0, req |-> 0, pin |-> 0,
            infl |-> 0, valid |-> 0, pend |-> NoEpoch]

NewAllocator == [page |-> [p \in Pages |-> NewPage], ready |-> Pages,
                 heap |-> {}, epoch |-> 0, fault |-> FALSE]

\* ownership_refs is zero: only launched steps, if any, hold the page.
Unowned(m) == m.resv = 0 /\ m.req = 0 /\ m.pin = 0

CanMutate(m) == m.req = 1 /\ m.pin = 0

Later(e, f) == IF e > f THEN e ELSE f

-----------------------------------------------------------------------------

\* _require_state for a whole batch.
InState(a, S, states) == \A p \in S : a.page[p].state \in states

Raise(a) == [a EXCEPT !.fault = TRUE]

\* The allocator after its pages became f: a page that turned RECLAIM_PENDING
\* was pushed on the reclaim heap with its safe epoch.
Changed(a, f) ==
    [a EXCEPT !.page = f,
              !.heap = @ \cup {<<f[p].pend, p>> : p \in
                  {q \in Pages : /\ f[q].state = "RECLAIM_PENDING"
                                 /\ a.page[q].state # "RECLAIM_PENDING"}}]

\* Mutant: a page somebody still computes on is deferred like any other.
MarkIgnoringInflight(m, e) ==
    IF ~Unowned(m) THEN m
    ELSE [m EXCEPT !.pend = Later(@, e), !.state = "RECLAIM_PENDING"]

\* _mark_for_reclaim_if_unowned.
MarkForReclaim(m, e) ==
    IF ~Unowned(m) THEN m
    ELSE [m EXCEPT !.pend = Later(@, e),
                   !.state = IF m.infl > 0 THEN @ ELSE "RECLAIM_PENDING"]

\* The pages _reclaim_completed_locked frees: the heap entry is due and is the
\* page's present one.
Due(a) ==
    {p \in Pages : /\ a.page[p].state = "RECLAIM_PENDING"
                   /\ <<a.page[p].pend, p>> \in a.heap
                   /\ a.page[p].pend <= a.epoch}

ReclaimCompleted(a) ==
    IF \E p \in Due(a) : ~Unowned(a.page[p]) \/ a.page[p].infl > 0
    THEN Raise(a)
    ELSE [a EXCEPT !.page = [p \in Pages |-> IF p \in Due(a) THEN NewPage
                                             ELSE a.page[p]],
                   !.ready = @ \cup Due(a),
                   !.heap = {h \in @ : h[1] > a.epoch}]

AdvanceEpoch(a, e) == ReclaimCompleted([a EXCEPT !.epoch = e])

\* allocate() of the pages S, which the caller found among the ready ones of
\* the allocator it reclaimed first.
Allocate(a, S) ==
    [a EXCEPT !.page = [p \in Pages |->
                  IF p \in S
                  THEN [NewPage EXCEPT !.state = "RESERVED", !.resv = 1]
                  ELSE a.page[p]],
              !.ready = @ \ S]

CommitReserved(a, S) ==
    IF ~(InState(a, S, {"RESERVED"}) /\ \A p \in S : a.page[p].resv = 1)
    THEN Raise(a)
    ELSE [a EXCEPT !.page = [p \in Pages |->
             IF p \in S
             THEN [a.page[p] EXCEPT !.resv = 0, !.req = @ + 1, !.state = "LIVE"]
             ELSE a.page[p]]]

RollbackReserved(a, S) ==
    IF ~(/\ InState(a, S, {"RESERVED"})
         /\ \A p \in S : a.page[p].resv = 1 /\ a.page[p].infl = 0)
    THEN Raise(a)
    ELSE [a EXCEPT !.page = [p \in Pages |-> IF p \in S
                                             THEN NewPage ELSE a.page[p]],
                   !.ready = @ \cup S]

AbandonReserved(a, S, e) ==
    IF ~(InState(a, S, {"RESERVED"}) /\ \A p \in S : a.page[p].resv = 1)
    THEN Raise(a)
    ELSE Changed(a, [p \in Pages |->
             IF p \in S
             THEN MarkForReclaim([a.page[p] EXCEPT !.resv = 0], e)
             ELSE a.page[p]])

MarkInflight(a, S) ==
    IF ~InState(a, S, {"RESERVED", "LIVE"}) THEN Raise(a)
    ELSE [a EXCEPT !.page = [p \in Pages |->
             IF p \in S THEN [a.page[p] EXCEPT !.infl = @ + 1]
             ELSE a.page[p]]]

UnmarkInflight(a, S) ==
    IF ~(/\ InState(a, S, {"RESERVED", "LIVE"})
         /\ \A p \in S : a.page[p].infl > 0)
    THEN Raise(a)
    ELSE Changed(a, [p \in Pages |->
             IF p \in S
             THEN LET m == [a.page[p] EXCEPT !.infl = @ - 1]
                  IN  IF Unowned(m) /\ m.pend # NoEpoch
                      THEN MarkForReclaim(m, m.pend) ELSE m
             ELSE a.page[p]])

\* set_valid_tokens() of every page of S; page p gets v[p].
SetValidTokens(a, S, v) ==
    IF ~(/\ InState(a, S, {"RESERVED", "LIVE"})
         /\ \A p \in S : v[p] \in 0 .. PageSize)
    THEN Raise(a)
    ELSE [a EXCEPT !.page = [p \in Pages |->
             IF p \in S THEN [a.page[p] EXCEPT !.valid = v[p]]
             ELSE a.page[p]]]

AcquireRequestRefs(a, S) ==
    IF ~InState(a, S, {"LIVE"}) THEN Raise(a)
    ELSE [a EXCEPT !.page = [p \in Pages |->
             IF p \in S THEN [a.page[p] EXCEPT !.req = @ + 1]
             ELSE a.page[p]]]

\* Consecutive release_request_ref() calls: page p loses n[p] references, the
\* last of them, the only one that can leave it unowned, with safe epoch e[p].
ReleaseRequestRefs(a, S, n, e) ==
    IF ~(/\ InState(a, S, {"LIVE"})
         /\ \A p \in S : n[p] \in 1 .. a.page[p].req)
    THEN Raise(a)
    ELSE Changed(a, [p \in Pages |->
             IF p \in S
             THEN MarkForReclaim([a.page[p] EXCEPT !.req = @ - n[p]], e[p])
             ELSE a.page[p]])

PinPages(a, S) ==
    IF ~InState(a, S, {"LIVE"}) THEN Raise(a)
    ELSE [a EXCEPT !.page = [p \in Pages |->
             IF p \in S THEN [a.page[p] EXCEPT !.pin = @ + 1]
             ELSE a.page[p]]]

UnpinPages(a, S, e) ==
    IF ~(InState(a, S, {"LIVE"}) /\ \A p \in S : a.page[p].pin > 0)
    THEN Raise(a)
    ELSE Changed(a, [p \in Pages |->
             IF p \in S
             THEN MarkForReclaim([a.page[p] EXCEPT !.pin = @ - 1], e)
             ELSE a.page[p]])

-----------------------------------------------------------------------------
(* assert_invariants *)

PageOK(m) ==
    /\ m.resv \in {0, 1}
    /\ m.req \in Nat /\ m.pin \in Nat /\ m.infl \in Nat
    /\ m.valid \in 0 .. PageSize
    /\ m.pend \in Nat \cup {NoEpoch}
    /\ m.state \in PageStates
    /\ m.state \in {"FREE", "RECLAIM_PENDING"} => Unowned(m) /\ m.infl = 0
    /\ m.state = "FREE" => m.valid = 0 /\ m.pend = NoEpoch
    /\ m.state = "RECLAIM_PENDING" => m.pend # NoEpoch
    /\ m.state = "RESERVED" => m.req = 0 /\ m.pin = 0
    /\ m.state = "LIVE" => m.resv = 0
    /\ m.state \in {"RESERVED", "LIVE"} /\ Unowned(m) =>
           m.infl > 0 /\ m.pend # NoEpoch

AllocatorOK(a) ==
    /\ a.epoch \in Nat
    /\ \A p \in Pages : PageOK(a.page[p])
    /\ a.ready = {p \in Pages : a.page[p].state = "FREE"}
    /\ a.heap = {<<a.page[p].pend, p>> : p \in
                    {q \in Pages : a.page[q].state = "RECLAIM_PENDING"}}
=============================================================================

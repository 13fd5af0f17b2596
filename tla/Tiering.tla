------------------------------ MODULE Tiering ------------------------------
(***************************************************************************)
(* The host KV tier (memory/tiering.py): TierManager, its transfer engine  *)
(* and host slots, with the prefix cache (prefix/store.py,                 *)
(* prefix/ownership.py) and the parts of RuntimeMemoryManager              *)
(* (memory/manager.py) that drive them.                                    *)
(*                                                                         *)
(* A block is its identity: the token chain that ends with it.  Only full  *)
(* blocks are modelled.  Everything behind the manager's lock is the       *)
(* record kv, and a method is an operator from one such record to the next *)
(* (to a set of them where pages, slots or faults are chosen):             *)
(*   page     allocator metadata: state, request refs, cache refs; ready   *)
(*            and slots are the deques of free pages and free host slots   *)
(*   node     the page the prefix cache holds for a block, NoPage if none  *)
(*   term     the terminal refs of a cached block                          *)
(*   touched  evicting blocks accessed since their copy was submitted:     *)
(*            last_access # position_at_submit[0]                          *)
(*   rec      the tier's placement records                                 *)
(*   copies   what the engine issued on its copy stream and has not        *)
(*            reported yet, in stream order; `live' is the _by_ticket      *)
(*            entry, `ran' that the device did it, and a copy that is not  *)
(*            `whole' is the part a failing submit had already issued      *)
(*   failed   blocks whose submit raised, not reported yet                 *)
(*   data     the bytes in a page; host: the bytes in a host slot.  Stray  *)
(*            are bytes a copy wrote after its promotion was given up;     *)
(*            what a free page or slot still holds is Junk                 *)
(*                                                                         *)
(* The copy stream runs on its own: CopyRuns.  A copy that finishes while  *)
(* a poll runs is reported by the next one.  The engine is                 *)
(* CudaTransferEngine; SynchronousTransferEngine is the same behaviours in *)
(* which a copy runs as soon as it is issued.  The order of evictable      *)
(* leaves (LRU) is left open, so any of them may be taken first.           *)
(***************************************************************************)
EXTENDS Integers, Sequences, FiniteSets, SequencesExt, FiniteSetsExt

CONSTANTS Blocks, Root, Parent,     \* Parent[b]: the block before b, or Root
          NumPages,                 \* device pages other than the padding page
          NumSlots,                 \* host_capacity_pages
          Requests,
          MaxInflight,              \* max_inflight_transfers
          MaxPromotions,            \* max_promotion_blocks
          MinFree,                  \* promotion_min_free_pages
          Warm, Stored,             \* what the cache and the host tier may start with
          MaxCopies,                \* bound: transfers the staging budget lets begin
          MaxFaults,                \* bound: submits that raise
          MaxStarts                 \* bound: requests started

ASSUME TieringAssumption ==
    /\ Parent \in [Blocks -> Blocks \cup {Root}]
    /\ Warm \subseteq Blocks
    /\ Stored \subseteq SUBSET Blocks
    /\ Root \notin Blocks

VARIABLES kv,       \* the memory manager, its tier and its engine
          req,      \* the requests: want (last block), table, phase
          starts, closed

vars == <<kv, req, starts, closed>>

Pages == 1 .. NumPages
Slots == 1 .. NumSlots
NoPage == 0
NoSlot == 0

Junk == "junk"
Stray == "stray"

RECURSIVE ChainTo(_)
ChainTo(b) == IF b = Root THEN <<>> ELSE Append(ChainTo(Parent[b]), b)

\* The blocks from the root to b, and the ancestors of b.
Chain == [b \in Blocks |-> ChainTo(b)]
Above == [b \in Blocks |-> ToSet(ChainTo(Parent[b]))]
Depth == [b \in Blocks |-> Len(ChainTo(b))]

NoRec == [st |-> "NONE", page |-> NoPage, slot |-> NoSlot, anchor |-> FALSE,
          quar |-> FALSE, landed |-> FALSE, term |-> FALSE, kids |-> 0]

FreePage == [st |-> "FREE", req |-> 0, cache |-> 0]

Idle == [want |-> Root, table |-> <<>>, phase |-> "idle"]

OnDevice(p) == [NoRec EXCEPT !.st = "DEVICE", !.page = p]

OnHost(s) == [NoRec EXCEPT !.st = "HOST", !.slot = s]

Sorted(S) == SetToSortSeq(S, LAMBDA a, b : Depth[a] < Depth[b])

\* Requests that came and went published the entries of Warm, and a set of
\* Stored has been spilled since.
Init ==
    /\ \E out \in Stored :
         LET warm == Sorted(UNION {ToSet(Chain[b]) : b \in Warm} \ out)
             host == Sorted(out)
             at   == [b \in ToSet(warm) |-> CHOOSE p \in DOMAIN warm : warm[p] = b]
         IN  kv = [page |-> [p \in Pages |-> IF p \in DOMAIN warm
                                THEN [st |-> "LIVE", req |-> 0, cache |-> 1]
                                ELSE FreePage],
                   ready |-> SetToSortSeq(Pages \ DOMAIN warm, <),
                   slots |-> SetToSortSeq(Slots \ DOMAIN host, <),
                   node |-> at @@ [b \in Blocks |-> NoPage],
                   term |-> [b \in Blocks |-> IF b \in Warm \ out THEN 1 ELSE 0],
                   touched |-> {},
                   rec |-> [b \in Blocks |->
                       IF b \in out THEN OnHost(CHOOSE s \in DOMAIN host : host[s] = b)
                       ELSE IF b \in DOMAIN at THEN OnDevice(at[b]) ELSE NoRec],
                   copies |-> <<>>, failed |-> {}, faults |-> 0, issued |-> 0,
                   data |-> warm @@ [p \in Pages |-> Junk],
                   host |-> host @@ [s \in Slots |-> Junk]]
    /\ req = [r \in Requests |-> Idle]
    /\ starts = 0
    /\ closed = FALSE

-----------------------------------------------------------------------------
(* The page allocator. *)

Reserved == [st |-> "RESERVED", req |-> 0, cache |-> 0]

Freed(t, S) ==
    [t EXCEPT !.page = [p \in S |-> FreePage] @@ t.page,
              !.ready = @ \o SetToSortSeq(S, <),
              !.data = [p \in S |-> Junk] @@ t.data]

\* reclaim_completed: every release here is at the current epoch.
Reclaim(t) == Freed(t, {p \in Pages : t.page[p].st = "PENDING"})

Unowned(m) == m.req = 0 /\ m.cache = 0

Marked(m) == IF Unowned(m) THEN [m EXCEPT !.st = "PENDING"] ELSE m

DropReq(t, p) ==
    [t EXCEPT !.page[p] = Marked([t.page[p] EXCEPT !.req = @ - 1])]

DropReqs(t, S) ==
    [t EXCEPT !.page =
         [p \in S |-> Marked([t.page[p] EXCEPT !.req = @ - 1])] @@ t.page]

-----------------------------------------------------------------------------
(* The prefix cache. *)

Cached(t) == {b \in Blocks : t.node[b] # NoPage}

Children(t, b) == {c \in Cached(t) : Parent[c] = b}

Leaves(t) == {b \in Cached(t) : t.term[b] > 0 /\ Children(t, b) = {}}

\* prune_unretained.
RECURSIVE Prune(_, _)
Prune(t, b) ==
    IF b = Root THEN t
    ELSE IF t.term[b] > 0 \/ Children(t, b) # {} THEN t
    ELSE Prune([t EXCEPT
                  !.page[t.node[b]] = Marked([t.page[t.node[b]] EXCEPT !.cache = @ - 1]),
                  !.node[b] = NoPage],
               Parent[b])

\* evict_entry and one round of evict: a terminal loses all its refs.
EvictTerminal(t, b) == Prune([t EXCEPT !.term[b] = 0], b)

\* release: one terminal ref.
ReleaseEntry(t, b) ==
    LET u == [t EXCEPT !.term[b] = @ - 1]
    IN  IF u.term[b] > 0 THEN u ELSE Prune(u, b)

RECURSIVE Clear(_)
Clear(t) ==
    IF Cached(t) = {} THEN t
    ELSE Clear(EvictTerminal(t, CHOOSE b \in Leaves(t) : TRUE))

\* touch, where it can matter.
Evicting(t, S) == {b \in S : t.rec[b].st = "EVICTING"}

\* _insert_blocks of the chain ending with b, its i-th block on page src[i].
\* A block that is cached already keeps its page.
InsertChain(t, b, src, retain) ==
    LET chain == Chain[b]
        new   == {i \in DOMAIN chain : chain[i] \notin Cached(t)}
    IN  [t EXCEPT
           !.page = [p \in {src[i] : i \in new} |->
                        [t.page[p] EXCEPT !.cache = @ + 1]] @@ t.page,
           !.node = [c \in {chain[i] : i \in new} |-> src[Depth[c]]] @@ t.node,
           !.term[b] = IF retain \/ @ = 0 THEN @ + 1 ELSE @,
           !.touched = @ \cup Evicting(t, ToSet(chain))]

-----------------------------------------------------------------------------
(* The transfer engine. *)

Copy(b, dir, p, s, whole) ==
    [b |-> b, dir |-> dir, page |-> p, slot |-> s, whole |-> whole,
     live |-> whole, ran |-> FALSE]

Waiting(t) == {i \in DOMAIN t.copies : ~t.copies[i].ran}

\* The promotion or eviction this copy belongs to still holds what it writes.
HoldsTarget(t, c) ==
    IF c.dir = "out"
    THEN t.rec[c.b].st = "EVICTING" /\ t.rec[c.b].slot = c.slot
    ELSE t.rec[c.b].st = "PROMOTING" /\ t.rec[c.b].page = c.page

\* The device does copy i.  What a failed submit had issued is part of a page.
RunCopy(t, i) ==
    LET c == t.copies[i]
        u == IF c.dir = "out"
             THEN [t EXCEPT !.host[c.slot] =
                       IF c.whole THEN t.data[c.page] ELSE Junk]
             ELSE [t EXCEPT !.data[c.page] =
                       IF ~HoldsTarget(t, c) THEN Stray
                       ELSE IF c.whole THEN t.host[c.slot] ELSE Junk]
    IN  [u EXCEPT !.copies = IF c.whole THEN [@ EXCEPT ![i].ran = TRUE]
                             ELSE RemoveAt(@, i)]

RECURSIVE RunAll(_)
RunAll(t) ==
    IF Waiting(t) = {} THEN t ELSE RunAll(RunCopy(t, Min(Waiting(t))))

\* drain: the stream is synchronized when _pending holds a transfer.
Drained(t) ==
    IF \E i \in DOMAIN t.copies : t.copies[i].whole THEN RunAll(t) ELSE t

Submitted(t, c) == [t EXCEPT !.copies = Append(@, c)]

\* submit: the copy is issued, or raises before or after part of it was.
Submit(old, b, dir, p, s) ==
    LET t == [old EXCEPT !.issued = @ + 1]
        f == [t EXCEPT !.failed = @ \cup {b}, !.faults = @ + 1]
    IN  {Submitted(t, Copy(b, dir, p, s, TRUE))} \cup
        (IF t.faults = MaxFaults THEN {}
         ELSE {f, Submitted(f, Copy(b, dir, p, s, FALSE))})

HasTicket(t, b) ==
    \/ b \in t.failed
    \/ \E i \in DOMAIN t.copies : t.copies[i].live /\ t.copies[i].b = b

Inflight(t) == Cardinality({b \in Blocks : HasTicket(t, b)})

\* _forget_ticket.
Forget(t, b) ==
    LET mine == {i \in DOMAIN t.copies : t.copies[i].live /\ t.copies[i].b = b}
    IN  [t EXCEPT !.failed = @ \ {b},
                  !.copies = IF mine = {} THEN @
                             ELSE [@ EXCEPT ![Min(mine)].live = FALSE]]

-----------------------------------------------------------------------------
(* TierManager. *)

\* _release_host_slot of the blocks S.
FreeSlots(t, S) ==
    LET gone == {t.rec[b].slot : b \in S}
    IN  [t EXCEPT !.slots = @ \o SetToSortSeq(gone, <),
                  !.host = [s \in gone |-> Junk] @@ t.host]

\* _spillable; `busy' are the pages launched steps hold.
Spillable(t, p, busy) ==
    t.page[p].st = "LIVE" /\ t.page[p].cache > 0 /\ p \notin busy

BeginEviction(t, b, anchor, busy) ==
    IF \/ Inflight(t) >= MaxInflight \/ t.issued = MaxCopies
       \/ t.rec[b].st # "DEVICE"
       \/ ~Spillable(t, t.node[b], busy)
       \/ t.slots = <<>>
    THEN {}
    ELSE LET p == t.node[b]
             s == Head(t.slots)
         IN  Submit([t EXCEPT
                 !.slots = Tail(@),
                 !.page[p] = [t.page[p] EXCEPT !.req = @ + 1],
                 !.rec[b] = [t.rec[b] EXCEPT !.st = "EVICTING", !.page = p, !.slot = s,
                                      !.anchor = anchor, !.term = t.term[b] > 0,
                                      !.kids = Cardinality(Children(t, b))]],
               b, "out", p, s)

BeginPromotion(t, b) ==
    IF \/ Inflight(t) >= MaxInflight \/ t.issued = MaxCopies
       \/ t.rec[b].st # "HOST"
       \/ Len(t.ready) <= MinFree
    THEN {}
    ELSE LET u == Reclaim(t)
             p == Head(u.ready)
         IN  Submit([u EXCEPT
                 !.ready = Tail(@),
                 !.page[p] = Reserved,
                 !.rec[b] = [t.rec[b] EXCEPT !.st = "PROMOTING", !.page = p]],
               b, "in", p, t.rec[b].slot)

\* Mutant: an abandoned copy keeps its request reference.
HeldAbortEviction(t, b, cached) ==
    [FreeSlots(Forget(t, b), {b}) EXCEPT
        !.touched = @ \ {b},
        !.rec[b] = IF cached THEN OnDevice(t.rec[b].page) ELSE NoRec]

AbortEviction(t, b, cached) ==
    [FreeSlots(Forget(DropReq(t, t.rec[b].page), b), {b}) EXCEPT
        !.touched = @ \ {b},
        !.rec[b] = IF cached THEN OnDevice(t.rec[b].page) ELSE NoRec]

AbortPromotion(t, b) ==
    Freed([Forget(t, b) EXCEPT !.rec[b] = OnHost(t.rec[b].slot)],
          {p \in {t.rec[b].page} : t.page[p].st = "RESERVED"})

\* _chain_intact.
Intact(rec, b) == \A a \in Above[b] : rec[a].st # "NONE"

\* Mutant: only a block whose own parent is gone is collected.
CollectChildren(t) ==
    LET lost == {b \in Blocks : /\ t.rec[b].st = "HOST" /\ Parent[b] # Root
                                /\ t.rec[Parent[b]].st = "NONE"}
    IN  [FreeSlots(t, lost) EXCEPT !.rec = [b \in lost |-> NoRec] @@ t.rec]

\* Mutant: a block is collected unless its parent is on the device.
CollectDetached(t) ==
    LET lost == {b \in Blocks : /\ t.rec[b].st = "HOST" /\ Parent[b] # Root
                                /\ t.rec[Parent[b]].st # "DEVICE"}
    IN  [FreeSlots(t, lost) EXCEPT !.rec = [b \in lost |-> NoRec] @@ t.rec]

CollectOrphans(t) ==
    LET lost == {b \in Blocks : t.rec[b].st = "HOST" /\ ~Intact(t.rec, b)}
    IN  [FreeSlots(t, lost) EXCEPT
            !.rec = [b \in lost |-> NoRec] @@ t.rec]

\* A block's record once reconcile has seen the cache.
Mirrored(t, b) ==
    LET r == t.rec[b]
    IN  IF b \in Cached(t)
        THEN IF r.st = "EVICTING" \/ r.quar THEN r ELSE OnDevice(t.node[b])
        ELSE IF r.st = "DEVICE" THEN NoRec ELSE r

\* Promotions that lost the race against a recompute are rolled back first;
\* like any other block found on the device they then lose the host copy.
RollBack(t) ==
    FoldSet(LAMBDA b, v : AbortPromotion(v, b), t,
            {b \in Cached(t) : t.rec[b].st = "PROMOTING" /\ ~t.rec[b].quar})

Mirror(t) ==
    [FreeSlots(t, {b \in Cached(t) : t.rec[b].st = "HOST"}) EXCEPT
        !.rec = [b \in Blocks |-> Mirrored(t, b)] @@ t.rec]

Reconcile(t) == CollectOrphans(Mirror(RollBack(t)))

Moved(t, b) ==
    /\ b \in Cached(t)
    /\ \/ b \in t.touched
       \/ t.rec[b].term # (t.term[b] > 0)
       \/ t.rec[b].kids # Cardinality(Children(t, b))

\* _settle_eviction.
SettleEviction(t, b) ==
    IF Moved(t, b) THEN AbortEviction(t, b, TRUE)
    ELSE [DropReq(t, t.rec[b].page) EXCEPT
            !.rec[b] = OnHost(t.rec[b].slot), !.touched = @ \ {b}]

\* Mutant: a promotion that failed counts as landed.
LandedAnyway(t, b) ==
    [t EXCEPT !.rec[b] = [t.rec[b] EXCEPT !.quar = t.rec[b].st = "EVICTING",
                                          !.landed = t.rec[b].st = "PROMOTING"]]

\* Mutant: an eviction that failed counts as stored.
StoredAnyway(t, b) ==
    IF t.rec[b].st = "EVICTING" THEN SettleEviction(t, b)
    ELSE [t EXCEPT !.rec[b] = [t.rec[b] EXCEPT !.quar = TRUE]]

Quarantine(t, b) ==
    [t EXCEPT !.rec[b] = [t.rec[b] EXCEPT !.quar = TRUE, !.landed = FALSE]]

\* _abort, at the end of a quarantine.
AbortTransfer(t, b) ==
    LET u == [t EXCEPT !.rec[b] = [t.rec[b] EXCEPT !.quar = FALSE]]
    IN  IF u.rec[b].st = "EVICTING" THEN AbortEviction(u, b, b \in Cached(t))
        ELSE AbortPromotion(u, b)

\* _resolve_chain succeeds: every ancestor is cached and on the device.
Resolved(t, b) ==
    \A a \in Above[b] : t.rec[a].st = "DEVICE" /\ a \in Cached(t)

\* _chain_pending: walking up over DEVICE ancestors meets a promoting one.
ChainPending(t, b) ==
    \E a \in Above[b] :
        /\ t.rec[a].st = "PROMOTING"
        /\ \A c \in Above[b] :
               Depth[c] > Depth[a] => t.rec[c].st = "DEVICE"

Ready(t) ==
    {b \in Blocks : t.rec[b].st = "PROMOTING" /\ t.rec[b].landed}

\* The loop over the landed promotions that gives up those that can no longer
\* be re-inserted, parents before children.
RECURSIVE GiveUp(_, _)
GiveUp(t, S) ==
    IF S = {} THEN t
    ELSE LET b == CHOOSE x \in S : \A y \in S : Depth[x] <= Depth[y]
         IN  GiveUp(IF Resolved(t, b) \/ ChainPending(t, b) THEN t
                    ELSE AbortPromotion(t, b), S \ {b})

\* What the engine's poll reports as completed.
Reported(t) ==
    {t.copies[i].b : i \in {j \in DOMAIN t.copies :
                               t.copies[j].ran /\ t.copies[j].live}}

Spilled(t) == {b \in Reported(t) : t.rec[b].st = "EVICTING"}

Landed(t) ==
    [t EXCEPT !.copies = SelectSeq(@, LAMBDA c : ~c.ran),
              !.failed = {},
              !.rec = [b \in Reported(t) \ Spilled(t) |->
                          [t.rec[b] EXCEPT !.landed = TRUE]] @@ t.rec]

\* The loop over the results of the engine's poll.
Handled(t) ==
    FoldSet(LAMBDA b, v : SettleEviction(v, b),
            FoldSet(LAMBDA b, v : Quarantine(v, b), Landed(t), t.failed),
            Spilled(t))

\* _settle_quarantined, once the engine is drained.
SettleQuarantined(t) ==
    FoldSet(LAMBDA b, v : AbortTransfer(v, b), t, {b \in Blocks : t.rec[b].quar})

\* What poll returns: `evicted' are the blocks whose cache reference the
\* caller drops, `moved' all that reached the host, `promoted' those to
\* publish.  t is the state before the results were handled, u after them
\* and v after the stranded promotions were given up.
Outcome(t, u, v, drain) ==
    [t |-> IF drain THEN SettleQuarantined(v) ELSE v,
     moved |-> {b \in Spilled(t) : u.rec[b].st = "HOST"},
     evicted |-> {b \in Spilled(t) : /\ u.rec[b].st = "HOST"
                                     /\ b \in Cached(t) /\ t.rec[b].anchor},
     promoted |-> {b \in Ready(v) : Resolved(v, b)}]

Poll(t, u, drain) == Outcome(t, u, GiveUp(u, Ready(u)), drain)

PollEngine(t, drain) == Poll(t, Handled(t), drain)

\* TierManager.poll.
TierPoll(t, drain) == PollEngine(IF drain THEN Drained(t) ELSE t, drain)

\* publish_promotion.
PublishedOn(t, b) == [FreeSlots(t, {b}) EXCEPT !.rec[b] = OnDevice(t.node[b])]

\* _publish_promotion_locked; anc are the ancestors' pages found by the poll.
PublishPromotion(t, b, anc) ==
    LET p   == t.rec[b].page
        u   == [t EXCEPT !.page[p] = [st |-> "LIVE", req |-> 1, cache |-> 0]]
        all == ToSet(anc) \cup {p}
    IN  IF \E q \in ToSet(anc) : t.page[q].st # "LIVE"
        THEN AbortPromotion(DropReq(u, p), b)
        ELSE LET v == [u EXCEPT !.page = [q \in ToSet(anc) |->
                           [u.page[q] EXCEPT !.req = @ + 1]] @@ u.page]
             IN  PublishedOn(DropReqs(InsertChain(v, b, Append(anc, p), TRUE), all), b)

\* The two loops of poll_transfers: t is the state the poll started from, with
\* the pages of each promoted block's chain as cached then, r its result.
Applied(t, r) ==
    FoldSet(LAMBDA b, v : PublishPromotion(v, b,
                [i \in 1 .. Depth[b] - 1 |-> t.node[Chain[b][i]]]),
            FoldSet(LAMBDA b, v : ReleaseEntry(v, b), r.t, r.evicted),
            r.promoted)

\* poll_transfers polls again until nothing moved.
RECURSIVE PollTransfers(_, _)
PollAgain(t, r) ==
    IF r.moved = {} /\ \A b \in r.promoted : t.rec[b].st # "DEVICE"
    THEN Reconcile(t) ELSE PollTransfers(t, FALSE)

Polled(t, r) == PollAgain(Applied(t, r), r)

PollTransfers(t, drain) == Polled(t, TierPoll(t, drain))

-----------------------------------------------------------------------------
(* The manager's operations. *)

BusyPages ==
    UNION {ToSet(req[r].table) : r \in {q \in Requests : req[q].phase = "busy"}}

\* readiness is None or DEVICE_VALID.
Readable(t, b) ==
    ~t.rec[b].quar /\ t.rec[b].st \in {"NONE", "DEVICE", "EVICTING"}

\* _queue_host_promotions_locked along the blocks of `rest'.
RECURSIVE Promote(_, _, _)
Promote(t, rest, n) ==
    IF rest = <<>> \/ n = 0 THEN {t}
    ELSE LET next == BeginPromotion(t, Head(rest))
         IN  IF next = {} THEN {t}
             ELSE {t} \cup UNION {Promote(u, Tail(rest), n - 1) : u \in next}

\* A request whose prompt ends with block b is admitted: lookup and, on a
\* match, attach_resume.
Attach(r, b) ==
    LET chain == Chain[b]
        hit   == {i \in DOMAIN chain : chain[i] \in Cached(kv)}
        ready == {i \in hit : \A j \in 1 .. i : Readable(kv, chain[j])}
        n     == Cardinality(ready)
        t     == [kv EXCEPT !.touched = @ \cup Evicting(kv, {chain[i] : i \in hit}),
                            !.page = [p \in {kv.node[chain[i]] : i \in ready} |->
                                [kv.page[p] EXCEPT !.req = @ + 1]] @@ kv.page]
    IN  /\ ~closed /\ req[r].phase = "idle" /\ starts < MaxStarts
        /\ starts' = starts + 1
        /\ req' = [req EXCEPT ![r] =
                      [want |-> b, phase |-> "ready",
                       table |-> [i \in 1 .. n |-> kv.node[chain[i]]]]]
        /\ \E u \in IF n = 0 THEN {t}
                    ELSE Promote(t, SubSeq(chain, n + 1, Len(chain)), MaxPromotions) :
               kv' = u
        /\ UNCHANGED closed

\* A step that computes the rest of the prompt is launched: its pages are
\* reserved and held in flight.
Launch(r) ==
    LET t    == Reclaim(kv)
        have == Len(req[r].table)
        need == Len(Chain[req[r].want]) - have
        new  == SubSeq(t.ready, 1, need)
    IN  /\ req[r].phase = "ready" /\ need > 0 /\ need <= Len(t.ready)
        /\ req' = [req EXCEPT ![r].table = @ \o new, ![r].phase = "busy"]
        /\ kv' = [t EXCEPT
              !.ready = SubSeq(@, need + 1, Len(@)),
              !.page = [p \in ToSet(new) |-> Reserved] @@ t.page,
              !.data = [p \in ToSet(new) |->
                  Chain[req[r].want][CHOOSE i \in DOMAIN req'[r].table :
                                        req'[r].table[i] = p]] @@ t.data]
        /\ UNCHANGED <<starts, closed>>

\* complete_step: the pages of the step are committed and it retires.
Retire(r) ==
    /\ req[r].phase = "busy"
    /\ req' = [req EXCEPT ![r].phase = "done"]
    /\ kv' = [kv EXCEPT !.page =
           [p \in {q \in ToSet(req[r].table) : kv.page[q].st = "RESERVED"} |->
               [st |-> "LIVE", req |-> 1, cache |-> 0]] @@ kv.page]
    /\ UNCHANGED <<starts, closed>>

\* page_readiness is DEVICE_VALID.
PageReadable(t, p) ==
    \A b \in Blocks : t.rec[b].page = p =>
        ~t.rec[b].quar /\ t.rec[b].st # "PROMOTING"

\* cache_resume, refused while the tier moves one of the pages.
CacheResume(r) ==
    IF \A p \in ToSet(req[r].table) : PageReadable(kv, p)
    THEN InsertChain(kv, req[r].want, req[r].table, FALSE) ELSE kv

\* The request ends; a prompt computed to its end is published.
Finish(r) ==
    /\ req[r].phase \in {"ready", "done"}
    /\ kv' = DropReqs(IF req[r].phase = "done" THEN CacheResume(r) ELSE kv,
                      ToSet(req[r].table))
    /\ req' = [req EXCEPT ![r] = Idle]
    /\ UNCHANGED <<starts, closed>>

\* PrefixService.evict, of any entry: it goes without the tier being told.
EvictEntry ==
    /\ ~closed
    /\ \E b \in Cached(kv) : kv.term[b] > 0 /\ kv' = EvictTerminal(kv, b)
    /\ UNCHANGED <<req, starts, closed>>

\* evict_prefixes(1).
EvictPrefixes ==
    /\ ~closed
    /\ \E b \in Leaves(kv) : kv' = Reconcile(EvictTerminal(kv, b))
    /\ UNCHANGED <<req, starts, closed>>

\* advance_epoch.
AdvanceEpoch ==
    /\ ~closed
    /\ kv' = PollTransfers(Reclaim(kv), FALSE)
    /\ UNCHANGED <<req, starts, closed>>

\* _pruning_chain, leaf first.
RECURSIVE PruningChain(_, _)
PruningChain(t, b) ==
    IF Parent[b] = Root THEN <<b>>
    ELSE LET a == Parent[b]
         IN  IF t.term[a] > 0 \/ Cardinality(Children(t, a)) # 1 THEN <<b>>
             ELSE <<b>> \o PruningChain(t, a)

\* The copies begun for one leaf and its pruning chain.  The staging budget,
\* shared with other transfers, may run out before any of them.
RECURSIVE Cascade(_, _, _, _)
Cascade(t, chain, anchor, busy) ==
    IF chain = <<>> THEN {t}
    ELSE LET next == BeginEviction(t, Head(chain), anchor, busy)
         IN  {t} \cup UNION {Cascade(u, Tail(chain), FALSE, busy) : u \in next}

SpillLeaf(t, busy) ==
    {t} \cup UNION {Cascade(t, PruningChain(t, b), TRUE, busy) : b \in Leaves(t)}

\* _spill_prefixes_locked, of one leaf.
Spill(t, busy) == SpillLeaf(Reconcile(t), busy)

\* spill_prefixes_to_host(1).
SpillToHost ==
    /\ ~closed
    /\ \E t \in Spill(kv, BusyPages) : kv' = t
    /\ UNCHANGED <<req, starts, closed>>

Evictable(t) ==
    {p \in Pages : t.page[p].st = "LIVE" /\ t.page[p].req = 0 /\ t.page[p].cache > 0}

\* The loop that drops cache entries until a page is free or none can be.
RECURSIVE DropUntilFree(_, _)
DropUntilFree(t, n) ==
    IF Len(t.ready) >= n \/ Evictable(t) = {} \/ Cached(t) = {}
    THEN {t}
    ELSE UNION {DropUntilFree(Reclaim(EvictTerminal(t, b)), n) : b \in Leaves(t)}

\* Below the target a leaf is spilled and its copies are waited for, then
\* entries are dropped.
Relieve(t, target, busy) ==
    IF Len(t.ready) = target THEN {t}
    ELSE UNION {DropUntilFree(Reclaim(PollTransfers(u, TRUE)), target)
                    : u \in Spill(t, busy)}

Relieved(t, busy) == Relieve(t, Min({NumPages, Len(t.ready) + 1}), busy)

\* evict_prefixes_for_pressure(1).
Pressure ==
    /\ ~closed
    /\ \E t \in Relieved(PollTransfers(kv, FALSE), BusyPages) : kv' = t
    /\ UNCHANGED <<req, starts, closed>>

\* Mutant: the epoch advances before the cache gives its pages back.
CloseUnreclaimed ==
    LET t == Reclaim(PollTransfers(kv, TRUE))
    IN  /\ ~closed /\ \A r \in Requests : req[r].phase = "idle"
        /\ closed' = TRUE
        /\ kv' = PollTransfers(Reconcile(Clear(t)), FALSE)
        /\ UNCHANGED <<req, starts>>

\* LogicalKVManager.close: shutdown_tier, then the prefix service is closed.
CloseManager ==
    LET t == PollTransfers(kv, TRUE)
        u == Reconcile(Clear(t))
    IN  /\ ~closed /\ \A r \in Requests : req[r].phase = "idle"
        /\ closed' = TRUE
        /\ kv' = Reclaim(PollTransfers(u, FALSE))
        /\ UNCHANGED <<req, starts>>

CopyRuns ==
    /\ Waiting(kv) # {}
    /\ kv' = RunCopy(kv, Min(Waiting(kv)))
    /\ UNCHANGED <<req, starts, closed>>

Next ==
    \/ \E r \in Requests, b \in Blocks : Attach(r, b)
    \/ \E r \in Requests : Launch(r) \/ Retire(r) \/ Finish(r)
    \/ EvictEntry \/ EvictPrefixes \/ AdvanceEpoch
    \/ SpillToHost \/ Pressure \/ CloseManager \/ CopyRuns

Spec == Init /\ [][Next]_vars

-----------------------------------------------------------------------------

\* The tier's assertions on the page a record names.
Tracked(t, b) ==
    LET r == t.rec[b]
    IN  r.page # NoPage =>
            /\ t.page[r.page].st # "FREE"
            /\ r.st = "PROMOTING" => t.page[r.page].st = "RESERVED"

\* The cache dropped or moved a block and the tier has not been told.
Outdated(t, b) == t.rec[b].st = "DEVICE" /\ t.rec[b].page # t.node[b]

\* Every page is owned exactly as the allocator counts it: request references
\* by committed page tables and evictions in flight, cache references by the
\* prefix cache, reservations by launched steps and promotions.  A page nobody
\* owns is free or about to be.  Every host slot in use belongs to one record,
\* and each placement owns the resources its state may own.  A page a record
\* tracks is not free, except that of a DEVICE record the cache has outdated
\* since the last reconcile(): the assertion at tiering.py:1601 would raise in
\* such a state, but shutdown_tier asserts only after a poll, and whenever it
\* is called its assertions hold.
TierOwnership ==
    LET holders(p) == {r \in Requests : p \in ToSet(req[r].table)}
        out(p) == {b \in Blocks : kv.rec[b].st = "EVICTING" /\ kv.rec[b].page = p}
        into(p) == {b \in Blocks : kv.rec[b].st = "PROMOTING" /\ kv.rec[b].page = p}
        caches(p) == {b \in Blocks : kv.node[b] = p}
        m(p) == kv.page[p]
    IN  /\ \A p \in Pages :
             /\ m(p).cache = Cardinality(caches(p))
             /\ m(p).st = "RESERVED" =>
                    /\ Unowned(m(p))
                    /\ Cardinality(into(p)) + Cardinality(holders(p)) = 1
             /\ m(p).st = "LIVE" =>
                    /\ ~Unowned(m(p)) /\ into(p) = {}
                    /\ m(p).req = Cardinality(holders(p)) + Cardinality(out(p))
             /\ m(p).st = "FREE" <=> p \in ToSet(kv.ready)
             /\ m(p).st \in {"FREE", "PENDING"} =>
                    holders(p) \cup out(p) \cup into(p) \cup caches(p) = {}
        /\ \A s \in Slots :
             Cardinality({i \in DOMAIN kv.slots : kv.slots[i] = s})
             + Cardinality({b \in Blocks : kv.rec[b].slot = s}) = 1
        /\ \A b \in Blocks :
             LET r == kv.rec[b]
             IN  /\ (r.page # NoPage) <=> (r.st \in {"DEVICE", "EVICTING", "PROMOTING"})
                 /\ (r.slot # NoSlot) <=> (r.st \in {"HOST", "EVICTING", "PROMOTING"})
                 /\ r.quar => r.st \in {"EVICTING", "PROMOTING"} /\ ~HasTicket(kv, b)
                 /\ r.landed => r.st = "PROMOTING" /\ ~HasTicket(kv, b)
                 /\ Tracked(kv, b) \/ Outdated(kv, b)
        /\ LET t == PollTransfers(kv, TRUE)
           IN  \A b \in Blocks : Tracked(t, b) /\ ~t.rec[b].quar

\* A block that may be attached, and every block in a request's page table,
\* is in a page that holds the block's bytes, unless a copy wrote the page
\* after its promotion had been given up.
ReadersSeeTheirBlocks ==
    LET good(b, p) == kv.data[p] \in {b, Stray}
    IN  /\ \A b \in Cached(kv) : good(b, kv.node[b])
        /\ \A r \in Requests : \A i \in DOMAIN req[r].table :
               good(Chain[req[r].want][i], req[r].table[i])

\* The host copy a promotion reads is the block's, also after the slot was
\* used by other blocks whose copies failed or were given up; or it was
\* copied from a page with Stray bytes.
HostCopiesAreTrue ==
    \A b \in Blocks : kv.rec[b].st \in {"HOST", "PROMOTING"} =>
        kv.host[kv.rec[b].slot] \in {b, Stray}

\* A block kept on the host has a record for every block before it.
HostChainsAreIntact ==
    \A b \in Blocks : kv.rec[b].st = "HOST" => Intact(kv.rec, b)

\* A step that gives up the host copy of a block which is not on the device
\* again leaves some block before it without a record.
OnlyOrphansAreCollected ==
    \A b \in Blocks \ Cached(kv) :
        kv.rec[b].st = "HOST" /\ kv'.rec[b].st = "NONE" => ~Intact(kv'.rec, b)

\* The host tier keeps what its promotions can use and nothing else: a block
\* on the host has its own bytes in its slot, unless they were copied from a
\* page that a copy wrote after its promotion had been given up (Stray), the
\* chain before it has records back to the root, and as long as it has, the
\* block is kept (_settle_eviction, _collect_orphans).  That a chain whose
\* first block is on the host can be promoted is not claimed: it is not.
HostTierIsSound ==
    /\ [](HostCopiesAreTrue /\ HostChainsAreIntact)
    /\ [][OnlyOrphansAreCollected]_vars

\* A closed manager has given every page back and holds nothing in quarantine.
CloseIsClean ==
    closed => /\ Len(kv.ready) = NumPages
              /\ \A b \in Blocks : kv.rec[b].st \in {"NONE", "HOST"}

\* A transfer owns its destination until the copy has run.
CopiesOwnTheirTarget ==
    \A i \in Waiting(kv) : HoldsTarget(kv, kv.copies[i])
=============================================================================

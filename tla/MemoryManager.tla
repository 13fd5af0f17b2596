--------------------------- MODULE MemoryManager ---------------------------
(***************************************************************************)
(* RuntimeMemoryManager (memory/manager.py) with the arena of sequences    *)
(* (memory/sequence.py) and the transaction records                        *)
(* (memory/transaction.py) over PageAllocator: scheduler steps reserve     *)
(* pages, freeze them in a lease, launch, commit or fail and retire, while *)
(* the same sequences are forked, pinned, truncated, preempted and         *)
(* released.  Every method holds the manager's lock, so it is one step.    *)
(*                                                                         *)
(* A transaction and the lease it becomes are the record of one step.      *)
(* `bytes' is the device storage and `text' what each sequence should read *)
(* from it: a token is named after the step that wrote it.  The prefix     *)
(* cache and the host tier are not modelled.  release_sequence,            *)
(* preempt_sequence and truncate_sequence run with their default safe      *)
(* epoch, the only one the engine gives them.                              *)
(***************************************************************************)
EXTENDS PageAllocator, Sequences

CONSTANTS Slots,      \* the slots of the sequence arena
          Steps,      \* the steps that may be planned or executing at once
          Pubs,       \* the prefixes a publisher may hold pinned at once
          NoStep,     \* no transaction, no lease
          Junk,       \* bytes nobody vouches for
          MaxAppend,  \* bound on the rows of one reservation
          Settings    \* the configurations and bounds to start from: tokens
                      \* (max_sequence_tokens), sequences, steps and prefixes
                      \* in use at once, epoch (the last one), delays (safe_epoch -
                      \* current_epoch of a failed step)

ASSUME ManagerAssumption ==
    /\ MaxAppend \in Nat
    /\ Settings \subseteq [tokens : Nat, sequences : Nat, steps : Nat,
                            prefixes : Nat, epoch : Nat, delays : SUBSET Nat]
    /\ NoStep \notin Steps /\ Junk \notin Steps

VARIABLES limit,    \* one of Settings
          pool,     \* the page allocator
          seq,      \* SequenceMemoryState by slot
          step,     \* TransactionRecord, then LeaseRecord, by step
          pub,      \* pinned prefixes returned by pin_prefix
          bytes,    \* device storage: which step wrote each position last
          text,     \* the tokens whose KV each sequence has committed
          doubtful  \* pages a failed step may write before its safe epoch

vars == <<limit, pool, seq, step, pub, bytes, text, doubtful>>

DivCeil(n) == (n + PageSize - 1) \div PageSize

\* SequenceMemoryState.  moved: the version is not the one the sequence's
\* reservation was planned at (FALSE when it has no reservation).
NewSeq == [live |-> FALSE, tokens |-> 0, table |-> <<>>, moved |-> FALSE,
           pending |-> NoStep, lease |-> NoStep, rel |-> FALSE,
           relEpoch |-> 0, blocked |-> 0]

NoPrefix == [table |-> <<>>, text |-> <<>>]

Blank == [o \in 0 .. PageSize - 1 |-> Junk]

NewStep == [stage |-> "NONE", resv |-> <<>>, ran |-> FALSE]

PagesOf(table) == {table[i].page : i \in DOMAIN table}

\* The entries that hold `tokens' tokens on the pages of `table'.
Lay(table, tokens) ==
    [i \in 1 .. DivCeil(tokens) |->
        [table[i] EXCEPT !.valid = IF tokens - ((i - 1) * PageSize) < PageSize
                                   THEN tokens - ((i - 1) * PageSize) ELSE PageSize]]

Init ==
    /\ limit \in Settings
    /\ pool = NewAllocator
    /\ seq = [s \in Slots |-> NewSeq]
    /\ step = [t \in Steps |-> NewStep]
    /\ pub = [k \in Pubs |-> NoPrefix]
    /\ bytes = [p \in Pages |-> Blank]
    /\ text = [s \in Slots |-> <<>>]
    /\ doubtful = {}

\* Nobody vouches for the bytes of a page without owner.
Forget ==
    bytes' = [p \in Pages |-> IF pool'.page[p].state \in {"FREE", "RECLAIM_PENDING"}
                              THEN Blank ELSE bytes[p]]

-----------------------------------------------------------------------------
(* Sequences *)

Busy(s) == seq[s].pending # NoStep \/ seq[s].lease # NoStep

\* The condition every operation on an idle sequence checks.
Idle(s) ==
    /\ seq[s].live /\ ~Busy(s) /\ ~seq[s].rel
    /\ seq[s].blocked <= pool.epoch

\* state.version += 1.
Bump(s) == Busy(s)

CreateSequence(s) ==
    /\ ~seq[s].live
    /\ Cardinality({x \in Slots : seq[x].live}) < limit.sequences
    /\ seq' = [seq EXCEPT ![s] = [NewSeq EXCEPT !.live = TRUE]]
    /\ UNCHANGED <<pool, step, pub, bytes, text, doubtful>>

\* The sequences of `list' that are in S give up their request references, in the
\* order of the list and each with its own safe epoch.
Dropped(a, list, S, epochOf) ==
    LET holders(p) == {i \in DOMAIN list :
                          list[i] \in S /\ p \in PagesOf(seq[list[i]].table)}
        last(p) == CHOOSE i \in holders(p) : \A j \in holders(p) : j <= i
    IN  ReleaseRequestRefs(a, UNION {PagesOf(seq[s].table) : s \in S},
            [p \in Pages |-> Cardinality(holders(p))],
            [p \in Pages |-> IF holders(p) = {} THEN 0 ELSE epochOf[list[last(p)]]])

\* The request references of s alone, at the present epoch.
DroppedNow(s) == Dropped(pool, <<s>>, {s}, [x \in Slots |-> pool.epoch])

ReleaseSequence(s) ==
    /\ seq[s].live
    /\ IF Busy(s)
       THEN /\ seq' = [seq EXCEPT ![s].rel = TRUE,
                                  ![s].relEpoch = Later(@, pool.epoch)]
            /\ UNCHANGED <<pool, text>>
       ELSE /\ pool' = DroppedNow(s)
            /\ seq' = [seq EXCEPT ![s] = NewSeq]
            /\ text' = [text EXCEPT ![s] = <<>>]
    /\ Forget
    /\ UNCHANGED <<step, pub, doubtful>>

PreemptSequence(s) ==
    /\ Idle(s) /\ seq[s].table # <<>>
    /\ \A i \in DOMAIN seq[s].table : pool.page[seq[s].table[i].page].infl = 0
    /\ pool' = ReclaimCompleted(DroppedNow(s))
    /\ seq' = [seq EXCEPT ![s].table = <<>>, ![s].tokens = 0, ![s].moved = Bump(s)]
    /\ text' = [text EXCEPT ![s] = <<>>]
    /\ Forget
    /\ UNCHANGED <<step, pub, doubtful>>

\* truncate_sequence may narrow the validity of the new tail page.
MayShrink(m) == CanMutate(m) /\ m.infl = 0

TruncateSequence(s, n) ==
    LET table == seq[s].table
        kept == Lay(table, n)
        gone == SubSeq(table, Len(kept) + 1, Len(table))
        tail == kept[Len(kept)]
        shrunk == IF /\ kept # <<>>
                     /\ tail.valid < table[Len(kept)].valid
                     /\ MayShrink(pool.page[tail.page])
                  THEN SetValidTokens(pool, {tail.page}, [p \in Pages |-> tail.valid])
                  ELSE pool
    IN  /\ Idle(s) /\ n < seq[s].tokens
        /\ pool' = ReclaimCompleted(ReleaseRequestRefs(shrunk, PagesOf(gone),
                       [p \in Pages |-> 1], [p \in Pages |-> pool.epoch]))
        /\ seq' = [seq EXCEPT ![s].table = kept, ![s].tokens = n, ![s].moved = Bump(s)]
        /\ text' = [text EXCEPT ![s] = SubSeq(@, 1, n)]
        /\ Forget
        /\ UNCHANGED <<step, pub, doubtful>>

-----------------------------------------------------------------------------
(* Prefixes shared by pinning their pages.  A publication carries the text  *)
(* it stands for.                                                           *)

PinPrefix(k, s, n) ==
    /\ pub[k] = NoPrefix
    /\ Cardinality({j \in Pubs : pub[j] # NoPrefix}) < limit.prefixes
    /\ Idle(s) /\ n <= seq[s].tokens
    /\ pool' = PinPages(pool, PagesOf(Lay(seq[s].table, n)))
    /\ pub' = [pub EXCEPT ![k] = [table |-> Lay(seq[s].table, n),
                                  text |-> SubSeq(text[s], 1, n)]]
    /\ UNCHANGED <<seq, step, bytes, text, doubtful>>

UnpinPrefix(k) ==
    /\ pub[k] # NoPrefix
    /\ pool' = ReclaimCompleted(UnpinPages(pool, PagesOf(pub[k].table), pool.epoch))
    /\ pub' = [pub EXCEPT ![k] = NoPrefix]
    /\ Forget
    /\ UNCHANGED <<seq, step, text, doubtful>>

\* attach_pinned_prefix accepts the destination and the pinned entries.
CanAttach(a, s, table, tokens) ==
    /\ Idle(s) /\ seq[s].table = <<>> /\ tokens <= limit.tokens
    /\ \A i \in DOMAIN table : /\ a.page[table[i].page].pin > 0
                               /\ a.page[table[i].page].valid >= table[i].valid

Attached(s, table, tokens) ==
    [seq EXCEPT ![s].table = table, ![s].tokens = tokens,
                ![s].moved = Bump(s)]

AttachPinnedPrefix(s, k) ==
    /\ pub[k] # NoPrefix
    /\ CanAttach(pool, s, pub[k].table, Len(pub[k].text))
    /\ pool' = AcquireRequestRefs(pool, PagesOf(pub[k].table))
    /\ seq' = Attached(s, pub[k].table, Len(pub[k].text))
    /\ text' = [text EXCEPT ![s] = pub[k].text]
    /\ UNCHANGED <<step, pub, bytes, doubtful>>

\* fork_sequence: pin, attach, unpin.
ForkSequence(source, s, n) ==
    LET table == Lay(seq[source].table, n)
        pinned == PinPages(pool, PagesOf(table))
        held == AcquireRequestRefs(pinned, PagesOf(table))
    IN  /\ source # s
        /\ Idle(source) /\ n <= seq[source].tokens
        /\ CanAttach(pinned, s, table, n)
        /\ pool' = ReclaimCompleted(UnpinPages(held, PagesOf(table), pool.epoch))
        /\ seq' = Attached(s, table, n)
        /\ text' = [text EXCEPT ![s] = SubSeq(text[source], 1, n)]
        /\ UNCHANGED <<step, pub, bytes, doubtful>>

-----------------------------------------------------------------------------
(* Transactions *)

BeginTransaction(t) ==
    /\ step[t].stage = "NONE"
    /\ Cardinality({u \in Steps : step[u].stage # "NONE"}) < limit.steps
    /\ step' = [step EXCEPT ![t].stage = "OPEN"]
    /\ UNCHANGED <<pool, seq, pub, bytes, text, doubtful>>

\* The step may not write into the tail page: somebody else holds it, or it
\* holds more than this sequence's tokens.
CowTail(table) ==
    /\ table # <<>>
    /\ LET tail == table[Len(table)]
       IN  /\ tail.valid < PageSize
           /\ \/ ~CanMutate(pool.page[tail.page])
              \/ pool.page[tail.page].valid # tail.valid

\* Mutant: one row too few is copied.
CopyOneShort(table, planned) ==
    <<[table[Len(table)] EXCEPT !.valid = @ - 1], planned[Len(table)]>>

\* KVPageCopy: the rows of the old tail page and the page that replaces it.
TailCopy(table, planned) == <<table[Len(table)], planned[Len(table)]>>

\* The orders in which n ready pages can be handed out.
Picks(a, n) == {f \in [1 .. n -> a.ready] :
                   \A i, j \in 1 .. n : f[i] = f[j] => i = j}

\* try_reserve of n rows, of which the last n - floor are tentative.
TryReserve(t, s, n, floor) ==
    LET table == seq[s].table
        base == seq[s].tokens
        cow == CowTail(table)
        need == DivCeil(base + n) - Len(table) + (IF cow THEN 1 ELSE 0)
        ready == IF need = 0 THEN pool ELSE ReclaimCompleted(pool)
        old == IF cow THEN SubSeq(table, 1, Len(table) - 1) ELSE table
    IN  /\ step[t].stage = "OPEN"
        /\ Idle(s)
        /\ base + n <= limit.tokens
        /\ DivCeil(base + n) <= Cardinality(Pages)
        /\ \/ /\ Cardinality(ready.ready) >= need
              /\ \E pick \in Picks(ready, need) :
                   LET new == [i \in 1 .. need |-> [page |-> pick[i], valid |-> 0]]
                       planned == Lay(old \o new, base + n)
                   IN  /\ pool' = Allocate(ready, {pick[i] : i \in 1 .. need})
                       /\ step' = [step EXCEPT ![t].resv = Append(@,
                              [seq |-> s, base |-> base, count |-> n, floor |-> floor,
                               table |-> planned, alloc |-> PagesOf(new),
                               copy |-> IF cow THEN TailCopy(table, planned) ELSE <<>>])]
              /\ seq' = [seq EXCEPT ![s].pending = t, ![s].moved = FALSE]
           \/ /\ Cardinality(ready.ready) < need
              /\ pool' = ready
              /\ UNCHANGED <<seq, step>>
        /\ UNCHANGED <<pub, bytes, text, doubtful>>

Records(t) == {step[t].resv[i] : i \in DOMAIN step[t].resv}
AllocatedPages(t) == {p \in Pages : \E r \in Records(t) : p \in r.alloc}
SequencesOf(t) == {r.seq : r \in Records(t)}

\* The sequences of t that asked to be released.
Leaving(t) == {s \in Slots : s \in SequencesOf(t) /\ seq[s].rel}

\* They release their pages in reservation order.
Released(a, t, epochOf) ==
    Dropped(a, [i \in DOMAIN step[t].resv |-> step[t].resv[i].seq], Leaving(t),
            epochOf)

\* The sequences once the transaction or lease t is over: those that stay are
\* blocked until the safe epoch of a failure, if it was one.
Detached(t, failure) ==
    [s \in Slots |-> IF s \notin SequencesOf(t) THEN seq[s]
                     ELSE IF s \in Leaving(t) THEN NewSeq
                     ELSE [seq[s] EXCEPT !.pending = NoStep, !.lease = NoStep,
                                         !.moved = FALSE,
                                         !.blocked = Later(@, failure)]]

TextAfter(t) == [s \in Slots |-> IF s \in Leaving(t) THEN <<>> ELSE text[s]]

\* _rollback_transaction_locked.
RollBack(t) ==
    /\ pool' = Released(RollbackReserved(pool, AllocatedPages(t)), t,
                        [s \in Slots |-> seq[s].relEpoch])
    /\ seq' = Detached(t, NoEpoch)
    /\ text' = TextAfter(t)
    /\ step' = [step EXCEPT ![t] = NewStep]
    /\ Forget
    /\ UNCHANGED <<pub, doubtful>>

RollbackTransaction(t) == step[t].stage = "OPEN" /\ RollBack(t)

\* What prepare_step checks of every sequence of the plan.
PlanValid(t) ==
    \A r \in Records(t) :
        /\ ~seq[r.seq].rel /\ seq[r.seq].pending = t /\ seq[r.seq].lease = NoStep
        /\ ~seq[r.seq].moved /\ seq[r.seq].tokens = r.base

PrepareStep(t) ==
    /\ step[t].stage = "OPEN"
    /\ IF step[t].resv # <<>> /\ PlanValid(t)
       THEN /\ step' = [step EXCEPT ![t].stage = "PREPARED"]
            /\ seq' = [s \in Slots |->
                   IF s \in SequencesOf(t)
                   THEN [seq[s] EXCEPT !.pending = NoStep, !.lease = t]
                   ELSE seq[s]]
            /\ UNCHANGED <<pool, pub, bytes, text, doubtful>>
       ELSE RollBack(t)

-----------------------------------------------------------------------------
(* Leases *)

\* _lease_touched_pages: what the step may read or write.
TouchedPages(t) ==
    UNION {PagesOf(r.table) \cup (IF r.copy = <<>> THEN {} ELSE {r.copy[1].page})
              : r \in Records(t)}

MarkStepInFlight(t) ==
    /\ step[t].stage = "PREPARED"
    /\ pool' = MarkInflight(pool, TouchedPages(t))
    /\ step' = [step EXCEPT ![t].stage = "IN_FLIGHT"]
    /\ UNCHANGED <<seq, pub, bytes, text, doubtful>>

\* The row of `table' that holds the token at a position.
PageAt(table, position) == table[(position \div PageSize) + 1].page

\* The step's positions on page p: copied from the tail the plan replaces, or
\* written by the step.
Copies(r, p, o) == r.copy # <<>> /\ r.copy[2].page = p /\ o < r.copy[1].valid
Writes(r, p, o) ==
    \E x \in r.base .. r.base + r.count - 1 :
        PageAt(r.table, x) = p /\ x % PageSize = o

\* The device runs the launched step: the copies, then the writes.
DeviceRuns(t) ==
    /\ step[t].stage = "IN_FLIGHT" /\ ~step[t].ran
    /\ step' = [step EXCEPT ![t].ran = TRUE]
    /\ bytes' = [p \in Pages |-> [o \in 0 .. PageSize - 1 |->
           IF \E r \in Records(t) : Writes(r, p, o) THEN t
           ELSE IF \E r \in Records(t) : Copies(r, p, o)
           THEN LET r == CHOOSE r \in Records(t) : Copies(r, p, o)
                IN  bytes[r.copy[1].page][o]
           ELSE bytes[p][o]]]
    /\ UNCHANGED <<pool, seq, pub, text, doubtful>>

\* _validate_lease_sequences.
LeaseValid(t) ==
    \A r \in Records(t) : /\ seq[r.seq].lease = t /\ ~seq[r.seq].moved
                          /\ seq[r.seq].tokens = r.base

\* resolve_written_counts: how many rows of each reservation are kept.
WrittenCounts(t) ==
    {w \in [DOMAIN step[t].resv -> 1 .. MaxAppend] :
        \A i \in DOMAIN w : w[i] \in step[t].resv[i].floor .. step[t].resv[i].count}

\* _kept_table.
KeptTable(r, written) == Lay(r.table, r.base + written)

\* Mutant: the page the tail was copied from keeps its request reference.
KeepCopied(a, t) == a

\* Each reservation that copied its tail page gives up the old one.
ReleaseCopied(a, t) ==
    LET copying == {i \in DOMAIN step[t].resv : step[t].resv[i].copy # <<>>}
        source(i) == step[t].resv[i].copy[1].page
    IN  ReleaseRequestRefs(a, {source(i) : i \in copying},
            [p \in Pages |-> Cardinality({i \in copying : source(i) = p})],
            [p \in Pages |-> a.epoch])

\* The allocator after commit_step kept w rows.
CommittedPool(t, w) ==
    LET kept == [i \in DOMAIN w |-> KeptTable(step[t].resv[i], w[i])]
        keptPages == UNION {PagesOf(kept[i]) : i \in DOMAIN w}
        owners(p) == {i \in DOMAIN w : p \in PagesOf(kept[i])}
        rows(p) == LET i == CHOOSE i \in owners(p) : \A j \in owners(p) : j <= i
                       x == CHOOSE x \in DOMAIN kept[i] : kept[i][x].page = p
                   IN  kept[i][x].valid
        a == AbandonReserved(pool, AllocatedPages(t) \ keptPages, pool.epoch)
        b == CommitReserved(a, AllocatedPages(t) \cap keptPages)
        c == SetValidTokens(b, keptPages,
                 [p \in Pages |-> IF owners(p) = {} THEN 0 ELSE rows(p)])
    IN  ReleaseCopied(c, t)

\* commit_step under the executor's proof that the step ran.
CommitStep(t) ==
    /\ step[t].stage = "IN_FLIGHT" /\ step[t].ran
    /\ LeaseValid(t)
    /\ \E w \in WrittenCounts(t) :
         LET of(s) == CHOOSE i \in DOMAIN w : step[t].resv[i].seq = s
         IN  /\ pool' = CommittedPool(t, w)
             /\ seq' = [s \in Slots |->
                    IF s \notin SequencesOf(t) THEN seq[s]
                    ELSE [seq[s] EXCEPT
                             !.table = KeptTable(step[t].resv[of(s)], w[of(s)]),
                             !.tokens = @ + w[of(s)], !.moved = Bump(s)]]
             /\ text' = [s \in Slots |->
                    IF s \notin SequencesOf(t) THEN text[s]
                    ELSE text[s] \o [i \in 1 .. w[of(s)] |-> t]]
    /\ step' = [step EXCEPT ![t].stage = "COMMITTED"]
    /\ Forget
    /\ UNCHANGED <<pub, doubtful>>

\* _finish_lease_locked: a release requested meanwhile happens now, not before
\* the safe epoch of a failure.
FinishLease(a, t, failure) ==
    /\ LET safe == IF failure = NoEpoch THEN pool.epoch ELSE failure
       IN  pool' = Released(a, t, [s \in Slots |-> Later(seq[s].relEpoch, safe)])
    /\ seq' = Detached(t, failure)
    /\ text' = TextAfter(t)
    /\ step' = [step EXCEPT ![t] = NewStep]
    /\ Forget
    /\ UNCHANGED pub

RetireStep(t) ==
    /\ step[t].stage = "COMMITTED"
    /\ FinishLease(UnmarkInflight(pool, TouchedPages(t)), t, NoEpoch)
    /\ UNCHANGED doubtful

AbortPreparedStep(t) ==
    /\ step[t].stage = "PREPARED"
    /\ FinishLease(RollbackReserved(pool, AllocatedPages(t)), t, NoEpoch)
    /\ UNCHANGED doubtful

\* What a failed step may still write until its safe epoch.
WrittenPages(t) ==
    {p \in Pages : \E r \in Records(t), o \in 0 .. PageSize - 1 :
                       Writes(r, p, o) \/ Copies(r, p, o)}

\* Mutant: the safe epoch blocks the sequences but not the pages.
AbandonNow(t, safe) ==
    UnmarkInflight(AbandonReserved(pool, AllocatedPages(t), pool.epoch),
                   TouchedPages(t))

\* The allocator after a launched step failed.
Abandon(t, safe) ==
    UnmarkInflight(AbandonReserved(pool, AllocatedPages(t), safe), TouchedPages(t))

FailInFlightStep(t, d) ==
    LET safe == pool.epoch + d
    IN  /\ step[t].stage = "IN_FLIGHT"
        /\ FinishLease(Abandon(t, safe), t, safe)
        /\ doubtful' = IF d = 0 THEN doubtful ELSE doubtful \cup
               {[page |-> p, until |-> safe, new |-> p \in AllocatedPages(t)]
                   : p \in WrittenPages(t)}

-----------------------------------------------------------------------------
(* Epochs *)

Advance ==
    /\ pool.epoch < limit.epoch
    /\ pool' = AdvanceEpoch(pool, pool.epoch + 1)
    /\ doubtful' = {x \in doubtful : x.until > pool.epoch + 1}
    /\ UNCHANGED <<seq, step, pub, bytes, text>>

\* reclaim_deferred, which settlement calls at the end of every step.
ReclaimDeferred ==
    /\ pool' = ReclaimCompleted(pool)
    /\ UNCHANGED <<seq, step, pub, bytes, text, doubtful>>

Step ==
    \/ \E s \in Slots : CreateSequence(s)
    \/ \E s \in Slots : ReleaseSequence(s)
    \/ \E s \in Slots : PreemptSequence(s)
    \/ \E s \in Slots, n \in 0 .. limit.tokens : TruncateSequence(s, n)
    \/ \E k \in Pubs, s \in Slots, n \in 1 .. limit.tokens : PinPrefix(k, s, n)
    \/ \E k \in Pubs : UnpinPrefix(k)
    \/ \E k \in Pubs, s \in Slots : AttachPinnedPrefix(s, k)
    \/ \E s, r \in Slots, n \in 1 .. limit.tokens : ForkSequence(s, r, n)
    \/ \E t \in Steps : BeginTransaction(t)
    \/ \E t \in Steps, s \in Slots, n \in 1 .. MaxAppend :
           \E floor \in {1, n} : TryReserve(t, s, n, floor)
    \/ \E t \in Steps : RollbackTransaction(t)
    \/ \E t \in Steps : PrepareStep(t)
    \/ \E t \in Steps : MarkStepInFlight(t)
    \/ \E t \in Steps : DeviceRuns(t)
    \/ \E t \in Steps : CommitStep(t)
    \/ \E t \in Steps : RetireStep(t)
    \/ \E t \in Steps : AbortPreparedStep(t)
    \/ \E t \in Steps, d \in limit.delays : FailInFlightStep(t, d)
    \/ Advance
    \/ ReclaimDeferred

Next == Step /\ UNCHANGED limit

Spec == Init /\ [][Next]_vars
-----------------------------------------------------------------------------
(* Properties *)

\* assert_invariants of the allocator, whatever its callers do: the ready pages
\* are the FREE ones, an unowned page is in flight or on the reclaim heap, and a
\* page on the heap or free has no owner.
AllocatorInvariant == AllocatorOK(pool)

Cited(tables, p) ==
    Cardinality({x \in DOMAIN tables : p \in PagesOf(tables[x])})

Executing == {t \in Steps : step[t].stage \in {"IN_FLIGHT", "COMMITTED"}}
Tentative == {t \in Steps : step[t].stage \in {"OPEN", "PREPARED", "IN_FLIGHT"}}

\* The pages a committed step has allocated and kept no row of, until it retires.
Rejected ==
    UNION {AllocatedPages(t) \ UNION {PagesOf(seq[r.seq].table) : r \in Records(t)}
              : t \in {x \in Steps : step[x].stage = "COMMITTED"}}

\* The counters of a page are its owners: request_refs the sequences whose table
\* cites it, pin_refs the pinned prefixes, inflight_refs the launched steps that
\* touch it, reservation_refs the uncommitted reservation that allocated it.  So
\* no call of the manager finds a page in the wrong state or a count too low: the
\* allocator never raises.  And what assert_invariants of the manager says of
\* states: the pages of a table are LIVE with at least its rows, and the RESERVED
\* pages are those of uncommitted reservations, but for the Rejected ones.
\* (memory/manager.py:2153 makes no such exception, and would raise there.)
RefsMatchOwners ==
    /\ ~pool.fault
    /\ \A p \in Pages :
         LET m == pool.page[p]
         IN  /\ m.req = Cited([s \in Slots |-> seq[s].table], p)
             /\ m.pin = Cited([k \in Pubs |-> pub[k].table], p)
             /\ m.infl = Cardinality({t \in Executing : p \in TouchedPages(t)})
             /\ m.resv = Cardinality({t \in Tentative : p \in AllocatedPages(t)})
             /\ (m.state = "RESERVED") <=> (m.resv > 0 \/ p \in Rejected)
    /\ \A s \in Slots : \A i \in DOMAIN seq[s].table :
         LET m == pool.page[seq[s].table[i].page]
         IN  m.state = "LIVE" /\ m.valid >= seq[s].table[i].valid

\* Whatever is read through a table, the sequence's or a pinned prefix's, is the
\* KV of the tokens it stands for, at every moment: no step, fork, truncation or
\* recycled page overwrites a row somebody still reads.
ReadsSeeOwnTokens ==
    LET Reads(table, tokens) ==
            \A i \in DOMAIN tokens :
                bytes[PageAt(table, i - 1)][(i - 1) % PageSize] = tokens[i]
    IN  /\ \A s \in Slots : Reads(seq[s].table, text[s])
        /\ \A k \in Pubs : Reads(pub[k].table, pub[k].text)

\* fail_in_flight_step: a page the failed step had reserved is not used again
\* before the safe epoch it was given.
AbandonedPagesWait ==
    \A x \in doubtful : x.new => pool.page[x.page].state = "RECLAIM_PENDING"

\* The same of every page the failed step may have been writing, the tail page
\* of its sequence included: "releasing now would let them be recycled
\* underneath the in-flight kernel" (memory/manager.py:1318).
WrittenPagesWait ==
    \A x \in doubtful : pool.page[x.page].state # "FREE"
=============================================================================

----------------------------- MODULE DecodeRing -----------------------------
(***************************************************************************)
(* The dense decode ring of the continuous scheduler: _running_ids,        *)
(* _running_index and _decode_cursor (sched/core.py, sched/continuous.py). *)
(* Positions count from 0 as in the code.                                  *)
(*                                                                         *)
(* A decode plan walks the ring from the cursor and takes what is runnable *)
(* until the slots are used up; pressure may narrow it from its end; only  *)
(* an adopted plan moves the cursor.  A removal moves the tail into the    *)
(* hole.                                                                   *)
(***************************************************************************)
EXTENDS Integers, FiniteSets

CONSTANTS Ids,          \* request ids
          Slots,        \* decode rows the budget of one step allows
          MaxInflight   \* plan.max_inflight

ASSUME RingAssumption == Slots \in Nat \ {0} /\ MaxInflight \in Nat \ {0}

VARIABLES count,    \* len(_running_ids)
          ring,     \* _running_ids
          index,    \* _running_index
          cursor,   \* _decode_cursor
          dead,     \* terminal or cancelled, not yet dropped from the ring
          tickets,  \* decodes of each ticket in flight
          waited    \* auxiliary: full rounds each request has been passed over
                    \* for since the set of runnable requests last changed

ringVars == <<count, ring, index, cursor, dead, tickets, waited>>

Running == DOMAIN index
Flying == UNION tickets
Runnable(r) == r \in Running /\ r \notin dead /\ r \notin Flying
Rested == [r \in Ids |-> 0]

RingInit ==
    /\ count = 0
    /\ ring = [i \in {} |-> 0] /\ index = [r \in {} |-> 0]
    /\ cursor = 0
    /\ dead = {} /\ tickets = {}
    /\ waited = Rested

-----------------------------------------------------------------------------
\* _running_add of a request that is not in the ring.
RunningAdd(r) ==
    /\ r \notin Running
    /\ ring' = [i \in 0 .. count |-> IF i = count THEN r ELSE ring[i]]
    /\ index' = [x \in Running \cup {r} |-> IF x = r THEN count ELSE index[x]]
    /\ count' = count + 1
    /\ waited' = Rested
    /\ UNCHANGED <<cursor, dead, tickets>>

\* SchedulerCore._running_remove: the tail fills the hole.
RemovedRing(r) ==
    [i \in 0 .. count - 2 |-> IF i = index[r] THEN ring[count - 1] ELSE ring[i]]

RemovedIndex(r) ==
    [x \in Running \ {r} |-> IF x = ring[count - 1] THEN index[r] ELSE index[x]]

\* Mutant: the cursor does not follow the entry that moved.
CursorLeftBehind(r) == cursor % (IF count > 1 THEN count - 1 ELSE 1)

\* ContinuousScheduler._running_remove: a cursor at the tail moves with it.
RemovedCursor(r) ==
    (IF index[r] # count - 1 /\ cursor = count - 1 THEN index[r] ELSE cursor)
        % (IF count > 1 THEN count - 1 ELSE 1)

RunningRemove(r) ==
    /\ r \in Running /\ r \notin Flying
    /\ ring' = RemovedRing(r)
    /\ index' = RemovedIndex(r)
    /\ cursor' = RemovedCursor(r)
    /\ count' = count - 1
    /\ dead' = dead \ {r}
    /\ waited' = Rested
    /\ UNCHANGED tickets

\* A cancelled or finished request stays in the ring until it is dropped.
Die(r) ==
    /\ r \in Running \ dead
    /\ dead' = dead \cup {r}
    /\ waited' = Rested
    /\ UNCHANGED <<count, ring, index, cursor, tickets>>

At(k) == ring[(cursor + k) % count]

\* What a walk of k + 1 places takes.
Walked(k) == {r \in {At(j) : j \in 0 .. k} : Runnable(r)}

\* Mutant: the cursor stays on the last request served.
CursorOnLast(k) == (cursor + k) % count

\* _advance_decode_cursor: behind the last decode slice adopted.
AdvancedCursor(k) == (((cursor + k) % count) + 1) % count

\* No bound exceeds the number of requests, and counting stops there.
PassedOver(r) == IF waited[r] < Cardinality(Ids) THEN waited[r] + 1 ELSE waited[r]

\* _append_decodes, _shrink_transient and the adoption of what is left: the walk
\* ends with the last slice that was kept.
Schedule(k) ==
    /\ Cardinality(tickets) < MaxInflight
    /\ k < count /\ Runnable(At(k))
    /\ Cardinality(Walked(k)) <= Slots
    /\ LET full == Cardinality(Walked(k)) = Slots \/ Walked(count - 1) = Walked(k)
       IN  waited' = [r \in Ids |->
                        IF full /\ Runnable(r) /\ r \notin Walked(k) THEN PassedOver(r) ELSE 0]
    /\ tickets' = tickets \cup {Walked(k)}
    /\ cursor' = AdvancedCursor(k)
    /\ UNCHANGED <<count, ring, index, dead>>

Settle(b) ==
    /\ b \in tickets
    /\ tickets' = tickets \ {b}
    /\ UNCHANGED <<count, ring, index, cursor, dead, waited>>

RingNext ==
    \/ \E r \in Ids : RunningAdd(r) \/ RunningRemove(r) \/ Die(r)
    \/ \E k \in 0 .. count - 1 : Schedule(k)
    \/ \E b \in tickets : Settle(b)

RingSafety == RingInit /\ [][RingNext]_ringVars

\* The engine keeps scheduling, with all slots whenever it can, and tickets
\* settle.  Requests come and go as they like.
RingFairness ==
    /\ WF_ringVars(\E k \in 0 .. count - 1 : Schedule(k))
    /\ WF_ringVars(\E b \in tickets : Settle(b))

RingSpec == RingSafety /\ RingFairness

-----------------------------------------------------------------------------
RingTypeOK ==
    /\ count \in Nat
    /\ ring \in [0 .. count - 1 -> Ids]
    /\ Running \subseteq Ids /\ index \in [Running -> 0 .. count - 1]
    /\ cursor \in Nat
    /\ dead \subseteq Running /\ Flying \subseteq Running
    /\ waited \in [Ids -> Nat]

\* Array and index are inverse to each other and the cursor points into the
\* array, after any sequence of additions and swap-with-last removals
\* (_running_add, _running_remove).
RingIsDense ==
    /\ \A i \in 0 .. count - 1 : ring[i] \in Running /\ index[ring[i]] = i
    /\ \A r \in Running : ring[index[r]] = r
    /\ cursor < count \/ cursor = 0

\* "Removing a running request keeps the cursor attached to the next runnable
\* identity, even when dense-ring removal moves the tail." (sched/README.md)
CursorKeepsIdentity ==
    [][\A r \in Running : r \notin DOMAIN index' /\ ring[cursor] # r
         => cursor' < count' /\ ring'[cursor'] = ring[cursor]]_ringVars

\* "For N runnable decodes and D available decode slots per serviceable round, a
\* stable-capacity trace selects each request within `ceil(N / D)` rounds."
\* (sched/README.md)
ServedWithinBound ==
    LET n == Cardinality(Running \ dead)
    IN  \A r \in Running \ dead : waited[r] < (n + Slots - 1) \div Slots

\* Removals alone never starve a request: if one is passed over for ever, new
\* requests join the ring for ever (swap-with-last against the cursor).
ServedUnlessArrivals ==
    \A r \in Ids : []<><<\E x \in Ids : RunningAdd(x)>>_ringVars
                    \/ (Runnable(r) ~> ~Runnable(r))

=============================================================================

-------------------------- MODULE DecodeRingProofs --------------------------
(***************************************************************************)
(* The decode ring stays dense and its cursor keeps its place for every    *)
(* set of requests, any number of slots and of tickets in flight.          *)
(*                                                                         *)
(* RingTypeOK and RingIsDense are inductive together: the index has to be  *)
(* in range for the swap to be well defined, and the swap keeps it there   *)
(* only because array and index are inverse to each other.                 *)
(***************************************************************************)
EXTENDS DecodeRing, TLAPS

RingInv == RingTypeOK /\ RingIsDense

\* Python's modulo with a positive divisor.
LEMMA ModRange ==
    ASSUME NEW a \in Nat, NEW m \in Nat \ {0}
    PROVE  /\ a % m \in 0 .. m - 1
           /\ a < m => a % m = a
  OBVIOUS

\* Before anything is added the ring is dense.
LEMMA RingInitInv == RingInit => RingInv
  <1> SUFFICES ASSUME RingInit PROVE RingInv
    OBVIOUS
  <1>1. DOMAIN ring = {} /\ DOMAIN index = {} /\ 0 .. count - 1 = {}
    BY DEF RingInit
  <1>2. ring \in [0 .. count - 1 -> Ids] /\ index \in [Running -> 0 .. count - 1]
    BY <1>1 DEF RingInit, Running
  <1>3. waited \in [Ids -> Nat]
    BY DEF RingInit, Rested
  <1>4. Running \subseteq Ids /\ dead \subseteq Running /\ Flying \subseteq Running
    BY <1>1 DEF RingInit, Running, Flying
  <1>5. RingIsDense
    BY <1>1 DEF RingInit, RingIsDense, Running
  <1> QED
    BY <1>2, <1>3, <1>4, <1>5 DEF RingInv, RingTypeOK, RingInit

\* A request that joins takes the place behind the tail.
LEMMA AddInv ==
    ASSUME RingInv, NEW r \in Ids, RunningAdd(r)
    PROVE  RingInv'
  <1> USE DEF RingInv, RingTypeOK, RunningAdd
  <1>1. /\ count' = count + 1 /\ count' \in Nat
        /\ 0 .. count' - 1 = (0 .. count - 1) \cup {count}
        /\ Running' = Running \cup {r}
    BY DEF Running
  <1>2. ring' \in [0 .. count' - 1 -> Ids] /\ index' \in [Running' -> 0 .. count' - 1]
    BY <1>1
  <1>3. waited' \in [Ids -> Nat]
    BY DEF Rested
  <1>4. Running' \subseteq Ids /\ dead' \subseteq Running' /\ Flying' \subseteq Running'
    BY <1>1 DEF Flying
  <1>5. \A i \in 0 .. count' - 1 : ring'[i] \in Running' /\ index'[ring'[i]] = i
    <2> TAKE i \in 0 .. count' - 1
    <2>1. CASE i = count
      BY <1>1, <2>1
    <2>2. CASE i \in 0 .. count - 1
      <3>1. ring'[i] = ring[i] /\ ring[i] \in Running /\ index[ring[i]] = i
        BY <1>1, <2>2 DEF RingIsDense
      <3> QED
        BY <3>1, <1>1
    <2> QED
      BY <1>1, <2>1, <2>2
  <1>6. \A x \in Running' : ring'[index'[x]] = x
    <2> TAKE x \in Running'
    <2>1. CASE x = r
      BY <1>1, <2>1
    <2>2. CASE x \in Running
      <3>1. index'[x] = index[x] /\ index[x] \in 0 .. count - 1 /\ ring[index[x]] = x
        BY <1>1, <2>2 DEF RingIsDense
      <3> QED
        BY <3>1, <1>1
    <2> QED
      BY <1>1, <2>1, <2>2
  <1>7. cursor' < count' \/ cursor' = 0
    BY <1>1 DEF RingIsDense
  <1> QED
    BY SMTT(60), <1>1, <1>2, <1>3, <1>4, <1>5, <1>6, <1>7 DEF RingIsDense

\* What a removal does to array, index and cursor, with the tail named.
LEMMA RemoveStep ==
    ASSUME RingInv, NEW r \in Ids, RunningRemove(r)
    PROVE  /\ count \in Nat \ {0} /\ count' = count - 1
           /\ index[r] \in 0 .. count - 1 /\ ring[index[r]] = r
           /\ ring[count - 1] \in Running /\ index[ring[count - 1]] = count - 1
           /\ Running' = Running \ {r}
           /\ cursor \in 0 .. count - 1
           /\ \A i \in 0 .. count' - 1 :
                ring'[i] = IF i = index[r] THEN ring[count - 1] ELSE ring[i]
           /\ \A x \in Running' :
                index'[x] = IF x = ring[count - 1] THEN index[r] ELSE index[x]
  <1> USE DEF RingInv, RingTypeOK, RunningRemove
  <1>1. index[r] \in 0 .. count - 1 /\ ring[index[r]] = r
    BY DEF RingIsDense
  <1>2. count \in Nat \ {0} /\ count' = count - 1 /\ count - 1 \in 0 .. count - 1
    BY <1>1
  <1>3. ring[count - 1] \in Running /\ index[ring[count - 1]] = count - 1
    BY <1>2 DEF RingIsDense
  <1>4. Running' = Running \ {r}
    BY DEF RemovedIndex, Running
  <1>5. cursor \in 0 .. count - 1
    BY <1>2 DEF RingIsDense
  <1>6. \A i \in 0 .. count' - 1 :
          ring'[i] = IF i = index[r] THEN ring[count - 1] ELSE ring[i]
    BY <1>2 DEF RemovedRing
  <1>7. \A x \in Running' :
          index'[x] = IF x = ring[count - 1] THEN index[r] ELSE index[x]
    BY <1>4 DEF RemovedIndex
  <1> QED
    BY <1>1, <1>2, <1>3, <1>4, <1>5, <1>6, <1>7

\* Where the cursor of a removal ends up: with the tail if it was there, at the
\* start if the tail itself was removed under it, and else where it was.
LEMMA RemoveCursor ==
    ASSUME RingInv, NEW r \in Ids, RunningRemove(r)
    PROVE  /\ cursor' \in Nat /\ (cursor' < count' \/ cursor' = 0)
           /\ cursor < count - 1 => cursor' = cursor
           /\ cursor = count - 1 /\ index[r] # count - 1 => cursor' = index[r]
  <1> DEFINE c == IF index[r] # count - 1 /\ cursor = count - 1 THEN index[r] ELSE cursor
             m == IF count > 1 THEN count - 1 ELSE 1
  <1>1. /\ count \in Nat \ {0} /\ count' = count - 1
        /\ index[r] \in 0 .. count - 1 /\ cursor \in 0 .. count - 1
    BY RemoveStep
  <1>2. c \in Nat /\ m \in Nat \ {0}
    BY <1>1
  <1>3. cursor' = c % m
    BY DEF RunningRemove, RemovedCursor
  <1>4. c % m \in 0 .. m - 1 /\ (c < m => c % m = c)
    <2> HIDE DEF c, m
    <2> QED
      BY Zenon, <1>2, ModRange
  <1> QED
    BY <1>1, <1>3, <1>4

\* The tail fills the hole, and its index follows it.
LEMMA RemoveInv ==
    ASSUME RingInv, NEW r \in Ids, RunningRemove(r)
    PROVE  RingInv'
  <1> DEFINE moved == ring[count - 1]
             hole == index[r]
  <1>0. /\ count \in Nat \ {0} /\ count' = count - 1
        /\ hole \in 0 .. count - 1 /\ ring[hole] = r
        /\ moved \in Running /\ index[moved] = count - 1
        /\ Running' = Running \ {r}
        /\ \A i \in 0 .. count' - 1 : ring'[i] = IF i = hole THEN moved ELSE ring[i]
        /\ \A x \in Running' : index'[x] = IF x = moved THEN hole ELSE index[x]
    BY RemoveStep
  <1>1. /\ \A i \in 0 .. count - 1 : ring[i] \in Running /\ index[ring[i]] = i
        /\ \A x \in Running : ring[index[x]] = x /\ index[x] \in 0 .. count - 1
        /\ Running \subseteq Ids
    BY DEF RingInv, RingIsDense, RingTypeOK
  <1>2. moved # r => hole \in 0 .. count' - 1
    BY <1>0
  <1>3. ring' \in [0 .. count' - 1 -> Ids]
    <2>1. ring' = [i \in 0 .. count' - 1 |-> IF i = hole THEN moved ELSE ring[i]]
      BY <1>0 DEF RunningRemove, RemovedRing
    <2>2. \A i \in 0 .. count' - 1 : (IF i = hole THEN moved ELSE ring[i]) \in Ids
      BY <1>0, <1>1
    <2> HIDE DEF moved, hole
    <2> QED
      BY <2>1, <2>2
  <1>4. \A x \in Running' : index'[x] \in 0 .. count' - 1
    <2> TAKE x \in Running'
    <2>1. x \in Running /\ x # r
      BY <1>0
    <2>2. CASE x = moved
      BY <2>1, <2>2, <1>0, <1>2
    <2>3. CASE x # moved
      <3>1. index[x] # count - 1
        BY <2>1, <2>3, <1>1
      <3> QED
        BY <2>1, <2>3, <3>1, <1>0, <1>1
    <2> QED
      BY <2>2, <2>3
  <1>5. index' \in [Running' -> 0 .. count' - 1]
    <2>1. index' = [x \in Running' |-> index'[x]]
      BY <1>0 DEF RunningRemove, RemovedIndex, Running
    <2> QED
      BY <2>1, <1>4
  <1>6. \A i \in 0 .. count' - 1 : ring'[i] \in Running' /\ index'[ring'[i]] = i
    <2> TAKE i \in 0 .. count' - 1
    <2>1. CASE i = hole
      <3>1. moved # r
        BY <2>1, <1>0
      <3> QED
        BY <2>1, <3>1, <1>0
    <2>2. CASE i # hole
      <3>1. i \in 0 .. count - 1 /\ i # count - 1
        BY <1>0
      <3>2. ring[i] \in Running /\ index[ring[i]] = i
        BY <1>1, <3>1
      <3>3. ring[i] # r /\ ring[i] # moved
        BY <3>1, <3>2, <2>2, <1>0
      <3> QED
        BY <3>2, <3>3, <2>2, <1>0
    <2> QED
      BY <2>1, <2>2
  <1>7. \A x \in Running' : ring'[index'[x]] = x
    <2> TAKE x \in Running'
    <2>1. x \in Running /\ x # r
      BY <1>0
    <2>2. CASE x = moved
      BY <2>1, <2>2, <1>0, <1>2
    <2>3. CASE x # moved
      <3>1. index'[x] = index[x] /\ index[x] \in 0 .. count' - 1
        BY <2>3, <1>0, <1>4
      <3>2. index[x] # hole
        BY <2>1, <1>0, <1>1
      <3> QED
        BY <2>1, <3>1, <3>2, <1>0, <1>1
    <2> QED
      BY <2>2, <2>3
  <1>8. /\ Running' \subseteq Ids /\ dead' \subseteq Running' /\ Flying' \subseteq Running'
        /\ waited' \in [Ids -> Nat]
    BY <1>0, <1>1 DEF RingInv, RingTypeOK, RunningRemove, Flying, Rested
  <1>9. cursor' \in Nat /\ (cursor' < count' \/ cursor' = 0)
    BY RemoveCursor
  <1>10. count' \in Nat
    BY <1>0
  <1> QED
    BY Zenon, <1>3, <1>5, <1>6, <1>7, <1>8, <1>9, <1>10 DEF RingInv, RingTypeOK, RingIsDense

\* A plan is adopted: only the cursor and the counts of the rounds change.
LEMMA ScheduleInv ==
    ASSUME RingInv, NEW k \in 0 .. count - 1, Schedule(k)
    PROVE  RingInv'
  <1>1. UNCHANGED <<count, ring, index, dead>> /\ Running' = Running
    BY DEF Schedule, Running
  <1>2. count \in Nat \ {0} /\ cursor \in Nat
    BY DEF RingInv, RingTypeOK
  <1>3. cursor' \in Nat /\ cursor' < count'
    <2> DEFINE p == ((cursor + k) % count) + 1
    <2>1. (cursor + k) % count \in 0 .. count - 1
      BY <1>2, ModRange
    <2>2. p \in Nat
      BY <2>1
    <2>3. cursor' = p % count
      BY DEF Schedule, AdvancedCursor
    <2> HIDE DEF p
    <2>4. p % count \in 0 .. count - 1
      BY <2>2, <1>2, ModRange
    <2> QED
      BY <2>3, <2>4, <1>1, <1>2
  <1>4. waited' \in [Ids -> Nat]
    <2>1. \A r \in Ids : PassedOver(r) \in Nat
      BY DEF PassedOver, RingInv, RingTypeOK
    <2> QED
      BY <2>1 DEF Schedule
  <1>5. Flying' \subseteq Running'
    <2>1. Walked(k) \subseteq Running
      BY DEF Walked, Runnable
    <2>2. tickets' = tickets \cup {Walked(k)}
      BY DEF Schedule
    <2> QED
      BY <1>1, <2>1, <2>2 DEF Flying, RingInv, RingTypeOK
  <1> QED
    BY SMTT(60), <1>1, <1>3, <1>4, <1>5 DEF RingInv, RingTypeOK, RingIsDense

\* Every step keeps the ring dense.
LEMMA RingStepInv == RingInv /\ [RingNext]_ringVars => RingInv'
  <1> SUFFICES ASSUME RingInv, [RingNext]_ringVars PROVE RingInv'
    OBVIOUS
  <1>1. CASE \E r \in Ids : RunningAdd(r)
    BY <1>1, AddInv
  <1>2. CASE \E r \in Ids : RunningRemove(r)
    BY <1>2, RemoveInv
  <1>3. CASE \E r \in Ids : Die(r)
    <2> PICK r \in Ids : Die(r)
      BY <1>3
    <2>1. UNCHANGED <<count, ring, index, cursor, tickets>> /\ dead' \subseteq Running
      BY DEF Die, RingInv, RingTypeOK
    <2>2. waited' \in [Ids -> Nat]
      BY DEF Die, Rested
    <2> QED
      BY <2>1, <2>2 DEF RingInv, RingTypeOK, RingIsDense, Running, Flying
  <1>4. CASE \E k \in 0 .. count - 1 : Schedule(k)
    BY <1>4, ScheduleInv
  <1>5. CASE \E b \in tickets : Settle(b)
    <2> PICK b \in tickets : Settle(b)
      BY <1>5
    <2>1. UNCHANGED <<count, ring, index, cursor, dead, waited>> /\ tickets' \subseteq tickets
      BY DEF Settle
    <2> QED
      BY <2>1 DEF RingInv, RingTypeOK, RingIsDense, Running, Flying
  <1>6. CASE UNCHANGED ringVars
    BY <1>6 DEF ringVars, RingInv, RingTypeOK, RingIsDense, Running, Flying
  <1> QED
    BY <1>1, <1>2, <1>3, <1>4, <1>5, <1>6 DEF RingNext

\* The ring is dense and well typed in every reachable state: any sequence of
\* _running_add, _running_remove, adoptions and settlements.
THEOREM RingInvariant == RingSafety => []RingInv
  BY RingInitInv, RingStepInv, PTL DEF RingSafety

\* Every variable of the ring keeps its type, whatever joins and leaves.
THEOREM RingTypeCorrect == RingSafety => []RingTypeOK
  <1>1. RingInv => RingTypeOK
    BY DEF RingInv
  <1> QED
    BY <1>1, RingInvariant, PTL

\* _running_ids and _running_index stay inverse to each other under any sequence
\* of _running_add and swap-with-last _running_remove, and the cursor stays
\* inside the ring.
THEOREM RingStaysDense == RingSafety => []RingIsDense
  <1>1. RingInv => RingIsDense
    BY DEF RingInv
  <1> QED
    BY <1>1, RingInvariant, PTL

\* The overridden _running_remove keeps the cursor on the request it points at,
\* whichever other request leaves, even when that request is the tail that moves.
THEOREM CursorFollowsIdentity == RingSafety => CursorKeepsIdentity
  <1> DEFINE Keeps == \A r \in Running : r \notin DOMAIN index' /\ ring[cursor] # r
                        => cursor' < count' /\ ring'[cursor'] = ring[cursor]
  <1>1. RingInv /\ [RingNext]_ringVars => [Keeps]_ringVars
    <2> SUFFICES ASSUME RingInv, [RingNext]_ringVars, NEW r \in Running,
                        r \notin DOMAIN index', ring[cursor] # r
                 PROVE  cursor' < count' /\ ring'[cursor'] = ring[cursor]
      OBVIOUS
    <2>1. PICK q \in Ids : RunningRemove(q)
      <3>1. ASSUME NEW x \in Ids, RunningAdd(x) PROVE FALSE
        BY <3>1 DEF RunningAdd, Running
      <3>2. ASSUME index' = index PROVE FALSE
        BY <3>2 DEF Running
      <3> QED
        BY <3>1, <3>2 DEF RingNext, ringVars, Die, Schedule, Settle
    <2>2. /\ count \in Nat \ {0} /\ count' = count - 1
          /\ index[q] \in 0 .. count - 1 /\ ring[index[q]] = q
          /\ Running' = Running \ {q}
          /\ cursor \in 0 .. count - 1
          /\ \A i \in 0 .. count' - 1 :
               ring'[i] = IF i = index[q] THEN ring[count - 1] ELSE ring[i]
      BY <2>1, RemoveStep
    <2>3. q = r
      BY <2>2 DEF Running
    <2>4. /\ cursor < count - 1 => cursor' = cursor
          /\ cursor = count - 1 /\ index[q] # count - 1 => cursor' = index[q]
      BY <2>1, RemoveCursor
    <2>5. cursor # index[q]
      BY <2>2, <2>3
    <2>6. CASE cursor < count - 1
      BY <2>2, <2>4, <2>5, <2>6
    <2>7. CASE cursor = count - 1
      BY <2>2, <2>4, <2>5, <2>7
    <2> QED
      BY <2>2, <2>6, <2>7
  <1> QED
    BY <1>1, RingInvariant, PTL DEF RingSafety, CursorKeepsIdentity
=============================================================================

-------------------------- MODULE StepGroupProofs --------------------------
(***************************************************************************)
(* The group protocol for every number of ranks, steps and recoveries, on  *)
(* new control planes and on old ones.                                     *)
(*                                                                         *)
(* The argument follows the position of a collective on its plane.  A yes  *)
(* vote tells what its rank submitted, and what everybody submitted, one   *)
(* position earlier (EntryOK), unless a recovery on the same plane lies    *)
(* between the two (Rejoin); so two ranks that say yes at one position     *)
(* came there by the same calls, which is GrantsNeverMix.                  *)
(***************************************************************************)
EXTENDS StepGroup, TLAPS

Wires == [Planes -> [Ranks -> Seq(Entries)]]

\* Every rank has submitted its n-th collective on p, and it is an op.
All(w, p, n, op) == \A q \in Ranks : n \in 1..Len(w[p][q]) /\ w[p][q][n].op = op

\* The n-th collective on p is an all-grant that everybody joined with a yes.
Unan(w, p, n) ==
  \A q \in Ranks : n \in 1..Len(w[p][q]) /\ w[p][q][n].op = "grant" /\ w[p][q][n].yes

\* Somebody joined the n-th collective on p with a no.
Split(w, p, n) == \E q \in Ranks : n \in 1..Len(w[p][q]) /\ ~w[p][q][n].yes

Kind(e) ==
  /\ e.why = "step" => e.op = "broadcast"
  /\ e.why \in {"prepare", "proof", "commit", "vote"} => e.op = "grant"
  /\ e.why \in {"end", "close"} => e.op = "barrier"
  /\ e.why = "vote" => e.step = 0

\* Where a rank at rest on a READY incarnation stands after n collectives.
Rested(w, p, r, n) ==
  \/ n = 0
  \/ n > 0 /\ w[p][r][n].op = "barrier"
  \/ n > 0 /\ w[p][r][n].why = "prepare" /\ w[p][r][n].op = "grant" /\ Split(w, p, n)

\* Rejoins, of any wire.
Rejoin(w, p, r, n) ==
  /\ w[p][r][n].why = "vote" /\ w[p][r][n].yes
  /\ n > 1 /\ w[p][r][n - 1].gen # w[p][r][n].gen

\* The n-th call of a rank follows the unanimous why-call of the same step.
After(w, p, r, n, why) ==
  /\ n > 1 /\ Unan(w, p, n - 1)
  /\ w[p][r][n - 1].why = why /\ w[p][r][n - 1].step = w[p][r][n].step

EntryOK(w, p, r, n) ==
  /\ Kind(w[p][r][n])
  /\ (w[p][r][n].why = "prepare" /\ w[p][r][n].yes) =>
       /\ n > 1 /\ All(w, p, n - 1, "broadcast")
       /\ w[p][r][n].step = w[p][Source][n - 1].step
  /\ (w[p][r][n].why = "proof" /\ w[p][r][n].yes) => After(w, p, r, n, "prepare")
  /\ (w[p][r][n].why = "commit" /\ w[p][r][n].yes) => After(w, p, r, n, "proof")
  /\ (w[p][r][n].why = "vote" /\ w[p][r][n].yes) =>
       Rested(w, p, r, n - 1) \/ Rejoin(w, p, r, n)

EntriesOK(w) ==
  \A p \in Planes, r \in Ranks : \A n \in 1..Len(w[p][r]) : EntryOK(w, p, r, n)

\* The n-th votes of r and q belong to one phase of one step.
Alike(w, p, r, q, n) ==
  \/ w[p][r][n].why = w[p][q][n].why /\ w[p][r][n].step = w[p][q][n].step
  \/ Rejoin(w, p, r, n) \/ Rejoin(w, p, q, n)

\* Unanimous votes at one position belong to one phase of one step.
Pure(w, p, n) == Unan(w, p, n) => \A r, q \in Ranks : Alike(w, p, r, q, n)
AllPure(w) == \A p \in Planes, n \in Nat : Pure(w, p, n)

\* Unanimous, of any wire.
Agreed(w, p, n, why, s) ==
  \A q \in Ranks :
    /\ n \in 1..Len(w[p][q])
    /\ \/ w[p][q][n].why = why /\ w[p][q][n].step = s /\ w[p][q][n].yes
       \/ Rejoin(w, p, q, n)

-----------------------------------------------------------------------------
(* Facts about one wire, and about a wire that grows by one entry          *)

\* w2 is w1 with the entry e appended for rank r on plane p.
Added(w1, w2, p, r, e) ==
  /\ w2[p][r] = Append(w1[p][r], e)
  /\ \A x \in Planes, q \in Ranks : (x # p \/ q # r) => w2[x][q] = w1[x][q]

Grown(w1, w2) ==
  \A p \in Planes, q \in Ranks :
    /\ Len(w1[p][q]) <= Len(w2[p][q])
    /\ \A n \in 1..Len(w1[p][q]) : w2[p][q][n] = w1[p][q][n]

LEMMA PlanesAreNat == \A p \in Planes : p \in Nat
  BY DEF Planes

LEMMA StepsAreNat == \A s \in Steps \union {0} : s \in Nat
  BY DEF Steps

LEMMA LengthIsNat ==
  ASSUME NEW w \in Wires, NEW p \in Planes, NEW q \in Ranks
  PROVE  w[p][q] \in Seq(Entries) /\ Len(w[p][q]) \in Nat
<1>1. w[p][q] \in Seq(Entries)
  BY DEF Wires
<1> QED
  BY <1>1

LEMMA EntryFields ==
  ASSUME NEW w \in Wires, NEW p \in Planes, NEW q \in Ranks, NEW n \in 1..Len(w[p][q])
  PROVE  /\ w[p][q] \in Seq(Entries) /\ Len(w[p][q]) \in Nat
         /\ w[p][q][n] \in Entries
         /\ w[p][q][n].yes \in BOOLEAN
         /\ w[p][q][n].step \in Nat /\ w[p][q][n].gen \in Nat
         /\ w[p][q][n].why \in {"step", "prepare", "proof", "commit", "end", "vote", "close"}
<1>1. w[p][q] \in Seq(Entries)
  BY DEF Wires
<1>2. Len(w[p][q]) \in Nat /\ w[p][q][n] \in Entries
  BY <1>1
<1>3. w[p][q][n].step \in Steps \union {0}
  BY <1>2 DEF Entries
<1> QED
  BY <1>1, <1>2, <1>3, StepsAreNat, PlanesAreNat DEF Entries

\* Appending an entry leaves every earlier position as it was.
LEMMA AddedGrows ==
  ASSUME NEW w1 \in Wires, NEW w2, NEW p \in Planes, NEW r \in Ranks, NEW e \in Entries,
         Added(w1, w2, p, r, e)
  PROVE  /\ Grown(w1, w2)
         /\ Len(w2[p][r]) = Len(w1[p][r]) + 1
         /\ w2[p][r][Len(w1[p][r]) + 1] = e
<1>1. w1[p][r] \in Seq(Entries)
  BY DEF Wires
<1>2. /\ Len(w2[p][r]) = Len(w1[p][r]) + 1
      /\ w2[p][r][Len(w1[p][r]) + 1] = e
      /\ \A n \in 1..Len(w1[p][r]) : w2[p][r][n] = w1[p][r][n]
      /\ Len(w1[p][r]) \in Nat
  BY <1>1 DEF Added
<1>3. ASSUME NEW x \in Planes, NEW q \in Ranks
      PROVE  /\ Len(w1[x][q]) <= Len(w2[x][q])
             /\ \A n \in 1..Len(w1[x][q]) : w2[x][q][n] = w1[x][q][n]
  <2>1. CASE x = p /\ q = r
    BY <2>1, <1>2
  <2>2. CASE x # p \/ q # r
    <3>1. w2[x][q] = w1[x][q]
      BY <2>2 DEF Added
    <3>2. w1[x][q] \in Seq(Entries)
      BY DEF Wires
    <3> QED
      BY <3>1, <3>2
  <2> QED
    BY <2>1, <2>2
<1> QED
  BY <1>2, <1>3 DEF Grown

\* What was submitted stays submitted.
LEMMA GrownKeeps ==
  ASSUME NEW w1 \in Wires, NEW w2 \in Wires, Grown(w1, w2), NEW p \in Planes, NEW n \in Nat
  PROVE  /\ \A op : All(w1, p, n, op) => All(w2, p, n, op)
         /\ Unan(w1, p, n) => Unan(w2, p, n)
         /\ Split(w1, p, n) => Split(w2, p, n)
<1>1. ASSUME NEW q \in Ranks
      PROVE  \A m \in 1..Len(w1[p][q]) : m \in 1..Len(w2[p][q]) /\ w2[p][q][m] = w1[p][q][m]
  <2>1. w1[p][q] \in Seq(Entries) /\ w2[p][q] \in Seq(Entries)
    BY DEF Wires
  <2>2. Len(w1[p][q]) \in Nat /\ Len(w2[p][q]) \in Nat
    BY <2>1
  <2> QED
    BY <2>2 DEF Grown
<1> QED
  BY ZenonT(60), <1>1 DEF All, Unan, Split

LEMMA RejoinKept ==
  ASSUME NEW w1 \in Wires, NEW w2, Grown(w1, w2), NEW p \in Planes, NEW r \in Ranks,
         NEW n \in 1..Len(w1[p][r])
  PROVE  Rejoin(w2, p, r, n) <=> Rejoin(w1, p, r, n)
<1>1. Len(w1[p][r]) \in Nat /\ n \in Nat
  BY LengthIsNat
<1>2. n > 1 => n - 1 \in 1..Len(w1[p][r])
  BY <1>1
<1>3. w2[p][r][n] = w1[p][r][n] /\ (n > 1 => w2[p][r][n - 1] = w1[p][r][n - 1])
  BY Zenon, <1>2 DEF Grown
<1> QED
  BY Zenon, <1>3 DEF Rejoin

LEMMA AgreedKept ==
  ASSUME NEW w1 \in Wires, NEW w2 \in Wires, Grown(w1, w2), NEW p \in Planes, NEW n \in Nat,
         NEW why, NEW s, Agreed(w1, p, n, why, s)
  PROVE  /\ Agreed(w2, p, n, why, s)
         /\ \A q \in Ranks : w2[p][q][n] = w1[p][q][n]
<1>1. ASSUME NEW q \in Ranks
      PROVE  /\ n \in 1..Len(w2[p][q]) /\ w2[p][q][n] = w1[p][q][n]
             /\ Rejoin(w1, p, q, n) => Rejoin(w2, p, q, n)
  <2>1. n \in 1..Len(w1[p][q])
    BY Zenon DEF Agreed
  <2>2. Len(w1[p][q]) \in Nat /\ Len(w2[p][q]) \in Nat
    BY LengthIsNat
  <2>3. Len(w1[p][q]) <= Len(w2[p][q]) /\ w2[p][q][n] = w1[p][q][n]
    BY Zenon, <2>1 DEF Grown
  <2>4. n \in 1..Len(w2[p][q])
    BY <2>1, <2>2, <2>3
  <2> QED
    BY Zenon, <2>1, <2>3, <2>4, RejoinKept
<1> QED
  BY Zenon, <1>1 DEF Agreed

\* The entries of a wire stay in order when another one is submitted.
LEMMA EntriesKept ==
  ASSUME NEW w1 \in Wires, NEW w2 \in Wires, Grown(w1, w2), EntriesOK(w1)
  PROVE  \A p \in Planes, r \in Ranks : \A n \in 1..Len(w1[p][r]) : EntryOK(w2, p, r, n)
<1> SUFFICES ASSUME NEW p \in Planes, NEW r \in Ranks, NEW n \in 1..Len(w1[p][r])
             PROVE  EntryOK(w2, p, r, n)
  OBVIOUS
<1>1. Source \in Ranks
  BY GroupAssumption
<1>2. w1[p][r] \in Seq(Entries) /\ w1[p][Source] \in Seq(Entries)
  BY <1>1 DEF Wires
<1>3. Len(w1[p][r]) \in Nat /\ Len(w1[p][Source]) \in Nat /\ n \in Nat /\ n - 1 \in Int
  BY <1>2
<1>4. w2[p][r][n] = w1[p][r][n]
  BY DEF Grown
<1>5. n > 1 => w2[p][r][n - 1] = w1[p][r][n - 1] /\ n - 1 \in Nat
  BY <1>3 DEF Grown
<1>6. EntryOK(w1, p, r, n)
  BY DEF EntriesOK
<1>7. n - 1 \in Nat
  BY <1>3
<1>8. /\ All(w1, p, n - 1, "broadcast") => All(w2, p, n - 1, "broadcast")
      /\ Unan(w1, p, n - 1) => Unan(w2, p, n - 1)
      /\ Split(w1, p, n - 1) => Split(w2, p, n - 1)
  BY <1>7, GrownKeeps
<1>9. All(w1, p, n - 1, "broadcast") => w2[p][Source][n - 1] = w1[p][Source][n - 1]
  BY SMTT(60), <1>1, <1>3 DEF All, Grown
<1>10. \A why : After(w1, p, r, n, why) => After(w2, p, r, n, why)
  BY SMTT(60), <1>4, <1>5, <1>8 DEF After
<1>11. Rested(w1, p, r, n - 1) => Rested(w2, p, r, n - 1)
  BY SMTT(60), <1>3, <1>5, <1>8 DEF Rested
<1>12. Rejoin(w1, p, r, n) => Rejoin(w2, p, r, n)
  BY Zenon, RejoinKept
<1> QED
  BY SMTT(60), <1>4, <1>6, <1>8, <1>9, <1>10, <1>11, <1>12 DEF EntryOK

\* Two yes votes at one unanimous position were cast in the same phase.
LEMMA SamePhase ==
  ASSUME NEW w \in Wires, EntriesOK(w), NEW p \in Planes, NEW n \in Nat,
         Unan(w, p, n), n > 1 => Pure(w, p, n - 1)
  PROVE  \A r, q \in Ranks : Alike(w, p, r, q, n)
<1> SUFFICES ASSUME NEW r \in Ranks, NEW q \in Ranks,
                    ~Rejoin(w, p, r, n), ~Rejoin(w, p, q, n)
             PROVE  /\ w[p][r][n].why = w[p][q][n].why
                    /\ w[p][r][n].step = w[p][q][n].step
  BY Zenon DEF Alike
<1> DEFINE Grants == {"prepare", "proof", "commit", "vote"}
<1>1. ASSUME NEW x \in Ranks
      PROVE  /\ EntryOK(w, p, x, n) /\ w[p][x][n].yes /\ w[p][x][n].why \in Grants
             /\ w[p][x][n].op = "grant"
  <2>1. n \in 1..Len(w[p][x]) /\ w[p][x][n].op = "grant" /\ w[p][x][n].yes
    BY DEF Unan
  <2>2. EntryOK(w, p, x, n)
    BY <2>1 DEF EntriesOK
  <2>3. w[p][x][n].why \in {"step", "prepare", "proof", "commit", "end", "vote", "close"}
    BY <2>1, EntryFields
  <2> QED
    BY Zenon, <2>1, <2>2, <2>3 DEF EntryOK, Kind
<1>2. ASSUME NEW x \in Ranks, w[p][x][n].why = "prepare"
      PROVE  \A y \in Ranks : ~Rejoin(w, p, y, n) =>
               w[p][y][n].why = "prepare" /\ w[p][y][n].step = w[p][x][n].step
  <2>1. /\ n > 1 /\ All(w, p, n - 1, "broadcast")
        /\ w[p][x][n].step = w[p][Source][n - 1].step
    BY SMTT(60), <1>1, <1>2 DEF EntryOK
  <2> SUFFICES ASSUME NEW y \in Ranks, ~Rejoin(w, p, y, n)
               PROVE  w[p][y][n].why = "prepare" /\ w[p][y][n].step = w[p][x][n].step
    BY Zenon
  <2>2. w[p][y][n - 1].op = "broadcast"
    BY <2>1 DEF All
  <2>3. ~Unan(w, p, n - 1)
    BY <2>2 DEF Unan
  <2>4. ~Rested(w, p, y, n - 1)
    BY <2>1, <2>2 DEF Rested
  <2>5. w[p][y][n].why = "prepare"
    BY Zenon, <1>1, <2>3, <2>4 DEF EntryOK, After
  <2>6. w[p][y][n].step = w[p][Source][n - 1].step
    BY Zenon, <1>1, <2>5 DEF EntryOK
  <2> QED
    BY <2>1, <2>5, <2>6
<1>3. ASSUME NEW x \in Ranks, w[p][x][n].why \in {"proof", "commit"}
      PROVE  \A y \in Ranks : ~Rejoin(w, p, y, n) =>
               /\ w[p][y][n].why = w[p][x][n].why
               /\ w[p][y][n].step = w[p][x][n].step
  <2>1. n > 1 /\ Unan(w, p, n - 1)
    BY Zenon, <1>1, <1>3 DEF EntryOK, After
  <2>2. \A y, z \in Ranks : Alike(w, p, y, z, n - 1)
    BY Zenon, <2>1 DEF Pure
  <2> SUFFICES ASSUME NEW y \in Ranks, ~Rejoin(w, p, y, n)
               PROVE  /\ w[p][y][n].why = w[p][x][n].why
                      /\ w[p][y][n].step = w[p][x][n].step
    BY Zenon
  <2>3. ~Rested(w, p, y, n - 1)
    BY SMTT(60), <2>1 DEF Rested, Unan, Split
  <2>4. w[p][y][n].why # "prepare"
    BY Zenon, <1>3, <2>1, <1>1 DEF EntryOK, All, Unan
  <2>5. w[p][y][n].why \in {"proof", "commit"}
    BY Zenon, <1>1, <2>3, <2>4 DEF EntryOK
  <2>6. /\ w[p][x][n].why = "proof" => After(w, p, x, n, "prepare")
        /\ w[p][x][n].why = "commit" => After(w, p, x, n, "proof")
        /\ w[p][y][n].why = "proof" => After(w, p, y, n, "prepare")
        /\ w[p][y][n].why = "commit" => After(w, p, y, n, "proof")
    BY Zenon, <1>1 DEF EntryOK
  <2>7. /\ w[p][x][n - 1].why \in {"prepare", "proof"}
        /\ w[p][y][n - 1].why \in {"prepare", "proof"}
    BY Zenon, <1>3, <2>5, <2>6 DEF After
  <2>8. ~Rejoin(w, p, x, n - 1) /\ ~Rejoin(w, p, y, n - 1)
    BY Zenon, <2>7 DEF Rejoin
  <2>9. /\ w[p][x][n - 1].why = w[p][y][n - 1].why
        /\ w[p][x][n - 1].step = w[p][y][n - 1].step
    BY Zenon, <2>2, <2>8 DEF Alike
  <2> QED
    BY SMTT(60), <1>3, <2>5, <2>6, <2>9 DEF After
<1>4. CASE w[p][r][n].why \in {"prepare", "proof", "commit"}
  BY SMTT(60), <1>2, <1>3, <1>4
<1>5. CASE w[p][q][n].why \in {"prepare", "proof", "commit"}
  BY SMTT(60), <1>2, <1>3, <1>5
<1>6. CASE w[p][r][n].why = "vote" /\ w[p][q][n].why = "vote"
  BY Zenon, <1>1, <1>6 DEF EntryOK, Kind
<1> QED
  BY SMTT(60), <1>1, <1>4, <1>5, <1>6

\* A new entry that is in order keeps every unanimous position pure.
LEMMA PureKept ==
  ASSUME NEW w1 \in Wires, NEW w2 \in Wires, NEW p \in Planes, NEW r \in Ranks, NEW e \in Entries,
         Added(w1, w2, p, r, e), AllPure(w1), EntriesOK(w2)
  PROVE  AllPure(w2)
<1> SUFFICES ASSUME NEW x \in Planes, NEW n \in Nat, Unan(w2, x, n)
             PROVE  \A a, b \in Ranks : Alike(w2, x, a, b, n)
  BY Zenon DEF AllPure, Pure
<1>1. \A a \in Ranks : w1[x][a] \in Seq(Entries) /\ Len(w1[x][a]) \in Nat
  BY DEF Wires
<1>2. /\ Grown(w1, w2) /\ Len(w2[p][r]) = Len(w1[p][r]) + 1
  BY AddedGrows
<1>3. CASE \A a \in Ranks : n \in 1..Len(w1[x][a])
  <2>1. \A a \in Ranks : w2[x][a][n] = w1[x][a][n]
    BY Zenon, <1>2, <1>3 DEF Grown
  <2>2. Unan(w1, x, n)
    BY Zenon, <1>3, <2>1 DEF Unan
  <2>3. \A a, b \in Ranks : Alike(w1, x, a, b, n)
    BY Zenon, <2>2 DEF AllPure, Pure
  <2>4. \A a \in Ranks : Rejoin(w2, x, a, n) <=> Rejoin(w1, x, a, n)
    BY Zenon, <1>2, <1>3, RejoinKept
  <2> QED
    BY Zenon, <2>1, <2>3, <2>4 DEF Alike
<1>4. CASE ~\A a \in Ranks : n \in 1..Len(w1[x][a])
  <2>1. PICK a \in Ranks : n \notin 1..Len(w1[x][a])
    BY <1>4
  <2>2. n \in 1..Len(w2[x][a])
    BY DEF Unan
  <2>3. x = p /\ a = r
    BY <2>1, <2>2 DEF Added
  <2>4. n = Len(w1[p][r]) + 1
    BY <1>1, <1>2, <2>1, <2>2, <2>3
  <2>5. ASSUME n > 1
        PROVE  Pure(w2, x, n - 1)
    <3>1. n - 1 \in Nat
      BY <2>5
    <3>2. Pure(w1, x, n - 1)
      BY <3>1 DEF AllPure
    <3>3. ASSUME NEW b \in Ranks, Unan(w2, x, n - 1)
          PROVE  n - 1 \in 1..Len(w1[x][b])
      <4>1. CASE b = r
        BY <1>1, <2>3, <2>4, <2>5, <4>1
      <4>2. CASE b # r
        BY SMTT(60), <2>3, <3>3, <4>2 DEF Unan, Added
      <4> QED
        BY <4>1, <4>2
    <3>4. Unan(w2, x, n - 1) => \A b \in Ranks : w2[x][b][n - 1] = w1[x][b][n - 1]
      BY Zenon, <1>2, <3>3 DEF Grown
    <3>5. Unan(w2, x, n - 1) => Unan(w1, x, n - 1)
      BY Zenon, <3>3, <3>4 DEF Unan
    <3>6. Unan(w2, x, n - 1) => \A b \in Ranks : Rejoin(w2, x, b, n - 1) <=> Rejoin(w1, x, b, n - 1)
      BY Zenon, <1>2, <3>3, RejoinKept
    <3> QED
      BY Zenon, <3>2, <3>4, <3>5, <3>6 DEF Pure, Alike
  <2> QED
    BY <2>5, SamePhase
<1> QED
  BY SMTT(60), <1>3, <1>4

\* Who votes yes in a unanimous position knows what the others voted.
LEMMA AgreedAt ==
  ASSUME NEW w \in Wires, NEW p \in Planes, NEW n \in Nat, NEW r \in Ranks,
         Unan(w, p, n), Pure(w, p, n), w[p][r][n].why # "vote"
  PROVE  Agreed(w, p, n, w[p][r][n].why, w[p][r][n].step)
<1>1. ~Rejoin(w, p, r, n)
  BY DEF Rejoin
<1>2. ASSUME NEW q \in Ranks
      PROVE  Alike(w, p, r, q, n) /\ n \in 1..Len(w[p][q]) /\ w[p][q][n].yes
  BY Zenon DEF Pure, Unan
<1> QED
  BY Zenon, <1>1, <1>2 DEF Agreed, Alike

\* A yes to a step follows the source's broadcast of that step.
LEMMA PreparedIsBroadcast ==
  ASSUME NEW w \in Wires, EntriesOK(w), NEW p \in Planes, NEW r \in Ranks,
         NEW n \in 1..Len(w[p][r]), w[p][r][n].why = "prepare", w[p][r][n].yes
  PROVE  /\ n - 1 \in 1..Len(w[p][Source]) /\ w[p][Source][n - 1].why = "step"
         /\ w[p][Source][n - 1].step = w[p][r][n].step
<1>1. Source \in Ranks /\ EntryOK(w, p, r, n)
  BY Zenon, GroupAssumption DEF EntriesOK
<1>2. /\ n - 1 \in 1..Len(w[p][Source]) /\ w[p][Source][n - 1].op = "broadcast"
      /\ w[p][Source][n - 1].step = w[p][r][n].step
  BY Zenon, <1>1 DEF EntryOK, All
<1>3. Kind(w[p][Source][n - 1])
  BY Zenon, <1>1, <1>2 DEF EntriesOK, EntryOK
<1>4. w[p][Source][n - 1].why \in {"step", "prepare", "proof", "commit", "end", "vote", "close"}
  BY Zenon, <1>1, <1>2, EntryFields
<1> QED
  BY Zenon, <1>2, <1>3, <1>4 DEF Kind

-----------------------------------------------------------------------------
(* The inductive invariant                                                 *)

Depth(r) == Len(wire[plane[r]][r])
Last(r) == wire[plane[r]][r][Depth(r)]

\* What the control point of a rank says of its last collective.
PcOK(r) ==
  /\ (pc[r] = "idle" /\ kv[r] = "READY") =>
       \/ Rested(wire, plane[r], r, Depth(r))
       \/ Depth(r) > 0 /\ Last(r).gen # gen[r]
  /\ pc[r] # "idle" => Depth(r) > 0
  /\ pc[r] = "broadcast" => Last(r).op = "broadcast"
  /\ pc[r] = "prepare" => /\ Last(r).why = "prepare" /\ env[r] = Last(r).step
                          /\ Last(r).yes => env[r] = staged[r]
  /\ pc[r] = "launch" => /\ Last(r).why = "prepare" /\ env[r] = Last(r).step
                         /\ env[r] = staged[r]
                         /\ Unan(wire, plane[r], Depth(r))
  /\ pc[r] = "proof" => Last(r).why = "proof" /\ env[r] = Last(r).step
  /\ pc[r] = "commit" => Last(r).why = "commit" /\ env[r] = Last(r).step
  /\ pc[r] = "end" => Last(r).op = "barrier"
  /\ pc[r] = "vote" => Last(r).why = "vote"
  /\ pc[r] = "close" => Last(r).op = "barrier"

\* A rank has submitted nothing on the planes of its later incarnations, and
\* nothing under a later incarnation.
Fresh(r) ==
  /\ plane[r] <= gen[r]
  /\ \A p \in Planes : p > plane[r] => wire[p][r] = <<>>
  /\ \A p \in Planes : \A n \in 1..Len(wire[p][r]) : wire[p][r][n].gen <= gen[r]

\* A rank broadcasts a step once: one position, on one plane.
Once(r) ==
  \A p \in Planes : \A n \in 1..Len(wire[p][r]) : wire[p][r][n].why = "step" =>
    /\ wire[p][r][n].step <= staged[r]
    /\ \A x \in Planes : \A k \in 1..Len(wire[x][r]) :
         (wire[x][r][k].why = "step" /\ wire[x][r][k].step = wire[p][r][n].step) => x = p /\ k = n

\* A proved step is behind the rank: never in flight, and never launched again.
Proven(r) ==
  \A p \in Planes : \A n \in 1..Len(wire[p][r]) :
    (wire[p][r][n].why = "proof" /\ wire[p][r][n].yes) =>
      /\ wire[p][r][n].step \notin flights[r]
      /\ wire[p][r][n].step <= staged[r]
      /\ pc[r] \in {"broadcast", "prepare", "launch"} => wire[p][r][n].step < staged[r]

\* A rank submits such a collective only with nothing in flight.
Stop(e) == e.op = "barrier" \/ e.why = "vote"

\* Everything of this kind rank r submitted comes before position n of plane p.
Precedes(w, r, p, n) ==
  \A x \in Planes : \A k \in 1..Len(w[x][r]) :
    Stop(w[x][r][k]) => x < p \/ (x = p /\ k < n)

\* Rank r and everybody else voted yes at n on p; r to prepare s.
Granted(w, r, p, n, s) ==
  Unan(w, p, n) /\ w[p][r][n].why = "prepare" /\ w[p][r][n].step = s

\* A flight was granted by everybody, at a position behind all these.
FlightOK(r) ==
  \A s \in flights[r] : \E p \in Planes : \E n \in Nat :
    Granted(wire, r, p, n, s) /\ Precedes(wire, r, p, n)

\* Only the step a rank works on is in flight on a READY worker; old flights
\* keep it FAILED.
Flying(r) ==
  /\ \A s \in flights[r] : /\ s <= staged[r]
                           /\ pc[r] \in {"broadcast", "prepare"} => s < staged[r]
  /\ (local[r] = "READY" /\ pc[r] \notin {"launch", "proof"}) => flights[r] = {}
  /\ (pc[r] = "launch" /\ env[r] \in flights[r]) => flights[r] = {env[r]}
  /\ (pc[r] = "proof" /\ Last(r).yes) => flights[r] = {}
  /\ pc[r] \in {"commit", "end", "vote", "close"} => flights[r] = {}

\* A closed rank waits for nothing, and everybody met it at the barrier.
ClosedOK(r) ==
  kv[r] = "CLOSED" => pc[r] = "idle" /\ All(wire, plane[r], Depth(r), "barrier")

RankInv(r) ==
  /\ PcOK(r) /\ Fresh(r) /\ Once(r) /\ Proven(r) /\ FlightOK(r) /\ Flying(r)
  /\ ClosedOK(r)

\* What is published was acknowledged at one position.
PublishedOK ==
  \A x \in published : \E n \in Nat :
    Agreed(wire, x[1], n, "commit", x[2]) /\ wire[x[1]][Publisher][n].why = "commit"

GroupInv ==
  /\ GroupTypeOK
  /\ EntriesOK(wire)
  /\ AllPure(wire)
  /\ \A r \in Ranks : RankInv(r)
  /\ PublishedOK

\* Nothing of rank q changes.
Same(q) ==
  /\ kv'[q] = kv[q] /\ gen'[q] = gen[q] /\ local'[q] = local[q] /\ flights'[q] = flights[q]
  /\ plane'[q] = plane[q] /\ staged'[q] = staged[q] /\ env'[q] = env[q] /\ pc'[q] = pc[q]
  /\ \A p \in Planes : wire'[p][q] = wire[p][q]

\* A rank broadcasts a step at one position.
LEMMA OnceOnly ==
  ASSUME NEW r \in Ranks, Once(r), NEW p \in Planes, NEW n \in 1..Len(wire[p][r]),
         NEW x \in Planes, NEW k \in 1..Len(wire[x][r]),
         wire[p][r][n].why = "step", wire[x][r][k].why = "step",
         wire[x][r][k].step = wire[p][r][n].step
  PROVE  x = p /\ k = n
  BY SMTT(60) DEF Once

\* A rank that submits nothing and is handed no step has broadcast what it had.
LEMMA OnceKept ==
  ASSUME NEW r \in Ranks, Once(r), staged'[r] = staged[r],
         \A p \in Planes : wire'[p][r] = wire[p][r]
  PROVE  Once(r)'
<1> SUFFICES ASSUME NEW p \in Planes, NEW n \in 1..Len(wire'[p][r]), wire'[p][r][n].why = "step"
             PROVE  /\ wire'[p][r][n].step <= staged'[r]
                    /\ \A x \in Planes : \A k \in 1..Len(wire'[x][r]) :
                         (wire'[x][r][k].why = "step" /\ wire'[x][r][k].step = wire'[p][r][n].step)
                           => x = p /\ k = n
  BY Zenon DEF Once
<1>1. /\ wire'[p][r] = wire[p][r]
      /\ n \in 1..Len(wire[p][r]) /\ wire[p][r][n].why = "step"
  BY Zenon
<1>2. wire[p][r][n].step <= staged[r]
  BY Zenon, <1>1 DEF Once
<1>3. ASSUME NEW x \in Planes, NEW k \in 1..Len(wire'[x][r]),
             wire'[x][r][k].why = "step", wire'[x][r][k].step = wire'[p][r][n].step
      PROVE  x = p /\ k = n
  <2>1. /\ k \in 1..Len(wire[x][r]) /\ wire[x][r][k].why = "step"
        /\ wire[x][r][k].step = wire[p][r][n].step
    BY Zenon, <1>1, <1>3
  <2> QED
    BY Zenon, <1>1, <2>1, OnceOnly
<1> QED
  BY Zenon, <1>1, <1>2, <1>3

\* A step of another rank can only lengthen the wire: a rank's facts survive it.
LEMMA SameKeeps ==
  ASSUME GroupInv, GroupTypeOK', Grown(wire, wire'), NEW q \in Ranks, Same(q)
  PROVE  RankInv(q)'
<1> USE DEF GroupInv
<1>0. wire \in Wires /\ wire' \in Wires /\ plane[q] \in Planes /\ RankInv(q)
  BY DEF GroupTypeOK, Wires
<1>1. wire[plane[q]][q] \in Seq(Entries) /\ Depth(q) \in Nat
  BY <1>0 DEF Wires, Depth
<1>2. Depth(q)' = Depth(q) /\ Last(q)' = Last(q)
  BY SMTT(60), <1>0 DEF Same, Depth, Last
<1>3. /\ Unan(wire, plane[q], Depth(q)) => Unan(wire', plane[q], Depth(q))
      /\ Split(wire, plane[q], Depth(q)) => Split(wire', plane[q], Depth(q))
  BY Zenon, <1>0, <1>1, GrownKeeps
<1>4. Rested(wire, plane[q], q, Depth(q)) => Rested(wire', plane[q], q, Depth(q))
  BY Zenon, <1>0, <1>3 DEF Rested, Same
<1>5. PcOK(q)'
  BY ZenonT(60), <1>0, <1>2, <1>3, <1>4 DEF PcOK, RankInv, Same
<1>6. Fresh(q)' /\ Once(q)' /\ Proven(q)'
  <2>1. Fresh(q)' /\ Proven(q)'
    BY ZenonT(60), <1>0 DEF Fresh, Proven, RankInv, Same
  <2> QED
    BY Zenon, <1>0, <2>1, OnceKept DEF RankInv, Same
<1>7. FlightOK(q)'
  <2> SUFFICES ASSUME NEW s \in flights[q]
               PROVE  \E p \in Planes : \E n \in Nat :
                        Granted(wire', q, p, n, s) /\ Precedes(wire', q, p, n)
    BY Zenon DEF FlightOK, Same
  <2>1. PICK p \in Planes, n \in Nat : Granted(wire, q, p, n, s) /\ Precedes(wire, q, p, n)
    BY Zenon, <1>0 DEF RankInv, FlightOK
  <2>2. Unan(wire', p, n)
    BY Zenon, <1>0, <2>1, GrownKeeps DEF Granted
  <2>3. Granted(wire', q, p, n, s) /\ Precedes(wire', q, p, n)
    BY Zenon, <2>1, <2>2 DEF Granted, Precedes, Same
  <2> QED
    BY Zenon, <2>3
<1>8. Flying(q)'
  BY Zenon, <1>0, <1>2 DEF Flying, RankInv, Same
<1>9. ClosedOK(q)'
  BY Zenon, <1>0, <1>1, <1>2, GrownKeeps DEF RankInv, ClosedOK, Same
<1> QED
  BY <1>5, <1>6, <1>7, <1>8, <1>9 DEF RankInv

\* A rank that returns to its engine submits nothing and launches nothing.
LEMMA ReturnKeeps ==
  ASSUME GroupInv, GroupTypeOK', NEW r \in Ranks, UNCHANGED wire, pc'[r] = "idle",
         plane'[r] = plane[r], gen'[r] = gen[r], staged'[r] = staged[r],
         flights'[r] \subseteq flights[r], local'[r] = "READY" => flights'[r] = {},
         kv'[r] = "READY" => \/ Rested(wire, plane[r], r, Depth(r))
                             \/ Depth(r) > 0 /\ Last(r).gen # gen[r],
         kv'[r] = "CLOSED" => All(wire, plane[r], Depth(r), "barrier")
  PROVE  RankInv(r)'
<1>0. RankInv(r) /\ plane[r] \in Planes
  BY SMTT(60) DEF GroupInv, GroupTypeOK
<1>1. PcOK(r)'
  BY Zenon DEF PcOK, Depth, Last
<1>2. Fresh(r)' /\ Once(r)' /\ Proven(r)'
  BY Zenon, <1>0, OnceKept DEF RankInv, Fresh, Proven
<1>3. FlightOK(r)'
  BY Zenon, <1>0 DEF RankInv, FlightOK
<1>4. Flying(r)'
  BY Zenon, <1>0 DEF RankInv, Flying
<1>5. ClosedOK(r)'
  BY Zenon DEF ClosedOK, Depth
<1> QED
  BY Zenon, <1>1, <1>2, <1>3, <1>4, <1>5 DEF RankInv

\* What every step of rank r but a recovery leaves alone, with its types.
Owns(r) ==
  /\ kv' \in [Ranks -> {"READY", "RUNNING", "FAILED", "CLOSED"}]
  /\ last' \in [Ranks -> Steps \union {0}]
  /\ local' \in [Ranks -> {"READY", "CLOSING", "FAILED", "CLOSED"}]
  /\ flights' \in [Ranks -> SUBSET Nat]
  /\ staged' \in [Ranks -> Steps \union {0}]
  /\ published' \subseteq Planes \X Nat
  /\ gen' = gen /\ plane' = plane
  /\ flights'[r] \subseteq flights[r]
  /\ local'[r] = "READY" => local[r] = "READY"
  /\ \A q \in Ranks \ {r} : /\ kv'[q] = kv[q] /\ local'[q] = local[q]
                            /\ flights'[q] = flights[q] /\ staged'[q] = staged[q]

Point(why) == IF why = "step" THEN "broadcast" ELSE why

\* What a rank that submits e has done on its own side.
Moves(r, e) ==
  /\ kv'[r] # "CLOSED"
  /\ e.gen = gen[r]
  /\ e.why = "step" => pc[r] = "idle" /\ staged'[r] > staged[r] /\ e.step = staged'[r]
  /\ e.why # "step" => staged'[r] = staged[r]
  /\ e.why = "prepare" => pc[r] = "broadcast"
  /\ (e.why = "prepare" /\ e.yes) => e.step = staged[r]
  /\ (e.why = "proof" /\ e.yes) => e.step <= staged[r] /\ flights'[r] = {}
  /\ e.why \in {"commit", "end", "vote", "close"} => flights'[r] = {}

\* How e follows on the last collective of rank r.
InOrder(r, e) ==
  /\ Kind(e)
  /\ (e.why = "prepare" /\ e.yes) =>
       /\ Depth(r) > 0 /\ All(wire, plane[r], Depth(r), "broadcast")
       /\ e.step = wire[plane[r]][Source][Depth(r)].step
  /\ (e.why = "proof" /\ e.yes) =>
       /\ Depth(r) > 0 /\ Unan(wire, plane[r], Depth(r))
       /\ Last(r).why = "prepare" /\ Last(r).step = e.step
  /\ (e.why = "commit" /\ e.yes) =>
       /\ Depth(r) > 0 /\ Unan(wire, plane[r], Depth(r))
       /\ Last(r).why = "proof" /\ Last(r).step = e.step
  /\ (e.why = "vote" /\ e.yes) =>
       \/ Rested(wire, plane[r], r, Depth(r))
       \/ Depth(r) > 0 /\ Last(r).gen # e.gen

LEMMA DepthFacts ==
  ASSUME GroupTypeOK, NEW r \in Ranks
  PROVE  /\ wire \in Wires /\ plane[r] \in Planes /\ wire[plane[r]][r] \in Seq(Entries)
         /\ Depth(r) \in Nat /\ Depth(r) = Len(wire[plane[r]][r])
<1>1. wire \in Wires /\ plane[r] \in Planes
  BY DEF GroupTypeOK, Wires
<1> QED
  BY <1>1, LengthIsNat DEF Depth

\* A rank that submits its next collective in order keeps the invariant.
LEMMA CallKeeps ==
  ASSUME GroupInv, GroupTypeOK', NEW r \in Ranks, NEW e \in Entries,
         Added(wire, wire', plane[r], r, e), EntryOK(wire', plane[r], r, Depth(r) + 1),
         pc'[r] = Point(e.why), env'[r] = e.step, Owns(r), Moves(r, e)
  PROVE  EntriesOK(wire') /\ AllPure(wire') /\ Grown(wire, wire') /\ RankInv(r)'
<1>0. /\ wire \in Wires /\ wire' \in Wires /\ plane[r] \in Planes /\ RankInv(r)
      /\ Depth(r) \in Nat /\ Depth(r) = Len(wire[plane[r]][r])
  <2>1. GroupTypeOK /\ RankInv(r)
    BY SMTT(60) DEF GroupInv
  <2>2. wire' \in Wires
    BY DEF GroupTypeOK, Wires
  <2> QED
    BY Zenon, <2>1, <2>2, DepthFacts
<1>1. /\ Grown(wire, wire') /\ Len(wire'[plane[r]][r]) = Depth(r) + 1
      /\ wire'[plane[r]][r][Depth(r) + 1] = e
  <2>1. /\ Grown(wire, wire') /\ Len(wire'[plane[r]][r]) = Len(wire[plane[r]][r]) + 1
        /\ wire'[plane[r]][r][Len(wire[plane[r]][r]) + 1] = e
    BY SMTT(60), <1>0, AddedGrows
  <2> QED
    BY Zenon, <1>0, <2>1
<1>2. /\ plane'[r] = plane[r] /\ gen'[r] = gen[r] /\ flights'[r] \subseteq flights[r]
      /\ local'[r] = "READY" => local[r] = "READY"
  BY SMTT(60) DEF Owns
<1>3. staged[r] \in Nat /\ staged'[r] \in Nat
  <2>1. staged[r] \in Steps \union {0} /\ staged'[r] \in Steps \union {0}
    BY SMTT(60) DEF GroupInv, GroupTypeOK
  <2> QED
    BY <2>1, StepsAreNat
<1>4. ASSUME NEW p \in Planes, NEW q \in Ranks, NEW n \in 1..Len(wire'[p][q])
      PROVE  \/ n \in 1..Len(wire[p][q]) /\ wire'[p][q][n] = wire[p][q][n]
             \/ p = plane[r] /\ q = r /\ n = Depth(r) + 1 /\ wire'[p][q][n] = e
  <2>1. CASE p = plane[r] /\ q = r
    <3>1. n \in 1..(Depth(r) + 1) /\ Depth(r) = Len(wire[p][q])
      BY Zenon, <1>0, <1>1, <2>1
    <3>2. n \in 1..Depth(r) \/ n = Depth(r) + 1
      BY SMTT(60), <1>0, <3>1
    <3> QED
      BY ZenonT(60), <1>1, <2>1, <3>1, <3>2 DEF Grown
  <2>2. CASE p # plane[r] \/ q # r
    BY Zenon, <2>2 DEF Added
  <2> QED
    BY Zenon, <2>1, <2>2
<1>5. EntriesOK(wire')
  <2>1. \A p \in Planes, q \in Ranks : \A n \in 1..Len(wire[p][q]) : EntryOK(wire', p, q, n)
    BY Zenon, <1>0, <1>1, EntriesKept DEF GroupInv
  <2> QED
    BY Zenon, <1>0, <1>4, <2>1 DEF EntriesOK
<1>6. AllPure(wire')
  BY SMTT(60), <1>0, <1>5, PureKept DEF GroupInv
<1>7. Depth(r)' = Depth(r) + 1 /\ Last(r)' = e
  BY Zenon, <1>1, <1>2 DEF Depth, Last
<1>8. Kind(e)
  BY Zenon, <1>1 DEF EntryOK
<1>9. e.why \in {"step", "prepare", "proof", "commit", "end", "vote", "close"} /\ e.yes \in BOOLEAN
  BY DEF Entries
<1>10. PcOK(r)'
  <2>1. Depth(r)' > 0
    <3>1. Depth(r)' = Depth(r) + 1 /\ Depth(r) \in Nat
      BY Zenon, <1>0, <1>7
    <3> QED
      BY SMTT(60), <3>1
  <2>2. /\ pc'[r] # "idle" /\ pc'[r] # "launch"
        /\ pc'[r] = "broadcast" => e.why = "step"
        /\ pc'[r] # "broadcast" => pc'[r] = e.why
    BY SMTT(60), <1>9 DEF Point
  <2>3. /\ e.why = "step" => e.op = "broadcast"
        /\ e.why \in {"end", "close"} => e.op = "barrier"
    BY SMTT(60), <1>8 DEF Kind
  <2>4. (pc'[r] = "prepare" /\ e.yes) => env'[r] = staged'[r]
    BY Zenon, <2>2 DEF Moves
  <2>5. Last(r)'.op = e.op /\ Last(r)'.why = e.why /\ Last(r)'.step = e.step /\ Last(r)'.yes = e.yes
    BY <1>7
  <2> QED
    BY Zenon, <2>1, <2>2, <2>3, <2>4, <2>5 DEF PcOK
<1>17. gen[r] \in Nat /\ e.gen = gen[r]
  <2>1. gen[r] \in Planes
    BY SMTT(60) DEF GroupInv, GroupTypeOK
  <2> QED
    BY Zenon, <2>1, PlanesAreNat DEF Moves
<1>11. Fresh(r)'
  <2>0. ASSUME NEW p \in Planes, NEW n \in 1..Len(wire'[p][r])
        PROVE  wire'[p][r][n].gen <= gen[r]
    <3>1. CASE n \in 1..Len(wire[p][r]) /\ wire'[p][r][n] = wire[p][r][n]
      BY Zenon, <1>0, <3>1 DEF RankInv, Fresh
    <3>2. CASE wire'[p][r][n] = e
      BY <1>17, <3>2
    <3> QED
      BY Zenon, <1>4, <3>1, <3>2
  <2> SUFFICES ASSUME NEW p \in Planes, p > plane[r]
               PROVE  wire'[p][r] = <<>>
    BY Zenon, <1>0, <1>2, <2>0 DEF RankInv, Fresh
  <2>1. p # plane[r]
    BY SMTT(60), <1>0, PlanesAreNat
  <2>2. wire'[p][r] = wire[p][r]
    BY Zenon, <2>1 DEF Added
  <2> QED
    BY Zenon, <1>0, <2>2 DEF RankInv, Fresh
<1>12. Proven(r)'
  <2> SUFFICES ASSUME NEW p \in Planes, NEW n \in 1..Len(wire'[p][r]),
                      wire'[p][r][n].why = "proof", wire'[p][r][n].yes
               PROVE  /\ wire'[p][r][n].step \notin flights'[r]
                      /\ wire'[p][r][n].step <= staged'[r]
                      /\ pc'[r] \in {"broadcast", "prepare", "launch"} =>
                           wire'[p][r][n].step < staged'[r]
    BY Zenon DEF Proven
  <2>1. CASE n \in 1..Len(wire[p][r]) /\ wire'[p][r][n] = wire[p][r][n]
    <3>1. /\ wire[p][r][n].step \notin flights[r]
          /\ wire[p][r][n].step <= staged[r]
          /\ pc[r] = "broadcast" => wire[p][r][n].step < staged[r]
      BY Zenon, <1>0, <2>1 DEF RankInv, Proven
    <3>2. wire[p][r][n].step \in Nat
      BY Zenon, <1>0, <2>1, EntryFields
    <3>3. pc'[r] \in {"broadcast", "prepare", "launch"} => e.why \in {"step", "prepare"}
      BY Zenon, <1>9 DEF Point
    <3>4. /\ staged'[r] = staged[r] \/ staged'[r] > staged[r]
          /\ e.why = "step" => staged'[r] > staged[r]
          /\ e.why = "prepare" => pc[r] = "broadcast" /\ staged'[r] = staged[r]
      BY Zenon DEF Moves
    <3>5. wire[p][r][n].step <= staged'[r]
      BY SMTT(60), <1>3, <3>1, <3>2, <3>4
    <3>6. ASSUME e.why \in {"step", "prepare"}
          PROVE  wire[p][r][n].step < staged'[r]
      <4>1. CASE staged'[r] > staged[r]
        BY SMTT(60), <1>3, <3>1, <3>2, <4>1
      <4>2. CASE wire[p][r][n].step < staged[r] /\ staged'[r] = staged[r]
        BY Zenon, <4>2
      <4> QED
        BY Zenon, <3>1, <3>4, <3>6, <4>1, <4>2
    <3> QED
      BY Zenon, <1>2, <2>1, <3>1, <3>3, <3>5, <3>6
  <2>2. CASE wire'[p][r][n] = e
    <3>1. e.why = "proof" /\ e.yes
      BY Zenon, <2>2
    <3>2. flights'[r] = {} /\ e.step <= staged[r] /\ staged'[r] = staged[r]
      BY Zenon, <3>1 DEF Moves
    <3>3. pc'[r] = "proof"
      BY SMTT(60), <3>1 DEF Point
    <3> QED
      BY Zenon, <2>2, <3>2, <3>3
  <2>3. \/ n \in 1..Len(wire[p][r]) /\ wire'[p][r][n] = wire[p][r][n]
        \/ wire'[p][r][n] = e
    BY SMTT(60), <1>4
  <2> QED
    BY Zenon, <2>1, <2>2, <2>3
<1>13. Once(r)'
  <2>1. ASSUME NEW p \in Planes, NEW n \in 1..Len(wire[p][r]), wire[p][r][n].why = "step"
        PROVE  /\ wire[p][r][n].step <= staged[r] /\ wire[p][r][n].step \in Nat
               /\ wire[p][r][n].step <= staged'[r]
               /\ e.why = "step" => wire[p][r][n].step # e.step
    <3>1. wire[p][r][n].step <= staged[r] /\ wire[p][r][n].step \in Nat
      BY Zenon, <1>0, <2>1, EntryFields DEF RankInv, Once
    <3>2. /\ staged'[r] = staged[r] \/ staged'[r] > staged[r]
          /\ e.why = "step" => staged'[r] > staged[r] /\ e.step = staged'[r]
      BY Zenon DEF Moves
    <3> QED
      BY SMTT(60), <1>3, <3>1, <3>2
  <2>2. e.why = "step" => e.step <= staged'[r]
    <3>1. e.why = "step" => e.step = staged'[r]
      BY Zenon DEF Moves
    <3> QED
      BY SMTT(60), <1>3, <3>1
  <2> SUFFICES ASSUME NEW p \in Planes, NEW n \in 1..Len(wire'[p][r]), wire'[p][r][n].why = "step"
               PROVE  /\ wire'[p][r][n].step <= staged'[r]
                      /\ \A x \in Planes : \A k \in 1..Len(wire'[x][r]) :
                           (wire'[x][r][k].why = "step" /\ wire'[x][r][k].step = wire'[p][r][n].step)
                             => x = p /\ k = n
    BY Zenon DEF Once
  <2>3. \/ n \in 1..Len(wire[p][r]) /\ wire'[p][r][n] = wire[p][r][n]
        \/ p = plane[r] /\ n = Depth(r) + 1 /\ wire'[p][r][n] = e
    BY Zenon, <1>4
  <2>4. wire'[p][r][n].step <= staged'[r]
    BY Zenon, <2>1, <2>2, <2>3
  <2> SUFFICES ASSUME NEW x \in Planes, NEW k \in 1..Len(wire'[x][r]),
                      wire'[x][r][k].why = "step", wire'[x][r][k].step = wire'[p][r][n].step
               PROVE  x = p /\ k = n
    BY Zenon, <2>4
  <2>5. \/ k \in 1..Len(wire[x][r]) /\ wire'[x][r][k] = wire[x][r][k]
        \/ x = plane[r] /\ k = Depth(r) + 1 /\ wire'[x][r][k] = e
    BY Zenon, <1>4
  <2>6. CASE /\ n \in 1..Len(wire[p][r]) /\ wire'[p][r][n] = wire[p][r][n]
             /\ k \in 1..Len(wire[x][r]) /\ wire'[x][r][k] = wire[x][r][k]
    <3>1. /\ wire[p][r][n].why = "step" /\ wire[x][r][k].why = "step"
          /\ wire[x][r][k].step = wire[p][r][n].step
      BY Zenon, <2>6
    <3>2. Once(r)
      BY Zenon, <1>0 DEF RankInv
    <3> QED
      BY Zenon, <2>6, <3>1, <3>2, OnceOnly
  <2> QED
    BY Zenon, <2>1, <2>3, <2>5, <2>6
<1>14. FlightOK(r)'
  <2> SUFFICES ASSUME NEW s \in flights'[r]
               PROVE  \E p \in Planes : \E n \in Nat :
                        Granted(wire', r, p, n, s) /\ Precedes(wire', r, p, n)
    BY Zenon DEF FlightOK
  <2>1. PICK p \in Planes, n \in Nat : Granted(wire, r, p, n, s) /\ Precedes(wire, r, p, n)
    BY Zenon, <1>0, <1>2 DEF RankInv, FlightOK
  <2>2. Unan(wire', p, n) /\ wire'[p][r][n] = wire[p][r][n]
    BY Zenon, <1>0, <1>1, <2>1, GrownKeeps DEF Granted, Unan, Grown
  <2>3. ~Stop(e)
    <3>1. e.why \notin {"commit", "end", "vote", "close"}
      BY Zenon DEF Moves
    <3> QED
      BY Zenon, <1>8, <1>9, <3>1 DEF Stop, Kind
  <2>4. Granted(wire', r, p, n, s) /\ Precedes(wire', r, p, n)
    BY Zenon, <1>4, <2>1, <2>2, <2>3 DEF Granted, Precedes
  <2> QED
    BY Zenon, <2>4
<1>15. Flying(r)'
  <2>1. ASSUME NEW s \in flights'[r]
        PROVE  /\ s <= staged'[r]
               /\ pc'[r] \in {"broadcast", "prepare"} => s < staged'[r]
    <3>1. s \in Nat /\ s <= staged[r] /\ (pc[r] = "broadcast" => s < staged[r])
      <4>1. s \in flights[r]
        BY Zenon, <1>2
      <4>2. flights[r] \subseteq Nat
        BY SMTT(60) DEF GroupInv, GroupTypeOK
      <4> QED
        BY Zenon, <1>0, <4>1, <4>2 DEF RankInv, Flying
    <3>2. /\ staged'[r] = staged[r] \/ staged'[r] > staged[r]
          /\ e.why = "step" => staged'[r] > staged[r]
          /\ e.why = "prepare" => pc[r] = "broadcast" /\ staged'[r] = staged[r]
      BY Zenon DEF Moves
    <3>3. pc'[r] \in {"broadcast", "prepare"} => e.why \in {"step", "prepare"}
      BY Zenon, <1>9 DEF Point
    <3> QED
      BY SMTT(60), <1>3, <3>1, <3>2, <3>3
  <2>2. /\ pc'[r] # "launch"
        /\ pc'[r] = "proof" => e.why = "proof"
        /\ pc'[r] \in {"commit", "end", "vote", "close"} => e.why = pc'[r]
    BY Zenon, <1>9 DEF Point
  <2>3. (local'[r] = "READY" /\ pc'[r] # "proof") => flights'[r] = {}
    <3>1. CASE e.why \in {"commit", "end", "vote", "close"}
      BY Zenon, <3>1 DEF Moves
    <3>2. CASE e.why \in {"step", "prepare"}
      <4>1. pc[r] \in {"idle", "broadcast"}
        BY Zenon, <3>2 DEF Moves
      <4>2. local[r] = "READY" => flights[r] = {}
        BY Zenon, <1>0, <4>1 DEF RankInv, Flying
      <4> QED
        BY Zenon, <1>2, <4>2
    <3>3. CASE e.why = "proof"
      BY Zenon, <3>3 DEF Point
    <3> QED
      BY Zenon, <1>9, <3>1, <3>2, <3>3
  <2>4. (e.why = "proof" /\ e.yes) => flights'[r] = {}
    BY Zenon DEF Moves
  <2>5. pc'[r] \in {"commit", "end", "vote", "close"} => flights'[r] = {}
    BY Zenon, <2>2 DEF Moves
  <2>6. Last(r)'.yes = e.yes
    BY Zenon, <1>7
  <2> QED
    BY Zenon, <2>1, <2>2, <2>3, <2>4, <2>5, <2>6 DEF Flying
<1>16. ClosedOK(r)'
  BY Zenon DEF Moves, ClosedOK
<1> QED
  BY Zenon, <1>1, <1>5, <1>6, <1>10, <1>11, <1>12, <1>13, <1>14, <1>15, <1>16 DEF RankInv

-----------------------------------------------------------------------------
(* What the parts of an action do                                          *)

LEMMA CallAdds ==
  ASSUME GroupTypeOK, NEW r \in Ranks, NEW e \in Entries, NEW point, Call(r, e, point)
  PROVE  /\ Added(wire, wire', plane[r], r, e) /\ wire' \in Wires
         /\ env' = [env EXCEPT ![r] = e.step] /\ pc' = [pc EXCEPT ![r] = point]
         /\ env'[r] = e.step /\ pc'[r] = point
         /\ \A q \in Ranks \ {r} : /\ env'[q] = env[q] /\ pc'[q] = pc[q]
                                   /\ \A p \in Planes : wire'[p][q] = wire[p][q]
<1>1. /\ wire \in [Planes -> [Ranks -> Seq(Entries)]] /\ plane[r] \in Planes
      /\ DOMAIN env = Ranks /\ DOMAIN pc = Ranks
  BY DEF GroupTypeOK
<1>2. wire' = [wire EXCEPT ![plane[r]][r] = Append(wire[plane[r]][r], e)]
  BY DEF Call
<1>3. Append(wire[plane[r]][r], e) \in Seq(Entries)
  BY <1>1
<1>4. wire' \in Wires
  BY <1>1, <1>2, <1>3 DEF Wires
<1>5. Added(wire, wire', plane[r], r, e)
  BY Zenon, <1>1, <1>2 DEF Added
<1>6. /\ env'[r] = e.step /\ pc'[r] = point
      /\ \A q \in Ranks \ {r} : env'[q] = env[q] /\ pc'[q] = pc[q]
  BY <1>1 DEF Call
<1>7. \A q \in Ranks \ {r} : \A p \in Planes : wire'[p][q] = wire[p][q]
  BY Zenon, <1>5 DEF Added
<1> QED
  BY <1>4, <1>5, <1>6, <1>7 DEF Call

LEMMA ReturnFacts ==
  ASSUME GroupTypeOK, NEW r \in Ranks, Return(r)
  PROVE  /\ wire' = wire /\ pc' = [pc EXCEPT ![r] = "idle"] /\ env' = [env EXCEPT ![r] = 0]
         /\ pc'[r] = "idle"
         /\ \A q \in Ranks \ {r} : env'[q] = env[q] /\ pc'[q] = pc[q]
  BY DEF GroupTypeOK, Return

\* A wait that returned shows what every rank submitted at this position.
LEMMA Completed ==
  ASSUME GroupInv, NEW r \in Ranks, pc[r] # "idle", Complete(r)
  PROVE  /\ Depth(r) \in Nat /\ Depth(r) > 0
         /\ All(wire, plane[r], Depth(r), Last(r).op)
         /\ EntryOK(wire, plane[r], r, Depth(r))
         /\ (Last(r).op = "grant" /\ AllYes(r)) => Unan(wire, plane[r], Depth(r)) /\ Last(r).yes
         /\ ~AllYes(r) => Split(wire, plane[r], Depth(r))
<1>1. wire \in Wires /\ plane[r] \in Planes /\ PcOK(r)
  BY DEF GroupInv, GroupTypeOK, Wires, RankInv
<1>2. ASSUME NEW q \in Ranks
      PROVE  Len(wire[plane[r]][q]) \in Nat
  <2>1. wire[plane[r]][q] \in Seq(Entries)
    BY SMTT(60), <1>1 DEF Wires
  <2> QED
    BY <2>1
<1>3. Depth(r) > 0
  BY Zenon, <1>1 DEF PcOK
<1>4. Depth(r) \in Nat /\ Depth(r) > 0
  BY <1>2, <1>3 DEF Depth
<1>5. ASSUME NEW q \in Ranks
      PROVE  /\ Depth(r) \in 1..Len(wire[plane[r]][q])
             /\ At(q, r) = wire[plane[r]][q][Depth(r)]
             /\ At(q, r).op = Last(r).op
  <2>1. /\ Len(wire[plane[r]][q]) >= Depth(r) /\ At(q, r).op = At(r, r).op
    BY DEF Complete, Sent, Depth
  <2>2. At(r, r) = Last(r) /\ At(q, r) = wire[plane[r]][q][Depth(r)]
    BY DEF At, Sent, Depth, Last
  <2> QED
    BY SMTT(60), <1>2, <1>4, <2>1, <2>2
<1>6. EntryOK(wire, plane[r], r, Depth(r))
  BY Zenon, <1>1, <1>5 DEF GroupInv, EntriesOK
<1> QED
  BY Zenon, <1>4, <1>5, <1>6 DEF All, Unan, Split, AllYes, Last

LEMMA PublishKept ==
  ASSUME GroupInv, GroupTypeOK', Grown(wire, wire'), published' = published
  PROVE  PublishedOK'
<1> SUFFICES ASSUME NEW x \in published
             PROVE  \E n \in Nat : /\ Agreed(wire', x[1], n, "commit", x[2])
                                   /\ wire'[x[1]][Publisher][n].why = "commit"
  BY Zenon DEF PublishedOK
<1>1. wire \in Wires /\ wire' \in Wires /\ x[1] \in Planes /\ Publisher \in Ranks
  <2>1. published \subseteq Planes \X Nat
    BY Zenon DEF GroupInv, GroupTypeOK
  <2>2. x[1] \in Planes
    BY SMTT(60), <2>1
  <2> QED
    BY Zenon, <2>2, GroupAssumption DEF GroupInv, GroupTypeOK, Wires
<1>2. PICK n \in Nat : /\ Agreed(wire, x[1], n, "commit", x[2])
                       /\ wire[x[1]][Publisher][n].why = "commit"
  BY Zenon DEF GroupInv, PublishedOK
<1>3. Agreed(wire', x[1], n, "commit", x[2])
  BY Zenon, <1>1, <1>2, AgreedKept
<1>4. wire'[x[1]][Publisher][n] = wire[x[1]][Publisher][n]
  BY Zenon, <1>1, <1>2 DEF Agreed, Grown
<1> QED
  BY Zenon, <1>2, <1>3, <1>4

\* The invariant after a step that submits nothing.
LEMMA QuietStep ==
  ASSUME GroupInv, GroupTypeOK', wire' = wire, NEW r \in Ranks, RankInv(r)',
         published' = published \/ PublishedOK', \A q \in Ranks \ {r} : Same(q)
  PROVE  GroupInv'
<1>1. wire \in Wires
  BY SMTT(60) DEF GroupInv, GroupTypeOK, Wires
<1>2. \A p \in Planes, q \in Ranks : Len(wire[p][q]) \in Nat
  BY <1>1 DEF Wires
<1>3. Grown(wire, wire')
  BY SMTT(60), <1>2 DEF Grown
<1>4. EntriesOK(wire') /\ AllPure(wire')
  BY DEF GroupInv
<1>5. \A q \in Ranks : RankInv(q)'
  BY <1>3, SameKeeps
<1> QED
  BY <1>3, <1>4, <1>5, PublishKept DEF GroupInv

\* The invariant after a step that submits e.
LEMMA CallStep ==
  ASSUME GroupInv, GroupTypeOK', NEW r \in Ranks, Grown(wire, wire'),
         EntriesOK(wire') /\ AllPure(wire') /\ RankInv(r)',
         published' = published \/ PublishedOK', \A q \in Ranks \ {r} : Same(q)
  PROVE  GroupInv'
<1>1. \A q \in Ranks : RankInv(q)'
  BY SameKeeps
<1> QED
  BY <1>1, PublishKept DEF GroupInv

\* An entry that follows on what its rank knows is in order on the longer wire.
LEMMA EntryAdded ==
  ASSUME GroupInv, wire' \in Wires, NEW r \in Ranks, NEW e \in Entries,
         Added(wire, wire', plane[r], r, e), InOrder(r, e)
  PROVE  EntryOK(wire', plane[r], r, Depth(r) + 1)
<1>1. /\ wire \in Wires /\ plane[r] \in Planes /\ Source \in Ranks
      /\ Depth(r) \in Nat /\ Depth(r) = Len(wire[plane[r]][r])
  BY Zenon, GroupAssumption, DepthFacts DEF GroupInv
<1>2. Grown(wire, wire') /\ wire'[plane[r]][r][Depth(r) + 1] = e
  <2>1. Grown(wire, wire') /\ wire'[plane[r]][r][Len(wire[plane[r]][r]) + 1] = e
    BY Zenon, <1>1, AddedGrows
  <2> QED
    BY Zenon, <1>1, <2>1
<1>3. Depth(r) > 0 => wire'[plane[r]][r][Depth(r)] = Last(r)
  <2>1. Depth(r) > 0 => Depth(r) \in 1..Len(wire[plane[r]][r])
    BY <1>1
  <2> QED
    BY Zenon, <1>1, <1>2, <2>1 DEF Grown, Last
<1>4. /\ All(wire, plane[r], Depth(r), "broadcast") => All(wire', plane[r], Depth(r), "broadcast")
      /\ Unan(wire, plane[r], Depth(r)) => Unan(wire', plane[r], Depth(r))
      /\ Split(wire, plane[r], Depth(r)) => Split(wire', plane[r], Depth(r))
  BY Zenon, <1>1, <1>2, GrownKeeps
<1>5. All(wire, plane[r], Depth(r), "broadcast") =>
        wire'[plane[r]][Source][Depth(r)] = wire[plane[r]][Source][Depth(r)]
  BY Zenon, <1>1, <1>2 DEF All, Grown
<1>6. Rested(wire, plane[r], r, Depth(r)) => Rested(wire', plane[r], r, Depth(r))
  BY Zenon, <1>3, <1>4 DEF Rested, Last
<1>7. PICK n \in Nat : n = Depth(r) + 1 /\ n - 1 = Depth(r) /\ (Depth(r) > 0 => n > 1)
  BY <1>1
<1>8. EntryOK(wire', plane[r], r, n)
  BY Zenon, <1>2, <1>3, <1>4, <1>5, <1>6, <1>7 DEF InOrder, EntryOK, After, Rejoin
<1> QED
  BY <1>7, <1>8

\* A step that submits the collective e, in order.
LEMMA Submits ==
  ASSUME GroupInv, NEW r \in Ranks, NEW e \in Entries, Call(r, e, Point(e.why)),
         Owns(r), Moves(r, e), InOrder(r, e), published' = published \/ PublishedOK'
  PROVE  GroupInv'
<1>1. GroupTypeOK /\ e.step \in Steps \union {0} /\ Point(e.why) \in
        {"broadcast", "prepare", "proof", "commit", "end", "vote", "close"}
  BY DEF GroupInv, Entries, Point
<1>2. /\ Added(wire, wire', plane[r], r, e) /\ wire' \in Wires
      /\ env' = [env EXCEPT ![r] = e.step] /\ pc' = [pc EXCEPT ![r] = Point(e.why)]
      /\ env'[r] = e.step /\ pc'[r] = Point(e.why)
      /\ \A q \in Ranks \ {r} : /\ env'[q] = env[q] /\ pc'[q] = pc[q]
                                /\ \A p \in Planes : wire'[p][q] = wire[p][q]
  BY Zenon, <1>1, CallAdds
<1>3. env' \in [Ranks -> Steps \union {0}]
  BY SMTT(60), <1>1, <1>2 DEF GroupTypeOK
<1>4. pc' \in [Ranks -> {"idle", "broadcast", "prepare", "launch", "proof", "commit",
                         "end", "vote", "close"}]
  BY SMTT(60), <1>1, <1>2 DEF GroupTypeOK
<1>5. GroupTypeOK'
  BY Zenon, <1>1, <1>2, <1>3, <1>4 DEF GroupTypeOK, Owns, Wires
<1>6. \A q \in Ranks \ {r} : Same(q)
  BY Zenon, <1>2 DEF Owns, Same
<1>7. EntryOK(wire', plane[r], r, Depth(r) + 1)
  BY Zenon, <1>2, EntryAdded
<1>8. EntriesOK(wire') /\ AllPure(wire') /\ Grown(wire, wire') /\ RankInv(r)'
  BY Zenon, <1>2, <1>5, <1>7, CallKeeps
<1> QED
  BY <1>5, <1>6, <1>8, CallStep

\* A step that ends a call of the engine.
LEMMA Returns ==
  ASSUME GroupInv, NEW r \in Ranks, Return(r), Owns(r), staged'[r] = staged[r],
         local'[r] = "READY" => pc[r] \notin {"launch", "proof"},
         kv'[r] = "READY" => Rested(wire, plane[r], r, Depth(r)),
         kv'[r] = "CLOSED" => All(wire, plane[r], Depth(r), "barrier"),
         published' = published \/ PublishedOK'
  PROVE  GroupInv'
<1>1. GroupTypeOK
  BY Zenon DEF GroupInv
<1>2. /\ wire' = wire /\ pc' = [pc EXCEPT ![r] = "idle"] /\ env' = [env EXCEPT ![r] = 0]
      /\ pc'[r] = "idle"
      /\ \A q \in Ranks \ {r} : env'[q] = env[q] /\ pc'[q] = pc[q]
  BY Zenon, <1>1, ReturnFacts
<1>3. env' \in [Ranks -> Steps \union {0}]
  BY Zenon, <1>1, <1>2 DEF GroupTypeOK
<1>4. pc' \in [Ranks -> {"idle", "broadcast", "prepare", "launch", "proof", "commit",
                         "end", "vote", "close"}]
  BY Zenon, <1>1, <1>2 DEF GroupTypeOK
<1>5. GroupTypeOK'
  BY Zenon, <1>1, <1>2, <1>3, <1>4 DEF GroupTypeOK, Owns
<1>6. \A q \in Ranks \ {r} : Same(q)
  BY Zenon, <1>2 DEF Owns, Same
<1>7. /\ plane'[r] = plane[r] /\ gen'[r] = gen[r] /\ flights'[r] \subseteq flights[r]
      /\ local'[r] = "READY" => flights'[r] = {}
  BY Zenon DEF Owns, GroupInv, RankInv, Flying
<1>8. RankInv(r)'
  BY Zenon, <1>2, <1>5, <1>7, ReturnKeeps
<1> QED
  BY Zenon, <1>2, <1>5, <1>6, <1>8, QuietStep

-----------------------------------------------------------------------------
(* Every step keeps the invariant                                          *)

LEMMA RunKeeps ==
  ASSUME GroupInv, NEW r \in Ranks, Run(r)
  PROVE  GroupInv'
<1>0. gen[r] \in Planes
  BY Zenon DEF GroupInv, GroupTypeOK
<1>1. PICK s \in Steps :
        /\ s > staged[r] /\ staged' = [staged EXCEPT ![r] = s]
        /\ Call(r, Entry(r, "broadcast", "step", s, TRUE,
                         IF r = Source THEN Identity[s] ELSE NoIdentity), "broadcast")
  BY Zenon DEF Run
<1>2. PICK e \in Entries : /\ e.why = "step" /\ e.op = "broadcast"
                           /\ e.step = s /\ e.gen = gen[r]
                           /\ Call(r, e, "broadcast")
  BY Zenon, <1>0, <1>1, GroupAssumption DEF Entry, Entries
<1>3. /\ Owns(r) /\ staged'[r] > staged[r] /\ staged'[r] = s
      /\ pc[r] = "idle" /\ kv'[r] # "CLOSED" /\ UNCHANGED <<kv, published>>
  BY Zenon, <1>1 DEF Run, host, GroupInv, GroupTypeOK, Owns
<1>4. Point(e.why) = "broadcast" /\ InOrder(r, e) /\ Moves(r, e)
  BY Zenon, <1>2, <1>3 DEF Kind, Point, InOrder, Moves
<1> QED
  BY Zenon, <1>2, <1>3, <1>4, Submits

\* An exception out of run(): the rank is FAILED, its flights stay or retire.
LEMMA RaiseKeeps ==
  ASSUME GroupInv, NEW r \in Ranks, Raise(r), UNCHANGED <<last, gen, plane, staged>>,
         flights' \in [Ranks -> SUBSET Nat], flights'[r] \subseteq flights[r],
         \A q \in Ranks \ {r} : flights'[q] = flights[q],
         published' \subseteq Planes \X Nat, published' = published \/ PublishedOK'
  PROVE  GroupInv'
<1>1. GroupTypeOK
  BY SMTT(60) DEF GroupInv
<1>2. /\ kv' \in [Ranks -> {"READY", "RUNNING", "FAILED", "CLOSED"}] /\ kv'[r] = "FAILED"
      /\ \A q \in Ranks \ {r} : kv'[q] = kv[q]
  BY SMTT(60), <1>1 DEF Raise, GroupTypeOK
<1>3. /\ local' \in [Ranks -> {"READY", "CLOSING", "FAILED", "CLOSED"}] /\ local'[r] # "READY"
      /\ \A q \in Ranks \ {r} : local'[q] = local[q]
  BY SMTT(60), <1>1 DEF Raise, GroupTypeOK, Failed
<1>4. Owns(r) /\ staged'[r] = staged[r]
  BY Zenon, <1>1, <1>2, <1>3 DEF Owns, GroupTypeOK
<1>5. Return(r)
  BY Zenon DEF Raise
<1> QED
  BY Zenon, <1>2, <1>3, <1>4, <1>5, Returns

LEMMA PrepareKeeps ==
  ASSUME GroupInv, NEW r \in Ranks, Prepare(r)
  PROVE  GroupInv'
<1>1. pc[r] = "broadcast" /\ Complete(r) /\ UNCHANGED <<last, gen, flights, plane, staged, published>>
  BY Zenon DEF Prepare
<1>2. GroupTypeOK /\ PcOK(r) /\ Source \in Ranks /\ gen[r] \in Planes /\ kv[r] # "CLOSED"
  BY Zenon, <1>1, GroupAssumption DEF GroupInv, GroupTypeOK, RankInv, ClosedOK
<1>3. Depth(r) \in Nat /\ Depth(r) > 0 /\ All(wire, plane[r], Depth(r), "broadcast")
  <2>1. Last(r).op = "broadcast"
    BY Zenon, <1>1, <1>2 DEF PcOK
  <2> QED
    BY Zenon, <1>1, <2>1, Completed
<1>4. CASE Raise(r)
  BY Zenon, <1>1, <1>2, <1>4, RaiseKeeps DEF GroupTypeOK
<1>5. ASSUME NEW begun \in BOOLEAN, NEW reserved \in BOOLEAN,
             kv' = [kv EXCEPT ![r] = IF begun THEN "RUNNING" ELSE @],
             Call(r, Entry(r, "grant", "prepare", At(Source, r).step,
                           begun /\ staged[r] = At(Source, r).step /\ reserved, NoIdentity), "prepare"),
             UNCHANGED local
      PROVE  GroupInv'
  <2>1. At(Source, r) = wire[plane[r]][Source][Depth(r)]
    BY Zenon DEF At, Sent, Depth
  <2>2. At(Source, r).step \in Steps \union {0}
    <3>1. Depth(r) \in 1..Len(wire[plane[r]][Source])
      BY Zenon, <1>2, <1>3 DEF All
    <3>2. wire \in Wires /\ plane[r] \in Planes
      BY SMTT(60), <1>2 DEF GroupTypeOK, Wires
    <3>3. wire[plane[r]][Source][Depth(r)] \in Entries
      BY Zenon, <1>2, <3>1, <3>2, EntryFields
    <3> QED
      BY Zenon, <2>1, <3>3 DEF Entries
  <2>3. PICK e \in Entries : /\ e.why = "prepare" /\ e.op = "grant"
                             /\ e.step = At(Source, r).step /\ e.gen = gen[r]
                             /\ e.yes => staged[r] = e.step
                             /\ Call(r, e, "prepare")
    BY Zenon, <1>2, <1>5, <2>2 DEF Entry, Entries
  <2>4. kv' \in [Ranks -> {"READY", "RUNNING", "FAILED", "CLOSED"}]
    BY SMTT(60), <1>2, <1>5 DEF GroupTypeOK
  <2>5. Owns(r) /\ kv'[r] # "CLOSED" /\ staged'[r] = staged[r]
    BY Zenon, <1>1, <1>2, <1>5, <2>4 DEF GroupTypeOK, Owns
  <2>6. Point(e.why) = "prepare" /\ InOrder(r, e) /\ Moves(r, e)
    BY Zenon, <1>1, <1>3, <2>1, <2>3, <2>5 DEF Kind, Point, InOrder, Moves
  <2> QED
    BY Zenon, <1>1, <2>3, <2>5, <2>6, Submits
<1>6. Prepare(r) /\ ~Raise(r) => GroupInv'
  <2> SUFFICES ASSUME ~Raise(r)
               PROVE  GroupInv'
    OBVIOUS
  <2>1. PICK identical \in BOOLEAN, reserved \in BOOLEAN :
          /\ kv' = [kv EXCEPT ![r] = IF identical /\ Admits(r, At(Source, r).step, At(Source, r).id)
                                     THEN "RUNNING" ELSE @]
          /\ Call(r, Entry(r, "grant", "prepare", At(Source, r).step,
                           (identical /\ Admits(r, At(Source, r).step, At(Source, r).id))
                             /\ staged[r] = At(Source, r).step /\ reserved, NoIdentity), "prepare")
          /\ UNCHANGED local
    BY Zenon DEF Prepare, MayFault
  <2>2. (identical /\ Admits(r, At(Source, r).step, At(Source, r).id)) \in BOOLEAN
    OBVIOUS
  <2> QED
    BY Zenon, <1>5, <2>1, <2>2
<1> QED
  BY <1>4, <1>6

\* A rank that waits for a vote of a step knows what it asked.
LEMMA Waiting ==
  ASSUME GroupInv, NEW r \in Ranks, pc[r] \in {"prepare", "proof", "commit", "vote"}, Complete(r)
  PROVE  /\ Depth(r) \in Nat /\ Depth(r) > 0
         /\ Last(r).why = pc[r] /\ Last(r).op = "grant"
         /\ pc[r] # "vote" => Last(r).step = env[r]
         /\ (pc[r] = "prepare" /\ Last(r).yes) => env[r] = staged[r]
         /\ AllYes(r) => Unan(wire, plane[r], Depth(r)) /\ Last(r).yes
         /\ (AllYes(r) /\ pc[r] # "vote") => Agreed(wire, plane[r], Depth(r), pc[r], env[r])
         /\ ~AllYes(r) => Split(wire, plane[r], Depth(r))
<1>1. PcOK(r) /\ plane[r] \in Planes /\ AllPure(wire) /\ wire \in Wires
  BY Zenon DEF GroupInv, RankInv, GroupTypeOK, Wires
<1>2. /\ Last(r).why = pc[r] /\ (pc[r] # "vote" => Last(r).step = env[r])
      /\ (pc[r] = "prepare" /\ Last(r).yes) => env[r] = staged[r]
  BY Zenon, <1>1 DEF PcOK
<1>3. /\ Depth(r) \in Nat /\ Depth(r) > 0 /\ EntryOK(wire, plane[r], r, Depth(r))
      /\ (Last(r).op = "grant" /\ AllYes(r)) => Unan(wire, plane[r], Depth(r)) /\ Last(r).yes
      /\ ~AllYes(r) => Split(wire, plane[r], Depth(r))
  BY Zenon, Completed
<1>4. Last(r).op = "grant"
  BY Zenon, <1>2, <1>3 DEF EntryOK, Kind, Last
<1>5. Pure(wire, plane[r], Depth(r))
  BY Zenon, <1>1, <1>3 DEF AllPure
<1>6. ASSUME Unan(wire, plane[r], Depth(r)), pc[r] # "vote"
      PROVE  Agreed(wire, plane[r], Depth(r), pc[r], env[r])
  <2>1. Agreed(wire, plane[r], Depth(r), wire[plane[r]][r][Depth(r)].why, wire[plane[r]][r][Depth(r)].step)
    BY Zenon, <1>1, <1>2, <1>3, <1>5, <1>6, AgreedAt DEF Last
  <2> QED
    BY Zenon, <1>2, <1>6, <2>1 DEF Last
<1> QED
  BY Zenon, <1>2, <1>3, <1>4, <1>6

\* A rank that ends a step at rest keeps the invariant.
LEMMA EndKeeps ==
  ASSUME GroupInv, NEW r \in Ranks, pc[r] \in {"prepare", "end"}, EndStep(r), Return(r),
         UNCHANGED <<gen, local, flights, plane, staged, published>>,
         Rested(wire, plane[r], r, Depth(r))
  PROVE  GroupInv'
<1>1. GroupTypeOK /\ ClosedOK(r)
  BY Zenon DEF GroupInv, RankInv
<1>2. /\ kv' \in [Ranks -> {"READY", "RUNNING", "FAILED", "CLOSED"}]
      /\ \A q \in Ranks \ {r} : kv'[q] = kv[q]
      /\ kv'[r] = "CLOSED" => kv[r] = "CLOSED"
  BY SMTT(60), <1>1 DEF EndStep, GroupTypeOK
<1>3. last' \in [Ranks -> Steps \union {0}]
  BY SMTT(60), <1>1 DEF EndStep, GroupTypeOK
<1>4. Owns(r) /\ staged'[r] = staged[r]
  BY Zenon, <1>1, <1>2, <1>3 DEF Owns, GroupTypeOK
<1> QED
  BY Zenon, <1>1, <1>2, <1>4, Returns DEF ClosedOK

LEMMA RefuseKeeps ==
  ASSUME GroupInv, NEW r \in Ranks, Refuse(r)
  PROVE  GroupInv'
<1>1. pc[r] = "prepare" /\ Complete(r) /\ ~AllYes(r)
  BY DEF Refuse
<1>2. Rested(wire, plane[r], r, Depth(r))
  BY Zenon, <1>1, Waiting DEF Rested, Last
<1> QED
  BY Zenon, <1>1, <1>2, EndKeeps DEF Refuse

LEMMA FinishKeeps ==
  ASSUME GroupInv, NEW r \in Ranks, Finish(r)
  PROVE  GroupInv'
<1>1. pc[r] = "end" /\ Complete(r) /\ PcOK(r)
  BY DEF Finish, GroupInv, RankInv
<1>2. Depth(r) > 0
  BY Zenon, <1>1, Completed
<1>3. Rested(wire, plane[r], r, Depth(r))
  BY Zenon, <1>1, <1>2 DEF Rested, PcOK, Last
<1> QED
  BY Zenon, <1>1, <1>3, EndKeeps DEF Finish

LEMMA FailKeeps ==
  ASSUME GroupInv, NEW r \in Ranks, FailClosed(r) \/ Timeout(r)
  PROVE  GroupInv'
<1>1. Raise(r) /\ UNCHANGED <<last, gen, flights, plane, staged, published>>
  BY DEF FailClosed, Timeout
<1> QED
  BY Zenon, <1>1, RaiseKeeps DEF GroupInv, GroupTypeOK

LEMMA LaunchKeeps ==
  ASSUME GroupInv, NEW r \in Ranks, Launch(r)
  PROVE  GroupInv'
<1>1. /\ pc[r] = "prepare" /\ Complete(r) /\ AllYes(r)
      /\ pc' = [pc EXCEPT ![r] = "launch"]
      /\ flights' = [flights EXCEPT ![r] = IF local[r] = "READY" THEN @ \union {env[r]} ELSE @]
      /\ UNCHANGED <<kv, last, gen, local, plane, wire, staged, env, published>>
  BY Zenon DEF Launch
<1>2. /\ GroupTypeOK /\ RankInv(r) /\ plane[r] \in Planes /\ staged[r] \in Nat
      /\ env[r] \in Nat /\ flights[r] \subseteq Nat /\ wire \in Wires
  BY SMTT(60) DEF GroupInv, GroupTypeOK, Steps, Wires
<1>3. /\ Depth(r) \in Nat /\ Depth(r) > 0 /\ Last(r).why = "prepare" /\ Last(r).op = "grant"
      /\ Last(r).step = env[r] /\ env[r] = staged[r] /\ Unan(wire, plane[r], Depth(r))
  BY Zenon, <1>1, Waiting
<1>4. /\ flights' \in [Ranks -> SUBSET Nat]
      /\ flights'[r] = IF local[r] = "READY" THEN flights[r] \union {env[r]} ELSE flights[r]
      /\ \A q \in Ranks \ {r} : flights'[q] = flights[q]
  BY Zenon, <1>1, <1>2 DEF GroupTypeOK
<1>5. /\ pc' \in [Ranks -> {"idle", "broadcast", "prepare", "launch", "proof", "commit",
                            "end", "vote", "close"}]
      /\ pc'[r] = "launch" /\ \A q \in Ranks \ {r} : pc'[q] = pc[q]
  BY Zenon, <1>1, <1>2 DEF GroupTypeOK
<1>6. GroupTypeOK'
  BY Zenon, <1>1, <1>2, <1>4, <1>5 DEF GroupTypeOK
<1>7. \A q \in Ranks \ {r} : Same(q)
  BY Zenon, <1>1, <1>4, <1>5 DEF Same
<1>8. PcOK(r)'
  <2>1. Depth(r)' = Depth(r) /\ Last(r)' = Last(r)
    BY Zenon, <1>1 DEF Depth, Last
  <2> QED
    BY Zenon, <1>1, <1>3, <1>5, <2>1 DEF PcOK
<1>9. Fresh(r)' /\ Once(r)' /\ ClosedOK(r)'
  <2>1. staged'[r] = staged[r] /\ \A p \in Planes : wire'[p][r] = wire[p][r]
    BY Zenon, <1>1
  <2>2. Fresh(r)' /\ ClosedOK(r)'
    BY Zenon, <1>1, <1>2 DEF RankInv, Fresh, ClosedOK, Depth
  <2> QED
    BY Zenon, <1>2, <2>1, <2>2, OnceKept DEF RankInv
<1>10. Proven(r)'
  <2> SUFFICES ASSUME NEW p \in Planes, NEW n \in 1..Len(wire[p][r]),
                      wire[p][r][n].why = "proof", wire[p][r][n].yes
               PROVE  /\ wire[p][r][n].step \notin flights'[r]
                      /\ wire[p][r][n].step <= staged[r]
                      /\ wire[p][r][n].step < staged[r]
    BY Zenon, <1>1 DEF Proven
  <2>1. /\ wire[p][r][n].step \notin flights[r] /\ wire[p][r][n].step <= staged[r]
        /\ wire[p][r][n].step < staged[r]
    BY Zenon, <1>1, <1>2 DEF RankInv, Proven
  <2>2. wire[p][r][n].step # env[r]
    <3>1. wire[p][r][n].step \in Nat /\ staged[r] \in Nat /\ env[r] = staged[r]
      BY ZenonT(60), <1>2, <1>3, EntryFields
    <3>2. wire[p][r][n].step < staged[r]
      BY Zenon, <2>1
    <3>3. wire[p][r][n].step # staged[r]
      BY SMTT(60), <3>1, <3>2
    <3> QED
      BY Zenon, <3>1, <3>3
  <2> QED
    BY Zenon, <1>4, <2>1, <2>2
<1>11. FlightOK(r)'
  <2> SUFFICES ASSUME NEW s \in flights'[r]
               PROVE  \E p \in Planes : \E n \in Nat :
                        Granted(wire, r, p, n, s) /\ Precedes(wire, r, p, n)
    BY Zenon, <1>1 DEF FlightOK
  <2>1. CASE s \in flights[r]
    BY Zenon, <1>2, <2>1 DEF RankInv, FlightOK
  <2>2. CASE s = env[r]
    <3>1. Granted(wire, r, plane[r], Depth(r), s)
      BY Zenon, <1>3, <2>2 DEF Granted, Last
    <3>2. ASSUME NEW x \in Planes, NEW k \in 1..Len(wire[x][r]), Stop(wire[x][r][k])
          PROVE  x < plane[r] \/ (x = plane[r] /\ k < Depth(r))
      <4>1. CASE x = plane[r]
        <5>1. k # Depth(r)
          BY Zenon, <1>3, <3>2, <4>1 DEF Stop, Last
        <5> QED
          BY SMTT(60), <1>3, <4>1, <5>1 DEF Depth
      <4>2. CASE x # plane[r]
        <5>1. Len(wire[x][r]) \in Nat /\ Len(<<>>) = 0
          BY <1>2, LengthIsNat
        <5>2. wire[x][r] # <<>>
          BY SMTT(60), <5>1
        <5>3. ~(x > plane[r])
          BY Zenon, <1>2, <5>2 DEF RankInv, Fresh
        <5> QED
          BY SMTT(60), <1>2, <4>2, <5>3, PlanesAreNat
      <4> QED
        BY Zenon, <4>1, <4>2
    <3> QED
      BY Zenon, <1>2, <1>3, <3>1, <3>2 DEF Precedes
  <2> QED
    BY Zenon, <1>4, <2>1, <2>2
<1>12. Flying(r)'
  <2>1. CASE local[r] = "READY"
    <3>1. flights'[r] = {env[r]}
      BY Zenon, <1>1, <1>2, <1>4, <2>1 DEF RankInv, Flying
    <3>2. env[r] <= staged[r]
      BY <1>2, <1>3
    <3> QED
      BY Zenon, <1>1, <1>5, <3>1, <3>2 DEF Flying
  <2>2. CASE local[r] # "READY"
    <3>1. flights'[r] = flights[r] /\ \A s \in flights[r] : s \in Nat /\ s < staged[r]
      BY Zenon, <1>1, <1>2, <1>4, <2>2 DEF RankInv, Flying
    <3>2. env[r] \notin flights'[r] /\ \A s \in flights'[r] : s <= staged[r]
      BY SMTT(60), <1>2, <1>3, <3>1
    <3> QED
      BY Zenon, <1>1, <1>5, <2>2, <3>2 DEF Flying
  <2> QED
    BY Zenon, <2>1, <2>2
<1>13. RankInv(r)'
  BY Zenon, <1>8, <1>9, <1>10, <1>11, <1>12 DEF RankInv
<1> QED
  BY Zenon, <1>1, <1>6, <1>7, <1>13, QuietStep

LEMMA ProveKeeps ==
  ASSUME GroupInv, NEW r \in Ranks, Prove(r)
  PROVE  GroupInv'
<1>1. pc[r] = "launch" /\ UNCHANGED <<last, gen, plane, staged, published>>
  BY Zenon DEF Prove
<1>2. /\ GroupTypeOK /\ PcOK(r) /\ env[r] \in Steps \union {0} /\ flights[r] \subseteq Nat
      /\ flights \in [Ranks -> SUBSET Nat] /\ gen[r] \in Planes
  BY SMTT(60) DEF GroupInv, RankInv, GroupTypeOK
<1>7. kv[r] # "CLOSED" /\ (env[r] \in flights[r] => flights[r] = {env[r]})
  BY Zenon, <1>1 DEF GroupInv, RankInv, ClosedOK, Flying
<1>3. ASSUME NEW ok \in BOOLEAN,
             flights' = [flights EXCEPT ![r] = IF ok THEN @ \ {env[r]} ELSE @]
      PROVE  /\ flights' \in [Ranks -> SUBSET Nat] /\ flights'[r] \subseteq flights[r]
             /\ (ok /\ flights[r] = {env[r]}) => flights'[r] = {}
             /\ \A q \in Ranks \ {r} : flights'[q] = flights[q]
  BY <1>2, <1>3
<1>4. ASSUME NEW ok \in BOOLEAN,
             flights' = [flights EXCEPT ![r] = IF ok THEN @ \ {env[r]} ELSE @],
             Call(r, Entry(r, "grant", "proof", env[r], ok /\ env[r] \in flights[r], NoIdentity), "proof"),
             UNCHANGED <<kv, local>>
      PROVE  GroupInv'
  <2>1. PICK e \in Entries : /\ e.why = "proof" /\ e.op = "grant" /\ e.step = env[r]
                             /\ e.gen = gen[r] /\ (e.yes => ok /\ env[r] \in flights[r])
                             /\ Call(r, e, "proof")
    BY Zenon, <1>2, <1>4 DEF Entry, Entries
  <2>2. /\ flights' \in [Ranks -> SUBSET Nat] /\ flights'[r] \subseteq flights[r]
        /\ e.yes => flights'[r] = {}
        /\ \A q \in Ranks \ {r} : flights'[q] = flights[q]
    BY Zenon, <1>3, <1>4, <1>7, <2>1
  <2>3. Owns(r) /\ staged'[r] = staged[r] /\ kv'[r] = kv[r]
    BY Zenon, <1>1, <1>2, <1>4, <2>2 DEF Owns, GroupTypeOK
  <2>4. Point(e.why) = "proof" /\ Kind(e)
    BY <2>1 DEF Kind, Point
  <2>5. /\ Depth(r) > 0 /\ Unan(wire, plane[r], Depth(r))
        /\ Last(r).why = "prepare" /\ Last(r).step = env[r] /\ env[r] = staged[r]
    BY Zenon, <1>1, <1>2 DEF PcOK
  <2>6. env[r] \in Nat
    BY <1>2, StepsAreNat
  <2>7. env[r] <= staged[r]
    BY SMTT(60), <2>5, <2>6
  <2>8. InOrder(r, e) /\ Moves(r, e)
    BY Zenon, <1>7, <2>1, <2>2, <2>3, <2>4, <2>5, <2>7 DEF InOrder, Moves
  <2> QED
    BY Zenon, <1>1, <2>1, <2>3, <2>4, <2>8, Submits
<1>5. CASE Raise(r)
  <2>1. PICK ok \in BOOLEAN : flights' = [flights EXCEPT ![r] = IF ok THEN @ \ {env[r]} ELSE @]
    BY Zenon DEF Prove, MayFault
  <2>2. /\ flights' \in [Ranks -> SUBSET Nat] /\ flights'[r] \subseteq flights[r]
        /\ \A q \in Ranks \ {r} : flights'[q] = flights[q]
    BY Zenon, <1>3, <2>1
  <2>3. published' \subseteq Planes \X Nat
    BY <1>1, <1>2 DEF GroupTypeOK
  <2> QED
    BY SMTT(60), <1>1, <1>5, <2>2, <2>3, RaiseKeeps
<1>6. CASE ~Raise(r)
  <2>1. PICK ok \in BOOLEAN :
          /\ flights' = [flights EXCEPT ![r] = IF ok THEN @ \ {env[r]} ELSE @]
          /\ Call(r, Entry(r, "grant", "proof", env[r], ok /\ env[r] \in flights[r], NoIdentity), "proof")
          /\ UNCHANGED <<kv, local>>
    BY Zenon, <1>6 DEF Prove, MayFault
  <2> QED
    BY Zenon, <1>4, <2>1
<1> QED
  BY <1>5, <1>6

LEMMA CommitKeeps ==
  ASSUME GroupInv, NEW r \in Ranks, Commit(r)
  PROVE  GroupInv'
<1>1. /\ pc[r] = "proof" /\ Complete(r) /\ AllYes(r)
      /\ UNCHANGED <<last, gen, flights, plane, staged, published>>
  BY Zenon DEF Commit
<1>2. GroupTypeOK /\ env[r] \in Steps \union {0} /\ gen[r] \in Planes
  BY SMTT(60) DEF GroupInv, GroupTypeOK
<1>3. /\ Depth(r) > 0 /\ Unan(wire, plane[r], Depth(r)) /\ Last(r).yes
      /\ Last(r).why = "proof" /\ Last(r).step = env[r]
  BY Zenon, <1>1, Waiting
<1>6. kv[r] # "CLOSED" /\ flights[r] = {}
  BY Zenon, <1>1, <1>3 DEF GroupInv, RankInv, ClosedOK, Flying
<1>4. CASE Raise(r)
  BY Zenon, <1>1, <1>2, <1>4, RaiseKeeps DEF GroupTypeOK
<1>5. CASE ~Raise(r)
  <2>1. PICK ok \in BOOLEAN :
          /\ Call(r, Entry(r, "grant", "commit", env[r], ok, NoIdentity), "commit")
          /\ UNCHANGED <<kv, local>>
    BY Zenon, <1>5 DEF Commit, MayFault
  <2>2. PICK e \in Entries : /\ e.why = "commit" /\ e.op = "grant" /\ e.step = env[r]
                             /\ e.gen = gen[r] /\ Call(r, e, "commit")
    BY Zenon, <1>2, <2>1 DEF Entry, Entries
  <2>3. Owns(r) /\ staged'[r] = staged[r] /\ kv'[r] = kv[r]
    BY Zenon, <1>1, <1>2, <2>1 DEF Owns, GroupTypeOK
  <2>4. Point(e.why) = "commit" /\ InOrder(r, e) /\ Moves(r, e)
    BY Zenon, <1>1, <1>3, <1>6, <2>2, <2>3 DEF Kind, Point, InOrder, Moves
  <2> QED
    BY Zenon, <1>1, <2>2, <2>3, <2>4, Submits
<1> QED
  BY <1>4, <1>5

\* What the publisher adds to the published steps was acknowledged by everybody.
LEMMA PublishAdds ==
  ASSUME GroupInv, pc[Publisher] = "commit", Complete(Publisher), AllYes(Publisher),
         wire' \in Wires, Grown(wire, wire'),
         published' = published \union {<<plane[Publisher], env[Publisher]>>}
  PROVE  PublishedOK'
<1>1. /\ wire \in Wires /\ plane[Publisher] \in Planes /\ Publisher \in Ranks
      /\ PublishedOK /\ published \subseteq Planes \X Nat
  BY Zenon, GroupAssumption DEF GroupInv, GroupTypeOK, Wires
<1>2. /\ Depth(Publisher) \in Nat
      /\ Agreed(wire, plane[Publisher], Depth(Publisher), "commit", env[Publisher])
      /\ wire[plane[Publisher]][Publisher][Depth(Publisher)].why = "commit"
  BY Zenon, <1>1, Waiting DEF Last
<1>3. ASSUME NEW x \in published'
      PROVE  \E n \in Nat : /\ Agreed(wire', x[1], n, "commit", x[2])
                            /\ wire'[x[1]][Publisher][n].why = "commit"
  <2>1. x[1] \in Planes /\ \E n \in Nat : /\ Agreed(wire, x[1], n, "commit", x[2])
                                         /\ wire[x[1]][Publisher][n].why = "commit"
    <3>1. CASE x \in published
      <4>1. x[1] \in Planes
        BY SMTT(60), <1>1, <3>1
      <4> QED
        BY Zenon, <1>1, <3>1, <4>1 DEF PublishedOK
    <3>2. CASE x = <<plane[Publisher], env[Publisher]>>
      BY Zenon, <1>1, <1>2, <3>2
    <3> QED
      BY Zenon, <3>1, <3>2
  <2>2. PICK n \in Nat : /\ Agreed(wire, x[1], n, "commit", x[2])
                         /\ wire[x[1]][Publisher][n].why = "commit"
    BY Zenon, <2>1
  <2>3. Agreed(wire', x[1], n, "commit", x[2])
    BY Zenon, <1>1, <2>1, <2>2, AgreedKept
  <2>4. wire'[x[1]][Publisher][n] = wire[x[1]][Publisher][n]
    BY Zenon, <1>1, <2>1, <2>2 DEF Agreed, Grown
  <2> QED
    BY Zenon, <2>2, <2>3, <2>4
<1> QED
  BY Zenon, <1>3 DEF PublishedOK

LEMMA PublishKeeps ==
  ASSUME GroupInv, NEW r \in Ranks, Publish(r)
  PROVE  GroupInv'
<1>1. /\ pc[r] = "commit" /\ Complete(r) /\ AllYes(r)
      /\ UNCHANGED <<last, gen, flights, plane, staged>>
      /\ \/ published' = published
         \/ r = Publisher /\ published' = published \union {<<plane[r], env[r]>>}
  BY Zenon DEF Publish
<1>2. /\ GroupTypeOK /\ env[r] \in Steps \union {0} /\ plane[r] \in Planes
      /\ wire \in Wires /\ gen[r] \in Planes
  BY Zenon DEF GroupInv, GroupTypeOK, Wires
<1>6. kv[r] # "CLOSED" /\ flights[r] = {}
  BY Zenon, <1>1 DEF GroupInv, RankInv, ClosedOK, Flying
<1>3. published' \subseteq Planes \X Nat
  <2>1. env[r] \in Nat
    BY <1>2 DEF Steps
  <2> QED
    BY SMTT(60), <1>1, <1>2, <2>1 DEF GroupTypeOK
<1>4. CASE Raise(r)
  <2>1. wire' = wire
    BY <1>4 DEF Raise, Return
  <2>2. Grown(wire, wire')
    <3>1. \A p \in Planes, q \in Ranks : Len(wire[p][q]) \in Nat
      BY SMTT(60), <1>2 DEF Wires
    <3> QED
      BY SMTT(60), <2>1, <3>1 DEF Grown
  <2>3. published' = published \/ PublishedOK'
    BY Zenon, <1>1, <1>2, <2>1, <2>2, PublishAdds
  <2> QED
    BY Zenon, <1>1, <1>2, <1>3, <1>4, <2>3, RaiseKeeps DEF GroupTypeOK
<1>5. CASE ~Raise(r)
  <2>1. /\ Call(r, Entry(r, "barrier", "end", env[r], TRUE, NoIdentity), "end")
        /\ UNCHANGED <<kv, local>>
    BY Zenon, <1>5 DEF Publish
  <2>2. PICK e \in Entries : /\ e.why = "end" /\ e.op = "barrier" /\ e.gen = gen[r]
                             /\ Call(r, e, "end")
    BY Zenon, <1>2, <2>1 DEF Entry, Entries
  <2>3. Added(wire, wire', plane[r], r, e) /\ wire' \in Wires
    BY Zenon, <1>2, <2>2, CallAdds
  <2>4. Grown(wire, wire')
    BY Zenon, <1>2, <2>3, AddedGrows
  <2>5. published' = published \/ PublishedOK'
    BY Zenon, <1>1, <2>3, <2>4, PublishAdds
  <2>6. Owns(r) /\ staged'[r] = staged[r] /\ kv'[r] = kv[r]
    BY Zenon, <1>1, <1>2, <1>3, <2>1 DEF Owns, GroupTypeOK
  <2>7. Point(e.why) = "end" /\ InOrder(r, e) /\ Moves(r, e)
    BY Zenon, <1>1, <1>6, <2>2, <2>6 DEF Kind, Point, InOrder, Moves
  <2> QED
    BY Zenon, <2>2, <2>5, <2>6, <2>7, Submits
<1> QED
  BY <1>4, <1>5

LEMMA ShutdownKeeps ==
  ASSUME GroupInv, NEW r \in Ranks, Shutdown(r)
  PROVE  GroupInv'
<1>1. /\ pc[r] = "idle" /\ kv[r] # "CLOSED"
      /\ local' = [local EXCEPT ![r] = IF @ = "READY" THEN "CLOSING" ELSE @]
      /\ UNCHANGED <<last, gen, flights, plane, staged, published>>
  BY Zenon DEF Shutdown
<1>2. GroupTypeOK /\ RankInv(r)
  BY DEF GroupInv
<1>3. /\ local' \in [Ranks -> {"READY", "CLOSING", "FAILED", "CLOSED"}] /\ local'[r] # "READY"
      /\ \A q \in Ranks \ {r} : local'[q] = local[q]
  BY Zenon, <1>1, <1>2 DEF GroupTypeOK
<1>4. CASE UNCHANGED <<kv, wire, env, pc>>
  <2>1. GroupTypeOK'
    BY Zenon, <1>1, <1>2, <1>3, <1>4 DEF GroupTypeOK
  <2>2. \A q \in Ranks \ {r} : Same(q)
    BY Zenon, <1>1, <1>3, <1>4 DEF Same
  <2>3. RankInv(r)'
    <3>1. kv[r] = "READY" => \/ Rested(wire, plane[r], r, Depth(r))
                             \/ Depth(r) > 0 /\ Last(r).gen # gen[r]
      BY Zenon, <1>1, <1>2 DEF RankInv, PcOK
    <3> QED
      BY Zenon, <1>1, <1>3, <1>4, <2>1, <3>1, ReturnKeeps
  <2> QED
    BY SMTT(60), <1>1, <1>4, <2>1, <2>2, <2>3, QuietStep
<1>5. CASE /\ flights[r] = {}
           /\ kv' = [kv EXCEPT ![r] = IF local[r] = "FAILED" THEN "FAILED" ELSE @]
           /\ Call(r, Entry(r, "grant", "vote", 0, kv'[r] = "READY", NoIdentity), "vote")
  <2>0. gen[r] \in Planes
    BY Zenon, <1>2 DEF GroupTypeOK
  <2>1. PICK e \in Entries : /\ e.why = "vote" /\ e.op = "grant" /\ e.step = 0
                             /\ e.gen = gen[r] /\ (e.yes => kv'[r] = "READY")
                             /\ Call(r, e, "vote")
    BY Zenon, <1>5, <2>0 DEF Entry, Entries
  <2>2. /\ kv' \in [Ranks -> {"READY", "RUNNING", "FAILED", "CLOSED"}]
        /\ \A q \in Ranks \ {r} : kv'[q] = kv[q]
        /\ kv'[r] = "READY" => kv[r] = "READY"
        /\ kv'[r] # "CLOSED"
    BY Zenon, <1>1, <1>2, <1>5 DEF GroupTypeOK
  <2>3. Owns(r) /\ staged'[r] = staged[r] /\ flights'[r] = {}
    BY Zenon, <1>1, <1>2, <1>3, <1>5, <2>2 DEF Owns, GroupTypeOK
  <2>4. e.yes => \/ Rested(wire, plane[r], r, Depth(r))
                 \/ Depth(r) > 0 /\ Last(r).gen # e.gen
    BY Zenon, <1>1, <1>2, <2>1, <2>2 DEF RankInv, PcOK
  <2>5. Point(e.why) = "vote" /\ InOrder(r, e) /\ Moves(r, e)
    BY Zenon, <1>3, <2>1, <2>2, <2>3, <2>4 DEF Kind, Point, InOrder, Moves
  <2> QED
    BY Zenon, <1>1, <2>1, <2>3, <2>5, Submits
<1> QED
  BY Zenon, <1>4, <1>5 DEF Shutdown

LEMMA ShutdownFailsKeeps ==
  ASSUME GroupInv, NEW r \in Ranks, ShutdownFails(r)
  PROVE  GroupInv'
<1>1. GroupTypeOK /\ ClosedOK(r)
  BY DEF GroupInv, RankInv
<1>2. /\ kv' \in [Ranks -> {"READY", "RUNNING", "FAILED", "CLOSED"}]
      /\ \A q \in Ranks \ {r} : kv'[q] = kv[q]
      /\ kv'[r] # "READY"
      /\ kv'[r] = "CLOSED" => kv[r] = "CLOSED"
  BY Zenon, <1>1 DEF ShutdownFails, GroupTypeOK
<1>3. /\ Owns(r) /\ staged'[r] = staged[r] /\ Return(r) /\ published' = published
      /\ pc[r] \in {"vote", "close"}
  BY Zenon, <1>1, <1>2 DEF ShutdownFails, Owns, GroupTypeOK
<1> QED
  BY Zenon, <1>1, <1>2, <1>3, Returns DEF ClosedOK

LEMMA ShutdownAgreedKeeps ==
  ASSUME GroupInv, NEW r \in Ranks, ShutdownAgreed(r)
  PROVE  GroupInv'
<1>1. /\ pc[r] = "vote" /\ Complete(r) /\ AllYes(r)
      /\ Call(r, Entry(r, "barrier", "close", 0, TRUE, NoIdentity), "close")
      /\ UNCHANGED <<kv, last, gen, local, flights, plane, staged, published>>
  BY Zenon DEF ShutdownAgreed, host
<1>2. GroupTypeOK /\ gen[r] \in Planes
  BY Zenon DEF GroupInv, GroupTypeOK
<1>3. PICK e \in Entries : /\ e.why = "close" /\ e.op = "barrier" /\ e.step = 0
                           /\ e.gen = gen[r] /\ Call(r, e, "close")
  BY Zenon, <1>1, <1>2 DEF Entry, Entries
<1>4. kv[r] # "CLOSED" /\ flights[r] = {}
  BY Zenon, <1>1 DEF GroupInv, RankInv, ClosedOK, Flying
<1>5. Owns(r) /\ staged'[r] = staged[r] /\ kv'[r] = kv[r]
  BY Zenon, <1>1, <1>2 DEF Owns, GroupTypeOK
<1>6. Point(e.why) = "close" /\ InOrder(r, e) /\ Moves(r, e)
  BY Zenon, <1>1, <1>3, <1>4, <1>5 DEF Kind, Point, InOrder, Moves
<1> QED
  BY Zenon, <1>1, <1>3, <1>5, <1>6, Submits

\* Whoever closes has met everybody at a barrier.
LEMMA CloseMeets ==
  ASSUME GroupInv, NEW r \in Ranks, CloseRank(r)
  PROVE  All(wire, plane[r], Depth(r), "barrier")
<1>1. RankInv(r)
  BY Zenon DEF GroupInv
<1>2. CASE kv[r] = "CLOSED"
  BY Zenon, <1>1, <1>2 DEF RankInv, ClosedOK
<1>3. CASE pc[r] = "close" /\ Complete(r)
  <2>1. Last(r).op = "barrier"
    BY Zenon, <1>1, <1>3 DEF RankInv, PcOK
  <2> QED
    BY Zenon, <1>3, <2>1, Completed
<1> QED
  BY Zenon, <1>2, <1>3 DEF CloseRank

LEMMA CloseKeeps ==
  ASSUME GroupInv, NEW r \in Ranks, CloseRank(r)
  PROVE  GroupInv'
<1>1. GroupTypeOK
  BY DEF GroupInv
<1>2. /\ kv' \in [Ranks -> {"READY", "RUNNING", "FAILED", "CLOSED"}] /\ kv'[r] = "CLOSED"
      /\ \A q \in Ranks \ {r} : kv'[q] = kv[q]
  BY Zenon, <1>1 DEF CloseRank, GroupTypeOK
<1>3. PICK clean \in BOOLEAN : local' = [local EXCEPT ![r] = IF clean THEN "CLOSED" ELSE "FAILED"]
  BY Zenon DEF CloseRank, MayFault
<1>4. /\ local' \in [Ranks -> {"READY", "CLOSING", "FAILED", "CLOSED"}] /\ local'[r] # "READY"
      /\ \A q \in Ranks \ {r} : local'[q] = local[q]
  BY Zenon, <1>1, <1>3 DEF GroupTypeOK
<1>5. Owns(r) /\ staged'[r] = staged[r] /\ Return(r) /\ published' = published
  BY Zenon, <1>1, <1>2, <1>4 DEF CloseRank, Owns, GroupTypeOK
<1> QED
  BY Zenon, <1>2, <1>4, <1>5, CloseMeets, Returns

LEMMA DrainKeeps ==
  ASSUME GroupInv, NEW r \in Ranks, Drain(r)
  PROVE  GroupInv'
<1>1. pc[r] = "idle" /\ UNCHANGED <<kv, last, gen, local, plane, wire, staged, env, pc, published>>
  BY Zenon DEF Drain
<1>2. GroupTypeOK /\ RankInv(r)
  BY DEF GroupInv
<1>3. /\ flights' \in [Ranks -> SUBSET Nat] /\ flights'[r] \subseteq flights[r]
      /\ \A q \in Ranks \ {r} : flights'[q] = flights[q]
  BY SMTT(60), <1>2 DEF Drain, GroupTypeOK
<1>4. GroupTypeOK'
  BY Zenon, <1>1, <1>2, <1>3 DEF GroupTypeOK
<1>5. \A q \in Ranks \ {r} : Same(q)
  BY Zenon, <1>1, <1>3 DEF Same
<1>6. RankInv(r)'
  <2>1. /\ kv[r] = "READY" => \/ Rested(wire, plane[r], r, Depth(r))
                              \/ Depth(r) > 0 /\ Last(r).gen # gen[r]
        /\ kv[r] = "CLOSED" => All(wire, plane[r], Depth(r), "barrier")
        /\ local[r] = "READY" => flights[r] = {}
    BY Zenon, <1>1, <1>2 DEF RankInv, PcOK, ClosedOK, Flying
  <2>2. local[r] = "READY" => flights'[r] = {}
    BY Zenon, <1>3, <2>1
  <2> QED
    BY Zenon, <1>1, <1>3, <1>4, <2>1, <2>2, ReturnKeeps
<1> QED
  BY <1>1, <1>4, <1>5, <1>6, QuietStep

\* A new incarnation starts on a plane this rank has not used, or after what its
\* predecessors submitted on the old one.
LEMMA RecoverKeeps ==
  ASSUME GroupInv, NEW r \in Ranks, Recover(r)
  PROVE  GroupInv'
<1>1. /\ pc[r] = "idle" /\ gen[r] < MaxPlane
      /\ kv' = [kv EXCEPT ![r] = "READY"] /\ gen' = [gen EXCEPT ![r] = @ + 1]
      /\ plane' = [plane EXCEPT ![r] = @ + 1] \/ plane' = plane
      /\ UNCHANGED <<last, flights, wire, staged, env, pc, published>>
  BY Zenon DEF Recover
<1>2. /\ GroupTypeOK /\ RankInv(r) /\ plane[r] \in Nat /\ gen[r] \in Nat /\ MaxPlane \in Nat
      /\ plane[r] <= gen[r] /\ plane[r] \in Planes
  <2>1. GroupTypeOK /\ RankInv(r) /\ MaxPlane \in Nat /\ plane[r] <= gen[r]
    BY Zenon, GroupAssumption DEF GroupInv, RankInv, Fresh
  <2>2. plane[r] \in Planes /\ gen[r] \in Planes
    BY Zenon, <2>1 DEF GroupTypeOK
  <2> QED
    BY SMTT(60), <2>1, <2>2 DEF Planes
<1>3. plane[r] + 1 \in Planes /\ gen[r] + 1 \in Planes
  BY SMTT(60), <1>1, <1>2 DEF Planes
<1>4. /\ kv' \in [Ranks -> {"READY", "RUNNING", "FAILED", "CLOSED"}] /\ kv'[r] = "READY"
      /\ \A q \in Ranks \ {r} : kv'[q] = kv[q]
  BY Zenon, <1>1, <1>2 DEF GroupTypeOK
<1>5. /\ gen' \in [Ranks -> Planes] /\ gen'[r] = gen[r] + 1
      /\ plane' \in [Ranks -> Planes] /\ plane'[r] \in {plane[r], plane[r] + 1}
      /\ \A q \in Ranks \ {r} : gen'[q] = gen[q] /\ plane'[q] = plane[q]
  BY Zenon, <1>1, <1>2, <1>3 DEF GroupTypeOK
<1>6. /\ local' \in [Ranks -> {"READY", "CLOSING", "FAILED", "CLOSED"}]
      /\ \A q \in Ranks \ {r} : local'[q] = local[q]
      /\ local'[r] = local[r] \/ flights[r] = {}
  BY Zenon, <1>2 DEF Recover, GroupTypeOK
<1>7. GroupTypeOK'
  BY Zenon, <1>1, <1>2, <1>4, <1>5, <1>6 DEF GroupTypeOK
<1>8. \A q \in Ranks \ {r} : Same(q)
  BY Zenon, <1>1, <1>4, <1>5, <1>6 DEF Same
<1>9. \A p \in Planes : p > plane[r] => wire[p][r] = <<>>
  BY Zenon, <1>2 DEF RankInv, Fresh
<1>10. PcOK(r)'
  <2>1. pc'[r] = "idle"
    BY <1>1
  <2>2. CASE plane'[r] = plane[r]
    <3>1. Depth(r)' = Depth(r) /\ Last(r)' = Last(r) /\ wire' = wire
      BY Zenon, <1>1, <2>2 DEF Depth, Last
    <3>2. wire \in Wires /\ Depth(r) \in Nat
      <4>1. wire \in Wires
        BY Zenon, <1>2 DEF GroupTypeOK, Wires
      <4> QED
        BY <1>2, <4>1, LengthIsNat DEF Depth
    <3>3. CASE Depth(r) = 0
      BY Zenon, <2>1, <3>1, <3>3 DEF PcOK, Rested
    <3>4. CASE Depth(r) > 0
      <4>1. Depth(r) \in 1..Len(wire[plane[r]][r])
        BY <3>2, <3>4 DEF Depth
      <4>2. Last(r).gen <= gen[r] /\ Last(r).gen \in Nat
        BY Zenon, <1>2, <3>2, <4>1, EntryFields DEF RankInv, Fresh, Last
      <4>3. Last(r).gen # gen'[r]
        BY SMTT(60), <1>2, <1>5, <4>2
      <4>4. Depth(r)' > 0 /\ Last(r)'.gen # gen'[r]
        BY Zenon, <3>1, <3>4, <4>3
      <4> QED
        BY Zenon, <2>1, <4>4 DEF PcOK
    <3> QED
      BY <3>2, <3>3, <3>4
  <2>3. CASE plane'[r] = plane[r] + 1
    <3>1. plane[r] + 1 > plane[r]
      BY <1>2
    <3>2. wire[plane[r] + 1][r] = <<>> /\ Len(<<>>) = 0
      BY <1>3, <1>9, <3>1
    <3>3. Depth(r)' = 0
      BY Zenon, <1>1, <2>3, <3>2 DEF Depth
    <3> QED
      BY Zenon, <2>1, <3>3 DEF PcOK, Rested
  <2> QED
    BY Zenon, <1>5, <2>2, <2>3
<1>11. Fresh(r)'
  <2>1. plane'[r] <= gen'[r]
    BY SMTT(60), <1>2, <1>5
  <2>2. ASSUME NEW p \in Planes, p > plane'[r]
        PROVE  wire'[p][r] = <<>>
    <3>1. p > plane[r]
      BY SMTT(60), <1>2, <1>5, <2>2, PlanesAreNat
    <3> QED
      BY Zenon, <1>1, <1>9, <3>1
  <2>3. ASSUME NEW p \in Planes, NEW n \in 1..Len(wire[p][r])
        PROVE  wire[p][r][n].gen <= gen'[r]
    <3>1. wire \in Wires
      BY Zenon, <1>2 DEF GroupTypeOK, Wires
    <3>2. wire[p][r][n].gen <= gen[r] /\ wire[p][r][n].gen \in Nat
      BY Zenon, <1>2, <3>1, EntryFields DEF RankInv, Fresh
    <3> QED
      BY SMTT(60), <1>2, <1>5, <3>2
  <2> QED
    BY Zenon, <1>1, <2>1, <2>2, <2>3 DEF Fresh
<1>12. Once(r)' /\ Proven(r)' /\ FlightOK(r)' /\ ClosedOK(r)'
  <2>1. staged'[r] = staged[r] /\ \A p \in Planes : wire'[p][r] = wire[p][r]
    BY Zenon, <1>1
  <2>2. Proven(r)' /\ FlightOK(r)' /\ ClosedOK(r)'
    BY Zenon, <1>1, <1>2, <1>4 DEF RankInv, Proven, FlightOK, ClosedOK
  <2> QED
    BY Zenon, <1>2, <2>1, <2>2, OnceKept DEF RankInv
<1>13. Flying(r)'
  <2>1. local'[r] = "READY" => flights[r] = {}
    BY Zenon, <1>1, <1>2, <1>6 DEF RankInv, Flying
  <2>2. \A s \in flights[r] : s <= staged[r]
    BY Zenon, <1>2 DEF RankInv, Flying
  <2> QED
    BY Zenon, <1>1, <2>1, <2>2 DEF Flying
<1>14. RankInv(r)'
  BY Zenon, <1>10, <1>11, <1>12, <1>13 DEF RankInv
<1> QED
  BY Zenon, <1>1, <1>7, <1>8, <1>14, QuietStep

-----------------------------------------------------------------------------
(* The theorems                                                            *)

LEMMA InitGroupInv == Init => GroupInv
<1> SUFFICES ASSUME Init
             PROVE  GroupInv
  OBVIOUS
<1>1. 0 \in Planes /\ \A p \in Planes, r \in Ranks : wire[p][r] = <<>>
  BY SMTT(60), GroupAssumption DEF Init, Planes
<1>2. GroupTypeOK
  BY SMTT(60), <1>1 DEF Init, GroupTypeOK
<1>3. EntriesOK(wire) /\ PublishedOK
  BY <1>1 DEF Init, EntriesOK, PublishedOK
<1>4. AllPure(wire)
  BY Zenon, <1>1 DEF AllPure, Pure, Alike
<1>5. ASSUME NEW r \in Ranks
      PROVE  RankInv(r)
  <2>1. Depth(r) = 0 /\ plane[r] = 0 /\ gen[r] = 0 /\ pc[r] = "idle" /\ kv[r] = "READY"
    BY <1>1 DEF Init, Depth
  <2>2. PcOK(r) /\ ClosedOK(r)
    BY Zenon, <2>1 DEF PcOK, Rested, ClosedOK
  <2>4. FlightOK(r) /\ Flying(r)
    BY DEF Init, FlightOK, Flying
  <2>5. \A p \in Planes : 1..Len(wire[p][r]) = {}
    <3>1. \A p \in Planes : Len(wire[p][r]) = 0
      <4>1. \A p \in Planes : wire[p][r] = <<>>
        BY <1>1, Zenon
      <4>2. Len(<<>>) = 0
        OBVIOUS
      <4> QED
        BY <4>1, <4>2, Zenon
    <3>2. 1..0 = {}
      OBVIOUS
    <3> QED
      BY <3>1, <3>2
  <2>6. Proven(r) /\ Once(r)
    BY Zenon, <2>5 DEF Proven, Once
  <2>7. Fresh(r)
    <3>1. 0 <= 0
      OBVIOUS
    <3> QED
      BY Zenon, <1>1, <2>1, <2>5, <3>1 DEF Fresh
  <2> QED
    BY Zenon, <2>2, <2>4, <2>6, <2>7 DEF RankInv
<1> QED
  BY <1>2, <1>3, <1>4, <1>5 DEF GroupInv

LEMMA NextGroupInv ==
  ASSUME GroupInv, [Next]_vars
  PROVE  GroupInv'
<1>1. CASE UNCHANGED vars
  <2>1. GroupTypeOK' /\ (\A q \in Ranks : Same(q)) /\ wire' = wire /\ published' = published
    BY Zenon, <1>1 DEF vars, GroupInv, GroupTypeOK, Same
  <2>2. Grown(wire, wire')
    <3>1. \A p \in Planes, q \in Ranks : Len(wire[p][q]) \in Nat
      BY SMTT(60) DEF GroupInv, GroupTypeOK
    <3>2. Grown(wire, wire)
      BY SMTT(60), <3>1 DEF Grown
    <3> QED
      BY Zenon, <2>1, <3>2
  <2>3. \A q \in Ranks : RankInv(q)'
    BY <2>1, <2>2, SameKeeps
  <2>4. Source \in Ranks
    BY GroupAssumption
  <2> QED
    BY <2>1, <2>3, <2>4, QuietStep
<1>2. ASSUME NEW r \in Ranks, RankStep(r)
      PROVE  GroupInv'
  BY SMTT(60), <1>2, PrepareKeeps, RefuseKeeps, LaunchKeeps, ProveKeeps, CommitKeeps, PublishKeeps,
     FinishKeeps, FailKeeps, ShutdownAgreedKeeps, ShutdownFailsKeeps, CloseKeeps DEF RankStep
<1>3. ASSUME NEW r \in Ranks, EngineStep(r)
      PROVE  GroupInv'
  BY <1>3, RunKeeps, ShutdownKeeps, DrainKeeps, RecoverKeeps DEF EngineStep
<1> QED
  BY <1>1, <1>2, <1>3 DEF Next

\* An agreed position is unanimous in the sense of StepGroup.
LEMMA AgreedIsUnanimous ==
  ASSUME NEW p, NEW n, NEW why, NEW s, Agreed(wire, p, n, why, s)
  PROVE  Unanimous(p, n, why, s)
<1>1. ASSUME NEW q \in Ranks
      PROVE  n <= Len(wire[p][q]) /\ (SaysYes(p, q, n, why, s) \/ Rejoins(p, q, n))
  <2>1. n \in 1..Len(wire[p][q])
    BY Zenon DEF Agreed
  <2>2. n <= Len(wire[p][q])
    BY <2>1
  <2> QED
    BY Zenon, <2>2 DEF Agreed, SaysYes, Rejoin, Rejoins
<1> QED
  BY Zenon, <1>1 DEF Unanimous, Joined

\* Votes never mix, for every number of ranks, steps, votes and recoveries: a
\* unanimous all-grant of DistributedStepCoordinator was cast by all ranks in the
\* same phase of the same step, but for the shutdown votes of ranks that recovered
\* without a new control plane.
THEOREM GrantsStayPure == Spec => []GrantsNeverMix
<1>1. GroupInv => GrantsNeverMix
  <2> SUFFICES ASSUME GroupInv, NEW p \in Planes, NEW r \in Ranks, NEW q \in Ranks,
                      NEW n \in 1..Len(wire[p][r]), Joined(p, n),
                      \A x \in Ranks : wire[p][x][n].op = "grant" /\ wire[p][x][n].yes
               PROVE  \/ /\ wire[p][r][n].why = wire[p][q][n].why
                         /\ wire[p][r][n].step = wire[p][q][n].step
                      \/ Rejoins(p, r, n) \/ Rejoins(p, q, n)
    BY ZenonT(60) DEF GrantsNeverMix
  <2>1. ASSUME NEW x \in Ranks
        PROVE  Len(wire[p][x]) \in Nat /\ n <= Len(wire[p][x])
    <3>1. wire[p][x] \in Seq(Entries)
      BY ZenonT(60) DEF GroupInv, GroupTypeOK
    <3> QED
      BY SMTT(60), <3>1 DEF Joined
  <2>2. n \in Nat /\ Unan(wire, p, n)
    BY SMTT(60), <2>1 DEF Unan
  <2>3. Alike(wire, p, r, q, n)
    BY Zenon, <2>2 DEF GroupInv, AllPure, Pure
  <2> QED
    BY Zenon, <2>3 DEF Alike, Rejoin, Rejoins
<1> QED
  BY <1>1, InitGroupInv, NextGroupInv, PTL DEF Spec

\* A rank has a step in flight only if every rank of the group granted that very
\* step: one refusal rolls it back everywhere before anything is enqueued.
THEOREM LaunchesAreGranted == Spec => []LaunchIsUnanimous
<1>1. GroupInv => LaunchIsUnanimous
  <2> SUFFICES ASSUME GroupInv, NEW r \in Ranks, NEW s \in flights[r]
               PROVE  \E p \in Planes : \E n \in 1..Len(wire[p][r]) :
                        SaysYes(p, r, n, "prepare", s) /\ Unanimous(p, n, "prepare", s)
    BY Zenon DEF LaunchIsUnanimous
  <2>1. PICK p \in Planes, n \in Nat : Granted(wire, r, p, n, s)
    BY Zenon DEF GroupInv, RankInv, FlightOK
  <2>2. wire \in Wires /\ Pure(wire, p, n)
    BY Zenon DEF GroupInv, GroupTypeOK, Wires, AllPure
  <2>3. Agreed(wire, p, n, "prepare", s)
    <3>1. Unan(wire, p, n) /\ wire[p][r][n].why = "prepare" /\ wire[p][r][n].step = s
      BY Zenon, <2>1 DEF Granted
    <3>2. Agreed(wire, p, n, wire[p][r][n].why, wire[p][r][n].step)
      <4>1. wire[p][r][n].why # "vote"
        BY Zenon, <3>1
      <4> QED
        BY Zenon, <2>2, <3>1, <4>1, AgreedAt
    <3> QED
      BY Zenon, <3>1, <3>2
  <2>4. n \in 1..Len(wire[p][r]) /\ SaysYes(p, r, n, "prepare", s)
    BY Zenon, <2>1 DEF Granted, Unan, SaysYes
  <2> QED
    BY Zenon, <2>3, <2>4, AgreedIsUnanimous
<1> QED
  BY <1>1, InitGroupInv, NextGroupInv, PTL DEF Spec

\* A rank acknowledges a commit only when every rank proved the step and none has
\* it in flight.
THEOREM CommitsAreProven == Spec => []CommitIsProven
<1>1. GroupInv => CommitIsProven
  <2> SUFFICES ASSUME GroupInv, NEW p \in Planes, NEW r \in Ranks,
                      NEW n \in 1..Len(wire[p][r]), NEW s \in Steps,
                      SaysYes(p, r, n, "commit", s)
               PROVE  /\ n > 1 /\ Unanimous(p, n - 1, "proof", s)
                      /\ \A q \in Ranks : s \notin flights[q]
    BY Zenon DEF CommitIsProven
  <2>1. /\ wire \in Wires /\ EntriesOK(wire) /\ AllPure(wire) /\ Source \in Ranks
        /\ Len(wire[p][r]) \in Nat
    <3>1. wire \in Wires
      BY Zenon DEF GroupInv, GroupTypeOK, Wires
    <3> QED
      BY Zenon, <3>1, LengthIsNat, GroupAssumption DEF GroupInv
  <2>2. After(wire, p, r, n, "proof") /\ wire[p][r][n].step = s
    BY Zenon, <2>1 DEF EntriesOK, EntryOK, SaysYes
  <2>3. n > 1
    BY Zenon, <2>2 DEF After
  <2>4. PICK m \in Nat : m = n - 1
    BY <2>1, <2>3
  <2>5. /\ Unan(wire, p, m) /\ wire[p][r][m].why = "proof" /\ wire[p][r][m].step = s
        /\ m \in 1..Len(wire[p][r]) /\ wire[p][r][m].yes
    BY Zenon, <2>2, <2>4 DEF After, Unan
  <2>6. Agreed(wire, p, m, "proof", s)
    <3>1. Pure(wire, p, m)
      BY Zenon, <2>1 DEF AllPure
    <3>2. Agreed(wire, p, m, wire[p][r][m].why, wire[p][r][m].step)
      <4>1. wire[p][r][m].why # "vote"
        BY Zenon, <2>5
      <4> QED
        BY Zenon, <2>1, <2>5, <3>1, <4>1, AgreedAt
    <3> QED
      BY Zenon, <2>5, <3>2
  <2>7. After(wire, p, r, m, "prepare")
    BY Zenon, <2>1, <2>5 DEF EntriesOK, EntryOK
  <2>8. PICK k \in Nat : k = m - 1
    <3>1. m > 1
      BY Zenon, <2>7 DEF After
    <3> QED
      BY <3>1
  <2>9. /\ k \in 1..Len(wire[p][r]) /\ wire[p][r][k].yes
        /\ wire[p][r][k].why = "prepare" /\ wire[p][r][k].step = s
    BY Zenon, <2>5, <2>7, <2>8 DEF After, Unan
  <2>10. /\ k - 1 \in 1..Len(wire[p][Source]) /\ wire[p][Source][k - 1].why = "step"
         /\ wire[p][Source][k - 1].step = s
    BY Zenon, <2>1, <2>9, PreparedIsBroadcast
  <2>11. ASSUME NEW q \in Ranks, s \in flights[q]
         PROVE  FALSE
    <3>1. RankInv(q) /\ RankInv(Source)
      BY Zenon, <2>1 DEF GroupInv
    <3>2. PICK x \in Planes, j \in Nat : Granted(wire, q, x, j, s) /\ Precedes(wire, q, x, j)
      BY Zenon, <2>11, <3>1 DEF RankInv, FlightOK
    <3>3. /\ j \in 1..Len(wire[x][q]) /\ wire[x][q][j].why = "prepare"
          /\ wire[x][q][j].step = s /\ wire[x][q][j].yes
      BY Zenon, <3>2 DEF Granted, Unan
    <3>4. /\ j - 1 \in 1..Len(wire[x][Source]) /\ wire[x][Source][j - 1].why = "step"
          /\ wire[x][Source][j - 1].step = s
      BY Zenon, <2>1, <3>3, PreparedIsBroadcast
    <3>5. x = p /\ j - 1 = k - 1
      <4>1. Once(Source)
        BY Zenon, <3>1 DEF RankInv
      <4> QED
        BY Zenon, <2>1, <2>10, <3>4, <4>1, OnceOnly
    <3>6. ~(p < x) /\ ~(m < j)
      <4>1. p \in Nat
        BY PlanesAreNat
      <4> QED
        BY SMTT(60), <2>8, <3>5, <4>1
    <3>7. ~Stop(wire[p][q][m])
      BY Zenon, <2>6, <3>2, <3>6 DEF Precedes, Agreed
    <3>8. m \in 1..Len(wire[p][q]) /\ wire[p][q][m].why = "proof"
          /\ wire[p][q][m].step = s /\ wire[p][q][m].yes
      BY Zenon, <2>6, <3>7 DEF Agreed, Rejoin, Stop
    <3> QED
      BY Zenon, <2>11, <3>1, <3>8 DEF RankInv, Proven
  <2> QED
    BY Zenon, <2>3, <2>4, <2>6, <2>11, AgreedIsUnanimous
<1> QED
  BY <1>1, InitGroupInv, NextGroupInv, PTL DEF Spec

\* Nothing is published before the commit acknowledgements of all ranks.
THEOREM PublicationsAreAcknowledged == Spec => []PublishIsAcknowledged
<1>1. GroupInv => PublishIsAcknowledged
  <2> SUFFICES ASSUME GroupInv, NEW x \in published
               PROVE  \E n \in 1..Len(wire[x[1]][Publisher]) :
                        /\ SaysYes(x[1], Publisher, n, "commit", x[2])
                        /\ Unanimous(x[1], n, "commit", x[2])
    BY Zenon DEF PublishIsAcknowledged
  <2>1. PICK n \in Nat : /\ Agreed(wire, x[1], n, "commit", x[2])
                         /\ wire[x[1]][Publisher][n].why = "commit"
    BY Zenon DEF GroupInv, PublishedOK
  <2>2. n \in 1..Len(wire[x[1]][Publisher]) /\ SaysYes(x[1], Publisher, n, "commit", x[2])
    BY Zenon, <2>1, GroupAssumption DEF Agreed, Rejoin, SaysYes
  <2> QED
    BY Zenon, <2>1, <2>2, AgreedIsUnanimous
<1> QED
  BY <1>1, InitGroupInv, NextGroupInv, PTL DEF Spec

\* The phases of execution.py: no rank enqueues a step before every rank granted
\* it, acknowledges a commit before every rank proved it, or publishes before
\* every rank acknowledged it.
THEOREM PhasesStayUnanimous == Spec => []PhasesAreUnanimous
<1>1. LaunchIsUnanimous /\ CommitIsProven /\ PublishIsAcknowledged => PhasesAreUnanimous
  BY DEF PhasesAreUnanimous
<1> QED
  BY <1>1, LaunchesAreGranted, CommitsAreProven, PublicationsAreAcknowledged, PTL

\* A rank frees its device state in _close_rank only when no rank of the group
\* has work in flight.
THEOREM ClosesAreQuiescent == Spec => ClosesQuiescent
<1> DEFINE Quiet == \A r \in Ranks : (local[r] # "CLOSED" /\ local'[r] = "CLOSED") =>
                      \A q \in Ranks : flights[q] = {}
<1>1. ASSUME GroupInv, NEW r \in Ranks, CloseRank(r), NEW q \in Ranks
      PROVE  flights[q] = {}
  <2> SUFFICES ASSUME NEW s \in flights[q]
               PROVE  FALSE
    OBVIOUS
  <2>1. RankInv(r) /\ RankInv(q) /\ plane[r] \in Planes
    BY <1>1 DEF GroupInv, GroupTypeOK
  <2>2. /\ Depth(r) \in 1..Len(wire[plane[r]][q])
        /\ Stop(wire[plane[r]][q][Depth(r)])
    BY Zenon, <1>1, CloseMeets DEF All, Stop
  <2>3. PICK p \in Planes, n \in Nat : Granted(wire, q, p, n, s) /\ Precedes(wire, q, p, n)
    BY Zenon, <2>1 DEF RankInv, FlightOK
  <2>4. plane[r] < p \/ (plane[r] = p /\ Depth(r) < n)
    BY Zenon, <2>1, <2>2, <2>3 DEF Precedes
  <2>5. n \in 1..Len(wire[p][r])
    BY Zenon, <1>1, <2>3 DEF Granted, Unan
  <2>6. CASE plane[r] < p
    <3>1. p > plane[r]
      BY SMTT(60), <2>1, <2>6, PlanesAreNat
    <3>2. wire[p][r] = <<>>
      BY Zenon, <2>1, <3>1 DEF RankInv, Fresh
    <3> QED
      BY <2>5, <3>2
  <2>7. CASE plane[r] = p /\ Depth(r) < n
    <3>1. Depth(r) \in Nat /\ n <= Depth(r)
      BY SMTT(60), <2>2, <2>5, <2>7 DEF Depth
    <3> QED
      BY SMTT(60), <2>7, <3>1
  <2> QED
    BY Zenon, <2>4, <2>6, <2>7
<1>2. ASSUME GroupInv, Next
      PROVE  Quiet
  <2> SUFFICES ASSUME NEW r \in Ranks, local[r] # "CLOSED", local'[r] = "CLOSED"
               PROVE  CloseRank(r)
    BY <1>1, <1>2
  <2>1. GroupTypeOK
    BY <1>2 DEF GroupInv
  <2>2. PICK x \in Ranks : RankStep(x) \/ EngineStep(x)
    BY <1>2 DEF Next
  <2>3. CASE CloseRank(x)
    BY Zenon, <2>1, <2>3 DEF CloseRank, GroupTypeOK
  <2>4. CASE ~CloseRank(x)
    <3>1. \/ UNCHANGED local
          \/ local' = [local EXCEPT ![x] = Failed(@)]
          \/ local' = [local EXCEPT ![x] = IF @ = "READY" THEN "CLOSING" ELSE @]
          \/ local' = [local EXCEPT ![x] = "READY"]
      BY Zenon, <2>2, <2>4 DEF RankStep, EngineStep, Prepare, Refuse, Launch, Prove, Commit, Publish, Finish,
         FailClosed, Timeout, ShutdownAgreed, ShutdownFails, Run, Shutdown, Drain, Recover, Raise, host
    <3> QED
      BY <2>1, <3>1 DEF GroupTypeOK, Failed
  <2> QED
    BY Zenon, <2>3, <2>4
<1>3. ASSUME GroupInv, [Next]_vars
      PROVE  [Quiet]_vars
  BY <1>2, <1>3
<1> QED
  BY <1>3, InitGroupInv, NextGroupInv, PTL DEF Spec, ClosesQuiescent
=============================================================================

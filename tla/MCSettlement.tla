---------------------------- MODULE MCSettlement ----------------------------
(***************************************************************************)
(* Instances of Settlement for TLC: two requests, with ids of their own or *)
(* with any ids, so that one may reuse the other's once it was forgotten.  *)
(***************************************************************************)
EXTENDS Settlement, TLC

CONSTANTS a, b, idA, idB

OwnIds == a :> {idA} @@ b :> {idB}
AnyIds == a :> {idA, idB} @@ b :> {idA, idB}

\* Lifecycles, ids and tickets are only ever compared for equality.
Interchangeable ==
    {p @@ q @@ r : p \in Permutations(Lives), q \in Permutations(Ids), r \in Permutations(Tickets)}
=============================================================================

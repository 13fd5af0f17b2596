--------------------------- MODULE MCWaitingQueue ---------------------------
(* Instances of WaitingQueue for TLC: ids are unique, or b takes over a's. *)
EXTENDS WaitingQueue

CONSTANTS a, b, c, d

OwnIds == [l \in Lives |-> l]
SharedIds == [l \in Lives |-> IF l = b THEN a ELSE l]
QueueSymmetry == Permutations(Lives)
=============================================================================

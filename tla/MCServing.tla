----------------------------- MODULE MCServing ------------------------------
(***************************************************************************)
(* Two clients, one resize and a shutdown, over a device on which a        *)
(* capacity of 3 is swapped in, 4 needs a rebuild and 1 is below the floor.*)
(***************************************************************************)
EXTENDS Serving

CONSTANTS c1, c2, z1, z2

MCEvents == [c \in Clients |-> IF c = c1 THEN 2 ELSE 1]

Scenario(cs, zs, asks, k, f) ==
    [clients |-> cs, admins |-> zs, asks |-> asks, closes |-> k, faults |-> f]

\* The interactions that matter in pairs: two streams and a failure; a stream, a
\* shutdown tried twice and two failures; a stream, a resize and a failure; a
\* stream, a resize and a shutdown; two resizes, or one and a shutdown, and two
\* failures.
MCScenarios ==
    { Scenario({c1, c2}, {}, {}, 0, 1),
      Scenario({c1}, {}, {}, 2, 2),
      Scenario({c1}, {z1}, {3, 4}, 0, 1),
      Scenario({c1}, {z1}, {4}, 1, 0),
      Scenario({}, {z1, z2}, {1, 3, 4}, 0, 2),
      Scenario({}, {z1}, {3, 4}, 1, 2) }
=============================================================================

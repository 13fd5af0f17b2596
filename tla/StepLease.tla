----------------------------- MODULE StepLease -----------------------------
(***************************************************************************)
(* What the executor promises about the resources of a step, with tickets, *)
(* fences, cancellation, quarantine and shutdown all hidden: a bundle is   *)
(* written or given back only while the device does not use it, the device *)
(* starts on it at most once, and it is given back at most once            *)
(* (ExecutionResources in executor/ticket.py: "Exclusive lease").          *)
(***************************************************************************)
CONSTANT Steps

VARIABLE use   \* per step: where its bundle is in its life

LeaseInit == use = [s \in Steps |-> "free"]

Move(s, from, to) == use[s] \in from /\ use' = [use EXCEPT ![s] = to]

Take(s) == Move(s, {"free"}, "held")
Start(s) == Move(s, {"held"}, "running") \/ Move(s, {"held"}, "quiet")
Quiesce(s) == Move(s, {"running"}, "quiet")
Write(s) == Move(s, {"quiet"}, "written")
GiveBack(s) == Move(s, {"free", "held", "quiet", "written"}, "gone")

LeaseNext ==
    \E s \in Steps : Take(s) \/ Start(s) \/ Quiesce(s) \/ Write(s) \/ GiveBack(s)

LeaseSpec == LeaseInit /\ [][LeaseNext]_use
=============================================================================

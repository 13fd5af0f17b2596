--------------------------- MODULE TicketProtocol ---------------------------
(***************************************************************************)
(* The life of an execution ticket as the CompletionCoordinator relies on  *)
(* it and the Executor provides it (executor/ticket.py, TicketState and    *)
(* StepOutcome), with fences, drain proofs, device work and requests       *)
(* hidden.  Settlement takes tickets to be like this; Executor is shown to *)
(* make them so.  Several tickets may move in one step (shutdown cancels   *)
(* all of them).                                                           *)
(***************************************************************************)
CONSTANT Tickets

VARIABLE tk

View(state, status, cancel) == [state |-> state, status |-> status, cancel |-> cancel]

None == View("absent", "NONE", FALSE)
Plain(state) == View(state, "NONE", FALSE)
Live(cancel) == View("live", "NONE", cancel)
Done(status) == View("done", status, FALSE)
Settled(status) == View("settling", status, FALSE)

\* A launch starts the ticket, is refused, or loses the host's accounting.
Launches(r, s) ==
    /\ r = Plain("adopted")
    /\ s \in {Live(FALSE), Done("CANCELLED"), Plain("lost")}

\* Work in flight is only marked by a cancellation and never succeeds after it.
Completes(r, s) ==
    \E cancel \in BOOLEAN :
        /\ r = Live(cancel)
        /\ s \in {Live(TRUE), Done("FAILED"),
                  IF cancel THEN Done("CANCELLED") ELSE Done("SUCCEEDED")}

\* Before its settlement a success may be demoted.
Demotes(r, s) == r = Done("SUCCEEDED") /\ s = Done("CANCELLED")

\* The outcome settled is the one delivered; a fault keeps the ticket for good.
Settles(r, s) ==
    \E status \in {"SUCCEEDED", "FAILED", "CANCELLED"} :
        \/ r = Done(status) /\ s \in {Settled(status), Plain("lost")}
        \/ r = Settled(status) /\ s \in {Plain("gone"), Plain("lost")}

Moves(r, s) ==
    \/ r = None /\ s = Plain("adopted")
    \/ Launches(r, s) \/ Completes(r, s) \/ Demotes(r, s) \/ Settles(r, s)
    \/ r = Plain("gone") /\ s = None

ProtocolInit == tk = [t \in Tickets |-> None]
ProtocolNext == \A t \in Tickets : tk'[t] = tk[t] \/ Moves(tk[t], tk'[t])
ProtocolSpec == ProtocolInit /\ [][ProtocolNext]_tk
=============================================================================

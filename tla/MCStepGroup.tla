---------------------------- MODULE MCStepGroup ----------------------------
EXTENDS StepGroup

CONSTANTS r1, r2

MCTwo == {r1, r2}
MCLive == {r2}
MCIdentity == [s \in Steps |-> IF s = 1 THEN 0 ELSE NoIdentity]
MCFaults == {"execute", "commit", "publish", "close"}
=============================================================================

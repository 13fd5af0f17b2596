--------------------------- MODULE MCBatchPlanner ---------------------------
(* A model-checking instance of BatchPlanner: a scheduler with mixed       *)
(* batches, decodes or prefills first, and one with separate batches, a    *)
(* burst limit and refusing advisors.                                      *)
EXTENDS BatchPlanner

MCPrompt == [r \in Requests |-> IF r = 1 THEN 5 ELSE IF r = 2 THEN 3 ELSE 1]
MCPriority == [r \in Requests |-> IF r = 2 THEN 1 ELSE 0]

MixedBatches == [mixed |-> TRUE, decodeFirst |-> TRUE, maxBurst |-> 0,
                 refusals |-> FALSE, clients |-> Requests]
PrefillFirst == [MixedBatches EXCEPT !.decodeFirst = FALSE, !.clients = {1, 2}]
SplitBatches == [mixed |-> FALSE, decodeFirst |-> TRUE, maxBurst |-> 1,
                 refusals |-> TRUE, clients |-> {1, 2}]
MCSettings == {MixedBatches, PrefillFirst, SplitBatches}
=============================================================================

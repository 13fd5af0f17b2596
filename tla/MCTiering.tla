----------------------------- MODULE MCTiering -----------------------------
EXTENDS Tiering, TLC

CONSTANTS b1, b2, b3

MCParent == b1 :> Root @@ b2 :> b1 @@ b3 :> b2
MCSymmetry == Permutations(Requests)
=============================================================================

-------------------------- MODULE MCMemoryManager --------------------------
(* Small instances of MemoryManager for TLC. *)
EXTENDS MemoryManager, TLC

CONSTANTS p1, p2, p3, s1, s2, t1, t2, k1

MCPages == {p1, p2, p3}
MCSlots == {s1, s2}
MCSteps == {t1, t2}
MCPubs == {k1}

Setting(tokens, sequences, steps, prefixes, epoch, delays) ==
    [tokens |-> tokens, sequences |-> sequences, steps |-> steps,
     prefixes |-> prefixes, epoch |-> epoch, delays |-> delays]

Overlapping == {Setting(3, 2, 2, 0, 0, {0})}
Publishing == {Setting(2, 2, 1, 1, 0, {0})}
Failing == {Setting(3, 1, 1, 0, 1, {0, 1})}
Everything == Overlapping \cup Publishing \cup Failing

Interchangeable ==
    Permutations(MCPages) \cup Permutations(MCSlots) \cup Permutations(MCSteps)
=============================================================================

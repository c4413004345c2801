----------------------------- MODULE MCObjects -----------------------------
(* Instances of ObjectTable for TLC.                                         *)
EXTENDS ObjectTable, TLC
CONSTANTS b1, b2, b3, r1, r2
MCBlocks == {b1, b2, b3}
MCSlots == {r1, r2}
Symmetry == Permutations(MCBlocks) \cup Permutations(MCSlots)
=============================================================================

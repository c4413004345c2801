----------------------------- MODULE MCStrings -----------------------------
(* Instances of StringTable for TLC.                                         *)
EXTENDS StringTable
CONSTANTS t1, t2, t3, s1, s2, b1, b2, b3
MCThreads == {t1, t2, t3}
MCContent == {s1, s2}
MCBlocks == {b1, b2, b3}
MCMaxHandles == [t \in MCThreads |-> IF t = t1 THEN 2 ELSE 1]
=============================================================================

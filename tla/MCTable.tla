------------------------------ MODULE MCTable ------------------------------
(* LuaTable on integer keys 1..MaxInt, a string key and a float key that is  *)
(* the integer 2.                                                            *)
EXTENDS LuaTable, TLC

CONSTANTS str, two, x, y

MCOtherKeys == {str}
MCFloatKeys == {two}
MCFloatToInt == [k \in {two} |-> 2]
MCValues == {x, y}

(* A traversal with a hole or a sweep behind it is outside TraversalExact:   *)
(* its table and its shadow are also reached without it.                     *)
Undisturbed == ~trav.holes /\ ~trav.swept

Symmetry == Permutations(MCValues)
=============================================================================

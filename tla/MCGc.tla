-------------------------------- MODULE MCGc --------------------------------
(* Small instances of Gc for TLC. *)
EXTENDS Gc, TLC

CONSTANTS a, b, c, d

Two   == {a, b}
Three == {a, b, c}
Four  == {a, b, c, d}

NoWeak     == {{}}
WeakKeys   == {{}, {"k"}}
WeakValues == {{}, {"v"}}
AnyMode    == SUBSET {"k", "v"}

(* Objects differ only by being coroutines, userdata or neither. *)
Symmetry == Permutations(Obj \ (Threads \cup Udata))
              \cup Permutations(Threads) \cup Permutations(Udata)
=============================================================================

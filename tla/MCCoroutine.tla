---------------------------- MODULE MCCoroutine ----------------------------
(* Coroutine with two coroutines and a few variables.                        *)
EXTENDS Coroutine, TLC

CONSTANT MaxDepth       \* bound on the nested calls of all threads together

Depth == FoldSet(LAMBDA t, n : n + Len(frames[t]), 0, Threads)
Shallow == Depth <= MaxDepth

(* Two values of a variable differ only in being the last one written or an  *)
(* older one: exchanging them everywhere changes no step and no property.    *)
Aged(x) == IF x = Nil THEN Nil ELSE <<x[1], x[2] = var[x[1]].ver>>
AgedPending(c) ==
    [u \in DOMAIN co[c].pending |-> [co[c].pending[u] EXCEPT !.val = Aged(@)]]
View ==
    <<chain, [c \in Coroutines |-> [co[c] EXCEPT !.pending = AgedPending(c)]],
      [t \in Threads |-> [i \in DOMAIN stack[t] |-> Aged(stack[t][i])]],
      frames, leaving, [v \in Vars |-> [var[v] EXCEPT !.ver = 0]],
      [u \in Vars |-> [cell[u] EXCEPT !.val = Aged(@)]], list, reach>>

Symmetry == Permutations(Vars) \cup Permutations(Coroutines)
=============================================================================

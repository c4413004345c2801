------------------------------ MODULE FieldMap ------------------------------
(* What a table promises its users: a map from fields to values.  One step   *)
(* reads, writes one field, moves a run of fields (table.insert,          *)
(* table.remove) or drops every field that holds one of a set of values (the *)
(* sweep of a weak table).                                                   *)
EXTENDS Integers

CONSTANTS Fields, Values, Nil
VARIABLE map

Init == map = [k \in Fields |-> Nil]

Read == UNCHANGED map

(* A write: one field changes, and no other.  Clearing a field may bring an  *)
(* older value of that field back.                                           *)
Write(k) == \A j \in Fields \ {k} : map'[j] = map[j]

(* A nil that is moved into a field clears it.                               *)
Lands(k, v) == v # Nil => map'[k] = v

(* table.insert: the fields from pos to a border e - 1 move up by one.       *)
ShiftUp(pos, e, v) == \A k \in Fields :
    IF k \in pos..e THEN Lands(k, IF k = pos THEN v ELSE map[k - 1])
    ELSE map'[k] = map[k]

(* table.remove: the fields from pos + 1 to a border n move down by one.     *)
ShiftDown(pos, n) == \A k \in Fields :
    IF k \in pos..n THEN Lands(k, IF k = n THEN Nil ELSE map[k + 1])
    ELSE map'[k] = map[k]

Drop(dead) == \A k \in Fields :
    IF map[k] \in dead THEN map'[k] \notin dead ELSE map'[k] = map[k]

Next ==
    \/ Read
    \/ \E k \in Fields : Write(k)
    \/ \E pos, n \in Fields \cap Int : (\E v \in Values : ShiftUp(pos, n, v))
                                      \/ ShiftDown(pos, n)
    \/ \E dead \in SUBSET Values : Drop(dead)

Spec == Init /\ [][Next]_map
=============================================================================

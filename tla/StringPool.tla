---------------------------- MODULE StringPool ----------------------------
(* What interning promises to its callers (src_rs/strings.rs): at any time   *)
(* every content has at most one string object, so that short strings may    *)
(* be compared by address (lua_string_eq).  Interning gives that object or,  *)
(* if there is none, a new one at an unused address; an object goes away     *)
(* only when nobody holds it.                                                *)
EXTENDS Integers

CONSTANTS Threads, Content, Blocks, NoBlock

VARIABLES object,   \* [Content -> Blocks \cup {NoBlock}]: the string object
          held      \* [Threads -> [Blocks -> Nat]]: handles

vars == <<object, held>>

Init ==
    /\ object = [c \in Content |-> NoBlock]
    /\ held = [t \in Threads |-> [b \in Blocks |-> 0]]

Gain(t, b) == held' = [held EXCEPT ![t][b] = @ + 1]

InternKnown(t, c) ==
    /\ object[c] # NoBlock
    /\ Gain(t, object[c])
    /\ UNCHANGED object

InternNew(t, c) ==
    /\ object[c] = NoBlock
    /\ \E b \in Blocks :
        /\ \A d \in Content : object[d] # b
        /\ object' = [object EXCEPT ![c] = b]
        /\ Gain(t, b)

Clone(t, b) == held[t][b] > 0 /\ Gain(t, b) /\ UNCHANGED object

Drop(t, b) ==
    /\ held[t][b] > 0
    /\ held' = [held EXCEPT ![t][b] = @ - 1]
    /\ UNCHANGED object

Forget(c) ==
    /\ object[c] # NoBlock
    /\ \A t \in Threads : held[t][object[c]] = 0
    /\ object' = [object EXCEPT ![c] = NoBlock]
    /\ UNCHANGED held

Next ==
    \/ \E t \in Threads, c \in Content : InternKnown(t, c) \/ InternNew(t, c)
    \/ \E t \in Threads, b \in Blocks : Clone(t, b) \/ Drop(t, b)
    \/ \E c \in Content : Forget(c)

Spec == Init /\ [][Next]_vars
============================================================================

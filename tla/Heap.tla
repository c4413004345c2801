-------------------------------- MODULE Heap --------------------------------
(* What the collector (src_rs/gc.rs) promises to a Lua program: a heap in     *)
(* which an object keeps its contents for as long as the program, or a        *)
(* finalizer that is still to run, can get at it, and is gone in the very     *)
(* step after which nothing can.  There are no marks, phases or sweeps here.  *)
(*                                                                            *)
(* Weak tables lose entries at any time, but only entries with a weak part    *)
(* that nothing holds strongly (manual 2.5.4); an object becomes due for      *)
(* finalization only if nothing holds it strongly or the state is closing.    *)

CONSTANTS Obj, Plain

Val == Obj \cup {Plain}

VARIABLES
    roots,      \* the objects root values refer to
    heap,       \* [Obj -> contents]
    marked,     \* the objects marked for finalization
    due,        \* those whose finalizer is about to be called
    closing     \* whether the state is being closed

vars == <<roots, heap, marked, due, closing>>

Empty == [fields |-> {}, pairs |-> {}, mode |-> {}, hasGc |-> FALSE]

(* What can be read out of o in the heap h. *)
Refs(h, o) ==
    h[o].fields \cup {p[1] : p \in h[o].pairs} \cup {p[2] : p \in h[o].pairs}

(* The objects that can be got at from those of S. *)
Reach(h, S) ==
    {x \in Obj : \A T \in SUBSET Obj :
        S \subseteq T /\ (\A o \in T : Refs(h, o) \subseteq T \cup {Plain}) => x \in T}

(* Weak keys and values hold nothing; an ephemeron holds its value if its  *)
(* key is held.                                                            *)
HoldsWithin(h, o, T) ==
    /\ "v" \in h[o].mode \/ h[o].fields \subseteq T
    /\ \A p \in h[o].pairs :
         /\ "k" \in h[o].mode \/ p[1] \in T \cup {Plain}
         /\ \/ "v" \in h[o].mode
            \/ p[1] \notin T \cup {Plain}
            \/ p[2] \in T \cup {Plain}

(* The objects that the root values hold strongly. *)
Held == {x \in Obj : \A T \in SUBSET Obj :
           roots \subseteq T /\ (\A o \in T : HoldsWithin(heap, o, T))
              => x \in T}

(* The contents become those of h, less what nobody can get at any more. *)
Becomes(h) ==
    LET new  == h
        kept == Reach(new, roots' \cup marked' \cup due')
    IN heap' = [o \in Obj |-> IF o \in kept THEN new[o] ELSE Empty]

Init ==
    /\ roots = {} /\ marked = {} /\ due = {}
    /\ heap = [o \in Obj |-> Empty]
    /\ closing = FALSE

-----------------------------------------------------------------------------
(* The program. *)

New(o) ==
    /\ roots' = roots \cup {o}
    /\ UNCHANGED <<marked, due, closing>>
    /\ UNCHANGED heap
    /\ o \notin Reach(heap, roots \cup marked \cup due)

Load(o, x) ==
    /\ o \in roots /\ x \in Refs(heap, o) \ {Plain}
    /\ roots' = roots \cup {x}
    /\ UNCHANGED <<heap, marked, due, closing>>

Forget ==
    /\ roots' \in SUBSET roots
    /\ UNCHANGED <<marked, due, closing>>
    /\ Becomes(heap)

SetField(o, x) ==
    /\ o \in roots /\ x \in roots
    /\ UNCHANGED <<roots, marked, due, closing>>
    /\ Becomes([heap EXCEPT ![o].fields = @ \cup {x}])

SetPair(o, k, v) ==
    /\ o \in roots
    /\ {k, v} \subseteq roots \cup {Plain}
    /\ UNCHANGED <<roots, marked, due, closing>>
    /\ Becomes([heap EXCEPT ![o].pairs =
                   {p \in @ : p[1] # k} \cup {<<k, v>>}])

Erase(o) ==
    /\ o \in roots
    /\ UNCHANGED <<roots, marked, due, closing>>
    /\ Becomes([heap EXCEPT ![o].fields = {}, ![o].pairs = {}])

(* A __gc in the metatable marks o, unless the state is being closed. *)
SetMetatable(o, m, g) ==
    /\ o \in roots
    /\ marked' = IF g /\ ~closing THEN marked \cup {o} ELSE marked
    /\ UNCHANGED <<roots, due, closing>>
    /\ Becomes([heap EXCEPT ![o].mode = m, ![o].hasGc = g])

-----------------------------------------------------------------------------
(* The collector. *)

(* The entries of weak tables with an unheld weak part, by table. *)
ExpiredFields ==
    LET held == Held IN
    {e \in Obj \X Obj : /\ "v" \in heap[e[1]].mode
                        /\ e[2] \in heap[e[1]].fields \ held}
ExpiredPairs ==
    LET held == Held
        expired(o) == {p \in heap[o].pairs :
                          \/ "k" \in heap[o].mode /\ p[1] \in Obj \ held
                          \/ "v" \in heap[o].mode /\ p[2] \in Obj \ held}
    IN UNION {{o} \X expired(o) : o \in Obj}

(* A set of entries with an unheld weak part disappears. *)
Expire ==
    /\ UNCHANGED <<roots, marked, due, closing>>
    /\ \E gone \in SUBSET ExpiredFields, lost \in SUBSET ExpiredPairs :
          Becomes([o \in Obj |->
                     [heap[o] EXCEPT
                        !.fields = {x \in @ : <<o, x>> \notin gone},
                        !.pairs = {p \in @ : <<o, p>> \notin lost}]])

(* o's finalizer is about to be called, or has gone. *)
Choose(o) ==
    /\ o \in marked
    /\ marked' = marked \ {o}
    /\ due' = IF heap[o].hasGc THEN due \cup {o} ELSE due
    /\ UNCHANGED <<roots, closing>>
    /\ o \notin Held
    /\ Becomes(heap)

(* The finalizer sees the object it is called for. *)
Call(o) ==
    /\ o \in due
    /\ due' = due \ {o}
    /\ roots' = IF heap[o].hasGc THEN roots \cup {o} ELSE roots
    /\ UNCHANGED <<marked, closing>>
    /\ Becomes(heap)

Close ==
    /\ closing' = TRUE
    /\ UNCHANGED <<roots, heap, marked, due>>

ChooseAll ==
    /\ closing
    /\ due' = due \cup marked /\ marked' = {}
    /\ UNCHANGED <<roots, heap, closing>>

(* What the program writes is read off the new contents. *)
Write ==
    \E o \in roots :
       \/ \E m \in {heap'[o].mode}, g \in {heap'[o].hasGc} : SetMetatable(o, m, g)
       \/ \E x \in heap'[o].fields : SetField(o, x)
       \/ \E p \in heap'[o].pairs : SetPair(o, p[1], p[2])
       \/ Erase(o)

Next ==
    \/ UNCHANGED vars
    \/ Write \/ Forget
    \/ \E o, x \in Obj : Load(o, x)
    \/ \E o \in Obj : New(o) \/ Choose(o) \/ Call(o)
    \/ Close \/ ChooseAll
    \/ Expire

Spec == Init /\ [][Next]_vars
=============================================================================

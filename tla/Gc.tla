--------------------------------- MODULE Gc ---------------------------------
(***************************************************************************)
(* The full collection of src_rs/gc.rs (LuaState::collect_gc), the heap it *)
(* works on and the Lua program that changes the heap between, and from    *)
(* finalizers during, the collections.                                     *)
(*                                                                         *)
(* An object stands for a table, closure, userdata or coroutine that       *)
(* reference counting alone does not free (it is part of a cycle, or a     *)
(* weak table holds it): the collector is what reclaims it.  Its data is   *)
(* kept as far as the collector tells it apart: `fields' (array part,      *)
(* upvalues, coroutine stack), `pairs' (hash part), and of its metatable   *)
(* `mode' (__mode) and `hasGc' (is there a __gc).  `roots' stands for all  *)
(* root values at once: stacks, globals, registry, basic-type metatables.  *)
(*                                                                         *)
(* The two whites are one colour here: enter_cycle repaints every          *)
(* registered object, so an object is either painted gray since then (the  *)
(* set `gray') or of the current white.  collect_gc never paints black.    *)
(*                                                                         *)
(* A definition whose name ends in _Something is not part of the model: it *)
(* is what the definition after it would be with a plausible slip in the   *)
(* code.  Mutation runs put it in that definition's place to see that a    *)
(* property notices.                                                       *)
(***************************************************************************)
EXTENDS Naturals, Sequences, FiniteSets

CONSTANTS
    Obj,        \* the memory blocks objects live in
    Threads,    \* those holding coroutines: no GC id, judged by aux_marked
    Udata,      \* those holding userdata: finalized after the tables
    Plain,      \* any value the collector does not manage (number, string)
    None,       \* no object
    Modes,      \* the __mode settings the program uses
    Ops,        \* the OptionalOps the program performs
    MaxFields,  \* bound: strong field references in the heap
    MaxPairs,   \* bound: hash pairs in the heap
    MaxWeak     \* bound: weak tables at a time

OptionalOps == {"finalizer",           \* metatables with __gc
                "late_mode",           \* mt.__mode = m after setmetatable
                "debug_setmetatable",  \* debug.setmetatable(t, mt)
                "finalizer_alloc",     \* finalizers create objects
                "emergency",           \* allocations fail
                "close",               \* the state is closed
                "close_collect"}       \* finalizers run at close trigger a GC

ASSUME ObjAssumption    == /\ Threads \subseteq Obj
                           /\ Udata \subseteq Obj \ Threads
                           /\ Plain \notin Obj
                           /\ None \notin Obj
ASSUME ModesAssumption  == Modes \subseteq SUBSET {"k", "v"}
ASSUME OpsAssumption    == Ops \subseteq OptionalOps
ASSUME BoundsAssumption == /\ MaxFields \in Nat
                           /\ MaxPairs \in Nat /\ MaxWeak \in Nat

Val == Obj \cup {Plain}

VARIABLES
    roots,      \* objects the root values refer to
    fields,     \* Obj -> objects held in the array part / upvalues / stack
    pairs,      \* Obj -> key-value pairs of the hash part
    mode,       \* Obj -> __mode of the metatable
    hasGc,      \* Obj -> the metatable has a __gc
    live,       \* registered objects: all_objects, threads
    gray,       \* registered objects whose colour is not the current white
    aux,        \* aux_marked
    worklist,   \* gc_worklist
    weakReg,    \* weak_tables
    finobj,     \* finobj_list and ud_finobj_list, one list in time order
    keep,       \* local of collect_finalizers_impl
    tobefnz,    \* to_finalize of the running cycle
    phase,      \* where collect_gc is
    emergency,  \* gcemergency
    running,    \* the object whose finalizer the cycle is running
    closing,    \* where close_state is
    closeQ,     \* to_finalize of close_state, not yet put in its order
    closeRun,   \* the object whose finalizer close_state is running
    owed,       \* ghost: objects marked for finalization and not finalized
    earlier     \* ghost: <<a, b>> in owed, where a was marked before b

heapVars  == <<fields, pairs, mode, hasGc>>
markVars  == <<gray, aux, worklist>>
finVars   == <<finobj, keep, tobefnz, running>>
closeVars == <<closing, closeQ, closeRun>>
ghostVars == <<owed, earlier>>
vars == <<roots, heapVars, live, markVars, weakReg, finVars, phase,
          emergency, closeVars, ghostVars>>

-----------------------------------------------------------------------------
(* Sequences as the sets of their elements. *)
Members(s) == {s[i] : i \in 1..Len(s)}

(* The lists of tables and of userdata with a finalizer are one sequence   *)
(* here; the tables are taken first, in the order they were registered or  *)
(* in its reverse.  Dropped: s without its i-th element.                   *)
SameKind(o, q) == o \in Udata <=> q \in Udata
Oldest(s, i) == \A j \in 1..Len(s) :
    j # i => IF SameKind(s[i], s[j]) THEN i < j ELSE s[j] \in Udata
Newest(s, i) == \A j \in 1..Len(s) :
    j # i => IF SameKind(s[i], s[j]) THEN i > j ELSE s[j] \in Udata
Dropped(s, i) ==
    [j \in 1..(Len(s) - 1) |-> IF j < i THEN s[j] ELSE s[j + 1]]

(* What a program that holds o can read out of it. *)
Keys(o) == {p[1] : p \in pairs[o]} \ {Plain}
Vals(o) == {p[2] : p \in pairs[o]} \ {Plain}
Refs(o) == fields[o] \cup Keys(o) \cup Vals(o)

Children_NoKeys(o) == {x \in fields[o] : "v" \notin mode[o]}
                 \cup {x \in Keys(o) \cup Vals(o) : mode[o] = {}}

(* What mark_tvalue pushes when it traverses o. *)
Children(o) == {x \in fields[o] : "v" \notin mode[o]}
          \cup {x \in Keys(o)   : "k" \notin mode[o]}
          \cup {x \in Vals(o)   : mode[o] = {}}

Marked_GcOnly(x) == x \in Obj /\ IF x \in Threads THEN x \in aux
                                  ELSE x \in gray \/ x \notin live
Marked_ByColour(x) == x = Plain \/ x \in gray \/ x \in Obj \ live

(* is_marked; an object whose GC id was freed counts as marked. *)
Marked(x) == \/ x = Plain
             \/ x \in Threads /\ x \in aux
             \/ x \in Obj \ Threads /\ (x \in gray \/ x \notin live)

(* A block some strong reference of the Rust side still holds. *)
Held(o) == \/ o \in live \cup roots
           \/ \E q \in Obj : o \in Refs(q)
           \/ o \in Members(finobj) \cup Members(tobefnz) \cup Members(closeQ)

(* The pairs process_ephemerons looks at: it visits every registered weak  *)
(* table, whether or not the table itself has been marked.                 *)
Ephemerons     == {o \in weakReg : Held(o) /\ mode[o] = {"k"}}
EphemeronPairs == UNION {pairs[o] : o \in Ephemerons}

PullsKey_Again(p) == p[2] \in Obj \ Threads /\ Marked(p[2]) /\ p[1] \in Obj

PullsKey(p)   == p[2] \in Obj \ Threads /\ Marked(p[2]) /\ ~Marked(p[1])
PullsValue(p) == Marked(p[1]) /\ ~Marked(p[2])

Converged_KeysOnly == worklist = {} /\ \A p \in EphemeronPairs : ~PullsKey(p)

Converged == /\ worklist = {}
             /\ \A p \in EphemeronPairs : ~PullsKey(p) /\ ~PullsValue(p)

(* When Lua code runs: the program, a finalizer called by the collector, a *)
(* finalizer called by close_state.                                        *)
InProgram        == phase = "idle" /\ closing \in {"open", "tbc"}
InFinalizer      == phase = "finalize" /\ running # None
InCloseFinalizer == phase = "idle" /\ closeRun # None
LuaRuns          == InProgram \/ InFinalizer \/ InCloseFinalizer

-----------------------------------------------------------------------------
Init ==
    /\ roots = {}
    /\ fields = [o \in Obj |-> {}]
    /\ pairs  = [o \in Obj |-> {}]
    /\ mode   = [o \in Obj |-> {}]
    /\ hasGc  = [o \in Obj |-> FALSE]
    /\ live = {} /\ gray = {} /\ aux = {} /\ worklist = {}
    /\ weakReg = {}
    /\ finobj = <<>> /\ keep = <<>> /\ tobefnz = <<>>
    /\ running = None
    /\ phase = "idle" /\ emergency = FALSE
    /\ closing = "open" /\ closeQ = <<>> /\ closeRun = None
    /\ owed = {} /\ earlier = {}

-----------------------------------------------------------------------------
(* The promise the ghosts record: marking an object that is marked already *)
(* changes nothing, unless it waits in to_finalize, where a new mark earns *)
(* it another call; its mark is used up when its finalizer is called.      *)
Without(o) == {e \in earlier : e[1] # o /\ e[2] # o}

Owe(o) == /\ owed' = owed \cup {o}
          /\ earlier' = IF /\ o \in owed
                           /\ o \in Members(tobefnz) => o \in Members(finobj)
                        THEN earlier
                        ELSE Without(o) \cup ((owed \ {o}) \X {o})

Settle(o) == owed' = owed \ {o} /\ earlier' = Without(o)

-----------------------------------------------------------------------------
(* The Lua program. *)

(* A new object is registered in the current white and put on the stack. *)
Alloc(o) ==
    /\ LuaRuns
    /\ InFinalizer => "finalizer_alloc" \in Ops
    /\ ~Held(o) /\ o \notin weakReg
    /\ live' = live \cup {o}
    /\ gray' = gray \ {o}
    /\ roots' = roots \cup {o}
    /\ UNCHANGED <<heapVars, aux, worklist, weakReg, finVars, phase,
                   emergency, closeVars, ghostVars>>

(* x is read out of o, which a root value refers to. *)
Load(o, x) ==
    /\ LuaRuns
    /\ o \in roots /\ x \in Refs(o)
    /\ roots' = roots \cup {x}
    /\ UNCHANGED <<heapVars, live, markVars, weakReg, finVars, phase,
                   emergency, closeVars, ghostVars>>

(* The last root value that refers to o goes away. *)
Forget(o) ==
    /\ LuaRuns
    /\ o \in roots
    /\ roots' = roots \ {o}
    /\ UNCHANGED <<heapVars, live, markVars, weakReg, finVars, phase,
                   emergency, closeVars, ghostVars>>

FieldCount == Cardinality({e \in Obj \X Obj : e[2] \in fields[e[1]]})
PairCount  == Cardinality(UNION {{o} \X pairs[o] : o \in Obj})

SetField(o, x) ==
    /\ LuaRuns
    /\ o \in roots /\ x \in roots
    /\ FieldCount < MaxFields
    /\ fields' = [fields EXCEPT ![o] = @ \cup {x}]
    /\ UNCHANGED <<roots, pairs, mode, hasGc, live, markVars, weakReg,
                   finVars, phase, emergency, closeVars, ghostVars>>

SetPair(o, k, v) ==
    /\ LuaRuns
    /\ o \in roots \ (Threads \cup Udata)
    /\ k \in roots \cup {Plain} /\ v \in roots \cup {Plain}
    /\ PairCount < MaxPairs
    /\ pairs' = [pairs EXCEPT ![o] = {p \in @ : p[1] # k} \cup {<<k, v>>}]
    /\ UNCHANGED <<roots, fields, mode, hasGc, live, markVars, weakReg,
                   finVars, phase, emergency, closeVars, ghostVars>>

(* All of o's entries are set to nil. *)
Erase(o) ==
    /\ LuaRuns
    /\ o \in roots
    /\ fields' = [fields EXCEPT ![o] = {}]
    /\ pairs' = [pairs EXCEPT ![o] = {}]
    /\ UNCHANGED <<roots, mode, hasGc, live, markVars, weakReg, finVars,
                   phase, emergency, closeVars, ghostVars>>

(* Only tables are weak. *)
MayBeWeak(o, m) ==
    m # {} => /\ o \notin Udata
              /\ Cardinality({q \in Obj \ {o} : mode[q] # {}}) < MaxWeak

Registers_Again(o) == closing = "open"

(* register_finobj and register_ud_finobj refuse duplicates, and everything *)
(* at close.                                                               *)
Registers(o) == closing = "open" /\ o \notin Members(finobj)

(* setmetatable(o, mt), or lua_setmetatable for a userdata: mt has          *)
(* __mode = m (absent: {}) and a __gc iff g.                               *)
SetMetatable(o, m, g) ==
    /\ LuaRuns
    /\ o \in roots \ Threads
    /\ g => "finalizer" \in Ops
    /\ MayBeWeak(o, m)
    /\ mode' = [mode EXCEPT ![o] = m]
    /\ hasGc' = [hasGc EXCEPT ![o] = g]
    /\ weakReg' = IF m = {} THEN weakReg ELSE weakReg \cup {o}
    /\ finobj' = IF g /\ Registers(o) THEN Append(finobj, o) ELSE finobj
    /\ IF g /\ closing = "open" THEN Owe(o) ELSE UNCHANGED ghostVars
    /\ UNCHANGED <<roots, fields, pairs, live, markVars, keep, tobefnz,
                   running, phase, emergency, closeVars>>

(* debug.setmetatable(o, mt) on a table or userdata: registers weak tables, *)
(* never finalizers.  For other types it sets a metatable all values share. *)
DebugSetMetatable(o, m, g) ==
    /\ LuaRuns
    /\ "debug_setmetatable" \in Ops
    /\ o \in roots \ Threads
    /\ g => "finalizer" \in Ops
    /\ MayBeWeak(o, m)
    /\ mode' = [mode EXCEPT ![o] = m]
    /\ hasGc' = [hasGc EXCEPT ![o] = g]
    /\ weakReg' = IF m = {} THEN weakReg ELSE weakReg \cup {o}
    /\ IF g /\ closing = "open" THEN Owe(o) ELSE UNCHANGED ghostVars
    /\ UNCHANGED <<roots, fields, pairs, live, markVars, finVars, phase,
                   emergency, closeVars>>

(* getmetatable(o).__mode = m, an assignment that registers nothing. *)
ChangeMode(o, m) ==
    /\ LuaRuns
    /\ "late_mode" \in Ops
    /\ o \in roots \ Threads
    /\ MayBeWeak(o, m)
    /\ mode' = [mode EXCEPT ![o] = m]
    /\ UNCHANGED <<roots, fields, pairs, hasGc, live, markVars, weakReg,
                   finVars, phase, emergency, closeVars, ghostVars>>

Mutator ==
    \/ \E o \in Obj : Alloc(o) \/ Forget(o) \/ Erase(o)
    \/ \E o, x \in Obj : Load(o, x) \/ SetField(o, x)
    \/ \E o \in Obj, k, v \in Val : SetPair(o, k, v)
    \/ \E o \in Obj, m \in Modes, g \in BOOLEAN :
          SetMetatable(o, m, g) \/ DebugSetMetatable(o, m, g)
    \/ \E o \in Obj, m \in Modes : ChangeMode(o, m)

-----------------------------------------------------------------------------
(* The collection, from collect_gc's entry to its return. *)

EnterCycle_StaleAux(e) ==
    /\ InProgram /\ (e => "emergency" \in Ops)
    /\ phase' = "mark" /\ emergency' = e
    /\ gray' = {} /\ worklist' = roots
    /\ UNCHANGED <<roots, heapVars, live, aux, weakReg, finVars, closeVars,
                   ghostVars>>

(* enter_cycle repaints every object white and empties the mark sets, then *)
(* all root values are pushed.  gc_running keeps collections from nesting. *)
EnterCycle(e) ==
    /\ \/ InProgram
       \/ InCloseFinalizer /\ "close_collect" \in Ops
       \/ phase = "idle" /\ closing = "broken" /\ ~e
    /\ e => "emergency" \in Ops
    /\ phase' = "mark"
    /\ emergency' = e
    /\ gray' = {} /\ aux' = {}
    /\ worklist' = roots
    /\ UNCHANGED <<roots, heapVars, live, weakReg, finVars, closeVars,
                   ghostVars>>

(* mark_tvalue of a value popped off the worklist. *)
MarkOne(o) ==
    /\ phase \in {"mark", "remark"}
    /\ o \in worklist
    /\ worklist' = (worklist \ {o}) \cup {x \in Children(o) : o \notin aux}
    /\ aux' = aux \cup {o}
    /\ gray' = IF o \in aux \/ o \in Threads \/ o \notin live
                 THEN gray ELSE gray \cup {o}
    /\ UNCHANGED <<roots, heapVars, live, weakReg, finVars, phase, emergency,
                   closeVars, ghostVars>>

(* process_ephemerons: a marked value keeps its key ... *)
PullKey(p) ==
    /\ phase \in {"mark", "remark"}
    /\ worklist = {} /\ p \in EphemeronPairs /\ PullsKey(p)
    /\ gray' = gray \cup ({p[1]} \ Threads)
    /\ worklist' = {p[1]}
    /\ UNCHANGED <<roots, heapVars, live, aux, weakReg, finVars, phase,
                   emergency, closeVars, ghostVars>>

(* ... and a marked key keeps its value. *)
PullValue(p) ==
    /\ phase \in {"mark", "remark"}
    /\ worklist = {} /\ p \in EphemeronPairs /\ PullsValue(p)
    /\ worklist' = {p[2]}
    /\ UNCHANGED <<roots, heapVars, live, gray, aux, weakReg, finVars, phase,
                   emergency, closeVars, ghostVars>>

StartSeparation_NoEphemerons ==
    /\ phase = "mark" /\ worklist = {}
    /\ phase' = "separate"
    /\ UNCHANGED <<roots, heapVars, live, markVars, weakReg, finVars,
                   emergency, closeVars, ghostVars>>

(* collect_finalizers drains finobj_list, then ud_finobj_list. *)
StartSeparation ==
    /\ phase = "mark" /\ Converged
    /\ phase' = "separate"
    /\ UNCHANGED <<roots, heapVars, live, markVars, weakReg, finVars,
                   emergency, closeVars, ghostVars>>

Resurrects_Now(o)  == ~Marked(o) /\ hasGc[o] /\ ~emergency

(* In the emergency mode an unreachable object waits for a later cycle. *)
Postponed(o)  == emergency /\ hasGc[o]
Resurrects(o) == ~Marked(o) /\ hasGc[o]

(* A reachable object stays in the list; an unreachable one without __gc   *)
(* leaves it; one with __gc is pushed for marking and is finalized in this *)
(* cycle, or in a later one if this one is an emergency.                   *)
Separate(i) ==
    /\ phase = "separate" /\ Oldest(finobj, i)
    /\ LET o == finobj[i] IN
         /\ finobj' = Dropped(finobj, i)
         /\ keep' = IF Marked(o) \/ Postponed(o)
                      THEN Append(keep, o) ELSE keep
         /\ tobefnz' = IF ~Marked(o) /\ hasGc[o] /\ ~emergency
                         THEN Append(tobefnz, o) ELSE tobefnz
         /\ worklist' = worklist \cup {x \in {o} : Resurrects(x)}
         /\ IF Marked(o) \/ hasGc[o] THEN UNCHANGED ghostVars ELSE Settle(o)
    /\ UNCHANGED <<roots, heapVars, live, gray, aux, weakReg, running, phase,
                   emergency, closeVars>>

SeparateNext == \E i \in 1..Len(finobj) : Separate(i)

EndSeparation ==
    /\ phase = "separate" /\ finobj = <<>>
    /\ finobj' = keep /\ keep' = <<>>
    /\ phase' = "remark"
    /\ UNCHANGED <<roots, heapVars, live, markVars, weakReg, tobefnz, running,
                   emergency, closeVars, ghostVars>>

Survives_Key(o, p) == "k" \in mode[o] => Marked(p[1])

(* clear_weak_tables drops dead entries, and registrations of freed tables. *)
Survives(o, p) == /\ "k" \in mode[o] => Marked(p[1])
                  /\ "v" \in mode[o] => Marked(p[2])

ClearWeakTables ==
    /\ phase = "remark" /\ Converged
    /\ fields' = [o \in Obj |->
                    IF o \in weakReg /\ "v" \in mode[o]
                      THEN {x \in fields[o] : Marked(x)} ELSE fields[o]]
    /\ pairs' = [o \in Obj |->
                    IF o \in weakReg
                      THEN {p \in pairs[o] : Survives(o, p)} ELSE pairs[o]]
    /\ weakReg' = {o \in weakReg : Held(o)}
    /\ phase' = "finalize"
    /\ UNCHANGED <<roots, mode, hasGc, live, markVars, finVars, emergency,
                   closeVars, ghostVars>>

(* call_finalizers looks __gc up again and runs it with o on the stack ... *)
CallFinalizer ==
    /\ phase = "finalize" /\ running = None /\ tobefnz # <<>>
    /\ LET o == Head(tobefnz) IN
         /\ tobefnz' = Tail(tobefnz)
         /\ IF hasGc[o]
              THEN /\ running' = o
                   /\ roots' = roots \cup {o}
              ELSE UNCHANGED <<running, roots>>
         /\ IF o \in Members(finobj) THEN UNCHANGED ghostVars ELSE Settle(o)
    /\ UNCHANGED <<heapVars, live, markVars, weakReg, finobj, keep, phase,
                   emergency, closeVars>>

(* ... until it returns or raises an error, which only makes a warning.    *)
(* The upvalues the collector writes back then are fields of the closure   *)
(* here.                                                                   *)
FinalizerReturns ==
    /\ phase = "finalize" /\ running # None
    /\ running' = None
    /\ UNCHANGED <<roots, heapVars, live, markVars, weakReg, finobj, keep,
                   tobefnz, phase, emergency, closeVars, ghostVars>>

(* clear_dead_threads and sweep_unreachable: what is still white loses its *)
(* contents, its metatable and its registration (a userdata, gc.rs:902,    *)
(* only the metatable: nothing can read the rest again).                   *)
Sweep ==
    /\ phase = "finalize" /\ running = None /\ tobefnz = <<>>
    /\ LET dead == {o \in live : ~Marked(o)} IN
         /\ live' = live \ dead
         /\ fields' = [o \in Obj |-> IF o \in dead THEN {} ELSE fields[o]]
         /\ pairs' = [o \in Obj |-> IF o \in dead THEN {} ELSE pairs[o]]
         /\ mode' = [o \in Obj |-> IF o \in dead THEN {} ELSE mode[o]]
         /\ hasGc' = [o \in Obj |-> hasGc[o] /\ o \notin dead]
    /\ phase' = "idle"
    /\ emergency' = FALSE
    /\ closing' = IF closing = "broken" THEN "closed" ELSE closing
    /\ UNCHANGED <<roots, markVars, weakReg, finVars, closeQ, closeRun,
                   ghostVars>>

CollectorStep ==
    \/ \E o \in Obj : MarkOne(o)
    \/ \E p \in Val \X Val : PullKey(p) \/ PullValue(p)
    \/ StartSeparation \/ SeparateNext \/ EndSeparation
    \/ ClearWeakTables \/ CallFinalizer \/ Sweep

-----------------------------------------------------------------------------
(* close_state. *)

(* gc_closing is set, then the pending to-be-closed variables are closed. *)
StartClose ==
    /\ "close" \in Ops
    /\ phase = "idle" /\ closing = "open"
    /\ closing' = "tbc"
    /\ UNCHANGED <<roots, heapVars, live, markVars, weakReg, finVars, phase,
                   emergency, closeQ, closeRun, ghostVars>>

DrainFinobj_Tables ==
    /\ phase = "idle" /\ closing = "tbc"
    /\ closing' = "finalizers"
    /\ closeQ' = SelectSeq(finobj, LAMBDA o : o \notin Udata)
    /\ finobj' = <<>>
    /\ UNCHANGED <<roots, heapVars, live, markVars, weakReg, keep, tobefnz,
                   running, phase, emergency, closeRun, ghostVars>>

DrainFinobj_InOrder ==
    /\ phase = "idle" /\ closing = "tbc"
    /\ closing' = "finalizers"
    /\ closeQ' = [i \in 1..Len(finobj) |-> finobj[Len(finobj) + 1 - i]]
    /\ finobj' = <<>>
    /\ UNCHANGED <<roots, heapVars, live, markVars, weakReg, keep, tobefnz,
                   running, phase, emergency, closeRun, ghostVars>>

(* Both lists are drained into a local one. *)
DrainFinobj ==
    /\ phase = "idle" /\ closing = "tbc"
    /\ closing' = "finalizers"
    /\ closeQ' = finobj /\ finobj' = <<>>
    /\ UNCHANGED <<roots, heapVars, live, markVars, weakReg, keep, tobefnz,
                   running, phase, emergency, closeRun, ghostVars>>

Remaining_Called(i) ==
    IF hasGc[closeQ[i]] THEN Dropped(closeQ, i) ELSE closeQ

Remaining(i) == Dropped(closeQ, i)

(* The finalizers run: the tables', latest registration first, and then    *)
(* the userdata's.                                                         *)
CloseCall(i) ==
    /\ phase = "idle" /\ closing = "finalizers"
    /\ closeRun = None /\ Newest(closeQ, i)
    /\ LET o == closeQ[i] IN
         /\ closeQ' = Remaining(i)
         /\ IF hasGc[o]
              THEN /\ closeRun' = o
                   /\ roots' = roots \cup {o}
              ELSE UNCHANGED <<closeRun, roots>>
         /\ Settle(o)
    /\ UNCHANGED <<heapVars, live, markVars, weakReg, finVars, phase,
                   emergency, closing>>

CloseCallFinalizer == \E i \in 1..Len(closeQ) : CloseCall(i)

CloseFinalizerReturns ==
    /\ phase = "idle" /\ closeRun # None
    /\ closeRun' = None
    /\ UNCHANGED <<roots, heapVars, live, markVars, weakReg, finVars, phase,
                   emergency, closing, closeQ, ghostVars>>

(* break_close_refs empties globals and registry; values on the stack stay. *)
BreakRefs ==
    /\ phase = "idle" /\ closing = "finalizers"
    /\ closeQ = <<>> /\ closeRun = None
    /\ closing' = "broken"
    /\ finobj' = <<>>
    /\ roots' \in SUBSET roots
    /\ UNCHANGED <<heapVars, live, markVars, weakReg, keep, tobefnz, running,
                   phase, emergency, closeQ, closeRun, ghostVars>>

CloseStep == DrainFinobj \/ CloseCallFinalizer \/ BreakRefs

(* The state is gone; nothing is left to do. *)
Closed == closing = "closed" /\ UNCHANGED vars

-----------------------------------------------------------------------------
Enter == \E e \in BOOLEAN : EnterCycle(e)
FinalizerEnds == FinalizerReturns \/ CloseFinalizerReturns

Next == \/ Mutator \/ Enter \/ CollectorStep
        \/ StartClose \/ CloseStep \/ FinalizerEnds \/ Closed

Spec == Init /\ [][Next]_vars

(* The collector and close_state are straight-line code of the one running *)
(* thread: once entered they go on, and so does a finalizer that returns.  *)
FairSpec == /\ Spec
            /\ WF_vars(CollectorStep) /\ WF_vars(FinalizerEnds)
            /\ WF_vars(CloseStep \/ (closing = "broken" /\ Enter))

-----------------------------------------------------------------------------
(* Type correctness of the state. *)
TypeOK ==
    /\ roots \subseteq Obj /\ live \subseteq Obj
    /\ fields \in [Obj -> SUBSET Obj]
    /\ pairs \in [Obj -> SUBSET (Val \X Val)]
    /\ mode \in [Obj -> SUBSET {"k", "v"}]
    /\ hasGc \in [Obj -> BOOLEAN]
    /\ gray \subseteq Obj /\ aux \subseteq Obj /\ worklist \subseteq Obj
    /\ weakReg \subseteq Obj
    /\ finobj \in Seq(Obj) /\ keep \in Seq(Obj) /\ tobefnz \in Seq(Obj)
    /\ running \in Obj \cup {None}
    /\ phase \in {"idle", "mark", "separate", "remark", "finalize"}
    /\ emergency \in BOOLEAN
    /\ closing \in {"open", "tbc", "finalizers", "broken", "closed"}
    /\ closeQ \in Seq(Obj) /\ closeRun \in Obj \cup {None}
    /\ owed \subseteq Obj /\ earlier \subseteq Obj \X Obj

(* The objects a program can get at from the root values, weak entries     *)
(* included: the least set that holds the roots and what can be read out   *)
(* of its members.                                                         *)
Accessible == {x \in Obj : \A S \in SUBSET Obj :
                 (roots \subseteq S /\ \A o \in S : Refs(o) \subseteq S)
                    => x \in S}

(* No program ever gets hold of an object a sweep has emptied, however its *)
(* collections, weak tables, finalizers and close interleave: gc.rs sweeps *)
(* by colour alone.                                                        *)
AccessibleIntact == LuaRuns => Accessible \subseteq live

(* When the sweep decides by colour, everything accessible is marked: what *)
(* the comment on sweep_unreachable (gc.rs:861) relies on.                 *)
MarkedBeforeSweep ==
    phase = "finalize" /\ tobefnz = <<>> /\ running = None =>
        \A o \in Accessible : Marked(o)

(* Where an object waits for its finalizer. *)
Listed == Members(finobj) \cup Members(keep) \cup Members(tobefnz)
            \cup Members(closeQ)

(* An object marked for finalization stays intact, and in one of the lists *)
(* that lead to its finalizer, until that is called: through resurrection, *)
(* emergency collections, re-marking by finalizers and close_state.        *)
FinalizerNotLost == owed \subseteq live \cap Listed

(* A closed state owes no finalizer. *)
ClosedOwesNothing == closing = "closed" => owed = {}

(* A set closed under what keeps objects alive by the manual (2.5.4): a    *)
(* weak key or value keeps nothing, and the value of an ephemeron pair is  *)
(* kept only if its key is.                                                *)
ManualClosed(S) ==
    \A o \in S :
       /\ "v" \in mode[o] \/ fields[o] \subseteq S
       /\ \A p \in pairs[o] :
            /\ "k" \in mode[o] \/ p[1] \in S \cup {Plain}
            /\ "v" \in mode[o] \/ p[1] \notin S \cup {Plain}
                               \/ p[2] \in S \cup {Plain}

(* process_ephemerons keeps more: in the registered ephemeron tables, kept *)
(* or not, a value keeps its key too.                                      *)
CodeClosed(S) ==
    /\ ManualClosed(S)
    /\ \A p \in EphemeronPairs :
         /\ p[1] \in S \cup {Plain} => p[2] \in S \cup {Plain}
         /\ p[2] \in S \ Threads => p[1] \in S \cup {Plain}

(* What a collection must keep besides the roots: the objects a finalizer  *)
(* is still to see.                                                        *)
Resurrected == Members(tobefnz)
                  \cup {o \in Members(finobj) : emergency /\ hasGc[o]}

Retained == {x \in Obj : \A S \in SUBSET Obj :
               roots \cup Resurrected \subseteq S /\ CodeClosed(S) => x \in S}
Strong   == {x \in Obj : \A S \in SUBSET Obj :
               roots \subseteq S /\ CodeClosed(S) => x \in S}
ByManual == {x \in Obj : \A S \in SUBSET Obj :
               (roots \cup Resurrected \subseteq S /\ ManualClosed(S))
                  => x \in S}

(* When weak tables are cleared and the rest is swept, exactly the objects *)
(* of Retained are marked: the worklist, the ephemeron loop, resurrection  *)
(* and the two mark sets miss nothing and keep no other garbage.           *)
MarksExact ==
    [][ClearWeakTables => {o \in live : Marked(o)} = Retained]_vars

(* A collection finalizes an object only if the roots do not keep it, and  *)
(* outside emergencies it finalizes all such objects.                      *)
SeparationExact ==
    [][EndSeparation =>
         /\ Members(tobefnz) \cap Strong = {}
         /\ \A o \in Members(keep) : ~emergency => o \in Strong]_vars

(* A finalizer is called only for an object that is marked for it: never   *)
(* twice for one mark, by a cycle, a later cycle and close_state together. *)
FinalizerOncePerMark ==
    [][/\ running' \notin {running, None} => running' \in owed
       /\ closeRun' \notin {closeRun, None} => closeRun' \in owed]_vars

(* close_state calls the finalizers of the tables latest mark first, then  *)
(* those of the userdata latest mark first.                                *)
CloseInReverseOrder ==
    [][closeRun' \notin {closeRun, None} =>
         \A o \in owed \ {closeRun'} :
            IF SameKind(o, closeRun') THEN <<o, closeRun'>> \in earlier
                                      ELSE o \in Udata]_vars

(* A collection calls its finalizers latest mark first (manual 2.5.3). *)
CycleInReverseOrder ==
    [][running' \notin {running, None} =>
         \A o \in Members(tobefnz) \ {running'} :
            <<o, running'>> \in earlier]_vars

(* Objects about to be finalized are no longer in weak values (2.5.4). *)
FinalizedNotInWeakValues ==
    [][ClearWeakTables =>
         \A t \in Strong : "v" \in mode[t] =>
            {p[2] : p \in pairs'[t]} \cap Members(tobefnz) = {}]_vars

(* An ephemeron pair whose key only its own value leads to goes (2.5.4). *)
EphemeronKeysDie ==
    [][ClearWeakTables =>
         \A t \in ByManual : mode[t] = {"k"} =>
            \A p \in pairs'[t] : p[1] \in ByManual \cup {Plain}]_vars

(* The heap as Heap has it: the contents of what the program, or a         *)
(* finalizer still to run, can get at.                                     *)
Kept == LET start == roots \cup Listed
        IN {x \in Obj : \A S \in SUBSET Obj :
              start \subseteq S /\ (\A o \in S : Refs(o) \subseteq S) => x \in S}
Nothing == [fields |-> {}, pairs |-> {}, mode |-> {}, hasGc |-> FALSE]
Contents(o) == [fields |-> fields[o], pairs |-> pairs[o],
                mode |-> mode[o], hasGc |-> hasGc[o]]
Visible == LET kept == Kept
           IN [o \in Obj |-> IF o \in kept THEN Contents(o) ELSE Nothing]
Store == INSTANCE Heap WITH
    heap <- Visible,
    marked <- Members(finobj) \cup Members(keep),
    due <- Members(tobefnz) \cup Members(closeQ),
    closing <- closing # "open"

(* The collector implements Heap: whatever it marks, clears, resurrects and *)
(* sweeps between the program's steps, a program only ever sees entries of  *)
(* weak tables go, and finalizers run, for what nothing holds strongly.     *)
HeapSpec == Store!Spec

(* Every collection ends, if its finalizers return: marking exhausts the   *)
(* worklist and the ephemeron loop converges.                              *)
CollectionEnds == phase # "idle" ~> phase = "idle"

(* close_state gets through its finalizers and its last collection. *)
CloseEnds == closing = "finalizers" ~> closing = "closed"
=============================================================================

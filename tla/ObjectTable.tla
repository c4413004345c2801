---------------------------- MODULE ObjectTable ----------------------------
(* The memory behind the collector's objects: reference-counted blocks (MyRc *)
(* and WeakRc of src_rs/alloc.rs), the table of ids through which the        *)
(* collector knows them (src_rs/gc.rs), the allocation funnel that collects  *)
(* and tries again when memory runs out (src_rs/mem.rs), and the queue of    *)
(* values whose drop is put off (src_rs/state.rs).                           *)
(*                                                                           *)
(* An object has one field, enough for chains and cycles.  Weak tables and   *)
(* finalizers are the matter of module Gc, which takes for granted what is   *)
(* looked at here: that an id means one object, that a block is not touched  *)
(* after it is freed, and that an object under construction survives the     *)
(* collection its own allocation triggers.                                   *)
EXTENDS Integers, Sequences, FiniteSets, SequencesExt

CONSTANTS Blocks,       \* addresses; a freed one is handed out again
          Slots,        \* registers of the stack, the roots
          Nil, NoId, NoMeta,
          MaxId,        \* bound on next_id
          MaxQueue,     \* DROP_QUEUE_LIMIT, and the bound on the queue
          Habits        \* "reserve_after": register, then allocate again
                        \* before the object is on the stack (create_table)

ASSUME ObjectConstants ==
    /\ Nil \notin Blocks
    /\ MaxId \in Nat /\ MaxId >= Cardinality(Blocks)
    /\ NoId \notin 1..MaxId
    /\ NoMeta \notin [of : Blocks, white : BOOLEAN]
    /\ IsFiniteSet(Blocks) /\ IsFiniteSet(Slots)
    /\ MaxQueue \in Nat \ {0}

VARIABLES state,    \* [Blocks -> {"free", "alive", "dropped"}]
          strong, weak,     \* [Blocks -> Int]: RcHeader
          header,   \* [Blocks -> 1..MaxId \cup {NoId}]: gc_header
          field,    \* [Blocks -> Blocks \cup {Nil}]
          metas,    \* [1..MaxId -> [of, white] \cup {NoMeta}]
          nextId, freeIds, allObjects,
          stack,    \* [Slots -> Blocks \cup {Nil}]
          queue,    \* drop_queue
          local,    \* the object under construction: a Rust local
          drops,    \* the drops being carried out: <<[kind, b], ...>>
          pc, tries, ret,   \* position, attempts, where a collection returns
          gray, aux,        \* worklist and aux_marked
          left      \* ids the sweep still has to look at

memory == <<state, strong, weak, header, field>>
table == <<metas, nextId, freeIds, allObjects>>
program == <<stack, queue, local>>
control == <<pc, tries, ret>>
marks == <<gray, aux, left>>
vars == <<memory, table, program, drops, control, marks>>

Ids == 1..MaxId
Pending == [kind : {"strong", "weak"}, b : Blocks]
Strong(b) == [kind |-> "strong", b |-> b]
Weak(b) == [kind |-> "weak", b |-> b]
Drop(b) == IF b = Nil THEN <<>> ELSE <<Strong(b)>>
DropWeak(b) == <<Weak(b)>>
Count_Never(f, b) == f
Count(f, b) == IF b = Nil THEN f ELSE [f EXCEPT ![b] = @ + 1]

Quiet == drops = <<>>

-----------------------------------------------------------------------------
(* MyRc::drop and WeakRc::drop.                                              *)

(* The last handle drops the payload, that is the handle in its field, and   *)
(* then gives up the weak share all handles hold together.                   *)
DropHandle ==
    /\ drops # <<>> /\ Head(drops).kind = "strong"
    /\ LET b == Head(drops).b IN
        /\ strong' = [strong EXCEPT ![b] = @ - 1]
        /\ IF strong[b] = 1
             THEN /\ state' = [state EXCEPT ![b] = "dropped"]
                  /\ field' = [field EXCEPT ![b] = Nil]
                  /\ drops' = Drop(field[b]) \o DropWeak(b) \o Tail(drops)
             ELSE /\ drops' = Tail(drops)
                  /\ UNCHANGED <<state, field>>
    /\ UNCHANGED <<weak, header, table, program, control, marks>>

DropWeakHandle ==
    /\ drops # <<>> /\ Head(drops).kind = "weak"
    /\ LET b == Head(drops).b IN
        /\ weak' = [weak EXCEPT ![b] = @ - 1]
        /\ IF weak[b] = 1
             THEN /\ state' = [state EXCEPT ![b] = "free"]
                  /\ header' = [header EXCEPT ![b] = NoId]
             ELSE UNCHANGED <<state, header>>
    /\ drops' = Tail(drops)
    /\ UNCHANGED <<strong, field, table, program, control, marks>>

-----------------------------------------------------------------------------
(* The program's stores.                                                     *)

Running == pc = "run" /\ Quiet

(* What a register loses goes to the drop queue (push_drop, fast_unsafe      *)
(* builds) or is dropped at once.                                            *)
Overwrite_Twice(s, b) ==
    /\ stack' = [stack EXCEPT ![s] = b]
    /\ drops' = Drop(stack[s])
    /\ queue' = IF stack[s] # Nil /\ Len(queue) < MaxQueue
                THEN Append(queue, stack[s]) ELSE queue
Overwrite(s, b) ==
    /\ stack' = [stack EXCEPT ![s] = b]
    /\ \/ /\ stack[s] # Nil /\ Len(queue) < MaxQueue
          /\ queue' = Append(queue, stack[s])
          /\ UNCHANGED drops
       \/ drops' = Drop(stack[s]) /\ UNCHANGED queue

Write(s, b) ==
    /\ Running
    /\ Overwrite(s, b)
    /\ strong' = Count(strong, b)
    /\ UNCHANGED <<state, weak, header, field, table, local, control, marks>>

Move(s, from) == s # from /\ Write(s, stack[from])
LoadField(s, from) == stack[from] # Nil /\ Write(s, field[stack[from]])
LoadNil(s) == stack[s] # Nil /\ Write(s, Nil)

SetField(s, from) ==
    /\ Running
    /\ stack[s] # Nil
    /\ field' = [field EXCEPT ![stack[s]] = stack[from]]
    /\ strong' = Count(strong, stack[from])
    /\ drops' = Drop(field[stack[s]])
    /\ UNCHANGED <<state, weak, header, table, program, control, marks>>

(* drain_drop_queue, at frame boundaries when the queue is full.             *)
Drops(q) == [i \in DOMAIN q |-> Strong(q[i])]

DrainIfFull ==
    /\ Running
    /\ Len(queue) >= MaxQueue
    /\ drops' = Drops(queue)
    /\ queue' = <<>>
    /\ UNCHANGED <<memory, table, stack, local, control, marks>>

-----------------------------------------------------------------------------
(* The allocation funnel.                                                    *)

Advance(to) == pc' = to /\ tries' = 0 /\ UNCHANGED ret

StartCollection_Undrained(from) ==
    /\ pc' = "drain" /\ ret' = from
    /\ UNCHANGED <<drops, queue>>
StartCollection(from) ==
    /\ pc' = "drain"
    /\ ret' = from
    /\ drops' = Drops(queue)
    /\ queue' = <<>>

NewObject ==
    /\ Running
    /\ Advance("allocate")
    /\ UNCHANGED <<memory, table, program, drops, marks>>

(* MyRc::try_new_in.                                                         *)
Allocate ==
    /\ pc = "allocate" /\ Quiet
    /\ \E b \in Blocks :
        /\ state[b] = "free"
        /\ state' = [state EXCEPT ![b] = "alive"]
        /\ strong' = [strong EXCEPT ![b] = 1]
        /\ weak' = [weak EXCEPT ![b] = 1]
        /\ header' = [header EXCEPT ![b] = NoId]
        /\ field' = [field EXCEPT ![b] = Nil]
        /\ local' = b
    /\ Advance("fill")
    /\ UNCHANGED <<table, stack, queue, drops, marks>>

(* A library may fill the object before it is registered (table.pack).       *)
Fill ==
    /\ pc = "fill" /\ Quiet
    /\ \E s \in Slots :
        /\ field' = [field EXCEPT ![local] = stack[s]]
        /\ strong' = Count(strong, stack[s])
    /\ Advance("register")
    /\ UNCHANGED <<state, weak, header, table, program, drops, marks>>

(* try_register_object: the id freed last is used again.                     *)
NewId == IF freeIds # <<>> THEN Last(freeIds) ELSE nextId
IdsLeft_Peek == freeIds
IdsLeft == IF freeIds # <<>> THEN Front(freeIds) ELSE freeIds

Register ==
    /\ pc = "register" /\ Quiet
    /\ header[local] = NoId
    /\ NewId \in Ids
    /\ header' = [header EXCEPT ![local] = NewId]
    /\ weak' = [weak EXCEPT ![local] = @ + 1]
    /\ metas' = [metas EXCEPT ![NewId] = [of |-> local, white |-> TRUE]]
    /\ nextId' = IF freeIds = <<>> THEN nextId + 1 ELSE nextId
    /\ freeIds' = IdsLeft
    /\ allObjects' = allObjects \cup {NewId}
    /\ Advance("place")
    /\ UNCHANGED <<state, strong, field, program, drops, marks>>

Place(s) ==
    /\ pc = "place" /\ Quiet
    /\ Overwrite(s, local)
    /\ local' = Nil
    /\ Advance("run")
    /\ UNCHANGED <<memory, table, marks>>

(* retry_alloc: a step that finds no memory collects and is tried once more; *)
(* then it is a memory error, and the object under construction is dropped.  *)
Fallible_Late == pc \in {"allocate", "fill", "register", "place"}
Fallible ==
    \/ pc \in {"allocate", "fill", "register"}
    \/ pc = "place" /\ "reserve_after" \in Habits
MayRetry == tries = 0

EmergencyGc ==
    /\ Fallible /\ Quiet
    /\ MayRetry
    /\ StartCollection(pc)
    /\ tries' = 1
    /\ UNCHANGED <<memory, table, stack, local, marks>>

MemoryError ==
    /\ Fallible /\ Quiet
    /\ ~MayRetry
    /\ drops' = Drop(local)
    /\ local' = Nil
    /\ Advance("run")
    /\ UNCHANGED <<memory, table, stack, queue, marks>>

-----------------------------------------------------------------------------
(* A collection, as far as ids and blocks are concerned.                     *)

CollectGc ==
    /\ Running
    /\ StartCollection("run")
    /\ UNCHANGED <<memory, table, stack, local, tries, marks>>

Return == pc' = ret /\ ret' = "run" /\ UNCHANGED tries

(* The queues of the collector cannot be reserved: no collection.            *)
SkipCollection ==
    /\ pc = "drain" /\ Quiet
    /\ Return
    /\ UNCHANGED <<memory, table, program, drops, marks>>

Roots == {stack[s] : s \in Slots} \ {Nil}

Paint(S, isWhite) ==
    metas' = [i \in Ids |-> IF i \in S /\ metas[i] # NoMeta
                            THEN [metas[i] EXCEPT !.white = isWhite]
                            ELSE metas[i]]

EnterCycle ==
    /\ pc = "drain" /\ Quiet
    /\ Paint(allObjects, TRUE)
    /\ gray' = Roots
    /\ aux' = {}
    /\ pc' = "mark"
    /\ UNCHANGED <<memory, nextId, freeIds, allObjects, program, drops, tries, ret, left>>

(* mark_tvalue: seen by address, coloured by id.                             *)
Mark(b) ==
    /\ pc = "mark"
    /\ b \in gray
    /\ aux' = aux \cup {b}
    /\ gray' = (gray \cup ({field[b]} \ {Nil})) \ aux'
    /\ Paint({header[b]}, FALSE)
    /\ UNCHANGED <<memory, nextId, freeIds, allObjects, program, drops, control, left>>

StartSweep ==
    /\ pc = "mark"
    /\ gray = {}
    /\ pc' = "sweep"
    /\ left' = allObjects
    /\ UNCHANGED <<memory, table, program, drops, tries, ret, gray, aux>>

Dead(i) == metas[i] # NoMeta /\ metas[i].white

(* An id may be lost when free_ids cannot grow.                              *)
FreeId(i) ==
    \/ freeIds' = Append(freeIds, i)
    \/ /\ nextId - 1 - Len(freeIds) - Cardinality(allObjects) < MaxId - Cardinality(Blocks)
       /\ UNCHANGED freeIds

(* A dead object that still has handles is held while it is emptied.         *)
SweepDead(i) ==
    /\ pc = "sweep" /\ Quiet
    /\ i \in left /\ Dead(i)
    /\ LET b == metas[i].of IN
        IF strong[b] > 0
          THEN /\ strong' = Count(strong, b)
               /\ field' = [field EXCEPT ![b] = Nil]
               /\ drops' = Drop(field[b]) \o Drop(b) \o DropWeak(b)
          ELSE /\ drops' = DropWeak(b)
               /\ UNCHANGED <<strong, field>>
    /\ metas' = [metas EXCEPT ![i] = NoMeta]
    /\ FreeId(i)
    /\ allObjects' = allObjects \ {i}
    /\ left' = left \ {i}
    /\ UNCHANGED <<state, weak, header, nextId, program, control, gray, aux>>

SweepAlive(i) ==
    /\ pc = "sweep" /\ Quiet
    /\ i \in left /\ ~Dead(i)
    /\ left' = left \ {i}
    /\ UNCHANGED <<memory, table, program, drops, control, gray, aux>>

EndSweep ==
    /\ pc = "sweep" /\ Quiet
    /\ left = {}
    /\ Return
    /\ aux' = {}       \* the next cycle clears it; nothing reads it before
    /\ UNCHANGED <<memory, table, program, drops, gray, left>>

-----------------------------------------------------------------------------
Init ==
    /\ state = [b \in Blocks |-> "free"]
    /\ strong = [b \in Blocks |-> 0] /\ weak = [b \in Blocks |-> 0]
    /\ header = [b \in Blocks |-> NoId]
    /\ field = [b \in Blocks |-> Nil]
    /\ metas = [i \in Ids |-> NoMeta]
    /\ nextId = 1 /\ freeIds = <<>> /\ allObjects = {}
    /\ stack = [s \in Slots |-> Nil]
    /\ queue = <<>> /\ local = Nil /\ drops = <<>>
    /\ pc = "run" /\ tries = 0 /\ ret = "run"
    /\ gray = {} /\ aux = {} /\ left = {}

Continue ==
    \/ DropHandle \/ DropWeakHandle
    \/ Allocate \/ Fill \/ Register \/ (\E s \in Slots : Place(s))
    \/ EmergencyGc \/ MemoryError
    \/ SkipCollection \/ EnterCycle
    \/ \E b \in Blocks : Mark(b)
    \/ StartSweep \/ EndSweep
    \/ \E i \in Ids : SweepDead(i) \/ SweepAlive(i)

Program ==
    \/ \E s, from \in Slots : Move(s, from) \/ LoadField(s, from) \/ SetField(s, from)
    \/ \E s \in Slots : LoadNil(s)
    \/ DrainIfFull \/ NewObject \/ CollectGc

Next == Continue \/ Program

Spec == Init /\ [][Next]_vars

-----------------------------------------------------------------------------
TypeOK ==
    /\ state \in [Blocks -> {"free", "alive", "dropped"}]
    /\ strong \in [Blocks -> Nat] /\ weak \in [Blocks -> Nat]
    /\ header \in [Blocks -> Ids \cup {NoId}]
    /\ field \in [Blocks -> Blocks \cup {Nil}]
    /\ metas \in [Ids -> [of : Blocks, white : BOOLEAN] \cup {NoMeta}]
    /\ nextId \in 1..(MaxId + 1)
    /\ freeIds \in Seq(Ids) /\ allObjects \subseteq Ids
    /\ stack \in [Slots -> Blocks \cup {Nil}]
    /\ queue \in Seq(Blocks) /\ Len(queue) <= MaxQueue
    /\ local \in Blocks \cup {Nil}
    /\ drops \in Seq(Pending)
    /\ pc \in {"run", "allocate", "fill", "register", "place",
               "drain", "mark", "sweep"}
    /\ tries \in {0, 1}
    /\ ret \in {"run", "allocate", "fill", "register", "place"}
    /\ gray \subseteq Blocks /\ aux \subseteq Blocks /\ left \subseteq Ids

(* How often a value occurs in a function or a sequence.                     *)
Places(f, v) == Cardinality({x \in DOMAIN f : f[x] = v})

(* The block an id leads to.                                                 *)
Of == [i \in Ids |-> IF metas[i] = NoMeta THEN Nil ELSE metas[i].of]

(* The counts are exact at every step, in the middle of a cascade of drops   *)
(* and of a sweep too: the strong count is the number of handles in          *)
(* registers, fields, the drop queue, Rust locals and pending drops; the     *)
(* weak count that of ids, and one for all the strong handles.  So a block   *)
(* is freed exactly once, after its last handle, and never leaks.            *)
CountsExact ==
    \A b \in Blocks :
        /\ strong[b] = Places(stack, b) + Places(field, b) + Places(queue, b)
                       + (IF local = b THEN 1 ELSE 0)
                       + Places(drops, Strong(b))
        /\ weak[b] = Places(Of, b)
                     + Places(drops, Weak(b))
                     + (IF state[b] = "alive" THEN 1 ELSE 0)
        /\ (state[b] = "alive") = (strong[b] > 0)
        /\ (state[b] = "free") = (weak[b] = 0)

(* What can be reached from a set of blocks through fields.                  *)
Reach(S, f) ==
    {b \in Blocks : \A R \in SUBSET Blocks :
        S \subseteq R /\ (\A c \in R : f[c] # Nil => f[c] \in R) => b \in R}

(* What the program can get at, and native code with the object it builds.   *)
Held == Roots \cup ({local} \ {Nil})
Accessible == Reach(Held, field)

(* An id means one object: every registered object the program can get at is *)
(* the one its id leads to, although ids and blocks are used again, and ids  *)
(* that are free lead nowhere.                                               *)
IdsUnique ==
    /\ \A b \in Accessible :
         header[b] # NoId => metas[header[b]] # NoMeta /\ metas[header[b]].of = b
    /\ \A i \in Ids : (metas[i] # NoMeta) = (i \in allObjects)
    /\ \A i \in ToSet(freeIds) : i \notin allObjects /\ i < nextId
    /\ IsInjective(freeIds)

(* A sweep empties nothing that is accessible, the object under construction *)
(* whose allocation started the collection included.                         *)
SweepSparesAccessible ==
    [][pc = "sweep" => \A b \in Accessible : field'[b] = field[b]]_vars

(* A collection leaves no garbage behind: cycles are broken, what waited in  *)
(* the drop queue is gone, and what remains is accessible.                   *)
CollectionReclaims ==
    [][pc = "sweep" /\ pc' # "sweep" =>
         \A b \in Blocks : state[b] # "free" => b \in Accessible]_vars
=============================================================================

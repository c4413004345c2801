-------------------------- MODULE ObjectIdProofs --------------------------
(* What a collection may and must reclaim, for libraries that put an object  *)
(* on the stack before they allocate again.                                  *)
EXTENDS ObjectProofs

Collecting == pc \in {"drain", "mark", "sweep"}

(* Whatever can be got at has an id that leads to it, but for the object     *)
(* under construction, and that one is only in its Rust local.               *)
NamesInv ==
    /\ \A b \in Accessible :
         /\ header[b] # NoId =>
              metas[header[b]] # NoMeta /\ metas[header[b]].of = b
         /\ header[b] = NoId => b = local /\ At \in {"fill", "register"}
    /\ At \in {"fill", "register"} => header[local] = NoId /\ strong[local] = 1
    /\ At = "register" => field[local] \in Roots \cup {Nil}
    /\ Collecting => At # "place" /\ queue = <<>>

(* Marking follows the fields, and colours by id what it has seen.           *)
MarkInv ==
    /\ pc # "mark" => gray = {}
    /\ pc = "mark" => drops = <<>>
    /\ pc \in {"mark", "sweep"} =>
         /\ Roots \subseteq aux \cup gray
         /\ \A b \in aux : field[b] \in aux \cup gray \cup {Nil}
         /\ aux \cup gray \subseteq Accessible
         /\ \A i \in Ids : metas[i] # NoMeta =>
              (~metas[i].white <=> metas[i].of \in aux)

(* What the sweep has passed over was marked.                                *)
SweepInv ==
    pc = "sweep" => \A i \in allObjects \ left : ~metas[i].white

(* An object without an id is under construction, emptied, or on its way     *)
(* out with its last handle.                                                 *)
NamelessInv ==
    \A b \in Blocks :
        state[b] = "alive" /\ (\A i \in Ids : Of[i] # b) =>
            \/ b = local /\ At \in {"fill", "register"}
            \/ field[b] = Nil
            \/ strong[b] = 1 /\ Places(drops, Strong(b)) = 1

GInv == NamesInv /\ MarkInv /\ SweepInv /\ NamelessInv

-----------------------------------------------------------------------------
(* What can be reached.                                                      *)

LEMMA ReachLeast ==
  ASSUME NEW S, NEW f, NEW R \in SUBSET Blocks, S \subseteq R,
         \A c \in R : f[c] # Nil => f[c] \in R
  PROVE  Reach(S, f) \subseteq R
  BY DEF Reach

LEMMA ReachClosed ==
  ASSUME NEW S, NEW f, S \subseteq Blocks
  PROVE  /\ Reach(S, f) \subseteq Blocks /\ S \subseteq Reach(S, f)
         /\ \A c \in Reach(S, f) : f[c] # Nil /\ f[c] \in Blocks => f[c] \in Reach(S, f)
  BY DEF Reach

(* What can be reached is held, or in a field of something that can.         *)
LEMMA ReachWhy ==
  ASSUME NEW S, NEW f, S \subseteq Blocks, NEW b \in Reach(S, f),
         \A c \in Blocks : f[c] \in Blocks \cup {Nil}
  PROVE  b \in S \/ \E c \in Reach(S, f) : f[c] = b
  <1> SUFFICES ASSUME b \notin S, \A c \in Reach(S, f) : f[c] # b
               PROVE  FALSE
    OBVIOUS
  <1> DEFINE A == Reach(S, f)
             R == A \ {b}
  <1>1. /\ A \subseteq Blocks /\ S \subseteq A
        /\ \A c \in A : f[c] # Nil /\ f[c] \in Blocks => f[c] \in A
    BY ReachClosed
  <1> HIDE DEF A
  <1>2. R \in SUBSET Blocks /\ S \subseteq R
    BY <1>1
  <1>3. \A c \in R : f[c] # Nil => f[c] \in R
    BY <1>1 DEF A
  <1> HIDE DEF R
  <1>4. Reach(S, f) \subseteq R
    BY <1>2, <1>3, ReachLeast
  <1> QED
    BY <1>4 DEF R

LEMMA HeldBlocks ==
  ASSUME TypeOK
  PROVE  /\ Held \subseteq Blocks /\ Accessible \subseteq Blocks /\ Held \subseteq Accessible
         /\ \A c \in Accessible : field[c] # Nil => field[c] \in Accessible
         /\ \A b \in Accessible : b \in Held \/ \E c \in Accessible : field[c] = b
         /\ Roots \subseteq Accessible /\ (local # Nil => local \in Accessible)
  <1>1. Held \subseteq Blocks /\ Roots \subseteq Held /\ (local # Nil => local \in Held)
    BY DEF Held, Roots, TypeOK
  <1>2. \A c \in Blocks : field[c] \in Blocks \cup {Nil}
    BY DEF TypeOK
  <1>3. /\ Accessible \subseteq Blocks /\ Held \subseteq Accessible
        /\ \A c \in Accessible : field[c] # Nil /\ field[c] \in Blocks => field[c] \in Accessible
    BY <1>1, ReachClosed DEF Accessible
  <1>4. \A b \in Accessible : b \in Held \/ \E c \in Accessible : field[c] = b
    BY <1>1, <1>2, ReachWhy DEF Accessible
  <1> QED
    BY <1>1, <1>2, <1>3, <1>4

(* What can be got at has a handle somewhere that is not pending.            *)
LEMMA AccessibleCounts ==
  ASSUME TypeOK, CountsExact, NEW b \in Accessible
  PROVE  /\ b \in Blocks /\ strong[b] > 0 /\ state[b] = "alive"
         /\ strong[b] > Places(drops, Strong(b))
  <1>1. b \in Blocks
    BY HeldBlocks
  <1>2. b \in Held \/ \E c \in Blocks : field[c] = b
    BY HeldBlocks
  <1>3. \/ Places(stack, b) > 0
        \/ local = b
        \/ Places(field, b) > 0
    BY <1>1, <1>2, CountFacts DEF Held, Roots
  <1>4. /\ Places(stack, b) \in Nat /\ Places(field, b) \in Nat
        /\ Places(queue, b) \in Nat /\ Places(drops, Strong(b)) \in Nat
        /\ strong[b] = Places(stack, b) + Places(field, b) + Places(queue, b)
                       + (IF local = b THEN 1 ELSE 0) + Places(drops, Strong(b))
    BY <1>1, CountFacts
  <1>5. strong[b] > 0 /\ strong[b] > Places(drops, Strong(b))
    BY <1>3, <1>4
  <1>6. state[b] = "alive"
    BY <1>1, <1>5 DEF CountsExact
  <1> QED
    BY <1>1, <1>5, <1>6

(* The object under construction is nowhere else.                            *)
LEMMA LocalAlone ==
  ASSUME TypeOK, CountsExact, local # Nil, strong[local] = 1
  PROVE  /\ local \in Blocks
         /\ \A s \in Slots : stack[s] # local
         /\ \A c \in Blocks : field[c] # local
         /\ Places(drops, Strong(local)) = 0
  <1>1. local \in Blocks
    BY DEF TypeOK
  <1> DEFINE b == local
  <1> HIDE DEF b
  <1>2. /\ Places(stack, b) \in Nat /\ Places(field, b) \in Nat
        /\ Places(queue, b) \in Nat /\ Places(drops, Strong(b)) \in Nat
        /\ strong[b] = Places(stack, b) + Places(field, b) + Places(queue, b)
                       + (IF local = b THEN 1 ELSE 0) + Places(drops, Strong(b))
        /\ strong[b] = 1 /\ local = b
    BY <1>1, CountFacts DEF b
  <1>3. Places(stack, b) = 0 /\ Places(field, b) = 0 /\ Places(drops, Strong(b)) = 0
    <2>1. \A k, l, m, n \in Nat : 1 = k + l + m + 1 + n => k = 0 /\ l = 0 /\ n = 0
      OBVIOUS
    <2>2. /\ Places(stack, b) \in Nat /\ Places(field, b) \in Nat
          /\ Places(queue, b) \in Nat /\ Places(drops, Strong(b)) \in Nat
          /\ 1 = Places(stack, b) + Places(field, b) + Places(queue, b) + 1
                 + Places(drops, Strong(b))
      BY <1>2
    <2> QED
      BY <2>1, <2>2, Zenon
  <1> QED
    BY <1>1, <1>3, CountFacts DEF b

-----------------------------------------------------------------------------
(* How a step changes what can be got at.                                    *)

LEMMA Shrinks ==
  ASSUME TypeOK, Held' \subseteq Accessible,
         \A c \in Accessible : field'[c] # Nil => field'[c] \in Accessible
  PROVE  Accessible' \subseteq Accessible
  <1> DEFINE A == Accessible
  <1>1. A \subseteq Blocks
    BY HeldBlocks
  <1> HIDE DEF A
  <1>2. /\ A \in SUBSET Blocks /\ Held' \subseteq A
        /\ \A c \in A : field'[c] # Nil => field'[c] \in A
    BY <1>1 DEF A
  <1>3. Reach(Held', field') \subseteq A
    BY <1>2, ReachLeast
  <1>4. Accessible' = Reach(Held', field')
    BY DEF Accessible
  <1> QED
    BY <1>3, <1>4 DEF A

LEMMA SameAccessible ==
  ASSUME UNCHANGED <<stack, local, field>>
  PROVE  Accessible' = Accessible /\ Roots' = Roots
  BY DEF Accessible, Held, Roots

LEMMA FieldCut ==
  ASSUME TypeOK, UNCHANGED <<stack, local>>, NEW b \in Blocks,
         field' = field \/ field' = [field EXCEPT ![b] = Nil]
  PROVE  Accessible' \subseteq Accessible
  <1>1. Held' \subseteq Accessible
    BY HeldBlocks DEF Held, Roots
  <1>2. \A c \in Accessible : field'[c] # Nil => field'[c] \in Accessible
    BY HeldBlocks DEF TypeOK
  <1> QED
    BY <1>1, <1>2, Shrinks

LEMMA AccessibleShrinks ==
  ASSUME IInv, [Next]_vars, ~Allocate
  PROVE  Accessible' \subseteq Accessible
  <1>1. TypeOK /\ CountsExact /\ LocalInv
    BY DEF IInv
  <1>2. CASE UNCHANGED <<stack, local, field>>
    BY <1>2, SameAccessible
  <1>3. CASE Program \/ \E s \in Slots : Place(s)
    <2>1. ASSUME NEW s \in Slots, NEW b \in Accessible \cup {Nil},
                 stack' = [stack EXCEPT ![s] = b], local' \in {local, Nil}, UNCHANGED field
          PROVE  Accessible' \subseteq Accessible
      <3>1. Held' \subseteq Accessible
        <4>1. \A r \in Slots : stack'[r] = b \/ stack'[r] = stack[r]
          BY <1>1, <2>1 DEF TypeOK
        <4> QED
          BY <1>1, <2>1, <4>1, HeldBlocks DEF Held, Roots
      <3>2. \A c \in Accessible : field'[c] # Nil => field'[c] \in Accessible
        BY <1>1, <2>1, HeldBlocks
      <3> QED
        BY <1>1, <3>1, <3>2, Shrinks
    <2>2. \A s \in Slots : stack[s] \in Accessible \cup {Nil}
      BY <1>1, HeldBlocks DEF Roots
    <2>3. local \in Accessible \cup {Nil}
      BY <1>1, HeldBlocks
    <2>4. ASSUME NEW s \in Slots, NEW from \in Slots, Move(s, from) \/ LoadField(s, from)
          PROVE  Accessible' \subseteq Accessible
      <3>1. PICK b : /\ Write(s, b)
                     /\ b = stack[from] \/ (stack[from] # Nil /\ b = field[stack[from]])
        BY <2>4 DEF Move, LoadField
      <3>2. b \in Accessible \cup {Nil}
        BY <1>1, <2>2, <3>1, HeldBlocks
      <3>3. stack' = [stack EXCEPT ![s] = b] /\ local' = local /\ UNCHANGED field
        BY <3>1 DEF Write, Overwrite
      <3> QED
        BY <2>1, <3>2, <3>3
    <2>5. ASSUME NEW s \in Slots, LoadNil(s)
          PROVE  Accessible' \subseteq Accessible
      <3>1. stack' = [stack EXCEPT ![s] = Nil] /\ local' = local /\ UNCHANGED field
        BY <2>5 DEF LoadNil, Write, Overwrite
      <3> QED
        BY <2>1, <3>1
    <2>6. ASSUME NEW s \in Slots, NEW from \in Slots, SetField(s, from)
          PROVE  Accessible' \subseteq Accessible
      <3>1. /\ field' = [field EXCEPT ![stack[s]] = stack[from]]
            /\ UNCHANGED <<stack, local>> /\ stack[s] # Nil
        BY <2>6 DEF SetField, program
      <3>2. Held' \subseteq Accessible
        BY <1>1, <3>1, HeldBlocks DEF Held, Roots
      <3>3. \A c \in Accessible : field'[c] # Nil => field'[c] \in Accessible
        BY <1>1, <2>2, <3>1, HeldBlocks DEF TypeOK
      <3> QED
        BY <1>1, <3>2, <3>3, Shrinks
    <2>7. ASSUME NEW s \in Slots, Place(s)
          PROVE  Accessible' \subseteq Accessible
      <3>1. stack' = [stack EXCEPT ![s] = local] /\ local' = Nil /\ UNCHANGED field
        BY <2>7 DEF Place, Overwrite, memory
      <3> QED
        BY <2>1, <2>3, <3>1
    <2>8. CASE DrainIfFull \/ NewObject \/ CollectGc
      BY <1>2, <2>8 DEF DrainIfFull, NewObject, CollectGc, memory, program
    <2> QED
      BY <1>3, <2>4, <2>5, <2>6, <2>7, <2>8 DEF Program
  <1>4. CASE Funnel
    <2>1. CASE DropHandle
      <3> DEFINE b == Head(drops).b
      <3>1. b \in Blocks
        BY <1>1, <2>1, PendingHead DEF DropHandle
      <3>2. /\ UNCHANGED <<stack, local>>
            /\ field' = field \/ field' = [field EXCEPT ![b] = Nil]
        BY <2>1 DEF DropHandle, program
      <3> HIDE DEF b
      <3> QED
        BY <1>1, <3>1, <3>2, FieldCut
    <2>2. CASE Fill
      <3>1. PICK s \in Slots : field' = [field EXCEPT ![local] = stack[s]]
        BY <2>2 DEF Fill
      <3>2. UNCHANGED <<stack, local>>
        BY <2>2 DEF Fill, program
      <3>3. Held' \subseteq Accessible
        BY <1>1, <3>2, HeldBlocks DEF Held, Roots
      <3>4. stack[s] \in Accessible \cup {Nil}
        BY <1>1, HeldBlocks DEF Roots
      <3>5. \A c \in Accessible : field'[c] # Nil => field'[c] \in Accessible
        BY <1>1, <3>1, <3>4, HeldBlocks DEF TypeOK
      <3> QED
        BY <1>1, <3>3, <3>5, Shrinks
    <2>3. CASE MemoryError
      <3>1. Held' \subseteq Accessible
        BY <1>1, <2>3, HeldBlocks DEF MemoryError, Held, Roots
      <3>2. \A c \in Accessible : field'[c] # Nil => field'[c] \in Accessible
        BY <1>1, <2>3, HeldBlocks DEF MemoryError, memory
      <3> QED
        BY <1>1, <3>1, <3>2, Shrinks
    <2> QED
      BY <1>2, <1>4, <2>1, <2>2, <2>3
         DEF Funnel, DropWeakHandle, Register, EmergencyGc, memory, program
  <1>5. CASE Collect
    <2>1. ASSUME NEW i \in Ids, SweepDead(i)
          PROVE  Accessible' \subseteq Accessible
      <3> DEFINE b == metas[i].of
      <3>1. b \in Blocks
        BY <1>1, <2>1 DEF SweepDead, Dead, TypeOK
      <3>2. /\ UNCHANGED <<stack, local>>
            /\ field' = field \/ field' = [field EXCEPT ![b] = Nil]
        BY <2>1 DEF SweepDead, program
      <3> HIDE DEF b
      <3> QED
        BY <1>1, <3>1, <3>2, FieldCut
    <2> QED
      BY <1>2, <1>5, <2>1
         DEF Collect, SkipCollection, EnterCycle, StartSweep, EndSweep, Mark, SweepAlive,
             memory, program
  <1> QED
    BY <1>2, <1>3, <1>4, <1>5, Steps DEF vars, memory, program

LEMMA AccessibleAllocate ==
  ASSUME IInv, Allocate
  PROVE  /\ Accessible' \subseteq Accessible \cup {local'} /\ local = Nil
         /\ local' \in Blocks \ Accessible
  <1>1. TypeOK /\ CountsExact /\ LocalInv
    BY DEF IInv
  <1>2. PICK b \in Blocks : /\ state[b] = "free" /\ local' = b
                            /\ field' = [field EXCEPT ![b] = Nil]
    BY DEF Allocate
  <1>3. local = Nil /\ UNCHANGED stack
    BY <1>1 DEF Allocate, LocalInv, At
  <1> DEFINE R == Accessible \cup {b}
  <1>4. R \in SUBSET Blocks /\ Held' \subseteq R
    BY <1>1, <1>2, <1>3, HeldBlocks DEF Held, Roots
  <1>5. \A c \in R : field'[c] # Nil => field'[c] \in R
    BY <1>1, <1>2, HeldBlocks DEF TypeOK
  <1> HIDE DEF R
  <1>6. Reach(Held', field') \subseteq R
    BY <1>4, <1>5, ReachLeast
  <1>7. Accessible' = Reach(Held', field')
    BY DEF Accessible
  <1>8. b \notin Accessible
    BY <1>1, <1>2, AccessibleCounts
  <1> QED
    BY <1>2, <1>3, <1>6, <1>7, <1>8 DEF R

(* An unmarked id does not lead to anything that can be got at.              *)
LEMMA MarkedAll ==
  ASSUME IInv, GInv, pc = "sweep"
  PROVE  /\ Accessible \subseteq aux \cup {local}
         /\ \A i \in Ids : Dead(i) => metas[i].of \notin Accessible
  <1>1. TypeOK /\ LocalInv /\ CountsExact /\ Named
    BY DEF IInv
  <1>2. /\ Roots \subseteq aux
        /\ \A b \in aux : field[b] \in aux \cup {Nil}
        /\ aux \subseteq Accessible
        /\ \A i \in Ids : metas[i] # NoMeta => (~metas[i].white <=> metas[i].of \in aux)
    BY DEF GInv, MarkInv
  <1>3. local # Nil => /\ At \in {"fill", "register"} /\ header[local] = NoId
                       /\ field[local] \in aux \cup {Nil}
    BY <1>1, <1>2 DEF GInv, NamesInv, Collecting, LocalInv
  <1> DEFINE R == aux \cup ({local} \ {Nil})
  <1>4. R \in SUBSET Blocks /\ Held \subseteq R
    BY <1>1, <1>2 DEF Held, TypeOK
  <1>5. \A c \in R : field[c] # Nil => field[c] \in R
    BY <1>2, <1>3
  <1> HIDE DEF R
  <1>6. Accessible \subseteq R
    BY <1>4, <1>5, ReachLeast DEF Accessible
  <1>7. Accessible \subseteq aux \cup {local}
    BY <1>6 DEF R
  <1>8. ASSUME NEW i \in Ids, Dead(i), metas[i].of \in Accessible
        PROVE  FALSE
    <2>1. metas[i] # NoMeta /\ metas[i].white
      BY <1>8 DEF Dead
    <2>2. metas[i].of = local /\ local # Nil
      BY <1>1, <1>2, <1>7, <1>8, <2>1, ObjectConstants, HeldBlocks
    <2>3. header[local] = i
      BY <1>1, <2>1, <2>2 DEF Named
    <2> QED
      BY <1>3, <2>2, <2>3, ObjectConstants DEF Ids
  <1> QED
    BY <1>7, <1>8

LEMMA ReachKept ==
  ASSUME NEW S, NEW f, NEW g, S \subseteq Blocks,
         \A c \in Blocks : f[c] \in Blocks \cup {Nil},
         \A c \in Reach(S, f) : g[c] = f[c]
  PROVE  Reach(S, g) = Reach(S, f)
  <1> DEFINE A == Reach(S, f)
             B == Reach(S, g)
             R == A \cap B
  <1>1. /\ A \subseteq Blocks /\ S \subseteq A
        /\ \A c \in A : f[c] # Nil /\ f[c] \in Blocks => f[c] \in A
    BY ReachClosed
  <1>2. /\ B \subseteq Blocks /\ S \subseteq B
        /\ \A c \in B : g[c] # Nil /\ g[c] \in Blocks => g[c] \in B
    BY ReachClosed
  <1>3. \A c \in A : g[c] = f[c]
    OBVIOUS
  <1> HIDE DEF A, B
  <1>4. B \subseteq A
    <2>1. \A c \in A : g[c] # Nil => g[c] \in A
      BY <1>1, <1>3
    <2> QED
      BY <1>1, <2>1, ReachLeast DEF B
  <1>5. A \subseteq B
    <2>1. R \in SUBSET Blocks /\ S \subseteq R
      BY <1>1, <1>2
    <2>2. \A c \in R : f[c] # Nil => f[c] \in R
      BY <1>1, <1>2, <1>3
    <2> HIDE DEF R
    <2>3. A \subseteq R
      BY <2>1, <2>2, ReachLeast DEF A
    <2> QED
      BY <2>3 DEF R
  <1> QED
    BY <1>4, <1>5 DEF A, B

LEMMA SweepSteps ==
  ASSUME Next, pc = "sweep"
  PROVE  \/ DropHandle \/ DropWeakHandle \/ EndSweep
         \/ \E i \in Ids : SweepDead(i) \/ SweepAlive(i)
  <1>1. ~ \E b \in Blocks : Mark(b)
    BY DEF Mark
  <1>2. ~ \E s \in Slots : Place(s)
    BY DEF Place
  <1>3. ~Program
    BY DEF Program, Move, LoadField, LoadNil, Write, SetField, DrainIfFull, NewObject,
           CollectGc, Running
  <1>4. ~(Allocate \/ Fill \/ Register \/ EmergencyGc \/ MemoryError \/ SkipCollection
          \/ EnterCycle \/ StartSweep)
    BY DEF Allocate, Fill, Register, EmergencyGc, MemoryError, Fallible, SkipCollection,
           EnterCycle, StartSweep
  <1> QED
    BY <1>1, <1>2, <1>3, <1>4 DEF Next, Continue

(* A sweep, and the drops it causes, touch nothing that can be got at.       *)
LEMMA SweepKeeps ==
  ASSUME IInv, GInv, pc = "sweep", [Next]_vars
  PROVE  /\ UNCHANGED <<stack, local>>
         /\ \A c \in Accessible : field'[c] = field[c]
         /\ Accessible' = Accessible
  <1>1. TypeOK /\ CountsExact
    BY DEF IInv
  <1>2. UNCHANGED <<stack, local>> /\ \A c \in Accessible : field'[c] = field[c]
    <2>1. CASE DropHandle
      <3> DEFINE b == Head(drops).b
      <3>1. b \in Blocks /\ drops \in Seq(Pending) /\ drops # <<>> /\ drops[1] = Strong(b)
        BY <1>1, <2>1, PendingHead DEF DropHandle, TypeOK
      <3>2. /\ UNCHANGED <<stack, local>>
            /\ UNCHANGED field \/ (strong[b] = 1 /\ field' = [field EXCEPT ![b] = Nil])
        BY <2>1 DEF DropHandle, program
      <3>3. Places(drops, Strong(b)) > 0 /\ Places(drops, Strong(b)) \in Nat
        BY <1>1, <3>1, CountFacts
      <3> HIDE DEF b
      <3>4. strong[b] = 1 => b \notin Accessible
        <4>1. b \in Accessible => strong[b] > Places(drops, Strong(b))
          BY <1>1, AccessibleCounts
        <4> QED
          BY <3>3, <4>1
      <3> QED
        BY <1>1, <3>2, <3>4, HeldBlocks DEF TypeOK
    <2>2. ASSUME NEW i \in Ids, SweepDead(i)
          PROVE  UNCHANGED <<stack, local>> /\ \A c \in Accessible : field'[c] = field[c]
      <3>1. metas[i].of \notin Accessible
        BY <2>2, MarkedAll DEF SweepDead
      <3>2. /\ UNCHANGED <<stack, local>>
            /\ UNCHANGED field \/ field' = [field EXCEPT ![metas[i].of] = Nil]
        BY <2>2 DEF SweepDead, program
      <3> QED
        BY <1>1, <3>1, <3>2, HeldBlocks DEF TypeOK
    <2>3. CASE UNCHANGED <<stack, local, field>>
      BY <2>3
    <2> QED
      BY <2>1, <2>2, <2>3, SweepSteps
         DEF DropWeakHandle, EndSweep, SweepAlive, memory, program, vars
  <1>3. Accessible' = Accessible
    <2>1. Held \subseteq Blocks /\ \A c \in Blocks : field[c] \in Blocks \cup {Nil}
      BY <1>1, HeldBlocks DEF TypeOK
    <2>2. \A c \in Reach(Held, field) : field'[c] = field[c]
      BY <1>2 DEF Accessible
    <2>3. Reach(Held, field') = Reach(Held, field)
      BY <2>1, <2>2, ReachKept
    <2>4. Held' = Held
      BY <1>2 DEF Held, Roots
    <2>5. Accessible' = Reach(Held', field')
      BY DEF Accessible
    <2> QED
      BY <2>3, <2>4, <2>5 DEF Accessible
  <1> QED
    BY <1>2, <1>3

-----------------------------------------------------------------------------
(* The ids of what can be got at.                                            *)

LEMMA NamesSame ==
  ASSUME IInv, NamesInv, Accessible' \subseteq Accessible,
         UNCHANGED <<metas, header, local>>, At' = At,
         At \in {"fill", "register"} => strong'[local] = strong[local],
         At = "register" => UNCHANGED stack /\ field'[local] \in {field[local], Nil},
         Collecting' => At # "place" /\ queue' = <<>>
  PROVE  NamesInv'
  BY DEF NamesInv, Roots

LEMMA NamesProgram ==
  ASSUME IInv, NamesInv, Program \/ \E s \in Slots : Place(s)
  PROVE  NamesInv'
  <1>1. Accessible' \subseteq Accessible
    <2>1. Next /\ ~Allocate
      BY DEF Next, Continue, Program, Place, Move, LoadField, LoadNil, Write, SetField,
             DrainIfFull, NewObject, CollectGc, Running, Allocate
    <2> QED
      BY <2>1, AccessibleShrinks
  <1>2. At \notin {"fill", "register"} /\ (At = "place" => pc = "place")
    <2>1. pc \in {"run", "place"}
      BY DEF Program, Place, Move, LoadField, LoadNil, Write, SetField, DrainIfFull,
             NewObject, CollectGc, Running
    <2> QED
      BY <2>1 DEF At
  <1>3. /\ UNCHANGED <<metas, header>>
        /\ At' \notin {"fill", "register", "place"}
        /\ Collecting' => queue' = <<>>
    <2>1. ASSUME NEW s \in Slots, NEW b, Write(s, b)
          PROVE  /\ UNCHANGED <<metas, header, pc>> /\ pc = "run"
      BY <2>1 DEF Write, Running, table, control
    <2>2. ASSUME NEW s \in Slots, NEW from \in Slots, SetField(s, from)
          PROVE  /\ UNCHANGED <<metas, header, pc>> /\ pc = "run"
      BY <2>2 DEF SetField, Running, table, control
    <2>3. CASE DrainIfFull \/ NewObject
      BY <2>3 DEF DrainIfFull, NewObject, Advance, Running, memory, table, control, At,
                  Collecting
    <2>4. CASE CollectGc
      BY <2>4 DEF CollectGc, StartCollection, memory, table, At, Collecting
    <2>5. ASSUME NEW s \in Slots, Place(s)
          PROVE  /\ UNCHANGED <<metas, header>> /\ pc' = "run"
      BY <2>5 DEF Place, Advance, memory, table
    <2> QED
      BY <2>1, <2>2, <2>3, <2>4, <2>5
         DEF Program, Move, LoadField, LoadNil, At, Collecting
  <1>4. \A b \in Accessible : header[b] # NoId
    BY <1>2 DEF NamesInv
  <1> QED
    BY <1>1, <1>3, <1>4 DEF NamesInv

LEMMA NamesFunnel ==
  ASSUME IInv, NamesInv, Funnel, "reserve_after" \notin Habits
  PROVE  NamesInv'
  <1>1. TypeOK /\ CountsExact /\ LocalInv /\ IdTable
    BY DEF IInv
  <1>2. Next /\ (~Allocate => Accessible' \subseteq Accessible)
    BY AccessibleShrinks DEF Funnel, Next, Continue
  <1>3. CASE DropHandle
    <2> DEFINE b == Head(drops).b
    <2>1. b \in Blocks /\ drops \in Seq(Pending) /\ drops # <<>> /\ drops[1] = Strong(b)
      BY <1>1, <1>3, PendingHead DEF DropHandle, TypeOK
    <2>2. /\ strong' = [strong EXCEPT ![b] = @ - 1]
          /\ field' = field \/ field' = [field EXCEPT ![b] = Nil]
          /\ UNCHANGED <<metas, header, stack, local, queue, pc, ret>>
      BY <1>3 DEF DropHandle, table, program, control
    <2>3. Places(drops, Strong(b)) > 0
      BY <1>1, <2>1, CountFacts
    <2> HIDE DEF b
    <2>4. At \in {"fill", "register"} => b # local /\ local \in Blocks
      BY <1>1, <2>3, LocalAlone DEF NamesInv, LocalInv
    <2>5. /\ At \in {"fill", "register"} => strong'[local] = strong[local]
          /\ At = "register" => field'[local] \in {field[local], Nil}
      BY <1>1, <2>1, <2>2, <2>4 DEF TypeOK
    <2>6. Accessible' \subseteq Accessible
      BY <1>1, <2>1, <2>2, FieldCut
    <2> QED
      BY <2>2, <2>5, <2>6, NamesSame DEF At, Collecting, NamesInv
  <1>4. CASE DropWeakHandle
    <2> DEFINE b == Head(drops).b
    <2>1. /\ b \in Blocks /\ drops \in Seq(Pending) /\ drops # <<>> /\ drops[1] = Weak(b)
          /\ weak[b] > 0
      BY <1>1, <1>4, PendingHead DEF DropWeakHandle, TypeOK
    <2>2. /\ \/ UNCHANGED header
             \/ weak[b] = 1 /\ header' = [header EXCEPT ![b] = NoId]
          /\ UNCHANGED <<metas, strong, field, stack, local, queue, pc, ret>>
      BY <1>4, Zenon DEF DropWeakHandle, table, program, control
    <2> HIDE DEF b
    <2>3. weak[b] = 1 => b \notin Accessible
      <3>1. weak[b] = 1 => state[b] # "alive"
        BY <1>1, <2>1, CountFacts
      <3> QED
        BY <1>1, <3>1, AccessibleCounts
    <2>4. Accessible' = Accessible /\ Roots' = Roots
      BY <2>2, SameAccessible
    <2>5. /\ \A c \in Accessible : header'[c] = header[c]
          /\ At \in {"fill", "register"} => header'[local] = NoId
      BY <1>1, <2>2, <2>3, HeldBlocks DEF NamesInv, LocalInv, TypeOK
    <2> QED
      BY <2>2, <2>4, <2>5 DEF NamesInv, At, Collecting
  <1>5. CASE Allocate
    <2>1. /\ Accessible' \subseteq Accessible \cup {local'} /\ local = Nil
          /\ local' \in Blocks \ Accessible
      BY <1>5, AccessibleAllocate
    <2>2. /\ header' = [header EXCEPT ![local'] = NoId]
          /\ strong' = [strong EXCEPT ![local'] = 1]
          /\ pc' = "fill" /\ pc = "allocate" /\ UNCHANGED metas
      BY <1>5 DEF Allocate, Advance, table
    <2>3. \A c \in Accessible : header[c] # NoId /\ header'[c] = header[c]
      BY <1>1, <2>1, <2>2, HeldBlocks DEF NamesInv, At, TypeOK
    <2>4. header'[local'] = NoId /\ strong'[local'] = 1
      BY <1>1, <2>1, <2>2 DEF TypeOK
    <2> QED
      BY <2>1, <2>2, <2>3, <2>4 DEF NamesInv, At, Collecting
  <1>6. CASE Fill
    <2>1. PICK s \in Slots : field' = [field EXCEPT ![local] = stack[s]]
                             /\ strong' = Count(strong, stack[s])
      BY <1>6 DEF Fill
    <2>2. /\ pc = "fill" /\ pc' = "register" /\ UNCHANGED <<metas, header, stack, local>>
          /\ local \in Blocks /\ header[local] = NoId /\ strong[local] = 1
      BY <1>1, <1>6 DEF Fill, Advance, table, program, NamesInv, LocalInv, At, TypeOK
    <2>3. stack[s] \in Roots \cup {Nil} /\ stack[s] # local /\ stack[s] \in Blocks \cup {Nil}
      BY <1>1, <2>2, LocalAlone, ObjectConstants DEF Roots, TypeOK
    <2>4. strong'[local] = 1 /\ field'[local] = stack[s]
      BY <1>1, <2>1, <2>2, <2>3 DEF Count, TypeOK
    <2>5. Accessible' \subseteq Accessible
      BY <1>2, <1>6 DEF Fill, Allocate
    <2> QED
      BY <2>2, <2>3, <2>4, <2>5 DEF NamesInv, At, Collecting, Roots
  <1>7. CASE Register
    <2>1. local \in Blocks /\ NewId \in Ids /\ metas[NewId] = NoMeta
      BY <1>1, <1>7, NewIdUnused DEF Register, LocalInv, At, TypeOK
    <2>2. /\ header' = [header EXCEPT ![local] = NewId]
          /\ metas' = [metas EXCEPT ![NewId] = [of |-> local, white |-> TRUE]]
          /\ pc = "register" /\ pc' = "place"
          /\ UNCHANGED <<field, stack, local>>
      BY <1>7 DEF Register, Advance, program
    <2>3. Accessible' = Accessible
      BY <2>2, SameAccessible
    <2>4. header'[local] = NewId /\ NewId # NoId
      BY <1>1, <2>1, <2>2, ObjectConstants DEF TypeOK, Ids
    <2>5. metas'[NewId] # NoMeta /\ metas'[NewId].of = local
      <3>1. [of |-> local, white |-> TRUE] \in [of : Blocks, white : BOOLEAN]
        BY <2>1
      <3>2. [of |-> local, white |-> TRUE] # NoMeta
        BY <3>1, ObjectConstants, Zenon
      <3>3. metas'[NewId] = [of |-> local, white |-> TRUE]
        BY <1>1, <2>1, <2>2 DEF TypeOK
      <3> QED
        BY <3>2, <3>3
    <2>6. ASSUME NEW b \in Accessible, b # local
          PROVE  /\ header'[b] # NoId /\ metas'[header'[b]] # NoMeta
                 /\ metas'[header'[b]].of = b
      <3>1. b \in Blocks
        BY <1>1, HeldBlocks
      <3>2. /\ header[b] # NoId /\ metas[header[b]] # NoMeta /\ metas[header[b]].of = b
            /\ header[b] \in Ids
        BY <1>1, <2>6, <3>1 DEF NamesInv, TypeOK
      <3>3. header'[b] = header[b] /\ header[b] # NewId
        BY <1>1, <2>1, <2>2, <2>6, <3>1, <3>2 DEF TypeOK
      <3>4. metas'[header[b]] = metas[header[b]]
        BY <1>1, <2>1, <2>2, <3>2, <3>3 DEF TypeOK
      <3> QED
        BY <3>2, <3>3, <3>4
    <2> QED
      BY <2>2, <2>3, <2>4, <2>5, <2>6 DEF NamesInv, At, Collecting
  <1>8. CASE EmergencyGc
    <2>1. /\ pc \in {"allocate", "fill", "register"} /\ pc' = "drain" /\ ret' = pc
          /\ queue' = <<>>
          /\ UNCHANGED <<metas, header, strong, field, stack, local>>
      BY <1>8 DEF EmergencyGc, Fallible, StartCollection, memory, table
    <2>2. At' = At /\ At # "place"
      BY <2>1 DEF At
    <2>3. Accessible' = Accessible
      BY <2>1, SameAccessible
    <2> QED
      BY <2>1, <2>2, <2>3, NamesSame
  <1>9. CASE MemoryError
    <2>1. /\ pc \in {"allocate", "fill", "register"} /\ pc' = "run" /\ local' = Nil
          /\ UNCHANGED <<metas, header, field, stack>>
      BY <1>9 DEF MemoryError, Fallible, Advance, memory, table
    <2>2. /\ TypeOK' /\ Accessible' \subseteq Accessible
      BY <1>2, <1>9, <2>1, TypeStep DEF Allocate, MemoryError, Advance
    <2>3. local \notin Accessible'
      <3>1. CASE local = Nil
        BY <2>2, <3>1, <1>1, HeldBlocks, ObjectConstants
      <3>2. CASE local # Nil
        <4>1. strong[local] = 1
          BY <1>1, <2>1, <3>2 DEF NamesInv, LocalInv, At
        <4>2. /\ local \in Blocks /\ \A s \in Slots : stack'[s] # local
              /\ \A c \in Blocks : field'[c] # local
          BY <1>1, <2>1, <3>2, <4>1, LocalAlone
        <4>3. local \in Accessible' =>
                local \in Held' \/ \E c \in Accessible' : field'[c] = local
          <5>1. Held' \subseteq Blocks /\ \A c \in Blocks : field'[c] \in Blocks \cup {Nil}
            BY <2>1, <2>2 DEF TypeOK, Held, Roots
          <5>2. Accessible' = Reach(Held', field')
            BY DEF Accessible
          <5> QED
            BY <5>1, <5>2, ReachWhy
        <4>4. local \notin Held'
          BY <2>1, <3>2, <4>2 DEF Held, Roots
        <4> QED
          BY <1>1, <2>2, <4>2, <4>3, <4>4, HeldBlocks
      <3> QED
        BY <3>1, <3>2
    <2>4. \A b \in Accessible' : header[b] # NoId
      BY <2>2, <2>3 DEF NamesInv
    <2> QED
      BY <2>1, <2>2, <2>4 DEF NamesInv, At, Collecting
  <1> QED
    BY <1>3, <1>4, <1>5, <1>6, <1>7, <1>8, <1>9 DEF Funnel

LEMMA NamesCollect ==
  ASSUME IInv, GInv, Collect
  PROVE  NamesInv'
  <1>1. TypeOK /\ CountsExact /\ LocalInv /\ Named /\ NamesInv
    BY DEF IInv, GInv
  <1>2. /\ Collecting
        /\ UNCHANGED <<header, stack, local, queue>>
        /\ At' = At
    <2>1. /\ Collecting /\ UNCHANGED <<header, stack, local, queue>>
          /\ \/ pc' \in {"drain", "mark", "sweep"} /\ UNCHANGED ret
             \/ pc' = ret
      BY DEF Collect, SkipCollection, EnterCycle, StartSweep, EndSweep, Mark, SweepDead,
             SweepAlive, Return, Collecting, memory, table, program, control
    <2> QED
      BY <1>1, <2>1 DEF At, Collecting, TypeOK
  <1>3. CASE \E i \in Ids : SweepDead(i)
    <2>1. PICK i \in Ids : SweepDead(i)
      BY <1>3
    <2>2. /\ pc = "sweep" /\ Dead(i) /\ metas' = [metas EXCEPT ![i] = NoMeta]
      BY <2>1 DEF SweepDead
    <2> DEFINE b == metas[i].of
    <2>3. b \notin Accessible /\ b \in Blocks
      BY <1>1, <2>2, MarkedAll DEF Dead, TypeOK
    <2>4. Accessible' = Accessible /\ \A c \in Accessible : field'[c] = field[c]
      BY <2>1, <2>2, SweepKeeps DEF Next, Continue
    <2>5. strong' = strong \/ strong' = [strong EXCEPT ![b] = @ + 1]
      BY <1>1, <2>1, <2>3, ObjectConstants DEF SweepDead, Count
    <2> HIDE DEF b
    <2>6. local # Nil => strong'[local] = strong[local] /\ field'[local] = field[local]
      BY <1>1, <2>3, <2>4, <2>5, HeldBlocks DEF TypeOK
    <2>7. ASSUME NEW c \in Accessible, header[c] # NoId
          PROVE  metas'[header[c]] # NoMeta /\ metas'[header[c]].of = c
      <3>1. /\ metas[header[c]] # NoMeta /\ metas[header[c]].of = c /\ header[c] \in Ids
        BY <1>1, <2>7, HeldBlocks DEF NamesInv, TypeOK
      <3>2. header[c] # i
        BY <2>3, <3>1 DEF b
      <3>3. metas'[header[c]] = metas[header[c]]
        BY <1>1, <2>2, <3>1, <3>2 DEF TypeOK
      <3> QED
        BY <3>1, <3>3
    <2> QED
      BY <1>1, <1>2, <2>4, <2>6, <2>7 DEF NamesInv, LocalInv, Collecting, Roots
  <1>4. ASSUME UNCHANGED <<strong, field>>,
               \A i \in Ids : metas[i] # NoMeta =>
                 metas'[i] # NoMeta /\ metas'[i].of = metas[i].of
        PROVE  NamesInv'
    <2>1. Accessible' = Accessible /\ Roots' = Roots
      BY <1>2, <1>4, SameAccessible
    <2>2. \A b \in Accessible : header[b] # NoId =>
            metas'[header[b]] # NoMeta /\ metas'[header[b]].of = b
      BY <1>1, <1>4, HeldBlocks DEF NamesInv, TypeOK
    <2> QED
      BY <1>1, <1>2, <1>4, <2>1, <2>2 DEF NamesInv, Collecting
  <1>5. ASSUME NEW S, NEW w \in BOOLEAN, Paint(S, w), UNCHANGED <<strong, field>>
        PROVE  NamesInv'
    BY <1>1, <1>4, <1>5, PaintTypes
  <1> QED
    BY <1>3, <1>4, <1>5
       DEF Collect, SkipCollection, EnterCycle, StartSweep, EndSweep, Mark, SweepAlive,
           memory, table

LEMMA NamesStep ==
  ASSUME IInv, GInv, "reserve_after" \notin Habits, [Next]_vars
  PROVE  NamesInv'
  <1>1. CASE UNCHANGED vars
    <2>1. /\ Accessible' = Accessible /\ Roots' = Roots
          /\ UNCHANGED <<metas, header, strong, field, stack, local, queue, pc, ret>>
      BY <1>1, SameAccessible DEF vars, memory, table, program, control
    <2> QED
      BY <2>1 DEF GInv, NamesInv, At, Collecting
  <1> QED
    BY <1>1, Steps, NamesProgram, NamesFunnel, NamesCollect DEF GInv

-----------------------------------------------------------------------------
(* Marking and sweeping.                                                     *)

(* A collection starts by draining the queue.                                *)
LEMMA StaysOutside ==
  ASSUME Next, pc \notin {"drain", "mark", "sweep"}
  PROVE  pc' \notin {"mark", "sweep"} /\ UNCHANGED gray
  <1>1. ASSUME NEW s \in Slots, NEW b, Write(s, b)
        PROVE  pc' \notin {"mark", "sweep"} /\ UNCHANGED gray
    BY <1>1 DEF Write, control, marks
  <1>2. ASSUME NEW s \in Slots, NEW from \in Slots, SetField(s, from)
        PROVE  pc' \notin {"mark", "sweep"} /\ UNCHANGED gray
    BY <1>2 DEF SetField, control, marks
  <1>3. CASE DrainIfFull \/ NewObject \/ CollectGc
    BY <1>3 DEF DrainIfFull, NewObject, CollectGc, StartCollection, Advance, Running,
                control, marks
  <1>4. ASSUME NEW s \in Slots, Place(s)
        PROVE  pc' \notin {"mark", "sweep"} /\ UNCHANGED gray
    BY <1>4 DEF Place, Advance, marks
  <1>5. CASE Funnel
    BY <1>5 DEF Funnel, DropHandle, DropWeakHandle, Allocate, Fill, Register,
               EmergencyGc, MemoryError, StartCollection, Advance, control, marks
  <1>6. ~Collect
    BY DEF Collect, SkipCollection, EnterCycle, StartSweep, EndSweep, Mark, SweepDead,
           SweepAlive
  <1> QED
    BY <1>1, <1>2, <1>3, <1>4, <1>5, <1>6, Steps
       DEF Program, Move, LoadField, LoadNil

LEMMA MarkSteps ==
  ASSUME Next, MarkInv, pc \in {"drain", "mark"}
  PROVE  \/ DropHandle /\ pc = "drain"
         \/ DropWeakHandle /\ pc = "drain"
         \/ SkipCollection \/ EnterCycle \/ StartSweep \/ \E b \in Blocks : Mark(b)
  <1>1. ~ \E i \in Ids : SweepDead(i) \/ SweepAlive(i)
    BY DEF SweepDead, SweepAlive
  <1>2. ~ \E s \in Slots : Place(s)
    BY DEF Place
  <1>3. ~Program
    BY DEF Program, Move, LoadField, LoadNil, Write, SetField, DrainIfFull, NewObject,
           CollectGc, Running
  <1>4. ~(Allocate \/ Fill \/ Register \/ EmergencyGc \/ MemoryError \/ EndSweep)
    BY DEF Allocate, Fill, Register, EmergencyGc, MemoryError, Fallible, EndSweep
  <1>5. pc = "mark" => ~DropHandle /\ ~DropWeakHandle
    BY DEF MarkInv, DropHandle, DropWeakHandle
  <1> QED
    BY <1>1, <1>2, <1>3, <1>4, <1>5 DEF Next, Continue

LEMMA MarkOne ==
  ASSUME IInv, GInv, NEW b \in Blocks, Mark(b)
  PROVE  MarkInv'
  <1>1. TypeOK /\ Named /\ NamesInv
    BY DEF IInv, GInv
  <1>2. /\ pc = "mark" /\ b \in gray /\ aux' = aux \cup {b}
        /\ gray' = (gray \cup ({field[b]} \ {Nil})) \ aux'
        /\ Paint({header[b]}, FALSE)
        /\ UNCHANGED <<header, field, stack, local, drops, pc>>
    BY DEF Mark, memory, program, control
  <1>3. /\ drops = <<>> /\ Roots \subseteq aux \cup gray
        /\ \A c \in aux : field[c] \in aux \cup gray \cup {Nil}
        /\ aux \cup gray \subseteq Accessible
        /\ \A i \in Ids : metas[i] # NoMeta => (~metas[i].white <=> metas[i].of \in aux)
    BY <1>2 DEF GInv, MarkInv
  <1>4. Accessible' = Accessible /\ Roots' = Roots
    BY <1>2, SameAccessible
  <1>5. field[b] # Nil => field[b] \in Accessible
    BY <1>1, <1>2, <1>3, HeldBlocks
  <1>6. /\ Roots' \subseteq aux' \cup gray'
        /\ \A c \in aux' : field'[c] \in aux' \cup gray' \cup {Nil}
        /\ aux' \cup gray' \subseteq Accessible'
    BY <1>2, <1>3, <1>4, <1>5
  <1>7. ASSUME NEW i \in Ids, metas'[i] # NoMeta
        PROVE  ~metas'[i].white <=> metas'[i].of \in aux'
    <2>1. /\ metas[i] # NoMeta /\ metas'[i].of = metas[i].of
          /\ metas'[i].white = IF i \in {header[b]} THEN FALSE ELSE metas[i].white
      BY <1>1, <1>2, <1>7, PaintTypes
    <2>2. header[b] = i => metas[i].of = b
      <3>1. b \in Accessible
        BY <1>2, <1>3
      <3> QED
        BY <1>1, <3>1, ObjectConstants DEF NamesInv, Ids
    <2>3. metas[i].of = b => header[b] = i
      BY <1>1, <2>1 DEF Named
    <2> QED
      BY <1>2, <1>3, <2>1, <2>2, <2>3
  <1> QED
    BY <1>2, <1>3, <1>6, <1>7 DEF MarkInv

LEMMA MarkInside ==
  ASSUME IInv, GInv, Next, pc \in {"drain", "mark"}
  PROVE  MarkInv'
  <1>1. TypeOK /\ MarkInv /\ IdTable
    BY DEF IInv, GInv
  <1>2. CASE SkipCollection
    BY <1>1, <1>2 DEF MarkInv, SkipCollection, Return, TypeOK, marks
  <1>3. CASE (DropHandle \/ DropWeakHandle) /\ pc = "drain"
    BY <1>1, <1>3 DEF DropHandle, DropWeakHandle, control, marks, MarkInv
  <1>4. CASE EnterCycle
    <2>1. /\ drops = <<>> /\ Paint(allObjects, TRUE) /\ gray' = Roots /\ aux' = {}
          /\ pc' = "mark" /\ UNCHANGED <<field, stack, local, drops>>
      BY <1>4 DEF EnterCycle, Quiet, memory, program
    <2>2. Accessible' = Accessible /\ Roots' = Roots
      BY <2>1, SameAccessible
    <2>3. ASSUME NEW i \in Ids, metas'[i] # NoMeta
          PROVE  metas'[i].white
      <3>1. metas[i] # NoMeta /\ metas'[i].white = IF i \in allObjects THEN TRUE
                                                   ELSE metas[i].white
        BY <1>1, <2>1, <2>3, PaintTypes
      <3> QED
        BY <1>1, <3>1 DEF IdTable
    <2> QED
      BY <1>1, <2>1, <2>2, <2>3, HeldBlocks DEF MarkInv
  <1>5. CASE StartSweep
    <2>1. /\ gray = {} /\ pc = "mark" /\ pc' = "sweep"
          /\ UNCHANGED <<metas, field, stack, local, gray, aux>>
      BY <1>5 DEF StartSweep, memory, table, program
    <2>2. Accessible' = Accessible /\ Roots' = Roots
      BY <2>1, SameAccessible
    <2> QED
      BY <1>1, <2>1, <2>2 DEF MarkInv
  <1> QED
    BY <1>1, <1>2, <1>3, <1>4, <1>5, MarkOne, MarkSteps

LEMMA MarkSweep ==
  ASSUME IInv, GInv, Next, pc = "sweep"
  PROVE  MarkInv'
  <1>1. TypeOK /\ MarkInv
    BY DEF IInv, GInv
  <1>2. /\ UNCHANGED <<stack, local>> /\ Accessible' = Accessible
        /\ \A c \in Accessible : field'[c] = field[c]
    BY SweepKeeps
  <1>3. /\ gray = {} /\ Roots \subseteq aux /\ aux \subseteq Accessible
        /\ \A b \in aux : field[b] \in aux \cup {Nil}
        /\ \A i \in Ids : metas[i] # NoMeta => (~metas[i].white <=> metas[i].of \in aux)
    BY <1>1 DEF MarkInv
  <1>4. UNCHANGED gray
    BY SweepSteps DEF DropHandle, DropWeakHandle, EndSweep, SweepDead, SweepAlive, marks
  <1>5. CASE EndSweep
    BY <1>1, <1>3, <1>4, <1>5 DEF EndSweep, Return, MarkInv, TypeOK
  <1>6. CASE ~EndSweep
    <2>1. /\ pc' = "sweep" /\ UNCHANGED aux
          /\ UNCHANGED metas \/ \E i \in Ids : metas' = [metas EXCEPT ![i] = NoMeta]
      BY <1>6, SweepSteps
         DEF DropHandle, DropWeakHandle, SweepDead, SweepAlive, control, marks, table
    <2>2. \A i \in Ids : metas'[i] # NoMeta => metas'[i] = metas[i]
      BY <1>1, <2>1 DEF TypeOK
    <2>3. Roots' = Roots
      BY <1>2 DEF Roots
    <2>4. \A i \in Ids : metas'[i] # NoMeta => (~metas'[i].white <=> metas'[i].of \in aux')
      BY <1>3, <2>1, <2>2
    <2>5. /\ Roots' \subseteq aux' \cup gray'
          /\ \A b \in aux' : field'[b] \in aux' \cup gray' \cup {Nil}
          /\ aux' \cup gray' \subseteq Accessible'
      BY <1>2, <1>3, <1>4, <2>1, <2>3
    <2> QED
      BY <1>3, <1>4, <2>1, <2>4, <2>5 DEF MarkInv
  <1> QED
    BY <1>5, <1>6

LEMMA MarkStep ==
  ASSUME IInv, GInv, [Next]_vars
  PROVE  MarkInv'
  <1>1. TypeOK /\ MarkInv
    BY DEF IInv, GInv
  <1>2. CASE UNCHANGED vars
    <2>1. /\ Accessible' = Accessible /\ Roots' = Roots
          /\ UNCHANGED <<metas, field, drops, pc, gray, aux>>
      BY <1>2, SameAccessible DEF vars, memory, table, program, control, marks
    <2> QED
      BY <1>1, <2>1 DEF MarkInv
  <1>3. CASE Next /\ pc \notin {"drain", "mark", "sweep"}
    BY <1>1, <1>3, StaysOutside DEF MarkInv
  <1> QED
    BY <1>2, <1>3, MarkInside, MarkSweep

LEMMA SweepStep ==
  ASSUME IInv, GInv, [Next]_vars
  PROVE  SweepInv'
  <1>1. TypeOK /\ SweepInv /\ IdTable
    BY DEF IInv, GInv
  <1>2. CASE UNCHANGED vars
    BY <1>1, <1>2 DEF SweepInv, vars, table, control, marks
  <1>3. CASE Next /\ pc = "sweep"
    <2>1. CASE DropHandle \/ DropWeakHandle
      BY <1>1, <2>1 DEF SweepInv, DropHandle, DropWeakHandle, table, control, marks
    <2>2. CASE EndSweep
      BY <1>1, <2>2 DEF SweepInv, EndSweep, Return, TypeOK
    <2>3. ASSUME NEW i \in Ids, SweepDead(i)
          PROVE  SweepInv'
      <3>1. /\ metas' = [metas EXCEPT ![i] = NoMeta]
            /\ allObjects' = allObjects \ {i} /\ left' = left \ {i}
        BY <2>3 DEF SweepDead
      <3>2. \A j \in allObjects' : metas'[j] = metas[j]
        BY <1>1, <3>1 DEF TypeOK
      <3> QED
        BY <1>1, <1>3, <3>1, <3>2 DEF SweepInv
    <2>4. ASSUME NEW i \in Ids, SweepAlive(i)
          PROVE  SweepInv'
      BY <1>1, <1>3, <2>4 DEF SweepInv, SweepAlive, Dead, IdTable, table, control
    <2> QED
      BY <1>3, <2>1, <2>2, <2>3, <2>4, SweepSteps
  <1>4. CASE Next /\ pc # "sweep"
    <2>1. pc' = "sweep" => StartSweep
      <3>1. CASE pc \in {"drain", "mark"}
        <4>1. ASSUME pc' = "sweep" PROVE ~SkipCollection /\ ~EnterCycle
          BY <1>1, <4>1 DEF SkipCollection, EnterCycle, Return, TypeOK
        <4>2. pc' = "sweep" => ~ \E b \in Blocks : Mark(b)
          BY <3>1 DEF Mark, control
        <4>3. pc' = "sweep" => ~DropHandle /\ ~DropWeakHandle
          BY <3>1 DEF DropHandle, DropWeakHandle, control
        <4> QED
          BY <1>4, <3>1, <4>1, <4>2, <4>3, MarkSteps DEF GInv
      <3> QED
        BY <1>4, <3>1, StaysOutside
    <2> QED
      BY <1>1, <2>1 DEF StartSweep, SweepInv, table
  <1> QED
    BY <1>2, <1>3, <1>4

-----------------------------------------------------------------------------
(* Objects without an id.                                                    *)

LEMMA NamelessQuiet ==
  ASSUME NamelessInv, Quiet, UNCHANGED <<state, field>>, Of' = Of,
         At \in {"fill", "register"} => local' = local /\ At' \in {"fill", "register"}
  PROVE  NamelessInv'
  <1>1. \A b : Places(drops, Strong(b)) = 0
    BY QuietPlaces
  <1> QED
    BY <1>1 DEF NamelessInv

LEMMA NamelessProgram ==
  ASSUME IInv, GInv, Program \/ \E s \in Slots : Place(s)
  PROVE  NamelessInv'
  <1>1. TypeOK /\ NamesInv /\ NamelessInv
    BY DEF IInv, GInv
  <1>2. At \notin {"fill", "register"} /\ Quiet
    BY DEF Program, Place, Move, LoadField, LoadNil, Write, SetField, DrainIfFull,
           NewObject, CollectGc, Running, At
  <1>3. ASSUME NEW s \in Slots, NEW from \in Slots, SetField(s, from)
        PROVE  NamelessInv'
    <2> DEFINE b == stack[s]
    <2>1. /\ b # Nil /\ field' = [field EXCEPT ![b] = stack[from]]
          /\ UNCHANGED <<state, metas>>
      BY <1>3 DEF SetField, table
    <2>2. b \in Accessible /\ b \in Blocks
      BY <1>1, <2>1, HeldBlocks DEF Roots
    <2>3. header[b] \in Ids /\ metas[header[b]] # NoMeta /\ metas[header[b]].of = b
      BY <1>1, <1>2, <2>2 DEF NamesInv, TypeOK
    <2>4. Of[header[b]] = b /\ Of' = Of
      BY <2>1, <2>3 DEF Of
    <2> HIDE DEF b
    <2>5. \A c \in Blocks : c # b => field'[c] = field[c]
      BY <1>1, <2>1 DEF TypeOK
    <2>6. \A c : Places(drops, Strong(c)) = 0
      BY <1>2, QuietPlaces
    <2> QED
      BY <1>1, <1>2, <2>1, <2>3, <2>4, <2>5, <2>6 DEF NamelessInv
  <1>4. CASE ~ \E s, from \in Slots : SetField(s, from)
    <2>1. UNCHANGED <<state, field, metas>>
      BY <1>4 DEF Program, Place, Move, LoadField, LoadNil, Write, DrainIfFull, NewObject,
                  CollectGc, memory, table
    <2>2. Of' = Of
      BY <2>1 DEF Of
    <2> QED
      BY <1>1, <1>2, <2>1, <2>2, NamelessQuiet
  <1> QED
    BY <1>3, <1>4

LEMMA CountFactsNext ==
  ASSUME TypeOK', CountsExact', NEW c \in Blocks
  PROVE  /\ Places(drops', Strong(c)) \in Nat
         /\ strong'[c] >= Places(drops', Strong(c))
  <1>1. Places(stack', c) \in Nat
    <2>1. DOMAIN stack' = Slots /\ IsFiniteSet(Slots)
      BY ObjectConstants DEF TypeOK
    <2> QED
      BY <2>1, PlacesFinite
  <1>2. Places(field', c) \in Nat
    <2>1. DOMAIN field' = Blocks /\ IsFiniteSet(Blocks)
      BY ObjectConstants DEF TypeOK
    <2> QED
      BY <2>1, PlacesFinite
  <1>3. Places(queue', c) \in Nat
    <2>1. queue' \in Seq(Blocks)
      BY DEF TypeOK
    <2>2. IsFiniteSet(DOMAIN queue')
      BY <2>1, SeqFinite
    <2> QED
      BY <2>2, PlacesFinite
  <1>4. Places(drops', Strong(c)) \in Nat
    <2>1. drops' \in Seq(Pending)
      BY DEF TypeOK
    <2>2. IsFiniteSet(DOMAIN drops')
      BY <2>1, SeqFinite
    <2> QED
      BY <2>2, PlacesFinite
  <1>5. strong'[c] = Places(stack', c) + Places(field', c) + Places(queue', c)
                     + (IF local' = c THEN 1 ELSE 0) + Places(drops', Strong(c))
    BY DEF CountsExact
  <1> QED
    BY <1>1, <1>2, <1>3, <1>4, <1>5

LEMMA NamelessDrops ==
  ASSUME IInv, GInv, DropHandle \/ DropWeakHandle
  PROVE  NamelessInv'
  <1>1. TypeOK /\ CountsExact /\ NamelessInv /\ TypeOK' /\ CountsExact'
    BY TypeStep, CountsStep DEF IInv, GInv, Next, Continue
  <1>2. Of' = Of /\ At' = At /\ local' = local
    BY DEF DropHandle, DropWeakHandle, Of, At, table, program, control
  <1> SUFFICES ASSUME NEW c \in Blocks, state'[c] = "alive", \A i \in Ids : Of[i] # c,
                      ~(c = local /\ At \in {"fill", "register"}), field'[c] # Nil
               PROVE  strong'[c] = 1 /\ Places(drops', Strong(c)) = 1
    BY <1>2 DEF NamelessInv
  <1> DEFINE b == Head(drops).b
  <1>3. CASE DropHandle
    <2>1. /\ b \in Blocks /\ strong[b] > 0 /\ Head(drops) = Strong(b)
      BY <1>1, <1>3, PendingHead DEF DropHandle
    <2>2. /\ strong' = [strong EXCEPT ![b] = @ - 1]
          /\ \/ /\ strong[b] = 1 /\ state' = [state EXCEPT ![b] = "dropped"]
                /\ field' = [field EXCEPT ![b] = Nil]
             \/ strong[b] # 1 /\ UNCHANGED <<state, field>>
          /\ UNCHANGED <<stack, queue, local>>
      BY <1>3 DEF DropHandle, program
    <2> HIDE DEF b
    <2>3. state[c] = "alive" /\ field[c] # Nil
      BY <1>1, <2>1, <2>2 DEF TypeOK
    <2>4. strong[c] = 1 /\ Places(drops, Strong(c)) = 1
      BY <1>1, <2>3 DEF NamelessInv
    <2>5. c # b
      <3>1. c = b => state' = [state EXCEPT ![b] = "dropped"]
        BY <2>2, <2>4
      <3> QED
        BY <1>1, <2>1, <3>1 DEF TypeOK
    <2>6. strong'[c] = 1
      BY <1>1, <2>1, <2>2, <2>4, <2>5 DEF TypeOK
    <2>7. Places(drops', Strong(c)) >= 1
      <3>1. Head(drops) # Strong(c)
        BY <2>1, <2>5, PendingParts
      <3>2. Places(Tail(drops), Strong(c)) = 1
        <4>1. /\ Places(drops, Strong(c)) = Places(Tail(drops), Strong(c))
                    + IF Head(drops) = Strong(c) THEN 1 ELSE 0
              /\ Places(Tail(drops), Strong(c)) \in Nat
          BY <1>1, <1>3, HeadPlaces DEF DropHandle
        <4> QED
          BY <2>4, <3>1, <4>1
      <3> DEFINE t == Tail(drops)
      <3>3. \/ drops' = t
            \/ drops' = Drop(field[b]) \o DropWeak(b) \o t
        BY <1>3 DEF DropHandle, b
      <3>4. t \in Seq(Pending)
        BY <1>1, <1>3, HeadPlaces DEF DropHandle
      <3>5. Places(t, Strong(c)) = 1
        BY <3>2
      <3> HIDE DEF t
      <3>6. CASE drops' = Drop(field[b]) \o DropWeak(b) \o t
        <4> DEFINE d == Drop(field[b])
                   v == DropWeak(b)
        <4>1. field[b] \in Blocks \cup {Nil}
          BY <1>1, <2>1 DEF TypeOK
        <4>2. /\ d \in Seq(Pending) /\ v \in Seq(Pending)
              /\ Places(d, Strong(c)) \in {0, 1} /\ Places(v, Strong(c)) = 0
          BY <2>1, <4>1, DropPlaces, DropWeakPlaces
        <4> DEFINE u == d \o v
                   r == u \o t
        <4>3. drops' = r
          BY <3>6
        <4> HIDE DEF d, v
        <4>4. u \in Seq(Pending) /\ \A z : Places(u, z) = Places(d, z) + Places(v, z)
          BY <4>2, PlacesConcat
        <4> HIDE DEF u
        <4>5. \A z : Places(r, z) = Places(u, z) + Places(t, z)
          BY <3>4, <4>4, PlacesConcat
        <4> HIDE DEF r
        <4> QED
          BY <3>5, <4>2, <4>3, <4>4, <4>5
      <3> QED
        BY <3>3, <3>5, <3>6
    <2>8. Places(drops', Strong(c)) <= 1
      <3>1. /\ strong'[c] >= Places(drops', Strong(c))
        BY <1>1, CountFactsNext
      <3> QED
        BY <2>6, <3>1
    <2>9. Places(drops', Strong(c)) \in Nat
      BY <1>1, CountFactsNext
    <2> QED
      BY <2>6, <2>7, <2>8, <2>9
  <1>4. CASE DropWeakHandle
    <2>1. /\ b \in Blocks /\ Head(drops) = Weak(b)
      BY <1>1, <1>4, PendingHead DEF DropWeakHandle
    <2>2. /\ drops' = Tail(drops) /\ UNCHANGED <<strong, field>>
          /\ UNCHANGED state \/ state' = [state EXCEPT ![b] = "free"]
      BY <1>4, Zenon DEF DropWeakHandle
    <2> HIDE DEF b
    <2>3. state[c] = "alive" /\ field[c] # Nil
      BY <1>1, <2>1, <2>2 DEF TypeOK
    <2>4. strong[c] = 1 /\ Places(drops, Strong(c)) = 1
      BY <1>1, <2>3 DEF NamelessInv
    <2>5. Places(Tail(drops), Strong(c)) = 1
      <3>1. Head(drops) # Strong(c)
        BY <2>1, PendingParts
      <3>2. /\ Places(drops, Strong(c)) = Places(Tail(drops), Strong(c))
                  + IF Head(drops) = Strong(c) THEN 1 ELSE 0
            /\ Places(Tail(drops), Strong(c)) \in Nat
        BY <1>1, <1>4, HeadPlaces DEF DropWeakHandle
      <3> QED
        BY <2>4, <3>1, <3>2
    <2> QED
      BY <2>2, <2>4, <2>5
  <1> QED
    BY <1>3, <1>4

LEMMA NamelessFunnel ==
  ASSUME IInv, GInv, Funnel
  PROVE  NamelessInv'
  <1>1. TypeOK /\ CountsExact /\ LocalInv /\ NamesInv /\ NamelessInv
    BY DEF IInv, GInv
  <1>2. CASE Allocate
    <2>1. /\ state' = [state EXCEPT ![local'] = "alive"]
          /\ field' = [field EXCEPT ![local'] = Nil] /\ local' \in Blocks
          /\ pc = "allocate" /\ pc' = "fill" /\ UNCHANGED metas /\ Quiet
      BY <1>2 DEF Allocate, Advance, table
    <2>2. Of' = Of
      BY <2>1 DEF Of
    <2>3. \A c : Places(drops, Strong(c)) = 0
      BY <2>1, QuietPlaces
    <2>4. At' = "fill" /\ At = "allocate"
      BY <2>1 DEF At
    <2>5. \A c \in Blocks : c # local' => state'[c] = state[c] /\ field'[c] = field[c]
      BY <1>1, <2>1 DEF TypeOK
    <2> QED
      BY <1>1, <2>2, <2>3, <2>4, <2>5 DEF NamelessInv
  <1>3. CASE Fill
    <2>1. PICK s \in Slots : field' = [field EXCEPT ![local] = stack[s]]
      BY <1>3 DEF Fill
    <2>2. /\ pc = "fill" /\ pc' = "register" /\ Quiet
          /\ UNCHANGED <<state, metas, local>>
      BY <1>3 DEF Fill, Advance, table, program
    <2>3. Of' = Of /\ At' = "register" /\ At = "fill"
      BY <2>2 DEF Of, At
    <2>4. \A c : Places(drops, Strong(c)) = 0
      BY <2>2, QuietPlaces
    <2>5. \A c \in Blocks : c # local => field'[c] = field[c]
      BY <1>1, <2>1 DEF TypeOK
    <2> QED
      BY <1>1, <2>2, <2>3, <2>4, <2>5 DEF NamelessInv
  <1>4. CASE Register
    <2>1. local \in Blocks /\ NewId \in Ids /\ metas[NewId] = NoMeta
      BY <1>1, <1>4, NewIdUnused DEF Register, LocalInv, At, TypeOK, IInv
    <2>2. /\ metas' = [metas EXCEPT ![NewId] = [of |-> local, white |-> TRUE]]
          /\ Quiet /\ UNCHANGED <<state, field, local>>
      BY <1>4 DEF Register, program
    <2>3. metas'[NewId] # NoMeta /\ metas'[NewId].of = local
      <3>1. [of |-> local, white |-> TRUE] \in [of : Blocks, white : BOOLEAN]
        BY <2>1
      <3>2. [of |-> local, white |-> TRUE] # NoMeta
        BY <3>1, ObjectConstants, Zenon
      <3>3. metas'[NewId] = [of |-> local, white |-> TRUE]
        BY <1>1, <2>1, <2>2 DEF TypeOK
      <3> QED
        BY <3>2, <3>3
    <2>4. Of'[NewId] = local
      BY <2>1, <2>3 DEF Of
    <2>5. \A i \in Ids : Of[i] \in Blocks => Of'[i] = Of[i]
      <3>1. \A i \in Ids : i # NewId => metas'[i] = metas[i]
        BY <1>1, <2>1, <2>2 DEF TypeOK
      <3>2. Of[NewId] = Nil
        BY <2>1 DEF Of
      <3> QED
        BY <3>1, <3>2, ObjectConstants DEF Of
    <2>6. \A c : Places(drops, Strong(c)) = 0
      BY <2>2, QuietPlaces
    <2> QED
      BY <1>1, <2>1, <2>2, <2>4, <2>5, <2>6 DEF NamelessInv
  <1>5. CASE EmergencyGc
    <2>1. /\ Quiet /\ pc \in {"allocate", "fill", "register", "place"} /\ pc' = "drain"
          /\ ret' = pc /\ UNCHANGED <<state, field, metas, local>>
      BY <1>5 DEF EmergencyGc, Fallible, StartCollection, memory, table
    <2>2. At' = At /\ Of' = Of
      BY <2>1 DEF At, Of
    <2> QED
      BY <1>1, <2>1, <2>2, NamelessQuiet
  <1>6. CASE MemoryError
    <2>1. /\ Quiet /\ drops' = Drop(local) /\ pc \in {"allocate", "fill", "register", "place"}
          /\ UNCHANGED <<state, strong, field, metas>>
      BY <1>6 DEF MemoryError, Fallible, memory, table
    <2>2. Of' = Of
      BY <2>1 DEF Of
    <2>3. \A c : Places(drops, Strong(c)) = 0
      BY <2>1, QuietPlaces
    <2>4. At \in {"fill", "register"} =>
            /\ local \in Blocks /\ strong'[local] = 1
            /\ Places(drops', Strong(local)) = 1
      <3>1. At \in {"fill", "register"} => local \in Blocks /\ strong[local] = 1
        BY <1>1 DEF NamesInv, LocalInv, TypeOK
      <3>2. local \in Blocks => Places(drops', Strong(local)) = 1
        BY <2>1, DropPlaces
      <3> QED
        BY <2>1, <3>1, <3>2
    <2> QED
      BY <1>1, <2>1, <2>2, <2>3, <2>4 DEF NamelessInv
  <1> QED
    BY <1>2, <1>3, <1>4, <1>5, <1>6, NamelessDrops DEF Funnel

LEMMA NamelessCollect ==
  ASSUME IInv, GInv, Collect
  PROVE  NamelessInv'
  <1>1. TypeOK /\ LocalInv /\ NamelessInv /\ MarkInv /\ NamesInv
    BY DEF IInv, GInv
  <1>2. Quiet /\ UNCHANGED <<state, local>> /\ At' = At
    <2>1. /\ Quiet /\ UNCHANGED <<state, local>> /\ pc \in {"drain", "mark", "sweep"}
          /\ \/ pc' \in {"drain", "mark", "sweep"} /\ UNCHANGED ret
             \/ pc' = ret
      BY <1>1 DEF Collect, SkipCollection, EnterCycle, StartSweep, EndSweep, Mark, SweepDead,
                  SweepAlive, Return, memory, program, control, MarkInv, Quiet
    <2> QED
      BY <1>1, <2>1 DEF At, TypeOK
  <1>3. CASE \E i \in Ids : SweepDead(i)
    <2>1. PICK i \in Ids : SweepDead(i)
      BY <1>3
    <2> DEFINE b == metas[i].of
    <2>2. /\ b \in Blocks /\ metas[i] # NoMeta
      BY <1>1, <2>1 DEF SweepDead, Dead, TypeOK
    <2>3. /\ metas' = [metas EXCEPT ![i] = NoMeta]
          /\ \/ strong[b] > 0 /\ field' = [field EXCEPT ![b] = Nil]
             \/ ~(strong[b] > 0) /\ UNCHANGED field
      BY <2>1 DEF SweepDead
    <2> HIDE DEF b
    <2>4. \A j \in Ids : Of'[j] = Of[j] \/ Of[j] = b
      BY <1>1, <2>2, <2>3 DEF Of, b, TypeOK
    <2>5. state[b] = "alive" => field'[b] = Nil
      BY <1>1, <2>2, <2>3 DEF IInv, CountsExact, TypeOK
    <2>6. \A c \in Blocks : c # b => field'[c] = field[c]
      BY <1>1, <2>3 DEF TypeOK
    <2>7. \A c : Places(drops, Strong(c)) = 0
      BY <1>2, QuietPlaces
    <2> QED
      BY <1>1, <1>2, <2>2, <2>4, <2>5, <2>6, <2>7 DEF NamelessInv
  <1>4. CASE ~ \E i \in Ids : SweepDead(i)
    <2>1. UNCHANGED field /\ (UNCHANGED metas \/ \E S, w : w \in BOOLEAN /\ Paint(S, w))
      BY <1>4 DEF Collect, SkipCollection, EnterCycle, StartSweep, EndSweep, Mark, SweepAlive,
                  memory, table
    <2>2. Of' = Of
      BY <1>1, <2>1, PaintTypes DEF Of
    <2> QED
      BY <1>1, <1>2, <2>1, <2>2, NamelessQuiet
  <1> QED
    BY <1>3, <1>4

LEMMA NamelessStep ==
  ASSUME IInv, GInv, [Next]_vars
  PROVE  NamelessInv'
  <1>1. CASE UNCHANGED vars
    <2>1. /\ Of' = Of /\ At' = At /\ UNCHANGED <<state, strong, field, local, drops>>
      BY <1>1 DEF vars, Of, At, memory, table, program, control
    <2> QED
      BY <2>1 DEF GInv, NamelessInv
  <1> QED
    BY <1>1, Steps, NamelessProgram, NamelessFunnel, NamelessCollect

-----------------------------------------------------------------------------
LEMMA GInvInit == Init => GInv
  <1> SUFFICES ASSUME Init PROVE GInv
    OBVIOUS
  <1>1. TypeOK
    BY TypeInit
  <1>2. Accessible = {}
    <2>1. Held \subseteq {}
      BY DEF Init, Held, Roots
    <2>2. Reach(Held, field) \subseteq {}
      BY <2>1, ReachLeast
    <2> QED
      BY <2>2 DEF Accessible
  <1>3. At = "run" /\ pc = "run" /\ gray = {}
    BY DEF Init, At
  <1> QED
    BY <1>2, <1>3 DEF GInv, NamesInv, MarkInv, SweepInv, NamelessInv, Collecting, Init

LEMMA GInvStep ==
  ASSUME IInv, GInv, "reserve_after" \notin Habits, [Next]_vars
  PROVE  GInv'
  BY NamesStep, MarkStep, SweepStep, NamelessStep DEF GInv

(* The inductive invariant of the ids and of the collection.                 *)
THEOREM IdInvariant ==
  ASSUME "reserve_after" \notin Habits
  PROVE  Spec => [](IInv /\ GInv)
  <1>1. Init => GInv
    BY GInvInit
  <1>2. IInv /\ GInv /\ [Next]_vars => GInv'
    BY GInvStep
  <1> QED
    BY <1>1, <1>2, ObjectInvariant, PTL DEF Spec

(* Every registered object the program can get at is the one its id leads    *)
(* to, and no id is free and in use, or free twice.                          *)
THEOREM UniqueIds ==
  ASSUME "reserve_after" \notin Habits
  PROVE  Spec => []IdsUnique
  <1>1. IInv /\ GInv => IdsUnique
    BY DEF IInv, GInv, NamesInv, IdTable, IdsUnique, ToSet
  <1> QED
    BY <1>1, IdInvariant, PTL

(* A sweep, with all the drops it causes, leaves every field alone that the  *)
(* program can get at, the object whose allocation collects included.        *)
THEOREM SparesAccessible ==
  ASSUME "reserve_after" \notin Habits
  PROVE  Spec => SweepSparesAccessible
  <1>1. IInv /\ GInv /\ [Next]_vars
          => [pc = "sweep" => \A b \in Accessible : field'[b] = field[b]]_vars
    BY SweepKeeps
  <1> QED
    BY <1>1, IdInvariant, PTL DEF Spec, SweepSparesAccessible

(* When a collection ends, whatever is not free can be got at: cycles too.   *)
LEMMA Reclaimed ==
  ASSUME IInv, GInv, EndSweep, NEW b \in Blocks, state[b] # "free"
  PROVE  b \in Accessible
  <1>1. TypeOK /\ CountsExact /\ FieldInv /\ NamelessInv /\ IdTable
    BY DEF IInv, GInv
  <1>2. /\ pc = "sweep" /\ drops = <<>> /\ left = {} /\ queue = <<>>
    BY DEF EndSweep, Quiet, GInv, NamesInv, Collecting
  <1>3. \A v : Places(queue, v) = 0 /\ Places(drops, v) = 0
    BY <1>2, PlacesEmpty
  <1>4. ASSUME NEW i \in Ids, NEW c \in Blocks, Of[i] = c
        PROVE  c \in Accessible
    <2>1. metas[i] # NoMeta /\ metas[i].of = c
      BY <1>4, ObjectConstants DEF Of
    <2>2. ~metas[i].white
      BY <1>1, <1>2, <2>1 DEF GInv, SweepInv, IdTable
    <2> QED
      BY <1>2, <2>1, <2>2 DEF GInv, MarkInv
  <1>5. /\ Places(stack, b) \in Nat /\ Places(field, b) \in Nat /\ Places(Of, b) \in Nat
        /\ strong[b] = Places(stack, b) + Places(field, b) + Places(queue, b)
                       + (IF local = b THEN 1 ELSE 0) + Places(drops, Strong(b))
        /\ weak[b] = Places(Of, b) + Places(drops, Weak(b))
                     + (IF state[b] = "alive" THEN 1 ELSE 0)
        /\ (state[b] = "alive") = (strong[b] > 0)
        /\ (state[b] = "free") = (weak[b] = 0)
    BY <1>1, CountFacts DEF CountsExact
  <1>6. CASE state[b] # "alive"
    <2>1. Places(Of, b) > 0
      BY <1>3, <1>5, <1>6
    <2>2. \E i \in Ids : Of[i] = b
      <3>1. DOMAIN Of = Ids /\ IsFiniteSet(Ids)
        BY <1>1, Domains
      <3> QED
        BY <2>1, <3>1, PlacesFinite
    <2> QED
      BY <1>4, <2>2
  <1>7. CASE state[b] = "alive"
    <2>1. Places(stack, b) > 0 \/ Places(field, b) > 0 \/ local = b
      BY <1>3, <1>5, <1>7
    <2>2. CASE local = b
      BY <1>1, <2>2, HeldBlocks, ObjectConstants
    <2>3. CASE Places(stack, b) > 0
      <3>1. \E s \in Slots : stack[s] = b
        <4>1. DOMAIN stack = Slots /\ IsFiniteSet(Slots)
          BY <1>1, Domains
        <4> QED
          BY <2>3, <4>1, PlacesFinite
      <3> QED
        BY <1>1, <3>1, HeldBlocks, ObjectConstants DEF Roots
    <2>4. CASE Places(field, b) > 0
      <3>1. PICK c \in Blocks : field[c] = b
        <4>1. DOMAIN field = Blocks /\ IsFiniteSet(Blocks)
          BY <1>1, Domains
        <4> QED
          BY <2>4, <4>1, PlacesFinite
      <3>2. state[c] = "alive" /\ field[c] # Nil
        BY <1>1, <3>1, ObjectConstants DEF FieldInv
      <3>3. c \in Accessible
        <4>1. CASE \E i \in Ids : Of[i] = c
          BY <1>4, <4>1
        <4>2. CASE \A i \in Ids : Of[i] # c
          <5>1. c = local
            BY <1>1, <1>3, <3>2, <4>2 DEF NamelessInv
          <5> QED
            BY <1>1, <5>1, HeldBlocks, ObjectConstants
        <4> QED
          BY <4>1, <4>2
      <3> QED
        BY <1>1, <3>1, <3>2, <3>3, HeldBlocks
    <2> QED
      BY <2>1, <2>2, <2>3, <2>4
  <1> QED
    BY <1>6, <1>7

THEOREM Reclaims ==
  ASSUME "reserve_after" \notin Habits
  PROVE  Spec => CollectionReclaims
  <1>1. ASSUME IInv, GInv, [Next]_vars, pc = "sweep", pc' # "sweep"
        PROVE  \A b \in Blocks : state[b] # "free" => b \in Accessible
    <2>1. EndSweep
      BY <1>1, SweepSteps
         DEF DropHandle, DropWeakHandle, SweepDead, SweepAlive, vars, control
    <2> QED
      BY <1>1, <2>1, Reclaimed
  <1>2. IInv /\ GInv /\ [Next]_vars
          => [pc = "sweep" /\ pc' # "sweep" =>
                \A b \in Blocks : state[b] # "free" => b \in Accessible]_vars
    BY <1>1
  <1> QED
    BY <1>2, IdInvariant, PTL DEF Spec, CollectionReclaims
=============================================================================

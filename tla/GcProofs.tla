------------------------------ MODULE GcProofs ------------------------------
(* Theorems about the collection of gc.rs, for every set of objects, every *)
(* weak mode and every program the assumptions of Gc admit.                *)
EXTENDS Gc, SequenceTheorems, TLAPS

-----------------------------------------------------------------------------
(* The elements of a sequence after the list operations of the model. *)

LEMMA MembersEmpty == Members(<<>>) = {}
  BY DEF Members

LEMMA MembersAppend ==
  ASSUME NEW S, NEW s \in Seq(S), NEW x \in S
  PROVE  /\ Append(s, x) \in Seq(S)
         /\ Members(Append(s, x)) = Members(s) \cup {x}
  BY DEF Members

LEMMA MembersTail ==
  ASSUME NEW S, NEW s \in Seq(S), s # <<>>
  PROVE  /\ Tail(s) \in Seq(S)
         /\ Head(s) \in S
         /\ Members(s) = {Head(s)} \cup Members(Tail(s))
  <1>1. Tail(s) \in Seq(S) /\ Head(s) \in S
    OBVIOUS
  <1>2. \A i \in 1..Len(Tail(s)) : Tail(s)[i] = s[i + 1] /\ i + 1 \in 1..Len(s)
    OBVIOUS
  <1>3. \A i \in 2..Len(s) : i - 1 \in 1..Len(Tail(s)) /\ Tail(s)[i - 1] = s[i]
    OBVIOUS
  <1>4. ASSUME NEW i \in 1..Len(s)
        PROVE  s[i] \in {Head(s)} \cup Members(Tail(s))
    <2>1. CASE i = 1
      BY <2>1
    <2>2. CASE i \in 2..Len(s)
      BY <1>3, <2>2 DEF Members
    <2> QED
      BY <2>1, <2>2
  <1>5. Members(s) \subseteq {Head(s)} \cup Members(Tail(s))
    BY <1>4 DEF Members
  <1>6. Members(Tail(s)) \subseteq Members(s)
    BY <1>2 DEF Members
  <1>7. Head(s) \in Members(s)
    BY DEF Members
  <1> QED
    BY <1>1, <1>5, <1>6, <1>7

LEMMA MembersDropped ==
  ASSUME NEW S, NEW s \in Seq(S), NEW i \in 1..Len(s)
  PROVE  /\ Dropped(s, i) \in Seq(S)
         /\ s[i] \in S
         /\ Members(s) = {s[i]} \cup Members(Dropped(s, i))
  <1>1. Len(s) \in Nat \ {0} /\ \A j \in 1..Len(s) : s[j] \in S
    OBVIOUS
  <1> DEFINE n == Len(s) - 1
             f == [j \in 1..n |-> IF j < i THEN s[j] ELSE s[j + 1]]
  <1>2. n \in Nat /\ \A j \in 1..n : f[j] \in S
    BY <1>1
  <1>3. /\ \A j \in 1..Len(s) : j < i => j \in 1..n /\ f[j] = s[j]
        /\ \A j \in 1..Len(s) : j > i => j - 1 \in 1..n /\ f[j - 1] = s[j]
        /\ \A j \in 1..n : j \in 1..Len(s) /\ j + 1 \in 1..Len(s)
    BY <1>1
  <1>4. \A j \in 1..Len(s) : j < i \/ j = i \/ j > i
    OBVIOUS
  <1>5. \A j \in 1..n : f[j] = s[j] \/ f[j] = s[j + 1]
    OBVIOUS
  <1> HIDE DEF n
  <1>6. f \in Seq(S) /\ Len(f) = n
    <2>1. f \in [1..n -> S]
      BY <1>2
    <2> HIDE DEF f
    <2> QED
      BY <1>2, <2>1
  <1>7. Dropped(s, i) = f
    BY DEF Dropped, n
  <1> HIDE DEF f
  <1>8. Members(f) \subseteq Members(s)
    BY <1>3, <1>5, <1>6 DEF Members
  <1>9. Members(s) \subseteq {s[i]} \cup Members(f)
    BY <1>3, <1>4, <1>6 DEF Members
  <1>10. s[i] \in S /\ s[i] \in Members(s)
    BY <1>1 DEF Members
  <1> QED
    BY <1>6, <1>7, <1>8, <1>9, <1>10

LEMMA MembersType ==
  ASSUME NEW S, NEW s \in Seq(S)
  PROVE  Members(s) \subseteq S
  BY DEF Members

-----------------------------------------------------------------------------
(* Type correctness. *)

LEMMA TypeOKInit == Init => TypeOK
  <1> SUFFICES ASSUME Init PROVE TypeOK
    OBVIOUS
  <1>1. /\ fields \in [Obj -> SUBSET Obj] /\ pairs \in [Obj -> SUBSET (Val \X Val)]
        /\ mode \in [Obj -> SUBSET {"k", "v"}] /\ hasGc \in [Obj -> BOOLEAN]
    BY DEF Init
  <1>2. finobj \in Seq(Obj) /\ keep \in Seq(Obj) /\ tobefnz \in Seq(Obj)
        /\ closeQ \in Seq(Obj)
    BY EmptySeq DEF Init
  <1> QED
    BY <1>1, <1>2 DEF Init, TypeOK

(* The heap keeps its type through the program's writes. *)
LEMMA TypeOKMutator ==
  ASSUME TypeOK, Mutator
  PROVE  TypeOK'
  <1> USE DEF TypeOK, heapVars, markVars, finVars, closeVars, ghostVars
  <1>1. ASSUME NEW o \in Obj, Alloc(o) \/ Forget(o) \/ Erase(o)
        PROVE  TypeOK'
    <2>1. CASE Alloc(o)
      BY <2>1 DEF Alloc
    <2>2. CASE Forget(o)
      BY <2>2 DEF Forget
    <2>3. CASE Erase(o)
      <3>1. fields' \in [Obj -> SUBSET Obj]
        BY <2>3 DEF Erase
      <3>2. pairs' \in [Obj -> SUBSET (Val \X Val)]
        BY <2>3 DEF Erase
      <3>3. UNCHANGED <<roots, mode, hasGc, live, markVars, weakReg, finVars,
                        phase, emergency, closeVars, ghostVars>>
        BY <2>3 DEF Erase
      <3> QED
        BY <3>1, <3>2, <3>3
    <2> QED
      BY <1>1, <2>1, <2>2, <2>3
  <1>2. ASSUME NEW o \in Obj, NEW x \in Obj, Load(o, x) \/ SetField(o, x)
        PROVE  TypeOK'
    <2>1. CASE Load(o, x)
      BY <2>1 DEF Load
    <2>2. CASE SetField(o, x)
      <3>1. fields' \in [Obj -> SUBSET Obj]
        BY <2>2 DEF SetField
      <3>2. UNCHANGED <<roots, pairs, mode, hasGc, live, markVars, weakReg,
                        finVars, phase, emergency, closeVars, ghostVars>>
        BY <2>2 DEF SetField
      <3> QED
        BY <3>1, <3>2
    <2> QED
      BY <1>2, <2>1, <2>2
  <1>3. ASSUME NEW o \in Obj, NEW k \in Val, NEW v \in Val, SetPair(o, k, v)
        PROVE  TypeOK'
    <2>1. {p \in pairs[o] : p[1] # k} \cup {<<k, v>>} \in SUBSET (Val \X Val)
      OBVIOUS
    <2> QED
      BY <1>3, <2>1 DEF SetPair
  <1>4. ASSUME NEW o \in Obj, NEW m \in Modes, NEW g \in BOOLEAN,
               SetMetatable(o, m, g) \/ DebugSetMetatable(o, m, g)
        PROVE  TypeOK'
    <2>1. m \in SUBSET {"k", "v"}
      BY ModesAssumption
    <2>2. mode' = [mode EXCEPT ![o] = m] /\ hasGc' = [hasGc EXCEPT ![o] = g]
      BY <1>4 DEF SetMetatable, DebugSetMetatable
    <2>3. finobj' \in Seq(Obj)
      <3>1. Append(finobj, o) \in Seq(Obj)
        BY MembersAppend
      <3> QED
        BY <1>4, <3>1 DEF SetMetatable, DebugSetMetatable
    <2>4. owed' \subseteq Obj /\ earlier' \subseteq Obj \X Obj
      BY <1>4 DEF SetMetatable, DebugSetMetatable, Owe, Without
    <2>5. weakReg' \subseteq Obj
      BY <1>4 DEF SetMetatable, DebugSetMetatable
    <2>6. UNCHANGED <<roots, live, fields, pairs, gray, aux, worklist, keep,
                      tobefnz, running, phase, emergency, closeVars>>
      BY <1>4 DEF SetMetatable, DebugSetMetatable
    <2> QED
      BY <2>1, <2>2, <2>3, <2>4, <2>5, <2>6
  <1>5. ASSUME NEW o \in Obj, NEW m \in Modes, ChangeMode(o, m)
        PROVE  TypeOK'
    BY <1>5, ModesAssumption DEF ChangeMode
  <1> QED
    BY <1>1, <1>2, <1>3, <1>4, <1>5 DEF Mutator

(* The steps of the collector. *)
LEMMA TypeOKCollector ==
  ASSUME TypeOK, CollectorStep \/ Enter
  PROVE  TypeOK'
  <1> USE DEF TypeOK, heapVars, markVars, finVars, closeVars, ghostVars
  <1>1. ASSUME NEW o \in Obj PROVE Children(o) \subseteq Obj
    BY ObjAssumption DEF Children, Keys, Vals, Val
  <1>2. ASSUME NEW o \in Obj, MarkOne(o) PROVE TypeOK'
    BY <1>1, <1>2 DEF MarkOne
  <1>3. ASSUME NEW p \in Val \X Val, PullKey(p) PROVE TypeOK'
    <2>1. p[1] \in Obj
      BY <1>3 DEF PullKey, PullsKey, Marked, Val
    <2> QED
      BY <1>3, <2>1 DEF PullKey
  <1>4. ASSUME NEW p \in Val \X Val, PullValue(p) PROVE TypeOK'
    <2>1. p[2] \in Obj
      BY <1>4 DEF PullValue, PullsValue, Marked, Val
    <2> QED
      BY <1>4, <2>1 DEF PullValue
  <1>5. CASE StartSeparation
    BY <1>5 DEF StartSeparation
  <1>6. CASE SeparateNext
    <2>0. PICK i \in 1..Len(finobj) : Separate(i)
      BY <1>6 DEF SeparateNext
    <2> DEFINE o == finobj[i]
    <2>1. o \in Obj /\ Dropped(finobj, i) \in Seq(Obj)
      BY MembersDropped
    <2>2. Append(keep, o) \in Seq(Obj) /\ Append(tobefnz, o) \in Seq(Obj)
      BY <2>1, MembersAppend
    <2>3. owed' \subseteq Obj /\ earlier' \subseteq Obj \X Obj
      BY <2>0 DEF Separate, Settle, Without
    <2>4. worklist' \subseteq Obj
      BY <2>0, <2>1 DEF Separate
    <2> HIDE DEF o
    <2>5. /\ finobj' \in Seq(Obj) /\ keep' \in Seq(Obj)
          /\ tobefnz' \in Seq(Obj)
      BY <2>0, <2>1, <2>2 DEF Separate, o
    <2> QED
      BY <2>0, <2>3, <2>4, <2>5 DEF Separate
  <1>7. CASE EndSeparation
    BY <1>7, EmptySeq DEF EndSeparation
  <1>8. CASE ClearWeakTables
    <2>1. fields' \in [Obj -> SUBSET Obj]
      BY <1>8 DEF ClearWeakTables
    <2>2. pairs' \in [Obj -> SUBSET (Val \X Val)]
      BY <1>8 DEF ClearWeakTables
    <2> QED
      BY <1>8, <2>1, <2>2 DEF ClearWeakTables
  <1>9. CASE CallFinalizer
    <2>1. Head(tobefnz) \in Obj /\ Tail(tobefnz) \in Seq(Obj)
      BY <1>9, MembersTail DEF CallFinalizer
    <2>2. owed' \subseteq Obj /\ earlier' \subseteq Obj \X Obj
      BY <1>9 DEF CallFinalizer, Settle, Without
    <2> QED
      BY <1>9, <2>1, <2>2 DEF CallFinalizer
  <1>10. CASE Sweep
    <2>1. fields' \in [Obj -> SUBSET Obj]
      BY <1>10 DEF Sweep
    <2>2. pairs' \in [Obj -> SUBSET (Val \X Val)]
      BY <1>10 DEF Sweep
    <2>3. mode' \in [Obj -> SUBSET {"k", "v"}]
      BY <1>10 DEF Sweep
    <2>4. hasGc' \in [Obj -> BOOLEAN]
      BY <1>10 DEF Sweep
    <2> QED
      BY <1>10, <2>1, <2>2, <2>3, <2>4 DEF Sweep
  <1>11. ASSUME NEW e \in BOOLEAN, EnterCycle(e) PROVE TypeOK'
    BY <1>11 DEF EnterCycle
  <1> QED
    BY <1>2, <1>3, <1>4, <1>5, <1>6, <1>7, <1>8, <1>9, <1>10, <1>11
       DEF CollectorStep, Enter

(* The steps of close_state. *)
LEMMA TypeOKClose ==
  ASSUME TypeOK, StartClose \/ CloseStep \/ FinalizerEnds
  PROVE  TypeOK'
  <1> USE DEF TypeOK, heapVars, markVars, finVars, closeVars, ghostVars
  <1>1. CASE StartClose
    BY <1>1 DEF StartClose
  <1>2. CASE DrainFinobj
    BY <1>2, EmptySeq DEF DrainFinobj
  <1>3. CASE CloseCallFinalizer
    <2>0. PICK i \in 1..Len(closeQ) : CloseCall(i)
      BY <1>3 DEF CloseCallFinalizer
    <2>1. closeQ[i] \in Obj /\ Remaining(i) \in Seq(Obj)
      BY MembersDropped DEF Remaining
    <2>2. owed' \subseteq Obj /\ earlier' \subseteq Obj \X Obj
      BY <2>0 DEF CloseCall, Settle, Without
    <2> QED
      BY <2>0, <2>1, <2>2 DEF CloseCall
  <1>4. CASE BreakRefs
    BY <1>4, EmptySeq DEF BreakRefs
  <1>5. CASE FinalizerEnds
    BY <1>5 DEF FinalizerEnds, FinalizerReturns, CloseFinalizerReturns
  <1> QED
    BY <1>1, <1>2, <1>3, <1>4, <1>5 DEF CloseStep

(* The collector, the program and close_state never leave the types of the *)
(* state: object lists hold objects, marks are marks on objects.           *)
THEOREM TypeCorrect == Spec => []TypeOK
  <1>1. TypeOK /\ [Next]_vars => TypeOK'
    <2> SUFFICES ASSUME TypeOK, [Next]_vars PROVE TypeOK'
      OBVIOUS
    <2>1. CASE Mutator
      BY <2>1, TypeOKMutator
    <2>2. CASE CollectorStep \/ Enter
      BY <2>2, TypeOKCollector
    <2>3. CASE StartClose \/ CloseStep \/ FinalizerEnds
      BY <2>3, TypeOKClose
    <2>4. CASE UNCHANGED vars
      BY <2>4 DEF TypeOK, vars, heapVars, markVars, finVars, closeVars,
                  ghostVars
    <2> QED
      BY <2>1, <2>2, <2>3, <2>4 DEF Next, Closed
  <1> QED
    BY <1>1, TypeOKInit, PTL DEF Spec

-----------------------------------------------------------------------------
(* Why no accessible object is ever swept.                                 *)
(*                                                                         *)
(* Colour decides the sweep, so every object a program could still get at  *)
(* must be marked by then; AccessibleIntact itself does not say why.  The  *)
(* inductive invariant does: marked objects are closed under the strong    *)
(* references up to the worklist, and once the weak tables are cleared,    *)
(* under all references, because every weak table is registered.  It needs *)
(* a program that sets __mode before setmetatable and whose finalizers     *)
(* create no objects.                                                      *)

(* All references out of o, and the strong ones, lead into S. *)
Within(o, S) ==
    /\ fields[o] \subseteq S
    /\ \A p \in pairs[o] : p[1] \in S \cup {Plain} /\ p[2] \in S \cup {Plain}
StronglyWithin(o, S) ==
    /\ "v" \in mode[o] \/ fields[o] \subseteq S
    /\ \A p \in pairs[o] : /\ "k" \in mode[o] \/ p[1] \in S \cup {Plain}
                           /\ mode[o] # {} \/ p[2] \in S \cup {Plain}

HeapInv ==
    /\ roots \subseteq live
    /\ \A o \in Obj : Within(o, live)
    /\ \A o \in Obj \ live : /\ fields[o] = {} /\ pairs[o] = {}
                             /\ mode[o] = {} /\ ~hasGc[o]
    /\ \A o \in Obj : mode[o] # {} => o \in weakReg

Painted(S) == /\ S \subseteq live
              /\ gray \subseteq S
              /\ aux \ Threads \subseteq gray
              /\ roots \cup Members(tobefnz) \subseteq S

MarkingInv ==
    phase \in {"mark", "separate", "remark"} =>
       /\ Painted(aux \cup worklist)
       /\ \A o \in aux : StronglyWithin(o, aux \cup worklist)

MarkedInv ==
    phase = "finalize" =>
       /\ worklist = {}
       /\ Painted(aux)
       /\ \A o \in aux : Within(o, aux)

IInv == /\ HeapInv /\ MarkingInv /\ MarkedInv
        /\ phase \in {"idle", "mark"} => tobefnz = <<>>

LEMMA WithinRefs ==
  ASSUME TypeOK, NEW o \in Obj, NEW S, Within(o, S)
  PROVE  Refs(o) \subseteq S
  BY DEF Within, Refs, Keys, Vals, TypeOK

LEMMA RefsWithin ==
  ASSUME TypeOK, NEW o \in Obj, NEW S, Refs(o) \subseteq S
  PROVE  Within(o, S)
  BY DEF Within, Refs, Keys, Vals, TypeOK

LEMMA ChildrenWithin ==
  ASSUME TypeOK, NEW o \in Obj, NEW S
  PROVE  Children(o) \subseteq S => StronglyWithin(o, S)
  BY DEF StronglyWithin, Children, Keys, Vals, TypeOK

LEMMA IInvInit == Init => IInv
  BY MembersEmpty
     DEF Init, IInv, HeapInv, MarkingInv, MarkedInv, Within

(* The program reads and writes what it can get at, which is intact and,   *)
(* while a collection runs a finalizer, marked.                            *)
LEMMA IInvMutator ==
  ASSUME "late_mode" \notin Ops, "finalizer_alloc" \notin Ops,
         TypeOK, IInv, Mutator
  PROVE  IInv'
  <1> USE DEF TypeOK, IInv, heapVars, markVars, finVars, closeVars, ghostVars
  <1>1. phase \in {"idle", "finalize"} /\ phase' = phase /\ tobefnz' = tobefnz
    BY DEF Mutator, Alloc, Forget, Erase, Load, SetField, SetPair,
           SetMetatable, DebugSetMetatable, ChangeMode, LuaRuns, InProgram,
           InFinalizer, InCloseFinalizer
  <1>2. MarkingInv'
    BY <1>1 DEF MarkingInv
  <1>3. ASSUME NEW o \in Obj, Alloc(o) PROVE HeapInv' /\ MarkedInv'
    <2>1. phase = "idle" /\ phase' = "idle"
      BY <1>3, <1>1 DEF Alloc, LuaRuns, InProgram, InFinalizer,
                        InCloseFinalizer
    <2>2. o \notin live
      BY <1>3 DEF Alloc, Held
    <2>3. UNCHANGED <<fields, pairs, mode, hasGc, weakReg>>
          /\ live' = live \cup {o} /\ roots' = roots \cup {o}
      BY <1>3 DEF Alloc
    <2> QED
      BY <2>1, <2>2, <2>3 DEF HeapInv, MarkedInv, Within
  <1>4. ASSUME NEW o \in Obj, NEW x \in Obj, Load(o, x)
        PROVE  HeapInv' /\ MarkedInv'
    <2>1. UNCHANGED <<fields, pairs, mode, hasGc, weakReg, live, gray, aux,
                      worklist>> /\ roots' = roots \cup {x}
      BY <1>4 DEF Load
    <2>2. o \in roots /\ x \in Refs(o)
      BY <1>4 DEF Load
    <2>3. x \in live
      BY <2>2, WithinRefs DEF HeapInv
    <2>4. phase = "finalize" => x \in aux
      BY <2>2, WithinRefs DEF MarkedInv, Painted
    <2> QED
      BY <1>1, <2>1, <2>3, <2>4 DEF HeapInv, MarkedInv, Painted, Within
  <1>5. ASSUME NEW o \in Obj, Forget(o) PROVE HeapInv' /\ MarkedInv'
    <2>1. UNCHANGED <<fields, pairs, mode, hasGc, weakReg, live, gray, aux,
                      worklist>> /\ roots' \subseteq roots
      BY <1>5 DEF Forget
    <2> QED
      BY <1>1, <2>1 DEF HeapInv, MarkedInv, Painted, Within
  <1>6. ASSUME NEW o \in Obj, NEW x \in Obj, SetField(o, x)
        PROVE  HeapInv' /\ MarkedInv'
    <2>1. UNCHANGED <<pairs, mode, hasGc, weakReg, live, gray, aux, worklist,
                      roots>>
          /\ o \in roots /\ x \in roots
      BY <1>6 DEF SetField
    <2>2. /\ fields'[o] = fields[o] \cup {x}
          /\ \A q \in Obj \ {o} : fields'[q] = fields[q]
      BY <1>6 DEF SetField
    <2>3. ASSUME NEW S, Within(o, S), roots \subseteq S PROVE Within(o, S)'
      BY <2>1, <2>2, <2>3 DEF Within
    <2>4. ASSUME NEW S, NEW q \in Obj \ {o}, Within(q, S) PROVE Within(q, S)'
      BY <2>1, <2>2, <2>4 DEF Within
    <2>5. HeapInv'
      BY <2>1, <2>2, <2>3, <2>4 DEF HeapInv
    <2>6. MarkedInv'
      BY <1>1, <2>1, <2>3, <2>4 DEF MarkedInv, Painted
    <2> QED
      BY <2>5, <2>6
  <1>7. ASSUME NEW o \in Obj, NEW k \in Val, NEW v \in Val, SetPair(o, k, v)
        PROVE  HeapInv' /\ MarkedInv'
    <2>1. UNCHANGED <<fields, mode, hasGc, weakReg, live, gray, aux, worklist,
                      roots>>
          /\ o \in roots /\ k \in roots \cup {Plain} /\ v \in roots \cup {Plain}
      BY <1>7 DEF SetPair
    <2>2. /\ pairs'[o] \subseteq pairs[o] \cup {<<k, v>>}
          /\ \A q \in Obj \ {o} : pairs'[q] = pairs[q]
      BY <1>7 DEF SetPair
    <2>3. ASSUME NEW S, Within(o, S), roots \subseteq S PROVE Within(o, S)'
      BY <2>1, <2>2, <2>3 DEF Within
    <2>4. ASSUME NEW S, NEW q \in Obj \ {o}, Within(q, S) PROVE Within(q, S)'
      BY <2>1, <2>2, <2>4 DEF Within
    <2>5. HeapInv'
      BY <2>1, <2>2, <2>3, <2>4 DEF HeapInv
    <2>6. MarkedInv'
      BY <1>1, <2>1, <2>3, <2>4 DEF MarkedInv, Painted
    <2> QED
      BY <2>5, <2>6
  <1>8. ASSUME NEW o \in Obj, Erase(o) PROVE HeapInv' /\ MarkedInv'
    <2>1. UNCHANGED <<mode, hasGc, weakReg, live, gray, aux, worklist, roots>>
          /\ o \in roots
      BY <1>8 DEF Erase
    <2>2. /\ fields'[o] = {} /\ pairs'[o] = {}
          /\ \A q \in Obj \ {o} : fields'[q] = fields[q] /\ pairs'[q] = pairs[q]
      BY <1>8 DEF Erase
    <2> QED
      BY <1>1, <2>1, <2>2 DEF HeapInv, MarkedInv, Painted, Within
  <1>9. ASSUME NEW o \in Obj, NEW m \in Modes, NEW g \in BOOLEAN,
               SetMetatable(o, m, g) \/ DebugSetMetatable(o, m, g)
        PROVE  HeapInv' /\ MarkedInv'
    <2>1. UNCHANGED <<fields, pairs, live, gray, aux, worklist, roots>>
          /\ o \in roots
      BY <1>9 DEF SetMetatable, DebugSetMetatable
    <2>2. \A q \in Obj \ {o} : mode'[q] = mode[q] /\ hasGc'[q] = hasGc[q]
      BY <1>9 DEF SetMetatable, DebugSetMetatable
    <2>3. weakReg \subseteq weakReg' /\ (mode'[o] # {} => o \in weakReg')
      BY <1>9 DEF SetMetatable, DebugSetMetatable
    <2>4. HeapInv'
      BY <1>1, <2>1, <2>2, <2>3 DEF HeapInv, Within
    <2>5. MarkedInv'
      BY <1>1, <2>1, <2>2, <2>3 DEF MarkedInv, Painted, Within
    <2> QED
      BY <2>4, <2>5
  <1>10. ASSUME NEW o \in Obj, NEW m \in Modes, ChangeMode(o, m)
         PROVE  FALSE
    BY <1>10 DEF ChangeMode
  <1>11. HeapInv' /\ MarkedInv'
    BY <1>3, <1>4, <1>5, <1>6, <1>7, <1>8, <1>9, <1>10 DEF Mutator
  <1> QED
    BY <1>1, <1>2, <1>11

(* Marking, up to the point where the weak tables are cleared. *)
LEMMA StronglyWithinGrows ==
  ASSUME NEW o \in Obj, NEW S, NEW T, S \subseteq T, StronglyWithin(o, S)
  PROVE  StronglyWithin(o, T)
  BY DEF StronglyWithin

LEMMA IInvMarking ==
  ASSUME TypeOK, IInv,
         \/ \E o \in Obj : MarkOne(o)
         \/ \E p \in Val \X Val : PullKey(p) \/ PullValue(p)
         \/ StartSeparation \/ SeparateNext \/ EndSeparation \/ Enter
  PROVE  IInv'
  <1> USE DEF TypeOK, IInv, heapVars, markVars, finVars, closeVars, ghostVars
  <1>1. UNCHANGED <<roots, fields, pairs, mode, hasGc, live, weakReg>>
    BY DEF MarkOne, PullKey, PullValue, StartSeparation, SeparateNext, Separate,
           EndSeparation, Enter, EnterCycle
  <1>2. HeapInv'
    BY <1>1 DEF HeapInv, Within
  <1>3. phase' \in {"mark", "separate", "remark"} /\ MarkedInv'
    BY DEF MarkOne, PullKey, PullValue, StartSeparation, SeparateNext, Separate,
           EndSeparation, Enter, EnterCycle, MarkedInv
  <1>5. ASSUME NEW o \in Obj, MarkOne(o) PROVE MarkingInv' /\ tobefnz' = tobefnz
    <2>1. /\ Painted(aux \cup worklist)
          /\ \A q \in aux : StronglyWithin(q, aux \cup worklist)
          /\ o \in worklist
      BY <1>5 DEF MarkOne, MarkingInv
    <2>2. /\ worklist' = (worklist \ {o}) \cup {x \in Children(o) : o \notin aux}
          /\ aux' = aux \cup {o}
          /\ gray' = IF o \in aux \/ o \in Threads \/ o \notin live
                       THEN gray ELSE gray \cup {o}
          /\ tobefnz' = tobefnz /\ phase' = phase
      BY <1>5 DEF MarkOne
    <2>3. aux \cup worklist \subseteq aux' \cup worklist'
      BY <2>2
    <2>4. Children(o) \subseteq live
      BY <2>1, WithinRefs DEF HeapInv, Children, Refs
    <2>5. Painted(aux \cup worklist)'
      BY <1>1, <2>1, <2>2, <2>3, <2>4 DEF Painted
    <2>6. ASSUME NEW q \in aux' PROVE StronglyWithin(q, aux \cup worklist)'
      <3>1. CASE q \in aux
        <4>1. StronglyWithin(q, aux' \cup worklist')
          BY <2>1, <2>3, <3>1, StronglyWithinGrows
        <4> QED
          BY <1>1, <4>1 DEF StronglyWithin
      <3>2. CASE q \notin aux
        <4>1. q = o /\ Children(o) \subseteq aux' \cup worklist'
          BY <2>2, <3>2
        <4>2. StronglyWithin(o, aux' \cup worklist')
          BY <4>1, ChildrenWithin
        <4> QED
          BY <1>1, <4>1, <4>2 DEF StronglyWithin
      <3> QED
        BY <3>1, <3>2
    <2> QED
      BY <2>2, <2>5, <2>6 DEF MarkingInv
  <1>6. ASSUME NEW p \in Val \X Val, PullKey(p) \/ PullValue(p)
        PROVE  MarkingInv' /\ tobefnz' = tobefnz
    <2>1. /\ Painted(aux) /\ worklist = {}
          /\ \A q \in aux : StronglyWithin(q, aux)
      BY <1>6 DEF PullKey, PullValue, MarkingInv
    <2>2. PICK o \in Obj : p \in pairs[o]
      BY <1>6 DEF PullKey, PullValue, EphemeronPairs, Ephemerons
    <2>3. p[1] \in live \cup {Plain} /\ p[2] \in live \cup {Plain}
      BY <2>2 DEF HeapInv, Within
    <2>4. PICK x \in Obj : /\ x \in live /\ worklist' = {x} /\ aux' = aux
                           /\ gray \subseteq gray'
                           /\ gray' \subseteq gray \cup {x}
                           /\ tobefnz' = tobefnz
      <3>1. CASE PullKey(p)
        BY <2>3, <3>1 DEF PullKey, PullsKey, Marked
      <3>2. CASE PullValue(p)
        BY <2>3, <3>2 DEF PullValue, PullsValue, Marked
      <3> QED
        BY <1>6, <3>1, <3>2
    <2>5. Painted(aux \cup worklist)'
      BY <1>1, <2>1, <2>4 DEF Painted
    <2>6. ASSUME NEW q \in aux PROVE StronglyWithin(q, aux \cup worklist)'
      BY <1>1, <2>1, <2>4, <2>6 DEF StronglyWithin
    <2> QED
      BY <2>4, <2>5, <2>6 DEF MarkingInv
  <1>7. ASSUME StartSeparation \/ EndSeparation
        PROVE  MarkingInv' /\ (phase' = "mark" => tobefnz' = <<>>)
    <2>1. UNCHANGED <<gray, aux, worklist, tobefnz>>
          /\ phase \in {"mark", "separate", "remark"}
          /\ phase' \in {"separate", "remark"}
      BY <1>7 DEF StartSeparation, EndSeparation
    <2> QED
      BY <1>1, <2>1 DEF MarkingInv, Painted, StronglyWithin
  <1>8. ASSUME SeparateNext
        PROVE  MarkingInv' /\ (phase' = "mark" => tobefnz' = <<>>)
    <2>0. PICK i \in 1..Len(finobj) : Separate(i)
      BY <1>8 DEF SeparateNext
    <2> DEFINE o == finobj[i]
    <2>1. o \in Obj /\ phase = "separate" /\ phase' = "separate"
      BY <2>0, MembersDropped DEF Separate
    <2>2. /\ worklist \subseteq worklist' /\ worklist' \subseteq worklist \cup {o}
          /\ o \in worklist' => o \in worklist \/ hasGc[o]
          /\ UNCHANGED <<gray, aux>>
      BY <2>0 DEF Separate, Resurrects
    <2>3. tobefnz' = tobefnz \/ (tobefnz' = Append(tobefnz, o) /\ o \in worklist')
      BY <2>0 DEF Separate, Resurrects
    <2> HIDE DEF o
    <2>4. Members(tobefnz') \subseteq Members(tobefnz) \cup worklist'
      <3>1. Members(Append(tobefnz, o)) = Members(tobefnz) \cup {o}
        BY <2>1, MembersAppend
      <3> QED
        BY <2>3, <3>1 DEF Members
    <2>5. /\ Painted(aux \cup worklist)
          /\ \A q \in aux : StronglyWithin(q, aux \cup worklist)
      BY <2>1 DEF MarkingInv
    <2>6. worklist' \subseteq live
      BY <2>1, <2>2, <2>5 DEF Painted, HeapInv
    <2>7. Painted(aux \cup worklist)'
      BY <1>1, <2>2, <2>4, <2>5, <2>6 DEF Painted, Members
    <2>8. ASSUME NEW q \in aux PROVE StronglyWithin(q, aux \cup worklist)'
      BY <1>1, <2>2, <2>5, <2>8 DEF StronglyWithin
    <2> QED
      BY <2>1, <2>2, <2>7, <2>8 DEF MarkingInv
  <1>9. ASSUME Enter PROVE MarkingInv' /\ tobefnz' = <<>>
    <2>1. /\ gray' = {} /\ aux' = {} /\ worklist' = roots
          /\ tobefnz = <<>> /\ tobefnz' = tobefnz
      BY <1>9 DEF Enter, EnterCycle, InProgram, InCloseFinalizer
    <2>2. Members(tobefnz') = {}
      BY <2>1, MembersEmpty
    <2> QED
      BY <1>1, <2>1, <2>2 DEF MarkingInv, Painted, HeapInv, Members
  <1>10. MarkingInv' /\ (phase' = "mark" => tobefnz' = <<>>)
    <2>1. CASE \E o \in Obj : MarkOne(o)
      BY <2>1, <1>5 DEF MarkOne
    <2>2. CASE \E p \in Val \X Val : PullKey(p) \/ PullValue(p)
      BY <2>2, <1>6 DEF PullKey, PullValue
    <2> QED
      BY <2>1, <2>2, <1>7, <1>8, <1>9
  <1> QED
    BY <1>2, <1>3, <1>10

(* Clearing the weak tables turns the strong closure into a full one: a    *)
(* weak table is registered, so no reference to an unmarked object is left *)
(* in a marked one.                                                        *)
LEMMA ClearedIsClosed ==
  ASSUME TypeOK, IInv, ClearWeakTables, NEW o \in aux
  PROVE  Within(o, aux)'
  <1> USE DEF TypeOK
  <1>1. /\ Painted(aux) /\ worklist = {} /\ Converged
        /\ StronglyWithin(o, aux)
        /\ o \in live /\ o \in Obj /\ aux' = aux
    BY DEF ClearWeakTables, Converged, IInv, MarkingInv, Painted, markVars
  <1>2. ASSUME NEW x \in live, Marked(x) PROVE x \in aux
    BY <1>1, <1>2, ObjAssumption DEF Marked, Painted
  <1>3. Within(o, live) /\ (mode[o] # {} => o \in weakReg)
    BY <1>1 DEF IInv, HeapInv
  <1>4. fields'[o] \subseteq aux
    <2>1. fields'[o] = IF o \in weakReg /\ "v" \in mode[o]
                         THEN {x \in fields[o] : Marked(x)} ELSE fields[o]
      BY <1>1 DEF ClearWeakTables
    <2> QED
      BY <1>1, <1>2, <1>3, <2>1 DEF Within, StronglyWithin
  <1>5. ASSUME NEW p \in pairs'[o]
        PROVE  p[1] \in aux \cup {Plain} /\ p[2] \in aux \cup {Plain}
    <2>1. p \in pairs[o] /\ (o \in weakReg => Survives(o, p))
      BY <1>1, <1>5 DEF ClearWeakTables
    <2>2. p[1] \in live \cup {Plain} /\ p[2] \in live \cup {Plain}
      BY <1>3, <2>1 DEF Within
    <2>3. p[1] \in aux \cup {Plain}
      BY <1>1, <1>2, <1>3, <2>1, <2>2 DEF StronglyWithin, Survives
    <2>4. CASE mode[o] = {}
      BY <1>1, <2>1, <2>4 DEF StronglyWithin
    <2>5. CASE "v" \in mode[o]
      BY <1>2, <1>3, <2>1, <2>2, <2>3, <2>5 DEF Survives
    <2>6. CASE mode[o] = {"k"}
      <3>1. o \in Ephemerons
        BY <1>1, <1>3, <2>6 DEF Ephemerons, Held
      <3>2. ~PullsValue(p)
        BY <1>1, <2>1, <3>1 DEF Converged, EphemeronPairs
      <3>3. Marked(p[1])
        BY <1>3, <2>1, <2>6 DEF Survives
      <3> QED
        BY <1>2, <2>2, <2>3, <3>2, <3>3 DEF PullsValue
    <2>7. mode[o] = {} \/ "v" \in mode[o] \/ mode[o] = {"k"}
      <3>1. mode[o] \in SUBSET {"k", "v"}
        BY <1>1
      <3> QED
        BY <3>1
    <2> QED
      BY <2>3, <2>4, <2>5, <2>6, <2>7
  <1> QED
    BY <1>1, <1>4, <1>5 DEF Within

LEMMA IInvClearing ==
  ASSUME TypeOK, IInv, ClearWeakTables
  PROVE  IInv'
  <1> USE DEF TypeOK, IInv, heapVars, markVars, finVars, closeVars, ghostVars
  <1>1. /\ UNCHANGED <<roots, mode, hasGc, live, gray, aux, worklist, tobefnz>>
        /\ phase = "remark" /\ phase' = "finalize" /\ worklist = {}
    BY DEF ClearWeakTables, Converged
  <1>2. \A o \in Obj : fields'[o] \subseteq fields[o] /\ pairs'[o] \subseteq pairs[o]
    BY DEF ClearWeakTables
  <1>3. \A o \in Obj : mode'[o] # {} => o \in weakReg'
    BY <1>1 DEF ClearWeakTables, Held, HeapInv
  <1>4. HeapInv'
    BY <1>1, <1>2, <1>3 DEF HeapInv, Within
  <1>5. Painted(aux)'
    BY <1>1 DEF MarkingInv, Painted, Members
  <1>6. \A o \in aux' : Within(o, aux)'
    BY <1>1, ClearedIsClosed
  <1> QED
    BY <1>1, <1>4, <1>5, <1>6 DEF MarkingInv, MarkedInv

(* A finalizer is run with a marked object on the stack. *)
LEMMA IInvCallFinalizer ==
  ASSUME TypeOK, IInv, CallFinalizer
  PROVE  IInv'
  <1> USE DEF TypeOK, IInv, heapVars, markVars, finVars, closeVars, ghostVars
  <1>1. /\ UNCHANGED <<fields, pairs, mode, hasGc, live, weakReg, gray, aux,
                       worklist, phase>>
        /\ phase = "finalize" /\ tobefnz # <<>>
    BY DEF CallFinalizer
  <1>2. /\ tobefnz' = Tail(tobefnz)
        /\ roots' \subseteq roots \cup {Head(tobefnz)}
    BY DEF CallFinalizer
  <1>3. /\ Head(tobefnz) \in aux /\ Members(Tail(tobefnz)) \subseteq aux
        /\ aux \subseteq live
    BY <1>1, MembersTail DEF MarkedInv, Painted
  <1>4. HeapInv'
    BY <1>1, <1>2, <1>3 DEF HeapInv, Within
  <1>5. Painted(aux)'
    BY <1>1, <1>2, <1>3 DEF MarkedInv, Painted, Members
  <1>6. \A o \in aux' : Within(o, aux)'
    BY <1>1 DEF MarkedInv, Within
  <1> QED
    BY <1>1, <1>4, <1>5, <1>6 DEF MarkingInv, MarkedInv

(* Only what aux_marked does not hold is swept. *)
LEMMA IInvSweep ==
  ASSUME TypeOK, IInv, Sweep
  PROVE  IInv'
  <1> USE DEF TypeOK, IInv, heapVars, markVars, finVars, closeVars, ghostVars
  <1> DEFINE dead == {o \in live : ~Marked(o)}
  <1>1. /\ UNCHANGED <<roots, weakReg, tobefnz>>
        /\ phase = "finalize" /\ phase' = "idle" /\ tobefnz = <<>>
        /\ live' = live \ dead
    BY DEF Sweep
  <1>2. \A o \in Obj :
          /\ fields'[o] = IF o \in dead THEN {} ELSE fields[o]
          /\ pairs'[o] = IF o \in dead THEN {} ELSE pairs[o]
          /\ mode'[o] = IF o \in dead THEN {} ELSE mode[o]
          /\ hasGc'[o] = (hasGc[o] /\ o \notin dead)
    BY DEF Sweep
  <1>3. live' = aux
    BY <1>1, ObjAssumption DEF MarkedInv, Painted, Marked
  <1> HIDE DEF dead
  <1>4. \A o \in Obj : o \in aux \/ o \in dead \/ o \notin live
    BY <1>1, <1>3
  <1>5. roots' \subseteq live'
    BY <1>1, <1>3 DEF MarkedInv, Painted
  <1>6. ASSUME NEW o \in Obj PROVE Within(o, live)'
    BY <1>1, <1>2, <1>3, <1>4 DEF MarkedInv, HeapInv, Within
  <1>7. ASSUME NEW o \in Obj \ live'
        PROVE  fields'[o] = {} /\ pairs'[o] = {} /\ mode'[o] = {} /\ ~hasGc'[o]
    BY <1>1, <1>2, <1>3, <1>4 DEF HeapInv
  <1>8. \A o \in Obj : mode'[o] # {} => o \in weakReg'
    BY <1>1, <1>2 DEF HeapInv
  <1>9. HeapInv'
    BY <1>5, <1>6, <1>7, <1>8 DEF HeapInv
  <1> QED
    BY <1>1, <1>9 DEF MarkingInv, MarkedInv

(* close_state only drops root values, besides running finalizers. *)
LEMMA IInvClose ==
  ASSUME TypeOK, IInv, StartClose \/ CloseStep \/ FinalizerEnds
  PROVE  IInv'
  <1> USE DEF TypeOK, IInv, heapVars, markVars, finVars, closeVars, ghostVars
  <1>1. /\ UNCHANGED <<fields, pairs, mode, hasGc, live, weakReg, gray, aux,
                       worklist, phase, tobefnz>>
        /\ phase \in {"idle", "finalize"}
    BY DEF StartClose, CloseStep, DrainFinobj, CloseCallFinalizer, CloseCall, BreakRefs,
           FinalizerEnds, FinalizerReturns, CloseFinalizerReturns
  <1>2. CASE CloseCallFinalizer
    <2>0. PICK i \in 1..Len(closeQ) : CloseCall(i)
      BY <1>2 DEF CloseCallFinalizer
    <2> DEFINE o == closeQ[i]
    <2>1. phase = "idle" /\ roots' = IF hasGc[o] THEN roots \cup {o} ELSE roots
      BY <2>0 DEF CloseCall
    <2>2. o \in Obj
      BY MembersDropped
    <2> HIDE DEF o
    <2>3. roots' \subseteq live
      BY <2>1, <2>2 DEF HeapInv
    <2> QED
      BY <1>1, <2>1, <2>3 DEF HeapInv, MarkingInv, MarkedInv, Within
  <1>3. CASE ~CloseCallFinalizer
    <2>1. roots' \subseteq roots
      BY <1>3 DEF StartClose, CloseStep, DrainFinobj, BreakRefs,
                  FinalizerEnds, FinalizerReturns, CloseFinalizerReturns
    <2>2. HeapInv'
      BY <1>1, <2>1 DEF HeapInv, Within
    <2> QED
      BY <1>1, <2>1, <2>2 DEF MarkingInv, MarkedInv, Painted, Within, Members
  <1> QED
    BY <1>2, <1>3

(* The inductive invariant: references stay within live objects, and marks *)
(* are closed under what keeps objects alive, but for the worklist.        *)
THEOREM HeapAndMarks ==
  ASSUME "late_mode" \notin Ops, "finalizer_alloc" \notin Ops
  PROVE  Spec => []IInv
  <1>1. TypeOK /\ IInv /\ [Next]_vars => IInv'
    <2> SUFFICES ASSUME TypeOK, IInv, [Next]_vars PROVE IInv'
      OBVIOUS
    <2>1. CASE Mutator
      BY <2>1, IInvMutator
    <2>2. CASE CollectorStep \/ Enter
      BY <2>2, IInvMarking, IInvClearing, IInvCallFinalizer, IInvSweep
         DEF CollectorStep
    <2>3. CASE StartClose \/ CloseStep \/ FinalizerEnds
      BY <2>3, IInvClose
    <2>4. CASE UNCHANGED vars
      BY <2>4 DEF IInv, HeapInv, MarkingInv, MarkedInv, Painted, Within,
                  StronglyWithin, Members, vars, heapVars, markVars, finVars
    <2> QED
      BY <2>1, <2>2, <2>3, <2>4 DEF Next, Closed
  <1> QED
    BY <1>1, TypeCorrect, IInvInit, PTL DEF Spec

(* A set that holds the roots and what can be read out of its members      *)
(* holds every accessible object.                                          *)
LEMMA AccessibleLeast ==
  ASSUME TypeOK, NEW S \in SUBSET Obj, roots \subseteq S,
         \A o \in S : Within(o, S)
  PROVE  Accessible \subseteq S
  BY WithinRefs DEF Accessible

(* A program that sets __mode before setmetatable and whose finalizers     *)
(* create no objects never gets hold of an object the collector emptied.   *)
THEOREM NothingAccessibleIsSwept ==
  ASSUME "late_mode" \notin Ops, "finalizer_alloc" \notin Ops
  PROVE  Spec => []AccessibleIntact
  <1>1. TypeOK /\ IInv => AccessibleIntact
    BY AccessibleLeast DEF TypeOK, IInv, HeapInv, AccessibleIntact
  <1> QED
    BY <1>1, TypeCorrect, HeapAndMarks, PTL

(* For such programs the comment on sweep_unreachable (gc.rs:861) is true: *)
(* everything accessible is marked when the sweep starts.                  *)
THEOREM AccessibleIsMarked ==
  ASSUME "late_mode" \notin Ops, "finalizer_alloc" \notin Ops
  PROVE  Spec => []MarkedBeforeSweep
  <1>1. TypeOK /\ IInv => MarkedBeforeSweep
    <2> SUFFICES ASSUME TypeOK, IInv, phase = "finalize"
                 PROVE  \A o \in Accessible : Marked(o)
      BY DEF MarkedBeforeSweep
    <2>1. /\ aux \in SUBSET Obj /\ roots \subseteq aux
          /\ \A o \in aux : Within(o, aux)
      BY DEF TypeOK, IInv, MarkedInv, Painted
    <2>2. Accessible \subseteq aux
      BY <2>1, AccessibleLeast
    <2> QED
      BY <2>1, <2>2 DEF Marked, IInv, MarkedInv, Painted
  <1> QED
    BY <1>1, TypeCorrect, HeapAndMarks, PTL
-----------------------------------------------------------------------------
(* No finalizer is lost: a theorem about finobj_list and to_finalize, for  *)
(* every set of objects.  It is about programs for which the objects in the *)
(* lists must be marked to survive, that mark objects with setmetatable and *)
(* that do not collect while close_state runs finalizers.                  *)

(* What waits is intact, and marked before the sweep decides. *)
ListedMarked ==
    /\ Listed \subseteq live
    /\ phase \in {"separate", "remark"} =>
          Members(keep) \subseteq aux \cup worklist
    /\ phase = "remark" => Members(finobj) \subseteq aux \cup worklist
    /\ phase = "finalize" => Members(finobj) \subseteq aux
    /\ phase # "separate" => keep = <<>>

(* The finalizers of close_state and the collections never overlap. *)
CloseOrder ==
    /\ closing # "finalizers" => closeQ = <<>> /\ closeRun = None
    /\ closing = "finalizers" => phase = "idle" /\ finobj = <<>>

FInv == ListedMarked /\ CloseOrder /\ owed \subseteq Listed

LEMMA FInvInit == Init => FInv
  BY MembersEmpty DEF Init, FInv, ListedMarked, CloseOrder, Listed

(* Marking only adds to what is marked or waits to be. *)
LEMMA MarksGrow ==
  ASSUME TypeOK, MarkedInv, MarkingInv,
         \/ \E o \in Obj : MarkOne(o)
         \/ \E p \in Val \X Val : PullKey(p) \/ PullValue(p)
         \/ StartSeparation \/ SeparateNext \/ EndSeparation
  PROVE  aux \cup worklist \subseteq aux' \cup worklist'
  <1>1. CASE \E o \in Obj : MarkOne(o)
    BY <1>1 DEF MarkOne
  <1>2. CASE \E p \in Val \X Val : PullKey(p) \/ PullValue(p)
    BY <1>2 DEF PullKey, PullValue
  <1>3. CASE StartSeparation \/ EndSeparation
    BY <1>3 DEF StartSeparation, EndSeparation, markVars
  <1>4. CASE SeparateNext
    BY <1>4 DEF SeparateNext, Separate
  <1> QED
    BY <1>1, <1>2, <1>3, <1>4

(* The program: setmetatable puts what it marks into finobj_list. *)
LEMMA FInvMutator ==
  ASSUME "debug_setmetatable" \notin Ops, "finalizer_alloc" \notin Ops,
         TypeOK, IInv, FInv, Mutator
  PROVE  FInv'
  <1> USE DEF FInv, heapVars, markVars, finVars, closeVars, ghostVars
  <1>1. /\ UNCHANGED <<aux, worklist, phase, closing, closeRun, keep, tobefnz,
                       closeQ>>
        /\ live \subseteq live'
        /\ phase \in {"idle", "finalize"}
    BY DEF Mutator, Alloc, Forget, Erase, Load, SetField, SetPair,
           SetMetatable, DebugSetMetatable, ChangeMode, LuaRuns, InProgram,
           InFinalizer, InCloseFinalizer
  <1>2. CASE UNCHANGED <<finobj, owed>>
    BY <1>1, <1>2 DEF ListedMarked, CloseOrder, Listed, Members
  <1>3. ASSUME NEW o \in Obj, NEW m \in Modes, NEW g \in BOOLEAN,
               SetMetatable(o, m, g)
        PROVE  FInv'
    <2>1. finobj' = IF g /\ Registers(o) THEN Append(finobj, o) ELSE finobj
      BY <1>3 DEF SetMetatable
    <2>2. Members(Append(finobj, o)) = Members(finobj) \cup {o}
      BY MembersAppend DEF TypeOK
    <2>3. /\ Members(finobj) \subseteq Members(finobj')
          /\ Members(finobj') \subseteq Members(finobj) \cup {o}
          /\ finobj' # finobj => closing = "open"
          /\ g /\ closing = "open" => o \in Members(finobj')
      BY <2>1, <2>2 DEF Registers, Members
    <2>4. /\ owed' \subseteq owed \cup {o}
          /\ owed' # owed => g /\ closing = "open"
      BY <1>3 DEF SetMetatable, Owe
    <2>5. o \in live /\ (phase = "finalize" => o \in aux)
      BY <1>3 DEF SetMetatable, IInv, HeapInv, MarkedInv, Painted
    <2>6. Listed \subseteq Listed' /\ Listed' \subseteq Listed \cup {o}
      BY <1>1, <2>3 DEF Listed, Members
    <2>7. owed' \subseteq Listed'
      BY <2>3, <2>4, <2>6 DEF Listed
    <2>8. ListedMarked'
      BY <1>1, <2>3, <2>5, <2>6 DEF ListedMarked
    <2>9. CloseOrder'
      BY <1>1, <2>3 DEF CloseOrder
    <2> QED
      BY <2>7, <2>8, <2>9
  <1>4. CASE \E o \in Obj : Alloc(o) \/ Forget(o) \/ Erase(o)
    BY <1>2, <1>4 DEF Alloc, Forget, Erase
  <1>5. CASE \E o, x \in Obj : Load(o, x) \/ SetField(o, x)
    BY <1>2, <1>5 DEF Load, SetField
  <1>6. CASE \E o \in Obj, k, v \in Val : SetPair(o, k, v)
    BY <1>2, <1>6 DEF SetPair
  <1>7. CASE \E o \in Obj, m \in Modes : ChangeMode(o, m)
    BY <1>2, <1>7 DEF ChangeMode
  <1> QED
    BY <1>3, <1>4, <1>5, <1>6, <1>7 DEF Mutator, DebugSetMetatable

(* Marking and separation: each object of finobj_list is kept, resurrected *)
(* or has lost its __gc, and then nothing is owed to it any more.          *)
LEMMA FInvMarking ==
  ASSUME "close_collect" \notin Ops, TypeOK, IInv, FInv,
         \/ \E o \in Obj : MarkOne(o)
         \/ \E p \in Val \X Val : PullKey(p) \/ PullValue(p)
         \/ StartSeparation \/ SeparateNext \/ EndSeparation \/ Enter
  PROVE  FInv'
  <1> USE DEF FInv, heapVars, markVars, finVars, closeVars, ghostVars
  <1>1. UNCHANGED <<live, closing, closeRun, closeQ>>
    BY DEF MarkOne, PullKey, PullValue, StartSeparation, SeparateNext,
           Separate, EndSeparation, Enter, EnterCycle
  <1>2. CASE Enter
    <2>1. UNCHANGED <<finobj, keep, tobefnz, owed>>
      BY <1>2 DEF Enter, EnterCycle
    <2>2. phase = "idle" /\ phase' = "mark" /\ closing # "finalizers"
      BY <1>2 DEF Enter, EnterCycle, InProgram, InCloseFinalizer
    <2> QED
      BY <1>1, <2>1, <2>2 DEF ListedMarked, CloseOrder, Listed, Members
  <1>3. CASE \/ \E o \in Obj : MarkOne(o)
             \/ \E p \in Val \X Val : PullKey(p) \/ PullValue(p)
             \/ StartSeparation
    <2>1. aux \cup worklist \subseteq aux' \cup worklist'
      BY <1>3, MarksGrow DEF IInv
    <2>2. UNCHANGED <<finobj, keep, tobefnz, owed>>
      BY <1>3 DEF MarkOne, PullKey, PullValue, StartSeparation
    <2>3. \/ phase \in {"mark", "remark"} /\ phase' = phase
          \/ phase = "mark" /\ phase' = "separate"
      BY <1>3 DEF MarkOne, PullKey, PullValue, StartSeparation
    <2>4. Members(<<>>) \subseteq aux' \cup worklist'
      BY MembersEmpty
    <2> QED
      BY <1>1, <2>1, <2>2, <2>3, <2>4
         DEF ListedMarked, CloseOrder, Listed, Members
  <1>4. CASE SeparateNext
    <2>0. PICK i \in 1..Len(finobj) : Separate(i)
      BY <1>4 DEF SeparateNext
    <2> DEFINE o == finobj[i]
    <2>1. o \in Obj /\ Members(finobj) = {o} \cup Members(Dropped(finobj, i))
      BY MembersDropped DEF TypeOK
    <2>2. /\ Members(Append(keep, o)) = Members(keep) \cup {o}
          /\ Members(Append(tobefnz, o)) = Members(tobefnz) \cup {o}
      BY <2>1, MembersAppend DEF TypeOK
    <2>3. /\ finobj' = Dropped(finobj, i)
          /\ keep' = IF Marked(o) \/ Postponed(o)
                       THEN Append(keep, o) ELSE keep
          /\ tobefnz' = IF ~Marked(o) /\ hasGc[o] /\ ~emergency
                          THEN Append(tobefnz, o) ELSE tobefnz
          /\ worklist' = worklist \cup {x \in {o} : Resurrects(x)}
          /\ aux' = aux /\ phase = "separate" /\ phase' = "separate"
      BY <2>0 DEF Separate
    <2>4. /\ owed' \subseteq owed
          /\ Marked(o) \/ hasGc[o] \/ o \notin owed'
      BY <2>0 DEF Separate, Settle
    <2> HIDE DEF o
    <2>5. o \in live
      BY <2>1 DEF ListedMarked, Listed
    <2>6. Marked(o) \/ hasGc[o] => o \in Members(keep') \cup Members(tobefnz')
      BY <2>2, <2>3 DEF Postponed, Members
    <2>7. /\ Members(keep) \subseteq Members(keep')
          /\ Members(tobefnz) \subseteq Members(tobefnz')
      BY <2>2, <2>3 DEF Members
    <2>8. /\ Members(keep') \subseteq Members(keep) \cup {o}
          /\ Members(tobefnz') \subseteq Members(tobefnz) \cup {o}
      BY <2>2, <2>3 DEF Members
    <2>9. Members(finobj) = {o} \cup Members(finobj')
      BY <2>1, <2>3 DEF Members
    <2>10. Members(closeQ') = Members(closeQ)
      BY <1>1 DEF Members
    <2>11. Listed' \subseteq Listed /\ owed' \subseteq Listed'
      BY <2>4, <2>6, <2>7, <2>8, <2>9, <2>10 DEF Listed
    <2>12. o \in Members(keep') /\ o \notin Members(keep)
              => o \in aux \cup worklist'
      <3>1. CASE Marked(o)
        <4>1. gray \subseteq aux \cup worklist
          BY <2>3 DEF IInv, MarkingInv, Painted
        <4> QED
          BY <2>1, <2>3, <2>5, <3>1, <4>1, ObjAssumption DEF Marked
      <3>2. CASE ~Marked(o)
        BY <2>2, <2>3, <3>2 DEF Postponed, Resurrects, Members
      <3> QED
        BY <3>1, <3>2
    <2>13. Members(keep') \subseteq aux' \cup worklist'
      BY <2>3, <2>8, <2>12 DEF ListedMarked
    <2>14. ListedMarked'
      BY <1>1, <2>3, <2>11, <2>13 DEF ListedMarked
    <2>15. CloseOrder'
      BY <1>1, <2>3 DEF CloseOrder
    <2> QED
      BY <2>11, <2>14, <2>15
  <1>5. CASE EndSeparation
    <2>1. /\ finobj = <<>> /\ finobj' = keep /\ keep' = <<>>
          /\ UNCHANGED <<aux, worklist, tobefnz, owed>>
          /\ phase = "separate" /\ phase' = "remark"
      BY <1>5 DEF EndSeparation
    <2>2. /\ Members(finobj') = Members(keep) /\ Members(keep') = {}
          /\ Members(finobj) = {} /\ Members(tobefnz') = Members(tobefnz)
          /\ Members(closeQ') = Members(closeQ)
      BY <1>1, <2>1, MembersEmpty DEF Members
    <2>3. Listed' = Listed
      BY <2>2 DEF Listed
    <2> QED
      BY <1>1, <2>1, <2>2, <2>3 DEF ListedMarked, CloseOrder
  <1> QED
    BY <1>2, <1>3, <1>4, <1>5

(* From the clearing of the weak tables to the sweep. *)
LEMMA FInvEnd ==
  ASSUME TypeOK, IInv, FInv, ClearWeakTables \/ CallFinalizer \/ Sweep
  PROVE  FInv'
  <1> USE DEF FInv, heapVars, markVars, finVars, closeVars, ghostVars
  <1>1. CASE ClearWeakTables
    <2>1. /\ UNCHANGED <<live, aux, finobj, keep, tobefnz, closeQ, closing,
                         closeRun, owed>>
          /\ phase = "remark" /\ phase' = "finalize" /\ worklist = {}
      BY <1>1 DEF ClearWeakTables, Converged
    <2> QED
      BY <2>1 DEF ListedMarked, CloseOrder, Listed, Members
  <1>2. CASE CallFinalizer
    <2>1. /\ UNCHANGED <<live, aux, finobj, keep, closeQ, closing, closeRun>>
          /\ phase = "finalize" /\ phase' = "finalize"
          /\ tobefnz' = Tail(tobefnz) /\ tobefnz # <<>>
      BY <1>2 DEF CallFinalizer
    <2>2. /\ owed' \subseteq owed
          /\ Head(tobefnz) \in Members(finobj) \/ Head(tobefnz) \notin owed'
      BY <1>2 DEF CallFinalizer, Settle
    <2>3. Members(tobefnz) = {Head(tobefnz)} \cup Members(tobefnz')
      <3>1. Members(tobefnz') = Members(Tail(tobefnz))
        BY <2>1 DEF Members
      <3> QED
        BY <2>1, <3>1, MembersTail DEF TypeOK
    <2>4. /\ Members(finobj') = Members(finobj)
          /\ Members(keep') = Members(keep)
          /\ Members(closeQ') = Members(closeQ)
      BY <2>1 DEF Members
    <2>5. Listed' \subseteq Listed /\ owed' \subseteq Listed'
      BY <2>2, <2>3, <2>4 DEF Listed
    <2> QED
      BY <2>1, <2>4, <2>5 DEF ListedMarked, CloseOrder
  <1>3. CASE Sweep
    <2>1. /\ UNCHANGED <<aux, finobj, keep, tobefnz, closeQ, closeRun, owed>>
          /\ phase = "finalize" /\ phase' = "idle" /\ tobefnz = <<>>
          /\ live' = live \ {o \in live : ~Marked(o)}
          /\ closing' = "finalizers" => closing = "finalizers"
      BY <1>3 DEF Sweep
    <2>2. aux \subseteq live'
      BY <2>1 DEF IInv, MarkedInv, Painted, Marked, TypeOK
    <2>3. Listed' = Members(finobj)
      BY <2>1, MembersEmpty DEF ListedMarked, CloseOrder, Listed, Members
    <2>4. Listed' = Listed
      BY <2>1 DEF Listed, Members
    <2> QED
      BY <2>1, <2>2, <2>3, <2>4 DEF ListedMarked, CloseOrder
  <1> QED
    BY <1>1, <1>2, <1>3

(* close_state takes over finobj_list and calls every finalizer in it. *)
LEMMA FInvClose ==
  ASSUME TypeOK, IInv, FInv, StartClose \/ CloseStep \/ FinalizerEnds
  PROVE  FInv'
  <1> USE DEF FInv, heapVars, markVars, finVars, closeVars, ghostVars
  <1>1. CASE StartClose \/ FinalizerEnds
    <2>1. /\ UNCHANGED <<live, aux, worklist, finobj, keep, tobefnz, closeQ,
                         phase, owed>>
          /\ closing' = "finalizers" <=> closing = "finalizers"
          /\ closeRun' \in {closeRun, None}
      BY <1>1 DEF StartClose, FinalizerEnds, FinalizerReturns,
                  CloseFinalizerReturns
    <2> QED
      BY <2>1 DEF ListedMarked, CloseOrder, Listed, Members
  <1>2. CASE DrainFinobj
    <2>1. /\ UNCHANGED <<live, keep, tobefnz, phase, owed>>
          /\ phase = "idle" /\ closing = "tbc" /\ closing' = "finalizers"
          /\ closeQ' = finobj /\ finobj' = <<>>
      BY <1>2 DEF DrainFinobj
    <2>2. /\ Members(closeQ') = Members(finobj) /\ Members(finobj') = {}
          /\ Members(closeQ) = {} /\ Members(keep') = Members(keep)
          /\ Members(tobefnz') = Members(tobefnz)
      BY <2>1, MembersEmpty DEF CloseOrder, Members
    <2>3. Listed' = Listed
      BY <2>2 DEF Listed
    <2> QED
      BY <2>1, <2>3 DEF ListedMarked, CloseOrder
  <1>3. CASE CloseCallFinalizer
    <2>0. PICK i \in 1..Len(closeQ) : CloseCall(i)
      BY <1>3 DEF CloseCallFinalizer
    <2>1. /\ UNCHANGED <<live, finobj, keep, tobefnz, phase, closing>>
          /\ phase = "idle" /\ closing = "finalizers"
          /\ closeQ' = Dropped(closeQ, i)
          /\ owed' = owed \ {closeQ[i]}
      BY <2>0 DEF CloseCall, Remaining, Settle
    <2>2. Members(closeQ) = {closeQ[i]} \cup Members(closeQ')
      <3>1. Members(closeQ') = Members(Dropped(closeQ, i))
        BY <2>1 DEF Members
      <3> QED
        BY <2>1, <3>1, MembersDropped DEF TypeOK
    <2>3. /\ Members(finobj') = Members(finobj)
          /\ Members(keep') = Members(keep)
          /\ Members(tobefnz') = Members(tobefnz)
      BY <2>1 DEF Members
    <2>4. Listed' \subseteq Listed /\ owed' \subseteq Listed'
      BY <2>1, <2>2, <2>3 DEF Listed
    <2> QED
      BY <2>1, <2>4 DEF ListedMarked, CloseOrder
  <1>4. CASE BreakRefs
    <2>1. /\ UNCHANGED <<live, keep, tobefnz, closeQ, closeRun, phase, owed>>
          /\ phase = "idle" /\ closing = "finalizers"
          /\ closing' = "broken" /\ closeQ = <<>> /\ closeRun = None
          /\ finobj' = <<>>
      BY <1>4 DEF BreakRefs
    <2>2. finobj' = finobj
      BY <2>1 DEF CloseOrder
    <2> QED
      BY <2>1, <2>2 DEF ListedMarked, CloseOrder, Listed, Members
  <1> QED
    BY <1>1, <1>2, <1>3, <1>4 DEF CloseStep

(* The lists that lead to a finalizer hold live objects, marked before the *)
(* sweep decides, and all that are owed one.                               *)
THEOREM FinalizerLists ==
  ASSUME Ops \subseteq {"finalizer", "emergency", "close"}
  PROVE  Spec => []FInv
  <1>1. TypeOK /\ IInv /\ FInv /\ [Next]_vars => FInv'
    <2> SUFFICES ASSUME TypeOK, IInv, FInv, [Next]_vars PROVE FInv'
      OBVIOUS
    <2>1. CASE Mutator
      BY <2>1, FInvMutator
    <2>2. CASE CollectorStep \/ Enter
      BY <2>2, FInvMarking, FInvEnd DEF CollectorStep
    <2>3. CASE StartClose \/ CloseStep \/ FinalizerEnds
      BY <2>3, FInvClose
    <2>4. CASE UNCHANGED vars
      BY <2>4 DEF FInv, ListedMarked, CloseOrder, Listed, Members, vars,
                  markVars, finVars, closeVars, ghostVars
    <2> QED
      BY <2>1, <2>2, <2>3, <2>4 DEF Next, Closed
  <1>2. Spec => []IInv
    BY HeapAndMarks
  <1> QED
    BY <1>1, <1>2, TypeCorrect, FInvInit, PTL DEF Spec

(* An object marked for finalization by setmetatable stays intact, and in  *)
(* one of the lists that lead to its finalizer, until that is called.      *)
THEOREM NoFinalizerIsLost ==
  ASSUME Ops \subseteq {"finalizer", "emergency", "close"}
  PROVE  Spec => []FinalizerNotLost
  <1>1. FInv => FinalizerNotLost
    BY DEF FInv, ListedMarked, Listed, FinalizerNotLost
  <1>2. Spec => []FInv
    BY FinalizerLists
  <1> QED
    BY <1>1, <1>2, PTL

-----------------------------------------------------------------------------
(* One finalizer call for one mark, and the order of the calls at close: a *)
(* theorem about the lists alone, whatever the program does.               *)

NoRepeats(s) == \A i, j \in 1..Len(s) : s[i] = s[j] => i = j

(* What waits for its finalizer is marked for it and waits once, but for an *)
(* object a finalizer marks again: that one is in to_finalize and in        *)
(* finobj_list.                                                             *)
OwedInv ==
    /\ NoRepeats(finobj) /\ NoRepeats(keep)
    /\ NoRepeats(tobefnz) /\ NoRepeats(closeQ)
    /\ Members(keep) \cap Members(finobj) = {}
    /\ phase = "separate" =>
          Members(tobefnz) \cap (Members(finobj) \cup Members(keep)) = {}
    /\ Listed \subseteq owed
    /\ phase # "separate" => keep = <<>>
    /\ phase \in {"idle", "mark"} => tobefnz = <<>>
    /\ closing # "finalizers" => closeQ = <<>>
    /\ closing = "finalizers" =>
          finobj = <<>> /\ keep = <<>> /\ tobefnz = <<>>

(* A list in the order e of marking, tables and userdata apart. *)
InOrder(s, e) == \A i, j \in 1..Len(s) :
    i < j /\ SameKind(s[i], s[j]) => <<s[i], s[j]>> \in e

(* While finobj_list is separated, what was kept precedes what is left. *)
OrderInv ==
    /\ owed \subseteq Listed
    /\ InOrder(finobj, earlier) /\ InOrder(keep, earlier)
    /\ InOrder(closeQ, earlier)
    /\ \A q \in Members(keep), o \in Members(finobj) :
          SameKind(q, o) => <<q, o>> \in earlier

LEMMA EmptyList == NoRepeats(<<>>) /\ \A e : InOrder(<<>>, e)
  BY DEF NoRepeats, InOrder

LEMMA AppendKeeps ==
  ASSUME NEW S, NEW s \in Seq(S), NEW x \in S
  PROVE  /\ NoRepeats(s) /\ x \notin Members(s) => NoRepeats(Append(s, x))
         /\ \A e : /\ InOrder(s, e)
                   /\ \A q \in Members(s) : SameKind(q, x) => <<q, x>> \in e
                   => InOrder(Append(s, x), e)
  <1> DEFINE t == Append(s, x)
  <1>1. /\ Len(s) \in Nat /\ Len(t) = Len(s) + 1 /\ t[Len(s) + 1] = x
        /\ \A i \in 1..Len(s) : t[i] = s[i] /\ s[i] \in Members(s)
    BY DEF Members
  <1> HIDE DEF t
  <1>2. /\ \A i \in 1..Len(t) : i \in 1..Len(s) \/ i = Len(s) + 1
        /\ \A i, j \in 1..Len(t) : i < j => i \in 1..Len(s)
    BY <1>1
  <1>3. ASSUME NoRepeats(s), x \notin Members(s), NEW i \in 1..Len(t),
               NEW j \in 1..Len(t), t[i] = t[j]
        PROVE  i = j
    BY <1>1, <1>2, <1>3 DEF NoRepeats
  <1>4. ASSUME NEW e, InOrder(s, e),
               \A q \in Members(s) : SameKind(q, x) => <<q, x>> \in e,
               NEW i \in 1..Len(t), NEW j \in 1..Len(t),
               i < j, SameKind(t[i], t[j])
        PROVE  <<t[i], t[j]>> \in e
    <2>1. i \in 1..Len(s) /\ t[i] = s[i]
      BY <1>1, <1>2, <1>4
    <2>2. CASE j \in 1..Len(s)
      BY <1>1, <1>4, <2>1, <2>2 DEF InOrder
    <2>3. CASE j = Len(s) + 1
      BY <1>1, <1>4, <2>1, <2>3
    <2> QED
      BY <1>2, <2>2, <2>3
  <1>5. NoRepeats(s) /\ x \notin Members(s) => NoRepeats(t)
    BY <1>3 DEF NoRepeats
  <1>6. \A e : /\ InOrder(s, e)
               /\ \A q \in Members(s) : SameKind(q, x) => <<q, x>> \in e
               => InOrder(t, e)
    BY <1>4 DEF InOrder
  <1> QED
    BY <1>5, <1>6 DEF t

LEMMA TailKeeps ==
  ASSUME NEW S, NEW s \in Seq(S), s # <<>>, NoRepeats(s)
  PROVE  NoRepeats(Tail(s)) /\ Head(s) \notin Members(Tail(s))
  <1>1. /\ Len(s) \in Nat \ {0} /\ 1 \in 1..Len(s) /\ Head(s) = s[1]
        /\ \A i \in 1..Len(Tail(s)) :
              Tail(s)[i] = s[i + 1] /\ i + 1 \in 1..Len(s) /\ i + 1 # 1
    OBVIOUS
  <1>2. \A i, j \in 1..Len(Tail(s)) : i + 1 = j + 1 => i = j
    OBVIOUS
  <1>3. NoRepeats(Tail(s))
    BY <1>1, <1>2 DEF NoRepeats
  <1>4. Head(s) \notin Members(Tail(s))
    BY <1>1 DEF NoRepeats, Members
  <1> QED
    BY <1>3, <1>4

LEMMA DroppedKeeps ==
  ASSUME NEW S, NEW s \in Seq(S), NEW i \in 1..Len(s)
  PROVE  /\ NoRepeats(s) => /\ NoRepeats(Dropped(s, i))
                            /\ s[i] \notin Members(Dropped(s, i))
         /\ \A e : InOrder(s, e) => InOrder(Dropped(s, i), e)
  <1> DEFINE n == Len(s) - 1
             at(j) == IF j < i THEN j ELSE j + 1
             t == Dropped(s, i)
  <1>1. Len(s) \in Nat \ {0} /\ n \in Nat
    OBVIOUS
  <1>2. /\ \A j \in 1..n : at(j) \in 1..Len(s) /\ at(j) # i
        /\ \A j, k \in 1..n : /\ at(j) = at(k) => j = k
                              /\ j < k => at(j) < at(k)
    BY <1>1
  <1>3. t = [j \in 1..n |-> s[at(j)]]
    BY DEF Dropped
  <1>4. Len(t) = n
    <2>1. t \in [1..n -> S]
      BY <1>1, <1>2, <1>3
    <2> QED
      BY <1>1, <2>1, <1>3, MembersDropped
  <1> HIDE DEF n, at, t
  <1>5. \A j \in 1..Len(t) : t[j] = s[at(j)]
    BY <1>3, <1>4
  <1>6. ASSUME NoRepeats(s)
        PROVE  NoRepeats(t) /\ s[i] \notin Members(t)
    <2>1. ASSUME NEW j \in 1..Len(t), NEW k \in 1..Len(t), t[j] = t[k]
          PROVE  j = k
      <3>1. /\ at(j) \in 1..Len(s) /\ at(k) \in 1..Len(s)
            /\ s[at(j)] = s[at(k)] /\ (at(j) = at(k) => j = k)
        BY <1>2, <1>4, <1>5, <2>1
      <3> QED
        BY <1>6, <3>1 DEF NoRepeats
    <2>2. ASSUME NEW j \in 1..Len(t)
          PROVE  t[j] # s[i]
      BY <1>2, <1>4, <1>5, <1>6, <2>2 DEF NoRepeats
    <2> QED
      BY <2>1, <2>2 DEF NoRepeats, Members
  <1>7. ASSUME NEW e, InOrder(s, e)
        PROVE  InOrder(t, e)
    BY <1>2, <1>4, <1>5, <1>7 DEF InOrder
  <1> QED
    BY <1>6, <1>7 DEF t

(* An order that keeps the pairs of a list's members keeps the list's. *)
LEMMA InOrderKept ==
  ASSUME NEW s, NEW e, NEW f, InOrder(s, e),
         \A q, o \in Members(s) : <<q, o>> \in e => <<q, o>> \in f
  PROVE  InOrder(s, f)
  BY DEF InOrder, Members

LEMMA ListsInit == Init => OwedInv /\ OrderInv
  BY MembersEmpty, EmptyList DEF Init, OwedInv, OrderInv, Listed

(* Steps that leave the lists where they are, and what is owed to them. *)
LEMMA ListsUnmoved ==
  ASSUME OwedInv,
         UNCHANGED <<finobj, keep, tobefnz, closeQ, owed, earlier>>,
         phase' = "separate" => phase = "separate" \/ tobefnz = <<>>,
         phase = "separate" => phase' = "separate",
         phase' \in {"idle", "mark"} =>
            phase \in {"idle", "mark"} \/ tobefnz = <<>>,
         closing' = "finalizers" <=> closing = "finalizers"
  PROVE  OwedInv' /\ (OrderInv => OrderInv')
  <1>1. /\ Members(finobj') = Members(finobj) /\ Members(keep') = Members(keep)
        /\ Members(tobefnz') = Members(tobefnz)
        /\ Members(closeQ') = Members(closeQ)
        /\ tobefnz = <<>> => Members(tobefnz) = {}
    BY MembersEmpty DEF Members
  <1>2. Listed' = Listed
    BY <1>1 DEF Listed
  <1>3. OwedInv'
    BY <1>1, <1>2 DEF OwedInv, NoRepeats
  <1>4. OrderInv => OrderInv'
    BY <1>1, <1>2 DEF OrderInv, InOrder
  <1> QED
    BY <1>3, <1>4

(* setmetatable appends an object that finobj_list does not hold; it is the *)
(* latest marked.                                                           *)
LEMMA ListsSetMetatable ==
  ASSUME TypeOK, OwedInv, NEW o \in Obj, NEW m \in Modes, NEW g \in BOOLEAN,
         SetMetatable(o, m, g)
  PROVE  OwedInv' /\ (OrderInv => OrderInv')
  <1> USE DEF heapVars, markVars, finVars, closeVars, ghostVars
  <1>1. /\ UNCHANGED <<phase, closing, keep, tobefnz, closeQ>>
        /\ phase # "separate"
        /\ finobj' = IF g /\ Registers(o) THEN Append(finobj, o) ELSE finobj
        /\ g /\ closing = "open" => Owe(o)
        /\ ~(g /\ closing = "open") => UNCHANGED ghostVars
    BY DEF SetMetatable, LuaRuns, InProgram, InFinalizer, InCloseFinalizer
  <1>2. CASE ~(g /\ closing = "open")
    <2>1. UNCHANGED <<finobj, owed, earlier>>
      BY <1>1, <1>2 DEF Registers
    <2> QED
      BY <1>1, <2>1, ListsUnmoved
  <1>3. CASE g /\ closing = "open"
    <2>1. /\ owed' = owed \cup {o}
          /\ closeQ = <<>> /\ keep = <<>>
          /\ Members(closeQ) = {} /\ Members(keep) = {}
      BY <1>1, <1>3, MembersEmpty DEF Owe, OwedInv
    <2>2. /\ Members(keep') = Members(keep)
          /\ Members(tobefnz') = Members(tobefnz)
          /\ Members(closeQ') = Members(closeQ)
      BY <1>1 DEF Members
    <2>3. /\ Members(finobj') = Members(finobj) \cup {o}
          /\ NoRepeats(finobj')
      <3>1. CASE o \in Members(finobj)
        BY <1>1, <3>1 DEF Registers, OwedInv, Members
      <3>2. CASE o \notin Members(finobj)
        <4>1. finobj' = Append(finobj, o)
          BY <1>1, <1>3, <3>2 DEF Registers
        <4>2. /\ Members(Append(finobj, o)) = Members(finobj) \cup {o}
              /\ NoRepeats(Append(finobj, o))
          BY <3>2, MembersAppend, AppendKeeps DEF OwedInv, TypeOK
        <4> QED
          BY <4>1, <4>2
      <3> QED
        BY <3>1, <3>2
    <2>4. Listed' = Listed \cup {o}
      BY <2>2, <2>3 DEF Listed
    <2>5. OwedInv'
      <3>1. /\ NoRepeats(keep') /\ NoRepeats(tobefnz') /\ NoRepeats(closeQ')
            /\ Members(keep') \cap Members(finobj') = {}
        BY <1>1, <2>1, <2>2 DEF OwedInv
      <3>2. Listed' \subseteq owed'
        BY <2>1, <2>4 DEF OwedInv
      <3> QED
        BY <1>1, <1>3, <2>1, <2>3, <3>1, <3>2 DEF OwedInv
    <2>6. ASSUME OrderInv PROVE OrderInv'
      <3>1. owed' \subseteq Listed'
        BY <2>1, <2>4, <2>6 DEF OrderInv
      <3>2. InOrder(keep', earlier') /\ InOrder(closeQ', earlier')
        BY <1>1, <2>1, EmptyList
      <3>3. InOrder(finobj', earlier')
        <4>1. CASE o \in Members(finobj)
          <5>1. finobj' = finobj /\ o \in owed
            BY <1>1, <4>1 DEF Registers, OwedInv, Listed
          <5>2. earlier' = earlier
            BY <1>1, <1>3, <4>1, <5>1 DEF Owe
          <5> QED
            BY <2>6, <5>1, <5>2 DEF OrderInv
        <4>2. CASE o \notin Members(finobj)
          <5>1. finobj' = Append(finobj, o)
            BY <1>1, <1>3, <4>2 DEF Registers
          <5>2. o \in owed => o \in Members(tobefnz)
            BY <2>1, <2>6, <4>2 DEF OrderInv, Listed
          <5>3. earlier' = Without(o) \cup ((owed \ {o}) \X {o})
            BY <1>1, <1>3, <4>2, <5>2 DEF Owe
          <5>4. Members(finobj) \subseteq owed \ {o}
            BY <4>2 DEF OwedInv, Listed
          <5>5. InOrder(finobj, earlier')
            <6>1. \A p, q \in Members(finobj) :
                     <<p, q>> \in earlier => <<p, q>> \in earlier'
              BY <4>2, <5>3 DEF Without
            <6> QED
              BY <2>6, <6>1, InOrderKept DEF OrderInv
          <5>6. \A q \in Members(finobj) : <<q, o>> \in earlier'
            BY <5>3, <5>4
          <5>7. InOrder(Append(finobj, o), earlier')
            BY <5>5, <5>6, AppendKeeps DEF TypeOK
          <5> QED
            BY <5>1, <5>7
        <4> QED
          BY <4>1, <4>2
      <3> QED
        BY <2>1, <2>2, <3>1, <3>2, <3>3 DEF OrderInv
    <2> QED
      BY <2>5, <2>6
  <1> QED
    BY <1>2, <1>3

(* debug.setmetatable marks without registering: the lists stay as they    *)
(* are and more is owed.                                                   *)
LEMMA ListsMutator ==
  ASSUME TypeOK, OwedInv, Mutator
  PROVE  /\ OwedInv'
         /\ OrderInv /\ "debug_setmetatable" \notin Ops => OrderInv'
  <1> USE DEF heapVars, markVars, finVars, closeVars, ghostVars
  <1>1. /\ UNCHANGED <<phase, closing, keep, tobefnz, closeQ>>
        /\ phase # "separate"
    BY DEF Mutator, Alloc, Forget, Erase, Load, SetField, SetPair,
           SetMetatable, DebugSetMetatable, ChangeMode, LuaRuns, InProgram,
           InFinalizer, InCloseFinalizer
  <1>2. CASE UNCHANGED <<finobj, owed, earlier>>
    BY <1>1, <1>2, ListsUnmoved
  <1>3. CASE \E o \in Obj, m \in Modes, g \in BOOLEAN : SetMetatable(o, m, g)
    BY <1>3, ListsSetMetatable
  <1>4. ASSUME NEW o \in Obj, NEW m \in Modes, NEW g \in BOOLEAN,
               DebugSetMetatable(o, m, g)
        PROVE  OwedInv' /\ "debug_setmetatable" \in Ops
    <2>1. finobj' = finobj /\ owed \subseteq owed' /\ "debug_setmetatable" \in Ops
      BY <1>4 DEF DebugSetMetatable, Owe
    <2>2. /\ Members(finobj') = Members(finobj)
          /\ Members(keep') = Members(keep)
          /\ Members(tobefnz') = Members(tobefnz)
          /\ Listed' = Listed
      BY <1>1, <2>1 DEF Members, Listed
    <2> QED
      BY <1>1, <2>1, <2>2 DEF OwedInv, NoRepeats
  <1>5. CASE \E o \in Obj : Alloc(o) \/ Forget(o) \/ Erase(o)
    BY <1>2, <1>5 DEF Alloc, Forget, Erase
  <1>6. CASE \E o, x \in Obj : Load(o, x) \/ SetField(o, x)
    BY <1>2, <1>6 DEF Load, SetField
  <1>7. CASE \E o \in Obj, k, v \in Val : SetPair(o, k, v)
    BY <1>2, <1>7 DEF SetPair
  <1>8. CASE \E o \in Obj, m \in Modes : ChangeMode(o, m)
    BY <1>2, <1>8 DEF ChangeMode
  <1> QED
    BY <1>3, <1>4, <1>5, <1>6, <1>7, <1>8 DEF Mutator

(* The oldest object of finobj_list goes to the end of one of the other    *)
(* lists, or is no longer owed a finalizer.                                *)
LEMMA ListsSeparate ==
  ASSUME TypeOK, OwedInv, NEW i \in 1..Len(finobj), Separate(i)
  PROVE  OwedInv' /\ (OrderInv => OrderInv')
  <1> DEFINE o == finobj[i]
  <1>1. /\ phase = "separate" /\ Oldest(finobj, i)
        /\ UNCHANGED <<phase, closing, closeQ>>
        /\ finobj' = Dropped(finobj, i)
        /\ keep' = IF Marked(o) \/ Postponed(o) THEN Append(keep, o) ELSE keep
        /\ tobefnz' = IF ~Marked(o) /\ hasGc[o] /\ ~emergency
                        THEN Append(tobefnz, o) ELSE tobefnz
        /\ IF Marked(o) \/ hasGc[o] THEN UNCHANGED ghostVars ELSE Settle(o)
    BY DEF Separate, closeVars
  <1>2. /\ o \in Obj
        /\ Members(finobj) = {o} \cup Members(finobj')
        /\ NoRepeats(finobj') /\ o \notin Members(finobj')
    <2>1. Members(finobj') = Members(Dropped(finobj, i))
      BY <1>1 DEF Members
    <2>2. finobj \in Seq(Obj) /\ NoRepeats(finobj)
      BY DEF TypeOK, OwedInv
    <2>3. /\ NoRepeats(Dropped(finobj, i))
          /\ o \notin Members(Dropped(finobj, i))
      BY <2>2, DroppedKeeps
    <2>4. o \in Obj /\ Members(finobj) = {o} \cup Members(Dropped(finobj, i))
      BY <2>2, MembersDropped
    <2> QED
      BY <1>1, <2>3, <2>4
  <1>3. \A q \in Members(finobj') : SameKind(o, q) =>
           \E j \in 1..Len(finobj) : finobj[j] = q /\ i < j
    <2>1. ASSUME NEW q \in Members(finobj'), SameKind(o, q)
          PROVE  \E j \in 1..Len(finobj) : finobj[j] = q /\ i < j
      <3>1. q # o /\ q \in Members(finobj)
        BY <1>2, <2>1
      <3>2. PICK j \in 1..Len(finobj) : finobj[j] = q
        BY <3>1 DEF Members
      <3>3. j # i
        BY <3>1, <3>2
      <3>4. i < j
        BY <1>1, <2>1, <3>2, <3>3 DEF Oldest
      <3> QED
        BY <3>2, <3>4
    <2> QED
      BY <2>1
  <1>4. InOrder(finobj, earlier) => InOrder(finobj', earlier)
    BY <1>1, DroppedKeeps DEF TypeOK
  <1>5. InOrder(finobj, earlier) =>
           \A q \in Members(finobj') : SameKind(o, q) => <<o, q>> \in earlier
    BY <1>3 DEF InOrder
  <1> HIDE DEF o
  <1>6. o \notin Members(keep) /\ o \notin Members(tobefnz)
    BY <1>1, <1>2 DEF OwedInv
  <1>7. /\ Members(Append(keep, o)) = Members(keep) \cup {o}
        /\ Members(Append(tobefnz, o)) = Members(tobefnz) \cup {o}
        /\ NoRepeats(Append(keep, o)) /\ NoRepeats(Append(tobefnz, o))
    BY <1>2, <1>6, MembersAppend, AppendKeeps DEF TypeOK, OwedInv
  <1>8. /\ NoRepeats(keep') /\ NoRepeats(tobefnz')
        /\ Members(keep) \subseteq Members(keep')
        /\ Members(keep') \subseteq Members(keep) \cup {o}
        /\ Members(tobefnz) \subseteq Members(tobefnz')
        /\ Members(tobefnz') \subseteq Members(tobefnz) \cup {o}
    BY <1>1, <1>7 DEF OwedInv
  <1>9. /\ o \in Members(keep') => Marked(o) \/ Postponed(o)
        /\ o \in Members(tobefnz') => ~Marked(o) /\ hasGc[o] /\ ~emergency
        /\ Marked(o) \/ hasGc[o] => o \in Members(keep') \cup Members(tobefnz')
    BY <1>1, <1>6, <1>7 DEF Postponed
  <1>10. Members(keep') \cap Members(finobj') = {}
    BY <1>2, <1>8 DEF OwedInv
  <1>11. Members(tobefnz') \cap (Members(finobj') \cup Members(keep')) = {}
    BY <1>1, <1>2, <1>6, <1>8, <1>9 DEF OwedInv, Postponed
  <1>12. Members(closeQ') = Members(closeQ)
    BY <1>1 DEF Members
  <1>13. closing # "finalizers" /\ closeQ = <<>> /\ Members(closeQ) = {}
    BY <1>2, MembersEmpty DEF OwedInv
  <1>14. Listed' \subseteq Listed /\ (o \in Listed' => Marked(o) \/ hasGc[o])
    BY <1>2, <1>8, <1>9, <1>12, <1>13 DEF Listed, Postponed
  <1>15. /\ owed' = IF Marked(o) \/ hasGc[o] THEN owed ELSE owed \ {o}
         /\ \A p, q \in Listed' :
               <<p, q>> \in earlier => <<p, q>> \in earlier'
    BY <1>1, <1>14 DEF Settle, Without, ghostVars
  <1>16. OwedInv'
    <2>1. Listed' \subseteq owed'
      BY <1>14, <1>15 DEF OwedInv
    <2> QED
      BY <1>1, <1>2, <1>8, <1>10, <1>11, <1>13, <2>1, EmptyList DEF OwedInv
  <1>17. ASSUME OrderInv PROVE OrderInv'
    <2>1. owed' \subseteq Listed'
      BY <1>2, <1>8, <1>9, <1>12, <1>15, <1>17 DEF OrderInv, Listed
    <2>2. InOrder(keep', earlier)
      <3>1. \A q \in Members(keep) : SameKind(q, o) => <<q, o>> \in earlier
        BY <1>2, <1>17 DEF OrderInv
      <3>2. InOrder(Append(keep, o), earlier)
        BY <1>2, <1>17, <3>1, AppendKeeps DEF TypeOK, OrderInv
      <3> QED
        BY <1>1, <1>17, <3>2 DEF OrderInv
    <2>3. InOrder(finobj', earlier)
      BY <1>4, <1>17 DEF OrderInv
    <2>4. \A q \in Members(keep'), p \in Members(finobj') :
             SameKind(q, p) => <<q, p>> \in earlier
      BY <1>2, <1>5, <1>8, <1>17 DEF OrderInv
    <2>5. Members(finobj') \subseteq Listed' /\ Members(keep') \subseteq Listed'
      BY DEF Listed
    <2>6. InOrder(finobj', earlier') /\ InOrder(keep', earlier')
      BY <1>15, <2>2, <2>3, <2>5, InOrderKept
    <2>7. InOrder(closeQ', earlier')
      BY <1>1, <1>13, EmptyList
    <2> QED
      BY <1>15, <2>1, <2>4, <2>5, <2>6, <2>7 DEF OrderInv
  <1> QED
    BY <1>16, <1>17

(* The other steps of a collection. *)
LEMMA ListsCollector ==
  ASSUME TypeOK, OwedInv, CollectorStep \/ Enter
  PROVE  OwedInv' /\ (OrderInv => OrderInv')
  <1> USE DEF heapVars, markVars, finVars, closeVars, ghostVars
  <1>1. CASE \/ Enter \/ \E o \in Obj : MarkOne(o)
             \/ \E p \in Val \X Val : PullKey(p) \/ PullValue(p)
             \/ StartSeparation \/ ClearWeakTables \/ Sweep
    <2>1. UNCHANGED <<finobj, keep, tobefnz, closeQ, owed, earlier>>
      BY <1>1 DEF Enter, EnterCycle, MarkOne, PullKey, PullValue,
                  StartSeparation, ClearWeakTables, Sweep
    <2>2. /\ phase \notin {"separate"}
          /\ phase' = "separate" => phase = "mark"
          /\ phase' \in {"idle", "mark"} =>
                phase \in {"idle", "mark"} \/ tobefnz = <<>>
          /\ closing' = "finalizers" <=> closing = "finalizers"
      BY <1>1 DEF Enter, EnterCycle, MarkOne, PullKey, PullValue, InProgram,
                  InCloseFinalizer, StartSeparation, ClearWeakTables, Sweep
    <2>3. phase = "mark" => tobefnz = <<>>
      BY DEF OwedInv
    <2> QED
      BY <2>1, <2>2, <2>3, ListsUnmoved
  <1>2. CASE SeparateNext
    BY <1>2, ListsSeparate DEF SeparateNext
  <1>3. CASE EndSeparation
    <2>1. /\ UNCHANGED <<tobefnz, closeQ, closing, owed, earlier>>
          /\ phase = "separate" /\ phase' = "remark"
          /\ finobj = <<>> /\ finobj' = keep /\ keep' = <<>>
      BY <1>3 DEF EndSeparation
    <2>2. /\ Members(finobj) = {} /\ Members(finobj') = Members(keep)
          /\ Members(keep') = {} /\ Members(tobefnz') = Members(tobefnz)
          /\ Members(closeQ') = Members(closeQ)
      BY <2>1, MembersEmpty DEF Members
    <2>3. Listed' = Listed
      BY <2>2 DEF Listed
    <2>4. NoRepeats(keep') /\ \A e : InOrder(keep', e)
      BY <2>1, EmptyList
    <2>5. OwedInv'
      BY <2>1, <2>2, <2>3, <2>4 DEF OwedInv
    <2>6. OrderInv => OrderInv'
      BY <2>1, <2>2, <2>3, <2>4 DEF OrderInv
    <2> QED
      BY <2>5, <2>6
  <1>4. CASE CallFinalizer
    <2> DEFINE o == Head(tobefnz)
    <2>1. /\ UNCHANGED <<phase, closing, finobj, keep, closeQ>>
          /\ phase = "finalize" /\ tobefnz # <<>> /\ tobefnz' = Tail(tobefnz)
          /\ IF o \in Members(finobj) THEN UNCHANGED ghostVars ELSE Settle(o)
      BY <1>4 DEF CallFinalizer
    <2>2. /\ Members(tobefnz) = {o} \cup Members(tobefnz')
          /\ NoRepeats(tobefnz') /\ o \notin Members(tobefnz')
      <3>1. Members(tobefnz') = Members(Tail(tobefnz))
        BY <2>1 DEF Members
      <3> QED
        BY <2>1, <3>1, MembersTail, TailKeeps DEF TypeOK, OwedInv
    <2> HIDE DEF o
    <2>3. /\ keep = <<>> /\ closeQ = <<>>
          /\ Members(keep) = {} /\ Members(closeQ) = {}
      BY <2>1, MembersEmpty DEF OwedInv
    <2>4. /\ Members(finobj') = Members(finobj)
          /\ Members(keep') = Members(keep)
          /\ Members(closeQ') = Members(closeQ)
      BY <2>1 DEF Members
    <2>5. /\ owed' = owed \/ (o \notin Members(finobj) /\ owed' = owed \ {o})
          /\ \A p, q \in Members(finobj) :
                <<p, q>> \in earlier => <<p, q>> \in earlier'
      BY <2>1 DEF Settle, Without
    <2>6. OwedInv'
      <3>1. Listed' \subseteq owed'
        BY <2>2, <2>3, <2>4, <2>5 DEF OwedInv, Listed
      <3> QED
        BY <2>1, <2>2, <2>3, <2>4, <3>1 DEF OwedInv
    <2>7. ASSUME OrderInv PROVE OrderInv'
      <3>1. owed' \subseteq Listed'
        BY <2>1, <2>2, <2>4, <2>5, <2>7 DEF OrderInv, Listed, Settle
      <3>2. InOrder(finobj', earlier')
        BY <2>1, <2>5, <2>7, InOrderKept DEF OrderInv
      <3>3. InOrder(keep', earlier') /\ InOrder(closeQ', earlier')
        BY <2>1, <2>3, EmptyList
      <3> QED
        BY <2>3, <2>4, <3>1, <3>2, <3>3 DEF OrderInv
    <2> QED
      BY <2>6, <2>7
  <1> QED
    BY <1>1, <1>2, <1>3, <1>4 DEF CollectorStep

LEMMA ListsClose ==
  ASSUME TypeOK, OwedInv, StartClose \/ CloseStep \/ FinalizerEnds
  PROVE  OwedInv' /\ (OrderInv => OrderInv')
  <1> USE DEF heapVars, markVars, finVars, closeVars, ghostVars
  <1>1. CASE StartClose \/ FinalizerEnds
    <2>1. /\ UNCHANGED <<finobj, keep, tobefnz, closeQ, owed, earlier, phase>>
          /\ closing' = "finalizers" <=> closing = "finalizers"
      BY <1>1 DEF StartClose, FinalizerEnds, FinalizerReturns,
                  CloseFinalizerReturns
    <2> QED
      BY <2>1, ListsUnmoved
  <1>2. CASE DrainFinobj
    <2>1. /\ UNCHANGED <<keep, tobefnz, owed, earlier, phase>>
          /\ phase = "idle" /\ closing = "tbc" /\ closing' = "finalizers"
          /\ closeQ' = finobj /\ finobj' = <<>>
      BY <1>2 DEF DrainFinobj
    <2>2. keep = <<>> /\ tobefnz = <<>> /\ closeQ = <<>>
      BY <2>1 DEF OwedInv
    <2>3. /\ Members(closeQ') = Members(finobj) /\ Members(finobj') = {}
          /\ Members(keep) = {} /\ Members(keep') = {}
          /\ Members(tobefnz) = {} /\ Members(tobefnz') = {}
          /\ Members(closeQ) = {}
      BY <2>1, <2>2, MembersEmpty DEF Members
    <2>4. Listed' = Listed
      BY <2>3 DEF Listed
    <2>5. NoRepeats(finobj') /\ \A e : InOrder(finobj', e)
      BY <2>1, EmptyList
    <2> QED
      BY <2>1, <2>2, <2>3, <2>4, <2>5 DEF OwedInv, OrderInv
  <1>3. CASE CloseCallFinalizer
    <2>0. PICK i \in 1..Len(closeQ) : CloseCall(i)
      BY <1>3 DEF CloseCallFinalizer
    <2> DEFINE o == closeQ[i]
    <2>1. /\ UNCHANGED <<finobj, keep, tobefnz, phase, closing>>
          /\ closing = "finalizers"
          /\ closeQ' = Dropped(closeQ, i) /\ Settle(o)
      BY <2>0 DEF CloseCall, Remaining
    <2>2. /\ Members(closeQ) = {o} \cup Members(closeQ')
          /\ NoRepeats(closeQ') /\ o \notin Members(closeQ')
          /\ InOrder(closeQ, earlier) => InOrder(closeQ', earlier)
      <3>1. Members(closeQ') = Members(Dropped(closeQ, i))
        BY <2>1 DEF Members
      <3> QED
        BY <2>1, <3>1, MembersDropped, DroppedKeeps DEF TypeOK, OwedInv
    <2> HIDE DEF o
    <2>3. finobj = <<>> /\ keep = <<>> /\ tobefnz = <<>>
      BY <2>1 DEF OwedInv
    <2>4. /\ Members(finobj) = {} /\ Members(finobj') = {}
          /\ Members(keep) = {} /\ Members(keep') = {}
          /\ Members(tobefnz) = {} /\ Members(tobefnz') = {}
      BY <2>1, <2>3, MembersEmpty
    <2>5. Listed = Members(closeQ) /\ Listed' = Members(closeQ')
      BY <2>4 DEF Listed
    <2>6. OwedInv'
      <3>1. Listed' \subseteq owed'
        BY <2>1, <2>2, <2>5 DEF OwedInv, Settle
      <3> QED
        BY <2>1, <2>2, <2>3, <2>4, <3>1 DEF OwedInv
    <2>7. ASSUME OrderInv PROVE OrderInv'
      <3>1. owed' \subseteq Listed'
        BY <2>1, <2>2, <2>5, <2>7 DEF OrderInv, Settle
      <3>2. \A p, q \in Members(closeQ') :
               <<p, q>> \in earlier => <<p, q>> \in earlier'
        BY <2>1, <2>2 DEF Settle, Without
      <3>3. InOrder(closeQ', earlier')
        BY <2>2, <2>7, <3>2, InOrderKept DEF OrderInv
      <3>4. InOrder(finobj', earlier') /\ InOrder(keep', earlier')
        BY <2>1, <2>3, EmptyList
      <3> QED
        BY <2>4, <3>1, <3>3, <3>4 DEF OrderInv
    <2> QED
      BY <2>6, <2>7
  <1>4. CASE BreakRefs
    <2>1. /\ UNCHANGED <<keep, tobefnz, closeQ, owed, earlier, phase>>
          /\ closing = "finalizers" /\ closing' = "broken"
          /\ closeQ = <<>> /\ finobj' = <<>>
      BY <1>4 DEF BreakRefs
    <2>2. finobj' = finobj
      BY <2>1 DEF OwedInv
    <2>3. /\ Members(finobj') = Members(finobj)
          /\ Members(keep') = Members(keep)
          /\ Listed' = Listed
      BY <2>1, <2>2 DEF Listed, Members
    <2> QED
      BY <2>1, <2>2, <2>3 DEF OwedInv, OrderInv
  <1> QED
    BY <1>1, <1>2, <1>3, <1>4 DEF CloseStep

LEMMA ListsStep ==
  ASSUME TypeOK, OwedInv, [Next]_vars
  PROVE  /\ OwedInv'
         /\ OrderInv /\ "debug_setmetatable" \notin Ops => OrderInv'
  <1>1. CASE Mutator
    BY <1>1, ListsMutator
  <1>2. CASE CollectorStep \/ Enter
    BY <1>2, ListsCollector
  <1>3. CASE StartClose \/ CloseStep \/ FinalizerEnds
    BY <1>3, ListsClose
  <1>4. CASE UNCHANGED vars
    <2>1. UNCHANGED <<finobj, keep, tobefnz, closeQ, owed, earlier, phase,
                      closing>>
      BY <1>4 DEF vars, finVars, closeVars, ghostVars
    <2> QED
      BY <2>1, ListsUnmoved
  <1> QED
    BY <1>1, <1>2, <1>3, <1>4 DEF Next, Closed

(* What waits for a finalizer is owed it and waits once, for any program:  *)
(* with emergencies, closing collections, __mode and metatables changed at *)
(* any time.                                                               *)
THEOREM OwedLists == Spec => []OwedInv
  <1>1. TypeOK /\ OwedInv /\ [Next]_vars => OwedInv'
    BY ListsStep
  <1> QED
    BY <1>1, ListsInit, TypeCorrect, PTL DEF Spec

(* Nothing else calls a finalizer. *)
LEMMA FinalizerCalls ==
  ASSUME [Next]_vars
  PROVE  /\ running' \notin {running, None} => CallFinalizer
         /\ closeRun' \notin {closeRun, None} => CloseCallFinalizer
  BY DEF Next, vars, heapVars, markVars, finVars, closeVars, ghostVars,
         Mutator, Alloc, Forget, Erase, Load, SetField, SetPair, SetMetatable,
         DebugSetMetatable, ChangeMode, Enter, EnterCycle, CollectorStep,
         MarkOne, PullKey, PullValue, StartSeparation, SeparateNext, Separate,
         EndSeparation, ClearWeakTables, CallFinalizer, Sweep, StartClose,
         CloseStep, DrainFinobj, CloseCallFinalizer, CloseCall, BreakRefs,
         FinalizerEnds, FinalizerReturns, CloseFinalizerReturns, Closed

(* No finalizer is called twice for one mark, by a cycle, a later cycle    *)
(* and close_state together, or without a mark.                            *)
THEOREM OneCallPerMark == Spec => FinalizerOncePerMark
  <1>1. ASSUME TypeOK, OwedInv, [Next]_vars, running' \notin {running, None}
        PROVE  running' \in owed
    <2>1. running' = Head(tobefnz) /\ tobefnz # <<>>
      BY <1>1, FinalizerCalls DEF CallFinalizer
    <2>2. Head(tobefnz) \in Members(tobefnz)
      BY <1>1, <2>1, MembersTail DEF TypeOK
    <2> QED
      BY <1>1, <2>1, <2>2 DEF OwedInv, Listed
  <1>2. ASSUME TypeOK, OwedInv, [Next]_vars, closeRun' \notin {closeRun, None}
        PROVE  closeRun' \in owed
    <2>1. \E i \in 1..Len(closeQ) : closeRun' = closeQ[i]
      BY <1>2, FinalizerCalls DEF CloseCallFinalizer, CloseCall
    <2> QED
      BY <1>2, <2>1 DEF OwedInv, Listed, Members
  <1>3. TypeOK /\ OwedInv /\ [Next]_vars =>
          [/\ running' \notin {running, None} => running' \in owed
           /\ closeRun' \notin {closeRun, None} => closeRun' \in owed]_vars
    BY <1>1, <1>2
  <1> QED
    BY <1>3, TypeCorrect, OwedLists, PTL DEF Spec, FinalizerOncePerMark

(* For a program that marks objects with setmetatable only, the lists hold *)
(* all that is owed a finalizer, each kind in the order of marking.        *)
THEOREM ListsInOrder ==
  ASSUME "debug_setmetatable" \notin Ops
  PROVE  Spec => []OrderInv
  <1>1. TypeOK /\ OwedInv /\ OrderInv /\ [Next]_vars => OrderInv'
    BY ListsStep
  <1> QED
    BY <1>1, ListsInit, TypeCorrect, OwedLists, PTL DEF Spec

(* close_state calls the finalizers of the tables latest mark first, then  *)
(* those of the userdata latest mark first.                                *)
THEOREM ClosesInReverse ==
  ASSUME "debug_setmetatable" \notin Ops
  PROVE  Spec => CloseInReverseOrder
  <1>1. ASSUME TypeOK, OwedInv, OrderInv, [Next]_vars,
               closeRun' \notin {closeRun, None},
               NEW o \in owed \ {closeRun'}
        PROVE  IF SameKind(o, closeRun') THEN <<o, closeRun'>> \in earlier
                                         ELSE o \in Udata
    <2>1. PICK i \in 1..Len(closeQ) :
             /\ closing = "finalizers" /\ Newest(closeQ, i)
             /\ closeRun' = closeQ[i]
      BY <1>1, FinalizerCalls DEF CloseCallFinalizer, CloseCall
    <2>2. o \in Members(closeQ)
      BY <1>1, <2>1, MembersEmpty DEF OwedInv, OrderInv, Listed
    <2>3. PICK j \in 1..Len(closeQ) : closeQ[j] = o /\ j # i
      BY <1>1, <2>1, <2>2 DEF Members
    <2>4. CASE SameKind(o, closeRun')
      <3>1. SameKind(closeQ[i], closeQ[j])
        BY <2>1, <2>3, <2>4 DEF SameKind
      <3>2. j < i
        BY <2>1, <2>3, <3>1 DEF Newest
      <3> QED
        BY <1>1, <2>1, <2>3, <2>4, <3>2 DEF OrderInv, InOrder
    <2>5. CASE ~SameKind(o, closeRun')
      <3>1. ~SameKind(closeQ[i], closeQ[j])
        BY <2>1, <2>3, <2>5 DEF SameKind
      <3> QED
        BY <2>1, <2>3, <2>5, <3>1 DEF Newest
    <2> QED
      BY <2>4, <2>5
  <1>2. TypeOK /\ OwedInv /\ OrderInv /\ [Next]_vars =>
          [closeRun' \notin {closeRun, None} =>
             \A o \in owed \ {closeRun'} :
                IF SameKind(o, closeRun') THEN <<o, closeRun'>> \in earlier
                                          ELSE o \in Udata]_vars
    BY <1>1
  <1> QED
    BY <1>2, TypeCorrect, OwedLists, ListsInOrder, PTL
       DEF Spec, CloseInReverseOrder

(* Nothing waits once close_state has broken the references. *)
NothingListed ==
    closing \in {"broken", "closed"} =>
        finobj = <<>> /\ keep = <<>> /\ tobefnz = <<>> /\ closeQ = <<>>

(* Nothing enters the lists after close_state has emptied them. *)
LEMMA NothingListedStep ==
  ASSUME OwedInv, NothingListed, [Next]_vars
  PROVE  NothingListed'
  <1> USE DEF vars, heapVars, markVars, finVars, closeVars, ghostVars,
              NothingListed
  <1>1. CASE Mutator
    BY <1>1 DEF Mutator, Alloc, Forget, Erase, Load, SetField, SetPair,
                SetMetatable, DebugSetMetatable, ChangeMode, Registers
  <1>2. CASE Enter \/ (CollectorStep /\ ~SeparateNext)
    BY <1>2 DEF Enter, EnterCycle, CollectorStep, MarkOne, PullKey, PullValue,
                StartSeparation, EndSeparation, ClearWeakTables,
                CallFinalizer, Sweep
  <1>3. CASE SeparateNext
    BY <1>3 DEF SeparateNext, Separate
  <1>4. CASE StartClose \/ DrainFinobj \/ FinalizerEnds
    BY <1>4 DEF StartClose, DrainFinobj, FinalizerEnds, FinalizerReturns,
                CloseFinalizerReturns
  <1>5. CASE CloseCallFinalizer
    BY <1>5 DEF CloseCallFinalizer, CloseCall
  <1>6. CASE BreakRefs
    BY <1>6 DEF BreakRefs, OwedInv
  <1>7. CASE UNCHANGED vars
    BY <1>7
  <1> QED
    BY <1>1, <1>2, <1>3, <1>4, <1>5, <1>6, <1>7 DEF Next, CloseStep, Closed

(* When close_state is done, every finalizer has been called, whatever      *)
(* collections ran meanwhile.                                              *)
THEOREM NothingOwedWhenClosed ==
  ASSUME "debug_setmetatable" \notin Ops
  PROVE  Spec => []ClosedOwesNothing
  <1>1. Init => NothingListed
    BY DEF Init, NothingListed
  <1>2. OwedInv /\ NothingListed /\ [Next]_vars => NothingListed'
    BY NothingListedStep
  <1>3. OrderInv /\ NothingListed => ClosedOwesNothing
    BY MembersEmpty DEF OrderInv, NothingListed, Listed, ClosedOwesNothing
  <1> QED
    BY <1>1, <1>2, <1>3, OwedLists, ListsInOrder, PTL DEF Spec

-----------------------------------------------------------------------------
(* What is marked, exactly.  MarksExact and SeparationExact compare the     *)
(* marks with least fixed points; the invariant that carries them from step *)
(* to step says that every closed set that holds the roots and what waits   *)
(* for a finalizer holds the marks as well, while IInv has the converse:    *)
(* the marks are closed but for the worklist.                               *)

(* The objects with finalizers are intact, and kept by their list. *)
FinobjInv ==
    /\ Members(finobj) \cup Members(keep) \subseteq live
    /\ phase = "separate" => Members(keep) \subseteq aux \cup worklist
    /\ phase = "remark" => Members(finobj) \subseteq aux \cup worklist
    /\ phase = "finalize" => Members(finobj) \subseteq aux

(* What a collection keeps for finalizers, so far. *)
Waiting == Members(tobefnz)
             \cup {o \in Members(finobj) \cup Members(keep) :
                      emergency /\ hasGc[o]}

NoneTooMany ==
    /\ phase \in {"mark", "separate", "remark"} =>
          \A S \in SUBSET Obj : roots \cup Waiting \subseteq S /\ CodeClosed(S)
                                   => aux \cup worklist \subseteq S
    /\ phase \in {"mark", "separate"} =>
          \A S \in SUBSET Obj : roots \subseteq S /\ CodeClosed(S)
                                   => /\ aux \subseteq S
                                      /\ phase = "mark" => worklist \subseteq S

(* Separation judges by what the roots alone have marked. *)
SeparationInv ==
    phase = "separate" =>
       /\ roots \cup gray \subseteq aux /\ CodeClosed(aux)
       /\ Members(tobefnz) \cap aux = {}
       /\ emergency \/ Members(keep) \subseteq aux

ExactInv == FinobjInv /\ NoneTooMany /\ SeparationInv

(* A live object is marked if and only if aux_marked or the worklist, for  *)
(* one painted by process_ephemerons, holds it.                            *)
LEMMA MarkedInAux ==
  ASSUME TypeOK, Painted(aux \cup worklist), NEW x \in live
  PROVE  /\ x \in aux => Marked(x)
         /\ Marked(x) => x \in aux \cup worklist
  BY ObjAssumption DEF TypeOK, Marked, Painted

(* The ephemeron tables are those registered and not swept. *)
LEMMA EphemeronTables ==
  ASSUME TypeOK, HeapInv
  PROVE  Ephemerons = {o \in weakReg : mode[o] = {"k"}}
  BY DEF TypeOK, HeapInv, Ephemerons, Held

LEMMA ClosedStays ==
  ASSUME TypeOK, HeapInv, UNCHANGED <<fields, pairs, mode, live, weakReg>>
  PROVE  /\ EphemeronPairs' = EphemeronPairs
         /\ \A S \in SUBSET Obj : CodeClosed(S)' <=> CodeClosed(S)
  <1>1. Ephemerons = {o \in weakReg : mode[o] = {"k"}}
    BY EphemeronTables
  <1>2. Ephemerons' = {o \in weakReg : mode[o] = {"k"}}
    BY DEF TypeOK, HeapInv, Ephemerons, Held
  <1>3. EphemeronPairs' = EphemeronPairs
    BY <1>1, <1>2 DEF EphemeronPairs
  <1> QED
    BY <1>3 DEF CodeClosed, ManualClosed

(* A closed set holds what marking reaches from it: by references, ...     *)
LEMMA ClosedChildren ==
  ASSUME TypeOK, NEW S \in SUBSET Obj, ManualClosed(S), NEW o \in S
  PROVE  Children(o) \subseteq S
  <1>1. {x \in fields[o] : "v" \notin mode[o]} \subseteq S
    BY DEF ManualClosed
  <1>2. ASSUME NEW x \in Keys(o), "k" \notin mode[o] PROVE x \in S
    BY <1>2 DEF ManualClosed, Keys
  <1>3. ASSUME NEW x \in Vals(o), mode[o] = {} PROVE x \in S
    BY <1>3 DEF ManualClosed, Vals
  <1> QED
    BY <1>1, <1>2, <1>3 DEF Children

(* ... and by ephemeron pairs. *)
LEMMA ClosedPulls ==
  ASSUME TypeOK, HeapInv, Painted(aux \cup worklist),
         NEW S \in SUBSET Obj, CodeClosed(S), aux \cup worklist \subseteq S,
         NEW p \in EphemeronPairs
  PROVE  /\ PullsKey(p) => p[1] \in S
         /\ PullsValue(p) => p[2] \in S
  <1>1. p[1] \in live \cup {Plain} /\ p[2] \in live \cup {Plain}
    BY DEF TypeOK, HeapInv, Within, EphemeronPairs, Ephemerons
  <1>2. /\ Marked(p[1]) => p[1] \in S \cup {Plain}
        /\ Marked(p[2]) => p[2] \in S \cup {Plain}
    BY <1>1, MarkedInAux
  <1>3. Marked(Plain)
    BY DEF Marked
  <1> QED
    BY <1>2, <1>3, ObjAssumption DEF CodeClosed, PullsKey, PullsValue

(* The marks, once marking has converged, are closed themselves. *)
LEMMA ConvergedIsClosed ==
  ASSUME TypeOK, IInv, Converged, phase \in {"mark", "remark"}
  PROVE  CodeClosed(aux) /\ roots \subseteq aux /\ gray \subseteq aux
  <1>1. /\ worklist = {} /\ Painted(aux) /\ Painted(aux \cup worklist)
        /\ \A o \in aux : StronglyWithin(o, aux)
        /\ \A p \in EphemeronPairs : ~PullsKey(p) /\ ~PullsValue(p)
        /\ aux \subseteq Obj
    BY DEF Converged, IInv, MarkingInv, TypeOK
  <1>2. /\ \A x \in aux \cup {Plain} : Marked(x)
        /\ \A x \in live \cup {Plain} : Marked(x) => x \in aux \cup {Plain}
    BY <1>1, MarkedInAux DEF Marked, Painted
  <1>3. ASSUME NEW o \in aux, NEW p \in pairs[o]
        PROVE  p[1] \in live \cup {Plain} /\ p[2] \in live \cup {Plain}
    BY <1>1, <1>3 DEF IInv, HeapInv, Within
  <1>4. ASSUME NEW p \in EphemeronPairs
        PROVE  /\ p[1] \in live \cup {Plain} /\ p[2] \in live \cup {Plain}
               /\ p[1] \in aux \cup {Plain} => p[2] \in aux \cup {Plain}
               /\ p[2] \in aux \ Threads => p[1] \in aux \cup {Plain}
    <2>1. p[1] \in live \cup {Plain} /\ p[2] \in live \cup {Plain}
      BY DEF TypeOK, IInv, HeapInv, Within, EphemeronPairs, Ephemerons
    <2> QED
      BY <1>1, <1>2, <2>1 DEF PullsKey, PullsValue
  <1>5. ASSUME NEW o \in aux, NEW p \in pairs[o],
               "v" \notin mode[o], p[1] \in aux \cup {Plain}
        PROVE  p[2] \in aux \cup {Plain}
    <2>1. CASE mode[o] = {}
      BY <1>1, <1>5, <2>1 DEF StronglyWithin
    <2>2. CASE mode[o] # {}
      <3>1. mode[o] = {"k"} /\ o \in weakReg
        <4>1. mode[o] \subseteq {"k", "v"}
          BY <1>1 DEF TypeOK
        <4>2. \A q \in Obj : mode[q] # {} => q \in weakReg
          BY DEF IInv, HeapInv
        <4> QED
          BY <1>1, <1>5, <2>2, <4>1, <4>2
      <3>2. p \in EphemeronPairs
        BY <3>1, EphemeronTables DEF EphemeronPairs, IInv
      <3> QED
        BY <1>4, <1>5, <3>2
    <2> QED
      BY <2>1, <2>2
  <1>6. ManualClosed(aux)
    BY <1>1, <1>5 DEF ManualClosed, StronglyWithin
  <1> QED
    BY <1>1, <1>4, <1>6 DEF CodeClosed, Painted

LEMMA ExactInit == Init => ExactInv
  BY MembersEmpty
     DEF Init, ExactInv, FinobjInv, NoneTooMany, SeparationInv

(* Outside a collection's marking only FinobjInv says anything. *)
LEMMA ExactMutator ==
  ASSUME TypeOK, IInv, OwedInv, ExactInv, Mutator
  PROVE  ExactInv'
  <1> USE DEF heapVars, markVars, finVars, closeVars, ghostVars
  <1>1. /\ UNCHANGED <<aux, worklist, phase, keep>>
        /\ live \subseteq live'
        /\ phase \in {"idle", "finalize"}
    BY DEF Mutator, Alloc, Forget, Erase, Load, SetField, SetPair,
           SetMetatable, DebugSetMetatable, ChangeMode, LuaRuns, InProgram,
           InFinalizer, InCloseFinalizer
  <1>2. ASSUME NEW o \in Obj, NEW m \in Modes, NEW g \in BOOLEAN,
               SetMetatable(o, m, g)
        PROVE  \A x \in Members(finobj') : x \in Members(finobj) \cup roots
    <2>1. finobj' = Append(finobj, o) \/ finobj' = finobj
      BY <1>2 DEF SetMetatable
    <2>2. Members(Append(finobj, o)) = Members(finobj) \cup {o}
      BY MembersAppend DEF TypeOK
    <2>3. o \in roots
      BY <1>2 DEF SetMetatable
    <2> QED
      BY <2>1, <2>2, <2>3
  <1>3. \A x \in Members(finobj') : x \in Members(finobj) \cup roots
    BY <1>2 DEF Mutator, Alloc, Forget, Erase, Load, SetField, SetPair,
                DebugSetMetatable, ChangeMode
  <1>4. roots \subseteq live /\ (phase = "finalize" => roots \subseteq aux)
    BY DEF IInv, HeapInv, MarkedInv, Painted
  <1>5. Members(keep') = Members(keep)
    BY <1>1 DEF Members
  <1>6. FinobjInv'
    BY <1>1, <1>3, <1>4, <1>5 DEF ExactInv, FinobjInv
  <1> QED
    BY <1>1, <1>6 DEF ExactInv, NoneTooMany, SeparationInv

(* The roots are marked first, and they are in every set that matters. *)
LEMMA ExactEnter ==
  ASSUME TypeOK, OwedInv, ExactInv, Enter
  PROVE  ExactInv'
  <1>1. /\ UNCHANGED <<roots, live, finobj, keep>>
        /\ phase' = "mark" /\ aux' = {} /\ worklist' = roots
    BY DEF Enter, EnterCycle, finVars
  <1>2. Members(finobj') = Members(finobj) /\ Members(keep') = Members(keep)
    BY <1>1 DEF Members
  <1> QED
    BY <1>1, <1>2 DEF ExactInv, FinobjInv, NoneTooMany, SeparationInv

(* One object or pair at a time, marking stays within every closed set. *)
LEMMA ExactMarking ==
  ASSUME TypeOK, IInv, ExactInv,
         \/ \E o \in Obj : MarkOne(o)
         \/ \E p \in Val \X Val : PullKey(p) \/ PullValue(p)
  PROVE  ExactInv'
  <1>1. /\ UNCHANGED <<roots, fields, pairs, mode, hasGc, live, weakReg,
                       finobj, keep, tobefnz, emergency, phase>>
        /\ phase \in {"mark", "remark"}
    BY DEF MarkOne, PullKey, PullValue, heapVars, finVars
  <1>2. /\ Members(finobj') = Members(finobj) /\ Members(keep') = Members(keep)
        /\ Waiting' = Waiting
    BY <1>1 DEF Members, Waiting
  <1>3. aux \cup worklist \subseteq aux' \cup worklist'
    BY MarksGrow DEF IInv
  <1>4. FinobjInv'
    BY <1>1, <1>2, <1>3 DEF ExactInv, FinobjInv
  <1>5. \A S \in SUBSET Obj : CodeClosed(S)' <=> CodeClosed(S)
    BY <1>1, ClosedStays DEF IInv
  <1>6. Painted(aux \cup worklist)
    BY <1>1 DEF IInv, MarkingInv
  <1>7. ASSUME NEW S \in SUBSET Obj, CodeClosed(S),
               aux \cup worklist \subseteq S
        PROVE  aux' \cup worklist' \subseteq S
    <2>1. ASSUME NEW o \in Obj, MarkOne(o)
          PROVE  aux' \cup worklist' \subseteq S
      <3>1. o \in worklist /\ Children(o) \subseteq S
        BY <1>7, <2>1, ClosedChildren DEF MarkOne, CodeClosed
      <3> QED
        BY <1>7, <2>1, <3>1 DEF MarkOne
    <2>2. ASSUME NEW p \in Val \X Val, PullKey(p) \/ PullValue(p)
          PROVE  aux' \cup worklist' \subseteq S
      BY <1>6, <1>7, <2>2, ClosedPulls DEF IInv, PullKey, PullValue
    <2> QED
      BY <2>1, <2>2
  <1>8. NoneTooMany'
    BY <1>1, <1>2, <1>5, <1>7 DEF ExactInv, NoneTooMany
  <1> QED
    BY <1>1, <1>4, <1>8 DEF ExactInv, SeparationInv

LEMMA ExactStartSeparation ==
  ASSUME TypeOK, IInv, OwedInv, ExactInv, StartSeparation
  PROVE  ExactInv'
  <1>1. /\ UNCHANGED <<roots, fields, pairs, mode, hasGc, live, weakReg,
                       finobj, keep, tobefnz, emergency, gray, aux, worklist>>
        /\ phase = "mark" /\ phase' = "separate" /\ Converged
    BY DEF StartSeparation, heapVars, finVars, markVars
  <1>2. keep = <<>> /\ tobefnz = <<>>
    BY <1>1 DEF OwedInv
  <1>3. /\ Members(finobj') = Members(finobj) /\ Members(keep') = {}
        /\ Members(tobefnz') = {} /\ Waiting' = Waiting
    BY <1>1, <1>2, MembersEmpty DEF Members, Waiting
  <1>4. \A S \in SUBSET Obj : CodeClosed(S)' <=> CodeClosed(S)
    BY <1>1, ClosedStays DEF IInv
  <1>5. CodeClosed(aux)' <=> CodeClosed(aux)
    <2>1. EphemeronPairs' = EphemeronPairs
      BY <1>1, ClosedStays DEF IInv
    <2> QED
      BY <1>1, <2>1 DEF CodeClosed, ManualClosed
  <1>6. FinobjInv'
    BY <1>1, <1>3 DEF ExactInv, FinobjInv
  <1>7. NoneTooMany'
    BY <1>1, <1>3, <1>4 DEF ExactInv, NoneTooMany
  <1>8. CodeClosed(aux) /\ roots \cup gray \subseteq aux
    BY <1>1, ConvergedIsClosed
  <1>9. SeparationInv'
    BY <1>1, <1>3, <1>5, <1>8 DEF SeparationInv
  <1> QED
    BY <1>6, <1>7, <1>9 DEF ExactInv

(* An unmarked object with a finalizer is pushed, and counts as waiting    *)
(* from then on.                                                           *)
LEMMA ExactSeparate ==
  ASSUME TypeOK, IInv, OwedInv, ExactInv, NEW i \in 1..Len(finobj), Separate(i)
  PROVE  ExactInv'
  <1> DEFINE o == finobj[i]
  <1>1. /\ UNCHANGED <<roots, fields, pairs, mode, hasGc, live, weakReg,
                       emergency, gray, aux, phase>>
        /\ phase = "separate"
        /\ finobj' = Dropped(finobj, i)
        /\ keep' = IF Marked(o) \/ Postponed(o) THEN Append(keep, o) ELSE keep
        /\ tobefnz' = IF ~Marked(o) /\ hasGc[o] /\ ~emergency
                        THEN Append(tobefnz, o) ELSE tobefnz
        /\ worklist' = worklist \cup {x \in {o} : Resurrects(x)}
    BY DEF Separate, heapVars
  <1>2. o \in Obj /\ Members(finobj) = {o} \cup Members(finobj')
    <2>1. Members(finobj') = Members(Dropped(finobj, i))
      BY <1>1 DEF Members
    <2> QED
      BY <2>1, MembersDropped DEF TypeOK
  <1> HIDE DEF o
  <1>3. /\ Members(Append(keep, o)) = Members(keep) \cup {o}
        /\ Members(Append(tobefnz, o)) = Members(tobefnz) \cup {o}
    BY <1>2, MembersAppend DEF TypeOK
  <1>4. /\ Members(keep') = IF Marked(o) \/ Postponed(o)
                              THEN Members(keep) \cup {o} ELSE Members(keep)
        /\ Members(tobefnz') = IF ~Marked(o) /\ hasGc[o] /\ ~emergency
                                 THEN Members(tobefnz) \cup {o}
                                 ELSE Members(tobefnz)
    BY <1>1, <1>3
  <1>5. o \in live /\ Painted(aux \cup worklist)
    BY <1>1, <1>2 DEF ExactInv, FinobjInv, IInv, MarkingInv
  <1>6. Marked(o) <=> o \in aux
    BY <1>1, <1>2, <1>5, ObjAssumption
       DEF ExactInv, SeparationInv, Marked, Painted
  <1>7. Resurrects(o) => o \in Waiting'
    BY <1>1, <1>4 DEF Resurrects, Postponed, Waiting
  <1>8. Waiting \subseteq Waiting'
    BY <1>1, <1>2, <1>4 DEF Waiting, Postponed
  <1>9. \A S \in SUBSET Obj : CodeClosed(S)' <=> CodeClosed(S)
    BY <1>1, ClosedStays DEF IInv
  <1>10. CodeClosed(aux)' <=> CodeClosed(aux)
    <2>1. EphemeronPairs' = EphemeronPairs
      BY <1>1, ClosedStays DEF IInv
    <2> QED
      BY <1>1, <2>1 DEF CodeClosed, ManualClosed
  <1>11. FinobjInv'
    BY <1>1, <1>2, <1>4, <1>5, <1>6
       DEF ExactInv, FinobjInv, Postponed, Resurrects
  <1>12. NoneTooMany'
    <2>1. ASSUME NEW S \in SUBSET Obj, roots \cup Waiting' \subseteq S,
                 CodeClosed(S)
          PROVE  aux \cup worklist' \subseteq S
      BY <1>1, <1>7, <1>8, <2>1 DEF ExactInv, NoneTooMany
    <2> QED
      BY <1>1, <1>9, <2>1 DEF ExactInv, NoneTooMany
  <1>13. SeparationInv'
    BY <1>1, <1>4, <1>6, <1>10 DEF ExactInv, SeparationInv, Postponed
  <1> QED
    BY <1>11, <1>12, <1>13 DEF ExactInv

LEMMA ExactEndSeparation ==
  ASSUME TypeOK, IInv, ExactInv, EndSeparation
  PROVE  ExactInv'
  <1>1. /\ UNCHANGED <<roots, fields, pairs, mode, hasGc, live, weakReg,
                       tobefnz, emergency, aux, worklist>>
        /\ phase = "separate" /\ phase' = "remark"
        /\ finobj = <<>> /\ finobj' = keep /\ keep' = <<>>
    BY DEF EndSeparation, heapVars, markVars
  <1>2. /\ Members(finobj) = {} /\ Members(finobj') = Members(keep)
        /\ Members(keep') = {} /\ Members(tobefnz') = Members(tobefnz)
    BY <1>1, MembersEmpty DEF Members
  <1>3. Waiting' = Waiting
    BY <1>1, <1>2 DEF Waiting
  <1>4. \A S \in SUBSET Obj : CodeClosed(S)' <=> CodeClosed(S)
    BY <1>1, ClosedStays DEF IInv
  <1> QED
    BY <1>1, <1>2, <1>3, <1>4
       DEF ExactInv, FinobjInv, NoneTooMany, SeparationInv

(* From the clearing of the weak tables to the end of the collection, and  *)
(* at close.                                                               *)
LEMMA ExactEnd ==
  ASSUME TypeOK, IInv, OwedInv, ExactInv,
         \/ ClearWeakTables \/ CallFinalizer \/ Sweep
         \/ StartClose \/ CloseStep \/ FinalizerEnds
  PROVE  ExactInv'
  <1> USE DEF heapVars, markVars, finVars, closeVars, ghostVars
  <1>1. UNCHANGED <<aux, worklist, keep>> /\ keep = <<>>
    BY DEF ClearWeakTables, CallFinalizer, Sweep, StartClose, CloseStep,
           DrainFinobj, CloseCallFinalizer, CloseCall, BreakRefs,
           FinalizerEnds, FinalizerReturns, CloseFinalizerReturns, OwedInv
  <1>2. finobj' \in {finobj, <<>>}
    BY DEF ClearWeakTables, CallFinalizer, Sweep, StartClose, CloseStep,
           DrainFinobj, CloseCallFinalizer, CloseCall, BreakRefs,
           FinalizerEnds, FinalizerReturns, CloseFinalizerReturns
  <1>3. /\ phase' \in {"idle", "finalize"}
        /\ phase' = "finalize" => phase \in {"remark", "finalize"}
        /\ phase = "remark" => phase' = "finalize" /\ worklist = {}
        /\ live' # live => phase = "finalize"
    BY DEF ClearWeakTables, CallFinalizer, Sweep, StartClose, CloseStep,
           DrainFinobj, CloseCallFinalizer, CloseCall, BreakRefs, Converged,
           FinalizerEnds, FinalizerReturns, CloseFinalizerReturns
  <1>4. phase = "finalize" => aux \subseteq live'
    <2>1. CASE Sweep
      BY <2>1 DEF Sweep, IInv, MarkedInv, Painted, Marked, TypeOK
    <2>2. CASE ~Sweep
      BY <2>2 DEF ClearWeakTables, CallFinalizer, StartClose, CloseStep,
           DrainFinobj, CloseCallFinalizer, CloseCall, BreakRefs,
           FinalizerEnds, FinalizerReturns, CloseFinalizerReturns, IInv,
           MarkedInv, Painted
    <2> QED
      BY <2>1, <2>2
  <1>5. /\ Members(finobj') \subseteq Members(finobj)
        /\ Members(keep') = {}
    BY <1>1, <1>2, MembersEmpty
  <1>6. FinobjInv'
    BY <1>1, <1>3, <1>4, <1>5 DEF ExactInv, FinobjInv
  <1> QED
    BY <1>3, <1>6 DEF ExactInv, NoneTooMany, SeparationInv

(* The marks stay within every closed set that holds the roots and what     *)
(* waits for a finalizer, step by step, whatever the worklist's order.      *)
THEOREM ExactMarks ==
  ASSUME "late_mode" \notin Ops, "finalizer_alloc" \notin Ops
  PROVE  Spec => []ExactInv
  <1>1. TypeOK /\ IInv /\ OwedInv /\ ExactInv /\ [Next]_vars => ExactInv'
    <2> SUFFICES ASSUME TypeOK, IInv, OwedInv, ExactInv, [Next]_vars
                 PROVE  ExactInv'
      OBVIOUS
    <2>1. CASE Mutator
      BY <2>1, ExactMutator
    <2>2. CASE Enter
      BY <2>2, ExactEnter
    <2>3. CASE CollectorStep
      BY <2>3, ExactMarking, ExactStartSeparation, ExactSeparate,
         ExactEndSeparation, ExactEnd DEF CollectorStep, SeparateNext
    <2>4. CASE StartClose \/ CloseStep \/ FinalizerEnds
      BY <2>4, ExactEnd
    <2>5. CASE UNCHANGED vars
      <3>1. UNCHANGED <<roots, fields, pairs, mode, hasGc, live, weakReg, gray,
                        aux, worklist, finobj, keep, tobefnz, phase, emergency>>
        BY <2>5 DEF vars, heapVars, markVars, finVars
      <3>2. /\ Members(finobj') = Members(finobj)
            /\ Members(keep') = Members(keep)
            /\ Members(tobefnz') = Members(tobefnz)
            /\ Waiting' = Waiting
        BY <3>1 DEF Members, Waiting
      <3>3. /\ EphemeronPairs' = EphemeronPairs
            /\ \A S \in SUBSET Obj : CodeClosed(S)' <=> CodeClosed(S)
        BY <3>1, ClosedStays DEF IInv
      <3>4. CodeClosed(aux)' <=> CodeClosed(aux)
        BY <3>1, <3>3 DEF CodeClosed, ManualClosed
      <3> QED
        BY <3>1, <3>2, <3>3, <3>4
           DEF ExactInv, FinobjInv, NoneTooMany, SeparationInv
    <2> QED
      BY <2>1, <2>2, <2>3, <2>4, <2>5 DEF Next, Closed
  <1> QED
    BY <1>1, ExactInit, TypeCorrect, HeapAndMarks, OwedLists, PTL DEF Spec

(* When weak tables are cleared, exactly the objects are marked that the   *)
(* roots and the objects still to be finalized keep.                       *)
THEOREM MarkedIsRetained ==
  ASSUME "late_mode" \notin Ops, "finalizer_alloc" \notin Ops
  PROVE  Spec => MarksExact
  <1>1. ASSUME TypeOK, IInv, OwedInv, ExactInv, ClearWeakTables
        PROVE  {o \in live : Marked(o)} = Retained
    <2>1. phase = "remark" /\ Converged /\ worklist = {} /\ keep = <<>>
      BY <1>1 DEF ClearWeakTables, Converged, OwedInv
    <2>2. Waiting = Resurrected
      BY <2>1, MembersEmpty DEF Waiting, Resurrected
    <2>3. /\ CodeClosed(aux) /\ aux \in SUBSET Obj
          /\ Painted(aux \cup worklist) /\ Painted(aux)
      BY <1>1, <2>1, ConvergedIsClosed DEF IInv, MarkingInv, TypeOK
    <2>4. {o \in live : Marked(o)} = aux
      BY <1>1, <2>1, <2>3, MarkedInAux DEF Painted
    <2>5. roots \cup Resurrected \subseteq aux
      BY <1>1, <2>1, <2>3 DEF Painted, Resurrected, ExactInv, FinobjInv
    <2>6. Retained \subseteq aux
      BY <2>3, <2>5 DEF Retained
    <2>7. aux \subseteq Retained
      BY <1>1, <2>1, <2>2, <2>3 DEF Retained, ExactInv, NoneTooMany
    <2> QED
      BY <2>4, <2>6, <2>7
  <1>2. TypeOK /\ IInv /\ OwedInv /\ ExactInv /\ [Next]_vars =>
          [ClearWeakTables => {o \in live : Marked(o)} = Retained]_vars
    BY <1>1
  <1> QED
    BY <1>2, TypeCorrect, HeapAndMarks, OwedLists, ExactMarks, PTL
       DEF Spec, MarksExact

(* A collection finalizes what the roots do not keep, and outside          *)
(* emergencies nothing else stays in finobj_list.                          *)
THEOREM SeparationIsExact ==
  ASSUME "late_mode" \notin Ops, "finalizer_alloc" \notin Ops
  PROVE  Spec => SeparationExact
  <1>1. ASSUME TypeOK, ExactInv, EndSeparation
        PROVE  /\ Members(tobefnz) \cap Strong = {}
               /\ \A o \in Members(keep) : ~emergency => o \in Strong
    <2>1. phase = "separate" /\ aux \in SUBSET Obj
      BY <1>1 DEF EndSeparation, TypeOK
    <2>2. Strong \subseteq aux
      BY <1>1, <2>1 DEF ExactInv, SeparationInv, Strong
    <2>3. aux \subseteq Strong
      BY <1>1, <2>1 DEF ExactInv, NoneTooMany, Strong
    <2> QED
      BY <1>1, <2>1, <2>2, <2>3 DEF ExactInv, SeparationInv
  <1>2. TypeOK /\ ExactInv /\ [Next]_vars =>
          [EndSeparation =>
             /\ Members(tobefnz) \cap Strong = {}
             /\ \A o \in Members(keep) : ~emergency => o \in Strong]_vars
    BY <1>1
  <1> QED
    BY <1>2, TypeCorrect, ExactMarks, PTL DEF Spec, SeparationExact

-----------------------------------------------------------------------------
(* The collector implements Heap.  Heap trims what nobody can get at from   *)
(* the contents in every step, Gc in its sweeps; what they have in common   *)
(* is what is kept, and for that it is enough that contents agree on any    *)
(* closed set around it: the marked objects when a sweep empties the rest,  *)
(* what was kept before in every other step.                                *)

Trim(h, S) == [o \in Obj |-> IF o \in Store!Reach(h, S) THEN h[o] ELSE Nothing]

Shut(h, T) == \A o \in T : Store!Refs(h, o) \subseteq T \cup {Plain}

LEMMA ReachLeast ==
  ASSUME NEW h, NEW S, NEW T \in SUBSET Obj, S \subseteq T, Shut(h, T)
  PROVE  Store!Reach(h, S) \subseteq T
  BY DEF Store!Reach, Shut

LEMMA ReachClosed ==
  ASSUME NEW h, NEW S \in SUBSET Obj, Shut(h, Obj)
  PROVE  /\ S \subseteq Store!Reach(h, S) /\ Store!Reach(h, S) \subseteq Obj
         /\ Shut(h, Store!Reach(h, S))
  <1>1. S \subseteq Store!Reach(h, S) /\ Store!Reach(h, S) \subseteq Obj
    BY DEF Store!Reach
  <1>2. ASSUME NEW o \in Store!Reach(h, S), NEW x \in Store!Refs(h, o),
               x # Plain, NEW T \in SUBSET Obj, S \subseteq T, Shut(h, T)
        PROVE  x \in T
    BY <1>2, ReachLeast DEF Shut
  <1>3. ASSUME NEW o \in Store!Reach(h, S), NEW x \in Store!Refs(h, o),
               x # Plain
        PROVE  x \in Store!Reach(h, S)
    <2>1. x \in Obj
      BY <1>1, <1>3 DEF Shut
    <2> QED
      BY <1>2, <1>3, <2>1 DEF Store!Reach, Shut
  <1> QED
    BY <1>1, <1>3 DEF Shut

LEMMA ReachAgrees ==
  ASSUME NEW g, NEW h, NEW S, NEW T \in SUBSET Obj, S \subseteq T,
         Shut(g, T), \A o \in T : g[o] = h[o]
  PROVE  Store!Reach(g, S) = Store!Reach(h, S) /\ Store!Reach(g, S) \subseteq T
  <1>1. \A o \in T : Store!Refs(g, o) = Store!Refs(h, o)
    BY DEF Store!Refs
  <1>2. ASSUME NEW U \in SUBSET Obj, S \subseteq U, Shut(h, U)
        PROVE  Store!Reach(g, S) \subseteq U
    <2>1. Shut(g, U \cap T)
      BY <1>1, <1>2 DEF Shut
    <2> QED
      BY <1>2, <2>1, ReachLeast
  <1>3. ASSUME NEW U \in SUBSET Obj, S \subseteq U, Shut(g, U)
        PROVE  Store!Reach(h, S) \subseteq U
    <2>1. Shut(h, U \cap T)
      BY <1>1, <1>3 DEF Shut
    <2> QED
      BY <1>3, <2>1, ReachLeast
  <1>4. Store!Reach(g, S) \subseteq Store!Reach(h, S)
    BY <1>2 DEF Store!Reach, Shut
  <1>5. Store!Reach(h, S) \subseteq Store!Reach(g, S)
    BY <1>3 DEF Store!Reach, Shut
  <1> QED
    BY <1>4, <1>5, ReachLeast

LEMMA TrimAgrees ==
  ASSUME NEW g, NEW h, NEW S, NEW T \in SUBSET Obj, S \subseteq T,
         Shut(g, T), \A o \in T : g[o] = h[o]
  PROVE  Trim(g, S) = Trim(h, S)
  <1>1. Store!Reach(g, S) = Store!Reach(h, S) /\ Store!Reach(g, S) \subseteq T
    BY ReachAgrees
  <1> QED
    BY <1>1 DEF Trim

(* All contents, garbage included. *)
Full == [o \in Obj |-> Contents(o)]

LEMMA FullRefs ==
  ASSUME TypeOK, NEW o \in Obj
  PROVE  /\ Full[o] = Contents(o)
         /\ Store!Refs(Full, o) \ {Plain} = Refs(o)
         /\ Store!Refs(Full, o) \subseteq Obj \cup {Plain}
  BY ObjAssumption
     DEF Full, Contents, Store!Refs, Refs, Keys, Vals, TypeOK, Val

LEMMA VisibleIsTrimmed ==
  ASSUME TypeOK
  PROVE  /\ Kept = Store!Reach(Full, roots \cup Listed)
         /\ Visible = Trim(Full, roots \cup Listed)
  <1>1. ASSUME NEW S \in SUBSET Obj
        PROVE  (\A o \in S : Refs(o) \subseteq S) <=>
                  \A o \in S : Store!Refs(Full, o) \subseteq S \cup {Plain}
    <2>1. \A o \in S : /\ Store!Refs(Full, o) \ {Plain} = Refs(o)
                       /\ Plain \notin S
      BY FullRefs, ObjAssumption
    <2> QED
      BY <2>1
  <1>2. Kept = Store!Reach(Full, roots \cup Listed)
    BY <1>1 DEF Kept, Store!Reach
  <1> QED
    BY <1>2, FullRefs DEF Visible, Trim

LEMMA KeptFacts ==
  ASSUME TypeOK
  PROVE  /\ Listed \subseteq Obj
         /\ roots \cup Listed \subseteq Kept /\ Kept \in SUBSET Obj
         /\ Shut(Full, Kept) /\ Shut(Visible, Kept)
         /\ \A o \in Kept : Visible[o] = Contents(o) /\ Full[o] = Contents(o)
         /\ \A o \in Obj \ Kept : Visible[o] = Nothing
         /\ Visible = Trim(Visible, roots \cup Listed)
  <1>1. Listed \subseteq Obj /\ roots \subseteq Obj
    BY MembersType DEF Listed, TypeOK
  <1>2. Shut(Full, Obj)
    BY FullRefs DEF Shut
  <1>3. /\ roots \cup Listed \subseteq Kept /\ Kept \in SUBSET Obj
        /\ Shut(Full, Kept)
    BY <1>1, <1>2, ReachClosed, VisibleIsTrimmed
  <1>4. /\ \A o \in Kept : Visible[o] = Contents(o) /\ Full[o] = Contents(o)
        /\ \A o \in Obj \ Kept : Visible[o] = Nothing
    BY <1>3, FullRefs DEF Visible
  <1>5. Shut(Visible, Kept)
    BY <1>3, <1>4 DEF Shut, Store!Refs
  <1>6. Visible = Trim(Visible, roots \cup Listed)
    BY <1>3, <1>4, TrimAgrees, VisibleIsTrimmed
  <1> QED
    BY <1>1, <1>3, <1>4, <1>5, <1>6

LEMMA KeptLeast ==
  ASSUME TypeOK, NEW T \in SUBSET Obj, roots \cup Listed \subseteq T,
         \A o \in T : Refs(o) \subseteq T
  PROVE  Kept \subseteq T
  BY DEF Kept

(* A step after which the contents are those of g on a closed set. *)
LEMMA BecomesBy ==
  ASSUME TypeOK', NEW g, NEW T \in SUBSET Obj,
         roots' \cup Listed' \subseteq T, Shut(g, T),
         \A o \in T : g[o] = Contents(o)'
  PROVE  Visible' = Trim(g, roots' \cup Listed') /\ Store!Becomes(g)
  <1>1. Visible' = Trim(Full', roots' \cup Listed')
    <2>1. TypeOK' => (Visible = Trim(Full, roots \cup Listed))'
      BY VisibleIsTrimmed, PTL
    <2> QED
      BY <2>1 DEF Trim
  <1>2. \A o \in T : Full'[o] = Contents(o)'
    BY DEF Full
  <1>3. Visible' = Trim(g, roots' \cup Listed')
    BY <1>1, <1>2, TrimAgrees
  <1>4. roots' \cup Listed' = roots'
           \cup (Members(finobj) \cup Members(keep))'
           \cup (Members(tobefnz) \cup Members(closeQ))'
    BY DEF Listed
  <1> QED
    BY <1>3, <1>4 DEF Trim, Store!Becomes, Store!Empty, Nothing

(* What the references out of an object are in. *)
LEMMA RefsParts ==
  ASSUME NEW h, NEW o, NEW S
  PROVE  Store!Refs(h, o) \subseteq S <=>
            /\ h[o].fields \subseteq S
            /\ \A p \in h[o].pairs : p[1] \in S /\ p[2] \in S
  BY DEF Store!Refs

(* Contents that add references into a closed set leave it closed. *)
LEMMA ShutStays ==
  ASSUME NEW g, NEW h, NEW T, Shut(h, T),
         \A q \in T :
            /\ g[q].fields \subseteq h[q].fields \cup T
            /\ \A p \in g[q].pairs :
                  \/ p \in h[q].pairs
                  \/ p[1] \in T \cup {Plain} /\ p[2] \in T \cup {Plain}
  PROVE  Shut(g, T)
  <1>1. ASSUME NEW q \in T
        PROVE  /\ h[q].fields \subseteq T \cup {Plain}
               /\ \A p \in h[q].pairs : p[1] \in T \cup {Plain}
                                        /\ p[2] \in T \cup {Plain}
    BY RefsParts DEF Shut
  <1>2. ASSUME NEW q \in T
        PROVE  /\ g[q].fields \subseteq T \cup {Plain}
               /\ \A p \in g[q].pairs : p[1] \in T \cup {Plain}
                                        /\ p[2] \in T \cup {Plain}
    BY <1>1
  <1>3. ASSUME NEW q \in T
        PROVE  Store!Refs(g, q) \subseteq T \cup {Plain}
    BY <1>2, RefsParts
  <1> QED
    BY <1>3 DEF Shut

LEMMA ReachGrows ==
  ASSUME NEW h, NEW S, NEW T, S \subseteq T
  PROVE  Store!Reach(h, S) \subseteq Store!Reach(h, T)
  BY DEF Store!Reach

(* Contents that stay the same where anything is kept stay visible. *)
LEMMA VisibleStays ==
  ASSUME TypeOK, TypeOK', NEW T \in SUBSET Obj, Kept \subseteq T,
         roots \cup Listed \subseteq roots' \cup Listed',
         roots' \cup Listed' \subseteq T,
         \A o \in T : Visible[o] = Contents(o)'
  PROVE  Visible' = Visible
  <1>1. Shut(Visible, T)
    BY KeptFacts DEF Shut, Store!Refs, Nothing
  <1>2. Visible' = Trim(Visible, roots' \cup Listed')
    BY <1>1, BecomesBy
  <1>3. Store!Reach(Visible, roots \cup Listed)
           \subseteq Store!Reach(Visible, roots' \cup Listed')
    BY ReachGrows
  <1>4. Visible = Trim(Visible, roots \cup Listed)
    BY KeptFacts
  <1>5. Kept \subseteq Store!Reach(Visible, roots \cup Listed)
    <2>1. /\ Kept \in SUBSET Obj /\ roots \cup Listed \subseteq Kept
          /\ Shut(Full, Kept) /\ \A o \in Kept : Full[o] = Visible[o]
      BY KeptFacts
    <2>2. Store!Reach(Full, roots \cup Listed)
             = Store!Reach(Visible, roots \cup Listed)
      BY <2>1, ReachAgrees
    <2> QED
      BY <2>2, VisibleIsTrimmed
  <1>6. ASSUME NEW o \in Obj
        PROVE  Trim(Visible, roots' \cup Listed')[o] = Visible[o]
    BY <1>3, <1>5, KeptFacts DEF Trim
  <1>7. Visible = [o \in Obj |-> Visible[o]]
    BY DEF Visible
  <1> QED
    BY <1>2, <1>6, <1>7 DEF Trim

(* What holds strongly holds within the marks. *)
LEMMA HeldMarked ==
  ASSUME TypeOK, NEW S \in SUBSET Obj, ManualClosed(S), roots \subseteq S
  PROVE  Store!Held \subseteq S
  <1>1. /\ roots \subseteq S \cap Kept
        /\ \A o \in Kept : /\ Visible[o] = Contents(o)
                           /\ Store!Refs(Visible, o) \subseteq Kept \cup {Plain}
    BY KeptFacts DEF Shut
  <1>2. ASSUME NEW o \in S \cap Kept
        PROVE  Store!HoldsWithin(Visible, o, S \cap Kept)
    <2>1. /\ Visible[o].mode = mode[o] /\ Visible[o].fields = fields[o]
          /\ Visible[o].pairs = pairs[o]
      <3>1. Visible[o] = Contents(o)
        BY <1>1
      <3> QED
        BY <3>1 DEF Contents
    <2>2. /\ fields[o] \subseteq Kept \cup {Plain}
          /\ \A p \in pairs[o] : /\ p[1] \in Kept \cup {Plain}
                                 /\ p[2] \in Kept \cup {Plain}
      BY <1>1, <2>1, RefsParts
    <2>3. fields[o] \subseteq Kept
      BY <2>2, ObjAssumption DEF TypeOK
    <2> QED
      BY <2>1, <2>2, <2>3 DEF ManualClosed, Store!HoldsWithin
  <1> QED
    BY <1>1, <1>2, KeptFacts DEF Store!Held

(* All that is known of the collector's states. *)
GcInv == TypeOK /\ IInv /\ FInv /\ OwedInv /\ ExactInv

LEMMA StoreInit == Init => Store!Init
  BY MembersEmpty
     DEF Init, Visible, Contents, Nothing, Store!Init, Store!Empty

(* Steps that move no contents, and let nothing go or in but by roots: the *)
(* abstract contents become what is left of the same ones.                 *)
LEMMA Unmoved ==
  ASSUME TypeOK, TypeOK', UNCHANGED heapVars, roots' \cup Listed' \subseteq Kept
  PROVE  /\ Store!Becomes(Visible)
         /\ roots \cup Listed \subseteq roots' \cup Listed' => Visible' = Visible
  <1>1. \A o \in Kept : Visible[o] = Contents(o)'
    BY KeptFacts DEF heapVars, Contents
  <1> QED
    BY <1>1, KeptFacts, BecomesBy, VisibleStays

(* Steps that change contents, but add only references to root values.     *)
LEMMA Updated ==
  ASSUME TypeOK, TypeOK', NEW g, roots' \cup Listed' \subseteq Kept,
         \A q \in Kept : g[q] = Contents(q)',
         \A q \in Kept :
            /\ fields'[q] \subseteq fields[q] \cup roots
            /\ \A p \in pairs'[q] :
                  \/ p \in pairs[q]
                  \/ p[1] \in roots \cup {Plain} /\ p[2] \in roots \cup {Plain}
  PROVE  Store!Becomes(g)
  <1>1. /\ roots \subseteq Kept /\ Kept \in SUBSET Obj /\ Shut(Visible, Kept)
        /\ \A q \in Kept : Visible[q] = Contents(q)
    BY KeptFacts
  <1>2. ASSUME NEW q \in Kept
        PROVE  /\ Visible[q].fields = fields[q] /\ Visible[q].pairs = pairs[q]
               /\ g[q].fields = fields'[q] /\ g[q].pairs = pairs'[q]
    <2>1. Visible[q] = Contents(q) /\ g[q] = Contents(q)'
      BY <1>1
    <2> QED
      BY ONLY <2>1 DEF Contents
  <1>3. ASSUME NEW q \in Kept
        PROVE  /\ g[q].fields \subseteq Visible[q].fields \cup Kept
               /\ \A p \in g[q].pairs :
                     \/ p \in Visible[q].pairs
                     \/ p[1] \in Kept \cup {Plain} /\ p[2] \in Kept \cup {Plain}
    <2>1. /\ fields'[q] \subseteq fields[q] \cup Kept
          /\ \A p \in pairs'[q] :
                \/ p \in pairs[q]
                \/ p[1] \in Kept \cup {Plain} /\ p[2] \in Kept \cup {Plain}
      BY <1>1
    <2> QED
      BY <1>2, <2>1
  <1>4. Shut(g, Kept)
    BY <1>1, <1>3, ShutStays
  <1> QED
    BY <1>1, <1>4, BecomesBy

LEMMA RootsVisible ==
  ASSUME TypeOK
  PROVE  \A o \in roots : Visible[o] = Contents(o)
  BY KeptFacts

LEMMA RootsVisibleNext ==
  ASSUME TypeOK'
  PROVE  \A o \in roots' : Visible'[o] = Contents(o)'
  <1>1. TypeOK' => (\A o \in roots : Visible[o] = Contents(o))'
    BY RootsVisible, PTL
  <1> QED
    BY <1>1

(* The program's steps are those of Heap's program. *)
LEMMA StoreMutator ==
  ASSUME Ops \subseteq {"finalizer", "emergency", "close"},
         GcInv, TypeOK', Mutator
  PROVE  Store!Next
  <1> USE DEF GcInv
  <1>a. /\ roots \cup Listed \subseteq Kept /\ Kept \in SUBSET Obj
        /\ Listed = (Members(finobj) \cup Members(keep))
                       \cup (Members(tobefnz) \cup Members(closeQ))
        /\ \A o \in Kept : Visible[o] = Contents(o)
        /\ Shut(Visible, Kept)
    BY KeptFacts DEF Listed
  <1>c. \A o \in roots' : Visible'[o] = Contents(o)'
    BY RootsVisibleNext
  <1>b. ASSUME UNCHANGED <<finVars, closeVars>>
        PROVE  /\ (Members(finobj) \cup Members(keep))'
                     = Members(finobj) \cup Members(keep)
               /\ (Members(tobefnz) \cup Members(closeQ))'
                     = Members(tobefnz) \cup Members(closeQ)
               /\ (closing # "open")' = (closing # "open")
               /\ Listed' = Listed
    BY <1>b DEF finVars, closeVars, Members, Listed
  <1>1. ASSUME NEW o \in Obj, Alloc(o)
        PROVE  Store!New(o)
    <2>1. /\ roots' = roots \cup {o} /\ UNCHANGED heapVars /\ o \notin live
          /\ UNCHANGED <<finVars, closeVars>>
      BY <1>1 DEF Alloc, Held
    <2>2. Kept \subseteq live
      <3>1. \A x \in live : Refs(x) \subseteq live
        BY WithinRefs DEF IInv, HeapInv, TypeOK
      <3> QED
        BY <3>1, KeptLeast DEF TypeOK, IInv, HeapInv, FInv, ListedMarked
    <2>3. Visible[o] = Nothing /\ Contents(o)' = Nothing
      BY <2>1, <2>2, KeptFacts
         DEF IInv, HeapInv, heapVars, Contents, Nothing, TypeOK
    <2>4. \A x \in Kept : Visible[x] = Contents(x)'
      BY <1>a, <2>1 DEF heapVars, Contents
    <2>5. Visible' = Visible
      <3> DEFINE T == Kept \cup {o}
      <3>1. /\ T \in SUBSET Obj /\ Kept \subseteq T
            /\ roots \cup Listed \subseteq roots' \cup Listed'
            /\ roots' \cup Listed' \subseteq T
            /\ \A x \in T : Visible[x] = Contents(x)'
        BY <1>a, <1>b, <2>1, <2>3, <2>4
      <3> QED
        BY <3>1, VisibleStays
    <2>6. o \notin Store!Reach(Visible, roots \cup Listed)
      <3>1. Store!Reach(Visible, roots \cup Listed) \subseteq Kept
        BY <1>a, ReachLeast
      <3> QED
        BY <2>1, <2>2, <3>1
    <2>7. roots \cup (Members(finobj) \cup Members(keep))
                \cup (Members(tobefnz) \cup Members(closeQ))
             = roots \cup Listed
      BY <1>a
    <2> QED
      BY <1>b, <2>1, <2>5, <2>6, <2>7 DEF Store!New
  <1>2. ASSUME NEW o \in Obj, NEW x \in Obj, Load(o, x)
        PROVE  Store!Load(o, x)
    <2>1. /\ roots' = roots \cup {x} /\ UNCHANGED heapVars
          /\ o \in roots /\ x \in Refs(o)
          /\ UNCHANGED <<finVars, closeVars>>
      BY <1>2 DEF Load
    <2>2. x \in Store!Refs(Visible, o) \ {Plain}
      BY <1>a, <2>1, FullRefs DEF Store!Refs
    <2>3. x \in Kept
      BY <1>a, <2>1, <2>2 DEF Shut
    <2>4. Visible' = Visible
      BY <1>a, <1>b, <2>1, <2>3, Unmoved
    <2> QED
      BY <1>b, <2>1, <2>2, <2>4 DEF Store!Load
  <1>3. ASSUME NEW o \in Obj, Forget(o)
        PROVE  Store!Forget
    <2>1. /\ roots' = roots \ {o} /\ UNCHANGED heapVars
          /\ UNCHANGED <<finVars, closeVars>>
      BY <1>3 DEF Forget
    <2>2. Store!Becomes(Visible)
      BY <1>a, <1>b, <2>1, Unmoved
    <2> QED
      BY <1>b, <2>1, <2>2 DEF Store!Forget
  <1>4. ASSUME NEW o \in Obj, NEW x \in Obj, SetField(o, x)
        PROVE  o \in roots /\ x \in Visible'[o].fields /\ Store!SetField(o, x)
    <2> DEFINE g == [Visible EXCEPT ![o].fields = @ \cup {x}]
    <2>1. /\ o \in roots /\ x \in roots /\ UNCHANGED <<roots, pairs, mode, hasGc>>
          /\ fields' = [fields EXCEPT ![o] = @ \cup {x}]
          /\ UNCHANGED <<finVars, closeVars>>
      BY <1>4 DEF SetField
    <2>2. \A q \in Kept : g[q] = Contents(q)'
      BY <1>a, <2>1 DEF Contents, Visible, TypeOK
    <2> HIDE DEF g
    <2>3. \A q \in Kept :
             /\ fields'[q] \subseteq fields[q] \cup roots
             /\ \A p \in pairs'[q] :
                   \/ p \in pairs[q]
                   \/ p[1] \in roots \cup {Plain} /\ p[2] \in roots \cup {Plain}
      BY <1>a, <2>1 DEF TypeOK
    <2>4. Store!Becomes(g)
      BY <1>a, <1>b, <2>1, <2>2, <2>3, Updated
    <2>5. x \in Visible'[o].fields
      <3>1. Visible'[o] = Contents(o)' /\ x \in fields'[o]
        BY <1>c, <2>1 DEF TypeOK
      <3> QED
        BY <3>1 DEF Contents
    <2> QED
      BY <1>b, <2>1, <2>4, <2>5 DEF Store!SetField, g
  <1>5. ASSUME NEW o \in Obj, NEW k \in Val, NEW v \in Val, SetPair(o, k, v)
        PROVE  o \in roots /\ <<k, v>> \in Visible'[o].pairs /\ Store!SetPair(o, k, v)
    <2> DEFINE g == [Visible EXCEPT ![o].pairs =
                        {p \in @ : p[1] # k} \cup {<<k, v>>}]
    <2>1. /\ o \in roots /\ {k, v} \subseteq roots \cup {Plain}
          /\ UNCHANGED <<roots, fields, mode, hasGc>>
          /\ pairs' = [pairs EXCEPT ![o] =
                          {p \in @ : p[1] # k} \cup {<<k, v>>}]
          /\ UNCHANGED <<finVars, closeVars>>
      BY <1>5 DEF SetPair
    <2>2. \A q \in Kept : g[q] = Contents(q)'
      BY <1>a, <2>1 DEF Contents, Visible, TypeOK
    <2> HIDE DEF g
    <2>3. \A q \in Kept :
             /\ fields'[q] \subseteq fields[q] \cup roots
             /\ \A p \in pairs'[q] :
                   \/ p \in pairs[q]
                   \/ p[1] \in roots \cup {Plain} /\ p[2] \in roots \cup {Plain}
      BY <1>a, <2>1 DEF TypeOK
    <2>4. Store!Becomes(g)
      BY <1>a, <1>b, <2>1, <2>2, <2>3, Updated
    <2>5. <<k, v>> \in Visible'[o].pairs
      <3>1. Visible'[o] = Contents(o)' /\ <<k, v>> \in pairs'[o]
        BY <1>c, <2>1 DEF TypeOK
      <3> QED
        BY <3>1 DEF Contents
    <2> QED
      BY <1>b, <2>1, <2>4, <2>5 DEF Store!SetPair, g
  <1>6. ASSUME NEW o \in Obj, Erase(o)
        PROVE  o \in roots /\ Store!Erase(o)
    <2> DEFINE g == [Visible EXCEPT ![o].fields = {}, ![o].pairs = {}]
    <2>1. /\ o \in roots /\ UNCHANGED <<roots, mode, hasGc>>
          /\ fields' = [fields EXCEPT ![o] = {}]
          /\ pairs' = [pairs EXCEPT ![o] = {}]
          /\ UNCHANGED <<finVars, closeVars>>
      BY <1>6 DEF Erase
    <2>2. \A q \in Kept : g[q] = Contents(q)'
      BY <1>a, <2>1 DEF Contents, Visible, TypeOK
    <2> HIDE DEF g
    <2>3. \A q \in Kept :
             /\ fields'[q] \subseteq fields[q] \cup roots
             /\ \A p \in pairs'[q] :
                   \/ p \in pairs[q]
                   \/ p[1] \in roots \cup {Plain} /\ p[2] \in roots \cup {Plain}
      BY <1>a, <2>1 DEF TypeOK
    <2>4. Store!Becomes(g)
      BY <1>a, <1>b, <2>1, <2>2, <2>3, Updated
    <2> QED
      BY <1>b, <2>1, <2>4 DEF Store!Erase, g
  <1>7. ASSUME NEW o \in Obj, NEW m \in Modes, NEW b \in BOOLEAN,
               SetMetatable(o, m, b)
        PROVE  /\ o \in roots /\ Visible'[o].mode = m /\ Visible'[o].hasGc = b
               /\ Store!SetMetatable(o, m, b)
    <2> DEFINE g == [Visible EXCEPT ![o].mode = m, ![o].hasGc = b]
    <2>1. /\ o \in roots /\ UNCHANGED <<roots, fields, pairs, keep, tobefnz>>
          /\ mode' = [mode EXCEPT ![o] = m] /\ hasGc' = [hasGc EXCEPT ![o] = b]
          /\ finobj' = IF b /\ Registers(o) THEN Append(finobj, o) ELSE finobj
          /\ UNCHANGED closeVars
      BY <1>7 DEF SetMetatable
    <2>2. /\ Members(Append(finobj, o)) = Members(finobj) \cup {o}
          /\ Members(keep)' = Members(keep)
          /\ (Members(tobefnz) \cup Members(closeQ))'
                = Members(tobefnz) \cup Members(closeQ)
          /\ (closing # "open")' = (closing # "open")
      <3>1. Members(Append(finobj, o)) = Members(finobj) \cup {o}
        BY MembersAppend DEF TypeOK
      <3> QED
        BY <2>1, <3>1 DEF closeVars, Members
    <2>3. Members(finobj)' = IF b /\ closing = "open"
                               THEN Members(finobj) \cup {o} ELSE Members(finobj)
      BY <2>1, <2>2 DEF Registers
    <2>4. Listed' \subseteq Listed \cup {o}
      BY <2>2, <2>3 DEF Listed
    <2>5. \A q \in Kept : g[q] = Contents(q)'
      BY <1>a, <2>1 DEF Contents, Visible, TypeOK
    <2> HIDE DEF g
    <2>6. \A q \in Kept : fields'[q] = fields[q] /\ pairs'[q] = pairs[q]
      BY <2>1
    <2>7. Store!Becomes(g)
      BY <1>a, <2>1, <2>4, <2>5, <2>6, Updated
    <2>8. Visible'[o].mode = m /\ Visible'[o].hasGc = b
      <3>1. Visible'[o] = Contents(o)' /\ mode'[o] = m /\ hasGc'[o] = b
        BY <1>c, <2>1 DEF TypeOK
      <3> QED
        BY <3>1 DEF Contents
    <2> QED
      BY <2>1, <2>2, <2>3, <2>7, <2>8 DEF Store!SetMetatable, g
  <1>8. \A o \in Obj, m \in Modes, b \in BOOLEAN :
           ~DebugSetMetatable(o, m, b) /\ ~ChangeMode(o, m)
    BY DEF DebugSetMetatable, ChangeMode
  <1>10. CASE \E o \in Obj : Alloc(o) \/ Forget(o) \/ Erase(o)
    BY <1>1, <1>3, <1>6, <1>10 DEF Store!Next, Store!Write
  <1>11. CASE \E o, x \in Obj : Load(o, x) \/ SetField(o, x)
    BY <1>2, <1>4, <1>11 DEF Store!Next, Store!Write
  <1>12. CASE \E o \in Obj, k, v \in Val : SetPair(o, k, v)
    <2>1. PICK o \in Obj, k \in Val, v \in Val : SetPair(o, k, v)
      BY <1>12
    <2> DEFINE p == <<k, v>>
    <2>2. /\ o \in roots /\ p \in Visible'[o].pairs
          /\ Store!SetPair(o, p[1], p[2])
      BY <1>5, <2>1
    <2> QED
      BY <2>2 DEF Store!Next, Store!Write
  <1>13. CASE \E o \in Obj, m \in Modes, b \in BOOLEAN : SetMetatable(o, m, b)
    <2>1. PICK o \in Obj, m \in Modes, b \in BOOLEAN : SetMetatable(o, m, b)
      BY <1>13
    <2>2. o \in roots /\ Store!SetMetatable(o, Visible'[o].mode, Visible'[o].hasGc)
      BY <1>7, <2>1
    <2> QED
      BY <2>2 DEF Store!Next, Store!Write
  <1> QED
    BY <1>8, <1>10, <1>11, <1>12, <1>13 DEF Mutator

(* Marking and sweeping are no steps of Heap, nor are the ends of phases.  *)
LEMMA StoreStutters ==
  ASSUME Ops \subseteq {"finalizer", "emergency", "close"},
         GcInv, TypeOK',
         \/ Enter \/ StartSeparation \/ EndSeparation \/ Sweep
         \/ \E o \in Obj : MarkOne(o)
         \/ \E p \in Val \X Val : PullKey(p) \/ PullValue(p)
         \/ FinalizerEnds \/ UNCHANGED vars
  PROVE  UNCHANGED Store!vars
  <1> USE DEF GcInv
  <1>1. CASE ~Sweep
    <2>1. /\ UNCHANGED <<roots, fields, pairs, mode, hasGc, tobefnz, closing,
                         closeQ>>
          /\ UNCHANGED <<finobj, keep>> \/ EndSeparation
      BY <1>1 DEF Enter, EnterCycle, StartSeparation, EndSeparation, MarkOne,
                  PullKey, PullValue, FinalizerEnds, FinalizerReturns,
                  CloseFinalizerReturns, vars, heapVars, markVars, finVars,
                  closeVars, ghostVars
    <2>2. (Members(finobj) \cup Members(keep))'
             = Members(finobj) \cup Members(keep)
      <3>1. CASE UNCHANGED <<finobj, keep>>
        BY <3>1 DEF Members
      <3>2. CASE EndSeparation
        <4>1. finobj = <<>> /\ finobj' = keep /\ keep' = <<>>
          BY <3>2 DEF EndSeparation
        <4> QED
          BY <4>1, MembersEmpty DEF Members
      <3> QED
        BY <2>1, <3>1, <3>2
    <2>3. /\ Members(tobefnz)' = Members(tobefnz)
          /\ Members(closeQ)' = Members(closeQ)
          /\ (closing # "open")' = (closing # "open")
      BY <2>1 DEF Members
    <2>4. Listed' = Listed
      BY <2>2, <2>3 DEF Listed
    <2>5. Visible' = Visible
      BY <2>1, <2>4, KeptFacts, Unmoved DEF heapVars
    <2> QED
      BY <2>1, <2>2, <2>3, <2>5 DEF Store!vars
  <1>2. CASE Sweep
    <2>1. /\ phase = "finalize" /\ tobefnz = <<>>
          /\ UNCHANGED <<roots, finobj, keep, tobefnz, closeQ>>
          /\ closing' = IF closing = "broken" THEN "closed" ELSE closing
          /\ \A o \in Obj : Marked(o) => UNCHANGED <<fields[o], pairs[o],
                                                     mode[o], hasGc[o]>>
      BY <1>2 DEF Sweep, finVars, TypeOK
    <2>2. closeQ = <<>> /\ keep = <<>> /\ roots \cup Listed \subseteq aux
      BY <2>1, MembersEmpty
         DEF Listed, FInv, ListedMarked, CloseOrder, IInv, MarkedInv, Painted
    <2>3. Kept \subseteq aux
      <3>1. \A o \in aux : Refs(o) \subseteq aux
        BY <2>1, WithinRefs DEF IInv, MarkedInv, TypeOK
      <3> QED
        BY <2>2, <3>1, KeptLeast DEF TypeOK
    <2>4. \A o \in aux : Marked(o)
      BY <2>1 DEF IInv, MarkedInv, Painted, Marked, TypeOK
    <2>5. \A o \in Kept : Visible[o] = Contents(o)'
      BY <2>1, <2>3, <2>4, KeptFacts DEF Contents
    <2>6. /\ Members(finobj)' = Members(finobj) /\ Members(keep)' = Members(keep)
          /\ Members(tobefnz)' = Members(tobefnz)
          /\ Members(closeQ)' = Members(closeQ)
          /\ (closing # "open")' = (closing # "open")
      BY <2>1 DEF Members
    <2>7. Listed' = Listed
      BY <2>6 DEF Listed
    <2>8. Visible' = Visible
      BY <2>1, <2>5, <2>7, KeptFacts, VisibleStays
    <2> QED
      BY <2>1, <2>6, <2>8 DEF Store!vars
  <1> QED
    BY <1>1, <1>2

(* An object leaves finobj_list for good when nothing holds it strongly. *)
LEMMA StoreSeparate ==
  ASSUME Ops \subseteq {"finalizer", "emergency", "close"},
         GcInv, TypeOK', NEW i \in 1..Len(finobj), Separate(i)
  PROVE  Store!Next \/ UNCHANGED Store!vars
  <1> USE DEF GcInv
  <1> DEFINE o == finobj[i]
  <1>1. /\ phase = "separate" /\ finobj' = Dropped(finobj, i)
        /\ keep' = IF Marked(o) \/ Postponed(o) THEN Append(keep, o) ELSE keep
        /\ tobefnz' = IF ~Marked(o) /\ hasGc[o] /\ ~emergency
                        THEN Append(tobefnz, o) ELSE tobefnz
        /\ UNCHANGED <<roots, closing, closeQ>> /\ UNCHANGED heapVars
    BY DEF Separate, closeVars
  <1>2. /\ o \in Obj /\ o \in Members(finobj) /\ o \notin Members(keep)
        /\ Members(Dropped(finobj, i)) = Members(finobj) \ {o}
        /\ Members(Append(keep, o)) = Members(keep) \cup {o}
        /\ Members(Append(tobefnz, o)) = Members(tobefnz) \cup {o}
    <2>1. /\ finobj \in Seq(Obj) /\ keep \in Seq(Obj) /\ tobefnz \in Seq(Obj)
          /\ NoRepeats(finobj) /\ Members(keep) \cap Members(finobj) = {}
      BY DEF TypeOK, OwedInv
    <2>2. /\ o \in Obj /\ Members(finobj) = {o} \cup Members(Dropped(finobj, i))
          /\ o \notin Members(Dropped(finobj, i))
      BY <2>1, MembersDropped, DroppedKeeps
    <2> QED
      BY <2>1, <2>2, MembersAppend
  <1>3. /\ Members(finobj)' = Members(finobj) \ {o}
        /\ Members(keep)' = IF Marked(o) \/ Postponed(o)
                              THEN Members(keep) \cup {o} ELSE Members(keep)
        /\ Members(tobefnz)' = IF ~Marked(o) /\ hasGc[o] /\ ~emergency
                                 THEN Members(tobefnz) \cup {o}
                                 ELSE Members(tobefnz)
        /\ Members(closeQ)' = Members(closeQ)
    <2>1. /\ Members(finobj)' = Members(finobj')
          /\ Members(keep)' = Members(keep')
          /\ Members(tobefnz)' = Members(tobefnz')
          /\ Members(closeQ)' = Members(closeQ')
      BY DEF Members
    <2> QED
      BY <1>1, <1>2, <2>1
  <1>4. Listed' \subseteq Listed
    BY <1>2, <1>3 DEF Listed
  <1>5. roots' \cup Listed' \subseteq Kept
    BY <1>1, <1>4, KeptFacts
  <1>6. CASE Marked(o) \/ Postponed(o)
    <2>1. /\ (Members(finobj) \cup Members(keep))'
                = Members(finobj) \cup Members(keep)
          /\ (Members(tobefnz) \cup Members(closeQ))'
                = Members(tobefnz) \cup Members(closeQ)
      BY <1>2, <1>3, <1>6 DEF Postponed
    <2>2. Listed' = Listed
      BY <2>1 DEF Listed
    <2>3. Visible' = Visible
      BY <1>1, <1>5, <2>2, Unmoved
    <2> QED
      BY <1>1, <2>1, <2>3 DEF Store!vars
  <1>7. CASE ~Marked(o) /\ ~Postponed(o)
    <2>1. /\ (Members(finobj) \cup Members(keep))'
                = (Members(finobj) \cup Members(keep)) \ {o}
          /\ (Members(tobefnz) \cup Members(closeQ))'
                = IF hasGc[o] THEN (Members(tobefnz) \cup Members(closeQ)) \cup {o}
                              ELSE Members(tobefnz) \cup Members(closeQ)
      BY <1>2, <1>3, <1>7 DEF Postponed
    <2>2. Visible[o].hasGc = hasGc[o]
      <3>1. o \in Kept
        BY <1>2, KeptFacts DEF Listed
      <3>2. Visible[o] = Contents(o)
        BY <3>1, KeptFacts
      <3> QED
        BY <3>2 DEF Contents
    <2>3. o \notin Store!Held
      <3>1. /\ aux \in SUBSET Obj /\ ManualClosed(aux) /\ roots \subseteq aux
        BY <1>1 DEF ExactInv, SeparationInv, CodeClosed, TypeOK
      <3>2. o \notin aux
        BY <1>1, <1>2, <1>7, MarkedInAux
           DEF ExactInv, FinobjInv, IInv, MarkingInv
      <3> QED
        BY <3>1, <3>2, HeldMarked
    <2>4. Store!Becomes(Visible)
      BY <1>1, <1>5, Unmoved
    <2>5. Store!Choose(o)
      BY <1>1, <1>2, <2>1, <2>2, <2>3, <2>4 DEF Store!Choose
    <2> QED
      BY <1>2, <2>5 DEF Store!Next
  <1> QED
    BY <1>6, <1>7

(* Clearing weak tables drops only what nothing holds strongly. *)
LEMMA StoreClear ==
  ASSUME Ops \subseteq {"finalizer", "emergency", "close"},
         GcInv, TypeOK', ClearWeakTables
  PROVE  Store!Expire
  <1> USE DEF GcInv
  <1> DEFINE gone == {e \in Store!ExpiredFields : e[2] \notin fields'[e[1]]}
             lost == {e \in Store!ExpiredPairs : e[2] \notin pairs'[e[1]]}
             g == [o \in Obj |->
                     [Visible[o] EXCEPT
                        !.fields = {x \in @ : <<o, x>> \notin gone},
                        !.pairs = {p \in @ : <<o, p>> \notin lost}]]
  <1>1. /\ phase = "remark" /\ Converged
        /\ UNCHANGED <<roots, mode, hasGc, finobj, keep, tobefnz, closing, closeQ>>
        /\ \A o \in Obj :
              /\ fields'[o] = IF o \in weakReg /\ "v" \in mode[o]
                                THEN {x \in fields[o] : Marked(x)} ELSE fields[o]
              /\ pairs'[o] = IF o \in weakReg
                               THEN {p \in pairs[o] : Survives(o, p)}
                               ELSE pairs[o]
    BY DEF ClearWeakTables, finVars, closeVars
  <1>2. /\ (Members(finobj) \cup Members(keep))'
              = Members(finobj) \cup Members(keep)
        /\ (Members(tobefnz) \cup Members(closeQ))'
              = Members(tobefnz) \cup Members(closeQ)
        /\ (closing # "open")' = (closing # "open")
        /\ Listed' = Listed
    BY <1>1 DEF Members, Listed
  <1>3. /\ roots' \cup Listed' \subseteq Kept /\ Kept \in SUBSET Obj
        /\ \A o \in Kept : Visible[o] = Contents(o)
    BY <1>1, <1>2, KeptFacts
  <1>4. Store!Held \subseteq aux
    <2>1. ManualClosed(aux) /\ roots \subseteq aux /\ aux \in SUBSET Obj
      BY <1>1, ConvergedIsClosed DEF CodeClosed, TypeOK
    <2> QED
      BY <2>1, HeldMarked
  <1>5. /\ Marked(Plain)
        /\ \A x \in live : ~Marked(x) => x \in Obj \ Store!Held
    <2>1. Painted(aux \cup worklist)
      BY <1>1 DEF IInv, MarkingInv
    <2> QED
      BY <1>4, <2>1, MarkedInAux DEF Marked, TypeOK
  <1>6. ASSUME NEW o \in Kept
        PROVE  /\ \A x \in fields[o] : x \in fields'[o] \/ <<o, x>> \in gone
               /\ \A p \in pairs[o] : p \in pairs'[o] \/ <<o, p>> \in lost
               /\ fields'[o] \subseteq fields[o] /\ pairs'[o] \subseteq pairs[o]
    <2>1. /\ o \in Obj /\ Visible[o] = Contents(o)
          /\ Within(o, live) /\ live \subseteq Obj
      BY <1>3 DEF IInv, HeapInv, TypeOK
    <2>2. /\ Visible[o].fields = fields[o] /\ Visible[o].pairs = pairs[o]
          /\ Visible[o].mode = mode[o]
      BY ONLY <2>1 DEF Contents
    <2>3. ASSUME NEW x \in fields[o], x \notin fields'[o]
          PROVE  <<o, x>> \in gone
      <3>1. "v" \in mode[o] /\ ~Marked(x) /\ x \in live
        BY <1>1, <2>1, <2>3 DEF Within
      <3>2. x \in Obj \ Store!Held
        BY <1>5, <3>1
      <3>3. <<o, x>> \in Store!ExpiredFields
        BY <2>1, <2>2, <2>3, <3>1, <3>2 DEF Store!ExpiredFields
      <3> QED
        BY <2>3, <3>3
    <2>4. ASSUME NEW p \in pairs[o], p \notin pairs'[o]
          PROVE  <<o, p>> \in lost
      <3>1. ~Survives(o, p)
        BY <1>1, <2>1, <2>4
      <3>2. p[1] \in live \cup {Plain} /\ p[2] \in live \cup {Plain}
        BY <2>1 DEF Within
      <3>3. \/ "k" \in mode[o] /\ p[1] \in Obj \ Store!Held
            \/ "v" \in mode[o] /\ p[2] \in Obj \ Store!Held
        BY <1>5, <3>1, <3>2 DEF Survives
      <3>4. <<o, p>> \in Store!ExpiredPairs
        BY <2>1, <2>2, <3>3 DEF Store!ExpiredPairs
      <3> QED
        BY <2>4, <3>4
    <2>5. fields'[o] \subseteq fields[o] /\ pairs'[o] \subseteq pairs[o]
      BY <1>1, <2>1
    <2> QED
      BY <2>3, <2>4, <2>5
  <1>7. /\ gone \in SUBSET Store!ExpiredFields
        /\ lost \in SUBSET Store!ExpiredPairs
        /\ \A o \in Obj : \A x : <<o, x>> \in gone => x \notin fields'[o]
        /\ \A o \in Obj : \A p : <<o, p>> \in lost => p \notin pairs'[o]
    OBVIOUS
  <1> HIDE DEF gone, lost
  <1>8. ASSUME NEW o \in Kept
        PROVE  g[o] = Contents(o)'
    <2>1. o \in Obj /\ Visible[o] = Contents(o)
      BY <1>3
    <2>2. /\ {x \in fields[o] : <<o, x>> \notin gone} = fields'[o]
          /\ {p \in pairs[o] : <<o, p>> \notin lost} = pairs'[o]
          /\ mode'[o] = mode[o] /\ hasGc'[o] = hasGc[o]
      BY <1>1, <1>6, <1>7, <2>1
    <2>3. g[o] = [Contents(o) EXCEPT
                    !.fields = {x \in @ : <<o, x>> \notin gone},
                    !.pairs = {p \in @ : <<o, p>> \notin lost}]
      BY <2>1
    <2> HIDE DEF g
    <2> QED
      BY <2>2, <2>3 DEF Contents
  <1> HIDE DEF g
  <1>9. Store!Becomes(g)
    BY <1>3, <1>6, <1>8, Updated
  <1> QED
    BY <1>1, <1>2, <1>7, <1>9 DEF Store!Expire, g

(* A finalizer is called for an object that is due, by a collection ... *)
LEMMA StoreCallFinalizer ==
  ASSUME Ops \subseteq {"finalizer", "emergency", "close"},
         GcInv, TypeOK', CallFinalizer
  PROVE  Store!Next
  <1> USE DEF GcInv
  <1> DEFINE o == Head(tobefnz)
  <1>1. /\ phase = "finalize" /\ tobefnz # <<>> /\ tobefnz' = Tail(tobefnz)
        /\ roots' = IF hasGc[o] THEN roots \cup {o} ELSE roots
        /\ UNCHANGED <<finobj, keep, closing, closeQ>> /\ UNCHANGED heapVars
    BY DEF CallFinalizer, closeVars
  <1>2. /\ o \in Obj /\ o \in Members(tobefnz)
        /\ Members(Tail(tobefnz)) = Members(tobefnz) \ {o}
    BY <1>1, MembersTail, TailKeeps DEF TypeOK, OwedInv
  <1>3. closeQ = <<>>
    BY <1>1 DEF FInv, CloseOrder
  <1>4. /\ (Members(finobj) \cup Members(keep))'
              = Members(finobj) \cup Members(keep)
        /\ (Members(tobefnz) \cup Members(closeQ))'
              = (Members(tobefnz) \cup Members(closeQ)) \ {o}
    <2>1. /\ Members(finobj)' = Members(finobj)
          /\ Members(keep)' = Members(keep)
          /\ Members(closeQ)' = Members(closeQ) /\ closeQ' = <<>>
          /\ Members(tobefnz)' = Members(tobefnz')
      BY <1>1, <1>3 DEF Members
    <2>2. Members(tobefnz)' = Members(tobefnz) \ {o}
      BY <1>1, <1>2, <2>1
    <2>3. Members(closeQ) = {}
      BY <1>3, MembersEmpty
    <2> QED
      BY <2>1, <2>2, <2>3
  <1>5. roots' \cup Listed' \subseteq roots \cup Listed
    BY <1>1, <1>2, <1>4 DEF Listed
  <1>6. Store!Becomes(Visible)
    BY <1>1, <1>5, KeptFacts, Unmoved
  <1>7. Visible[o].hasGc = hasGc[o]
    <2>1. Visible[o] = Contents(o)
      BY <1>2, KeptFacts DEF Listed
    <2> QED
      BY <2>1 DEF Contents
  <1>8. Store!Call(o)
    BY <1>1, <1>2, <1>4, <1>6, <1>7 DEF Store!Call
  <1> QED
    BY <1>2, <1>8 DEF Store!Next

(* ... or by close_state. *)
LEMMA StoreCloseCall ==
  ASSUME Ops \subseteq {"finalizer", "emergency", "close"},
         GcInv, TypeOK', NEW i \in 1..Len(closeQ), CloseCall(i)
  PROVE  Store!Next
  <1> USE DEF GcInv
  <1> DEFINE o == closeQ[i]
  <1>1. /\ closing = "finalizers" /\ closeQ' = Dropped(closeQ, i)
        /\ roots' = IF hasGc[o] THEN roots \cup {o} ELSE roots
        /\ UNCHANGED <<finobj, keep, tobefnz, closing>> /\ UNCHANGED heapVars
    BY DEF CloseCall, Remaining, finVars
  <1>2. /\ o \in Obj /\ o \in Members(closeQ)
        /\ Members(Dropped(closeQ, i)) = Members(closeQ) \ {o}
    BY MembersDropped, DroppedKeeps DEF TypeOK, OwedInv
  <1>3. tobefnz = <<>>
    BY <1>1 DEF OwedInv
  <1>4. /\ (Members(finobj) \cup Members(keep))'
              = Members(finobj) \cup Members(keep)
        /\ (Members(tobefnz) \cup Members(closeQ))'
              = (Members(tobefnz) \cup Members(closeQ)) \ {o}
    <2>1. /\ Members(finobj)' = Members(finobj)
          /\ Members(keep)' = Members(keep)
          /\ Members(tobefnz)' = Members(tobefnz) /\ tobefnz' = <<>>
          /\ Members(closeQ)' = Members(closeQ')
      BY <1>1, <1>3 DEF Members
    <2>2. Members(closeQ)' = Members(closeQ) \ {o}
      BY <1>1, <1>2, <2>1
    <2>3. Members(tobefnz) = {}
      BY <1>3, MembersEmpty
    <2> QED
      BY <2>1, <2>2, <2>3
  <1>5. roots' \cup Listed' \subseteq roots \cup Listed
    BY <1>1, <1>2, <1>4 DEF Listed
  <1>6. Store!Becomes(Visible)
    BY <1>1, <1>5, KeptFacts, Unmoved
  <1>7. Visible[o].hasGc = hasGc[o]
    <2>1. Visible[o] = Contents(o)
      BY <1>2, KeptFacts DEF Listed
    <2> QED
      BY <2>1 DEF Contents
  <1>8. Store!Call(o)
    BY <1>1, <1>2, <1>4, <1>6, <1>7 DEF Store!Call
  <1> QED
    BY <1>2, <1>8 DEF Store!Next

(* Closing makes all that is marked due, at once. *)
LEMMA StoreClose ==
  ASSUME Ops \subseteq {"finalizer", "emergency", "close"},
         GcInv, TypeOK', StartClose \/ DrainFinobj \/ BreakRefs
  PROVE  Store!Next
  <1> USE DEF GcInv
  <1>1. CASE StartClose
    <2>1. /\ closing' = "tbc" /\ UNCHANGED heapVars
          /\ UNCHANGED <<roots, finobj, keep, tobefnz, closeQ>>
      BY <1>1 DEF StartClose, finVars
    <2>2. /\ (Members(finobj) \cup Members(keep))'
                = Members(finobj) \cup Members(keep)
          /\ (Members(tobefnz) \cup Members(closeQ))'
                = Members(tobefnz) \cup Members(closeQ)
          /\ Listed' = Listed
      BY <2>1 DEF Members, Listed
    <2>3. Visible' = Visible
      BY <2>1, <2>2, KeptFacts, Unmoved
    <2>4. Store!Close
      BY <2>1, <2>2, <2>3 DEF Store!Close
    <2> QED
      BY <2>4 DEF Store!Next
  <1>2. CASE DrainFinobj
    <2>1. /\ closing = "tbc" /\ closing' = "finalizers" /\ UNCHANGED heapVars
          /\ closeQ' = finobj /\ finobj' = <<>>
          /\ UNCHANGED <<roots, keep, tobefnz>>
          /\ closeQ = <<>> /\ keep = <<>> /\ tobefnz = <<>>
      BY <1>2 DEF DrainFinobj, OwedInv
    <2>2. /\ (Members(finobj) \cup Members(keep))' = {}
          /\ (Members(tobefnz) \cup Members(closeQ))' = Members(finobj)
          /\ Members(keep) = {} /\ Members(tobefnz) = {} /\ Members(closeQ) = {}
      BY <2>1, MembersEmpty DEF Members
    <2>3. Listed' = Listed
      BY <2>2 DEF Listed
    <2>4. Visible' = Visible
      BY <2>1, <2>3, KeptFacts, Unmoved
    <2>5. Store!ChooseAll
      BY <2>1, <2>2, <2>4 DEF Store!ChooseAll
    <2> QED
      BY <2>5 DEF Store!Next
  <1>3. CASE BreakRefs
    <2>1. /\ closing = "finalizers" /\ closing' = "broken" /\ UNCHANGED heapVars
          /\ roots' \in SUBSET roots /\ finobj = <<>> /\ finobj' = <<>>
          /\ UNCHANGED <<keep, tobefnz, closeQ>>
      BY <1>3 DEF BreakRefs, OwedInv
    <2>2. /\ (Members(finobj) \cup Members(keep))'
                = Members(finobj) \cup Members(keep)
          /\ (Members(tobefnz) \cup Members(closeQ))'
                = Members(tobefnz) \cup Members(closeQ)
          /\ Listed' = Listed
      BY <2>1 DEF Members, Listed
    <2>3. Store!Becomes(Visible)
      BY <2>1, <2>2, KeptFacts, Unmoved
    <2>4. Store!Forget
      BY <2>1, <2>2, <2>3 DEF Store!Forget
    <2> QED
      BY <2>4 DEF Store!Next
  <1> QED
    BY <1>1, <1>2, <1>3

(* For programs that set __mode before setmetatable, mark objects with     *)
(* setmetatable, and neither create objects in finalizers nor collect while *)
(* the state closes, the collector is invisible: it implements Heap, where *)
(* garbage is gone at once, weak entries go only when nothing holds them   *)
(* strongly, and so do objects become due for their finalizers.            *)
THEOREM CollectorIsInvisible ==
  ASSUME Ops \subseteq {"finalizer", "emergency", "close"}
  PROVE  Spec => HeapSpec
  <1>1. GcInv /\ TypeOK' /\ [Next]_vars => [Store!Next]_(Store!vars)
    <2> SUFFICES ASSUME GcInv, TypeOK', [Next]_vars
                 PROVE  Store!Next \/ UNCHANGED Store!vars
      OBVIOUS
    <2>1. CASE Mutator
      BY <2>1, StoreMutator
    <2>2. CASE Enter
      BY <2>2, StoreStutters
    <2>3. CASE CollectorStep
      BY <2>3, StoreStutters, StoreSeparate, StoreClear, StoreCallFinalizer
         DEF CollectorStep, SeparateNext, Store!Next
    <2>4. CASE StartClose \/ CloseStep \/ FinalizerEnds
      BY <2>4, StoreClose, StoreCloseCall, StoreStutters
         DEF CloseStep, CloseCallFinalizer
    <2>5. CASE UNCHANGED vars
      BY <2>5, StoreStutters
    <2> QED
      BY <2>1, <2>2, <2>3, <2>4, <2>5 DEF Next, Closed
  <1>2. "late_mode" \notin Ops /\ "finalizer_alloc" \notin Ops
    OBVIOUS
  <1>3. Spec => []GcInv
    BY <1>2, TypeCorrect, HeapAndMarks, FinalizerLists, OwedLists, ExactMarks,
       PTL DEF GcInv
  <1>4. GcInv => TypeOK
    BY DEF GcInv
  <1> QED
    BY <1>1, <1>3, <1>4, StoreInit, PTL DEF Spec, HeapSpec, Store!Spec
=============================================================================

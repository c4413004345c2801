--------------------------- MODULE ObjectProofs ---------------------------
(* Blocks, handles and ids are counted right, for every memory, every stack  *)
(* and every habit of the libraries: types, CountsExact, and that the table  *)
(* of ids and the headers of the blocks agree.                               *)
EXTENDS ObjectTable, FiniteSetTheorems, SequenceTheorems, TLAPS

(* Where the allocation stands, while a collection it started runs too.      *)
At == IF pc \in {"drain", "mark", "sweep"} THEN ret ELSE pc

(* There is an object under construction from its allocation to its place    *)
(* on the stack, and nothing is in it before it is filled.                   *)
LocalInv ==
    /\ local # Nil <=> At \in {"fill", "register", "place"}
    /\ At = "fill" => field[local] = Nil

(* Only a live object has a field.                                           *)
FieldInv == \A b \in Blocks : field[b] # Nil => state[b] = "alive"

(* The ids in use, those waiting to be used again, and those never used.     *)
IdTable ==
    /\ \A i \in Ids : metas[i] # NoMeta <=> i \in allObjects
    /\ \A i \in allObjects : i < nextId
    /\ \A n \in DOMAIN freeIds : freeIds[n] \notin allObjects /\ freeIds[n] < nextId
    /\ IsInjective(freeIds)

(* The block an id leads to has that id in its header.                       *)
Named == \A i \in Ids : metas[i] # NoMeta => header[metas[i].of] = i

IInv == TypeOK /\ CountsExact /\ LocalInv /\ FieldInv /\ IdTable /\ Named

-----------------------------------------------------------------------------
(* Occurrences.                                                              *)

LEMMA PlacesFinite ==
  ASSUME NEW f, NEW v, IsFiniteSet(DOMAIN f)
  PROVE  /\ IsFiniteSet({x \in DOMAIN f : f[x] = v})
         /\ Places(f, v) \in Nat
         /\ \A x \in DOMAIN f : f[x] = v => Places(f, v) > 0
         /\ Places(f, v) > 0 => \E x \in DOMAIN f : f[x] = v
  <1> DEFINE S == {x \in DOMAIN f : f[x] = v}
  <1>1. IsFiniteSet(S)
    BY FS_Subset
  <1>2. Cardinality(S) \in Nat /\ (Cardinality(S) = 0 <=> S = {})
    BY <1>1, FS_CardinalityType, FS_EmptySet
  <1>3. Places(f, v) = Cardinality(S)
    BY DEF Places
  <1>4. S = {} <=> \A x \in DOMAIN f : f[x] # v
    OBVIOUS
  <1> HIDE DEF S
  <1>5. /\ Places(f, v) \in Nat
        /\ Places(f, v) > 0 <=> S # {}
    BY <1>2, <1>3
  <1> QED
    BY <1>1, <1>4, <1>5 DEF S

(* A function changed at one point.                                          *)
Put(f, a, e) == [f EXCEPT ![a] = e]

LEMMA PlacesExcept ==
  ASSUME NEW f, IsFiniteSet(DOMAIN f), f = [x \in DOMAIN f |-> f[x]],
         NEW a \in DOMAIN f, NEW e, NEW v
  PROVE  Places(Put(f, a, e), v)
           = Places(f, v) - (IF f[a] = v THEN 1 ELSE 0) + (IF e = v THEN 1 ELSE 0)
  <1> DEFINE g == [f EXCEPT ![a] = e]
             S == {x \in DOMAIN f : f[x] = v}
             T == {x \in DOMAIN g : g[x] = v}
  <1>1. IsFiniteSet(S) /\ IsFiniteSet(S \ {a})
    BY FS_Subset, FS_RemoveElement
  <1>2. Cardinality(S) \in Nat /\ Cardinality(S \ {a}) \in Nat
    BY <1>1, FS_CardinalityType
  <1>3. Cardinality(S \ {a}) = Cardinality(S) - IF f[a] = v THEN 1 ELSE 0
    <2>1. a \in S <=> f[a] = v
      OBVIOUS
    <2> HIDE DEF S
    <2> QED
      BY <1>1, <1>2, <2>1, FS_RemoveElement
  <1>4. Cardinality(T) = Cardinality(S \ {a}) + IF e = v THEN 1 ELSE 0
    <2>1. CASE e = v
      <3>1. T = (S \ {a}) \cup {a}
        BY <2>1
      <3>2. a \notin S \ {a}
        OBVIOUS
      <3> HIDE DEF S, T
      <3>3. Cardinality((S \ {a}) \cup {a}) = Cardinality(S \ {a}) + 1
        BY <1>1, <3>2, FS_AddElement
      <3> QED
        BY <2>1, <3>1, <3>3
    <2>2. CASE e # v
      <3>1. T = S \ {a}
        BY <2>2
      <3> HIDE DEF S, T
      <3> QED
        BY <1>2, <2>2, <3>1
    <2> QED
      BY <2>1, <2>2
  <1>5. Places(f, v) = Cardinality(S) /\ Places(g, v) = Cardinality(T)
    BY DEF Places
  <1> HIDE DEF S, T
  <1>6. Places(g, v) = Places(f, v) - (IF f[a] = v THEN 1 ELSE 0)
                         + (IF e = v THEN 1 ELSE 0)
    BY <1>2, <1>3, <1>4, <1>5
  <1> QED
    BY <1>6 DEF Put

(* Sequences: one more at the end, one fewer or one more at the front.       *)
LEMMA SeqFinite ==
  ASSUME NEW S, NEW q \in Seq(S)
  PROVE  IsFiniteSet(DOMAIN q) /\ q = [x \in DOMAIN q |-> q[x]]
  <1>1. DOMAIN q = 1..Len(q) /\ Len(q) \in Nat
    OBVIOUS
  <1>2. IsFiniteSet(1..Len(q))
    BY <1>1, FS_Interval
  <1> QED
    BY <1>1, <1>2

LEMMA PlacesEmpty == \A v : Places(<<>>, v) = 0
  <1>1. \A v : {x \in DOMAIN <<>> : <<>>[x] = v} = {}
    OBVIOUS
  <1> QED
    BY <1>1, FS_EmptySet DEF Places

LEMMA PlacesOne ==
  ASSUME NEW e, NEW v
  PROVE  Places(<<e>>, v) = IF e = v THEN 1 ELSE 0
  <1> DEFINE A == {x \in DOMAIN <<e>> : <<e>>[x] = v}
  <1>1. A = IF e = v THEN {1} ELSE {}
    OBVIOUS
  <1>2. Places(<<e>>, v) = Cardinality(A)
    BY DEF Places
  <1> HIDE DEF A
  <1> QED
    BY <1>1, <1>2, FS_EmptySet, FS_Singleton

LEMMA PlacesConcat ==
  ASSUME NEW S, NEW p \in Seq(S), NEW q \in Seq(S), NEW v
  PROVE  /\ p \o q \in Seq(S)
         /\ Places(p \o q, v) = Places(p, v) + Places(q, v)
  <1> DEFINE r == p \o q
             A == {x \in DOMAIN p : p[x] = v}
             B == {x \in DOMAIN q : q[x] = v}
             C == {x \in DOMAIN r : r[x] = v /\ x > Len(p)}
             f == [x \in B |-> x + Len(p)]
  <1>1. /\ r \in Seq(S) /\ Len(r) = Len(p) + Len(q)
        /\ \A x \in 1..Len(p) : r[x] = p[x]
        /\ \A x \in 1..Len(q) : r[x + Len(p)] = q[x]
    OBVIOUS
  <1>2. IsFiniteSet(A) /\ IsFiniteSet(B)
    BY SeqFinite, FS_Subset
  <1>3. f \in Bijection(B, C)
    <2>1. \A x \in B : x + Len(p) \in C
      BY <1>1
    <2>2. \A y \in C : y - Len(p) \in B /\ y = (y - Len(p)) + Len(p)
      <3> TAKE y \in C
      <3>1. y \in 1..(Len(p) + Len(q)) /\ y > Len(p) /\ r[y] = v
        BY <1>1
      <3>2. y - Len(p) \in 1..Len(q) /\ y = (y - Len(p)) + Len(p)
        BY <3>1
      <3>3. q[y - Len(p)] = v
        BY <1>1, <3>1, <3>2
      <3> QED
        BY <3>2, <3>3
    <2>3. f \in [B -> C]
      BY <2>1
    <2>4. B \subseteq Nat
      OBVIOUS
    <2> HIDE DEF B, C
    <2>5. \A x, y \in B : f[x] = f[y] => x = y
      BY <2>4
    <2>6. \A y \in C : \E x \in B : f[x] = y
      BY <2>2
    <2> HIDE DEF f
    <2>7. f \in Injection(B, C)
      BY <2>3, <2>5 DEF Injection, IsInjective
    <2>8. f \in Surjection(B, C)
      BY <2>3, <2>6 DEF Surjection
    <2> QED
      BY <2>7, <2>8 DEF Bijection
  <1>4. IsFiniteSet(C) /\ Cardinality(C) = Cardinality(B)
    <2> HIDE DEF B, C
    <2> QED
      BY <1>2, <1>3, FS_Bijection DEF ExistsBijection
  <1>5. A \cap C = {} /\ {x \in DOMAIN r : r[x] = v} = A \cup C
    BY <1>1
  <1>6. /\ Places(p, v) = Cardinality(A) /\ Places(q, v) = Cardinality(B)
        /\ Places(r, v) = Cardinality({x \in DOMAIN r : r[x] = v})
    BY DEF Places
  <1> HIDE DEF A, B, C, r
  <1>7. /\ Cardinality(A) \in Nat /\ Cardinality(B) \in Nat
        /\ Cardinality(A \cup C) = Cardinality(A) + Cardinality(C) - Cardinality(A \cap C)
    BY <1>2, <1>4, FS_CardinalityType, FS_Union
  <1>8. Cardinality(A \cap C) = 0
    BY <1>5, FS_EmptySet
  <1>9. Places(r, v) = Cardinality(A \cup C)
    BY <1>5, <1>6
  <1>10. Places(r, v) = Places(p, v) + Places(q, v)
    BY <1>4, <1>6, <1>7, <1>8, <1>9
  <1> QED
    BY <1>1, <1>10 DEF r

LEMMA PlacesAppend ==
  ASSUME NEW S, NEW q \in Seq(S), NEW e \in S, NEW v
  PROVE  /\ Append(q, e) \in Seq(S)
         /\ Places(Append(q, e), v) = Places(q, v) + IF e = v THEN 1 ELSE 0
  <1> DEFINE one == <<e>>
             r == Append(q, e)
  <1>1. one \in Seq(S) /\ r \in Seq(S) /\ r = q \o one
    OBVIOUS
  <1>2. Places(one, v) = IF e = v THEN 1 ELSE 0
    BY PlacesOne
  <1> HIDE DEF one, r
  <1>3. Places(r, v) = Places(q, v) + Places(one, v)
    BY <1>1, PlacesConcat
  <1> QED
    BY <1>1, <1>2, <1>3 DEF r

LEMMA PlacesTail ==
  ASSUME NEW S, NEW q \in Seq(S), q # <<>>, NEW v
  PROVE  /\ Head(q) \in S /\ Tail(q) \in Seq(S)
         /\ Places(q, v) = Places(Tail(q), v) + IF Head(q) = v THEN 1 ELSE 0
  <1> DEFINE h == Head(q)
             t == Tail(q)
             one == <<h>>
             r == one \o t
  <1>1. h \in S /\ t \in Seq(S) /\ one \in Seq(S)
    OBVIOUS
  <1>2. Len(r) = Len(q) /\ \A i \in 1..Len(q) : r[i] = q[i]
    BY <1>1
  <1>3. Places(one, v) = IF h = v THEN 1 ELSE 0
    BY PlacesOne
  <1> HIDE DEF h, t, one
  <1>4. /\ r \in Seq(S)
        /\ Places(r, v) = Places(one, v) + Places(t, v)
    BY <1>1, PlacesConcat
  <1>5. Places(t, v) \in Nat
    BY <1>1, PlacesFinite, SeqFinite
  <1> HIDE DEF r
  <1>6. r = q
    BY <1>2, <1>4
  <1>7. Places(q, v) = Places(t, v) + IF h = v THEN 1 ELSE 0
    BY <1>3, <1>4, <1>5, <1>6
  <1> QED
    BY <1>1, <1>7 DEF h, t

-----------------------------------------------------------------------------
(* What is pending.                                                          *)

LEMMA PendingParts ==
  ASSUME NEW b \in Blocks
  PROVE  /\ Strong(b) \in Pending /\ Weak(b) \in Pending
         /\ \A c \in Blocks : /\ Strong(c) # Weak(b)
                              /\ Strong(c) = Strong(b) <=> c = b
                              /\ Weak(c) = Weak(b) <=> c = b
  BY DEF Strong, Weak, Pending

LEMMA DropPlaces ==
  ASSUME NEW x \in Blocks \cup {Nil}, NEW b \in Blocks
  PROVE  /\ Drop(x) \in Seq(Pending)
         /\ Places(Drop(x), Strong(b)) = IF x = b THEN 1 ELSE 0
         /\ Places(Drop(x), Weak(b)) = 0
  <1>1. CASE x = Nil
    <2>1. Drop(x) = <<>> /\ x # b
      BY <1>1, ObjectConstants DEF Drop
    <2> QED
      BY <2>1, PlacesEmpty
  <1>2. CASE x # Nil
    <2>1. Drop(x) = <<Strong(x)>> /\ x \in Blocks
      BY <1>2 DEF Drop, Strong
    <2>2. Strong(x) \in Pending /\ Strong(x) # Weak(b) /\ (Strong(x) = Strong(b) <=> x = b)
      BY <2>1, PendingParts
    <2> QED
      BY <2>1, <2>2, PlacesOne
  <1> QED
    BY <1>1, <1>2

LEMMA DropWeakPlaces ==
  ASSUME NEW x \in Blocks, NEW b \in Blocks
  PROVE  /\ DropWeak(x) \in Seq(Pending)
         /\ Places(DropWeak(x), Weak(b)) = IF x = b THEN 1 ELSE 0
         /\ Places(DropWeak(x), Strong(b)) = 0
  <1>1. DropWeak(x) = <<Weak(x)>>
    BY DEF DropWeak, Weak
  <1>2. Weak(x) \in Pending /\ Strong(b) # Weak(x) /\ (Weak(x) = Weak(b) <=> x = b)
    BY PendingParts
  <1> QED
    BY <1>1, <1>2, PlacesOne

LEMMA PendingTypes ==
  /\ \A x \in Blocks \cup {Nil} : Drop(x) \in Seq(Pending)
  /\ \A x \in Blocks : DropWeak(x) \in Seq(Pending)
  /\ \A q \in Seq(Blocks) : Drops(q) \in Seq(Pending)
  <1>1. \A x \in Blocks : Strong(x) \in Pending /\ Weak(x) \in Pending
    BY PendingParts
  <1> QED
    BY <1>1 DEF Drop, DropWeak, Drops

(* A drained queue becomes as many pending drops.                            *)
LEMMA DropsPlaces ==
  ASSUME NEW q \in Seq(Blocks), NEW b \in Blocks
  PROVE  /\ Drops(q) \in Seq(Pending)
         /\ Places(Drops(q), Strong(b)) = Places(q, b)
         /\ Places(Drops(q), Weak(b)) = 0
  <1>1. DOMAIN q = 1..Len(q) /\ \A i \in DOMAIN q : q[i] \in Blocks
    OBVIOUS
  <1>2. /\ DOMAIN Drops(q) = DOMAIN q
        /\ \A i \in DOMAIN q : Drops(q)[i] = Strong(q[i]) /\ Drops(q)[i] \in Pending
    BY <1>1 DEF Drops, Strong, Pending
  <1>3. Drops(q) \in Seq(Pending)
    BY <1>1, <1>2 DEF Drops
  <1>4. \A i \in DOMAIN q : /\ Drops(q)[i] = Strong(b) <=> q[i] = b
                            /\ Drops(q)[i] # Weak(b)
    BY <1>1, <1>2, PendingParts
  <1> DEFINE A == {i \in DOMAIN Drops(q) : Drops(q)[i] = Strong(b)}
             B == {i \in DOMAIN Drops(q) : Drops(q)[i] = Weak(b)}
             C == {i \in DOMAIN q : q[i] = b}
  <1>5. A = C /\ B = {}
    BY <1>2, <1>4
  <1>6. Places(Drops(q), Strong(b)) = Places(q, b) /\ Places(Drops(q), Weak(b)) = 0
    <2>1. /\ Places(Drops(q), Strong(b)) = Cardinality(A) /\ Places(q, b) = Cardinality(C)
          /\ Places(Drops(q), Weak(b)) = Cardinality(B)
      BY DEF Places
    <2> HIDE DEF A, B, C
    <2> QED
      BY <1>5, <2>1, FS_EmptySet
  <1> QED
    BY <1>3, <1>6

-----------------------------------------------------------------------------
(* What the counts say of a block.                                           *)
LEMMA CountFacts ==
  ASSUME TypeOK, CountsExact, NEW b \in Blocks
  PROVE  /\ Places(stack, b) \in Nat /\ Places(field, b) \in Nat
         /\ Places(queue, b) \in Nat /\ Places(Of, b) \in Nat
         /\ Places(drops, Strong(b)) \in Nat /\ Places(drops, Weak(b)) \in Nat
         /\ strong[b] = Places(stack, b) + Places(field, b) + Places(queue, b)
                        + (IF local = b THEN 1 ELSE 0) + Places(drops, Strong(b))
         /\ weak[b] = Places(Of, b) + Places(drops, Weak(b))
                      + (IF state[b] = "alive" THEN 1 ELSE 0)
         /\ strong[b] >= Places(stack, b) /\ strong[b] >= Places(field, b)
         /\ strong[b] >= Places(queue, b) /\ strong[b] >= Places(drops, Strong(b))
         /\ weak[b] >= Places(Of, b) /\ weak[b] >= Places(drops, Weak(b))
         /\ \A s \in Slots : stack[s] = b => Places(stack, b) > 0
         /\ \A c \in Blocks : field[c] = b => Places(field, b) > 0
         /\ \A n \in DOMAIN queue : queue[n] = b => Places(queue, b) > 0
         /\ \A n \in DOMAIN drops : drops[n] = Strong(b) => Places(drops, Strong(b)) > 0
         /\ \A n \in DOMAIN drops : drops[n] = Weak(b) => Places(drops, Weak(b)) > 0
         /\ \A i \in Ids : Of[i] = b => Places(Of, b) > 0
  <1> USE DEF TypeOK
  <1>1. /\ DOMAIN stack = Slots /\ DOMAIN field = Blocks /\ DOMAIN Of = Ids
        /\ IsFiniteSet(Slots) /\ IsFiniteSet(Blocks) /\ IsFiniteSet(Ids)
    BY ObjectConstants, FS_Interval DEF Of, Ids
  <1>2. IsFiniteSet(DOMAIN queue) /\ IsFiniteSet(DOMAIN drops)
    BY SeqFinite
  <1>3. /\ Places(stack, b) \in Nat
        /\ \A s \in Slots : stack[s] = b => Places(stack, b) > 0
    BY <1>1, PlacesFinite
  <1>4. /\ Places(field, b) \in Nat
        /\ \A c \in Blocks : field[c] = b => Places(field, b) > 0
    BY <1>1, PlacesFinite
  <1>5. /\ Places(queue, b) \in Nat
        /\ \A n \in DOMAIN queue : queue[n] = b => Places(queue, b) > 0
    BY <1>2, PlacesFinite
  <1>6. /\ Places(Of, b) \in Nat
        /\ \A i \in Ids : Of[i] = b => Places(Of, b) > 0
    BY <1>1, PlacesFinite
  <1>7. \A v : /\ Places(drops, v) \in Nat
               /\ \A n \in DOMAIN drops : drops[n] = v => Places(drops, v) > 0
    <2> TAKE v
    <2> HIDE DEF TypeOK
    <2> QED
      BY <1>2, PlacesFinite
  <1>8. /\ strong[b] = Places(stack, b) + Places(field, b) + Places(queue, b)
                       + (IF local = b THEN 1 ELSE 0) + Places(drops, Strong(b))
        /\ weak[b] = Places(Of, b) + Places(drops, Weak(b))
                     + (IF state[b] = "alive" THEN 1 ELSE 0)
    BY DEF CountsExact
  <1> HIDE DEF TypeOK
  <1>9. /\ strong[b] >= Places(stack, b) /\ strong[b] >= Places(field, b)
        /\ strong[b] >= Places(queue, b) /\ strong[b] >= Places(drops, Strong(b))
        /\ weak[b] >= Places(Of, b) /\ weak[b] >= Places(drops, Weak(b))
    BY <1>3, <1>4, <1>5, <1>6, <1>7, <1>8
  <1> QED
    BY <1>3, <1>4, <1>5, <1>6, <1>7, <1>8, <1>9

(* A pending drop still has the share it gives up.                           *)
LEMMA PendingHead ==
  ASSUME TypeOK, CountsExact, drops # <<>>
  PROVE  /\ Head(drops) \in Pending /\ Tail(drops) \in Seq(Pending)
         /\ LET b == Head(drops).b IN
              /\ b \in Blocks
              /\ Head(drops).kind = "strong" => Head(drops) = Strong(b) /\ strong[b] > 0
              /\ Head(drops).kind = "weak" => Head(drops) = Weak(b) /\ weak[b] > 0
  <1> DEFINE b == Head(drops).b
  <1>1. Head(drops) \in Pending /\ Tail(drops) \in Seq(Pending) /\ Head(drops) = drops[1]
        /\ 1 \in DOMAIN drops
    <2>1. drops \in Seq(Pending)
      BY DEF TypeOK
    <2> QED
      BY <2>1
  <1>2. b \in Blocks /\ (Head(drops) = Strong(b) \/ Head(drops) = Weak(b))
    BY <1>1 DEF Pending, Strong, Weak
  <1>3. /\ Head(drops).kind = "strong" => Head(drops) = Strong(b)
        /\ Head(drops).kind = "weak" => Head(drops) = Weak(b)
    BY <1>2 DEF Strong, Weak
  <1> HIDE DEF b
  <1>4. /\ Head(drops).kind = "strong" => strong[b] > 0
        /\ Head(drops).kind = "weak" => weak[b] > 0
    <2>1. /\ strong[b] >= Places(drops, Strong(b)) /\ weak[b] >= Places(drops, Weak(b))
          /\ strong[b] \in Nat /\ weak[b] \in Nat
          /\ Places(drops, Strong(b)) \in Nat /\ Places(drops, Weak(b)) \in Nat
      BY <1>2, CountFacts DEF TypeOK
    <2>2. /\ drops[1] = Strong(b) => Places(drops, Strong(b)) > 0
          /\ drops[1] = Weak(b) => Places(drops, Weak(b)) > 0
      BY <1>1, <1>2, CountFacts
    <2> QED
      BY <1>1, <1>3, <2>1, <2>2
  <1> QED
    BY <1>1, <1>2, <1>3, <1>4 DEF b

(* The end of the list of free ids.                                          *)
LEMMA LastId ==
  ASSUME TypeOK, freeIds # <<>>
  PROVE  /\ Last(freeIds) \in Ids /\ Front(freeIds) \in Seq(Ids)
         /\ Last(freeIds) = freeIds[Len(freeIds)] /\ Len(freeIds) \in DOMAIN freeIds
         /\ Len(Front(freeIds)) = Len(freeIds) - 1
         /\ \A n \in DOMAIN Front(freeIds) :
              n \in DOMAIN freeIds /\ n # Len(freeIds) /\ Front(freeIds)[n] = freeIds[n]
  <1>1. freeIds \in Seq(Ids) /\ Len(freeIds) \in Nat \ {0}
    BY DEF TypeOK
  <1>2. Len(freeIds) \in DOMAIN freeIds /\ Last(freeIds) = freeIds[Len(freeIds)]
    BY <1>1 DEF Last
  <1>3. /\ Front(freeIds) \in Seq(Ids)
        /\ Len(Front(freeIds)) = Len(freeIds) - 1
        /\ \A n \in 1..(Len(freeIds) - 1) : Front(freeIds)[n] = freeIds[n]
    <2> DEFINE n == Len(freeIds) - 1
    <2>1. n \in Nat /\ \A i \in 1..n : freeIds[i] \in Ids
      BY <1>1
    <2>2. Front(freeIds) = SubSeq(freeIds, 1, n)
      BY DEF Front
    <2> HIDE DEF n
    <2>3. /\ SubSeq(freeIds, 1, n) \in Seq(Ids)
          /\ Len(SubSeq(freeIds, 1, n)) = IF 1 <= n THEN n - 1 + 1 ELSE 0
          /\ \A i \in 1..(n - 1 + 1) : SubSeq(freeIds, 1, n)[i] = freeIds[1 + i - 1]
      BY <2>1, SubSeqProperties
    <2>4. /\ Len(SubSeq(freeIds, 1, n)) = n
          /\ \A i \in 1..n : SubSeq(freeIds, 1, n)[i] = freeIds[i]
      BY <2>1, <2>3
    <2> QED
      BY <2>2, <2>3, <2>4 DEF n
  <1> QED
    BY <1>1, <1>2, <1>3

LEMMA OverwriteTypes ==
  ASSUME TypeOK, Quiet, NEW s \in Slots, NEW b \in Blocks \cup {Nil}, Overwrite(s, b)
  PROVE  /\ stack' \in [Slots -> Blocks \cup {Nil}]
         /\ queue' \in Seq(Blocks) /\ Len(queue') <= MaxQueue
         /\ drops' \in Seq(Pending)
  <1>1. stack \in [Slots -> Blocks \cup {Nil}] /\ stack' = [stack EXCEPT ![s] = b]
    BY DEF Overwrite, TypeOK
  <1>2. stack' \in [Slots -> Blocks \cup {Nil}] /\ stack[s] \in Blocks \cup {Nil}
    BY <1>1
  <1>3. queue \in Seq(Blocks) /\ Len(queue) <= MaxQueue /\ MaxQueue \in Nat
    BY ObjectConstants DEF TypeOK
  <1>4. CASE stack[s] # Nil /\ Len(queue) < MaxQueue /\ queue' = Append(queue, stack[s])
             /\ UNCHANGED drops
    BY <1>2, <1>3, <1>4 DEF Quiet
  <1>5. CASE drops' = Drop(stack[s]) /\ UNCHANGED queue
    BY <1>2, <1>3, <1>5, PendingTypes
  <1> QED
    BY <1>2, <1>4, <1>5 DEF Overwrite

(* The three kinds of steps.                                                 *)
Collect ==
    \/ SkipCollection \/ EnterCycle \/ StartSweep \/ EndSweep
    \/ \E b \in Blocks : Mark(b)
    \/ \E i \in Ids : SweepDead(i) \/ SweepAlive(i)

Funnel ==
    \/ DropHandle \/ DropWeakHandle \/ Allocate \/ Fill \/ Register
    \/ EmergencyGc \/ MemoryError

LEMMA Steps ==
  ASSUME Next
  PROVE  (Program \/ \E s \in Slots : Place(s)) \/ Funnel \/ Collect
  BY DEF Next, Continue, Funnel, Collect

LEMMA TypeInit == Init => TypeOK
  BY ObjectConstants DEF Init, TypeOK, Ids

(* Every step of the program and of native code keeps the types.             *)
LEMMA TypeProgram ==
  ASSUME IInv, Program \/ \E s \in Slots : Place(s)
  PROVE  TypeOK'
  <1>1. TypeOK
    BY DEF IInv
  <1>2. ASSUME NEW s \in Slots, NEW b \in Blocks \cup {Nil}, Write(s, b)
        PROVE  TypeOK'
    <2>1. /\ stack' \in [Slots -> Blocks \cup {Nil}]
          /\ queue' \in Seq(Blocks) /\ Len(queue') <= MaxQueue
          /\ drops' \in Seq(Pending)
      BY <1>1, <1>2, OverwriteTypes DEF Write, Running
    <2>2. strong' \in [Blocks -> Nat]
      BY <1>1, <1>2 DEF Write, Count, TypeOK
    <2>3. UNCHANGED <<state, weak, header, field, table, local, control, marks>>
      BY <1>2 DEF Write
    <2> QED
      BY <1>1, <2>1, <2>2, <2>3 DEF TypeOK, table, control, marks
  <1>3. ASSUME NEW s \in Slots, NEW from \in Slots, SetField(s, from)
        PROVE  TypeOK'
    <2>1. stack[s] \in Blocks /\ stack[from] \in Blocks \cup {Nil}
      BY <1>1, <1>3 DEF SetField, TypeOK
    <2>2. field' \in [Blocks -> Blocks \cup {Nil}] /\ strong' \in [Blocks -> Nat]
      BY <1>1, <1>3, <2>1 DEF SetField, Count, TypeOK
    <2>3. field[stack[s]] \in Blocks \cup {Nil} /\ drops' = Drop(field[stack[s]])
      BY <1>1, <1>3, <2>1 DEF SetField, TypeOK
    <2>4. drops' \in Seq(Pending)
      BY <2>3, PendingTypes
    <2>5. UNCHANGED <<state, weak, header, table, program, control, marks>>
      BY <1>3 DEF SetField
    <2> QED
      BY <1>1, <2>2, <2>4, <2>5 DEF TypeOK, table, program, control, marks
  <1>4. ASSUME NEW s \in Slots, Place(s)
        PROVE  TypeOK'
    <2>1. /\ stack' \in [Slots -> Blocks \cup {Nil}]
          /\ queue' \in Seq(Blocks) /\ Len(queue') <= MaxQueue
          /\ drops' \in Seq(Pending)
      BY <1>1, <1>4, OverwriteTypes DEF Place, TypeOK
    <2>2. /\ local' = Nil /\ pc' = "run" /\ tries' = 0
          /\ UNCHANGED <<memory, table, marks, ret>>
      BY <1>4 DEF Place, Advance
    <2> QED
      BY <1>1, <2>1, <2>2 DEF TypeOK, memory, table, marks
  <1>5. CASE DrainIfFull \/ CollectGc
    <2>1. Drops(queue) \in Seq(Pending)
      BY <1>1, PendingTypes DEF TypeOK
    <2>2. /\ drops' = Drops(queue) /\ queue' = <<>>
          /\ pc' \in {pc, "drain"} /\ ret' \in {ret, "run"}
          /\ UNCHANGED <<memory, table, stack, local, tries, marks>>
      BY <1>5 DEF DrainIfFull, CollectGc, StartCollection, control
    <2>3. Len(<<>>) <= MaxQueue /\ <<>> \in Seq(Blocks)
      BY ObjectConstants
    <2> QED
      BY <1>1, <2>1, <2>2, <2>3 DEF TypeOK, memory, table, marks
  <1>6. CASE NewObject
    BY <1>1, <1>6 DEF NewObject, Advance, TypeOK, memory, table, program, marks
  <1>7. ASSUME NEW s \in Slots, NEW from \in Slots,
               Move(s, from) \/ LoadField(s, from) \/ LoadNil(s)
        PROVE  \E b \in Blocks \cup {Nil} : Write(s, b)
    BY <1>1, <1>7 DEF Move, LoadField, LoadNil, TypeOK
  <1> QED
    BY <1>2, <1>3, <1>4, <1>5, <1>6, <1>7 DEF Program

(* Drops and the allocation funnel.                                          *)
LEMMA TypeFunnel ==
  ASSUME IInv, Funnel
  PROVE  TypeOK'
  <1>1. TypeOK /\ CountsExact /\ LocalInv
    BY DEF IInv
  <1>2. CASE DropHandle
    <2> DEFINE b == Head(drops).b
    <2>1. b \in Blocks /\ strong[b] > 0 /\ Tail(drops) \in Seq(Pending)
      BY <1>1, <1>2, PendingHead DEF DropHandle
    <2>2. /\ strong' = [strong EXCEPT ![b] = @ - 1]
          /\ state' \in {state, [state EXCEPT ![b] = "dropped"]}
          /\ field' \in {field, [field EXCEPT ![b] = Nil]}
          /\ \/ drops' = Tail(drops)
             \/ drops' = Drop(field[b]) \o DropWeak(b) \o Tail(drops)
          /\ UNCHANGED <<weak, header, table, program, control, marks>>
      BY <1>2 DEF DropHandle
    <2> HIDE DEF b
    <2>3. strong' \in [Blocks -> Nat] /\ strong[b] - 1 \in Nat
      BY <1>1, <2>1, <2>2 DEF TypeOK
    <2>6. /\ field' \in [Blocks -> Blocks \cup {Nil}]
          /\ state' \in [Blocks -> {"free", "alive", "dropped"}]
      BY <1>1, <2>1, <2>2 DEF TypeOK
    <2>4. field[b] \in Blocks \cup {Nil}
      BY <1>1, <2>1 DEF TypeOK
    <2>5. drops' \in Seq(Pending)
      <3>1. Drop(field[b]) \in Seq(Pending) /\ DropWeak(b) \in Seq(Pending)
        BY <2>1, <2>4, PendingTypes
      <3>2. Drop(field[b]) \o DropWeak(b) \in Seq(Pending)
        BY <3>1, ConcatProperties
      <3>3. Drop(field[b]) \o DropWeak(b) \o Tail(drops) \in Seq(Pending)
        BY <2>1, <3>2, ConcatProperties
      <3> QED
        BY <2>1, <2>2, <3>3
    <2> QED
      BY <1>1, <2>2, <2>3, <2>5, <2>6 DEF TypeOK, table, program, control, marks
  <1>3. CASE DropWeakHandle
    <2> DEFINE b == Head(drops).b
    <2>1. b \in Blocks /\ weak[b] > 0 /\ Tail(drops) \in Seq(Pending)
      BY <1>1, <1>3, PendingHead DEF DropWeakHandle
    <2>2. /\ weak' = [weak EXCEPT ![b] = @ - 1]
          /\ state' = state \/ state' = [state EXCEPT ![b] = "free"]
          /\ header' = header \/ header' = [header EXCEPT ![b] = NoId]
          /\ drops' = Tail(drops)
          /\ UNCHANGED <<strong, field, table, program, control, marks>>
      BY <1>3 DEF DropWeakHandle
    <2> HIDE DEF b
    <2>3. weak' \in [Blocks -> Nat] /\ weak[b] - 1 \in Nat
      BY <1>1, <2>1, <2>2 DEF TypeOK
    <2>4. /\ state' \in [Blocks -> {"free", "alive", "dropped"}]
          /\ header' \in [Blocks -> Ids \cup {NoId}]
      BY <1>1, <2>1, <2>2 DEF TypeOK
    <2> QED
      BY <1>1, <2>1, <2>2, <2>3, <2>4 DEF TypeOK, table, program, control, marks
  <1>4. CASE Allocate
    <2>1. PICK b \in Blocks :
             /\ state' = [state EXCEPT ![b] = "alive"]
             /\ strong' = [strong EXCEPT ![b] = 1]
             /\ weak' = [weak EXCEPT ![b] = 1]
             /\ header' = [header EXCEPT ![b] = NoId]
             /\ field' = [field EXCEPT ![b] = Nil]
             /\ local' = b
      BY <1>4 DEF Allocate
    <2>2. /\ pc' = "fill" /\ tries' = 0
          /\ UNCHANGED <<ret, table, stack, queue, drops, marks>>
      BY <1>4 DEF Allocate, Advance
    <2> QED
      BY <1>1, <2>1, <2>2 DEF TypeOK, table, marks
  <1>5. CASE Fill
    <2>1. local \in Blocks
      BY <1>1, <1>5 DEF Fill, LocalInv, At, TypeOK
    <2>2. PICK s \in Slots : /\ field' = [field EXCEPT ![local] = stack[s]]
                             /\ strong' = Count(strong, stack[s])
      BY <1>5 DEF Fill
    <2>3. strong' \in [Blocks -> Nat] /\ field' \in [Blocks -> Blocks \cup {Nil}]
      BY <1>1, <2>1, <2>2 DEF TypeOK, Count
    <2>4. /\ pc' = "register" /\ tries' = 0
          /\ UNCHANGED <<ret, state, weak, header, table, program, drops, marks>>
      BY <1>5 DEF Fill, Advance
    <2> QED
      BY <1>1, <2>3, <2>4 DEF TypeOK, table, program, marks
  <1>6. CASE Register
    <2>1. local \in Blocks /\ NewId \in Ids
      BY <1>1, <1>6 DEF Register, LocalInv, At, TypeOK
    <2>2. header' \in [Blocks -> Ids \cup {NoId}] /\ weak' \in [Blocks -> Nat]
      BY <1>1, <1>6, <2>1 DEF Register, TypeOK
    <2>3. metas' \in [Ids -> [of : Blocks, white : BOOLEAN] \cup {NoMeta}]
      BY <1>1, <1>6, <2>1 DEF Register, TypeOK
    <2>4. nextId' \in 1..(MaxId + 1) /\ freeIds' \in Seq(Ids)
      <3>1. CASE freeIds = <<>>
        BY <1>1, <1>6, <2>1, <3>1, ObjectConstants DEF Register, NewId, IdsLeft, Ids, TypeOK
      <3>2. CASE freeIds # <<>>
        BY <1>1, <1>6, <3>2, LastId DEF Register, IdsLeft, TypeOK
      <3> QED
        BY <3>1, <3>2
    <2>5. allObjects' \subseteq Ids
      BY <1>1, <1>6, <2>1 DEF Register, TypeOK
    <2>6. /\ pc' = "place" /\ tries' = 0
          /\ UNCHANGED <<ret, state, strong, field, program, drops, marks>>
      BY <1>6 DEF Register, Advance
    <2> QED
      BY <1>1, <2>2, <2>3, <2>4, <2>5, <2>6 DEF TypeOK, program, marks
  <1>7. CASE EmergencyGc
    <2>1. Drops(queue) \in Seq(Pending)
      BY <1>1, PendingTypes DEF TypeOK
    <2>2. /\ drops' = Drops(queue) /\ queue' = <<>>
          /\ pc' = "drain" /\ ret' = pc /\ tries' = 1
          /\ pc \in {"allocate", "fill", "register", "place"}
          /\ UNCHANGED <<memory, table, stack, local, marks>>
      BY <1>7 DEF EmergencyGc, StartCollection, Fallible
    <2>3. Len(<<>>) <= MaxQueue /\ <<>> \in Seq(Blocks)
      BY ObjectConstants
    <2> QED
      BY <1>1, <2>1, <2>2, <2>3 DEF TypeOK, memory, table, marks
  <1>8. CASE MemoryError
    <2>1. drops' \in Seq(Pending)
      BY <1>1, <1>8, PendingTypes DEF MemoryError, TypeOK
    <2>2. /\ local' = Nil /\ pc' = "run" /\ tries' = 0
          /\ UNCHANGED <<ret, memory, table, stack, queue, marks>>
      BY <1>8 DEF MemoryError, Advance
    <2> QED
      BY <1>1, <2>1, <2>2 DEF TypeOK, memory, table, marks
  <1> QED
    BY <1>2, <1>3, <1>4, <1>5, <1>6, <1>7, <1>8 DEF Funnel

LEMMA PaintTypes ==
  ASSUME TypeOK, NEW S, NEW w \in BOOLEAN, Paint(S, w)
  PROVE  /\ metas' \in [Ids -> [of : Blocks, white : BOOLEAN] \cup {NoMeta}]
         /\ \A i \in Ids : metas[i] = NoMeta => metas'[i] = NoMeta
         /\ \A i \in Ids : metas[i] # NoMeta =>
              /\ metas'[i] # NoMeta /\ metas'[i].of = metas[i].of
              /\ metas'[i].white = IF i \in S THEN w ELSE metas[i].white
         /\ Of' = Of
  <1>1. metas \in [Ids -> [of : Blocks, white : BOOLEAN] \cup {NoMeta}]
    BY DEF TypeOK
  <1>2. DOMAIN metas' = Ids
    BY DEF Paint
  <1>3. ASSUME NEW i \in Ids
        PROVE  /\ metas'[i] \in [of : Blocks, white : BOOLEAN] \cup {NoMeta}
               /\ metas[i] = NoMeta => metas'[i] = NoMeta
               /\ metas[i] # NoMeta =>
                    /\ metas'[i] # NoMeta /\ metas'[i].of = metas[i].of
                    /\ metas'[i].white = IF i \in S THEN w ELSE metas[i].white
    <2>1. metas'[i] = IF i \in S /\ metas[i] # NoMeta
                      THEN [metas[i] EXCEPT !.white = w] ELSE metas[i]
      BY DEF Paint
    <2>2. CASE i \in S /\ metas[i] # NoMeta
      <3>1. metas[i] \in [of : Blocks, white : BOOLEAN]
        BY <1>1, <2>2
      <3>2. metas'[i] = [of |-> metas[i].of, white |-> w]
        BY <2>1, <2>2, <3>1
      <3>3. metas'[i] \in [of : Blocks, white : BOOLEAN]
        BY <3>1, <3>2
      <3> QED
        BY <2>2, <3>2, <3>3, ObjectConstants
    <2>3. CASE ~(i \in S /\ metas[i] # NoMeta)
      BY <1>1, <2>1, <2>3
    <2> QED
      BY <2>2, <2>3
  <1>4. metas' = [i \in Ids |-> metas'[i]]
    BY DEF Paint
  <1>5. metas' \in [Ids -> [of : Blocks, white : BOOLEAN] \cup {NoMeta}]
    BY <1>3, <1>4
  <1>6. Of' = Of
    BY <1>3 DEF Of
  <1> QED
    BY <1>3, <1>5, <1>6

(* The collection.                                                           *)
LEMMA TypeCollect ==
  ASSUME IInv, Collect
  PROVE  TypeOK'
  <1>1. TypeOK
    BY DEF IInv
  <1>2. CASE SkipCollection \/ StartSweep \/ EndSweep
    BY <1>1, <1>2
       DEF SkipCollection, StartSweep, EndSweep, Return, TypeOK, memory, table,
           program, marks
  <1>3. CASE EnterCycle
    <2>1. /\ Paint(allObjects, TRUE) /\ gray' = Roots /\ aux' = {} /\ pc' = "mark"
          /\ UNCHANGED <<memory, nextId, freeIds, allObjects, program, drops, tries, ret, left>>
      BY <1>3 DEF EnterCycle
    <2>2. metas' \in [Ids -> [of : Blocks, white : BOOLEAN] \cup {NoMeta}]
      BY <1>1, <2>1, PaintTypes
    <2>3. Roots \subseteq Blocks
      BY <1>1 DEF Roots, TypeOK
    <2> QED
      BY <1>1, <2>1, <2>2, <2>3 DEF TypeOK, memory, program
  <1>4. ASSUME NEW b \in Blocks, Mark(b)
        PROVE  TypeOK'
    <2>1. /\ Paint({header[b]}, FALSE) /\ aux' = aux \cup {b}
          /\ gray' \subseteq gray \cup ({field[b]} \ {Nil})
          /\ UNCHANGED <<memory, nextId, freeIds, allObjects, program, drops, control, left>>
      BY <1>4 DEF Mark
    <2>2. metas' \in [Ids -> [of : Blocks, white : BOOLEAN] \cup {NoMeta}]
      BY <1>1, <2>1, PaintTypes
    <2>3. gray' \subseteq Blocks
      BY <1>1, <2>1 DEF TypeOK
    <2> QED
      BY <1>1, <2>1, <2>2, <2>3 DEF TypeOK, memory, program, control
  <1>5. ASSUME NEW i \in Ids, SweepDead(i)
        PROVE  TypeOK'
    <2> DEFINE b == metas[i].of
    <2>1. b \in Blocks
      BY <1>1, <1>5 DEF SweepDead, Dead, TypeOK
    <2>2. /\ \/ /\ strong' = Count(strong, b)
                /\ field' = [field EXCEPT ![b] = Nil]
                /\ drops' = Drop(field[b]) \o Drop(b) \o DropWeak(b)
             \/ /\ drops' = DropWeak(b)
                /\ UNCHANGED <<strong, field>>
          /\ metas' = [metas EXCEPT ![i] = NoMeta]
          /\ freeIds' = freeIds \/ freeIds' = Append(freeIds, i)
          /\ allObjects' = allObjects \ {i}
          /\ left' = left \ {i}
          /\ UNCHANGED <<state, weak, header, nextId, program, control, gray, aux>>
      BY <1>5 DEF SweepDead, FreeId
    <2> HIDE DEF b
    <2>3. strong' \in [Blocks -> Nat] /\ field' \in [Blocks -> Blocks \cup {Nil}]
      <3>1. b # Nil /\ strong \in [Blocks -> Nat] /\ field \in [Blocks -> Blocks \cup {Nil}]
        BY <1>1, <2>1, ObjectConstants DEF TypeOK
      <3>2. strong' = strong \/ strong' = [strong EXCEPT ![b] = @ + 1]
        BY <2>2, <3>1 DEF Count
      <3>3. field' = field \/ field' = [field EXCEPT ![b] = Nil]
        BY <2>2
      <3>4. strong' \in [Blocks -> Nat]
        BY <3>1, <3>2
      <3>5. field' \in [Blocks -> Blocks \cup {Nil}]
        BY <3>1, <3>3
      <3> QED
        BY <3>4, <3>5
    <2>4. drops' \in Seq(Pending)
      <3>1. /\ Drop(field[b]) \in Seq(Pending) /\ DropWeak(b) \in Seq(Pending)
            /\ Drop(b) \in Seq(Pending)
        BY <1>1, <2>1, PendingTypes DEF TypeOK
      <3>2. Drop(field[b]) \o Drop(b) \in Seq(Pending)
        BY <3>1, ConcatProperties
      <3>3. Drop(field[b]) \o Drop(b) \o DropWeak(b) \in Seq(Pending)
        BY <3>1, <3>2, ConcatProperties
      <3> QED
        BY <2>2, <3>1, <3>3
    <2>5. metas' \in [Ids -> [of : Blocks, white : BOOLEAN] \cup {NoMeta}]
      BY <1>1, <2>2 DEF TypeOK
    <2>6. freeIds' \in Seq(Ids)
      <3>1. freeIds \in Seq(Ids)
        BY <1>1 DEF TypeOK
      <3>2. Append(freeIds, i) \in Seq(Ids)
        BY <3>1
      <3>3. freeIds' = freeIds \/ freeIds' = Append(freeIds, i)
        BY <2>2
      <3> QED
        BY <3>1, <3>2, <3>3
    <2> QED
      BY <1>1, <2>2, <2>3, <2>4, <2>5, <2>6 DEF TypeOK, program, control
  <1>6. ASSUME NEW i \in Ids, SweepAlive(i)
        PROVE  TypeOK'
    BY <1>1, <1>6 DEF SweepAlive, TypeOK, memory, table, program, control
  <1> QED
    BY <1>2, <1>3, <1>4, <1>5, <1>6 DEF Collect

LEMMA TypeStep ==
  ASSUME IInv, [Next]_vars
  PROVE  TypeOK'
  <1>1. CASE UNCHANGED vars
    BY <1>1 DEF IInv, TypeOK, vars, memory, table, program, control, marks
  <1> QED
    BY <1>1, Steps, TypeProgram, TypeFunnel, TypeCollect

-----------------------------------------------------------------------------
(* Whoever has a handle has a live object.                                   *)
LEMMA Live ==
  ASSUME TypeOK, CountsExact, NEW b \in Blocks,
         \/ \E s \in Slots : stack[s] = b
         \/ \E c \in Blocks : field[c] = b
         \/ \E n \in DOMAIN queue : queue[n] = b
         \/ \E n \in DOMAIN drops : drops[n] = Strong(b)
         \/ local = b
  PROVE  strong[b] > 0 /\ state[b] = "alive"
  <1>1. strong[b] > 0
    BY CountFacts
  <1> QED
    BY <1>1 DEF CountsExact

LEMMA LocalStep ==
  ASSUME IInv, [Next]_vars
  PROVE  LocalInv'
  <1>1. TypeOK /\ LocalInv
    BY DEF IInv
  <1>2. /\ At = IF pc \in {"drain", "mark", "sweep"} THEN ret ELSE pc
        /\ At' = IF pc' \in {"drain", "mark", "sweep"} THEN ret' ELSE pc'
        /\ ret \in {"run", "allocate", "fill", "register", "place"}
    BY <1>1 DEF At, TypeOK
  <1>3. local \in Blocks \cup {Nil} /\ field \in [Blocks -> Blocks \cup {Nil}]
    BY <1>1 DEF TypeOK
  <1>4. CASE UNCHANGED vars
    BY <1>1, <1>4 DEF LocalInv, At, vars, memory, program, control
  <1>5. CASE Program \/ \E s \in Slots : Place(s)
    <2>1. ASSUME NEW s \in Slots, NEW b, Write(s, b)
          PROVE  LocalInv'
      BY <1>1, <2>1 DEF LocalInv, At, Write, Running, control
    <2>2. ASSUME NEW s \in Slots, NEW from \in Slots, SetField(s, from)
          PROVE  LocalInv'
      BY <1>1, <2>2 DEF LocalInv, At, SetField, Running, program, control
    <2>3. CASE DrainIfFull \/ NewObject \/ CollectGc
      BY <1>1, <2>3
         DEF LocalInv, At, DrainIfFull, NewObject, CollectGc, StartCollection, Advance,
             Running, memory, program, control
    <2>4. ASSUME NEW s \in Slots, Place(s)
          PROVE  LocalInv'
      BY <1>1, <2>4 DEF LocalInv, At, Place, Advance
    <2> QED
      BY <1>5, <2>1, <2>2, <2>3, <2>4 DEF Program, Move, LoadField, LoadNil
  <1>6. CASE Funnel
    <2>1. CASE DropHandle
      <3>1. /\ field' = field \/ field' = [field EXCEPT ![Head(drops).b] = Nil]
            /\ UNCHANGED <<pc, ret, local>>
        BY <2>1 DEF DropHandle, program, control
      <3>2. local # Nil /\ field[local] = Nil => field'[local] = Nil
        BY <1>3, <3>1
      <3> QED
        BY <1>1, <1>3, <3>1, <3>2 DEF LocalInv, At
    <2>2. CASE DropWeakHandle
      BY <1>1, <2>2 DEF LocalInv, At, DropWeakHandle, program, control
    <2>3. CASE Allocate
      <3>1. PICK b \in Blocks : local' = b /\ field' = [field EXCEPT ![b] = Nil]
        BY <2>3 DEF Allocate
      <3>2. pc' = "fill"
        BY <2>3 DEF Allocate, Advance
      <3> QED
        BY <1>3, <3>1, <3>2, ObjectConstants DEF LocalInv, At
    <2>4. CASE Fill \/ Register
      BY <1>1, <2>4 DEF LocalInv, At, Fill, Register, Advance, program
    <2>5. CASE EmergencyGc
      BY <1>1, <1>2, <2>5 DEF LocalInv, EmergencyGc, StartCollection, Fallible, memory
    <2>6. CASE MemoryError
      BY <1>1, <2>6 DEF LocalInv, At, MemoryError, Advance
    <2> QED
      BY <1>6, <2>1, <2>2, <2>3, <2>4, <2>5, <2>6 DEF Funnel
  <1>7. CASE Collect
    <2>1. CASE SkipCollection \/ EnterCycle \/ StartSweep \/ EndSweep
      BY <1>1, <1>2, <2>1
         DEF LocalInv, SkipCollection, EnterCycle, StartSweep, EndSweep, Return, memory,
             program
    <2>2. ASSUME NEW b \in Blocks, Mark(b)
          PROVE  LocalInv'
      BY <1>1, <2>2 DEF LocalInv, At, Mark, memory, program, control
    <2>3. ASSUME NEW i \in Ids, SweepDead(i)
          PROVE  LocalInv'
      <3>1. /\ field' = field \/ field' = [field EXCEPT ![metas[i].of] = Nil]
            /\ UNCHANGED <<pc, ret, local>>
        BY <2>3 DEF SweepDead, program, control
      <3>2. local # Nil /\ field[local] = Nil => field'[local] = Nil
        BY <1>3, <3>1
      <3> QED
        BY <1>1, <1>3, <3>1, <3>2 DEF LocalInv, At
    <2>4. ASSUME NEW i \in Ids, SweepAlive(i)
          PROVE  LocalInv'
      BY <1>1, <2>4 DEF LocalInv, At, SweepAlive, memory, program, control
    <2> QED
      BY <1>7, <2>1, <2>2, <2>3, <2>4 DEF Collect
  <1> QED
    BY <1>4, <1>5, <1>6, <1>7, Steps

LEMMA FieldStep ==
  ASSUME IInv, [Next]_vars
  PROVE  FieldInv'
  <1>1. TypeOK /\ CountsExact /\ LocalInv /\ FieldInv
    BY DEF IInv
  <1>2. /\ field \in [Blocks -> Blocks \cup {Nil}] /\ local \in Blocks \cup {Nil}
        /\ state \in [Blocks -> {"free", "alive", "dropped"}]
        /\ stack \in [Slots -> Blocks \cup {Nil}]
    BY <1>1 DEF TypeOK
  <1>3. CASE UNCHANGED <<field, state>>
    BY <1>1, <1>3 DEF FieldInv
  <1>4. CASE Program \/ \E s \in Slots : Place(s)
    <2>1. ASSUME NEW s \in Slots, NEW from \in Slots, SetField(s, from)
          PROVE  FieldInv'
      <3>1. /\ stack[s] # Nil /\ UNCHANGED state
            /\ field' = [field EXCEPT ![stack[s]] = stack[from]]
        BY <2>1 DEF SetField
      <3>2. stack[s] \in Blocks /\ state[stack[s]] = "alive"
        BY <1>1, <1>2, <3>1, Live
      <3> QED
        BY <1>1, <1>2, <3>1, <3>2 DEF FieldInv
    <2>2. CASE DrainIfFull \/ NewObject \/ CollectGc
      BY <1>3, <2>2 DEF DrainIfFull, NewObject, CollectGc, memory
    <2> QED
      BY <1>3, <1>4, <2>1, <2>2 DEF Program, Move, LoadField, LoadNil, Write, Place, memory
  <1>5. CASE Funnel
    <2>1. CASE DropHandle
      <3> DEFINE b == Head(drops).b
      <3>1. b \in Blocks
        BY <1>1, <2>1, PendingHead DEF DropHandle
      <3>2. \/ UNCHANGED <<field, state>>
            \/ state' = [state EXCEPT ![b] = "dropped"] /\ field' = [field EXCEPT ![b] = Nil]
        BY <2>1 DEF DropHandle
      <3> HIDE DEF b
      <3> QED
        BY <1>1, <1>2, <1>3, <3>1, <3>2 DEF FieldInv
    <2>2. CASE DropWeakHandle
      <3> DEFINE b == Head(drops).b
      <3>1. /\ b \in Blocks /\ 1 \in DOMAIN drops /\ drops[1] = Weak(b)
            /\ drops \in Seq(Pending)
        BY <1>1, <2>2, PendingHead DEF DropWeakHandle, TypeOK
      <3>2. /\ UNCHANGED field
            /\ \/ UNCHANGED state
               \/ weak[b] = 1 /\ state' = [state EXCEPT ![b] = "free"]
        BY <2>2, Zenon DEF DropWeakHandle
      <3> HIDE DEF b
      <3>3. weak[b] = 1 => state[b] # "alive"
        BY <1>1, <3>1, CountFacts
      <3> QED
        BY <1>1, <1>2, <1>3, <3>1, <3>2, <3>3 DEF FieldInv
    <2>3. CASE Allocate
      BY <1>1, <1>2, <2>3 DEF FieldInv, Allocate
    <2>4. CASE Fill
      <3>1. local \in Blocks /\ state[local] = "alive"
        BY <1>1, <1>2, <2>4, Live DEF LocalInv, At, Fill
      <3>2. PICK s \in Slots : field' = [field EXCEPT ![local] = stack[s]]
        BY <2>4 DEF Fill
      <3>3. UNCHANGED state
        BY <2>4 DEF Fill
      <3> QED
        BY <1>1, <1>2, <3>1, <3>2, <3>3 DEF FieldInv
    <2> QED
      BY <1>3, <1>5, <2>1, <2>2, <2>3, <2>4
         DEF Funnel, Register, EmergencyGc, MemoryError, memory
  <1>6. CASE Collect
    <2>1. ASSUME NEW i \in Ids, SweepDead(i)
          PROVE  FieldInv'
      <3>1. /\ field' = field \/ field' = [field EXCEPT ![metas[i].of] = Nil]
            /\ UNCHANGED state
        BY <2>1 DEF SweepDead
      <3> QED
        BY <1>1, <1>2, <3>1 DEF FieldInv
    <2> QED
      BY <1>3, <1>6, <2>1
         DEF Collect, SkipCollection, EnterCycle, StartSweep, EndSweep, Mark, SweepAlive,
             memory
  <1> QED
    BY <1>3, <1>4, <1>5, <1>6, Steps DEF vars, memory

(* A new id is not in use.                                                   *)
LEMMA NewIdUnused ==
  ASSUME TypeOK, IdTable
  PROVE  /\ NewId \notin allObjects
         /\ NewId \in Ids => metas[NewId] = NoMeta
         /\ \A n \in DOMAIN IdsLeft :
              n \in DOMAIN freeIds /\ IdsLeft[n] = freeIds[n] /\ IdsLeft[n] # NewId
         /\ NewId < IF freeIds = <<>> THEN nextId + 1 ELSE nextId
  <1>1. nextId \in Nat /\ allObjects \subseteq Ids /\ freeIds \in Seq(Ids)
    BY ObjectConstants DEF TypeOK
  <1>2. CASE freeIds = <<>>
    BY <1>1, <1>2 DEF NewId, IdsLeft, IdTable, Ids
  <1>3. CASE freeIds # <<>>
    <2>1. /\ NewId = freeIds[Len(freeIds)] /\ Len(freeIds) \in DOMAIN freeIds
          /\ IdsLeft = Front(freeIds) /\ NewId \in Ids
      BY <1>3, LastId DEF NewId, IdsLeft
    <2>2. NewId \notin allObjects /\ NewId < nextId /\ metas[NewId] = NoMeta
      BY <2>1 DEF IdTable
    <2>3. \A m, n \in DOMAIN freeIds : freeIds[m] = freeIds[n] => m = n
      BY DEF IdTable, IsInjective
    <2>4. \A n \in DOMAIN Front(freeIds) :
            /\ n \in DOMAIN freeIds /\ n # Len(freeIds)
            /\ Front(freeIds)[n] = freeIds[n]
      BY <1>3, LastId
    <2> QED
      BY <1>3, <2>1, <2>2, <2>3, <2>4
  <1> QED
    BY <1>2, <1>3

LEMMA IdTableStep ==
  ASSUME IInv, [Next]_vars
  PROVE  IdTable'
  <1>1. TypeOK /\ IdTable /\ LocalInv
    BY DEF IInv
  <1>2. /\ metas \in [Ids -> [of : Blocks, white : BOOLEAN] \cup {NoMeta}]
        /\ nextId \in Nat /\ allObjects \subseteq Ids /\ freeIds \in Seq(Ids)
    BY <1>1, ObjectConstants DEF TypeOK
  <1>3. ASSUME UNCHANGED <<nextId, freeIds, allObjects>>,
               \A i \in Ids : metas'[i] # NoMeta <=> metas[i] # NoMeta
        PROVE  IdTable'
    BY <1>1, <1>3 DEF IdTable
  <1>4. CASE UNCHANGED table
    BY <1>3, <1>4 DEF table
  <1>5. CASE Program \/ \E s \in Slots : Place(s)
    BY <1>4, <1>5
       DEF Program, Move, LoadField, LoadNil, Write, SetField, DrainIfFull, NewObject,
           CollectGc, Place
  <1>6. CASE Register
    <2>1. /\ NewId \in Ids /\ NewId \notin allObjects
          /\ \A n \in DOMAIN IdsLeft :
               n \in DOMAIN freeIds /\ IdsLeft[n] = freeIds[n] /\ IdsLeft[n] # NewId
          /\ NewId < IF freeIds = <<>> THEN nextId + 1 ELSE nextId
      BY <1>1, <1>6, NewIdUnused DEF Register
    <2>2. /\ metas' = [metas EXCEPT ![NewId] = [of |-> local, white |-> TRUE]]
          /\ nextId' = IF freeIds = <<>> THEN nextId + 1 ELSE nextId
          /\ freeIds' = IdsLeft
          /\ allObjects' = allObjects \cup {NewId}
      BY <1>6 DEF Register
    <2>3. [of |-> local, white |-> TRUE] # NoMeta
      <3>1. local \in Blocks
        BY <1>1, <1>6 DEF LocalInv, At, Register, TypeOK
      <3>2. [of |-> local, white |-> TRUE] \in [of : Blocks, white : BOOLEAN]
        BY <3>1
      <3> QED
        BY <3>2, ObjectConstants, Zenon
    <2> DEFINE n0 == NewId
               l0 == IdsLeft
               e == [of |-> local, white |-> TRUE]
    <2> HIDE DEF n0, l0, e
    <2>4. /\ n0 \in Ids /\ n0 \notin allObjects
          /\ \A n \in DOMAIN l0 : n \in DOMAIN freeIds /\ l0[n] = freeIds[n] /\ l0[n] # n0
          /\ n0 < IF freeIds = <<>> THEN nextId + 1 ELSE nextId
          /\ metas' = [metas EXCEPT ![n0] = e] /\ e # NoMeta
          /\ nextId' = IF freeIds = <<>> THEN nextId + 1 ELSE nextId
          /\ freeIds' = l0 /\ allObjects' = allObjects \cup {n0}
      BY <2>1, <2>2, <2>3 DEF n0, l0, e
    <2>5. \A i \in Ids : metas'[i] # NoMeta <=> i \in allObjects'
      BY <1>1, <1>2, <2>4 DEF IdTable
    <2>6. \A i \in allObjects' : i < nextId'
      BY <1>1, <1>2, <2>4 DEF IdTable, Ids
    <2>7. \A n \in DOMAIN freeIds' : freeIds'[n] \notin allObjects' /\ freeIds'[n] < nextId'
      BY <1>1, <1>2, <2>4 DEF IdTable, Ids
    <2>8. IsInjective(freeIds')
      BY <1>1, <1>2, <2>4 DEF IdTable, IsInjective
    <2> QED
      BY <2>5, <2>6, <2>7, <2>8 DEF IdTable
  <1>7. CASE Funnel
    BY <1>4, <1>6, <1>7
       DEF Funnel, DropHandle, DropWeakHandle, Allocate, Fill, EmergencyGc, MemoryError
  <1>8. CASE Collect
    <2>1. ASSUME NEW S, NEW w \in BOOLEAN, Paint(S, w),
                 UNCHANGED <<nextId, freeIds, allObjects>>
          PROVE  IdTable'
      <3>1. \A i \in Ids : metas'[i] # NoMeta <=> metas[i] # NoMeta
        BY <1>1, <2>1, PaintTypes
      <3> QED
        BY <1>3, <2>1, <3>1
    <2>2. ASSUME NEW i \in Ids, SweepDead(i)
          PROVE  IdTable'
      <3>1. /\ metas[i] # NoMeta /\ metas' = [metas EXCEPT ![i] = NoMeta]
            /\ freeIds' = freeIds \/ freeIds' = Append(freeIds, i)
            /\ allObjects' = allObjects \ {i} /\ UNCHANGED nextId
        BY <2>2 DEF SweepDead, Dead, FreeId
      <3>2. i \in allObjects /\ i < nextId /\ \A n \in DOMAIN freeIds : freeIds[n] # i
        BY <1>1, <3>1 DEF IdTable
      <3>3. /\ freeIds' \in Seq(Ids)
            /\ \A n \in DOMAIN freeIds' : (n \in DOMAIN freeIds /\ freeIds'[n] = freeIds[n])
                                          \/ (n = Len(freeIds) + 1 /\ freeIds'[n] = i)
        <4>1. CASE freeIds' = freeIds
          BY <1>2, <4>1
        <4>2. CASE freeIds' = Append(freeIds, i)
          BY <1>2, <4>2
        <4> QED
          BY <3>1, <4>1, <4>2
      <3>4. \A j \in Ids : metas'[j] # NoMeta <=> j \in allObjects'
        BY <1>1, <1>2, <3>1 DEF IdTable
      <3>5. \A j \in allObjects' : j < nextId'
        BY <1>1, <3>1 DEF IdTable
      <3>6. \A n \in DOMAIN freeIds' : freeIds'[n] \notin allObjects' /\ freeIds'[n] < nextId'
        BY <1>1, <3>1, <3>2, <3>3 DEF IdTable
      <3>7. IsInjective(freeIds')
        <4>1. \A m, n \in DOMAIN freeIds : freeIds[m] = freeIds[n] => m = n
          BY <1>1 DEF IdTable, IsInjective
        <4>2. \A m, n \in DOMAIN freeIds' : freeIds'[m] = freeIds'[n] => m = n
          BY <3>2, <3>3, <4>1
        <4> QED
          BY <4>2 DEF IsInjective
      <3> QED
        BY <3>4, <3>5, <3>6, <3>7 DEF IdTable
    <2> QED
      BY <1>4, <1>8, <2>1, <2>2
         DEF Collect, SkipCollection, StartSweep, EndSweep, EnterCycle, Mark, SweepAlive,
             table
  <1> QED
    BY <1>4, <1>5, <1>7, <1>8, Steps DEF vars

LEMMA NamedStep ==
  ASSUME IInv, [Next]_vars
  PROVE  Named'
  <1>1. TypeOK /\ CountsExact /\ LocalInv /\ IdTable /\ Named
    BY DEF IInv
  <1>2. /\ metas \in [Ids -> [of : Blocks, white : BOOLEAN] \cup {NoMeta}]
        /\ header \in [Blocks -> Ids \cup {NoId}] /\ NoId \notin Ids
        /\ weak \in [Blocks -> Nat]
    BY <1>1, ObjectConstants DEF TypeOK, Ids
  <1>3. CASE UNCHANGED <<metas, header>>
    BY <1>1, <1>3 DEF Named
  <1>4. CASE Program \/ \E s \in Slots : Place(s)
    BY <1>3, <1>4
       DEF Program, Move, LoadField, LoadNil, Write, SetField, DrainIfFull, NewObject,
           CollectGc, Place, memory, table
  <1>5. CASE Funnel
    <2>1. \A i \in Ids : metas[i] # NoMeta => Of[i] = metas[i].of /\ metas[i].of \in Blocks
      BY <1>2 DEF Of
    <2>2. CASE DropWeakHandle
      <3> DEFINE b == Head(drops).b
      <3>1. /\ b \in Blocks /\ 1 \in DOMAIN drops /\ drops[1] = Weak(b)
            /\ drops \in Seq(Pending)
        BY <1>1, <2>2, PendingHead DEF DropWeakHandle, TypeOK
      <3>2. /\ UNCHANGED metas
            /\ \/ UNCHANGED header
               \/ weak[b] = 1 /\ header' = [header EXCEPT ![b] = NoId]
        BY <2>2, Zenon DEF DropWeakHandle, table
      <3> HIDE DEF b
      <3>3. weak[b] = 1 => \A i \in Ids : Of[i] # b
        BY <1>1, <3>1, CountFacts
      <3> QED
        BY <1>1, <1>2, <1>3, <2>1, <3>1, <3>2, <3>3 DEF Named
    <2>3. CASE Allocate
      <3>1. PICK b \in Blocks : state[b] = "free" /\ header' = [header EXCEPT ![b] = NoId]
        BY <2>3 DEF Allocate
      <3>2. weak[b] = 0
        BY <1>1, <3>1 DEF CountsExact
      <3>3. \A i \in Ids : Of[i] # b
        BY <1>1, <1>2, <3>2, CountFacts
      <3>4. UNCHANGED metas
        BY <2>3 DEF Allocate, table
      <3> QED
        BY <1>1, <1>2, <2>1, <3>1, <3>3, <3>4 DEF Named
    <2>4. CASE Register
      <3>1. local \in Blocks /\ header[local] = NoId /\ NewId \in Ids
        BY <1>1, <2>4 DEF Register, LocalInv, At, TypeOK
      <3>2. /\ metas' = [metas EXCEPT ![NewId] = [of |-> local, white |-> TRUE]]
            /\ header' = [header EXCEPT ![local] = NewId]
        BY <2>4 DEF Register
      <3> QED
        BY <1>1, <1>2, <3>1, <3>2 DEF Named
    <2> QED
      BY <1>3, <1>5, <2>2, <2>3, <2>4
         DEF Funnel, DropHandle, Fill, EmergencyGc, MemoryError, memory, table
  <1>6. CASE Collect
    <2>1. ASSUME NEW S, NEW w \in BOOLEAN, Paint(S, w), UNCHANGED header
          PROVE  Named'
      BY <1>1, <2>1, PaintTypes DEF Named
    <2>2. ASSUME NEW i \in Ids, SweepDead(i)
          PROVE  Named'
      <3>1. metas' = [metas EXCEPT ![i] = NoMeta] /\ UNCHANGED header
        BY <2>2 DEF SweepDead
      <3> QED
        BY <1>1, <1>2, <3>1 DEF Named
    <2> QED
      BY <1>3, <1>6, <2>1, <2>2
         DEF Collect, SkipCollection, StartSweep, EndSweep, EnterCycle, Mark, SweepAlive,
             memory, table
  <1> QED
    BY <1>3, <1>4, <1>5, <1>6, Steps DEF vars, memory, table

-----------------------------------------------------------------------------
(* The counts of one block.                                                  *)
Exact(c) ==
    /\ strong[c] = Places(stack, c) + Places(field, c) + Places(queue, c)
                   + (IF local = c THEN 1 ELSE 0) + Places(drops, Strong(c))
    /\ weak[c] = Places(Of, c) + Places(drops, Weak(c))
                 + (IF state[c] = "alive" THEN 1 ELSE 0)
    /\ (state[c] = "alive") = (strong[c] > 0)
    /\ (state[c] = "free") = (weak[c] = 0)

LEMMA ExactCounts ==
  /\ CountsExact <=> \A c \in Blocks : Exact(c)
  /\ CountsExact' <=> \A c \in Blocks : Exact(c)'
  BY DEF CountsExact, Exact

LEMMA Domains ==
  ASSUME TypeOK
  PROVE  /\ stack = [x \in DOMAIN stack |-> stack[x]] /\ DOMAIN stack = Slots
         /\ field = [x \in DOMAIN field |-> field[x]] /\ DOMAIN field = Blocks
         /\ Of = [x \in DOMAIN Of |-> Of[x]] /\ DOMAIN Of = Ids
         /\ IsFiniteSet(Slots) /\ IsFiniteSet(Blocks) /\ IsFiniteSet(Ids)
  BY ObjectConstants, FS_Interval DEF TypeOK, Of, Ids

LEMMA QuietPlaces ==
  ASSUME Quiet
  PROVE  \A v : Places(drops, v) = 0
  BY PlacesEmpty DEF Quiet

(* One register is overwritten, and what it lost waits to be dropped.        *)
LEMMA OverwriteCounts ==
  ASSUME TypeOK, CountsExact, Quiet, NEW s \in Slots, NEW b \in Blocks \cup {Nil},
         Overwrite(s, b), NEW c \in Blocks
  PROVE  /\ Places(stack', c) \in Int /\ Places(queue', c) \in Int
         /\ Places(drops', Strong(c)) \in Int
         /\ Places(stack', c) + Places(queue', c) + Places(drops', Strong(c))
              = Places(stack, c) + Places(queue, c) + (IF b = c THEN 1 ELSE 0)
         /\ Places(drops', Weak(c)) = 0
  <1>1. /\ Places(stack, c) \in Nat /\ Places(queue, c) \in Nat
        /\ Places(drops, Strong(c)) = 0 /\ Places(drops, Weak(c)) = 0
    BY CountFacts, QuietPlaces
  <1>2. Places(stack', c) = Places(stack, c) - (IF stack[s] = c THEN 1 ELSE 0)
                              + (IF b = c THEN 1 ELSE 0)
    <2>1. stack' = Put(stack, s, b)
      BY DEF Overwrite, Put
    <2> QED
      BY <2>1, Domains, PlacesExcept
  <1>3. stack[s] \in Blocks \cup {Nil} /\ queue \in Seq(Blocks)
    BY DEF TypeOK
  <1>4. CASE stack[s] # Nil /\ queue' = Append(queue, stack[s]) /\ UNCHANGED drops
    <2>1. Places(Append(queue, stack[s]), c)
            = Places(queue, c) + IF stack[s] = c THEN 1 ELSE 0
      BY <1>3, <1>4, PlacesAppend
    <2>2. Places(queue', c) = Places(queue, c) + IF stack[s] = c THEN 1 ELSE 0
      BY <1>4, <2>1
    <2> QED
      BY <1>1, <1>2, <1>4, <2>2
  <1>5. CASE drops' = Drop(stack[s]) /\ UNCHANGED queue
    <2>1. /\ Places(drops', Strong(c)) = IF stack[s] = c THEN 1 ELSE 0
          /\ Places(drops', Weak(c)) = 0
      BY <1>3, <1>5, DropPlaces
    <2> QED
      BY <1>1, <1>2, <1>5, <2>1
  <1> QED
    BY <1>4, <1>5 DEF Overwrite

(* The queue is drained.                                                     *)
LEMMA DrainCounts ==
  ASSUME TypeOK, Quiet, drops' = Drops(queue), queue' = <<>>, NEW c \in Blocks
  PROVE  /\ Places(drops', Strong(c)) = Places(queue, c) /\ Places(queue', c) = 0
         /\ Places(drops', Weak(c)) = 0
  BY DropsPlaces, PlacesEmpty DEF TypeOK

(* One id is given or taken away.                                            *)
LEMMA OfExcept ==
  ASSUME TypeOK, NEW i \in Ids, NEW x \in Blocks \cup {Nil}, NEW m,
         metas' = Put(metas, i, m),
         IF x = Nil THEN m = NoMeta ELSE m # NoMeta /\ m.of = x
  PROVE  /\ Of' = [Of EXCEPT ![i] = x]
         /\ \A c \in Blocks : Places(Of', c) = Places(Of, c)
              - (IF Of[i] = c THEN 1 ELSE 0) + (IF x = c THEN 1 ELSE 0)
  <1>1. Of' = [Of EXCEPT ![i] = x]
    BY DEF Of, TypeOK, Put
  <1>2. Of' = Put(Of, i, x)
    BY <1>1 DEF Put
  <1>3. \A c \in Blocks : Places(Of', c)
          = Places(Of, c) - (IF Of[i] = c THEN 1 ELSE 0) + (IF x = c THEN 1 ELSE 0)
    BY <1>2, Domains, PlacesExcept
  <1> QED
    BY <1>1, <1>3

LEMMA FieldExcept ==
  ASSUME TypeOK, NEW b \in Blocks, NEW x, field' = Put(field, b, x), NEW c \in Blocks
  PROVE  Places(field', c)
           = Places(field, c) - (IF field[b] = c THEN 1 ELSE 0) + (IF x = c THEN 1 ELSE 0)
  BY Domains, PlacesExcept

LEMMA CountPlaces ==
  ASSUME TypeOK, NEW b \in Blocks \cup {Nil}, strong' = Count(strong, b), NEW c \in Blocks
  PROVE  strong'[c] = strong[c] + IF b = c THEN 1 ELSE 0
  BY ObjectConstants DEF Count, TypeOK

-----------------------------------------------------------------------------
(* The counts stay exact: the program's stores.                              *)
LEMMA SameCounts ==
  ASSUME CountsExact, UNCHANGED <<state, strong, weak, field, stack, queue, local, drops>>,
         Of' = Of
  PROVE  CountsExact'
  BY DEF CountsExact

LEMMA ExactWrite ==
  ASSUME IInv, NEW s \in Slots, NEW b \in Blocks \cup {Nil}, b # Nil => strong[b] > 0,
         Write(s, b), NEW c \in Blocks
  PROVE  Exact(c)'
  <1>1. TypeOK /\ CountsExact /\ Quiet
    BY DEF IInv, Write, Running
  <1>2. /\ strong' = Count(strong, b)
        /\ UNCHANGED <<state, weak, field, metas, local>>
    BY DEF Write, table
  <1>3. Of' = Of
    BY <1>2 DEF Of
  <1>4. /\ Places(stack', c) \in Int /\ Places(queue', c) \in Int
        /\ Places(drops', Strong(c)) \in Int
        /\ Places(stack', c) + Places(queue', c) + Places(drops', Strong(c))
             = Places(stack, c) + Places(queue, c) + (IF b = c THEN 1 ELSE 0)
        /\ Places(drops', Weak(c)) = 0
    BY <1>1, OverwriteCounts DEF Write
  <1>5. strong'[c] = strong[c] + IF b = c THEN 1 ELSE 0
    BY <1>1, <1>2, CountPlaces
  <1>6. Places(drops, Strong(c)) = 0 /\ Places(drops, Weak(c)) = 0
    BY <1>1, QuietPlaces
  <1>7. /\ Places(field, c) \in Nat /\ strong[c] \in Nat
        /\ Places(stack, c) \in Nat /\ Places(queue, c) \in Nat
    BY <1>1, CountFacts DEF TypeOK
  <1>8. Exact(c) /\ c # Nil
    BY <1>1, ExactCounts, ObjectConstants
  <1>9. (strong'[c] > 0) = (strong[c] > 0)
    BY <1>5, <1>7, <1>8
  <1>10. strong'[c] = Places(stack', c) + Places(field, c) + Places(queue', c)
                      + (IF local = c THEN 1 ELSE 0) + Places(drops', Strong(c))
    <2>1. strong[c] = Places(stack, c) + Places(field, c) + Places(queue, c)
                      + (IF local = c THEN 1 ELSE 0)
      BY <1>6, <1>7, <1>8 DEF Exact
    <2> DEFINE st == Places(stack', c)
               qu == Places(queue', c)
               dr == Places(drops', Strong(c))
               lo == IF local = c THEN 1 ELSE 0
               new == IF b = c THEN 1 ELSE 0
    <2>2. lo \in Int /\ new \in Int
      OBVIOUS
    <2> HIDE DEF st, qu, dr, lo, new
    <2>3. /\ st \in Int /\ qu \in Int /\ dr \in Int
          /\ st + qu + dr = Places(stack, c) + Places(queue, c) + new
          /\ strong[c] = Places(stack, c) + Places(field, c) + Places(queue, c) + lo
          /\ strong'[c] = strong[c] + new
      BY <1>4, <1>5, <2>1 DEF st, qu, dr, lo, new
    <2>4. strong'[c] = st + Places(field, c) + qu + lo + dr
      BY <1>7, <2>2, <2>3
    <2> QED
      BY <2>4 DEF st, qu, dr, lo
  <1> QED
    BY <1>2, <1>3, <1>4, <1>6, <1>8, <1>9, <1>10 DEF Exact

LEMMA ExactSetField ==
  ASSUME IInv, NEW s \in Slots, NEW from \in Slots, SetField(s, from), NEW c \in Blocks
  PROVE  Exact(c)'
  <1>1. TypeOK /\ CountsExact /\ Quiet
    BY DEF IInv, SetField, Running
  <1> DEFINE b == stack[s]
             x == stack[from]
             y == field[b]
  <1>2. b \in Blocks /\ x \in Blocks \cup {Nil} /\ y \in Blocks \cup {Nil}
    BY <1>1 DEF SetField, TypeOK
  <1>3. /\ field' = [field EXCEPT ![b] = x]
        /\ strong' = Count(strong, x)
        /\ drops' = Drop(y)
        /\ UNCHANGED <<state, weak, metas, stack, queue, local>>
    BY DEF SetField, table, program
  <1>4. x # Nil => strong[x] > 0
    BY <1>1, <1>2, Live
  <1> HIDE DEF b, x, y
  <1>5. Of' = Of
    BY <1>3 DEF Of
  <1>6. Places(field', c) = Places(field, c) - (IF y = c THEN 1 ELSE 0)
                              + (IF x = c THEN 1 ELSE 0)
    <2>1. field' = Put(field, b, x)
      BY <1>3 DEF Put
    <2> QED
      BY <1>1, <1>2, <2>1, FieldExcept DEF y
  <1>7. strong'[c] = strong[c] + IF x = c THEN 1 ELSE 0
    BY <1>1, <1>2, <1>3, CountPlaces
  <1>8. /\ Places(drops', Strong(c)) = IF y = c THEN 1 ELSE 0
        /\ Places(drops', Weak(c)) = 0
        /\ Places(drops, Strong(c)) = 0 /\ Places(drops, Weak(c)) = 0
    BY <1>1, <1>2, <1>3, DropPlaces, QuietPlaces
  <1>9. /\ Places(stack, c) \in Nat /\ Places(field, c) \in Nat /\ Places(queue, c) \in Nat
        /\ strong[c] \in Nat /\ c # Nil /\ Exact(c)
    BY <1>1, CountFacts, ExactCounts, ObjectConstants DEF TypeOK
  <1>10. strong[c] = Places(stack, c) + Places(field, c) + Places(queue, c)
                     + (IF local = c THEN 1 ELSE 0)
    BY <1>8, <1>9 DEF Exact
  <1>11. strong'[c] = Places(stack, c) + Places(field', c) + Places(queue, c)
                      + (IF local = c THEN 1 ELSE 0) + Places(drops', Strong(c))
    BY <1>6, <1>7, <1>8, <1>9, <1>10
  <1>12. (strong'[c] > 0) = (strong[c] > 0)
    BY <1>4, <1>7, <1>9
  <1> QED
    BY <1>3, <1>5, <1>8, <1>9, <1>11, <1>12 DEF Exact

LEMMA ExactPlace ==
  ASSUME IInv, NEW s \in Slots, Place(s), NEW c \in Blocks
  PROVE  Exact(c)'
  <1>1. TypeOK /\ CountsExact /\ Quiet /\ Overwrite(s, local) /\ local \in Blocks \cup {Nil}
    BY DEF IInv, Place, TypeOK
  <1>2. local' = Nil /\ UNCHANGED <<state, strong, weak, field, metas>>
    BY DEF Place, memory, table
  <1>3. Of' = Of
    BY <1>2 DEF Of
  <1>4. /\ Places(stack', c) \in Int /\ Places(queue', c) \in Int
        /\ Places(drops', Strong(c)) \in Int
        /\ Places(stack', c) + Places(queue', c) + Places(drops', Strong(c))
             = Places(stack, c) + Places(queue, c) + (IF local = c THEN 1 ELSE 0)
        /\ Places(drops', Weak(c)) = 0
    BY <1>1, OverwriteCounts
  <1>5. /\ Places(stack, c) \in Nat /\ Places(field, c) \in Nat /\ Places(queue, c) \in Nat
        /\ strong[c] \in Nat /\ c # Nil /\ Exact(c)
        /\ Places(drops, Strong(c)) = 0 /\ Places(drops, Weak(c)) = 0
    BY <1>1, CountFacts, ExactCounts, QuietPlaces, ObjectConstants DEF TypeOK
  <1>6. strong[c] = Places(stack, c) + Places(field, c) + Places(queue, c)
                    + (IF local = c THEN 1 ELSE 0)
    BY <1>5 DEF Exact
  <1>7. strong[c] = Places(stack', c) + Places(field, c) + Places(queue', c)
                    + Places(drops', Strong(c))
    BY <1>4, <1>5, <1>6
  <1>8. strong'[c] = Places(stack', c) + Places(field', c) + Places(queue', c)
                     + (IF local' = c THEN 1 ELSE 0) + Places(drops', Strong(c))
    BY <1>2, <1>4, <1>5, <1>7
  <1> QED
    BY <1>2, <1>3, <1>4, <1>5, <1>8 DEF Exact

LEMMA ExactDrain ==
  ASSUME IInv, Quiet, drops' = Drops(queue), queue' = <<>>,
         UNCHANGED <<memory, table, stack, local>>, NEW c \in Blocks
  PROVE  Exact(c)'
  <1>1. TypeOK /\ CountsExact
    BY DEF IInv
  <1>2. /\ Places(drops', Strong(c)) = Places(queue, c) /\ Places(queue', c) = 0
        /\ Places(drops', Weak(c)) = 0
    BY <1>1, DrainCounts
  <1>3. Of' = Of /\ UNCHANGED <<state, strong, weak, field>>
    BY DEF Of, table, memory
  <1>4. /\ Places(stack, c) \in Nat /\ Places(field, c) \in Nat /\ Places(queue, c) \in Nat
        /\ Exact(c)
        /\ Places(drops, Strong(c)) = 0 /\ Places(drops, Weak(c)) = 0
    BY <1>1, CountFacts, ExactCounts, QuietPlaces
  <1>5. strong[c] = Places(stack, c) + Places(field, c) + Places(queue, c)
                    + (IF local = c THEN 1 ELSE 0)
    BY <1>4 DEF Exact
  <1>6. strong[c] = Places(stack, c) + Places(field, c) + Places(queue', c)
                    + (IF local = c THEN 1 ELSE 0) + Places(drops', Strong(c))
    BY <1>2, <1>4, <1>5
  <1> QED
    BY <1>2, <1>3, <1>4, <1>6 DEF Exact

LEMMA CountsProgram ==
  ASSUME IInv, Program \/ \E s \in Slots : Place(s)
  PROVE  CountsExact'
  <1>1. TypeOK /\ CountsExact
    BY DEF IInv
  <1>2. ASSUME NEW s \in Slots, NEW from \in Slots, Move(s, from) \/ LoadField(s, from)
        PROVE  CountsExact'
    <2>1. PICK b : /\ Write(s, b)
                   /\ b = stack[from] \/ (stack[from] # Nil /\ b = field[stack[from]])
      BY <1>2 DEF Move, LoadField
    <2>2. b \in Blocks \cup {Nil}
      BY <1>1, <2>1 DEF TypeOK
    <2>3. b # Nil => strong[b] > 0
      <3>1. CASE b = stack[from]
        BY <1>1, <2>2, <3>1, Live
      <3>2. CASE stack[from] # Nil /\ b = field[stack[from]]
        <4>1. stack[from] \in Blocks
          BY <1>1, <3>2 DEF TypeOK
        <4> QED
          BY <1>1, <2>2, <3>2, <4>1, Live
      <3> QED
        BY <2>1, <3>1, <3>2
    <2> QED
      BY <2>1, <2>2, <2>3, ExactWrite, ExactCounts
  <1>3. ASSUME NEW s \in Slots, LoadNil(s)
        PROVE  CountsExact'
    BY <1>3, ExactWrite, ExactCounts DEF LoadNil
  <1>4. ASSUME NEW s \in Slots, NEW from \in Slots, SetField(s, from)
        PROVE  CountsExact'
    BY <1>4, ExactSetField, ExactCounts
  <1>5. ASSUME NEW s \in Slots, Place(s)
        PROVE  CountsExact'
    BY <1>5, ExactPlace, ExactCounts
  <1>6. CASE DrainIfFull \/ CollectGc
    <2>1. /\ Quiet /\ drops' = Drops(queue) /\ queue' = <<>>
          /\ UNCHANGED <<memory, table, stack, local>>
      BY <1>6 DEF DrainIfFull, CollectGc, StartCollection, Running
    <2> QED
      BY <2>1, ExactDrain, ExactCounts
  <1>7. CASE NewObject
    <2>1. Of' = Of /\ UNCHANGED <<state, strong, weak, field, stack, queue, local, drops>>
      BY <1>7 DEF NewObject, Of, memory, table, program
    <2> QED
      BY <1>1, <2>1, SameCounts
  <1> QED
    BY <1>2, <1>3, <1>4, <1>5, <1>6, <1>7 DEF Program

-----------------------------------------------------------------------------
(* The counts stay exact: drops.                                             *)
LEMMA HeadPlaces ==
  ASSUME TypeOK, drops # <<>>, NEW c \in Blocks
  PROVE  /\ Tail(drops) \in Seq(Pending)
         /\ Places(Tail(drops), Strong(c)) \in Nat /\ Places(Tail(drops), Weak(c)) \in Nat
         /\ Places(drops, Strong(c))
              = Places(Tail(drops), Strong(c)) + IF Head(drops) = Strong(c) THEN 1 ELSE 0
         /\ Places(drops, Weak(c))
              = Places(Tail(drops), Weak(c)) + IF Head(drops) = Weak(c) THEN 1 ELSE 0
  <1>1. drops \in Seq(Pending)
    BY DEF TypeOK
  <1>2. Tail(drops) \in Seq(Pending)
    BY <1>1
  <1> DEFINE t == Tail(drops)
  <1>3. \A v : Places(drops, v) = Places(t, v) + IF Head(drops) = v THEN 1 ELSE 0
    BY <1>1, PlacesTail
  <1> HIDE DEF t
  <1>4. \A v : Places(t, v) \in Nat
    <2>1. IsFiniteSet(DOMAIN t)
      BY <1>2, SeqFinite DEF t
    <2> QED
      BY <2>1, PlacesFinite
  <1> QED
    BY <1>2, <1>3, <1>4 DEF t

LEMMA ExactDrop ==
  ASSUME IInv, DropHandle, NEW c \in Blocks
  PROVE  Exact(c)'
  <1>1. TypeOK /\ CountsExact /\ Exact(c)
    BY ExactCounts DEF IInv
  <1> DEFINE b == Head(drops).b
             y == field[b]
             t == Tail(drops)
             p == Places(t, Strong(c))
             w == Places(t, Weak(c))
  <1>2. b \in Blocks /\ y \in Blocks \cup {Nil} /\ t \in Seq(Pending)
        /\ Head(drops) = Strong(b) /\ strong[b] > 0 /\ strong[b] \in Nat
    BY <1>1, PendingHead DEF DropHandle, TypeOK
  <1>3. p \in Nat /\ w \in Nat
    BY <1>1, HeadPlaces DEF DropHandle
  <1>4. /\ Places(drops, Strong(c)) = p + IF b = c THEN 1 ELSE 0
        /\ Places(drops, Weak(c)) = w
    <2>1. Head(drops) = Strong(c) <=> b = c
      BY <1>2, PendingParts
    <2>2. Head(drops) # Weak(c)
      BY <1>2, PendingParts
    <2>3. /\ Places(drops, Strong(c)) = p + IF Head(drops) = Strong(c) THEN 1 ELSE 0
          /\ Places(drops, Weak(c)) = w + IF Head(drops) = Weak(c) THEN 1 ELSE 0
      BY <1>1, HeadPlaces DEF DropHandle
    <2> HIDE DEF b, p, w
    <2> QED
      BY <1>3, <2>1, <2>2, <2>3
  <1>5. /\ strong' = [strong EXCEPT ![b] = @ - 1]
        /\ \/ /\ strong[b] = 1 /\ state' = [state EXCEPT ![b] = "dropped"]
              /\ field' = [field EXCEPT ![b] = Nil]
              /\ drops' = Drop(y) \o DropWeak(b) \o t
           \/ strong[b] # 1 /\ drops' = t /\ UNCHANGED <<state, field>>
        /\ UNCHANGED <<weak, metas, stack, queue, local>>
    BY DEF DropHandle, table, program
  <1>6. c # Nil /\ strong \in [Blocks -> Nat] /\ state \in [Blocks -> {"free", "alive", "dropped"}]
    BY <1>1, ObjectConstants DEF TypeOK
  <1>7. /\ Places(stack, c) \in Nat /\ Places(field, c) \in Nat /\ Places(queue, c) \in Nat
        /\ strong[c] = Places(stack, c) + Places(field, c) + Places(queue, c)
                       + (IF local = c THEN 1 ELSE 0) + Places(drops, Strong(c))
    BY <1>1, CountFacts
  <1> HIDE DEF b, y, t, p, w
  <1>8. Of' = Of
    BY <1>5 DEF Of
  <1>9. strong'[c] = strong[c] - IF b = c THEN 1 ELSE 0
    BY <1>2, <1>5, <1>6
  <1>10. CASE strong[b] = 1
    <2>1. /\ Places(drops', Strong(c)) = p + IF y = c THEN 1 ELSE 0
          /\ Places(drops', Weak(c)) = w + IF b = c THEN 1 ELSE 0
      <3> DEFINE d == Drop(y)
                 v == DropWeak(b)
      <3>1. /\ d \in Seq(Pending) /\ v \in Seq(Pending)
            /\ Places(d, Strong(c)) = IF y = c THEN 1 ELSE 0
            /\ Places(d, Weak(c)) = 0
            /\ Places(v, Strong(c)) = 0
            /\ Places(v, Weak(c)) = IF b = c THEN 1 ELSE 0
        BY <1>2, DropPlaces, DropWeakPlaces
      <3> DEFINE u == d \o v
                 r == u \o t
      <3>2. drops' = r
        BY <1>5, <1>10
      <3> HIDE DEF d, v
      <3>3. /\ u \in Seq(Pending)
            /\ \A z : Places(u, z) = Places(d, z) + Places(v, z)
        BY <3>1, PlacesConcat
      <3> HIDE DEF u
      <3>4. \A z : Places(r, z) = Places(u, z) + Places(t, z)
        BY <1>2, <3>3, PlacesConcat
      <3> HIDE DEF r
      <3>5. \A z : Places(drops', z) = Places(d, z) + Places(v, z) + Places(t, z)
        BY <3>2, <3>3, <3>4
      <3> QED
        BY <1>3, <3>1, <3>5 DEF p, w
    <2>2. Places(field', c) = Places(field, c) - (IF y = c THEN 1 ELSE 0)
      <3>1. field' = Put(field, b, Nil)
        BY <1>5, <1>10 DEF Put
      <3>2. Places(field', c) = Places(field, c) - (IF y = c THEN 1 ELSE 0)
                                  + (IF Nil = c THEN 1 ELSE 0)
        BY <1>1, <1>2, <3>1, FieldExcept DEF y
      <3> QED
        BY <1>6, <1>7, <3>2
    <2>3. state' = [state EXCEPT ![b] = "dropped"]
      BY <1>5, <1>10
    <2>4. strong'[c] = Places(stack, c) + Places(field', c) + Places(queue, c)
                       + (IF local = c THEN 1 ELSE 0) + Places(drops', Strong(c))
      BY <1>3, <1>4, <1>7, <1>9, <2>1, <2>2
    <2>5. (state'[c] = "alive") = (strong'[c] > 0)
      BY <1>1, <1>2, <1>6, <1>9, <1>10, <2>3 DEF Exact
    <2>6. state[b] = "alive" /\ state[b] # "free" /\ weak[b] # 0
      BY <1>1, <1>2, ExactCounts DEF Exact
    <2>7. (state'[c] = "free") = (weak[c] = 0)
      BY <1>1, <1>6, <2>3, <2>6, <1>2 DEF Exact
    <2>8. weak[c] = Places(Of, c) + Places(drops', Weak(c))
                    + (IF state'[c] = "alive" THEN 1 ELSE 0)
      <3>1. /\ weak[c] = Places(Of, c) + w + (IF state[c] = "alive" THEN 1 ELSE 0)
            /\ Places(Of, c) \in Nat
        BY <1>1, <1>4, CountFacts DEF Exact
      <3> QED
        BY <1>2, <1>3, <1>6, <2>1, <2>3, <2>6, <3>1
    <2> QED
      BY <1>5, <1>8, <2>4, <2>5, <2>7, <2>8 DEF Exact
  <1>11. CASE strong[b] # 1
    <2>1. drops' = t /\ UNCHANGED <<state, field>>
      BY <1>5, <1>11
    <2>2. Places(drops', Strong(c)) = p /\ Places(drops', Weak(c)) = w
      BY <2>1 DEF p, w
    <2>3. strong'[c] = Places(stack, c) + Places(field, c) + Places(queue, c)
                       + (IF local = c THEN 1 ELSE 0) + p
      BY <1>3, <1>4, <1>7, <1>9
    <2>4. (strong'[c] > 0) = (strong[c] > 0)
      BY <1>2, <1>6, <1>9, <1>11
    <2> QED
      BY <1>1, <1>4, <1>5, <1>8, <2>1, <2>2, <2>3, <2>4 DEF Exact
  <1> QED
    BY <1>10, <1>11

LEMMA ExactDropWeak ==
  ASSUME IInv, DropWeakHandle, NEW c \in Blocks
  PROVE  Exact(c)'
  <1>1. TypeOK /\ CountsExact /\ Exact(c)
    BY ExactCounts DEF IInv
  <1> DEFINE b == Head(drops).b
             t == Tail(drops)
             p == Places(t, Strong(c))
             w == Places(t, Weak(c))
  <1>2. b \in Blocks /\ Head(drops) = Weak(b) /\ weak[b] > 0 /\ weak[b] \in Nat
    BY <1>1, PendingHead DEF DropWeakHandle, TypeOK
  <1>3. p \in Nat /\ w \in Nat
    BY <1>1, HeadPlaces DEF DropWeakHandle
  <1>4. /\ Places(drops, Strong(c)) = p
        /\ Places(drops, Weak(c)) = w + IF b = c THEN 1 ELSE 0
    <2>1. Head(drops) = Weak(c) <=> b = c
      BY <1>2, PendingParts
    <2>2. Head(drops) # Strong(c)
      BY <1>2, PendingParts
    <2>3. /\ Places(drops, Strong(c)) = p + IF Head(drops) = Strong(c) THEN 1 ELSE 0
          /\ Places(drops, Weak(c)) = w + IF Head(drops) = Weak(c) THEN 1 ELSE 0
      BY <1>1, HeadPlaces DEF DropWeakHandle
    <2> HIDE DEF b, p, w
    <2> QED
      BY <1>3, <2>1, <2>2, <2>3
  <1>5. /\ weak' = [weak EXCEPT ![b] = @ - 1]
        /\ \/ weak[b] = 1 /\ state' = [state EXCEPT ![b] = "free"]
           \/ weak[b] # 1 /\ UNCHANGED state
        /\ drops' = t
        /\ UNCHANGED <<strong, field, metas, stack, queue, local>>
    BY Zenon DEF DropWeakHandle, table, program
  <1>6. weak \in [Blocks -> Nat] /\ state \in [Blocks -> {"free", "alive", "dropped"}]
    BY <1>1 DEF TypeOK
  <1>7. /\ Places(Of, c) \in Nat
        /\ weak[c] = Places(Of, c) + Places(drops, Weak(c))
                     + (IF state[c] = "alive" THEN 1 ELSE 0)
    BY <1>1, CountFacts
  <1> HIDE DEF b, t, p, w
  <1>8. Of' = Of
    BY <1>5 DEF Of
  <1>9. /\ weak'[c] = weak[c] - IF b = c THEN 1 ELSE 0
        /\ Places(drops', Strong(c)) = p /\ Places(drops', Weak(c)) = w
    BY <1>2, <1>5, <1>6 DEF p, w
  <1>10. b = c /\ weak[b] = 1 => state[b] # "alive"
    BY <1>3, <1>4, <1>7
  <1>11. (IF state'[c] = "alive" THEN 1 ELSE 0) = (IF state[c] = "alive" THEN 1 ELSE 0)
         /\ (state'[c] = "alive") = (state[c] = "alive")
    BY <1>5, <1>6, <1>10
  <1>12. weak'[c] = Places(Of, c) + w + (IF state[c] = "alive" THEN 1 ELSE 0)
    BY <1>3, <1>4, <1>7, <1>9
  <1>13. (state'[c] = "free") = (weak'[c] = 0)
    BY <1>1, <1>2, <1>5, <1>6, <1>9 DEF Exact
  <1> QED
    BY <1>1, <1>4, <1>5, <1>8, <1>9, <1>11, <1>12, <1>13 DEF Exact

(* The counts stay exact: the allocation funnel.                             *)
LEMMA ExactAllocate ==
  ASSUME IInv, Allocate, NEW c \in Blocks
  PROVE  Exact(c)'
  <1>1. TypeOK /\ CountsExact /\ Exact(c) /\ FieldInv /\ LocalInv
    BY ExactCounts DEF IInv
  <1>2. PICK b \in Blocks :
           /\ state[b] = "free"
           /\ state' = [state EXCEPT ![b] = "alive"]
           /\ strong' = [strong EXCEPT ![b] = 1]
           /\ weak' = [weak EXCEPT ![b] = 1]
           /\ field' = [field EXCEPT ![b] = Nil]
           /\ local' = b
    BY DEF Allocate
  <1>3. UNCHANGED <<metas, stack, queue, drops>>
    BY DEF Allocate, table
  <1>4. /\ strong \in [Blocks -> Nat] /\ weak \in [Blocks -> Nat] /\ local = Nil /\ c # Nil
        /\ state \in [Blocks -> {"free", "alive", "dropped"}]
        /\ field \in [Blocks -> Blocks \cup {Nil}]
    BY <1>1, ObjectConstants DEF TypeOK, LocalInv, At, Allocate
  <1>5. Of' = Of
    BY <1>3 DEF Of
  <1>6. field' = field
    <2>1. field[b] = Nil
      BY <1>1, <1>2 DEF FieldInv
    <2> QED
      BY <1>2, <1>4, <2>1
  <1>7. strong[b] = 0 /\ weak[b] = 0
    <2>1. Exact(b)
      BY <1>1, ExactCounts
    <2>2. ~(strong[b] > 0) /\ weak[b] = 0
      BY <1>2, <2>1 DEF Exact
    <2> QED
      BY <1>4, <2>2
  <1>8. CASE c = b
    <2>1. /\ Places(stack, c) \in Nat /\ Places(field, c) \in Nat
          /\ Places(queue, c) \in Nat /\ Places(Of, c) \in Nat
          /\ Places(drops, Strong(c)) \in Nat /\ Places(drops, Weak(c)) \in Nat
          /\ strong[c] = Places(stack, c) + Places(field, c) + Places(queue, c)
                         + (IF local = c THEN 1 ELSE 0) + Places(drops, Strong(c))
          /\ weak[c] = Places(Of, c) + Places(drops, Weak(c))
                       + (IF state[c] = "alive" THEN 1 ELSE 0)
      BY <1>1, CountFacts
    <2>2. /\ Places(stack, c) = 0 /\ Places(field, c) = 0 /\ Places(queue, c) = 0
          /\ Places(Of, c) = 0 /\ Places(drops, Strong(c)) = 0 /\ Places(drops, Weak(c)) = 0
      <3>1. local # c /\ state[c] # "alive" /\ strong[c] = 0 /\ weak[c] = 0
        BY <1>2, <1>4, <1>7, <1>8
      <3>2. /\ 0 = Places(stack, c) + Places(field, c) + Places(queue, c)
                   + Places(drops, Strong(c))
            /\ 0 = Places(Of, c) + Places(drops, Weak(c))
        BY <2>1, <3>1
      <3>3. /\ Places(stack, c) \in Nat /\ Places(field, c) \in Nat
            /\ Places(queue, c) \in Nat /\ Places(Of, c) \in Nat
            /\ Places(drops, Strong(c)) \in Nat /\ Places(drops, Weak(c)) \in Nat
        BY <2>1
      <3>4. Places(Of, c) = 0 /\ Places(drops, Weak(c)) = 0
        BY <3>2, <3>3
      <3>5. \A k, l, m, n \in Nat : 0 = k + l + m + n => k = 0 /\ l = 0 /\ m = 0 /\ n = 0
        OBVIOUS
      <3>6. /\ Places(stack, c) = 0 /\ Places(field, c) = 0
            /\ Places(queue, c) = 0 /\ Places(drops, Strong(c)) = 0
        <4>1. /\ Places(stack, c) \in Nat /\ Places(field, c) \in Nat
              /\ Places(queue, c) \in Nat /\ Places(drops, Strong(c)) \in Nat
              /\ 0 = Places(stack, c) + Places(field, c) + Places(queue, c)
                     + Places(drops, Strong(c))
          BY <3>2, <3>3
        <4> QED
          BY <3>5, <4>1, Zenon
      <3> QED
        BY <3>4, <3>6
    <2>3. /\ strong'[c] = 1 /\ weak'[c] = 1 /\ state'[c] = "alive" /\ local' = c
      BY <1>2, <1>4, <1>8
    <2> QED
      BY <1>3, <1>5, <1>6, <2>2, <2>3 DEF Exact
  <1>9. CASE c # b
    <2>1. /\ strong'[c] = strong[c] /\ weak'[c] = weak[c] /\ state'[c] = state[c]
          /\ local' # c /\ local # c
      BY <1>2, <1>4, <1>9
    <2> QED
      BY <1>1, <1>3, <1>5, <1>6, <2>1 DEF Exact
  <1> QED
    BY <1>8, <1>9

LEMMA ExactFill ==
  ASSUME IInv, Fill, NEW c \in Blocks
  PROVE  Exact(c)'
  <1>1. TypeOK /\ CountsExact /\ Exact(c) /\ LocalInv
    BY ExactCounts DEF IInv
  <1>2. PICK s \in Slots :
           /\ field' = [field EXCEPT ![local] = stack[s]]
           /\ strong' = Count(strong, stack[s])
    BY DEF Fill
  <1> DEFINE x == stack[s]
  <1>3. /\ UNCHANGED <<state, weak, metas, stack, queue, local, drops>>
        /\ local \in Blocks /\ field[local] = Nil /\ x \in Blocks \cup {Nil} /\ c # Nil
    BY <1>1, ObjectConstants DEF Fill, LocalInv, At, TypeOK, table, program
  <1>4. x # Nil => strong[x] > 0
    BY <1>1, <1>3, Live
  <1>5. Of' = Of
    BY <1>3 DEF Of
  <1>6. field' = Put(field, local, x) /\ strong' = Count(strong, x)
    BY <1>2 DEF Put
  <1> HIDE DEF x
  <1>7. Places(field', c) = Places(field, c) + (IF x = c THEN 1 ELSE 0)
    <2>1. Places(field', c) = Places(field, c) - (IF field[local] = c THEN 1 ELSE 0)
                                + (IF x = c THEN 1 ELSE 0)
      BY <1>1, <1>3, <1>6, FieldExcept
    <2>2. Places(field, c) \in Nat
      BY <1>1, CountFacts
    <2> QED
      BY <1>3, <2>1, <2>2
  <1>8. strong'[c] = strong[c] + IF x = c THEN 1 ELSE 0
    BY <1>1, <1>3, <1>6, CountPlaces
  <1>9. /\ Places(stack, c) \in Nat /\ Places(field, c) \in Nat /\ Places(queue, c) \in Nat
        /\ Places(drops, Strong(c)) \in Nat /\ strong[c] \in Nat
        /\ strong[c] = Places(stack, c) + Places(field, c) + Places(queue, c)
                       + (IF local = c THEN 1 ELSE 0) + Places(drops, Strong(c))
    BY <1>1, CountFacts DEF TypeOK
  <1>10. strong'[c] = Places(stack, c) + Places(field', c) + Places(queue, c)
                       + (IF local = c THEN 1 ELSE 0) + Places(drops, Strong(c))
    BY <1>7, <1>8, <1>9
  <1>11. (strong'[c] > 0) = (strong[c] > 0)
    BY <1>3, <1>4, <1>8, <1>9
  <1> QED
    BY <1>1, <1>3, <1>5, <1>10, <1>11 DEF Exact

LEMMA ExactRegister ==
  ASSUME IInv, Register, NEW c \in Blocks
  PROVE  Exact(c)'
  <1>1. TypeOK /\ CountsExact /\ Exact(c) /\ LocalInv /\ IdTable
    BY ExactCounts DEF IInv
  <1>2. local \in Blocks /\ NewId \in Ids /\ metas[NewId] = NoMeta /\ c # Nil /\ local # Nil
    BY <1>1, NewIdUnused, ObjectConstants DEF Register, LocalInv, At, TypeOK
  <1>3. /\ weak' = [weak EXCEPT ![local] = @ + 1]
        /\ metas' = [metas EXCEPT ![NewId] = [of |-> local, white |-> TRUE]]
        /\ UNCHANGED <<state, strong, field, stack, queue, local, drops>>
    BY DEF Register, program
  <1>4. [of |-> local, white |-> TRUE] # NoMeta /\ [of |-> local, white |-> TRUE].of = local
    <2>1. [of |-> local, white |-> TRUE] \in [of : Blocks, white : BOOLEAN]
      BY <1>2
    <2>2. [of |-> local, white |-> TRUE] # NoMeta
      BY <2>1, ObjectConstants, Zenon
    <2> QED
      BY <2>2
  <1>5. Places(Of', c) = Places(Of, c) + (IF local = c THEN 1 ELSE 0)
    <2> DEFINE n0 == NewId
               m == [of |-> local, white |-> TRUE]
    <2>1. n0 \in Ids /\ metas' = Put(metas, n0, m) /\ m # NoMeta /\ m.of = local
      BY <1>2, <1>3, <1>4 DEF Put
    <2>2. Of[n0] = Nil /\ Places(Of, c) \in Nat
      BY <1>1, <1>2, CountFacts DEF Of
    <2> HIDE DEF n0, m
    <2>3. Places(Of', c) = Places(Of, c) - (IF Of[n0] = c THEN 1 ELSE 0)
                             + (IF local = c THEN 1 ELSE 0)
      BY <1>1, <1>2, <2>1, OfExcept
    <2> QED
      BY <1>2, <2>2, <2>3
  <1>6. /\ Places(Of, c) \in Nat /\ Places(drops, Weak(c)) \in Nat
        /\ weak[c] = Places(Of, c) + Places(drops, Weak(c))
                     + (IF state[c] = "alive" THEN 1 ELSE 0)
        /\ weak \in [Blocks -> Nat]
    BY <1>1, CountFacts DEF TypeOK
  <1>7. weak'[c] = weak[c] + IF local = c THEN 1 ELSE 0
    BY <1>2, <1>3, <1>6
  <1>8. weak'[c] = Places(Of', c) + Places(drops, Weak(c))
                   + (IF state[c] = "alive" THEN 1 ELSE 0)
    BY <1>5, <1>6, <1>7
  <1>9. (weak'[c] = 0) = (weak[c] = 0)
    <2>1. weak[local] # 0
      BY <1>1, <1>2, Live, ExactCounts DEF Exact
    <2> QED
      BY <1>2, <1>6, <1>7, <2>1
  <1> QED
    BY <1>1, <1>3, <1>8, <1>9 DEF Exact

LEMMA ExactError ==
  ASSUME IInv, MemoryError, NEW c \in Blocks
  PROVE  Exact(c)'
  <1>1. TypeOK /\ CountsExact /\ Exact(c) /\ Quiet
    BY ExactCounts DEF IInv, MemoryError
  <1>2. /\ drops' = Drop(local) /\ local' = Nil
        /\ UNCHANGED <<state, strong, weak, field, metas, stack, queue>>
    BY DEF MemoryError, memory, table
  <1>3. Of' = Of
    BY <1>2 DEF Of
  <1>4. /\ Places(drops', Strong(c)) = IF local = c THEN 1 ELSE 0
        /\ Places(drops', Weak(c)) = 0
        /\ Places(drops, Strong(c)) = 0 /\ Places(drops, Weak(c)) = 0
    <2>1. local \in Blocks \cup {Nil}
      BY <1>1 DEF TypeOK
    <2> QED
      BY <1>1, <1>2, <2>1, DropPlaces, QuietPlaces
  <1>5. /\ Places(stack, c) \in Nat /\ Places(field, c) \in Nat /\ Places(queue, c) \in Nat
        /\ strong[c] = Places(stack, c) + Places(field, c) + Places(queue, c)
                       + (IF local = c THEN 1 ELSE 0) + Places(drops, Strong(c))
        /\ local' # c
    BY <1>1, <1>2, CountFacts, ObjectConstants
  <1>6. strong[c] = Places(stack, c) + Places(field, c) + Places(queue, c)
                    + (IF local' = c THEN 1 ELSE 0) + Places(drops', Strong(c))
    BY <1>4, <1>5
  <1> QED
    BY <1>1, <1>2, <1>3, <1>4, <1>6 DEF Exact

LEMMA CountsFunnel ==
  ASSUME IInv, Funnel
  PROVE  CountsExact'
  <1>1. CASE EmergencyGc
    <2>1. /\ Quiet /\ drops' = Drops(queue) /\ queue' = <<>>
          /\ UNCHANGED <<memory, table, stack, local>>
      BY <1>1 DEF EmergencyGc, StartCollection
    <2> QED
      BY <2>1, ExactDrain, ExactCounts
  <1> QED
    BY <1>1, ExactDrop, ExactDropWeak, ExactAllocate, ExactFill, ExactRegister, ExactError,
       ExactCounts DEF Funnel

-----------------------------------------------------------------------------
(* The counts stay exact: the sweep.                                         *)
LEMMA ExactSweep ==
  ASSUME IInv, NEW i \in Ids, SweepDead(i), NEW c \in Blocks
  PROVE  Exact(c)'
  <1>1. TypeOK /\ CountsExact /\ Exact(c) /\ Quiet
    BY ExactCounts DEF IInv, SweepDead
  <1> DEFINE b == metas[i].of
             y == field[b]
  <1>2. /\ b \in Blocks /\ y \in Blocks \cup {Nil} /\ b # Nil /\ c # Nil /\ Of[i] = b
        /\ strong \in [Blocks -> Nat]
    BY <1>1, ObjectConstants DEF SweepDead, Dead, TypeOK, Of
  <1>3. /\ \/ /\ strong[b] > 0 /\ strong' = Count(strong, b)
              /\ field' = [field EXCEPT ![b] = Nil]
              /\ drops' = Drop(y) \o Drop(b) \o DropWeak(b)
           \/ /\ ~(strong[b] > 0) /\ drops' = DropWeak(b)
              /\ UNCHANGED <<strong, field>>
        /\ metas' = [metas EXCEPT ![i] = NoMeta]
        /\ UNCHANGED <<state, weak, stack, queue, local>>
    BY DEF SweepDead, program
  <1> HIDE DEF b, y
  <1>4. /\ Places(stack, c) \in Nat /\ Places(field, c) \in Nat /\ Places(queue, c) \in Nat
        /\ Places(Of, c) \in Nat
        /\ Places(drops, Strong(c)) = 0 /\ Places(drops, Weak(c)) = 0
        /\ strong[c] = Places(stack, c) + Places(field, c) + Places(queue, c)
                       + (IF local = c THEN 1 ELSE 0) + Places(drops, Strong(c))
        /\ weak[c] = Places(Of, c) + Places(drops, Weak(c))
                     + (IF state[c] = "alive" THEN 1 ELSE 0)
    BY <1>1, CountFacts, QuietPlaces
  <1>5. Places(Of', c) = Places(Of, c) - (IF b = c THEN 1 ELSE 0)
    <2>1. Places(Of', c) = Places(Of, c) - (IF Of[i] = c THEN 1 ELSE 0)
                             + (IF Nil = c THEN 1 ELSE 0)
      <3>1. metas' = Put(metas, i, NoMeta)
        BY <1>3 DEF Put
      <3> QED
        BY <1>1, <3>1, OfExcept
    <2> QED
      BY <1>2, <1>4, <2>1
  <1>6. CASE strong[b] > 0
    <2>1. /\ strong' = Count(strong, b) /\ field' = Put(field, b, Nil)
          /\ drops' = Drop(y) \o Drop(b) \o DropWeak(b)
      BY <1>3, <1>6 DEF Put
    <2>2. strong'[c] = strong[c] + IF b = c THEN 1 ELSE 0
      BY <1>1, <1>2, <2>1, CountPlaces
    <2>3. Places(field', c) = Places(field, c) - (IF y = c THEN 1 ELSE 0)
      <3>1. Places(field', c) = Places(field, c) - (IF y = c THEN 1 ELSE 0)
                                  + (IF Nil = c THEN 1 ELSE 0)
        BY <1>1, <1>2, <2>1, FieldExcept DEF y
      <3> QED
        BY <1>2, <1>4, <3>1
    <2>4. /\ Places(drops', Strong(c)) = (IF y = c THEN 1 ELSE 0) + (IF b = c THEN 1 ELSE 0)
          /\ Places(drops', Weak(c)) = IF b = c THEN 1 ELSE 0
      <3> DEFINE d == Drop(y)
                 e == Drop(b)
                 v == DropWeak(b)
      <3>1. /\ d \in Seq(Pending) /\ e \in Seq(Pending) /\ v \in Seq(Pending)
            /\ Places(d, Strong(c)) = IF y = c THEN 1 ELSE 0
            /\ Places(d, Weak(c)) = 0
            /\ Places(e, Strong(c)) = IF b = c THEN 1 ELSE 0
            /\ Places(e, Weak(c)) = 0
            /\ Places(v, Strong(c)) = 0
            /\ Places(v, Weak(c)) = IF b = c THEN 1 ELSE 0
        BY <1>2, DropPlaces, DropWeakPlaces
      <3> DEFINE u == d \o e
                 r == u \o v
      <3>2. drops' = r
        BY <2>1
      <3> HIDE DEF d, e, v
      <3>3. /\ u \in Seq(Pending)
            /\ \A z : Places(u, z) = Places(d, z) + Places(e, z)
        BY <3>1, PlacesConcat
      <3> HIDE DEF u
      <3>4. \A z : Places(r, z) = Places(u, z) + Places(v, z)
        BY <3>1, <3>3, PlacesConcat
      <3> HIDE DEF r
      <3>5. \A z : Places(drops', z) = Places(d, z) + Places(e, z) + Places(v, z)
        BY <3>2, <3>3, <3>4
      <3> QED
        BY <3>1, <3>5
    <2>5. strong'[c] = Places(stack, c) + Places(field', c) + Places(queue, c)
                       + (IF local = c THEN 1 ELSE 0) + Places(drops', Strong(c))
      BY <1>4, <2>2, <2>3, <2>4
    <2>6. weak[c] = Places(Of', c) + Places(drops', Weak(c))
                    + (IF state[c] = "alive" THEN 1 ELSE 0)
      BY <1>4, <1>5, <2>4
    <2>7. (strong'[c] > 0) = (strong[c] > 0)
      BY <1>2, <1>6, <2>2
    <2> QED
      BY <1>1, <1>3, <2>5, <2>6, <2>7 DEF Exact
  <1>7. CASE ~(strong[b] > 0)
    <2>1. drops' = DropWeak(b) /\ UNCHANGED <<strong, field>>
      BY <1>3, <1>7
    <2>2. /\ Places(drops', Strong(c)) = 0
          /\ Places(drops', Weak(c)) = IF b = c THEN 1 ELSE 0
      BY <1>2, <2>1, DropWeakPlaces
    <2>3. strong[c] = Places(stack, c) + Places(field, c) + Places(queue, c)
                      + (IF local = c THEN 1 ELSE 0) + Places(drops', Strong(c))
      BY <1>4, <2>2
    <2>4. weak[c] = Places(Of', c) + Places(drops', Weak(c))
                    + (IF state[c] = "alive" THEN 1 ELSE 0)
      BY <1>4, <1>5, <2>2
    <2> QED
      BY <1>1, <1>3, <2>1, <2>3, <2>4 DEF Exact
  <1> QED
    BY <1>6, <1>7

LEMMA CountsCollect ==
  ASSUME IInv, Collect
  PROVE  CountsExact'
  <1>1. TypeOK /\ CountsExact
    BY DEF IInv
  <1>2. CASE SkipCollection \/ StartSweep \/ EndSweep \/ \E i \in Ids : SweepAlive(i)
    <2>1. Of' = Of /\ UNCHANGED <<state, strong, weak, field, stack, queue, local, drops>>
      BY <1>2 DEF SkipCollection, StartSweep, EndSweep, SweepAlive, Of, memory, table, program
    <2> QED
      BY <1>1, <2>1, SameCounts
  <1>3. ASSUME NEW S, NEW w \in BOOLEAN, Paint(S, w), UNCHANGED <<memory, program, drops>>
        PROVE  CountsExact'
    <2>1. Of' = Of /\ UNCHANGED <<state, strong, weak, field, stack, queue, local, drops>>
      BY <1>1, <1>3, PaintTypes DEF memory, program
    <2> QED
      BY <1>1, <2>1, SameCounts
  <1>4. CASE EnterCycle \/ \E b \in Blocks : Mark(b)
    BY <1>3, <1>4 DEF EnterCycle, Mark
  <1> QED
    BY <1>2, <1>4, ExactSweep, ExactCounts DEF Collect

LEMMA CountsStep ==
  ASSUME IInv, [Next]_vars
  PROVE  CountsExact'
  <1>1. CASE UNCHANGED vars
    <2>1. Of' = Of /\ UNCHANGED <<state, strong, weak, field, stack, queue, local, drops>>
      BY <1>1 DEF vars, Of, memory, table, program
    <2> QED
      BY <2>1, SameCounts DEF IInv
  <1> QED
    BY <1>1, Steps, CountsProgram, CountsFunnel, CountsCollect

-----------------------------------------------------------------------------
LEMMA InvInit == Init => IInv
  <1> SUFFICES ASSUME Init PROVE IInv
    OBVIOUS
  <1>1. TypeOK
    BY TypeInit
  <1>2. CountsExact
    <2> SUFFICES ASSUME NEW c \in Blocks PROVE Exact(c)
      BY ExactCounts
    <2>1. /\ strong[c] = 0 /\ weak[c] = 0 /\ state[c] = "free" /\ local # c
          /\ queue = <<>> /\ drops = <<>>
          /\ \A s \in Slots : stack[s] # c
          /\ \A x \in Blocks : field[x] # c
          /\ \A i \in Ids : Of[i] # c
      BY ObjectConstants DEF Init, Of
    <2>2. /\ Places(stack, c) = 0 /\ Places(field, c) = 0 /\ Places(Of, c) = 0
      <3>1. /\ {x \in DOMAIN stack : stack[x] = c} = {}
            /\ {x \in DOMAIN field : field[x] = c} = {}
            /\ {x \in DOMAIN Of : Of[x] = c} = {}
        BY <1>1, <2>1, Domains
      <3> QED
        BY <3>1, FS_EmptySet, Zenon DEF Places
    <2>3. \A v : Places(queue, v) = 0 /\ Places(drops, v) = 0
      BY <2>1, PlacesEmpty
    <2> QED
      BY <2>1, <2>2, <2>3 DEF Exact
  <1>3. LocalInv /\ FieldInv /\ Named
    BY DEF Init, LocalInv, At, FieldInv, Named
  <1>4. IdTable
    BY DEF Init, IdTable, IsInjective
  <1> QED
    BY <1>1, <1>2, <1>3, <1>4 DEF IInv

(* The inductive invariant.                                                  *)
THEOREM ObjectInvariant == Spec => []IInv
  <1>1. IInv /\ [Next]_vars => IInv'
    BY TypeStep, CountsStep, LocalStep, FieldStep, IdTableStep, NamedStep DEF IInv
  <1> QED
    BY InvInit, <1>1, PTL DEF Spec

THEOREM ObjectTypes == Spec => []TypeOK
  <1>1. IInv => TypeOK
    BY DEF IInv
  <1> QED
    BY <1>1, ObjectInvariant, PTL

(* Every block has exactly the handles its counters say, at every step of a  *)
(* cascade of drops and of a sweep: none is freed too early, twice or never. *)
THEOREM CountedHandles == Spec => []CountsExact
  <1>1. IInv => CountsExact
    BY DEF IInv
  <1> QED
    BY <1>1, ObjectInvariant, PTL
=============================================================================

---------------------------- MODULE TableProofs ----------------------------
(* What a table reads, for every range of keys and every length of its two   *)
(* parts: the invariants of the table runs about reading, and that a table   *)
(* implements FieldMap.                                                      *)
EXTENDS LuaTable, SequenceTheorems, WellFoundedInduction, TLAPS

-----------------------------------------------------------------------------
(* Induction.  A set of numbers that holds 0 and the successors of its       *)
(* members holds them all: well-foundedness, stated about a set.             *)
LEMMA Induction ==
  ASSUME NEW S, 0 \in S, \A n \in Nat : n \in S => n + 1 \in S
  PROVE  Nat \subseteq S
  <1> DEFINE R == OpToRel(<, Nat)
             T == Nat \ S
  <1>1. SUFFICES ASSUME T # {} PROVE FALSE
    OBVIOUS
  <1>2. IsWellFoundedOn(R, Nat)
    BY NatLessThanWellFounded
  <1>3. PICK x \in T : \A y \in T : ~(<<y, x>> \in R)
    <2> HIDE DEF R
    <2> QED
      BY <1>1, <1>2, WFMin
  <1>4. x \in Nat /\ x # 0 /\ x - 1 \in Nat
    OBVIOUS
  <1>5. x - 1 \notin T
    <2>1. <<x - 1, x>> \in R
      BY <1>4 DEF OpToRel
    <2> QED
      BY <1>3, <2>1
  <1> QED
    BY <1>4, <1>5

(* The same up to a bound.                                                   *)
LEMMA BoundedInduction ==
  ASSUME NEW N \in Nat, NEW S, 0 \in S, \A n \in 0..(N - 1) : n \in S => n + 1 \in S
  PROVE  0..N \subseteq S
  <1> DEFINE T == {n \in Nat : n \in 0..N => n \in S}
  <1>1. 0 \in T
    OBVIOUS
  <1>2. ASSUME NEW n \in Nat, n \in T PROVE n + 1 \in T
    <2>1. n + 1 \in 0..N => n \in 0..(N - 1) /\ n \in 0..N
      OBVIOUS
    <2> QED
      BY <1>2, <2>1
  <1>3. Nat \subseteq T
    <2> HIDE DEF T
    <2> QED
      BY <1>1, <1>2, Induction
  <1> QED
    BY <1>3

(* A recursive function exists, when every value depends on values of a      *)
(* lower rank only and ranks are bounded: w gives the value at x of what the *)
(* recursion makes of a function.                                            *)
Ranking(D, N) == [D -> 0..N]
Recipe(D, V) == [[D -> V] \X D -> V]

LEMMA Recursion ==
  ASSUME NEW D, NEW V, NEW N \in Nat, NEW rank \in Ranking(D, N),
         NEW w \in Recipe(D, V),
         V # {},
         \A g, h \in [D -> V], x \in D :
            (\A y \in D : rank[y] < rank[x] => g[y] = h[y]) => w[<<g, x>>] = w[<<h, x>>]
  PROVE  \E f \in [D -> V] : \A x \in D : f[x] = w[<<f, x>>]
  <1> USE DEF Ranking, Recipe
  <1> DEFINE Good(n) == \E f \in [D -> V] : \A x \in D : rank[x] < n => f[x] = w[<<f, x>>]
             S == {n \in 0..(N + 1) : Good(n)}
  <1>1. 0 \in S
    <2>1. PICK v \in V : TRUE
      OBVIOUS
    <2> DEFINE g == [x \in D |-> v]
    <2>2. g \in [D -> V]
      OBVIOUS
    <2>3. \A x \in D : ~(rank[x] < 0)
      OBVIOUS
    <2>4. Good(0)
      <3> HIDE DEF g
      <3> QED
        BY <2>2, <2>3
    <2> QED
      BY <2>4
  <1>2. ASSUME NEW n \in 0..N, n \in S PROVE n + 1 \in S
    <2>1. PICK f \in [D -> V] : \A x \in D : rank[x] < n => f[x] = w[<<f, x>>]
      BY <1>2
    <2> DEFINE g == [x \in D |-> w[<<f, x>>]]
    <2>2. g \in [D -> V]
      OBVIOUS
    <2>3. \A y \in D : rank[y] < n => g[y] = f[y]
      BY <2>1
    <2>4. ASSUME NEW x \in D, rank[x] < n + 1 PROVE g[x] = w[<<g, x>>]
      <3>1. g[x] = w[<<f, x>>]
        OBVIOUS
      <3>2. \A y \in D : rank[y] < rank[x] => g[y] = f[y]
        <4>1. \A y \in D : rank[y] \in Int
          OBVIOUS
        <4> QED
          BY <2>3, <2>4, <4>1
      <3>3. w[<<g, x>>] = w[<<f, x>>]
        <4> HIDE DEF g
        <4> QED
          BY <2>2, <3>2
      <3> QED
        BY <3>1, <3>3
    <2>5. Good(n + 1)
      <3> HIDE DEF g
      <3> QED
        BY <2>2, <2>4
    <2> QED
      BY <2>5
  <1>3. N + 1 \in S
    <2> HIDE DEF S
    <2>1. 0..(N + 1) \subseteq S
      BY <1>1, <1>2, BoundedInduction
    <2> QED
      BY <2>1
  <1>4. PICK f \in [D -> V] : \A x \in D : rank[x] < N + 1 => f[x] = w[<<f, x>>]
    BY <1>3
  <1>5. \A x \in D : f[x] = w[<<f, x>>]
    <2>1. \A x \in D : rank[x] \in 0..N
      OBVIOUS
    <2> QED
      BY <1>4, <2>1
  <1> QED
    BY <1>5

-----------------------------------------------------------------------------
(* Buckets.                                                                  *)

Entry == [k : Keys, v : Content]

(* Every key has at most one bucket.                                         *)
Unique(t) == \A i, j \in DOMAIN t.buckets : t.buckets[i].k = t.buckets[j].k => i = j

Tables == {t \in [array : Seq(Content), buckets : Seq(Entry)] :
              Unique(t) /\ Len(t.array) <= MaxInt}

LEMMA TableShape ==
  ASSUME NEW t \in Tables
  PROVE  /\ t = [array |-> t.array, buckets |-> t.buckets]
         /\ t.array \in Seq(Content) /\ t.buckets \in Seq(Entry)
         /\ Len(t.array) \in 0..MaxInt /\ Len(t.buckets) \in Nat
         /\ DOMAIN t.array = 1..Len(t.array) /\ DOMAIN t.buckets = 1..Len(t.buckets)
         /\ \A i \in DOMAIN t.array : t.array[i] \in Content
         /\ \A i \in DOMAIN t.buckets : t.buckets[i].k \in Keys /\ t.buckets[i].v \in Content
         /\ Unique(t)
  <1>1. /\ t \in [array : Seq(Content), buckets : Seq(Entry)]
        /\ Unique(t) /\ Len(t.array) <= MaxInt
    BY DEF Tables
  <1>2. t = [array |-> t.array, buckets |-> t.buckets]
    BY <1>1
  <1>3. t.array \in Seq(Content) /\ t.buckets \in Seq(Entry)
    BY <1>1
  <1>4. Len(t.array) \in 0..MaxInt
    BY <1>1, <1>3, TableConstants
  <1>5. \A i \in DOMAIN t.buckets : t.buckets[i] \in Entry
    BY <1>3
  <1>6. \A i \in DOMAIN t.buckets : t.buckets[i].k \in Keys /\ t.buckets[i].v \in Content
    BY <1>5 DEF Entry
  <1>7. \A i \in DOMAIN t.array : t.array[i] \in Content
    BY <1>3
  <1>8. /\ Len(t.buckets) \in Nat
        /\ DOMAIN t.array = 1..Len(t.array) /\ DOMAIN t.buckets = 1..Len(t.buckets)
    BY <1>3
  <1> QED
    BY <1>1, <1>2, <1>3, <1>4, <1>6, <1>7, <1>8

LEMMA BucketOfFound ==
  ASSUME NEW t \in Tables, NEW i \in DOMAIN t.buckets
  PROVE  BucketOf(t, t.buckets[i].k) = i
  <1> DEFINE k == t.buckets[i].k
             I == {j \in 1..Len(t.buckets) : t.buckets[j].k = k}
  <1>1. I = {i}
    BY TableShape DEF Unique
  <1>2. i \in Int
    BY TableShape
  <1>3. Min(I) = i
    <2> HIDE DEF I
    <2> QED
      BY <1>1, <1>2 DEF Min
  <1>4. BucketOf(t, k) = IF I # {} THEN Min(I) ELSE 0
    BY DEF BucketOf, SelectInSeq
  <1> QED
    BY <1>1, <1>3, <1>4

LEMMA BucketOfNone ==
  ASSUME NEW t \in Tables, NEW k, \A i \in DOMAIN t.buckets : t.buckets[i].k # k
  PROVE  BucketOf(t, k) = 0
  <1>1. {j \in 1..Len(t.buckets) : t.buckets[j].k = k} = {}
    BY TableShape
  <1> QED
    BY <1>1 DEF BucketOf, SelectInSeq

(* The index of a key: its bucket, or 0.                                     *)
LEMMA Bucket ==
  ASSUME NEW t \in Tables, NEW k
  PROVE  /\ BucketOf(t, k) \in 0..Len(t.buckets)
         /\ BucketOf(t, k) # 0 =>
              BucketOf(t, k) \in DOMAIN t.buckets /\ t.buckets[BucketOf(t, k)].k = k
         /\ BucketOf(t, k) = 0 => \A i \in DOMAIN t.buckets : t.buckets[i].k # k
  <1>1. CASE \A i \in DOMAIN t.buckets : t.buckets[i].k # k
    BY <1>1, BucketOfNone, TableShape
  <1>2. CASE \E i \in DOMAIN t.buckets : t.buckets[i].k = k
    <2>1. PICK i \in DOMAIN t.buckets : t.buckets[i].k = k
      BY <1>2
    <2>2. BucketOf(t, k) = i
      BY <2>1, BucketOfFound
    <2> QED
      BY <2>1, <2>2, TableShape
  <1> QED
    BY <1>1, <1>2

LEMMA HashGetType ==
  ASSUME NEW t \in Tables, NEW k
  PROVE  HashGet(t, k) \in Content
  BY Bucket, TableShape DEF HashGet, Content

(* hash_set_unchecked changes what is read at its key and nowhere else.      *)
LEMMA HashSetReads ==
  ASSUME NEW t \in Tables, NEW k \in Keys, NEW v \in Content
  PROVE  /\ HashSet(t, k, v) \in Tables
         /\ HashSet(t, k, v).array = t.array
         /\ HashGet(HashSet(t, k, v), k) = v
         /\ \A j : j # k => /\ HashGet(HashSet(t, k, v), j) = HashGet(t, j)
                            /\ BucketOf(HashSet(t, k, v), j) = BucketOf(t, j)
         /\ BucketOf(t, k) # 0 => BucketOf(HashSet(t, k, v), k) = BucketOf(t, k)
  <1> DEFINE i == BucketOf(t, k)
             u == HashSet(t, k, v)
  <1>0. /\ i \in 0..Len(t.buckets)
        /\ i # 0 => i \in DOMAIN t.buckets /\ t.buckets[i].k = k
        /\ i = 0 => \A j \in DOMAIN t.buckets : t.buckets[j].k # k
    BY Bucket
  <1>1. CASE i # 0
    <2> DEFINE e == [k |-> k, v |-> v]
               b == [t.buckets EXCEPT ![i] = e]
    <2>1. u = [array |-> t.array, buckets |-> b]
      <3>1. u = [t EXCEPT !.buckets[i].v = v]
        BY <1>1 DEF HashSet
      <3>2. t.buckets[i] \in Entry
        BY <1>0, <1>1, TableShape
      <3>3. [t.buckets[i] EXCEPT !.v = v] = [k |-> k, v |-> v]
        BY <3>2, <1>0, <1>1 DEF Entry
      <3>4. u.buckets = b /\ u = [array |-> t.array, buckets |-> u.buckets]
        BY <3>1, <3>3, TableShape
      <3> QED
        BY <3>4
    <2>2. DOMAIN b = DOMAIN t.buckets /\ b \in Seq(Entry)
      <3>1. e \in Entry
        BY DEF Entry
      <3> HIDE DEF e
      <3>2. t.buckets \in [1..Len(t.buckets) -> Entry] /\ Len(t.buckets) \in Nat
        BY TableShape
      <3>3. b \in [1..Len(t.buckets) -> Entry]
        BY <3>1, <3>2
      <3> QED
        BY <3>2, <3>3
    <2>3. \A j \in DOMAIN b : /\ b[j].k = t.buckets[j].k
                              /\ b[j].v = IF j = i THEN v ELSE t.buckets[j].v
      BY <1>0, <1>1, <2>2
    <2> HIDE DEF b, u
    <2>4. u \in Tables
      BY <2>1, <2>2, <2>3, TableShape DEF Tables, Unique
    <2>5. \A j : BucketOf(u, j) = BucketOf(t, j)
      <3> TAKE j
      <3>1. CASE BucketOf(t, j) = 0
        <4>1. \A n \in DOMAIN u.buckets : u.buckets[n].k # j
          BY <3>1, Bucket, <2>1, <2>2, <2>3
        <4> QED
          BY <3>1, <4>1, <2>4, BucketOfNone
      <3>2. CASE BucketOf(t, j) # 0
        <4> DEFINE n == BucketOf(t, j)
        <4>1. n \in DOMAIN u.buckets /\ u.buckets[n].k = j
          BY <3>2, Bucket, <2>1, <2>2, <2>3
        <4> QED
          BY <4>1, <2>4, BucketOfFound
      <3> QED
        BY <3>1, <3>2
    <2>6. HashGet(u, k) = v
      BY <1>0, <1>1, <2>1, <2>2, <2>3, <2>5 DEF HashGet
    <2>7. ASSUME NEW j, j # k PROVE HashGet(u, j) = HashGet(t, j)
      <3>1. CASE BucketOf(t, j) = 0
        BY <3>1, <2>5 DEF HashGet
      <3>2. CASE BucketOf(t, j) # 0
        <4>1. BucketOf(t, j) \in DOMAIN b /\ BucketOf(t, j) # i
          BY <3>2, Bucket, <2>2, <2>7, <1>0
        <4> QED
          BY <3>2, <4>1, <2>1, <2>3, <2>5 DEF HashGet
      <3> QED
        BY <3>1, <3>2
    <2> QED
      BY <2>1, <2>4, <2>5, <2>6, <2>7 DEF u
  <1>2. CASE i = 0 /\ v = Empty
    <2>1. u = t
      BY <1>2 DEF HashSet
    <2>2. HashGet(t, k) = v
      BY <1>2 DEF HashGet
    <2> QED
      BY <2>1, <2>2
  <1>3. CASE i = 0 /\ v # Empty
    <2> DEFINE e == [k |-> k, v |-> v]
               b == Append(t.buckets, e)
               N == Len(t.buckets)
    <2>1. u = [array |-> t.array, buckets |-> b]
      <3>1. u = [t EXCEPT !.buckets = b]
        BY <1>3 DEF HashSet
      <3> HIDE DEF b, u
      <3> QED
        BY <3>1, TableShape
    <2>2. e \in Entry /\ e.k = k /\ e.v = v
      BY DEF Entry
    <2>3. /\ b \in Seq(Entry) /\ DOMAIN b = 1..(N + 1) /\ b[N + 1] = e
          /\ \A j \in 1..N : b[j] = t.buckets[j]
      <3> HIDE DEF e
      <3> QED
        BY <2>2, TableShape
    <2> HIDE DEF b, u, e
    <2>4. u \in Tables
      <3>1. \A j \in 1..N : b[j].k # k
        BY <1>0, <1>3, <2>3, TableShape
      <3>2. Unique(u)
        <4> SUFFICES ASSUME NEW n \in 1..(N + 1), NEW j \in 1..(N + 1), b[n].k = b[j].k
                     PROVE  n = j
          BY <2>1, <2>3 DEF Unique
        <4>1. CASE n \in 1..N /\ j \in 1..N
          BY <2>3, <4>1, TableShape DEF Unique
        <4>2. CASE n = N + 1 \/ j = N + 1
          BY <3>1, <2>2, <2>3, <4>2, TableShape
        <4> QED
          BY <4>1, <4>2, TableShape
      <3> QED
        BY <3>2, <2>1, <2>3, TableShape DEF Tables
    <2>5. /\ BucketOf(u, k) = N + 1 /\ N + 1 # 0
          /\ \A j : j # k => BucketOf(u, j) = BucketOf(t, j)
      <3>1. BucketOf(u, k) = N + 1
        BY <2>1, <2>2, <2>3, <2>4, BucketOfFound, TableShape
      <3>2. ASSUME NEW j, j # k PROVE BucketOf(u, j) = BucketOf(t, j)
        <4>1. CASE BucketOf(t, j) = 0
          <5>1. \A n \in DOMAIN u.buckets : u.buckets[n].k # j
            BY <3>2, <4>1, Bucket, <2>1, <2>2, <2>3, TableShape
          <5> QED
            BY <4>1, <5>1, <2>4, BucketOfNone
        <4>2. CASE BucketOf(t, j) # 0
          <5> DEFINE n == BucketOf(t, j)
          <5>1. n \in DOMAIN u.buckets /\ u.buckets[n].k = j
            BY <4>2, Bucket, <2>1, <2>3, TableShape
          <5> QED
            BY <5>1, <2>4, BucketOfFound
        <4> QED
          BY <4>1, <4>2
      <3> QED
        BY <3>1, <3>2, TableShape
    <2>6. HashGet(u, k) = v
      BY <2>1, <2>2, <2>3, <2>5 DEF HashGet
    <2>7. ASSUME NEW j, j # k PROVE HashGet(u, j) = HashGet(t, j)
      <3>1. CASE BucketOf(t, j) = 0
        BY <2>7, <3>1, <2>5 DEF HashGet
      <3>2. CASE BucketOf(t, j) # 0
        <4>1. BucketOf(t, j) \in 1..N
          BY <3>2, Bucket, TableShape
        <4> QED
          BY <2>7, <3>2, <4>1, <2>1, <2>3, <2>5 DEF HashGet
      <3> QED
        BY <3>1, <3>2
    <2> QED
      BY <1>3, <2>1, <2>4, <2>5, <2>6, <2>7 DEF u
  <1> QED
    BY <1>1, <1>2, <1>3
-----------------------------------------------------------------------------
(* One read and one write.                                                   *)

LEMMA Norm ==
  /\ \A k \in Keys \cup FloatKeys : NormKey(k) \in Keys
  /\ \A k \in Keys : NormKey(k) = k
  BY TableConstants DEF NormKey, Keys, IntKeys

(* What the array hides of the hash part.                                    *)
Hidden(t) == {HashGet(t, j) : j \in Shadowed(t)}

LEMMA GetKey ==
  ASSUME NEW t, NEW k \in Keys
  PROVE  Get(t, k) = IF InArray(t, k) /\ t.array[k] # Empty THEN t.array[k]
                     ELSE HashGet(t, k)
  BY Norm DEF Get

LEMMA GetType ==
  ASSUME NEW t \in Tables, NEW k \in Keys \cup FloatKeys
  PROVE  Get(t, k) \in Content /\ Get(t, k) = Get(t, NormKey(k))
  <1>1. NormKey(k) \in Keys /\ NormKey(NormKey(k)) = NormKey(k)
    BY Norm
  <1>2. InArray(t, NormKey(k)) => t.array[NormKey(k)] \in Content
    BY TableShape DEF InArray, IntKeys
  <1> QED
    BY <1>1, <1>2, HashGetType DEF Get

(* set_unchecked: a write changes the field it names and no other; and what  *)
(* the array hides stays hidden.                                             *)
LEMMA SetSlotReads ==
  ASSUME NEW t \in Tables, NEW key \in Keys \cup FloatKeys, NEW v \in Content
  PROVE  /\ SetSlot(t, key, v) \in Tables
         /\ \A j \in Keys \ {NormKey(key)} : Get(SetSlot(t, key, v), j) = Get(t, j)
         /\ v # Empty => Get(SetSlot(t, key, v), NormKey(key)) = v
         /\ Get(SetSlot(t, key, v), NormKey(key)) \in {v} \cup Hidden(SetSlot(t, key, v))
         /\ Hidden(t) \subseteq Hidden(SetSlot(t, key, v))
         /\ Shadowed(t) \subseteq Shadowed(SetSlot(t, key, v))
  <1> DEFINE k == NormKey(key)
             u == SetSlot(t, key, v)
             n == Len(t.array)
  <1>0. k \in Keys /\ n \in 0..MaxInt /\ MaxInt \in Nat
    BY Norm, TableShape, TableConstants
  <1>1. CASE InArray(t, k)
    <2> DEFINE a == [t.array EXCEPT ![k] = v]
    <2>1. u = [array |-> a, buckets |-> t.buckets]
      <3>1. u = [t EXCEPT !.array = a]
        BY <1>1 DEF SetSlot
      <3> HIDE DEF u, a
      <3> QED
        BY <3>1, TableShape
    <2>2. k \in 1..n
      BY <1>0, <1>1 DEF InArray, IntKeys
    <2>3. a \in Seq(Content) /\ Len(a) = n /\ DOMAIN a = 1..n
      <3>1. t.array \in [1..n -> Content] /\ n \in Nat
        BY TableShape
      <3>2. a \in [1..n -> Content]
        BY <3>1
      <3> QED
        BY <3>1, <3>2
    <2>4. a[k] = v /\ \A j \in 1..n : j # k => a[j] = t.array[j]
      BY <2>2, TableShape
    <2> HIDE DEF a, u
    <2>5. u \in Tables
      BY <2>1, <2>3, TableShape DEF Tables, Unique
    <2>6. \A j : /\ BucketOf(u, j) = BucketOf(t, j) /\ HashGet(u, j) = HashGet(t, j)
                 /\ InArray(u, j) = InArray(t, j)
      BY <2>1, <2>3 DEF BucketOf, HashGet, InArray
    <2>7. ASSUME NEW j \in Keys \ {k} PROVE Get(u, j) = Get(t, j)
      <3>1. InArray(t, j) => u.array[j] = t.array[j]
        BY <2>1, <2>4, <1>0 DEF InArray, IntKeys
      <3> QED
        BY <3>1, <2>6, GetKey
    <2>8. Get(u, k) = IF v # Empty THEN v ELSE HashGet(t, k)
      BY <1>0, <1>1, <2>1, <2>4, <2>6, GetKey
    <2>9. Shadowed(u) = Shadowed(t) /\ Hidden(u) = Hidden(t)
      BY <2>6 DEF Shadowed, Hidden
    <2>10. Get(u, k) # v => Get(u, k) \in Hidden(t)
      <3>1. k \in IntKeys
        BY <1>1 DEF InArray
      <3> QED
        BY <2>8, <3>1, <1>1 DEF Shadowed, Hidden
    <2> QED
      BY <2>5, <2>7, <2>8, <2>9, <2>10 DEF u
  <1>2. CASE ~InArray(t, k) /\ k = n + 1 /\ v # Empty
    <2> DEFINE a == Append(t.array, v)
    <2>1. u = [array |-> a, buckets |-> t.buckets]
      <3>1. u = [t EXCEPT !.array = a]
        BY <1>2 DEF SetSlot
      <3> HIDE DEF u, a
      <3> QED
        BY <3>1, TableShape
    <2>2. k \in IntKeys /\ n + 1 <= MaxInt
      <3>1. k \in Int
        BY <1>0, <1>2
      <3> QED
        BY <3>1, <1>0, <1>2, TableConstants DEF Keys, IntKeys
    <2>3. /\ a \in Seq(Content) /\ Len(a) = n + 1 /\ a[n + 1] = v
          /\ \A j \in 1..n : a[j] = t.array[j]
      BY TableShape
    <2> HIDE DEF a, u
    <2>5. u \in Tables
      BY <2>1, <2>2, <2>3, TableShape DEF Tables, Unique
    <2>6. \A j : /\ BucketOf(u, j) = BucketOf(t, j) /\ HashGet(u, j) = HashGet(t, j)
                 /\ InArray(u, j) <=> InArray(t, j) \/ j = k
      BY <2>1, <2>2, <2>3, <1>0, <1>2 DEF BucketOf, HashGet, InArray, IntKeys
    <2>7. ASSUME NEW j \in Keys \ {k} PROVE Get(u, j) = Get(t, j)
      <3>1. InArray(t, j) => u.array[j] = t.array[j]
        BY <2>1, <2>3, <1>0 DEF InArray, IntKeys
      <3> QED
        BY <3>1, <2>6, GetKey
    <2>8. Get(u, k) = v
      BY <1>0, <1>2, <2>1, <2>3, <2>6, GetKey
    <2>9. Shadowed(t) \subseteq Shadowed(u) /\ Hidden(t) \subseteq Hidden(u)
      BY <2>6 DEF Shadowed, Hidden
    <2> QED
      BY <2>5, <2>7, <2>8, <2>9 DEF u
  <1>3. CASE ~InArray(t, k) /\ ~(k = n + 1 /\ v # Empty)
    <2>1. u = HashSet(t, k, v)
      BY <1>3 DEF SetSlot
    <2> HIDE DEF u
    <2>2. /\ u \in Tables /\ u.array = t.array
          /\ HashGet(u, k) = v
          /\ \A j : j # k => HashGet(u, j) = HashGet(t, j)
      BY <1>0, <2>1, HashSetReads
    <2>3. \A j : InArray(u, j) = InArray(t, j)
      BY <2>2 DEF InArray
    <2>4. \A j \in Keys \ {k} : Get(u, j) = Get(t, j)
      BY <2>2, <2>3, GetKey
    <2>5. Get(u, k) = v
      BY <1>0, <1>3, <2>2, <2>3, GetKey
    <2>6. Shadowed(t) \subseteq Shadowed(u) /\ Hidden(t) \subseteq Hidden(u)
      BY <1>3, <2>2, <2>3 DEF Shadowed, Hidden
    <2> QED
      BY <2>2, <2>4, <2>5, <2>6 DEF u
  <1> QED
    BY <1>1, <1>2, <1>3
-----------------------------------------------------------------------------
(* Loops.                                                                    *)

(* A loop over 1..N from a in V exists and stays in V.                       *)
Round(V, N) == [V \X (1..N) -> V]

LEMMA Iteration ==
  ASSUME NEW V, NEW N \in Nat, NEW a \in V, NEW w \in Round(V, N)
  PROVE  \E f \in [0..N -> V] : f[0] = a /\ \A i \in 1..N : f[i] = w[<<f[i - 1], i>>]
  <1> DEFINE D == 0..N
             rank == [i \in D |-> i]
             W == [p \in [D -> V] \X D |->
                     IF p[2] = 0 THEN a ELSE w[<<p[1][p[2] - 1], p[2]>>]]
  <1>1. rank \in Ranking(D, N)
    BY DEF Ranking
  <1>2. \A g \in [D -> V], x \in D :
          W[<<g, x>>] = IF x = 0 THEN a ELSE w[<<g[x - 1], x>>]
    OBVIOUS
  <1>3. \A g \in [D -> V], x \in D : x # 0 => g[x - 1] \in V /\ x \in 1..N
    OBVIOUS
  <1>4. \A g \in [D -> V], x \in D : W[<<g, x>>] \in V
    <2>1. \A c \in V, x \in 1..N : w[<<c, x>>] \in V
      BY DEF Round
    <2> HIDE DEF W, D
    <2> QED
      BY <1>2, <1>3, <2>1
  <1>5. W \in Recipe(D, V)
    <2>1. W = [p \in [D -> V] \X D |-> W[p]]
      OBVIOUS
    <2>2. \A p \in [D -> V] \X D : W[p] \in V
      <3> HIDE DEF W, D
      <3> QED
        BY <1>4
    <2> HIDE DEF W, D
    <2> QED
      BY <2>1, <2>2 DEF Recipe
  <1>6. ASSUME NEW g \in [D -> V], NEW h \in [D -> V], NEW x \in D,
               \A y \in D : rank[y] < rank[x] => g[y] = h[y]
        PROVE  W[<<g, x>>] = W[<<h, x>>]
    <2>1. x # 0 => g[x - 1] = h[x - 1]
      BY <1>6
    <2> HIDE DEF W
    <2> QED
      BY <1>2, <2>1
  <1>7. PICK f \in [D -> V] : \A x \in D : f[x] = W[<<f, x>>]
    <2>1. V # {}
      OBVIOUS
    <2> HIDE DEF W, D, rank
    <2> QED
      BY <1>1, <1>5, <1>6, <2>1, Recursion
  <1>8. \A x \in D : f[x] = IF x = 0 THEN a ELSE w[<<f[x - 1], x>>]
    <2> HIDE DEF W
    <2> QED
      BY <1>2, <1>7
  <1>9. 0 \in D /\ \A i \in 1..N : i \in D /\ i # 0
    OBVIOUS
  <1> QED
    BY <1>8, <1>9

(* What is read at k once x was written to it or moved there: x, or for nil  *)
(* what the array hides.                                                     *)
Reads(t, k, x) == Get(t, k) = x \/ (x = Empty /\ Get(t, k) \in Hidden(t))

LEMMA ReadsMore ==
  ASSUME NEW t \in Tables, NEW key \in Keys \cup FloatKeys, NEW v \in Content,
         NEW j \in Keys \ {NormKey(key)}, NEW x, Reads(t, j, x)
  PROVE  Reads(SetSlot(t, key, v), j, x)
  BY SetSlotReads DEF Reads

(* call_insert on the table and on the map.                                  *)
TabInsert(t, pos, e, v) == InsertWith(Get, SetSlot, t, pos, e, v)
MapInsert(m, pos, e, v) == InsertWith(MapGet, MapSet, m, pos, e, v)

LEMMA InsertLoop ==
  ASSUME NEW t \in Tables, NEW pos \in IntKeys, NEW e \in pos..MaxInt, NEW v
  PROVE  \E f \in [0..(e - pos) -> Tables] :
           /\ f[0] = t
           /\ \A i \in 1..(e - pos) : f[i] = SetSlot(f[i - 1], e - i + 1, Get(f[i - 1], e - i))
           /\ TabInsert(t, pos, e, v) = SetSlot(f[e - pos], pos, v)
  <1> DEFINE N == e - pos
             w == [p \in Tables \X (1..N) |-> SetSlot(p[1], e - p[2] + 1, Get(p[1], e - p[2]))]
  <1>1. N \in Nat /\ \A i \in 1..N : e - i + 1 \in Keys /\ e - i \in Keys
    BY TableConstants DEF IntKeys, Keys
  <1>2. \A u \in Tables, i \in 1..N : SetSlot(u, e - i + 1, Get(u, e - i)) \in Tables
    BY <1>1, GetType, SetSlotReads
  <1>3. \A u \in Tables, i \in 1..N : w[<<u, i>>] = SetSlot(u, e - i + 1, Get(u, e - i))
    OBVIOUS
  <1>4. w \in Round(Tables, N)
    <2>1. \A p \in Tables \X (1..N) : w[p] \in Tables
      BY <1>2
    <2>2. w = [p \in Tables \X (1..N) |-> w[p]]
      OBVIOUS
    <2> HIDE DEF w, N
    <2> QED
      BY <2>1, <2>2 DEF Round
  <1>5. PICK f \in [0..N -> Tables] :
          f[0] = t /\ \A i \in 1..N : f[i] = w[<<f[i - 1], i>>]
    <2>1. N \in Nat
      BY <1>1
    <2> HIDE DEF w, N
    <2> QED
      BY <2>1, <1>4, Iteration
  <1> DEFINE Loop(g) == [i \in 0..N |->
                IF i = 0 THEN t ELSE SetSlot(g[i - 1], e - i + 1, Get(g[i - 1], e - i))]
             moved == CHOOSE g : g = Loop(g)
  <1>6. f = Loop(f)
    <2>1. \A i \in 0..N : i # 0 => f[i - 1] \in Tables /\ i \in 1..N
      BY <1>1
    <2>2. \A i \in 0..N :
            f[i] = IF i = 0 THEN t ELSE SetSlot(f[i - 1], e - i + 1, Get(f[i - 1], e - i))
      <3> HIDE DEF w
      <3> QED
        BY <1>3, <1>5, <2>1
    <2> HIDE DEF w
    <2> QED
      BY <2>2
  <1>7. moved = Loop(moved)
    <2> HIDE DEF Loop
    <2> QED
      BY <1>6
  <1>8. TabInsert(t, pos, e, v) = SetSlot(moved[N], pos, v)
    BY DEF InsertWith, TabInsert
  <1> HIDE DEF moved
  <1>9. /\ \A i \in 0..N : moved[i] = IF i = 0 THEN t
                ELSE SetSlot(moved[i - 1], e - i + 1, Get(moved[i - 1], e - i))
        /\ moved = [i \in 0..N |-> moved[i]]
    <2>1. DOMAIN moved = 0..N
      BY <1>7
    <2> QED
      BY <1>7, <2>1
  <1>10. 0..N \subseteq {i \in 0..N : moved[i] \in Tables}
    <2> DEFINE S == {i \in 0..N : moved[i] \in Tables}
    <2>1. 0 \in S
      <3>1. 0 \in 0..N
        BY <1>1
      <3> HIDE DEF N
      <3> QED
        BY <1>9, <3>1
    <2>2. ASSUME NEW n \in 0..(N - 1), n \in S PROVE n + 1 \in S
      <3>1. n + 1 \in 1..N /\ n + 1 \in 0..N /\ n + 1 # 0 /\ (n + 1) - 1 = n
        BY <1>1
      <3>2. moved[n + 1] = SetSlot(moved[n], e - (n + 1) + 1, Get(moved[n], e - (n + 1)))
        BY <1>9, <3>1
      <3> QED
        BY <1>2, <2>2, <3>1, <3>2
    <2> HIDE DEF S, N
    <2> QED
      BY <1>1, <2>1, <2>2, BoundedInduction DEF S
  <1>11. moved \in [0..N -> Tables]
    BY <1>9, <1>10
  <1>12. /\ moved[0] = t
         /\ \A i \in 1..N : moved[i] = SetSlot(moved[i - 1], e - i + 1, Get(moved[i - 1], e - i))
    <2>1. 0 \in 0..N /\ \A i \in 1..N : i \in 0..N /\ i # 0
      BY <1>1
    <2> HIDE DEF N
    <2> QED
      BY <1>9, <2>1
  <1> QED
    BY <1>8, <1>11, <1>12
(* table.insert on the table: the fields from pos on have moved up by one.   *)
LEMMA InsertReads ==
  ASSUME NEW t \in Tables, NEW pos \in IntKeys, NEW e \in pos..MaxInt, NEW v \in Content,
         NEW u, u = TabInsert(t, pos, e, v)
  PROVE  /\ u \in Tables
         /\ Hidden(t) \subseteq Hidden(u)
         /\ \A k \in Keys \ (pos..e) : Get(u, k) = Get(t, k)
         /\ Reads(u, pos, v)
         /\ \A k \in (pos + 1)..e : Reads(u, k, Get(t, k - 1))
  <1> DEFINE N == e - pos
  <1>1. PICK f \in [0..N -> Tables] :
           /\ f[0] = t
           /\ \A i \in 1..N : f[i] = SetSlot(f[i - 1], e - i + 1, Get(f[i - 1], e - i))
           /\ TabInsert(t, pos, e, v) = SetSlot(f[N], pos, v)
    BY InsertLoop
  <1>2. /\ N \in Nat /\ pos \in 1..MaxInt /\ e \in 1..MaxInt /\ pos <= e /\ MaxInt \in Nat
        /\ 1..MaxInt \subseteq Keys
    BY TableConstants DEF IntKeys, Keys
  <1> DEFINE Done(i) == /\ Hidden(t) \subseteq Hidden(f[i])
                        /\ \A k \in (e - i + 1)..e : Reads(f[i], k, Get(t, k - 1))
                        /\ \A k \in Keys \ ((e - i + 1)..e) : Get(f[i], k) = Get(t, k)
             S == {i \in 0..N : Done(i)}
  <1>3. 0 \in S
    BY <1>1, <1>2
  <1>4. ASSUME NEW n \in 0..(N - 1), n \in S PROVE n + 1 \in S
    <2> DEFINE x == f[n]
               key == e - n
               val == Get(x, key - 1)
    <2>1. /\ n + 1 \in 1..N /\ n \in 0..N /\ (n + 1) - 1 = n
          /\ key \in 1..MaxInt /\ key - 1 \in 1..MaxInt /\ key = e - (n + 1) + 1
          /\ key - 1 = e - (n + 1) /\ key \in Keys /\ key - 1 \in Keys
          /\ key - 1 \notin (e - n + 1)..e
          /\ (e - (n + 1) + 1)..e = (e - n + 1)..e \cup {key} /\ key \notin (e - n + 1)..e
          /\ (e - n + 1)..e \subseteq Keys
      BY <1>2
    <2>2. x \in Tables /\ val \in Content /\ NormKey(key) = key
      BY <1>1, <2>1, GetType, Norm
    <2>3. Done(n)
      BY <1>4
    <2>4. f[n + 1] = SetSlot(x, key, val)
      BY <1>1, <2>1
    <2>5. val = Get(t, key - 1)
      BY <2>1, <2>3
    <2>6. Hidden(x) \subseteq Hidden(f[n + 1])
      BY <2>1, <2>2, <2>4, SetSlotReads
    <2>7. Reads(f[n + 1], key, Get(t, key - 1))
      BY <2>1, <2>2, <2>4, <2>5, SetSlotReads DEF Reads
    <2>8. \A k \in Keys \ {key} : Get(f[n + 1], k) = Get(x, k)
      BY <2>1, <2>2, <2>4, SetSlotReads
    <2> HIDE DEF x, key, val
    <2>9. \A k \in (e - n + 1)..e : Reads(f[n + 1], k, Get(t, k - 1))
      BY <2>1, <2>3, <2>6, <2>8 DEF Reads, x
    <2>10. \A k \in (e - (n + 1) + 1)..e : Reads(f[n + 1], k, Get(t, k - 1))
      BY <2>1, <2>7, <2>9
    <2>11. \A k \in Keys \ ((e - (n + 1) + 1)..e) : Get(f[n + 1], k) = Get(t, k)
      BY <2>1, <2>3, <2>8 DEF x
    <2>12. Hidden(t) \subseteq Hidden(f[n + 1])
      BY <2>3, <2>6 DEF x
    <2> QED
      BY <2>1, <2>10, <2>11, <2>12
  <1>5. N \in S
    <2>1. N \in Nat
      BY <1>2
    <2> HIDE DEF S, N
    <2>2. 0..N \subseteq S
      BY <1>3, <1>4, <2>1, BoundedInduction
    <2> QED
      BY <2>1, <2>2
  <1>6. Done(N) /\ e - N + 1 = pos + 1 /\ f[N] \in Tables
    BY <1>1, <1>2, <1>5
  <1> HIDE DEF N
  <1>7. pos \in Keys /\ NormKey(pos) = pos /\ u = SetSlot(f[N], pos, v)
    BY <1>1, <1>2, Norm
  <1>8. /\ u \in Tables /\ Hidden(f[N]) \subseteq Hidden(u) /\ Reads(u, pos, v)
        /\ \A k \in Keys \ {pos} : Get(u, k) = Get(f[N], k)
    BY <1>6, <1>7, SetSlotReads DEF Reads
  <1>9. \A k \in (pos + 1)..e : k \in Keys \ {pos}
    BY <1>2
  <1>10. \A k \in (pos + 1)..e : Reads(u, k, Get(t, k - 1))
    BY <1>6, <1>8, <1>9 DEF Reads
  <1>11. \A k \in Keys \ (pos..e) : k \in Keys \ ((pos + 1)..e) /\ k # pos
    BY <1>2
  <1> QED
    BY <1>6, <1>8, <1>10, <1>11

(* table.insert on a map.                                                    *)
LEMMA InsertMap ==
  ASSUME NEW m \in [Keys -> Content], NEW pos \in IntKeys, NEW e \in pos..MaxInt,
         NEW v \in Content
  PROVE  MapInsert(m, pos, e, v)
           = [k \in Keys |-> IF k = pos THEN v
                             ELSE IF k \in (pos + 1)..e THEN m[k - 1] ELSE m[k]]
  <1> DEFINE N == e - pos
             Shift(i) == [k \in Keys |-> IF k \in (e - i + 1)..e THEN m[k - 1] ELSE m[k]]
             Loop(g) == [i \in 0..N |-> IF i = 0 THEN m
                           ELSE MapSet(g[i - 1], e - i + 1, MapGet(g[i - 1], e - i))]
             moved == CHOOSE g : g = Loop(g)
             f == [i \in 0..N |-> Shift(i)]
  <1>1. /\ N \in Nat /\ pos \in 1..MaxInt /\ e \in 1..MaxInt /\ pos <= e /\ MaxInt \in Nat
        /\ 1..MaxInt \subseteq Keys
    BY TableConstants DEF IntKeys, Keys
  <1>2. Shift(0) = m
    BY <1>1
  <1>3. ASSUME NEW i \in 1..N
        PROVE  Shift(i) = MapSet(Shift(i - 1), e - i + 1, MapGet(Shift(i - 1), e - i))
    <2>1. /\ e - i + 1 \in Keys /\ e - i \in Keys
          /\ e - i \notin (e - (i - 1) + 1)..e
          /\ (e - i + 1)..e = (e - (i - 1) + 1)..e \cup {e - i + 1}
          /\ (e - i + 1) - 1 = e - i
      BY <1>1
    <2>2. MapGet(Shift(i - 1), e - i) = m[e - i]
      BY <2>1 DEF MapGet
    <2>3. MapSet(Shift(i - 1), e - i + 1, m[e - i])
            = [Shift(i - 1) EXCEPT ![e - i + 1] = m[e - i]]
      BY DEF MapSet
    <2>4. ASSUME NEW k \in Keys
          PROVE  Shift(i)[k] = [Shift(i - 1) EXCEPT ![e - i + 1] = m[e - i]][k]
      BY <2>1
    <2>5. Shift(i) = [Shift(i - 1) EXCEPT ![e - i + 1] = m[e - i]]
      BY <2>4
    <2> HIDE DEF Shift
    <2> QED
      BY <2>2, <2>3, <2>5
  <1>4. f = Loop(f)
    <2>1. \A i \in 1..N : i - 1 \in 0..N
      BY <1>1
    <2>2. \A i \in 1..N : f[i - 1] = Shift(i - 1)
      <3> HIDE DEF Shift
      <3> QED
        BY <2>1
    <2>3. ASSUME NEW i \in 0..N
          PROVE  Shift(i) = IF i = 0 THEN m
                     ELSE MapSet(f[i - 1], e - i + 1, MapGet(f[i - 1], e - i))
      <3>1. i = 0 \/ i \in 1..N
        BY <1>1
      <3> HIDE DEF Shift, N, f
      <3> QED
        BY <1>2, <1>3, <2>2, <3>1
    <2> DEFINE h == f
    <2>4. \A i \in 0..N : Shift(i) = IF i = 0 THEN m
                     ELSE MapSet(h[i - 1], e - i + 1, MapGet(h[i - 1], e - i))
      <3> HIDE DEF Shift, N, f
      <3> QED
        BY <2>3
    <2>5. f = Loop(h)
      <3> HIDE DEF h, Shift
      <3> QED
        BY <2>4
    <2> QED
      BY <2>5
  <1>5. moved = Loop(moved)
    <2> HIDE DEF Loop, f
    <2> QED
      BY <1>4
  <1> HIDE DEF moved
  <1>6. \A i \in 0..N : moved[i] = IF i = 0 THEN m
                     ELSE MapSet(moved[i - 1], e - i + 1, MapGet(moved[i - 1], e - i))
    BY <1>5
  <1> DEFINE S == {i \in 0..N : moved[i] = Shift(i)}
  <1>7. N \in S
    <2>1. 0 \in S
      <3>1. 0 \in 0..N
        BY <1>1
      <3> HIDE DEF Shift, N
      <3> QED
        BY <1>2, <1>6, <3>1
    <2>2. ASSUME NEW n \in 0..(N - 1), n \in S PROVE n + 1 \in S
      <3>1. n + 1 \in 0..N /\ n + 1 \in 1..N /\ n + 1 # 0 /\ (n + 1) - 1 = n
        BY <1>1
      <3>2. moved[n] = Shift(n)
        <4> HIDE DEF Shift
        <4> QED
          BY <2>2
      <3> HIDE DEF Shift, N
      <3>3. moved[n + 1] = MapSet(moved[n], e - (n + 1) + 1, MapGet(moved[n], e - (n + 1)))
        BY <1>6, <3>1
      <3>4. Shift(n + 1) = MapSet(Shift(n), e - (n + 1) + 1, MapGet(Shift(n), e - (n + 1)))
        BY <1>3, <3>1
      <3> QED
        BY <3>1, <3>2, <3>3, <3>4
    <2>3. N \in Nat
      BY <1>1
    <2> HIDE DEF S, N
    <2> QED
      BY <2>1, <2>2, <2>3, BoundedInduction
  <1>8. moved[N] = Shift(N)
    <2> HIDE DEF Shift
    <2> QED
      BY <1>7
  <1>9. MapInsert(m, pos, e, v) = [moved[N] EXCEPT ![pos] = v]
    BY DEF MapInsert, InsertWith, MapSet, moved
  <1>10. e - N + 1 = pos + 1
    BY <1>1
  <1>11. Shift(N) = [k \in Keys |-> IF k \in (pos + 1)..e THEN m[k - 1] ELSE m[k]]
    <2> HIDE DEF N
    <2> QED
      BY <1>10
  <1> QED
    BY <1>8, <1>9, <1>11
-----------------------------------------------------------------------------
(* call_remove on the table and on the map.                                  *)
TabRemove(t, pos, n) == RemoveWith(Get, SetSlot, t, pos, n)
MapRemove(m, pos, n) == RemoveWith(MapGet, MapSet, m, pos, n)

LEMMA RemoveLoop ==
  ASSUME NEW t \in Tables, NEW pos \in IntKeys, NEW n \in pos..MaxInt
  PROVE  \E f \in [0..(n - pos) -> Tables] :
           /\ f[0] = t
           /\ \A i \in 1..(n - pos) : f[i] = SetSlot(f[i - 1], pos + i - 1, Get(f[i - 1], pos + i))
           /\ TabRemove(t, pos, n) = SetSlot(f[n - pos], n, Empty)
  <1> DEFINE N == n - pos
             w == [p \in Tables \X (1..N) |-> SetSlot(p[1], pos + p[2] - 1, Get(p[1], pos + p[2]))]
  <1>1. N \in Nat /\ (\A i \in 1..N : pos + i - 1 \in Keys /\ pos + i \in Keys) /\ pos <= n
    BY TableConstants DEF IntKeys, Keys
  <1>2. \A u \in Tables, i \in 1..N : SetSlot(u, pos + i - 1, Get(u, pos + i)) \in Tables
    BY <1>1, GetType, SetSlotReads
  <1>3. \A u \in Tables, i \in 1..N : w[<<u, i>>] = SetSlot(u, pos + i - 1, Get(u, pos + i))
    OBVIOUS
  <1>4. w \in Round(Tables, N)
    <2>1. \A p \in Tables \X (1..N) : w[p] \in Tables
      BY <1>2
    <2>2. w = [p \in Tables \X (1..N) |-> w[p]]
      OBVIOUS
    <2> HIDE DEF w, N
    <2> QED
      BY <2>1, <2>2 DEF Round
  <1>5. PICK f \in [0..N -> Tables] :
          f[0] = t /\ \A i \in 1..N : f[i] = w[<<f[i - 1], i>>]
    <2>1. N \in Nat
      BY <1>1
    <2> HIDE DEF w, N
    <2> QED
      BY <2>1, <1>4, Iteration
  <1> DEFINE Loop(g) == [i \in 0..N |->
                IF i = 0 THEN t ELSE SetSlot(g[i - 1], pos + i - 1, Get(g[i - 1], pos + i))]
             moved == CHOOSE g : g = Loop(g)
  <1>6. f = Loop(f)
    <2>1. \A i \in 0..N : i # 0 => f[i - 1] \in Tables /\ i \in 1..N
      BY <1>1
    <2>2. \A i \in 0..N :
            f[i] = IF i = 0 THEN t ELSE SetSlot(f[i - 1], pos + i - 1, Get(f[i - 1], pos + i))
      <3> HIDE DEF w
      <3> QED
        BY <1>3, <1>5, <2>1
    <2> HIDE DEF w
    <2> QED
      BY <2>2
  <1>7. moved = Loop(moved)
    <2> HIDE DEF Loop
    <2> QED
      BY <1>6
  <1>8. TabRemove(t, pos, n) = SetSlot(moved[N], n, Empty)
    BY <1>1 DEF RemoveWith, TabRemove
  <1> HIDE DEF moved
  <1>9. /\ \A i \in 0..N : moved[i] = IF i = 0 THEN t
                ELSE SetSlot(moved[i - 1], pos + i - 1, Get(moved[i - 1], pos + i))
        /\ moved = [i \in 0..N |-> moved[i]]
    <2>1. DOMAIN moved = 0..N
      BY <1>7
    <2> QED
      BY <1>7, <2>1
  <1>10. 0..N \subseteq {i \in 0..N : moved[i] \in Tables}
    <2> DEFINE S == {i \in 0..N : moved[i] \in Tables}
    <2>1. 0 \in S
      <3>1. 0 \in 0..N
        BY <1>1
      <3> HIDE DEF N
      <3> QED
        BY <1>9, <3>1
    <2>2. ASSUME NEW j \in 0..(N - 1), j \in S PROVE j + 1 \in S
      <3>1. j + 1 \in 1..N /\ j + 1 \in 0..N /\ j + 1 # 0 /\ (j + 1) - 1 = j
        BY <1>1
      <3>2. moved[j + 1] = SetSlot(moved[j], pos + (j + 1) - 1, Get(moved[j], pos + (j + 1)))
        BY <1>9, <3>1
      <3> QED
        BY <1>2, <2>2, <3>1, <3>2
    <2> HIDE DEF S, N
    <2> QED
      BY <1>1, <2>1, <2>2, BoundedInduction DEF S
  <1>11. moved \in [0..N -> Tables]
    BY <1>9, <1>10
  <1>12. /\ moved[0] = t
         /\ \A i \in 1..N : moved[i] = SetSlot(moved[i - 1], pos + i - 1, Get(moved[i - 1], pos + i))
    <2>1. 0 \in 0..N /\ \A i \in 1..N : i \in 0..N /\ i # 0
      BY <1>1
    <2> HIDE DEF N
    <2> QED
      BY <1>9, <2>1
  <1> QED
    BY <1>8, <1>11, <1>12

(* table.remove on the table: the fields behind pos have moved down by one.  *)
LEMMA RemoveReads ==
  ASSUME NEW t \in Tables, NEW pos \in IntKeys, NEW n \in pos..MaxInt,
         NEW u, u = TabRemove(t, pos, n)
  PROVE  /\ u \in Tables
         /\ Hidden(t) \subseteq Hidden(u)
         /\ \A k \in Keys \ (pos..n) : Get(u, k) = Get(t, k)
         /\ Reads(u, n, Empty)
         /\ \A k \in pos..(n - 1) : Reads(u, k, Get(t, k + 1))
  <1> DEFINE N == n - pos
  <1>1. PICK f \in [0..N -> Tables] :
           /\ f[0] = t
           /\ \A i \in 1..N : f[i] = SetSlot(f[i - 1], pos + i - 1, Get(f[i - 1], pos + i))
           /\ TabRemove(t, pos, n) = SetSlot(f[N], n, Empty)
    BY RemoveLoop
  <1>2. /\ N \in Nat /\ pos \in 1..MaxInt /\ n \in 1..MaxInt /\ pos <= n /\ MaxInt \in Nat
        /\ 1..MaxInt \subseteq Keys /\ Empty \in Content
    BY TableConstants DEF IntKeys, Keys, Content
  <1> DEFINE Done(i) == /\ Hidden(t) \subseteq Hidden(f[i])
                        /\ \A k \in pos..(pos + i - 1) : Reads(f[i], k, Get(t, k + 1))
                        /\ \A k \in Keys \ (pos..(pos + i - 1)) : Get(f[i], k) = Get(t, k)
             S == {i \in 0..N : Done(i)}
  <1>3. 0 \in S
    BY <1>1, <1>2
  <1>4. ASSUME NEW j \in 0..(N - 1), j \in S PROVE j + 1 \in S
    <2> DEFINE x == f[j]
               key == pos + j
               val == Get(x, key + 1)
    <2>1. /\ j + 1 \in 1..N /\ j \in 0..N /\ (j + 1) - 1 = j
          /\ key \in 1..MaxInt /\ key + 1 \in 1..MaxInt /\ key = pos + (j + 1) - 1
          /\ key + 1 = pos + (j + 1) /\ key \in Keys /\ key + 1 \in Keys
          /\ key + 1 \notin pos..(pos + j - 1)
          /\ pos..(pos + (j + 1) - 1) = pos..(pos + j - 1) \cup {key}
          /\ key \notin pos..(pos + j - 1)
          /\ pos..(pos + j - 1) \subseteq Keys
      BY <1>2
    <2>2. x \in Tables /\ val \in Content /\ NormKey(key) = key
      BY <1>1, <2>1, GetType, Norm
    <2>3. Done(j)
      BY <1>4
    <2>4. f[j + 1] = SetSlot(x, key, val)
      BY <1>1, <2>1
    <2>5. val = Get(t, key + 1)
      BY <2>1, <2>3
    <2>6. Hidden(x) \subseteq Hidden(f[j + 1])
      BY <2>1, <2>2, <2>4, SetSlotReads
    <2>7. Reads(f[j + 1], key, Get(t, key + 1))
      BY <2>1, <2>2, <2>4, <2>5, SetSlotReads DEF Reads
    <2>8. \A k \in Keys \ {key} : Get(f[j + 1], k) = Get(x, k)
      BY <2>1, <2>2, <2>4, SetSlotReads
    <2> HIDE DEF x, key, val
    <2>9. \A k \in pos..(pos + j - 1) : Reads(f[j + 1], k, Get(t, k + 1))
      BY <2>1, <2>3, <2>6, <2>8 DEF Reads, x
    <2>10. \A k \in pos..(pos + (j + 1) - 1) : Reads(f[j + 1], k, Get(t, k + 1))
      BY <2>1, <2>7, <2>9
    <2>11. \A k \in Keys \ (pos..(pos + (j + 1) - 1)) : Get(f[j + 1], k) = Get(t, k)
      BY <2>1, <2>3, <2>8 DEF x
    <2>12. Hidden(t) \subseteq Hidden(f[j + 1])
      BY <2>3, <2>6 DEF x
    <2> QED
      BY <2>1, <2>10, <2>11, <2>12
  <1>5. N \in S
    <2>1. N \in Nat
      BY <1>2
    <2> HIDE DEF S, N
    <2>2. 0..N \subseteq S
      BY <1>3, <1>4, <2>1, BoundedInduction
    <2> QED
      BY <2>1, <2>2
  <1>6. Done(N) /\ pos + N - 1 = n - 1 /\ f[N] \in Tables
    BY <1>1, <1>2, <1>5
  <1> HIDE DEF N
  <1>7. n \in Keys /\ NormKey(n) = n /\ u = SetSlot(f[N], n, Empty)
    BY <1>1, <1>2, Norm
  <1>8. /\ u \in Tables /\ Hidden(f[N]) \subseteq Hidden(u) /\ Reads(u, n, Empty)
        /\ \A k \in Keys \ {n} : Get(u, k) = Get(f[N], k)
    BY <1>2, <1>6, <1>7, SetSlotReads DEF Reads
  <1>9. \A k \in pos..(n - 1) : k \in Keys \ {n}
    BY <1>2
  <1>10. \A k \in pos..(n - 1) : Reads(u, k, Get(t, k + 1))
    BY <1>6, <1>8, <1>9 DEF Reads
  <1>11. \A k \in Keys \ (pos..n) : k \in Keys \ (pos..(n - 1)) /\ k # n
    BY <1>2
  <1> QED
    BY <1>6, <1>8, <1>10, <1>11

(* table.remove on a map.                                                    *)
LEMMA RemoveMap ==
  ASSUME NEW m \in [Keys -> Content], NEW pos \in IntKeys, NEW n \in pos..MaxInt
  PROVE  MapRemove(m, pos, n)
           = [k \in Keys |-> IF k = n THEN Empty
                             ELSE IF k \in pos..(n - 1) THEN m[k + 1] ELSE m[k]]
  <1> DEFINE N == n - pos
             Shift(i) == [k \in Keys |-> IF k \in pos..(pos + i - 1) THEN m[k + 1] ELSE m[k]]
             Loop(g) == [i \in 0..N |-> IF i = 0 THEN m
                           ELSE MapSet(g[i - 1], pos + i - 1, MapGet(g[i - 1], pos + i))]
             moved == CHOOSE g : g = Loop(g)
             f == [i \in 0..N |-> Shift(i)]
  <1>1. /\ N \in Nat /\ pos \in 1..MaxInt /\ n \in 1..MaxInt /\ pos <= n /\ MaxInt \in Nat
        /\ 1..MaxInt \subseteq Keys
    BY TableConstants DEF IntKeys, Keys
  <1>2. Shift(0) = m
    BY <1>1
  <1>3. ASSUME NEW i \in 1..N
        PROVE  Shift(i) = MapSet(Shift(i - 1), pos + i - 1, MapGet(Shift(i - 1), pos + i))
    <2>1. /\ pos + i - 1 \in Keys /\ pos + i \in Keys
          /\ pos + i \notin pos..(pos + (i - 1) - 1)
          /\ pos..(pos + i - 1) = pos..(pos + (i - 1) - 1) \cup {pos + i - 1}
          /\ (pos + i - 1) + 1 = pos + i
      BY <1>1
    <2>2. MapGet(Shift(i - 1), pos + i) = m[pos + i]
      BY <2>1 DEF MapGet
    <2>3. MapSet(Shift(i - 1), pos + i - 1, m[pos + i])
            = [Shift(i - 1) EXCEPT ![pos + i - 1] = m[pos + i]]
      BY DEF MapSet
    <2>4. ASSUME NEW k \in Keys
          PROVE  Shift(i)[k] = [Shift(i - 1) EXCEPT ![pos + i - 1] = m[pos + i]][k]
      BY <2>1
    <2>5. Shift(i) = [Shift(i - 1) EXCEPT ![pos + i - 1] = m[pos + i]]
      BY <2>4
    <2> HIDE DEF Shift
    <2> QED
      BY <2>2, <2>3, <2>5
  <1>4. f = Loop(f)
    <2>1. \A i \in 1..N : i - 1 \in 0..N
      BY <1>1
    <2>2. \A i \in 1..N : f[i - 1] = Shift(i - 1)
      <3> HIDE DEF Shift
      <3> QED
        BY <2>1
    <2>3. ASSUME NEW i \in 0..N
          PROVE  Shift(i) = IF i = 0 THEN m
                     ELSE MapSet(f[i - 1], pos + i - 1, MapGet(f[i - 1], pos + i))
      <3>1. i = 0 \/ i \in 1..N
        BY <1>1
      <3> HIDE DEF Shift, N, f
      <3> QED
        BY <1>2, <1>3, <2>2, <3>1
    <2> DEFINE h == f
    <2>4. \A i \in 0..N : Shift(i) = IF i = 0 THEN m
                     ELSE MapSet(h[i - 1], pos + i - 1, MapGet(h[i - 1], pos + i))
      <3> HIDE DEF Shift, N, f
      <3> QED
        BY <2>3
    <2>5. f = Loop(h)
      <3> HIDE DEF h, Shift
      <3> QED
        BY <2>4
    <2> QED
      BY <2>5
  <1>5. moved = Loop(moved)
    <2> HIDE DEF Loop, f
    <2> QED
      BY <1>4
  <1> HIDE DEF moved
  <1>6. \A i \in 0..N : moved[i] = IF i = 0 THEN m
                     ELSE MapSet(moved[i - 1], pos + i - 1, MapGet(moved[i - 1], pos + i))
    BY <1>5
  <1> DEFINE S == {i \in 0..N : moved[i] = Shift(i)}
  <1>7. N \in S
    <2>1. 0 \in S
      <3>1. 0 \in 0..N
        BY <1>1
      <3> HIDE DEF Shift, N
      <3> QED
        BY <1>2, <1>6, <3>1
    <2>2. ASSUME NEW j \in 0..(N - 1), j \in S PROVE j + 1 \in S
      <3>1. j + 1 \in 0..N /\ j + 1 \in 1..N /\ j + 1 # 0 /\ (j + 1) - 1 = j
        BY <1>1
      <3>2. moved[j] = Shift(j)
        <4> HIDE DEF Shift
        <4> QED
          BY <2>2
      <3> HIDE DEF Shift, N
      <3>3. moved[j + 1] = MapSet(moved[j], pos + (j + 1) - 1, MapGet(moved[j], pos + (j + 1)))
        BY <1>6, <3>1
      <3>4. Shift(j + 1) = MapSet(Shift(j), pos + (j + 1) - 1, MapGet(Shift(j), pos + (j + 1)))
        BY <1>3, <3>1
      <3> QED
        BY <3>1, <3>2, <3>3, <3>4
    <2>3. N \in Nat
      BY <1>1
    <2> HIDE DEF S, N
    <2> QED
      BY <2>1, <2>2, <2>3, BoundedInduction
  <1>8. moved[N] = Shift(N)
    <2> HIDE DEF Shift
    <2> QED
      BY <1>7
  <1>9. MapRemove(m, pos, n) = [moved[N] EXCEPT ![n] = Empty]
    BY <1>1 DEF MapRemove, RemoveWith, MapSet, moved
  <1>10. pos + N - 1 = n - 1
    BY <1>1
  <1>11. Shift(N) = [k \in Keys |-> IF k \in pos..(n - 1) THEN m[k + 1] ELSE m[k]]
    <2> HIDE DEF N
    <2> QED
      BY <1>10
  <1> QED
    BY <1>8, <1>9, <1>11
-----------------------------------------------------------------------------
(* The sweep of a weak-valued table.                                         *)

(* swap_remove and the index of the entry that was moved: one key is gone,   *)
(* every other is found where the index says.                                *)
LEMMA SwapRemoveReads ==
  ASSUME NEW t \in Tables, NEW k \in Keys, BucketOf(t, k) # 0
  PROVE  /\ SwapRemove(t, k) \in Tables
         /\ SwapRemove(t, k).array = t.array
         /\ BucketOf(SwapRemove(t, k), k) = 0
         /\ \A j : j # k => /\ HashGet(SwapRemove(t, k), j) = HashGet(t, j)
                            /\ BucketOf(SwapRemove(t, k), j) # 0 <=> BucketOf(t, j) # 0
  <1> DEFINE u == SwapRemove(t, k)
             i == BucketOf(t, k)
             n == Len(t.buckets)
             c == [t.buckets EXCEPT ![i] = t.buckets[n]]
             b == SubSeq(c, 1, n - 1)
  <1>1. i \in 1..n /\ t.buckets[i].k = k /\ n \in Nat \ {0}
    BY Bucket, TableShape
  <1>2. t.buckets \in [1..n -> Entry]
    BY TableShape
  <1>3. c \in [1..n -> Entry] /\ \A j \in 1..n : c[j] = t.buckets[IF j = i THEN n ELSE j]
    BY <1>1, <1>2
  <1>4. /\ b \in Seq(Entry) /\ DOMAIN b = 1..(n - 1)
        /\ \A j \in 1..(n - 1) : b[j] = t.buckets[IF j = i THEN n ELSE j]
    <2>1. c \in Seq(Entry) /\ Len(c) = n
      <3> HIDE DEF c
      <3> QED
        BY <1>1, <1>3
    <2>2. /\ Len(b) = n - 1 /\ b \in Seq(Entry) /\ \A j \in 1..(n - 1) : b[j] = c[j]
      <3> HIDE DEF c
      <3> QED
        BY <1>1, <2>1
    <2> HIDE DEF b, c
    <2> QED
      BY <1>1, <1>3, <2>2
  <1>5. u = [array |-> t.array, buckets |-> b]
    <2>1. u = [t EXCEPT !.buckets = b]
      BY DEF SwapRemove
    <2> HIDE DEF u, b
    <2> QED
      BY <2>1, TableShape
  <1> HIDE DEF u, b, c
  <1>6. \A j, m \in 1..n : t.buckets[j].k = t.buckets[m].k => j = m
    BY TableShape DEF Unique
  <1>7. u \in Tables
    <2>1. Unique(u)
      <3> SUFFICES ASSUME NEW j \in 1..(n - 1), NEW m \in 1..(n - 1), b[j].k = b[m].k
                   PROVE  j = m
        BY <1>4, <1>5 DEF Unique
      <3> DEFINE jj == IF j = i THEN n ELSE j
                 mm == IF m = i THEN n ELSE m
      <3>1. jj \in 1..n /\ mm \in 1..n
        BY <1>1
      <3>2. t.buckets[jj].k = t.buckets[mm].k
        BY <1>4
      <3>3. jj = mm
        <4> HIDE DEF jj, mm
        <4> QED
          BY <1>6, <3>1, <3>2
      <3> QED
        BY <1>1, <3>3
    <2> QED
      BY <1>4, <1>5, <2>1, TableShape DEF Tables
  <1>8. BucketOf(u, k) = 0
    <2>1. \A j \in 1..(n - 1) : (IF j = i THEN n ELSE j) \in 1..n /\ (IF j = i THEN n ELSE j) # i
      BY <1>1
    <2>2. \A j \in 1..n : j # i => t.buckets[j].k # k
      BY <1>1, <1>6
    <2>3. \A j \in DOMAIN u.buckets : u.buckets[j].k # k
      BY <1>4, <1>5, <2>1, <2>2
    <2> QED
      BY <1>7, <2>3, BucketOfNone
  <1>9. ASSUME NEW j, j # k
        PROVE  /\ HashGet(u, j) = HashGet(t, j)
               /\ BucketOf(u, j) # 0 <=> BucketOf(t, j) # 0
    <2>1. CASE BucketOf(t, j) = 0
      <3>1. \A m \in 1..n : t.buckets[m].k # j
        BY <2>1, Bucket, TableShape
      <3>2. \A m \in 1..(n - 1) : (IF m = i THEN n ELSE m) \in 1..n
        BY <1>1
      <3>3. \A m \in DOMAIN u.buckets : u.buckets[m].k # j
        BY <1>4, <1>5, <3>1, <3>2
      <3>4. BucketOf(u, j) = 0
        BY <1>7, <3>3, BucketOfNone
      <3> QED
        BY <2>1, <3>4 DEF HashGet
    <2>2. CASE BucketOf(t, j) # 0
      <3> DEFINE m == BucketOf(t, j)
                 x == IF m = n THEN i ELSE m
      <3>1. m \in 1..n /\ t.buckets[m].k = j /\ m # i
        BY <1>1, <1>9, <2>2, Bucket, TableShape
      <3>2. x \in 1..(n - 1) /\ (IF x = i THEN n ELSE x) = m
        BY <1>1, <3>1
      <3>3. b[x] = t.buckets[m] /\ x \in DOMAIN u.buckets /\ u.buckets[x] = t.buckets[m]
        BY <1>4, <1>5, <3>2
      <3>4. BucketOf(u, j) = x
        <4> HIDE DEF x, m
        <4> QED
          BY <1>7, <3>1, <3>3, BucketOfFound
      <3>5. x # 0
        BY <3>2
      <3> QED
        BY <2>2, <3>3, <3>4, <3>5 DEF HashGet
    <2> QED
      BY <2>1, <2>2
  <1> QED
    BY <1>5, <1>7, <1>8, <1>9 DEF u

(* clear_weak_tables: the dead values are gone from both parts, and nothing  *)
(* else is.                                                                  *)
Emptied(t, dead) ==
    [array |-> [i \in 1..Len(t.array) |-> IF t.array[i] \in dead THEN Empty ELSE t.array[i]],
     buckets |-> t.buckets]

LEMMA SweepReads ==
  ASSUME NEW t \in Tables, NEW dead \in SUBSET Values,
         NEW u, u = ClearWeakValues(t, dead)
  PROVE  /\ u \in Tables
         /\ u.array = Emptied(t, dead).array
         /\ \A k \in Keys : HashGet(u, k) = IF HashGet(t, k) \in dead THEN Empty
                                            ELSE HashGet(t, k)
  <1> DEFINE a == Emptied(t, dead)
             N == Len(t.buckets)
             Doomed(i) == t.buckets[i].v \in dead
             key(i) == t.buckets[i].k
             w == [p \in Tables \X (1..N) |->
                     IF Doomed(p[2]) /\ BucketOf(p[1], key(p[2])) # 0
                     THEN SwapRemove(p[1], key(p[2])) ELSE p[1]]
  <1>1. N \in Nat /\ \A i \in 1..N : key(i) \in Keys
    BY TableShape
  <1>2. a \in Tables /\ a.buckets = t.buckets /\ Len(a.array) = Len(t.array)
    <2> DEFINE s == [i \in 1..Len(t.array) |-> IF t.array[i] \in dead THEN Empty ELSE t.array[i]]
    <2>1. s \in [1..Len(t.array) -> Content]
      BY TableShape DEF Content
    <2>2. s \in Seq(Content) /\ Len(s) = Len(t.array)
      <3> HIDE DEF s
      <3> QED
        BY <2>1, TableShape
    <2>3. a = [array |-> s, buckets |-> t.buckets]
      BY DEF Emptied
    <2> HIDE DEF s, a
    <2> QED
      BY <2>2, <2>3, TableShape DEF Tables, Unique
  <1>3. \A x \in Tables, i \in 1..N :
          w[<<x, i>>] = IF Doomed(i) /\ BucketOf(x, key(i)) # 0 THEN SwapRemove(x, key(i)) ELSE x
    OBVIOUS
  <1>4. w \in Round(Tables, N)
    <2>1. \A x \in Tables, i \in 1..N :
            (IF Doomed(i) /\ BucketOf(x, key(i)) # 0 THEN SwapRemove(x, key(i)) ELSE x) \in Tables
      BY <1>1, SwapRemoveReads
    <2>2. \A p \in Tables \X (1..N) : w[p] \in Tables
      BY <2>1
    <2>3. w = [p \in Tables \X (1..N) |-> w[p]]
      OBVIOUS
    <2> HIDE DEF w, N
    <2> QED
      BY <2>2, <2>3 DEF Round
  <1>5. PICK f \in [0..N -> Tables] :
          f[0] = a /\ \A i \in 1..N : f[i] = w[<<f[i - 1], i>>]
    <2> HIDE DEF w, N, a
    <2> QED
      BY <1>1, <1>2, <1>4, Iteration
  <1>6. /\ \A i \in 1..N : f[i] =
             IF Doomed(i) /\ BucketOf(f[i - 1], key(i)) # 0
             THEN SwapRemove(f[i - 1], key(i)) ELSE f[i - 1]
        /\ f[0] = a
    <2>1. \A i \in 1..N : f[i - 1] \in Tables
      BY <1>1
    <2> HIDE DEF w, N
    <2> QED
      BY <1>3, <1>5, <2>1
  <1> HIDE DEF w
  (* What has been done after i rounds: the doomed among the first i are gone. *)
  <1> DEFINE Gone(i) == {key(j) : j \in {m \in 1..i : Doomed(m)}}
             Done(i) == /\ f[i].array = a.array
                        /\ \A k : k \in Gone(i) => BucketOf(f[i], k) = 0
                        /\ \A k : k \notin Gone(i) =>
                             /\ HashGet(f[i], k) = HashGet(t, k)
                             /\ BucketOf(f[i], k) # 0 <=> BucketOf(t, k) # 0
             S == {i \in 0..N : Done(i)}
  <1>7. \A i, j \in 1..N : key(i) = key(j) => i = j
    BY TableShape DEF Unique
  <1>8. \A i \in 1..N : BucketOf(t, key(i)) = i
    BY BucketOfFound, TableShape
  <1>9. 0 \in S
    <2>1. Gone(0) = {}
      OBVIOUS
    <2>2. \A k : BucketOf(a, k) = BucketOf(t, k) /\ HashGet(a, k) = HashGet(t, k)
      BY <1>2 DEF BucketOf, HashGet
    <2> HIDE DEF Gone, a
    <2> QED
      BY <1>1, <1>6, <2>1, <2>2
  <1>10. ASSUME NEW i \in 0..(N - 1), i \in S
         PROVE  /\ i + 1 \in S
                /\ Doomed(i + 1) => BucketOf(f[i], key(i + 1)) # 0
    <2>1. i + 1 \in 1..N /\ i + 1 \in 0..N /\ (i + 1) - 1 = i /\ i \in 0..N /\ i + 1 # 0
      BY <1>1
    <2>2. Done(i)
      BY <1>10
    <2>3. f[i] \in Tables /\ key(i + 1) \in Keys
      BY <1>1, <2>1
    <2>4. Gone(i + 1) = Gone(i) \cup (IF Doomed(i + 1) THEN {key(i + 1)} ELSE {})
      <3>1. {m \in 1..(i + 1) : Doomed(m)} =
              {m \in 1..i : Doomed(m)} \cup (IF Doomed(i + 1) THEN {i + 1} ELSE {})
        BY <2>1
      <3> HIDE DEF key, Doomed
      <3> QED
        BY <3>1
    <2>5. key(i + 1) \notin Gone(i)
      BY <1>7, <2>1
    <2>6. BucketOf(f[i], key(i + 1)) # 0
      BY <1>8, <2>1, <2>2, <2>5
    <2> HIDE DEF Gone, Doomed, key
    <2>7. CASE Doomed(i + 1)
      <3>1. f[i + 1] = SwapRemove(f[i], key(i + 1))
        BY <1>6, <2>1, <2>6, <2>7
      <3>2. /\ f[i + 1].array = f[i].array
            /\ BucketOf(f[i + 1], key(i + 1)) = 0
            /\ \A j : j # key(i + 1) =>
                 /\ HashGet(f[i + 1], j) = HashGet(f[i], j)
                 /\ BucketOf(f[i + 1], j) # 0 <=> BucketOf(f[i], j) # 0
        BY <2>3, <2>6, <3>1, SwapRemoveReads
      <3>3. Gone(i + 1) = Gone(i) \cup {key(i + 1)}
        BY <2>4, <2>7
      <3>4. Done(i + 1)
        BY <2>2, <3>2, <3>3
      <3> QED
        BY <2>1, <2>6, <3>4
    <2>8. CASE ~Doomed(i + 1)
      <3>1. f[i + 1] = f[i] /\ Gone(i + 1) = Gone(i)
        BY <1>6, <2>1, <2>4, <2>8
      <3>2. Done(i + 1)
        BY <2>2, <3>1
      <3> QED
        BY <2>1, <2>8, <3>2
    <2> QED
      BY <2>7, <2>8
  <1>11. 0..N \subseteq S
    <2> HIDE DEF S, N
    <2> QED
      BY <1>1, <1>9, <1>10, BoundedInduction
  (* The recursive function of the code is this one.                         *)
  <1> DEFINE Loop(g) == [i \in 0..N |->
                IF i = 0 THEN a
                ELSE IF Doomed(i) THEN SwapRemove(g[i - 1], key(i)) ELSE g[i - 1]]
             cleared == CHOOSE g : g = Loop(g)
  <1>12. f = Loop(f)
    <2>1. ASSUME NEW i \in 1..N, Doomed(i) PROVE BucketOf(f[i - 1], key(i)) # 0
      <3>1. i - 1 \in 0..(N - 1) /\ i - 1 \in 0..N /\ (i - 1) + 1 = i
        BY <1>1
      <3>2. i - 1 \in S
        <4> HIDE DEF S
        <4> QED
          BY <1>11, <3>1
      <3> HIDE DEF S, Doomed, key, N
      <3> QED
        BY <1>10, <2>1, <3>1, <3>2
    <2>2. \A i \in 0..N : i # 0 => i \in 1..N
      BY <1>1
    <2> HIDE DEF Doomed, key, a
    <2>3. \A i \in 0..N :
            f[i] = IF i = 0 THEN a
                   ELSE IF Doomed(i) THEN SwapRemove(f[i - 1], key(i)) ELSE f[i - 1]
      BY <1>6, <2>1, <2>2
    <2> QED
      BY <2>3
  <1>13. cleared = Loop(cleared)
    <2> HIDE DEF Loop
    <2> QED
      BY <1>12
  <1>14. u = cleared[N]
    <2>1. a = [t EXCEPT !.array = [i \in DOMAIN @ |-> IF @[i] \in dead THEN Empty ELSE @[i]]]
      <3> DEFINE s == [i \in DOMAIN t.array |->
                         IF t.array[i] \in dead THEN Empty ELSE t.array[i]]
      <3>1. a = [array |-> s, buckets |-> t.buckets]
        BY TableShape DEF Emptied
      <3> HIDE DEF s, a
      <3>2. a = [t EXCEPT !.array = s]
        BY <3>1, TableShape
      <3> QED
        BY <3>2 DEF s
    <2> HIDE DEF a
    <2> QED
      BY <2>1 DEF ClearWeakValues
  <1> HIDE DEF cleared, a
  <1>15. \A i \in 0..N : cleared[i] =
           IF i = 0 THEN a
           ELSE IF Doomed(i) THEN SwapRemove(cleared[i - 1], key(i)) ELSE cleared[i - 1]
    BY <1>13
  <1>16. \A i \in 0..N : f[i] =
           IF i = 0 THEN a
           ELSE IF Doomed(i) THEN SwapRemove(f[i - 1], key(i)) ELSE f[i - 1]
    BY <1>12
  <1> HIDE DEF Loop
  <1>17. cleared[N] = f[N]
    <2> DEFINE E == {i \in 0..N : cleared[i] = f[i]}
    <2> HIDE DEF Doomed, key, N
    <2>1. 0 \in E
      BY <1>1, <1>15, <1>16
    <2>2. ASSUME NEW i \in 0..(N - 1), i \in E PROVE i + 1 \in E
      <3>1. i + 1 \in 0..N /\ i + 1 # 0 /\ (i + 1) - 1 = i
        BY <1>1
      <3> QED
        BY <1>15, <1>16, <2>2, <3>1
    <2> HIDE DEF E
    <2>3. 0..N \subseteq E
      BY <1>1, <2>1, <2>2, BoundedInduction
    <2> QED
      BY <1>1, <2>3 DEF E
  <1>18. f[N] \in Tables /\ Done(N)
    <2>1. N \in 0..N
      BY <1>1
    <2>2. N \in S
      <3> HIDE DEF S, N
      <3> QED
        BY <1>11, <2>1
    <2>3. Done(N)
      <3> HIDE DEF N, Gone
      <3> QED
        BY <2>2
    <2> HIDE DEF S, N, Gone
    <2> QED
      BY <2>1, <2>3
  <1>19. ASSUME NEW k \in Keys
         PROVE  HashGet(f[N], k) = IF HashGet(t, k) \in dead THEN Empty ELSE HashGet(t, k)
    <2>1. CASE k \in Gone(N)
      <3>1. PICK j \in 1..N : Doomed(j) /\ k = key(j)
        BY <2>1
      <3>2. HashGet(t, k) \in dead
        BY <1>8, <3>1 DEF HashGet
      <3> HIDE DEF Gone
      <3>3. HashGet(f[N], k) = Empty
        BY <1>18, <2>1 DEF HashGet
      <3> QED
        BY <3>2, <3>3
    <2>2. CASE k \notin Gone(N)
      <3>1. HashGet(t, k) \notin dead
        <4>1. CASE BucketOf(t, k) = 0
          BY <4>1, TableConstants DEF HashGet
        <4>2. CASE BucketOf(t, k) # 0
          <5>1. BucketOf(t, k) \in 1..N /\ key(BucketOf(t, k)) = k
            BY <4>2, Bucket, TableShape
          <5>2. ~Doomed(BucketOf(t, k))
            BY <2>2, <5>1
          <5> QED
            BY <4>2, <5>2 DEF HashGet
        <4> QED
          BY <4>1, <4>2
      <3> HIDE DEF Gone
      <3> QED
        BY <1>18, <2>2, <3>1
    <2> QED
      BY <2>1, <2>2
  <1> QED
    BY <1>14, <1>17, <1>18, <1>19 DEF a
-----------------------------------------------------------------------------
(* The length operator.                                                      *)

LEMMA MinOf ==
  ASSUME NEW S, S \subseteq Nat, S # {}
  PROVE  Min(S) \in S /\ \A y \in S : Min(S) <= y
  <1> DEFINE R == OpToRel(<, Nat)
  <1>1. \E x \in S : \A y \in S : ~(<<y, x>> \in R)
    <2>1. IsWellFoundedOn(R, Nat)
      BY NatLessThanWellFounded
    <2> HIDE DEF R
    <2> QED
      BY <2>1, WFMin
  <1>2. \E x \in S : \A y \in S : x <= y
    <2>1. PICK x \in S : \A y \in S : ~(<<y, x>> \in R)
      BY <1>1
    <2>2. \A y \in S : x <= y
      <3>1. \A y \in S : ~(y < x)
        BY <2>1 DEF OpToRel
      <3> QED
        BY <3>1
    <2> QED
      BY <2>2
  <1> QED
    BY <1>2 DEF Min

(* The bisection finds a border between lo and hi.                           *)
LEMMA BisectBorder ==
  ASSUME NEW S, NEW lo \in Nat, NEW hi \in Nat, lo < hi, hi \notin S
  PROVE  /\ Bisect(S, lo, hi) \in lo..(hi - 1)
         /\ Bisect(S, lo, hi) = lo \/ Bisect(S, lo, hi) \in S
         /\ Bisect(S, lo, hi) + 1 \notin S
  <1> DEFINE A == lo..hi
             D == A \X A
             N == hi - lo
             mid(p) == (p[1] + p[2]) \div 2
             rank == [p \in D |-> IF p[1] < p[2] THEN p[2] - p[1] ELSE 0]
             val(g, p) == IF p[2] - p[1] <= 1 THEN p[1]
                          ELSE IF mid(p) \in S THEN g[<<mid(p), p[2]>>] ELSE g[<<p[1], mid(p)>>]
             w == [q \in [D -> A] \X D |-> val(q[1], q[2])]
  <1>1. N \in Nat
    OBVIOUS
  <1>2. \A p \in D : p[1] \in A /\ p[2] \in A /\ p = <<p[1], p[2]>>
    OBVIOUS
  <1>3. ASSUME NEW p \in D, ~(p[2] - p[1] <= 1)
        PROVE  /\ mid(p) \in A /\ p[1] < mid(p) /\ mid(p) < p[2]
               /\ <<mid(p), p[2]>> \in D /\ <<p[1], mid(p)>> \in D
    <2>1. p[1] \in lo..hi /\ p[2] \in lo..hi
      BY <1>2
    <2>2. mid(p) \in Int /\ p[1] < mid(p) /\ mid(p) < p[2]
      BY <1>3, <2>1
    <2>3. mid(p) \in A
      BY <2>1, <2>2
    <2> HIDE DEF mid, A
    <2> QED
      BY <1>2, <2>2, <2>3
  <1>4. rank \in Ranking(D, N)
    <2>1. \A p \in D : (IF p[1] < p[2] THEN p[2] - p[1] ELSE 0) \in 0..N
      BY <1>2
    <2> HIDE DEF D, N
    <2> QED
      BY <2>1 DEF Ranking
  <1>5. w \in Recipe(D, A)
    <2>1. \A g \in [D -> A], p \in D : val(g, p) \in A
      <3> HIDE DEF mid, D, A
      <3> QED
        BY <1>2, <1>3
    <2>2. \A q \in [D -> A] \X D : w[q] \in A
      <3> HIDE DEF val, D, A
      <3> QED
        BY <2>1
    <2>3. w = [q \in [D -> A] \X D |-> w[q]]
      OBVIOUS
    <2> HIDE DEF w, D, A
    <2> QED
      BY <2>2, <2>3 DEF Recipe
  <1>6. \A g \in [D -> A], p \in D : w[<<g, p>>] = val(g, p)
    <2> HIDE DEF val, D, A
    <2> QED
      OBVIOUS
  <1>7. ASSUME NEW g \in [D -> A], NEW h \in [D -> A], NEW p \in D,
               \A y \in D : rank[y] < rank[p] => g[y] = h[y]
        PROVE  w[<<g, p>>] = w[<<h, p>>]
    <2>1. CASE p[2] - p[1] <= 1
      <3>1. val(g, p) = p[1] /\ val(h, p) = p[1]
        BY <2>1
      <3> HIDE DEF w, val, D, A
      <3> QED
        BY <1>6, <3>1
    <2>2. CASE ~(p[2] - p[1] <= 1)
      <3>1. /\ <<mid(p), p[2]>> \in D /\ <<p[1], mid(p)>> \in D
            /\ p[1] < mid(p) /\ mid(p) < p[2] /\ mid(p) \in Int
            /\ p[1] \in Int /\ p[2] \in Int
        BY <1>2, <1>3, <2>2
      <3>2. /\ rank[<<mid(p), p[2]>>] = p[2] - mid(p)
            /\ rank[<<p[1], mid(p)>>] = mid(p) - p[1]
            /\ rank[p] = p[2] - p[1]
        <4> HIDE DEF mid, D, A
        <4> QED
          BY <2>2, <3>1
      <3>3. rank[<<mid(p), p[2]>>] < rank[p] /\ rank[<<p[1], mid(p)>>] < rank[p]
        <4> HIDE DEF mid, rank
        <4> QED
          BY <3>1, <3>2
      <3>4. /\ g[<<mid(p), p[2]>>] = h[<<mid(p), p[2]>>]
            /\ g[<<p[1], mid(p)>>] = h[<<p[1], mid(p)>>]
        <4> HIDE DEF mid, rank, D, A
        <4> QED
          BY <1>7, <3>1, <3>3
      <3> HIDE DEF w, D, A, mid
      <3> QED
        BY <1>6, <3>4
    <2> QED
      BY <2>1, <2>2
  <1>8. PICK f \in [D -> A] : \A p \in D : f[p] = w[<<f, p>>]
    <2>1. A # {}
      OBVIOUS
    <2> HIDE DEF w, rank, D, A, N
    <2> QED
      BY <1>1, <1>4, <1>5, <1>7, <2>1, Recursion
  <1> DEFINE Loop(g) == [p \in D |-> val(g, p)]
             found == CHOOSE g : g = Loop(g)
  <1>9. f = Loop(f)
    <2>1. \A p \in D : f[p] = val(f, p)
      <3> HIDE DEF w, val, D, A
      <3> QED
        BY <1>6, <1>8
    <2> HIDE DEF val, D, A
    <2> QED
      BY <2>1
  <1>10. found = Loop(found)
    <2> HIDE DEF Loop
    <2> QED
      BY <1>9
  <1>11. Bisect(S, lo, hi) = found[<<lo, hi>>]
    BY DEF Bisect
  <1> HIDE DEF found
  <1>12. \A p \in D : found[p] = val(found, p)
    <2> HIDE DEF val, D
    <2> QED
      BY <1>10
  <1> HIDE DEF Loop, w, rank
  <1> DEFINE Right(p) == /\ found[p] \in lo..(hi - 1)
                         /\ found[p] = lo \/ found[p] \in S
                         /\ found[p] + 1 \notin S
             Ask(p) == p[1] < p[2] /\ (p[1] = lo \/ p[1] \in S) /\ p[2] \notin S
             E == {n \in 0..N : \A p \in D : Ask(p) /\ p[2] - p[1] <= n + 1 => Right(p)}
  <1>13. ASSUME NEW p \in D, Ask(p), p[2] - p[1] <= 1
         PROVE  Right(p)
    <2>1. found[p] = p[1]
      BY <1>12, <1>13
    <2>2. p[1] \in lo..hi /\ p[2] \in lo..hi
      BY <1>2
    <2>3. p[2] = p[1] + 1
      BY <1>13, <2>2
    <2> QED
      BY <1>13, <2>1, <2>2, <2>3
  <1>14. 0 \in E
    <2>1. 0 \in 0..N
      BY <1>1
    <2> HIDE DEF Right, Ask, D, N
    <2> QED
      BY <1>13, <2>1
  <1>15. ASSUME NEW n \in 0..(N - 1), n \in E PROVE n + 1 \in E
    <2>1. n + 1 \in 0..N /\ n \in Nat
      BY <1>1
    <2>2. ASSUME NEW p \in D, Ask(p), p[2] - p[1] <= n + 2 PROVE Right(p)
      <3>1. CASE p[2] - p[1] <= 1
        <4> HIDE DEF Right, Ask, D
        <4> QED
          BY <1>13, <2>2, <3>1
      <3>2. CASE ~(p[2] - p[1] <= 1)
        <4>1. /\ <<mid(p), p[2]>> \in D /\ <<p[1], mid(p)>> \in D
              /\ p[1] < mid(p) /\ mid(p) < p[2] /\ mid(p) \in Int
              /\ p[1] \in Int /\ p[2] \in Int
          BY <1>2, <1>3, <3>2
        <4>2. \A q \in D : Ask(q) /\ q[2] - q[1] <= n + 1 => Right(q)
          <5> HIDE DEF Right, Ask, D, N
          <5> QED
            BY <1>15
        <4> HIDE DEF mid, D, A, N
        <4>3. CASE mid(p) \in S
          <5>1. found[p] = found[<<mid(p), p[2]>>]
            BY <1>12, <3>2, <4>3
          <5>2. Ask(<<mid(p), p[2]>>) /\ p[2] - mid(p) <= n + 1
            BY <2>1, <2>2, <4>1, <4>3
          <5>3. Right(<<mid(p), p[2]>>)
            <6> HIDE DEF Right, Ask
            <6> QED
              BY <4>1, <4>2, <5>2
          <5> QED
            BY <5>1, <5>3
        <4>4. CASE mid(p) \notin S
          <5>1. found[p] = found[<<p[1], mid(p)>>]
            BY <1>12, <3>2, <4>4
          <5>2. Ask(<<p[1], mid(p)>>) /\ mid(p) - p[1] <= n + 1
            BY <2>1, <2>2, <4>1, <4>4
          <5>3. Right(<<p[1], mid(p)>>)
            <6> HIDE DEF Right, Ask
            <6> QED
              BY <4>1, <4>2, <5>2
          <5> QED
            BY <5>1, <5>3
        <4> QED
          BY <4>3, <4>4
      <3> QED
        BY <3>1, <3>2
    <2>3. n + 1 + 1 = n + 2
      BY <2>1
    <2> HIDE DEF Right, Ask, D, N
    <2> QED
      BY <2>1, <2>2, <2>3
  <1>16. 0..N \subseteq E
    <2> HIDE DEF E, N
    <2> QED
      BY <1>1, <1>14, <1>15, BoundedInduction
  <1>17. Right(<<lo, hi>>)
    <2>1. N \in E /\ <<lo, hi>> \in D
      <3>1. N \in 0..N /\ lo \in lo..hi /\ hi \in lo..hi
        OBVIOUS
      <3> HIDE DEF E, N
      <3> QED
        BY <1>16, <3>1
    <2>2. Ask(<<lo, hi>>) /\ hi - lo <= N + 1
      OBVIOUS
    <2>3. \A q \in D : Ask(q) /\ q[2] - q[1] <= N + 1 => Right(q)
      <3> HIDE DEF Right, Ask, D, N
      <3> QED
        BY <2>1
    <2> HIDE DEF Right, Ask, D, N
    <2> QED
      BY <2>1, <2>2, <2>3
  <1> QED
    BY <1>11, <1>17
(* The keys that have a bucket.                                              *)
InHash(t) == {k \in IntKeys : BucketOf(t, k) # 0}

(* The doubling search and the bisection behind it find a border of the keys *)
(* that have a bucket.                                                       *)
LEMMA HashBorder ==
  ASSUME NEW t, NEW asize \in 0..MaxInt
  PROVE  /\ HashBoundary(t, asize) \in asize..MaxInt
         /\ HashBoundary(t, asize) = asize \/ HashBoundary(t, asize) \in InHash(t)
         /\ HashBoundary(t, asize) + 1 \notin InHash(t)
  <1> DEFINE H == InHash(t)
             A == 0..MaxInt
             B == 0..2 * MaxInt + 1
             D == A \X B
             N == 2 * MaxInt + 1
             V == {Bisect(H, i, j) : i \in A, j \in B}
             rank == [p \in D |-> N - p[2]]
             val(g, p) == IF p[2] \in H THEN g[<<p[2], 2 * p[2]>>] ELSE Bisect(H, p[1], p[2])
             w == [q \in [D -> V] \X D |-> val(q[1], q[2])]
  <1>1. MaxInt \in Nat \ {0} /\ N \in Nat /\ H \subseteq 1..MaxInt
    BY TableConstants DEF InHash, IntKeys
  <1>2. \A p \in D : p[1] \in A /\ p[2] \in B /\ p = <<p[1], p[2]>>
    OBVIOUS
  <1>3. ASSUME NEW p \in D, p[2] \in H
        PROVE  <<p[2], 2 * p[2]>> \in D /\ p[2] < 2 * p[2] /\ p[2] \in 1..MaxInt
    <2>1. p[2] \in 1..MaxInt /\ 2 * p[2] \in B /\ p[2] \in A
      BY <1>1, <1>2, <1>3
    <2> HIDE DEF A, B
    <2> QED
      BY <2>1
  <1>4. rank \in Ranking(D, N)
    <2>1. \A p \in D : N - p[2] \in 0..N
      BY <1>1, <1>2
    <2> HIDE DEF D, N
    <2> QED
      BY <2>1 DEF Ranking
  <1>5. w \in Recipe(D, V)
    <2>1. \A p \in D : Bisect(H, p[1], p[2]) \in V
      BY <1>2
    <2>2. \A g \in [D -> V], p \in D : val(g, p) \in V
      <3> HIDE DEF D, V, H
      <3> QED
        BY <1>3, <2>1
    <2>3. \A q \in [D -> V] \X D : w[q] \in V
      <3> HIDE DEF val, D, V
      <3> QED
        BY <2>2
    <2>4. w = [q \in [D -> V] \X D |-> w[q]]
      OBVIOUS
    <2> HIDE DEF w, D, V
    <2> QED
      BY <2>3, <2>4 DEF Recipe
  <1>6. \A g \in [D -> V], p \in D : w[<<g, p>>] = val(g, p)
    <2> HIDE DEF val, D, V
    <2> QED
      OBVIOUS
  <1>7. ASSUME NEW g \in [D -> V], NEW h \in [D -> V], NEW p \in D,
               \A y \in D : rank[y] < rank[p] => g[y] = h[y]
        PROVE  w[<<g, p>>] = w[<<h, p>>]
    <2>1. ASSUME p[2] \in H PROVE g[<<p[2], 2 * p[2]>>] = h[<<p[2], 2 * p[2]>>]
      <3>1. /\ <<p[2], 2 * p[2]>> \in D /\ p[2] < 2 * p[2] /\ p[2] \in Int
            /\ N \in Int
        BY <1>1, <1>3, <2>1
      <3>2. rank[<<p[2], 2 * p[2]>>] < rank[p]
        <4> HIDE DEF N, D
        <4> QED
          BY <3>1
      <3> HIDE DEF rank, D, V
      <3> QED
        BY <1>7, <3>1, <3>2
    <2>2. val(g, p) = val(h, p)
      <3> HIDE DEF H, D, V
      <3> QED
        BY <2>1
    <2> HIDE DEF w, val, D, V
    <2> QED
      BY <1>6, <2>2
  <1>8. PICK f \in [D -> V] : \A p \in D : f[p] = w[<<f, p>>]
    <2>1. V # {}
      <3>1. Bisect(H, 0, 0) \in V
        BY <1>1
      <3> HIDE DEF V
      <3> QED
        BY <3>1
    <2> HIDE DEF w, rank, D, V, N
    <2> QED
      BY <1>1, <1>4, <1>5, <1>7, <2>1, Recursion
  <1> DEFINE Loop(g) == [p \in D |-> val(g, p)]
             gallop == CHOOSE g : g = Loop(g)
             first == asize + 1
             i0 == IF asize <= 1 THEN first + 1 ELSE first + 2
             j0 == 2 * i0 + (IF asize <= 1 THEN 1 ELSE 0)
  <1>9. f = Loop(f)
    <2>1. \A p \in D : f[p] = val(f, p)
      <3> HIDE DEF w, val, D, V
      <3> QED
        BY <1>6, <1>8
    <2> HIDE DEF val, D, V
    <2> QED
      BY <2>1
  <1>10. gallop = Loop(gallop)
    <2> HIDE DEF Loop
    <2> QED
      BY <1>9
  <1>11. HashBoundary(t, asize) =
           IF first \notin H THEN asize
           ELSE IF i0 \notin H THEN Bisect(H, first, i0) ELSE gallop[<<i0, j0>>]
    BY DEF HashBoundary, InHash
  <1> HIDE DEF gallop
  <1>12. \A p \in D : gallop[p] = val(gallop, p)
    <2> HIDE DEF val, D
    <2> QED
      BY <1>10
  <1> HIDE DEF Loop, w, rank
  <1>13. ASSUME NEW i \in H, NEW j \in B, i < j, j \notin H
         PROVE  LET r == Bisect(H, i, j) IN r \in H /\ r + 1 \notin H /\ r >= i
    <2>1. i \in Nat /\ j \in Nat
      BY <1>1
    <2> HIDE DEF H
    <2> QED
      BY <1>13, <2>1, BisectBorder
  <1> DEFINE Right(p) == gallop[p] \in H /\ gallop[p] + 1 \notin H /\ gallop[p] >= p[1]
             E == {n \in 0..N : \A p \in D : p[1] \in H /\ p[1] < p[2] /\ N - p[2] <= n => Right(p)}
  <1>14. ASSUME NEW p \in D, p[1] \in H, p[1] < p[2], p[2] \notin H PROVE Right(p)
    <2>1. gallop[p] = Bisect(H, p[1], p[2]) /\ p[2] \in B
      <3>1. p[2] \in B
        BY <1>2
      <3>2. gallop[p] = val(gallop, p)
        <4> HIDE DEF val, D
        <4> QED
          BY <1>12
      <3> HIDE DEF H, B, D
      <3> QED
        BY <1>14, <3>1, <3>2
    <2> HIDE DEF H, B, D
    <2> QED
      BY <1>13, <1>14, <2>1
  <1>15. 0 \in E
    <2>1. 0 \in 0..N
      BY <1>1
    <2>2. \A p \in D : N - p[2] <= 0 => p[2] \notin H
      BY <1>1, <1>2
    <2> HIDE DEF Right, D, N, H
    <2> QED
      BY <1>14, <2>1, <2>2
  <1>16. ASSUME NEW n \in 0..(N - 1), n \in E PROVE n + 1 \in E
    <2>1. n + 1 \in 0..N /\ n \in Nat
      BY <1>1
    <2>2. ASSUME NEW p \in D, p[1] \in H, p[1] < p[2], N - p[2] <= n + 1 PROVE Right(p)
      <3>1. CASE p[2] \notin H
        BY <1>14, <2>2, <3>1
      <3>2. CASE p[2] \in H
        <4> DEFINE q == <<p[2], 2 * p[2]>>
        <4>1. q \in D /\ p[2] < 2 * p[2] /\ p[2] \in 1..MaxInt /\ N - 2 * p[2] <= n
          BY <1>1, <1>3, <2>1, <2>2, <3>2
        <4>2. Right(q)
          <5> HIDE DEF Right, D, N, H
          <5> QED
            BY <1>16, <3>2, <4>1
        <4>3. gallop[p] = gallop[q]
          <5> HIDE DEF D, H
          <5> QED
            BY <1>12, <3>2
        <4>4. p[1] \in Int /\ p[2] \in Int /\ gallop[q] \in Int
          <5>1. gallop[q] \in H
            <6> HIDE DEF q, H
            <6> QED
              BY <4>2
          <5>2. H \subseteq Int
            BY <1>1
          <5>3. p[1] \in Int
            BY <2>2, <5>2
          <5>4. p[2] \in Int
            BY <4>1
          <5>5. gallop[q] \in Int
            BY <5>1, <5>2
          <5> QED
            BY <5>3, <5>4, <5>5
        <4> HIDE DEF D, H
        <4> QED
          BY <2>2, <4>1, <4>2, <4>3, <4>4
      <3> QED
        BY <3>1, <3>2
    <2> HIDE DEF Right, D, N, H
    <2> QED
      BY <2>1, <2>2
  <1>17. 0..N \subseteq E
    <2> HIDE DEF E, N
    <2> QED
      BY <1>1, <1>15, <1>16, BoundedInduction
  <1>18. ASSUME NEW p \in D, p[1] \in H, p[1] < p[2] PROVE Right(p)
    <2>1. N - p[2] \in 0..N /\ N - p[2] <= N - p[2]
      BY <1>1, <1>2
    <2>2. N - p[2] \in E
      <3> HIDE DEF E, N
      <3> QED
        BY <1>17, <2>1
    <2> HIDE DEF Right, D, N, H
    <2> QED
      BY <1>18, <2>1, <2>2
  <1>19. CASE first \notin H
    BY <1>1, <1>11, <1>19 DEF InHash
  <1>20. CASE first \in H /\ i0 \notin H
    <2>1. first < i0 /\ i0 \in B /\ first \in 1..MaxInt
      BY <1>1, <1>20
    <2>2. LET r == Bisect(H, first, i0) IN r \in H /\ r + 1 \notin H /\ r >= first
      <3> HIDE DEF H, first, i0, B
      <3> QED
        BY <1>13, <1>20, <2>1
    <2> QED
      BY <1>1, <1>11, <1>20, <2>1, <2>2
  <1>21. CASE first \in H /\ i0 \in H
    <2>1. /\ i0 \in 1..MaxInt /\ j0 \in B /\ i0 < j0 /\ i0 > asize /\ i0 \in A
      BY <1>1, <1>21
    <2>2. <<i0, j0>> \in D
      <3> HIDE DEF i0, j0, A, B
      <3> QED
        BY <2>1
    <2>3. Right(<<i0, j0>>)
      <3> HIDE DEF Right, D, H, i0, j0
      <3> QED
        BY <1>18, <1>21, <2>1, <2>2
    <2>4. HashBoundary(t, asize) = gallop[<<i0, j0>>]
      <3> HIDE DEF H, i0, j0, first
      <3> QED
        BY <1>11, <1>21
    <2> HIDE DEF i0, j0
    <2> QED
      BY <1>1, <2>1, <2>3, <2>4
  <1> QED
    BY <1>19, <1>20, <1>21

(* compute_len: the element it stops at is there, and the next is not, as    *)
(* far as the part it looked at goes: a bucket may be a tombstone.           *)
LEMMA LengthFound ==
  ASSUME NEW t \in Tables
  PROVE  /\ Length(t) \in 0..MaxInt
         /\ \/ Length(t) = 0
            \/ Length(t) <= Len(t.array) /\ Present(t, Length(t))
            \/ Length(t) > Len(t.array) /\ Length(t) \in InHash(t)
         /\ Length(t) < Len(t.array) => ~Present(t, Length(t) + 1)
         /\ Length(t) >= Len(t.array) => Length(t) + 1 \notin InHash(t)
  <1> DEFINE asize == Len(t.array)
             lim == Min({asize, 5})
             firstGap == {i \in 2..lim : ~Present(t, i)}
  <1>1. asize \in 0..MaxInt /\ asize \in Nat /\ MaxInt \in Nat
    BY TableShape, TableConstants
  <1>2. lim = IF asize <= 5 THEN asize ELSE 5
    <2>1. {asize, 5} \subseteq Nat /\ {asize, 5} # {}
      BY <1>1
    <2>2. lim \in {asize, 5} /\ lim <= asize /\ lim <= 5
      BY <2>1, MinOf
    <2> HIDE DEF lim
    <2> QED
      BY <1>1, <2>2
  <1>3. Length(t) = IF asize = 0 THEN HashBoundary(t, 0)
        ELSE IF ~Present(t, 1) THEN 0
        ELSE IF firstGap # {} THEN Min(firstGap) - 1
        ELSE IF ~Present(t, asize) THEN BinSearch(t, lim, asize)
        ELSE HashBoundary(t, asize)
    BY DEF Length
  <1> HIDE DEF lim
  <1>4. CASE asize = 0
    BY <1>1, <1>3, <1>4, HashBorder
  <1>5. CASE asize # 0 /\ ~Present(t, 1)
    BY <1>1, <1>3, <1>5
  <1>6. CASE asize # 0 /\ Present(t, 1) /\ firstGap # {}
    <2> DEFINE g == Min(firstGap)
    <2>1. g \in firstGap /\ \A y \in firstGap : g <= y
      <3>1. firstGap \subseteq Nat
        BY <1>1, <1>2
      <3> HIDE DEF firstGap
      <3> QED
        BY <1>6, <3>1, MinOf
    <2>2. Length(t) = g - 1
      BY <1>3, <1>6
    <2> HIDE DEF g
    <2>3. g \in 2..asize /\ ~Present(t, g)
      BY <1>1, <1>2, <2>1
    <2>4. Present(t, g - 1)
      <3>1. g - 1 = 1 \/ (g - 1 \in 2..lim /\ g - 1 \notin firstGap)
        BY <1>1, <1>2, <2>1
      <3> QED
        BY <1>6, <3>1
    <2>5. (g - 1) + 1 = g /\ g - 1 < asize /\ g - 1 \in 0..MaxInt
      BY <1>1, <2>3
    <2> QED
      BY <1>1, <2>2, <2>3, <2>4, <2>5
  <1>7. CASE asize # 0 /\ Present(t, 1) /\ firstGap = {} /\ ~Present(t, asize)
    <2> DEFINE P == {i \in lim..asize : Present(t, i)}
               r == Bisect(P, lim, asize)
    <2>1. lim \in 2..lim => Present(t, lim)
      BY <1>7
    <2>2. lim = 5 /\ lim < asize /\ Present(t, lim)
      BY <1>1, <1>2, <1>7, <2>1
    <2>3. Length(t) = r
      BY <1>3, <1>7 DEF BinSearch
    <2>4. asize \notin P
      BY <1>7
    <2>5. lim \in Nat
      BY <2>2
    <2> HIDE DEF P
    <2>6. /\ r \in lim..(asize - 1)
          /\ r = lim \/ r \in P
          /\ r + 1 \notin P
      BY <1>1, <2>2, <2>4, <2>5, BisectBorder
    <2> HIDE DEF r
    <2>7. Present(t, r) /\ ~Present(t, r + 1)
      BY <1>1, <2>2, <2>6 DEF P
    <2> QED
      BY <1>1, <2>2, <2>3, <2>6, <2>7
  <1>8. CASE asize # 0 /\ Present(t, 1) /\ firstGap = {} /\ Present(t, asize)
    <2>1. Length(t) = HashBoundary(t, asize)
      BY <1>3, <1>8
    <2> HIDE DEF firstGap
    <2> QED
      BY <1>1, <1>8, <2>1, HashBorder
  <1> QED
    BY <1>4, <1>5, <1>6, <1>7, <1>8
-----------------------------------------------------------------------------
(* The invariant: what is read agrees with what was written last.            *)

Agrees(t, m) == \A k \in Keys : Reads(t, k, m[k])

IInv == /\ tab \in Tables
        /\ shadow \in [Keys -> Content]
        /\ Agrees(tab, shadow)

LEMMA AssignAgrees ==
  ASSUME NEW t \in Tables, NEW m \in [Keys -> Content], Agrees(t, m),
         NEW key \in Keys \cup FloatKeys, NEW v \in Content
  PROVE  Agrees(SetSlot(t, key, v), [m EXCEPT ![NormKey(key)] = v])
  <1> DEFINE u == SetSlot(t, key, v)
             k == NormKey(key)
  <1>1. k \in Keys
    BY Norm
  <1>2. \A j \in Keys \ {k} : Reads(u, j, m[j])
    BY SetSlotReads DEF Reads, Agrees
  <1>3. Reads(u, k, v)
    BY SetSlotReads DEF Reads
  <1> HIDE DEF u, k
  <1>4. \A j \in Keys : Reads(u, j, [m EXCEPT ![k] = v][j])
    BY <1>1, <1>2, <1>3
  <1> QED
    BY <1>4 DEF Agrees, u, k

LEMMA InsertAgrees ==
  ASSUME NEW t \in Tables, NEW m \in [Keys -> Content], Agrees(t, m),
         NEW pos \in IntKeys, NEW e \in pos..MaxInt, NEW v \in Content
  PROVE  /\ TabInsert(t, pos, e, v) \in Tables
         /\ MapInsert(m, pos, e, v) \in [Keys -> Content]
         /\ Agrees(TabInsert(t, pos, e, v), MapInsert(m, pos, e, v))
  <1> DEFINE u == TabInsert(t, pos, e, v)
             s == MapInsert(m, pos, e, v)
  <1>0. /\ pos \in Int /\ e \in Int /\ pos \in Keys
        /\ \A k \in (pos + 1)..e : k \in Keys /\ k - 1 \in Keys
    BY TableConstants DEF IntKeys, Keys
  <1>1. /\ u \in Tables /\ Hidden(t) \subseteq Hidden(u)
        /\ \A k \in Keys \ (pos..e) : Get(u, k) = Get(t, k)
        /\ Reads(u, pos, v)
        /\ \A k \in (pos + 1)..e : Reads(u, k, Get(t, k - 1))
    BY InsertReads
  <1>2. s = [k \in Keys |-> IF k = pos THEN v
                            ELSE IF k \in (pos + 1)..e THEN m[k - 1] ELSE m[k]]
    BY InsertMap
  <1> HIDE DEF u, s
  <1>3. s \in [Keys -> Content]
    BY <1>0, <1>2
  <1>4. ASSUME NEW k \in Keys PROVE Reads(u, k, s[k])
    <2>1. CASE k = pos
      BY <1>1, <1>2, <2>1
    <2>2. CASE k # pos /\ k \in (pos + 1)..e
      <3>1. s[k] = m[k - 1] /\ Reads(t, k - 1, m[k - 1]) /\ Reads(u, k, Get(t, k - 1))
        BY <1>0, <1>1, <1>2, <2>2 DEF Agrees
      <3> QED
        BY <1>1, <3>1 DEF Reads
    <2>3. CASE k # pos /\ k \notin (pos + 1)..e
      <3>1. k \notin pos..e
        BY <1>0, <2>3
      <3>2. s[k] = m[k] /\ Reads(t, k, m[k])
        BY <1>2, <2>3 DEF Agrees
      <3> QED
        BY <1>1, <3>1, <3>2 DEF Reads
    <2> QED
      BY <2>1, <2>2, <2>3
  <1> QED
    BY <1>1, <1>3, <1>4 DEF Agrees, u, s

LEMMA RemoveAgrees ==
  ASSUME NEW t \in Tables, NEW m \in [Keys -> Content], Agrees(t, m),
         NEW pos \in IntKeys, NEW n \in 0..MaxInt, pos <= n + 1
  PROVE  /\ TabRemove(t, pos, n) \in Tables
         /\ MapRemove(m, pos, n) \in [Keys -> Content]
         /\ Agrees(TabRemove(t, pos, n), MapRemove(m, pos, n))
  <1> DEFINE u == TabRemove(t, pos, n)
             s == MapRemove(m, pos, n)
  <1>0. pos \in Int /\ n \in Int /\ pos \in Keys /\ Empty \in Content
    BY TableConstants DEF IntKeys, Keys, Content
  <1>1. CASE pos <= n
    <2>0. n \in pos..MaxInt /\ \A k \in pos..(n - 1) : k \in Keys /\ k + 1 \in Keys
      BY <1>0, <1>1, TableConstants DEF IntKeys, Keys
    <2>1. /\ u \in Tables /\ Hidden(t) \subseteq Hidden(u)
          /\ \A k \in Keys \ (pos..n) : Get(u, k) = Get(t, k)
          /\ Reads(u, n, Empty)
          /\ \A k \in pos..(n - 1) : Reads(u, k, Get(t, k + 1))
      BY <2>0, RemoveReads
    <2>2. s = [k \in Keys |-> IF k = n THEN Empty
                              ELSE IF k \in pos..(n - 1) THEN m[k + 1] ELSE m[k]]
      BY <2>0, RemoveMap
    <2> HIDE DEF u, s
    <2>3. s \in [Keys -> Content]
      BY <1>0, <2>0, <2>2
    <2>4. ASSUME NEW k \in Keys PROVE Reads(u, k, s[k])
      <3>1. CASE k = n
        BY <2>1, <2>2, <3>1
      <3>2. CASE k # n /\ k \in pos..(n - 1)
        <4>1. s[k] = m[k + 1] /\ Reads(t, k + 1, m[k + 1]) /\ Reads(u, k, Get(t, k + 1))
          BY <2>0, <2>1, <2>2, <3>2 DEF Agrees
        <4> QED
          BY <2>1, <4>1 DEF Reads
      <3>3. CASE k # n /\ k \notin pos..(n - 1)
        <4>1. k \notin pos..n
          BY <1>0, <3>3
        <4>2. s[k] = m[k] /\ Reads(t, k, m[k])
          BY <2>2, <3>3 DEF Agrees
        <4> QED
          BY <2>1, <4>1, <4>2 DEF Reads
      <3> QED
        BY <3>1, <3>2, <3>3
    <2> QED
      BY <2>1, <2>3, <2>4 DEF Agrees, u, s
  <1>2. CASE ~(pos <= n)
    <2>1. u = SetSlot(t, pos, Empty)
      BY <1>2 DEF TabRemove, RemoveWith
    <2>2. s = [m EXCEPT ![pos] = Empty]
      BY <1>2 DEF MapRemove, RemoveWith, MapSet
    <2>3. NormKey(pos) = pos
      BY <1>0, Norm
    <2> HIDE DEF u, s
    <2>4. u \in Tables /\ Agrees(u, s)
      BY <1>0, <2>1, <2>2, <2>3, SetSlotReads, AssignAgrees
    <2>5. s \in [Keys -> Content]
      BY <1>0, <2>2
    <2> QED
      BY <2>4, <2>5 DEF u, s
  <1> QED
    BY <1>1, <1>2

(* What a sweep does to what is read.                                        *)
LEMMA SweepGets ==
  ASSUME NEW t \in Tables, NEW dead \in SUBSET Values,
         NEW u, u = ClearWeakValues(t, dead)
  PROVE  /\ u \in Tables
         /\ \A k \in Keys : IF Get(t, k) \in dead
                            THEN Get(u, k) \notin dead /\ Get(u, k) \in {Empty} \cup Hidden(u)
                            ELSE Get(u, k) = Get(t, k)
         /\ \A x \in Hidden(t) : x \notin dead => x \in Hidden(u)
  <1>1. /\ u \in Tables
        /\ u.array = Emptied(t, dead).array
        /\ \A k \in Keys : HashGet(u, k) = IF HashGet(t, k) \in dead THEN Empty
                                           ELSE HashGet(t, k)
    BY SweepReads
  <1>2. /\ Len(u.array) = Len(t.array)
        /\ \A i \in 1..Len(t.array) :
             u.array[i] = IF t.array[i] \in dead THEN Empty ELSE t.array[i]
    <2> DEFINE s == [i \in 1..Len(t.array) |-> IF t.array[i] \in dead THEN Empty ELSE t.array[i]]
    <2>1. u.array = s
      BY <1>1 DEF Emptied
    <2>2. DOMAIN u.array = 1..Len(t.array) /\ DOMAIN u.array = 1..Len(u.array)
      BY <1>1, <2>1, TableShape
    <2>3. Len(u.array) \in Nat /\ Len(t.array) \in Nat
      BY <1>1, TableShape
    <2> QED
      BY <2>1, <2>2, <2>3
  <1>3. Empty \notin dead /\ IntKeys \subseteq Keys
    BY TableConstants DEF Keys
  <1>4. \A k : /\ InArray(u, k) <=> InArray(t, k)
               /\ InArray(t, k) => u.array[k] = IF t.array[k] \in dead THEN Empty ELSE t.array[k]
    BY <1>2, TableConstants DEF InArray, IntKeys
  <1>5. ASSUME NEW k \in Keys
        PROVE  IF Get(t, k) \in dead
               THEN Get(u, k) \notin dead /\ Get(u, k) \in {Empty} \cup Hidden(u)
               ELSE Get(u, k) = Get(t, k)
    <2>1. CASE InArray(t, k) /\ t.array[k] # Empty
      <3>1. CASE t.array[k] \in dead
        <4>1. Get(t, k) \in dead /\ Get(u, k) = HashGet(u, k)
          BY <1>4, <2>1, <3>1, GetKey
        <4>2. HashGet(u, k) \notin dead
          BY <1>1, <1>3
        <4>3. HashGet(u, k) # Empty => k \in Shadowed(u)
          BY <1>4, <2>1 DEF Shadowed, InArray
        <4> QED
          BY <4>1, <4>2, <4>3 DEF Hidden
      <3>2. CASE t.array[k] \notin dead
        BY <1>4, <2>1, <3>2, GetKey
      <3> QED
        BY <3>1, <3>2
    <2>2. CASE ~(InArray(t, k) /\ t.array[k] # Empty)
      <3>1. Get(t, k) = HashGet(t, k) /\ Get(u, k) = HashGet(u, k)
        BY <1>4, <2>2, <1>3, GetKey
      <3> QED
        BY <1>1, <1>3, <3>1
    <2> QED
      BY <2>1, <2>2
  <1>6. ASSUME NEW x \in Hidden(t), x \notin dead PROVE x \in Hidden(u)
    <2>1. PICK j \in Shadowed(t) : x = HashGet(t, j)
      BY DEF Hidden
    <2>2. j \in Keys /\ j \in IntKeys /\ InArray(t, j) /\ HashGet(t, j) # Empty
      BY <1>3 DEF Shadowed
    <2>3. j \in Shadowed(u) /\ HashGet(u, j) = x
      BY <1>1, <1>4, <1>6, <2>1, <2>2 DEF Shadowed
    <2> QED
      BY <2>3 DEF Hidden
  <1> QED
    BY <1>1, <1>5, <1>6

LEMMA InvInit == Init => IInv
  <1> SUFFICES ASSUME Init PROVE IInv
    OBVIOUS
  <1>1. PICK n \in 0..MaxArray : tab = NewTable(n)
    BY DEF Init
  <1> DEFINE s == [i \in 1..n |-> Empty]
  <1>2. n \in 0..MaxInt /\ MaxInt \in Nat
    BY TableConstants
  <1>3. s \in Seq(Content) /\ Len(s) = n /\ \A i \in 1..n : s[i] = Empty
    <2>1. s \in [1..n -> Content]
      BY DEF Content
    <2> QED
      BY <1>2, <2>1
  <1>4. tab = [array |-> s, buckets |-> <<>>]
    BY <1>1 DEF NewTable
  <1> HIDE DEF s
  <1>5. tab \in Tables
    BY <1>2, <1>3, <1>4 DEF Tables, Unique, Entry
  <1>6. \A k : HashGet(tab, k) = Empty
    <2>1. \A k : BucketOf(tab, k) = 0
      BY <1>4, <1>5, BucketOfNone
    <2> QED
      BY <2>1 DEF HashGet
  <1>7. \A k \in Keys : Get(tab, k) = Empty
    <2>1. \A k \in Keys : InArray(tab, k) => tab.array[k] = Empty
      BY <1>2, <1>3, <1>4 DEF InArray, IntKeys
    <2> QED
      BY <1>6, <2>1, GetKey
  <1> QED
    BY <1>5, <1>7 DEF Init, IInv, Agrees, Reads, Content

LEMMA SweepAgrees ==
  ASSUME NEW t \in Tables, NEW m \in [Keys -> Content], Agrees(t, m),
         NEW dead \in SUBSET Values
  PROVE  Agrees(ClearWeakValues(t, dead),
                [k \in Keys |-> IF m[k] \in dead THEN Empty ELSE m[k]])
  <1> DEFINE u == ClearWeakValues(t, dead)
  <1>1. /\ \A k \in Keys : IF Get(t, k) \in dead
                           THEN Get(u, k) \notin dead /\ Get(u, k) \in {Empty} \cup Hidden(u)
                           ELSE Get(u, k) = Get(t, k)
        /\ \A x \in Hidden(t) : x \notin dead => x \in Hidden(u)
    BY SweepGets
  <1>2. Empty \notin dead
    BY TableConstants
  <1> HIDE DEF u
  <1>3. ASSUME NEW k \in Keys
        PROVE  Reads(u, k, IF m[k] \in dead THEN Empty ELSE m[k])
    <2>1. Reads(t, k, m[k])
      BY DEF Agrees
    <2>2. CASE Get(t, k) \in dead
      BY <1>1, <1>2, <2>1, <2>2 DEF Reads
    <2>3. CASE Get(t, k) \notin dead
      BY <1>1, <1>2, <2>1, <2>3 DEF Reads
    <2> QED
      BY <2>2, <2>3
  <1>4. \A k \in Keys :
          Reads(u, k, [j \in Keys |-> IF m[j] \in dead THEN Empty ELSE m[j]][k])
    BY <1>3
  <1> QED
    BY <1>4 DEF Agrees, u

-----------------------------------------------------------------------------
(* Every step.                                                               *)

(* The actions, in terms of the library calls proved about above.            *)
LEMMA InsertStep ==
  ASSUME NEW pos, NEW v, TableInsert(pos, v)
  PROVE  /\ pos <= Length(tab) + 1 /\ Length(tab) + 1 <= MaxInt
         /\ tab' = TabInsert(tab, pos, Length(tab) + 1, v)
         /\ shadow' = MapInsert(shadow, pos, Length(tab) + 1, v)
  BY Zenon DEF TableInsert, TabInsert, MapInsert

LEMMA RemoveStep ==
  ASSUME NEW pos, TableRemove(pos)
  PROVE  /\ pos <= Length(tab) + 1 /\ Length(tab) + 1 <= MaxInt
         /\ tab' = TabRemove(tab, pos, Length(tab))
         /\ shadow' = MapRemove(shadow, pos, Length(tab))
  BY Zenon DEF TableRemove, TabRemove, MapRemove

LEMMA StepKeepsInv == IInv /\ [Next]_vars => IInv'
  <1> SUFFICES ASSUME IInv, [Next]_vars PROVE IInv'
    OBVIOUS
  <1>0. tab \in Tables /\ shadow \in [Keys -> Content] /\ Agrees(tab, shadow)
    BY DEF IInv
  <1>1. ASSUME NEW k \in Keys \cup FloatKeys, NEW v \in Content, Assign(k, v)
        PROVE  IInv'
    <2>1. tab' = SetSlot(tab, k, v) /\ shadow' = [shadow EXCEPT ![NormKey(k)] = v]
      BY <1>1 DEF Assign
    <2>2. tab' \in Tables
      BY <1>0, <2>1, SetSlotReads
    <2>3. shadow' \in [Keys -> Content]
      BY <1>0, <2>1
    <2>4. Agrees(tab', shadow')
      BY <1>0, <2>1, AssignAgrees
    <2> QED
      BY <2>2, <2>3, <2>4 DEF IInv
  <1>2. ASSUME UNCHANGED <<tab, shadow>> PROVE IInv'
    BY <1>0, <1>2 DEF IInv
  <1>3. ASSUME NEW pos \in IntKeys, NEW v \in Values, TableInsert(pos, v)
        PROVE  IInv'
    <2> DEFINE e == Length(tab) + 1
    <2>1. Length(tab) \in 0..MaxInt /\ v \in Content
      BY <1>0, LengthFound DEF Content
    <2>2. e \in pos..MaxInt
      BY <1>3, <2>1, InsertStep, TableConstants DEF IntKeys
    <2>3. tab' = TabInsert(tab, pos, e, v) /\ shadow' = MapInsert(shadow, pos, e, v)
      BY <1>3, InsertStep
    <2> QED
      BY <1>0, <2>1, <2>2, <2>3, InsertAgrees DEF IInv
  <1>4. ASSUME NEW pos \in IntKeys, TableRemove(pos)
        PROVE  IInv'
    <2> DEFINE n == Length(tab)
    <2>1. n \in 0..MaxInt
      BY <1>0, LengthFound
    <2>2. tab' = TabRemove(tab, pos, n) /\ shadow' = MapRemove(shadow, pos, n) /\ pos <= n + 1
      BY <1>4, RemoveStep
    <2> QED
      BY <1>0, <2>1, <2>2, RemoveAgrees DEF IInv
  <1>5. ASSUME NEW dead \in SUBSET Values, Sweep(dead)
        PROVE  IInv'
    <2>1. /\ tab' = ClearWeakValues(tab, dead)
          /\ shadow' = [k \in Keys |-> IF shadow[k] \in dead THEN Empty ELSE shadow[k]]
      BY <1>5 DEF Sweep
    <2>2. tab' \in Tables
      BY <1>0, <2>1, SweepGets
    <2>3. shadow' \in [Keys -> Content]
      BY <1>0, <2>1 DEF Content
    <2> QED
      BY <1>0, <2>1, <2>2, <2>3, SweepAgrees DEF IInv
  <1>6. CASE UNCHANGED vars
    BY <1>2, <1>6 DEF vars
  <1>7. CASE TraverseStart \/ TraverseStep \/ TraverseEnd
    BY <1>2, <1>7 DEF TraverseStart, TraverseStep, TraverseEnd
  <1>8. ASSUME NEW k, NEW v, AssignFails(k, v) PROVE IInv'
    BY <1>2, <1>8 DEF AssignFails, vars
  <1> QED
    BY <1>1, <1>3, <1>4, <1>5, <1>6, <1>7, <1>8 DEF Next, Program

THEOREM TableInvariant == Spec => []IInv
  BY InvInit, StepKeepsInv, PTL DEF Spec

(* Every table and every map keeps its shape: no key ever has two buckets,   *)
(* although a new one is inserted without a look at the index.               *)
THEOREM TableTypes == Spec => []TypeOK
  <1>1. IInv => TypeOK
    <2> SUFFICES ASSUME IInv PROVE TypeOK
      OBVIOUS
    <2>1. tab \in Tables /\ shadow \in [Keys -> Content]
      BY DEF IInv
    <2> QED
      BY <2>1, TableShape DEF TypeOK, Unique
  <1> QED
    BY <1>1, TableInvariant, PTL

(* A field that holds a value reads as the last write to it, whatever writes *)
(* through float keys, library calls and sweeps came between.                *)
THEOREM LastWriteRead == Spec => []LiveFieldsReadLastWrite
  <1>1. IInv => LiveFieldsReadLastWrite
    <2> SUFFICES ASSUME IInv, NEW k \in Keys \cup FloatKeys, shadow[NormKey(k)] # Empty
                 PROVE  Get(tab, k) = shadow[NormKey(k)]
      BY DEF LiveFieldsReadLastWrite
    <2>1. tab \in Tables /\ Agrees(tab, shadow)
      BY DEF IInv
    <2>2. NormKey(k) \in Keys /\ Get(tab, k) = Get(tab, NormKey(k))
      BY <2>1, Norm, GetType
    <2>3. Reads(tab, NormKey(k), shadow[NormKey(k)])
      BY <2>1, <2>2 DEF Agrees
    <2> QED
      BY <2>2, <2>3 DEF Reads
  <1> QED
    BY <1>1, TableInvariant, PTL

(* A cleared field reads as nil, or as a value a hidden bucket still holds.  *)
THEOREM ClearedReadNil == Spec => []ClearedFieldsReadNil
  <1>1. IInv => ClearedFieldsReadNil
    BY DEF IInv, Agrees, Reads, Hidden, ClearedFieldsReadNil
  <1> QED
    BY <1>1, TableInvariant, PTL

-----------------------------------------------------------------------------
(* The length operator and the library.                                      *)

LEMMA Border ==
  ASSUME NEW t \in Tables, NEW m \in [Keys -> Content], Agrees(t, m),
         NoDeadInteger(t), Shadowed(t) = {}
  PROVE  IsBorder(m, Length(t))
  <1> DEFINE n == Length(t)
  <1>1. \A k \in Keys : Get(t, k) = m[k]
    BY DEF Agrees, Reads, Hidden
  <1>2. /\ n \in 0..MaxInt
        /\ n = 0 \/ (n <= Len(t.array) /\ Present(t, n)) \/ (n > Len(t.array) /\ n \in InHash(t))
        /\ n < Len(t.array) => ~Present(t, n + 1)
        /\ n >= Len(t.array) => n + 1 \notin InHash(t)
    BY LengthFound
  <1>3. MaxInt \in Nat /\ Len(t.array) \in 0..MaxInt /\ IntKeys \subseteq Keys
    BY TableConstants, TableShape DEF Keys
  <1>4. \A k \in IntKeys : Get(t, k) = IF InArray(t, k) /\ t.array[k] # Empty
                                       THEN t.array[k] ELSE HashGet(t, k)
    BY <1>3, GetKey
  <1>5. \A k \in IntKeys : k \in InHash(t) <=> HashGet(t, k) # Empty
    BY Bucket, TableShape DEF InHash, HashGet, NoDeadInteger
  <1>6. \A k \in IntKeys : InArray(t, k) => HashGet(t, k) = Empty
    BY DEF Shadowed
  <1> HIDE DEF n
  <1>7. ASSUME n # 0 PROVE m[n] # Empty
    <2>1. n \in IntKeys /\ m[n] = Get(t, n)
      BY <1>1, <1>2, <1>3, <1>7 DEF IntKeys
    <2>2. CASE n <= Len(t.array) /\ Present(t, n)
      BY <1>4, <2>1, <2>2 DEF Present, InArray
    <2>3. CASE n > Len(t.array) /\ n \in InHash(t)
      BY <1>2, <1>3, <1>4, <1>5, <2>1, <2>3 DEF InArray
    <2> QED
      BY <1>2, <1>7, <2>2, <2>3
  <1>8. ASSUME n # MaxInt PROVE m[n + 1] = Empty
    <2>1. n + 1 \in IntKeys /\ m[n + 1] = Get(t, n + 1)
      BY <1>1, <1>2, <1>3, <1>8 DEF IntKeys
    <2>2. CASE n < Len(t.array)
      <3>1. n + 1 \in 1..Len(t.array)
        BY <1>2, <1>3, <2>2
      <3> QED
        BY <1>2, <1>4, <1>6, <2>1, <2>2, <3>1 DEF Present, InArray
    <2>3. CASE n >= Len(t.array)
      BY <1>2, <1>3, <1>4, <1>5, <2>1, <2>3 DEF InArray
    <2> QED
      BY <1>2, <1>3, <2>2, <2>3
  <1> QED
    BY <1>7, <1>8 DEF IsBorder, n

(* #t is a border: the scan of the first slots, the bisection of the array,  *)
(* the doubling search in the hash part and its bisection all end at one.    *)
THEOREM BorderFound == Spec => []LengthIsBorder
  <1>1. IInv => LengthIsBorder
    BY Border DEF IInv, LengthIsBorder
  <1> QED
    BY <1>1, TableInvariant, PTL

(* A sequence has one border, its length.                                    *)
LEMMA OneBorder ==
  ASSUME NEW m, NEW n \in 0..MaxInt, IsBorder(m, n), ProperSequence(m)
  PROVE  \A k \in IntKeys : m[k] # Empty <=> k <= n
  <1>1. PICK l \in 0..MaxInt : \A k \in IntKeys : m[k] # Empty <=> k <= l
    BY DEF ProperSequence
  <1>2. MaxInt \in Nat
    BY TableConstants
  <1>3. n <= l
    BY <1>1, <1>2 DEF IsBorder, IntKeys
  <1>4. l <= n
    BY <1>1, <1>2 DEF IsBorder, IntKeys
  <1>5. l = n
    BY <1>2, <1>3, <1>4
  <1> QED
    BY <1>1, <1>5

(* table.insert and table.remove keep a sequence a sequence.                 *)
THEOREM SequencesKept == Spec => LibraryKeepsSequences
  <1> DEFINE Kept == (/\ ProperSequence(shadow) /\ NoDeadInteger(tab) /\ Shadowed(tab) = {}
                      /\ \/ \E pos \in IntKeys, v \in Values : TableInsert(pos, v)
                         \/ \E pos \in IntKeys : TableRemove(pos))
                     => ProperSequence(shadow')
             n == Length(tab)
  <1>1. ASSUME IInv, ProperSequence(shadow), NoDeadInteger(tab), Shadowed(tab) = {}
        PROVE  /\ tab \in Tables /\ shadow \in [Keys -> Content] /\ n \in 0..MaxInt
               /\ \A k \in IntKeys : shadow[k] # Empty <=> k <= n
    <2>1. tab \in Tables /\ shadow \in [Keys -> Content] /\ Agrees(tab, shadow)
      BY <1>1 DEF IInv
    <2>2. n \in 0..MaxInt /\ IsBorder(shadow, n)
      BY <1>1, <2>1, LengthFound, Border
    <2> QED
      BY <1>1, <2>1, <2>2, OneBorder
  <1>2. MaxInt \in Nat /\ IntKeys = 1..MaxInt /\ IntKeys \subseteq Keys /\ Empty \notin Values
    BY TableConstants DEF IntKeys, Keys
  <1>3. ASSUME IInv, ProperSequence(shadow), NoDeadInteger(tab), Shadowed(tab) = {},
               NEW pos \in IntKeys, NEW v \in Values, TableInsert(pos, v)
        PROVE  ProperSequence(shadow')
    <2> DEFINE e == n + 1
    <2>1. /\ shadow \in [Keys -> Content] /\ n \in 0..MaxInt
          /\ \A k \in IntKeys : shadow[k] # Empty <=> k <= n
      BY <1>1, <1>3
    <2>2. pos \in Int /\ e \in pos..MaxInt /\ v \in Content
          /\ shadow' = MapInsert(shadow, pos, e, v)
      BY <1>2, <1>3, <2>1, InsertStep DEF Content
    <2>3. shadow' = [k \in Keys |-> IF k = pos THEN v
                                    ELSE IF k \in (pos + 1)..e THEN shadow[k - 1] ELSE shadow[k]]
      BY <2>1, <2>2, InsertMap
    <2> HIDE DEF n
    <2>4. \A k \in IntKeys : shadow'[k] # Empty <=> k <= e
      BY <1>2, <2>1, <2>2, <2>3
    <2>5. e \in 0..MaxInt
      BY <1>2, <2>1, <2>2
    <2> QED
      BY <2>4, <2>5 DEF ProperSequence
  <1>4. ASSUME IInv, ProperSequence(shadow), NoDeadInteger(tab), Shadowed(tab) = {},
               NEW pos \in IntKeys, TableRemove(pos)
        PROVE  ProperSequence(shadow')
    <2>1. /\ shadow \in [Keys -> Content] /\ n \in 0..MaxInt
          /\ \A k \in IntKeys : shadow[k] # Empty <=> k <= n
      BY <1>1, <1>4
    <2>2. pos <= n + 1 /\ n + 1 <= MaxInt /\ shadow' = MapRemove(shadow, pos, n)
      BY <1>4, RemoveStep
    <2>3. CASE pos <= n
      <3>1. n \in pos..MaxInt /\ n - 1 \in 0..MaxInt
        BY <1>2, <2>1, <2>3
      <3>2. shadow' = [k \in Keys |-> IF k = n THEN Empty
                                      ELSE IF k \in pos..(n - 1) THEN shadow[k + 1] ELSE shadow[k]]
        BY <2>1, <2>2, <3>1, RemoveMap
      <3> HIDE DEF n
      <3>3. \A k \in IntKeys : shadow'[k] # Empty <=> k <= n - 1
        BY <1>2, <2>1, <2>3, <3>1, <3>2
      <3> QED
        BY <3>1, <3>3 DEF ProperSequence
    <2>4. CASE pos = n + 1
      <3>1. shadow' = [shadow EXCEPT ![pos] = Empty]
        <4>1. ~(pos <= n)
          BY <1>2, <2>1, <2>4
        <4> QED
          BY <2>2, <4>1 DEF MapRemove, RemoveWith, MapSet
      <3> HIDE DEF n
      <3>2. \A k \in IntKeys : shadow'[k] # Empty <=> k <= n
        BY <1>2, <2>1, <2>4, <3>1
      <3> QED
        BY <2>1, <3>2 DEF ProperSequence
    <2> QED
      BY <1>2, <2>1, <2>2, <2>3, <2>4
  <1>5. IInv /\ [Next]_vars => [Kept]_vars
    BY <1>3, <1>4
  <1> QED
    BY <1>5, TableInvariant, PTL DEF Spec, LibraryKeepsSequences

-----------------------------------------------------------------------------
(* The refinement of FieldMap.                                               *)

LEMMA MapStep == IInv /\ [Next]_vars => Map!Next
  <1> SUFFICES ASSUME IInv, [Next]_vars PROVE Map!Next
    OBVIOUS
  <1>0. tab \in Tables
    BY DEF IInv
  <1>1. ASSUME UNCHANGED tab PROVE Map!Next
    BY <1>1 DEF Map!Next, Map!Read
  <1>2. ASSUME NEW k \in Keys, \A j \in Keys \ {k} : Get(tab', j) = Get(tab, j)
        PROVE  Map!Next
    BY <1>2 DEF Map!Next, Map!Write
  <1>3. ASSUME NEW k \in Keys \cup FloatKeys, NEW v \in Content, Assign(k, v)
        PROVE  Map!Next
    <2>1. tab' = SetSlot(tab, k, v)
      BY <1>3 DEF Assign
    <2>2. NormKey(k) \in Keys /\ \A j \in Keys \ {NormKey(k)} : Get(tab', j) = Get(tab, j)
      BY <1>0, <2>1, Norm, SetSlotReads
    <2> QED
      BY <1>2, <2>2
  <1>4. ASSUME NEW pos \in IntKeys, NEW v \in Values, TableInsert(pos, v)
        PROVE  Map!Next
    <2> DEFINE e == Length(tab) + 1
    <2>1. Length(tab) \in 0..MaxInt /\ v \in Content
      BY <1>0, LengthFound DEF Content
    <2>2. /\ pos \in Int /\ e \in pos..MaxInt /\ tab' = TabInsert(tab, pos, e, v)
          /\ pos \in Keys \cap Int /\ e \in Keys \cap Int
      BY <1>4, <2>1, InsertStep, TableConstants DEF IntKeys, Keys
    <2>3. /\ \A k \in Keys \ (pos..e) : Get(tab', k) = Get(tab, k)
          /\ Reads(tab', pos, v)
          /\ \A k \in (pos + 1)..e : Reads(tab', k, Get(tab, k - 1))
      BY <1>0, <2>1, <2>2, InsertReads
    <2>4. \A k \in (pos + 1)..e : k - 1 \in Keys
      BY <2>2, TableConstants DEF IntKeys, Keys
    <2> HIDE DEF e
    <2>5. Map!ShiftUp(pos, e, v)
      BY <2>2, <2>3, <2>4 DEF Map!ShiftUp, Map!Lands, Reads
    <2> QED
      BY <2>2, <2>5 DEF Map!Next
  <1>5. ASSUME NEW pos \in IntKeys, TableRemove(pos)
        PROVE  Map!Next
    <2> DEFINE n == Length(tab)
    <2>1. /\ n \in 0..MaxInt /\ tab' = TabRemove(tab, pos, n) /\ pos <= n + 1
          /\ pos \in Keys \cap Int
      BY <1>0, <1>5, LengthFound, RemoveStep, TableConstants DEF IntKeys, Keys
    <2>2. CASE pos <= n
      <3>1. n \in pos..MaxInt /\ n \in Keys \cap Int
        BY <2>1, <2>2, TableConstants DEF IntKeys, Keys
      <3>2. /\ \A k \in Keys \ (pos..n) : Get(tab', k) = Get(tab, k)
            /\ Reads(tab', n, Empty)
            /\ \A k \in pos..(n - 1) : Reads(tab', k, Get(tab, k + 1))
        BY <1>0, <2>1, <3>1, RemoveReads
      <3>3. \A k \in pos..(n - 1) : k + 1 \in Keys
        BY <2>1, <3>1, TableConstants DEF IntKeys, Keys
      <3> HIDE DEF n
      <3>4. Map!ShiftDown(pos, n)
        BY <2>1, <3>1, <3>2, <3>3 DEF Map!ShiftDown, Map!Lands, Reads
      <3> QED
        BY <2>1, <3>1, <3>4 DEF Map!Next
    <2>3. CASE ~(pos <= n)
      <3>1. tab' = SetSlot(tab, pos, Empty)
        BY <2>1, <2>3 DEF TabRemove, RemoveWith
      <3>2. \A j \in Keys \ {pos} : Get(tab', j) = Get(tab, j)
        BY <1>0, <2>1, <3>1, Norm, SetSlotReads DEF Content
      <3> QED
        BY <1>2, <2>1, <3>2
    <2> QED
      BY <2>2, <2>3
  <1>6. ASSUME NEW dead \in SUBSET Values, Sweep(dead)
        PROVE  Map!Next
    <2>1. tab' = ClearWeakValues(tab, dead)
      BY <1>6 DEF Sweep
    <2>2. \A k \in Keys : IF Get(tab, k) \in dead THEN Get(tab', k) \notin dead
                           ELSE Get(tab', k) = Get(tab, k)
      BY <1>0, <2>1, SweepGets
    <2>3. Map!Drop(dead)
      BY <2>2 DEF Map!Drop
    <2> QED
      BY <2>3 DEF Map!Next
  <1>7. CASE UNCHANGED vars
    BY <1>1, <1>7 DEF vars
  <1>8. CASE TraverseStart \/ TraverseStep \/ TraverseEnd
    BY <1>1, <1>8 DEF TraverseStart, TraverseStep, TraverseEnd
  <1>9. ASSUME NEW k, NEW v, AssignFails(k, v) PROVE Map!Next
    BY <1>1, <1>9 DEF AssignFails, vars
  <1> QED
    BY <1>3, <1>4, <1>5, <1>6, <1>7, <1>8, <1>9 DEF Next, Program

(* The array, the hash part, its tombstones and its hidden buckets together  *)
(* are the map that FieldMap promises.                                       *)
THEOREM MapRefined == Spec => MapSpec
  <1>1. IInv /\ Init => Map!Init
    <2> SUFFICES ASSUME IInv, Init PROVE \A k \in Keys : Get(tab, k) = Empty
      BY DEF Map!Init
    <2> TAKE k \in Keys
    <2>1. /\ tab \in Tables /\ Reads(tab, k, shadow[k]) /\ shadow[k] = Empty
          /\ tab.buckets = <<>>
      BY DEF IInv, Agrees, Init, NewTable
    <2>2. \A j : HashGet(tab, j) = Empty
      BY <2>1, Bucket, TableShape DEF HashGet
    <2> QED
      BY <2>1, <2>2 DEF Reads, Hidden
  <1> QED
    BY <1>1, MapStep, TableInvariant, PTL DEF Spec, MapSpec, Map!Spec
=============================================================================

------------------------ MODULE TableTraversalProofs ------------------------
(* A traversal of LuaTable's table: the walk that `next` takes through the   *)
(* array and the buckets while the loop writes and clears fields.  Either it *)
(* has visited exactly what lies behind it, or a hidden bucket lies ahead,   *)
(* and then it never ends.                                                   *)
EXTENDS TableProofs

-----------------------------------------------------------------------------
(* The invariant.                                                            *)

Fields == {k \in Keys : shadow[k] # Empty}

(* A hidden bucket is still to come: the walk will turn back to the first    *)
(* bucket there, and so it will every time.                                  *)
Trapped(t, k) ==
    \E j \in Shadowed(t) : InArray(t, k) \/ BucketOf(t, k) < BucketOf(t, j)

(* The walk is in the array: it has visited the slots up to its key.         *)
ArrayPhase(t, k, seen) ==
    /\ InArray(t, k)
    /\ Shadowed(t) = {}
    /\ seen = 1..k

(* The walk is in the buckets: it has visited every field but those in the   *)
(* buckets after its key's, and will not meet a visited one again.           *)
HashPhase(t, m, k, seen) ==
    /\ ~InArray(t, k)
    /\ \A j \in Shadowed(t) : BucketOf(t, j) <= BucketOf(t, k)
    /\ \A j \in seen : InArray(t, j) \/ BucketOf(t, j) <= BucketOf(t, k)
    /\ \A j \in Keys : m[j] # Empty =>
         j \in seen \/ (~InArray(t, j) /\ BucketOf(t, k) < BucketOf(t, j))

(* A walk through a table without holes.                                     *)
OnTheWay(t, m, k, seen, twice) ==
    /\ ~ArrayHasHole(t)
    /\ k \in Keys
    /\ InArray(t, k) \/ BucketOf(t, k) # 0
    /\ Trapped(t, k) \/ (~twice /\ (ArrayPhase(t, k, seen) \/ HashPhase(t, m, k, seen)))

TravShape ==
    /\ DOMAIN trav = {"st", "key", "seen", "twice", "owed", "holes", "swept"}
    /\ trav.twice \in BOOLEAN /\ trav.holes \in BOOLEAN /\ trav.swept \in BOOLEAN

WalkInv ==
    /\ TravShape
    /\ trav.st \in {"idle", "running", "done", "failed"}
    /\ trav.st = "idle" => trav = Idle
    /\ trav.st = "running" => trav.owed \subseteq Fields
    /\ (trav.st = "running" /\ ~trav.holes /\ ~trav.swept) =>
         OnTheWay(tab, shadow, trav.key, trav.seen, trav.twice)
    /\ TraversalExact

-----------------------------------------------------------------------------
(* What `next` finds.                                                        *)

Live(t) == {j \in DOMAIN t.buckets : t.buckets[j].v # Empty}

LEMMA LiveBucket ==
  ASSUME NEW t \in Tables, NEW i \in Nat \ {0}
  PROVE  \/ /\ LiveBucketFrom(t, i) = NextEnd
            /\ \A j \in Live(t) : j < i
         \/ \E b \in Live(t) :
              /\ LiveBucketFrom(t, i) = NextResult(t.buckets[b].k, t.buckets[b].v)
              /\ i <= b
              /\ \A j \in Live(t) : i <= j => b <= j
  <1> DEFINE live == {j \in i..Len(t.buckets) : t.buckets[j].v # Empty}
  <1>1. Len(t.buckets) \in Nat /\ DOMAIN t.buckets = 1..Len(t.buckets)
    BY TableShape
  <1>2. CASE live = {}
    <2>1. LiveBucketFrom(t, i) = NextEnd
      BY <1>2, Zenon DEF LiveBucketFrom
    <2>2. \A j \in Live(t) : j < i
      BY <1>1, <1>2 DEF Live
    <2> QED
      BY <2>1, <2>2
  <1>3. CASE live # {}
    <2> DEFINE b == Min(live)
    <2>1. b \in live /\ \A j \in live : b <= j
      <3>1. live \subseteq Nat
        BY <1>1
      <3> QED
        BY <1>3, <3>1, MinOf
    <2>2. LiveBucketFrom(t, i) = NextResult(t.buckets[b].k, t.buckets[b].v)
      BY <1>3, Zenon DEF LiveBucketFrom
    <2> HIDE DEF b
    <2>3. b \in Live(t) /\ i <= b /\ \A j \in Live(t) : i <= j => b <= j
      BY <1>1, <2>1 DEF Live
    <2> QED
      BY <2>2, <2>3
  <1> QED
    BY <1>2, <1>3

(* The live bucket of a key is the one its read in the hash part finds.      *)
LEMMA LiveKey ==
  ASSUME NEW t \in Tables
  PROVE  /\ \A b \in Live(t) : /\ t.buckets[b].k \in Keys /\ t.buckets[b].k # Empty
                               /\ BucketOf(t, t.buckets[b].k) = b
                               /\ HashGet(t, t.buckets[b].k) # Empty
         /\ \A k : HashGet(t, k) # Empty => /\ BucketOf(t, k) \in Live(t)
                                            /\ t.buckets[BucketOf(t, k)].k = k
  <1>1. Empty \notin Keys
    BY TableConstants DEF Keys, IntKeys
  <1>2. ASSUME NEW b \in Live(t)
        PROVE  /\ t.buckets[b].k \in Keys /\ t.buckets[b].k # Empty
               /\ BucketOf(t, t.buckets[b].k) = b
               /\ HashGet(t, t.buckets[b].k) # Empty
    <2>1. b \in DOMAIN t.buckets /\ t.buckets[b].v # Empty
      BY DEF Live
    <2>2. BucketOf(t, t.buckets[b].k) = b
      BY <2>1, BucketOfFound
    <2>3. b # 0 /\ t.buckets[b].k \in Keys
      BY <2>1, TableShape
    <2> QED
      BY <1>1, <2>1, <2>2, <2>3 DEF HashGet
  <1>3. ASSUME NEW k, HashGet(t, k) # Empty
        PROVE  BucketOf(t, k) \in Live(t) /\ t.buckets[BucketOf(t, k)].k = k
    BY <1>3, Bucket DEF HashGet, Live
  <1> QED
    BY <1>2, <1>3

(* A walk that lands on the first live bucket from i on, with a hidden one   *)
(* from i on, is still trapped.                                              *)
LEMMA StillTrapped ==
  ASSUME NEW t \in Tables, NEW b \in Live(t), NEW i \in Nat,
         \A c \in Live(t) : i <= c => b <= c,
         NEW j \in Shadowed(t), i <= BucketOf(t, j)
  PROVE  Trapped(t, t.buckets[b].k)
  <1> DEFINE k == t.buckets[b].k
  <1>1. HashGet(t, j) # Empty /\ InArray(t, j)
    BY DEF Shadowed
  <1>2. b <= BucketOf(t, j) /\ t.buckets[BucketOf(t, j)].k = j /\ BucketOf(t, k) = b
    BY <1>1, LiveKey
  <1>3. CASE InArray(t, k)
    BY <1>3 DEF Trapped
  <1>4. CASE ~InArray(t, k)
    <2>1. b # BucketOf(t, j)
      BY <1>1, <1>2, <1>4
    <2>2. b \in Int /\ BucketOf(t, j) \in Int
      BY Bucket, TableShape DEF Live
    <2>3. BucketOf(t, k) < BucketOf(t, j)
      BY <1>2, <2>1, <2>2
    <2> QED
      BY <2>3 DEF Trapped
  <1> QED
    BY <1>3, <1>4

(* A step of the walk.                                                       *)
LEMMA NextOnTheWay ==
  ASSUME NEW t \in Tables, NEW m \in [Keys -> Content], Agrees(t, m),
         NEW k, NEW seen, NEW twice \in BOOLEAN, OnTheWay(t, m, k, seen, twice),
         NEW r, r = TableNext(t, k)
  PROVE  /\ ~r.err
         /\ r.k = NoKey => ~twice /\ \A j \in Keys : m[j] # Empty => j \in seen
         /\ r.k # NoKey => OnTheWay(t, m, r.k, seen \cup {r.k}, twice \/ r.k \in seen)
  <1> DEFINE n == Len(t.array)
             Goal(x) == OnTheWay(t, m, x, seen \cup {x}, twice \/ x \in seen)
  <1>1. /\ k \in Keys /\ NormKey(k) = k /\ k # NoKey
        /\ ~ArrayHasHole(t)
        /\ InArray(t, k) \/ BucketOf(t, k) # 0
        /\ Trapped(t, k) \/ (~twice /\ (ArrayPhase(t, k, seen) \/ HashPhase(t, m, k, seen)))
    BY Norm, TableConstants DEF OnTheWay, NoKey, Keys, IntKeys
  <1>2. /\ n \in 0..MaxInt /\ MaxInt \in Nat /\ IntKeys = 1..MaxInt /\ IntKeys \subseteq Keys
        /\ Empty \notin Keys
    BY TableShape, TableConstants DEF Keys, IntKeys
  <1>3. \A j : InArray(t, j) <=> j \in 1..n
    BY <1>2 DEF InArray
  <1>4. \A j : Present(t, j) <=> InArray(t, j)
    BY <1>1, <1>3 DEF Present, ArrayHasHole
  <1>5. \A j \in Keys : m[j] # Empty => InArray(t, j) \/ HashGet(t, j) # Empty
    BY GetKey DEF Agrees, Reads
  <1>6. \A j : BucketOf(t, j) \in Nat
    BY Bucket, TableShape
  <1>7. \A j : j \in Shadowed(t) <=> InArray(t, j) /\ HashGet(t, j) # Empty
    BY DEF Shadowed, InArray
  <1>8. Live(t) \subseteq Nat \ {0}
    BY TableShape DEF Live
  <1>9. ASSUME NEW b \in Live(t), r = NextResult(t.buckets[b].k, t.buckets[b].v)
        PROVE  /\ ~r.err /\ r.k = t.buckets[b].k /\ r.k \in Keys /\ r.k # NoKey
               /\ BucketOf(t, r.k) = b /\ HashGet(t, r.k) # Empty
    BY <1>9, LiveKey DEF NextResult, NoKey
  <1>10. CASE InArray(t, k)
    <2>1. TableNext(t, k) = IF InArray(t, k + 1) THEN NextResult(k + 1, t.array[k + 1])
                            ELSE LiveBucketFrom(t, 1)
      BY <1>1, <1>4, <1>10, Zenon DEF TableNext, FindFirstHash
    <2>2. k \in 1..n /\ ~HashPhase(t, m, k, seen)
      BY <1>3, <1>10 DEF HashPhase
    <2>3. CASE InArray(t, k + 1)
      <3>1. ~r.err /\ r.k = k + 1
        BY <2>1, <2>3 DEF NextResult
      <3>2. k + 1 \in Keys /\ k + 1 # NoKey
        BY <1>2, <1>3, <2>3 DEF NoKey
      <3>3. CASE Trapped(t, k)
        <4>1. Trapped(t, k + 1)
          BY <2>3, <3>3 DEF Trapped
        <4> QED
          BY <1>1, <2>3, <3>1, <3>2, <4>1 DEF OnTheWay
      <3>4. CASE ~twice /\ ArrayPhase(t, k, seen)
        <4>1. seen = 1..k /\ Shadowed(t) = {}
          BY <3>4 DEF ArrayPhase
        <4>2. k + 1 \notin seen /\ seen \cup {k + 1} = 1..(k + 1)
          BY <1>2, <2>2, <4>1
        <4>3. ArrayPhase(t, k + 1, seen \cup {k + 1})
          BY <2>3, <4>1, <4>2 DEF ArrayPhase
        <4> QED
          BY <1>1, <2>3, <3>1, <3>2, <3>4, <4>2, <4>3 DEF OnTheWay
      <3> QED
        BY <1>1, <2>2, <3>3, <3>4
    <2>4. CASE ~InArray(t, k + 1)
      <3>1. r = LiveBucketFrom(t, 1) /\ k = n
        BY <1>2, <1>3, <2>1, <2>2, <2>4
      <3>2. CASE r = NextEnd /\ Live(t) = {}
        <4>1. \A j : HashGet(t, j) = Empty
          BY <3>2, LiveKey
        <4>2. ~Trapped(t, k)
          BY <1>7, <4>1 DEF Trapped
        <4>3. ~twice /\ seen = 1..n
          BY <1>1, <2>2, <3>1, <4>2 DEF ArrayPhase
        <4>4. \A j \in Keys : m[j] # Empty => j \in seen
          BY <1>3, <1>5, <4>1, <4>3
        <4>5. ~r.err /\ r.k = NoKey
          BY <3>2 DEF NextEnd, NextResult
        <4> QED
          BY <4>3, <4>4, <4>5
      <3>3. ASSUME NEW b \in Live(t), r = NextResult(t.buckets[b].k, t.buckets[b].v),
                   \A j \in Live(t) : b <= j
            PROVE  ~r.err /\ r.k # NoKey /\ Goal(r.k)
        <4>1. /\ ~r.err /\ r.k = t.buckets[b].k /\ r.k \in Keys /\ r.k # NoKey
              /\ BucketOf(t, r.k) = b /\ HashGet(t, r.k) # Empty /\ b # 0
          BY <1>8, <1>9, <3>3
        <4>2. CASE Trapped(t, k)
          <5>1. PICK j \in Shadowed(t) : TRUE
            BY <4>2 DEF Trapped
          <5>2. Trapped(t, r.k)
            BY <1>6, <3>3, <4>1, <5>1, StillTrapped, 0 \in Nat
          <5> QED
            BY <1>1, <4>1, <5>2 DEF OnTheWay
        <4>3. CASE ~twice /\ ArrayPhase(t, k, seen)
          <5>1. Shadowed(t) = {} /\ \A j : j \in seen <=> InArray(t, j)
            BY <1>3, <3>1, <4>3 DEF ArrayPhase
          <5>2. ~InArray(t, r.k) /\ r.k \notin seen
            BY <1>7, <4>1, <5>1
          <5>3. \A j \in Keys : m[j] # Empty =>
            j \in seen \cup {r.k} \/ (~InArray(t, j) /\ b < BucketOf(t, j))
            <6> SUFFICES ASSUME NEW j \in Keys, m[j] # Empty, j \notin seen \cup {r.k}
                         PROVE  ~InArray(t, j) /\ b < BucketOf(t, j)
              OBVIOUS
            <6>0. j \notin seen /\ j # r.k /\ ~InArray(t, j)
              BY <5>1
            <6>1. HashGet(t, j) # Empty
              BY <1>5, <6>0
            <6>2. BucketOf(t, j) \in Live(t) /\ t.buckets[BucketOf(t, j)].k = j
              BY <6>1, LiveKey
            <6>3. b <= BucketOf(t, j) /\ b # BucketOf(t, j)
              BY <3>3, <4>1, <6>0, <6>2
            <6> QED
              BY <1>6, <1>8, <6>0, <6>3
          <5>4. HashPhase(t, m, r.k, seen \cup {r.k})
            BY <1>8, <4>1, <5>1, <5>2, <5>3 DEF HashPhase
          <5> QED
            BY <1>1, <4>1, <4>3, <5>2, <5>4 DEF OnTheWay
        <4> QED
          BY <1>1, <2>2, <4>1, <4>2, <4>3
      <3>4. \/ r = NextEnd /\ Live(t) = {}
            \/ \E b \in Live(t) : /\ r = NextResult(t.buckets[b].k, t.buckets[b].v)
                                  /\ \A j \in Live(t) : b <= j
        BY <1>8, <3>1, LiveBucket, 1 \in Nat \ {0}
      <3> QED
        BY <3>2, <3>3, <3>4
    <2> QED
      BY <2>3, <2>4
  <1>11. CASE ~InArray(t, k)
    <2> DEFINE p == BucketOf(t, k)
    <2>1. p \in Nat \ {0} /\ p + 1 \in Nat \ {0} /\ ~ArrayPhase(t, k, seen)
      BY <1>1, <1>6, <1>11 DEF ArrayPhase
    <2>2. r = LiveBucketFrom(t, p + 1)
      BY <1>1, <1>4, <1>11, Zenon DEF TableNext, FindNextHash
    <2> HIDE DEF p
    <2>3. Trapped(t, k) => \E j \in Shadowed(t) : p < BucketOf(t, j)
      BY <1>11 DEF Trapped, p
    <2>4. HashPhase(t, m, k, seen) =>
            /\ \A j \in Shadowed(t) : BucketOf(t, j) <= p
            /\ \A j \in seen : InArray(t, j) \/ BucketOf(t, j) <= p
            /\ \A j \in Keys : m[j] # Empty =>
                 j \in seen \/ (~InArray(t, j) /\ p < BucketOf(t, j))
      BY Zenon DEF HashPhase, p
    <2>5. CASE r = NextEnd /\ \A j \in Live(t) : j < p + 1
      <3>1. \A j : HashGet(t, j) # Empty => BucketOf(t, j) < p + 1
        BY <2>5, LiveKey
      <3>2. ~Trapped(t, k)
        BY <1>6, <1>7, <2>1, <2>3, <3>1
      <3>3. ~twice /\ HashPhase(t, m, k, seen)
        BY <1>1, <2>1, <3>2
      <3>4. \A j \in Keys : m[j] # Empty => j \in seen
        BY <1>5, <1>6, <2>1, <2>4, <3>1, <3>3
      <3>5. ~r.err /\ r.k = NoKey
        BY <2>5 DEF NextEnd, NextResult
      <3> QED
        BY <3>3, <3>4, <3>5
    <2>6. ASSUME NEW b \in Live(t), r = NextResult(t.buckets[b].k, t.buckets[b].v),
                 p + 1 <= b, \A j \in Live(t) : p + 1 <= j => b <= j
          PROVE  ~r.err /\ r.k # NoKey /\ Goal(r.k)
      <3>1. /\ ~r.err /\ r.k = t.buckets[b].k /\ r.k \in Keys /\ r.k # NoKey
            /\ BucketOf(t, r.k) = b /\ HashGet(t, r.k) # Empty /\ b # 0
        BY <1>8, <1>9, <2>6
      <3>2. CASE Trapped(t, k)
        <4>1. PICK j \in Shadowed(t) : p < BucketOf(t, j)
          BY <2>3, <3>2
        <4>2. p + 1 \in Nat /\ p + 1 <= BucketOf(t, j)
          BY <1>6, <2>1, <4>1
        <4>3. Trapped(t, r.k)
          BY <2>6, <3>1, <4>2, StillTrapped
        <4> QED
          BY <1>1, <3>1, <4>3 DEF OnTheWay
      <3>3. CASE ~twice /\ HashPhase(t, m, k, seen)
        <4>1. p < b /\ b \in Nat
          BY <1>8, <2>1, <2>6
        <4>2. ~InArray(t, r.k) /\ r.k \notin seen
          BY <1>7, <2>1, <2>4, <3>1, <3>3, <4>1
        <4>3. \A j \in Keys : m[j] # Empty =>
            j \in seen \cup {r.k} \/ (~InArray(t, j) /\ b < BucketOf(t, j))
          <5> SUFFICES ASSUME NEW j \in Keys, m[j] # Empty, j \notin seen \cup {r.k}
                       PROVE  ~InArray(t, j) /\ b < BucketOf(t, j)
            OBVIOUS
          <5>1. ~InArray(t, j) /\ p < BucketOf(t, j)
            BY <2>4, <3>3
          <5>2. BucketOf(t, j) \in Live(t) /\ t.buckets[BucketOf(t, j)].k = j
            BY <1>5, <5>1, LiveKey
          <5>3. b <= BucketOf(t, j) /\ b # BucketOf(t, j)
            BY <1>6, <2>1, <2>6, <3>1, <5>1, <5>2
          <5> QED
            BY <1>6, <4>1, <5>1, <5>3
        <4>4. /\ \A j \in Shadowed(t) : BucketOf(t, j) <= b
              /\ \A j \in seen \cup {r.k} : InArray(t, j) \/ BucketOf(t, j) <= b
          BY <1>6, <2>1, <2>4, <3>1, <3>3, <4>1
        <4>5. HashPhase(t, m, r.k, seen \cup {r.k})
          BY <3>1, <4>2, <4>3, <4>4 DEF HashPhase
        <4> QED
          BY <1>1, <3>1, <3>3, <4>2, <4>5 DEF OnTheWay
      <3> QED
        BY <1>1, <2>1, <3>1, <3>2, <3>3
    <2>7. \/ r = NextEnd /\ \A j \in Live(t) : j < p + 1
          \/ \E b \in Live(t) : /\ r = NextResult(t.buckets[b].k, t.buckets[b].v)
                                /\ p + 1 <= b
                                /\ \A j \in Live(t) : p + 1 <= j => b <= j
      BY <2>1, <2>2, LiveBucket
    <2> QED
      BY <2>5, <2>6, <2>7
  <1> QED
    BY <1>10, <1>11

-----------------------------------------------------------------------------
(* What the loop writes.                                                     *)

(* A write to a field that is there moves no bucket; if the array grows, the *)
(* bucket of the field is now hidden.                                        *)
LEMMA WriteExisting ==
  ASSUME NEW t \in Tables, NEW key \in Keys \cup FloatKeys, NEW v \in Content,
         Get(t, key) # Empty,
         NEW u, u = SetSlot(t, key, v)
  PROVE  /\ \A j : BucketOf(u, j) = BucketOf(t, j)
         /\ \A j : InArray(t, j) => InArray(u, j) /\ HashGet(u, j) = HashGet(t, j)
         /\ \A j : InArray(u, j) => InArray(t, j) \/ (j = NormKey(key) /\ HashGet(u, j) # Empty)
  <1> DEFINE k == NormKey(key)
             n == Len(t.array)
  <1>0. k \in Keys /\ n \in 0..MaxInt /\ Get(t, k) # Empty
    BY Norm, TableShape, GetType
  <1>1. CASE InArray(t, k)
    <2>1. u = [t EXCEPT !.array[k] = v]
      BY <1>1 DEF SetSlot
    <2>2. u.buckets = t.buckets /\ Len(u.array) = n
      <3>1. u.buckets = t.buckets /\ u.array = [t.array EXCEPT ![k] = v]
        BY <2>1, TableShape
      <3>2. t.array \in [1..n -> Content]
        BY TableShape
      <3>3. [t.array EXCEPT ![k] = v] \in [1..n -> Content]
        BY <3>2
      <3> QED
        BY <1>0, <3>1, <3>3
    <2> QED
      BY <2>2 DEF BucketOf, HashGet, InArray
  <1>2. CASE ~InArray(t, k) /\ k = n + 1 /\ v # Empty
    <2>1. u = [t EXCEPT !.array = Append(t.array, v)]
      BY <1>2 DEF SetSlot
    <2>2. u.buckets = t.buckets /\ u.array = Append(t.array, v)
      BY <2>1, TableShape
    <2>3. Len(u.array) = n + 1
      BY <2>2, TableShape
    <2>4. HashGet(t, k) # Empty
      BY <1>0, <1>2, GetKey
    <2>5. \A j : BucketOf(u, j) = BucketOf(t, j) /\ HashGet(u, j) = HashGet(t, j)
      BY <2>2 DEF BucketOf, HashGet
    <2>6. \A j : InArray(t, j) => InArray(u, j)
      BY <1>0, <2>3 DEF InArray, IntKeys
    <2>7. \A j : InArray(u, j) => InArray(t, j) \/ j = k
      BY <1>0, <1>2, <2>3 DEF InArray, IntKeys
    <2> QED
      BY <2>4, <2>5, <2>6, <2>7
  <1>3. CASE ~InArray(t, k) /\ ~(k = n + 1 /\ v # Empty)
    <2>1. u = HashSet(t, k, v)
      BY <1>3 DEF SetSlot
    <2>2. BucketOf(t, k) # 0
      BY <1>0, <1>3, GetKey DEF HashGet
    <2>3. /\ u.array = t.array
          /\ \A j : j # k => HashGet(u, j) = HashGet(t, j) /\ BucketOf(u, j) = BucketOf(t, j)
          /\ BucketOf(u, k) = BucketOf(t, k)
      BY <1>0, <2>1, <2>2, HashSetReads
    <2>4. \A j : InArray(u, j) <=> InArray(t, j)
      BY <2>3 DEF InArray
    <2> QED
      BY <1>3, <2>3, <2>4
  <1> QED
    BY <1>1, <1>2, <1>3

LEMMA WriteOnTheWay ==
  ASSUME NEW t \in Tables, NEW m \in [Keys -> Content], Agrees(t, m),
         NEW k, NEW seen, NEW twice \in BOOLEAN, OnTheWay(t, m, k, seen, twice),
         NEW key \in Keys \cup FloatKeys, NEW v \in Content, m[NormKey(key)] # Empty,
         NEW u, u = SetSlot(t, key, v), ~ArrayHasHole(u)
  PROVE  OnTheWay(u, [m EXCEPT ![NormKey(key)] = v], k, seen, twice)
  <1> DEFINE kk == NormKey(key)
             p == BucketOf(t, k)
             s == [m EXCEPT ![kk] = v]
  <1>1. /\ k \in Keys
        /\ InArray(t, k) \/ p # 0
        /\ Trapped(t, k) \/ (~twice /\ (ArrayPhase(t, k, seen) \/ HashPhase(t, m, k, seen)))
    BY DEF OnTheWay
  <1>2. kk \in Keys /\ Get(t, kk) # Empty /\ Get(t, key) # Empty
    BY Norm, GetType DEF Agrees, Reads
  <1>3. /\ \A j : BucketOf(u, j) = BucketOf(t, j)
        /\ \A j : InArray(t, j) => InArray(u, j) /\ HashGet(u, j) = HashGet(t, j)
        /\ \A j : InArray(u, j) => InArray(t, j) \/ (j = kk /\ HashGet(u, j) # Empty)
    BY <1>2, WriteExisting
  <1>4. \A j \in Keys : s[j] # Empty => m[j] # Empty
    BY <1>2
  <1>5. \A j : BucketOf(t, j) \in Nat
    BY Bucket, TableShape
  <1>6. InArray(u, k) \/ BucketOf(u, k) # 0
    BY <1>1, <1>3
  <1> HIDE DEF s, kk, p
  <1>7. Shadowed(t) \subseteq Shadowed(u)
    BY <1>3 DEF Shadowed
  <1>8. ASSUME NEW j \in Shadowed(u), j \notin Shadowed(t)
        PROVE  j = kk /\ ~InArray(t, j) /\ InArray(u, j)
    BY <1>3, <1>8 DEF Shadowed
  <1>9. ASSUME Trapped(t, k) PROVE Trapped(u, k)
    BY <1>3, <1>7, <1>9 DEF Trapped
  <1>10. ASSUME ArrayPhase(t, k, seen) PROVE Trapped(u, k) \/ ArrayPhase(u, k, seen)
    <2>1. InArray(u, k) /\ seen = 1..k
      BY <1>3, <1>10 DEF ArrayPhase
    <2>2. Shadowed(u) # {} => Trapped(u, k)
      BY <2>1 DEF Trapped
    <2> QED
      BY <2>1, <2>2 DEF ArrayPhase
  <1>11. ASSUME HashPhase(t, m, k, seen), ~Trapped(u, k) PROVE HashPhase(u, s, k, seen)
    <2>1. /\ ~InArray(t, k)
          /\ \A j \in seen : InArray(t, j) \/ BucketOf(t, j) <= p
          /\ \A j \in Keys : m[j] # Empty => j \in seen \/ (~InArray(t, j) /\ p < BucketOf(t, j))
      BY <1>11, Zenon DEF HashPhase, p
    <2>2. \A j \in Shadowed(u) : ~InArray(u, k) /\ BucketOf(u, j) <= BucketOf(u, k)
      BY <1>3, <1>5, <1>11 DEF Trapped
    <2>3. ~InArray(u, k)
      <3> SUFFICES ASSUME InArray(u, k) PROVE FALSE
        OBVIOUS
      <3>1. HashGet(u, k) # Empty
        BY <1>3, <2>1
      <3>2. k \in Shadowed(u)
        BY <3>1 DEF Shadowed, InArray
      <3> QED
        BY <2>2, <3>2
    <2>4. \A j \in seen : InArray(u, j) \/ BucketOf(u, j) <= BucketOf(u, k)
      BY <1>3, <2>1 DEF p
    <2>5. ASSUME NEW j \in Keys, s[j] # Empty, j \notin seen
          PROVE  ~InArray(u, j) /\ BucketOf(u, k) < BucketOf(u, j)
      <3>1. ~InArray(t, j) /\ p < BucketOf(t, j)
        BY <1>4, <2>1, <2>5
      <3>2. BucketOf(u, k) < BucketOf(u, j)
        BY <1>3, <3>1 DEF p
      <3>3. ASSUME InArray(u, j) PROVE FALSE
        <4>1. j \in Shadowed(u)
          BY <1>3, <3>1, <3>3 DEF Shadowed, InArray
        <4> QED
          BY <1>3, <1>5, <2>2, <3>2, <4>1
      <3> QED
        BY <3>2, <3>3
    <2> QED
      BY <2>2, <2>3, <2>4, <2>5 DEF HashPhase
  <1>12. Trapped(u, k) \/ (~twice /\ (ArrayPhase(u, k, seen) \/ HashPhase(u, s, k, seen)))
    BY <1>1, <1>9, <1>10, <1>11
  <1> QED
    BY <1>1, <1>6, <1>12 DEF OnTheWay, s, kk

-----------------------------------------------------------------------------
(* The first field.                                                          *)

LEMMA FirstOnTheWay ==
  ASSUME NEW t \in Tables, NEW m \in [Keys -> Content], Agrees(t, m), ~ArrayHasHole(t),
         NEW r, r = TableNext(t, NoKey)
  PROVE  /\ ~r.err
         /\ r.k = NoKey => \A j \in Keys : m[j] = Empty
         /\ r.k # NoKey => OnTheWay(t, m, r.k, {r.k}, FALSE)
  <1> DEFINE n == Len(t.array)
             live == {i \in 1..n : Present(t, i)}
  <1>1. /\ n \in 0..MaxInt /\ MaxInt \in Nat /\ IntKeys = 1..MaxInt /\ IntKeys \subseteq Keys
        /\ Empty \notin Keys
    BY TableShape, TableConstants DEF Keys, IntKeys
  <1>2. \A j : InArray(t, j) <=> j \in 1..n
    BY <1>1 DEF InArray
  <1>3. live = 1..n
    BY DEF Present, ArrayHasHole
  <1>4. \A j \in Keys : m[j] # Empty => InArray(t, j) \/ HashGet(t, j) # Empty
    BY GetKey DEF Agrees, Reads
  <1>5. Live(t) \subseteq Nat \ {0}
    BY TableShape DEF Live
  <1>6. r = IF live = {} THEN LiveBucketFrom(t, 1) ELSE NextResult(Min(live), t.array[Min(live)])
    BY Zenon DEF TableNext, FindFirst, FindFirstHash
  <1>7. CASE n # 0
    <2>1. live # {} /\ live \subseteq Nat /\ 1 \in live
      BY <1>1, <1>3, <1>7
    <2>2. Min(live) \in live /\ \A j \in live : Min(live) <= j
      BY <2>1, MinOf
    <2>3. Min(live) = 1
      BY <1>3, <2>1, <2>2
    <2>4. ~r.err /\ r.k = 1
      BY <1>6, <2>1, <2>3 DEF NextResult
    <2>5. 1 \in Keys /\ InArray(t, 1) /\ 1 # NoKey
      BY <1>1, <1>2, <1>7 DEF NoKey
    <2>6. CASE Shadowed(t) = {}
      <3>1. ArrayPhase(t, 1, {1})
        BY <2>5, <2>6 DEF ArrayPhase
      <3> QED
        BY <2>4, <2>5, <3>1 DEF OnTheWay
    <2>7. CASE Shadowed(t) # {}
      <3>1. Trapped(t, 1)
        BY <2>5, <2>7 DEF Trapped
      <3> QED
        BY <2>4, <2>5, <3>1 DEF OnTheWay
    <2> QED
      BY <2>6, <2>7
  <1>8. CASE n = 0
    <2>1. r = LiveBucketFrom(t, 1) /\ (\A j : ~InArray(t, j)) /\ Shadowed(t) = {}
      BY <1>2, <1>3, <1>6, <1>8 DEF Shadowed
    <2>2. CASE r = NextEnd /\ \A j \in Live(t) : j < 1
      <3>1. \A j : HashGet(t, j) = Empty
        BY <1>5, <2>2, LiveKey
      <3>2. \A j \in Keys : m[j] = Empty
        BY <1>4, <2>1, <3>1
      <3>3. ~r.err /\ r.k = NoKey
        BY <2>2 DEF NextEnd, NextResult
      <3> QED
        BY <3>2, <3>3
    <2>3. ASSUME NEW b \in Live(t), r = NextResult(t.buckets[b].k, t.buckets[b].v),
                 \A j \in Live(t) : 1 <= j => b <= j
          PROVE  ~r.err /\ r.k # NoKey /\ OnTheWay(t, m, r.k, {r.k}, FALSE)
      <3>1. /\ ~r.err /\ r.k = t.buckets[b].k /\ r.k \in Keys /\ r.k # NoKey
            /\ BucketOf(t, r.k) = b /\ b \in Nat \ {0}
        BY <1>5, <2>3, LiveKey DEF NextResult, NoKey
      <3>2. ASSUME NEW j \in Keys, m[j] # Empty, j \notin {r.k}
            PROVE  b < BucketOf(t, j)
        <4>1. BucketOf(t, j) \in Live(t) /\ t.buckets[BucketOf(t, j)].k = j
          BY <1>4, <2>1, <3>2, LiveKey
        <4>2. b <= BucketOf(t, j) /\ b # BucketOf(t, j) /\ BucketOf(t, j) \in Nat
          BY <1>5, <2>3, <3>1, <3>2, <4>1
        <4> QED
          BY <3>1, <4>2
      <3>3. HashPhase(t, m, r.k, {r.k})
        BY <2>1, <3>1, <3>2 DEF HashPhase
      <3> QED
        BY <3>1, <3>3 DEF OnTheWay
    <2> QED
      BY <2>1, <2>2, <2>3, LiveBucket, 1 \in Nat \ {0}
  <1> QED
    BY <1>7, <1>8

-----------------------------------------------------------------------------
(* Every step.                                                               *)

LEMMA WalkInit == Init => WalkInv
  BY DEF Init, Idle, WalkInv, TravShape, TraversalExact

(* Recording what `next` gave.                                               *)
LEMMA Recorded ==
  ASSUME TravShape, NEW r
  PROVE  /\ DOMAIN Record(r) = DOMAIN trav
         /\ Record(r).owed = trav.owed /\ Record(r).swept = trav.swept
         /\ Record(r).holes = trav.holes
         /\ Record(r).twice \in BOOLEAN
         /\ r.err => Record(r).st = "failed"
         /\ (~r.err /\ r.k = NoKey) => /\ Record(r).st = "done"
                                       /\ Record(r).seen = trav.seen
                                       /\ Record(r).twice = trav.twice
         /\ (~r.err /\ r.k # NoKey) => /\ Record(r).st = "running"
                                       /\ Record(r).key = r.k
                                       /\ Record(r).seen = trav.seen \cup {r.k}
                                       /\ Record(r).twice = (trav.twice \/ r.k \in trav.seen)
  <1>1. CASE r.err
    <2>1. Record(r) = [trav EXCEPT !.st = "failed"]
      BY <1>1 DEF Record
    <2> QED
      BY <1>1, <2>1 DEF TravShape
  <1>2. CASE ~r.err /\ r.k = NoKey
    <2>1. Record(r) = [trav EXCEPT !.st = "done"]
      BY <1>2 DEF Record
    <2> QED
      BY <1>2, <2>1 DEF TravShape
  <1>3. CASE ~r.err /\ r.k # NoKey
    <2>1. Record(r) = [trav EXCEPT !.st = "running", !.key = r.k, !.seen = @ \cup {r.k},
                                   !.twice = @ \/ r.k \in trav.seen]
      BY <1>3 DEF Record
    <2> QED
      BY <1>3, <2>1 DEF TravShape
  <1> QED
    BY <1>1, <1>2, <1>3

LEMMA StartWalk ==
  ASSUME IInv, WalkInv, TraverseStart
  PROVE  WalkInv'
  <1> DEFINE r == TableNext(tab, NoKey)
             R == Record(r)
             hole == ArrayHasHole(tab)
  <1>1. /\ trav' = [R EXCEPT !.owed = {k \in Keys : shadow[k] # Empty}, !.holes = hole]
        /\ tab' = tab /\ shadow' = shadow
    BY Zenon DEF TraverseStart
  <1>2. /\ trav.seen = {} /\ trav.twice = FALSE /\ trav.swept = FALSE /\ trav = Idle
    BY DEF TraverseStart, WalkInv, Idle
  <1>3. /\ tab \in Tables /\ shadow \in [Keys -> Content] /\ Agrees(tab, shadow)
        /\ TravShape /\ hole \in BOOLEAN
    BY DEF IInv, WalkInv, ArrayHasHole
  <1>4. ~hole => /\ ~r.err
                 /\ r.k = NoKey => \A j \in Keys : shadow[j] = Empty
                 /\ r.k # NoKey => OnTheWay(tab, shadow, r.k, {r.k}, FALSE)
    BY <1>3, FirstOnTheWay
  <1>5. /\ DOMAIN R = DOMAIN trav
        /\ R.swept = FALSE /\ R.twice \in BOOLEAN
        /\ r.err => R.st = "failed"
        /\ (~r.err /\ r.k = NoKey) => R.st = "done" /\ R.twice = FALSE
        /\ (~r.err /\ r.k # NoKey) => R.st = "running" /\ R.key = r.k /\ R.seen = {r.k} /\ R.twice = FALSE
    BY <1>2, <1>3, Recorded
  <1> HIDE DEF R, r, hole
  <1>6. /\ trav'.st = R.st /\ trav'.key = R.key /\ trav'.seen = R.seen /\ trav'.twice = R.twice
        /\ trav'.swept = R.swept /\ trav'.owed = Fields /\ trav'.holes = hole
        /\ DOMAIN trav' = DOMAIN trav
    BY <1>1, <1>3, <1>5 DEF Fields, TravShape
  <1>7. TravShape'
    BY <1>3, <1>5, <1>6 DEF TravShape
  <1>8. Fields' = Fields
    BY <1>1 DEF Fields
  <1>9. trav'.st \in {"idle", "running", "done", "failed"} /\ trav'.st # "idle"
    BY <1>5, <1>6
  <1>10. (trav'.st = "running" /\ ~trav'.holes /\ ~trav'.swept) =>
           OnTheWay(tab', shadow', trav'.key, trav'.seen, trav'.twice)
    BY <1>1, <1>4, <1>5, <1>6
  <1>11. TraversalExact'
    <2> SUFFICES ASSUME trav'.st \in {"done", "failed"}, ~trav'.holes, ~trav'.swept
                 PROVE  trav'.st = "done" /\ trav'.owed \subseteq trav'.seen /\ ~trav'.twice
      BY DEF TraversalExact
    <2>1. ~r.err /\ r.k = NoKey /\ \A j \in Keys : shadow[j] = Empty
      BY <1>4, <1>5, <1>6
    <2> QED
      BY <1>5, <1>6, <2>1 DEF Fields
  <1> QED
    BY <1>6, <1>7, <1>8, <1>9, <1>10, <1>11 DEF WalkInv

LEMMA StepWalk ==
  ASSUME IInv, WalkInv, TraverseStep
  PROVE  WalkInv'
  <1> DEFINE r == TableNext(tab, trav.key)
             R == Record(r)
  <1>1. trav.st = "running" /\ trav' = R /\ tab' = tab /\ shadow' = shadow
    BY DEF TraverseStep
  <1>2. /\ tab \in Tables /\ shadow \in [Keys -> Content] /\ Agrees(tab, shadow)
        /\ TravShape /\ trav.owed \subseteq Fields /\ trav.twice \in BOOLEAN
    BY <1>1 DEF IInv, WalkInv, TravShape
  <1>3. (~trav.holes /\ ~trav.swept) =>
          OnTheWay(tab, shadow, trav.key, trav.seen, trav.twice)
    BY <1>1 DEF WalkInv
  <1>4. (~trav.holes /\ ~trav.swept) =>
          /\ ~r.err
          /\ r.k = NoKey => ~trav.twice /\ \A j \in Keys : shadow[j] # Empty => j \in trav.seen
          /\ r.k # NoKey => OnTheWay(tab, shadow, r.k, trav.seen \cup {r.k},
                                     trav.twice \/ r.k \in trav.seen)
    BY <1>2, <1>3, NextOnTheWay
  <1>5. /\ DOMAIN R = DOMAIN trav
        /\ R.owed = trav.owed /\ R.swept = trav.swept /\ R.holes = trav.holes
        /\ R.twice \in BOOLEAN
        /\ r.err => R.st = "failed"
        /\ (~r.err /\ r.k = NoKey) => R.st = "done" /\ R.seen = trav.seen /\ R.twice = trav.twice
        /\ (~r.err /\ r.k # NoKey) => /\ R.st = "running" /\ R.key = r.k
                                      /\ R.seen = trav.seen \cup {r.k}
                                      /\ R.twice = (trav.twice \/ r.k \in trav.seen)
    BY <1>2, Recorded
  <1> HIDE DEF R, r
  <1>6. TravShape'
    BY <1>1, <1>2, <1>5 DEF TravShape
  <1>7. trav'.st \in {"running", "done", "failed"} /\ Fields' = Fields
    BY <1>1, <1>5 DEF Fields
  <1>8. ASSUME trav'.st = "running", ~trav'.holes, ~trav'.swept
        PROVE  OnTheWay(tab', shadow', trav'.key, trav'.seen, trav'.twice)
    <2>1. ~trav.holes /\ ~trav.swept /\ ~r.err /\ r.k # NoKey
      BY <1>1, <1>4, <1>5, <1>8
    <2> QED
      BY <1>1, <1>4, <1>5, <2>1
  <1>9. TraversalExact'
    <2> SUFFICES ASSUME trav'.st \in {"done", "failed"}, ~trav'.holes, ~trav'.swept
                 PROVE  trav'.st = "done" /\ trav'.owed \subseteq trav'.seen /\ ~trav'.twice
      BY DEF TraversalExact
    <2>1. /\ ~r.err /\ r.k = NoKey /\ ~trav.twice
          /\ \A j \in Keys : shadow[j] # Empty => j \in trav.seen
      BY <1>1, <1>4, <1>5
    <2> QED
      BY <1>1, <1>2, <1>5, <2>1 DEF Fields
  <1> QED
    BY <1>1, <1>2, <1>5, <1>6, <1>7, <1>8, <1>9 DEF WalkInv

LEMMA AssignWalk ==
  ASSUME IInv, WalkInv, NEW key \in Keys \cup FloatKeys, NEW v \in Content, Assign(key, v)
  PROVE  WalkInv'
  <1> DEFINE hole == ArrayHasHole(tab')
  <1>1. /\ tab' = SetSlot(tab, key, v) /\ shadow' = [shadow EXCEPT ![NormKey(key)] = v]
        /\ trav.st = "running" => shadow[NormKey(key)] # Empty
        /\ Follow(tab', shadow')
    BY DEF Assign
  <1>2. /\ tab \in Tables /\ shadow \in [Keys -> Content] /\ Agrees(tab, shadow)
        /\ TravShape /\ trav.twice \in BOOLEAN /\ hole \in BOOLEAN
    BY DEF IInv, WalkInv, TravShape, ArrayHasHole
  <1>3. CASE trav.st # "running"
    <2>1. trav' = trav
      BY <1>1, <1>3 DEF Follow
    <2> QED
      BY <1>3, <2>1 DEF WalkInv, TravShape, TraversalExact
  <1>4. CASE trav.st = "running"
    <2>1. trav' = [trav EXCEPT !.owed = {k \in trav.owed : shadow'[k] # Empty},
                               !.holes = trav.holes \/ hole]
      BY <1>1, <1>4 DEF Follow
    <2> HIDE DEF hole
    <2>2. /\ trav'.st = "running" /\ trav'.key = trav.key /\ trav'.seen = trav.seen
          /\ trav'.twice = trav.twice /\ trav'.swept = trav.swept
          /\ trav'.owed = {k \in trav.owed : shadow'[k] # Empty}
          /\ trav'.holes = (trav.holes \/ hole)
          /\ DOMAIN trav' = DOMAIN trav
      BY <1>2, <1>4, <2>1 DEF TravShape
    <2>3. TravShape'
      BY <1>2, <2>2 DEF TravShape
    <2>4. trav'.owed \subseteq Fields'
      BY <1>4, <2>2 DEF WalkInv, Fields
    <2>5. ASSUME ~trav'.holes, ~trav'.swept
          PROVE  OnTheWay(tab', shadow', trav'.key, trav'.seen, trav'.twice)
      <3>1. ~trav.holes /\ ~trav.swept /\ ~hole
        BY <2>2, <2>5
      <3>2. OnTheWay(tab, shadow, trav.key, trav.seen, trav.twice)
        BY <1>4, <3>1 DEF WalkInv
      <3>3. OnTheWay(tab', shadow', trav.key, trav.seen, trav.twice)
        <4>1. ~ArrayHasHole(tab') /\ shadow[NormKey(key)] # Empty
          BY <1>1, <1>4, <3>1 DEF hole
        <4> DEFINE u == SetSlot(tab, key, v)
        <4>2. ~ArrayHasHole(u)
          BY <1>1, <4>1
        <4>3. OnTheWay(u, [shadow EXCEPT ![NormKey(key)] = v], trav.key, trav.seen, trav.twice)
          <5>1. /\ tab \in Tables /\ shadow \in [Keys -> Content] /\ Agrees(tab, shadow)
                /\ trav.twice \in BOOLEAN
            BY <1>2 DEF IInv, TravShape
          <5>2. u = SetSlot(tab, key, v)
            OBVIOUS
          <5> DEFINE seen == trav.seen
                     twice == trav.twice
                     k == trav.key
          <5>3. OnTheWay(tab, shadow, k, seen, twice)
            BY <3>2
          <5> HIDE DEF u, k, seen, twice
          <5>4. OnTheWay(u, [shadow EXCEPT ![NormKey(key)] = v], k, seen, twice)
            BY <4>1, <4>2, <5>1, <5>2, <5>3, WriteOnTheWay, ZenonT(30) DEF twice
          <5> QED
            BY <5>4 DEF k, seen, twice
        <4> QED
          BY <1>1, <4>3, Zenon
      <3> QED
        BY <2>2, <3>3
    <2> QED
      BY <2>2, <2>3, <2>4, <2>5 DEF WalkInv, TraversalExact
  <1> QED
    BY <1>3, <1>4

LEMMA SweepWalk ==
  ASSUME WalkInv, NEW dead \in SUBSET Values, Sweep(dead)
  PROVE  WalkInv'
  <1> DEFINE hole == ArrayHasHole(tab')
  <1>1. /\ shadow' = [k \in Keys |-> IF shadow[k] \in dead THEN Empty ELSE shadow[k]]
        /\ trav' = IF trav.st = "running"
                   THEN [trav EXCEPT !.owed = {k \in trav.owed : shadow'[k] # Empty},
                                     !.swept = TRUE, !.holes = trav.holes \/ hole]
                   ELSE trav
    BY DEF Sweep
  <1>2. TravShape /\ hole \in BOOLEAN
    BY DEF WalkInv, ArrayHasHole
  <1> HIDE DEF hole
  <1>3. CASE trav.st # "running"
    BY <1>1, <1>3 DEF WalkInv, TravShape, TraversalExact
  <1>4. CASE trav.st = "running"
    <2>1. /\ trav'.st = "running" /\ trav'.swept = TRUE /\ trav'.twice = trav.twice
          /\ trav'.owed = {k \in trav.owed : shadow'[k] # Empty}
          /\ trav'.holes = (trav.holes \/ hole)
          /\ DOMAIN trav' = DOMAIN trav
      BY <1>1, <1>2, <1>4 DEF TravShape
    <2>2. TravShape'
      BY <1>2, <2>1 DEF TravShape
    <2>3. trav'.owed \subseteq Fields'
      BY <1>4, <2>1 DEF WalkInv, Fields
    <2> QED
      BY <2>1, <2>2, <2>3 DEF WalkInv, TraversalExact
  <1> QED
    BY <1>3, <1>4

THEOREM WalkInvariant == Spec => []WalkInv
  <1>1. IInv /\ WalkInv /\ [Next]_vars => WalkInv'
    <2> SUFFICES ASSUME IInv, WalkInv, [Next]_vars PROVE WalkInv'
      OBVIOUS
    <2>1. CASE UNCHANGED vars
      BY <2>1 DEF vars, WalkInv, TravShape, TraversalExact, Fields
    <2>2. ASSUME NEW pos, NEW v, TableInsert(pos, v) PROVE WalkInv'
      BY <2>2 DEF TableInsert, WalkInv, TravShape, TraversalExact
    <2>3. ASSUME NEW pos, TableRemove(pos) PROVE WalkInv'
      BY <2>3 DEF TableRemove, WalkInv, TravShape, TraversalExact
    <2>4. ASSUME NEW k, NEW v, AssignFails(k, v) PROVE WalkInv'
      BY <2>1, <2>4 DEF AssignFails
    <2>5. CASE TraverseEnd
      BY <2>5 DEF TraverseEnd, WalkInv, TravShape, TraversalExact, Idle
    <2> QED
      BY <2>1, <2>2, <2>3, <2>4, <2>5, StartWalk, StepWalk, AssignWalk, SweepWalk DEF Next, Program
  <1> QED
    BY <1>1, WalkInit, TableInvariant, PTL DEF Spec

(* A traversal that ends has visited every field that stayed, and none       *)
(* twice, and is never told that its key is invalid.                         *)
THEOREM WalkExact == Spec => []TraversalExact
  <1>1. WalkInv => TraversalExact
    BY DEF WalkInv
  <1> QED
    BY <1>1, WalkInvariant, PTL
=============================================================================

------------------------------ MODULE LuaTable ------------------------------
(* One Lua table: the array part, the insertion-ordered hash part with its   *)
(* tombstones, `#`, `next` and the table library's insert and remove, as     *)
(* src_rs/table.rs, stdlib/base_lib.rs and stdlib/table_lib.rs write them,   *)
(* together with what a weak-table sweep of the collector does to it.        *)
(*                                                                           *)
(* The table is a record: array is the Vec of slots (Empty is Nil(Empty)),   *)
(* buckets the Vec of entries.  key_to_bucket is not kept: it is the         *)
(* position of a key in buckets (BucketOf), which is what idx_get returns.   *)
(* `shadow` is what a reader of the program expects: the last value written  *)
(* to each key.  `trav` follows one `for k, v in pairs(t)` loop.             *)
EXTENDS Integers, Sequences, FiniteSets, SequencesExt, FiniteSetsExt

CONSTANTS MaxInt,       \* integer keys are 1..MaxInt
          OtherKeys,    \* keys that are not numbers
          FloatKeys,    \* floats with an exact integer value
          FloatToInt,   \* [FloatKeys -> 1..MaxInt], float_key_to_int
          Values,       \* collectable values other than nil
          Empty,        \* nil, and the content of an empty slot
          MaxArray,     \* longest preallocated array
          MaxBuckets    \* bound on the entries of the hash part

ASSUME TableConstants ==
    /\ MaxInt \in Nat \ {0}
    /\ FloatToInt \in [FloatKeys -> 1..MaxInt]
    /\ OtherKeys \cap Int = {} /\ FloatKeys \cap Int = {} /\ FloatKeys \cap OtherKeys = {}
    /\ Empty \notin Values \cup Int \cup OtherKeys \cup FloatKeys
    /\ MaxArray \in 0..MaxInt
    /\ MaxBuckets \in Nat \ {0}

VARIABLES tab,      \* [array, buckets]
          shadow,   \* [Keys -> Values \cup {Empty}]
          trav      \* the traversal: [st, key, seen, twice, owed, holes, swept]

vars == <<tab, shadow, trav>>

IntKeys == 1..MaxInt
Keys == IntKeys \cup OtherKeys
Content == Values \cup {Empty}

NoKey == Empty      \* `next(t, nil)` starts a traversal, a nil key ends it

-----------------------------------------------------------------------------
(* Reading and writing.                                                      *)

(* A float key with an exact integer value is that integer.                  *)
NormKey(k) == IF k \in FloatKeys THEN FloatToInt[k] ELSE k

InArray(t, k) == k \in IntKeys /\ k <= Len(t.array)

(* idx_get: the bucket of a key, tombstones included; 0 when there is none.  *)
BucketOf(t, k) == SelectInSeq(t.buckets, LAMBDA e : e.k = k)

HashGet(t, k) ==
    LET i == BucketOf(t, k) IN IF i = 0 THEN Empty ELSE t.buckets[i].v

(* An empty array slot falls through to the hash part.                       *)
Get(t, key) ==
    LET k == NormKey(key)
    IN  IF InArray(t, k) /\ t.array[k] # Empty THEN t.array[k] ELSE HashGet(t, k)

HashSet_Append(t, k, v) ==      \* mutant: the index is not asked first
    IF v = Empty THEN t ELSE [t EXCEPT !.buckets = Append(@, [k |-> k, v |-> v])]

HashSet_IgnoreNil(t, k, v) ==   \* mutant: nil never reaches a bucket
    LET i == BucketOf(t, k)
    IN  IF v = Empty THEN t
        ELSE IF i # 0 THEN [t EXCEPT !.buckets[i].v = v]
        ELSE [t EXCEPT !.buckets = Append(@, [k |-> k, v |-> v])]

(* hash_set_unchecked: an existing bucket is overwritten (nil leaves a       *)
(* tombstone), nil to an absent key is nothing, a new key is appended.       *)
HashSet(t, k, v) ==
    LET i == BucketOf(t, k)
    IN  IF i # 0 THEN [t EXCEPT !.buckets[i].v = v]
        ELSE IF v = Empty THEN t
        ELSE [t EXCEPT !.buckets = Append(@, [k |-> k, v |-> v])]

(* set_unchecked: inside the array, at its end (the array grows and the hash *)
(* part is left as it is), or in the hash part.                              *)
SetSlot(t, key, v) ==
    LET k == NormKey(key)
    IN  IF InArray(t, k) THEN [t EXCEPT !.array[k] = v]
        ELSE IF k = Len(t.array) + 1 /\ v # Empty
             THEN [t EXCEPT !.array = Append(@, v)]
        ELSE HashSet(t, k, v)

(* try_reserve_for: the write fits in what is there, or needs one more slot. *)
NeedsRoom(t, key, v) == SetSlot(t, key, v) # t /\
    \/ Len(SetSlot(t, key, v).array) > Len(t.array)
    \/ Len(SetSlot(t, key, v).buckets) > Len(t.buckets)

(* try_with_capacity_in: n array slots, all empty.                           *)
NewTable(n) == [array |-> [i \in 1..n |-> Empty], buckets |-> <<>>]

-----------------------------------------------------------------------------
(* The length operator.                                                      *)

Present(t, i) == i \in 1..Len(t.array) /\ t.array[i] # Empty

(* The bisection of bin_search_array and of hash_boundary_impl: a border of  *)
(* S between lo, which is there, and hi, which is not.                       *)
Bisect(S, lo, hi) ==
    LET f[p \in (lo..hi) \X (lo..hi)] ==
          LET m == (p[1] + p[2]) \div 2
          IN  IF p[2] - p[1] <= 1 THEN p[1]
              ELSE IF m \in S THEN f[<<m, p[2]>>] ELSE f[<<p[1], m>>]
    IN  f[<<lo, hi>>]

BinSearch(t, lo, hi) == Bisect({i \in lo..hi : Present(t, i)}, lo, hi)

(* hash_boundary_impl: the doubling search and the bisection ask idx_get, so *)
(* they take a tombstone for a field.  Keys above MaxInt are absent.         *)
HashBoundary(t, asize) ==
    LET InHash == {k \in IntKeys : BucketOf(t, k) # 0}
        gallop[p \in (0..MaxInt) \X (0..2 * MaxInt + 1)] ==
          IF p[2] \in InHash THEN gallop[<<p[2], 2 * p[2]>>] ELSE Bisect(InHash, p[1], p[2])
        \* the seed is 1: its low bit widens the first step of a longer array,
        \* or else the first doubling
        first == asize + 1
        i0 == IF asize <= 1 THEN first + 1 ELSE first + 2
    IN  IF first \notin InHash THEN asize
        ELSE IF i0 \notin InHash THEN Bisect(InHash, first, i0)
        ELSE gallop[<<i0, 2 * i0 + (IF asize <= 1 THEN 1 ELSE 0)>>]

Length_Array(t) ==              \* mutant: the hash part is never asked
    LET full == {i \in 0..Len(t.array) : \A j \in 1..i : Present(t, j)}
    IN  Max(full)

(* compute_len: up to four slots after the first one are looked at in turn,  *)
(* then the array is bisected, and a full array asks the hash part.          *)
Length(t) ==
    LET asize == Len(t.array)
        firstGap == {i \in 2..Min({asize, 5}) : ~Present(t, i)}
    IN  IF asize = 0 THEN HashBoundary(t, 0)
        ELSE IF ~Present(t, 1) THEN 0
        ELSE IF firstGap # {} THEN Min(firstGap) - 1
        ELSE IF ~Present(t, asize) THEN BinSearch(t, Min({asize, 5}), asize)
        ELSE HashBoundary(t, asize)

-----------------------------------------------------------------------------
(* Traversal: base_lib.rs table_next.                                        *)

NextResult(k, v) == [err |-> FALSE, k |-> k, v |-> v]
NextEnd == NextResult(NoKey, Empty)
InvalidKey == [err |-> TRUE, k |-> NoKey, v |-> Empty]

(* The first live bucket from position i on.                                 *)
LiveBucketFrom(t, i) ==
    LET live == {j \in i..Len(t.buckets) : t.buckets[j].v # Empty}
    IN  IF live = {} THEN NextEnd
        ELSE NextResult(t.buckets[Min(live)].k, t.buckets[Min(live)].v)

FindFirstHash(t) == LiveBucketFrom(t, 1)
FindNextHash_Same(t, k) ==      \* mutant: the search starts at the key itself
    LiveBucketFrom(t, BucketOf(t, k))

FindNextHash(t, k) == LiveBucketFrom(t, BucketOf(t, k) + 1)

FindFirst(t) ==
    LET live == {i \in 1..Len(t.array) : Present(t, i)}
    IN  IF live = {} THEN FindFirstHash(t)
        ELSE NextResult(Min(live), t.array[Min(live)])

TableNext_Live(t, key) ==       \* mutant: a cleared key is an invalid key
    LET k == NormKey(key)
    IN  IF key = NoKey THEN FindFirst(t)
        ELSE IF Get(t, k) = Empty THEN InvalidKey
        ELSE IF ~InArray(t, k) THEN FindNextHash(t, k)
        ELSE IF Present(t, k + 1) THEN NextResult(k + 1, t.array[k + 1])
        ELSE FindFirstHash(t)

(* Only the one slot after an array key is looked at: an empty one ends the  *)
(* array part of the traversal.                                              *)
TableNext(t, key) ==
    LET k == NormKey(key)
    IN  IF key = NoKey THEN FindFirst(t)
        ELSE IF ~Present(t, k) /\ BucketOf(t, k) = 0 THEN InvalidKey
        ELSE IF ~InArray(t, k) THEN FindNextHash(t, k)
        ELSE IF Present(t, k + 1) THEN NextResult(k + 1, t.array[k + 1])
        ELSE FindFirstHash(t)

-----------------------------------------------------------------------------
(* A sweep of a weak-valued table, gc.rs clear_weak_tables.                  *)

SwapRemove_Pop(t, k) ==         \* mutant: the moved entry is dropped instead
    [t EXCEPT !.buckets = SubSeq(@, 1, Len(@) - 1)]

(* idx_remove, swap_remove and the index of the entry that was moved.        *)
SwapRemove(t, k) ==
    LET i == BucketOf(t, k)
        n == Len(t.buckets)
    IN  [t EXCEPT !.buckets = SubSeq([@ EXCEPT ![i] = t.buckets[n]], 1, n - 1)]

ClearWeakValues(t, dead) ==
    LET emptied == [t EXCEPT !.array =
                      [i \in DOMAIN @ |-> IF @[i] \in dead THEN Empty ELSE @[i]]]
        cleared[i \in 0..Len(t.buckets)] ==
          IF i = 0 THEN emptied
          ELSE IF t.buckets[i].v \in dead THEN SwapRemove(cleared[i - 1], t.buckets[i].k)
          ELSE cleared[i - 1]
    IN  cleared[Len(t.buckets)]

-----------------------------------------------------------------------------
(* table.insert and table.remove, in terms of a read and a write, so that    *)
(* the same code runs on the table and on the map it stands for.             *)

(* call_insert: shift [pos, e - 1] up by one, then write pos.                *)
InsertWith(Read(_, _), Write(_, _, _), t, pos, e, v) ==
    LET moved[i \in 0..(e - pos)] ==
          IF i = 0 THEN t ELSE Write(moved[i - 1], e - i + 1, Read(moved[i - 1], e - i))
    IN  Write(moved[e - pos], pos, v)

(* call_remove: shift [pos + 1, n] down by one, then clear the last one.     *)
RemoveWith(Read(_, _), Write(_, _, _), t, pos, n) ==
    LET moved[i \in 0..(n - pos)] ==
          IF i = 0 THEN t ELSE Write(moved[i - 1], pos + i - 1, Read(moved[i - 1], pos + i))
    IN  IF pos <= n THEN Write(moved[n - pos], n, Empty) ELSE Write(t, pos, Empty)

MapGet(m, k) == m[k]
MapSet(m, k, v) == [m EXCEPT ![k] = v]

-----------------------------------------------------------------------------
(* The program.                                                              *)

Idle == [st |-> "idle", key |-> NoKey, seen |-> {}, twice |-> FALSE, owed |-> {},
         holes |-> FALSE, swept |-> FALSE]

Init ==
    /\ \E n \in 0..MaxArray : tab = NewTable(n)
    /\ shadow = [k \in Keys |-> Empty]
    /\ trav = Idle

ArrayHasHole(t) == \E i \in 1..Len(t.array) : t.array[i] = Empty

(* During a traversal a field that leaves the table is no longer owed.       *)
Follow(t, m) ==
    trav' = IF trav.st = "running"
            THEN [trav EXCEPT !.owed = {k \in @ : m[k] # Empty},
                              !.holes = @ \/ ArrayHasHole(t)]
            ELSE trav

(* mem.rs table_set: reserve, then write.  The manual lets a program write   *)
(* to the fields a table has during a traversal, and clear them, not add.    *)
Assign(k, v) ==
    /\ trav.st = "running" => shadow[NormKey(k)] # Empty
    /\ tab' = SetSlot(tab, k, v)
    /\ Len(tab'.buckets) <= MaxBuckets
    /\ shadow' = [shadow EXCEPT ![NormKey(k)] = v]
    /\ Follow(tab', shadow')

(* The reservation fails after the emergency collection: a memory error is   *)
(* raised and the table is as it was.                                        *)
AssignFails(k, v) ==
    /\ NeedsRoom(tab, k, v)
    /\ UNCHANGED vars

(* table.insert(t, [pos,] v), on a table that is not being traversed.        *)
TableInsert(pos, v) ==
    LET e == Length(tab) + 1 IN
    /\ trav.st = "idle"
    /\ pos <= e /\ e <= MaxInt
    /\ tab' = InsertWith(Get, SetSlot, tab, pos, e, v)
    /\ Len(tab'.buckets) <= MaxBuckets
    /\ shadow' = InsertWith(MapGet, MapSet, shadow, pos, e, v)
    /\ UNCHANGED trav

(* table.remove(t, pos): pos = #t, or inside 1..#t + 1.  Position 0, allowed *)
(* of an empty sequence, clears a field of its own, which is no key here.    *)
TableRemove(pos) ==
    LET n == Length(tab) IN
    /\ trav.st = "idle"
    /\ pos <= n + 1 /\ n + 1 <= MaxInt
    /\ tab' = RemoveWith(Get, SetSlot, tab, pos, n)
    /\ shadow' = RemoveWith(MapGet, MapSet, shadow, pos, n)
    /\ UNCHANGED trav

(* A collection finds the values in `dead` unreachable; the table is weak.   *)
Sweep(dead) ==
    /\ \E k \in Keys : Get(tab, k) \in dead
    /\ tab' = ClearWeakValues(tab, dead)
    /\ shadow' = [k \in Keys |-> IF shadow[k] \in dead THEN Empty ELSE shadow[k]]
    /\ trav' = IF trav.st = "running"
               THEN [trav EXCEPT !.owed = {k \in @ : shadow'[k] # Empty},
                                 !.swept = TRUE, !.holes = @ \/ ArrayHasHole(tab')]
               ELSE trav

Record(r) ==
    IF r.err THEN [trav EXCEPT !.st = "failed"]
    ELSE IF r.k = NoKey THEN [trav EXCEPT !.st = "done"]
    ELSE [trav EXCEPT !.st = "running", !.key = r.k, !.seen = @ \cup {r.k},
                       !.twice = @ \/ r.k \in trav.seen]

TraverseStart ==
    /\ trav.st = "idle"
    /\ LET r == TableNext(tab, NoKey)
       IN  trav' = [Record(r) EXCEPT !.owed = {k \in Keys : shadow[k] # Empty},
                                     !.holes = ArrayHasHole(tab)]
    /\ UNCHANGED <<tab, shadow>>

TraverseStep ==
    /\ trav.st = "running"
    /\ trav' = Record(TableNext(tab, trav.key))
    /\ UNCHANGED <<tab, shadow>>

TraverseEnd ==
    /\ trav.st \in {"done", "failed"}
    /\ trav' = Idle
    /\ UNCHANGED <<tab, shadow>>

(* What the program itself does to the table.                                *)
Program ==
    \/ \E k \in Keys \cup FloatKeys, v \in Content : Assign(k, v) \/ AssignFails(k, v)
    \/ \E pos \in IntKeys, v \in Values : TableInsert(pos, v)
    \/ \E pos \in IntKeys : TableRemove(pos)
    \/ TraverseStart \/ TraverseStep \/ TraverseEnd

Next == Program \/ \E dead \in SUBSET Values : Sweep(dead)

Spec == Init /\ [][Next]_vars

(* A table that is not weak.                                                 *)
StrongSpec == Init /\ [][Program]_vars

(* A `for` loop that goes on asks for the next field.                        *)
FairSpec == Spec /\ WF_vars(TraverseStep)

-----------------------------------------------------------------------------
(* Properties.                                                               *)

(* The state of the model has the shape the Rust types give it, and no key   *)
(* has two buckets: key_to_bucket is filled with insert_unique, which does   *)
(* not look for a duplicate.                                                 *)
TypeOK ==
    /\ tab.array \in Seq(Content)
    /\ \A i \in DOMAIN tab.buckets :
         tab.buckets[i].k \in Keys /\ tab.buckets[i].v \in Content
    /\ \A i, j \in DOMAIN tab.buckets :
         tab.buckets[i].k = tab.buckets[j].k => i = j
    /\ shadow \in [Keys -> Content]

(* A key held by the array and, from before the array reached it, by the     *)
(* hash part as well: array growth does not migrate buckets.                 *)
Shadowed(t) == {k \in IntKeys : InArray(t, k) /\ HashGet(t, k) # Empty}

(* A field that holds a value reads as the value last written to it, however *)
(* the writes, the library calls and the sweeps are interleaved.             *)
LiveFieldsReadLastWrite ==
    \A k \in Keys \cup FloatKeys :
        shadow[NormKey(k)] # Empty => Get(tab, k) = shadow[NormKey(k)]

(* A field that was cleared reads as nil or, where the array has hidden      *)
(* older buckets, as what one of these still holds; table.insert and remove  *)
(* may carry such a value to other fields.                                   *)
ClearedFieldsReadNil ==
    \A k \in Keys : shadow[k] = Empty =>
        Get(tab, k) \in {Empty} \cup {HashGet(tab, j) : j \in Shadowed(tab)}

(* What the manual says of assignment: a table reads as the last write.      *)
ReadsLastWrite == \A k \in Keys : Get(tab, k) = shadow[k]

(* #t is a border (the field is there, the next one is not) as long as the   *)
(* hash part holds no tombstone of an integer key and no hidden bucket.      *)
IsBorder(m, n) ==
    /\ n = 0 \/ m[n] # Empty
    /\ n = MaxInt \/ m[n + 1] = Empty

NoDeadInteger(t) ==
    \A i \in DOMAIN t.buckets :
        t.buckets[i].k \in IntKeys => t.buckets[i].v # Empty

LengthIsBorder ==
    (NoDeadInteger(tab) /\ Shadowed(tab) = {}) => IsBorder(shadow, Length(tab))

(* A traversal that ends has visited every field that stayed in the table,   *)
(* and none twice, when the array had no hole and the collector did not      *)
(* sweep the table meanwhile; and such a traversal never stops with "invalid *)
(* key to 'next'", whatever fields the loop wrote or cleared.                *)
TraversalExact ==
    (trav.st \in {"done", "failed"} /\ ~trav.holes /\ ~trav.swept) =>
        /\ trav.st = "done"
        /\ trav.owed \subseteq trav.seen
        /\ ~trav.twice

(* A loop that is not left comes to an end.                                  *)
TraversalEnds == trav.st = "running" ~> trav.st # "running"

(* It does unless the table has a hidden bucket: after such a bucket the     *)
(* array part's key sends `next` back to the first bucket.                   *)
TraversalEndsUnlessHidden ==
    trav.st = "running" ~> (trav.st # "running" \/ Shadowed(tab) # {})

(* What the manual says of next: every field is visited, and the loop may    *)
(* clear the fields it visits.                                               *)
TraversalVisitsAll ==
    /\ trav.st # "failed"
    /\ trav.st = "done" => trav.owed \subseteq trav.seen

(* table.remove(t, pos) on a proper sequence of length n leaves a proper     *)
(* sequence of length n - 1, and table.insert one of length n + 1, unless a  *)
(* tombstone or a hidden bucket has misled #t.                               *)
ProperSequence(m) == \E n \in 0..MaxInt : \A k \in IntKeys : m[k] # Empty <=> k <= n

LibraryKeepsSequences ==
    [][(/\ ProperSequence(shadow) /\ NoDeadInteger(tab) /\ Shadowed(tab) = {}
        /\ \/ \E pos \in IntKeys, v \in Values : TableInsert(pos, v)
           \/ \E pos \in IntKeys : TableRemove(pos))
       => ProperSequence(shadow')]_vars

(* The table implements a map on which a write changes the field it names    *)
(* and no other: the only freedom is that clearing a field may bring back an *)
(* older value of that same field.                                           *)
Map == INSTANCE FieldMap WITH
         Fields <- Keys, Nil <- Empty,
         map <- [k \in Keys |-> Get(tab, k)]
MapSpec == Map!Spec
=============================================================================

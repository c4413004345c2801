--------------------------- MODULE StringProofs ---------------------------
(* Interning is right for every set of threads, contents and blocks: what    *)
(* the string runs check on a small instance, except that a thread which     *)
(* asks for a string gets it (liveness).                                     *)
EXTENDS StringTable, FiniteSetTheorems, TLAPS

Asking == {"intern", "find", "take", "lock", "waitToInsert", "recheck"}
Reading == {"find", "take"}
Sweeping == {"look", "remove", "free"}
Exclusive == {"recheck", "count"} \cup Sweeping
Writing == {"waitToInsert", "waitToSweep"} \cup Exclusive

(* The lock: where a thread stands says what it holds of it, and whoever     *)
(* changes the table is alone with it.                                       *)
LockInv ==
    /\ \A t \in Threads : pc[t] \in Writing <=> writer = t
    /\ readers = {t \in Threads : pc[t] \in Reading}
    /\ \A t \in Threads : pc[t] \in Exclusive => readers = {}

(* A reader that has found an entry still has it when it takes its handle:   *)
(* the step between the two belongs to others, the entry does not go away.   *)
AskInv ==
    \A t \in Threads :
        /\ pc[t] \in Asking => want[t] \in Content
        /\ pc[t] = "take" => cur[t] \in table /\ text[cur[t]] = want[t]

(* The table has each content once and every block somebody holds.           *)
TableInv ==
    /\ \A b \in table : text[b] \in Content
    /\ \A b, c \in table : text[b] = text[c] => b = c
    /\ \A b \in Blocks : Held(b) => b \in table

(* A sweep decides on blocks nobody holds, and nobody can come to hold one   *)
(* before it is removed.                                                     *)
SweepInv ==
    /\ doomed \subseteq looked
    /\ looked # {} => \E t \in Threads : pc[t] \in Sweeping
    /\ \A t \in Threads : pc[t] = "look" => looked \subseteq table
    /\ \A b \in doomed : ~Held(b)

(* What is in use and no longer in the table is being freed.                 *)
FreeInv ==
    /\ \A t \in Threads : pc[t] = "free" =>
           cur[t] \in Blocks \ table /\ text[cur[t]] # Free
    /\ \A b \in Blocks \ table : text[b] # Free =>
           \E t \in Threads : pc[t] = "free" /\ cur[t] = b

(* A block's count is that of its handles and the table's.                   *)
BlockCounts ==
    \A b \in Blocks :
        /\ IsFiniteSet(Handles(b))
        /\ strong[b] = Cardinality(Handles(b)) + IF b \in table THEN 1 ELSE 0

(* The table's count is that of its entries and of those a sweep has         *)
(* removed, short of one that is being inserted.                             *)
Counting == \E t \in Threads : pc[t] = "count"
TableCount ==
    /\ IsFiniteSet(table \cup doomed)
    /\ Cardinality(table \cup doomed) = nuse + IF Counting THEN 1 ELSE 0

CountInv == BlockCounts /\ TableCount

IInv == TypeOK /\ LockInv /\ AskInv /\ TableInv /\ SweepInv /\ FreeInv /\ CountInv

-----------------------------------------------------------------------------
(* The steps of a thread, by the part of the code they belong to.            *)
InternStep(t) ==
    \/ \E c \in Content : StartIntern(t, c)
    \/ LockToRead(t) \/ Find(t) \/ TakeFound(t)
    \/ LockToInsert(t) \/ LockedToInsert(t) \/ Recheck(t) \/ Insert(t) \/ CountInsert(t)

HandleStep(t) ==
    \/ \E b \in Blocks : Clone(t, b) \/ Drop(t, b)
    \/ Deallocate(t)

SweepStep(t) ==
    \/ StartSweep(t) \/ LockedToSweep(t) \/ Look(t) \/ Looked(t)
    \/ RemoveDoomed(t) \/ CountSweep(t)

LEMMA Steps ==
  ASSUME Next
  PROVE  \E t \in Threads : InternStep(t) \/ HandleStep(t) \/ SweepStep(t)
  BY DEF Next, Continue, Request, InternStep, HandleStep, SweepStep

LEMMA InvInit == Init => IInv
  <1> SUFFICES ASSUME Init PROVE IInv
    OBVIOUS
  <1> USE DEF Init
  <1>1. TypeOK
    BY DEF TypeOK
  <1>2. LockInv
    BY Distinct DEF LockInv, Writing, Exclusive, Sweeping, Reading
  <1>3. AskInv
    BY DEF AskInv, Asking
  <1>4. \A b \in Blocks : Handles(b) = {} /\ ~Held(b)
    BY DEF Handles, Held
  <1>5. TableInv
    BY <1>4 DEF TableInv
  <1>6. SweepInv
    BY DEF SweepInv
  <1>7. FreeInv
    BY DEF FreeInv
  <1>8. CountInv
    BY <1>4, FS_EmptySet DEF CountInv, BlockCounts, TableCount, Counting
  <1> QED
    BY <1>1, <1>2, <1>3, <1>5, <1>6, <1>7, <1>8 DEF IInv

LEMMA UpTo ==
  \A n \in Nat : /\ 1..(n + 1) = 1..n \cup {n + 1}
                 /\ n > 0 => 1..(n - 1) = 1..n \ {n}
  OBVIOUS

(* A received handle is one more of its block, and of no other.              *)
LEMMA ReceivedHandle ==
  ASSUME TypeOK, NEW t \in Threads, NEW b \in Blocks,
         held' = [held EXCEPT ![t][b] = @ + 1]
  PROVE  /\ held' \in [Threads -> [Blocks -> Nat]]
         /\ Handles(b)' = Handles(b) \cup {<<t, held[t][b] + 1>>}
         /\ <<t, held[t][b] + 1>> \notin Handles(b)
         /\ Held(b)'
         /\ \A x \in Blocks \ {b} : Handles(x)' = Handles(x) /\ Held(x)' = Held(x)
  <1> USE DEF TypeOK
  <1>1. held' \in [Threads -> [Blocks -> Nat]]
    OBVIOUS
  <1>2. /\ held'[t][b] = held[t][b] + 1
        /\ \A s \in Threads, x \in Blocks :
              s # t \/ x # b => held'[s][x] = held[s][x]
    OBVIOUS
  <1>3. \A x \in Blocks \ {b} : Handles(x)' = Handles(x) /\ Held(x)' = Held(x)
    BY <1>2 DEF Handles, Held
  <1>4. 1..(held[t][b] + 1) = 1..held[t][b] \cup {held[t][b] + 1}
    BY UpTo
  <1>5. Handles(b)' = Handles(b) \cup {<<t, held[t][b] + 1>>}
    BY <1>2, <1>4 DEF Handles
  <1>6. <<t, held[t][b] + 1>> \notin Handles(b)
    BY DEF Handles
  <1> QED
    BY <1>1, <1>2, <1>3, <1>5, <1>6 DEF Held

(* A dropped handle is one fewer.                                            *)
LEMMA DroppedHandle ==
  ASSUME TypeOK, NEW t \in Threads, NEW b \in Blocks, held[t][b] > 0,
         held' = [held EXCEPT ![t][b] = @ - 1]
  PROVE  /\ held' \in [Threads -> [Blocks -> Nat]]
         /\ Handles(b)' = Handles(b) \ {<<t, held[t][b]>>}
         /\ <<t, held[t][b]>> \in Handles(b)
         /\ \A x \in Blocks : Held(x)' => Held(x)
         /\ \A x \in Blocks \ {b} : Handles(x)' = Handles(x)
  <1> USE DEF TypeOK
  <1>1. held' \in [Threads -> [Blocks -> Nat]]
    OBVIOUS
  <1>2. /\ held'[t][b] = held[t][b] - 1
        /\ \A s \in Threads, x \in Blocks :
              s # t \/ x # b => held'[s][x] = held[s][x]
    OBVIOUS
  <1>3. \A x \in Blocks \ {b} : Handles(x)' = Handles(x)
    BY <1>2 DEF Handles
  <1>4. 1..(held[t][b] - 1) = 1..held[t][b] \ {held[t][b]}
    BY UpTo
  <1>5. Handles(b)' = Handles(b) \ {<<t, held[t][b]>>}
    BY <1>2, <1>4 DEF Handles
  <1>6. <<t, held[t][b]>> \in Handles(b)
    BY DEF Handles
  <1>7. \A x \in Blocks : Held(x)' => Held(x)
    BY <1>2 DEF Held
  <1> QED
    BY <1>1, <1>3, <1>5, <1>6, <1>7

(* Who holds a block has a handle, and the counts agree.                     *)
LEMMA HeldIsCounted ==
  ASSUME TypeOK, CountInv, NEW b \in Blocks
  PROVE  /\ Cardinality(Handles(b)) \in Nat
         /\ Held(b) <=> Cardinality(Handles(b)) # 0
  <1>1. IsFiniteSet(Handles(b))
    BY DEF CountInv, BlockCounts
  <1>2. Held(b) <=> Handles(b) # {}
    <2>1. ASSUME NEW t \in Threads, held[t][b] > 0 PROVE <<t, 1>> \in Handles(b)
      BY <2>1 DEF Handles, TypeOK
    <2>2. ASSUME NEW h \in Handles(b) PROVE Held(b)
      BY <2>2 DEF Handles, Held, TypeOK
    <2> QED
      BY <2>1, <2>2 DEF Held
  <1> QED
    BY <1>1, <1>2, FS_CardinalityType, FS_EmptySet

(* So the last reference to a block is never dropped by a holder: the table  *)
(* has one too.                                                              *)
LEMMA CountsOf ==
  ASSUME IInv, NEW b \in Blocks
  PROVE  /\ Held(b) => strong[b] > 1
         /\ b \in table => strong[b] > 0
         /\ b \in table /\ strong[b] <= 1 => ~Held(b)
         /\ \A t \in Threads : held[t][b] > 0 => Held(b)
  <1>1. /\ strong[b] = Cardinality(Handles(b)) + IF b \in table THEN 1 ELSE 0
        /\ Cardinality(Handles(b)) \in Nat
        /\ Held(b) <=> Cardinality(Handles(b)) # 0
    BY HeldIsCounted DEF IInv, CountInv, BlockCounts
  <1>2. Held(b) => b \in table
    BY DEF IInv, TableInv
  <1> QED
    BY <1>1, <1>2 DEF Held

-----------------------------------------------------------------------------
(* Every step keeps the types; counts stay natural numbers, since what is    *)
(* taken from a count was in it.                                             *)
LEMMA TypeStep ==
  ASSUME IInv, [Next]_vars
  PROVE  TypeOK'
  <1> USE DEF TypeOK, Goto, Done, Unlock, Receive, Claim
  <1>1. TypeOK
    BY DEF IInv
  <1>2. \A t \in Threads : pc[t] = "take" => cur[t] \in Blocks
    BY DEF IInv, AskInv
  <1>3. \A t \in Threads : pc[t] \in {"recheck"} => want[t] \in Content
    BY DEF IInv, AskInv, Asking
  <1>4. \A b \in Blocks : Held(b) \/ b \in table => strong[b] > 0
    BY <1>1, CountsOf DEF TypeOK
  <1>5. ASSUME NEW t \in Threads, InternStep(t)
        PROVE  TypeOK'
    <2>1. CASE TakeFound(t)
      BY <1>1, <1>2, <2>1, ReceivedHandle DEF TakeFound
    <2>2. CASE Recheck(t)
      BY <1>1, <2>2, ReceivedHandle DEF Recheck, Entries
    <2>3. CASE Insert(t)
      <3>1. held' \in [Threads -> [Blocks -> Nat]]
        BY <1>1, <2>3, ReceivedHandle DEF Insert
      <3> QED
        BY <1>1, <1>3, <2>3, <3>1 DEF Insert
    <2>4. CASE CountInsert(t)
      BY <1>1, <2>4 DEF CountInsert
    <2>5. ASSUME NEW c \in Content, StartIntern(t, c)
          PROVE  TypeOK'
      BY <1>1, <2>5 DEF StartIntern
    <2>6. CASE LockToRead(t)
      BY <1>1, <2>6 DEF LockToRead
    <2>7. CASE Find(t)
      <3>1. CASE Entries(t) = {}
        BY <1>1, <2>7, <3>1 DEF Find
      <3>2. ASSUME NEW b \in Entries(t), cur' = [cur EXCEPT ![t] = b], Entries(t) # {}
            PROVE  TypeOK'
        BY <1>1, <2>7, <3>2 DEF Find, Entries
      <3> QED
        BY <2>7, <3>1, <3>2 DEF Find
    <2>8. CASE LockToInsert(t) \/ LockedToInsert(t)
      BY <1>1, <2>8 DEF LockToInsert, LockedToInsert
    <2> QED
      BY <1>5, <2>1, <2>2, <2>3, <2>4, <2>5, <2>6, <2>7, <2>8 DEF InternStep
  <1>6. ASSUME NEW t \in Threads, HandleStep(t)
        PROVE  TypeOK'
    <2>1. ASSUME NEW b \in Blocks, Clone(t, b)
          PROVE  TypeOK'
      BY <1>1, <2>1, ReceivedHandle DEF Clone
    <2>2. ASSUME NEW b \in Blocks, Drop(t, b)
          PROVE  TypeOK'
      <3>1. held' \in [Threads -> [Blocks -> Nat]]
        BY <1>1, <2>2, DroppedHandle DEF Drop
      <3>2. strong[b] - 1 \in Nat
        BY <1>1, <1>4, <2>2 DEF Drop, Held
      <3>3. strong' \in [Blocks -> Nat]
        BY <1>1, <2>2, <3>2 DEF Drop
      <3>4. /\ cur' \in [Threads -> Blocks \cup {NoBlock}]
            /\ pc' \in [Threads -> {"idle", "intern", "find", "take", "lock",
                                    "waitToInsert", "recheck", "count", "waitToSweep",
                                    "free", "look", "remove"}]
        BY <1>1, <2>2 DEF Drop
      <3>5. UNCHANGED <<table, nuse, readers, writer, text, want, looked, doomed>>
        BY <2>2 DEF Drop
      <3> QED
        BY <1>1, <3>1, <3>3, <3>4, <3>5
    <2>3. CASE Deallocate(t)
      BY <1>1, <2>3 DEF Deallocate
    <2> QED
      BY <1>6, <2>1, <2>2, <2>3 DEF HandleStep
  <1>7. ASSUME NEW t \in Threads, SweepStep(t)
        PROVE  TypeOK'
    <2>1. CASE StartSweep(t) \/ LockedToSweep(t)
      BY <1>1, <2>1 DEF StartSweep, LockedToSweep
    <2>2. CASE Look(t) \/ Looked(t)
      BY <1>1, <2>2 DEF Look, Looked
    <2>3. CASE RemoveDoomed(t)
      <3>1. PICK b \in doomed \cap table :
               /\ table' = table \ {b}
               /\ strong' = [strong EXCEPT ![b] = @ - 1]
               /\ cur' = cur \/ cur' = [cur EXCEPT ![t] = b]
               /\ pc' = pc \/ pc' = [pc EXCEPT ![t] = "free"]
               /\ UNCHANGED <<nuse, readers, writer, text, held, want, looked, doomed>>
        BY <2>3 DEF RemoveDoomed
      <3>2. b \in Blocks /\ strong[b] > 0
        BY <1>1, <1>4
      <3> QED
        BY <1>1, <3>1, <3>2
    <2>4. CASE CountSweep(t)
      <3>1. IsFiniteSet(doomed)
        BY FS_Subset DEF IInv, CountInv, TableCount
      <3>2. Cardinality(doomed) \in Nat
        BY <3>1, FS_CardinalityType
      <3> QED
        BY <1>1, <2>4, <3>2 DEF CountSweep, Minus
    <2> QED
      BY <1>7, <2>1, <2>2, <2>3, <2>4 DEF SweepStep
  <1>8. CASE UNCHANGED vars
    BY <1>1, <1>8 DEF vars
  <1> QED
    BY <1>5, <1>6, <1>7, <1>8, Steps

(* The lock: a thread goes on alone only when it is let in, and nobody who   *)
(* is not a reader or the writer touches readers or writer.                  *)
LEMMA LockStep ==
  ASSUME IInv, [Next]_vars
  PROVE  LockInv'
  <1> USE DEF LockInv, Goto, Done, Unlock, Claim, Alone, Writing, Exclusive,
              Sweeping, Reading
  <1>1. TypeOK /\ LockInv
    BY DEF IInv
  <1>2. TypeOK'
    BY TypeStep
  <1>3. ASSUME NEW t \in Threads, InternStep(t)
        PROVE  LockInv'
    <2>1. CASE \E c \in Content : StartIntern(t, c)
      BY <1>1, <2>1 DEF StartIntern, TypeOK
    <2>2. CASE LockToRead(t)
      BY <1>1, <2>2, Distinct DEF LockToRead, TypeOK
    <2>3. CASE Find(t)
      BY <1>1, <2>3 DEF Find, TypeOK
    <2>4. CASE TakeFound(t)
      BY <1>1, <2>4 DEF TakeFound, TypeOK
    <2>5. CASE LockToInsert(t)
      BY <1>1, <2>5, Distinct DEF LockToInsert, TypeOK
    <2>6. CASE LockedToInsert(t)
      BY <1>1, <2>6 DEF LockedToInsert, TypeOK
    <2>7. CASE Recheck(t)
      BY <1>1, <2>7, Distinct DEF Recheck, TypeOK
    <2>8. CASE Insert(t)
      BY <1>1, <2>8 DEF Insert, TypeOK
    <2>9. CASE CountInsert(t)
      BY <1>1, <2>9, Distinct DEF CountInsert, TypeOK
    <2> QED
      BY <1>3, <2>1, <2>2, <2>3, <2>4, <2>5, <2>6, <2>7, <2>8, <2>9
         DEF InternStep
  <1>4. ASSUME NEW t \in Threads, HandleStep(t)
        PROVE  LockInv'
    <2>1. ASSUME NEW b \in Blocks, Clone(t, b) \/ Drop(t, b)
          PROVE  UNCHANGED <<pc, readers, writer>>
      BY <1>1, <2>1, CountsOf DEF Clone, Drop, IInv
    <2>2. CASE Deallocate(t)
      BY <1>1, <2>2 DEF Deallocate, TypeOK
    <2> QED
      BY <1>1, <1>4, <2>1, <2>2 DEF HandleStep
  <1>5. ASSUME NEW t \in Threads, SweepStep(t)
        PROVE  LockInv'
    <2>1. CASE StartSweep(t)
      BY <1>1, <2>1, Distinct DEF StartSweep, TypeOK
    <2>2. CASE LockedToSweep(t)
      BY <1>1, <2>2 DEF LockedToSweep, TypeOK
    <2>3. CASE Look(t) \/ Looked(t)
      BY <1>1, <2>3 DEF Look, Looked, TypeOK
    <2>4. CASE RemoveDoomed(t)
      BY <1>1, <2>4 DEF RemoveDoomed, TypeOK
    <2>5. CASE CountSweep(t)
      BY <1>1, <2>5, Distinct DEF CountSweep, TypeOK
    <2> QED
      BY <1>5, <2>1, <2>2, <2>3, <2>4, <2>5 DEF SweepStep
  <1>6. CASE UNCHANGED vars
    BY <1>1, <1>6 DEF vars
  <1> QED
    BY <1>3, <1>4, <1>5, <1>6, Steps

(* Whoever is alone with the table is the only one.                          *)
LEMMA AloneInside ==
  ASSUME IInv, NEW t \in Threads, NEW s \in Threads, s # t
  PROVE  /\ pc[t] \in Reading => pc[s] \notin Exclusive
         /\ pc[t] \in Writing => pc[s] \notin Writing
  BY DEF IInv, LockInv

LEMMA NoSweep ==
  ASSUME IInv,
         \E t \in Threads : pc[t] \in Reading \cup (Writing \ Sweeping)
  PROVE  looked = {} /\ doomed = {}
  <1>1. PICK t \in Threads : pc[t] \in Reading \cup (Writing \ Sweeping)
    OBVIOUS
  <1>2. \A s \in Threads : pc[s] \notin Sweeping
    BY <1>1, AloneInside DEF Writing, Exclusive, Sweeping, Reading
  <1> QED
    BY <1>2 DEF IInv, SweepInv

(* A reader between its search and its handle is not disturbed.              *)
LEMMA AskStep ==
  ASSUME IInv, [Next]_vars
  PROVE  AskInv'
  <1> USE DEF Goto, Done, Claim, Asking
  <1>1. TypeOK /\ AskInv /\ TypeOK'
    BY TypeStep DEF IInv
  <1>2. ASSUME NEW t \in Threads, UNCHANGED <<table, text>>,
               \A s \in Threads \ {t} :
                   pc'[s] = pc[s] /\ want'[s] = want[s] /\ cur'[s] = cur[s],
               pc'[t] \in Asking => want'[t] \in Content,
               pc'[t] = "take" => cur'[t] \in table /\ text[cur'[t]] = want'[t]
        PROVE  AskInv'
    BY <1>1, <1>2 DEF AskInv
  <1>3. ASSUME NEW t \in Threads, InternStep(t)
        PROVE  AskInv'
    <2>1. ASSUME NEW c \in Content, StartIntern(t, c)
          PROVE  AskInv'
      BY <1>1, <1>2, <2>1 DEF StartIntern, TypeOK
    <2>2. CASE LockToRead(t)
      BY <1>1, <1>2, <2>2 DEF LockToRead, TypeOK, AskInv
    <2>3. CASE Find(t)
      BY <1>1, <1>2, <2>3 DEF Find, TypeOK, AskInv, Entries
    <2>4. CASE TakeFound(t)
      BY <1>1, <1>2, <2>4 DEF TakeFound, TypeOK, AskInv
    <2>5. CASE LockToInsert(t) \/ LockedToInsert(t)
      BY <1>1, <1>2, <2>5 DEF LockToInsert, LockedToInsert, TypeOK, AskInv
    <2>6. CASE Recheck(t) \/ CountInsert(t)
      BY <1>1, <1>2, <2>6 DEF Recheck, CountInsert, TypeOK, AskInv
    <2>7. CASE Insert(t)
      <3>1. PICK b \in Blocks : /\ text[b] = Free
                                /\ text' = [text EXCEPT ![b] = want[t]]
                                /\ table' = table \cup {b}
        BY <2>7 DEF Insert
      <3>2. \A s \in Threads : pc'[s] = "take" => pc[s] = "take" /\ cur[s] # b
        BY <1>1, <2>7, <3>1, Distinct DEF Insert, TypeOK, AskInv
      <3> QED
        BY <1>1, <2>7, <3>1, <3>2 DEF Insert, TypeOK, AskInv
    <2> QED
      BY <1>3, <2>1, <2>2, <2>3, <2>4, <2>5, <2>6, <2>7 DEF InternStep
  <1>4. ASSUME NEW t \in Threads, HandleStep(t)
        PROVE  AskInv'
    <2>1. ASSUME NEW b \in Blocks, Clone(t, b) \/ Drop(t, b)
          PROVE  AskInv'
      BY <1>1, <2>1, CountsOf DEF Clone, Drop, AskInv
    <2>2. CASE Deallocate(t)
      <3>1. \A s \in Threads : pc[s] # "take"
        BY <2>2, AloneInside DEF Deallocate, Reading, Exclusive, Sweeping
      <3> QED
        BY <1>1, <2>2, <3>1 DEF Deallocate, TypeOK, AskInv
    <2> QED
      BY <1>4, <2>1, <2>2 DEF HandleStep
  <1>5. ASSUME NEW t \in Threads, SweepStep(t)
        PROVE  AskInv'
    <2>1. CASE StartSweep(t) \/ LockedToSweep(t)
      BY <1>1, <1>2, <2>1 DEF StartSweep, LockedToSweep, TypeOK, AskInv
    <2>2. CASE Look(t) \/ Looked(t) \/ CountSweep(t)
      BY <1>1, <1>2, <2>2 DEF Look, Looked, CountSweep, TypeOK, AskInv
    <2>3. CASE RemoveDoomed(t)
      <3>1. \A s \in Threads : pc[s] # "take"
        BY <2>3, AloneInside DEF RemoveDoomed, Reading, Exclusive, Sweeping
      <3> QED
        BY <1>1, <2>3, <3>1 DEF RemoveDoomed, TypeOK, AskInv
    <2> QED
      BY <1>5, <2>1, <2>2, <2>3 DEF SweepStep
  <1>6. CASE UNCHANGED vars
    BY <1>1, <1>6 DEF vars, AskInv
  <1> QED
    BY <1>3, <1>4, <1>5, <1>6, Steps

(* Only these blocks change hands, and how.                                  *)
LEMMA Exchanged ==
  ASSUME IInv, NEW t \in Threads, InternStep(t) \/ HandleStep(t) \/ SweepStep(t)
  PROVE  \/ UNCHANGED <<table, text, held, strong>>
         \/ \E b \in Blocks :
              /\ b \in table
              /\ held' = [held EXCEPT ![t][b] = @ + 1]
              /\ strong' = [strong EXCEPT ![b] = @ + 1]
              /\ Held(b) \/ pc[t] \in {"take", "recheck"}
              /\ UNCHANGED <<table, text, doomed>>
         \/ Insert(t)
         \/ \E b \in Blocks : Drop(t, b)
         \/ Deallocate(t) /\ UNCHANGED <<table, held, strong>>
         \/ RemoveDoomed(t)
  <1> USE DEF Receive
  <1>1. TypeOK /\ AskInv
    BY DEF IInv
  <1>2. CASE TakeFound(t)
    BY <1>1, <1>2 DEF TakeFound, AskInv, TypeOK
  <1>3. CASE Recheck(t)
    BY <1>1, <1>3 DEF Recheck, Entries, TypeOK
  <1>4. ASSUME NEW b \in Blocks, Clone(t, b)
        PROVE  /\ b \in table /\ Held(b)
               /\ held' = [held EXCEPT ![t][b] = @ + 1]
               /\ strong' = [strong EXCEPT ![b] = @ + 1]
               /\ UNCHANGED <<table, text, doomed>>
    BY <1>4 DEF Clone, Held, IInv, TableInv
  <1>5. CASE \/ \E c \in Content : StartIntern(t, c)
             \/ LockToRead(t) \/ Find(t)
             \/ LockToInsert(t) \/ LockedToInsert(t) \/ CountInsert(t)
    BY <1>5 DEF StartIntern, LockToRead, Find, LockToInsert, LockedToInsert, CountInsert
  <1>6. CASE \/ StartSweep(t) \/ LockedToSweep(t) \/ Look(t) \/ Looked(t)
             \/ CountSweep(t)
    BY <1>6 DEF StartSweep, LockedToSweep, Look, Looked, CountSweep
  <1>7. CASE Deallocate(t)
    BY <1>7 DEF Deallocate
  <1> QED
    BY <1>2, <1>3, <1>4, <1>5, <1>6, <1>7 DEF InternStep, HandleStep, SweepStep

(* The table keeps one entry per content and every block in use.             *)
LEMMA TableStep ==
  ASSUME IInv, [Next]_vars
  PROVE  TableInv'
  <1>1. TypeOK /\ TableInv /\ TypeOK'
    BY TypeStep DEF IInv
  <1>2. CASE UNCHANGED <<table, text, held, strong>>
    BY <1>1, <1>2 DEF TableInv, Held
  <1>3. ASSUME NEW t \in Threads, NEW b \in Blocks, b \in table,
               held' = [held EXCEPT ![t][b] = @ + 1],
               UNCHANGED <<table, text, doomed>>
        PROVE  TableInv'
    BY <1>1, <1>3, ReceivedHandle DEF TableInv
  <1>4. ASSUME NEW t \in Threads, Insert(t)
        PROVE  TableInv'
    <2>1. PICK b \in Blocks :
             /\ text[b] = Free
             /\ text' = [text EXCEPT ![b] = want[t]]
             /\ held' = [held EXCEPT ![t][b] = @ + 1]
             /\ table' = table \cup {b}
      BY <1>4 DEF Insert
    <2>2. want[t] \in Content /\ \A x \in table : text[x] # want[t]
      BY <1>4 DEF Insert, Known, Entries, IInv, AskInv, Asking
    <2>3. b \notin table
      BY <1>1, <2>1, Distinct DEF TableInv
    <2>4. \A x \in table : text'[x] = text[x]
      BY <1>1, <2>1, <2>3 DEF TypeOK
    <2>5. text'[b] = want[t]
      BY <1>1, <2>1 DEF TypeOK
    <2>6. \A x \in Blocks \ {b} : Held(x)' = Held(x)
      BY <1>1, <2>1, ReceivedHandle
    <2> QED
      BY <1>1, <2>1, <2>2, <2>4, <2>5, <2>6 DEF TableInv
  <1>5. ASSUME NEW t \in Threads, NEW b \in Blocks, Drop(t, b)
        PROVE  TableInv'
    BY <1>1, <1>5, DroppedHandle DEF Drop, TableInv
  <1>6. ASSUME NEW t \in Threads, Deallocate(t), UNCHANGED <<table, held, strong>>
        PROVE  TableInv'
    <2>1. cur[t] \notin table
      BY <1>6 DEF Deallocate, IInv, FreeInv
    <2> QED
      BY <1>1, <1>6, <2>1 DEF Deallocate, TableInv, Held, TypeOK
  <1>7. ASSUME NEW t \in Threads, RemoveDoomed(t)
        PROVE  TableInv'
    <2>1. PICK b \in doomed : table' = table \ {b}
      BY <1>7 DEF RemoveDoomed
    <2>2. ~Held(b)
      BY DEF IInv, SweepInv
    <2> QED
      BY <1>1, <1>7, <2>1, <2>2 DEF RemoveDoomed, TableInv, Held
  <1> QED
    BY <1>2, <1>3, <1>4, <1>5, <1>6, <1>7, Steps, Exchanged DEF vars

(* Nobody takes a handle of a block between the look of the sweep and its    *)
(* removal: interning is shut out by the lock, and copying needs a handle.   *)
LEMMA DoomedStep ==
  ASSUME IInv, [Next]_vars
  PROVE  SweepInv'
  <1> USE DEF Goto, Done, Claim, Unlock
  <1>1. TypeOK /\ SweepInv /\ TypeOK'
    BY TypeStep DEF IInv
  <1>2. ASSUME NEW t \in Threads, InternStep(t)
        PROVE  SweepInv'
    <2>1. /\ \A s \in Threads \ {t} : pc'[s] = pc[s]
          /\ pc[t] \notin Sweeping /\ pc'[t] \notin Sweeping
          /\ UNCHANGED <<looked, doomed>>
          /\ \/ pc[t] \in Reading \cup (Writing \ Sweeping)
             \/ UNCHANGED <<table, held>>
      BY <1>1, <1>2
         DEF InternStep, StartIntern, LockToRead, Find, TakeFound, LockToInsert,
             LockedToInsert, Recheck, Insert, CountInsert, TypeOK, Sweeping,
             Reading, Writing, Exclusive
    <2>2. CASE pc[t] \in Reading \cup (Writing \ Sweeping)
      BY <1>1, <2>1, <2>2, NoSweep DEF SweepInv
    <2>3. CASE UNCHANGED <<table, held>>
      BY <1>1, <2>1, <2>3 DEF SweepInv, Held, Sweeping
    <2> QED
      BY <2>1, <2>2, <2>3
  <1>3. ASSUME NEW t \in Threads, HandleStep(t)
        PROVE  SweepInv'
    <2>1. ASSUME NEW b \in Blocks, Clone(t, b)
          PROVE  SweepInv'
      <3>1. Held(b)
        BY <2>1 DEF Clone, Held
      <3>2. \A x \in Blocks \ {b} : Held(x)' = Held(x)
        BY <1>1, <2>1, ReceivedHandle DEF Clone, Receive
      <3> QED
        BY <1>1, <2>1, <3>1, <3>2 DEF Clone, SweepInv, TypeOK
    <2>2. ASSUME NEW b \in Blocks, Drop(t, b)
          PROVE  SweepInv'
      <3>1. \A x \in Blocks : Held(x)' => Held(x)
        BY <1>1, <2>2, DroppedHandle DEF Drop
      <3>2. UNCHANGED <<pc, table, looked, doomed>>
        BY <2>2, CountsOf DEF Drop
      <3> QED
        BY <1>1, <3>1, <3>2 DEF SweepInv, TypeOK
    <2>3. CASE Deallocate(t)
      <3>1. writer = t
        BY <2>3 DEF Deallocate, IInv, LockInv, Writing, Exclusive, Sweeping
      <3> QED
        BY <1>1, <2>3, <3>1 DEF Deallocate, SweepInv, Held, Sweeping, TypeOK
    <2> QED
      BY <1>3, <2>1, <2>2, <2>3 DEF HandleStep
  <1>4. ASSUME NEW t \in Threads, SweepStep(t)
        PROVE  SweepInv'
    <2>1. CASE StartSweep(t)
      BY <1>1, <2>1 DEF StartSweep, SweepInv, Held, Sweeping, TypeOK
    <2>2. CASE LockedToSweep(t)
      <3>1. looked = {} /\ doomed = {}
        BY <2>2, NoSweep DEF LockedToSweep, Writing, Exclusive, Sweeping
      <3> QED
        BY <1>1, <2>2, <3>1 DEF LockedToSweep, SweepInv
    <2>3. CASE Look(t)
      <3>1. PICK b \in table : /\ looked' = looked \cup {b}
                               /\ doomed' = doomed \/ (doomed' = doomed \cup {b} /\ strong[b] <= 1)
        BY <2>3 DEF Look, OnlyInTable
      <3>2. strong[b] <= 1 => ~Held(b)
        BY <1>1, <3>1, CountsOf DEF TypeOK
      <3> QED
        BY <1>1, <2>3, <3>1, <3>2 DEF Look, SweepInv, Held, Sweeping
    <2>4. CASE Looked(t)
      BY <1>1, <2>4 DEF Looked, SweepInv, Held, Sweeping, TypeOK
    <2>5. CASE RemoveDoomed(t)
      <3>1. /\ pc[t] = "remove" /\ pc'[t] \in {"remove", "free"}
            /\ \A s \in Threads \ {t} : pc'[s] = pc[s]
            /\ UNCHANGED <<held, looked, doomed>>
        BY <1>1, <2>5 DEF RemoveDoomed, TypeOK
      <3>2. \A s \in Threads : pc'[s] # "look"
        BY <3>1, AloneInside DEF Writing, Exclusive, Sweeping
      <3> QED
        BY <1>1, <3>1, <3>2 DEF SweepInv, Held, Sweeping
    <2>6. CASE CountSweep(t)
      BY <1>1, <2>6 DEF CountSweep, SweepInv
    <2> QED
      BY <1>4, <2>1, <2>2, <2>3, <2>4, <2>5, <2>6 DEF SweepStep
  <1>5. CASE UNCHANGED vars
    BY <1>1, <1>5 DEF vars, SweepInv, Held
  <1> QED
    BY <1>2, <1>3, <1>4, <1>5, Steps

(* A block that leaves the table is freed by the sweep that removed it.      *)
LEMMA FreeStep ==
  ASSUME IInv, [Next]_vars
  PROVE  FreeInv'
  <1> USE DEF Goto, Done, Claim, Unlock, Receive
  <1>1. TypeOK /\ FreeInv /\ TypeOK'
    BY TypeStep DEF IInv
  <1>2. ASSUME NEW t \in Threads, UNCHANGED <<table, text>>,
               \A s \in Threads \ {t} : pc'[s] = pc[s] /\ cur'[s] = cur[s],
               pc[t] # "free", pc'[t] # "free"
        PROVE  FreeInv'
    BY <1>1, <1>2 DEF FreeInv, TypeOK
  <1>3. ASSUME NEW t \in Threads, InternStep(t)
        PROVE  FreeInv'
    <2>1. CASE Insert(t)
      <3>1. \A s \in Threads : pc[s] # "free" /\ pc'[s] # "free"
        BY <1>1, <2>1, AloneInside
           DEF Insert, Writing, Exclusive, Sweeping, TypeOK
      <3> QED
        BY <1>1, <2>1, <3>1 DEF Insert, FreeInv, TypeOK
    <2>2. CASE ~Insert(t)
      BY <1>1, <1>2, <1>3, <2>2
         DEF InternStep, StartIntern, LockToRead, Find, TakeFound, LockToInsert,
             LockedToInsert, Recheck, CountInsert, TypeOK
    <2> QED
      BY <2>1, <2>2
  <1>4. ASSUME NEW t \in Threads, HandleStep(t)
        PROVE  FreeInv'
    <2>1. ASSUME NEW b \in Blocks, Clone(t, b) \/ Drop(t, b)
          PROVE  FreeInv'
      BY <1>1, <2>1, CountsOf DEF Clone, Drop, FreeInv
    <2>2. CASE Deallocate(t)
      <3>1. \A s \in Threads \ {t} : pc[s] # "free"
        BY <2>2, AloneInside DEF Deallocate, Writing, Exclusive, Sweeping
      <3>2. \A s \in Threads : pc'[s] # "free"
        BY <1>1, <2>2, <3>1 DEF Deallocate, TypeOK
      <3>3. \A b \in Blocks \ table : text'[b] = Free
        BY <1>1, <2>2, <3>1 DEF Deallocate, FreeInv, TypeOK
      <3> QED
        BY <2>2, <3>2, <3>3 DEF Deallocate, FreeInv
    <2> QED
      BY <1>4, <2>1, <2>2 DEF HandleStep
  <1>5. ASSUME NEW t \in Threads, SweepStep(t)
        PROVE  FreeInv'
    <2>1. CASE RemoveDoomed(t)
      <3>1. PICK b \in doomed \cap table :
               /\ table' = table \ {b}
               /\ IF strong[b] = 1
                    THEN cur' = [cur EXCEPT ![t] = b] /\ pc' = [pc EXCEPT ![t] = "free"]
                    ELSE UNCHANGED <<cur, pc>>
        BY <2>1 DEF RemoveDoomed
      <3>2. strong[b] = 1
        <4>1. ~Held(b)
          BY DEF IInv, SweepInv
        <4>2. /\ Cardinality(Handles(b)) = 0
              /\ strong[b] = Cardinality(Handles(b)) + 1
          BY <1>1, <4>1, HeldIsCounted DEF IInv, CountInv, BlockCounts, TypeOK
        <4> QED
          BY <4>2
      <3>3. text[b] # Free
        BY Distinct DEF IInv, TableInv
      <3>4. b \in Blocks /\ text' = text /\ pc[t] = "remove"
        BY <1>1, <2>1 DEF RemoveDoomed, TypeOK
      <3> QED
        <4>1. cur' = [cur EXCEPT ![t] = b] /\ pc' = [pc EXCEPT ![t] = "free"]
          BY <3>1, <3>2
        <4> QED
          BY <1>1, <3>1, <3>3, <3>4, <4>1 DEF FreeInv, TypeOK
    <2>2. CASE ~RemoveDoomed(t)
      BY <1>1, <1>2, <1>5, <2>2
         DEF SweepStep, StartSweep, LockedToSweep, Look, Looked, CountSweep, TypeOK
    <2> QED
      BY <2>1, <2>2
  <1>6. CASE UNCHANGED vars
    BY <1>1, <1>6 DEF vars, FreeInv
  <1> QED
    BY <1>3, <1>4, <1>5, <1>6, Steps

LEMMA OneMore ==
  ASSUME NEW S, IsFiniteSet(S), NEW x
  PROVE  /\ Cardinality(S) \in Nat
         /\ IsFiniteSet(S \cup {x}) /\ IsFiniteSet(S \ {x})
         /\ x \notin S => Cardinality(S \cup {x}) = Cardinality(S) + 1
         /\ x \in S => Cardinality(S \ {x}) = Cardinality(S) - 1
  BY FS_AddElement, FS_RemoveElement, FS_CardinalityType

(* The count of a block follows its handles and its place in the table.      *)
LEMMA BlockCountsStep ==
  ASSUME IInv, [Next]_vars
  PROVE  BlockCounts'
  <1>1. TypeOK /\ BlockCounts /\ TypeOK'
    BY TypeStep DEF IInv, CountInv
  <1>2. \A b \in Blocks : Cardinality(Handles(b)) \in Nat
    BY <1>1, HeldIsCounted DEF IInv
  <1>3. CASE UNCHANGED <<table, held, strong>>
    BY <1>1, <1>3 DEF BlockCounts, Handles
  <1>4. ASSUME NEW t \in Threads, NEW b \in Blocks, b \in table,
               held' = [held EXCEPT ![t][b] = @ + 1],
               strong' = [strong EXCEPT ![b] = @ + 1],
               table' = table
        PROVE  BlockCounts'
    <2>1. /\ Handles(b)' = Handles(b) \cup {<<t, held[t][b] + 1>>}
          /\ <<t, held[t][b] + 1>> \notin Handles(b)
          /\ \A x \in Blocks \ {b} : Handles(x)' = Handles(x)
      BY <1>1, <1>4, ReceivedHandle
    <2>2. /\ IsFiniteSet(Handles(b)')
          /\ Cardinality(Handles(b)') = Cardinality(Handles(b)) + 1
      BY <1>1, <2>1, OneMore DEF BlockCounts
    <2>3. strong'[b] = Cardinality(Handles(b)') + IF b \in table' THEN 1 ELSE 0
      BY <1>1, <1>2, <1>4, <2>2 DEF BlockCounts, TypeOK
    <2>4. ASSUME NEW x \in Blocks \ {b}
          PROVE  /\ IsFiniteSet(Handles(x)')
                 /\ strong'[x] = Cardinality(Handles(x)') + IF x \in table' THEN 1 ELSE 0
      BY <1>1, <1>4, <2>1 DEF BlockCounts, TypeOK
    <2> QED
      BY <2>2, <2>3, <2>4 DEF BlockCounts
  <1>5. ASSUME NEW t \in Threads, Insert(t)
        PROVE  BlockCounts'
    <2>1. PICK b \in Blocks :
             /\ text[b] = Free
             /\ strong' = [strong EXCEPT ![b] = 2]
             /\ held' = [held EXCEPT ![t][b] = @ + 1]
             /\ table' = table \cup {b}
      BY <1>5 DEF Insert
    <2>2. b \notin table /\ ~Held(b)
      BY <2>1, Distinct DEF IInv, TableInv
    <2>3. /\ Handles(b)' = Handles(b) \cup {<<t, held[t][b] + 1>>}
          /\ <<t, held[t][b] + 1>> \notin Handles(b)
          /\ \A x \in Blocks \ {b} : Handles(x)' = Handles(x)
      BY <1>1, <2>1, ReceivedHandle
    <2>4. Cardinality(Handles(b)) = 0
      BY <1>1, <2>2, HeldIsCounted DEF IInv
    <2>5. /\ IsFiniteSet(Handles(b)')
          /\ Cardinality(Handles(b)') = 1
      BY <1>1, <2>3, <2>4, OneMore DEF BlockCounts
    <2>6. strong'[b] = Cardinality(Handles(b)') + IF b \in table' THEN 1 ELSE 0
      BY <1>1, <2>1, <2>5 DEF TypeOK
    <2>7. ASSUME NEW x \in Blocks \ {b}
          PROVE  /\ IsFiniteSet(Handles(x)')
                 /\ strong'[x] = Cardinality(Handles(x)') + IF x \in table' THEN 1 ELSE 0
      BY <1>1, <2>1, <2>3 DEF BlockCounts, TypeOK
    <2> QED
      BY <2>5, <2>6, <2>7 DEF BlockCounts
  <1>6. ASSUME NEW t \in Threads, NEW b \in Blocks, Drop(t, b)
        PROVE  BlockCounts'
    <2>1. /\ Handles(b)' = Handles(b) \ {<<t, held[t][b]>>}
          /\ <<t, held[t][b]>> \in Handles(b)
          /\ \A x \in Blocks \ {b} : Handles(x)' = Handles(x)
      BY <1>1, <1>6, DroppedHandle DEF Drop
    <2>2. /\ IsFiniteSet(Handles(b)')
          /\ Cardinality(Handles(b)') = Cardinality(Handles(b)) - 1
      BY <1>1, <2>1, OneMore DEF BlockCounts
    <2>3. strong' = [strong EXCEPT ![b] = @ - 1] /\ table' = table
      BY <1>6 DEF Drop
    <2>4. strong'[b] = Cardinality(Handles(b)') + IF b \in table' THEN 1 ELSE 0
      BY <1>1, <1>2, <2>2, <2>3 DEF BlockCounts, TypeOK
    <2>5. ASSUME NEW x \in Blocks \ {b}
          PROVE  /\ IsFiniteSet(Handles(x)')
                 /\ strong'[x] = Cardinality(Handles(x)') + IF x \in table' THEN 1 ELSE 0
      BY <1>1, <2>1, <2>3 DEF BlockCounts, TypeOK
    <2> QED
      BY <2>2, <2>4, <2>5 DEF BlockCounts
  <1>7. ASSUME NEW t \in Threads, RemoveDoomed(t)
        PROVE  BlockCounts'
    <2>1. PICK b \in doomed \cap table :
             /\ table' = table \ {b}
             /\ strong' = [strong EXCEPT ![b] = @ - 1]
      BY <1>7 DEF RemoveDoomed
    <2>2. b \in Blocks /\ \A x \in Blocks : Handles(x)' = Handles(x)
      BY <1>1, <1>7 DEF RemoveDoomed, Handles, TypeOK
    <2> QED
      BY <1>1, <1>2, <2>1, <2>2 DEF BlockCounts, TypeOK
  <1> QED
    BY <1>3, <1>4, <1>5, <1>6, <1>7, Steps, Exchanged DEF vars

(* nuse lags behind the table only inside an insertion or a sweep, and what  *)
(* it lags by is known: one entry, or those to_remove holds.                 *)
LEMMA TableCountStep ==
  ASSUME IInv, [Next]_vars
  PROVE  TableCount'
  <1> USE DEF Goto, Done, Claim, Unlock
  <1>1. TypeOK /\ TableCount
    BY DEF IInv, CountInv
  <1>2. CASE UNCHANGED <<table, doomed, nuse>> /\ Counting' = Counting
    BY <1>1, <1>2 DEF TableCount
  <1>3. ASSUME NEW t \in Threads, InternStep(t)
        PROVE  TableCount'
    <2>1. CASE Insert(t)
      <3>1. PICK b \in Blocks : text[b] = Free /\ table' = table \cup {b}
        BY <2>1 DEF Insert
      <3>2. b \notin table
        BY <3>1, Distinct DEF IInv, TableInv
      <3>3. doomed = {} /\ doomed' = {}
        BY <2>1, NoSweep DEF Insert, Writing, Exclusive, Sweeping
      <3>4. ~Counting /\ Counting'
        BY <1>1, <2>1, AloneInside
           DEF Insert, Counting, Writing, Exclusive, TypeOK
      <3>5. table \cup doomed = table /\ table' \cup doomed' = table \cup {b}
        BY <3>1, <3>3
      <3>6. IsFiniteSet(table) /\ Cardinality(table) = nuse
        <4>1. IsFiniteSet(table \cup doomed) /\ Cardinality(table \cup doomed) = nuse
          BY <1>1, <3>4 DEF TableCount, TypeOK
        <4> QED
          BY <3>5, <4>1
      <3>7. /\ IsFiniteSet(table \cup {b})
            /\ Cardinality(table \cup {b}) = nuse + 1
        BY <3>2, <3>6, OneMore
      <3>8. nuse' = nuse
        BY <2>1 DEF Insert
      <3> QED
        BY <3>4, <3>5, <3>7, <3>8 DEF TableCount
    <2>2. CASE CountInsert(t)
      <3>1. Counting /\ ~Counting'
        BY <1>1, <2>2, AloneInside
           DEF CountInsert, Counting, Writing, Exclusive, TypeOK
      <3> QED
        BY <1>1, <2>2, <3>1 DEF CountInsert, TableCount, TypeOK
    <2>3. CASE ~Insert(t) /\ ~CountInsert(t)
      BY <1>1, <1>2, <1>3, <2>3
         DEF InternStep, StartIntern, LockToRead, Find, TakeFound, LockToInsert,
             LockedToInsert, Recheck, Counting, TypeOK
    <2> QED
      BY <2>1, <2>2, <2>3
  <1>4. ASSUME NEW t \in Threads, HandleStep(t)
        PROVE  TableCount'
    BY <1>1, <1>2, <1>4
       DEF HandleStep, Clone, Drop, Deallocate, Counting, TypeOK
  <1>5. ASSUME NEW t \in Threads, SweepStep(t)
        PROVE  TableCount'
    <2>1. CASE Look(t)
      <3>1. table' \cup doomed' = table \cup doomed
        BY <2>1 DEF Look
      <3> QED
        BY <1>1, <2>1, <3>1 DEF Look, TableCount, Counting
    <2>2. CASE RemoveDoomed(t)
      <3>1. table' \cup doomed' = table \cup doomed
        BY <2>2 DEF RemoveDoomed
      <3>2. Counting' = Counting
        BY <1>1, <2>2 DEF RemoveDoomed, Counting, TypeOK
      <3> QED
        BY <1>1, <2>2, <3>1, <3>2 DEF RemoveDoomed, TableCount
    <2>3. CASE CountSweep(t)
      <3>1. ~Counting /\ ~Counting'
        BY <1>1, <2>3, AloneInside
           DEF CountSweep, Counting, Writing, Exclusive, Sweeping, TypeOK
      <3>2. IsFiniteSet(table) /\ IsFiniteSet(doomed)
        BY <1>1, FS_Subset DEF TableCount
      <3>3. /\ Cardinality(table) \in Nat /\ Cardinality(doomed) \in Nat
            /\ Cardinality({}) = 0
        BY <3>2, FS_CardinalityType, FS_EmptySet
      <3>4. table \cap doomed = {} /\ table \cup {} = table
        BY <2>3 DEF CountSweep
      <3>5. Cardinality(table \cup doomed) = Cardinality(table) + Cardinality(doomed)
        <4>1. Cardinality(table \cup doomed)
                = Cardinality(table) + Cardinality(doomed) - Cardinality(table \cap doomed)
          BY <3>2, FS_Union
        <4>2. Cardinality(table \cap doomed) = 0
          BY <3>3, <3>4
        <4> QED
          BY <3>3, <4>1, <4>2
      <3>6. nuse = Cardinality(table) + Cardinality(doomed)
        BY <1>1, <3>1, <3>5 DEF TableCount, TypeOK
      <3>7. nuse' = Minus(nuse, Cardinality(doomed))
        BY <2>3 DEF CountSweep
      <3>8. nuse' = Cardinality(table) /\ nuse' \in Nat
        BY <3>3, <3>6, <3>7 DEF Minus
      <3>9. table' \cup doomed' = table
        BY <2>3 DEF CountSweep
      <3>10. IsFiniteSet(table' \cup doomed') /\ Cardinality(table' \cup doomed') = nuse'
        BY <3>2, <3>8, <3>9
      <3> QED
        BY <3>1, <3>8, <3>10 DEF TableCount
    <2>4. CASE ~Look(t) /\ ~RemoveDoomed(t) /\ ~CountSweep(t)
      BY <1>1, <1>2, <1>5, <2>4
         DEF SweepStep, StartSweep, LockedToSweep, Looked, Counting, TypeOK
    <2> QED
      BY <2>1, <2>2, <2>3, <2>4
  <1>6. CASE UNCHANGED vars
    BY <1>2, <1>6 DEF vars, Counting
  <1> QED
    BY <1>3, <1>4, <1>5, <1>6, Steps

THEOREM StringInvariant == Spec => []IInv
  <1>1. IInv /\ [Next]_vars => IInv'
    BY TypeStep, LockStep, AskStep, TableStep, DoomedStep, FreeStep,
       BlockCountsStep, TableCountStep DEF IInv, CountInv
  <1> QED
    BY <1>1, InvInit, PTL DEF Spec

-----------------------------------------------------------------------------
(* Every variable of the table keeps its type; in particular no count of     *)
(* references or entries goes below zero.                                    *)
THEOREM StringTypes == Spec => []TypeOK
  <1>1. IInv => TypeOK
    BY DEF IInv
  <1> QED
    BY <1>1, StringInvariant, PTL

(* Two handles of one content are handles of one block, which is still       *)
(* there: short strings may be compared by address.                          *)
THEOREM Interned == Spec => []OneObjectPerString
  <1>1. IInv => OneObjectPerString
    BY Distinct DEF IInv, TableInv, OneObjectPerString
  <1> QED
    BY <1>1, StringInvariant, PTL

(* The count of a block is that of its handles and the table's, and a block  *)
(* nobody has any more is being freed by exactly one thread.                 *)
THEOREM NoBlockLeaks == Spec => []BlocksAccountedFor
  <1>1. ASSUME IInv PROVE BlocksAccountedFor
    <2> SUFFICES ASSUME NEW b \in Blocks, text[b] # Free, strong[b] = 0
                 PROVE  Cardinality({t \in Threads : pc[t] = "free" /\ cur[t] = b}) = 1
      BY <1>1 DEF BlocksAccountedFor, IInv, CountInv, BlockCounts
    <2>1. b \notin table
      BY <1>1, CountsOf
    <2>2. PICK s \in Threads : pc[s] = "free" /\ cur[s] = b
      BY <1>1, <2>1 DEF IInv, FreeInv
    <2>3. {t \in Threads : pc[t] = "free" /\ cur[t] = b} = {s}
      BY <1>1, <2>2, AloneInside DEF Writing, Exclusive, Sweeping
    <2> QED
      BY <2>3, FS_Singleton
  <1> QED
    BY <1>1, StringInvariant, PTL

(* The counter beside the table is exact whenever no writer is at work.      *)
THEOREM CountedEntries == Spec => []CountExact
  <1>1. ASSUME IInv, writer = NoThread PROVE nuse = Cardinality(table)
    <2>1. \A t \in Threads : pc[t] \notin Writing
      BY <1>1, Distinct DEF IInv, LockInv
    <2>2. doomed = {} /\ ~Counting
      BY <1>1, <2>1 DEF IInv, SweepInv, Counting, Writing, Exclusive, Sweeping
    <2>3. table \cup doomed = table
      BY <2>2
    <2> QED
      BY <1>1, <2>2, <2>3 DEF IInv, CountInv, TableCount, TypeOK
  <1>2. IInv => CountExact
    BY <1>1 DEF CountExact
  <1> QED
    BY <1>2, StringInvariant, PTL

-----------------------------------------------------------------------------
(* The object of a content is its entry, before and after any step that      *)
(* keeps the table in order.                                                 *)
ObjectIs(ob, tab, txt) ==
    /\ DOMAIN ob = Content
    /\ \A c \in Content :
        /\ (\A b \in tab : txt[b] # c) => ob[c] = NoBlock
        /\ \A b \in tab : txt[b] = c => ob[c] = b

LEMMA ObjectNow ==
  ASSUME TableInv
  PROVE  ObjectIs(Object, table, text) /\ Object = [c \in Content |-> Object[c]]
  <1>1. ASSUME NEW c \in Content, NEW b \in table, text[b] = c
        PROVE  Object[c] = b
    <2>1. InTable(c) = {b}
      BY <1>1 DEF TableInv, InTable
    <2> QED
      BY <2>1 DEF Object
  <1>2. ASSUME NEW c \in Content, \A b \in table : text[b] # c
        PROVE  Object[c] = NoBlock
    <2>1. InTable(c) = {}
      BY <1>2 DEF InTable
    <2> QED
      BY <2>1 DEF Object
  <1>3. DOMAIN Object = Content /\ Object = [c \in Content |-> Object[c]]
    BY DEF Object
  <1> QED
    BY <1>1, <1>2, <1>3 DEF ObjectIs

LEMMA ObjectThen ==
  ASSUME TableInv'
  PROVE  ObjectIs(Object', table', text') /\ Object' = [c \in Content |-> Object'[c]]
  <1>1. ASSUME NEW c \in Content, NEW b \in table', text'[b] = c
        PROVE  Object'[c] = b
    <2>1. InTable(c)' = {b}
      BY <1>1 DEF TableInv, InTable
    <2> QED
      BY <2>1 DEF Object
  <1>2. ASSUME NEW c \in Content, \A b \in table' : text'[b] # c
        PROVE  Object'[c] = NoBlock
    <2>1. InTable(c)' = {}
      BY <1>2 DEF InTable
    <2> QED
      BY <2>1 DEF Object
  <1>3. DOMAIN Object' = Content /\ Object' = [c \in Content |-> Object'[c]]
    BY DEF Object
  <1> QED
    BY <1>1, <1>2, <1>3 DEF ObjectIs

(* Each step of the table is a step of the pool or none: what another thread *)
(* sees of interning happens at once, when the handle is taken.              *)
LEMMA PoolStep ==
  ASSUME IInv, [Next]_vars
  PROVE  [Pool!Next]_(Pool!vars)
  <1>1. TypeOK /\ TableInv /\ TypeOK' /\ TableInv'
    BY TypeStep, TableStep DEF IInv
  <1>2. /\ ObjectIs(Object, table, text)
        /\ ObjectIs(Object', table', text')
        /\ Object = [c \in Content |-> Object[c]]
        /\ Object' = [c \in Content |-> Object'[c]]
    BY <1>1, ObjectNow, ObjectThen
  <1>3. ASSUME table' = table, \A b \in table : text'[b] = text[b]
        PROVE  Object' = Object
    <2>1. \A c \in Content : Object'[c] = Object[c]
      BY <1>2, <1>3 DEF ObjectIs
    <2> QED
      BY <1>2, <2>1
  <1>4. CASE UNCHANGED <<table, text, held>>
    BY <1>3, <1>4 DEF Pool!vars
  <1>5. ASSUME NEW t \in Threads, NEW b \in Blocks, b \in table,
               held' = [held EXCEPT ![t][b] = @ + 1],
               UNCHANGED <<table, text>>
        PROVE  Pool!Next
    <2>1. text[b] \in Content /\ Object[text[b]] = b /\ b # NoBlock
      BY <1>1, <1>2, <1>5, Distinct DEF TableInv, ObjectIs
    <2>2. Object' = Object
      BY <1>3, <1>5
    <2>3. Pool!InternKnown(t, text[b])
      BY <1>5, <2>1, <2>2 DEF Pool!InternKnown, Pool!Gain
    <2> QED
      BY <2>1, <2>3 DEF Pool!Next
  <1>6. ASSUME NEW t \in Threads, Insert(t)
        PROVE  Pool!Next
    <2>1. PICK b \in Blocks :
             /\ text[b] = Free
             /\ text' = [text EXCEPT ![b] = want[t]]
             /\ held' = [held EXCEPT ![t][b] = @ + 1]
             /\ table' = table \cup {b}
      BY <1>6 DEF Insert
    <2>2. want[t] \in Content /\ \A x \in table : text[x] # want[t]
      BY <1>6 DEF Insert, Known, Entries, IInv, AskInv, Asking
    <2>3. b \notin table
      BY <1>1, <2>1, Distinct DEF TableInv
    <2>4. /\ text'[b] = want[t]
          /\ \A x \in table : text'[x] = text[x]
      BY <1>1, <2>1, <2>3 DEF TypeOK
    <2>5. Object[want[t]] = NoBlock
      BY <1>2, <2>2 DEF ObjectIs
    <2>6. \A d \in Content : Object[d] # b
      BY <1>2, <2>3, Distinct DEF ObjectIs
    <2>7. Object' = [Object EXCEPT ![want[t]] = b]
      <3>1. Object'[want[t]] = b
        BY <1>2, <2>1, <2>2, <2>4 DEF ObjectIs
      <3>2. \A d \in Content \ {want[t]} : Object'[d] = Object[d]
        BY <1>2, <2>1, <2>4 DEF ObjectIs
      <3> QED
        BY <1>2, <3>1, <3>2
    <2>8. Pool!InternNew(t, want[t])
      BY <2>1, <2>5, <2>6, <2>7 DEF Pool!InternNew, Pool!Gain
    <2> QED
      BY <2>2, <2>8 DEF Pool!Next
  <1>7. ASSUME NEW t \in Threads, NEW b \in Blocks, Drop(t, b)
        PROVE  Pool!Next
    <2>1. Object' = Object
      BY <1>3, <1>7 DEF Drop
    <2>2. Pool!Drop(t, b)
      BY <1>7, <2>1 DEF Drop, Pool!Drop
    <2> QED
      BY <2>2 DEF Pool!Next
  <1>8. ASSUME NEW t \in Threads, Deallocate(t)
        PROVE  Object' = Object /\ held' = held
    <2>1. cur[t] \notin table
      BY <1>8 DEF Deallocate, IInv, FreeInv
    <2> QED
      BY <1>1, <1>3, <1>8, <2>1 DEF Deallocate, TypeOK
  <1>9. ASSUME NEW t \in Threads, RemoveDoomed(t)
        PROVE  Pool!Next
    <2>1. PICK b \in doomed \cap table : table' = table \ {b}
      BY <1>9 DEF RemoveDoomed
    <2>2. ~Held(b) /\ b \in Blocks
      BY <1>1 DEF IInv, SweepInv, TypeOK
    <2>3. text[b] \in Content /\ Object[text[b]] = b /\ b # NoBlock
      BY <1>1, <1>2, <2>2, Distinct DEF TableInv, ObjectIs
    <2>4. \A s \in Threads : held[s][b] = 0
      BY <1>1, <2>2 DEF Held, TypeOK
    <2>5. UNCHANGED <<text, held>>
      BY <1>9 DEF RemoveDoomed
    <2>6. Object' = [Object EXCEPT ![text[b]] = NoBlock]
      <3>1. Object'[text[b]] = NoBlock
        BY <1>1, <1>2, <2>1, <2>3, <2>5 DEF ObjectIs, TableInv
      <3>2. \A d \in Content \ {text[b]} : Object'[d] = Object[d]
        BY <1>2, <2>1, <2>5 DEF ObjectIs
      <3> QED
        BY <1>2, <3>1, <3>2
    <2>7. Pool!Forget(text[b])
      BY <2>3, <2>4, <2>5, <2>6 DEF Pool!Forget
    <2> QED
      BY <2>3, <2>7 DEF Pool!Next
  <1> QED
    BY <1>4, <1>5, <1>6, <1>7, <1>8, <1>9, Steps, Exchanged DEF vars, Pool!vars

(* The table keeps the promise of interning: to the threads that use it, it  *)
(* is the pool of StringPool, in which finding, inserting and sweeping a     *)
(* string are single steps.                                                  *)
THEOREM TableIsPool == Spec => PoolSpec
  <1>1. Init => Pool!Init
    <2> SUFFICES ASSUME Init PROVE Pool!Init
      OBVIOUS
    <2>1. \A c \in Content : InTable(c) = {}
      BY DEF Init, InTable
    <2>2. Object = [c \in Content |-> NoBlock]
      BY <2>1 DEF Object
    <2> QED
      BY <2>2 DEF Init, Pool!Init
  <1> QED
    BY <1>1, PoolStep, StringInvariant, PTL DEF Spec, PoolSpec, Pool!Spec
=============================================================================

---------------------------- MODULE StringTable ----------------------------
(* The interning table of the threaded build, as src_rs/strings.rs and the   *)
(* SimpleArc of src_rs/alloc.rs write it: threads intern short strings,      *)
(* copy and drop their handles, and the collector of one of them sweeps the  *)
(* table.  The table is guarded by a lock of many readers or one writer;     *)
(* reference counts are touched without it.                                  *)
(*                                                                           *)
(* A block of memory is an address: once freed it may be handed out again.   *)
(* Steps are what other threads can observe: one per acquired lock, per      *)
(* atomic operation on a count, per deallocation.                            *)
EXTENDS Integers, FiniteSets, FiniteSetsExt

CONSTANTS Threads, Content, Blocks,
          NoThread, NoBlock, Free,
          MaxHandles        \* bound on the handles each thread keeps

ASSUME Distinct ==
    /\ NoThread \notin Threads
    /\ NoBlock \notin Blocks
    /\ Free \notin Content
    /\ MaxHandles \in [Threads -> Nat]

VARIABLES table,    \* SUBSET Blocks: ht, one strong reference each
          nuse,     \* the counter beside it
          readers,  \* threads with the read lock on ht
          writer,   \* the thread with the write lock, or NoThread
          text,     \* [Blocks -> Content \cup {Free}]: the payload
          strong,   \* [Blocks -> Nat]: SimpleArcHeader.strong
          held,     \* [Threads -> [Blocks -> Nat]]: handles of a thread
          pc,       \* [Threads -> position]
          want,     \* [Threads -> content asked for, or Free]
          cur,      \* [Threads -> block at hand, or NoBlock]
          looked,   \* of the sweep: the entries seen
          doomed    \* and to_remove

vars == <<table, nuse, readers, writer, text, strong, held, pc, want, cur,
          looked, doomed>>

Goto(t, l) == pc' = [pc EXCEPT ![t] = l]
Done(t) == Goto(t, "idle") /\ want' = [want EXCEPT ![t] = Free]

Unlock(t) == readers' = readers \ {t}

MayReceive(t) == MapThenSumSet(LAMBDA b : held[t][b], Blocks) < MaxHandles[t]

-----------------------------------------------------------------------------
(* intern_with_hash and intern_bytes.                                        *)

StartIntern(t, c) ==
    /\ pc[t] = "idle" /\ MayReceive(t)
    /\ want' = [want EXCEPT ![t] = c]
    /\ Goto(t, "intern")
    /\ UNCHANGED <<table, nuse, readers, writer, text, strong, held, cur, looked, doomed>>

(* parking_lot::RwLock.                                                      *)
LockToRead(t) ==
    /\ pc[t] = "intern"
    /\ writer = NoThread
    /\ readers' = readers \cup {t}
    /\ Goto(t, "find")
    /\ UNCHANGED <<table, nuse, writer, text, strong, held, want, cur, looked, doomed>>

(* find_interned: the entry with this hash and content.                      *)
Entries(t) == {b \in table : text[b] = want[t]}

(* The search and the clone of the handle found are two steps.               *)
Find(t) ==
    /\ pc[t] = "find"
    /\ IF Entries(t) = {}
         THEN /\ Unlock(t)
              /\ Goto(t, "lock")
              /\ UNCHANGED cur
         ELSE /\ \E b \in Entries(t) : cur' = [cur EXCEPT ![t] = b]
              /\ Goto(t, "take")
              /\ UNCHANGED readers
    /\ UNCHANGED <<table, nuse, writer, text, strong, held, want, looked, doomed>>

Receive(t, b) ==
    /\ strong' = [strong EXCEPT ![b] = @ + 1]
    /\ held' = [held EXCEPT ![t][b] = @ + 1]

TakeFound(t) ==
    /\ pc[t] = "take"
    /\ Receive(t, cur[t])
    /\ Unlock(t)
    /\ cur' = [cur EXCEPT ![t] = NoBlock]
    /\ Done(t)
    /\ UNCHANGED <<table, nuse, writer, text, looked, doomed>>

(* A writer first claims the lock, which keeps new readers out, and then     *)
(* waits for those inside to leave.                                          *)
Claim_WhenUnlocked(t, from, to) ==
    /\ pc[t] = from
    /\ writer = NoThread /\ readers = {}
    /\ writer' = t
    /\ Goto(t, to)
Claim(t, from, to) ==
    /\ pc[t] = from
    /\ writer = NoThread
    /\ writer' = t
    /\ Goto(t, to)

Alone_Claimed(t) == writer = t
Alone(t) == writer = t /\ readers = {}

LockToInsert(t) ==
    /\ Claim(t, "lock", "waitToInsert")
    /\ UNCHANGED <<table, nuse, readers, text, strong, held, want, cur, looked, doomed>>

LockedToInsert(t) ==
    /\ pc[t] = "waitToInsert" /\ Alone(t)
    /\ Goto(t, "recheck")
    /\ UNCHANGED <<table, nuse, readers, writer, text, strong, held, want, cur, looked, doomed>>

(* Under the write lock the table is searched again, since another thread    *)
(* may have inserted the string between the two locks.                       *)
Known_NotAgain(t) == FALSE
Known(t) == Entries(t) # {}

Recheck(t) ==
    /\ pc[t] = "recheck"
    /\ Known(t)
    /\ \E b \in Entries(t) : Receive(t, b)
    /\ writer' = NoThread
    /\ Done(t)
    /\ UNCHANGED <<table, nuse, readers, text, cur, looked, doomed>>

(* new_sstr, and insert_unique of a second handle.                           *)
Insert(t) ==
    /\ pc[t] = "recheck"
    /\ ~Known(t)
    /\ \E b \in {b \in Blocks : text[b] = Free} :
        /\ text' = [text EXCEPT ![b] = want[t]]
        /\ strong' = [strong EXCEPT ![b] = 2]
        /\ held' = [held EXCEPT ![t][b] = @ + 1]
        /\ table' = table \cup {b}
    /\ Goto(t, "count")
    /\ UNCHANGED <<nuse, readers, writer, want, cur, looked, doomed>>

CountInsert(t) ==
    /\ pc[t] = "count"
    /\ nuse' = nuse + 1
    /\ writer' = NoThread
    /\ Done(t)
    /\ UNCHANGED <<table, readers, text, strong, held, cur, looked, doomed>>

-----------------------------------------------------------------------------
(* Handles: SimpleArc::clone and drop.                                       *)

Clone(t, b) ==
    /\ pc[t] = "idle" /\ MayReceive(t)
    /\ held[t][b] > 0
    /\ Receive(t, b)
    /\ UNCHANGED <<table, nuse, readers, writer, text, pc, want, cur, looked, doomed>>

(* fetch_sub; whoever takes the count from 1 frees the block.                *)
Drop(t, b) ==
    /\ pc[t] = "idle"
    /\ held[t][b] > 0
    /\ held' = [held EXCEPT ![t][b] = @ - 1]
    /\ strong' = [strong EXCEPT ![b] = @ - 1]
    /\ IF strong[b] = 1
         THEN cur' = [cur EXCEPT ![t] = b] /\ Goto(t, "free")
         ELSE UNCHANGED <<cur, pc>>
    /\ UNCHANGED <<table, nuse, readers, writer, text, want, looked, doomed>>

Deallocate(t) ==
    /\ pc[t] = "free"
    /\ text' = [text EXCEPT ![cur[t]] = Free]
    /\ cur' = [cur EXCEPT ![t] = NoBlock]
    /\ Goto(t, IF writer = t THEN "remove" ELSE "idle")
    /\ UNCHANGED <<table, nuse, readers, writer, strong, held, want, looked, doomed>>

-----------------------------------------------------------------------------
(* sweep, called at the end of a collection.                                 *)

StartSweep(t) ==
    /\ Claim(t, "idle", "waitToSweep")
    /\ UNCHANGED <<table, nuse, readers, text, strong, held, want, cur, looked, doomed>>

LockedToSweep(t) ==
    /\ pc[t] = "waitToSweep" /\ Alone(t)
    /\ Goto(t, "look")
    /\ UNCHANGED <<table, nuse, readers, writer, text, strong, held, want, cur, looked, doomed>>

OnlyInTable_OneHandle(b) == strong[b] <= 2
OnlyInTable(b) == strong[b] <= 1

Look(t) ==
    /\ pc[t] = "look"
    /\ \E b \in table \ looked :
        /\ looked' = looked \cup {b}
        /\ doomed' = IF OnlyInTable(b) THEN doomed \cup {b} ELSE doomed
    /\ UNCHANGED <<table, nuse, readers, writer, text, strong, held, pc, want, cur>>

Looked(t) ==
    /\ pc[t] = "look"
    /\ looked = table
    /\ Goto(t, "remove")
    /\ UNCHANGED <<table, nuse, readers, writer, text, strong, held, want, cur, looked, doomed>>

(* entry.remove() drops the handle of the table.                             *)
RemoveDoomed(t) ==
    /\ pc[t] = "remove"
    /\ \E b \in doomed \cap table :
        /\ table' = table \ {b}
        /\ strong' = [strong EXCEPT ![b] = @ - 1]
        /\ IF strong[b] = 1
             THEN cur' = [cur EXCEPT ![t] = b] /\ Goto(t, "free")
             ELSE UNCHANGED <<cur, pc>>
    /\ UNCHANGED <<nuse, readers, writer, text, held, want, looked, doomed>>

Minus_Never(n, k) == n
Minus(n, k) == IF n < k THEN 0 ELSE n - k   \* saturating_sub

CountSweep(t) ==
    /\ pc[t] = "remove"
    /\ doomed \cap table = {}
    /\ nuse' = Minus(nuse, Cardinality(doomed))
    /\ writer' = NoThread
    /\ looked' = {} /\ doomed' = {}
    /\ Goto(t, "idle")
    /\ UNCHANGED <<table, readers, text, strong, held, want, cur>>

-----------------------------------------------------------------------------
Init ==
    /\ table = {} /\ nuse = 0
    /\ readers = {} /\ writer = NoThread
    /\ text = [b \in Blocks |-> Free]
    /\ strong = [b \in Blocks |-> 0]
    /\ held = [t \in Threads |-> [b \in Blocks |-> 0]]
    /\ pc = [t \in Threads |-> "idle"]
    /\ want = [t \in Threads |-> Free]
    /\ cur = [t \in Threads |-> NoBlock]
    /\ looked = {} /\ doomed = {}

Continue(t) ==
    \/ LockToRead(t) \/ Find(t) \/ TakeFound(t)
    \/ LockToInsert(t) \/ LockedToInsert(t) \/ Recheck(t) \/ Insert(t) \/ CountInsert(t)
    \/ Deallocate(t)
    \/ LockedToSweep(t) \/ Look(t) \/ Looked(t) \/ RemoveDoomed(t) \/ CountSweep(t)

Request(t) ==
    \/ \E c \in Content : StartIntern(t, c)
    \/ \E b \in Blocks : Clone(t, b) \/ Drop(t, b)
    \/ StartSweep(t)

Next == \E t \in Threads : Continue(t) \/ Request(t)

Spec == Init /\ [][Next]_vars

(* A thread in the middle of an operation goes on; parking_lot's locks are   *)
(* eventually fair: who waits for one that keeps becoming free gets it.      *)
Locks(t) == LockToRead(t) \/ LockToInsert(t)

FairSpec ==
    Spec /\ \A t \in Threads : WF_vars(Continue(t)) /\ SF_vars(Locks(t))

-----------------------------------------------------------------------------
TypeOK ==
    /\ table \in SUBSET Blocks
    /\ nuse \in Nat
    /\ readers \in SUBSET Threads
    /\ writer \in Threads \cup {NoThread}
    /\ text \in [Blocks -> Content \cup {Free}]
    /\ strong \in [Blocks -> Nat]
    /\ held \in [Threads -> [Blocks -> Nat]]
    /\ pc \in [Threads -> {"idle", "intern", "find", "take", "lock",
                           "waitToInsert", "recheck", "count", "waitToSweep",
                           "free", "look", "remove"}]
    /\ want \in [Threads -> Content \cup {Free}]
    /\ cur \in [Threads -> Blocks \cup {NoBlock}]
    /\ looked \in SUBSET Blocks /\ doomed \in SUBSET Blocks

Held(b) == \E t \in Threads : held[t][b] > 0

(* The handles of a block, each thread's numbered.                           *)
Handles(b) == UNION {{t} \X (1..held[t][b]) : t \in Threads}

(* Short strings are compared by address (lua_string_eq), so two handles of  *)
(* one content must be handles of one block, whichever threads interned it,  *)
(* copied it or swept the table meanwhile; and no handle outlives its block. *)
OneObjectPerString ==
    \A b, c \in {x \in Blocks : Held(x)} :
        text[b] # Free /\ (text[b] = text[c] => b = c)

(* A block in use is counted: its count is the number of its handles plus    *)
(* the table's, and a block that is neither in the table nor held is freed   *)
(* by the thread that dropped the last handle.  No string leaks.             *)
BlocksAccountedFor ==
    \A b \in Blocks :
        /\ strong[b] = Cardinality(Handles(b)) + IF b \in table THEN 1 ELSE 0
        /\ text[b] # Free /\ strong[b] = 0
              => Cardinality({t \in Threads : pc[t] = "free" /\ cur[t] = b}) = 1

(* StringTable::count is the number of entries whenever nobody is writing.   *)
CountExact == writer = NoThread => nuse = Cardinality(table)

(* The table keeps the promise of interning.                                 *)
InTable(c) == {b \in table : text[b] = c}
Object == [c \in Content |-> IF InTable(c) = {} THEN NoBlock
                             ELSE CHOOSE b \in InTable(c) : TRUE]
Pool == INSTANCE StringPool WITH object <- Object
PoolSpec == Pool!Spec

(* A thread that asks for a string gets it, whatever the others do.          *)
InternReturns ==
    \A t \in Threads : pc[t] = "intern" ~> pc[t] = "idle"
=============================================================================

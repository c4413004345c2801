# TLA+ verification of rust_lua

`rust_lua` is a Lua 5.5 interpreter in Rust (`src/src_rs/`), a port of the C
implementation kept beside it in `src/src/`.  This directory holds TLA+ models
of the parts whose correctness depends on the order of steps, TLC runs that
check them on small instances, and TLAPS proofs for every size.

    tlc -config gc_weak.cfg MCGc      model-check one run
    tlapm GcProofs.tla                check the proofs of a module

## 1. Inventory

| part | files | state it keeps | operations | what is hard | what makes it correct |
|---|---|---|---|---|---|
| Garbage collector | `gc.rs` | colour per registered object, `aux_marked`, `weak_tables`, `finobj_list`, `ud_finobj_list`, `threads`, `gc_running`, `gcemergency` | `collect_gc`, `emergency_gc`, `register_*` | finalizers run inside the cycle; weak tables, ephemerons and resurrection feed each other; two mark sets; emergencies | nothing accessible is swept; exactly what must be kept is marked; every finalizer runs once per mark; a cycle ends |
| State close | `state.rs` `close_state`, `break_close_refs` | `gc_closing`, local `to_finalize` | close, drain lists, finalizers, break references, last collection | finalizers run code that allocates and marks | all finalizers run, in the promised order; close ends |
| setmetatable | `stdlib/base_lib.rs`, `stdlib/debug_lib.rs`, `capi.rs` | registration of weak tables and finalizers | set a metatable | registration happens here only, `__mode`/`__gc` are read later | what is weak or finalizable is registered |
| Coroutines | `stdlib/coroutine_lib.rs` | status, saved execution, `upval_origins` | create, resume, yield, close, wrap, running | open upvalues move between stacks at every switch; yields across pcall and metamethods; close with handlers | one running coroutine; a variable shared by parent and child has one value; protection survives a yield |
| Upvalues, to-be-closed variables | `func.rs` | slot list ordered by level, tbc list | find, close, newtbc | handlers of `__close` re-enter while slots are recycled | one upvalue per stack slot; every tbc variable closed once, latest first |
| Object table | `gc.rs`, `mem.rs` | `metas`, `all_objects`, `free_ids` | register, free, retry after failure | ids are reused; registration can fail half-way | an id names one live object; registering twice is registering once |
| Reference counts | `alloc.rs` | strong, weak count | clone, drop, downgrade, upgrade | threads race (`MyArc`) | the value is dropped once, the block freed once, never used after |
| Strings | `strings.rs` | interning table | intern, release, sweep | lookup races release | equal short strings are one object |
| Tables | `table.rs` | array, hash buckets, index | get, set, next, border, clear | two parts that may both hold a key, tombstones, removal by swap during traversal | a field reads as last written; `#` is a border; `next` visits every field once |
| Drop queue | `state.rs` | queued values | queue, drain | deferred destruction | a queued value is not read again |
| Protected calls | `state.rs`, `vm.rs` | call frames, error status | pcall, error, unwind | nested errors, hooks, memory errors | stack and frames are restored |
| VM | `execute.rs`, `opcodes.rs`, `tm.rs` | registers, pc | opcodes | size; numeric edges | Lua semantics |
| Compiler | `compiler/` | code, pending jumps, register count, active variables, labels and gotos | expressions, jump lists, register allocation, statements | one pass: code is emitted before its destination and its targets are known | a function returns what its source means; reads only registers that are set; fits its frame |
| Libraries, C API, CLI | `stdlib/`, `capi.rs`, `cli.rs` | files, buffers | library functions | numeric edges, inconsistent callbacks | library semantics |

Interactions.  The VM and libraries allocate through `register_*`; crossing the
threshold calls `maybe_collect_gc`, a failed allocation calls `emergency_gc`.
The collector reads every coroutine's stack, calls Lua code (finalizers) through
`pcall`, and reads metatables at mark time.  Coroutine switches move open
upvalues, which the collector traverses as closed ones.  `close_state` runs
`func::close`, all finalizers, then one more collection.

The interpreter is single-threaded unless built with threads (shared `MyArc`
and the string table); the interleavings that matter most are between the
program, the finalizers and `__close` handlers it is interrupted by, and the
half-finished operations of the runtime underneath.

## 2. Modules and plan

| module | models | run by |
|---|---|---|
| `Gc`, `Heap` | the collection, finalizers, weak tables, close; the heap a program sees | `MCGc` |
| `ObjectTable` | ids, reference counts, drop queue, allocation with emergency collections | `MCObjects` |
| `StringTable`, `StringPool` | interning in the threaded build; what it promises | `MCStrings` |
| `LuaTable`, `FieldMap` | one table; the map it implements | `MCTable` |
| `Coroutine` | coroutines, upvalues, to-be-closed variables, protected calls | `MCCoroutine` |
| `LuaSource`, `Floats` | the meaning of a source; floating-point numbers | |
| `Numbers` | the arithmetic of the interpreter | |
| `FuncState`, `Operators`, `CodeGen` | the compiler: its state and jump lists, operators, statements | |
| `Machine` | the compiled function at work | `MCMachine` |
| `GcProofs` | theorems about `Gc`, and that it implements `Heap` | |
| `StringProofs` | theorems about `StringTable`, and that it implements `StringPool` | |
| `ObjectProofs`, `ObjectIdProofs` | theorems about `ObjectTable` | |
| `TableProofs`, `TableTraversalProofs` | theorems about `LuaTable`, and that it implements `FieldMap` | |
| `UpvalueProofs`, `CoroutineProofs` | theorems about `Coroutine` | |

`Machine` composes compiler and interpreter: it compiles a source with
`CodeGen`, executes the code and compares with `LuaSource`.  `ObjectTable`
composes the collector's sweep with reference counting, the drop queue and the
allocation that triggers it, on objects with one field; `Gc` has the whole
collection on arbitrary heaps and abstracts counts and ids.  `Coroutine` composes
`func.rs`, `coroutine_lib.rs` and the unwinding of `state.rs`.

Left to do, most useful first:

1. Upvalues and functions within functions in `CodeGen`, which would compose it
   with `Coroutine`.
2. `Heap` with the weaker promises of a program that changes `__mode` late, allocates in
   finalizers or uses `debug.setmetatable` on objects with `__gc`.
3. `ObjectTable` on heaps as general as `Gc`'s, so that the two become one refinement.

## 3. `Gc`: what corresponds to what

| variable | code |
|---|---|
| `roots` | all root values of `collect_roots_into`: stack, globals, registry, basic metatables |
| `fields`, `pairs` | array part / upvalues / coroutine stack; hash part |
| `mode`, `hasGc` | `__mode` and presence of `__gc` in the object's metatable |
| `live` | `all_objects` and `threads` |
| `gray`, `aux`, `worklist` | colour, `aux_marked`, `gc_worklist` |
| `weakReg` | `weak_tables` |
| `finobj`, `keep`, `tobefnz`, `running` | `finobj_list` and `ud_finobj_list`; locals of `collect_finalizers_impl`, `collect_gc_inner`, `call_finalizers` |
| `phase`, `emergency` | position in `collect_gc_inner` (and `gc_running`), `gcemergency` |
| `closing`, `closeQ`, `closeRun` | position in `close_state` (and `gc_closing`), its `to_finalize`, the finalizer running |
| `owed`, `earlier` | ghosts: marks for finalization not yet honoured, and their order |

The program's actions are `Alloc`, `Load`, `Forget`, `SetField`, `SetPair`,
`Erase`, `SetMetatable`, `DebugSetMetatable` and `ChangeMode`; they run in the
main program, in a finalizer called by a cycle and in one called at close.
The collector's are `EnterCycle`, `MarkOne`, `PullKey`, `PullValue`,
`StartSeparation`, `Separate`, `EndSeparation`, `ClearWeakTables`,
`CallFinalizer`, `FinalizerReturns` and `Sweep`.  Close is `StartClose`,
`DrainFinobj`, `CloseCallFinalizer`, `CloseFinalizerReturns`, `BreakRefs`, and
one more cycle.

Abstractions, and why they are sound for the properties:

- An object is one that reference counting alone does not free; those it frees
  never meet the collector.
- `enter_cycle` repaints every registered object, so the two whites are one, and
  `collect_gc` never paints black. The incremental machine (`step`,
  `propagate_one`, ...) is driven by nothing and left out.
- The worklist is a set: any marking order is covered.
- `finobj_list` and `ud_finobj_list` are one list in time order; `Oldest` and
  `Newest` take the tables first, as the code does.
- A metatable is private to its object (`mode`, `hasGc`); shared metatables add
  reachability the field references already stand for.
- A coroutine is alive by `aux_marked`, every other object by colour, as in
  `is_marked`.
- When a collection starts is nondeterministic: the thresholds are not modelled.
  A collection that cannot reserve its queues does not start, which is the
  program going on.
- GC ids are not reused here: see `ObjectTable`.
- `CONSTANT Ops` says which optional operations the program performs. A run or
  theorem that leaves one out says so; the runs that include it show why.

`Heap` is what a Lua program is promised: objects with contents, root values, the
objects marked for finalization and those whose finalizer is due.  It has no marks, no
phases and no sweep: in every step, what neither the roots nor a waiting finalizer lead
to is gone (`Becomes`).  Entries of weak tables may go at any time, but only when their
weak part is not held strongly (`Expire`, `Held`), and only such an object becomes due
(`Choose`).  `HeapSpec` maps `heap` to the contents of the objects in `Kept`, `marked` to
`finobj` with `keep`, `due` to `tobefnz` with `closeQ`.  A step of the program is the same step
of `Heap`; `Separate` of an unmarked object is `Choose`, `ClearWeakTables` is `Expire`,
`CallFinalizer` and `CloseCall` are `Call`, `DrainFinobj` is `ChooseAll`, and marking, the ends
of phases and the sweep are stuttering.  So an emptied object that is still accessible,
a cleared entry that is still held, a finalizer called for an object in use, and one
forgotten by a cycle are all steps `Heap` does not have.

## 4. The other modules: what corresponds to what

### `ObjectTable`

| variable | code |
|---|---|
| `strong`, `weak`, `state` | `RcHeader` of `alloc.rs`; whether payload and block are still there |
| `header`, `metas`, `nextId`, `freeIds`, `allObjects` | `gc_header` of an object; `metas`, `next_id`, `free_ids`, `all_objects` of `GCState` |
| `stack`, `field`, `local`, `queue` | registers, the one field of each object, Rust locals under construction, `drop_queue` |
| `drops` | the destructors still to run: a drop may free an object whose field is dropped next |
| `pc`, `tries`, `ret`, `gray`, `aux`, `left` | position in `new_object`, `retry_alloc` and `collect_gc`, the mark sets, the ids the sweep has still to look at |

Actions: the instructions that copy and overwrite references (`Move`, `LoadField`,
`SetField`, `LoadNil`), `NewObject`/`Fill`/`Place` with the allocation between
(`Allocate`, `Register`, `EmergencyGc`, `MayRetry`, `MemoryError`), `DropHandle` and
`DropWeakHandle` one at a time, and the collection (`StartCollection` drains the
queue, `Mark`, `SweepDead`, `SweepAlive`, `EndSweep`).  Every allocation and
reservation may fail.

### `StringTable` and `StringPool`

A step is what another thread can observe: a lock acquired, an atomic count
changed, a block freed.  `table`, `nuse` are the table and its count; `readers`,
`writer` the lock; `text`, `strong` the blocks; `held` the handles of each thread;
`want`, `pc`, `cur`, `looked`, `doomed` the locals and the position in `intern_with_hash` (read lock, lookup, write
lock, second lookup, insert) or `sweep`.  A block is an address: freed, it may be
handed out again with another text, which is what makes comparing addresses
delicate.  `StringPool` is what callers rely on: one object per content, replaced
only when nobody holds it.  `PoolSpec` maps `object[c]` to the block of `c` in
the table.  The pool's steps are the insertions, the taking of a handle and the
removals; locks, lookups and counts stutter.

### `LuaTable` and `FieldMap`

`tab.array` and `tab.buckets` are the two parts (`key_to_bucket` is the position of
a key in the buckets), `shadow` what the program wrote last, `trav` one `pairs`
loop: the key it is at, what it has visited, what it owes, and whether holes or a
sweep disturbed it.  Actions: `Assign` (with the growth check before it),
`AssignFails`, `TableInsert`, `TableRemove`, `Sweep`, and the steps of a loop.  A
float key with an integer value is one of the keys.  `FieldMap` is a map on which
a write changes its own field only; `MapSpec` maps it to what `Get` reads.

### `Coroutine`

| variable | code |
|---|---|
| `chain` | the running thread and those that wait for it |
| `co` | `ThreadContext`: status, creator, `pending_wrap_upvals`, `upval_origins`, protection |
| `stack`, `frames`, `leaving` | the thread's `LuaState`: stack, call frames, and whether the innermost one is being closed, by a return or an error |
| `cell`, `list` | `UpVal`: open at an index or closed with a value; `open_upval` lists |
| `var`, `reach` | ghosts: what the source knows of each variable; which variables a thread's closures capture |

An open upvalue is a bare index that the running thread looks up in its own
stack, so every switch closes the shared ones and writes them back; the model
keeps the value of a variable with its version, so that a read of a wrong slot or
of an old value shows.

A `__close` handler has no variables of its own here: it returns, raises or yields.  A builtin
handler that yields (`coroutine.yield` itself) is over, and the frame goes on being
closed after the resume.  A Lua one goes on (`co[c].handler = "running"`): it may yield
again (`HandlerYields`), return to the frame that waits (`HandlerReturns`, which is
`finish_close_continuation`) or raise (`HandlerRaises`).  While it is suspended the
coroutine's base is that of the handler's frame (`BaseOf`): a yield leaves it there
(`state.rs:2064`), and `coroutine.close` starts from it.  A protected call that a yield has
passed through is `"yielded"`; `Catcher`, `Beneath` and the guard `"last"` follow what
`handle_instruction_error` and `finish_close_continuation` do to the frames around it.

`Habits` are things programs do that the code does not handle; runs choose them:

| habit | what the program does |
|---|---|
| `pass_closure` | passes a closure to a coroutine as an argument of resume |
| `leave_early` | ends a frame before the coroutines that share its variables |
| `other_resumer` | resumes a coroutine from another thread than its maker |
| `share_tbc` | captures a to-be-closed variable in a closure |
| `outer_scope` | has an error, or closes a coroutine, while outer frames have variables to close |
| `yield_in_close` | yields in a handler that `coroutine.close` runs |
| `close_in_handler` | closes a coroutine suspended in a Lua `__close` handler while its frame has more to close |
| `lost_callers` | resumes a handler in a function that another called (`execute.rs:3774` forgets the callers), or has an error caught by a call a yield has passed through, under other frames (`execute.rs:2563`) |

### `LuaSource`, `Numbers`, `FuncState`, `Operators`, `CodeGen`, `Machine`

| module | code |
|---|---|
| `FuncState` | the `FuncState` of `compile.rs` (`fs`: code, free register, frame size, active variables, labels, pending gotos, `last` for `lasttarget`), jump lists threaded through the code, `ExpDesc` as `Exp`, `exp_to_reg` and its relatives, `go_if_true`, `go_if_false` |
| `Operators` | the branches of `parse_subexpr` and `parse_simple_exp` per operator: which operand stays a constant until the other is known, which is an immediate (`ADDI`, `SHRI`, `SHLI`, `LTI`, ...), what is folded, the fallback that follows every arithmetic instruction |
| `CodeGen` | expressions, statements, blocks; its input is a syntax tree instead of tokens |
| `Numbers` | `vm.rs`, `tm.rs` and the operators of `execute.rs`: integer division and modulus, shifts, conversions, comparisons, `concat_stack` |
| `Machine` | the instructions, one action per family; a `junk` value stands for registers nobody has set |

There is one table, `t`, and one function, `f`.  What an operator does to operands
it is not defined for is an abstract value `Meta(op, v, w)`: every value but numbers
has metamethods, and no string is a numeral.  `LuaSource` evaluates the tree as the
reference manual says, with mathematical integers that are wrapped where the manual
says so; it is the only module that does not follow code of the repository.
`Floats` stands for `f64`: quotients, the infinities and nan, without rounding or
overflow and with one zero.

The compiler's operators are chosen by shape (`WayOf`) before they emit, where the
code repeats the emission in every branch; the tables of constants are never full.

## 5. What the runs show

| run | instance | shows |
|---|---|---|
| `gc_weak` | 2 tables and a coroutine, all weak modes, 2 pairs | `TypeOK`, `AccessibleIntact`, `MarksExact`: weak tables, also those `debug.setmetatable` makes, chains of ephemerons, coroutines alive by `aux_marked` |
| `gc_resurrect` | 2 tables, all modes, finalizers, emergencies | weak tables with resurrection; which objects are finalized; `HeapSpec`: the collector implements `Heap` |
| `gc_close` | 2 tables and a userdata, 1 field, close, emergencies | no finalizer forgotten; all run at close, in order per kind |
| `gc_live` | a table and a userdata, weak keys, finalizers, close, `__mode` and metatables set at any time | `CollectionEnds`, `CloseEnds`, `FinalizerOncePerMark` |
| `objects` | 3 blocks, 2 registers, 4 ids, a queue of 2 | counts exact in every cascade, ids unique though reused, no accessible object swept while it is built, cycles reclaimed |
| `strings` | 3 threads, 2 contents, 3 blocks | one object per string, no leak and no early free, `StringPool` implemented, every intern returns |
| `table` | integer keys 1..3, a string, a float key equal to 2, array up to 2 preallocated slots, 2 buckets | last write read, `#` a border, a traversal exact, sequences kept by insert and remove, `FieldMap` implemented |
| `co` | 2 coroutines, 2 variables, 2 slots, 2 frames per thread, 3 in all, no habits (0.5 million states, 26 steps deep) | one value per variable across switches; every to-be-closed variable closed once, latest first, also when handlers yield, are resumed and return or raise |
| `machine` | functions of the four families of `MCMachine`, integers of 3 bits | they return what the source says, read only set registers inside the frame, and halt |

Three runs must fail; PROJECT.json, `findings`, quotes what they contradict.

| run | property | what happens |
|---|---|---|
| `table_next` | `TraversalVisitsAll` | `for k in pairs(t) do t[k] = nil end` with a field in the array part: the emptied slot is no valid key, and the next step is an error (`StrongSpec`: no weak values, no sweep) |
| `co_upvalue` | `VariablesReadLastWrite` | a wrapped coroutine whose maker has returned starts with a slot of its caller in place of its variable |
| `machine_nil` | `ReturnsWhatSourceSays` | `if a then local y end local z; return z`: the nil of `z` is merged into the one the jump skips |

Bounds.  In `Gc`, `Obj` bounds the objects alive at once, not how many are ever
created; the marking rules look at one edge at a time and the interesting shapes
need two or three objects.  Likewise blocks, ids, buckets and variables are used
again once free, so histories are unbounded.  `strings` has one content more than
needed for a freed address to come back with another text, and a third thread so
that reader, writer and sweeper differ.  `table` reaches every relation of a key
to the two parts (array, hash, both, tombstone).  `co` has a parent, a child
and a sibling or grandchild; `MaxDepth` bounds nested calls; its `VIEW` takes two states for one
that differ only in which of a variable's two values is the last one written, an exchange no step
and no property notices.  `machine` is exhaustive
over its families and not over programs: every expression of one operator and a
choice of deeper ones in every place ("placed"), the same for arithmetic, and every
operator on all small numbers, as constants and as parameters ("arithmetic"), every
numeric loop between all small numbers with every kind of step ("loops"), every pair
of statements in every block ("blocks"); three inputs each, or all small numbers
where a family says so.  Integers have 3 bits (-4 to 3) and wrap, so that
the ends of the range meet every operator and loop; -1 to 2 are the immediate operands,
standing for -127 to 128, so both kinds of constant occur.  Floats are the integral
ones, halves, an infinity and nan; exponents are integral.  `EQI` takes any float
less than `Epsilon` away for the integer (`execute.rs:6540`), and so `x == 0` is true of
a tiny `x`: the floats here are never that close.  Loops that start, end or step at nan
are left out.  `table` explores no further once a
traversal has met a hole or a sweep (`Undisturbed`): the same tables are reached
without the loop.  `machine` leaves out sources that do not terminate within `Fuel`
statements, and its `CONSTRAINT` on the log stops following a function that has called `f` too
often: a wrong jump that makes an endless loop shows in `Halts` if the loop calls nothing, and
is not seen if it calls `f`.  Every property is broken by a plausible slip in the
code within these bounds (PROJECT.json, `mutants`).

Deadlock is checked except in `co`, where every program may come to rest with all
variables of the bound used up.

Fairness.  `Gc`'s `FairSpec` is weak fairness of the collector's and `close_state`'s
own steps (straight-line code of the one running thread) and of a finalizer
returning.  `Machine` has weak fairness of the interpreter's step.  `StringTable`
has weak fairness of each thread's straight-line code and strong fairness of
acquiring the lock: parking_lot's locks hand over fairly from time to time, so a
thread that keeps finding the lock free in between gets it in the end.  `LuaTable`'s
`FairSpec` is weak fairness of `TraverseStep`, the loop asking for its next field: a loop
whose body does not return fails to end for another reason.  Nothing else is assumed of
the programs.

### Conditions and known divergences

Some properties hold only of programs that avoid what the code gets wrong. The
condition is a constant (`Ops`, `Habits`) or part of the property, and it is there
because the run fails without it.  Configurations that exhibit one each and are
not among the runs:

| configuration | property | what happens |
|---|---|---|
| `gc_newborn` | `MarkedBeforeSweep` | an object a finalizer creates is white when the sweep decides, and is emptied (`gc.rs:687`) |
| `gc_order` | `CycleInReverseOrder` | a cycle calls finalizers in the order of marking, not its reverse (`gc.rs:2089`) |
| `gc_weak_values` | `FinalizedNotInWeakValues` | a finalizer still finds its object in weak values (`gc.rs:1549`) |
| `gc_ephemeron_keys` | `EphemeronKeysDie` | a reachable value of an ephemeron keeps its key (`gc.rs:2026`) |
| `gc_late_mode` | `AccessibleIntact` | `__mode` assigned after `setmetatable`: entries are freed and stay readable (`base_lib.rs:367`) |
| `gc_close_collect` | `FinalizerNotLost` | a collection inside a closing finalizer sweeps objects still to be finalized (`state.rs:2810`) |
| `table_stale` | `ReadsLastWrite` | `t[2]=x; t[1]=y; t[2]=z; t[2]=nil` reads `x`: pushing to the array left the old bucket (`table.rs:493`) |
| `table_loop` | `TraversalEnds` | `t[2]=1; t[1]=1; t[2]=2` leaves a bucket behind the array: `next` finds it, looks its key up in the array and goes through the buckets again, for ever (`table.rs:493`); `table_ends` passes with `TraversalEndsUnlessHidden`: every other `for` loop ends |
| `co_close` | `ClosedExactlyOnce` | after an error only the innermost frame's variables are closed (`state.rs:1993`) |
| `co_handler` | `ClosedExactlyOnce` | two to-be-closed variables, the first handler yields, `coroutine.close`: it closes from the handler's base (`coroutine_lib.rs:1121`) and the other variable stays open |
| `co_lost` | `ClosedExactlyOnce` | a function called with a variable to close returns, its handler yields and is resumed: the callers are lost (`execute.rs:3774`), the coroutine ends, and theirs stay open |
| `machine_join` | `ReturnsWhatSourceSays` | `local r = 1 < (a or b); return r, b`: the join is resolved into a local's register (`compile.rs:6800`) |

`MCMachine` names the other forms the compiler mistranslates and leaves them out of
the families:

| habit | example | what happens |
|---|---|---|
| `ordered_join`, `join_to_constant`, `join_to_local` | `1 < (a or b)`, `(a or 1) == b` | a comparison of a value that comes from `and`, `or` or `not` |
| `constant_join`, `constant_key`, `constant_loop` | `t[a or 1] = b`, `while a or 1 do` | such a value ending in a constant is taken for the constant |
| `local_adjusted`, `first_join` | `a, b = b`; `a, b = a or b, 1` | an assignment of fewer values than variables whose value is a local; the jumps of a first value that ends in a local are not resolved |
| `multiplied_join` | `(a or 2) * f(a)` | the constant at the end is kept as the operand and the jumps are never resolved: one jumps to itself (`Halts`) |
| `zero_constant` | `f(0.5 - 0.5)` | a result of zero or nan is not folded, and the code emitted instead leaves its register reserved: the argument lands one register above the one the call reads |
| `overflowing_constant` | `-4 // -1`, the least integer of the model | the folding of constants overflows in the compiler itself (`compile.rs:8917`) |
| `concatenated_join` | `a .. (b or a .. b)` | the inner concatenation is merged into the outer although a jump arrives before it: a true `b` skips both |
| `tested_concat` | `f(not (a .. b))` | the concatenation's value is moved to one more register before the test: the argument lands one register too high |

The family "witnesses" holds the shortest function for most: `machine.cfg` with
`Families = {"witnesses"}` and a name in `Habits` shows it.  The habit
`reserve_after` of `ObjectTable` is `LuaState::create_table` (`state.rs:2614`),
which registers an object and reserves stack before it is on the stack;
`SweepSparesAccessible` and `IdsUnique` fail with it.

Two more differences from the manual are built into the models: `debug.setmetatable`
never marks for finalization, and `close_state` finalizes all tables before all
userdata, which is why `CloseInReverseOrder` is stated per kind.

## 6. What is proved

`GcProofs` (every number of objects, coroutines, userdata and weak tables):

- `TypeCorrect`: `Spec => []TypeOK`, for any `Ops`.
- `HeapAndMarks`: the inductive invariant `IInv`, the conjunction of `HeapInv`
  (roots and references stay within live objects, a dead object is empty, every
  weak table is registered), `MarkingInv` (the marked set is closed under the
  references that keep objects, except for what is still in the worklist) and
  `MarkedInv` (after the weak tables are cleared it is closed under *all*
  references, so nothing a program can then reach is unmarked).
- `NothingAccessibleIsSwept`: `[]AccessibleIntact`, and `AccessibleIsMarked`:
  `[]MarkedBeforeSweep`.

The last three assume that `__mode` is not changed behind `setmetatable`'s back
("late_mode") and that finalizers create no objects ("finalizer_alloc"); configurations
`gc_late_mode` and `gc_newborn` show that neither can be dropped.
`AccessibleIntact` is not inductive: that a sweep harms nothing follows only from
what marking has established before, which is what the other two parts record.

What is marked, under the same two conditions:

- `ExactMarks`: the invariant `ExactInv`.  `NoneTooMany` says that every set which holds the
  roots and what waits for a finalizer, and is closed under what keeps objects
  (`CodeClosed`), holds the marks and the worklist; `SeparationInv` that separation judges
  by a set that is closed itself; `FinobjInv` that the objects in the lists are live and,
  once separated, marked.
- `MarkedIsRetained`: `MarksExact`; `SeparationIsExact`: `SeparationExact`.

Both compare the marks with least fixed points over all sets of objects.  Half of each
is `IInv` (the marks are closed, so the fixed point is within them); `NoneTooMany` carries
the other half from step to step without following marking object by object.

Of the finalizers, in the same module:

- `FinalizerLists`: the lists that lead to a finalizer hold live objects, marked
  before the sweep, and cycle and close never use them together.
- `NoFinalizerIsLost`: `[]FinalizerNotLost`.

These assume that a metatable with `__gc` is set by `setmetatable`
(`DebugSetMetatable` registers nothing) and that no collection runs in a closing
finalizer (`gc_close_collect`), besides the two conditions above.  What the lists say of
each other needs less:

- `OwedLists` and `OneCallPerMark` (`FinalizerOncePerMark`), for any `Ops`: no list holds an
  object twice, and what waits is owed a call (`OwedInv`).
- `ListsInOrder`, `ClosesInReverse` (`CloseInReverseOrder`) and `NothingOwedWhenClosed`
  (`[]ClosedOwesNothing`), without "debug_setmetatable" only: each list is in the order
  of marking, per kind, and while `finobj_list` is separated what was kept precedes what is
  left (`OrderInv`).  An object a finalizer marks again may be in `to_finalize` and in
  `finobj_list` at once; that is why `OwedInv` has the lists disjoint only in part.

And `CollectorIsInvisible`: `Spec => HeapSpec`, under the conditions of `NoFinalizerIsLost`,
from all of these invariants together (`GcInv`).  The contents `Heap` sees are those of a
reachable set that changes with every step; `BecomesBy` shows that it is enough for old
and new contents to agree on any closed set around it, which is the kept objects for
most steps and the marked ones for the sweep.  `HeldMarked` ties `Held` to the marks: they
are closed in the manual's sense when separation and clearing ask.

`StringProofs` (every number of threads, contents and blocks, finite or not, and of
handles a thread may hold):

- `StringInvariant`: the inductive invariant.  `LockInv` says what each position in the
  code holds of the lock; `AskInv` that an entry found under the read lock is still
  there when its handle is taken; `TableInv` that the table has every content once and
  every block somebody holds; `SweepInv` and `FreeInv` that what a sweep removes nobody
  holds or can come to hold; `CountInv` that each count is the number of handles and
  entries.
- `StringTypes`, `Interned` (`OneObjectPerString`), `NoBlockLeaks`
  (`BlocksAccountedFor`), `CountedEntries` (`CountExact`).
- `TableIsPool`: `Spec => PoolSpec`, step by step.

`OneObjectPerString` alone is not inductive: an address may be freed and come back with
another text between a lookup and the handle, and only the lock, the counts and the
entry of the reader together exclude it.

`ObjectProofs` and `ObjectIdProofs` (every finite number of blocks and registers):

- `ObjectInvariant`, `ObjectTypes`, `CountedHandles` (`CountsExact`), for any `Habits`: the
  counts are exact with destructors pending (`drops`), and headers, `metas`,
  `all_objects` and `free_ids` agree.  Rests on lemmas about the number of occurrences in
  functions and sequences (`Places`).
- `UniqueIds`, `SparesAccessible`, `Reclaims`, without "reserve_after": names of what can be
  reached, marks closed under fields up to the gray objects, and colours that agree with
  the marks (`NamesInv`, `MarkInv`, `SweepInv`, `NamelessInv`).  `create_table` has that habit
  and breaks the theorem's conclusions (above), so the theorems are about every other
  way of making an object.

`TableProofs` (every bound on integer keys, array and buckets, any other keys and values):

- `TableInvariant`: buckets have distinct keys and no array slot at or below the length
  is out of place, and each field reads as its last write or, if it was cleared, as nil or
  as what a bucket hidden by the array holds (`Agrees`).  That exception is the known
  divergence of `table_stale`, and part of the property.
- `TableTypes`, `LastWriteRead`, `ClearedReadNil`, `BorderFound`, `SequencesKept`, and
  `MapRefined`: `Spec => MapSpec`.

The loops of the code (migration to the array, bisection, doubling, the shifts of insert
and remove) are recursive functions.  That they are defined everywhere and what they
compute is proved by induction; the library's induction theorems take an operator, so
`Induction`, `Recursion` and `Iteration` are proved here for sets and functions from
`WFMin`, the existence of a least element.

`TableTraversalProofs`: `WalkInvariant`, `WalkExact` (`TraversalExact`).  A walk that meets
no hole and no sweep has visited exactly what lies before its key (`ArrayPhase`,
`HashPhase`), or a hidden bucket lies ahead (`Trapped`) and it never ends: the second half
was found when the first was not inductive, and is what the configuration `table_loop`
shows.

`UpvalueProofs` and `CoroutineProofs` (every finite number of variables, any coroutines,
any depth of stacks and calls), for `Habits = {}`, the programs of run `co`.  That leaves out
all of the table of habits in section 4, in particular closing a coroutine inside a suspended
handler while its frame has variables left, for which `co_handler` shows that the code
fails:

- `CoroutineInvariant`: the inductive invariant, in two parts.  `MachineInv` is about
  stacks, cells and lists alone: a live variable has a slot to itself and at most one cell,
  its value is in the cell if that is closed and in the slot otherwise, a to-be-closed
  variable was closed as often as its cell, a list holds the open cells of its thread.
  `UpvalueProofs` shows that each operation of `func.rs` and `coroutine_lib.rs` keeps it.
  `ContextInv` is about threads: those that wait made each other in the order of the chain;
  a cell of a live variable is closed only in a frame that ends, while the thread it is
  shared with runs, or while its own thread does not (`AwayInv`); what a context remembers
  are slots of its creator's or its own variables that still live (`LinkInv`); a frame that
  ends shares nothing with a coroutine that may still run (`LeaveInv`); and a thread
  below a coroutine reaches variables of that coroutine's creator only through what it
  shares (`ReachInv`).
- `CoroutineTypes`, `ReadsLastWrite` (`VariablesReadLastWrite`), `OwnStack`
  (`OpenMeansOwnStack`), `ClosedOnce` (`ClosedExactlyOnce`), and `ClosesInReverse`
  (`ClosedInReverse`).  `ClosedOnce` covers returns, errors, handlers that yield any number of
  times and then return or raise, and `coroutine.close` where the code's base has every
  variable above it; of the habits, `outer_scope`, `close_in_handler`, `lost_callers`,
  `share_tbc` and `yield_in_close` each make it false.

`VariablesReadLastWrite` says nothing of threads that wait; that their variables will be
right when they run again rests on who may write them meanwhile, hence `AwayInv` and the
tree of creation in `ReachInv`.  Each habit is a way to break it: a closure handed to
another thread while its variables stay open, a frame that ends before what it shares, or a
frame that ends without having been closed.

Only model-checked: liveness (`InternReturns`, `CollectionEnds`, `CloseEnds`, `Halts`), and
`Coroutine` with the habits of `co_upvalue`, `co_close`,
`co_handler` and `co_lost`.  The modules of the compiler and the
interpreter (`Floats` to `Machine`) use recursive operators over syntax trees and numbers
and cannot be proved about with the installed provers.

## 7. What is not modelled

- Of the compiler: methods, varargs, table constructors, functions within functions
  and upvalues, the generic `for`, constant tables too long for an operand; the lexer
  and the bytecode dump: long sequential code which `compiler/cmp_tests.rs` compares
  with the reference compiler.
- The instructions those would need, what a metamethod does, its yields, hooks.
- Numbers as text, and the layout of values.
- String, math, io, os and utf8 libraries, `table.sort` and `table.concat`: pure
  functions of data and I/O, with no state that outlives a call.
- The C API and the command line: wrappers.
- The incremental collector (`step`, `propagate_one`): no caller drives it.
- What a `__close` handler does besides returning, raising and yielding: variables and
  coroutines of its own.
- A metatable `debug.setmetatable` gives to all values of a type; the upvalues the collector
  writes back after a finalizer (`gc.rs:2261`), which are fields of the closure here;
  `table.remove(t, 0)` on an empty sequence, which touches a field of its own.
- Size accounting: when a collection starts is nondeterministic.
- The rounding of floats; numeric edges of the libraries; the C stack limit.
- `src/src/`, the C sources the port was made from.

The map covers the parts whose correctness depends on the order of steps.  Most
of the remaining lines are library functions, the C API, the compiler's tests and the
fast paths of the opcodes.

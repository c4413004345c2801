------------------------------ MODULE Coroutine ------------------------------
(* Coroutines, upvalues and to-be-closed variables: src_rs/func.rs,          *)
(* stdlib/coroutine_lib.rs, and the protected calls of state.rs and          *)
(* execute.rs as far as they close variables.                                *)
(*                                                                           *)
(* A __close handler has no variables here: it returns, raises or yields.    *)
(* One that is a Lua function and has yielded runs on after the resume, in a *)
(* frame above every slot, and the frame it was called for waits.            *)
(*                                                                           *)
(* Every thread runs on a stack of its own.  An open upvalue is a bare stack *)
(* index, which the running thread looks up in ITS stack, so a resume closes *)
(* the upvalues the coroutine shares with its resumer and writes them back   *)
(* when it is left; a yield does the same for those of the coroutine.        *)
(*                                                                           *)
(* A variable occupies one slot.  The value of variable v after n writes is  *)
(* <<v, n % 2>>, so that a read of a wrong slot or of an old value shows.    *)
EXTENDS Integers, Sequences, FiniteSets, SequencesExt, FiniteSetsExt

CONSTANTS Vars,         \* the local variables a run may declare
          Main,         \* the main thread
          Coroutines,
          Nil,
          MaxStack,     \* bound on the slots of a thread
          MaxFrames,    \* bound on the nested calls of a thread
          Habits        \* what the program does that the design does not cover

ASSUME CoroutineConstants ==
    /\ IsFiniteSet(Vars) /\ Nil \notin Vars \X {0, 1}
    /\ Main \notin Coroutines
    /\ MaxStack \in Nat \ {0} /\ MaxFrames \in Nat \ {0}
    /\ Habits \subseteq {"pass_closure",  \* closures as arguments of resume
                         "leave_early",   \* a frame ends before its coroutines
                         "other_resumer", \* resumed by a thread it was not made by
                         "share_tbc",     \* a closure over a to-be-closed variable
                         "outer_scope",   \* an error or close under live outer frames
                         "yield_in_close", \* a yield out of coroutine.close
                         "close_in_handler", \* a close while a handler is suspended
                         "lost_callers"}  \* callers a resumed frame loses

VARIABLES chain,    \* the running thread and, below it, those that wait for it
          co,       \* ThreadContext of each coroutine
          stack,    \* [Threads -> Seq(Value)]
          frames,   \* [Threads -> Seq([base, guard])]
          leaving,  \* [Threads -> why the innermost frame is being closed]
          var,      \* what the source program knows of each variable
          cell,     \* UpVal: one per captured variable
          list,     \* [Threads -> the cells on its open_upval list]
          reach     \* [Threads -> variables its closures capture]

vars == <<chain, co, stack, frames, leaving, var, cell, list, reach>>

Threads == {Main} \cup Coroutines
Running == Last(chain)
Resumer == chain[Len(chain) - 1]
Busy == leaving[Running] # "no"

(* A machine state as one value, so that the steps below can be composed.    *)
Machine == [stack |-> stack, cell |-> cell, list |-> list, var |-> var]
Becomes(m) ==
    /\ stack' = m.stack /\ cell' = m.cell
    /\ list' = m.list /\ var' = m.var

SlotOf(m, t, idx) == IF idx \in DOMAIN m.stack[t] THEN m.stack[t][idx] ELSE Nil

-----------------------------------------------------------------------------
(* func.rs: upvalues.                                                        *)

NoCell == [st |-> "none", idx |-> 0, tbc |-> FALSE, val |-> Nil]
OpenCell(idx, tbc) == [st |-> "open", idx |-> idx, tbc |-> tbc, val |-> Nil]
ClosedCell(val) == [st |-> "closed", idx |-> 0, tbc |-> FALSE, val |-> val]

IsOpen(m, u) == m.cell[u].st = "open"

(* find_upval of each variable in S: the open upvalue of its slot, or a new  *)
(* one; a cell is named after the variable it was made for.                  *)
OpenAt(m, t, idx) == {u \in m.list[t] : IsOpen(m, u) /\ m.cell[u].idx = idx}
FindUpvals(m, t, S) ==
    LET hits(v) == OpenAt(m, t, m.var[v].idx)
        new == {v \in S : hits(v) = {}}
        via(v) == IF v \in new THEN v ELSE CHOOSE u \in hits(v) : TRUE
    IN  [m EXCEPT !.var = [v \in Vars |-> IF v \in S THEN [@[v] EXCEPT !.via = via(v)] ELSE @[v]],
                  !.cell = [v \in Vars |-> IF v \in new THEN OpenCell(m.var[v].idx, FALSE) ELSE @[v]],
                  !.list[t] = @ \cup new]

(* op_closure over the variables S: a local of the running function gets an  *)
(* open upvalue, an upvalue of the enclosing closure is shared.              *)
IsLocal(t, v) == var[v].live /\ var[v].home = t
Accessible(t) == reach[t] \cup {v \in Vars : IsLocal(t, v)}
CaptureAll(m, t, S) == FindUpvals(m, t, {v \in S : IsLocal(t, v)})

(* close_upval_by_ref: the cells of val take their value there and leave the *)
(* list.                                                                     *)
CloseByRef(m, t, val) ==
    [m EXCEPT !.cell = [u \in Vars |-> IF u \in DOMAIN val THEN ClosedCell(val[u]) ELSE @[u]],
              !.list[t] = @ \ DOMAIN val]

(* close_upval: the same with the values of their slots.                     *)
CloseUpvals(m, t, S) == CloseByRef(m, t, [u \in S |-> SlotOf(m, t, m.cell[u].idx)])

ToClose_Above(m, t, level) ==           \* mutant: the first slot is left out
    {u \in m.list[t] : IsOpen(m, u) /\ m.cell[u].idx > level}

(* What close(level) has still to do on thread t.                            *)
ToClose(m, t, level) ==
    {u \in m.list[t] : IsOpen(m, u) /\ m.cell[u].idx >= level}
Highest_Lowest(m, S) ==                 \* mutant: in the order of declaration
    CHOOSE u \in S : \A w \in S : m.cell[u].idx <= m.cell[w].idx

Highest(m, S) == CHOOSE u \in S : \A w \in S : m.cell[u].idx >= m.cell[w].idx

(* Rounds of the loop in close, for the cells S: each is closed before its   *)
(* handler, which is called with the value of the slot.                      *)
CallsFor(m, t, S, v) ==
    {u \in S : /\ m.cell[u].tbc
               /\ SlotOf(m, t, m.cell[u].idx) # Nil
               /\ SlotOf(m, t, m.cell[u].idx)[1] = v}
Called(x, n) == [x EXCEPT !.closed = @ + n]
Close(m, t, S) ==
    [CloseUpvals(m, t, S) EXCEPT
        !.var = [v \in Vars |-> Called(@[v], Cardinality(CallsFor(m, t, S, v)))]]

(* The loop run until n handlers were called (all of them when n is large).  *)
CloseFrom(m, t, level, n) ==
    LET all == ToClose(m, t, level)
        handlersAbove(u) == {w \in all : m.cell[w].tbc /\ m.cell[w].idx > m.cell[u].idx}
    IN  Close(m, t, {u \in all : Cardinality(handlersAbove(u)) < n})

(* The slots from idx on are gone, and the variables that lived there.       *)
Truncate(m, t, idx) ==
    [m EXCEPT !.stack[t] = SubSeq(@, 1, idx - 1),
              !.var = [v \in Vars |-> IF @[v].home = t /\ @[v].idx >= idx
                                      THEN [@[v] EXCEPT !.live = FALSE] ELSE @[v]]]

-----------------------------------------------------------------------------
(* coroutine_lib.rs: upvalues across a switch of stacks.                     *)

OpenAmong(m, S) == {u \in {m.var[v].via : v \in S} : IsOpen(m, u)}

CloseShared_Skip(m, t, origins) == m    \* mutant: nothing is closed again

(* close_open_upvals on the first resume, and reclose_parent_upvals later:   *)
(* the cells are closed with what the resumer's stack holds at their index.  *)
CloseShared(m, t, origins) ==
    CloseByRef(m, t, [u \in {w \in DOMAIN origins : IsOpen(m, w)} |->
                        SlotOf(m, t, origins[u])])

(* upval_origins: the indices at which open cells are to be opened again.    *)
IndexOf(m, U) == [u \in U |-> m.cell[u].idx]
Origins(m, S) == IndexOf(m, OpenAmong(m, S))
NoOrigins == [u \in {} |-> 0]

(* call_wrap_fn, first call: every upvalue that was open when wrap was       *)
(* called, from the stack of the caller or, for another caller, as saved.    *)
ClosePending(m, t, pending, sameStack) ==
    CloseByRef(m, t, [u \in DOMAIN pending |->
                        IF sameStack /\ pending[u].idx \in DOMAIN m.stack[t]
                        THEN m.stack[t][pending[u].idx] ELSE pending[u].val])

(* relink_upval, after the cell was made open again with tbc: false.         *)
Relink(m, t, at) ==
    [m EXCEPT !.cell = [u \in Vars |-> IF u \in DOMAIN at THEN OpenCell(at[u], FALSE) ELSE @[u]],
              !.list[t] = @ \cup DOMAIN at]

ClosedAmong(m, origins) == {u \in DOMAIN origins : ~IsOpen(m, u)}

SyncBack_NoWrite(m, t, origins) ==      \* mutant: reopened, not written back
    Relink(m, t, [u \in ClosedAmong(m, origins) |-> origins[u]])

(* sync_upvals_back: the closed values return to the stack of the thread     *)
(* that resumed, and the cells are open again.                               *)
SyncBack(m, t, origins) ==
    LET S == ClosedAmong(m, origins)
        of(i) == {u \in S : origins[u] = i}
    IN  [Relink(m, t, [u \in S |-> origins[u]]) EXCEPT
            !.stack[t] = [i \in DOMAIN @ |-> IF of(i) = {} THEN @[i]
                                            ELSE m.cell[CHOOSE u \in of(i) : TRUE].val]]

(* call_wrap_fn with another caller than the creator: the parent's stack is  *)
(* not at hand, the value is not written and the cell opened only at the end.*)
SyncBackOther(m, t, origins, dead) ==
    IF dead THEN [SyncBack(m, t, origins) EXCEPT !.stack = m.stack] ELSE m

YieldCells_All(m, c, S) ==              \* mutant: to-be-closed ones as well
    IndexOf(m, OpenAmong(m, S) \cup {u \in m.list[c] : IsOpen(m, u)})

(* close_yield_upvals: what the yielded closures capture, and every other    *)
(* open upvalue of the coroutine that is not to be closed.                   *)
YieldCells(m, c, S) ==
    IndexOf(m, OpenAmong(m, S) \cup {u \in m.list[c] : IsOpen(m, u) /\ ~m.cell[u].tbc})

-----------------------------------------------------------------------------
(* The program.                                                              *)

NoCo == [st |-> "none", started |-> FALSE, wrap |-> FALSE, creator |-> Main,
         body |-> {}, origins |-> NoOrigins, pending |-> NoOrigins, inside |-> NoOrigins,
         handler |-> "no"]

Init ==
    /\ chain = <<Main>>
    /\ co = [c \in Coroutines |-> NoCo]
    /\ stack = [t \in Threads |-> <<>>]
    /\ frames = [t \in Threads |-> IF t = Main THEN <<[base |-> 1, guard |-> "armed"]>>
                                   ELSE <<>>]
    /\ leaving = [t \in Threads |-> "no"]
    /\ var = [v \in Vars |-> [live |-> FALSE, home |-> Main, idx |-> 0, ver |-> 0,
                              tbc |-> FALSE, closed |-> 0, via |-> v]]
    /\ cell = [v \in Vars |-> NoCell]
    /\ list = [t \in Threads |-> {}]
    /\ reach = [t \in Threads |-> {}]

Active == frames[Running] # <<>> /\ ~Busy

(* A local variable; op_tbc (new_tbc_upval) gives a to-be-closed one an open *)
(* upvalue at once.                                                          *)
Declare(v, tbc) ==
    LET t   == Running
        idx == Len(stack[t]) + 1
        m   == [Machine EXCEPT !.stack[t] = Append(@, <<v, 0>>),
                    !.var[v] = [@ EXCEPT !.live = TRUE, !.home = t, !.idx = idx, !.tbc = tbc]]
        n   == FindUpvals(m, t, {v})
    IN  /\ Active
        /\ var[v].idx = 0 /\ idx <= MaxStack
        /\ Becomes(IF tbc THEN [n EXCEPT !.cell[n.var[v].via].tbc = TRUE] ELSE m)
        /\ UNCHANGED <<chain, co, frames, leaving, reach>>

Written(m, v) == [m EXCEPT !.var[v].ver = 1 - @]
NewValue(v) == <<v, 1 - var[v].ver>>

(* An assignment to a local of the running function.                         *)
WriteLocal(v) ==
    /\ Active /\ IsLocal(Running, v) /\ ~var[v].tbc
    /\ Becomes([Written(Machine, v) EXCEPT !.stack[Running][var[v].idx] = NewValue(v)])
    /\ UNCHANGED <<chain, co, frames, leaving, reach>>

(* op_setupval, in a closure the running thread can call.                    *)
WriteUpval(v) ==
    LET t == Running
        u == var[v].via
        m == Written(Machine, v)
    IN  /\ Active /\ v \in reach[t] /\ ~var[v].tbc
        /\ Becomes(IF ~IsOpen(m, u) THEN [m EXCEPT !.cell[u].val = NewValue(v)]
                   ELSE IF cell[u].idx \in DOMAIN stack[t]
                        THEN [m EXCEPT !.stack[t][cell[u].idx] = NewValue(v)]
                   ELSE m)
        /\ UNCHANGED <<chain, co, frames, leaving, reach>>

(* A call of a Lua function, by itself or through pcall.                     *)
Call(guard) ==
    LET t == Running IN
    /\ Active /\ Len(frames[t]) < MaxFrames
    /\ frames' = [frames EXCEPT ![t] =
                    Append(@, [base |-> Len(stack[t]) + 1, guard |-> guard])]
    /\ UNCHANGED <<chain, co, stack, leaving, var, cell, list, reach>>

(* A coroutine that may still run and shares a cell of this frame; x is the  *)
(* context of each.                                                          *)
SharesFrame(x, m, t, base) ==
    \E c \in Coroutines :
        /\ x[c].st \in {"suspended", "normal"}
        /\ (DOMAIN x[c].origins \cup DOMAIN x[c].pending) \cap ToClose(m, t, base) # {}

Innermost(t) == Last(frames[t])

BeginReturn ==
    /\ Active
    /\ "leave_early" \in Habits \/ ~SharesFrame(co, Machine, Running, Innermost(Running).base)
    /\ leaving' = [leaving EXCEPT ![Running] = "return"]
    /\ UNCHANGED <<chain, co, stack, frames, var, cell, list, reach>>

(* The protected call an error of thread t goes to; 0 when there is none.    *)
Guards(t) == {i \in DOMAIN frames[t] : frames[t][i].guard \in {"armed", "yielded"}}
Handler(t) == IF Guards(t) = {} THEN 0 ELSE Max(Guards(t))
HasYielded(t) == Handler(t) # 0 /\ frames[t][Handler(t)].guard = "yielded"

(* state.rs pcall closes from the base the error was raised at; a call that  *)
(* a yield has passed through is closed from its function on.  Then all such *)
(* calls return at once, the inner ones with what the innermost caught.      *)
ErrorLevel(t) ==
    IF HasYielded(t) THEN frames[t][Handler(t)].base ELSE Innermost(t).base
Catcher(t) == IF HasYielded(t) THEN Min(Guards(t)) ELSE Handler(t)
ErrorBase(t) == IF Handler(t) = 0 THEN 1 ELSE frames[t][Catcher(t)].base

(* Upvalues the error discards without closing them.                         *)
LeftOpen(m, t) == ToClose(m, t, ErrorBase(t)) \ ToClose(m, t, ErrorLevel(t))

MayRaise(x, m, t) ==
    /\ "outer_scope" \in Habits \/ LeftOpen(m, t) = {}
    /\ "leave_early" \in Habits \/ ~SharesFrame(x, m, t, ErrorBase(t))

BeginError ==
    /\ Active /\ MayRaise(co, Machine, Running)
    /\ leaving' = [leaving EXCEPT ![Running] = "error"]
    /\ UNCHANGED <<chain, co, stack, frames, var, cell, list, reach>>

Level(t) == IF leaving[t] = "error" THEN ErrorLevel(t) ELSE Innermost(t).base

(* A Lua function that is the __close handler of a variable of t has yielded *)
(* and has not returned; while it runs, the closing waits.                   *)
InHandler(t) == t \in Coroutines /\ co[t].handler = "running"
Closing == Busy /\ ~InHandler(Running)

(* One upvalue of the frame is closed, highest first.  The handler of a      *)
(* to-be-closed variable may raise: the error replaces the one under way.    *)
CloseStep(outcome) ==
    LET t == Running
        S == ToClose(Machine, t, Level(t))
        u == Highest(Machine, S)
    IN  /\ Closing /\ S # {}
        /\ outcome = "error" => cell[u].tbc /\ (leaving[t] = "error" \/ MayRaise(co, Machine, t))
        /\ Becomes(Close(Machine, t, {u}))
        /\ leaving' = IF outcome = "error" THEN [leaving EXCEPT ![t] = "error"] ELSE leaving
        /\ UNCHANGED <<chain, co, frames, reach>>

-----------------------------------------------------------------------------
(* Leaving a coroutine.                                                      *)

(* What call_resume and call_wrap_fn do to the resumer's variables when the  *)
(* coroutine is left, on a yield or for good.                                *)
Settle(m, c, dead) ==
    IF co[c].wrap /\ co[c].creator # Resumer /\ DOMAIN co[c].pending # {}
    THEN SyncBackOther(m, Resumer, co[c].origins, dead)
    ELSE SyncBack(m, Resumer, co[c].origins)

(* Nothing reads the rest of the context of a dead coroutine.                *)
Dead(c, status) == [NoCo EXCEPT !.st = status, !.creator = co[c].creator]

(* The coroutine is dead: its stack is dropped, its resumer runs.            *)
Dropped(m, c) == [Truncate(m, c, 1) EXCEPT !.list[c] = {}]
Finish(m, c, status) ==
    /\ Becomes(Settle(Dropped(m, c), c, TRUE))
    /\ co' = [co EXCEPT ![c] = Dead(c, status)]
    /\ reach' = [reach EXCEPT ![c] = {}]
    /\ chain' = Front(chain)

(* The outermost frame that ends with the innermost: a frame whose callers   *)
(* are lost returns from the protected call around it or from the coroutine. *)
Returning(t) ==
    IF Innermost(t).guard # "last" THEN Len(frames[t])
    ELSE IF Handler(t) = 0 THEN 1 ELSE Handler(t)

(* The frame is closed and the function returns.                             *)
EndReturn ==
    LET t == Running
        n == Returning(t)
        m == Truncate(Machine, t, frames[t][n].base)
    IN  /\ Closing /\ leaving[t] = "return" /\ ToClose(Machine, t, Level(t)) = {}
        /\ frames' = [frames EXCEPT ![t] = SubSeq(@, 1, n - 1)]
        /\ leaving' = [leaving EXCEPT ![t] = "no"]
        /\ IF t \in Coroutines /\ n = 1 THEN Finish(m, t, "ok")
           ELSE Becomes(m) /\ UNCHANGED <<chain, co, reach>>

(* The frames below the protected call that catches an error: of those below *)
(* a call a yield has passed through, only its caller (call_stack.clear).    *)
Beneath(t) ==
    SubSeq(frames[t], IF HasYielded(t) THEN Catcher(t) - 1 ELSE 1, Catcher(t) - 1)

(* The error reaches its protected call, or ends the coroutine; coroutine.   *)
(* wrap raises it again in the resumer.                                      *)
EndError ==
    LET t == Running
        h == Handler(t)
    IN  /\ Closing /\ leaving[t] = "error" /\ ToClose(Machine, t, Level(t)) = {}
        /\ "lost_callers" \in Habits \/ ~HasYielded(t) \/ h = 2
        /\ frames' = [frames EXCEPT ![t] = Beneath(t)]
        /\ IF h # 0
           THEN /\ Becomes(Truncate(Machine, t, ErrorBase(t)))
                /\ leaving' = [leaving EXCEPT ![t] = "no"]
                /\ UNCHANGED <<chain, co, reach>>
           ELSE /\ co[t].wrap => MayRaise([co EXCEPT ![t] = Dead(t, "error")],
                                        Settle(Dropped(Machine, t), t, TRUE), Resumer)
                /\ Finish(Machine, t, "error")
                /\ leaving' = [leaving EXCEPT ![t] = "no",
                                   ![Resumer] = IF co[t].wrap THEN "error" ELSE @]

(* coroutine.create and coroutine.wrap, with a body that captures S.         *)
Create(c, S, wrap) ==
    LET t == Running
        m == CaptureAll(Machine, t, S)
    IN  /\ Active /\ co[c].st = "none" /\ S \subseteq Accessible(t)
        /\ "share_tbc" \in Habits \/ \A v \in S : ~var[v].tbc
        /\ Becomes(m)
        /\ co' = [co EXCEPT ![c] = [NoCo EXCEPT !.st = "suspended", !.wrap = wrap,
                    !.creator = t, !.body = S,
                    !.pending = IF wrap THEN [u \in OpenAmong(m, S) |->
                                                [idx |-> m.cell[u].idx,
                                                 val |-> SlotOf(m, t, m.cell[u].idx)]]
                                ELSE NoOrigins]]
        /\ UNCHANGED <<chain, frames, leaving, reach>>

(* call_resume and the function coroutine.wrap returns, with closures over A *)
(* among the arguments.                                                      *)
Resume(c, A) ==
    LET t     == Running
        x     == co[c]
        m     == CaptureAll(Machine, t, A)
        first == ~x.started
        from  == IF ~first THEN x.origins
                 ELSE IF x.wrap THEN [u \in DOMAIN x.pending |-> x.pending[u].idx]
                 ELSE Origins(m, x.body)
        n     == IF first /\ x.wrap THEN ClosePending(m, t, x.pending, t = x.creator)
                 ELSE CloseShared(m, t, from)
    IN  /\ Active /\ x.st = "suspended"
        /\ "other_resumer" \in Habits \/ t = x.creator
        /\ A \subseteq Accessible(t) /\ ("pass_closure" \in Habits \/ A = {})
        /\ "share_tbc" \in Habits \/ \A v \in A : ~var[v].tbc
        /\ Becomes(IF first THEN n ELSE SyncBack(n, c, x.inside))
        /\ co' = [co EXCEPT ![c] = [@ EXCEPT !.st = "normal", !.started = TRUE,
                    !.origins = from, !.inside = NoOrigins, !.body = {},
                    !.pending = IF t = x.creator THEN NoOrigins ELSE x.pending]]
        /\ frames' = IF first THEN [frames EXCEPT ![c] = <<[base |-> 1, guard |-> "none"]>>]
                     ELSE frames
        /\ reach' = [reach EXCEPT ![c] = @ \cup A \cup (IF first THEN x.body ELSE {})]
        /\ chain' = Append(chain, c)
        /\ UNCHANGED leaving

PassedBy(f) == [f EXCEPT !.guard = IF @ = "armed" THEN "yielded" ELSE @]

(* The coroutine stops with closures over A among the yielded values.        *)
Suspend(m, c, A, handler) ==
    LET inside == YieldCells(m, c, A)
    IN  /\ Becomes(Settle(CloseShared(m, c, inside), c, FALSE))
        /\ co' = [co EXCEPT ![c].st = "suspended", ![c].inside = inside, ![c].pending = NoOrigins,
                               ![c].handler = handler]
        /\ frames' = [frames EXCEPT ![c] =
                        [i \in DOMAIN @ |-> PassedBy(@[i])]]
        /\ reach' = [reach EXCEPT ![Resumer] = @ \cup A]
        /\ chain' = Front(chain)

(* coroutine.yield.  Yielding a closure the resumer has already changes      *)
(* nothing, so those are left out.                                           *)
Yield(A) ==
    LET c == Running IN
    /\ Active /\ c \in Coroutines
    /\ A \subseteq Accessible(c) \ (IF "share_tbc" \in Habits THEN {} ELSE reach[Resumer])
    /\ "share_tbc" \in Habits \/ \A v \in A : ~var[v].tbc
    /\ Suspend(CaptureAll(Machine, c, A), c, A, co[c].handler)
    /\ UNCHANGED leaving

(* A __close handler yields.  A builtin one is over: the rest of the frame   *)
(* is closed after the next resume.  A Lua one goes on then.  Handlers of an *)
(* error nothing protects may not yield, unless a resumed handler raised it. *)
YieldInHandler(lua) ==
    LET c == Running
        S == ToClose(Machine, c, Level(c))
        u == Highest(Machine, S)
    IN  /\ Closing /\ c \in Coroutines /\ S # {} /\ cell[u].tbc
        /\ leaving[c] = "error" => Handler(c) # 0 \/ co[c].handler = "raised"
        /\ Suspend(Close(Machine, c, {u}), c, {}, IF lua THEN "running" ELSE co[c].handler)
        /\ UNCHANGED leaving

(* It yields again.                                                          *)
HandlerYields ==
    LET c == Running IN
    /\ Busy /\ InHandler(c)
    /\ Suspend(Machine, c, {}, "running")
    /\ UNCHANGED leaving

AfterHandler(c, why) == IF why = "error" /\ Handler(c) = 0 THEN "raised" ELSE "no"

(* finish_close_continuation: the resumed handler returns and the frame it   *)
(* was called for goes on being closed.  Of the frames that called this one, *)
(* those up to the next protected call are lost.                             *)
HandlerReturns ==
    LET c    == Running
        lost == leaving[c] = "return" /\ Innermost(c).guard = "none" /\ Len(frames[c]) > 1
    IN  /\ Busy /\ InHandler(c)
        /\ "lost_callers" \in Habits \/ ~lost
        /\ co' = [co EXCEPT ![c].handler = AfterHandler(c, leaving[c])]
        /\ frames' = IF lost THEN [frames EXCEPT ![c][Len(frames[c])].guard = "last"] ELSE frames
        /\ UNCHANGED <<chain, stack, leaving, var, cell, list, reach>>

(* handle_instruction_error: the resumed handler raises, and its error takes *)
(* the place of the return or error that closes the frame.                   *)
HandlerRaises ==
    LET c == Running IN
    /\ Busy /\ InHandler(c)
    /\ leaving[c] = "error" \/ MayRaise(co, Machine, c)
    /\ leaving' = [leaving EXCEPT ![c] = "error"]
    /\ co' = [co EXCEPT ![c].handler = AfterHandler(c, "error")]
    /\ UNCHANGED <<chain, stack, frames, var, cell, list, reach>>

(* The base register of a suspended coroutine: that of the frame it stopped  *)
(* in, which is the frame of its __close handler if it is in one.            *)
BaseOf(c) ==
    IF frames[c] = <<>> THEN 1
    ELSE IF InHandler(c) THEN Len(stack[c]) + 1
    ELSE Innermost(c).base

(* coroutine.close on a suspended coroutine: what lies above its base is     *)
(* closed on its own stack, a handler that yields stops the closing (n       *)
(* handlers ran), and the coroutine is dead whatever happened.               *)
CloseCoroutine(c, n) ==
    LET t == Running
        m == CloseShared(Machine, t, co[c].origins)
        k == CloseFrom(m, c, BaseOf(c), n)
    IN  /\ Active /\ co[c].st = "suspended"
        /\ "other_resumer" \in Habits \/ t = co[c].creator
        /\ \/ (IF InHandler(c) THEN "close_in_handler" ELSE "outer_scope") \in Habits
           \/ ToClose(Machine, c, 1) = ToClose(Machine, c, BaseOf(c))
        /\ "yield_in_close" \in Habits \/ n >= Cardinality(Vars)
        /\ Becomes(SyncBack(Dropped(k, c), t, co[c].origins))
        /\ co' = [co EXCEPT ![c] = Dead(c, "ok")]
        /\ frames' = [frames EXCEPT ![c] = <<>>]
        /\ leaving' = [leaving EXCEPT ![c] = "no"]
        /\ reach' = [reach EXCEPT ![c] = {}]
        /\ UNCHANGED chain

(* coroutine.close on a coroutine that ended in an error forgets the error.  *)
CloseFailed(c) ==
    /\ Active /\ co[c].st = "error"
    /\ co' = [co EXCEPT ![c].st = "ok"]
    /\ UNCHANGED <<chain, stack, frames, leaving, var, cell, list, reach>>

Next ==
    \/ \E v \in Vars, tbc \in BOOLEAN : Declare(v, tbc)
    \/ \E v \in Vars : WriteLocal(v) \/ WriteUpval(v)
    \/ \E guard \in {"none", "armed"} : Call(guard)
    \/ BeginReturn \/ BeginError \/ EndReturn \/ EndError
    \/ \E outcome \in {"ok", "error"} : CloseStep(outcome)
    \/ \E c \in Coroutines, S \in SUBSET Vars, wrap \in BOOLEAN : Create(c, S, wrap)
    \/ \E c \in Coroutines, A \in SUBSET Vars : Resume(c, A)
    \/ \E A \in SUBSET Vars : Yield(A)
    \/ \E lua \in BOOLEAN : YieldInHandler(lua)
    \/ HandlerYields \/ HandlerReturns \/ HandlerRaises
    \/ \E c \in Coroutines, n \in 1..Cardinality(Vars) : CloseCoroutine(c, n)
    \/ \E c \in Coroutines : CloseFailed(c)

Spec == Init /\ [][Next]_vars

-----------------------------------------------------------------------------
(* Properties.                                                               *)

Value == (Vars \X {0, 1}) \cup {Nil}

(* The shape of the Rust structures, and the upvalue list of a thread as     *)
(* find_upval and close rely on it: one open upvalue per slot, and none      *)
(* beyond the end of the stack.                                              *)
TypeOK ==
    /\ \A t \in Threads : stack[t] \in Seq(Value)
    /\ \A u \in Vars : cell[u].val \in Value
    /\ \A t \in Threads : \A u \in list[t] :
         IsOpen(Machine, u) =>
             /\ cell[u].idx \in DOMAIN stack[t]
             /\ \A w \in list[t] \ {u} : IsOpen(Machine, w) => cell[w].idx # cell[u].idx

(* A variable read through a closure by the running thread.                  *)
ReadUpval(v) ==
    LET u == var[v].via
    IN  IF IsOpen(Machine, u) THEN SlotOf(Machine, Running, cell[u].idx) ELSE cell[u].val

(* Whichever thread reads a variable, as a local or through a closure that   *)
(* was handed across resumes and yields, it reads the last value any thread  *)
(* wrote to it: the switch of stacks is invisible.                           *)
VariablesReadLastWrite ==
    Active =>
        /\ \A v \in Vars : IsLocal(Running, v) => stack[Running][var[v].idx] = <<v, var[v].ver>>
        /\ \A v \in reach[Running] : ReadUpval(v) = <<v, var[v].ver>>

(* A to-be-closed variable has its __close called once, and has had it       *)
(* called when the variable is gone.                                         *)
ClosedExactlyOnce ==
    \A v \in Vars : var[v].tbc =>
        /\ var[v].closed <= 1
        /\ ~var[v].live => var[v].closed = 1

(* __close is called for nothing but a to-be-closed variable, and only after *)
(* those declared later in the same thread.                                  *)
ClosedInReverse ==
    [][\A v \in Vars : var'[v].closed > var[v].closed =>
          /\ var[v].tbc
          /\ \A w \in Vars :
               (/\ var[w].live /\ var[w].tbc
                /\ var[w].home = var[v].home /\ var[w].idx > var[v].idx)
               => var'[w].closed = 1]_vars

(* A thread that runs has in its reach no cell that is open on the stack of  *)
(* another thread: the index would be looked up in the wrong stack.          *)
OpenMeansOwnStack ==
    Active => \A v \in reach[Running] :
        IsOpen(Machine, var[v].via) => var[v].via \in list[Running]
=============================================================================

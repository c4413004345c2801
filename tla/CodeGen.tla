------------------------------ MODULE CodeGen -------------------------------
(***************************************************************************)
(* The code generator of compiler/compile.rs: expressions, statements and   *)
(* functions.  Parsing is left out: the operators here take the syntax tree  *)
(* LuaSource describes.  A function takes the parameters a, b and t, a table.*)
(***************************************************************************)
EXTENDS Operators

-----------------------------------------------------------------------------
(* Expressions.  Each returns the function and a descriptor.                *)

(* A variable in scope: its register, or its value when it is a constant    *)
(* known at compile time.                                                   *)
Lookup(fs, name) ==
  LET at == CHOOSE i \in 1..Len(fs.vars) :
              /\ fs.vars[i].name = name
              /\ \A j \in (i + 1)..Len(fs.vars) : fs.vars[j].name # name
      v == fs.vars[at]
  IN IF v.kind = "reg" THEN Exp("NonReloc", v.reg, NoJump) ELSE Exp("K", v.val, NoJump)

RECURSIVE Expr(_, _)

(* f(arg): the function, its argument x, the call; one result is kept.      *)
CallWith(freg, x) ==
  LET inPlace == x.e.kind = "NonReloc" /\ ~ HasJumps(x.e)
      ready == CASE x.e.kind = "Call" -> SetC(x.fs, x.e.at, 0)
                 [] inPlace /\ x.e.info < NVarStack(x.fs) ->
                      Move(AllocReg(x.fs), x.fs.free, x.e.info)
                 [] inPlace /\ x.e.info >= NVarStack(x.fs) -> x.fs
                 [] OTHER -> ExpToReg(x.fs, x.e).fs
      called == Emit3(ready, "CALL", freg, IF x.e.kind = "Call" THEN 0 ELSE 2, 2)
  IN [fs |-> SetFree(called, freg + 1), e |-> Exp("Call", freg, Here(ready))]
CallExpr(fs, arg) ==
  CallWith(fs.free, Expr(Emit(AllocReg(fs), "GETTABUP", fs.free, 0, FALSE), arg))

(* t[key] read into a register of its own, t being a local variable.        *)
GetInto(fs, op, tab, b) ==
  [fs |-> Emit3(AllocReg(fs), op, fs.free, tab, b), e |-> Exp("NonReloc", fs.free, Here(fs))]
GetByReg(tab, k) == GetInto(FreeTemp(k.fs, k.r), "GETTABLE", tab, k.r)
IsIndexK(e) == e.kind = "K" /\ IsInt(e.info) /\ e.info[2] >= 0
IsFieldK(e) == e.kind = "K" /\ e.info[1] = "str"
KeyReg(fs, e) ==
  CASE e.kind = "NonReloc" /\ ~ HasJumps(e) -> [fs |-> fs, r |-> e.info]
    [] e.kind = "Reloc" /\ ~ HasJumps(e) -> ExpToReg(FreeTemp(fs, e.info), e)
    [] OTHER -> InPlace(fs, e)
GetIndexed(tab, x) ==
  CASE IsIndexK(x.e) /\ ~ HasJumps(x.e) -> GetInto(x.fs, "GETI", tab, x.e.info)
    [] IsFieldK(x.e) /\ ~ HasJumps(x.e) -> GetInto(x.fs, "GETFIELD", tab, x.e.info)
    [] OTHER -> GetByReg(tab, KeyReg(x.fs, x.e))
IndexExpr(fs, key) == GetIndexed(Lookup(fs, "t").info, Expr(fs, key))

(* The value of a call inside `and` and `or` is its first result.           *)
Single(e) == IF e.kind = "Call" THEN Exp("NonReloc", e.info, NoJump) ELSE e

WithFalses(falses, e) == [fs |-> falses.fs, e |-> [Single(e) EXCEPT !.f = falses.list]]
WithTrues(trues, e) == [fs |-> trues.fs, e |-> [Single(e) EXCEPT !.t = trues.list]]
AddFalses(x, list) == WithFalses(ConcatJump(x.fs, x.e.f, list), x.e)
AddTrues(x, list) == WithTrues(ConcatJump(x.fs, x.e.t, list), x.e)
AndExpr(left, x2) == AddFalses(Expr(left.fs, x2), left.list)
OrExpr(left, x2) == AddTrues(Expr(left.fs, x2), left.list)

Posfix(op, e1, x) ==
  IF op \in Comparisons THEN Compare(x.fs, op, e1, x.e) ELSE ArithmeticExp(x.fs, op, e1, x.e)
BinaryExpr(left, op, x2) == Posfix(op, left.e, Expr(left.fs, x2))
PosfixConcat(r, x) == ConcatRight(x.fs, r, x.e)
ConcatExpr(left, x2) == PosfixConcat(left.r, Expr(left.fs, x2))
OperatorExpr(op, left, x2) ==
  CASE op = "and" -> AndExpr(GoIfTrue(left.fs, left.e), x2)
    [] op = "or" -> OrExpr(GoIfFalse(left.fs, left.e), x2)
    [] op = "concat" -> ConcatExpr(ConcatLeft(left.fs, left.e), x2)
    [] OTHER -> BinaryExpr(Infix(left.fs, op, left.e), op, x2)

UnaryExpr(op, x) ==
  CASE op = "not" -> CodeNot(x.fs, x.e)
    [] op = "paren" -> Parenthesized(x.fs, x.e)
    [] OTHER -> CodeUnary(x.fs, op, x.e)

Expr(fs, x) ==
  CASE x[1] \in {"nil", "bool", "int", "float", "str"} -> [fs |-> fs, e |-> Exp("K", x, NoJump)]
    [] x[1] = "var" -> [fs |-> fs, e |-> Lookup(fs, x[2])]
    [] x[1] = "call" -> CallExpr(fs, x[2])
    [] x[1] = "index" -> IndexExpr(fs, x[2])
    [] x[1] \in {"not", "neg", "bnot", "len", "paren"} -> UnaryExpr(x[1], Expr(fs, x[2]))
    [] OTHER -> OperatorExpr(x[1], Expr(fs, x[2]), x[3])

-----------------------------------------------------------------------------
(* Blocks, labels and gotos.                                                *)

AddVar(fs, name, kind, reg, val) ==
  [fs EXCEPT !.vars = Append(@, [name |-> name, kind |-> kind, reg |-> reg, val |-> val])]

(* A label that ends its block is outside the scope of the block's locals.  *)
CreateLabel(fs, name, ends, outer) ==
  [fs EXCEPT !.labels = Append(@, [name |-> name, pc |-> Here(fs),
                                   nact |-> IF ends THEN outer ELSE Len(fs.vars)]),
             !.last = Here(fs)]

CodeGoto(fs, name) ==
  LET jumped == Emit(Jump(fs), "CLOSE", 0, 1, FALSE)
  IN [jumped EXCEPT !.gotos = Append(@, [name |-> name, pc |-> Here(fs), nact |-> Len(fs.vars)])]

(* Leave a block entered as the function outer was: its pending gotos go to *)
(* its labels, and those that stay pending leave the scope of its locals.   *)
RECURSIVE SolveGotos(_, _, _, _)
SolveGotos(fs, gotos, labels, nact) ==
  IF gotos = <<>> THEN fs
  ELSE LET g == Head(gotos)
           found == {i \in 1..Len(labels) : labels[i].name = g.name}
           label == labels[CHOOSE i \in found : TRUE]
           kept == [fs EXCEPT !.gotos = Append(@, [g EXCEPT !.nact = nact])]
           solved == [FixJump(fs, g.pc, label.pc) EXCEPT !.error = @ \/ g.nact < label.nact]
       IN SolveGotos(IF found = {} THEN kept ELSE solved, Tail(gotos), labels, nact)

LeaveBlock(fs, outer, isLoop) ==
  LET own == SubSeq(fs.labels, Len(outer.labels) + 1, Len(fs.labels))
      break == [name |-> "break", pc |-> Here(fs), nact |-> Len(outer.vars)]
      left == [fs EXCEPT !.gotos = outer.gotos, !.labels = outer.labels,
                         !.vars = SubSeq(@, 1, Len(outer.vars)), !.free = NVarStack(outer)]
  IN SolveGotos(left, SubSeq(fs.gotos, Len(outer.gotos) + 1, Len(fs.gotos)),
                IF isLoop THEN Append(own, break) ELSE own, Len(outer.vars))

-----------------------------------------------------------------------------
(* Statements.                                                              *)

RECURSIVE Statements(_, _, _, _)

Block(fs, body) == LeaveBlock(Statements(fs, body, Len(fs.vars), TRUE), fs, FALSE)

(* The values of a local statement, each in the register of its variable.   *)
RECURSIVE LocalValues(_, _, _, _)
PlaceLocal(x, target) ==
  CASE x.e.kind \in {"NonReloc", "Cat"} ->
         SetFree(ResolveJumps(Move(x.fs, target, x.e.info), x.e, target), target + 1)
    [] x.e.kind = "Reloc" ->
         SetFree(ResolveJumps(SetA(x.fs, x.e.at, target), x.e, target), target + 1)
    [] x.e.kind = "Call" /\ x.e.info = target -> SetFree(x.fs, target + 1)
    [] OTHER -> ExpToReg(SetFree(x.fs, target), x.e).fs
NextLocal(x, exps, target) == LocalValues(PlaceLocal(x, target), exps, target + 1, x.e)
LocalValues(fs, exps, target, last) ==
  IF exps = <<>> THEN [fs |-> fs, e |-> last]
  ELSE NextLocal(Expr(fs, Head(exps)), Tail(exps), target)

RECURSIVE AddLocals(_, _, _)
AddLocals(fs, names, reg) ==
  IF names = <<>> THEN fs
  ELSE AddLocals(AddVar(fs, Head(names), "reg", reg, Nil), Tail(names), reg + 1)

(* local names = exps, the last name constant if isConst; x is what the m    *)
(* values leave.                                                            *)
DeclareLocals(x, m, names, first, isConst) ==
  LET n == Len(names)
      ctc == isConst /\ m = n /\ x.e.kind = "K"
      regs0 == IF ctc THEN n - 1 ELSE n
      adjusted == CASE ctc -> RemoveLast(x.fs)
                    [] m > 0 /\ x.e.kind = "Call" -> SetC(x.fs, x.e.at, n - m + 2)
                    [] OTHER -> x.fs
      named == SetFree(AddLocals(adjusted, SubSeq(names, 1, regs0), first), first + regs0)
  IN CASE ctc -> AddVar(named, names[n], "ctc", 0, x.e.info)
       [] m > 0 /\ x.e.kind = "Call" -> named
       [] OTHER -> IF m < n THEN CodeNil(named, first + m, n - m) ELSE named
CodeLocal(fs, names, exps, isConst) ==
  DeclareLocals(LocalValues(fs, exps, fs.free, Exp("K", Nil, NoJump)), Len(exps), names,
                fs.free, isConst)

(* A target of an assignment: a local, or t[key] with a key that is a       *)
(* constant or sits in a register.                                          *)
LocalTarget(fs, name) == [op |-> "MOVE", tab |-> Lookup(fs, name).info, key |-> 0]
KeyInReg(tab, k) == [fs |-> k.fs, v |-> [op |-> "SETTABLE", tab |-> tab, key |-> k.r]]
KeyTarget(tab, y) ==
  CASE IsIndexK(y.e) \/ IsFieldK(y.e) ->
         [fs |-> y.fs, v |-> [op |-> IF IsInt(y.e.info) THEN "SETI" ELSE "SETFIELD",
                              tab |-> tab, key |-> y.e.info]]
    [] y.e.kind \in {"NonReloc", "Cat"} /\ ~ HasJumps(y.e) /\ y.e.at = NoJump ->
         KeyInReg(tab, [fs |-> y.fs, r |-> y.e.info])
    [] OTHER -> KeyInReg(tab, ExpToReg(y.fs, y.e))
Target(fs, x) ==
  IF x[1] = "var" THEN [fs |-> fs, v |-> LocalTarget(fs, x[2])]
  ELSE KeyTarget(Lookup(fs, "t").info, Expr(fs, x[2]))

(* check_conflict: a local assigned by the statement that an earlier target *)
(* uses as its table or key is copied first.                                *)
CheckConflict(fs, v, reg) ==
  LET uses == v.op # "MOVE" /\ (v.tab = reg \/ (v.op = "SETTABLE" /\ v.key = reg))
      fresh == fs.free
  IN IF ~ uses THEN [fs |-> fs, v |-> v]
     ELSE [fs |-> Emit(AllocReg(fs), "MOVE", fresh, reg, FALSE),
           v |-> [v EXCEPT !.tab = IF @ = reg THEN fresh ELSE @,
                           !.key = IF v.op = "SETTABLE" /\ @ = reg THEN fresh ELSE @]]

SecondTarget(first, name) ==
  LET second == LocalTarget(first.fs, name)
      checked == CheckConflict(first.fs, first.v, second.tab)
  IN [fs |-> checked.fs, vs |-> <<checked.v, second>>]
OnlyTarget(first) == [fs |-> first.fs, vs |-> <<first.v>>]
TargetsAfter(first, rest) ==
  IF rest = <<>> THEN OnlyTarget(first) ELSE SecondTarget(first, rest[1][2])
Targets(fs, xs) ==                  \* only the first target may be t[key]
  TargetsAfter(Target(fs, xs[1]), Tail(xs))

Store(fs, v, r) ==
  IF v.op = "MOVE" THEN Move(fs, v.tab, r)
  ELSE Emit3(fs, v.op, v.tab, v.key, r)
StoreReg(v, x) == Emit3(x.fs, v.op, v.tab, v.key, x.r)
StoreExp(fs, v, e) ==
  CASE v.op = "MOVE" -> StoreToLocal(fs, e, v.tab)
    [] v.op # "MOVE" /\ e.kind = "K" /\ e.t = NoJump /\ e.f = NoJump ->
         [Emit3(fs, v.op, v.tab, v.key, e.info) EXCEPT !.code[Here(fs)].k = TRUE]
    [] OTHER -> StoreReg(v, ExpToReg(fs, e))

(* Every value but the last goes to a register as it is read.               *)
AssignFirst(fs, e) ==
  IF e.kind = "NonReloc" /\ e.info < NVarStack(fs)
  THEN [fs |-> Move(AllocReg(fs), fs.free, e.info), r |-> fs.free]
  ELSE ExpToReg(fs, e)

(* One or two targets, one or two values; stored from the last to the first.*)
StoreWithNil(vs, x) ==
  Store(Store(CodeNil(AllocReg(x.fs), x.r + 1, 1), vs[2], x.r + 1), vs[1], x.r)
StoreOne(vs, x) ==
  CASE Len(vs) = 1 -> StoreExp(x.fs, vs[1], x.e)
    [] Len(vs) = 2 /\ x.e.kind = "Call" ->
         StoreExp(Store(SetC(x.fs, x.e.at, 3), vs[2], x.e.info + 1), vs[1], x.e)
    [] Len(vs) = 2 /\ x.e.kind # "Call" -> StoreWithNil(vs, ExpToReg(x.fs, x.e))
StoreTwo(vs, r, x) ==
  Store(CASE Len(vs) = 2 -> StoreExp(x.fs, vs[2], x.e)
          [] Len(vs) = 1 /\ x.e.kind = "Call" -> SetC(x.fs, x.e.at, 1)
          [] Len(vs) = 1 /\ x.e.kind # "Call" -> ExpToReg(x.fs, x.e).fs,
        vs[1], r)
SecondValue(vs, first, exp) == StoreTwo(vs, first.r, Expr(first.fs, exp))
FirstValue(vs, x, rest) ==
  IF rest = <<>> THEN StoreOne(vs, x) ELSE SecondValue(vs, AssignFirst(x.fs, x.e), rest[1])
AssignValues(ts, exps) == FirstValue(ts.vs, Expr(ts.fs, exps[1]), Tail(exps))
CodeAssign(fs, xs, exps) == SetFree(AssignValues(Targets(fs, xs), exps), NVarStack(fs))

(* cond: nil and false leave alike.                                         *)
NilIsFalse(y) == IF y.e.kind = "K" /\ y.e.info = Nil THEN [y EXCEPT !.e.info = Bool(FALSE)] ELSE y
Cond(fs, x) == NilIsFalse(Expr(fs, x))

TestCond(c) == GoIfTrue(c.fs, c.e)
IfBranches(test, free, then, else) ==
  LET thenDone == Block(SetFree(test.fs, free), then)
      elseDone == Block(SetFree(PatchToHere(Jump(thenDone), test.list), free), else)
  IN IF else = <<>> THEN PatchToHere(thenDone, test.list)
     ELSE PatchToHere(elseDone, Here(thenDone))
CodeIf(fs, cond, then, else) == IfBranches(TestCond(Cond(fs, cond)), fs.free, then, else)

(* The exits of a loop whose condition ends in a constant are dropped.      *)
WhileCond(c, fs, body) ==
  LET test == GoIfTrue(c.fs, c.e)
      exits == IF IsTrueConst(c.e) THEN NoJump ELSE test.list
      done == Block(SetFree(test.fs, fs.free), body)
      back == FixJump(Jump(done), Here(done), Here(fs))
  IN PatchToHere(LeaveBlock(back, fs, TRUE), exits)
CodeWhile(fs, cond, body) == WhileCond(Cond([fs EXCEPT !.last = Here(fs)], cond), fs, body)

Until(test, fs) ==
  LeaveBlock(PatchList(LeaveBlock(test.fs, fs, FALSE), test.list, Here(fs)), fs, TRUE)
UntilCond(c) ==
  IF IsTrueConst(c.e) THEN [fs |-> c.fs, list |-> NoJump] ELSE GoIfTrue(c.fs, c.e)
CodeRepeat(fs, body, cond) ==
  Until(UntilCond(Cond(Statements([fs EXCEPT !.last = Here(fs)], body, Len(fs.vars), FALSE), cond)),
        fs)

(* for name = from, to do body end                                          *)
MoveTo(reg, x) == Move(x.fs, reg, x.r)
ForExp(reg, y) == MoveTo(reg, ExpToReg(y.fs, y.e))
RECURSIVE ForValues(_, _, _)
ForValues(fs, xs, reg) ==
  IF xs = <<>> THEN fs
  ELSE ForValues(ForExp(reg, Expr(SetFree(fs, reg), Head(xs))), Tail(xs), reg + 1)
ForBody(ready, fs, name, body) ==
  LET base == fs.free
      state == AddLocals(ready, <<"(for state)", "(for state)">>, base)
      prep == Here(ready)
      entered == [Emit(state, "FORPREP", base, 0, FALSE) EXCEPT !.last = prep + 1]
      done == LeaveBlock(Block(AddLocals(entered, <<name>>, base + 2), body), entered, FALSE)
      loop == Emit(FixJump(done, prep, Here(done)), "FORLOOP", base, prep + 1, FALSE)
  IN LeaveBlock(loop, fs, TRUE)
CodeFor(fs, name, from, to, body, step) ==
  ForBody(SetFree(ForValues(fs, <<from, to, IF step = <<>> THEN <<"int", 1>> ELSE step>>, fs.free),
                  fs.free + 3),
          fs, name, body)

ReturnReg(x) == Emit(x.fs, "RETURN", x.r, 2, FALSE)
ReturnOne(x, first) ==
  IF x.e.kind = "Call"
  THEN Emit([SetC(x.fs, x.e.at, 0) EXCEPT !.code[x.e.at].op = "TAILCALL"],
            "RETURN", first, 0, FALSE)
  ELSE ReturnReg(ExpToReg(x.fs, x.e))
ReturnTwo(x, first) ==
  IF x.e.kind = "Call" THEN Emit(SetC(x.fs, x.e.at, 0), "RETURN", first, 0, FALSE)
  ELSE Emit(ExpToNextReg(x.fs, x.e).fs, "RETURN", first, 3, FALSE)
ReturnFirst(x, rest, first) ==
  IF rest = <<>> THEN ReturnOne(x, first)
  ELSE ReturnTwo(Expr(ExpToNextReg(x.fs, x.e).fs, rest[1]), first)
CodeReturn(fs, exps) ==
  LET first == NVarStack(fs)
  IN SetFree(IF exps = <<>> THEN Emit(fs, "RETURN", first, 1, FALSE)
             ELSE ReturnFirst(Expr(fs, exps[1]), Tail(exps), first),
             first)

DropResults(x) == SetC(x.fs, x.e.at, 1)
CodeCall(fs, arg) == SetFree(DropResults(CallExpr(fs, arg)), NVarStack(fs))

Statement(fs, s) ==
  CASE s[1] = "local" -> CodeLocal(fs, s[2], s[3], s[4])
    [] s[1] = "assign" -> CodeAssign(fs, s[2], s[3])
    [] s[1] = "call" -> CodeCall(fs, s[2])
    [] s[1] = "do" -> Block(fs, s[2])
    [] s[1] = "if" -> CodeIf(fs, s[2], s[3], s[4])
    [] s[1] = "while" -> CodeWhile(fs, s[2], s[3])
    [] s[1] = "repeat" -> CodeRepeat(fs, s[2], s[3])
    [] s[1] = "for" -> CodeFor(fs, s[2], s[3], s[4], s[5], s[6])
    [] s[1] = "break" -> CodeGoto(fs, "break")
    [] s[1] = "goto" -> CodeGoto(fs, s[2])
    [] s[1] = "return" -> CodeReturn(fs, s[2])

(* endsBlock: the text after the statements closes a block (until does not).*)
Statements(fs, body, outer, endsBlock) ==
  IF body = <<>> THEN fs
  ELSE LET s == Head(body)
           rest == Tail(body)
           last == endsBlock /\ \A i \in 1..Len(rest) : rest[i][1] = "label"
       IN IF s[1] = "label"
          THEN Statements(CreateLabel(fs, s[2], last, outer), rest, outer, endsBlock)
          ELSE Statements(Statement(fs, s), rest, outer, endsBlock)

RECURSIVE FinalTarget(_, _, _)
FinalTarget(code, i, n) ==
  IF n = 0 \/ code[i].op # "JMP" THEN i ELSE FinalTarget(code, code[i].b, n - 1)

Params == AddLocals(SetFree(NewFunc, 3), <<"a", "b", "t">>, 0)
Proto(done) ==
  [code |-> [i \in 1..Len(done.code) |->
               IF done.code[i].op # "JMP" THEN done.code[i]
               ELSE [done.code[i] EXCEPT !.b = FinalTarget(done.code, i, 100)]],
   size |-> IF done.max < 2 THEN 2 ELSE done.max,
   error |-> done.error \/ done.gotos # <<>>]

CompileFunction_Open(body) ==               \* mutant: no return at the end
  Proto(LeaveBlock(Statements(Params, body, 0, TRUE), NewFunc, FALSE))

(* The function a, b, t |-> body; jumps to jumps go to their final target.  *)
FinalReturn(fs) == Emit(fs, "RETURN", NVarStack(fs), 1, FALSE)
CompileFunction(body) ==
  Proto(LeaveBlock(FinalReturn(Statements(Params, body, 0, TRUE)), NewFunc, FALSE))
=============================================================================

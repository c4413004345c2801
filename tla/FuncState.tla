----------------------------- MODULE FuncState ------------------------------
(***************************************************************************)
(* The state of the code generator of compiler/compile.rs.                   *)
(*                                                                         *)
(* The compiler is a single pass over the source: an expression is kept as *)
(* a descriptor (ExpDesc) whose code may still miss its destination, the   *)
(* jumps of `and` and `or` are lists threaded through the code until their *)
(* target is known, and registers are handed out as a stack.  Every value  *)
(* the program computes depends on all three being resolved exactly once   *)
(* and to the right place.                                                  *)
(*                                                                         *)
(* Instructions are numbered from 1 and jump to an absolute place; a jump   *)
(* to itself is the end of a list.  A constant operand is the constant.     *)
(***************************************************************************)
EXTENDS Numbers

NoJump == 0
NoReg == 99

-----------------------------------------------------------------------------
(* The function under construction and its code.                            *)

NewFunc ==
  [code |-> <<>>, free |-> 0, max |-> 0, vars |-> <<>>,
   labels |-> <<>>, gotos |-> <<>>, last |-> 1, error |-> FALSE]

Here(fs) == Len(fs.code) + 1
Code(fs, op, a, b, c, k) ==
  [fs EXCEPT !.code = Append(@, [op |-> op, a |-> a, b |-> b, c |-> c, k |-> k])]
Emit(fs, op, a, b, k) == Code(fs, op, a, b, 0, k)
Emit3(fs, op, a, b, c) == Code(fs, op, a, b, c, FALSE)
RemoveLast(fs) == [fs EXCEPT !.code = SubSeq(@, 1, Len(@) - 1)]
SetA(fs, at, r) == [fs EXCEPT !.code[at].a = r]
SetC(fs, at, n) == [fs EXCEPT !.code[at].c = n]

AllocReg(fs) ==
  [fs EXCEPT !.free = @ + 1, !.max = IF @ < fs.free + 1 THEN fs.free + 1 ELSE @]
FreeReg(fs) == [fs EXCEPT !.free = IF @ > 0 THEN @ - 1 ELSE 0]
SetFree_NoFrame(fs, n) == [fs EXCEPT !.free = n]         \* mutant: the frame is not widened
SetFree(fs, n) == [fs EXCEPT !.free = n, !.max = IF @ < n THEN n ELSE @]

InReg(fs) == SelectSeq(fs.vars, LAMBDA v : v.kind = "reg")
NVarStack(fs) == IF InReg(fs) = <<>> THEN 0 ELSE InReg(fs)[Len(InReg(fs))].reg + 1
FreeTemp(fs, r) == IF r >= NVarStack(fs) /\ r = fs.free - 1 THEN FreeReg(fs) ELSE fs

(* Load nil into n registers, widening the previous LOADNIL when no jump    *)
(* is known to arrive between the two.                                      *)
Lower(m, n) == IF m < n THEN m ELSE n
Higher(m, n) == IF m < n THEN n ELSE m
Adjoins(i, from, to) == i.op = "LOADNIL" /\ from <= i.a + i.b + 1 /\ i.a <= to + 1
NilsTo(i, to, a) == [i EXCEPT !.a = a, !.b = to - a]
Widened(i, from, to) == NilsTo(i, Higher(i.a + i.b, to), Lower(i.a, from))
CodeNil(fs, from, n) ==
  IF Here(fs) > fs.last /\ Adjoins(fs.code[Len(fs.code)], from, from + n - 1)
  THEN [fs EXCEPT !.code[Len(fs.code)] = Widened(@, from, from + n - 1)]
  ELSE Emit(fs, "LOADNIL", from, n - 1, FALSE)

-----------------------------------------------------------------------------
(* Jump lists.                                                              *)

Jump(fs) == Emit(fs, "JMP", 0, Here(fs), FALSE)
GetJump(fs, j) == IF fs.code[j].b = j THEN NoJump ELSE fs.code[j].b
FixJump(fs, j, dest) == [fs EXCEPT !.code[j].b = dest]

RECURSIVE Nodes(_, _)
Nodes(fs, list) ==
  IF list = NoJump THEN <<>> ELSE <<list>> \o Nodes(fs, GetJump(fs, list))

ConcatJump_Head(fs, list1, list2) ==        \* mutant: the rest of list1 is forgotten
  IF list2 = NoJump THEN [fs |-> fs, list |-> list1]
  ELSE IF list1 = NoJump THEN [fs |-> fs, list |-> list2]
  ELSE [fs |-> FixJump(fs, list1, list2), list |-> list1]

(* Append list2 to list1; returns the function and the joined list.         *)
ConcatJump(fs, list1, list2) ==
  IF list2 = NoJump THEN [fs |-> fs, list |-> list1]
  ELSE IF list1 = NoJump THEN [fs |-> fs, list |-> list2]
  ELSE LET nodes == Nodes(fs, list1)
       IN [fs |-> FixJump(fs, nodes[Len(nodes)], list2), list |-> list1]

NegateCondition(fs, j) == [fs EXCEPT !.code[j - 1].k = ~ @]

IsTestSet(fs, node) == node > 1 /\ fs.code[node - 1].op = "TESTSET"

(* The test before a jump keeps its value in reg, or drops it.              *)
PatchTestReg(fs, node, reg) ==
  IF ~ IsTestSet(fs, node) THEN fs
  ELSE LET test == fs.code[node - 1]
       IN [fs EXCEPT !.code[node - 1] =
             IF reg # NoReg /\ reg # test.b THEN [test EXCEPT !.a = reg]
             ELSE [test EXCEPT !.op = "TEST", !.a = test.b]]

RECURSIVE PatchNodes(_, _, _, _, _)
PatchNodes(fs, nodes, vtarget, reg, dtarget) ==
  IF nodes = <<>> THEN fs
  ELSE LET node == Head(nodes)
           to == IF IsTestSet(fs, node) THEN vtarget ELSE dtarget
       IN PatchNodes(FixJump(PatchTestReg(fs, node, reg), node, to),
                     Tail(nodes), vtarget, reg, dtarget)
PatchListAux(fs, list, vtarget, reg, dtarget) ==
  PatchNodes(fs, Nodes(fs, list), vtarget, reg, dtarget)
PatchList(fs, list, target) == PatchListAux(fs, list, target, NoReg, target)
PatchToHere(fs, list) == PatchList(fs, list, Here(fs))

RemoveValues_None(fs, list) == fs           \* mutant: tests under a not keep their value
RECURSIVE RemoveValues(_, _)
RemoveValues(fs, list) ==
  IF list = NoJump THEN fs
  ELSE RemoveValues(PatchTestReg(fs, list, NoReg), GetJump(fs, list))

NeedValue(fs, list) ==
  LET nodes == Nodes(fs, list)
  IN \E i \in 1..Len(nodes) : ~ IsTestSet(fs, nodes[i])

-----------------------------------------------------------------------------
(* Expression descriptors.  kind "K": a constant, info its value; "NonReloc"*)
(* and "Call": a value in register info; "Cat": the same, of a concatenation;*)
(* "Reloc": the instruction at lacks its destination; "Vjmp": the jump info  *)
(* is taken when the value is true.  t and f are the jumps that leave with  *)
(* the value true and false.                                                *)

Exp(kind, info, at) == [kind |-> kind, info |-> info, at |-> at, t |-> NoJump, f |-> NoJump]
HasJumps(e) == e.t # e.f
IsTrueConst(e) == e.kind = "K" /\ ~ IsFalse(e.info)
IsNot(fs, e) == e.kind = "Reloc" /\ fs.code[e.at].op = "NOT"

LoadConst(fs, v, reg) ==
  CASE v = Nil -> CodeNil(fs, reg, 1)
    [] v = Bool(TRUE) -> Emit(fs, "LOADTRUE", reg, 0, FALSE)
    [] v = Bool(FALSE) -> Emit(fs, "LOADFALSE", reg, 0, FALSE)
    [] OTHER -> Emit(fs, "LOADK", reg, v, FALSE)

Move(fs, to, from) == IF to = from THEN fs ELSE Emit(fs, "MOVE", to, from, FALSE)

(* The code ends in loads of false and true: jumps that carry no value go   *)
(* to one of them, the others to the instruction after.                     *)
LoadBoth(fs, reg) ==
  Emit(Emit(fs, "LFALSESKIP", reg, 0, FALSE), "LOADTRUE", reg, 0, FALSE)
PatchValues(fs, trues, falses, reg) ==
  LET final == Here(fs)
  IN PatchListAux(PatchListAux(fs, falses, final, reg, final - 2), trues, final, reg, final - 1)

(* A comparison becomes a value.                                            *)
ValueOf(trues, falses, reg) == PatchValues(LoadBoth(trues.fs, reg), trues.list, falses, reg)
JumpToValue(fs, e, reg) == ValueOf(ConcatJump(fs, e.t, e.info), e.f, reg)

(* The pending jumps of a value that is now in register reg arrive here.    *)
ResolveJumps(fs, e, reg) ==
  IF e.kind = "Vjmp" \/ (e.t = NoJump /\ e.f = NoJump) THEN fs
  ELSE PatchValues(IF NeedValue(fs, e.t) \/ NeedValue(fs, e.f)
                   THEN FixJump(LoadBoth(Jump(fs), reg), Here(fs), Here(fs) + 3)
                   ELSE fs,
                   e.t, e.f, reg)
Resolved(x, e) == [fs |-> ResolveJumps(x.fs, e, x.r), r |-> x.r]

(* discharge_to_reg: the value itself, its jumps left pending.              *)
DischargeTo(fs, e, reg) ==
  CASE e.kind = "K" -> LoadConst(fs, e.info, reg)
    [] e.kind = "Reloc" -> SetA(fs, e.at, reg)
    [] e.kind \in {"NonReloc", "Call", "Cat"} -> Move(fs, reg, e.info)
    [] OTHER -> fs

DischargeToAnyReg(fs, e) ==
  IF e.kind \in {"NonReloc", "Call"} THEN [fs |-> fs, r |-> e.info]
  ELSE [fs |-> DischargeTo(AllocReg(fs), e, fs.free), r |-> fs.free]

ExprToReg(fs, e) ==
  CASE e.kind = "Vjmp" -> [fs |-> JumpToValue(AllocReg(fs), e, fs.free), r |-> fs.free]
    [] e.kind = "NonReloc" /\ (e.info < NVarStack(fs) \/ e.info = fs.free - 1) ->
         [fs |-> fs, r |-> e.info]
    [] e.kind = "Cat" /\ e.info = fs.free - 1 -> [fs |-> fs, r |-> e.info]
    [] e.kind = "Call" -> [fs |-> fs, r |-> e.info]
    [] OTHER -> [fs |-> DischargeTo(AllocReg(fs), e, fs.free), r |-> fs.free]

(* exp_to_reg: in some register, jumps resolved; a variable is left in its   *)
(* own register unless jumps have to be resolved into it.                   *)
ExpToReg(fs, e) ==
  Resolved(CASE e.kind \notin {"NonReloc", "Call"} -> ExprToReg(fs, e)
             [] e.kind \in {"NonReloc", "Call"} /\ (e.t # NoJump \/ e.f # NoJump)
                  /\ e.info < NVarStack(fs) ->
                  [fs |-> Emit(AllocReg(fs), "MOVE", fs.free, e.info, FALSE), r |-> fs.free]
             [] OTHER -> [fs |-> fs, r |-> e.info],
           e)

ToNext(fs, from) == [fs |-> Move(AllocReg(fs), fs.free, from), r |-> fs.free]
ExpToNextReg(fs, e) ==
  Resolved(IF e.kind \in {"NonReloc", "Call"} THEN ToNext(FreeTemp(fs, e.info), e.info)
           ELSE ExprToReg(fs, e),
           e)

(* Store into the register of a local variable.  The temporaries the code   *)
(* frees here are free at the end of the statement in any case.             *)
StoreToLocal(fs, e, dest) ==
  IF e.kind = "Vjmp" THEN JumpToValue(fs, e, dest)
  ELSE ResolveJumps(CASE e.kind = "K" -> LoadConst(fs, e.info, dest)
                      [] e.kind # "K" /\ e.kind # "Call" /\ e.at # NoJump -> SetA(fs, e.at, dest)
                      [] OTHER -> Move(fs, dest, e.info),
                    e, dest)

-----------------------------------------------------------------------------
(* Conditions.  GoIfTrue falls through when the value is true and returns   *)
(* the jumps taken when it is false; GoIfFalse is its dual.                 *)

TestReg(x, sense) == Jump(Emit(FreeTemp(x.fs, x.r), "TESTSET", NoReg, x.r, sense))
TestJump(fs, e, sense) ==           \* jump when the truth of e is sense
  IF IsNot(fs, e)
  THEN Jump(Emit(RemoveLast(fs), "TEST", fs.code[e.at].b, 0, ~ sense))
  ELSE TestReg(DischargeToAnyReg(fs, e), sense)

(* The jump just tested joins the list of those that leave; the others      *)
(* arrive here.                                                             *)
StayHere(leaving, stay) == [leaving EXCEPT !.fs = PatchToHere(@, stay)]
Leaving(fs, e, list, stay) ==
  StayHere(ConcatJump(fs, list, IF e.kind = "Vjmp" THEN e.info ELSE Here(fs) - 1), stay)

GoIfTrue(fs, e) ==
  IF IsTrueConst(e) THEN StayHere([fs |-> fs, list |-> e.f], e.t)
  ELSE Leaving(IF e.kind = "Vjmp" THEN NegateCondition(fs, e.info) ELSE TestJump(fs, e, FALSE),
               e, e.f, e.t)

GoIfFalse(fs, e) ==
  IF e.kind = "K" /\ IsFalse(e.info) THEN StayHere([fs |-> fs, list |-> e.t], e.f)
  ELSE Leaving(IF e.kind = "Vjmp" THEN fs ELSE TestJump(fs, e, TRUE), e, e.t, e.f)
=============================================================================

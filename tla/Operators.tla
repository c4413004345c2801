----------------------------- MODULE Operators -----------------------------
(***************************************************************************)
(* How compiler/compile.rs translates the operators of the language, but    *)
(* `and` and `or`: which operand is kept as a constant until the other is    *)
(* known, which instruction takes it, what is computed at compile time, and *)
(* when the registers of the operands are given back.                       *)
(*                                                                         *)
(* An arithmetic instruction is followed by one that calls the metamethod   *)
(* (MMBIN, MMBINI or MMBINK), whose k tells that the operands are swapped.  *)
(* The constant tables are never full.                                      *)
(***************************************************************************)
EXTENDS FuncState

RegCode ==
  [add |-> "ADD", sub |-> "SUB", mul |-> "MUL", div |-> "DIV", idiv |-> "IDIV", mod |-> "MOD",
   pow |-> "POW", band |-> "BAND", bor |-> "BOR", bxor |-> "BXOR", shl |-> "SHL", shr |-> "SHR"]
ConstCode ==
  [add |-> "ADDK", sub |-> "SUBK", mul |-> "MULK", div |-> "DIVK", idiv |-> "IDIVK", mod |-> "MODK",
   pow |-> "POWK", band |-> "BANDK", bor |-> "BORK", bxor |-> "BXORK"]
Multiplying == {"mul", "div", "idiv", "mod", "pow"}

-----------------------------------------------------------------------------
(* Operands.  The immediate operands are a few small integers (-127 to 128  *)
(* in the program, -1 to 2 here).                                           *)

FitsSC(n) == n \in -1..2
FitsSCNeg(n) == FitsSC(n) /\ FitsSC(-n)
IsNum(e) == e.kind = "K" /\ IsNumber(e.info)
Numeral(e) == IsNum(e) /\ ~ HasJumps(e)
IsIntK(e) == Numeral(e) /\ IsInt(e.info)
SmallInt(e) == IsIntK(e) /\ FitsSC(e.info[2])
FitsImm(v) == IsNumber(v) /\ \E n \in MinInt..MaxInt : FitsSC(n) /\ AsFloat(v) = Float(n, 1)
IsSC(e) == e.kind = "K" /\ ~ HasJumps(e) /\ FitsImm(e.info)
IsConstK(e) == e.kind = "K" /\ ~ FitsImm(e.info)

(* Before the right operand is compiled, the left one is put in a register  *)
(* unless it may become a constant operand.                                 *)
KeepsLeft(op, e) ==
  CASE op \in {"eq", "ne"} -> e.kind = "K"
    [] op \in Orders -> IsSC(e) \/ e.kind = "NonReloc"
    [] op \in Multiplying -> IsNum(e)
    [] OTHER -> Numeral(e)
InRegister(x) == [fs |-> x.fs, e |-> Exp("NonReloc", x.r, NoJump)]
Infix(fs, op, e) ==
  IF KeepsLeft(op, e) THEN [fs |-> fs, e |-> e] ELSE InRegister(ExpToReg(fs, e))

(* An operand is put in a register, or used in the one it is in.            *)
ToRegister(fs, e, inPlace) ==
  IF inPlace /\ e.kind = "Cat" /\ ~ HasJumps(e) THEN [fs |-> fs, r |-> e.info] ELSE ExpToReg(fs, e)
InPlace(fs, e) == ToRegister(fs, e, TRUE)

-----------------------------------------------------------------------------
(* Comparisons.                                                             *)

Operand(fs, e) ==
  IF e.kind \in {"NonReloc", "Call"} THEN Resolved([fs |-> fs, r |-> e.info], e)
  ELSE ExpToReg(fs, e)
Release(fs, r) == IF r >= NVarStack(fs) THEN FreeReg(fs) ELSE fs

(* Operands x and y are compared with an instruction and a jump.            *)
JumpIf(fs, op, a, b, k) == Jump(Emit(fs, op, a, b, k))
CompareImm(x, op, v, k) ==
  [fs |-> Release(JumpIf(x.fs, op, x.r, v, k), x.r), e |-> Exp("Vjmp", Here(x.fs) + 1, NoJump)]
CompareRegs(x, y, op, swapped, k) ==
  LET coded == IF swapped THEN JumpIf(y.fs, op, y.r, x.r, k) ELSE JumpIf(y.fs, op, x.r, y.r, k)
  IN [fs |-> Release(Release(coded, y.r), x.r), e |-> Exp("Vjmp", Here(coded) - 1, NoJump)]
CompareLeft(x, e2, op, swapped, k) == CompareRegs(x, Operand(x.fs, e2), op, swapped, k)

(* The instruction that compares with the constant e, on the given side,    *)
(* and its operand.                                                         *)
ImmOp(op, e, side) ==
  CASE op \in {"eq", "ne"} -> IF IsSC(e) THEN "EQI" ELSE "EQK"
    [] <<op, side>> \in {<<"lt", "right">>, <<"gt", "left">>} -> "LTI"
    [] <<op, side>> \in {<<"le", "right">>, <<"ge", "left">>} -> "LEI"
    [] <<op, side>> \in {<<"gt", "right">>, <<"lt", "left">>} -> "GTI"
    [] <<op, side>> \in {<<"ge", "right">>, <<"le", "left">>} -> "GEI"
ImmOperand(e) == IF IsSC(e) THEN e.info[2] ELSE e.info
RegOp(op) == CASE op \in {"eq", "ne"} -> "EQ" [] op \in {"lt", "gt"} -> "LT" [] OTHER -> "LE"

(* Which operand is taken for a constant, the left one looked at first by   *)
(* ==, ~=, > and >=.                                                        *)
Compare(fs, op, e1, e2) ==
  LET equality == op \in {"eq", "ne"}
      const1 == IF equality THEN e1.kind = "K" /\ ~ HasJumps(e1)
                ELSE IsSC(e1) /\ (op \in {"gt", "ge"} \/ ~ IsSC(e2))
      const2 == IsSC(e2) \/ (equality /\ IsConstK(e2))
      yes == op # "ne"
      const == IF const1 THEN e1 ELSE e2
  IN IF const1 \/ const2
     THEN CompareImm(Operand(fs, IF const1 THEN e2 ELSE e1),
                     ImmOp(op, const, IF const1 THEN "left" ELSE "right"), ImmOperand(const), yes)
     ELSE CompareLeft(Operand(fs, e1), e2, RegOp(op), op \in {"gt", "ge"}, yes)

-----------------------------------------------------------------------------
(* Constants.                                                               *)

(* The value two numbers have when it is computed at compile time: not one  *)
(* the program could tell from a constant (nan and the zeros), and not an   *)
(* error.                                                                   *)
FoldFloat(op, x, y) ==
  IF op \in {"div", "idiv", "mod"} /\ y = Zero THEN {}
  ELSE {FloatMethod(op, x, y)} \ {NaN, Zero}
FoldBits(op, v, w) == {IntMethod(op, m, n) : m \in ToIntegerNs(v), n \in ToIntegerNs(w)}
Folded(op, v, w) ==
  CASE op \in Bitwise -> FoldBits(op, v, w)
    [] IsInt(v) /\ IsInt(w) /\ op \in {"add", "sub", "mul", "idiv", "mod"} ->
         {IntMethod(op, v[2], w[2])} \ {Raised}
    [] OTHER -> FoldFloat(op, AsFloat(v), AsFloat(w))

(* The division of constants overflows in the compiler itself.              *)
Overflows(op, v, w) == op \in {"idiv", "mod"} /\ v = <<"int", MinInt>> /\ w = <<"int", -1>>

AtCompileTime(fs, overflows, folded) ==
  [fs |-> [fs EXCEPT !.error = @ \/ overflows], e |-> Exp("K", CHOOSE v \in folded : TRUE, NoJump)]

(* Two numbers that are not folded: the left one is loaded.                 *)
Unfolded(x, op, v) ==
  LET coded == Emit3(Emit3(x.fs, ConstCode[op], x.r, x.r, v), "MMBINK", x.r, v, op)
  IN [fs |-> IF op \in {"add", "sub"} THEN coded ELSE FreeTemp(coded, x.r),
      e |-> Exp("Reloc", x.r, Here(x.fs))]

-----------------------------------------------------------------------------
(* Arithmetic.                                                              *)

(* An operation with one operand known here: e goes to a register, and the   *)
(* instruction code takes arg; val is what the metamethod would get, and     *)
(* flip tells that it is the left operand of the source.                     *)
WithImm(e, inPlace, code, arg, val, flip) ==
  [e |-> e, inPlace |-> inPlace, code |-> code, arg |-> arg, meta |-> "MMBINI", val |-> val, flip |-> flip]
WithConst(e, inPlace, op, val, flip) ==
  [e |-> e, inPlace |-> inPlace, code |-> ConstCode[op], arg |-> val, meta |-> "MMBINK", val |-> val,
   flip |-> flip]
BothInRegisters == [meta |-> "MMBIN"]

OpOne(x, op, way) ==
  [fs |-> FreeTemp(Code(Emit3(x.fs, way.code, 0, x.r, way.arg), way.meta, x.r, way.val, op, way.flip), x.r),
   e |-> Exp("Reloc", 0, Here(x.fs))]

(* Both operands in registers, the right one put there first.               *)
OpRegs(x, y, op) ==
  [fs |-> FreeTemp(FreeTemp(Emit3(Emit3(x.fs, RegCode[op], 0, x.r, y.r), "MMBIN", x.r, y.r, op),
                            Higher(x.r, y.r)),
                   Lower(x.r, y.r)),
   e |-> Exp("Reloc", 0, Here(x.fs))]
OpLeft(y, e1, op) == OpRegs(ExpToReg(y.fs, e1), y, op)
OpBoth(fs, e1, e2, op) == OpLeft(InPlace(fs, e2), e1, op)

(* Which way an operation goes, at least one operand being no number known  *)
(* here.                                                                    *)
ConstRight(op, e1, e2) ==
  IF Numeral(e2) THEN WithConst(e1, FALSE, op, e2.info, FALSE) ELSE BothInRegisters
ConstLeft(op, e1, e2) == WithConst(e2, TRUE, op, e1.info, TRUE)
ImmLeft(code, e1, e2) == WithImm(e2, TRUE, code, e1.info[2], e1.info[2], TRUE)
ImmRight(code, e1, e2, imm) == WithImm(e1, FALSE, code, imm, e2.info[2], FALSE)
Negatable(e) == SmallInt(e) /\ FitsSCNeg(e.info[2])

CodeBitwise(op, e1, e2) ==
  CASE IsIntK(e1) -> WithConst(e2, FALSE, op, e1.info, TRUE)
    [] ~ IsIntK(e1) /\ IsIntK(e2) -> WithConst(e1, FALSE, op, e2.info, FALSE)
    [] OTHER -> BothInRegisters
CodeShl(e1, e2) ==                  \* a << n is a >> -n
  CASE SmallInt(e1) -> ImmLeft("SHLI", e1, e2)
    [] ~ SmallInt(e1) /\ Negatable(e2) -> ImmRight("SHRI", e1, e2, -e2.info[2])
    [] OTHER -> BothInRegisters
CodeShr(e1, e2) ==
  IF SmallInt(e2) THEN ImmRight("SHRI", e1, e2, e2.info[2]) ELSE BothInRegisters
CodeAdd(e1, e2) ==
  CASE SmallInt(e1) -> ImmLeft("ADDI", e1, e2)
    [] IsNum(e1) /\ ~ SmallInt(e1) -> ConstLeft("add", e1, e2)
    [] ~ IsNum(e1) /\ SmallInt(e2) -> ImmRight("ADDI", e1, e2, e2.info[2])
    [] OTHER -> ConstRight("add", e1, e2)
CodeSub(e1, e2) ==                  \* a - n is a + -n
  IF Negatable(e2) THEN ImmRight("ADDI", e1, e2, -e2.info[2]) ELSE ConstRight("sub", e1, e2)
CodeMul(e1, e2) == IF IsNum(e1) THEN ConstLeft("mul", e1, e2) ELSE ConstRight("mul", e1, e2)

WayOf(op, e1, e2) ==
  CASE op \in Bitwise \ Shifts -> CodeBitwise(op, e1, e2)
    [] op = "shl" -> CodeShl(e1, e2)
    [] op = "shr" -> CodeShr(e1, e2)
    [] op = "add" -> CodeAdd(e1, e2)
    [] op = "sub" -> CodeSub(e1, e2)
    [] op = "mul" -> CodeMul(e1, e2)
    [] op \in {"div", "idiv", "mod", "pow"} -> ConstRight(op, e1, e2)
CodeArith(fs, op, e1, e2, way) ==
  IF way = BothInRegisters THEN OpBoth(fs, e1, e2, op)
  ELSE OpOne(ToRegister(fs, way.e, way.inPlace), op, way)

FoldOrCode(fs, op, e1, e2, folded) ==
  CASE folded # {} -> AtCompileTime(fs, Overflows(op, e1.info, e2.info), folded)
    [] folded = {} /\ Numeral(e1) /\ Numeral(e2) /\ op \notin Bitwise \cup {"pow"} ->
         Unfolded(ExpToReg(fs, e1), op, e2.info)
    [] OTHER -> CodeArith(fs, op, e1, e2, WayOf(op, e1, e2))
ArithmeticExp(fs, op, e1, e2) ==
  FoldOrCode(fs, op, e1, e2,
             IF Numeral(e1) /\ Numeral(e2) THEN Folded(op, e1.info, e2.info) ELSE {})

-----------------------------------------------------------------------------
(* Operators of one operand.                                                *)

UnaryCode == [neg |-> "UNM", bnot |-> "BNOT", len |-> "LEN", not |-> "NOT"]
OneRegister(x, op) == FreeTemp(Emit(x.fs, UnaryCode[op], 0, x.r, FALSE), x.r)
OpUnary(x, op) == [fs |-> OneRegister(x, op), e |-> Exp("Reloc", x.r, Here(x.fs))]

(* What -e and ~e are when e is known.                                      *)
FoldedUnary(op, e) ==
  CASE op = "neg" /\ IsIntK(e) -> {Integer(-e.info[2])}
    [] op = "neg" /\ Numeral(e) /\ IsFloat(e.info) -> {FNeg(e.info)} \ {NaN, Zero}
    [] op = "bnot" /\ Numeral(e) -> {BitwiseNot(<<"int", n>>) : n \in ToIntegerNs(e.info)}
    [] OTHER -> {}
FoldOrEmit(fs, op, e, folded) ==
  IF folded = {} THEN OpUnary(ExpToReg(fs, e), op) ELSE AtCompileTime(fs, FALSE, folded)
CodeUnary(fs, op, e) == FoldOrEmit(fs, op, e, FoldedUnary(op, e))

NotReg(x) == OneRegister(x, "not")
CodeNot(fs, e) ==
  LET coded == CASE e.kind = "K" -> fs
                 [] e.kind = "Vjmp" -> NegateCondition(fs, e.info)
                 [] OTHER -> NotReg(DischargeToAnyReg(fs, e))
      result == CASE e.kind = "K" -> Exp("K", Bool(IsFalse(e.info)), NoJump)
                  [] e.kind = "Vjmp" -> e
                  [] OTHER -> Exp("Reloc", 0, Here(coded) - 1)
  IN [fs |-> RemoveValues(RemoveValues(coded, e.f), e.t),
      e |-> [result EXCEPT !.t = e.f, !.f = e.t]]

(* (e): one value of a call.                                                *)
Parenthesized(fs, e) ==
  IF e.kind = "Call" THEN [fs |-> SetC(fs, e.at, 2), e |-> Exp("NonReloc", e.info, NoJump)]
  ELSE [fs |-> fs, e |-> e]

-----------------------------------------------------------------------------
(* Concatenation.  The operands are put in consecutive registers: a right    *)
(* operand that is itself a concatenation is joined with this one.           *)

AboveLocals(x) == IF x.r < NVarStack(x.fs) THEN ToNext(x.fs, x.r) ELSE x
ConcatLeft(fs, e1) == AboveLocals(InPlace(fs, e1))

MoveNext(y, r) ==
  IF y.r = r + 1 THEN y.fs
  ELSE Emit(IF y.fs.free <= r + 1 THEN AllocReg(y.fs) ELSE y.fs, "MOVE", r + 1, y.r, FALSE)
Ready(fs, free, r) == IF fs.free > free THEN FreeReg(fs) ELSE FreeTemp(fs, r)
Join(fs, r) ==
  LET last == fs.code[Len(fs.code)]
  IN [fs |-> IF fs.code # <<>> /\ last.op = "CONCAT" /\ last.a = r + 1
             THEN Emit(RemoveLast(fs), "CONCAT", r, last.b + 1, FALSE)
             ELSE Emit(fs, "CONCAT", r, 2, FALSE),
      e |-> Exp("Cat", r, NoJump)]
ConcatWith(y, free, r) == Join(Ready(MoveNext(y, r), free, y.r), r)
ConcatRight(fs, r, e2) == ConcatWith(InPlace(fs, e2), fs.free, r)
=============================================================================

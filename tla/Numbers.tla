------------------------------ MODULE Numbers -------------------------------
(***************************************************************************)
(* The arithmetic of the interpreter (vm.rs, tm.rs, the operators of         *)
(* execute.rs): what an operator computes in the machine, where LuaSource    *)
(* says what it means.  The compiler folds constants with its own rules.     *)
(***************************************************************************)
EXTENDS LuaSource

(* float_to_integer and to_integer_ns: the integer a value is, or is rounded *)
(* to, if any.                                                              *)
Rounded(x, mode) == IF mode = "ceil" THEN -((-x[2]) \div x[3]) ELSE x[2] \div x[3]
ToIntegers(v, mode) ==
  IF IsInt(v) THEN {v[2]}
  ELSE {n \in MinInt..MaxInt : IsFloat(v) /\ IsFinite(v) /\ n = Rounded(v, mode)
                              /\ (mode = "eq" => v[3] = 1)}
ToIntegerNs(v) == ToIntegers(v, "eq")
Unsigned(n) == n % 2^NBits

(* Division of machine integers truncates.                                  *)
Quot(m, n) == Sign(m) * Sign(n) * (Abs(m) \div Abs(n))
RemT(m, n) == m - n * Quot(m, n)

Idiv(m, n) ==
  CASE n = 0 -> Raised
    [] n = -1 -> Integer(-m)
    [] OTHER -> Integer(Quot(m, n) - (IF Sign(m) * Sign(n) < 0 /\ RemT(m, n) # 0 THEN 1 ELSE 0))

IsPowerOf2(n) == n > 0 /\ Bits(n) \cap Bits(n - 1) = {}
Modulus(m, n) ==
  CASE n = 0 -> Raised
    [] n = -1 -> Integer(0)
    [] IsPowerOf2(n) -> FromBits(Bits(m) \cap Bits(n - 1))
    [] OTHER -> LET r == RemT(m, n)
                IN IF r # 0 /\ Sign(r) # Sign(n) THEN Integer(r + n) ELSE Integer(r)

Adjusted(r, y) ==
  IF FLess(Zero, r) = FLess(y, Zero) /\ ~ FEqual(r, Zero) THEN FAdd(r, y) ELSE r
ModulusFloat(x, y) == The({Adjusted(r, y) : r \in {FRem(x, y)}})

FloatPow(x, y) == IF y = Float(2, 1) THEN FMul(x, x) ELSE FPow(x, y)

(* A shift by the width or more gives 0; one by a negative number goes the  *)
(* other way.                                                               *)
Shiftl(m, n) ==
  CASE n < 0 /\ n <= -NBits -> Integer(0)
    [] n < 0 /\ n > -NBits -> FromBits({i - Abs(n) : i \in Bits(m)} \cap Places)
    [] n >= 0 /\ n >= NBits -> Integer(0)
    [] OTHER -> Integer(m * 2^n)
Shiftr(m, n) == Shiftl(m, Wrap(-n))

-----------------------------------------------------------------------------
(* What an instruction does with its operands; Falls: nothing, and the       *)
(* instruction after it calls the metamethod.                               *)

Falls == <<"falls">>

IntMethod(op, m, n) ==
  CASE op = "add" -> Integer(m + n)
    [] op = "sub" -> Integer(m - n)
    [] op = "mul" -> Integer(m * n)
    [] op = "idiv" -> Idiv(m, n)
    [] op = "mod" -> Modulus(m, n)
    [] op = "band" -> FromBits(Bits(m) \cap Bits(n))
    [] op = "bor" -> FromBits(Bits(m) \cup Bits(n))
    [] op = "bxor" -> FromBits({i \in Places : (i \in Bits(m)) # (i \in Bits(n))})
    [] op = "shl" -> Shiftl(m, n)
    [] op = "shr" -> Shiftr(m, n)
FloatMethod(op, x, y) ==
  CASE op = "add" -> FAdd(x, y)
    [] op = "sub" -> FSub(x, y)
    [] op = "mul" -> FMul(x, y)
    [] op = "div" -> FDiv(x, y)
    [] op = "idiv" -> FFloor(FDiv(x, y))
    [] op = "mod" -> ModulusFloat(x, y)
    [] op = "pow" -> FloatPow(x, y)
ArithBin(op, v, w) ==
  CASE IsInt(v) /\ IsInt(w) /\ op \notin {"div", "pow"} -> IntMethod(op, v[2], w[2])
    [] IsNumber(v) /\ IsNumber(w) -> FloatMethod(op, AsFloat(v), AsFloat(w))
    [] OTHER -> Falls
BitwiseBin(op, v, w) ==
  IF ToIntegerNs(v) = {} \/ ToIntegerNs(w) = {} THEN Falls
  ELSE IntMethod(op, CHOOSE m \in ToIntegerNs(v) : TRUE, CHOOSE n \in ToIntegerNs(w) : TRUE)
Bin(op, v, w) == IF op \in Bitwise THEN BitwiseBin(op, v, w) ELSE ArithBin(op, v, w)

(* try_bin_tm: numbers have no metamethods.                                 *)
TryBinTM(event, v, w) == IF IsNumber(v) /\ IsNumber(w) THEN Raised ELSE Meta(event, v, w)

UnaryMinus(v) ==
  CASE IsInt(v) -> Integer(-v[2])
    [] IsFloat(v) -> FNeg(v)
    [] OTHER -> TryBinTM("neg", v, v)
BitwiseNot(v) ==
  IF ToIntegerNs(v) = {} THEN TryBinTM("bnot", v, v)
  ELSE FromBits(Places \ Bits(CHOOSE n \in ToIntegerNs(v) : TRUE))
ObjLen(v) ==
  CASE IsString(v) -> Integer(Len(Pieces(v)))
    [] IsNumber(v) -> Raised
    [] OTHER -> Meta("len", v, v)

(* concat_stack joins as many values from the end as are strings or numbers;*)
(* when there is no second one, op_concat calls the metamethod of two.      *)
IsStringable(v) == IsString(v) \/ IsNumber(v)
RECURSIVE AllPieces(_)
AllPieces(vs) == IF vs = <<>> THEN <<>> ELSE Pieces(Head(vs)) \o AllPieces(Tail(vs))
RECURSIVE ConcatStack(_)
ConcatStack(vs) ==
  LET n == Len(vs)
      starts == {i \in 1..n : \A j \in i..n : IsStringable(vs[j])}
      from == CHOOSE i \in starts : \A j \in starts : i <= j
  IN CASE n = 1 -> vs[1]
       [] n > 1 /\ n - 1 \in starts ->
            ConcatStack(Append(SubSeq(vs, 1, from - 1), <<"cat", AllPieces(SubSeq(vs, from, n))>>))
       [] OTHER -> ConcatStack(Append(SubSeq(vs, 1, n - 2), Meta("concat", vs[n - 1], vs[n])))

-----------------------------------------------------------------------------
(* Comparisons.                                                             *)

RawEqual(v, w) ==
  CASE IsFloat(v) /\ IsFloat(w) -> FEqual(v, w)
    [] IsInt(v) /\ IsFloat(w) -> v[2] \in ToIntegerNs(w)
    [] IsFloat(v) /\ IsInt(w) -> w[2] \in ToIntegerNs(v)
    [] OTHER -> v = w
LtNum(v, w) == IF IsInt(v) /\ IsInt(w) THEN v[2] < w[2] ELSE FLess(AsFloat(v), AsFloat(w))
LeNum(v, w) == IF IsInt(v) /\ IsInt(w) THEN v[2] <= w[2] ELSE FLessEq(AsFloat(v), AsFloat(w))

(* Every other operand has a metamethod, which gives false.                 *)
LessThan(v, w) == IsNumber(v) /\ IsNumber(w) /\ LtNum(v, w)
LessEqual(v, w) == IsNumber(v) /\ IsNumber(w) /\ LeNum(v, w)

(* EQI takes a float for the integer im when it is less than Epsilon away.  *)
Epsilon == Float(1, 8)
EqualImm(v, im) ==
  CASE IsInt(v) -> v[2] = im
    [] IsFloat(v) -> LET d == FSub(v, Float(im, 1))
                     IN FLess(d, Epsilon) /\ FLess(FNeg(Epsilon), d)
    [] OTHER -> FALSE
=============================================================================

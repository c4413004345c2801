----------------------------- MODULE MCMachine ------------------------------
(* Machine on families of small functions: every expression of one operator *)
(* and a choice of deeper ones in every place an expression can stand, every *)
(* operator on all small numbers, known at compile time or not, numeric      *)
(* loops between all small numbers, and every pair of simple statements in   *)
(* every kind of block.                                                     *)
EXTENDS Machine

CONSTANTS
  Families,     \* which of the families of functions below
  Habits        \* of the forms the compiler mistranslates, those allowed

-----------------------------------------------------------------------------
(* Forms the compiler mistranslates, by name.  A function that uses one     *)
(* that is not in Habits is left out.                                       *)

Literals == {"nil", "bool", "int", "float", "str"}
Arithmetical == DOMAIN RegCode
OneOperandOps == {"not", "neg", "bnot", "len", "paren"}
RECURSIVE IsJoin(_)
IsJoin(x) ==
  \/ x[1] \in {"and", "or"}
  \/ x[1] = "paren" /\ IsJoin(x[2])
  \/ x[1] = "not" /\ (x[2][1] \in {"and", "or"} \/ (x[2][1] = "paren" /\ IsJoin(x[2])))

(* What the value that reaches the end of an expression comes from.  The     *)
(* functions below name their compile-time constants c.                      *)
RECURSIVE Ending(_)
Ending(x) ==
  CASE x = Nil -> "nil"
    [] x[1] \in Literals \ {"nil"} \/ x = <<"var", "c">> -> "constant"
    [] x[1] = "var" /\ x[2] # "c" -> "local"
    [] x[1] \in {"and", "or"} -> Ending(x[3])
    [] x[1] = "paren" -> Ending(x[2])
    [] x[1] = "concat" -> "concat"
    [] x[1] = "not" /\ Ending(x[2]) \in {"nil", "constant"} -> "constant"
    [] x[1] \in {"neg", "bnot"} /\ Ending(x[2]) = "constant" -> "constant"
    [] x[1] \in Arithmetical /\ {Ending(x[2]), Ending(x[3])} = {"constant"} -> "constant"
    [] OTHER -> "code"
Known == {"nil", "constant"}
JoinOf(x, ends) == IsJoin(x) /\ Ending(x) \in ends

RECURSIVE Parts(_)
Parts(x) ==
  {x} \cup CASE x[1] \in Literals \cup {"var"} -> {}
             [] x[1] \in OneOperandOps \cup {"call", "index"} -> Parts(x[2])
             [] OTHER -> Parts(x[2]) \cup Parts(x[3])
PartsOf(xs) == UNION {Parts(xs[i]) : i \in 1..Len(xs)}

(* Numbers known at compile time.                                           *)
IsKnown(x) == \A y \in Parts(x) : y[1] \in {"int", "float", "neg", "bnot", "paren"} \cup Arithmetical
KnownValue(x) ==
  Value([env |-> <<>>, heap |-> EmptyTable, log |-> <<>>, fuel |-> 0, out |-> <<"go">>], x).v
AreKnown(x) == IsKnown(x[2]) /\ IsKnown(x[3])

ExpHabit(h, x) ==
  CASE h = "ordered_join" -> x[1] \in Orders /\ JoinOf(x[2], {"local", "code"})
    [] h = "join_to_local" -> x[1] \in Comparisons /\ JoinOf(x[3], {"local"})
    [] h = "join_to_constant" ->
         x[1] \in {"eq", "ne"} /\ (JoinOf(x[2], Known) \/ JoinOf(x[3], Known))
    [] h = "multiplied_join" -> x[1] \in Multiplying /\ JoinOf(x[2], {"constant"})
    [] h = "zero_constant" ->
         x[1] \in {"add", "sub"} /\ AreKnown(x) /\ KnownValue(x) \in {Zero, NaN}
    [] h = "overflowing_constant" ->
         x[1] \in {"idiv", "mod"} /\ AreKnown(x) /\ Overflows(x[1], KnownValue(x[2]), KnownValue(x[3]))
    [] h = "concatenated_join" -> x[1] = "concat" /\ JoinOf(x[3], {"concat"})
    [] h = "tested_concat" -> x[1] \in {"not", "and", "or"} /\ Ending(x[2]) = "concat"
ExpHabits(xs) ==
  {h \in {"ordered_join", "join_to_local", "join_to_constant", "multiplied_join", "zero_constant",
          "overflowing_constant", "concatenated_join", "tested_concat"} :
     \E x \in PartsOf(xs) : ExpHabit(h, x)}

(* A nil load merged with the one before it although a jump arrives between.*)
RECURSIVE Leftmost(_)
Leftmost(x) == IF x[1] \in Literals \cup {"var", "call", "index"} THEN x ELSE Leftmost(x[2])
NilExps(xs, n) ==
  \E i \in 1..Len(xs) : /\ JoinOf(xs[i], {"nil"})
                        /\ IF i < Len(xs) THEN Leftmost(xs[i + 1]) = Nil ELSE Len(xs) < n
StartsNil(s) ==
  CASE s[1] = "local" -> s[3] = <<>> \/ Leftmost(s[3][1]) = Nil
    [] s[1] = "assign" -> Leftmost(s[3][1]) = Nil
    [] s[1] = "return" -> s[2] # <<>> /\ Leftmost(s[2][1]) = Nil
    [] s[1] \in {"if", "call"} -> Leftmost(s[2]) = Nil
    [] OTHER -> FALSE
RECURSIVE BeginsNil(_)
BeginsNil(s) == IF s[1] = "do" THEN BeginsNil(s[2][1]) ELSE StartsNil(s)
RECURSIVE EndsNil(_)
EndsNil(s) ==
  CASE s[1] = "local" -> Len(s[3]) < Len(s[2]) \/ Ending(s[3][Len(s[3])]) = "nil"
    [] s[1] = "assign" -> Ending(s[3][Len(s[3])]) = "nil"
    [] s[1] = "do" -> EndsNil(s[2][Len(s[2])])
    [] s[1] = "if" -> LET body == IF s[4] = <<>> THEN s[3] ELSE s[4] IN EndsNil(body[Len(body)])
    [] OTHER -> FALSE
RECURSIVE JoinsInNil(_)
JoinsInNil(s) ==
  CASE s[1] \in {"local", "assign"} -> EndsNil(s) /\ s[3] # <<>> /\ IsJoin(s[3][Len(s[3])])
    [] s[1] = "do" -> JoinsInNil(s[2][Len(s[2])])
    [] s[1] = "if" -> EndsNil(s)
    [] OTHER -> FALSE

RECURSIVE HabitsOf(_)
StatementHabits(s) ==
  CASE s[1] = "local" ->
         ExpHabits(s[3]) \cup {h \in {"nil_after_join", "constant_join"} :
           CASE h = "nil_after_join" -> NilExps(s[3], Len(s[2]))
             [] h = "constant_join" -> s[4] /\ JoinOf(s[3][Len(s[3])], Known)}
    [] s[1] = "assign" ->
         ExpHabits(s[3])
           \cup (IF s[2][1][1] = "index" THEN ExpHabits(<<s[2][1][2]>>) ELSE {})
           \cup {h \in {"nil_after_join", "local_adjusted", "first_join", "constant_key"} :
             CASE h = "nil_after_join" -> NilExps(s[3], Len(s[2]))
               [] h = "local_adjusted" -> Len(s[2]) > Len(s[3]) /\ Ending(s[3][1]) = "local"
               [] h = "first_join" -> Len(s[3]) = 2 /\ JoinOf(s[3][1], {"local"})
               [] h = "constant_key" -> s[2][1][1] = "index" /\ JoinOf(s[2][1][2], Known)}
    [] s[1] = "return" -> ExpHabits(s[2]) \cup
         (IF NilExps(s[2], Len(s[2])) THEN {"nil_after_join"} ELSE {})
    [] s[1] = "call" -> ExpHabits(<<s[2]>>)
    [] s[1] = "do" -> HabitsOf(s[2])
    [] s[1] = "if" -> ExpHabits(<<s[2]>>) \cup HabitsOf(s[3]) \cup HabitsOf(s[4])
    [] s[1] = "while" -> ExpHabits(<<s[2]>>) \cup HabitsOf(s[3]) \cup
         (IF JoinOf(s[2], Known) THEN {"constant_loop"} ELSE {})
    [] s[1] = "repeat" -> ExpHabits(<<s[3]>>) \cup HabitsOf(s[2]) \cup
         (IF JoinOf(s[3], Known) THEN {"constant_loop"} ELSE {})
    [] s[1] = "for" -> ExpHabits(<<s[3], s[4]>> \o (IF s[6] = <<>> THEN <<>> ELSE <<s[6]>>)) \cup HabitsOf(s[5])
    [] OTHER -> {}
HabitsOf(body) ==
  UNION {StatementHabits(body[i]) : i \in 1..Len(body)}
    \cup (IF \E i \in 1..(Len(body) - 1) : JoinsInNil(body[i]) /\ BeginsNil(body[i + 1])
          THEN {"nil_after_join"} ELSE {})

-----------------------------------------------------------------------------
(* Functions of a, b and t.                                                 *)

A == <<"var", "a">>
B == <<"var", "b">>
C == <<"var", "c">>
R == <<"var", "r">>
Z == <<"var", "z">>
One == <<"int", 1>>
Two == <<"int", 2>>
FA == <<"call", A>>
TB == <<"index", B>>
Local(names, exps) == <<"local", names, exps, FALSE>>
Constant(name, x) == <<"local", <<name>>, <<x>>, TRUE>>
Gets(name, x) == <<"assign", <<<<"var", name>>>>, <<x>>>>
If(x, s) == <<"if", x, <<s>>, <<>>>>
Ret(exps) == <<"return", exps>>

(* Expressions: one operator, and deeper ones.                              *)
Simple == {A, B, One, Nil, Bool(TRUE), FA}
OneOperator == {<<op, x, y>> : op \in {"and", "or", "eq", "ne", "lt", "ge"}, x \in Simple, y \in Simple}
                 \cup {<<"not", x>> : x \in Simple}
Deeper == {TB, <<"str", "k">>, <<"add", A, One>>, <<"add", One, FA>>, <<"add", <<"or", A, One>>, FA>>,
           <<"and", <<"eq", A, One>>, FA>>, <<"or", <<"ne", A, B>>, <<"lt", B, Two>>>>,
           <<"not", <<"or", A, FA>>>>, <<"not", <<"and", <<"eq", A, One>>, B>>>>,
           <<"eq", <<"or", A, B>>, FA>>, <<"ne", FA, <<"and", A, TB>>>>, <<"gt", A, <<"or", B, FA>>>>,
           <<"le", FA, FA>>, <<"or", <<"and", A, B>>, FA>>, <<"and", <<"or", A, FA>>, B>>,
           <<"index", <<"or", A, One>>>>, <<"call", FA>>, <<"call", <<"and", A, FA>>>>,
           <<"and", <<"and", A, B>>, FA>>, <<"or", <<"or", A, TB>>, FA>>,
           <<"lt", <<"or", A, FA>>, FA>>, <<"ge", One, <<"and", A, B>>>>,
           <<"eq", <<"and", A, One>>, FA>>}

(* Arithmetic.                                                              *)
Three == <<"int", 3>>
Half == Float(1, 2)
SmallNumbers == {<<"int", n>> : n \in MinInt..MaxInt}
              \cup {Half, Float(-3, 2), Float(2, 1), Zero, FNeg(Infinity), NaN}
SmallConstants == {<<"int", 0>>, One, Three, <<"neg", Two>>, <<"sub", <<"neg", Three>>, One>>,
               Zero, Float(2, 1), Half, <<"neg", Half>>, Infinity}
BinaryOps == Arithmetical \cup Comparisons \cup {"concat"}
OnConstants == {<<op, x, y>> : op \in BinaryOps \ {"pow"}, x \in SmallConstants, y \in SmallConstants}
                 \cup {<<"pow", x, y>> : x \in SmallConstants, y \in {One, Float(2, 1), <<"neg", Two>>}}
                 \cup {<<op, x>> : op \in OneOperandOps, x \in SmallConstants}
OnInputs == {<<op, A, B>> : op \in BinaryOps} \cup {<<op, A>> : op \in OneOperandOps}
              \cup {<<op, A, x>> : op \in BinaryOps \ {"pow"}, x \in {One, Three, Float(2, 1), Half}}
              \cup {<<op, x, A>> : op \in BinaryOps, x \in {One, Three, Float(2, 1), Half}}
              \cup {<<"pow", A, x>> : x \in {Two, Float(2, 1), Three}}
Operands == {<<A, B>>, <<A, FA>>, <<FA, B>>, <<FA, FA>>, <<A, One>>, <<One, A>>, <<FA, Three>>,
             <<Three, FA>>, <<A, Half>>, <<Half, A>>, <<A, <<"or", B, One>>>>, <<<<"and", A, B>>, FA>>}
OneArithmetic == {<<op, p[1], p[2]>> : op \in {"add", "sub", "mul", "band", "shl", "concat"},
                                     p \in Operands}
                   \cup {<<op, x>> : op \in OneOperandOps, x \in {A, FA, TB, <<"or", A, One>>, <<"concat", A, B>>}}
DeepArithmetic ==
  {<<"add", <<"mul", A, B>>, <<"sub", FA, One>>>>, <<"sub", <<"neg", A>>, <<"bnot", FA>>>>,
   <<"concat", A, <<"concat", B, FA>>>>, <<"concat", <<"concat", A, B>>, FA>>,
   <<"concat", <<"call", FA>>, <<"add", A, B>>>>, <<"concat", One, <<"or", A, FA>>>>,
   <<"eq", <<"add", A, One>>, Two>>, <<"lt", <<"mod", B, Two>>, A>>, <<"ge", Half, <<"neg", FA>>>>,
   <<"eq", Float(1, 1), A>>, <<"lt", FA, Half>>, <<"eq", A, Three>>, <<"ne", FA, Half>>,
   <<"index", <<"sub", A, One>>>>, <<"index", <<"concat", A, B>>>>, <<"index", Float(1, 1)>>,
   <<"index", <<"neg", One>>>>, <<"call", <<"neg", FA>>>>, <<"call", <<"div", Half, Zero>>>>,
   <<"and", <<"add", A, B>>, <<"neg", B>>>>, <<"or", <<"eq", A, One>>, <<"concat", A, B>>>>,
   <<"and", <<"len", A>>, <<"mul", A, Two>>>>, <<"mul", <<"or", A, B>>, <<"and", B, One>>>>}

(* The places of an expression.                                             *)
Placed(x) ==
  { <<Local(<<"r">>, <<x>>), Ret(<<R, B>>)>>,
    <<Local(<<"r", "z">>, <<x>>), Ret(<<R, Z>>)>>,
    <<Local(<<"r", "z">>, <<B, x>>), Ret(<<R, Z>>)>>,
    <<Constant("c", x), Ret(<<C, <<"add", C, B>>>>)>>,
    <<Gets("a", x), Ret(<<B, A>>)>>,
    <<<<"assign", <<A, B>>, <<x>>>>, Ret(<<A, B>>)>>,
    <<<<"assign", <<A, B>>, <<x, A>>>>, Ret(<<A, B>>)>>,
    <<<<"assign", <<A, B>>, <<B, x>>>>, Ret(<<A, B>>)>>,
    <<<<"assign", <<A>>, <<A, x>>>>, Ret(<<A, B>>)>>,
    <<<<"assign", <<<<"index", One>>>>, <<x>>>>>>,
    <<<<"assign", <<<<"index", A>>, A>>, <<x, B>>>>, Ret(<<A>>)>>,
    <<<<"assign", <<<<"index", x>>>>, <<B>>>>>>,
    <<<<"if", x, <<Ret(<<A>>)>>, <<>>>>, Ret(<<B>>)>>,
    <<<<"if", x, <<Gets("a", Nil)>>, <<Gets("b", Nil)>>>>, Ret(<<A, B>>)>>,
    <<<<"while", x, <<<<"if", A, <<Gets("a", Nil)>>, <<<<"break">>>>>>>>>>, Ret(<<A>>)>>,
    <<<<"repeat", <<<<"if", A, <<Gets("a", Nil)>>, <<<<"break">>>>>>>>, x>>, Ret(<<A>>)>>,
    <<<<"for", "i", One, Two, <<Gets("a", x)>>, <<>>>>, Ret(<<A>>)>>,
    <<<<"call", x>>, Ret(<<A>>)>>,
    <<Ret(<<<<"call", x>>>>)>>,
    <<Ret(<<<<"index", x>>>>)>>,
    <<Ret(<<x>>)>>, <<Ret(<<x, B>>)>>, <<Ret(<<B, x>>)>> }

(* Pairs of statements in a block of every kind.                            *)
Statement1 == {Local(<<"y">>, <<A>>), Local(<<"y">>, <<>>), Gets("a", Nil),
               Gets("a", <<"or", B, FA>>), <<"call", B>>, <<"break">>, <<"goto", "next">>,
               <<"goto", "out">>, <<"label", "next">>, Ret(<<A, B>>)}
Branches == {<<"break">>, <<"goto", "next">>, <<"goto", "out">>, Local(<<"y">>, <<>>)}
Statement2 == Statement1 \cup {If(A, s) : s \in Statement1}
                \cup {<<"if", <<"lt", A, B>>, <<s>>, <<Gets("a", Two)>>>> : s \in Branches}
                \cup {<<"do", <<s>>>> : s \in Branches \ {<<"break">>}}
Pairs == {<<s1, s2>> : s1 \in Statement2 \ {Ret(<<A, B>>)}, s2 \in Statement2}
           \ {<<<<"label", "next">>, <<"label", "next">>>>}
Count == Gets("b", <<"add", B, One>>)
EndsInReturn(body) == body[Len(body)][1] = "return"
Blocks(body) ==
  { <<<<"while", <<"lt", B, Two>>, <<Count>> \o body>>>>,
    <<<<"repeat", <<Count>> \o body, <<"gt", B, One>>>>>>,
    <<<<"for", "y", One, Two, body, <<>>>>, <<"label", "out">>>>,
    <<<<"for", "i", <<"or", B, Two>>, One, body, <<>>>>, Local(<<"z">>, <<Nil>>)>>,
    <<<<"if", <<"and", A, B>>, body, <<>>>>, Local(<<"z">>, <<>>), <<"call", Z>>>> }
    \cup (IF EndsInReturn(body) THEN {}
          ELSE {body \o <<Local(<<"z">>, <<>>), <<"call", Z>>, <<"label", "out">>>>})

(* Numeric loops that report their control variable.                       *)
Report == <<<<"call", <<"var", "i">>>>>>
LoopFor(from, to, step) == <<<<"for", "i", from, to, Report, step>>, Ret(<<A>>)>>
Steps == {<<>>, One, <<"neg", One>>, Two, <<"neg", Two>>, Three, <<"sub", <<"neg", Three>>, One>>,
          <<"int", 0>>, Half, <<"neg", Half>>, Float(2, 1), Zero}
Loops == {LoopFor(A, B, step) : step \in Steps}
           \cup {LoopFor(A, Two, B), LoopFor(<<"neg", Three>>, A, B), LoopFor(A, FA, B),
                 LoopFor(<<"and", A, B>>, <<"or", B, Two>>, <<"or", A, One>>)}

(* The shortest functions the compiler gets wrong.                          *)
Witnesses ==
  { <<If(A, Local(<<"y">>, <<>>)), Local(<<"z">>, <<>>), Ret(<<Z>>)>>,
    <<Local(<<"r">>, <<<<"lt", One, <<"or", A, B>>>>>>), Ret(<<R, B>>)>>,
    <<Ret(<<<<"mul", <<"or", A, Two>>, FA>>>>)>>,
    <<Ret(<<<<"call", <<"sub", Half, Half>>>>>>)>>,
    <<Ret(<<<<"idiv", <<"sub", <<"neg", Three>>, One>>, <<"neg", One>>>>>>)>>,
    <<Ret(<<<<"concat", A, <<"or", B, <<"concat", A, B>>>>>>>>)>>,
    <<Ret(<<<<"call", <<"not", <<"concat", A, B>>>>>>>>)>>,
    <<<<"assign", <<A, B>>, <<B>>>>, Ret(<<A, B>>)>>,
    <<<<"assign", <<A, B>>, <<<<"or", A, B>>, One>>>>, Ret(<<A, B>>)>> }

Family(f) ==
  CASE f = "placed" -> UNION {Placed(x) : x \in Simple \cup OneOperator \cup Deeper}
    [] f = "arithmetic" ->
         UNION {Placed(x) : x \in OneArithmetic \cup DeepArithmetic}
           \cup {<<Ret(<<x>>)>> : x \in OnConstants \cup OnInputs}
           \cup {<<Ret(<<<<"call", x>>>>)>> : x \in OnConstants}
    [] f = "blocks" -> {body \o <<Ret(<<A, B>>)>> : body \in UNION {Blocks(p) : p \in Pairs}}
    [] f = "loops" -> Loops
    [] f = "witnesses" -> Witnesses
MCPrograms == {p \in UNION {Family(f) : f \in Families} : HabitsOf(p) \subseteq Habits}

(* Functions that do not terminate are compiled but not run.               *)
Terminating == expected.out # <<"diverge">> /\ Len(log) <= Fuel

(* An operator or a loop applied to the parameters gets all small numbers,  *)
(* and two other values; of exponents only those Floats knows, and no loop  *)
(* runs to nan.                                                             *)
Direct(p) == Len(p) = 1 /\ p[1][1] = "return" /\ Len(p[1][2]) = 1 /\ p[1][2][1] \in OnInputs
Values(x, op) ==
  CASE x \notin {A, B} -> {One}
    [] x \in {A, B} /\ op = "pow" -> {v \in SmallNumbers : IsIntegral(v)} \cup {Nil}
    [] OTHER -> SmallNumbers \cup {Nil, <<"str", "k">>}
InputsOf(x) ==
  IF x[1] \in OneOperandOps THEN Values(A, "") \X {One}
  ELSE IF x[2] = A THEN Values(A, "") \X Values(x[3], x[1])
  ELSE Values(A, x[1]) \X {One}
LoopValues == (SmallNumbers \ {NaN}) \cup {Nil, <<"str", "k">>}
MCInputs(p) ==
  CASE Direct(p) -> InputsOf(p[1][2][1])
    [] p \in Loops -> LoopValues \X LoopValues
    [] OTHER -> {<<Nil, One>>, <<One, Nil>>, <<Two, One>>}
=============================================================================

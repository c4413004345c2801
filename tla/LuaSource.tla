----------------------------- MODULE LuaSource ------------------------------
(***************************************************************************)
(* What a function of the small Lua of CodeGen means, evaluated on its      *)
(* syntax tree: the reference the compiled code is compared with.  This is   *)
(* the language of the reference manual, not a translation of any code of   *)
(* the repository, except for the values, which are those of the machine.   *)
(*                                                                         *)
(* Expressions: <<"nil">>, <<"bool", b>>, <<"int", n>>, <<"float", p, q>>,  *)
(* <<"str", s>>, <<"var", name>>, <<"call", arg>> (f(arg)), <<"index", key>>*)
(* (t[key]), <<"not", e>>, <<"neg", e>>, <<"bnot", e>>, <<"len", e>>,       *)
(* <<"paren", e>>, and <<op, e1, e2>> for the binary operators.             *)
(* Statements: <<"local", names, exps, isConst>>, <<"assign", targets,      *)
(* exps>>, <<"call", arg>>, <<"do", body>>, <<"if", e, then, else>>,        *)
(* <<"while", e, body>>, <<"repeat", body, e>>, <<"for", name, e1, e2,      *)
(* body, step>> (step is <<>> for none), <<"break">>, <<"goto", label>>,    *)
(* <<"label", label>>, <<"return", exps>>.                                  *)
(***************************************************************************)
EXTENDS Integers, Sequences, FiniteSets, Floats

-----------------------------------------------------------------------------
(* Values.  A table is a value too, there is only one.                      *)
Nil == <<"nil">>
Bool(b) == <<"bool", b>>
Table == <<"table">>
Raised == <<"raised">>              \* no value: the operation is an error
IsFalse(v) == v \in {Nil, Bool(FALSE)}

(* Integers have NBits bits and wrap around.                                *)
NBits == 3
MinInt == -(2^(NBits - 1))
MaxInt == 2^(NBits - 1) - 1
Wrap(n) == ((n - MinInt) % 2^NBits) + MinInt
Integer(n) == <<"int", Wrap(n)>>
IsInt(v) == v[1] = "int"
IsFloat(v) == v[1] = "float"
IsNumber(v) == IsInt(v) \/ IsFloat(v)
AsFloat(v) == IF IsInt(v) THEN Float(v[2], 1) ELSE v
IsIntegral(v) == IsInt(v) \/ (IsFloat(v) /\ v[3] = 1 /\ v[2] \in MinInt..MaxInt)
Equal(v, w) == IF IsNumber(v) /\ IsNumber(w) THEN FEqual(AsFloat(v), AsFloat(w)) ELSE v = w

(* The bits of an integer that are set.                                     *)
Places == 0..(NBits - 1)
Bits(n) == {i \in Places : ((n % 2^NBits) \div 2^i) % 2 = 1}
RECURSIVE Total(_)
Total(places) ==
  IF places = {} THEN 0
  ELSE LET i == CHOOSE i \in places : TRUE IN 2^i + Total(places \ {i})
FromBits(places) == Integer(Total(places))

(* An operation on operands it is not defined for calls a metamethod, whose *)
(* result the operation and its operands determine: every value that is not *)
(* a number has them.  The metamethods of comparisons give false, and those *)
(* of the table for other keys than these give nil and store nothing.       *)
Meta(op, v, w) == <<"meta", op, v, w>>
Less(v, w) == IsNumber(v) /\ IsNumber(w) /\ FLess(AsFloat(v), AsFloat(w))
LessEq(v, w) == IsNumber(v) /\ IsNumber(w) /\ FLessEq(AsFloat(v), AsFloat(w))
Keys == {<<"int", 1>>, <<"int", 2>>, <<"str", "k">>}
Key(k) == IF IsNumber(k) /\ IsIntegral(k) THEN <<"int", k[2]>> ELSE k
At(h, k) == IF Key(k) \in Keys THEN h[Key(k)] ELSE Nil
Put(h, k, v) == IF Key(k) \in Keys THEN [h EXCEPT ![Key(k)] = v] ELSE h

-----------------------------------------------------------------------------
(* Operators.                                                               *)

Shifts == {"shl", "shr"}
Bitwise == {"band", "bor", "bxor"} \cup Shifts
Orders == {"lt", "le", "gt", "ge"}
Comparisons == Orders \cup {"eq", "ne"}

FloorDiv(m, n) == IF n < 0 THEN (-m) \div (-n) ELSE m \div n
FloorMod(x, y) ==                   \* the remainder of x // y
  IF IsFinite(x) /\ ~ IsFinite(y) /\ y # NaN
  THEN IF x[2] * y[2] < 0 THEN y ELSE x
  ELSE The({FSub(x, FMul(n, y)) : n \in {FFloor(FDiv(x, y))}})
IntOperation(op, m, n) ==
  CASE op = "add" -> Integer(m + n)
    [] op = "sub" -> Integer(m - n)
    [] op = "mul" -> Integer(m * n)
    [] op = "idiv" -> IF n = 0 THEN Raised ELSE Integer(FloorDiv(m, n))
    [] op = "mod" -> IF n = 0 THEN Raised ELSE Integer(m - n * FloorDiv(m, n))
    [] op = "band" -> FromBits(Bits(m) \cap Bits(n))
    [] op = "bor" -> FromBits(Bits(m) \cup Bits(n))
    [] op = "bxor" -> FromBits((Bits(m) \cup Bits(n)) \ (Bits(m) \cap Bits(n)))
    [] op = "shl" -> FromBits({i + n : i \in Bits(m)} \cap Places)
    [] op = "shr" -> FromBits({i - n : i \in Bits(m)} \cap Places)
FloatOperation(op, x, y) ==
  CASE op = "add" -> FAdd(x, y)
    [] op = "sub" -> FSub(x, y)
    [] op = "mul" -> FMul(x, y)
    [] op = "div" -> FDiv(x, y)
    [] op = "idiv" -> FFloor(FDiv(x, y))
    [] op = "mod" -> FloorMod(x, y)
    [] op = "pow" -> FPow(x, y)
Arithmetic(op, v, w) ==
  CASE ~ IsNumber(v) \/ ~ IsNumber(w) -> Meta(op, v, w)
    [] op \in Bitwise -> IF IsIntegral(v) /\ IsIntegral(w) THEN IntOperation(op, v[2], w[2]) ELSE Raised
    [] IsInt(v) /\ IsInt(w) /\ op \notin {"div", "pow"} -> IntOperation(op, v[2], w[2])
    [] OTHER -> FloatOperation(op, AsFloat(v), AsFloat(w))

(* A string is one piece, or the pieces it was concatenated from; a number  *)
(* is a piece of the string it converts to.                                 *)
IsString(v) == v[1] \in {"str", "cat"}
Pieces(v) == IF v[1] = "cat" THEN v[2] ELSE <<v>>
Joined(v, w) ==
  IF (IsString(v) \/ IsNumber(v)) /\ (IsString(w) \/ IsNumber(w))
  THEN <<"cat", Pieces(v) \o Pieces(w)>>
  ELSE Meta("concat", v, w)

Unary(op, v) ==
  CASE op = "not" -> Bool(IsFalse(v))
    [] op = "neg" /\ IsInt(v) -> Integer(-v[2])
    [] op = "neg" /\ IsFloat(v) -> FNeg(v)
    [] op = "bnot" /\ IsNumber(v) ->
         IF IsIntegral(v) THEN FromBits(Places \ Bits(v[2])) ELSE Raised
    [] op = "len" /\ IsString(v) -> Integer(Len(Pieces(v)))
    [] op = "len" /\ IsNumber(v) -> Raised
    [] OTHER -> Meta(op, v, v)
Binary(op, v, w) ==
  CASE op = "eq" -> Bool(Equal(v, w))
    [] op = "ne" -> Bool(~ Equal(v, w))
    [] op = "lt" -> Bool(Less(v, w))
    [] op = "le" -> Bool(LessEq(v, w))
    [] op = "gt" -> Bool(Less(w, v))
    [] op = "ge" -> Bool(LessEq(w, v))
    [] op = "concat" -> Joined(v, w)
    [] OTHER -> Arithmetic(op, v, w)

(* f reports its arguments, returns the first one and then "k".             *)
Results(args) == IF args = <<>> THEN <<>> ELSE <<args[1], <<"str", "k">>>>
First(vs) == IF vs = <<>> THEN Nil ELSE vs[1]
Nth(vs, i) == IF i <= Len(vs) THEN vs[i] ELSE Nil

-----------------------------------------------------------------------------
(* Which gotos a body may contain.  A break is a goto to the end of a loop. *)

RECURSIVE Unresolved(_)
GotosOf(s) ==                       \* labels outside s that s jumps to
  CASE s[1] = "goto" -> {s[2]}
    [] s[1] = "break" -> {"break"}
    [] s[1] = "do" -> Unresolved(s[2])
    [] s[1] = "if" -> Unresolved(s[3]) \cup Unresolved(s[4])
    [] s[1] = "while" -> Unresolved(s[3]) \ {"break"}
    [] s[1] = "repeat" -> Unresolved(s[2]) \ {"break"}
    [] s[1] = "for" -> Unresolved(s[5]) \ {"break"}
    [] OTHER -> {}
Unresolved(body) ==
  UNION {GotosOf(body[i]) : i \in 1..Len(body)}
    \ {body[i][2] : i \in {j \in 1..Len(body) : body[j][1] = "label"}}

(* A goto may not enter the scope of a local; a label that ends its block   *)
(* is outside the scope of the block's locals, but not before an until.     *)
RECURSIVE Accepts(_, _)
Inside(s) ==
  CASE s[1] = "do" -> Accepts(s[2], TRUE)
    [] s[1] = "if" -> Accepts(s[3], TRUE) /\ Accepts(s[4], TRUE)
    [] s[1] = "while" -> Accepts(s[3], TRUE)
    [] s[1] = "repeat" -> Accepts(s[2], FALSE)
    [] s[1] = "for" -> Accepts(s[5], TRUE)
    [] OTHER -> TRUE
Accepts(body, endsBlock) ==
  /\ \A i \in 1..Len(body) : Inside(body[i])
  /\ \A i, j \in 1..Len(body) :
       (i < j /\ body[j][1] = "label" /\ body[j][2] \in GotosOf(body[i])) =>
         \/ \A l \in i..j : body[l][1] # "local"
         \/ endsBlock /\ \A l \in j..Len(body) : body[l][1] = "label"

-----------------------------------------------------------------------------
(* Evaluation.  A state is [env, heap, log, fuel, out]: the variables in    *)
(* scope, the last declared last; fuel bounds the statements executed; out  *)
(* is <<"go">>, <<"goto", label>>, <<"return", values>>, <<"error">> or      *)
(* <<"diverge">>.                                                           *)

Slot(env, name) == CHOOSE i \in 1..Len(env) :
  env[i][1] = name /\ \A j \in (i + 1)..Len(env) : env[j][1] # name

RECURSIVE Eval(_, _)
FirstOf(r) == [s |-> r.s, v |-> First(r.vs)]
Value(s, x) == FirstOf(Eval(s, x))
(* An error ends the evaluation: what follows has no effects.               *)
Ended(s) == s.out # <<"go">>
Giving(s, v) ==
  IF v = Raised /\ ~ Ended(s) THEN [s |-> [s EXCEPT !.out = <<"error">>], vs |-> <<Nil>>]
  ELSE [s |-> s, vs |-> <<v>>]

Called(r) ==
  IF Ended(r.s) THEN r
  ELSE [s |-> [r.s EXCEPT !.log = Append(@, r.vs)], vs |-> Results(r.vs)]
Both(op, l, r) == Giving(r.s, IF op \in {"and", "or"} THEN r.v ELSE Binary(op, l.v, r.v))
Operation(x, l) ==                  \* the first operand is l
  CASE x[1] = "index" -> [s |-> l.s, vs |-> <<At(l.s.heap, l.v)>>]
    [] x[1] = "paren" -> [s |-> l.s, vs |-> <<l.v>>]
    [] x[1] \in {"not", "neg", "bnot", "len"} -> Giving(l.s, Unary(x[1], l.v))
    [] (x[1] = "and" /\ IsFalse(l.v)) \/ (x[1] = "or" /\ ~ IsFalse(l.v)) ->
         [s |-> l.s, vs |-> <<l.v>>]
    [] OTHER -> Both(x[1], l, Value(l.s, x[3]))

Eval(s, x) ==                       \* all the values of an expression
  CASE x[1] \in {"nil", "bool", "int", "float", "str"} -> [s |-> s, vs |-> <<x>>]
    [] x[1] = "var" -> [s |-> s, vs |-> <<s.env[Slot(s.env, x[2])][2]>>]
    [] x[1] = "call" -> Called(Eval(s, x[2]))
    [] OTHER -> Operation(x, Value(s, x[2]))

(* A list of expressions: all the values of the last, one of the others.    *)
RECURSIVE EvalList(_, _)
Prefixed(v, rest) == [s |-> rest.s, vs |-> <<v>> \o rest.vs]
EvalRest(r, xs) == Prefixed(r.v, EvalList(r.s, xs))
EvalList(s, xs) ==
  CASE xs = <<>> -> [s |-> s, vs |-> <<>>]
    [] Len(xs) = 1 -> Eval(s, xs[1])
    [] OTHER -> EvalRest(Value(s, xs[1]), Tail(xs))

Declare(s, names, vs) ==
  [s EXCEPT !.env = @ \o [i \in 1..Len(names) |-> <<names[i], Nth(vs, i)>>]]

(* The keys of the targets are evaluated first, then the values; which      *)
(* target is stored first the language leaves open: the last, as here.      *)
AssignTo(s, target, key, v) ==
  IF target[1] = "var" THEN [s EXCEPT !.env[Slot(s.env, target[2])][2] = v]
  ELSE [s EXCEPT !.heap = Put(@, key, v)]
AssignAll(targets, key, r) ==
  IF Ended(r.s) THEN r.s
  ELSE AssignTo(IF Len(targets) = 2 THEN AssignTo(r.s, targets[2], Nil, Nth(r.vs, 2)) ELSE r.s,
                targets[1], key, Nth(r.vs, 1))
AssignValuesTo(targets, key, exps) == AssignAll(targets, key.v, EvalList(key.s, exps))
Assign(s, targets, exps) ==
  AssignValuesTo(targets,
                 IF targets[1][1] = "index" THEN Value(s, targets[1][2]) ELSE [s |-> s, v |-> Nil],
                 exps)

RECURSIVE Exec(_, _)
RECURSIVE Run(_, _, _, _)
Cut(s, n) == [s EXCEPT !.env = SubSeq(@, 1, n)]
Burn(s) == [s EXCEPT !.fuel = @ - 1]
Diverged(s) == [s EXCEPT !.out = <<"diverge">>]
Scoped(s, body) == Cut(Run(s, body, 1, Len(s.env)), Len(s.env))
AfterLoop(s) == IF s.out = <<"goto", "break">> THEN [s EXCEPT !.out = <<"go">>] ELSE s

RECURSIVE While(_, _, _)
WhileAgain(once, x, body) == IF Ended(once) THEN once ELSE While(once, x, body)
WhileBody(c, x, body) ==            \* the condition is c
  CASE Ended(c.s) \/ IsFalse(c.v) -> c.s
    [] ~ Ended(c.s) /\ ~ IsFalse(c.v) /\ c.s.fuel <= 0 -> Diverged(c.s)
    [] OTHER -> WhileAgain(Scoped(Burn(c.s), body), x, body)
While(s, x, body) == WhileBody(Value(s, x), x, body)

RECURSIVE Repeat(_, _, _)
RepeatAgain(c, depth, body, x) ==
  IF IsFalse(c.v) /\ ~ Ended(c.s) THEN Repeat(Cut(c.s, depth), body, x) ELSE Cut(c.s, depth)
RepeatUntil(once, depth, body, x) ==    \* the condition sees the body's locals
  IF Ended(once) THEN Cut(once, depth) ELSE RepeatAgain(Value(once, x), depth, body, x)
Repeat(s, body, x) ==
  IF s.fuel <= 0 THEN Diverged(s)
  ELSE RepeatUntil(Run(Burn(s), body, 1, Len(s.env)), Len(s.env), body, x)

(* A numeric loop; the control variable never wraps around.                 *)
RECURSIVE For(_, _, _, _, _)
Past(v, limit, step) ==
  \/ IsInt(v) /\ v[2] \notin MinInt..MaxInt
  \/ IF Less(<<"int", 0>>, step) THEN Less(limit, v) ELSE Less(v, limit)
Successor(v, step) == IF IsInt(v) THEN <<"int", v[2] + step[2]>> ELSE FAdd(v, step)
ForAgain(once, v, limit, step, st) ==
  IF Ended(once) THEN once ELSE For(once, Successor(v, step), limit, step, st)
For(s, v, limit, step, st) ==
  CASE Past(v, limit, step) -> s
    [] ~ Past(v, limit, step) /\ s.fuel <= 0 -> Diverged(s)
    [] OTHER -> ForAgain(Cut(Scoped(Declare(Burn(s), <<st[2]>>, <<v>>), st[5]), Len(s.env)),
                         v, limit, step, st)
ForRange(s, from, limit, step, st) ==
  CASE ~ \A v \in {from, limit, step} : IsNumber(v) -> [s EXCEPT !.out = <<"error">>]
    [] Equal(step, <<"int", 0>>) -> [s EXCEPT !.out = <<"error">>]
    [] IsInt(from) /\ IsInt(step) -> For(s, from, limit, step, st)
    [] OTHER -> For(s, AsFloat(from), AsFloat(limit), AsFloat(step), st)
ForBy(from, to, by, st) ==
  IF Ended(by.s) THEN by.s ELSE ForRange(by.s, from, to.v, by.v, st)
ForTo(from, to, st) ==
  ForBy(from.v, to, IF st[6] = <<>> THEN [s |-> to.s, v |-> <<"int", 1>>] ELSE Value(to.s, st[6]), st)
ForFrom(from, st) == ForTo(from, Value(from.s, st[4]), st)

Chosen(c, st) ==
  IF Ended(c.s) THEN c.s ELSE Scoped(c.s, IF IsFalse(c.v) THEN st[4] ELSE st[3])
Returning(r) == IF Ended(r.s) THEN r.s ELSE [r.s EXCEPT !.out = <<"return", r.vs>>]
DeclareAll(r, names) == Declare(r.s, names, r.vs)

Exec(s, st) ==
  CASE st[1] = "local" -> DeclareAll(EvalList(s, st[3]), st[2])
    [] st[1] = "assign" -> Assign(s, st[2], st[3])
    [] st[1] = "call" -> Eval(s, st).s
    [] st[1] = "do" -> Scoped(s, st[2])
    [] st[1] = "if" -> Chosen(Value(s, st[2]), st)
    [] st[1] = "while" -> AfterLoop(While(s, st[2], st[3]))
    [] st[1] = "repeat" -> AfterLoop(Repeat(s, st[2], st[3]))
    [] st[1] = "for" -> AfterLoop(ForFrom(Value(s, st[3]), st))
    [] st[1] = "break" -> [s EXCEPT !.out = <<"goto", "break">>]
    [] st[1] = "goto" -> [s EXCEPT !.out = <<"goto", st[2]>>]
    [] st[1] = "label" -> s
    [] st[1] = "return" -> Returning(EvalList(s, st[2]))

(* The statements of a body from the i-th on; a goto to one of its labels   *)
(* continues there, with the variables that are in scope there.             *)
LocalsBefore(body, at) ==
  Cardinality(UNION {{j} \X (1..Len(body[j][2])) :
                       j \in {l \in 1..(at - 1) : body[l][1] = "local"}})
CutTo(s, n) == IF n < Len(s.env) THEN Cut(s, n) ELSE s
Jumped(done, body, at, depth) ==
  Run(CutTo([done EXCEPT !.out = <<"go">>], depth + LocalsBefore(body, at)), body, at, depth)
After(done, body, i, depth) ==
  LET labels == {j \in 1..Len(body) : body[j][1] = "label" /\ done.out = <<"goto", body[j][2]>>}
  IN CASE labels # {} -> Jumped(done, body, CHOOSE j \in labels : TRUE, depth)
       [] labels = {} /\ Ended(done) -> done
       [] OTHER -> Run(done, body, i + 1, depth)
Run(s, body, i, depth) ==
  CASE i > Len(body) -> s
    [] i <= Len(body) /\ s.fuel <= 0 -> Diverged(s)
    [] OTHER -> After(Exec(Burn(s), body[i]), body, i, depth)

(* What the function returns, or that it fails, the table it leaves and the *)
(* calls it makes.                                                          *)
Final(r) ==
  [out |-> IF r.out = <<"go">> THEN <<"return", <<>>>> ELSE r.out, heap |-> r.heap, log |-> r.log]
Meaning(body, args, heap, fuel) ==
  IF Unresolved(body) # {} \/ ~ Accepts(body, TRUE)
  THEN [out |-> <<"rejected">>, heap |-> heap, log |-> <<>>]
  ELSE Final(Run([env |-> <<<<"a", args[1]>>, <<"b", args[2]>>, <<"t", Table>>>>,
                    heap |-> heap, log |-> <<>>, fuel |-> fuel, out |-> <<"go">>], body, 1, 3))
=============================================================================

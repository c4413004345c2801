------------------------------ MODULE Machine -------------------------------
(***************************************************************************)
(* A compiled function at work: the part of the interpreter loop of          *)
(* execute.rs that the code of CodeGen runs on, an instruction at a time.    *)
(*                                                                         *)
(* A program is compiled, called with two arguments and a table, and what    *)
(* it returns, the table it leaves and the calls of f it makes are compared  *)
(* with what the source means (LuaSource).                                   *)
(***************************************************************************)
EXTENDS CodeGen

CONSTANTS
  Programs,     \* the functions: sequences of statements
  Inputs(_),    \* the arguments <<a, b>> a function is called with
  Fuel          \* bound on the statements a source may execute

VARIABLES
  prog,         \* the source
  input,        \* the arguments
  proto,        \* [code, size, error] the prototype, once compiled
  expected,     \* what the source means for this input
  pc, regs,     \* the next instruction, the registers
  top,          \* one past the last result of an open call, else 0
  heap,         \* contents of the table t
  log,          \* the arguments f was called with, in order
  status,       \* "source", "running", "returned", "raised" or "rejected"
  result        \* the values returned

vars == <<prog, input, proto, expected, pc, regs, top, heap, log, status, result>>

Junk == <<"junk">>                  \* what a register holds before it is set
Function == <<"function">>
Extra == 2                          \* results an open call leaves above the frame

NoProto == [code |-> <<>>, size |-> 0, error |-> FALSE]
NoMeaning == [out |-> <<"none">>, heap |-> <<>>, log |-> <<>>]
EmptyTable == [k \in Keys |-> IF k = <<"int", 1>> THEN <<"int", 2>> ELSE Nil]

Init ==
  /\ prog \in Programs /\ input \in Inputs(prog)
  /\ proto = NoProto /\ expected = NoMeaning
  /\ pc = 0 /\ regs = <<>> /\ top = 0
  /\ heap = EmptyTable /\ log = <<>>
  /\ status = "source" /\ result = <<>>

-----------------------------------------------------------------------------
(* Compiling and calling.                                                   *)

Compile ==
  /\ status = "source"
  /\ proto' = CompileFunction(prog)
  /\ expected' = Meaning(prog, input, EmptyTable, Fuel)
  /\ status' = IF proto'.error THEN "rejected" ELSE "running"
  /\ pc' = 1
  /\ regs' = [r \in 0..(proto'.size + Extra) |->
                CASE r = 0 -> input[1] [] r = 1 -> input[2] [] r = 2 -> Table [] OTHER -> Junk]
  /\ UNCHANGED <<prog, input, top, heap, log, result>>

-----------------------------------------------------------------------------
(* Instructions.                                                            *)

At_pc == proto.code[pc]
Running(ops) == status = "running" /\ pc \in 1..Len(proto.code) /\ At_pc.op \in ops

Set(r, v) == regs' = [regs EXCEPT ![r] = v]
Next1 == pc' = pc + 1
Kept == UNCHANGED <<prog, input, proto, expected, status, result>>

Load ==
  /\ Running({"MOVE", "LOADK", "LOADTRUE", "LOADFALSE", "LFALSESKIP", "GETTABUP"})
  /\ LET i == At_pc
     IN /\ Set(i.a, CASE i.op = "MOVE" -> regs[i.b]
                      [] i.op = "LOADK" -> i.b
                      [] i.op = "LOADTRUE" -> Bool(TRUE)
                      [] i.op \in {"LOADFALSE", "LFALSESKIP"} -> Bool(FALSE)
                      [] i.op = "GETTABUP" -> Function)
        /\ pc' = pc + (IF i.op = "LFALSESKIP" THEN 2 ELSE 1)
  /\ Kept /\ UNCHANGED <<top, heap, log>>

LoadNil ==
  /\ Running({"LOADNIL"})
  /\ regs' = [r \in DOMAIN regs |-> IF r \in At_pc.a..(At_pc.a + At_pc.b) THEN Nil ELSE regs[r]]
  /\ Next1
  /\ Kept /\ UNCHANGED <<top, heap, log>>

GetTable ==
  /\ Running({"GETI", "GETFIELD", "GETTABLE"})
  /\ Set(At_pc.a, At(heap, IF At_pc.op = "GETTABLE" THEN regs[At_pc.c] ELSE At_pc.c))
  /\ Next1
  /\ Kept /\ UNCHANGED <<top, heap, log>>

SetTable ==
  /\ Running({"SETI", "SETFIELD", "SETTABLE"})
  /\ heap' = Put(heap, IF At_pc.op = "SETTABLE" THEN regs[At_pc.b] ELSE At_pc.b,
                 IF At_pc.k THEN At_pc.c ELSE regs[At_pc.c])
  /\ Next1
  /\ Kept /\ UNCHANGED <<regs, top, log>>

(* The operation an instruction stands for, by its operands.                *)
Named(codes) ==
  [code \in {codes[op] : op \in DOMAIN codes} |-> CHOOSE op \in DOMAIN codes : codes[op] = code]
RegOps == Named(RegCode)
ConstOps == Named(ConstCode)
ImmOps == [ADDI |-> "add", SHLI |-> "shl", SHRI |-> "shr"]
ArithCodes == DOMAIN RegOps \cup DOMAIN ConstOps \cup DOMAIN ImmOps
UnaryCodes == {UnaryCode[op] : op \in DOMAIN UnaryCode}
MetaCodes == {"MMBIN", "MMBINI", "MMBINK"}

OperationOf(i) ==
  CASE i.op \in DOMAIN RegOps -> <<RegOps[i.op], regs[i.b], regs[i.c]>>
    [] i.op \in DOMAIN ConstOps -> <<ConstOps[i.op], regs[i.b], i.c>>
    [] i.op = "SHLI" -> <<"shl", <<"int", i.c>>, regs[i.b]>>
    [] i.op \in {"ADDI", "SHRI"} -> <<ImmOps[i.op], regs[i.b], <<"int", i.c>>>>
Operate(o) == Bin(o[1], o[2], o[3])
Computed(i) == Operate(OperationOf(i))

SetUnlessRaised(r, v) ==
  IF v = Raised THEN status' = "raised" /\ UNCHANGED <<pc, regs>>
  ELSE Set(r, v) /\ UNCHANGED status

(* An operation that is defined skips the call of the metamethod after it.  *)
Finish(v) ==
  IF v = Falls THEN Next1 /\ UNCHANGED <<regs, status>>
  ELSE SetUnlessRaised(At_pc.a, v) /\ (v # Raised => pc' = pc + 2)
Arith ==
  /\ Running(ArithCodes)
  /\ Finish(Computed(At_pc))
  /\ UNCHANGED <<prog, input, proto, expected, result, top, heap, log>>

(* The metamethod's result goes where the operation's would have gone.      *)
Fallback ==
  /\ Running(MetaCodes)
  /\ LET i == At_pc
         v == regs[i.a]
         w == CASE i.op = "MMBIN" -> regs[i.b]
                [] i.op = "MMBINI" -> <<"int", i.b>>
                [] i.op = "MMBINK" -> i.b
         u == IF i.k THEN TryBinTM(i.c, w, v) ELSE TryBinTM(i.c, v, w)
     IN SetUnlessRaised(proto.code[pc - 1].a, u) /\ (u # Raised => Next1)
  /\ UNCHANGED <<prog, input, proto, expected, result, top, heap, log>>

OneOperand ==
  /\ Running(UnaryCodes)
  /\ LET v == regs[At_pc.b]
         u == CASE At_pc.op = "NOT" -> Bool(IsFalse(v))
                [] At_pc.op = "UNM" -> UnaryMinus(v)
                [] At_pc.op = "BNOT" -> BitwiseNot(v)
                [] At_pc.op = "LEN" -> ObjLen(v)
     IN SetUnlessRaised(At_pc.a, u) /\ (u # Raised => Next1)
  /\ UNCHANGED <<prog, input, proto, expected, result, top, heap, log>>

(* The operands are consumed.                                               *)
Concat ==
  /\ Running({"CONCAT"})
  /\ LET a == At_pc.a
         n == At_pc.b
     IN regs' = [r \in DOMAIN regs |->
                   CASE r = a -> ConcatStack([i \in 1..n |-> regs[a + i - 1]])
                     [] r \in (a + 1)..(a + n - 1) -> Junk
                     [] OTHER -> regs[r]]
  /\ Next1
  /\ Kept /\ UNCHANGED <<top, heap, log>>

(* A test that comes out as its k takes the jump that follows it.           *)
Outcome(i) ==
  CASE i.op = "EQ" -> RawEqual(regs[i.a], regs[i.b])
    [] i.op = "LT" -> LessThan(regs[i.a], regs[i.b])
    [] i.op = "LE" -> LessEqual(regs[i.a], regs[i.b])
    [] i.op = "EQK" -> RawEqual(regs[i.a], i.b)
    [] i.op = "EQI" -> EqualImm(regs[i.a], i.b)
    [] i.op = "LTI" -> LessThan(regs[i.a], <<"int", i.b>>)
    [] i.op = "LEI" -> LessEqual(regs[i.a], <<"int", i.b>>)
    [] i.op = "GTI" -> LessThan(<<"int", i.b>>, regs[i.a])
    [] i.op = "GEI" -> LessEqual(<<"int", i.b>>, regs[i.a])
    [] i.op = "TEST" -> ~ IsFalse(regs[i.a])
    [] i.op = "TESTSET" -> ~ IsFalse(regs[i.b])
Branch(taken) == pc' = IF taken THEN proto.code[pc + 1].b ELSE pc + 2

Test ==
  /\ Running({"EQ", "LT", "LE", "EQK", "EQI", "LTI", "LEI", "GTI", "GEI", "TEST"})
  /\ Branch(Outcome(At_pc) = At_pc.k)
  /\ Kept /\ UNCHANGED <<regs, top, heap, log>>

TestSet ==
  /\ Running({"TESTSET"})
  /\ Branch(Outcome(At_pc) = At_pc.k)
  /\ IF Outcome(At_pc) = At_pc.k THEN Set(At_pc.a, regs[At_pc.b]) ELSE UNCHANGED regs
  /\ Kept /\ UNCHANGED <<top, heap, log>>

Jmp ==
  /\ Running({"JMP"})
  /\ pc' = At_pc.b
  /\ Kept /\ UNCHANGED <<regs, top, heap, log>>

(* The values from register r on: up to top, or a number known in the code. *)
From(r, b) ==
  LET n == IF b = 0 THEN top - r ELSE b - 1
  IN [i \in 1..n |-> regs[r + i - 1]]

(* The callee's frame overwrites what is above the results.                 *)
Call ==
  /\ Running({"CALL"})
  /\ LET i == At_pc
         args == From(i.a + 1, i.b)
         vs == Results(args)
         n == IF i.c = 0 THEN Len(vs) ELSE i.c - 1
     IN /\ regs' = [r \in DOMAIN regs |->
                      CASE r < i.a -> regs[r]
                        [] r \in i.a..(i.a + n - 1) -> Nth(vs, r - i.a + 1)
                        [] OTHER -> Junk]
        /\ top' = IF i.c = 0 THEN i.a + n ELSE 0
        /\ log' = Append(log, args)
  /\ Next1
  /\ Kept /\ UNCHANGED heap

TailCall ==
  /\ Running({"TAILCALL"})
  /\ LET args == From(At_pc.a + 1, At_pc.b)
     IN log' = Append(log, args) /\ result' = Results(args)
  /\ status' = "returned"
  /\ UNCHANGED <<prog, input, proto, expected, pc, regs, top, heap>>

Return ==
  /\ Running({"RETURN"})
  /\ result' = From(At_pc.a, At_pc.b)
  /\ status' = "returned"
  /\ UNCHANGED <<prog, input, proto, expected, pc, regs, top, heap, log>>

(* The integer a loop of integers runs up or down to, if it runs at all.    *)
ForLimit(lim, step) ==
  LET rounded == ToIntegers(lim, IF step < 0 THEN "ceil" ELSE "floor")
      above == FLess(Zero, AsFloat(lim))
  IN IF rounded # {} THEN rounded
     ELSE IF above = (step < 0) THEN {} ELSE {IF above THEN MaxInt ELSE MinInt}

(* What a loop keeps, <<>> when it is skipped.  A loop of integers counts    *)
(* its iterations beforehand, so that the index need not pass the limit.    *)
Iterations(init, to, step) ==
  IF step > 0 THEN Unsigned(to - init) \div step ELSE Unsigned(init - to) \div (-(step + 1) + 1)
IntegersTo(limit, init, step) ==
  IF \A to \in limit : IF step > 0 THEN init > to ELSE init < to THEN <<>>
  ELSE <<Integer(Iterations(init, CHOOSE n \in limit : TRUE, step)), <<"int", step>>, <<"int", init>>>>
IntegerLoop(init, lim, step) ==
  IF step = 0 \/ ~ IsNumber(lim) THEN Raised ELSE IntegersTo(ForLimit(lim, step), init, step)
FloatLoop(init, limit, step) ==
  CASE step = Zero -> Raised
    [] step # Zero /\ (IF FLess(Zero, step) THEN FLess(limit, init) ELSE FLess(init, limit)) -> <<>>
    [] OTHER -> <<limit, step, init>>
Loop(init, limit, step) ==
  CASE IsInt(init) /\ IsInt(step) -> IntegerLoop(init[2], limit, step[2])
    [] ~ \A v \in {init, limit, step} : IsNumber(v) -> Raised
    [] OTHER -> FloatLoop(AsFloat(init), AsFloat(limit), AsFloat(step))

Enter(kept, a) ==
  CASE kept = Raised -> status' = "raised" /\ UNCHANGED <<pc, regs>>
    [] kept = <<>> -> pc' = At_pc.b + 1 /\ UNCHANGED <<regs, status>>
    [] OTHER -> /\ regs' = [r \in DOMAIN regs |->
                              IF r \in a..(a + 2) THEN kept[r - a + 1] ELSE regs[r]]
                /\ Next1 /\ UNCHANGED status
ForPrep ==
  /\ Running({"FORPREP"})
  /\ Enter(Loop(regs[At_pc.a], regs[At_pc.a + 1], regs[At_pc.a + 2]), At_pc.a)
  /\ UNCHANGED <<prog, input, proto, expected, result, top, heap, log>>

ForLoop ==
  /\ Running({"FORLOOP"})
  /\ LET a == At_pc.a
         step == regs[a + 1]
         integers == IsInt(step)
         index == IF integers THEN Integer(regs[a + 2][2] + step[2]) ELSE FAdd(regs[a + 2], step)
         again == IF integers THEN Unsigned(regs[a][2]) > 0
                  ELSE IF FLess(Zero, step) THEN FLessEq(index, regs[a]) ELSE FLessEq(regs[a], index)
     IN IF again
        THEN /\ regs' = [regs EXCEPT ![a] = IF integers THEN Integer(Unsigned(@[2]) - 1) ELSE @,
                                     ![a + 2] = index]
             /\ pc' = At_pc.b
        ELSE UNCHANGED regs /\ Next1
  /\ Kept /\ UNCHANGED <<top, heap, log>>

Stopped == status \in {"returned", "raised", "rejected"} /\ UNCHANGED vars

Step == Load \/ LoadNil \/ GetTable \/ SetTable \/ Arith \/ Fallback \/ OneOperand \/ Concat
          \/ Test \/ TestSet \/ Jmp \/ Call \/ TailCall \/ Return \/ ForPrep \/ ForLoop
Next == Compile \/ Step \/ Stopped

Spec == Init /\ [][Next]_vars /\ WF_vars(Step)

-----------------------------------------------------------------------------
(* Properties.                                                              *)

(* The registers the instruction at pc reads, and those it names.           *)
Reads ==
  LET i == At_pc
      Open(r, b) == r..(IF b = 0 THEN top - 1 ELSE r + b - 2)
  IN CASE i.op \in {"MOVE", "TESTSET"} \cup UnaryCodes \cup DOMAIN ConstOps \cup DOMAIN ImmOps ->
            {i.b}
       [] i.op \in {"GETI", "GETFIELD"} -> {i.b}
       [] i.op = "GETTABLE" -> {i.b, i.c}
       [] i.op \in {"SETI", "SETFIELD", "SETTABLE"} ->
            {i.a} \cup (IF i.k THEN {} ELSE {i.c}) \cup (IF i.op = "SETTABLE" THEN {i.b} ELSE {})
       [] i.op \in DOMAIN RegOps -> {i.b, i.c}
       [] i.op \in {"EQ", "LT", "LE", "MMBIN"} -> {i.a, i.b}
       [] i.op \in {"EQK", "EQI", "LTI", "LEI", "GTI", "GEI", "TEST", "MMBINI", "MMBINK"} -> {i.a}
       [] i.op = "CONCAT" -> i.a..(i.a + i.b - 1)
       [] i.op \in {"CALL", "TAILCALL"} -> {i.a} \cup Open(i.a + 1, i.b)
       [] i.op = "RETURN" -> Open(i.a, i.b)
       [] i.op \in {"FORPREP", "FORLOOP"} -> {i.a, i.a + 1, i.a + 2}
       [] OTHER -> {}
Writes ==
  CASE At_pc.op \in {"MOVE", "LOADK", "LOADTRUE", "LOADFALSE", "LFALSESKIP", "GETTABUP", "GETI",
                     "GETFIELD", "GETTABLE", "CONCAT"} \cup ArithCodes \cup UnaryCodes -> {At_pc.a}
    [] At_pc.op \in MetaCodes -> {proto.code[pc - 1].a}
    [] At_pc.op = "LOADNIL" -> {At_pc.a, At_pc.a + At_pc.b}
    [] OTHER -> {}

(* The parts of the state have their shapes and execution never leaves the  *)
(* code (every function ends in a return).                                  *)
TypeOK ==
  /\ status \in {"source", "running", "returned", "raised", "rejected"}
  /\ status = "running" => pc \in 1..Len(proto.code) /\ DOMAIN regs = 0..(proto.size + Extra)
  /\ DOMAIN heap = Keys
  /\ top \in 0..(proto.size + Extra)

(* A compiled function returns what its source means or fails when its       *)
(* source does, leaves the table the source leaves and calls f with the same *)
(* arguments in the same order; and exactly the functions the language       *)
(* rejects are rejected.                                                    *)
ReturnsWhatSourceSays ==
  /\ status = "returned" =>
       expected = [out |-> <<"return", result>>, heap |-> heap, log |-> log]
  /\ status = "raised" => expected = [out |-> <<"error">>, heap |-> heap, log |-> log]
  /\ status # "source" => ((status = "rejected") <=> (expected.out = <<"rejected">>))

(* An instruction reads registers that hold a value computed since the call *)
(* and names only registers of its frame, whose size is fixed at compile     *)
(* time (maxstacksize); the results of an open call may lie above it.        *)
OperandsReady ==
  status = "running" =>
    /\ \A r \in Reads : r \in DOMAIN regs /\ regs[r] # Junk
    /\ Writes \subseteq 0..(proto.size - 1)
    /\ (top = 0 => Reads \subseteq 0..(proto.size - 1))

(* A function whose source terminates returns or fails: no jump is left      *)
(* unresolved, pointing at itself, and no loop is closed around the wrong    *)
(* place.                                                                   *)
Halts ==
  (status = "running" /\ expected.out[1] \in {"return", "error"}) ~> (status \in {"returned", "raised"})
=============================================================================

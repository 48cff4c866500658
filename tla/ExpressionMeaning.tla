------------------------- MODULE ExpressionMeaning --------------------------
(***************************************************************************)
(* What an expression of whole numbers means, and what the code made of it *)
(* does: its value, the calls it makes and their order.                    *)
(***************************************************************************)
EXTENDS ExpressionCompiler, Bitwise

CONSTANTS
  GlobalVariables, (* the variables a call changes                         *)
  Samples          (* values for the variables                             *)
ASSUME MeaningAssumption == GlobalVariables \subseteq Variables

(* A machine: the bits of the variables and the temporary locals, and the  *)
(* calls made so far.  A trap ends the program.                            *)
Machine(variables) == [at |-> variables, temps |-> <<>>, calls |-> <<>>, trapped |-> FALSE]
Yields(v, machine) == [value |-> v, machine |-> machine]
Trap(machine) == Yields(0, [machine EXCEPT !.trapped = TRUE])
Wraps(w, v) == v % (2 ^ Bits[w])
SignedValue(w, bits) == IF bits >= 2 ^ (Bits[w] - 1) THEN bits - 2 ^ Bits[w] ELSE bits
IsSigned(t) == t \in {"I32", "I64"}
ValueOf(t, bits) == IF IsSigned(t) THEN SignedValue(underlyingType(t), bits) ELSE bits

(* A call is told apart by its arguments; it adds one to the globals and   *)
(* returns how many calls there have been.                                 *)
Called(machine, f, arguments) ==
  IF machine.trapped THEN machine
  ELSE [machine EXCEPT
          !.at = [x \in DOMAIN @ |->
            IF x \in GlobalVariables THEN Wraps(underlyingType(VariableType[x]), @[x] + 1) ELSE @[x]],
          !.calls = Append(@, <<f, arguments>>)]
Returned(machine, f) ==
  IF ReturnType[f] = "None" THEN 0
  ELSE Wraps(underlyingType(ReturnType[f]), Len(machine.calls))

-----------------------------------------------------------------------------
(* Whole numbers, as the type of the operation has them.                   *)

Truth(b) == IF b THEN 1 ELSE 0
Abs(v) == IF v < 0 THEN -v ELSE v
Truncated(a, b) == IF (a < 0) = (b < 0) THEN Abs(a) \div Abs(b) ELSE -(Abs(a) \div Abs(b))
Meant(t, op, a, b) ==
  LET w == underlyingType(t)
      shift == b % Bits[w]
      bits(v) == Wraps(w, v)
  IN  CASE op = "ADD" -> a + b
        [] op = "SUB" -> a - b
        [] op = "MUL" -> a * b
        [] op = "DIV" -> Truncated(a, b)
        [] op = "MOD" -> a - b * Truncated(a, b)
        [] op = "LEFT_SHIFT" -> a * 2 ^ shift
        [] op = "RIGHT_SHIFT" -> a \div 2 ^ shift
        [] op = "LESS_THAN" -> Truth(a < b)
        [] op = "GREATER_THAN" -> Truth(a > b)
        [] op = "NO_LESS_THAN" -> Truth(a >= b)
        [] op = "NO_GREATER_THAN" -> Truth(a <= b)
        [] op = "EQUAL" -> Truth(a = b)
        [] op = "NOT_EQUAL" -> Truth(a # b)
        [] op = "AND" -> bits(a) & bits(b)
        [] op = "OR" -> bits(a) | bits(b)
        [] op = "XOR" -> bits(a) ^^ bits(b)
(* A division has no value by zero, nor when the quotient is no number of  *)
(* the type.                                                               *)
Undefined(t, op, a, b) ==
  /\ op \in {"DIV", "MOD"}
  /\ \/ b = 0
     \/ op = "DIV" /\ IsSigned(t) /\ Truncated(a, b) = 2 ^ (Bits[underlyingType(t)] - 1)

(* The meaning of e as a value of type t: its parts from left to right, of *)
(* && and || the right one only when the left does not decide.             *)
RECURSIVE Meaning(_, _, _), MeaningOfAll(_, _, _)
MeaningOfAll(es, ts, m) ==
  IF es = <<>> THEN Yields(<<>>, m)
  ELSE LET before == MeaningOfAll(Front(es), Front(ts), m)
           last == Meaning(Last(es), Last(ts), before.machine)
       IN  Yields(Append(before.value, Wraps(underlyingType(Last(ts)), last.value)), last.machine)
Meaning(e, t, m) ==
  LET is(kind) == e[1] = kind
      op == e[2]
      number(v, machine) ==
        IF t = "None" THEN Yields(0, machine)
        ELSE Yields(ValueOf(t, Wraps(underlyingType(t), v)), machine)
      x == Meaning(e[3], t, m)
      y == Meaning(e[4], t, x.machine)
      test == Meaning(e[3], op, m)
      arguments == MeaningOfAll(e[3], ArgumentTypes[op], m)
      after == Called(arguments.machine, op, arguments.value)
  IN  CASE m.trapped -> Trap(m)
        [] is("literal") -> number(e[2], m)
        [] is("variable") -> number(m.at[e[2]], m)
        [] is("prefix") /\ op = "ADD" -> x
        [] is("prefix") /\ op = "SUB" -> number(-x.value, x.machine)
        [] is("prefix") /\ op = "NOT" -> number(Truth(x.value = 0), x.machine)
        [] is("binary") /\ op \in Logic -> IF (x.value = 0) = (op = "LOGIC_AND") THEN x ELSE y
        [] is("binary") /\ op \notin Logic ->
             IF Undefined(t, op, x.value, y.value) THEN Trap(y.machine)
             ELSE number(Meant(t, op, x.value, y.value), y.machine)
        [] is("ternary") -> Meaning(IF test.value # 0 THEN e[4] ELSE e[5], t, test.machine)
        [] is("call") -> number(Returned(after, op), after)

-----------------------------------------------------------------------------
(* The wasm machine works on bits.                                         *)

Performed(instruction, l, r) ==
  LET w == instruction.on
      t == IF w = "i32" THEN (IF instruction.signed THEN "I32" ELSE "U32")
           ELSE (IF instruction.signed THEN "I64" ELSE "U64")
      a == ValueOf(t, l.value)
      b == ValueOf(t, r.value)
  IN  IF Undefined(t, instruction.do, a, b) THEN Trap(r.machine)
      ELSE Yields(Wraps(w, Meant(t, instruction.do, a, b)), r.machine)
Set(locals, i, v) ==
  [k \in 1..(IF i > Len(locals) THEN i ELSE Len(locals)) |->
     IF k = i THEN v ELSE IF k \in DOMAIN locals THEN locals[k] ELSE 0]

RECURSIVE Executed(_, _), ExecutedAll(_, _)
ExecutedAll(codes, m) ==
  IF codes = <<>> THEN Yields(<<>>, m)
  ELSE LET before == ExecutedAll(Front(codes), m)
           last == Executed(Last(codes), before.machine)
       IN  Yields(Append(before.value, last.value), last.machine)
Executed(code, m) ==
  LET is(kind) == code[1] = kind
      x == Executed(code[3], m)
      test == Executed(code[2], m)
      arguments == ExecutedAll(code[3], m)
      after == Called(arguments.machine, code[2], arguments.value)
  IN  CASE m.trapped -> Trap(m)
        [] is("const") -> Yields(code[3], m)
        [] is("get") -> Yields(m.at[code[2]], m)
        [] is("local") -> Yields(m.temps[code[2]], m)
        [] is("unary") -> Yields(Truth(x.value = 0), x.machine)
        [] is("tee") -> Yields(x.value, [x.machine EXCEPT !.temps = Set(@, code[2], x.value)])
        [] is("binary") -> Performed(code[2], x, Executed(code[4], x.machine))
        [] is("if") -> Executed(IF test.value # 0 THEN code[3] ELSE code[4], test.machine)
        [] is("call") -> Yields(Returned(after, code[2]), after)

-----------------------------------------------------------------------------
Outcome(evaluated, t) ==
  IF evaluated.machine.trapped THEN [trapped |-> TRUE, calls |-> evaluated.machine.calls]
  ELSE [trapped |-> FALSE, calls |-> evaluated.machine.calls, at |-> evaluated.machine.at,
        value |-> IF t = "None" THEN 0 ELSE Wraps(underlyingType(t), evaluated.value)]

(* The code of an expression has the value the expression has, traps where *)
(* it has none, and makes the same calls in the same order: with shared    *)
(* temporaries, short circuits and the signs of the instructions in        *)
(* between (handleBinaryOp, handlePrefixOp, compileTernaryExpression).     *)
WholeNumbers == types[Root].resolved \notin Floats
MatchesMeaning ==
  status = "valid" /\ causes = {} /\ WholeNumbers =>
    \A variables \in Samples :
      LET t == types[Root].resolved
      IN  Outcome(Executed(result[1].code, Machine(variables)), t)
            = Outcome(Meaning(result[1].expr, t, Machine(variables)), t)
=============================================================================

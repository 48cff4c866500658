------------------------- MODULE ExpressionCompiler -------------------------
(***************************************************************************)
(* compileExpression (src/compiler.cpp): an expression is compiled from    *)
(* the outside in, each part against the type that is expected of it.  The *)
(* expected type is an object the parts share; where nothing is known of   *)
(* it, the first part that has a type decides, and a later one may decide  *)
(* again.  Which expression it is unfolds while it is compiled.            *)
(*                                                                         *)
(* Calls of more than one wasm value are the business of module Calls.     *)
(***************************************************************************)
EXTENDS ExpressionTypes, Sequences, SequencesExt

CONSTANTS
  Variables,     (* the variables in scope                                 *)
  VariableType,  (* their types                                            *)
  MemberPaths,   (* members of variables                                   *)
  MemberType,    (* their types                                            *)
  Callees,       (* the functions in scope                                 *)
  ArgumentTypes, (* their signatures                                       *)
  ReturnType,
  Literals,      (* integers written in the program                        *)
  BinaryOps,     (* the operators the program uses                         *)
  PrefixOps,
  Uses,          (* what the value may be used for                         *)
  MaxNodes       (* bounds the nodes of the expression                     *)

ValueTypes == Numbers \cup Objects
Use ==
  [is: {"statement", "condition"}] \cup [is: {"typed", "inferred"}, type: ValueTypes]

ASSUME ScopeAssumption ==
  /\ VariableType \in [Variables -> ValueTypes]
  /\ MemberType \in [MemberPaths -> ValueTypes]
  /\ ArgumentTypes \in [Callees -> Seq(ValueTypes)]
  /\ ReturnType \in [Callees -> ValueTypes \cup {"None"}]
ASSUME ProgramAssumption ==
  /\ Literals \subseteq Nat
  /\ BinaryOps \subseteq BinaryOp
  /\ PrefixOps \subseteq PrefixOp
  /\ Uses \subseteq Use
  /\ MaxNodes \in Nat \ {0}

VARIABLES
  use,     (* what becomes of the value                                    *)
  leftToRight, (* whether the build evaluates the arguments of a C++ call  *)
           (* from left to right: the standard leaves it open              *)
  types,   (* the VariantType objects, the one for the whole value first   *)
  frames,  (* the calls of compileExpression under way, innermost last     *)
  result,  (* the code of the whole expression, once there is some         *)
  temps,   (* the types of the temporary locals                            *)
  causes,  (* history: what was compiled though its type is another        *)
  room,    (* the nodes that may still be added                            *)
  status   (* "compiling", "valid" or "invalid", or the error              *)
input == <<use, leftToRight>>
vars == <<input, types, frames, result, temps, causes, room, status>>

-----------------------------------------------------------------------------
(* An expression reference of Binaryen: the code, its type, and whether    *)
(* the validator accepts it; `expr` is the source.                         *)
Ref(expr, code, type, valid) == [expr |-> expr, code |-> code, type |-> type, valid |-> valid]

BinaryenUnary(instruction, type, x) ==
  [code |-> <<"unary", instruction, x.code>>, type |-> type,
   valid |-> x.valid /\ x.type = instruction.on]
BinaryenBinary(instruction, l, r) ==
  [code |-> <<"binary", instruction, l.code, r.code>>,
   type |-> IF instruction.do \in Comparisons THEN "i32" ELSE instruction.on,
   valid |-> l.valid /\ r.valid /\ l.type = instruction.on /\ r.type = instruction.on]
BinaryenIf(c, l, r) ==
  [code |-> <<"if", c.code, l.code, r.code>>,
   type |-> IF l.type = r.type THEN l.type ELSE Nothing,
   valid |-> c.valid /\ l.valid /\ r.valid /\ c.type = "i32" /\ l.type = r.type]
BinaryenConst(w, code) == [code |-> code, type |-> w, valid |-> TRUE]
BinaryenLocalTee(index, x, w) ==
  [code |-> <<"tee", index, x.code>>, type |-> w, valid |-> x.valid /\ x.type = w]
BinaryenLocalGet(index, w) == [code |-> <<"local", index>>, type |-> w, valid |-> TRUE]

-----------------------------------------------------------------------------
(* The frame on top waits for the code of its next operand, or has them    *)
(* all.  It knows the type object each of them is compiled against.        *)
top == Last(frames)
Root == 1
Awaiting ==
  /\ status = "compiling"
  /\ IF frames = <<>> THEN result = <<>> ELSE Len(top.done) < Len(top.operands)
expected == IF frames = <<>> THEN Root ELSE top.operands[Len(top.done) + 1]
Complete(node) ==
  /\ status = "compiling" /\ frames # <<>>
  /\ top.node = node /\ Len(top.done) = Len(top.operands)

(* A let without a type takes it from the leftmost part of its initializer *)
(* before that is compiled: it is guessed, and the leftmost part fits it.  *)
(* The left arm of a ternary is the second to be compiled in either order. *)
leads(f) == Len(f.done) = (CASE f.node \in {"prefix", "binary"} -> 0 [] f.node = "ternary" -> 1
                             [] f.node = "call" -> -1)
Leftmost == use.is = "inferred" /\ \A i \in DOMAIN frames : leads(frames[i])
resolveTypeExpression(t) == Leftmost => t = use.type

(* compileExpression returns to the frame that asked.                      *)
Return(stack, ref) ==
  IF stack = <<>>
    THEN frames' = stack /\ result' = <<ref>>
    ELSE frames' = [stack EXCEPT ![Len(stack)].done = Append(@, ref)] /\ UNCHANGED result
Fail(error) ==
  /\ status' = error
  /\ UNCHANGED <<input, types, frames, result, temps, causes, room>>

(* What it means that a part of type t was accepted for the object o.      *)
Mismatch(o, t) ==
  IF Pending(o)
    THEN CASE o.resolved \in {Unresolved, t} -> {}
           [] o.resolved \notin {Unresolved, t} ->
                {IF underlyingType(o.resolved) = underlyingType(t) THEN "reinterpreted" ELSE "revised"}
    ELSE {c \in {"class"} : {o.kind, t} \subseteq Objects /\ underlyingType(o.kind) # underlyingType(t)}
Accept(t) ==
  /\ types' = [types EXCEPT ![expected] = tryResolveTo(@, t)]
  /\ causes' = causes \cup Mismatch(types[expected], t)

-----------------------------------------------------------------------------
(* compileIdentifier.                                                      *)

CompileInteger ==
  /\ Awaiting
  /\ resolveTypeExpression("I32")
  /\ LET o == resolveByDefault(types[expected], "I32")
     IN  \/ /\ o.resolved = "None"
            /\ Fail("not support")
         \/ /\ o.resolved # "None"
            /\ types' = [types EXCEPT ![expected] = o]
            /\ \E v \in Literals :
                 Return(frames,
                   Ref(<<"literal", v>>, underlyingConst(o.resolved, v), underlyingType(o.resolved), TRUE))
            /\ UNCHANGED <<input, temps, causes, room, status>>

(* A condition does not take the type of a float, which is found out when  *)
(* the constant is made.                                                   *)
CompileFloat ==
  /\ Awaiting
  /\ resolveTypeExpression("F32")
  /\ LET o == IF Pending(types[expected]) THEN resolveByDefault(types[expected], "F32")
              ELSE types[expected]
         taken == isResolved(o) /\ underlyingType(o.resolved) \in {"f32", "f64"}
     IN  \/ ~isResolved(o) /\ Fail("unresolved type")
         \/ isResolved(o) /\ underlyingType(o.resolved) \in {"i32", "i64"} /\ Fail("TypeConvertError")
         \/ o.resolved = "None" /\ Fail("not support")
         \/ /\ taken
            /\ types' = [types EXCEPT ![expected] = o]
            /\ Return(frames, Ref(<<"float">>, <<"const", underlyingType(o.resolved), "float">>,
                                  underlyingType(o.resolved), TRUE))
            /\ UNCHANGED <<input, temps, causes, room, status>>

CompileVariable(x) ==
  LET t == VariableType[x]
  IN  /\ Awaiting
      /\ resolveTypeExpression(t)
      /\ \/ ~Accepts(types[expected], t) /\ Fail("TypeConvertError")
         \/ /\ Accepts(types[expected], t)
            /\ Accept(t)
            /\ Return(frames, Ref(<<"variable", x>>, <<"get", x>>, underlyingType(t), TRUE))
            /\ UNCHANGED <<input, temps, room, status>>

(* The name of a function is not a value.                                  *)
CompileFunctionName ==
  /\ Awaiting
  /\ Callees # {}
  /\ Fail(IF types[expected].kind = "Auto" \/ Leftmost THEN "not support" ELSE "TypeConvertError")

(* compileMemberExpression does not look at the expected type.             *)
CompileMember(m) ==
  LET t == MemberType[m]
      o == types[expected]
  IN  /\ Awaiting
      /\ resolveTypeExpression(t)
      /\ causes' = causes \cup
           (IF isResolved(o) /\ underlyingType(o.resolved) = underlyingType(t) THEN {} ELSE {"unchecked"})
      /\ Return(frames, Ref(<<"member", m>>, <<"get", m>>, underlyingType(t), TRUE))
      /\ UNCHANGED <<input, types, temps, room, status>>

-----------------------------------------------------------------------------
(* The other expressions open a frame.                                     *)

Open(node, op, operands) ==
  /\ room >= Len(operands)
  /\ room' = room - Len(operands)
  /\ frames' = Append(frames,
       [node |-> node, op |-> op, expected |-> expected, operands |-> operands, done |-> <<>>])
  /\ UNCHANGED <<input, result, temps, status>>

CompilePrefix ==
  /\ Awaiting
  /\ \E op \in PrefixOps : Open("prefix", op, <<expected>>)
  /\ UNCHANGED <<types, causes>>
CompileBinary ==
  /\ Awaiting
  /\ \E op \in BinaryOps : Open("binary", op, <<expected, expected>>)
  /\ UNCHANGED <<types, causes>>

(* The three parts are compiled as arguments of one C++ call.              *)
CompileTernary ==
  LET condition == Len(types) + 1
  IN  /\ Awaiting
      /\ types' = Append(types, TypeCondition)
      /\ Open("ternary", "?", IF leftToRight THEN <<condition, expected, expected>>
                                             ELSE <<expected, expected, condition>>)
      /\ UNCHANGED causes

(* checkArgumentAndReturnType comes before the arguments.                  *)
CompileCall(f) ==
  LET arguments == ArgumentTypes[f]
      t == ReturnType[f]
  IN  /\ Awaiting
      /\ resolveTypeExpression(t)
      /\ \/ Fail("ArgumentCountError")
         \/ ~Accepts(types[expected], t) /\ Fail("TypeConvertError")
         \/ /\ Accepts(types[expected], t)
            /\ types' = [types EXCEPT ![expected] = tryResolveTo(@, t)]
                          \o [i \in DOMAIN arguments |-> Fixed(arguments[i])]
            /\ causes' = causes \cup Mismatch(types[expected], t)
            /\ Open("call", f, [i \in DOMAIN arguments |-> Len(types) + i])

-----------------------------------------------------------------------------
(* A frame whose operands are compiled returns.                            *)

Close(ref, newCauses) ==
  /\ Return(Front(frames), ref)
  /\ causes' = causes \cup newCauses
  /\ UNCHANGED <<input, types, room, status>>
resolvedType == types[top.expected].resolved

(* handlePrefixOp.  `not` leaves an i32, whatever it is applied to.        *)
Zero(t) == BinaryenConst(underlyingType(t),
             IF t \in Floats THEN <<"const", underlyingType(t), 0>> ELSE underlyingConst(t, 0))
SubtractZero(t, op, x) ==                                           \* mutant
  IF op = "SUB" THEN BinaryenBinary(Instruction(t, "SUB"), x, Zero(t)) ELSE x
handlePrefixOp(t, op, x) ==
  CASE op = "ADD" -> x
    [] op = "SUB" -> BinaryenBinary(Instruction(t, "SUB"), Zero(t), x)
    [] op = "NOT" -> BinaryenUnary(Instruction(t, "EQZ"), "i32", x)
ClosePrefix ==
  /\ Complete("prefix")
  /\ \/ resolvedType = Unresolved /\ Fail("unresolved type")
     \/ /\ resolvedType # Unresolved /\ ~HasPrefixOp(resolvedType, top.op)
        /\ Fail(OperatorError(resolvedType))
     \/ /\ resolvedType # Unresolved /\ HasPrefixOp(resolvedType, top.op)
        /\ LET x == top.done[1]
               code == handlePrefixOp(resolvedType, top.op, x)
           IN  Close(Ref(<<"prefix", top.op, x.expr>>, code.code, code.type, code.valid),
                     IF top.op = "NOT" /\ underlyingType(resolvedType) # "i32" THEN {"flag"} ELSE {})
        /\ UNCHANGED temps

(* handleBinaryOp.  && and || keep the left value in a local of their own, *)
(* and use it both as the condition and as the value.                      *)
LogicValueTwice(t, op, temp, l, r) ==                               \* mutant
  IF op = "LOGIC_AND" THEN BinaryenIf(l, r, l) ELSE BinaryenIf(l, l, r)
LogicValue(t, op, temp, l, r) ==
  LET w == underlyingType(t)
      condition == BinaryenLocalTee(temp, l, w)
      left == BinaryenLocalGet(temp, w)
  IN  IF op = "LOGIC_AND" THEN BinaryenIf(condition, r, left) ELSE BinaryenIf(condition, left, r)
handleBinaryOp(t, op, temp, l, r) ==
  IF op \in Logic THEN LogicValue(t, op, temp, l, r) ELSE BinaryenBinary(Instruction(t, op), l, r)
CloseBinary ==
  /\ Complete("binary")
  /\ \/ resolvedType = Unresolved /\ Fail("unresolved type")
     \/ /\ resolvedType # Unresolved /\ ~HasBinaryOp(resolvedType, top.op)
        /\ Fail(OperatorError(resolvedType))
     \/ /\ resolvedType # Unresolved /\ HasBinaryOp(resolvedType, top.op)
        /\ temps' = IF top.op \in Logic THEN Append(temps, resolvedType) ELSE temps
        /\ LET l == top.done[1]
               r == top.done[2]
               code == handleBinaryOp(resolvedType, top.op, Len(temps) + 1, l, r)
           IN  Close(Ref(<<"binary", top.op, l.expr, r.expr>>, code.code, code.type, code.valid),
                 IF underlyingType(resolvedType) = "i32" THEN {}
                 ELSE IF top.op \in Comparisons THEN {"flag"}
                 ELSE IF top.op \in Logic THEN {"condition"} ELSE {})

CloseTernary ==
  /\ Complete("ternary")
  /\ LET parts == IF leftToRight THEN top.done ELSE Reverse(top.done)
         code == BinaryenIf(parts[1], parts[2], parts[3])
         condition == types[top.operands[IF leftToRight THEN 1 ELSE 3]].resolved
     IN  Close(Ref(<<"ternary", condition, parts[1].expr, parts[2].expr, parts[3].expr>>,
                   code.code, code.type, code.valid),
               IF parts[1].type = "i32" THEN {} ELSE {"condition"})
  /\ UNCHANGED temps

CloseCall ==
  /\ Complete("call")
  /\ LET f == top.op
         operands == top.done
         exprs == [i \in DOMAIN operands |-> operands[i].expr]
         codes == [i \in DOMAIN operands |-> operands[i].code]
     IN  Close(Ref(<<"call", f, exprs>>, <<"call", f, codes>>, underlyingType(ReturnType[f]),
                   \A i \in DOMAIN operands :
                     operands[i].valid /\ operands[i].type = underlyingType(ArgumentTypes[f][i])),
               {})
  /\ UNCHANGED temps

-----------------------------------------------------------------------------
(* The value is dropped, tested or stored.                                 *)
Consumed(ref) ==
  CASE use.is = "statement" -> (types[Root].resolved = "None") = (ref.type = Nothing)
    [] use.is = "condition" -> ref.type = "i32"
    [] use.is \in {"typed", "inferred"} -> ref.type = underlyingType(use.type)
Consume ==
  /\ status = "compiling" /\ result # <<>>
  /\ \/ use.is = "statement" /\ ~isResolved(types[Root]) /\ Fail("unresolved type")
     \/ /\ use.is = "statement" => isResolved(types[Root])
        /\ status' = IF result[1].valid /\ Consumed(result[1]) THEN "valid" ELSE "invalid"
        /\ causes' = causes \cup
             (IF use.is = "condition" /\ result[1].type # "i32" THEN {"condition"} ELSE {})
        /\ UNCHANGED <<input, types, frames, result, temps, room>>

Init ==
  /\ use \in Uses
  /\ leftToRight \in BOOLEAN
  /\ types = << CASE use.is = "statement" -> TypeAuto
                  [] use.is = "condition" -> TypeCondition
                  [] use.is \in {"typed", "inferred"} -> Fixed(use.type) >>
  /\ frames = <<>>
  /\ result = <<>>
  /\ temps = <<>>
  /\ causes = {}
  /\ room = MaxNodes - 1
  /\ status = "compiling"
Next ==
  \/ CompileInteger \/ CompileFloat \/ CompileFunctionName
  \/ \E x \in Variables : CompileVariable(x)
  \/ \E m \in MemberPaths : CompileMember(m)
  \/ CompilePrefix \/ CompileBinary \/ CompileTernary
  \/ \E f \in Callees : CompileCall(f)
  \/ ClosePrefix \/ CloseBinary \/ CloseTernary \/ CloseCall
  \/ Consume
Spec == Init /\ [][Next]_vars

-----------------------------------------------------------------------------
Errors ==
  {"TypeConvertError", "InvalidOperator", "ArgumentCountError", "not support", "unresolved type"}
TypeOK ==
  /\ use \in Uses
  /\ leftToRight \in BOOLEAN
  /\ types \in Seq(TypeObject) /\ types # <<>>
  /\ \A i \in DOMAIN frames :
       /\ frames[i].node \in {"prefix", "binary", "ternary", "call"}
       /\ frames[i].expected \in DOMAIN types
       /\ \A k \in DOMAIN frames[i].operands : frames[i].operands[k] \in DOMAIN types
       /\ Len(frames[i].done) <= Len(frames[i].operands)
  /\ temps \in Seq(Types)
  /\ causes \subseteq {"reinterpreted", "revised", "class", "unchecked", "flag", "condition"}
  /\ room \in 0..MaxNodes
  /\ status \in {"compiling", "valid", "invalid"} \cup Errors

(* An expression that is accepted gives a module that validates, unless    *)
(* its type was decided anew after a part had been compiled for another,   *)
(* or a comparison or `not` of 64 bits or of floats gave an i32, or a      *)
(* value of 64 bits was tested, or a member was taken for something else,  *)
(* or an object for one of another class (VariantType::tryResolveTo,       *)
(* handleBinaryOp, compileMemberExpression).                               *)
Excuses == {"revised", "flag", "condition", "unchecked", "class"}
ValidUnlessExcused == status = "invalid" => causes \cap Excuses # {}
=============================================================================

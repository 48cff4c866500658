-------------------------------- MODULE Calls --------------------------------
(***************************************************************************)
(* Calls (src/compiler.cpp, compileCallExpression) among values of any     *)
(* number of wasm values: arguments are spread over the operands of the    *)
(* wasm call, results of more than one wasm value come back through the    *)
(* scratch memory at 0, and a method leaves its receiver in memory behind  *)
(* its result.  The calls are nested in a statement that drops, stores or  *)
(* returns the value.                                                      *)
(*                                                                         *)
(* Which expression it is unfolds while it is compiled.  A condition is a  *)
(* literal, so that of a ternary only the arm is run that was chosen when  *)
(* it was compiled.                                                        *)
(***************************************************************************)
EXTENDS Integers, Sequences, SequencesExt

CONSTANTS
  Values,       (* the types of values                                     *)
  Slots,        (* VariantType::underlyingTypes of each                    *)
  Classes,      (* those that are classes                                  *)
  Bytes,        (* the size of a wasm type                                 *)
  Variables,    (* the variables in scope                                  *)
  VariableType,
  Functions,    (* the functions                                           *)
  ArgumentTypes,(* their arguments, the receiver of a method last          *)
  ReturnType,
  Methods,      (* those that are methods                                  *)
  Readonly,     (* the methods marked so                                   *)
  Clobbering,   (* whether a callee may call others, which write memory    *)
  Uses,         (* what is done with the value                             *)
  MaxNodes      (* bounds the nodes of the expression                      *)

Void == "void"
TypeAuto == "Auto"
Types == Values \cup {Void}
WasmTypes == {"i32", "i64", "f32", "f64"}
Use ==
  [is: {"drop"}] \cup [is: {"store"}, to: Variables]
    \cup [is: {"return"}, type: Types, this: Variables \cup {"none"}]

ASSUME TypesAssumption ==
  /\ Slots \in [Values -> Seq(WasmTypes)]
  /\ Void \notin Values /\ TypeAuto \notin Values
  /\ Classes \subseteq Values
  /\ \A t \in Values \ Classes : Len(Slots[t]) = 1
  /\ Bytes \in [WasmTypes -> Nat \ {0}]
ASSUME ScopeAssumption ==
  /\ VariableType \in [Variables -> Values] /\ "none" \notin Variables
  /\ ArgumentTypes \in [Functions -> Seq(Values)]
  /\ ReturnType \in [Functions -> Types]
  /\ Readonly \subseteq Methods /\ Methods \subseteq Functions
  /\ \A f \in Methods : ArgumentTypes[f] # <<>> /\ Last(ArgumentTypes[f]) \in Classes
  /\ Uses \subseteq Use /\ Clobbering \in BOOLEAN /\ MaxNodes \in Nat

(* The type of no value has an entry, unlike a class without members.      *)
underlyingTypes(t) == IF t = Void THEN <<"none">> ELSE Slots[t]
underlyingType(t) ==
  CASE Len(underlyingTypes(t)) = 0 -> "none"
    [] Len(underlyingTypes(t)) = 1 -> underlyingTypes(t)[1]
    [] OTHER -> "tuple"
ReturnsValue(t) == underlyingType(t) \in WasmTypes
LoadsFromMemory(t) == underlyingType(t) = "tuple"
Width(w) == IF w \in WasmTypes THEN Bytes[w] ELSE 0
getSize(L) == FoldLeft(LAMBDA size, w : size + Width(w), 0, L)
Offset(L, k) == getSize(SubSeq(L, 1, k - 1))
ReceiverAt(f) == getSize(underlyingTypes(ReturnType[f]))

VARIABLES
  use,     (* what is done with the value                                  *)
  whole,   (* the type it is resolved to                                   *)
  frames,  (* the calls and ternaries under way, innermost last            *)
  value,   (* the code of the whole expression, once there is some         *)
  body,    (* the code of the statement, once there is some                *)
  causes,  (* history: uses of a value that the operands cannot carry      *)
  room,    (* the nodes that may still be added                            *)
  status   (* "compiling", "valid", "invalid" or the error                 *)
vars == <<use, whole, frames, value, body, causes, room, status>>

-----------------------------------------------------------------------------
(* Binaryen expressions: the instructions, their type and whether they     *)
(* validate.  Data is a list of them, of a type, and the source they came  *)
(* from.                                                                   *)
Ref(code, type, ok) == [code |-> code, type |-> type, ok |-> ok]
Codes(refs) == FlattenSeq([i \in DOMAIN refs |-> refs[i].code])
AllOk(refs) == \A i \in DOMAIN refs : refs[i].ok
Data(refs, type, expr) == [refs |-> refs, type |-> type, expr |-> expr]

combineExprRef(refs) ==
  IF Len(refs) = 1 THEN refs[1]
  ELSE Ref(Codes(refs), IF refs = <<>> THEN "none" ELSE Last(refs).type,
           AllOk(refs) /\ \A i \in 1..Len(refs) - 1 : refs[i].type = "none")

BinaryenCall(f, operands) ==
  LET parameters == FlattenSeq([i \in DOMAIN ArgumentTypes[f] |-> Slots[ArgumentTypes[f][i]]])
  IN  Ref(Append(Codes(operands), <<"call", f, Len(operands)>>),
          IF ReturnsValue(ReturnType[f]) THEN underlyingType(ReturnType[f]) ELSE "none",
          /\ AllOk(operands) /\ Len(operands) = Len(parameters)
          /\ \A i \in DOMAIN parameters : operands[i].type = parameters[i])
BinaryenLoad(at, w) == Ref(<< <<"load", at, w>> >>, w, w \in WasmTypes)
BinaryenIf(arms, taken) ==
  Ref(arms[taken].code, arms[1].type, arms[1].ok /\ arms[2].ok /\ arms[1].type = arms[2].type)
BinaryenDrop(ref) == Ref(Append(ref.code, <<"drop">>), "none", ref.ok /\ ref.type # "none")
BinaryenSet(x, k, ref) ==
  Ref(Append(ref.code, <<"set", x, k>>), "none", ref.ok /\ ref.type = Slots[VariableType[x]][k])
BinaryenStore(at, w, ref) ==
  Ref(Append(ref.code, <<"store", at, w>>), "none", ref.ok /\ ref.type = w /\ w \in WasmTypes)
BinaryenReturn(refs, t) ==
  Ref(Append(Codes(refs), <<"return">>), "none",
      AllOk(refs) /\ (ReturnsValue(t) => Last(refs).type = underlyingType(t)))

(* Local::assignToStack.                                                   *)
Pushed(x) ==
  LET L == Slots[VariableType[x]]
  IN  [k \in DOMAIN L |-> Ref(<< <<"get", x, k>> >>, L[k], TRUE)]

(* StackData::assignTo...: the last expressions are the ones that are      *)
(* assigned, those before them are only computed.                          *)
Missing(data) ==
  underlyingTypes(data.type) # <<>> /\ Len(data.refs) < Len(underlyingTypes(data.type))
Before(data) == SubSeq(data.refs, 1, Len(data.refs) - Len(underlyingTypes(data.type)))
Assigned(data) ==
  [k \in DOMAIN underlyingTypes(data.type) |-> data.refs[Len(Before(data)) + k]]

-----------------------------------------------------------------------------
(* The frame on top waits for its next operand.  What is expected of it is *)
(* a type, or that of the whole expression, which a dropped value leaves   *)
(* open.                                                                   *)
Whole == "whole"
ASSUME NamesAssumption == Whole \notin Values /\ "?" \notin Functions
top == Last(frames)
Awaiting ==
  /\ status = "compiling"
  /\ IF frames = <<>> THEN value = <<>> ELSE Len(top.done) < Len(top.expects)
expected == IF frames = <<>> THEN Whole ELSE top.expects[Len(top.done) + 1]
expectedType == IF expected = Whole THEN whole ELSE expected
Kind(t) == IF t \in Classes THEN "Class" ELSE t
Accepts(t) == expectedType = TypeAuto \/ Kind(t) = Kind(expectedType)

(* The inputs do not take an object for one of another class, nor have     *)
(* ternaries of two types: see ExpressionCompiler.                         *)
Fits(t) == expectedType \in {TypeAuto, t}
tryResolveTo(t) ==
  whole' = IF expected = Whole /\ use.is = "drop" THEN t ELSE whole

(* The receiver of a method is an expression that was resolved already.    *)
IsReceiver ==
  frames # <<>> /\ top.f \in Methods /\ Len(top.done) + 1 = Len(top.expects)
Return(stack, data) ==
  IF stack = <<>> THEN frames' = stack /\ value' = <<data>>
  ELSE frames' = [stack EXCEPT ![Len(stack)].done = Append(@, data)] /\ UNCHANGED value
Fail(error) ==
  status' = error /\ UNCHANGED <<use, whole, frames, value, body, causes, room>>

CompileVariable(x) ==
  /\ Awaiting
  /\ IsReceiver => x = top.receiver
  /\ \/ ~Accepts(VariableType[x]) /\ Fail("TypeConvertError")
     \/ /\ Fits(VariableType[x])
        /\ tryResolveTo(VariableType[x])
        /\ Return(frames, Data(Pushed(x), VariableType[x], << <<"variable", x>> >>))
        /\ UNCHANGED <<use, body, causes, room, status>>

-----------------------------------------------------------------------------
(* compileCallExpression.                                                  *)

Open(f, receiver, expects, expectation) ==
  /\ room >= Len(expects)
  /\ room' = room - Len(expects)
  /\ frames' = Append(frames, [f |-> f, receiver |-> receiver, expects |-> expects,
                               expected |-> expectation, done |-> <<>>])
  /\ UNCHANGED <<use, value, body, causes, status>>
Call(f, receiver) ==
  /\ Awaiting /\ ~IsReceiver
  /\ \/ Fail("ArgumentCountError")
     \/ ~Accepts(ReturnType[f]) /\ Fail("TypeConvertError")
     \/ /\ Fits(ReturnType[f])
        /\ tryResolveTo(ReturnType[f])
        /\ Open(f, receiver, ArgumentTypes[f], expected)
CompileCall(f) == f \notin Methods /\ Call(f, "none")

(* A method is found through the symbol of its receiver; a call is none.   *)
CompileMethodCall(f, x) ==
  /\ f \in Methods
  /\ VariableType[x] = Last(ArgumentTypes[f])
  /\ Call(f, x)
CompileMethodOfCall ==
  /\ Awaiting /\ ~IsReceiver
  /\ Methods # {}
  /\ Fail("CannotResolveSymbol")

(* The type a memory result is loaded as: one that was pending has a       *)
(* single entry, of all the values together.                               *)
LoadedAs(e, t) == IF e = Whole /\ use.is = "drop" THEN <<underlyingType(t)>> ELSE underlyingTypes(t)
LoadedLast(L) == [k \in DOMAIN L |-> BinaryenLoad(Offset(L, Len(L) - k + 1), L[k])]       \* mutant
Loaded(L) == [k \in DOMAIN L |-> BinaryenLoad(Offset(L, k), L[k])]

(* The operands are the expressions of all the arguments, also those that  *)
(* only make the call whose result is loaded behind them.                  *)
OperandsBackwards(done) == FlattenSeq([i \in DOMAIN done |-> done[Len(done) - i + 1].refs])  \* mutant
Operands(done) == FlattenSeq([i \in DOMAIN done |-> done[i].refs])
Spread(frame) ==
  \E i \in DOMAIN frame.done : Len(frame.done[i].refs) # Len(Slots[frame.expects[i]])
CloseCall ==
  /\ status = "compiling" /\ frames # <<>>
  /\ top.f \in Functions
  /\ Len(top.done) = Len(top.expects)
  /\ LET t == ReturnType[top.f]
         call == BinaryenCall(top.f, Operands(top.done))
         exprs == FlattenSeq([i \in DOMAIN top.done |-> top.done[i].expr])
     IN  Return(Front(frames),
           Data(IF LoadsFromMemory(t) THEN <<call>> \o Loaded(LoadedAs(top.expected, t)) ELSE <<call>>,
                t, Append(exprs, <<"call", top.f, top.receiver>>)))
  /\ causes' = causes \cup {c \in {"spread"} : Spread(top)}
  /\ UNCHANGED <<use, whole, body, room, status>>

-----------------------------------------------------------------------------
(* compileTernaryExpression: each arm is combined into one expression.     *)

Arms == {1, 2}
CompileTernary ==
  /\ Awaiting /\ ~IsReceiver
  /\ Open("?", "none", <<expected, expected>>, expected)
  /\ UNCHANGED whole
CloseTernary ==
  /\ status = "compiling" /\ frames # <<>>
  /\ top.f = "?"
  /\ Len(top.done) = 2
  /\ LET t == top.done[1].type
         arms == [i \in Arms |-> combineExprRef(top.done[i].refs)]
     IN  /\ \E taken \in Arms :
              Return(Front(frames), Data(<<BinaryenIf(arms, taken)>>, t, top.done[taken].expr))
         /\ causes' = causes \cup {c \in {"chosen"} : LoadsFromMemory(t)}
  /\ UNCHANGED <<use, whole, body, room, status>>

-----------------------------------------------------------------------------
(* What becomes of the value.                                              *)

Finish(refs) ==
  /\ body' = Codes(refs)
  /\ status' = IF AllOk(refs) /\ \A i \in DOMAIN refs : refs[i].type = "none"
                 THEN "valid" ELSE "invalid"
  /\ UNCHANGED <<use, whole, frames, value, room>>
Ready == status = "compiling" /\ value # <<>>

(* compileExpressionStatement.                                             *)
DropValue ==
  /\ Ready /\ use.is = "drop"
  /\ LET ref == combineExprRef(value[1].refs)
     IN  Finish(<<IF underlyingType(whole) = "none" THEN ref ELSE BinaryenDrop(ref)>>)
  /\ causes' = causes \cup {c \in {"dropped"} : LoadsFromMemory(whole)}

(* compileDeclareStatement, compileAssignStatement.                        *)
StoreValue ==
  /\ Ready /\ use.is = "store"
  /\ \/ Missing(value[1]) /\ Fail("assertion")
     \/ /\ ~Missing(value[1])
        /\ LET a == Assigned(value[1])
           IN  Finish(Before(value[1]) \o [k \in DOMAIN a |-> BinaryenSet(use.to, k, a[k])])
        /\ UNCHANGED causes

(* compileReturnStatement: a result in memory is stored before the         *)
(* receiver is, one that is returned is computed after it.                 *)
StoreAt(base, L, k, ref) == BinaryenStore(base + Offset(L, k), L[k], ref)
WriteBackBehindItself ==                                            \* mutant
  IF use.this = "none" THEN <<>>
  ELSE LET L == Slots[VariableType[use.this]]
           get == Pushed(use.this)
       IN  [k \in DOMAIN L |-> StoreAt(getSize(L), L, k, get[k])]
WriteBack ==
  IF use.this = "none" THEN <<>>
  ELSE LET L == Slots[VariableType[use.this]]
           get == Pushed(use.this)
       IN  [k \in DOMAIN L |-> StoreAt(getSize(underlyingTypes(use.type)), L, k, get[k])]
ReturnValue ==
  /\ Ready /\ use.is = "return"
  /\ \/ /\ ReturnsValue(use.type)
        /\ Finish(Append(WriteBack, BinaryenReturn(<<combineExprRef(value[1].refs)>>, use.type)))
        /\ UNCHANGED causes
     \/ ~ReturnsValue(use.type) /\ Missing(value[1]) /\ Fail("assertion")
     \/ /\ ~ReturnsValue(use.type) /\ ~Missing(value[1])
        /\ LET a == Assigned(value[1])
           IN  Finish(Before(value[1])
                        \o [k \in DOMAIN a |-> StoreAt(0, underlyingTypes(use.type), k, a[k])]
                        \o WriteBack \o <<BinaryenReturn(<<>>, use.type)>>)
        /\ causes' = causes \cup {c \in {"nothing"} : use.type = Void}

Init ==
  /\ use \in Uses
  /\ whole = (CASE use.is = "drop" -> TypeAuto
                [] use.is = "store" -> VariableType[use.to]
                [] use.is = "return" -> use.type)
  /\ frames = <<>> /\ value = <<>> /\ body = <<>>
  /\ causes = {}
  /\ room = MaxNodes - 1
  /\ status = "compiling"
Next ==
  \/ \E x \in Variables : CompileVariable(x)
  \/ \E f \in Functions : CompileCall(f)
  \/ \E f \in Functions, x \in Variables : CompileMethodCall(f, x)
  \/ CompileMethodOfCall \/ CompileTernary
  \/ CloseCall \/ CloseTernary
  \/ DropValue \/ StoreValue \/ ReturnValue
Spec == Init /\ [][Next]_vars

-----------------------------------------------------------------------------

(* A statement that is accepted gives code that validates, unless a call   *)
(* whose result is not one wasm value is an argument, or a ternary chooses *)
(* between values of more than one, or such a value is dropped, or `return`*)
(* returns nothing (compileCallExpression, compileTernaryExpression,       *)
(* compileExpressionStatement, compileReturnStatement).                    *)
ValidUnlessCause == status \in {"invalid", "assertion"} => causes # {}
=============================================================================

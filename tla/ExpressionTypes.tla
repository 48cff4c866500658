--------------------------- MODULE ExpressionTypes ---------------------------
(***************************************************************************)
(* The types of expressions, which converts to which, and the wasm that an *)
(* operator of a type becomes (src/ir/variant_type.cpp, class.cpp,         *)
(* signature.cpp).                                                         *)
(***************************************************************************)
EXTENDS Integers

CONSTANTS
  Objects,     (* the classes whose values are one wasm value              *)
  ObjectSlot,  (* the type of that value                                   *)
  Bits         (* the width of i32 and of i64                              *)

Narrow == {"I32", "U32"}
Wide == {"I64", "U64"}
Floats == {"F32", "F64"}
Numbers == Narrow \cup Wide \cup Floats
Types == Numbers \cup Objects \cup {"None", "Signature"}
WasmTypes == {"i32", "i64", "f32", "f64"}
Nothing == "none"    (* BinaryenTypeNone *)
PendingKinds == {"Auto", "ConditionType"}

ASSUME ObjectsAssumption ==
  /\ Objects \cap (Numbers \cup PendingKinds \cup {"None", "Signature", "unresolved"}) = {}
  /\ ObjectSlot \in [Objects -> WasmTypes]
ASSUME BitsAssumption == Bits \in [{"i32", "i64"} -> Nat \ {0}]

underlyingType(t) ==
  CASE t \in Narrow \cup {"Signature"} -> "i32"
    [] t \in Wide -> "i64"
    [] t = "F32" -> "f32"
    [] t = "F64" -> "f64"
    [] t = "None" -> Nothing
    [] t \in Objects -> ObjectSlot[t]

-----------------------------------------------------------------------------
(* A VariantType object: of a type, or one that is still to be resolved.   *)
Unresolved == "unresolved"
TypeObject == [kind: Types \cup PendingKinds, resolved: Types \cup {Unresolved}]
Fixed(t) == [kind |-> t, resolved |-> t]
TypeAuto == [kind |-> "Auto", resolved |-> Unresolved]
ConditionIsItself == [kind |-> "ConditionType", resolved |-> "ConditionType"]  \* mutant
TypeCondition == [kind |-> "ConditionType", resolved |-> Unresolved]
Pending(o) == o.kind \in PendingKinds
isResolved(o) == o.resolved # Unresolved

(* VariantType::type(): all classes are of one kind.                       *)
Kind(t) == IF t \in Objects THEN "Class" ELSE t
Accepts(o, t) ==
  \/ o.kind = "Auto"
  \/ o.kind = "ConditionType" /\ t \in Narrow \cup Wide
  \/ ~Pending(o) /\ Kind(o.kind) = Kind(t)
tryResolveTo(o, t) == IF Pending(o) /\ Accepts(o, t) THEN [o EXCEPT !.resolved = t] ELSE o

(* A literal gives an object its own type only when it has none.           *)
DefaultAlways(o, t) == tryResolveTo(o, t)                           \* mutant
resolveByDefault(o, t) == IF isResolved(o) THEN o ELSE tryResolveTo(o, t)

-----------------------------------------------------------------------------
(* Operators and the types that have them.                                 *)
Arithmetic == {"ADD", "SUB", "MUL", "DIV"}
Comparisons ==
  {"LESS_THAN", "GREATER_THAN", "NO_LESS_THAN", "NO_GREATER_THAN", "EQUAL", "NOT_EQUAL"}
OfIntegers == {"MOD", "LEFT_SHIFT", "RIGHT_SHIFT", "AND", "OR", "XOR"}
Logic == {"LOGIC_AND", "LOGIC_OR"}
BinaryOp == Arithmetic \cup Comparisons \cup OfIntegers \cup Logic
PrefixOp == {"ADD", "SUB", "NOT"}

HasBinaryOp(t, op) ==
  t \in Narrow \cup Wide \/ (t \in Floats /\ op \in Arithmetic \cup Comparisons)
HasPrefixOp(t, op) == t \in Narrow \cup Wide \/ (t \in Floats /\ op # "NOT")
OperatorError(t) == IF t \in Objects THEN "not support" ELSE "InvalidOperator"

(* Two's complement has one addition for signed and unsigned numbers, and  *)
(* two divisions.                                                          *)
SignMatters ==
  {"DIV", "MOD", "RIGHT_SHIFT", "LESS_THAN", "GREATER_THAN", "NO_LESS_THAN", "NO_GREATER_THAN"}
InstructionUnsigned(t, op) == [do |-> op, on |-> underlyingType(t), signed |-> FALSE]  \* mutant
Instruction(t, op) ==
  [do |-> op, on |-> underlyingType(t), signed |-> op \in SignMatters /\ t \in {"I32", "I64"}]

(* underlyingConst of an integer, cut to the width of its type.            *)
underlyingConst(t, v) ==
  LET w == underlyingType(t)
  IN  <<"const", w, IF w \in DOMAIN Bits THEN v % (2 ^ Bits[w]) ELSE v>>
=============================================================================

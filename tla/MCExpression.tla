---------------------------- MODULE MCExpression ----------------------------
(* Programs for ExpressionCompiler and ExpressionMeaning.                  *)
EXTENDS ExpressionMeaning

OfSlot == [OneI32 |-> "i32", OneI64 |-> "i64"]
NoSlot == [o \in {} |-> "i32"]
ScaledBits == [i32 |-> 2, i64 |-> 4]

(* One variable of a type for the types, and a class or two.               *)
TypedVariables ==
  [i |-> "I32", u |-> "U32", x |-> "I64", f |-> "F32", p |-> "OneI32", q |-> "OneI64"]
TypedMembers == [pi |-> "I32", px |-> "I64"]
TypedArguments == [nothing |-> <<>>, convert |-> <<"I64">>]
TypedReturns == [nothing |-> "None", convert |-> "I32"]
EveryUse ==
  [is: {"statement", "condition"}]
    \cup [is: {"typed", "inferred"}, type: {"I32", "U32", "I64", "F32", "OneI32"}]

(* Two variables of each type of whole numbers, of which a call changes    *)
(* one.                                                                    *)
NumberVariables ==
  [i |-> "I32", gi |-> "I32", u |-> "U32", gu |-> "U32",
   x |-> "I64", gx |-> "I64", y |-> "U64", gy |-> "U64"]
NumberArguments == [count |-> <<>>, next |-> <<"I32">>]
NumberReturns == [count |-> "I64", next |-> "I32"]
NumberUses == [is: {"typed"}, type: {"I32", "U32", "I64", "U64"}]

(* Zero, one, the greatest number of either sign, the least and -1: every  *)
(* pair of them, a global and a local of the same type.                    *)
Extremes(w) == <<0, 1, 2 ^ (Bits[w] - 1) - 1, 2 ^ (Bits[w] - 1), 2 ^ Bits[w] - 1>>
ExtremeSamples ==
  {[v \in Variables |->
      Extremes(underlyingType(VariableType[v]))[IF v \in GlobalVariables THEN changed ELSE kept]] :
     changed \in 1..5, kept \in 1..5}
=============================================================================

------------------------- MODULE MCBinaryExpression -------------------------
(* Chains of up to MaxOps operators; any operand may be a parenthesised    *)
(* binary expression, up to two of them with parentheses inside.           *)
EXTENDS BinaryExpression, SequencesExt, FiniteSets

CONSTANTS MaxOps, ChainOps, InnerOps

(* Operand i has the leaf -3i, or the leaves -3i and -(3i + 1) around the  *)
(* inner operator if it is in parentheses, or -(3i + 2) as well if one of  *)
(* these two is in parentheses itself.                                     *)
Outer(i, n, inner) == << [op |-> inner, left |-> -3 * i, right |-> -3 * i - 1] >>
OnTheLeft(i, n, inner) ==
  << [op |-> inner, left |-> n + 1, right |-> -3 * i - 2],
     [op |-> "ADD", left |-> -3 * i, right |-> -3 * i - 1] >>
OnTheRight(i, n, inner) ==
  << [op |-> inner, left |-> -3 * i, right |-> n + 1],
     [op |-> "ADD", left |-> -3 * i - 1, right |-> -3 * i - 2] >>
Shape(shape, i, n, inner) ==
  CASE shape = "outer" -> Outer(i, n, inner)
    [] shape = "left" -> OnTheLeft(i, n, inner)
    [] shape = "right" -> OnTheRight(i, n, inner)

ChainOf(ops, inParentheses, shape, inner) ==
  LET size == IF shape = "outer" THEN 1 ELSE 2
      place(i) == size * Cardinality({j \in inParentheses : j < i}) + 1
      operand(n) == CHOOSE i \in inParentheses : Cardinality({j \in inParentheses : j < i}) = n - 1
  IN  [ops |-> ops,
       operands |-> [i \in 1..(Len(ops) + 1) |-> IF i \in inParentheses THEN place(i) ELSE -3 * i],
       parsed |-> FlattenSeq([n \in 1..Cardinality(inParentheses) |->
                     Shape(shape, operand(n), place(operand(n)), inner)])]

OperandSets(ops, shape) ==
  {p \in SUBSET (1..(Len(ops) + 1)) :
     shape # "outer" => Cardinality(p) = 1 \/ (Cardinality(p) = 2 /\ Len(ops) < MaxOps)}
MCInputs ==
  UNION {{ChainOf(ops, p, shape, inner) : p \in OperandSets(ops, shape), inner \in InnerOps} :
           ops \in SeqOf(ChainOps, MaxOps) \ {<<>>}, shape \in {"outer", "left", "right"}}
=============================================================================

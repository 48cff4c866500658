-------------------------- MODULE BinaryExpression --------------------------
(***************************************************************************)
(* How the flat chain of operators that the grammar delivers,              *)
(*      left (op right)+,                                                  *)
(* becomes a tree: the constructor of ast::BinaryExpression and its        *)
(* recursive appendExpr (src/ast/binary_expression.cpp).  The tree is      *)
(* rebuilt in place, along its right spine, one operator at a time.        *)
(*                                                                         *)
(* A subtree is an integer: an expression that is no BinaryExpression is   *)
(* negative, a BinaryExpression is its (positive) place in the heap.       *)
(***************************************************************************)
EXTENDS Integers, Sequences

CONSTANT Inputs   (* the chains the constructor is called for              *)

Levels ==
  << {"MUL", "DIV", "MOD"}, {"ADD", "SUB"}, {"LEFT_SHIFT", "RIGHT_SHIFT"},
     {"LESS_THAN", "GREATER_THAN", "NO_LESS_THAN", "NO_GREATER_THAN"},
     {"EQUAL", "NOT_EQUAL"}, {"AND"}, {"XOR"}, {"OR"}, {"LOGIC_AND"}, {"LOGIC_OR"} >>
BinaryOp == UNION {Levels[i] : i \in DOMAIN Levels}
(* Operator::getOpPriority: the smaller, the tighter the operator binds.   *)
getOpPriority == [op \in BinaryOp |-> 2 + CHOOSE i \in DOMAIN Levels : op \in Levels[i]]

Node == [op: BinaryOp, left: Int, right: Int]
isBinary(tree) == tree > 0

(* An operand that is a BinaryExpression itself was built before and is in *)
(* "parsed": one in parentheses, which leave no node behind, or what the   *)
(* parser made of a call on the right and the operators that follow it     *)
(* (binaryExpressionRight in g4/walang.g4).  Its contents are the objects  *)
(* of its tree.  Every object is owned by one other (a shared_ptr that is  *)
(* handed on), once, or it is an operand; and none is among its contents.  *)
Closed(h) == \A n \in DOMAIN h : h[n].left <= Len(h) /\ h[n].right <= Len(h)
Parts(h, n) == {h[n].left, h[n].right}
HasParts(h, S) == \A n \in S : \A part \in Parts(h, n) : isBinary(part) => part \in S
ContentsIn(h, tree) ==
  {n \in DOMAIN h : \A S \in SUBSET DOMAIN h : tree \in S /\ HasParts(h, S) => n \in S}
NoneInItself(h) ==
  \A n \in DOMAIN h : \A part \in Parts(h, n) : isBinary(part) => n \notin ContentsIn(h, part)
OwnedOnce(h) ==
  \A m, n \in DOMAIN h :
    /\ isBinary(h[m].left) => h[m].left # h[n].right /\ (h[m].left = h[n].left => m = n)
    /\ isBinary(h[m].right) => (h[m].right = h[n].right => m = n)
Unowned(h, tree) == \A n \in DOMAIN h : tree \notin Parts(h, n)
Chain ==
  {c \in [ops: Seq(BinaryOp), operands: Seq(Int), parsed: Seq(Node)] :
     /\ c.ops # <<>>
     /\ Closed(c.parsed) /\ NoneInItself(c.parsed) /\ OwnedOnce(c.parsed)
     /\ Len(c.operands) = Len(c.ops) + 1
     /\ \A i \in DOMAIN c.operands :
          isBinary(c.operands[i]) => c.operands[i] \in DOMAIN c.parsed /\ Unowned(c.parsed, c.operands[i])
     /\ \A i, j \in DOMAIN c.operands :
          isBinary(c.operands[i]) /\ isBinary(c.operands[j]) /\ i # j =>
            ContentsIn(c.parsed, c.operands[i]) \cap ContentsIn(c.parsed, c.operands[j]) = {}}
ASSUME InputsAssumption == Inputs \subseteq Chain

VARIABLES
  input,  (* the chain                                                     *)
  heap,   (* the BinaryExpression objects                                  *)
  taken,  (* how many of the operators the constructor has dealt with      *)
  at      (* "this" of the innermost appendExpr, 0 outside of it           *)
vars == <<input, heap, taken, at>>

Root == Len(input.parsed) + 1     (* the object under construction         *)
op == input.ops[taken + 1]        (* the arguments of appendExpr           *)
rightExpr == input.operands[taken + 2]
new == Len(heap) + 1

-----------------------------------------------------------------------------
Init ==
  /\ input \in Inputs
  /\ heap = input.parsed
  /\ taken = 0
  /\ at = 0

FirstRight ==
  /\ taken = 0
  /\ heap' = Append(heap, [op |-> op, left |-> input.operands[1], right |-> rightExpr])
  /\ taken' = 1
  /\ UNCHANGED <<input, at>>

AppendExpr ==
  /\ at = 0 /\ taken \in 1..(Len(input.ops) - 1)
  /\ at' = Root
  /\ UNCHANGED <<input, heap, taken>>

Return ==
  /\ at' = 0
  /\ taken' = taken + 1
  /\ UNCHANGED input

bindsStrictlyTighter == getOpPriority[heap[at].op] < getOpPriority[op] \* mutant
bindsAnyhow == TRUE                                                 \* mutant
bindsTighter == getOpPriority[heap[at].op] <= getOpPriority[op]

(* "self as new operator's left": the object keeps its identity, its       *)
(* contents move to a new one.                                             *)
SelfAsLeft ==
  /\ at # 0 /\ bindsTighter
  /\ heap' = Append([heap EXCEPT ![at] = [op |-> op, left |-> new, right |-> rightExpr]], heap[at])
  /\ Return

DescendBlindly ==                                                   \* mutant
  /\ at # 0 /\ ~bindsTighter
  /\ at' = heap[at].right
  /\ UNCHANGED <<input, heap, taken>>
Descend ==
  /\ at # 0 /\ ~bindsTighter
  /\ isBinary(heap[at].right)
  /\ at' = heap[at].right
  /\ UNCHANGED <<input, heap, taken>>

NewRightSwapped ==                                                  \* mutant
  /\ at # 0 /\ ~bindsTighter
  /\ ~isBinary(heap[at].right)
  /\ heap' = Append([heap EXCEPT ![at].right = new],
                    [op |-> op, left |-> rightExpr, right |-> heap[at].right])
  /\ Return
(* "combine new operator with right as new right"                          *)
NewRight ==
  /\ at # 0 /\ ~bindsTighter
  /\ ~isBinary(heap[at].right)
  /\ heap' = Append([heap EXCEPT ![at].right = new],
                    [op |-> op, left |-> heap[at].right, right |-> rightExpr])
  /\ Return

(* The chain has no more operators: there is no other state to stop in.    *)
Finished == taken = Len(input.ops) /\ UNCHANGED vars
Next == FirstRight \/ AppendExpr \/ SelfAsLeft \/ Descend \/ NewRight \/ Finished
Spec == Init /\ [][Next]_vars

-----------------------------------------------------------------------------
(* The state is well typed: every child that is an object is in the heap.  *)
TypeOK ==
  /\ input \in Chain
  /\ heap \in Seq(Node) /\ Closed(heap)
  /\ Len(heap) = Len(input.parsed) + taken
  /\ taken \in 0..Len(input.ops)
  /\ at \in 0..Len(heap)
  /\ at # 0 => taken \in 1..(Len(input.ops) - 1)

(* appendExpr goes down into whatever BinaryExpression it meets, also into *)
(* one that is the operand the chain ends with so far: then the next       *)
(* operator is pulled into the parentheses.  That happens to an operand    *)
(* between a weaker operator on its left and a tighter one on its right.   *)
Endangered(i) ==
  /\ isBinary(input.operands[i])
  /\ i > 1 /\ i < Len(input.operands)
  /\ getOpPriority[input.ops[i]] < getOpPriority[input.ops[i - 1]]
Intact == \A i \in DOMAIN input.operands : ~Endangered(i)
Contents(i) == ContentsIn(input.parsed, input.operands[i])
Untouched(i) == \A n \in Contents(i) : heap[n] = input.parsed[n]

(* A pair of parentheses means what it says: its contents stay together.   *)
ParenthesesKept ==
  \A i \in DOMAIN input.operands : isBinary(input.operands[i]) => Untouched(i)

(* ... which holds unless an operand is endangered, and only then: before  *)
(* the operator behind it is taken even such an operand is intact, and     *)
(* afterwards it is not, whatever is still to come.                        *)
OnlyEndangeredBreak ==
  \A i \in DOMAIN input.operands :
    isBinary(input.operands[i]) => (Untouched(i) <=> ~(Endangered(i) /\ i <= taken))

(* Precedence, seen from one object: no operator has one below it that     *)
(* binds less tightly, and operators of equal priority associate to the    *)
(* left.                                                                   *)
Built == (Len(input.parsed) + 1)..Len(heap)
LocalPrecedence ==
  \A n \in Built :
    /\ heap[n].left \in Built =>
         getOpPriority[heap[heap[n].left].op] <= getOpPriority[heap[n].op]
    /\ heap[n].right \in Built =>
         getOpPriority[heap[heap[n].right].op] < getOpPriority[heap[n].op]
Precedence == Intact => LocalPrecedence

-----------------------------------------------------------------------------
(* The tree as a nested tuple, to compare it with a reference; a leaf is a *)
(* tuple as well.                                                          *)
TreeIn(h, tree) ==
  LET f[t \in Int] ==
        IF t \in DOMAIN h THEN <<h[t].op, f[h[t].left], f[h[t].right]>> ELSE <<t>>
  IN  f[tree]
LeavesIn(h, tree) ==
  LET f[t \in Int] ==
        IF t \in DOMAIN h THEN f[h[t].left] \o <<h[t].op>> \o f[h[t].right] ELSE <<t>>
  IN  f[tree]

(* The usual definition: the chain splits at its last operator among those *)
(* that bind least tightly.                                                *)
IsSplit(c, lo, hi, k) ==
  \A j \in lo..(hi - 1) :
    \/ getOpPriority[c.ops[j]] < getOpPriority[c.ops[k]]
    \/ getOpPriority[c.ops[j]] = getOpPriority[c.ops[k]] /\ j <= k
Reference(c, lo, hi) ==
  LET f[r \in (DOMAIN c.operands) \X (DOMAIN c.operands)] ==
        IF r[1] >= r[2] THEN TreeIn(c.parsed, c.operands[r[1]])
        ELSE LET k == CHOOSE split \in r[1]..(r[2] - 1) : IsSplit(c, r[1], r[2], split)
             IN  <<c.ops[k], f[<<r[1], k>>], f[<<k + 1, r[2]>>]>>
  IN  f[<<lo, hi>>]

(* After every operator the tree is that of the chain read so far.         *)
MatchesReference ==
  (Intact /\ at = 0 /\ taken > 0) => TreeIn(heap, Root) = Reference(input, 1, taken + 1)

(* Whatever happens to parentheses, the leaves and operators stay in the   *)
(* order they were written in: nothing is lost, repeated or swapped.       *)
Written(c, last) ==
  LET f[i \in DOMAIN c.operands] ==
        IF i = 1 THEN LeavesIn(c.parsed, c.operands[1])
        ELSE f[i - 1] \o <<c.ops[i - 1]>> \o LeavesIn(c.parsed, c.operands[i])
  IN  f[last]
InOrder == (at = 0 /\ taken > 0) => LeavesIn(heap, Root) = Written(input, taken + 1)

=============================================================================

----------------------- MODULE BinaryExpressionProofs -----------------------
(* Theorems about BinaryExpression, for chains of any length.              *)
EXTENDS BinaryExpression, SequenceTheorems, FiniteSetTheorems, WellFoundedInduction, TLAPS

(* Every operator has a priority, a number.                                *)
LEMMA PriorityType == \A o \in BinaryOp : getOpPriority[o] \in Int
<1> SUFFICES ASSUME NEW o \in BinaryOp PROVE getOpPriority[o] \in Int
  OBVIOUS
<1>1. PICK i \in DOMAIN Levels : o \in Levels[i]
  BY DEF BinaryOp
<1>2. (CHOOSE j \in DOMAIN Levels : o \in Levels[j]) \in DOMAIN Levels
  BY <1>1
<1>3. DOMAIN Levels \subseteq Int
  BY DEF Levels
<1>4. getOpPriority[o] = 2 + CHOOSE j \in DOMAIN Levels : o \in Levels[j]
  BY DEF getOpPriority
<1> QED
  BY <1>2, <1>3, <1>4

(* What the two writing steps do to the heap.                              *)
LEMMA ChangeAndAppend ==
  ASSUME NEW h \in Seq(Node), NEW n \in DOMAIN h, NEW x \in Node, NEW y \in Node,
         NEW h1, h1 = Append([h EXCEPT ![n] = x], y)
  PROVE  /\ h1 \in Seq(Node) /\ Len(h1) = Len(h) + 1
         /\ h1[Len(h) + 1] = y /\ h1[n] = x
         /\ \A m \in DOMAIN h \ {n} : h1[m] = h[m]
<1> DEFINE g == [h EXCEPT ![n] = x]
<1>1. g \in Seq(Node) /\ Len(g) = Len(h)
  OBVIOUS
<1>2. g[n] = x /\ \A m \in DOMAIN h \ {n} : g[m] = h[m]
  OBVIOUS
<1>3. DOMAIN g = 1..Len(h) /\ DOMAIN h = 1..Len(h) /\ Len(h) \in Nat
  BY <1>1
<1> HIDE DEF g
<1>4. h1 = Append(g, y)
  BY DEF g
<1> QED
  BY <1>1, <1>2, <1>3, <1>4

LEMMA ChainType ==
  ASSUME TypeOK
  PROVE  /\ Closed(input.parsed)
         /\ input.ops \in Seq(BinaryOp) /\ input.operands \in Seq(Int) /\ input.parsed \in Seq(Node)
         /\ Len(input.ops) \in Nat \ {0} /\ Len(input.operands) = Len(input.ops) + 1
         /\ Len(input.parsed) \in Nat /\ Root \in Nat \ {0}
         /\ \A i \in 1..Len(input.ops) : input.ops[i] \in BinaryOp
         /\ \A i \in 1..(Len(input.ops) + 1) : input.operands[i] \in Int
         /\ \A i \in DOMAIN input.operands : isBinary(input.operands[i]) => input.operands[i] \in DOMAIN input.parsed
BY DEF TypeOK, Chain, Root

(* The two of them: at the object itself and at the new one.               *)
LEMMA SelfAsLeftHeap ==
  ASSUME TypeOK, SelfAsLeft
  PROVE  /\ heap' \in Seq(Node) /\ Len(heap') = Len(heap) + 1
         /\ heap'[at] = [op |-> op, left |-> new, right |-> rightExpr] /\ heap'[new] = heap[at]
         /\ \A m \in DOMAIN heap \ {at} : heap'[m] = heap[m]
<1> DEFINE x == [op |-> op, left |-> new, right |-> rightExpr]
<1>1. at \in DOMAIN heap /\ heap \in Seq(Node) /\ heap[at] \in Node /\ new \in Int
  BY DEF SelfAsLeft, new, TypeOK
<1>2. op \in BinaryOp /\ rightExpr \in Int
  BY ChainType DEF SelfAsLeft, op, rightExpr, TypeOK
<1>3. x \in Node
  BY <1>1, <1>2 DEF Node
<1>4. heap' = Append([heap EXCEPT ![at] = x], heap[at])
  BY DEF SelfAsLeft
<1> HIDE DEF x
<1>5. /\ heap' \in Seq(Node) /\ Len(heap') = Len(heap) + 1
      /\ heap'[Len(heap) + 1] = heap[at] /\ heap'[at] = x
      /\ \A m \in DOMAIN heap \ {at} : heap'[m] = heap[m]
  BY <1>1, <1>3, <1>4, ChangeAndAppend
<1> QED
  BY <1>5 DEF x, new

LEMMA NewRightHeap ==
  ASSUME TypeOK, NewRight
  PROVE  /\ heap' \in Seq(Node) /\ Len(heap') = Len(heap) + 1
         /\ heap'[at] = [heap[at] EXCEPT !.right = new]
         /\ heap'[new] = [op |-> op, left |-> heap[at].right, right |-> rightExpr]
         /\ \A m \in DOMAIN heap \ {at} : heap'[m] = heap[m]
<1> DEFINE x == [heap[at] EXCEPT !.right = new]
           y == [op |-> op, left |-> heap[at].right, right |-> rightExpr]
<1>1. at \in DOMAIN heap /\ heap \in Seq(Node) /\ heap[at] \in Node /\ new \in Int
  BY DEF NewRight, new, TypeOK
<1>2. op \in BinaryOp /\ rightExpr \in Int
  <2>1. at # 0
    BY DEF NewRight
  <2>2. taken \in Nat /\ taken < Len(input.ops) /\ Len(input.ops) \in Nat
    BY <2>1, ChainType DEF TypeOK
  <2>3. taken + 1 \in 1..Len(input.ops) /\ taken + 2 \in 1..(Len(input.ops) + 1)
    BY <2>2
  <2> QED
    BY <2>3, ChainType DEF op, rightExpr
<1>3. x \in Node /\ y \in Node
  BY <1>1, <1>2 DEF Node
<1>4. heap' = Append([heap EXCEPT ![at] = x], y)
  BY DEF NewRight
<1> HIDE DEF x, y
<1>5. /\ heap' \in Seq(Node) /\ Len(heap') = Len(heap) + 1
      /\ heap'[Len(heap) + 1] = y /\ heap'[at] = x
      /\ \A m \in DOMAIN heap \ {at} : heap'[m] = heap[m]
  BY <1>1, <1>3, <1>4, ChangeAndAppend
<1> QED
  BY <1>5 DEF x, y, new

LEMMA Sizes ==
  ASSUME TypeOK
  PROVE  /\ heap \in Seq(Node) /\ Closed(heap) /\ DOMAIN heap = 1..Len(heap)
         /\ Len(heap) \in Nat /\ Len(heap) = Len(input.parsed) + taken
         /\ taken \in Nat /\ taken <= Len(input.ops)
         /\ at \in Nat /\ at <= Len(heap) /\ (at # 0 => at \in DOMAIN heap)
         /\ (at # 0 => taken > 0 /\ taken < Len(input.ops))
<1>1. Len(input.ops) \in Nat /\ Len(input.parsed) \in Nat
  BY ChainType
<1>2. heap \in Seq(Node) /\ Len(heap) \in Nat /\ DOMAIN heap = 1..Len(heap)
  BY DEF TypeOK
<1> QED
  BY <1>1, <1>2 DEF TypeOK

LEMMA NodeAt ==
  ASSUME NEW h \in Seq(Node), NEW m \in 1..Len(h)
  PROVE  h[m] \in Node /\ h[m].op \in BinaryOp /\ h[m].left \in Int /\ h[m].right \in Int
<1>1. h[m] \in Node
  OBVIOUS
<1> QED
  BY <1>1 DEF Node

(* The arguments of the step that takes the next operator.                 *)
LEMMA ArgumentTypes ==
  ASSUME TypeOK, taken < Len(input.ops)
  PROVE  op \in BinaryOp /\ rightExpr \in Int /\ rightExpr <= Len(heap)
<1>0. Len(input.ops) \in Nat /\ taken \in Nat
  BY ChainType, Sizes
<1>1. taken + 1 \in 1..Len(input.ops) /\ taken + 2 \in 1..(Len(input.ops) + 1)
  BY <1>0
<1>2. DOMAIN input.operands = 1..(Len(input.ops) + 1) /\ DOMAIN input.parsed = 1..Len(input.parsed)
  BY ChainType
<1>3. op \in BinaryOp /\ rightExpr \in Int
  BY <1>1, ChainType DEF op, rightExpr
<1>4. rightExpr > 0 => rightExpr \in DOMAIN input.parsed
  BY <1>1, <1>2, ChainType DEF rightExpr, isBinary
<1>5. rightExpr <= Len(input.parsed) \/ rightExpr <= 0
  BY <1>2, <1>3, <1>4
<1>6. Len(input.parsed) \in Nat
  BY ChainType
<1> QED
  BY <1>3, <1>5, <1>6, Sizes

LEMMA StaysClosed ==
  ASSUME NEW h \in Seq(Node), Closed(h), NEW n \in DOMAIN h,
         NEW h1 \in Seq(Node), Len(h1) = Len(h) + 1,
         \A m \in DOMAIN h \ {n} : h1[m] = h[m],
         \A m \in {n, Len(h) + 1} : h1[m].left <= Len(h1) /\ h1[m].right <= Len(h1)
  PROVE  Closed(h1)
<1>1. DOMAIN h = 1..Len(h) /\ DOMAIN h1 = 1..Len(h1) /\ Len(h) \in Nat
  OBVIOUS
<1> SUFFICES ASSUME NEW m \in DOMAIN h1 PROVE h1[m].left <= Len(h1) /\ h1[m].right <= Len(h1)
  BY DEF Closed
<1>2. CASE m \in {n, Len(h) + 1}
  BY <1>2
<1>3. CASE m \notin {n, Len(h) + 1}
  <2>1. m \in DOMAIN h \ {n}
    BY <1>1, <1>3
  <2>2. h1[m] = h[m] /\ h[m].left <= Len(h) /\ h[m].right <= Len(h)
    BY <2>1 DEF Closed
  <2>3. h[m].left \in Int /\ h[m].right \in Int
    BY <1>1, <2>1, NodeAt
  <2> QED
    BY <1>1, <2>2, <2>3
<1> QED
  BY <1>2, <1>3

(* The type invariant TypeOK: appendExpr is only entered with an operator  *)
(* left to place, on an object that exists, and adds one object for each.  *)
THEOREM TypeCorrect == Spec => []TypeOK
<1>1. Init => TypeOK
  <2> SUFFICES ASSUME Init PROVE TypeOK
    OBVIOUS
  <2>1. input \in Chain
    BY InputsAssumption DEF Init
  <2>2. input.parsed \in Seq(Node) /\ Closed(input.parsed) /\ input.ops \in Seq(BinaryOp) /\ input.ops # <<>>
    BY <2>1 DEF Chain
  <2> QED
    BY <2>1, <2>2 DEF Init, TypeOK
<1>2. TypeOK /\ [Next]_vars => TypeOK'
  <2> SUFFICES ASSUME TypeOK, [Next]_vars PROVE TypeOK'
    OBVIOUS
  <2>0. Len(input.ops) \in Nat /\ Len(input.parsed) \in Nat /\ input \in Chain
    BY ChainType DEF TypeOK
  <2>1. CASE FirstRight
    <3> DEFINE first == [op |-> op, left |-> input.operands[1], right |-> rightExpr]
    <3>1. op \in BinaryOp /\ rightExpr \in Int /\ rightExpr <= Len(heap)
      BY <2>1, ArgumentTypes, ChainType DEF FirstRight
    <3>2. /\ 1 \in DOMAIN input.operands /\ input.operands[1] \in Int
          /\ DOMAIN input.parsed = 1..Len(input.parsed)
      BY ChainType
    <3>3. input.operands[1] > 0 => input.operands[1] \in DOMAIN input.parsed
      BY <3>2, ChainType DEF isBinary
    <3>4. input.operands[1] <= Len(heap)
      BY <2>0, <3>2, <3>3, Sizes
    <3>5. first \in Node /\ first.left <= Len(heap) /\ first.right <= Len(heap)
      BY <3>1, <3>2, <3>4 DEF Node
    <3> HIDE DEF first
    <3>6. heap' = Append(heap, first)
      BY <2>1 DEF FirstRight, first
    <3>7. heap' \in Seq(Node) /\ Len(heap') = Len(heap) + 1
      BY <3>5, <3>6, Sizes
    <3>8. Closed(heap')
      <4> SUFFICES ASSUME NEW m \in DOMAIN heap'
                   PROVE  heap'[m].left <= Len(heap') /\ heap'[m].right <= Len(heap')
        BY DEF Closed
      <4>1. CASE m = Len(heap) + 1
        BY <3>5, <3>6, <3>7, <4>1, Sizes DEF Node
      <4>2. CASE m # Len(heap) + 1
        <5>1. m \in 1..Len(heap) /\ heap'[m] = heap[m]
          BY <3>6, <3>7, <4>2, Sizes
        <5>2. heap[m].left \in Int /\ heap[m].right \in Int
          BY <5>1, Sizes, NodeAt
        <5>3. heap[m].left <= Len(heap) /\ heap[m].right <= Len(heap)
          BY <5>1, Sizes DEF Closed
        <5> QED
          BY <3>7, <5>1, <5>2, <5>3, Sizes
      <4> QED
        BY <4>1, <4>2
    <3> QED
      BY <2>0, <2>1, <3>7, <3>8, Sizes, ChainType DEF FirstRight, TypeOK
  <2>2. CASE AppendExpr
    BY <2>0, <2>2, Sizes DEF AppendExpr, Root, TypeOK
  <2>3. CASE SelfAsLeft
    <3>0. at # 0 /\ at' = 0 /\ taken' = taken + 1 /\ input' = input
      BY <2>3 DEF SelfAsLeft, Return
    <3>1. at \in DOMAIN heap /\ new = Len(heap) + 1 /\ rightExpr \in Int /\ rightExpr <= Len(heap)
      BY <2>3, ArgumentTypes, Sizes DEF SelfAsLeft, new
    <3>2. heap' \in Seq(Node) /\ Len(heap') = Len(heap) + 1
      BY <2>3, SelfAsLeftHeap
    <3>3. heap'[at].left <= Len(heap') /\ heap'[at].right <= Len(heap')
      BY <2>3, <3>1, <3>2, SelfAsLeftHeap, Sizes
    <3>4. heap[at].left <= Len(heap) /\ heap[at].right <= Len(heap) /\ heap[at].left \in Int /\ heap[at].right \in Int
      BY <3>1, Sizes, NodeAt DEF Closed
    <3>5. heap'[new].left <= Len(heap') /\ heap'[new].right <= Len(heap')
      BY <2>3, <3>2, <3>4, SelfAsLeftHeap, Sizes
    <3>6. Closed(heap')
      BY <2>3, <3>1, <3>2, <3>3, <3>5, SelfAsLeftHeap, StaysClosed, Sizes
    <3>9. /\ taken' \in 0..Len(input.ops) /\ Len(heap') = Len(input.parsed) + taken'
          /\ at' \in 0..Len(heap')
      <4>1. taken \in Nat /\ taken + 1 <= Len(input.ops) /\ Len(heap) = Len(input.parsed) + taken
        BY <2>0, <3>0, Sizes
      <4>2. Len(heap') \in Nat
        BY <3>2, Sizes
      <4>3. taken' \in 0..Len(input.ops)
        BY <2>0, <3>0, <4>1
      <4>4. Len(heap') = Len(input.parsed) + taken'
        <5> DEFINE old == Len(heap)
                   more == Len(heap')
                   base == Len(input.parsed)
        <5>1. base \in Nat /\ taken \in Nat /\ old = base + taken /\ more = old + 1 /\ taken' = taken + 1
          BY <2>0, <3>0, <3>2, <4>1
        <5> HIDE DEF old, more, base
        <5>2. more = base + taken'
          BY <5>1
        <5> QED
          BY <5>2 DEF more, base
      <4>5. at' \in 0..Len(heap')
        BY <3>0, <4>2
      <4> QED
        BY <4>3, <4>4, <4>5
    <3> QED
      BY <2>0, <3>0, <3>2, <3>6, <3>9 DEF TypeOK
  <2>4. CASE Descend
    <3>1. at \in DOMAIN heap
      BY <2>4, Sizes DEF Descend
    <3>2. heap[at].right \in Int /\ heap[at].right <= Len(heap)
      BY <3>1, Sizes, NodeAt DEF Closed
    <3> QED
      BY <2>0, <2>4, <3>2, Sizes DEF Descend, isBinary, TypeOK
  <2>5. CASE NewRight
    <3>0. at # 0 /\ at' = 0 /\ taken' = taken + 1 /\ input' = input
      BY <2>5 DEF NewRight, Return
    <3>1. at \in DOMAIN heap /\ new = Len(heap) + 1 /\ rightExpr \in Int /\ rightExpr <= Len(heap)
      BY <2>5, ArgumentTypes, Sizes DEF NewRight, new
    <3>2. heap' \in Seq(Node) /\ Len(heap') = Len(heap) + 1
      BY <2>5, NewRightHeap
    <3>3. heap[at].left <= Len(heap) /\ heap[at].right <= Len(heap) /\ heap[at].left \in Int /\ heap[at].right \in Int
      BY <3>1, Sizes, NodeAt DEF Closed
    <3>4. heap'[at].left = heap[at].left /\ heap'[at].right = new
      <4>1. heap[at] \in Node /\ heap'[at] = [heap[at] EXCEPT !.right = new]
        BY <2>5, <3>1, NewRightHeap, NodeAt, Sizes
      <4> QED
        BY <4>1 DEF Node
    <3>5. heap'[new].left <= Len(heap') /\ heap'[new].right <= Len(heap')
      BY <2>5, <3>1, <3>2, <3>3, NewRightHeap, Sizes
    <3>6. heap'[at].left <= Len(heap') /\ heap'[at].right <= Len(heap')
      BY <3>1, <3>2, <3>3, <3>4, Sizes
    <3>7. Closed(heap')
      <4>1. Closed(heap) /\ \A m \in DOMAIN heap \ {at} : heap'[m] = heap[m]
        BY <2>5, NewRightHeap, Sizes
      <4> QED
        BY <4>1, <3>1, <3>2, <3>5, <3>6, StaysClosed, Sizes
    <3>9. /\ taken' \in 0..Len(input.ops) /\ Len(heap') = Len(input.parsed) + taken'
          /\ at' \in 0..Len(heap')
      <4>1. taken \in Nat /\ taken + 1 <= Len(input.ops) /\ Len(heap) = Len(input.parsed) + taken
        BY <2>0, <3>0, Sizes
      <4>2. Len(heap') \in Nat
        BY <3>2, Sizes
      <4>3. taken' \in 0..Len(input.ops)
        BY <2>0, <3>0, <4>1
      <4>4. Len(heap') = Len(input.parsed) + taken'
        <5> DEFINE old == Len(heap)
                   more == Len(heap')
                   base == Len(input.parsed)
        <5>1. base \in Nat /\ taken \in Nat /\ old = base + taken /\ more = old + 1 /\ taken' = taken + 1
          BY <2>0, <3>0, <3>2, <4>1
        <5> HIDE DEF old, more, base
        <5>2. more = base + taken'
          BY <5>1
        <5> QED
          BY <5>2 DEF more, base
      <4>5. at' \in 0..Len(heap')
        BY <3>0, <4>2
      <4> QED
        BY <4>3, <4>4, <4>5
    <3> QED
      BY <2>0, <3>0, <3>2, <3>7, <3>9 DEF TypeOK
  <2>6. CASE UNCHANGED vars
    BY <2>6 DEF vars, TypeOK, Root
  <2> QED
    BY <2>1, <2>2, <2>3, <2>4, <2>5, <2>6 DEF Next, Finished
<1> QED
  BY <1>1, <1>2, PTL DEF Spec

-----------------------------------------------------------------------------
(* Operands are not among the objects the constructor makes.               *)
LEMMA OperandsNotBuilt ==
  ASSUME TypeOK, NEW i \in DOMAIN input.operands
  PROVE  input.operands[i] \in Int /\ input.operands[i] <= Len(input.parsed)
<1>1. DOMAIN input.operands = 1..(Len(input.ops) + 1) /\ DOMAIN input.parsed = 1..Len(input.parsed)
  BY ChainType
<1>2. input.operands[i] > 0 => input.operands[i] \in DOMAIN input.parsed
  BY ChainType DEF isBinary
<1> QED
  BY <1>1, <1>2, ChainType

LEMMA BuiltNodes ==
  ASSUME TypeOK
  PROVE  /\ Built \subseteq DOMAIN heap /\ Built \subseteq Nat
         /\ Built = (Len(input.parsed) + 1)..Len(heap) /\ Len(input.parsed) \in Nat
         /\ \A q \in Built : /\ heap[q].op \in BinaryOp /\ getOpPriority[heap[q].op] \in Int
                            /\ heap[q].left \in Int /\ heap[q].left <= Len(heap)
                            /\ heap[q].right \in Int /\ heap[q].right <= Len(heap)
<1>1. Len(input.parsed) \in Nat /\ Len(heap) \in Nat /\ DOMAIN heap = 1..Len(heap)
  BY ChainType, Sizes
<1>2. Built \subseteq 1..Len(heap)
  BY <1>1 DEF Built
<1>3. ASSUME NEW q \in Built
      PROVE  /\ heap[q].op \in BinaryOp /\ getOpPriority[heap[q].op] \in Int
             /\ heap[q].left \in Int /\ heap[q].left <= Len(heap)
             /\ heap[q].right \in Int /\ heap[q].right <= Len(heap)
  BY <1>1, <1>2, Sizes, NodeAt, PriorityType DEF Closed
<1> QED
  BY <1>1, <1>2, <1>3 DEF Built

LEMMA LeastNumber ==
  ASSUME NEW S, S \subseteq Nat, S # {}
  PROVE  \E x \in S : \A y \in S : x <= y
<1> DEFINE R == OpToRel(<, Nat)
<1>1. IsWellFoundedOn(R, Nat)
  BY NatLessThanWellFounded
<1>2. \A x \in Nat, y \in Nat : y < x => <<y, x>> \in R
  BY DEF OpToRel
<1> HIDE DEF R
<1>3. PICK x \in S : \A y \in S : ~ (<<y, x>> \in R)
  BY <1>1, WFMin
<1>4. \A y \in S : ~(y < x)
  BY <1>2, <1>3, Zenon
<1> QED
  BY <1>4

-----------------------------------------------------------------------------
(* The order of what was written.  Trees are finite: r ranks their objects *)
(* so that parts are below their whole.  That is what makes TreeIn and     *)
(* LeavesIn, which are recursive, have the values one reads off them.      *)
Ranked(h, N, r) ==
  /\ N \in Nat /\ r \in [DOMAIN h -> 0..N]
  /\ \A n \in DOMAIN h : \A part \in Parts(h, n) : part \in DOMAIN h => r[part] < r[n]
WellFounded(h) == \E N : \E r : Ranked(h, N, r)

LeavesAt(h, f, t) ==
  IF t \in DOMAIN h THEN f[h[t].left] \o <<h[t].op>> \o f[h[t].right] ELSE <<t>>
LeavesBelow(h, r, m, f) ==
  /\ f = [t \in Int |-> f[t]]
  /\ \A t \in Int : (t \in DOMAIN h => r[t] < m) => f[t] = LeavesAt(h, f, t)

LEMMA RankedParts ==
  ASSUME NEW h \in Seq(Node), NEW N, NEW r, Ranked(h, N, r), NEW t \in DOMAIN h
  PROVE  /\ h[t].left \in Int /\ h[t].right \in Int /\ h[t].op \in BinaryOp
         /\ t \in Int /\ r[t] \in Nat /\ r[t] <= N /\ N \in Nat
         /\ h[t].left \in DOMAIN h => r[h[t].left] \in Nat /\ r[h[t].left] < r[t]
         /\ h[t].right \in DOMAIN h => r[h[t].right] \in Nat /\ r[h[t].right] < r[t]
<1>1. h[t].left \in Int /\ h[t].right \in Int /\ h[t].op \in BinaryOp /\ t \in Int
  BY NodeAt
<1>2. \A n \in DOMAIN h : r[n] \in Nat /\ r[n] <= N
  BY DEF Ranked
<1>3. \A part \in Parts(h, t) : part \in DOMAIN h => r[part] < r[t]
  BY DEF Ranked
<1> QED
  BY <1>1, <1>2, <1>3 DEF Parts, Ranked

LEMMA LeavesExist ==
  ASSUME NEW h \in Seq(Node), NEW N, NEW r, Ranked(h, N, r), NEW n \in Nat
  PROVE  \E f : LeavesBelow(h, r, n, f)
<1> DEFINE Bad == {m \in Nat : ~ \E f : LeavesBelow(h, r, m, f)}
<1>1. SUFFICES ASSUME n \in Bad PROVE FALSE
  OBVIOUS
<1>2. PICK m \in Bad : \A y \in Bad : m <= y
  BY <1>1, LeastNumber
<1>3. CASE m = 0
  <2> DEFINE f == [t \in Int |-> <<t>>]
  <2>1. \A t \in Int : (t \in DOMAIN h => r[t] < 0) => t \notin DOMAIN h
    BY RankedParts
  <2>2. f = [t \in Int |-> f[t]] /\ \A t \in Int : f[t] = <<t>>
    OBVIOUS
  <2> HIDE DEF f
  <2>3. LeavesBelow(h, r, 0, f)
    BY <2>1, <2>2 DEF LeavesBelow, LeavesAt
  <2> QED
    BY <1>3, <2>3
<1>4. CASE m # 0
  <2>1. m - 1 \in Nat /\ m - 1 \notin Bad /\ m \in Nat
    BY <1>2, <1>4
  <2>2. PICK f : LeavesBelow(h, r, m - 1, f)
    BY <2>1
  <2> DEFINE Lower(t) == t \in DOMAIN h => r[t] < m - 1
             g == [t \in Int |-> IF Lower(t) THEN f[t] ELSE LeavesAt(h, f, t)]
  <2>3. \A t \in Int : g[t] = IF Lower(t) THEN f[t] ELSE LeavesAt(h, f, t)
    OBVIOUS
  <2>4. g = [t \in Int |-> g[t]]
    OBVIOUS
  <2> HIDE DEF g
  <2>5. ASSUME NEW t \in Int, t \in DOMAIN h => r[t] < m PROVE g[t] = LeavesAt(h, g, t)
    <3>1. CASE t \notin DOMAIN h
      <4>1. Lower(t) /\ f[t] = LeavesAt(h, f, t)
        BY <2>2, <3>1 DEF LeavesBelow
      <4> QED
        BY <2>3, <3>1, <4>1 DEF LeavesAt
    <3>2. CASE t \in DOMAIN h
      <4>1. h[t].left \in Int /\ h[t].right \in Int
        BY <3>2, RankedParts
      <4>2. Lower(h[t].left) /\ Lower(h[t].right)
        <5>1. /\ r[t] \in Nat /\ r[t] < m
              /\ h[t].left \in DOMAIN h => r[h[t].left] \in Nat /\ r[h[t].left] < r[t]
              /\ h[t].right \in DOMAIN h => r[h[t].right] \in Nat /\ r[h[t].right] < r[t]
          BY <2>5, <3>2, RankedParts
        <5> QED
          BY <2>1, <5>1
      <4>3. g[h[t].left] = f[h[t].left] /\ g[h[t].right] = f[h[t].right]
        BY <2>3, <4>1, <4>2
      <4>4. LeavesAt(h, g, t) = LeavesAt(h, f, t)
        BY <3>2, <4>3 DEF LeavesAt
      <4>5. g[t] = LeavesAt(h, f, t)
        <5>1. Lower(t) => f[t] = LeavesAt(h, f, t)
          BY <2>2 DEF LeavesBelow
        <5> QED
          BY <2>3, <5>1
      <4> QED
        BY <4>4, <4>5
    <3> QED
      BY <3>1, <3>2
  <2>6. LeavesBelow(h, r, m, g)
    BY <2>4, <2>5 DEF LeavesBelow
  <2> QED
    BY <2>6
<1> QED
  BY <1>3, <1>4

LEMMA LeavesEquation ==
  ASSUME NEW h \in Seq(Node), WellFounded(h), NEW t \in Int
  PROVE  LeavesIn(h, t) =
           IF t \in DOMAIN h THEN LeavesIn(h, h[t].left) \o <<h[t].op>> \o LeavesIn(h, h[t].right)
           ELSE <<t>>
<1> DEFINE Q(f) == f = [u \in Int |-> IF u \in DOMAIN h THEN f[h[u].left] \o <<h[u].op>> \o f[h[u].right] ELSE <<u>>]
           c == CHOOSE f : Q(f)
<1>1. \A u : LeavesIn(h, u) = c[u]
  BY DEF LeavesIn
<1>2. PICK N, r : Ranked(h, N, r)
  BY DEF WellFounded
<1>3. N + 1 \in Nat
  BY <1>2 DEF Ranked
<1>4. PICK f : LeavesBelow(h, r, N + 1, f)
  BY <1>2, <1>3, LeavesExist
<1>5. \A u \in Int : f[u] = LeavesAt(h, f, u)
  <2>1. \A u \in DOMAIN h : r[u] < N + 1
    BY <1>2, RankedParts
  <2> QED
    BY <1>4, <2>1 DEF LeavesBelow
<1>6. Q(f)
  BY <1>4, <1>5 DEF LeavesBelow, LeavesAt
<1>7. Q(c)
  BY <1>6
<1> HIDE DEF c
<1>8. c[t] = IF t \in DOMAIN h THEN c[h[t].left] \o <<h[t].op>> \o c[h[t].right] ELSE <<t>>
  BY <1>7
<1>9. CASE t \in DOMAIN h
  <2>1. LeavesIn(h, h[t].left) = c[h[t].left] /\ LeavesIn(h, h[t].right) = c[h[t].right]
    BY <1>1
  <2> QED
    BY <1>1, <1>8, <1>9, <2>1
<1>10. CASE t \notin DOMAIN h
  BY <1>1, <1>8, <1>10
<1> QED
  BY <1>9, <1>10

Item == BinaryOp \cup Int
LEMMA LeavesType ==
  ASSUME NEW h \in Seq(Node), WellFounded(h), NEW u \in Int
  PROVE  LeavesIn(h, u) \in Seq(Item)
<1>1. PICK N, r : Ranked(h, N, r)
  BY DEF WellFounded
<1>2. \A t \in Int \ DOMAIN h : LeavesIn(h, t) \in Seq(Item)
  <2> SUFFICES ASSUME NEW t \in Int \ DOMAIN h PROVE LeavesIn(h, t) \in Seq(Item)
    OBVIOUS
  <2>1. LeavesIn(h, t) = <<t>> /\ t \in Item
    BY LeavesEquation DEF Item
  <2> QED
    BY <2>1
<1> DEFINE Bad == {t \in DOMAIN h : LeavesIn(h, t) \notin Seq(Item)}
           Ranks == {r[t] : t \in Bad}
<1>3. Bad = {}
  <2> SUFFICES ASSUME Bad # {} PROVE FALSE
    OBVIOUS
  <2>1. Ranks \subseteq Nat /\ Ranks # {}
    BY <1>1, RankedParts
  <2>2. PICK m \in Ranks : \A y \in Ranks : m <= y
    BY <2>1, LeastNumber
  <2>3. PICK t \in Bad : m = r[t]
    BY <2>2
  <2>4. /\ h[t].left \in Int /\ h[t].right \in Int /\ h[t].op \in BinaryOp
        /\ t \in DOMAIN h /\ t \in Int /\ r[t] \in Nat
        /\ h[t].left \in DOMAIN h => r[h[t].left] \in Nat /\ r[h[t].left] < r[t]
        /\ h[t].right \in DOMAIN h => r[h[t].right] \in Nat /\ r[h[t].right] < r[t]
    BY <1>1, <2>3, RankedParts
  <2>5. h[t].left \notin Bad /\ h[t].right \notin Bad
    <3>1. \A v \in Bad : r[t] <= r[v]
      BY <2>2, <2>3
    <3>2. \A v \in Bad : v \in DOMAIN h
      OBVIOUS
    <3> HIDE DEF Bad
    <3> QED
      BY <2>4, <3>1, <3>2
  <2>6. LeavesIn(h, h[t].left) \in Seq(Item) /\ LeavesIn(h, h[t].right) \in Seq(Item)
    BY <1>2, <2>4, <2>5
  <2>7. <<h[t].op>> \in Seq(Item)
    BY <2>4 DEF Item
  <2>8. LeavesIn(h, t) = LeavesIn(h, h[t].left) \o <<h[t].op>> \o LeavesIn(h, h[t].right)
    BY <2>4, LeavesEquation
  <2>9. LeavesIn(h, h[t].left) \o <<h[t].op>> \in Seq(Item)
    BY <2>6, <2>7, ConcatProperties
  <2>10. LeavesIn(h, t) \in Seq(Item)
    BY <2>6, <2>8, <2>9, ConcatProperties
  <2> QED
    BY <2>3, <2>10
<1> QED
  BY <1>2, <1>3

LEMMA ParsedWellFounded ==
  ASSUME NEW h \in Seq(Node), Closed(h), NoneInItself(h)
  PROVE  WellFounded(h)
<1> DEFINE N == Len(h)
           r == [n \in DOMAIN h |-> Cardinality(ContentsIn(h, n))]
<1>1. DOMAIN h = 1..Len(h) /\ N \in Nat
  OBVIOUS
<1>2. IsFiniteSet(DOMAIN h) /\ Cardinality(DOMAIN h) = N
  BY <1>1, FS_Interval
<1>3. ASSUME NEW n \in DOMAIN h
      PROVE  /\ IsFiniteSet(ContentsIn(h, n)) /\ Cardinality(ContentsIn(h, n)) \in 0..N
             /\ n \in ContentsIn(h, n)
  <2>1. ContentsIn(h, n) \subseteq DOMAIN h /\ n \in ContentsIn(h, n)
    BY DEF ContentsIn
  <2>2. IsFiniteSet(ContentsIn(h, n)) /\ Cardinality(ContentsIn(h, n)) <= N
    BY <1>2, <2>1, FS_Subset
  <2>3. Cardinality(ContentsIn(h, n)) \in Nat
    BY <2>2, FS_CardinalityType
  <2> QED
    BY <1>1, <2>1, <2>2, <2>3
<1>4. ASSUME NEW n \in DOMAIN h, NEW part \in Parts(h, n), part \in DOMAIN h
      PROVE  r[part] < r[n]
  <2>1. isBinary(part)
    BY <1>1, <1>4 DEF isBinary
  <2>2. n \notin ContentsIn(h, part)
    BY <2>1 DEF NoneInItself
  <2>3. ContentsIn(h, part) \subseteq ContentsIn(h, n)
    BY <1>4, <2>1 DEF ContentsIn, HasParts
  <2>4. /\ Cardinality(ContentsIn(h, part)) <= Cardinality(ContentsIn(h, n))
        /\ Cardinality(ContentsIn(h, part)) # Cardinality(ContentsIn(h, n))
    BY <1>3, <1>4, <2>2, <2>3, FS_Subset
  <2>5. Cardinality(ContentsIn(h, part)) \in Nat /\ Cardinality(ContentsIn(h, n)) \in Nat
    BY <1>1, <1>3, <1>4
  <2> QED
    BY <1>4, <2>4, <2>5
<1>5. r \in [DOMAIN h -> 0..N]
  BY <1>3
<1>6. Ranked(h, N, r)
  BY <1>1, <1>4, <1>5 DEF Ranked
<1> QED
  BY <1>6 DEF WellFounded

(* What was written, from its beginning to any operand.                    *)
WrittenAt(c, g, i) ==
  IF i = 1 THEN LeavesIn(c.parsed, c.operands[1])
  ELSE g[i - 1] \o <<c.ops[i - 1]>> \o LeavesIn(c.parsed, c.operands[i])
WrittenTo(c, n, g) ==
  /\ g = [i \in 1..n |-> g[i]]
  /\ \A i \in 1..n : g[i] = WrittenAt(c, g, i)

LEMMA WrittenExists ==
  ASSUME NEW c, NEW n \in Nat
  PROVE  \E g : WrittenTo(c, n, g)
<1> DEFINE Bad == {m \in Nat : ~ \E g : WrittenTo(c, m, g)}
<1>1. SUFFICES ASSUME n \in Bad PROVE FALSE
  OBVIOUS
<1>2. PICK m \in Bad : \A y \in Bad : m <= y
  BY <1>1, LeastNumber
<1>3. CASE m = 0
  <2>1. WrittenTo(c, 0, [i \in 1..0 |-> i])
    BY DEF WrittenTo
  <2> QED
    BY <1>3, <2>1
<1>4. CASE m # 0
  <2>1. m - 1 \in Nat /\ m - 1 \notin Bad /\ m \in Nat
    BY <1>2, <1>4
  <2>2. PICK g : WrittenTo(c, m - 1, g)
    BY <2>1
  <2> DEFINE h == [i \in 1..m |-> IF i = m THEN WrittenAt(c, g, m) ELSE g[i]]
  <2>3. \A i \in 1..m : h[i] = IF i = m THEN WrittenAt(c, g, m) ELSE g[i]
    OBVIOUS
  <2>4. h = [i \in 1..m |-> h[i]]
    OBVIOUS
  <2> HIDE DEF h
  <2>5. ASSUME NEW i \in 1..m PROVE h[i] = WrittenAt(c, h, i)
    <3>1. i # 1 => h[i - 1] = g[i - 1]
      BY <2>1, <2>3
    <3>2. WrittenAt(c, h, i) = WrittenAt(c, g, i)
      BY <3>1 DEF WrittenAt
    <3>3. i # m => g[i] = WrittenAt(c, g, i)
      BY <2>1, <2>2 DEF WrittenTo
    <3> QED
      BY <2>3, <3>2, <3>3
  <2>6. WrittenTo(c, m, h)
    BY <2>4, <2>5 DEF WrittenTo
  <2> QED
    BY <2>6
<1> QED
  BY <1>3, <1>4

LEMMA WrittenEquation ==
  ASSUME NEW c \in Chain
  PROVE  /\ Written(c, 1) = LeavesIn(c.parsed, c.operands[1])
         /\ \A i \in 2..(Len(c.ops) + 1) :
              Written(c, i) = Written(c, i - 1) \o <<c.ops[i - 1]>> \o LeavesIn(c.parsed, c.operands[i])
<1>1. /\ DOMAIN c.operands = 1..(Len(c.ops) + 1) /\ Len(c.ops) \in Nat
      /\ Len(c.ops) + 1 \in Nat /\ 1 \in 1..(Len(c.ops) + 1)
      /\ \A i \in 2..(Len(c.ops) + 1) : i - 1 \in 1..(Len(c.ops) + 1) /\ i \in 1..(Len(c.ops) + 1) /\ i # 1
  BY DEF Chain
<1> DEFINE n == Len(c.ops) + 1
           Q(f) == f = [i \in DOMAIN c.operands |->
                     IF i = 1 THEN LeavesIn(c.parsed, c.operands[1])
                     ELSE f[i - 1] \o <<c.ops[i - 1]>> \o LeavesIn(c.parsed, c.operands[i])]
           w == CHOOSE f : Q(f)
<1>2. \A i : Written(c, i) = w[i]
  BY DEF Written
<1>3. PICK g : WrittenTo(c, n, g)
  BY <1>1, WrittenExists
<1>4. Q(g)
  BY <1>1, <1>3 DEF WrittenTo, WrittenAt
<1>5. Q(w)
  BY <1>4
<1> HIDE DEF w
<1>6. \A i \in 1..n : w[i] = WrittenAt(c, w, i)
  BY <1>1, <1>5 DEF WrittenAt
<1> QED
  BY <1>1, <1>2, <1>6 DEF WrittenAt

(* The way of appendExpr from the root down to `this` (a): the objects     *)
(* whose right child leads on to a, and a.                                 *)
Way(h, P, root, a) ==
  /\ P \subseteq DOMAIN h /\ root \in P /\ a \in P
  /\ \A n \in DOMAIN h : h[n].left \notin P /\ (h[n].right \in P <=> n \in P \ {a})
  /\ \A q \in P \ {root} : ~ Unowned(h, q)

(* What the two steps that write do, with the new operator o and the       *)
(* operand x behind it.                                                    *)
TookAsLeft(h, h1, a, o, x) ==
  /\ h1[a].op = o /\ h1[a].left = Len(h) + 1 /\ h1[a].right = x
  /\ h1[Len(h) + 1] = h[a]
HungRight(h, h1, a, o, x) ==
  /\ ~isBinary(h[a].right)
  /\ h1[a].op = h[a].op /\ h1[a].left = h[a].left /\ h1[a].right = Len(h) + 1
  /\ h1[Len(h) + 1].op = o /\ h1[Len(h) + 1].left = h[a].right /\ h1[Len(h) + 1].right = x
Wrote(h, h1, a, o, x) ==
  /\ h1 \in Seq(Node) /\ Len(h1) = Len(h) + 1
  /\ \A n \in DOMAIN h \ {a} : h1[n] = h[n]
  /\ TookAsLeft(h, h1, a, o, x) \/ HungRight(h, h1, a, o, x)
  /\ o \in BinaryOp /\ x \in Int /\ x <= Len(h)
  /\ isBinary(x) => Unowned(h, x)

LEMMA WroteFacts ==
  ASSUME NEW h \in Seq(Node), Closed(h), NEW a \in DOMAIN h, NEW h1, NEW o, NEW x, Wrote(h, h1, a, o, x)
  PROVE  /\ DOMAIN h = 1..Len(h) /\ Len(h) \in Nat /\ DOMAIN h1 = DOMAIN h \cup {Len(h) + 1}
         /\ Len(h) + 1 \notin DOMAIN h
         /\ (x \in DOMAIN h <=> isBinary(x)) /\ (x \in DOMAIN h1 <=> isBinary(x))
         /\ \A n \in DOMAIN h :
              /\ n \in Int /\ isBinary(n)
              /\ h[n].left \in Int /\ h[n].right \in Int
              /\ h[n].left # Len(h) + 1 /\ h[n].right # Len(h) + 1
              /\ isBinary(h[n].left) <=> h[n].left \in DOMAIN h
              /\ isBinary(h[n].right) <=> h[n].right \in DOMAIN h
<1>1. /\ DOMAIN h = 1..Len(h) /\ Len(h) \in Nat
      /\ DOMAIN h1 = 1..Len(h1) /\ Len(h1) = Len(h) + 1 /\ x \in Int /\ x <= Len(h)
  BY DEF Wrote
<1>2. DOMAIN h1 = DOMAIN h \cup {Len(h) + 1} /\ Len(h) + 1 \notin DOMAIN h
  <2> DEFINE l == Len(h)
  <2>1. l \in Nat /\ DOMAIN h = 1..l /\ DOMAIN h1 = 1..(l + 1)
    BY <1>1
  <2> HIDE DEF l
  <2>2. DOMAIN h1 = DOMAIN h \cup {l + 1} /\ l + 1 \notin DOMAIN h
    BY <2>1
  <2> QED
    BY <2>2 DEF l
<1>3. ASSUME NEW n \in DOMAIN h
      PROVE  /\ n \in Int /\ isBinary(n)
             /\ h[n].left \in Int /\ h[n].right \in Int
             /\ h[n].left # Len(h) + 1 /\ h[n].right # Len(h) + 1
             /\ isBinary(h[n].left) <=> h[n].left \in DOMAIN h
             /\ isBinary(h[n].right) <=> h[n].right \in DOMAIN h
  <2>1. h[n].left \in Int /\ h[n].right \in Int
    BY <1>1, NodeAt
  <2>2. h[n].left <= Len(h) /\ h[n].right <= Len(h)
    BY DEF Closed
  <2> QED
    BY <1>1, <2>1, <2>2 DEF isBinary
<1>4. (x \in DOMAIN h <=> isBinary(x)) /\ (x \in DOMAIN h1 <=> isBinary(x))
  BY <1>1 DEF isBinary
<1> QED
  BY <1>1, <1>2, <1>3, <1>4

LEMMA StaysWellFounded ==
  ASSUME NEW h \in Seq(Node), Closed(h), WellFounded(h),
         NEW P, NEW root, NEW a, Way(h, P, root, a),
         NEW h1, NEW o, NEW x, Wrote(h, h1, a, o, x), x \notin P
  PROVE  WellFounded(h1)
<1>1. PICK N, r : Ranked(h, N, r)
  BY DEF WellFounded
<1>2. N \in Nat /\ a \in DOMAIN h /\ a \in P /\ P \subseteq DOMAIN h
  BY <1>1 DEF Ranked, Way
<1> DEFINE new1 == Len(h) + 1
           s == [n \in DOMAIN h1 |->
                   IF n = new1 THEN N + 1 ELSE IF n \in P THEN r[n] + N + 2 ELSE r[n]]
<1>3. /\ DOMAIN h1 = DOMAIN h \cup {new1} /\ new1 \notin DOMAIN h
      /\ x # new1 /\ (x \in DOMAIN h1 <=> x \in DOMAIN h)
      /\ \A n \in DOMAIN h : h[n].left # new1 /\ h[n].right # new1 /\ n # new1
      /\ \A n \in DOMAIN h : /\ h[n].left \in DOMAIN h1 => h[n].left \in DOMAIN h
                             /\ h[n].right \in DOMAIN h1 => h[n].right \in DOMAIN h
      /\ \A n \in DOMAIN h : ~isBinary(h[n].right) => h[n].right \notin DOMAIN h
  <2> HIDE DEF s
  <2>1. DOMAIN h1 = DOMAIN h \cup {new1} /\ new1 \notin DOMAIN h /\ x # new1
    <3>1. a \in DOMAIN h
      BY <1>2
    <3>2. DOMAIN h1 = DOMAIN h \cup {Len(h) + 1}
      BY <3>1, WroteFacts
    <3>3. new1 \notin DOMAIN h
      BY <3>1, WroteFacts
    <3>4. x # new1
      BY DEF Wrote
    <3> QED
      BY <3>2, <3>3, <3>4
  <2>2. x \in DOMAIN h1 <=> x \in DOMAIN h
    BY <2>1
  <2>3. \A n \in DOMAIN h : h[n].left # new1 /\ h[n].right # new1 /\ n # new1
    <3>1. \A n \in DOMAIN h : h[n].left # Len(h) + 1 /\ h[n].right # Len(h) + 1
      BY <1>2, WroteFacts
    <3> QED
      BY <2>1, <3>1
  <2>4. \A n \in DOMAIN h : ~isBinary(h[n].right) => h[n].right \notin DOMAIN h
    BY <1>2, WroteFacts
  <2> HIDE DEF new1
  <2> QED
    BY <2>1, <2>2, <2>3, <2>4
<1>4. \A n \in DOMAIN h : r[n] \in Nat /\ r[n] <= N
  BY <1>1, RankedParts
<1>5. \A n \in DOMAIN h1 : s[n] = IF n = new1 THEN N + 1 ELSE IF n \in P THEN r[n] + N + 2 ELSE r[n]
  OBVIOUS
<1>7. \A n \in DOMAIN h1 : s[n] \in 0..(2 * N + 2)
  <2> HIDE DEF s, new1
  <2>1. ASSUME NEW n \in DOMAIN h1 PROVE s[n] \in 0..(2 * N + 2)
    <3>1. CASE n = new1
      BY <1>2, <1>5, <3>1
    <3>2. CASE n # new1
      <4>1. n \in DOMAIN h /\ r[n] \in Nat /\ r[n] <= N
        BY <1>3, <1>4, <3>2
      <4>2. s[n] = r[n] \/ s[n] = r[n] + N + 2
        BY <1>5, <3>2
      <4> QED
        BY <1>2, <4>1, <4>2
    <3> QED
      BY <3>1, <3>2
  <2> QED
    BY <2>1
<1>8. s = [n \in DOMAIN h1 |-> s[n]]
  OBVIOUS
<1> HIDE DEF s
<1>9. \A n \in DOMAIN h : s[n] = IF n \in P THEN r[n] + N + 2 ELSE r[n]
  BY <1>3, <1>5
<1>10. s[new1] = N + 1
  BY <1>3, <1>5
<1>11. ASSUME NEW n \in DOMAIN h
       PROVE  /\ h[n].left \in DOMAIN h => /\ s[h[n].left] = r[h[n].left]
                                           /\ r[h[n].left] < r[n] /\ r[h[n].left] \in Nat
              /\ h[n].right \in DOMAIN h => r[h[n].right] < r[n] /\ r[h[n].right] \in Nat
              /\ h[n].left \notin P /\ (h[n].right \in P <=> n \in P \ {a})
              /\ s[n] >= r[n]
  <2>1. h[n].left \notin P /\ (h[n].right \in P <=> n \in P \ {a})
    BY DEF Way
  <2>2. s[n] >= r[n]
    BY <1>2, <1>4, <1>9
  <2> QED
    BY <1>1, <1>9, <2>1, <2>2, RankedParts
<1> HIDE DEF new1
<1>12. ASSUME NEW n \in DOMAIN h1, NEW part \in Parts(h1, n), part \in DOMAIN h1
       PROVE  s[part] < s[n]
  <2>1. CASE n \in DOMAIN h \ {a}
    <3>1. h1[n] = h[n]
      BY <2>1 DEF Wrote
    <3>2. part = h[n].left \/ part = h[n].right
      BY <3>1 DEF Parts
    <3>3. part \in DOMAIN h
      BY <1>3, <1>12, <2>1, <3>2
    <3>4. CASE part = h[n].left
      <4>1. s[part] = r[part] /\ r[part] < r[n] /\ s[n] >= r[n] /\ r[part] \in Nat /\ n \in DOMAIN h
        BY <1>11, <2>1, <3>3, <3>4
      <4>2. s[n] \in Int /\ r[n] \in Int
        BY <1>2, <1>4, <1>9, <4>1
      <4> QED
        BY <4>1, <4>2
    <3>5. CASE part = h[n].right
      <4>1. part \in P <=> n \in P
        BY <1>11, <2>1, <3>5
      <4> QED
        BY <1>2, <1>4, <1>9, <1>11, <2>1, <3>3, <3>5, <4>1
    <3> QED
      BY <3>2, <3>4, <3>5
  <2>2. s[a] = r[a] + N + 2 /\ r[a] \in Nat /\ r[a] <= N
    BY <1>2, <1>4, <1>9
  <2>3. x \in DOMAIN h => s[x] \in Nat /\ s[x] <= N
    BY <1>4, <1>9
  <2>4. h[a].left \in DOMAIN h => s[h[a].left] \in Nat /\ s[h[a].left] <= N
    BY <1>2, <1>4, <1>11
  <2>5. h[a].right \in DOMAIN h => s[h[a].right] \in Nat /\ s[h[a].right] <= N
    BY <1>2, <1>4, <1>9, <1>11
  <2>6. CASE TookAsLeft(h, h1, a, o, x)
    <3>1. h1[a].left = new1 /\ h1[a].right = x /\ h1[new1] = h[a]
      BY <2>6 DEF TookAsLeft, new1
    <3>2. CASE n = a
      <4>1. part = new1 \/ part = x
        BY <3>1, <3>2 DEF Parts
      <4> QED
        BY <1>2, <1>3, <1>10, <1>12, <2>2, <2>3, <3>2, <4>1
    <3>3. CASE n = new1
      <4>1. part = h[a].left \/ part = h[a].right
        BY <3>1, <3>3 DEF Parts
      <4>2. part \in DOMAIN h
        BY <1>2, <1>3, <1>12, <4>1
      <4> QED
        BY <1>2, <1>10, <2>4, <2>5, <3>3, <4>1, <4>2
    <3> QED
      BY <1>3, <2>1, <3>2, <3>3
  <2>7. CASE HungRight(h, h1, a, o, x)
    <3>1. /\ h1[a].left = h[a].left /\ h1[a].right = new1
          /\ h[a].right \notin DOMAIN h
          /\ h1[new1].left = h[a].right /\ h1[new1].right = x
      BY <1>2, <1>3, <2>7 DEF HungRight, new1
    <3>2. CASE n = a
      <4>1. part = new1 \/ part = h[a].left
        BY <3>1, <3>2 DEF Parts
      <4>2. part = h[a].left => part \in DOMAIN h
        BY <1>2, <1>3, <1>12
      <4> QED
        BY <1>2, <1>10, <2>2, <2>4, <3>2, <4>1, <4>2
    <3>3. CASE n = new1
      <4>1. part = x /\ part \in DOMAIN h
        BY <1>2, <1>3, <1>12, <3>1, <3>3 DEF Parts
      <4> QED
        BY <1>2, <1>10, <2>3, <3>3, <4>1
    <3> QED
      BY <1>3, <2>1, <3>2, <3>3
  <2> QED
    BY <2>6, <2>7 DEF Wrote
<1>13. s \in [DOMAIN h1 -> 0..(2 * N + 2)] /\ 2 * N + 2 \in Nat
  BY <1>2, <1>7, <1>8
<1>14. Ranked(h1, 2 * N + 2, s)
  BY <1>12, <1>13 DEF Ranked
<1> QED
  BY <1>14 DEF WellFounded

LEMMA StaysOwned ==
  ASSUME NEW h \in Seq(Node), Closed(h), OwnedOnce(h), NEW a \in DOMAIN h,
         NEW h1, NEW o, NEW x, Wrote(h, h1, a, o, x)
  PROVE  /\ OwnedOnce(h1)
         /\ \A y \in DOMAIN h \ {x} : Unowned(h, y) => Unowned(h1, y)
<1> DEFINE new1 == Len(h) + 1
<1>1. /\ DOMAIN h1 = DOMAIN h \cup {new1} /\ new1 \notin DOMAIN h
      /\ \A n \in DOMAIN h : /\ h[n].left # new1 /\ h[n].right # new1
                             /\ ~isBinary(h[n].right) => h[n].right \notin DOMAIN h
  <2>1. DOMAIN h1 = DOMAIN h \cup {new1} /\ new1 \notin DOMAIN h
    BY WroteFacts
  <2> QED
    BY <2>1, WroteFacts
<1>2. x # new1
  BY DEF Wrote
<1>3. \A n \in DOMAIN h : isBinary(x) => h[n].left # x /\ h[n].right # x
  BY DEF Wrote, Unowned, Parts
<1>4. \A n \in DOMAIN h \ {a} : h1[n] = h[n]
  BY DEF Wrote
<1>5. \A m, n \in DOMAIN h :
        /\ isBinary(h[m].left) => h[m].left # h[n].right /\ (h[m].left = h[n].left => m = n)
        /\ isBinary(h[m].right) => (h[m].right = h[n].right => m = n)
  BY DEF OwnedOnce
<1>6. CASE TookAsLeft(h, h1, a, o, x)
  <2>1. h1[a].left = new1 /\ h1[a].right = x /\ h1[new1] = h[a]
    BY <1>6 DEF TookAsLeft
  <2> HIDE DEF new1
  <2>2. ASSUME NEW m \in DOMAIN h1, m # a
        PROVE  \E n \in DOMAIN h : h1[m] = h[n] /\ n = (IF m = new1 THEN a ELSE m)
    BY <1>1, <1>4, <2>1, <2>2
  <2>3. ASSUME NEW m \in DOMAIN h1, NEW n \in DOMAIN h1
        PROVE  /\ isBinary(h1[m].left) => h1[m].left # h1[n].right /\ (h1[m].left = h1[n].left => m = n)
               /\ isBinary(h1[m].right) => (h1[m].right = h1[n].right => m = n)
    <3>1. CASE m = a /\ n = a
      BY <1>2, <2>1, <3>1
    <3>2. CASE m = a /\ n # a
      <4>1. PICK q \in DOMAIN h : h1[n] = h[q]
        BY <2>2, <3>2
      <4> QED
        BY <1>1, <1>3, <2>1, <3>2, <4>1
    <3>3. CASE m # a /\ n = a
      <4>1. PICK q \in DOMAIN h : h1[m] = h[q]
        BY <2>2, <3>3
      <4> QED
        BY <1>1, <1>3, <2>1, <3>3, <4>1
    <3>4. CASE m # a /\ n # a
      <4>1. PICK p \in DOMAIN h : h1[m] = h[p] /\ p = (IF m = new1 THEN a ELSE m)
        BY <2>2, <3>4
      <4>2. PICK q \in DOMAIN h : h1[n] = h[q] /\ q = (IF n = new1 THEN a ELSE n)
        BY <2>2, <3>4
      <4>3. p = q => m = n
        BY <3>4, <4>1, <4>2
      <4> QED
        BY <1>5, <4>1, <4>2, <4>3
    <3> QED
      BY <3>1, <3>2, <3>3, <3>4
  <2>4. ASSUME NEW y \in DOMAIN h \ {x}, Unowned(h, y) PROVE Unowned(h1, y)
    <3>1. ASSUME NEW n \in DOMAIN h1 PROVE h1[n].left # y /\ h1[n].right # y
      <4>1. CASE n = a
        BY <1>1, <2>1, <4>1
      <4>2. CASE n # a
        <5>1. PICK q \in DOMAIN h : h1[n] = h[q]
          BY <2>2, <4>2
        <5> QED
          BY <2>4, <5>1 DEF Unowned, Parts
      <4> QED
        BY <4>1, <4>2
    <3> QED
      BY <3>1 DEF Unowned, Parts
  <2> QED
    BY <2>3, <2>4 DEF OwnedOnce
<1>7. CASE HungRight(h, h1, a, o, x)
  <2>1. /\ ~isBinary(h[a].right) /\ h1[a].left = h[a].left /\ h1[a].right = new1
        /\ h1[new1].left = h[a].right /\ h1[new1].right = x
    BY <1>7 DEF HungRight
  <2> HIDE DEF new1
  <2>2. /\ \A m \in DOMAIN h : h1[m].left = h[m].left
        /\ \A m \in DOMAIN h \ {a} : h1[m].right = h[m].right
    BY <1>4, <2>1
  <2>3. ASSUME NEW m \in DOMAIN h1, NEW n \in DOMAIN h1
        PROVE  /\ isBinary(h1[m].left) => h1[m].left # h1[n].right /\ (h1[m].left = h1[n].left => m = n)
               /\ isBinary(h1[m].right) => (h1[m].right = h1[n].right => m = n)
    <3>1. ASSUME isBinary(h1[m].left) PROVE m \in DOMAIN h /\ h1[m].left = h[m].left /\ h1[m].left # new1
      BY <1>1, <2>1, <2>2, <3>1
    <3>2. ASSUME isBinary(h1[m].left), h1[m].left = h1[n].left PROVE m = n
      <4>1. n \in DOMAIN h /\ h1[n].left = h[n].left
        BY <1>1, <2>1, <2>2, <3>2
      <4> QED
        BY <1>5, <3>1, <3>2, <4>1
    <3>3. ASSUME isBinary(h1[m].left) PROVE h1[m].left # h1[n].right
      <4>1. CASE n = a
        BY <2>1, <3>1, <3>3, <4>1
      <4>2. CASE n = new1
        BY <1>3, <2>1, <3>1, <3>3, <4>2
      <4>3. CASE n \in DOMAIN h \ {a}
        BY <1>5, <2>2, <3>1, <3>3, <4>3
      <4> QED
        BY <1>1, <4>1, <4>2, <4>3
    <3>4. ASSUME isBinary(h1[m].right), h1[m].right = h1[n].right PROVE m = n
      <4>1. CASE m = a
        BY <1>1, <1>2, <2>1, <2>2, <3>4, <4>1
      <4>2. CASE m = new1
        BY <1>1, <1>2, <1>3, <2>1, <2>2, <3>4, <4>2
      <4>3. CASE m \in DOMAIN h \ {a}
        BY <1>1, <1>3, <1>5, <2>1, <2>2, <3>4, <4>3
      <4> QED
        BY <1>1, <4>1, <4>2, <4>3
    <3> QED
      BY <3>2, <3>3, <3>4
  <2>4. ASSUME NEW y \in DOMAIN h \ {x}, Unowned(h, y) PROVE Unowned(h1, y)
    <3>1. ASSUME NEW n \in DOMAIN h1 PROVE h1[n].left # y /\ h1[n].right # y
      <4>1. \A q \in DOMAIN h : h[q].left # y /\ h[q].right # y
        BY <2>4 DEF Unowned, Parts
      <4> QED
        BY <1>1, <2>1, <2>2, <4>1
    <3> QED
      BY <3>1 DEF Unowned, Parts
  <2> QED
    BY <2>3, <2>4 DEF OwnedOnce
<1> QED
  BY <1>6, <1>7 DEF Wrote

(* Leaves that have the same objects above them are the same.              *)
LEMMA LeavesAgree ==
  ASSUME NEW h \in Seq(Node), WellFounded(h), NEW h1 \in Seq(Node), WellFounded(h1),
         NEW S \in SUBSET Int,
         \A t \in S : /\ t \in DOMAIN h <=> t \in DOMAIN h1
                      /\ t \in DOMAIN h => h1[t] = h[t] /\ h[t].left \in S /\ h[t].right \in S
  PROVE  \A t \in S : LeavesIn(h1, t) = LeavesIn(h, t)
<1>1. PICK N, r : Ranked(h, N, r)
  BY DEF WellFounded
<1>4. \A t \in S : t \in Int /\ (t \in DOMAIN h <=> t \in DOMAIN h1)
  OBVIOUS
<1>5. \A t \in S : t \in DOMAIN h => h1[t] = h[t] /\ h[t].left \in S /\ h[t].right \in S
  BY Zenon
<1>2. \A t \in S \ DOMAIN h : LeavesIn(h1, t) = LeavesIn(h, t)
  <2> SUFFICES ASSUME NEW t \in S \ DOMAIN h PROVE LeavesIn(h1, t) = LeavesIn(h, t)
    OBVIOUS
  <2>0. t \in Int /\ t \notin DOMAIN h /\ t \notin DOMAIN h1
    BY <1>4
  <2>1. LeavesIn(h, t) = <<t>>
    BY <2>0, LeavesEquation
  <2>2. LeavesIn(h1, t) = <<t>>
    BY <2>0, LeavesEquation
  <2> QED
    BY <2>1, <2>2
<1> DEFINE Bad == {t \in S \cap DOMAIN h : LeavesIn(h1, t) # LeavesIn(h, t)}
           Ranks == {r[t] : t \in Bad}
<1>3. Bad = {}
  <2> SUFFICES ASSUME Bad # {} PROVE FALSE
    OBVIOUS
  <2>1. Ranks \subseteq Nat /\ Ranks # {}
    BY <1>1, RankedParts
  <2>2. PICK m \in Ranks : \A y \in Ranks : m <= y
    BY <2>1, LeastNumber
  <2>3. PICK t \in Bad : m = r[t]
    BY <2>2
  <2>10. t \in S /\ t \in DOMAIN h /\ LeavesIn(h1, t) # LeavesIn(h, t)
    OBVIOUS
  <2>4. /\ h[t].left \in Int /\ h[t].right \in Int
        /\ t \in DOMAIN h /\ t \in Int /\ r[t] \in Nat
        /\ h[t].left \in DOMAIN h => r[h[t].left] \in Nat /\ r[h[t].left] < r[t]
        /\ h[t].right \in DOMAIN h => r[h[t].right] \in Nat /\ r[h[t].right] < r[t]
    BY <1>1, <2>10, RankedParts
  <2>5. h[t].left \notin Bad /\ h[t].right \notin Bad
    <3>1. \A v \in Bad : r[t] <= r[v] /\ v \in DOMAIN h
      BY <2>2, <2>3
    <3> HIDE DEF Bad
    <3>2. \A v \in Bad : ~(v \in DOMAIN h => r[v] \in Nat /\ r[v] < r[t])
      BY <2>4, <3>1
    <3> QED
      BY <2>4, <3>2
  <2>6. h1[t] = h[t] /\ t \in DOMAIN h1 /\ h[t].left \in S /\ h[t].right \in S
    BY <1>4, <1>5, <2>10
  <2>7. LeavesIn(h1, h[t].left) = LeavesIn(h, h[t].left) /\ LeavesIn(h1, h[t].right) = LeavesIn(h, h[t].right)
    BY <1>2, <2>5, <2>6
  <2>8. LeavesIn(h, t) = LeavesIn(h, h[t].left) \o <<h[t].op>> \o LeavesIn(h, h[t].right)
    BY <2>4, LeavesEquation
  <2>9. LeavesIn(h1, t) = LeavesIn(h1, h[t].left) \o <<h[t].op>> \o LeavesIn(h1, h[t].right)
    BY <2>4, <2>6, LeavesEquation
  <2> QED
    BY <2>10, <2>7, <2>8, <2>9
<1> QED
  BY <1>2, <1>3

(* Outside of the way the leaves stay as they were.                        *)
LEMMA LeavesBeside ==
  ASSUME NEW h \in Seq(Node), Closed(h), WellFounded(h),
         NEW P, NEW root, NEW a, Way(h, P, root, a),
         NEW h1, NEW o, NEW x, Wrote(h, h1, a, o, x), WellFounded(h1),
         NEW u \in Int, u \notin P, u # Len(h) + 1
  PROVE  LeavesIn(h1, u) = LeavesIn(h, u)
<1>1. a \in DOMAIN h /\ a \in P /\ P \subseteq DOMAIN h /\ h1 \in Seq(Node)
  BY DEF Way, Wrote
<1> DEFINE new1 == Len(h) + 1
           S == {t \in Int : t \notin P /\ t # new1}
<1>2. /\ DOMAIN h1 = DOMAIN h \cup {new1} /\ new1 \notin DOMAIN h
      /\ \A n \in DOMAIN h : h[n].left # new1 /\ h[n].right # new1 /\ h[n].left \in Int /\ h[n].right \in Int
  <2>1. DOMAIN h1 = DOMAIN h \cup {new1} /\ new1 \notin DOMAIN h
    BY <1>1, WroteFacts
  <2> QED
    BY <1>1, <2>1, WroteFacts
<1> HIDE DEF new1
<1>3. ASSUME NEW t \in S
      PROVE  /\ t \in DOMAIN h <=> t \in DOMAIN h1
             /\ t \in DOMAIN h => h1[t] = h[t] /\ h[t].left \in S /\ h[t].right \in S
  <2>1. t \in DOMAIN h <=> t \in DOMAIN h1
    BY <1>2
  <2>2. ASSUME t \in DOMAIN h PROVE h1[t] = h[t] /\ h[t].left \in S /\ h[t].right \in S
    <3>1. t \notin P /\ t # a
      BY <1>1
    <3>2. h[t].left \notin P /\ h[t].right \notin P
      BY <2>2, <3>1 DEF Way
    <3> QED
      BY <1>2, <2>2, <3>1, <3>2 DEF Wrote
  <2> QED
    BY <2>1, <2>2
<1>4. S \in SUBSET Int /\ u \in S
  BY DEF new1
<1> HIDE DEF S
<1> QED
  BY <1>1, <1>3, <1>4, LeavesAgree

LEMMA Associative ==
  ASSUME NEW S, NEW s \in Seq(S), NEW t \in Seq(S), NEW u \in Seq(S)
  PROVE  s \o (t \o u) = (s \o t) \o u
<1> DEFINE l == s \o (t \o u)
           r == (s \o t) \o u
<1>1. s \o t \in Seq(S) /\ t \o u \in Seq(S) /\ l \in Seq(S) /\ r \in Seq(S)
  OBVIOUS
<1>2. Len(l) = Len(r)
  OBVIOUS
<1>3. \A i \in 1..Len(l) : l[i] = r[i]
  OBVIOUS
<1> QED
  BY <1>1, <1>2, <1>3, SeqEqual

LEMMA ItemsAssociative ==
  ASSUME NEW s \in Seq(Item), NEW t \in Seq(Item), NEW u \in Seq(Item)
  PROVE  s \o (t \o u) = (s \o t) \o u
<1> QED
  BY Associative

Regroups(s, t, u, v) == s \o (t \o u \o v) = s \o t \o u \o v
LEMMA ItemsRegroup ==
  ASSUME NEW s \in Seq(Item), NEW t \in Seq(Item), NEW u \in Seq(Item), NEW v \in Seq(Item)
  PROVE  Regroups(s, t, u, v)
<1>1. t \o u \in Seq(Item) /\ s \o t \in Seq(Item)
  BY ConcatProperties
<1>2. s \o ((t \o u) \o v) = (s \o (t \o u)) \o v
  BY <1>1, ItemsAssociative
<1>3. s \o (t \o u) = (s \o t) \o u
  BY ItemsAssociative
<1> QED
  BY <1>2, <1>3 DEF Regroups

(* On the way, the new operator and the operand behind it follow.          *)
LEMMA LeavesOnWay ==
  ASSUME NEW h \in Seq(Node), Closed(h), WellFounded(h),
         NEW P, NEW root, NEW a, Way(h, P, root, a),
         NEW h1, NEW o, NEW x, Wrote(h, h1, a, o, x), WellFounded(h1), x \notin P,
         NEW u \in P
  PROVE  LeavesIn(h1, u) = LeavesIn(h, u) \o <<o>> \o LeavesIn(h, x)
<1>1. PICK N, r : Ranked(h, N, r)
  BY DEF WellFounded
<1>2. /\ a \in DOMAIN h /\ a \in P /\ P \subseteq DOMAIN h /\ h1 \in Seq(Node)
      /\ x \in Int /\ x # Len(h) + 1 /\ o \in BinaryOp
  BY DEF Way, Wrote
<1> DEFINE new1 == Len(h) + 1
           more == LeavesIn(h, x)
<1>3. /\ DOMAIN h1 = DOMAIN h \cup {new1} /\ new1 \notin DOMAIN h
      /\ \A n \in DOMAIN h : h[n].left # new1 /\ h[n].right # new1
      /\ new1 \in Int /\ x # new1
  <2>1. DOMAIN h1 = DOMAIN h \cup {new1} /\ new1 \notin DOMAIN h /\ Len(h) \in Nat
    BY <1>2, WroteFacts
  <2>2. \A n \in DOMAIN h : h[n].left # new1 /\ h[n].right # new1
    BY <1>2, WroteFacts
  <2> QED
    BY <1>2, <2>1, <2>2
<1>4. \A t \in Int : LeavesIn(h, t) \in Seq(Item)
  BY LeavesType
<1>5. \A t \in Int : t \notin P /\ t # new1 => LeavesIn(h1, t) = LeavesIn(h, t)
  BY LeavesBeside
<1>6. \A t \in DOMAIN h : <<h[t].op>> \in Seq(Item) /\ h[t].left \in Int /\ h[t].right \in Int /\ t \in Int
  <2>1. \A t \in DOMAIN h : h[t].op \in Item /\ h[t].left \in Int /\ h[t].right \in Int /\ t \in Int
    BY <1>1, RankedParts DEF Item
  <2> QED
    BY <2>1
<1>7. <<o>> \in Seq(Item) /\ more \in Seq(Item) /\ LeavesIn(h1, x) = more
  BY <1>2, <1>3, <1>4, <1>5 DEF Item
<1> HIDE DEF new1, more
<1>8. \A t \in DOMAIN h : LeavesIn(h, t) = LeavesIn(h, h[t].left) \o <<h[t].op>> \o LeavesIn(h, h[t].right)
  BY <1>6, LeavesEquation
<1>9. \A t \in DOMAIN h1 : LeavesIn(h1, t) = LeavesIn(h1, h1[t].left) \o <<h1[t].op>> \o LeavesIn(h1, h1[t].right)
  <2>1. \A t \in DOMAIN h1 : t \in Int
    BY <1>3, <1>6
  <2> QED
    BY <1>2, <2>1, LeavesEquation
<1>10. LeavesIn(h1, a) = LeavesIn(h, a) \o <<o>> \o more
  <2>1. h[a].left \notin P /\ h[a].right \notin P
    BY <1>2 DEF Way
  <2>2. LeavesIn(h1, h[a].left) = LeavesIn(h, h[a].left) /\ LeavesIn(h1, h[a].right) = LeavesIn(h, h[a].right)
    BY <1>2, <1>3, <1>5, <1>6, <2>1
  <2>3. CASE TookAsLeft(h, h1, a, o, x)
    <3>1. h1[a].op = o /\ h1[a].left = new1 /\ h1[a].right = x /\ h1[new1] = h[a]
      BY <2>3 DEF TookAsLeft, new1
    <3>2. LeavesIn(h1, new1) = LeavesIn(h, a)
      BY <1>2, <1>3, <1>8, <1>9, <2>2, <3>1
    <3> QED
      BY <1>2, <1>3, <1>7, <1>9, <3>1, <3>2
  <2>4. CASE HungRight(h, h1, a, o, x)
    <3>1. /\ h1[a].op = h[a].op /\ h1[a].left = h[a].left /\ h1[a].right = new1
          /\ h1[new1].op = o /\ h1[new1].left = h[a].right /\ h1[new1].right = x
      BY <2>4 DEF HungRight, new1
    <3>2. PICK p \in Seq(Item) : p = LeavesIn(h, h[a].left)
      BY <1>2, <1>4, <1>6
    <3>3. PICK q \in Seq(Item) : q = LeavesIn(h, h[a].right)
      BY <1>2, <1>4, <1>6
    <3>4. PICK v \in Seq(Item) : v = <<h[a].op>>
      BY <1>2, <1>6
    <3>5. PICK w \in Seq(Item) : w = <<o>>
      BY <1>7
    <3>6. LeavesIn(h1, new1) = q \o w \o more
      BY <1>3, <1>7, <1>9, <2>2, <3>1, <3>3, <3>5
    <3>7. LeavesIn(h1, a) = p \o v \o (q \o w \o more)
      BY <1>2, <1>3, <1>9, <2>2, <3>1, <3>2, <3>4, <3>6
    <3>8. LeavesIn(h, a) = p \o v \o q
      BY <1>2, <1>8, <3>2, <3>3, <3>4
    <3>9. p \o v \in Seq(Item) /\ q \o w \in Seq(Item) /\ p \o v \o q \in Seq(Item)
      BY ConcatProperties
    <3>10. more \in Seq(Item)
      BY <1>7
    <3>11. Regroups(p \o v, q, w, more)
      BY <3>9, <3>10, ItemsRegroup, Zenon
    <3>12. p \o v \o (q \o w \o more) = p \o v \o q \o w \o more
      BY <3>11 DEF Regroups
    <3> QED
      BY <3>5, <3>7, <3>8, <3>12
  <2> QED
    BY <2>3, <2>4 DEF Wrote
<1> DEFINE Bad == {t \in P : LeavesIn(h1, t) # LeavesIn(h, t) \o <<o>> \o more}
           Ranks == {r[t] : t \in Bad}
<1>11. Bad = {}
  <2> SUFFICES ASSUME Bad # {} PROVE FALSE
    OBVIOUS
  <2>1. Ranks \subseteq Nat /\ Ranks # {}
    <3>1. \A t \in Bad : t \in DOMAIN h
      BY <1>2
    <3>2. \A t \in DOMAIN h : r[t] \in Nat
      BY <1>1, RankedParts
    <3> HIDE DEF Bad
    <3> QED
      BY <3>1, <3>2
  <2>2. PICK m \in Ranks : \A y \in Ranks : m <= y
    BY <2>1, LeastNumber
  <2>3. PICK t \in Bad : m = r[t]
    BY <2>2
  <2>4. t \in P /\ t \in DOMAIN h /\ t # a /\ t \in P \ {a}
    BY <1>2, <1>10, <2>3
  <2>5. h[t].left \notin P /\ h[t].right \in P
    BY <2>4 DEF Way
  <2>6. h[t].right \notin Bad
    <3>1. r[h[t].right] < r[t] /\ r[h[t].right] \in Nat /\ r[t] \in Nat
      BY <1>1, <1>2, <2>4, <2>5, RankedParts
    <3>2. \A v \in Bad : r[t] <= r[v]
      BY <2>2, <2>3
    <3> HIDE DEF Bad
    <3> QED
      BY <3>1, <3>2
  <2>7. PICK p \in Seq(Item) : p = LeavesIn(h, h[t].left) \o <<h[t].op>>
    BY <1>4, <1>6, <2>4, ConcatProperties
  <2>8. PICK q \in Seq(Item) : q = LeavesIn(h, h[t].right)
    BY <1>4, <1>6, <2>4
  <2>9. PICK w \in Seq(Item) : w = <<o>>
    BY <1>7
  <2>10. LeavesIn(h1, h[t].right) = q \o w \o more
    BY <2>5, <2>6, <2>8, <2>9
  <2>11. h1[t] = h[t] /\ t \in DOMAIN h1
    BY <1>3, <2>4 DEF Wrote
  <2>12. LeavesIn(h1, h[t].left) \o <<h[t].op>> = p
    BY <1>3, <1>5, <1>6, <2>4, <2>5, <2>7
  <2>13. LeavesIn(h1, t) = p \o (q \o w \o more)
    BY <1>9, <2>10, <2>11, <2>12
  <2>14. LeavesIn(h, t) = p \o q
    BY <1>8, <2>4, <2>7, <2>8
  <2>15. p \o (q \o w \o more) = p \o q \o w \o more
    <3>1. more \in Seq(Item)
      BY <1>7
    <3>2. Regroups(p, q, w, more)
      BY <3>1, ItemsRegroup, Zenon
    <3> QED
      BY <3>2 DEF Regroups
  <2> QED
    BY <2>3, <2>9, <2>13, <2>14, <2>15
<1> QED
  BY <1>11 DEF more
(* A new object that joins two operands.                                   *)
LEMMA Joined ==
  ASSUME NEW h \in Seq(Node), Closed(h), WellFounded(h), OwnedOnce(h),
         NEW y \in Node, y.left <= Len(h), y.right <= Len(h),
         isBinary(y.left) => Unowned(h, y.left) /\ y.left # y.right,
         isBinary(y.right) => Unowned(h, y.right),
         NEW h1, h1 = Append(h, y)
  PROVE  /\ h1 \in Seq(Node) /\ WellFounded(h1) /\ OwnedOnce(h1) /\ Unowned(h1, Len(h) + 1)
         /\ \A z \in DOMAIN h \ {y.left, y.right} : Unowned(h, z) => Unowned(h1, z)
         /\ \A u \in Int \ {Len(h) + 1} : LeavesIn(h1, u) = LeavesIn(h, u)
<1> DEFINE new1 == Len(h) + 1
<1>1. /\ h1 \in Seq(Node) /\ h1[new1] = y /\ \A n \in DOMAIN h : h1[n] = h[n]
      /\ DOMAIN h = 1..Len(h) /\ DOMAIN h1 = 1..new1 /\ Len(h) \in Nat
      /\ y.left \in Int /\ y.right \in Int
  BY DEF Node
<1>2. /\ DOMAIN h1 = DOMAIN h \cup {new1} /\ new1 \notin DOMAIN h /\ new1 \in Int
      /\ y.left # new1 /\ y.right # new1
  <2> DEFINE l == Len(h)
  <2>1. DOMAIN h = 1..l /\ DOMAIN h1 = 1..(l + 1) /\ l \in Nat /\ new1 = l + 1 /\ y.left <= l /\ y.right <= l
    BY <1>1
  <2> HIDE DEF l, new1
  <2> QED
    BY <1>1, <2>1
<1>3. \A n \in DOMAIN h : /\ h[n].left \in Int /\ h[n].right \in Int
                          /\ h[n].left # new1 /\ h[n].right # new1
  <2> SUFFICES ASSUME NEW n \in DOMAIN h
               PROVE  /\ h[n].left \in Int /\ h[n].right \in Int
                      /\ h[n].left # new1 /\ h[n].right # new1
    OBVIOUS
  <2>1. h[n].left \in Int /\ h[n].right \in Int
    BY <1>1, NodeAt
  <2>2. h[n].left <= Len(h) /\ h[n].right <= Len(h)
    BY DEF Closed
  <2> QED
    BY <1>1, <2>1, <2>2
<1>4. PICK N, r : Ranked(h, N, r)
  BY DEF WellFounded
<1>5. \A n \in DOMAIN h : r[n] \in Nat /\ r[n] <= N /\ N \in Nat
  BY <1>4, RankedParts
<1>6. N \in Nat
  BY <1>4 DEF Ranked
<1> HIDE DEF new1
<1>7. WellFounded(h1)
  <2> DEFINE s == [n \in DOMAIN h1 |-> IF n = new1 THEN N + 1 ELSE r[n]]
  <2>1. s \in [DOMAIN h1 -> 0..(N + 1)]
    BY <1>2, <1>5, <1>6
  <2>2. s[new1] = N + 1 /\ \A n \in DOMAIN h : s[n] = r[n]
    BY <1>2
  <2> HIDE DEF s
  <2>3. ASSUME NEW n \in DOMAIN h1, NEW part \in Parts(h1, n), part \in DOMAIN h1
        PROVE  s[part] < s[n]
    <3>1. CASE n = new1
      <4>1. part \in DOMAIN h
        BY <1>1, <1>2, <2>3, <3>1 DEF Parts
      <4> QED
        BY <1>5, <1>6, <2>2, <3>1, <4>1
    <3>2. CASE n \in DOMAIN h
      <4>1. part \in Parts(h, n) /\ part \in DOMAIN h
        BY <1>1, <1>2, <1>3, <2>3, <3>2 DEF Parts
      <4>2. r[part] < r[n]
        BY <1>4, <3>2, <4>1 DEF Ranked
      <4> QED
        BY <2>2, <3>2, <4>1, <4>2
    <3> QED
      BY <1>2, <3>1, <3>2
  <2>4. Ranked(h1, N + 1, s)
    BY <1>6, <2>1, <2>3 DEF Ranked
  <2> QED
    BY <2>4 DEF WellFounded
<1>8. OwnedOnce(h1)
  <2> SUFFICES ASSUME NEW m \in DOMAIN h1, NEW n \in DOMAIN h1
      PROVE  /\ isBinary(h1[m].left) => h1[m].left # h1[n].right /\ (h1[m].left = h1[n].left => m = n)
             /\ isBinary(h1[m].right) => (h1[m].right = h1[n].right => m = n)
    BY DEF OwnedOnce
  <2>1. \A q \in DOMAIN h : /\ isBinary(y.left) => h[q].left # y.left /\ h[q].right # y.left
                            /\ isBinary(y.right) => h[q].left # y.right /\ h[q].right # y.right
    BY DEF Unowned, Parts
  <2>2. CASE m \in DOMAIN h /\ n \in DOMAIN h
    BY <1>1, <2>2 DEF OwnedOnce
  <2>3. CASE m = new1 /\ n \in DOMAIN h
    BY <1>1, <2>1, <2>3
  <2>4. CASE m \in DOMAIN h /\ n = new1
    BY <1>1, <2>1, <2>4
  <2>5. CASE m = new1 /\ n = new1
    BY <1>1, <2>5
  <2> QED
    BY <1>2, <2>2, <2>3, <2>4, <2>5
<1>9. Unowned(h1, new1)
  BY <1>1, <1>2, <1>3 DEF Unowned, Parts
<1>10. \A z \in DOMAIN h \ {y.left, y.right} : Unowned(h, z) => Unowned(h1, z)
  BY <1>1, <1>2 DEF Unowned, Parts
<1>11. \A u \in Int \ {new1} : LeavesIn(h1, u) = LeavesIn(h, u)
  <2> DEFINE S == Int \ {new1}
  <2>1. S \in SUBSET Int
    OBVIOUS
  <2>2. ASSUME NEW t \in S
        PROVE  /\ t \in DOMAIN h <=> t \in DOMAIN h1
               /\ t \in DOMAIN h => h1[t] = h[t] /\ h[t].left \in S /\ h[t].right \in S
    BY <1>1, <1>2, <1>3
  <2> HIDE DEF S
  <2>3. \A t \in S : LeavesIn(h1, t) = LeavesIn(h, t)
    BY <1>1, <1>7, <2>1, <2>2, LeavesAgree
  <2> QED
    BY <2>3 DEF S
<1> QED
  BY <1>1, <1>7, <1>8, <1>9, <1>10, <1>11 DEF new1

(* The way grows with every descent.                                       *)
LEMMA WayBegins ==
  ASSUME NEW h \in Seq(Node), NEW root \in DOMAIN h, Unowned(h, root)
  PROVE  Way(h, {root}, root, root)
BY DEF Way, Unowned, Parts

LEMMA WayGoesOn ==
  ASSUME NEW h \in Seq(Node), OwnedOnce(h), NEW P, NEW root, NEW a, Way(h, P, root, a),
         isBinary(h[a].right), h[a].right \in DOMAIN h
  PROVE  Way(h, P \cup {h[a].right}, root, h[a].right)
<1> DEFINE b == h[a].right
<1>1. a \in DOMAIN h /\ a \in P /\ P \subseteq DOMAIN h /\ root \in P /\ b \in DOMAIN h /\ b \notin P
  BY DEF Way
<1>2. \A n \in DOMAIN h : h[n].left # b /\ (h[n].right = b => n = a)
  BY <1>1 DEF OwnedOnce
<1>3. \A n \in DOMAIN h : h[n].left \notin P /\ (h[n].right \in P <=> n \in P \ {a})
  BY DEF Way
<1>4. h[a].right = b
  OBVIOUS
<1> HIDE DEF b
<1>5. ASSUME NEW n \in DOMAIN h
      PROVE  h[n].left \notin P \cup {b} /\ (h[n].right \in P \cup {b} <=> n \in (P \cup {b}) \ {b})
  BY <1>1, <1>2, <1>3, <1>4
<1>6. \A q \in (P \cup {b}) \ {root} : ~ Unowned(h, q)
  <2>1. ~ Unowned(h, b)
    BY <1>1, <1>4 DEF Unowned, Parts
  <2> QED
    BY <2>1 DEF Way
<1>7. Way(h, P \cup {b}, root, b)
  BY <1>1, <1>5, <1>6 DEF Way
<1> QED
  BY <1>7 DEF b

(* The operands that are still to come are nobody's part and as they were, *)
(* and the tree holds what was written up to the operand taken last.       *)
Waiting(i) == i \in DOMAIN input.operands /\ (taken = 0 \/ i > taken + 1)
OperandsWait ==
  \A i \in DOMAIN input.operands : Waiting(i) =>
    /\ isBinary(input.operands[i]) => Unowned(heap, input.operands[i])
    /\ LeavesIn(heap, input.operands[i]) = LeavesIn(input.parsed, input.operands[i])
OrderInv ==
  /\ WellFounded(heap) /\ OwnedOnce(heap) /\ OperandsWait
  /\ taken > 0 => Unowned(heap, Root) /\ LeavesIn(heap, Root) = Written(input, taken + 1)
  /\ at # 0 => \E P : Way(heap, P, Root, at)

LEMMA OperandFacts ==
  ASSUME TypeOK
  PROVE  /\ DOMAIN input.operands = 1..(Len(input.ops) + 1)
         /\ \A i \in DOMAIN input.operands :
              /\ input.operands[i] \in Int /\ input.operands[i] <= Len(input.parsed)
              /\ input.operands[i] # Root /\ input.operands[i] # new
              /\ isBinary(input.operands[i]) => input.operands[i] \in DOMAIN heap
         /\ \A i, j \in DOMAIN input.operands :
              isBinary(input.operands[i]) /\ i # j => input.operands[i] # input.operands[j]
<1>1. DOMAIN input.operands = 1..(Len(input.ops) + 1) /\ Len(input.parsed) \in Nat
  BY ChainType
<1>2. \A i \in DOMAIN input.operands : input.operands[i] \in Int /\ input.operands[i] <= Len(input.parsed)
  BY OperandsNotBuilt
<1>3. ASSUME NEW i \in DOMAIN input.operands
      PROVE  /\ input.operands[i] # Root /\ input.operands[i] # new
             /\ isBinary(input.operands[i]) => input.operands[i] \in DOMAIN heap
  <2> DEFINE p == Len(input.parsed)
             l == Len(heap)
             x == input.operands[i]
  <2>1. p \in Nat /\ l \in Nat /\ p <= l /\ DOMAIN heap = 1..l /\ x \in Int /\ x <= p
    <3>1. l \in Nat /\ DOMAIN heap = 1..l /\ l = p + taken /\ taken \in Nat /\ p \in Nat
      BY <1>1, Sizes
    <3> HIDE DEF l, p
    <3>2. p <= l
      BY <3>1
    <3> QED
      BY <1>2, <3>1, <3>2 DEF p
  <2> HIDE DEF p, l, x
  <2>2. x # p + 1 /\ x # l + 1 /\ (x > 0 => x \in DOMAIN heap)
    BY <2>1
  <2> QED
    BY <2>2 DEF Root, new, isBinary, x, p, l
<1>4. ASSUME NEW i \in DOMAIN input.operands, NEW j \in DOMAIN input.operands,
             isBinary(input.operands[i]), i # j, input.operands[i] = input.operands[j]
      PROVE  FALSE
  <2>1. input.operands[i] \in ContentsIn(input.parsed, input.operands[i])
    BY <1>4, ChainType DEF ContentsIn
  <2>2. ContentsIn(input.parsed, input.operands[i]) \cap ContentsIn(input.parsed, input.operands[j]) = {}
    BY <1>4 DEF TypeOK, Chain
  <2> QED
    BY <1>4, <2>1, <2>2
<1> QED
  BY <1>1, <1>2, <1>3, <1>4

LEMMA OrderBegins == Init /\ TypeOK => OrderInv
<1> SUFFICES ASSUME Init, TypeOK PROVE OrderInv
  OBVIOUS
<1>1. heap = input.parsed /\ taken = 0 /\ at = 0
  BY DEF Init
<1>2. input \in Chain
  BY DEF TypeOK
<1>3. /\ input.parsed \in Seq(Node) /\ Closed(input.parsed) /\ NoneInItself(input.parsed)
      /\ OwnedOnce(input.parsed)
      /\ \A i \in DOMAIN input.operands : isBinary(input.operands[i]) => Unowned(input.parsed, input.operands[i])
  BY <1>2 DEF Chain
<1>4. WellFounded(input.parsed)
  BY <1>3, ParsedWellFounded
<1> QED
  BY <1>1, <1>3, <1>4 DEF OrderInv, OperandsWait

LEMMA FirstRightOrder ==
  ASSUME TypeOK, OrderInv, FirstRight
  PROVE  OrderInv'
<1>1. taken = 0 /\ taken' = 1 /\ input' = input /\ at' = at /\ at = 0
  BY Sizes DEF FirstRight
<1> DEFINE y == [op |-> op, left |-> input.operands[1], right |-> rightExpr]
<1>2. /\ 1 \in DOMAIN input.operands /\ 2 \in DOMAIN input.operands /\ rightExpr = input.operands[2]
      /\ op = input.ops[1] /\ op \in BinaryOp
  <2>1. Len(input.ops) \in Nat \ {0} /\ DOMAIN input.operands = 1..(Len(input.ops) + 1)
    BY ChainType
  <2>2. 1 \in DOMAIN input.operands /\ 2 \in DOMAIN input.operands
    BY <2>1
  <2>3. taken + 2 = 2 /\ taken + 1 = 1 /\ taken < Len(input.ops)
    BY <1>1, <2>1
  <2> QED
    BY <2>2, <2>3, ArgumentTypes DEF rightExpr, op
<1>3. /\ y \in Node /\ y.op = op /\ y.left = input.operands[1] /\ y.right = input.operands[2]
      /\ y.left \in Int /\ y.right \in Int
  BY <1>2, OperandFacts DEF Node
<1>4. Len(heap) = Len(input.parsed) /\ heap \in Seq(Node) /\ Closed(heap) /\ Len(heap) \in Nat /\ Root = Len(heap) + 1
  BY <1>1, Sizes DEF Root
<1>5. heap' = Append(heap, y)
  BY DEF FirstRight
<1> HIDE DEF y
<1>6. /\ y.left <= Len(heap) /\ y.right <= Len(heap)
      /\ isBinary(y.left) => Unowned(heap, y.left) /\ y.left # y.right
      /\ isBinary(y.right) => Unowned(heap, y.right)
  BY <1>1, <1>2, <1>3, <1>4, OperandFacts DEF OrderInv, OperandsWait, Waiting
<1>7. PICK h1 : h1 = heap'
  OBVIOUS
<1>8. /\ h1 \in Seq(Node) /\ WellFounded(h1) /\ OwnedOnce(h1) /\ Unowned(h1, Len(heap) + 1)
      /\ \A z \in DOMAIN heap \ {y.left, y.right} : Unowned(heap, z) => Unowned(h1, z)
      /\ \A u \in Int \ {Len(heap) + 1} : LeavesIn(h1, u) = LeavesIn(heap, u)
  BY <1>3, <1>4, <1>5, <1>6, <1>7, Joined DEF OrderInv
<1>9. Unowned(h1, Root)
  BY <1>4, <1>8
<1>10. LeavesIn(h1, Root) = Written(input, 2)
  <2>1. h1[Root] = y /\ Root \in DOMAIN h1 /\ Root \in Int
    BY <1>3, <1>4, <1>5, <1>7
  <2>2. LeavesIn(h1, Root) = LeavesIn(h1, y.left) \o <<op>> \o LeavesIn(h1, y.right)
    BY <1>3, <1>8, <2>1, LeavesEquation
  <2>3. LeavesIn(h1, y.left) = LeavesIn(heap, y.left) /\ LeavesIn(h1, y.right) = LeavesIn(heap, y.right)
    BY <1>3, <1>4, <1>6, <1>8
  <2>4. /\ LeavesIn(heap, y.left) = LeavesIn(input.parsed, input.operands[1])
        /\ LeavesIn(heap, y.right) = LeavesIn(input.parsed, input.operands[2])
    BY <1>1, <1>2, <1>3 DEF OrderInv, OperandsWait, Waiting
  <2>5. /\ Written(input, 1) = LeavesIn(input.parsed, input.operands[1])
        /\ \A i \in 2..(Len(input.ops) + 1) :
              Written(input, i) = Written(input, i - 1) \o <<input.ops[i - 1]>> \o LeavesIn(input.parsed, input.operands[i])
    BY WrittenEquation DEF TypeOK
  <2>6. 2 \in 2..(Len(input.ops) + 1) /\ 2 - 1 = 1
    BY ChainType
  <2>7. Written(input, 2) = Written(input, 1) \o <<input.ops[1]>> \o LeavesIn(input.parsed, input.operands[2])
    BY <2>5, <2>6
  <2> QED
    BY <1>2, <2>2, <2>3, <2>4, <2>5, <2>7
<1>11. ASSUME NEW i \in DOMAIN input.operands, i > 2
       PROVE  /\ isBinary(input.operands[i]) => Unowned(h1, input.operands[i])
              /\ LeavesIn(h1, input.operands[i]) = LeavesIn(input.parsed, input.operands[i])
  <2> DEFINE x == input.operands[i]
  <2>1. /\ x \in Int /\ x # Len(heap) + 1 /\ (isBinary(x) => x \in DOMAIN heap)
        /\ isBinary(x) => x # y.left /\ x # y.right
    <3>1. i # 1 /\ i # 2
      BY <1>11
    <3> QED
      BY <1>2, <1>3, <1>4, <3>1, OperandFacts
  <2>2. /\ isBinary(x) => Unowned(heap, x)
        /\ LeavesIn(heap, x) = LeavesIn(input.parsed, x)
    BY <1>1 DEF OrderInv, OperandsWait, Waiting
  <2> HIDE DEF x
  <2>3. isBinary(x) => Unowned(h1, x)
    BY <1>8, <2>1, <2>2
  <2>4. LeavesIn(h1, x) = LeavesIn(heap, x)
    BY <1>8, <2>1
  <2> QED
    BY <2>2, <2>3, <2>4 DEF x
<1>12. OperandsWait'
  <2>1. 1 + 1 = 2
    OBVIOUS
  <2> QED
    BY <1>1, <1>7, <1>11, <2>1 DEF OperandsWait, Waiting
<1>13. Root' = Root /\ taken' + 1 = 2
  BY <1>1 DEF Root
<1> QED
  BY <1>1, <1>7, <1>8, <1>9, <1>10, <1>12, <1>13 DEF OrderInv

LEMMA AppendExprOrder ==
  ASSUME TypeOK, OrderInv, AppendExpr
  PROVE  OrderInv'
<1>1. taken > 0 /\ heap' = heap /\ input' = input /\ taken' = taken /\ at' = Root /\ Root' = Root
  BY DEF AppendExpr, Root
<1>2. Root \in DOMAIN heap /\ heap \in Seq(Node)
  <2> DEFINE p == Len(input.parsed)
             l == Len(heap)
  <2>1. l \in Nat /\ DOMAIN heap = 1..l /\ l = p + taken /\ taken \in Nat /\ p \in Nat /\ heap \in Seq(Node)
    BY Sizes, ChainType
  <2> HIDE DEF p, l
  <2>2. p + 1 \in DOMAIN heap
    BY <1>1, <2>1
  <2> QED
    BY <2>1, <2>2 DEF Root, p
<1>3. Way(heap, {Root}, Root, Root)
  BY <1>1, <1>2, WayBegins DEF OrderInv
<1>4. Way(heap', {Root}, Root', at')
  BY <1>1, <1>3
<1> QED
  BY <1>1, <1>4 DEF OrderInv, OperandsWait, Waiting

LEMMA DescendOrder ==
  ASSUME TypeOK, OrderInv, Descend
  PROVE  OrderInv'
<1>1. /\ at # 0 /\ isBinary(heap[at].right) /\ at' = heap[at].right
      /\ heap' = heap /\ input' = input /\ taken' = taken /\ Root' = Root
  BY DEF Descend, Root
<1>2. PICK P : Way(heap, P, Root, at)
  BY <1>1 DEF OrderInv
<1>3. heap[at].right \in DOMAIN heap
  <2>1. at \in DOMAIN heap
    BY <1>1, Sizes
  <2>2. heap[at].right \in Int /\ heap[at].right <= Len(heap)
    BY <2>1, Sizes, NodeAt DEF Closed
  <2> QED
    BY <1>1, <2>2, Sizes DEF isBinary
<1>4. Way(heap, P \cup {heap[at].right}, Root, heap[at].right)
  BY <1>1, <1>2, <1>3, Sizes, WayGoesOn DEF OrderInv
<1>5. \E Q : Way(heap', Q, Root', at')
  BY <1>1, <1>4
<1> QED
  BY <1>1, <1>5 DEF OrderInv, OperandsWait, Waiting

(* Both steps that write.                                                  *)
LEMMA WriteOrder ==
  ASSUME TypeOK, OrderInv, at # 0, Return, NEW h1, h1 = heap', Wrote(heap, h1, at, op, rightExpr)
  PROVE  OrderInv'
<1>1. /\ input' = input /\ taken' = taken + 1 /\ at' = 0
      /\ taken \in Nat /\ taken > 0 /\ taken < Len(input.ops) /\ Root' = Root /\ Len(input.ops) \in Nat
  BY Sizes, ChainType DEF Return, Root
<1>2. PICK P : Way(heap, P, Root, at)
  BY DEF OrderInv
<1>3. /\ taken + 2 \in DOMAIN input.operands /\ rightExpr = input.operands[taken + 2] /\ Waiting(taken + 2)
      /\ op = input.ops[taken + 1]
  BY <1>1, ChainType DEF rightExpr, op, Waiting
<1>4. /\ rightExpr \in Int /\ rightExpr # Root /\ (isBinary(rightExpr) => Unowned(heap, rightExpr))
      /\ LeavesIn(heap, rightExpr) = LeavesIn(input.parsed, rightExpr)
  BY <1>3, OperandFacts DEF OrderInv, OperandsWait
<1>5. /\ heap \in Seq(Node) /\ Closed(heap) /\ WellFounded(heap) /\ OwnedOnce(heap) /\ at \in DOMAIN heap
      /\ P \subseteq DOMAIN heap /\ DOMAIN heap = 1..Len(heap)
  BY <1>2, Sizes DEF OrderInv, Way
<1>6. \A i \in DOMAIN input.operands : Waiting(i) => input.operands[i] \notin P
  <2> SUFFICES ASSUME NEW i \in DOMAIN input.operands, Waiting(i), input.operands[i] \in P PROVE FALSE
    OBVIOUS
  <2>1. isBinary(input.operands[i])
    BY <1>5 DEF isBinary
  <2>2. Unowned(heap, input.operands[i])
    BY <2>1 DEF OrderInv, OperandsWait
  <2>3. input.operands[i] # Root
    BY OperandFacts
  <2> QED
    BY <1>2, <2>2, <2>3 DEF Way
<1>7. rightExpr \notin P
  BY <1>3, <1>6
<1>8. WellFounded(h1) /\ h1 \in Seq(Node)
  BY <1>2, <1>5, <1>7, StaysWellFounded DEF Wrote
<1>9. OwnedOnce(h1) /\ \A y \in DOMAIN heap \ {rightExpr} : Unowned(heap, y) => Unowned(h1, y)
  BY <1>5, StaysOwned
<1>10. Root \in P /\ Root \in DOMAIN heap
  BY <1>2 DEF Way
<1>11. Unowned(h1, Root)
  BY <1>1, <1>4, <1>9, <1>10 DEF OrderInv
<1>12. LeavesIn(h1, Root) = Written(input, taken + 2)
  <2>1. LeavesIn(h1, Root) = LeavesIn(heap, Root) \o <<op>> \o LeavesIn(heap, rightExpr)
    <3>1. /\ heap \in Seq(Node) /\ Closed(heap) /\ WellFounded(heap) /\ WellFounded(h1)
          /\ Way(heap, P, Root, at) /\ Wrote(heap, h1, at, op, rightExpr)
          /\ rightExpr \notin P /\ Root \in P
      BY <1>2, <1>5, <1>7, <1>8, <1>10
    <3> QED
      BY <3>1, LeavesOnWay
  <2>2. \A i \in 2..(Len(input.ops) + 1) :
           Written(input, i) = Written(input, i - 1) \o <<input.ops[i - 1]>> \o LeavesIn(input.parsed, input.operands[i])
    BY WrittenEquation DEF TypeOK
  <2>3. taken + 2 \in 2..(Len(input.ops) + 1) /\ (taken + 2) - 1 = taken + 1
    BY <1>1
  <2>4. Written(input, taken + 2) = Written(input, taken + 1) \o <<input.ops[taken + 1]>> \o LeavesIn(input.parsed, input.operands[taken + 2])
    BY <2>2, <2>3
  <2>5. LeavesIn(heap, Root) = Written(input, taken + 1)
    BY <1>1 DEF OrderInv
  <2> QED
    BY <1>3, <1>4, <2>1, <2>4, <2>5
<1>13. ASSUME NEW i \in DOMAIN input.operands, i > taken + 2
       PROVE  /\ isBinary(input.operands[i]) => Unowned(h1, input.operands[i])
              /\ LeavesIn(h1, input.operands[i]) = LeavesIn(input.parsed, input.operands[i])
  <2> DEFINE x == input.operands[i]
  <2>0. Waiting(i) /\ i # taken + 2
    <3>1. i \in Int
      BY ChainType
    <3> QED
      BY <1>1, <1>13, <3>1 DEF Waiting
  <2>1. /\ x \in Int /\ x # Len(heap) + 1 /\ (isBinary(x) => x \in DOMAIN heap)
        /\ isBinary(x) => x # rightExpr
    BY <1>3, <2>0, OperandFacts DEF new
  <2>2. /\ isBinary(x) => Unowned(heap, x)
        /\ LeavesIn(heap, x) = LeavesIn(input.parsed, x)
        /\ x \notin P
    BY <1>6, <2>0 DEF OrderInv, OperandsWait
  <2> HIDE DEF x
  <2>3. isBinary(x) => Unowned(h1, x)
    BY <1>9, <2>1, <2>2
  <2>4. LeavesIn(h1, x) = LeavesIn(heap, x)
    BY <1>2, <1>5, <1>8, <2>1, <2>2, LeavesBeside
  <2> QED
    BY <2>2, <2>3, <2>4 DEF x
<1>14. OperandsWait'
  <2>1. taken' + 1 = taken + 2 /\ taken' # 0
    BY <1>1
  <2> QED
    BY <1>1, <1>13, <2>1 DEF OperandsWait, Waiting
<1>15. taken' + 1 = taken + 2
  BY <1>1
<1> QED
  BY <1>1, <1>8, <1>9, <1>11, <1>12, <1>14, <1>15 DEF OrderInv

LEMMA SelfAsLeftWrites ==
  ASSUME TypeOK, OrderInv, SelfAsLeft
  PROVE  \E h1 : h1 = heap' /\ Wrote(heap, h1, at, op, rightExpr) /\ TookAsLeft(heap, h1, at, op, rightExpr)
<1>1. at # 0 /\ Return /\ taken < Len(input.ops) /\ at \in DOMAIN heap
  BY Sizes DEF SelfAsLeft
<1>2. PICK h1 : h1 = heap'
  OBVIOUS
<1>3. /\ h1 \in Seq(Node) /\ Len(h1) = Len(heap) + 1
      /\ h1[at] = [op |-> op, left |-> Len(heap) + 1, right |-> rightExpr] /\ h1[Len(heap) + 1] = heap[at]
      /\ \A m \in DOMAIN heap \ {at} : h1[m] = heap[m]
  BY <1>2, SelfAsLeftHeap DEF new
<1>4. op \in BinaryOp /\ rightExpr \in Int /\ rightExpr <= Len(heap)
  BY <1>1, ArgumentTypes
<1>5. isBinary(rightExpr) => Unowned(heap, rightExpr)
  <2>1. /\ Len(input.ops) \in Nat /\ taken \in Nat /\ taken < Len(input.ops)
        /\ DOMAIN input.operands = 1..(Len(input.ops) + 1)
    BY <1>1, ChainType, Sizes
  <2>2. taken + 2 \in DOMAIN input.operands /\ taken + 2 > taken + 1
    BY <2>1
  <2> QED
    BY <2>2 DEF OrderInv, OperandsWait, Waiting, rightExpr
<1>6. TookAsLeft(heap, h1, at, op, rightExpr)
  BY <1>3 DEF TookAsLeft
<1>7. Wrote(heap, h1, at, op, rightExpr)
  BY <1>3, <1>4, <1>5, <1>6 DEF Wrote
<1> QED
  BY <1>2, <1>6, <1>7

LEMMA NewRightWrites ==
  ASSUME TypeOK, OrderInv, NewRight
  PROVE  \E h1 : h1 = heap' /\ Wrote(heap, h1, at, op, rightExpr) /\ HungRight(heap, h1, at, op, rightExpr)
<1>1. at # 0 /\ Return /\ taken < Len(input.ops) /\ at \in DOMAIN heap /\ ~isBinary(heap[at].right)
  BY Sizes DEF NewRight
<1>2. PICK h1 : h1 = heap'
  OBVIOUS
<1>3. /\ h1 \in Seq(Node) /\ Len(h1) = Len(heap) + 1
      /\ h1[at] = [heap[at] EXCEPT !.right = Len(heap) + 1]
      /\ h1[Len(heap) + 1] = [op |-> op, left |-> heap[at].right, right |-> rightExpr]
      /\ \A m \in DOMAIN heap \ {at} : h1[m] = heap[m]
  BY <1>2, NewRightHeap DEF new
<1>4. op \in BinaryOp /\ rightExpr \in Int /\ rightExpr <= Len(heap)
  BY <1>1, ArgumentTypes
<1>5. isBinary(rightExpr) => Unowned(heap, rightExpr)
  <2>1. /\ Len(input.ops) \in Nat /\ taken \in Nat /\ taken < Len(input.ops)
        /\ DOMAIN input.operands = 1..(Len(input.ops) + 1)
    BY <1>1, ChainType, Sizes
  <2>2. taken + 2 \in DOMAIN input.operands /\ taken + 2 > taken + 1
    BY <2>1
  <2> QED
    BY <2>2 DEF OrderInv, OperandsWait, Waiting, rightExpr
<1>6. h1[at].op = heap[at].op /\ h1[at].left = heap[at].left /\ h1[at].right = Len(heap) + 1
  <2>1. heap[at] \in Node
    BY <1>1, Sizes, NodeAt
  <2> QED
    BY <1>3, <2>1 DEF Node
<1>7. HungRight(heap, h1, at, op, rightExpr)
  BY <1>1, <1>3, <1>6 DEF HungRight
<1>8. Wrote(heap, h1, at, op, rightExpr)
  BY <1>3, <1>4, <1>5, <1>7 DEF Wrote
<1> QED
  BY <1>2, <1>7, <1>8

LEMMA OrderStep ==
  ASSUME TypeOK, OrderInv, Next
  PROVE  OrderInv'
<1>1. CASE SelfAsLeft
  <2>1. at # 0 /\ Return
    BY <1>1 DEF SelfAsLeft
  <2>2. PICK h1 : h1 = heap' /\ Wrote(heap, h1, at, op, rightExpr)
    BY <1>1, SelfAsLeftWrites
  <2> QED
    BY <2>1, <2>2, WriteOrder
<1>2. CASE NewRight
  <2>1. at # 0 /\ Return
    BY <1>2 DEF NewRight
  <2>2. PICK h1 : h1 = heap' /\ Wrote(heap, h1, at, op, rightExpr)
    BY <1>2, NewRightWrites
  <2> QED
    BY <2>1, <2>2, WriteOrder
<1>3. CASE Finished
  <2>1. input' = input /\ heap' = heap /\ taken' = taken /\ at' = at /\ Root' = Root
    BY <1>3 DEF Finished, vars, Root
  <2> QED
    BY <2>1 DEF OrderInv, OperandsWait, Waiting
<1> QED
  BY <1>1, <1>2, <1>3, FirstRightOrder, AppendExprOrder, DescendOrder DEF Next

LEMMA OrderInvariant == Spec => [](TypeOK /\ OrderInv)
<1>1. TypeOK /\ OrderInv /\ [Next]_vars => OrderInv'
  <2> SUFFICES ASSUME TypeOK, OrderInv, [Next]_vars PROVE OrderInv'
    OBVIOUS
  <2>1. CASE UNCHANGED vars
    <3>1. input' = input /\ heap' = heap /\ taken' = taken /\ at' = at /\ Root' = Root
      BY <2>1 DEF vars, Root
    <3> QED
      BY <3>1 DEF OrderInv, OperandsWait, Waiting
  <2> QED
    BY <2>1, OrderStep
<1> QED
  BY <1>1, OrderBegins, TypeCorrect, PTL DEF Spec

(* Whatever becomes of parentheses, the tree holds the operands and        *)
(* operators in the order they were written in: appendExpr loses, repeats  *)
(* and swaps nothing.                                                      *)
THEOREM OrderKept == Spec => []InOrder
<1>1. OrderInv => InOrder
  BY DEF OrderInv, InOrder
<1> QED
  BY <1>1, OrderInvariant, PTL

-----------------------------------------------------------------------------
(* The tree itself, which is recursive in the same way.                    *)
TreeAt(h, f, t) ==
  IF t \in DOMAIN h THEN <<h[t].op, f[h[t].left], f[h[t].right]>> ELSE <<t>>
TreeBelow(h, r, m, f) ==
  /\ f = [t \in Int |-> f[t]]
  /\ \A t \in Int : (t \in DOMAIN h => r[t] < m) => f[t] = TreeAt(h, f, t)

LEMMA TreesExist ==
  ASSUME NEW h \in Seq(Node), NEW N, NEW r, Ranked(h, N, r), NEW n \in Nat
  PROVE  \E f : TreeBelow(h, r, n, f)
<1> DEFINE Bad == {m \in Nat : ~ \E f : TreeBelow(h, r, m, f)}
<1>1. SUFFICES ASSUME n \in Bad PROVE FALSE
  OBVIOUS
<1>2. PICK m \in Bad : \A y \in Bad : m <= y
  BY <1>1, LeastNumber
<1>3. CASE m = 0
  <2> DEFINE f == [t \in Int |-> <<t>>]
  <2>1. \A t \in Int : (t \in DOMAIN h => r[t] < 0) => t \notin DOMAIN h
    BY RankedParts
  <2>2. f = [t \in Int |-> f[t]] /\ \A t \in Int : f[t] = <<t>>
    OBVIOUS
  <2> HIDE DEF f
  <2>3. TreeBelow(h, r, 0, f)
    BY <2>1, <2>2 DEF TreeBelow, TreeAt
  <2> QED
    BY <1>3, <2>3
<1>4. CASE m # 0
  <2>1. m - 1 \in Nat /\ m - 1 \notin Bad /\ m \in Nat
    BY <1>2, <1>4
  <2>2. PICK f : TreeBelow(h, r, m - 1, f)
    BY <2>1
  <2> DEFINE Lower(t) == t \in DOMAIN h => r[t] < m - 1
             g == [t \in Int |-> IF Lower(t) THEN f[t] ELSE TreeAt(h, f, t)]
  <2>3. \A t \in Int : g[t] = IF Lower(t) THEN f[t] ELSE TreeAt(h, f, t)
    OBVIOUS
  <2>4. g = [t \in Int |-> g[t]]
    OBVIOUS
  <2> HIDE DEF g
  <2>5. ASSUME NEW t \in Int, t \in DOMAIN h => r[t] < m PROVE g[t] = TreeAt(h, g, t)
    <3>1. CASE t \notin DOMAIN h
      <4>1. Lower(t) /\ f[t] = TreeAt(h, f, t)
        BY <2>2, <3>1 DEF TreeBelow
      <4> QED
        BY <2>3, <3>1, <4>1 DEF TreeAt
    <3>2. CASE t \in DOMAIN h
      <4>1. h[t].left \in Int /\ h[t].right \in Int
        BY <3>2, RankedParts
      <4>2. Lower(h[t].left) /\ Lower(h[t].right)
        <5>1. /\ r[t] \in Nat /\ r[t] < m
              /\ h[t].left \in DOMAIN h => r[h[t].left] \in Nat /\ r[h[t].left] < r[t]
              /\ h[t].right \in DOMAIN h => r[h[t].right] \in Nat /\ r[h[t].right] < r[t]
          BY <2>5, <3>2, RankedParts
        <5> QED
          BY <2>1, <5>1
      <4>3. g[h[t].left] = f[h[t].left] /\ g[h[t].right] = f[h[t].right]
        BY <2>3, <4>1, <4>2
      <4>4. TreeAt(h, g, t) = TreeAt(h, f, t)
        BY <3>2, <4>3 DEF TreeAt
      <4>5. g[t] = TreeAt(h, f, t)
        <5>1. Lower(t) => f[t] = TreeAt(h, f, t)
          BY <2>2 DEF TreeBelow
        <5> QED
          BY <2>3, <5>1
      <4> QED
        BY <4>4, <4>5
    <3> QED
      BY <3>1, <3>2
  <2>6. TreeBelow(h, r, m, g)
    BY <2>4, <2>5 DEF TreeBelow
  <2> QED
    BY <2>6
<1> QED
  BY <1>3, <1>4

LEMMA TreeEquation ==
  ASSUME NEW h \in Seq(Node), WellFounded(h), NEW t \in Int
  PROVE  TreeIn(h, t) =
           IF t \in DOMAIN h THEN <<h[t].op, TreeIn(h, h[t].left), TreeIn(h, h[t].right)>>
           ELSE <<t>>
<1> DEFINE Q(f) == f = [u \in Int |-> IF u \in DOMAIN h THEN <<h[u].op, f[h[u].left], f[h[u].right]>> ELSE <<u>>]
           c == CHOOSE f : Q(f)
<1>1. \A u : TreeIn(h, u) = c[u]
  BY DEF TreeIn
<1>2. PICK N, r : Ranked(h, N, r)
  BY DEF WellFounded
<1>3. N + 1 \in Nat
  BY <1>2 DEF Ranked
<1>4. PICK f : TreeBelow(h, r, N + 1, f)
  BY <1>2, <1>3, TreesExist
<1>5. \A u \in Int : f[u] = TreeAt(h, f, u)
  <2>1. \A u \in DOMAIN h : r[u] < N + 1
    BY <1>2, RankedParts
  <2> QED
    BY <1>4, <2>1 DEF TreeBelow
<1>6. Q(f)
  BY <1>4, <1>5 DEF TreeBelow, TreeAt
<1>7. Q(c)
  BY <1>6
<1> HIDE DEF c
<1>8. c[t] = IF t \in DOMAIN h THEN <<h[t].op, c[h[t].left], c[h[t].right]>> ELSE <<t>>
  BY <1>7
<1>9. CASE t \in DOMAIN h
  <2>1. TreeIn(h, h[t].left) = c[h[t].left] /\ TreeIn(h, h[t].right) = c[h[t].right]
    BY <1>1
  <2> QED
    BY <1>1, <1>8, <1>9, <2>1
<1>10. CASE t \notin DOMAIN h
  BY <1>1, <1>8, <1>10
<1> QED
  BY <1>9, <1>10

LEMMA TreesAgree ==
  ASSUME NEW h \in Seq(Node), WellFounded(h), NEW h1 \in Seq(Node), WellFounded(h1),
         NEW S \in SUBSET Int,
         \A t \in S : /\ t \in DOMAIN h <=> t \in DOMAIN h1
                      /\ t \in DOMAIN h => h1[t] = h[t] /\ h[t].left \in S /\ h[t].right \in S
  PROVE  \A t \in S : TreeIn(h1, t) = TreeIn(h, t)
<1>1. PICK N, r : Ranked(h, N, r)
  BY DEF WellFounded
<1>4. \A t \in S : t \in Int /\ (t \in DOMAIN h <=> t \in DOMAIN h1)
  OBVIOUS
<1>5. \A t \in S : t \in DOMAIN h => h1[t] = h[t] /\ h[t].left \in S /\ h[t].right \in S
  BY Zenon
<1>2. \A t \in S \ DOMAIN h : TreeIn(h1, t) = TreeIn(h, t)
  <2> SUFFICES ASSUME NEW t \in S \ DOMAIN h PROVE TreeIn(h1, t) = TreeIn(h, t)
    OBVIOUS
  <2>0. t \in Int /\ t \notin DOMAIN h /\ t \notin DOMAIN h1
    BY <1>4
  <2>1. TreeIn(h, t) = <<t>>
    BY <2>0, TreeEquation
  <2>2. TreeIn(h1, t) = <<t>>
    BY <2>0, TreeEquation
  <2> QED
    BY <2>1, <2>2
<1> DEFINE Bad == {t \in S \cap DOMAIN h : TreeIn(h1, t) # TreeIn(h, t)}
           Ranks == {r[t] : t \in Bad}
<1>3. Bad = {}
  <2> SUFFICES ASSUME Bad # {} PROVE FALSE
    OBVIOUS
  <2>1. Ranks \subseteq Nat /\ Ranks # {}
    BY <1>1, RankedParts
  <2>2. PICK m \in Ranks : \A y \in Ranks : m <= y
    BY <2>1, LeastNumber
  <2>3. PICK t \in Bad : m = r[t]
    BY <2>2
  <2>10. t \in S /\ t \in DOMAIN h /\ TreeIn(h1, t) # TreeIn(h, t)
    OBVIOUS
  <2>4. /\ h[t].left \in Int /\ h[t].right \in Int
        /\ t \in DOMAIN h /\ t \in Int /\ r[t] \in Nat
        /\ h[t].left \in DOMAIN h => r[h[t].left] \in Nat /\ r[h[t].left] < r[t]
        /\ h[t].right \in DOMAIN h => r[h[t].right] \in Nat /\ r[h[t].right] < r[t]
    BY <1>1, <2>10, RankedParts
  <2>5. h[t].left \notin Bad /\ h[t].right \notin Bad
    <3>1. \A v \in Bad : r[t] <= r[v] /\ v \in DOMAIN h
      BY <2>2, <2>3
    <3> HIDE DEF Bad
    <3>2. \A v \in Bad : ~(v \in DOMAIN h => r[v] \in Nat /\ r[v] < r[t])
      BY <2>4, <3>1
    <3> QED
      BY <2>4, <3>2
  <2>6. h1[t] = h[t] /\ t \in DOMAIN h1 /\ h[t].left \in S /\ h[t].right \in S
    BY <1>4, <1>5, <2>10
  <2>7. TreeIn(h1, h[t].left) = TreeIn(h, h[t].left) /\ TreeIn(h1, h[t].right) = TreeIn(h, h[t].right)
    BY <1>2, <2>5, <2>6
  <2>8. TreeIn(h, t) = <<h[t].op, TreeIn(h, h[t].left), TreeIn(h, h[t].right)>>
    BY <2>4, TreeEquation
  <2>9. TreeIn(h1, t) = <<h[t].op, TreeIn(h1, h[t].left), TreeIn(h1, h[t].right)>>
    BY <2>4, <2>6, TreeEquation
  <2> QED
    BY <2>10, <2>7, <2>8, <2>9
<1> QED
  BY <1>2, <1>3


(* The reference: a chain has exactly one place to split at, so Reference, *)
(* which is recursive on the length of the chain, has the value one reads. *)
LEMMA PriorityRange == \A o \in BinaryOp : getOpPriority[o] \in Nat /\ getOpPriority[o] <= 12
<1> SUFFICES ASSUME NEW o \in BinaryOp PROVE getOpPriority[o] \in Nat /\ getOpPriority[o] <= 12
  OBVIOUS
<1>1. PICK i \in DOMAIN Levels : o \in Levels[i]
  BY DEF BinaryOp
<1>2. PICK j : j = CHOOSE l \in DOMAIN Levels : o \in Levels[l]
  OBVIOUS
<1>3. j \in DOMAIN Levels
  BY <1>1, <1>2
<1>4. DOMAIN Levels = 1..10
  BY DEF Levels
<1>5. getOpPriority[o] = 2 + j
  BY <1>2 DEF getOpPriority
<1> QED
  BY <1>3, <1>4, <1>5

LEMMA ChainOperators ==
  ASSUME NEW c \in Chain
  PROVE  /\ Len(c.ops) \in Nat /\ DOMAIN c.operands = 1..(Len(c.ops) + 1)
         /\ \A j \in 1..Len(c.ops) :
              c.ops[j] \in BinaryOp /\ getOpPriority[c.ops[j]] \in Nat /\ getOpPriority[c.ops[j]] <= 12
<1>1. c.ops \in Seq(BinaryOp) /\ c.operands \in Seq(Int) /\ Len(c.operands) = Len(c.ops) + 1
  BY DEF Chain
<1>2. \A j \in 1..Len(c.ops) : c.ops[j] \in BinaryOp
  BY <1>1
<1> QED
  BY <1>1, <1>2, PriorityRange

LEMMA SplitExists ==
  ASSUME NEW c \in Chain, NEW lo \in DOMAIN c.operands, NEW hi \in DOMAIN c.operands, lo < hi
  PROVE  \E k \in lo..(hi - 1) : IsSplit(c, lo, hi, k)
<1> DEFINE D == lo..(hi - 1)
           pr(j) == getOpPriority[c.ops[j]]
<1>1. D # {} /\ lo \in Nat /\ hi \in Nat /\ \A j \in D : j \in Nat /\ j < hi /\ j \in 1..Len(c.ops)
  <2>1. DOMAIN c.operands = 1..(Len(c.ops) + 1) /\ Len(c.ops) \in Nat
    BY ChainOperators
  <2>2. lo \in 1..(Len(c.ops) + 1) /\ hi \in 1..(Len(c.ops) + 1)
    BY <2>1
  <2> QED
    BY <2>1, <2>2
<1>2. \A j \in D : pr(j) \in Nat /\ pr(j) <= 12
  BY <1>1, ChainOperators
<1> HIDE DEF D, pr
<1> DEFINE A == {12 - pr(j) : j \in D}
<1>3. A \subseteq Nat /\ A # {}
  BY <1>1, <1>2
<1>4. PICK w \in A : \A v \in A : w <= v
  BY <1>3, LeastNumber
<1>5. PICK t \in D : w = 12 - pr(t)
  BY <1>4
<1>6. \A j \in D : pr(j) <= pr(t)
  <2> SUFFICES ASSUME NEW j \in D PROVE pr(j) <= pr(t)
    OBVIOUS
  <2>1. 12 - pr(t) <= 12 - pr(j)
    BY <1>4, <1>5
  <2> QED
    BY <1>2, <2>1
<1> HIDE DEF A
<1> DEFINE B == {hi - j : j \in {l \in D : pr(l) = pr(t)}}
<1>7. B \subseteq Nat /\ B # {}
  BY <1>1
<1>8. PICK z \in B : \A v \in B : z <= v
  BY <1>7, LeastNumber
<1>9. PICK k \in D : z = hi - k /\ pr(k) = pr(t)
  BY <1>8
<1>10. \A j \in D : pr(j) = pr(t) => j <= k
  <2> SUFFICES ASSUME NEW j \in D, pr(j) = pr(t) PROVE j <= k
    OBVIOUS
  <2>1. hi - k <= hi - j
    BY <1>8, <1>9
  <2> QED
    BY <1>1, <2>1
<1> HIDE DEF B
<1>11. \A j \in D : pr(j) < pr(k) \/ (pr(j) = pr(k) /\ j <= k)
  BY <1>2, <1>6, <1>9, <1>10
<1>12. IsSplit(c, lo, hi, k)
  BY <1>11 DEF IsSplit, D, pr
<1> QED
  BY <1>9, <1>12 DEF D

LEMMA SplitUnique ==
  ASSUME NEW c \in Chain, NEW lo \in DOMAIN c.operands, NEW hi \in DOMAIN c.operands,
         NEW k \in lo..(hi - 1), IsSplit(c, lo, hi, k),
         NEW l \in lo..(hi - 1), IsSplit(c, lo, hi, l)
  PROVE  k = l
<1>1. k \in 1..Len(c.ops) /\ l \in 1..Len(c.ops)
  <2>1. DOMAIN c.operands = 1..(Len(c.ops) + 1) /\ Len(c.ops) \in Nat
    BY ChainOperators
  <2>2. lo \in 1..(Len(c.ops) + 1) /\ hi \in 1..(Len(c.ops) + 1)
    BY <2>1
  <2> QED
    BY <2>1, <2>2
<1>2. getOpPriority[c.ops[k]] \in Nat /\ getOpPriority[c.ops[l]] \in Nat
  BY <1>1, ChainOperators
<1>3. getOpPriority[c.ops[k]] < getOpPriority[c.ops[l]] \/ (getOpPriority[c.ops[k]] = getOpPriority[c.ops[l]] /\ k <= l)
  BY DEF IsSplit
<1>4. getOpPriority[c.ops[l]] < getOpPriority[c.ops[k]] \/ (getOpPriority[c.ops[l]] = getOpPriority[c.ops[k]] /\ l <= k)
  BY DEF IsSplit
<1> QED
  BY <1>1, <1>2, <1>3, <1>4

SplitOf(c, lo, hi) == CHOOSE split \in lo..(hi - 1) : IsSplit(c, lo, hi, split)
LEMMA SplitFacts ==
  ASSUME NEW c \in Chain, NEW lo \in DOMAIN c.operands, NEW hi \in DOMAIN c.operands, lo < hi
  PROVE  /\ SplitOf(c, lo, hi) \in lo..(hi - 1) /\ IsSplit(c, lo, hi, SplitOf(c, lo, hi))
         /\ \A k \in lo..(hi - 1) : IsSplit(c, lo, hi, k) => k = SplitOf(c, lo, hi)
<1>1. PICK s : s = SplitOf(c, lo, hi)
  OBVIOUS
<1>2. s \in lo..(hi - 1) /\ IsSplit(c, lo, hi, s)
  BY <1>1, SplitExists DEF SplitOf
<1>3. \A k \in lo..(hi - 1) : IsSplit(c, lo, hi, k) => k = s
  BY <1>2, SplitUnique
<1> QED
  BY <1>1, <1>2, <1>3

Pairs(c) == (DOMAIN c.operands) \X (DOMAIN c.operands)
ReferenceAt(c, f, lo, hi) ==
  IF lo >= hi THEN TreeIn(c.parsed, c.operands[lo])
  ELSE LET k == SplitOf(c, lo, hi) IN <<c.ops[k], f[<<lo, k>>], f[<<k + 1, hi>>]>>
ReferenceBelow(c, m, f) ==
  /\ f = [p \in Pairs(c) |-> f[p]]
  /\ \A lo, hi \in DOMAIN c.operands : hi - lo < m => f[<<lo, hi>>] = ReferenceAt(c, f, lo, hi)

LEMMA ReferenceLocal ==
  ASSUME NEW c \in Chain, NEW f, NEW g, NEW lo \in DOMAIN c.operands, NEW hi \in DOMAIN c.operands,
         \A a, b \in DOMAIN c.operands : b - a < hi - lo => g[<<a, b>>] = f[<<a, b>>]
  PROVE  ReferenceAt(c, g, lo, hi) = ReferenceAt(c, f, lo, hi)
<1>1. CASE lo >= hi
  BY <1>1 DEF ReferenceAt
<1>2. CASE ~(lo >= hi)
  <2>1. DOMAIN c.operands = 1..(Len(c.ops) + 1) /\ Len(c.ops) \in Nat /\ lo \in Nat /\ hi \in Nat
    BY ChainOperators
  <2>2. lo < hi
    BY <1>2, <2>1
  <2>3. PICK k : k = SplitOf(c, lo, hi)
    OBVIOUS
  <2>4. k \in lo..(hi - 1)
    BY <2>2, <2>3, SplitFacts
  <2>5. k \in DOMAIN c.operands /\ k + 1 \in DOMAIN c.operands /\ k - lo < hi - lo /\ hi - (k + 1) < hi - lo
    BY <2>1, <2>4
  <2>6. g[<<lo, k>>] = f[<<lo, k>>] /\ g[<<k + 1, hi>>] = f[<<k + 1, hi>>]
    BY <2>5
  <2> QED
    BY <1>2, <2>3, <2>6 DEF ReferenceAt
<1> QED
  BY <1>1, <1>2

LEMMA ReferenceExists ==
  ASSUME NEW c \in Chain, NEW n \in Nat
  PROVE  \E f : ReferenceBelow(c, n, f)
<1> DEFINE Bad == {m \in Nat : ~ \E f : ReferenceBelow(c, m, f)}
<1>1. SUFFICES ASSUME n \in Bad PROVE FALSE
  OBVIOUS
<1>2. PICK m \in Bad : \A y \in Bad : m <= y
  BY <1>1, LeastNumber
<1>0. \A lo \in DOMAIN c.operands : lo \in Nat
  BY ChainOperators
<1>3. CASE m = 0
  <2> DEFINE f == [p \in Pairs(c) |-> TreeIn(c.parsed, c.operands[p[1]])]
  <2>1. f = [p \in Pairs(c) |-> f[p]]
    OBVIOUS
  <2>2. ASSUME NEW lo \in DOMAIN c.operands, NEW hi \in DOMAIN c.operands, hi - lo < 0
        PROVE  f[<<lo, hi>>] = ReferenceAt(c, f, lo, hi)
    <3>1. lo >= hi
      BY <1>0, <2>2
    <3>2. <<lo, hi>> \in Pairs(c)
      BY DEF Pairs
    <3>3. f[<<lo, hi>>] = TreeIn(c.parsed, c.operands[lo])
      BY <3>2
    <3> HIDE DEF f
    <3> QED
      BY <3>1, <3>3 DEF ReferenceAt
  <2> HIDE DEF f
  <2>3. ReferenceBelow(c, 0, f)
    BY <2>1, <2>2 DEF ReferenceBelow
  <2> QED
    BY <1>3, <2>3
<1>4. CASE m # 0
  <2>1. m - 1 \in Nat /\ m - 1 \notin Bad /\ m \in Nat
    BY <1>2, <1>4
  <2>2. PICK f : ReferenceBelow(c, m - 1, f)
    BY <2>1
  <2> DEFINE g == [p \in Pairs(c) |-> IF p[2] - p[1] < m - 1 THEN f[p] ELSE ReferenceAt(c, f, p[1], p[2])]
  <2>3. g = [p \in Pairs(c) |-> g[p]]
    OBVIOUS
  <2>4. ASSUME NEW lo \in DOMAIN c.operands, NEW hi \in DOMAIN c.operands
        PROVE  g[<<lo, hi>>] = IF hi - lo < m - 1 THEN f[<<lo, hi>>] ELSE ReferenceAt(c, f, lo, hi)
    <3>1. <<lo, hi>> \in Pairs(c)
      BY DEF Pairs
    <3> QED
      BY <3>1
  <2> HIDE DEF g
  <2>5. ASSUME NEW lo \in DOMAIN c.operands, NEW hi \in DOMAIN c.operands, hi - lo < m
        PROVE  g[<<lo, hi>>] = ReferenceAt(c, g, lo, hi)
    <3>1. ASSUME NEW a \in DOMAIN c.operands, NEW b \in DOMAIN c.operands, b - a < hi - lo
          PROVE  g[<<a, b>>] = f[<<a, b>>]
      <4>1. b - a < m - 1
        BY <1>0, <2>1, <2>5, <3>1
      <4> QED
        BY <2>4, <4>1
    <3>2. ReferenceAt(c, g, lo, hi) = ReferenceAt(c, f, lo, hi)
      BY <3>1, ReferenceLocal
    <3>3. hi - lo < m - 1 => f[<<lo, hi>>] = ReferenceAt(c, f, lo, hi)
      BY <2>2 DEF ReferenceBelow
    <3> QED
      BY <2>4, <3>2, <3>3
  <2>6. ReferenceBelow(c, m, g)
    BY <2>3, <2>5 DEF ReferenceBelow
  <2> QED
    BY <2>6
<1> QED
  BY <1>3, <1>4

LEMMA ReferenceEquation ==
  ASSUME NEW c \in Chain, NEW lo \in DOMAIN c.operands, NEW hi \in DOMAIN c.operands
  PROVE  /\ lo >= hi => Reference(c, lo, hi) = TreeIn(c.parsed, c.operands[lo])
         /\ \A k \in lo..(hi - 1) : IsSplit(c, lo, hi, k) =>
              Reference(c, lo, hi) = <<c.ops[k], Reference(c, lo, k), Reference(c, k + 1, hi)>>
<1> DEFINE Q(f) == f = [r \in (DOMAIN c.operands) \X (DOMAIN c.operands) |->
                     IF r[1] >= r[2] THEN TreeIn(c.parsed, c.operands[r[1]])
                     ELSE LET k == CHOOSE split \in r[1]..(r[2] - 1) : IsSplit(c, r[1], r[2], split)
                          IN  <<c.ops[k], f[<<r[1], k>>], f[<<k + 1, r[2]>>]>>]
           w == CHOOSE f : Q(f)
<1>1. \A a, b : Reference(c, a, b) = w[<<a, b>>]
  BY DEF Reference
<1>2. DOMAIN c.operands = 1..(Len(c.ops) + 1) /\ Len(c.ops) \in Nat
  BY ChainOperators
<1>3. PICK g : ReferenceBelow(c, Len(c.ops) + 1, g)
  BY <1>2, ReferenceExists
<1>4. \A a, b \in DOMAIN c.operands : g[<<a, b>>] = ReferenceAt(c, g, a, b)
  <2>1. \A a, b \in DOMAIN c.operands : b - a < Len(c.ops) + 1
    BY <1>2
  <2>2. \A a, b \in DOMAIN c.operands : b - a < Len(c.ops) + 1 => g[<<a, b>>] = ReferenceAt(c, g, a, b)
    BY <1>3 DEF ReferenceBelow
  <2> QED
    BY <2>1, <2>2, Zenon
<1>5. Q(g)
  <2>1. \A p \in Pairs(c) : p = <<p[1], p[2]>> /\ p[1] \in DOMAIN c.operands /\ p[2] \in DOMAIN c.operands
    BY DEF Pairs
  <2>2. \A p \in Pairs(c) : g[p] = ReferenceAt(c, g, p[1], p[2])
    BY <1>4, <2>1
  <2>3. g = [p \in Pairs(c) |-> ReferenceAt(c, g, p[1], p[2])]
    BY <1>3, <2>2 DEF ReferenceBelow
  <2>4. \A f : Q(f) <=> f = [p \in Pairs(c) |-> ReferenceAt(c, f, p[1], p[2])]
    BY DEF Pairs, ReferenceAt, SplitOf
  <2> QED
    BY <2>3, <2>4
<1>6. Q(w)
  <2> HIDE DEF Q
  <2> QED
    BY <1>5
<1> HIDE DEF w
<1>7. w[<<lo, hi>>] = ReferenceAt(c, w, lo, hi)
  <2>1. <<lo, hi>> \in (DOMAIN c.operands) \X (DOMAIN c.operands)
    OBVIOUS
  <2> QED
    BY <1>6, <2>1 DEF ReferenceAt, SplitOf
<1>8. lo >= hi => Reference(c, lo, hi) = TreeIn(c.parsed, c.operands[lo])
  BY <1>1, <1>7 DEF ReferenceAt
<1>9. ASSUME NEW k \in lo..(hi - 1), IsSplit(c, lo, hi, k)
      PROVE  Reference(c, lo, hi) = <<c.ops[k], Reference(c, lo, k), Reference(c, k + 1, hi)>>
  <2>1. lo < hi /\ ~(lo >= hi)
    BY <1>2
  <2>2. k = SplitOf(c, lo, hi)
    BY <1>9, <2>1, SplitFacts
  <2>3. w[<<lo, hi>>] = <<c.ops[k], w[<<lo, k>>], w[<<k + 1, hi>>]>>
    BY <1>7, <2>1, <2>2 DEF ReferenceAt
  <2> QED
    BY <1>1, <2>3
<1> QED
  BY <1>8, <1>9

-----------------------------------------------------------------------------
(* What an object of the constructor stands for: the operands lo to hi,    *)
(* with the operator by at its top, where the reference splits.            *)
Made(c, h) == (Len(c.parsed) + 1)..Len(h)
Child(c, h, lo, hi, t, a, b) ==
  IF t \in Made(c, h) THEN lo[t] = a /\ hi[t] = b ELSE a = b /\ t = c.operands[a]
SpanAt(c, h, last, lo, hi, by, n) ==
  /\ lo[n] \in Nat \ {0} /\ by[n] \in Nat /\ hi[n] \in Nat
  /\ lo[n] <= by[n] /\ by[n] < hi[n] /\ hi[n] <= last
  /\ h[n].op = c.ops[by[n]] /\ IsSplit(c, lo[n], hi[n], by[n])
  /\ Child(c, h, lo, hi, h[n].left, lo[n], by[n])
  /\ Child(c, h, lo, hi, h[n].right, by[n] + 1, hi[n])
Spans(c, h, last, lo, hi, by) ==
  /\ \A n \in Made(c, h) : SpanAt(c, h, last, lo, hi, by, n)
  /\ lo[Len(c.parsed) + 1] = 1 /\ hi[Len(c.parsed) + 1] = last
(* On the way every object ends with the operand taken last, and those     *)
(* that were passed bind less tightly than the operator to be placed.      *)
WayEnds(c, h, last, hi, P, a) ==
  /\ P \subseteq Made(c, h)
  /\ \A n \in P : hi[n] = last
  /\ \A n \in P \ {a} : getOpPriority[c.ops[last]] < getOpPriority[h[n].op]

LEMMA SplitLonger ==
  ASSUME NEW c \in Chain, NEW lo \in Nat, NEW last \in Nat, NEW k \in Nat,
         IsSplit(c, lo, last, k), getOpPriority[c.ops[last]] < getOpPriority[c.ops[k]]
  PROVE  IsSplit(c, lo, last + 1, k)
<1> SUFFICES ASSUME NEW j \in lo..((last + 1) - 1)
    PROVE \/ getOpPriority[c.ops[j]] < getOpPriority[c.ops[k]]
          \/ getOpPriority[c.ops[j]] = getOpPriority[c.ops[k]] /\ j <= k
  BY DEF IsSplit
<1>1. CASE j = last
  BY <1>1
<1>2. CASE j # last
  <2>1. j \in lo..(last - 1)
    BY <1>2
  <2> QED
    BY <2>1 DEF IsSplit
<1> QED
  BY <1>1, <1>2

LEMMA SplitAtEnd ==
  ASSUME NEW c \in Chain, NEW lo \in Nat \ {0}, NEW last \in Nat, NEW k \in Nat, last <= Len(c.ops),
         lo <= k, k < last,
         IsSplit(c, lo, last, k), getOpPriority[c.ops[k]] <= getOpPriority[c.ops[last]]
  PROVE  IsSplit(c, lo, last + 1, last)
<1>1. \A j \in 1..Len(c.ops) : getOpPriority[c.ops[j]] \in Nat
  BY ChainOperators
<1>2. Len(c.ops) \in Nat
  BY ChainOperators
<1> SUFFICES ASSUME NEW j \in lo..((last + 1) - 1)
    PROVE \/ getOpPriority[c.ops[j]] < getOpPriority[c.ops[last]]
          \/ getOpPriority[c.ops[j]] = getOpPriority[c.ops[last]] /\ j <= last
  BY DEF IsSplit
<1>3. j \in 1..Len(c.ops) /\ k \in 1..Len(c.ops) /\ last \in 1..Len(c.ops) /\ j <= last
  BY <1>2
<1>4. CASE j = last
  BY <1>3, <1>4
<1>5. CASE j # last
  <2>1. j \in lo..(last - 1)
    BY <1>5
  <2>2. PICK pj \in Nat : pj = getOpPriority[c.ops[j]]
    BY <1>1, <1>3
  <2>3. PICK pk \in Nat : pk = getOpPriority[c.ops[k]]
    BY <1>1, <1>3
  <2>4. PICK pl \in Nat : pl = getOpPriority[c.ops[last]]
    BY <1>1, <1>3
  <2>5. pj < pk \/ pj = pk
    BY <2>1, <2>2, <2>3 DEF IsSplit
  <2>6. pj < pl \/ pj = pl
    <3>1. pk <= pl
      BY <2>3, <2>4
    <3> QED
      BY <2>5, <3>1
  <2> QED
    BY <1>3, <2>2, <2>4, <2>6
<1> QED
  BY <1>4, <1>5

(* What both writing steps do to the spans: those on the way get longer by *)
(* one operand, the others are untouched.                                  *)
Longer(c, h, last, P, a, lo, hi, by, lo1, hi1, by1) ==
  /\ \A n \in Made(c, h) : lo1[n] = lo[n] /\ hi1[n] = IF n \in P THEN last + 1 ELSE hi[n]
  /\ \A n \in Made(c, h) \ {a} : by1[n] = by[n]

LEMMA ChildStays ==
  ASSUME NEW c, NEW h \in Seq(Node), NEW h1 \in Seq(Node), Len(h1) = Len(h) + 1,
         NEW last, NEW P, NEW a, NEW lo, NEW hi, NEW by, NEW lo1, NEW hi1, NEW by1,
         Len(c.parsed) \in Nat, Len(c.parsed) <= Len(h),
         Longer(c, h, last, P, a, lo, hi, by, lo1, hi1, by1),
         NEW t, t \notin P, t # Len(h) + 1, NEW x, NEW y, Child(c, h, lo, hi, t, x, y)
  PROVE  Child(c, h1, lo1, hi1, t, x, y)
<1>1. Len(h) \in Nat
  OBVIOUS
<1>2. Made(c, h1) = Made(c, h) \cup {Len(h) + 1}
  <2> DEFINE l == Len(h)
             p == Len(c.parsed)
  <2>1. l \in Nat /\ p \in Nat /\ p <= l /\ Len(h1) = l + 1
    BY <1>1
  <2> HIDE DEF l, p
  <2>2. (p + 1)..(l + 1) = ((p + 1)..l) \cup {l + 1}
    BY <2>1
  <2> QED
    BY <2>1, <2>2 DEF Made, l, p
<1>3. t \in Made(c, h1) <=> t \in Made(c, h)
  BY <1>2
<1>4. t \in Made(c, h) => lo1[t] = lo[t] /\ hi1[t] = hi[t]
  BY DEF Longer
<1> QED
  BY <1>3, <1>4 DEF Child

LEMMA SpansBeside ==
  ASSUME NEW c \in Chain, NEW h \in Seq(Node), Closed(h), Len(c.parsed) <= Len(h),
         NEW P, NEW root, NEW a, Way(h, P, root, a),
         NEW h1, NEW o, NEW x, Wrote(h, h1, a, o, x),
         NEW last \in Nat, o = c.ops[last],
         NEW lo, NEW hi, NEW by, NEW lo1, NEW hi1, NEW by1,
         Spans(c, h, last, lo, hi, by), WayEnds(c, h, last, hi, P, a),
         Longer(c, h, last, P, a, lo, hi, by, lo1, hi1, by1),
         NEW n \in Made(c, h) \ {a}
  PROVE  SpanAt(c, h1, last + 1, lo1, hi1, by1, n)
<1>1. /\ h1 \in Seq(Node) /\ Len(h1) = Len(h) + 1 /\ Len(c.parsed) \in Nat /\ Len(h) \in Nat
      /\ DOMAIN h = 1..Len(h)
  BY DEF Wrote, Chain
<1>2. n \in DOMAIN h /\ h1[n] = h[n]
  BY <1>1 DEF Wrote, Made
<1>3. SpanAt(c, h, last, lo, hi, by, n)
  BY DEF Spans
<1>4. lo1[n] = lo[n] /\ by1[n] = by[n] /\ hi1[n] = IF n \in P THEN last + 1 ELSE hi[n]
  BY DEF Longer
<1>5. a \in DOMAIN h /\ h[n].left # Len(h) + 1 /\ h[n].right # Len(h) + 1
  BY <1>2, WroteFacts DEF Way
<1>6. h[n].left \notin P /\ (h[n].right \in P <=> n \in P)
  BY <1>2 DEF Way
<1>7. Child(c, h1, lo1, hi1, h[n].left, lo[n], by[n])
  <2>1. Child(c, h, lo, hi, h[n].left, lo[n], by[n])
    BY <1>3 DEF SpanAt
  <2> QED
    BY <2>1, <1>1, <1>5, <1>6, ChildStays
<1>8. CASE n \notin P
  <2>1. Child(c, h1, lo1, hi1, h[n].right, by[n] + 1, hi[n])
    BY <1>1, <1>3, <1>5, <1>6, <1>8, ChildStays DEF SpanAt
  <2> QED
    BY <1>2, <1>3, <1>4, <1>7, <1>8, <2>1 DEF SpanAt
<1>9. CASE n \in P
  <2>1. hi[n] = last /\ getOpPriority[c.ops[last]] < getOpPriority[h[n].op] /\ P \subseteq Made(c, h)
    BY <1>9 DEF WayEnds
  <2>2. lo[n] \in Nat /\ by[n] \in Nat /\ by[n] < last /\ lo[n] <= by[n] /\ h[n].op = c.ops[by[n]]
        /\ IsSplit(c, lo[n], last, by[n])
    BY <1>3, <2>1 DEF SpanAt
  <2>3. IsSplit(c, lo[n], last + 1, by[n])
    BY <2>1, <2>2, SplitLonger
  <2>4. h[n].right \in P /\ h[n].right \in Made(c, h)
    BY <1>6, <1>9, <2>1
  <2>5. lo[h[n].right] = by[n] + 1
    BY <1>3, <2>4 DEF SpanAt, Child
  <2>6. lo1[h[n].right] = by[n] + 1 /\ hi1[h[n].right] = last + 1
    BY <2>4, <2>5 DEF Longer
  <2>7. h[n].right \in Made(c, h1)
    <3>1. h[n].right \in (Len(c.parsed) + 1)..Len(h)
      BY <2>4 DEF Made
    <3>2. h[n].right \in (Len(c.parsed) + 1)..(Len(h) + 1)
      BY <1>1, <3>1
    <3> QED
      BY <1>1, <3>2 DEF Made
  <2>8. Child(c, h1, lo1, hi1, h[n].right, by[n] + 1, last + 1)
    BY <2>6, <2>7 DEF Child
  <2>9. by[n] < last + 1
    BY <2>2
  <2>10. lo[n] \in Nat \ {0} /\ last + 1 \in Nat /\ last + 1 <= last + 1
    BY <1>3 DEF SpanAt
  <2> QED
    BY <1>2, <1>4, <1>7, <1>9, <2>2, <2>3, <2>8, <2>9, <2>10 DEF SpanAt
<1> QED
  BY <1>8, <1>9

(* Self as the new operator's left: the new object takes over the span     *)
(* that ended, the old one begins there too and ends one operand later.    *)
LEMMA SpansTook ==
  ASSUME NEW c \in Chain, NEW h \in Seq(Node), Closed(h), Len(c.parsed) < Len(h),
         NEW P, NEW a, Way(h, P, Len(c.parsed) + 1, a),
         NEW h1, NEW o, NEW x, Wrote(h, h1, a, o, x), TookAsLeft(h, h1, a, o, x),
         NEW last \in Nat, o = c.ops[last], x = c.operands[last + 1], last <= Len(c.ops),
         x \notin Made(c, h1),
         NEW lo, NEW hi, NEW by, Spans(c, h, last, lo, hi, by), WayEnds(c, h, last, hi, P, a),
         getOpPriority[h[a].op] <= getOpPriority[o]
  PROVE  \E lo1, hi1, by1 : Spans(c, h1, last + 1, lo1, hi1, by1)
<1> DEFINE new1 == Len(h) + 1
           lo1 == [n \in Made(c, h1) |-> IF n = new1 THEN lo[a] ELSE lo[n]]
           hi1 == [n \in Made(c, h1) |-> IF n = new1 THEN last ELSE IF n \in P THEN last + 1 ELSE hi[n]]
           by1 == [n \in Made(c, h1) |-> IF n = new1 THEN by[a] ELSE IF n = a THEN last ELSE by[n]]
<1>1. /\ h1 \in Seq(Node) /\ Len(h1) = Len(h) + 1 /\ Len(c.parsed) \in Nat /\ Len(h) \in Nat
      /\ DOMAIN h = 1..Len(h) /\ Len(c.parsed) <= Len(h)
  <2>1. h1 \in Seq(Node) /\ Len(h1) = Len(h) + 1
    BY DEF Wrote
  <2>2. c.parsed \in Seq(Node)
    BY DEF Chain
  <2>3. Len(c.parsed) \in Nat /\ Len(h) \in Nat /\ DOMAIN h = 1..Len(h)
    BY <2>2
  <2> QED
    BY <2>1, <2>3
<1>2. Made(c, h1) = Made(c, h) \cup {new1} /\ new1 \notin Made(c, h) /\ Len(c.parsed) + 1 \in Made(c, h)
  <2> DEFINE l == Len(h)
             p == Len(c.parsed)
  <2>1. l \in Nat /\ p \in Nat /\ p < l /\ Len(h1) = l + 1 /\ new1 = l + 1
    BY <1>1
  <2> HIDE DEF l, p, new1
  <2>2. (p + 1)..(l + 1) = ((p + 1)..l) \cup {l + 1} /\ l + 1 \notin (p + 1)..l /\ p + 1 \in (p + 1)..l
    BY <2>1
  <2> QED
    BY <2>1, <2>2 DEF Made, l, p
<1>3. /\ a \in P /\ a \in DOMAIN h /\ a \in Made(c, h) /\ a # new1 /\ P \subseteq Made(c, h)
      /\ Len(c.parsed) + 1 \in P
  BY <1>2 DEF WayEnds, Way
<1>4. /\ \A n \in Made(c, h) : lo1[n] = lo[n] /\ hi1[n] = IF n \in P THEN last + 1 ELSE hi[n]
      /\ \A n \in Made(c, h) \ {a} : by1[n] = by[n]
      /\ lo1[new1] = lo[a] /\ hi1[new1] = last /\ by1[new1] = by[a]
      /\ lo1[a] = lo[a] /\ hi1[a] = last + 1 /\ by1[a] = last
  <2>1. \A n \in Made(c, h) : n \in Made(c, h1) /\ n # new1
    BY <1>2
  <2>2. new1 \in Made(c, h1)
    BY <1>2
  <2> QED
    BY <1>3, <2>1, <2>2
<1> HIDE DEF lo1, hi1, by1
<1>5. Longer(c, h, last, P, a, lo, hi, by, lo1, hi1, by1)
  BY <1>4 DEF Longer
<1>6. \A n \in Made(c, h) \ {a} : SpanAt(c, h1, last + 1, lo1, hi1, by1, n)
  BY <1>5, SpansBeside
<1>7. /\ h1[a].op = o /\ h1[a].left = new1 /\ h1[a].right = x /\ h1[new1] = h[a]
  BY DEF TookAsLeft
<1>8. SpanAt(c, h, last, lo, hi, by, a) /\ hi[a] = last
  BY <1>3 DEF Spans, WayEnds
<1>9. /\ lo[a] \in Nat \ {0} /\ by[a] \in Nat /\ lo[a] <= by[a] /\ by[a] < last
      /\ h[a].op = c.ops[by[a]] /\ IsSplit(c, lo[a], last, by[a])
  BY <1>8 DEF SpanAt
<1>10. SpanAt(c, h1, last + 1, lo1, hi1, by1, a)
  <2>1. IsSplit(c, lo[a], last + 1, last)
    BY <1>9, SplitAtEnd
  <2>2. Child(c, h1, lo1, hi1, new1, lo[a], last)
    BY <1>2, <1>4 DEF Child
  <2>3. Child(c, h1, lo1, hi1, x, last + 1, last + 1)
    BY DEF Child
  <2>4. lo[a] <= last /\ last < last + 1 /\ last + 1 \in Nat /\ last + 1 <= last + 1
    BY <1>9
  <2> QED
    BY <1>4, <1>7, <1>9, <2>1, <2>2, <2>3, <2>4 DEF SpanAt
<1>11. SpanAt(c, h1, last + 1, lo1, hi1, by1, new1)
  <2>1. h[a].left \notin P /\ h[a].right \notin P
    BY <1>3 DEF Way
  <2>2. h[a].left # Len(h) + 1 /\ h[a].right # Len(h) + 1
    BY <1>3, WroteFacts
  <2>3. Child(c, h, lo, hi, h[a].left, lo[a], by[a]) /\ Child(c, h, lo, hi, h[a].right, by[a] + 1, last)
    BY <1>8 DEF SpanAt
  <2>7. \A t, u, v : t \notin P /\ t # Len(h) + 1 /\ Child(c, h, lo, hi, t, u, v) => Child(c, h1, lo1, hi1, t, u, v)
    BY <1>1, <1>5, ChildStays
  <2>4. Child(c, h1, lo1, hi1, h[a].left, lo[a], by[a])
    BY <2>1, <2>2, <2>3, <2>7
  <2>5. Child(c, h1, lo1, hi1, h[a].right, by[a] + 1, last)
    BY <2>1, <2>2, <2>3, <2>7
  <2>6. last <= last + 1
    OBVIOUS
  <2> QED
    BY <1>4, <1>7, <1>9, <2>4, <2>5, <2>6 DEF SpanAt
<1>12. \A n \in Made(c, h1) : SpanAt(c, h1, last + 1, lo1, hi1, by1, n)
  BY <1>2, <1>6, <1>10, <1>11
<1>13. lo1[Len(c.parsed) + 1] = 1 /\ hi1[Len(c.parsed) + 1] = last + 1
  BY <1>2, <1>3, <1>4 DEF Spans
<1>14. Spans(c, h1, last + 1, lo1, hi1, by1)
  BY <1>12, <1>13 DEF Spans
<1> QED
  BY <1>14

(* A new right: the new object has the operand taken last and the new one. *)
LEMMA SpansHung ==
  ASSUME NEW c \in Chain, NEW h \in Seq(Node), Closed(h), Len(c.parsed) < Len(h),
         NEW P, NEW a, Way(h, P, Len(c.parsed) + 1, a),
         NEW h1, NEW o, NEW x, Wrote(h, h1, a, o, x), HungRight(h, h1, a, o, x),
         NEW last \in Nat, o = c.ops[last], x = c.operands[last + 1], last <= Len(c.ops),
         x \notin Made(c, h1),
         NEW lo, NEW hi, NEW by, Spans(c, h, last, lo, hi, by), WayEnds(c, h, last, hi, P, a),
         getOpPriority[o] < getOpPriority[h[a].op]
  PROVE  \E lo1, hi1, by1 : Spans(c, h1, last + 1, lo1, hi1, by1)
<1> DEFINE new1 == Len(h) + 1
           lo1 == [n \in Made(c, h1) |-> IF n = new1 THEN last ELSE lo[n]]
           hi1 == [n \in Made(c, h1) |-> IF n = new1 \/ n \in P THEN last + 1 ELSE hi[n]]
           by1 == [n \in Made(c, h1) |-> IF n = new1 THEN last ELSE by[n]]
<1>1. /\ h1 \in Seq(Node) /\ Len(h1) = Len(h) + 1 /\ Len(c.parsed) \in Nat /\ Len(h) \in Nat
      /\ DOMAIN h = 1..Len(h) /\ Len(c.parsed) <= Len(h)
  <2>1. h1 \in Seq(Node) /\ Len(h1) = Len(h) + 1
    BY DEF Wrote
  <2>2. c.parsed \in Seq(Node)
    BY DEF Chain
  <2>3. Len(c.parsed) \in Nat /\ Len(h) \in Nat /\ DOMAIN h = 1..Len(h)
    BY <2>2
  <2> QED
    BY <2>1, <2>3
<1>2. Made(c, h1) = Made(c, h) \cup {new1} /\ new1 \notin Made(c, h) /\ Len(c.parsed) + 1 \in Made(c, h)
  <2> DEFINE l == Len(h)
             p == Len(c.parsed)
  <2>1. l \in Nat /\ p \in Nat /\ p < l /\ Len(h1) = l + 1 /\ new1 = l + 1
    BY <1>1
  <2> HIDE DEF l, p, new1
  <2>2. (p + 1)..(l + 1) = ((p + 1)..l) \cup {l + 1} /\ l + 1 \notin (p + 1)..l /\ p + 1 \in (p + 1)..l
    BY <2>1
  <2> QED
    BY <2>1, <2>2 DEF Made, l, p
<1>3. /\ a \in P /\ a \in DOMAIN h /\ a \in Made(c, h) /\ a # new1 /\ P \subseteq Made(c, h)
      /\ Len(c.parsed) + 1 \in P
  BY <1>2 DEF WayEnds, Way
<1>4. /\ \A n \in Made(c, h) : lo1[n] = lo[n] /\ by1[n] = by[n] /\ hi1[n] = IF n \in P THEN last + 1 ELSE hi[n]
      /\ lo1[new1] = last /\ hi1[new1] = last + 1 /\ by1[new1] = last
      /\ lo1[a] = lo[a] /\ hi1[a] = last + 1 /\ by1[a] = by[a]
  <2>1. \A n \in Made(c, h) : n \in Made(c, h1) /\ n # new1
    BY <1>2
  <2>2. new1 \in Made(c, h1)
    BY <1>2
  <2> QED
    BY <1>3, <2>1, <2>2
<1> HIDE DEF lo1, hi1, by1
<1>5. Longer(c, h, last, P, a, lo, hi, by, lo1, hi1, by1)
  BY <1>4 DEF Longer
<1>6. \A n \in Made(c, h) \ {a} : SpanAt(c, h1, last + 1, lo1, hi1, by1, n)
  BY <1>5, SpansBeside
<1>7. /\ ~isBinary(h[a].right)
      /\ h1[a].op = h[a].op /\ h1[a].left = h[a].left /\ h1[a].right = new1
      /\ h1[new1].op = o /\ h1[new1].left = h[a].right /\ h1[new1].right = x
  BY DEF HungRight
<1>8. SpanAt(c, h, last, lo, hi, by, a) /\ hi[a] = last
  BY <1>3 DEF Spans, WayEnds
<1>9. /\ lo[a] \in Nat \ {0} /\ by[a] \in Nat /\ lo[a] <= by[a] /\ by[a] < last
      /\ h[a].op = c.ops[by[a]] /\ IsSplit(c, lo[a], last, by[a])
      /\ Child(c, h, lo, hi, h[a].left, lo[a], by[a]) /\ Child(c, h, lo, hi, h[a].right, by[a] + 1, last)
  BY <1>8 DEF SpanAt
<1>10. h[a].right \notin Made(c, h) /\ h[a].right # new1 /\ h[a].left # new1
  <2>1. h[a].left # Len(h) + 1 /\ h[a].right # Len(h) + 1
    BY <1>3, WroteFacts
  <2>2. \A n \in Made(c, h) : isBinary(n)
    BY <1>1 DEF Made, isBinary
  <2> QED
    BY <1>7, <2>1, <2>2
<1>11. by[a] + 1 = last /\ h[a].right = c.operands[last]
  <2>1. by[a] + 1 = last /\ h[a].right = c.operands[by[a] + 1]
    BY <1>9, <1>10 DEF Child
  <2> QED
    BY <2>1
<1>12. SpanAt(c, h1, last + 1, lo1, hi1, by1, a)
  <2>1. IsSplit(c, lo[a], last + 1, by[a])
    BY <1>9, SplitLonger
  <2>2. h[a].left \notin P
    BY <1>3 DEF Way
  <2>3. Child(c, h1, lo1, hi1, h[a].left, lo[a], by[a])
    BY <1>1, <1>5, <1>9, <1>10, <2>2, ChildStays
  <2>4. Child(c, h1, lo1, hi1, new1, by[a] + 1, last + 1)
    BY <1>2, <1>4, <1>11 DEF Child
  <2>5. by[a] < last + 1 /\ last + 1 \in Nat /\ last + 1 <= last + 1
    <3>1. by[a] \in Nat /\ by[a] < last
      BY <1>9
    <3> QED
      BY <3>1
  <2> QED
    BY <1>4, <1>7, <1>9, <2>1, <2>3, <2>4, <2>5 DEF SpanAt
<1>13. SpanAt(c, h1, last + 1, lo1, hi1, by1, new1)
  <2>1. IsSplit(c, last, last + 1, last)
    <3>1. \A j \in last..((last + 1) - 1) : j = last
      OBVIOUS
    <3> QED
      BY <3>1 DEF IsSplit
  <2>2. Child(c, h1, lo1, hi1, h[a].right, last, last)
    BY <1>2, <1>10, <1>11 DEF Child
  <2>3. Child(c, h1, lo1, hi1, x, last + 1, last + 1)
    BY DEF Child
  <2>4. last \in Nat \ {0} /\ last < last + 1 /\ last + 1 \in Nat /\ last + 1 <= last + 1 /\ last <= last
    BY <1>9
  <2> QED
    BY <1>4, <1>7, <2>1, <2>2, <2>3, <2>4 DEF SpanAt
<1>14. \A n \in Made(c, h1) : SpanAt(c, h1, last + 1, lo1, hi1, by1, n)
  BY <1>2, <1>6, <1>12, <1>13
<1>15. lo1[Len(c.parsed) + 1] = 1 /\ hi1[Len(c.parsed) + 1] = last + 1
  BY <1>2, <1>3, <1>4 DEF Spans
<1>16. Spans(c, h1, last + 1, lo1, hi1, by1)
  BY <1>14, <1>15 DEF Spans
<1> QED
  BY <1>16

(* Objects that stand for such spans are the trees of the reference.       *)
LEMMA SpansAreReference ==
  ASSUME NEW c \in Chain, NEW h \in Seq(Node), WellFounded(h), Len(c.parsed) < Len(h),
         \A n \in DOMAIN c.parsed : h[n] = c.parsed[n],
         NEW last \in Nat, last <= Len(c.ops) + 1, NEW lo, NEW hi, NEW by, Spans(c, h, last, lo, hi, by)
  PROVE  TreeIn(h, Len(c.parsed) + 1) = Reference(c, 1, last)
<1>1. /\ c.parsed \in Seq(Node) /\ Closed(c.parsed) /\ NoneInItself(c.parsed)
      /\ Len(c.parsed) \in Nat /\ Len(h) \in Nat
      /\ DOMAIN h = 1..Len(h) /\ DOMAIN c.parsed = 1..Len(c.parsed)
  BY DEF Chain
<1>2. WellFounded(c.parsed)
  BY <1>1, ParsedWellFounded
<1>3. Len(c.ops) \in Nat /\ DOMAIN c.operands = 1..(Len(c.ops) + 1)
  BY ChainOperators
<1>4. \A i \in DOMAIN c.operands : c.operands[i] \in Int /\ c.operands[i] <= Len(c.parsed)
  <2> SUFFICES ASSUME NEW i \in DOMAIN c.operands PROVE c.operands[i] \in Int /\ c.operands[i] <= Len(c.parsed)
    OBVIOUS
  <2>1. c.operands \in Seq(Int) /\ (isBinary(c.operands[i]) => c.operands[i] \in DOMAIN c.parsed)
    BY DEF Chain
  <2>2. c.operands[i] \in Int
    BY <2>1
  <2> QED
    BY <1>1, <2>1, <2>2 DEF isBinary
<1>5. \A i \in DOMAIN c.operands : TreeIn(h, c.operands[i]) = TreeIn(c.parsed, c.operands[i])
  <2> DEFINE S == {t \in Int : t <= Len(c.parsed)}
  <2>1. ASSUME NEW t \in S
        PROVE  /\ t \in DOMAIN c.parsed <=> t \in DOMAIN h
               /\ t \in DOMAIN c.parsed => h[t] = c.parsed[t] /\ c.parsed[t].left \in S /\ c.parsed[t].right \in S
    <3>1. t \in DOMAIN c.parsed <=> t \in DOMAIN h
      BY <1>1
    <3>2. ASSUME t \in DOMAIN c.parsed
          PROVE  h[t] = c.parsed[t] /\ c.parsed[t].left \in S /\ c.parsed[t].right \in S
      <4>1. c.parsed[t].left \in Int /\ c.parsed[t].right \in Int
        BY <1>1, <3>2, NodeAt
      <4> QED
        BY <1>1, <3>2, <4>1 DEF Closed
    <3> QED
      BY <3>1, <3>2
  <2>2. S \in SUBSET Int
    OBVIOUS
  <2>3. \A i \in DOMAIN c.operands : c.operands[i] \in S
    BY <1>4
  <2> HIDE DEF S
  <2>4. \A t \in S : TreeIn(h, t) = TreeIn(c.parsed, t)
    BY <1>1, <1>2, <2>1, <2>2, TreesAgree, SMTT(30)
  <2> QED
    BY <2>3, <2>4
<1>6. PICK N, r : Ranked(h, N, r)
  BY DEF WellFounded
<1>7. Made(c, h) \subseteq DOMAIN h /\ Len(c.parsed) + 1 \in Made(c, h)
  BY <1>1 DEF Made
<1> DEFINE Bad == {n \in Made(c, h) : TreeIn(h, n) # Reference(c, lo[n], hi[n])}
           Ranks == {r[t] : t \in Bad}
<1>8. Bad = {}
  <2> SUFFICES ASSUME Bad # {} PROVE FALSE
    OBVIOUS
  <2>1. Ranks \subseteq Nat /\ Ranks # {}
    <3>1. \A t \in Bad : t \in DOMAIN h
      BY <1>7
    <3>2. \A t \in DOMAIN h : r[t] \in Nat
      BY <1>6, RankedParts
    <3> HIDE DEF Bad
    <3> QED
      BY <3>1, <3>2
  <2>2. PICK m \in Ranks : \A y \in Ranks : m <= y
    BY <2>1, LeastNumber
  <2>3. PICK n \in Bad : m = r[n]
    BY <2>2
  <2>4. \A v \in Bad : r[n] <= r[v]
    BY <2>2, <2>3
  <2>5. n \in Made(c, h) /\ TreeIn(h, n) # Reference(c, lo[n], hi[n]) /\ n \in DOMAIN h
    BY <1>7
  <2>6. \A v \in Made(c, h) : TreeIn(h, v) = Reference(c, lo[v], hi[v]) \/ v \in Bad
    OBVIOUS
  <2> HIDE DEF Bad, Ranks
  <2>7. SpanAt(c, h, last, lo, hi, by, n)
    BY <2>5 DEF Spans
  <2>8. /\ lo[n] \in DOMAIN c.operands /\ hi[n] \in DOMAIN c.operands
        /\ by[n] \in lo[n]..(hi[n] - 1) /\ by[n] \in DOMAIN c.operands /\ by[n] + 1 \in DOMAIN c.operands
        /\ h[n].op = c.ops[by[n]] /\ IsSplit(c, lo[n], hi[n], by[n])
        /\ Child(c, h, lo, hi, h[n].left, lo[n], by[n])
        /\ Child(c, h, lo, hi, h[n].right, by[n] + 1, hi[n])
    <3>1. /\ lo[n] \in Nat \ {0} /\ by[n] \in Nat /\ hi[n] \in Nat
          /\ lo[n] <= by[n] /\ by[n] < hi[n] /\ hi[n] <= last
      BY <2>7 DEF SpanAt
    <3>2. ASSUME NEW u \in Nat \ {0}, NEW v \in Nat, NEW w \in Nat, u <= v, v < w, w <= last
          PROVE  /\ u \in DOMAIN c.operands /\ w \in DOMAIN c.operands
                 /\ v \in u..(w - 1) /\ v \in DOMAIN c.operands /\ v + 1 \in DOMAIN c.operands
      BY <1>3, <3>2
    <3>3. /\ lo[n] \in DOMAIN c.operands /\ hi[n] \in DOMAIN c.operands
          /\ by[n] \in lo[n]..(hi[n] - 1) /\ by[n] \in DOMAIN c.operands /\ by[n] + 1 \in DOMAIN c.operands
      BY <3>1, <3>2
    <3> QED
      BY <2>7, <3>3 DEF SpanAt
  <2>9. ASSUME NEW t \in {h[n].left, h[n].right}, NEW a \in DOMAIN c.operands, NEW b \in DOMAIN c.operands,
               Child(c, h, lo, hi, t, a, b)
        PROVE  TreeIn(h, t) = Reference(c, a, b)
    <3>1. CASE t \in Made(c, h)
      <4>1. r[t] < r[n] /\ r[t] \in Nat /\ r[n] \in Nat
        BY <1>6, <1>7, <2>5, <3>1, RankedParts
      <4>2. t \notin Bad
        BY <2>4, <4>1
      <4> QED
        BY <2>6, <2>9, <3>1, <4>2 DEF Child
    <3>2. CASE t \notin Made(c, h)
      <4>1. a = b /\ t = c.operands[a]
        BY <2>9, <3>2 DEF Child
      <4>2. a >= b
        BY <1>3, <4>1
      <4>3. Reference(c, a, b) = TreeIn(c.parsed, c.operands[a])
        BY <4>2, ReferenceEquation
      <4> QED
        BY <1>5, <4>1, <4>3
    <3> QED
      BY <3>1, <3>2
  <2>10. TreeIn(h, h[n].left) = Reference(c, lo[n], by[n])
    BY <2>8, <2>9
  <2>11. TreeIn(h, h[n].right) = Reference(c, by[n] + 1, hi[n])
    BY <2>8, <2>9
  <2>12. Reference(c, lo[n], hi[n]) = <<c.ops[by[n]], Reference(c, lo[n], by[n]), Reference(c, by[n] + 1, hi[n])>>
    BY <2>8, ReferenceEquation
  <2>13. TreeIn(h, n) = <<h[n].op, TreeIn(h, h[n].left), TreeIn(h, h[n].right)>>
    BY <1>1, <2>5, TreeEquation
  <2> QED
    BY <2>5, <2>8, <2>10, <2>11, <2>12, <2>13
<1>9. TreeIn(h, Len(c.parsed) + 1) = Reference(c, lo[Len(c.parsed) + 1], hi[Len(c.parsed) + 1])
  BY <1>7, <1>8
<1> QED
  BY <1>9 DEF Spans

SpansInv ==
  /\ \A n \in DOMAIN input.parsed : heap[n] = input.parsed[n]
  /\ taken > 0 =>
       \E lo, hi, by :
         /\ Spans(input, heap, taken + 1, lo, hi, by)
         /\ at # 0 => \E P : Way(heap, P, Root, at) /\ WayEnds(input, heap, taken + 1, hi, P, at)

LEMMA FirstRightSpans ==
  ASSUME TypeOK, SpansInv, FirstRight
  PROVE  SpansInv'
<1>1. taken = 0 /\ taken' = 1 /\ input' = input /\ at' = 0
  BY Sizes DEF FirstRight
<1> DEFINE y == [op |-> op, left |-> input.operands[1], right |-> rightExpr]
<1>2. /\ 1 \in DOMAIN input.operands /\ 2 \in DOMAIN input.operands /\ rightExpr = input.operands[2]
      /\ op = input.ops[1] /\ op \in BinaryOp
  <2>1. Len(input.ops) \in Nat \ {0} /\ DOMAIN input.operands = 1..(Len(input.ops) + 1)
    BY ChainType
  <2>2. 1 \in DOMAIN input.operands /\ 2 \in DOMAIN input.operands
    BY <2>1
  <2>3. taken + 2 = 2 /\ taken + 1 = 1 /\ taken < Len(input.ops)
    BY <1>1, <2>1
  <2> QED
    BY <2>2, <2>3, ArgumentTypes DEF rightExpr, op
<1>3. /\ y \in Node /\ y.op = input.ops[1] /\ y.left = input.operands[1] /\ y.right = input.operands[2]
      /\ y.left # Root /\ y.right # Root
  BY <1>2, OperandFacts DEF Node
<1>4. /\ Len(heap) = Len(input.parsed) /\ heap \in Seq(Node) /\ Len(heap) \in Nat /\ Root = Len(heap) + 1
      /\ DOMAIN heap = DOMAIN input.parsed
  BY <1>1, Sizes, ChainType DEF Root
<1>5. heap' = Append(heap, y)
  BY DEF FirstRight
<1> HIDE DEF y
<1>6. PICK h1 : h1 = heap'
  OBVIOUS
<1>7. h1[Root] = y /\ Len(h1) = Root /\ \A n \in DOMAIN heap : h1[n] = heap[n]
  BY <1>3, <1>4, <1>5, <1>6
<1>8. Made(input, h1) = {Root}
  BY <1>4, <1>7 DEF Made, Root
<1> DEFINE one == [n \in {Root} |-> 1]
           two == [n \in {Root} |-> 2]
<1>9. Spans(input, h1, 2, one, two, one)
  <2>1. one[Root] = 1 /\ two[Root] = 2
    OBVIOUS
  <2> HIDE DEF one, two
  <2>2. IsSplit(input, 1, 2, 1)
    <3>1. \A j \in 1..(2 - 1) : j = 1
      OBVIOUS
    <3> QED
      BY <3>1 DEF IsSplit
  <2>3. Child(input, h1, one, two, y.left, 1, 1) /\ Child(input, h1, one, two, y.right, 1 + 1, 2)
    BY <1>3, <1>8 DEF Child
  <2>4. SpanAt(input, h1, 2, one, two, one, Root)
    BY <1>3, <1>7, <2>1, <2>2, <2>3 DEF SpanAt
  <2> QED
    BY <1>8, <2>1, <2>4 DEF Spans, Root
<1>10. \E lo, hi, by : Spans(input, h1, 2, lo, hi, by)
  BY <1>9
<1>11. taken' + 1 = 2
  BY <1>1
<1> QED
  BY <1>1, <1>4, <1>6, <1>7, <1>10, <1>11 DEF SpansInv

LEMMA AppendExprSpans ==
  ASSUME TypeOK, OrderInv, SpansInv, AppendExpr
  PROVE  SpansInv'
<1>1. taken > 0 /\ heap' = heap /\ input' = input /\ taken' = taken /\ at' = Root /\ Root' = Root
  BY DEF AppendExpr, Root
<1>2. PICK lo, hi, by : Spans(input, heap, taken + 1, lo, hi, by)
  BY <1>1 DEF SpansInv
<1>3. Root \in DOMAIN heap /\ Root \in Made(input, heap) /\ heap \in Seq(Node)
  <2> DEFINE p == Len(input.parsed)
             l == Len(heap)
  <2>1. l \in Nat /\ DOMAIN heap = 1..l /\ l = p + taken /\ taken \in Nat /\ p \in Nat /\ heap \in Seq(Node)
    BY Sizes, ChainType
  <2> HIDE DEF p, l
  <2>2. p + 1 \in DOMAIN heap /\ p + 1 \in (p + 1)..l
    BY <1>1, <2>1
  <2> QED
    BY <2>1, <2>2 DEF Root, Made, p, l
<1>4. Way(heap, {Root}, Root, Root)
  BY <1>1, <1>3, WayBegins DEF OrderInv
<1>5. WayEnds(input, heap, taken + 1, hi, {Root}, Root)
  BY <1>2, <1>3 DEF WayEnds, Spans, Root
<1>6. \E P : Way(heap', P, Root', at') /\ WayEnds(input', heap', taken' + 1, hi, P, at')
  BY <1>1, <1>4, <1>5
<1>7. Spans(input', heap', taken' + 1, lo, hi, by)
  BY <1>1, <1>2
<1> QED
  BY <1>1, <1>6, <1>7 DEF SpansInv

(* Descending, appendExpr stays among the objects of the constructor: an   *)
(* operand in parentheses that it could enter would be endangered.         *)
LEMMA DescendSpans ==
  ASSUME TypeOK, OrderInv, SpansInv, Intact, Descend
  PROVE  SpansInv'
<1>1. /\ at # 0 /\ isBinary(heap[at].right) /\ at' = heap[at].right /\ ~bindsTighter
      /\ heap' = heap /\ input' = input /\ taken' = taken /\ Root' = Root
      /\ taken \in Nat /\ taken > 0 /\ taken < Len(input.ops) /\ at \in DOMAIN heap
  BY Sizes DEF Descend, Root
<1>2. PICK lo, hi, by : /\ Spans(input, heap, taken + 1, lo, hi, by)
                        /\ \E P : Way(heap, P, Root, at) /\ WayEnds(input, heap, taken + 1, hi, P, at)
  BY <1>1 DEF SpansInv
<1>3. PICK P : Way(heap, P, Root, at) /\ WayEnds(input, heap, taken + 1, hi, P, at)
  BY <1>2
<1> DEFINE b == heap[at].right
<1>4. at \in P /\ at \in Made(input, heap) /\ hi[at] = taken + 1
  BY <1>3 DEF Way, WayEnds
<1>5. /\ heap[at].op = input.ops[by[at]] /\ by[at] \in Nat /\ by[at] < taken + 1
      /\ Child(input, heap, lo, hi, b, by[at] + 1, taken + 1)
  BY <1>2, <1>4 DEF Spans, SpanAt
<1>6. op = input.ops[taken + 1]
  BY DEF op
<1>7. getOpPriority[op] < getOpPriority[heap[at].op]
  <2>0. at \in 1..Len(heap) /\ heap \in Seq(Node)
    BY <1>1, Sizes, Zenon
  <2>1. op \in BinaryOp /\ heap[at].op \in BinaryOp
    BY <1>1, <2>0, ArgumentTypes, NodeAt
  <2>2. PICK p \in Int : p = getOpPriority[op]
    BY <2>1, PriorityType
  <2>3. PICK q \in Int : q = getOpPriority[heap[at].op]
    BY <2>1, PriorityType
  <2>4. ~(q <= p)
    BY <1>1, <2>2, <2>3 DEF bindsTighter
  <2>5. p < q
    BY <2>4
  <2> QED
    BY <2>2, <2>3, <2>5
<1>8. b \in DOMAIN heap
  <2>1. at \in 1..Len(heap) /\ heap \in Seq(Node) /\ DOMAIN heap = 1..Len(heap) /\ Len(heap) \in Nat
    BY <1>1, Sizes, Zenon
  <2>2. heap[at].right \in Int /\ heap[at].right <= Len(heap)
    BY <2>1, Sizes, NodeAt DEF Closed
  <2>3. heap[at].right > 0
    BY <1>1 DEF isBinary
  <2>4. heap[at].right \in 1..Len(heap)
    BY <2>1, <2>2, <2>3
  <2> QED
    BY <2>1, <2>4
<1>9. b \in Made(input, heap)
  <2> SUFFICES ASSUME b \notin Made(input, heap) PROVE FALSE
    OBVIOUS
  <2>1. by[at] + 1 = taken + 1 /\ b = input.operands[by[at] + 1]
    BY <1>5 DEF Child
  <2>2. by[at] = taken /\ b = input.operands[taken + 1]
    BY <1>1, <1>5, <2>1
  <2>3. Len(input.operands) = Len(input.ops) + 1 /\ Len(input.ops) \in Nat /\ DOMAIN input.operands = 1..(Len(input.ops) + 1)
    BY ChainType
  <2>4. /\ taken + 1 \in DOMAIN input.operands /\ taken + 1 > 1 /\ taken + 1 < Len(input.operands)
        /\ (taken + 1) - 1 = taken
    BY <1>1, <2>3
  <2>5. isBinary(input.operands[taken + 1])
    BY <1>1, <2>2
  <2>6. getOpPriority[input.ops[taken + 1]] < getOpPriority[input.ops[taken]]
    BY <1>5, <1>6, <1>7, <2>2
  <2>7. Endangered(taken + 1)
    BY <2>4, <2>5, <2>6 DEF Endangered
  <2> QED
    BY <2>4, <2>7 DEF Intact
<1>10. hi[b] = taken + 1
  BY <1>5, <1>9 DEF Child
<1>11. Way(heap, P \cup {b}, Root, b)
  BY <1>1, <1>3, <1>8, Sizes, WayGoesOn DEF OrderInv
<1>12. WayEnds(input, heap, taken + 1, hi, P \cup {b}, b)
  <2>1. \A n \in P : hi[n] = taken + 1 /\ n \in Made(input, heap)
    BY <1>3 DEF WayEnds
  <2>2. \A n \in P \ {at} : getOpPriority[input.ops[taken + 1]] < getOpPriority[heap[n].op]
    BY <1>3 DEF WayEnds
  <2>3. \A n \in (P \cup {b}) \ {b} : getOpPriority[input.ops[taken + 1]] < getOpPriority[heap[n].op]
    BY <1>6, <1>7, <2>2
  <2> QED
    BY <1>9, <1>10, <2>1, <2>3 DEF WayEnds
<1>13. PICK Q : Q = P \cup {b}
  OBVIOUS
<1>14. \E R : Way(heap', R, Root', at') /\ WayEnds(input', heap', taken' + 1, hi, R, at')
  BY <1>1, <1>11, <1>12, <1>13
<1>15. Spans(input', heap', taken' + 1, lo, hi, by)
  BY <1>1, <1>2
<1> QED
  BY <1>1, <1>14, <1>15 DEF SpansInv

LEMMA WriteSpans ==
  ASSUME TypeOK, OrderInv, SpansInv, at # 0, Return,
         NEW h1, h1 = heap', Wrote(heap, h1, at, op, rightExpr),
         \/ TookAsLeft(heap, h1, at, op, rightExpr) /\ bindsTighter
         \/ HungRight(heap, h1, at, op, rightExpr) /\ ~bindsTighter
  PROVE  SpansInv'
<1>1. /\ input' = input /\ taken' = taken + 1 /\ at' = 0
      /\ taken \in Nat /\ taken > 0 /\ taken < Len(input.ops) /\ at \in DOMAIN heap
      /\ heap \in Seq(Node) /\ Closed(heap) /\ Len(input.ops) \in Nat
  BY Sizes, ChainType DEF Return
<1>2. PICK lo, hi, by : /\ Spans(input, heap, taken + 1, lo, hi, by)
                        /\ \E P : Way(heap, P, Root, at) /\ WayEnds(input, heap, taken + 1, hi, P, at)
  BY <1>1 DEF SpansInv
<1>3. PICK P : Way(heap, P, Root, at) /\ WayEnds(input, heap, taken + 1, hi, P, at)
  BY <1>2
<1>4. PICK last \in Nat : last = taken + 1
  BY <1>1
<1>5. /\ op = input.ops[last] /\ rightExpr = input.operands[last + 1] /\ last <= Len(input.ops)
      /\ last + 1 = taken + 2 /\ last + 1 = taken' + 1
  BY <1>1, <1>4 DEF op, rightExpr
<1>6. Len(input.parsed) < Len(heap) /\ Len(input.parsed) \in Nat /\ DOMAIN input.parsed = 1..Len(input.parsed)
  <2> DEFINE p == Len(input.parsed)
             l == Len(heap)
  <2>1. l = p + taken /\ p \in Nat
    BY Sizes, ChainType
  <2> HIDE DEF p, l
  <2>2. p < l
    BY <1>1, <2>1
  <2> QED
    BY <2>1, <2>2, ChainType DEF p, l
<1>7. rightExpr \notin Made(input, h1)
  <2>1. taken + 2 \in DOMAIN input.operands
    BY <1>1, ChainType
  <2>2. rightExpr \in Int /\ rightExpr <= Len(input.parsed)
    BY <2>1, OperandFacts DEF rightExpr
  <2> QED
    BY <1>6, <2>2 DEF Made
<1>8. input \in Chain /\ Spans(input, heap, last, lo, hi, by) /\ WayEnds(input, heap, last, hi, P, at)
      /\ Way(heap, P, Len(input.parsed) + 1, at)
  BY <1>2, <1>3, <1>4 DEF TypeOK, Root
<1>9. getOpPriority[op] \in Int /\ getOpPriority[heap[at].op] \in Int
  <2>0. at \in 1..Len(heap) /\ heap \in Seq(Node)
    BY <1>1, Sizes, Zenon
  <2>1. op \in BinaryOp /\ heap[at].op \in BinaryOp
    BY <1>1, <2>0, ArgumentTypes, NodeAt
  <2> QED
    BY <2>1, PriorityType
<1>10. \E lo1, hi1, by1 : Spans(input, h1, last + 1, lo1, hi1, by1)
  <2>1. CASE TookAsLeft(heap, h1, at, op, rightExpr) /\ bindsTighter
    <3>1. getOpPriority[heap[at].op] <= getOpPriority[op]
      BY <2>1 DEF bindsTighter
    <3> QED
      BY <1>1, <1>5, <1>6, <1>7, <1>8, <2>1, <3>1, SpansTook
  <2>2. CASE HungRight(heap, h1, at, op, rightExpr) /\ ~bindsTighter
    <3>1. getOpPriority[op] < getOpPriority[heap[at].op]
      BY <1>9, <2>2 DEF bindsTighter
    <3> QED
      BY <1>1, <1>5, <1>6, <1>7, <1>8, <2>2, <3>1, SpansHung
  <2> QED
    BY <2>1, <2>2
<1>11. \A n \in DOMAIN input.parsed : h1[n] = input.parsed[n]
  <2>1. at \in Made(input, heap)
    BY <1>3 DEF Way, WayEnds
  <2>2. \A n \in DOMAIN input.parsed : n \in DOMAIN heap \ {at}
    <3> DEFINE p == Len(input.parsed)
               l == Len(heap)
    <3>1. p \in Nat /\ l \in Nat /\ p < l /\ DOMAIN input.parsed = 1..p /\ DOMAIN heap = 1..l /\ at \in (p + 1)..l
      BY <1>6, <2>1, Sizes DEF Made
    <3> HIDE DEF p, l
    <3> QED
      BY <3>1
  <2> QED
    BY <2>2 DEF SpansInv, Wrote
<1>12. \E lo1, hi1, by1 : Spans(input', heap', taken' + 1, lo1, hi1, by1)
  BY <1>1, <1>5, <1>10
<1> QED
  BY <1>1, <1>11, <1>12 DEF SpansInv

LEMMA SpansStep ==
  ASSUME TypeOK, OrderInv, SpansInv, Intact, Next
  PROVE  SpansInv'
<1>1. CASE SelfAsLeft
  <2>1. at # 0 /\ Return /\ bindsTighter
    BY <1>1 DEF SelfAsLeft
  <2>2. PICK h1 : h1 = heap' /\ Wrote(heap, h1, at, op, rightExpr) /\ TookAsLeft(heap, h1, at, op, rightExpr)
    BY <1>1, SelfAsLeftWrites
  <2> QED
    BY <2>1, <2>2, WriteSpans
<1>2. CASE NewRight
  <2>1. at # 0 /\ Return /\ ~bindsTighter
    BY <1>2 DEF NewRight
  <2>2. PICK h1 : h1 = heap' /\ Wrote(heap, h1, at, op, rightExpr) /\ HungRight(heap, h1, at, op, rightExpr)
    BY <1>2, NewRightWrites
  <2> QED
    BY <2>1, <2>2, WriteSpans
<1>3. CASE Finished
  <2>1. input' = input /\ heap' = heap /\ taken' = taken /\ at' = at /\ Root' = Root
    BY <1>3 DEF Finished, vars, Root
  <2> QED
    BY <2>1 DEF SpansInv
<1> QED
  BY <1>1, <1>2, <1>3, FirstRightSpans, AppendExprSpans, DescendSpans DEF Next
-----------------------------------------------------------------------------

(* The operators below one in the tree are the operators beside it in the  *)
(* chain, on the side they are on: that is precedence and associativity.   *)
LEMMA SpansArePrecedence ==
  ASSUME TypeOK, SpansInv
  PROVE  LocalPrecedence
<1> SUFFICES ASSUME NEW n \in Built
    PROVE /\ heap[n].left \in Built =>
               getOpPriority[heap[heap[n].left].op] <= getOpPriority[heap[n].op]
          /\ heap[n].right \in Built =>
               getOpPriority[heap[heap[n].right].op] < getOpPriority[heap[n].op]
  BY DEF LocalPrecedence
<1>1. Built = Made(input, heap)
  BY DEF Built, Made
<1>2. taken > 0
  <2>1. n > Len(input.parsed) /\ n <= Len(heap) /\ n \in Int
    BY BuiltNodes
  <2> QED
    BY <2>1, Sizes, ChainType
<1>3. PICK lo, hi, by : Spans(input, heap, taken + 1, lo, hi, by)
  BY <1>2 DEF SpansInv
<1>4. \A m \in Built : /\ lo[m] \in Nat \ {0} /\ by[m] \in Nat /\ hi[m] \in Nat
                       /\ lo[m] <= by[m] /\ by[m] < hi[m] /\ heap[m].op = input.ops[by[m]]
                       /\ getOpPriority[heap[m].op] \in Int
  BY <1>1, <1>3, BuiltNodes DEF Spans, SpanAt
<1>5. /\ IsSplit(input, lo[n], hi[n], by[n])
      /\ heap[n].left \in Built => lo[heap[n].left] = lo[n] /\ hi[heap[n].left] = by[n]
      /\ heap[n].right \in Built => lo[heap[n].right] = by[n] + 1 /\ hi[heap[n].right] = hi[n]
  BY <1>1, <1>3 DEF Spans, SpanAt, Child
<1>6. ASSUME NEW m \in Built, by[m] \in lo[n]..(hi[n] - 1)
      PROVE  \/ getOpPriority[heap[m].op] < getOpPriority[heap[n].op]
             \/ getOpPriority[heap[m].op] = getOpPriority[heap[n].op] /\ by[m] <= by[n]
  BY <1>4, <1>5, <1>6 DEF IsSplit
<1>7. ASSUME heap[n].left \in Built
      PROVE  getOpPriority[heap[heap[n].left].op] <= getOpPriority[heap[n].op]
  <2>1. PICK m \in Built : m = heap[n].left
    BY <1>7
  <2>2. by[m] \in lo[n]..(hi[n] - 1)
    BY <1>4, <1>5, <2>1
  <2>3. getOpPriority[heap[m].op] <= getOpPriority[heap[n].op]
    BY <1>4, <1>6, <2>2
  <2> QED
    BY <2>1, <2>3
<1>8. ASSUME heap[n].right \in Built
      PROVE  getOpPriority[heap[heap[n].right].op] < getOpPriority[heap[n].op]
  <2>1. PICK m \in Built : m = heap[n].right
    BY <1>8
  <2>2. by[m] \in lo[n]..(hi[n] - 1) /\ ~(by[m] <= by[n])
    BY <1>4, <1>5, <2>1
  <2> QED
    BY <1>6, <2>1, <2>2
<1> QED
  BY <1>7, <1>8

LEMMA SpansInvariant == Spec => [](TypeOK /\ OrderInv /\ (Intact => SpansInv))
<1>1. Init /\ TypeOK => (Intact => SpansInv)
  BY DEF Init, SpansInv
<1>2. TypeOK /\ OrderInv /\ (Intact => SpansInv) /\ [Next]_vars => (Intact => SpansInv)'
  <2> SUFFICES ASSUME TypeOK, OrderInv, Intact => SpansInv, [Next]_vars, Intact' PROVE SpansInv'
    OBVIOUS
  <2>1. Intact /\ SpansInv
    <3>1. input' = input
      BY DEF Next, FirstRight, AppendExpr, SelfAsLeft, Descend, NewRight, Finished, Return, vars
    <3> QED
      BY <3>1 DEF Intact, Endangered
  <2>2. CASE UNCHANGED vars
    <3>1. input' = input /\ heap' = heap /\ taken' = taken /\ at' = at /\ Root' = Root
      BY <2>2 DEF vars, Root
    <3> QED
      BY <2>1, <3>1 DEF SpansInv
  <2> QED
    BY <2>1, <2>2, SpansStep
<1> QED
  BY <1>1, <1>2, OrderInvariant, PTL DEF Spec

(* In a chain none of whose parenthesised operands is endangered the tree  *)
(* is, after every operator, the one of the usual definition: the chain    *)
(* split at the last of its operators that bind least tightly, over and    *)
(* over.                                                                   *)
THEOREM ReferenceMatched == Spec => []MatchesReference
<1>1. TypeOK /\ OrderInv /\ (Intact => SpansInv) => MatchesReference
  <2> SUFFICES ASSUME TypeOK, OrderInv, SpansInv, taken > 0 PROVE TreeIn(heap, Root) = Reference(input, 1, taken + 1)
    BY DEF MatchesReference
  <2>1. PICK lo, hi, by : Spans(input, heap, taken + 1, lo, hi, by)
    BY DEF SpansInv
  <2>2. /\ input \in Chain /\ heap \in Seq(Node) /\ WellFounded(heap)
        /\ taken + 1 \in Nat /\ taken + 1 <= Len(input.ops) + 1
        /\ \A n \in DOMAIN input.parsed : heap[n] = input.parsed[n]
    BY Sizes, ChainType DEF TypeOK, OrderInv, SpansInv
  <2>3. Len(input.parsed) < Len(heap)
    <3> DEFINE p == Len(input.parsed)
               l == Len(heap)
    <3>1. l = p + taken /\ p \in Nat /\ taken \in Nat
      BY Sizes, ChainType
    <3> HIDE DEF p, l
    <3>2. p < l
      BY <3>1
    <3> QED
      BY <3>2 DEF p, l
  <2> QED
    BY <2>1, <2>2, <2>3, SpansAreReference DEF Root
<1> QED
  BY <1>1, SpansInvariant, PTL

(* In such a chain, too, the tree obeys precedence and left associativity  *)
(* after every operator, and every pair of parentheses keeps its contents. *)
THEOREM PrecedenceHolds == Spec => [](Precedence /\ (Intact => ParenthesesKept))
<1>1. TypeOK /\ (Intact => SpansInv) => Precedence /\ (Intact => ParenthesesKept)
  <2> SUFFICES ASSUME TypeOK, Intact => SpansInv PROVE Precedence /\ (Intact => ParenthesesKept)
    OBVIOUS
  <2>1. Precedence
    BY SpansArePrecedence DEF Precedence
  <2>2. Intact => ParenthesesKept
    BY ChainType DEF SpansInv, ParenthesesKept, Untouched, Contents, ContentsIn
  <2> QED
    BY <2>1, <2>2
<1> QED
  BY <1>1, SpansInvariant, PTL

-----------------------------------------------------------------------------
(* Which parentheses break.  The way appendExpr takes down the tree is     *)
(* along objects of the constructor and of operands that are broken        *)
(* already (Reach), as far as the object whose right child is the operand  *)
(* taken last (m), and perhaps on into that operand (up to l).             *)
Reach ==
  Built \cup UNION {Contents(i) : i \in {j \in DOMAIN input.operands : Endangered(j) /\ j <= taken}}

Trail(m, l, sp) ==
  /\ sp[1] = Root
  /\ \A j \in 1..(l - 1) : heap[sp[j]].right = sp[j + 1]
  /\ \A j \in 1..m : sp[j] \in Reach
  /\ \A j \in 1..(m - 1) : getOpPriority[input.ops[taken]] < getOpPriority[heap[sp[j]].op]
  /\ heap[sp[m]].op = input.ops[taken]
  /\ heap[sp[m]].right = input.operands[taken + 1]
  /\ \A j \in (m + 1)..l : isBinary(input.operands[taken + 1]) /\ sp[j] \in Contents(taken + 1)

(* It has passed operators that the new one binds tighter than.            *)
Passed(l, sp) ==
  at # 0 =>
    \E k \in 1..l :
      /\ at = sp[k]
      /\ \A j \in 1..(k - 1) : getOpPriority[op] < getOpPriority[heap[sp[j]].op]

HasTrail ==
  taken > 0 =>
    \E m, l \in Nat \ {0} :
      m <= l /\ \E sp \in [1..l -> DOMAIN heap] : Trail(m, l, sp) /\ Passed(l, sp)

(* An object of an operand has changed, for good, when a new one is below. *)
Changed(n) == heap[n].left > Len(input.parsed) \/ heap[n].right > Len(input.parsed)
BrokenInv ==
  /\ HasTrail
  /\ \A i \in DOMAIN input.operands :
       /\ isBinary(input.operands[i]) /\ ~(Endangered(i) /\ i <= taken) => Untouched(i)
       /\ Endangered(i) /\ i <= taken => \E n \in Contents(i) : Changed(n)

(* What the contents of an operand are.                                    *)
LEMMA ContentsFacts ==
  ASSUME TypeOK, NEW i \in DOMAIN input.operands, isBinary(input.operands[i])
  PROVE  /\ Contents(i) \subseteq DOMAIN input.parsed
         /\ input.operands[i] \in Contents(i)
         /\ \A n \in Contents(i) :
              isBinary(input.parsed[n].right) => input.parsed[n].right \in Contents(i)
         /\ \A j \in DOMAIN input.operands :
              isBinary(input.operands[j]) /\ i # j => Contents(i) \cap Contents(j) = {}
<1>1. input \in Chain /\ input.operands[i] \in DOMAIN input.parsed
  BY ChainType DEF TypeOK
<1>2. input.operands[i] \in Contents(i)
  BY <1>1 DEF Contents, ContentsIn
<1>3. ASSUME NEW n \in Contents(i), isBinary(input.parsed[n].right)
      PROVE  input.parsed[n].right \in Contents(i)
  <2>1. n \in DOMAIN input.parsed
    BY DEF Contents, ContentsIn
  <2>2. input.parsed[n].right \in DOMAIN input.parsed
    <3>1. DOMAIN input.parsed = 1..Len(input.parsed) /\ Len(input.parsed) \in Nat
      BY ChainType
    <3>2. input.parsed[n].right \in Int /\ input.parsed[n].right <= Len(input.parsed)
      BY <2>1, <3>1, ChainType, NodeAt DEF Closed
    <3> QED
      BY <1>3, <3>1, <3>2 DEF isBinary
  <2>3. ASSUME NEW S \in SUBSET DOMAIN input.parsed, input.operands[i] \in S, HasParts(input.parsed, S)
        PROVE  input.parsed[n].right \in S
    <3>1. n \in S
      BY <2>3 DEF Contents, ContentsIn
    <3> QED
      BY <1>3, <2>3, <3>1 DEF HasParts, Parts
  <2> QED
    BY <2>2, <2>3 DEF Contents, ContentsIn
<1>4. \A j \in DOMAIN input.operands :
        isBinary(input.operands[j]) /\ i # j => Contents(i) \cap Contents(j) = {}
  BY <1>1 DEF Chain, Contents
<1>5. Contents(i) \subseteq DOMAIN input.parsed
  BY DEF Contents, ContentsIn
<1> QED
  BY <1>2, <1>3, <1>4, <1>5

(* Where the trail leads to is in the tree as it has become.               *)
LEMMA ReachFacts ==
  ASSUME TypeOK, NEW n \in Reach
  PROVE  n \in Built \/ \E i \in DOMAIN input.operands : Endangered(i) /\ i <= taken /\ n \in Contents(i)
BY DEF Reach

(* Nothing but the operands on the way is changed.                         *)
LEMMA OnTheWay ==
  ASSUME TypeOK, NEW m \in Nat \ {0}, NEW l \in Nat \ {0}, m <= l, NEW sp \in [1..l -> DOMAIN heap],
         Trail(m, l, sp), NEW k \in 1..l, at # 0,
         \A j \in 1..(k - 1) : getOpPriority[op] < getOpPriority[heap[sp[j]].op]
  PROVE  /\ k > m => Endangered(taken + 1) /\ sp[k] \in Contents(taken + 1)
         /\ \A i \in DOMAIN input.operands :
              isBinary(input.operands[i]) /\ ~(Endangered(i) /\ i <= taken + 1) => sp[k] \notin Contents(i)
<1>0. /\ taken \in Nat /\ taken > 0 /\ taken < Len(input.ops)
      /\ DOMAIN input.operands = 1..(Len(input.ops) + 1)
      /\ Len(input.operands) = Len(input.ops) + 1 /\ Len(input.ops) \in Nat
  BY Sizes, ChainType
<1>1. ASSUME k > m PROVE Endangered(taken + 1) /\ sp[k] \in Contents(taken + 1)
  <2>1. k \in (m + 1)..l /\ m \in 1..(k - 1)
    BY <1>1
  <2>2. isBinary(input.operands[taken + 1]) /\ sp[k] \in Contents(taken + 1)
    BY <2>1 DEF Trail
  <2>3. getOpPriority[op] < getOpPriority[input.ops[taken]]
    BY <2>1 DEF Trail
  <2>4. taken + 1 > 1 /\ taken + 1 < Len(input.operands) /\ (taken + 1) - 1 = taken
    BY <1>0
  <2>5. getOpPriority[input.ops[taken + 1]] < getOpPriority[input.ops[(taken + 1) - 1]]
    BY <2>3, <2>4 DEF op
  <2> QED
    BY <2>2, <2>4, <2>5 DEF Endangered
<1>2. ASSUME NEW i \in DOMAIN input.operands, isBinary(input.operands[i]), ~(Endangered(i) /\ i <= taken + 1)
      PROVE  sp[k] \notin Contents(i)
  <2>1. CASE k > m
    <3>1. Endangered(taken + 1) /\ sp[k] \in Contents(taken + 1) /\ taken + 1 \in DOMAIN input.operands
      BY <1>0, <1>1, <2>1
    <3>2. i # taken + 1 /\ isBinary(input.operands[taken + 1])
      BY <1>0, <1>2, <3>1 DEF Endangered
    <3> QED
      BY <1>2, <3>1, <3>2, ContentsFacts
  <2>2. CASE ~(k > m)
    <3>1. k \in 1..m /\ sp[k] \in Reach
      BY <2>2 DEF Trail
    <3>2. CASE sp[k] \in Built
      <4>1. Contents(i) \subseteq 1..Len(input.parsed)
        BY <1>2, ContentsFacts, ChainType
      <4> QED
        BY <3>2, <4>1, BuiltNodes
    <3>3. CASE \E j \in DOMAIN input.operands : Endangered(j) /\ j <= taken /\ sp[k] \in Contents(j)
      <4>1. PICK j \in DOMAIN input.operands : Endangered(j) /\ j <= taken /\ sp[k] \in Contents(j)
        BY <3>3
      <4>2. i # j /\ isBinary(input.operands[j])
        BY <1>0, <1>2, <4>1 DEF Endangered
      <4> QED
        BY <1>2, <4>1, <4>2, ContentsFacts
    <3> QED
      BY <3>1, <3>2, <3>3, ReachFacts
  <2> QED
    BY <2>1, <2>2
<1> QED
  BY <1>1, <1>2

LEMMA FirstRightBreaks ==
  ASSUME TypeOK, BrokenInv, FirstRight, TypeOK'
  PROVE  BrokenInv'
<1> DEFINE first == [op |-> op, left |-> input.operands[1], right |-> rightExpr]
<1>0. /\ Len(input.parsed) \in Nat /\ Len(input.ops) \in Nat \ {0} /\ taken = 0 /\ taken' = 1 /\ at = 0
      /\ at' = at /\ input' = input /\ Len(heap) = Len(input.parsed)
      /\ DOMAIN input.parsed = 1..Len(input.parsed)
  BY ChainType, Sizes DEF FirstRight, TypeOK
<1>1. heap' = Append(heap, first) /\ first \in Node
  <2>1. op \in BinaryOp /\ rightExpr \in Int /\ input.operands[1] \in Int
    BY <1>0, ArgumentTypes, ChainType
  <2> QED
    BY <1>0, <2>1, Sizes DEF FirstRight, Node
<1>2. heap'[Root] = first /\ Len(heap') = Root /\ \A n \in 1..Len(input.parsed) : heap'[n] = heap[n]
  <2> HIDE DEF first
  <2> QED
    BY <1>0, <1>1, Sizes DEF Root
<1>3. Root \in Built' /\ Root' = Root /\ Root \in Nat /\ Root \in DOMAIN heap'
  <2>1. Root' = Root /\ Root \in Nat \ {0}
    BY <1>0 DEF Root
  <2>2. Built' = (Len(input.parsed) + 1)..Root
    BY <1>0, <1>2 DEF Built
  <2>3. DOMAIN heap' = 1..Len(heap')
    BY Sizes
  <2> QED
    BY <1>0, <1>2, <2>1, <2>2, <2>3 DEF Root
<1>4. first.op = (input.ops[taken])' /\ first.right = (input.operands[taken + 1])'
  BY <1>0 DEF op, rightExpr
<1> HIDE DEF first
<1>5. HasTrail'
  <2>1. PICK m \in Nat \ {0} : m = 1
    OBVIOUS
  <2>2. PICK sp \in [1..m -> DOMAIN heap'] : sp[1] = Root
    <3> DEFINE only == [i \in 1..m |-> Root]
    <3>1. only \in [1..m -> DOMAIN heap'] /\ only[1] = Root
      BY <1>3, <2>1
    <3> QED
      BY <3>1
  <2>3. Trail(m, m, sp)'
    BY <1>0, <1>2, <1>3, <1>4, <2>1, <2>2 DEF Trail, Reach
  <2>4. Passed(m, sp)'
    BY <1>0 DEF Passed
  <2>5. m <= m
    BY <2>1
  <2> QED
    BY <2>2, <2>3, <2>4, <2>5 DEF HasTrail
<1>6. ASSUME NEW i \in DOMAIN input.operands
      PROVE  /\ (isBinary(input.operands[i]) /\ ~(Endangered(i) /\ i <= taken) => Untouched(i))'
             /\ ~(Endangered(i) /\ i <= taken)'
  <2>1. ~(Endangered(i) /\ i <= taken)'
    BY <1>0 DEF Endangered
  <2>2. ~(Endangered(i) /\ i <= taken)
    BY <1>0, ChainType
  <2>3. isBinary(input.operands[i]) => Untouched(i)'
    BY <1>0, <1>2, <2>2, ContentsFacts DEF BrokenInv, Untouched, Contents
  <2> QED
    BY <1>0, <2>1, <2>3
<1> QED
  BY <1>0, <1>5, <1>6 DEF BrokenInv

LEMMA AppendExprBreaks ==
  ASSUME TypeOK, BrokenInv, AppendExpr
  PROVE  BrokenInv'
<1>1. heap' = heap /\ input' = input /\ taken' = taken /\ taken > 0 /\ at' = Root /\ at' # 0
  BY ChainType DEF AppendExpr, TypeOK
<1>2. PICK m \in Nat \ {0}, l \in Nat \ {0} :
        m <= l /\ \E sp \in [1..l -> DOMAIN heap] : Trail(m, l, sp) /\ Passed(l, sp)
  BY <1>1 DEF BrokenInv, HasTrail
<1>3. PICK sp \in [1..l -> DOMAIN heap] : Trail(m, l, sp)
  BY <1>2
<1>4. Trail(m, l, sp)'
  BY <1>1, <1>3 DEF Trail, Root, Reach, Built, Endangered, Contents
<1>5. Passed(l, sp)'
  <2>1. 1 \in 1..l /\ at' = sp[1]
    BY <1>1, <1>3 DEF Trail
  <2> QED
    BY <2>1 DEF Passed
<1>6. HasTrail'
  BY <1>1, <1>2, <1>4, <1>5 DEF HasTrail
<1> QED
  BY <1>1, <1>6 DEF BrokenInv, Endangered, Untouched, Contents, Changed

LEMMA DescendBreaks ==
  ASSUME TypeOK, BrokenInv, Descend
  PROVE  BrokenInv'
<1>1. /\ heap' = heap /\ input' = input /\ taken' = taken /\ at # 0 /\ at' = heap[at].right
      /\ taken \in Nat /\ taken > 0 /\ taken < Len(input.ops) /\ isBinary(heap[at].right)
  BY Sizes DEF Descend
<1>2. PICK m \in Nat \ {0}, l \in Nat \ {0} :
        m <= l /\ \E sp \in [1..l -> DOMAIN heap] : Trail(m, l, sp) /\ Passed(l, sp)
  BY <1>1 DEF BrokenInv, HasTrail
<1>3. PICK sp \in [1..l -> DOMAIN heap] : Trail(m, l, sp) /\ Passed(l, sp)
  BY <1>2
<1>4. PICK k \in 1..l :
        at = sp[k] /\ \A j \in 1..(k - 1) : getOpPriority[op] < getOpPriority[heap[sp[j]].op]
  BY <1>1, <1>3 DEF Passed
<1>5. getOpPriority[op] < getOpPriority[heap[at].op]
  <2>1. heap[at].op \in BinaryOp
    BY <1>1, Sizes, NodeAt
  <2>2. getOpPriority[op] \in Int /\ getOpPriority[heap[at].op] \in Int
    BY <1>1, <2>1, ArgumentTypes, PriorityType
  <2> QED
    BY <2>2 DEF Descend, bindsTighter
<1>6. op' = op
  BY <1>1 DEF op
<1>7. CASE k < l
  <2>1. Trail(m, l, sp)'
    BY <1>1, <1>3 DEF Trail, Root, Reach, Built, Endangered, Contents
  <2>2. k + 1 \in 1..l /\ at' = sp[k + 1] /\ (k + 1) - 1 = k
    BY <1>1, <1>2, <1>3, <1>4, <1>7 DEF Trail
  <2>3. ASSUME NEW j \in 1..((k + 1) - 1) PROVE getOpPriority[op] < getOpPriority[heap[sp[j]].op]
    <3>1. j \in 1..(k - 1) \/ j = k
      BY <1>2, <1>4
    <3> QED
      BY <1>4, <1>5, <3>1
  <2>4. Passed(l, sp)'
    BY <1>1, <1>6, <2>2, <2>3 DEF Passed
  <2>5. HasTrail'
    BY <1>1, <1>2, <2>1, <2>4 DEF HasTrail
  <2> QED
    BY <1>1, <2>5 DEF BrokenInv, Endangered, Untouched, Contents, Changed
<1>8. CASE ~(k < l)
  <2>0. k = l
    BY <1>2, <1>4, <1>8
  <2>1. isBinary(input.operands[taken + 1]) /\ heap[at].right \in Contents(taken + 1)
    <3>0. taken + 1 \in DOMAIN input.operands /\ ~(taken + 1 <= taken)
      BY <1>1, ChainType
    <3>1. CASE l = m
      <4>1. heap[at].right = input.operands[taken + 1]
        BY <1>3, <1>4, <2>0, <3>1 DEF Trail
      <4> QED
        BY <1>1, <3>0, <4>1, ContentsFacts
    <3>2. CASE l # m
      <4>1. l \in (m + 1)..l
        BY <1>2, <3>2
      <4>2. isBinary(input.operands[taken + 1]) /\ at \in Contents(taken + 1)
        BY <1>3, <1>4, <2>0, <4>1 DEF Trail
      <4>3. heap[at] = input.parsed[at]
        BY <3>0, <4>2 DEF BrokenInv, Untouched
      <4> QED
        BY <1>1, <3>0, <4>2, <4>3, ContentsFacts
    <3> QED
      BY <3>1, <3>2
  <2>2. PICK l1 \in Nat \ {0} : l1 = l + 1
    BY <1>2
  <2>3. heap[at].right \in DOMAIN heap
    <3>1. heap[at].right \in Int /\ heap[at].right <= Len(heap)
      BY <1>1, Sizes, NodeAt DEF Closed
    <3> QED
      BY <1>1, <3>1, Sizes DEF isBinary
  <2>4. PICK t \in [1..l1 -> DOMAIN heap] :
          (\A j \in 1..l : t[j] = sp[j]) /\ t[l1] = heap[at].right
    <3> DEFINE s == [j \in 1..l1 |-> IF j = l1 THEN heap[at].right ELSE sp[j]]
    <3>1. \A j \in 1..l1 : j # l1 => j \in 1..l
      BY <1>2, <2>2
    <3>2. s \in [1..l1 -> DOMAIN heap]
      BY <1>3, <2>3, <3>1
    <3>3. (\A j \in 1..l : s[j] = sp[j]) /\ s[l1] = heap[at].right
      BY <1>2, <2>2
    <3> QED
      BY <3>2, <3>3
  <2>5. Trail(m, l1, t)
    <3>1. t[1] = Root /\ \A j \in 1..m : t[j] = sp[j]
      BY <1>2, <1>3, <2>4 DEF Trail
    <3>2. ASSUME NEW j \in 1..(l1 - 1) PROVE heap[t[j]].right = t[j + 1]
      <4>1. j \in 1..l /\ (j = l \/ (j \in 1..(l - 1) /\ j + 1 \in 1..l))
        BY <1>2, <2>2
      <4>2. CASE j = l
        BY <1>4, <2>0, <2>2, <2>4, <4>1, <4>2
      <4>3. CASE j \in 1..(l - 1) /\ j + 1 \in 1..l
        BY <1>3, <2>4, <4>1, <4>3 DEF Trail
      <4> QED
        BY <4>1, <4>2, <4>3
    <3>3. ASSUME NEW j \in (m + 1)..l1 PROVE t[j] \in Contents(taken + 1)
      <4>1. j = l1 \/ (j \in (m + 1)..l /\ j \in 1..l)
        BY <1>2, <2>2
      <4> QED
        BY <1>3, <2>1, <2>4, <4>1 DEF Trail
    <3>4. /\ \A j \in 1..m : t[j] \in Reach
          /\ \A j \in 1..(m - 1) : getOpPriority[input.ops[taken]] < getOpPriority[heap[t[j]].op]
          /\ heap[t[m]].op = input.ops[taken]
          /\ heap[t[m]].right = input.operands[taken + 1]
      <4>1. m \in 1..m /\ 1..(m - 1) \subseteq 1..m
        BY <1>2
      <4> QED
        BY <1>3, <3>1, <4>1 DEF Trail
    <3> QED
      BY <2>1, <3>1, <3>2, <3>3, <3>4 DEF Trail
  <2>6. Trail(m, l1, t)'
    BY <1>1, <2>5 DEF Trail, Root, Reach, Built, Endangered, Contents
  <2>7. Passed(l1, t)'
    <3>1. l1 \in 1..l1 /\ at' = t[l1]
      BY <1>1, <2>2, <2>4
    <3>2. ASSUME NEW j \in 1..(l1 - 1) PROVE getOpPriority[op] < getOpPriority[heap[t[j]].op]
      <4>1. j \in 1..l /\ (j = k \/ j \in 1..(k - 1))
        BY <1>2, <2>0, <2>2
      <4> QED
        BY <1>4, <1>5, <2>4, <4>1
    <3> QED
      BY <1>1, <1>6, <3>1, <3>2 DEF Passed
  <2>8. HasTrail'
    <3>1. m <= l1
      BY <1>2, <2>2
    <3>2. t \in [1..l1 -> DOMAIN heap']
      BY <1>1
    <3> QED
      BY <2>6, <2>7, <3>1, <3>2 DEF HasTrail
  <2> QED
    BY <1>1, <2>8 DEF BrokenInv, Endangered, Untouched, Contents, Changed
<1> QED
  BY <1>7, <1>8

(* What the two steps that write have in common: an object on the way is   *)
(* replaced by one with a new child, and the next operator is the last.    *)
LEMMA WritingBreaks ==
  ASSUME TypeOK, BrokenInv, at # 0, Return, heap' \in Seq(Node), Len(heap') = Len(heap) + 1,
         \A n \in DOMAIN heap \ {at} : heap'[n] = heap[n],
         heap'[at].left > Len(input.parsed) \/ heap'[at].right > Len(input.parsed),
         NEW m \in Nat \ {0}, NEW l \in Nat \ {0}, m <= l, NEW sp \in [1..l -> DOMAIN heap],
         Trail(m, l, sp), NEW k \in 1..l, at = sp[k],
         \A j \in 1..(k - 1) : getOpPriority[op] < getOpPriority[heap[sp[j]].op],
         k <= m => ~Endangered(taken + 1)
  PROVE  \A i \in DOMAIN input.operands :
           /\ (isBinary(input.operands[i]) /\ ~(Endangered(i) /\ i <= taken) => Untouched(i))'
           /\ (Endangered(i) /\ i <= taken => \E n \in Contents(i) : Changed(n))'
<1>0. /\ taken \in Nat /\ taken > 0 /\ taken < Len(input.ops) /\ taken' = taken + 1 /\ input' = input
      /\ DOMAIN input.parsed = 1..Len(input.parsed) /\ Len(input.parsed) \in Nat
      /\ 1..Len(input.parsed) \subseteq DOMAIN heap
  <2>1. /\ taken \in Nat /\ taken > 0 /\ taken < Len(input.ops) /\ taken' = taken + 1 /\ input' = input
        /\ Len(input.parsed) \in Nat /\ DOMAIN heap = 1..Len(heap) /\ Len(heap) = Len(input.parsed) + taken
    BY Sizes, ChainType DEF Return
  <2>2. DOMAIN input.parsed = 1..Len(input.parsed)
    BY ChainType
  <2>3. Len(heap) \in Nat /\ Len(input.parsed) <= Len(heap)
    BY <2>1, Sizes
  <2> QED
    BY <2>1, <2>2, <2>3
<1>1. \A i \in DOMAIN input.operands : i \in Int
  BY ChainType
<1> SUFFICES ASSUME NEW i \in DOMAIN input.operands
             PROVE  /\ (isBinary(input.operands[i]) /\ ~(Endangered(i) /\ i <= taken) => Untouched(i))'
                    /\ (Endangered(i) /\ i <= taken => \E n \in Contents(i) : Changed(n))'
  BY <1>0
<1>2. Endangered(i)' = Endangered(i) /\ Contents(i)' = Contents(i)
  BY <1>0 DEF Endangered, Contents
<1>3. ASSUME isBinary(input.operands[i]), ~(Endangered(i) /\ i <= taken + 1) PROVE Untouched(i)'
  <2>1. at \notin Contents(i)
    BY <1>3, OnTheWay
  <2>2. Untouched(i)
    BY <1>0, <1>1, <1>3 DEF BrokenInv
  <2>3. \A n \in Contents(i) : heap'[n] = heap[n]
    BY <1>0, <1>3, <2>1, ContentsFacts
  <2> QED
    BY <1>0, <1>2, <2>2, <2>3 DEF Untouched
<1>4. ASSUME Endangered(i), i <= taken + 1 PROVE \E n \in Contents(i) : Changed(n)'
  <2>1. CASE i <= taken
    <3>1. PICK n \in Contents(i) : Changed(n)
      BY <1>4, <2>1 DEF BrokenInv
    <3>2. n \in DOMAIN heap
      BY <1>0, <1>4, <3>1, ContentsFacts DEF Endangered
    <3>3. CASE n = at
      <4>1. heap'[n].left > Len(input'.parsed) \/ heap'[n].right > Len(input'.parsed)
        BY <1>0, <3>3
      <4> QED
        BY <3>1, <4>1 DEF Changed
    <3>4. CASE n # at
      BY <1>0, <3>1, <3>2, <3>4 DEF Changed
    <3> QED
      BY <3>1, <3>3, <3>4
  <2>2. CASE i = taken + 1
    <3>1. k > m
      BY <1>4, <2>2
    <3>2. PICK n \in Contents(i) : n = at
      BY <2>2, <3>1, OnTheWay
    <3>3. heap'[n].left > Len(input'.parsed) \/ heap'[n].right > Len(input'.parsed)
      BY <1>0, <3>2
    <3> QED
      BY <3>2, <3>3 DEF Changed
  <2> QED
    BY <1>0, <1>1, <1>4, <2>1, <2>2
<1> QED
  BY <1>0, <1>2, <1>3, <1>4

(* The way so far is a way of the new tree.                                *)
LEMMA WayStays ==
  ASSUME TypeOK, at # 0, Return, heap' \in Seq(Node), Len(heap') = Len(heap) + 1,
         \A n \in DOMAIN heap \ {at} : heap'[n] = heap[n],
         NEW m \in Nat \ {0}, NEW l \in Nat \ {0}, m <= l, NEW sp \in [1..l -> DOMAIN heap],
         Trail(m, l, sp), NEW k \in 1..l, at = sp[k],
         \A j \in 1..(k - 1) : getOpPriority[op] < getOpPriority[heap[sp[j]].op],
         \A j \in 1..(k - 1) : sp[j] # at
  PROVE  /\ sp[1] = Root' /\ op = (input.ops[taken])' /\ rightExpr = (input.operands[taken + 1])'
         /\ \A j \in 1..(k - 1) :
              /\ heap'[sp[j]].right = sp[j + 1]
              /\ getOpPriority[(input.ops[taken])'] < getOpPriority[heap'[sp[j]].op]
         /\ \A j \in 1..k : sp[j] \in Reach' /\ sp[j] \in DOMAIN heap'
<1>0. /\ taken \in Nat /\ taken > 0 /\ taken < Len(input.ops) /\ taken' = taken + 1 /\ input' = input
      /\ Len(heap) \in Nat /\ DOMAIN heap = 1..Len(heap) /\ Len(heap') = Len(heap) + 1
      /\ taken + 1 \in DOMAIN input.operands
  <2>1. taken \in Nat /\ taken > 0 /\ taken < Len(input.ops) /\ Len(heap) \in Nat /\ DOMAIN heap = 1..Len(heap)
    BY Sizes
  <2>2. /\ DOMAIN input.operands = 1..Len(input.operands) /\ Len(input.operands) = Len(input.ops) + 1
        /\ Len(input.ops) \in Nat
    BY ChainType
  <2>3. taken' = taken + 1 /\ input' = input
    BY DEF Return
  <2>4. taken + 1 \in 1..Len(input.operands)
    BY <2>1, <2>2
  <2> QED
    BY <2>1, <2>2, <2>3, <2>4
<1>1. sp[1] = Root' /\ op = (input.ops[taken])' /\ rightExpr = (input.operands[taken + 1])'
  BY <1>0 DEF Trail, Root, op, rightExpr
<1>2. ASSUME NEW j \in 1..(k - 1)
      PROVE  /\ heap'[sp[j]].right = sp[j + 1]
             /\ getOpPriority[(input.ops[taken])'] < getOpPriority[heap'[sp[j]].op]
  <2>1. j \in 1..(l - 1) /\ j \in 1..l
    OBVIOUS
  <2>2. heap'[sp[j]] = heap[sp[j]]
    BY <2>1
  <2> QED
    BY <1>1, <2>1, <2>2 DEF Trail
<1>3. Reach \subseteq Reach'
  <2>1. Built \subseteq Built'
    BY <1>0 DEF Built
  <2>2. ASSUME NEW i \in DOMAIN input.operands, Endangered(i), i <= taken
        PROVE  Contents(i) \subseteq Reach'
    <3>0. i \in Nat
      BY ChainType
    <3>1. Endangered(i)' /\ i <= taken' /\ Contents(i)' = Contents(i) /\ i \in DOMAIN input'.operands
      BY <1>0, <2>2, <3>0 DEF Endangered, Contents
    <3> QED
      BY <3>1 DEF Reach
  <2> QED
    BY <2>1, <2>2 DEF Reach
<1>4. ASSUME NEW j \in 1..k PROVE sp[j] \in Reach'
  <2>1. CASE j <= m
    BY <1>3, <2>1 DEF Trail
  <2>2. CASE ~(j <= m)
    <3>1. k > m /\ j \in (m + 1)..l
      BY <2>2
    <3>2. Endangered(taken + 1) /\ sp[j] \in Contents(taken + 1)
      BY <3>1, OnTheWay DEF Trail
    <3>3. PICK i \in DOMAIN input.operands : i = taken + 1
      BY <1>0
    <3>4. Endangered(i) /\ sp[j] \in Contents(i) /\ i <= taken'
      BY <1>0, <3>2, <3>3
    <3>5. i \in DOMAIN input'.operands /\ Endangered(i)' /\ sp[j] \in Contents(i)'
      BY <1>0, <3>4 DEF Endangered, Contents
    <3> QED
      BY <3>4, <3>5 DEF Reach
  <2> QED
    BY <2>1, <2>2
<1>5. \A j \in 1..k : sp[j] \in DOMAIN heap'
  <2>1. DOMAIN heap' = 1..(Len(heap) + 1)
    BY <1>0
  <2>2. \A j \in 1..k : sp[j] \in DOMAIN heap
    OBVIOUS
  <2> QED
    BY <1>0, <2>1, <2>2
<1> QED
  BY <1>1, <1>2, <1>4, <1>5

LEMMA SelfAsLeftBreaks ==
  ASSUME TypeOK, BrokenInv, SelfAsLeft
  PROVE  BrokenInv'
<1>1. /\ input' = input /\ taken' = taken + 1 /\ at # 0 /\ at' = 0 /\ Return
      /\ taken \in Nat /\ taken > 0 /\ taken < Len(input.ops)
  BY Sizes DEF SelfAsLeft, Return
<1>2. PICK m \in Nat \ {0}, l \in Nat \ {0} :
        m <= l /\ \E sp \in [1..l -> DOMAIN heap] : Trail(m, l, sp) /\ Passed(l, sp)
  BY <1>1 DEF BrokenInv, HasTrail
<1>3. PICK sp \in [1..l -> DOMAIN heap] : Trail(m, l, sp) /\ Passed(l, sp)
  BY <1>2
<1>4. PICK k \in 1..l :
        at = sp[k] /\ \A j \in 1..(k - 1) : getOpPriority[op] < getOpPriority[heap[sp[j]].op]
  BY <1>1, <1>3 DEF Passed
<1>5. /\ heap' \in Seq(Node) /\ Len(heap') = Len(heap) + 1
      /\ heap'[at].op = op /\ heap'[at].left = new /\ heap'[at].right = rightExpr
      /\ \A n \in DOMAIN heap \ {at} : heap'[n] = heap[n]
  BY SelfAsLeftHeap
<1>6. heap'[at].left > Len(input.parsed)
  <2>1. Len(heap) = Len(input.parsed) + taken /\ Len(input.parsed) \in Nat
    BY Sizes, ChainType
  <2> QED
    BY <1>1, <1>5, <2>1 DEF new
<1>7. getOpPriority[heap[at].op] <= getOpPriority[op]
  BY DEF SelfAsLeft, bindsTighter
<1>8. /\ getOpPriority[op] \in Int /\ getOpPriority[input.ops[taken]] \in Int
      /\ \A j \in 1..l : getOpPriority[heap[sp[j]].op] \in Int
  <2>1. op \in BinaryOp /\ input.ops[taken] \in BinaryOp
    BY <1>1, ArgumentTypes, ChainType
  <2>2. \A j \in 1..l : heap[sp[j]].op \in BinaryOp
    BY <1>3, Sizes, NodeAt
  <2> QED
    BY <2>1, <2>2, PriorityType
<1>9. \A j \in 1..(k - 1) : sp[j] # at
  <2> SUFFICES ASSUME NEW j \in 1..(k - 1), sp[j] = at PROVE FALSE
    OBVIOUS
  <2>1. getOpPriority[op] < getOpPriority[heap[at].op] /\ getOpPriority[heap[at].op] \in Int
    BY <1>4, <1>8
  <2> QED
    BY <1>7, <1>8, <2>1
<1>10. k <= m => ~Endangered(taken + 1)
  <2> SUFFICES ASSUME k <= m, Endangered(taken + 1) PROVE FALSE
    OBVIOUS
  <2>1. getOpPriority[op] < getOpPriority[input.ops[taken]]
    <3>1. (taken + 1) - 1 = taken
      BY <1>1
    <3>2. getOpPriority[input.ops[taken + 1]] < getOpPriority[input.ops[(taken + 1) - 1]]
      BY DEF Endangered
    <3> QED
      BY <3>1, <3>2 DEF op
  <2>2. getOpPriority[input.ops[taken]] <= getOpPriority[heap[at].op]
    <3>1. CASE k = m
      <4>1. heap[at].op = input.ops[taken]
        BY <1>3, <1>4, <3>1 DEF Trail
      <4> QED
        BY <1>8, <4>1
    <3>2. CASE k # m
      <4>1. k \in 1..(m - 1)
        BY <1>2, <1>4, <3>2
      <4>2. getOpPriority[input.ops[taken]] < getOpPriority[heap[at].op]
        BY <1>3, <1>4, <4>1 DEF Trail
      <4> QED
        BY <1>4, <1>8, <4>2
    <3> QED
      BY <3>1, <3>2
  <2>3. getOpPriority[heap[at].op] \in Int
    BY <1>4, <1>8
  <2> QED
    BY <1>7, <1>8, <2>1, <2>2, <2>3
<1>11. \A i \in DOMAIN input.operands :
         /\ (isBinary(input.operands[i]) /\ ~(Endangered(i) /\ i <= taken) => Untouched(i))'
         /\ (Endangered(i) /\ i <= taken => \E n \in Contents(i) : Changed(n))'
  BY <1>1, <1>2, <1>3, <1>4, <1>5, <1>6, <1>10, WritingBreaks
<1>12. /\ sp[1] = Root' /\ op = (input.ops[taken])' /\ rightExpr = (input.operands[taken + 1])'
       /\ \A j \in 1..(k - 1) :
            /\ heap'[sp[j]].right = sp[j + 1]
            /\ getOpPriority[(input.ops[taken])'] < getOpPriority[heap'[sp[j]].op]
       /\ \A j \in 1..k : sp[j] \in Reach' /\ sp[j] \in DOMAIN heap'
  BY <1>1, <1>2, <1>3, <1>4, <1>5, <1>9, WayStays
<1>13. HasTrail'
  <2>1. PICK n \in Nat \ {0} : n = k
    BY <1>4
  <2>2. PICK t \in [1..n -> DOMAIN heap'] : \A j \in 1..n : t[j] = sp[j]
    <3> DEFINE s == [j \in 1..n |-> sp[j]]
    <3>1. s \in [1..n -> DOMAIN heap']
      BY <1>12, <2>1
    <3> QED
      BY <3>1
  <2>3. Trail(n, n, t)'
    <3>1. n \in 1..n /\ 1 \in 1..n /\ \A j \in 1..(n - 1) : j \in 1..n /\ j + 1 \in 1..n
      BY <2>1
    <3>2. t[1] = Root' /\ t[n] = at
      BY <1>4, <1>12, <2>1, <2>2, <3>1
    <3>3. \A j \in 1..(n - 1) : heap'[t[j]].right = t[j + 1]
      BY <1>12, <2>1, <2>2, <3>1
    <3>4. \A j \in 1..n : t[j] \in Reach'
      BY <1>12, <2>1, <2>2
    <3>5. \A j \in 1..(n - 1) : getOpPriority[(input.ops[taken])'] < getOpPriority[heap'[t[j]].op]
      BY <1>12, <2>1, <2>2, <3>1
    <3>6. heap'[t[n]].op = (input.ops[taken])' /\ heap'[t[n]].right = (input.operands[taken + 1])'
      BY <1>5, <1>12, <3>2
    <3>7. (n + 1)..n = {}
      BY <2>1
    <3> QED
      BY <3>2, <3>3, <3>4, <3>5, <3>6, <3>7 DEF Trail
  <2>4. Passed(n, t)'
    BY <1>1 DEF Passed
  <2>5. n <= n
    BY <2>1
  <2> QED
    BY <2>2, <2>3, <2>4, <2>5 DEF HasTrail
<1> QED
  BY <1>1, <1>11, <1>13 DEF BrokenInv

LEMMA NewRightBreaks ==
  ASSUME TypeOK, BrokenInv, NewRight, TypeOK'
  PROVE  BrokenInv'
<1>1. /\ input' = input /\ taken' = taken + 1 /\ at # 0 /\ at' = 0 /\ Return
      /\ taken \in Nat /\ taken > 0 /\ taken < Len(input.ops) /\ ~isBinary(heap[at].right)
  BY Sizes DEF NewRight, Return
<1>2. PICK m \in Nat \ {0}, l \in Nat \ {0} :
        m <= l /\ \E sp \in [1..l -> DOMAIN heap] : Trail(m, l, sp) /\ Passed(l, sp)
  BY <1>1 DEF BrokenInv, HasTrail
<1>3. PICK sp \in [1..l -> DOMAIN heap] : Trail(m, l, sp) /\ Passed(l, sp)
  BY <1>2
<1>4. PICK k \in 1..l :
        at = sp[k] /\ \A j \in 1..(k - 1) : getOpPriority[op] < getOpPriority[heap[sp[j]].op]
  BY <1>1, <1>3 DEF Passed
<1>5. /\ heap' \in Seq(Node) /\ Len(heap') = Len(heap) + 1 /\ new = Len(heap) + 1
      /\ heap'[at].op = heap[at].op /\ heap'[at].right = new
      /\ heap'[new].op = op /\ heap'[new].right = rightExpr
      /\ \A n \in DOMAIN heap \ {at} : heap'[n] = heap[n]
  <2>1. at \in DOMAIN heap /\ heap[at] \in Node
    BY <1>1, Sizes, NodeAt
  <2>2. heap'[at].op = heap[at].op /\ heap'[at].right = new
    BY <2>1, NewRightHeap DEF Node
  <2> QED
    BY <2>2, NewRightHeap DEF new
<1>6. heap'[at].right > Len(input.parsed) /\ new \in Built' /\ new \in DOMAIN heap'
  <2>1. Len(heap) = Len(input.parsed) + taken /\ Len(input.parsed) \in Nat
    BY Sizes, ChainType
  <2>2. new \in Built'
    BY <1>1, <1>5, <2>1 DEF Built
  <2>3. new \in DOMAIN heap'
    BY <1>1, <1>5, <2>1
  <2> QED
    BY <1>1, <1>5, <2>1, <2>2, <2>3
<1>7. getOpPriority[op] < getOpPriority[heap[at].op]
  <2>1. heap[at].op \in BinaryOp
    BY <1>1, Sizes, NodeAt
  <2>2. getOpPriority[op] \in Int /\ getOpPriority[heap[at].op] \in Int
    BY <1>1, <2>1, ArgumentTypes, PriorityType
  <2> QED
    BY <2>2 DEF NewRight, bindsTighter
<1>8. \A j \in 1..(l - 1) : j \in 1..l /\ j + 1 \in 1..l /\ isBinary(heap[sp[j]].right)
  <2> SUFFICES ASSUME NEW j \in 1..(l - 1) PROVE j \in 1..l /\ j + 1 \in 1..l /\ isBinary(heap[sp[j]].right)
    OBVIOUS
  <2>1. j \in 1..l /\ j + 1 \in 1..l
    BY <1>2
  <2>2. heap[sp[j]].right = sp[j + 1] /\ sp[j + 1] \in DOMAIN heap
    BY <1>3, <2>1 DEF Trail
  <2> QED
    BY <2>1, <2>2, Sizes DEF isBinary
<1>9. k = l
  <2> SUFFICES ASSUME k # l PROVE FALSE
    OBVIOUS
  <2>1. k \in 1..(l - 1)
    BY <1>2, <1>4
  <2> QED
    BY <1>1, <1>4, <1>8, <2>1
<1>10. \A j \in 1..(k - 1) : sp[j] # at
  BY <1>1, <1>8, <1>9
<1>11. k <= m => ~Endangered(taken + 1)
  <2> SUFFICES ASSUME k <= m PROVE ~Endangered(taken + 1)
    OBVIOUS
  <2>1. k = m
    BY <1>2, <1>9
  <2>2. heap[at].right = input.operands[taken + 1]
    BY <1>3, <1>4, <2>1 DEF Trail
  <2> QED
    BY <1>1, <2>2 DEF Endangered
<1>12. \A i \in DOMAIN input.operands :
         /\ (isBinary(input.operands[i]) /\ ~(Endangered(i) /\ i <= taken) => Untouched(i))'
         /\ (Endangered(i) /\ i <= taken => \E n \in Contents(i) : Changed(n))'
  BY <1>1, <1>2, <1>3, <1>4, <1>5, <1>6, <1>11, WritingBreaks
<1>13. /\ sp[1] = Root' /\ op = (input.ops[taken])' /\ rightExpr = (input.operands[taken + 1])'
       /\ \A j \in 1..(k - 1) :
            /\ heap'[sp[j]].right = sp[j + 1]
            /\ getOpPriority[(input.ops[taken])'] < getOpPriority[heap'[sp[j]].op]
       /\ \A j \in 1..k : sp[j] \in Reach' /\ sp[j] \in DOMAIN heap'
  BY <1>1, <1>2, <1>3, <1>4, <1>5, <1>10, WayStays
<1>14. HasTrail'
  <2>1. PICK n \in Nat \ {0} : n = k + 1
    BY <1>4
  <2>2. PICK t \in [1..n -> DOMAIN heap'] : (\A j \in 1..k : t[j] = sp[j]) /\ t[n] = new
    <3> DEFINE s == [j \in 1..n |-> IF j = n THEN new ELSE sp[j]]
    <3>1. \A j \in 1..n : j # n => j \in 1..k
      BY <1>2, <1>4, <2>1
    <3>2. s \in [1..n -> DOMAIN heap']
      BY <1>6, <1>13, <3>1
    <3>3. (\A j \in 1..k : s[j] = sp[j]) /\ s[n] = new
      BY <1>2, <1>4, <2>1
    <3> QED
      BY <3>2, <3>3
  <2>3. Trail(n, n, t)'
    <3>1. /\ n \in 1..n /\ 1 \in 1..k /\ \A j \in 1..n : j = n \/ j \in 1..k
          /\ \A j \in 1..(n - 1) : j = k \/ (j \in 1..(k - 1) /\ j \in 1..k /\ j + 1 \in 1..k)
          /\ k \in 1..k
      BY <1>2, <1>4, <2>1
    <3>2. t[1] = Root' /\ t[k] = at
      BY <1>4, <1>13, <2>2, <3>1
    <3>3. \A j \in 1..(n - 1) : heap'[t[j]].right = t[j + 1]
      BY <1>5, <1>13, <2>1, <2>2, <3>1, <3>2
    <3>4. \A j \in 1..n : t[j] \in Reach'
      BY <1>6, <1>13, <2>2, <3>1 DEF Reach
    <3>5. \A j \in 1..(n - 1) : getOpPriority[(input.ops[taken])'] < getOpPriority[heap'[t[j]].op]
      BY <1>5, <1>7, <1>13, <2>2, <3>1, <3>2
    <3>6. heap'[t[n]].op = (input.ops[taken])' /\ heap'[t[n]].right = (input.operands[taken + 1])'
      BY <1>5, <1>13, <2>2
    <3>7. (n + 1)..n = {}
      BY <2>1
    <3> QED
      BY <3>2, <3>3, <3>4, <3>5, <3>6, <3>7 DEF Trail
  <2>4. Passed(n, t)'
    BY <1>1 DEF Passed
  <2>5. n <= n
    BY <2>1
  <2> QED
    BY <2>2, <2>3, <2>4, <2>5 DEF HasTrail
<1> QED
  BY <1>1, <1>12, <1>14 DEF BrokenInv

(* appendExpr pulls an operator into a pair of parentheses exactly if the  *)
(* operand they enclose stands between a weaker operator and a tighter one *)
(* (the descent in src/ast/binary_expression.cpp does not ask what it      *)
(* descends into), and it does so when it takes the tighter one.           *)
THEOREM OnlyEndangeredParenthesesBreak == Spec => []OnlyEndangeredBreak
<1>1. Init => BrokenInv
  <2> SUFFICES ASSUME Init PROVE BrokenInv
    OBVIOUS
  <2>1. \A i \in DOMAIN input.operands : ~(Endangered(i) /\ i <= taken)
    BY DEF Init, Endangered
  <2>2. \A i \in DOMAIN input.operands : Untouched(i)
    BY DEF Init, Untouched
  <2> QED
    BY <2>1, <2>2 DEF Init, BrokenInv, HasTrail
<1>2. TypeOK /\ BrokenInv /\ [Next]_vars /\ TypeOK' => BrokenInv'
  <2> SUFFICES ASSUME TypeOK, BrokenInv, UNCHANGED vars PROVE BrokenInv'
    BY FirstRightBreaks, AppendExprBreaks, SelfAsLeftBreaks, DescendBreaks, NewRightBreaks DEF Next, Finished
  <2>1. input' = input /\ heap' = heap /\ taken' = taken /\ at' = at /\ op' = op
    BY DEF vars, op
  <2>2. HasTrail'
    <3>1. ASSUME NEW m, NEW l, NEW sp PROVE Trail(m, l, sp)' = Trail(m, l, sp) /\ Passed(l, sp)' = Passed(l, sp)
      BY <2>1 DEF Trail, Passed, Root, Reach, Built, Endangered, Contents
    <3> QED
      BY <2>1, <3>1 DEF HasTrail, BrokenInv
  <2> QED
    BY <2>1, <2>2 DEF BrokenInv, Endangered, Untouched, Contents, Changed
<1>3. TypeOK /\ BrokenInv => OnlyEndangeredBreak
  <2> SUFFICES ASSUME TypeOK, BrokenInv, NEW i \in DOMAIN input.operands, isBinary(input.operands[i])
               PROVE  Untouched(i) <=> ~(Endangered(i) /\ i <= taken)
    BY DEF OnlyEndangeredBreak
  <2>1. ASSUME Endangered(i), i <= taken PROVE ~Untouched(i)
    <3>1. PICK n \in Contents(i) : Changed(n)
      BY <2>1 DEF BrokenInv
    <3>2. n \in 1..Len(input.parsed) /\ Len(input.parsed) \in Nat
      BY <3>1, ContentsFacts, ChainType
    <3>3. /\ input.parsed[n].left \in Int /\ input.parsed[n].right \in Int
          /\ input.parsed[n].left <= Len(input.parsed) /\ input.parsed[n].right <= Len(input.parsed)
      BY <3>2, ChainType, NodeAt DEF Closed
    <3>4. heap[n] # input.parsed[n]
      BY <3>1, <3>2, <3>3 DEF Changed
    <3> QED
      BY <3>1, <3>4 DEF Untouched
  <2> QED
    BY <2>1 DEF BrokenInv
<1> QED
  BY <1>1, <1>2, <1>3, TypeCorrect, PTL DEF Spec
=============================================================================

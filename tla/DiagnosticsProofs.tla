------------------------- MODULE DiagnosticsProofs -------------------------
(***************************************************************************)
(* Proofs about Diagnostics.                                               *)
(***************************************************************************)
EXTENDS Diagnostics, FiniteSetTheorems, NaturalsInduction, TLAPS

-----------------------------------------------------------------------------
(* Counting.                                                               *)

(* A set of numbers that has the first and with each the next has all.     *)
LEMMA CountingUp ==
  ASSUME NEW a \in Nat, NEW b \in Nat, NEW S,
         a <= b => a \in S,
         \A k \in a..b : k \in S /\ k < b => k + 1 \in S
  PROVE  \A k \in a..b : k \in S
<1> DEFINE bad == {k \in a..b : k \notin S}
           R == OpToRel(<, Nat)
<1> SUFFICES ASSUME bad # {} PROVE FALSE
  OBVIOUS
<1>1. IsWellFoundedOn(R, Nat)
  BY NatLessThanWellFounded
<1>2. \A x \in Nat, y \in Nat : y < x => <<y, x>> \in R
  BY DEF OpToRel
<1> HIDE DEF R
<1>3. bad \subseteq Nat
  OBVIOUS
<1>4. PICK x \in bad : \A y \in bad : ~ (<<y, x>> \in R)
  BY <1>1, <1>3, WFMin
<1>5. x \in a..b /\ x \notin S /\ x \in Nat
  BY <1>4
<1>6. x # a
  BY <1>5
<1>7. x - 1 \in a..b /\ x - 1 < b /\ x - 1 < x /\ x - 1 \in Nat /\ (x - 1) + 1 = x
  BY <1>5, <1>6
<1>8. x - 1 \notin S
  BY <1>5, <1>7
<1>9. x - 1 \in bad
  BY <1>7, <1>8
<1> QED
  BY <1>2, <1>4, <1>5, <1>7, <1>9

(* Iterate reads as it is written.                                         *)
IterateAt(f, x, g, k) == g[k] = IF k = 0 THEN x ELSE f[g[k - 1]]
LEMMA IterateEquation ==
  ASSUME NEW f, NEW x, NEW N \in Nat
  PROVE  \E g : /\ Iterate(f, x, N) = g[N]
                /\ \A k \in 0..N : IterateAt(f, x, g, k)
<1> DEFINE Upto(m, g) == DOMAIN g = 0..m /\ g = [k \in 0..m |-> g[k]] /\ \A k \in 0..m : IterateAt(f, x, g, k)
           S == {m \in 0..N : \E g : Upto(m, g)}
           Q(g) == g = [k \in 0..N |-> IF k = 0 THEN x ELSE f[g[k - 1]]]
           c == CHOOSE g : Q(g)
<1>1. 0 \in S
  <2>1. Upto(0, [k \in 0..0 |-> x])
    BY DEF IterateAt
  <2> QED
    BY <2>1
<1>2. ASSUME NEW m \in 0..N, m \in S, m < N PROVE m + 1 \in S
  <2>1. PICK g : Upto(m, g)
    BY <1>2
  <2> DEFINE g1 == [k \in 0..(m + 1) |-> IF k <= m THEN g[k] ELSE f[g[m]]]
  <2>2. \A k \in 0..m : k \in 0..(m + 1) /\ g1[k] = g[k]
    OBVIOUS
  <2>3. g1[m + 1] = f[g[m]] /\ (m + 1) - 1 = m /\ m \in 0..m /\ m + 1 # 0
    OBVIOUS
  <2>4. \A k \in 0..m : k # 0 => k - 1 \in 0..m
    OBVIOUS
  <2>5. \A k \in 0..(m + 1) : k \in 0..m \/ k = m + 1
    OBVIOUS
  <2>6. ASSUME NEW k \in 0..(m + 1) PROVE IterateAt(f, x, g1, k)
    <3> HIDE DEF g1
    <3>1. CASE k \in 0..m
      <4>1. IterateAt(f, x, g, k)
        BY <2>1, <3>1
      <4> QED
        BY <4>1, <2>2, <2>4, <3>1 DEF IterateAt
    <3>2. CASE k = m + 1
      BY <2>2, <2>3, <3>2 DEF IterateAt
    <3> QED
      BY <2>5, <3>1, <3>2
  <2>7. Upto(m + 1, g1)
    BY <2>6
  <2>8. m + 1 \in 0..N
    BY <1>2
  <2> QED
    BY <2>7, <2>8
<1>3. N \in S
  <2> HIDE DEF S
  <2>1. \A k \in 0..N : k \in S
    BY <1>1, <1>2, CountingUp
  <2> QED
    BY <2>1
<1>4. PICK g : Upto(N, g)
  BY <1>3
<1>5. Q(g)
  BY <1>4 DEF IterateAt
<1>6. Q(c)
  BY <1>5
<1>7. Iterate(f, x, N) = c[N]
  BY DEF Iterate
<1> HIDE DEF c
<1>8. \A k \in 0..N : IterateAt(f, x, c, k)
  BY <1>6 DEF IterateAt
<1> QED
  BY <1>7, <1>8

(* It does not leave what its function does not leave.                     *)
LEMMA IterateStays ==
  ASSUME NEW f, NEW N \in Nat, NEW D, NEW x \in D, \A d \in D : f[d] \in D
  PROVE  Iterate(f, x, N) \in D
<1>1. PICK g : Iterate(f, x, N) = g[N] /\ \A k \in 0..N : IterateAt(f, x, g, k)
  BY IterateEquation
<1> DEFINE S == {k \in 0..N : g[k] \in D}
<1>2. 0 \in S
  BY <1>1 DEF IterateAt
<1>3. ASSUME NEW k \in 0..N, k \in S, k < N PROVE k + 1 \in S
  <2>1. k + 1 \in 0..N /\ (k + 1) - 1 = k /\ k + 1 # 0
    BY <1>3
  <2>2. g[k + 1] = f[g[k]]
    BY <1>1, <2>1 DEF IterateAt
  <2> QED
    BY <1>3, <2>1, <2>2
<1>4. \A k \in 0..N : k \in S
  <2> HIDE DEF S
  <2> QED
    BY <1>2, <1>3, CountingUp
<1> QED
  BY <1>1, <1>4

-----------------------------------------------------------------------------
(* Syntax trees.                                                           *)

Exprs(h) == {n \in DOMAIN h : h[n].kind \in Expressions}
Kind(h, k) == {n \in DOMAIN h : h[n].kind = k}
Placed(h) == {n \in DOMAIN h : h[n].kind \in Statements /\ h[n].range # 0}
PartsIn(h, n, S) == \A i \in DOMAIN h[n].parts : h[n].parts[i] \in S

(* The parts of a node are what the grammar lets stand there.              *)
ExpressionFits(h, n) ==
  /\ h[n].kind \in Expressions => PartsIn(h, n, Exprs(h))
  /\ h[n].kind # "parentheses"
  /\ h[n].kind \in {"prefix", "member"} => Len(h[n].parts) = 1
  /\ h[n].kind = "call" => Len(h[n].parts) >= 1
  /\ h[n].kind = "binary" => Len(h[n].parts) = 2
  /\ h[n].kind = "ternary" => Len(h[n].parts) = 3
StatementFits(h, n) ==
  /\ h[n].kind \in {"expressionStatement", "declare", "return", "assign"} => PartsIn(h, n, Exprs(h))
  /\ h[n].kind = "declare" => Len(h[n].parts) = 1
  /\ h[n].kind = "assign" => Len(h[n].parts) = 2
  /\ h[n].kind = "block" => PartsIn(h, n, Placed(h))
  /\ h[n].kind = "while" =>
       Len(h[n].parts) = 2 /\ h[n].parts[1] \in Exprs(h) /\ h[n].parts[2] \in Kind(h, "block")
  /\ h[n].kind = "if" =>
       /\ Len(h[n].parts) \in 2..3
       /\ h[n].parts[1] \in Exprs(h) /\ h[n].parts[2] \in Kind(h, "block")
       /\ Len(h[n].parts) = 3 => h[n].parts[3] \in Kind(h, "block") \cup Kind(h, "if")
  /\ h[n].kind = "function" => Len(h[n].parts) = 1 /\ PartsIn(h, n, Kind(h, "block"))
  /\ h[n].kind = "class" => PartsIn(h, n, Kind(h, "function"))
Fits(h, n) == ExpressionFits(h, n) /\ StatementFits(h, n)
WellBuilt(h) == h \in Seq(AnyNode) /\ \A n \in DOMAIN h : Fits(h, n)

LEMMA Kinds ==
  /\ Expressions = {"identifier", "prefix", "parentheses", "call", "member", "binary", "ternary"}
  /\ Expressions \cap Statements = {}
BY DEF Expressions, Operands, Statements

(* Nodes that are added, and ranges that are set, leave the others fitting.*)
Succeeds(h, h1) ==
  /\ h1 \in Seq(AnyNode) /\ Len(h) <= Len(h1)
  /\ \A n \in DOMAIN h : h1[n].kind = h[n].kind /\ (h[n].range # 0 => h1[n].range # 0)
LEMMA FitsStill ==
  ASSUME NEW h \in Seq(AnyNode), NEW h1, Succeeds(h, h1),
         NEW n \in DOMAIN h, Fits(h, n), h1[n].parts = h[n].parts
  PROVE  Fits(h1, n)
<1>1. DOMAIN h \subseteq DOMAIN h1
  <2>1. DOMAIN h = 1..Len(h) /\ DOMAIN h1 = 1..Len(h1) /\ Len(h) \in Nat /\ Len(h1) \in Nat
    BY DEF Succeeds
  <2> QED
    BY <2>1 DEF Succeeds
<1>2. /\ Exprs(h) \subseteq Exprs(h1) /\ Placed(h) \subseteq Placed(h1)
      /\ \A k : Kind(h, k) \subseteq Kind(h1, k)
  BY <1>1 DEF Succeeds, Exprs, Placed, Kind
<1>3. h1[n].kind = h[n].kind
  BY DEF Succeeds
<1>4. \A S, T : S \subseteq T /\ PartsIn(h, n, S) => PartsIn(h1, n, T)
  BY DEF PartsIn
<1>5. ExpressionFits(h1, n)
  BY <1>2, <1>3, <1>4 DEF Fits, ExpressionFits
<1>6. StatementFits(h1, n)
  <2>1. StatementFits(h, n)
    BY DEF Fits
  <2>2. CASE h[n].kind \in {"expressionStatement", "declare", "return", "assign", "block", "function", "class"}
    BY <2>1, <2>2, <1>2, <1>3, <1>4 DEF StatementFits
  <2>3. CASE h[n].kind \notin {"expressionStatement", "declare", "return", "assign", "block", "function", "class"}
    <3>1. Kind(h, "block") \cup Kind(h, "if") \subseteq Kind(h1, "block") \cup Kind(h1, "if")
      BY <1>2
    <3> QED
      BY <2>1, <2>3, <3>1, <1>2, <1>3 DEF StatementFits
  <2> QED
    BY <2>2, <2>3
<1> QED
  BY <1>5, <1>6 DEF Fits

LEMMA BuiltOn ==
  ASSUME NEW h, WellBuilt(h), NEW h1, Succeeds(h, h1),
         \A n \in DOMAIN h : h1[n].parts = h[n].parts \/ Fits(h1, n),
         \A n \in DOMAIN h1 \ DOMAIN h : Fits(h1, n)
  PROVE  WellBuilt(h1)
BY FitsStill DEF WellBuilt, Succeeds

-----------------------------------------------------------------------------
(* The invariant: what the walk has made so far.                           *)

Context == [rule: Expressions \cup Statements, parts: Seq(Nat)]
Walked ==
  /\ WellBuilt(nodes)
  /\ contexts \in Seq(Context)
  /\ astNodes \in Seq(Nat) /\ Len(astNodes) = Len(contexts)
  /\ open \in Seq(Nat)
  /\ \A i \in DOMAIN open : open[i] \in DOMAIN contexts
  /\ \A c \in DOMAIN contexts :
       \A i \in DOMAIN contexts[c].parts : contexts[c].parts[i] \in DOMAIN contexts

(* The node of a context is of the kind of its rule; parentheses have that *)
(* of their contents, and calls and members may be the last link only.     *)
NodeOfContext ==
  \A c \in DOMAIN contexts :
    /\ astNodes[c] \in Nodes
    /\ rule(c) \in Expressions <=> kind(astNodes[c]) \in Expressions
    /\ rule(c) \in Statements => kind(astNodes[c]) = rule(c)
    /\ rule(c) \in Statements => \A d \in DOMAIN contexts : astNodes[d] = astNodes[c] => d = c

(* A range is that of the last context of the node.  Nodes the chains made *)
(* have neither; a statement that has not been placed has the latter only. *)
isLastOf(c, n) ==
  /\ c \in DOMAIN contexts /\ astNodes[c] = n
  /\ \A d \in DOMAIN contexts : astNodes[d] = n => d <= c
RangeIsLast ==
  \A n \in Nodes :
    \/ nodes[n].range = 0 /\ (kind(n) \in Statements \/ \A c \in DOMAIN contexts : astNodes[c] # n)
    \/ isLastOf(nodes[n].range, n)

(* How the bodies of a ternary chain (p) hang under its root.              *)
Nesting(h, root, p) ==
  LET third == h[root].parts[3]
  IN  /\ root \in Kind(h, "ternary")
      /\ Len(p) \in {3, 5} => h[root].parts[1] = p[1] /\ h[root].parts[2] = p[2]
      /\ Len(p) = 3 => third = p[3]
      /\ Len(p) = 5 => /\ third \in Kind(h, "ternary")
                       /\ \A i \in 1..3 : h[third].parts[i] = p[i + 2]
      /\ Len(p) >= 7 => third \in Kind(h, "ternary") /\ h[third].parts[1] # p[3]
TernaryTrees ==
  \A c \in DOMAIN contexts : rule(c) = "ternary" =>
    LET p == NodesOf(contexts[c].parts)
    IN  /\ Len(p) >= 3 /\ \E n \in Nat : Len(p) = 2 * n + 1
        /\ Nesting(nodes, astNodes[c], p)

WalkInv == Walked /\ NodeOfContext /\ RangeIsLast /\ TernaryTrees

(* What an exit has made of the nodes: the one of the context is "ast".    *)
Made(h, ast, r, p) ==
  /\ WellBuilt(h) /\ Len(nodes) <= Len(h) /\ ast \in DOMAIN h
  /\ \A n \in Nodes :
       /\ h[n].kind = nodes[n].kind
       /\ n # ast => h[n].range = nodes[n].range
       /\ h[n].kind # "binary" => h[n].parts = nodes[n].parts
  /\ \A n \in DOMAIN h \ Nodes : n # ast => h[n].range = 0
  /\ r \in Expressions => h[ast].kind \in Expressions /\ h[ast].range = Here
  /\ r \in Statements => ast = new /\ h[ast].kind = r /\ h[ast].range = 0
  /\ r = "ternary" => Nesting(h, ast, p) /\ Len(p) >= 3 /\ \E n \in Nat : Len(p) = 2 * n + 1

LEMMA ChildrenFacts ==
  ASSUME Walked, NEW k \in Nat, k <= Len(open)
  PROVE  /\ Children(k) \in Seq(Nat) /\ Len(Children(k)) = k
         /\ \A i \in 1..k : Children(k)[i] \in DOMAIN contexts
         /\ \A i \in 1..k : Children(k)[i] = open[Len(open) - k + i]
         /\ Len(NodesOf(Children(k))) = k
         /\ DOMAIN NodesOf(Children(k)) = 1..k
         /\ \A i \in 1..k : NodesOf(Children(k))[i] = astNodes[Children(k)[i]]
<1>1. open \in Seq(Nat) /\ Len(open) \in Nat /\ DOMAIN open = 1..Len(open)
  BY DEF Walked
<1>2. /\ Children(k) \in Seq(Nat) /\ Len(Children(k)) = k
      /\ \A i \in 1..k : Children(k)[i] = open[Len(open) - k + i]
  BY <1>1 DEF Children
<1>3. \A i \in 1..k : Len(open) - k + i \in DOMAIN open
  BY <1>1
<1>4. \A i \in 1..k : Children(k)[i] \in DOMAIN contexts
  BY <1>2, <1>3 DEF Walked
<1>5. DOMAIN Children(k) = 1..k
  BY <1>2
<1>6. NodesOf(Children(k)) = [i \in 1..k |-> astNodes[Children(k)[i]]]
  BY <1>5 DEF NodesOf
<1>7. NodesOf(Children(k)) \in Seq(Nat)
  <2>1. \A i \in 1..k : astNodes[Children(k)[i]] \in Nat
    BY <1>4 DEF Walked
  <2> QED
    BY <1>6, <2>1
<1> QED
  BY <1>2, <1>4, <1>6, <1>7

LEMMA NestingKept ==
  ASSUME NEW h, NEW h1, NEW root, NEW p, NEW q,
         DOMAIN h \subseteq DOMAIN h1,
         \A n \in DOMAIN h : h1[n].kind = h[n].kind /\ (h1[n].kind # "binary" => h1[n].parts = h[n].parts),
         p = q, Nesting(h, root, p)
  PROVE  Nesting(h1, root, q)
<1> DEFINE third == h[root].parts[3]
<1>1. root \in DOMAIN h /\ h[root].kind = "ternary" /\ h1[root].kind = "ternary" /\ root \in DOMAIN h1
  BY DEF Nesting, Kind
<1>2. h1[root].parts = h[root].parts
  BY <1>1
<1>3. third \in Kind(h, "ternary") => third \in Kind(h1, "ternary") /\ h1[third].parts = h[third].parts
  BY DEF Kind
<1>4. root \in Kind(h1, "ternary")
  BY <1>1 DEF Kind
<1> QED
  BY <1>2, <1>3, <1>4 DEF Nesting

NodesBy(ast, parts) == [i \in DOMAIN parts |-> ast[parts[i]]]
LEMMA ExitKeeps ==
  ASSUME WalkInv, NEW k \in Nat, k <= Len(open), NEW r \in Expressions \cup Statements, NEW h, NEW ast,
         Exit(r, Children(k), h, ast), Made(h, ast, r, NodesOf(Children(k)))
  PROVE  WalkInv'
<1> DEFINE parts == Children(k)
<1>1. /\ contexts' = Append(contexts, [rule |-> r, parts |-> parts]) /\ nodes' = h
      /\ astNodes' = Append(astNodes, ast)
      /\ open' = Append(SubSeq(open, 1, Len(open) - Len(parts)), Here)
  BY DEF Exit
<1>2. /\ contexts \in Seq(Context) /\ astNodes \in Seq(Nat) /\ open \in Seq(Nat)
      /\ Len(astNodes) = Len(contexts) /\ Len(contexts) \in Nat
      /\ DOMAIN contexts = 1..Len(contexts) /\ DOMAIN astNodes = 1..Len(contexts)
      /\ Here = Len(contexts) + 1
  BY DEF WalkInv, Walked, Here
<1>3. /\ parts \in Seq(Nat) /\ Len(parts) = k /\ DOMAIN parts = 1..k
      /\ \A i \in 1..k : parts[i] \in DOMAIN contexts
  BY ChildrenFacts DEF WalkInv
<1>4. h \in Seq(AnyNode) /\ DOMAIN h = 1..Len(h) /\ Len(h) \in Nat /\ ast \in Nat
      /\ nodes \in Seq(AnyNode) /\ Nodes = 1..Len(nodes) /\ Len(nodes) \in Nat /\ Len(nodes) <= Len(h)
      /\ Nodes \subseteq DOMAIN h
  <2>1. h \in Seq(AnyNode) /\ nodes \in Seq(AnyNode) /\ Len(nodes) <= Len(h) /\ ast \in DOMAIN h
    BY DEF Made, WellBuilt, WalkInv, Walked
  <2> QED
    BY <2>1 DEF Nodes
<1>5. [rule |-> r, parts |-> parts] \in Context
  BY <1>3 DEF Context
<1>6. /\ contexts' \in Seq(Context) /\ Len(contexts') = Here /\ DOMAIN contexts' = DOMAIN contexts \cup {Here}
      /\ \A c \in DOMAIN contexts : contexts'[c] = contexts[c]
      /\ contexts'[Here] = [rule |-> r, parts |-> parts]
      /\ Here \notin DOMAIN contexts
  BY <1>1, <1>2, <1>5
<1>7. /\ astNodes' \in Seq(Nat) /\ Len(astNodes') = Here
      /\ \A c \in DOMAIN contexts : astNodes'[c] = astNodes[c]
      /\ astNodes'[Here] = ast
  BY <1>1, <1>2, <1>4
<1>8. Walked'
  <2>1. WellBuilt(nodes)'
    BY <1>1 DEF Made
  <2>2. open' \in Seq(Nat) /\ \A i \in DOMAIN open' : open'[i] \in DOMAIN contexts'
    <3> DEFINE o == SubSeq(open, 1, Len(open) - k)
    <3>1. o \in Seq(Nat) /\ \A i \in 1..Len(o) : o[i] = open[i] /\ i \in DOMAIN open
      BY <1>2
    <3>2. \A i \in 1..Len(o) : o[i] \in DOMAIN contexts
      BY <3>1 DEF WalkInv, Walked
    <3>3. open' = Append(o, Here) /\ Here \in Nat
      BY <1>1, <1>2, <1>3
    <3> HIDE DEF o
    <3> QED
      BY <3>1, <3>2, <3>3, <1>6
  <2>3. \A c \in DOMAIN contexts' : \A i \in DOMAIN contexts'[c].parts : contexts'[c].parts[i] \in DOMAIN contexts'
    <3> SUFFICES ASSUME NEW c \in DOMAIN contexts', NEW i \in DOMAIN contexts'[c].parts
        PROVE contexts'[c].parts[i] \in DOMAIN contexts
      BY <1>6
    <3>1. CASE c = Here
      <4>1. contexts'[c].parts = parts
        BY <3>1, <1>6
      <4> HIDE DEF parts
      <4> QED
        BY <4>1, <1>3
    <3>2. CASE c \in DOMAIN contexts
      BY <3>2, <1>6 DEF WalkInv, Walked
    <3> QED
      BY <3>1, <3>2, <1>6
  <2> QED
    BY <1>6, <1>7, <2>1, <2>2, <2>3 DEF Walked
<1>9. ASSUME NEW c \in DOMAIN contexts
      PROVE /\ astNodes[c] \in Nodes /\ h[astNodes[c]].kind = kind(astNodes[c])
            /\ astNodes'[c] = astNodes[c] /\ contexts'[c] = contexts[c]
  BY <1>6, <1>7 DEF WalkInv, NodeOfContext, Made, kind
<1>10. NodeOfContext'
  <2> SUFFICES ASSUME NEW c \in DOMAIN contexts'
      PROVE /\ astNodes'[c] \in DOMAIN h
            /\ contexts'[c].rule \in Expressions <=> h[astNodes'[c]].kind \in Expressions
            /\ contexts'[c].rule \in Statements => h[astNodes'[c]].kind = contexts'[c].rule
            /\ contexts'[c].rule \in Statements =>
                  \A d \in DOMAIN contexts' : astNodes'[d] = astNodes'[c] => d = c
    BY <1>1 DEF NodeOfContext, Nodes, kind, rule
  <2>1. CASE c = Here
    <3>1. contexts'[c].rule = r /\ astNodes'[c] = ast
      BY <2>1, <1>6, <1>7
    <3>2. r \in Statements => ast \notin Nodes
      BY <1>4 DEF Made, new
    <3> QED
      BY <2>1, <3>1, <3>2, <1>6, <1>9, Kinds DEF Made
  <2>2. CASE c \in DOMAIN contexts
    <3>1. rule(c) \in Statements => astNodes[c] # ast
      <4> SUFFICES ASSUME rule(c) \in Statements, astNodes[c] = ast PROVE FALSE
        OBVIOUS
      <4>1. ast \in Nodes /\ h[ast].kind \notin Expressions
        BY <2>2, <1>9, Kinds DEF WalkInv, NodeOfContext
      <4>2. r \in Statements /\ ast = new
        BY <4>1 DEF Made
      <4> QED
        BY <4>1, <4>2, <1>4 DEF new
    <3>2. /\ rule(c) \in Expressions <=> kind(astNodes[c]) \in Expressions
          /\ rule(c) \in Statements => kind(astNodes[c]) = rule(c)
          /\ rule(c) \in Statements => \A d \in DOMAIN contexts : astNodes[d] = astNodes[c] => d = c
      BY <2>2 DEF WalkInv, NodeOfContext
    <3>3. contexts'[c].rule = rule(c)
      BY <2>2, <1>9 DEF rule
    <3> QED
      BY <2>2, <3>1, <3>2, <3>3, <1>4, <1>6, <1>7, <1>9
  <2> QED
    BY <2>1, <2>2, <1>6
<1>11. RangeIsLast'
  <2> SUFFICES ASSUME NEW n \in DOMAIN h
      PROVE \/ /\ h[n].range = 0
               /\ h[n].kind \in Statements \/ \A c \in DOMAIN contexts' : astNodes'[c] # n
            \/ isLastOf(h[n].range, n)'
    BY <1>1 DEF RangeIsLast, Nodes, kind, isLastOf
  <2>1. CASE n = ast /\ r \in Expressions
    <3>1. h[n].range = Here
      BY <2>1 DEF Made
    <3> QED
      BY <2>1, <3>1, <1>2, <1>6, <1>7 DEF isLastOf
  <2>2. CASE n = ast /\ r \in Statements
    BY <2>2 DEF Made
  <2>3. CASE n # ast /\ n \notin Nodes
    BY <2>3, <1>6, <1>7, <1>9 DEF Made
  <2>4. CASE n # ast /\ n \in Nodes
    <3>1. h[n].range = nodes[n].range /\ h[n].kind = kind(n)
      BY <2>4 DEF Made, kind
    <3>2. CASE isLastOf(nodes[n].range, n)
      <4>1. isLastOf(h[n].range, n)'
        BY <2>4, <3>1, <3>2, <1>1, <1>6, <1>7 DEF isLastOf
      <4> QED
        BY <4>1
    <3>3. CASE nodes[n].range = 0 /\ (kind(n) \in Statements \/ \A c \in DOMAIN contexts : astNodes[c] # n)
      BY <2>4, <3>1, <3>3, <1>6, <1>7
    <3> QED
      BY <2>4, <3>2, <3>3 DEF WalkInv, RangeIsLast
  <2> QED
    BY <2>1, <2>2, <2>3, <2>4
<1>12. TernaryTrees'
  <2>1. ASSUME NEW q \in Seq(Nat), \A i \in DOMAIN q : q[i] \in DOMAIN contexts
        PROVE  NodesBy(astNodes', q) = NodesOf(q)
    BY <2>1, <1>7 DEF NodesOf, NodesBy
  <2> SUFFICES ASSUME NEW c \in DOMAIN contexts', contexts'[c].rule = "ternary"
      PROVE /\ Len(NodesBy(astNodes', contexts'[c].parts)) >= 3
            /\ \E n \in Nat : Len(NodesBy(astNodes', contexts'[c].parts)) = 2 * n + 1
            /\ Nesting(h, astNodes'[c], NodesBy(astNodes', contexts'[c].parts))
    BY <1>1 DEF TernaryTrees, rule, NodesOf, NodesBy
  <2>2. CASE c = Here
    <3>1. r = "ternary" /\ contexts'[c].parts = parts /\ astNodes'[c] = ast
      BY <2>2, <1>6, <1>7
    <3>2. NodesBy(astNodes', contexts'[c].parts) = NodesOf(parts)
      <4> HIDE DEF parts
      <4> QED
        BY <3>1, <2>1, <1>3
    <3> QED
      BY <3>1, <3>2 DEF Made
  <2>3. CASE c \in DOMAIN contexts
    <3> DEFINE q == contexts[c].parts
    <3>1. rule(c) = "ternary" /\ contexts'[c].parts = q /\ astNodes'[c] = astNodes[c]
      BY <2>3, <1>6, <1>7 DEF rule
    <3>2. q \in Seq(Nat) /\ \A i \in DOMAIN q : q[i] \in DOMAIN contexts
      <4>1. contexts[c] \in Context
        BY <2>3, <1>2
      <4> QED
        BY <2>3, <4>1 DEF WalkInv, Walked, Context
    <3>3. NodesBy(astNodes', contexts'[c].parts) = NodesOf(q)
      <4> HIDE DEF q
      <4> QED
        BY <3>1, <3>2, <2>1
    <3>4. Nesting(nodes, astNodes[c], NodesOf(q)) /\ Len(NodesOf(q)) >= 3 /\ \E n \in Nat : Len(NodesOf(q)) = 2 * n + 1
      BY <2>3, <3>1 DEF WalkInv, TernaryTrees
    <3>5. Nesting(h, astNodes[c], NodesOf(q))
      <4>1. \A n \in DOMAIN nodes : h[n].kind = nodes[n].kind /\ (h[n].kind # "binary" => h[n].parts = nodes[n].parts)
        BY DEF Made, Nodes
      <4> HIDE DEF q
      <4> QED
        BY <3>4, <4>1, <1>4, NestingKept DEF Nodes
    <3> QED
      BY <3>1, <3>3, <3>4, <3>5
  <2> QED
    BY <2>2, <2>3, <1>6
<1> QED
  BY <1>8, <1>10, <1>11, <1>12 DEF WalkInv

-----------------------------------------------------------------------------
(* The exits.                                                              *)

LEMMA ChildNodes ==
  ASSUME WalkInv, NEW k \in Nat, k <= Len(open)
  PROVE  /\ NodesOf(Children(k)) \in Seq(Nat)
         /\ \A i \in 1..k :
              /\ NodesOf(Children(k))[i] \in Nodes
              /\ rule(Children(k)[i]) \in Expressions => NodesOf(Children(k))[i] \in Exprs(nodes)
              /\ rule(Children(k)[i]) \in Statements => NodesOf(Children(k))[i] \in Kind(nodes, rule(Children(k)[i]))
              /\ isStatement(Children(k)[i]) => NodesOf(Children(k))[i] \in Placed(nodes)
<1> DEFINE p == Children(k)
           e == NodesOf(p)
<1>1. /\ DOMAIN e = 1..k /\ Len(e) = k
      /\ \A i \in 1..k : p[i] \in DOMAIN contexts /\ e[i] = astNodes[p[i]]
  BY ChildrenFacts DEF WalkInv
<1> HIDE DEF p, e
<1>2. ASSUME NEW i \in 1..k
      PROVE  /\ e[i] \in Nodes
             /\ rule(p[i]) \in Expressions => e[i] \in Exprs(nodes)
             /\ rule(p[i]) \in Statements => e[i] \in Kind(nodes, rule(p[i]))
             /\ isStatement(p[i]) => e[i] \in Placed(nodes)
  <2>1. p[i] \in DOMAIN contexts /\ e[i] = astNodes[p[i]]
    BY <1>1
  <2>2. /\ e[i] \in Nodes
        /\ rule(p[i]) \in Expressions <=> kind(e[i]) \in Expressions
        /\ rule(p[i]) \in Statements => kind(e[i]) = rule(p[i])
    BY <2>1 DEF WalkInv, NodeOfContext
  <2>3. isStatement(p[i]) => rule(p[i]) \in Statements /\ nodes[e[i]].range = p[i] /\ p[i] # 0
    <3>1. p[i] # 0
      BY <2>1 DEF WalkInv, Walked
    <3> QED
      BY <2>1, <3>1 DEF isStatement, node
  <2> QED
    BY <2>2, <2>3 DEF Exprs, Kind, Placed, Nodes, kind
<1>3. e \in Seq(Nat)
  <2>1. Nodes \subseteq Nat
    BY DEF WalkInv, Walked, WellBuilt, Nodes
  <2>2. e = [i \in 1..k |-> e[i]]
    BY DEF e, p, NodesOf, Children
  <2> QED
    BY <1>2, <2>1, <2>2
<1> QED
  BY <1>2, <1>3 DEF e, p

HasOneMore(h, k, exprs, range) ==
  /\ h \in Seq(AnyNode) /\ Len(h) = new /\ DOMAIN h = Nodes \cup {new} /\ new \notin Nodes /\ new \in DOMAIN h
  /\ \A n \in Nodes : h[n] = nodes[n]
  /\ h[new] = Object(k, exprs, range)
  /\ h[new].kind = k /\ h[new].parts = exprs /\ h[new].range = range
  /\ Exprs(nodes) \subseteq Exprs(h) /\ Placed(nodes) \subseteq Placed(h)
  /\ \A j : Kind(nodes, j) \subseteq Kind(h, j)
  /\ Fits(h, new) => WellBuilt(h)
LEMMA OneMore ==
  ASSUME WellBuilt(nodes), NEW k \in Expressions \cup Statements, NEW exprs \in Seq(Nat), NEW range \in Nat
  PROVE  HasOneMore(Append(nodes, Object(k, exprs, range)), k, exprs, range)
<1> DEFINE h == Append(nodes, Object(k, exprs, range))
<1>1. nodes \in Seq(AnyNode) /\ Len(nodes) \in Nat /\ Nodes = 1..Len(nodes) /\ DOMAIN nodes = 1..Len(nodes)
  BY DEF WellBuilt, Nodes
<1>2. Object(k, exprs, range) \in AnyNode
  BY DEF Object, AnyNode, Priorities
<1>3. /\ h \in Seq(AnyNode) /\ Len(h) = new /\ DOMAIN h = Nodes \cup {new} /\ new \notin Nodes /\ new \in DOMAIN h
      /\ \A n \in Nodes : h[n] = nodes[n]
      /\ h[new] = Object(k, exprs, range)
  BY <1>1, <1>2 DEF new
<1>4. h[new].kind = k /\ h[new].parts = exprs /\ h[new].range = range
  BY <1>3 DEF Object
<1>5. /\ Exprs(nodes) \subseteq Exprs(h) /\ Placed(nodes) \subseteq Placed(h)
      /\ \A j : Kind(nodes, j) \subseteq Kind(h, j)
  BY <1>3 DEF Nodes, Exprs, Placed, Kind
<1>6. Fits(h, new) => WellBuilt(h)
  <2>1. Succeeds(nodes, h)
    BY <1>1, <1>3 DEF Succeeds, Nodes, new
  <2>2. \A n \in DOMAIN nodes : h[n].parts = nodes[n].parts
    BY <1>3 DEF Nodes
  <2>3. DOMAIN h \ DOMAIN nodes = {new}
    BY <1>3 DEF Nodes
  <2> QED
    BY <2>1, <2>2, <2>3, BuiltOn
<1> QED
  BY <1>3, <1>4, <1>5, <1>6 DEF HasOneMore

LEMMA StatementExits ==
  ASSUME WalkInv, NEW k \in Nat, k <= Len(open), NEW r \in Statements, NEW exprs \in Seq(Nat),
         ExitRule(r, Children(k), exprs),
         StatementFits(Append(nodes, Object(r, exprs, 0)), new)
  PROVE  WalkInv'
<1> DEFINE h == Append(nodes, Object(r, exprs, 0))
<1>1. Exit(r, Children(k), h, new)
  BY DEF ExitRule
<1>2. WellBuilt(nodes)
  BY DEF WalkInv, Walked
<1>3. /\ h \in Seq(AnyNode) /\ Len(h) = new /\ DOMAIN h = Nodes \cup {new} /\ new \notin Nodes
      /\ \A n \in Nodes : h[n] = nodes[n]
      /\ h[new].kind = r /\ h[new].range = 0
      /\ Fits(h, new) => WellBuilt(h)
  <2>1. r \in Expressions \cup Statements /\ 0 \in Nat
    OBVIOUS
  <2>2. HasOneMore(h, r, exprs, 0)
    BY <1>2, <2>1, OneMore
  <2> QED
    BY <2>2 DEF HasOneMore
<1> HIDE DEF h
<1>4. Fits(h, new)
  <2>1. ExpressionFits(h, new)
    BY <1>3, Kinds DEF ExpressionFits
  <2> QED
    BY <2>1 DEF Fits, h
<1>5. Made(h, new, r, NodesOf(Children(k)))
  <2>1. Len(nodes) <= Len(h) /\ new \in DOMAIN h
    BY <1>2, <1>3 DEF new, WellBuilt
  <2>2. r \notin Expressions /\ r # "ternary"
    BY Kinds
  <2> QED
    BY <1>3, <1>4, <2>1, <2>2 DEF Made
<1> QED
  BY <1>1, <1>5, ExitKeeps


(* What the nodes of the children are once the rule's node is there.       *)
LEMMA StatementParts ==
  ASSUME WalkInv, NEW k \in Nat, k <= Len(open), NEW r \in Statements, NEW exprs \in Seq(Nat),
         NEW h, HasOneMore(h, r, exprs, 0)
  PROVE  \A i \in 1..k :
           /\ rule(Children(k)[i]) \in Expressions => NodesOf(Children(k))[i] \in Exprs(h)
           /\ rule(Children(k)[i]) \in Statements => NodesOf(Children(k))[i] \in Kind(h, rule(Children(k)[i]))
           /\ isStatement(Children(k)[i]) => NodesOf(Children(k))[i] \in Placed(h)
<1>1. WellBuilt(nodes) /\ r \in Expressions \cup Statements /\ 0 \in Nat
  BY DEF WalkInv, Walked
<1>2. /\ Exprs(nodes) \subseteq Exprs(h) /\ Placed(nodes) \subseteq Placed(h)
      /\ \A j : Kind(nodes, j) \subseteq Kind(h, j)
  BY DEF HasOneMore
<1>3. ASSUME NEW i \in 1..k
      PROVE  /\ rule(Children(k)[i]) \in Expressions => NodesOf(Children(k))[i] \in Exprs(h)
             /\ rule(Children(k)[i]) \in Statements => NodesOf(Children(k))[i] \in Kind(h, rule(Children(k)[i]))
             /\ isStatement(Children(k)[i]) => NodesOf(Children(k))[i] \in Placed(h)
  BY <1>2, ChildNodes
<1> QED
  BY <1>2, <1>3

(* A statement whose parts are its children.                               *)
LEMMA PlainStatement ==
  ASSUME WalkInv, NEW k \in Nat, k <= Len(open), NEW r \in Statements,
         ExitRule(r, Children(k), NodesOf(Children(k))),
         \/ /\ r \in {"expressionStatement", "declare", "return", "assign"}
            /\ r = "declare" => k = 1
            /\ r = "assign" => k = 2
            /\ \A i \in 1..k : rule(Children(k)[i]) \in Expressions
         \/ r = "break"
         \/ r = "block" /\ \A i \in 1..k : isStatement(Children(k)[i])
         \/ r = "function" /\ k = 1 /\ rule(Children(k)[1]) = "block"
         \/ r = "class" /\ \A i \in 1..k : rule(Children(k)[i]) = "function"
         \/ /\ r = "while" /\ k = 2
            /\ rule(Children(k)[1]) \in Expressions /\ rule(Children(k)[2]) = "block"
  PROVE  WalkInv'
<1> DEFINE e == NodesOf(Children(k))
           h == Append(nodes, Object(r, e, 0))
<1>1. e \in Seq(Nat) /\ DOMAIN e = 1..k /\ Len(e) = k
  BY ChildNodes, ChildrenFacts DEF WalkInv
<1>2. /\ h[new].kind = r /\ h[new].parts = e
      /\ \A i \in 1..k :
           /\ rule(Children(k)[i]) \in Expressions => e[i] \in Exprs(h)
           /\ rule(Children(k)[i]) \in Statements => e[i] \in Kind(h, rule(Children(k)[i]))
           /\ isStatement(Children(k)[i]) => e[i] \in Placed(h)
  <2>1. HasOneMore(h, r, e, 0)
    <3>1. WellBuilt(nodes) /\ r \in Expressions \cup Statements /\ 0 \in Nat
      BY DEF WalkInv, Walked
    <3> HIDE DEF e
    <3> QED
      BY <1>1, <3>1, OneMore
  <2> HIDE DEF h
  <2>2. \A i \in 1..k :
           /\ rule(Children(k)[i]) \in Expressions => NodesOf(Children(k))[i] \in Exprs(h)
           /\ rule(Children(k)[i]) \in Statements => NodesOf(Children(k))[i] \in Kind(h, rule(Children(k)[i]))
           /\ isStatement(Children(k)[i]) => NodesOf(Children(k))[i] \in Placed(h)
    <3> HIDE DEF e
    <3> QED
      BY <1>1, <2>1, StatementParts
  <2> QED
    BY <2>1, <2>2 DEF HasOneMore
<1>3. "block" \in Statements /\ "function" \in Statements
  BY DEF Statements
<1>4. StatementFits(h, new)
  <2> HIDE DEF e, h
  <2>1. CASE r \in {"expressionStatement", "declare", "return", "assign"}
    BY <2>1, <1>1, <1>2 DEF StatementFits, PartsIn
  <2>2. CASE r \in {"break", "block"}
    BY <2>2, <1>1, <1>2 DEF StatementFits, PartsIn
  <2>3. CASE r \in {"function", "class"}
    BY <2>3, <1>1, <1>2, <1>3 DEF StatementFits, PartsIn
  <2>4. CASE r = "while"
    BY <2>4, <1>1, <1>2, <1>3 DEF StatementFits
  <2> QED
    BY <2>1, <2>2, <2>3, <2>4
<1> QED
  BY <1>1, <1>4, StatementExits

LEMMA ExitStatements ==
  ASSUME WalkInv,
         \/ ExitExpressionOrDeclareOrReturn \/ ExitAssignStatement \/ ExitBreakStatement
         \/ ExitBlockStatement \/ ExitWhileStatement \/ ExitFunctionStatement \/ ExitClassStatement
  PROVE  WalkInv'
<1>1. open \in Seq(Nat) /\ Len(open) \in Nat
  BY DEF WalkInv, Walked
<1>2. {"expressionStatement", "declare", "return", "assign", "break", "block", "while", "function", "class"}
        \subseteq Statements
  BY DEF Statements
<1>3. \A k \in Nat : k <= Len(open) =>
        /\ DOMAIN Children(k) = 1..k
        /\ areExpressions(Children(k)) => \A i \in 1..k : rule(Children(k)[i]) \in Expressions
  <2> SUFFICES ASSUME NEW k \in Nat, k <= Len(open) PROVE DOMAIN Children(k) = 1..k
    BY DEF areExpressions
  <2>1. Children(k) \in Seq(Nat) /\ Len(Children(k)) = k
    BY ChildrenFacts DEF WalkInv
  <2> QED
    BY <2>1
<1>4. CASE ExitExpressionOrDeclareOrReturn
  <2>1. PICK r \in {"expressionStatement", "declare", "return"} :
          open # <<>> /\ areExpressions(Children(1)) /\ ExitRule(r, Children(1), NodesOf(Children(1)))
    BY <1>4 DEF ExitExpressionOrDeclareOrReturn
  <2>2. 1 \in Nat /\ 1 <= Len(open)
    BY <1>1, <2>1
  <2> QED
    BY <1>2, <1>3, <2>1, <2>2, PlainStatement
<1>5. CASE ExitAssignStatement
  <2>1. Len(open) > 1 /\ areExpressions(Children(2)) /\ ExitRule("assign", Children(2), NodesOf(Children(2)))
    BY <1>5 DEF ExitAssignStatement
  <2>2. 2 \in Nat /\ 2 <= Len(open)
    BY <1>1, <2>1
  <2> QED
    BY <1>2, <1>3, <2>1, <2>2, PlainStatement
<1>6. CASE ExitBreakStatement
  <2>1. ExitRule("break", <<>>, <<>>)
    BY <1>6 DEF ExitBreakStatement
  <2>2. Children(0) = <<>> /\ NodesOf(Children(0)) = <<>>
    <3>1. Children(0) \in Seq(Nat) /\ Len(Children(0)) = 0 /\ NodesOf(Children(0)) \in Seq(Nat) /\ Len(NodesOf(Children(0))) = 0
      BY <1>1, ChildNodes, ChildrenFacts DEF WalkInv
    <3> QED
      BY <3>1
  <2>3. 0 \in Nat /\ 0 <= Len(open)
    BY <1>1
  <2> QED
    BY <1>2, <2>1, <2>2, <2>3, PlainStatement
<1>7. CASE ExitBlockStatement
  <2>1. PICK n \in 0..Len(open) :
          /\ \A i \in DOMAIN Children(n) : isStatement(Children(n)[i])
          /\ ExitRule("block", Children(n), NodesOf(Children(n)))
    BY <1>7 DEF ExitBlockStatement
  <2>2. n \in Nat /\ n <= Len(open)
    BY <1>1
  <2> QED
    BY <1>2, <1>3, <2>1, <2>2, PlainStatement
<1>8. CASE ExitWhileStatement
  <2>1. /\ Len(open) > 1 /\ rule(Children(2)[1]) \in Expressions /\ rule(Children(2)[2]) = "block"
        /\ ExitRule("while", Children(2), NodesOf(Children(2)))
    BY <1>8 DEF ExitWhileStatement, isBlock
  <2>2. 2 \in Nat /\ 2 <= Len(open)
    BY <1>1, <2>1
  <2> QED
    BY <1>2, <2>1, <2>2, PlainStatement
<1>9. CASE ExitFunctionStatement
  <2>1. open # <<>> /\ rule(Last(open)) = "block" /\ ExitRule("function", Children(1), NodesOf(Children(1)))
    BY <1>9 DEF ExitFunctionStatement, isBlock
  <2>2. 1 \in Nat /\ 1 <= Len(open)
    BY <1>1, <2>1
  <2>3. Children(1)[1] = Last(open)
    <3>1. Children(1)[1] = open[Len(open) - 1 + 1] /\ Len(open) - 1 + 1 = Len(open)
      BY <1>1, <2>2, ChildrenFacts DEF WalkInv
    <3> QED
      BY <3>1 DEF Last
  <2> QED
    BY <1>2, <2>1, <2>2, <2>3, PlainStatement
<1>10. CASE ExitClassStatement
  <2>1. PICK n \in 0..Len(open) :
          /\ \A i \in DOMAIN Children(n) : rule(Children(n)[i]) = "function" /\ ~isStatement(Children(n)[i])
          /\ ExitRule("class", Children(n), NodesOf(Children(n)))
    BY <1>10 DEF ExitClassStatement
  <2>2. n \in Nat /\ n <= Len(open)
    BY <1>1
  <2> QED
    BY <1>2, <1>3, <2>1, <2>2, PlainStatement
<1> QED
  BY <1>4, <1>5, <1>6, <1>7, <1>8, <1>9, <1>10


LEMMA ExitIf ==
  ASSUME WalkInv, ExitIfStatement
  PROVE  WalkInv'
<1>1. PICK n \in 2..3 :
        /\ Len(open) >= n
        /\ rule(Children(n)[1]) \in Expressions /\ isBlock(Children(n)[2])
        /\ n = 3 => isBlock(Children(n)[3]) \/ isElseIf(Children(n)[3])
        /\ ExitRule("if", Children(n),
             NodesOf(IF n = 3 /\ isBlock(Children(n)[3])
                     THEN <<Children(n)[1], Children(n)[2], Children(n)[2]>> ELSE Children(n)))
  BY DEF ExitIfStatement
<1> DEFINE p == Children(n)
           q == IF n = 3 /\ isBlock(p[3]) THEN <<p[1], p[2], p[2]>> ELSE p
           e == NodesOf(p)
           f == NodesOf(q)
           h == Append(nodes, Object("if", f, 0))
<1>2. n \in Nat /\ n <= Len(open) /\ (n = 2 \/ n = 3) /\ "if" \in Statements /\ "block" \in Statements
  <2>1. Len(open) \in Nat
    BY DEF WalkInv, Walked
  <2> QED
    BY <1>1, <2>1 DEF Statements
<1>3. p \in Seq(Nat) /\ Len(p) = n /\ e \in Seq(Nat) /\ Len(e) = n /\ \A i \in 1..n : e[i] = astNodes[p[i]]
  BY <1>2, ChildrenFacts, ChildNodes DEF WalkInv
<1>4. f \in Seq(Nat) /\ Len(f) = n /\ f[1] = e[1] /\ f[2] = e[2] /\ (n = 3 => f[3] \in {e[2], e[3]})
  <2>1. CASE n = 3 /\ isBlock(p[3])
    <3>1. q = <<p[1], p[2], p[2]>>
      BY <2>1
    <3>2. f = [i \in 1..3 |-> astNodes[q[i]]]
      BY <3>1 DEF NodesOf
    <3>3. f[1] = astNodes[p[1]] /\ f[2] = astNodes[p[2]] /\ f[3] = astNodes[p[2]]
      BY <3>1, <3>2
    <3>4. e[1] = astNodes[p[1]] /\ e[2] = astNodes[p[2]] /\ e[1] \in Nat /\ e[2] \in Nat
      BY <1>3, <2>1
    <3> HIDE DEF f, e, p, q
    <3>5. f = [i \in 1..3 |-> f[i]] /\ \A i \in 1..3 : f[i] \in Nat
      BY <3>2, <3>3, <3>4
    <3>6. f \in Seq(Nat) /\ Len(f) = 3
      BY <3>5
    <3> QED
      BY <2>1, <3>3, <3>4, <3>6
  <2>2. CASE ~(n = 3 /\ isBlock(p[3]))
    <3>1. f = e
      BY <2>2
    <3> HIDE DEF f, e
    <3> QED
      BY <1>3, <3>1
  <2> QED
    BY <2>1, <2>2
<1>5. HasOneMore(h, "if", f, 0)
  <2>1. WellBuilt(nodes) /\ "if" \in Expressions \cup Statements /\ 0 \in Nat
    BY <1>2 DEF WalkInv, Walked
  <2> HIDE DEF f
  <2> QED
    BY <1>4, <2>1, OneMore
<1>6. \A i \in 1..n :
        /\ rule(p[i]) \in Expressions => e[i] \in Exprs(h)
        /\ rule(p[i]) \in Statements => e[i] \in Kind(h, rule(p[i]))
  <2> HIDE DEF h, f
  <2> QED
    BY <1>2, <1>4, <1>5, StatementParts
<1>7. e[1] \in Exprs(h) /\ e[2] \in Kind(h, "block") /\ (n = 3 => e[3] \in Kind(h, "block") \cup Kind(h, "if"))
  <2> HIDE DEF h, e
  <2> QED
    BY <1>1, <1>2, <1>6 DEF isBlock, isElseIf
<1>8. StatementFits(h, new)
  <2> HIDE DEF h, e, f
  <2>1. h[new].kind = "if" /\ h[new].parts = f
    BY <1>5 DEF HasOneMore
  <2> QED
    BY <1>2, <1>4, <1>7, <2>1 DEF StatementFits
<1> QED
  <2>1. ExitRule("if", p, f)
    BY <1>1
  <2> HIDE DEF f
  <2> QED
    BY <1>2, <1>4, <1>8, <2>1, StatementExits

(* A node is given a range.                                                *)
HasRange(h, a, c) ==
  /\ WellBuilt(h) /\ Len(h) = Len(nodes) /\ DOMAIN h = Nodes
  /\ \A n \in Nodes : h[n].kind = nodes[n].kind /\ h[n].parts = nodes[n].parts
  /\ \A n \in Nodes : n # a => h[n].range = nodes[n].range
  /\ h[a].range = c
LEMMA RangeSet ==
  ASSUME WellBuilt(nodes), NEW a \in Nodes, NEW c \in Nat, c # 0
  PROVE  HasRange([nodes EXCEPT ![a].range = c], a, c)
<1> DEFINE h == [nodes EXCEPT ![a].range = c]
<1>1. nodes \in Seq(AnyNode) /\ DOMAIN nodes = Nodes
  BY DEF WellBuilt, Nodes
<1>2. /\ h \in Seq(AnyNode) /\ Len(h) = Len(nodes) /\ DOMAIN h = Nodes
      /\ \A n \in Nodes : h[n].kind = nodes[n].kind /\ h[n].parts = nodes[n].parts
      /\ \A n \in Nodes : n # a => h[n].range = nodes[n].range
      /\ h[a].range = c
  <2>1. nodes[a] \in AnyNode
    BY <1>1
  <2>2. [nodes[a] EXCEPT !.range = c] \in AnyNode
    BY <2>1 DEF AnyNode
  <2>3. h = [nodes EXCEPT ![a] = [nodes[a] EXCEPT !.range = c]]
    OBVIOUS
  <2>4. \A n \in Nodes : nodes[n] \in AnyNode
    BY <1>1
  <2> HIDE DEF h
  <2>5. h \in Seq(AnyNode) /\ Len(h) = Len(nodes) /\ DOMAIN h = Nodes
    BY <1>1, <2>2, <2>3
  <2>6. \A n \in Nodes : h[n] = IF n = a THEN [nodes[a] EXCEPT !.range = c] ELSE nodes[n]
    BY <1>1, <2>3
  <2> QED
    BY <2>1, <2>5, <2>6 DEF AnyNode
<1> HIDE DEF h
<1>3. WellBuilt(h)
  <2>1. Succeeds(nodes, h)
    BY <1>1, <1>2 DEF Succeeds
  <2> QED
    BY <2>1, <1>1, <1>2, BuiltOn
<1> QED
  BY <1>2, <1>3 DEF h, HasRange

(* The range of a statement is that of its context.                        *)
LEMMA ExitPlaces ==
  ASSUME WalkInv, ExitStatement
  PROVE  WalkInv'
<1> DEFINE c == Last(open)
           a == astNodes[c]
           h == [nodes EXCEPT ![a].range = c]
<1>1. /\ nodes' = h /\ contexts' = contexts /\ astNodes' = astNodes /\ open' = open
      /\ open # <<>> /\ rule(c) \in Statements
  BY DEF ExitStatement
<1>2. c \in DOMAIN contexts /\ c \in Nat /\ c # 0
  <2>1. open \in Seq(Nat) /\ Len(open) \in DOMAIN open
    BY <1>1 DEF WalkInv, Walked
  <2>2. c = open[Len(open)]
    BY DEF Last
  <2> QED
    BY <2>1, <2>2 DEF WalkInv, Walked
<1>3. a \in Nodes /\ kind(a) \in Statements /\ \A d \in DOMAIN contexts : astNodes[d] = a => d = c
  BY <1>1, <1>2 DEF WalkInv, NodeOfContext
<1>4. WellBuilt(nodes) /\ nodes \in Seq(AnyNode) /\ DOMAIN nodes = Nodes
  BY DEF WalkInv, Walked, WellBuilt, Nodes
<1>5. HasRange(h, a, c)
  <2> HIDE DEF a, c
  <2> QED
    BY <1>2, <1>3, <1>4, RangeSet
<1> HIDE DEF h, a, c
<1>6. /\ WellBuilt(h) /\ DOMAIN h = Nodes /\ h[a].range = c
      /\ \A n \in Nodes : h[n].kind = nodes[n].kind /\ h[n].parts = nodes[n].parts
      /\ \A n \in Nodes : n # a => h[n].range = nodes[n].range
  BY <1>5 DEF HasRange
<1>7. Walked'
  BY <1>1, <1>6 DEF WalkInv, Walked
<1>8. NodeOfContext'
  <2>1. \A d \in DOMAIN contexts : astNodes[d] \in Nodes /\ h[astNodes[d]].kind = nodes[astNodes[d]].kind
    BY <1>6 DEF WalkInv, NodeOfContext
  <2> SUFFICES ASSUME NEW d \in DOMAIN contexts
      PROVE /\ astNodes[d] \in DOMAIN h
            /\ contexts[d].rule \in Expressions <=> h[astNodes[d]].kind \in Expressions
            /\ contexts[d].rule \in Statements => h[astNodes[d]].kind = contexts[d].rule
            /\ contexts[d].rule \in Statements =>
                  \A d2 \in DOMAIN contexts : astNodes[d2] = astNodes[d] => d2 = d
    BY <1>1 DEF NodeOfContext, Nodes, kind, rule
  <2> QED
    BY <2>1, <1>6 DEF WalkInv, NodeOfContext, rule, kind
<1>9. RangeIsLast'
  <2> SUFFICES ASSUME NEW n \in Nodes
      PROVE \/ /\ h[n].range = 0
               /\ h[n].kind \in Statements \/ \A d \in DOMAIN contexts : astNodes[d] # n
            \/ isLastOf(h[n].range, n)
    BY <1>1, <1>6 DEF RangeIsLast, Nodes, kind, isLastOf
  <2>1. CASE n = a
    <3>1. astNodes[c] = a
      BY DEF a
    <3> QED
      BY <2>1, <3>1, <1>2, <1>3, <1>6 DEF isLastOf
  <2>2. CASE n # a
    BY <2>2, <1>6 DEF WalkInv, RangeIsLast, kind
  <2> QED
    BY <2>1, <2>2
<1>10. TernaryTrees'
  <2> SUFFICES ASSUME NEW d \in DOMAIN contexts, rule(d) = "ternary"
      PROVE /\ Len(NodesOf(contexts[d].parts)) >= 3
            /\ \E n \in Nat : Len(NodesOf(contexts[d].parts)) = 2 * n + 1
            /\ Nesting(h, astNodes[d], NodesOf(contexts[d].parts))
    BY <1>1 DEF TernaryTrees, rule, NodesOf
  <2>1. /\ Len(NodesOf(contexts[d].parts)) >= 3
        /\ \E n \in Nat : Len(NodesOf(contexts[d].parts)) = 2 * n + 1
        /\ Nesting(nodes, astNodes[d], NodesOf(contexts[d].parts))
    BY DEF WalkInv, TernaryTrees
  <2>2. DOMAIN nodes \subseteq DOMAIN h
        /\ \A n \in DOMAIN nodes : h[n].kind = nodes[n].kind /\ (h[n].kind # "binary" => h[n].parts = nodes[n].parts)
    BY <1>4, <1>6
  <2> QED
    BY <2>1, <2>2, NestingKept
<1> QED
  BY <1>7, <1>8, <1>9, <1>10 DEF WalkInv


LEMMA ExpressionExits ==
  ASSUME WalkInv, NEW k \in Nat, k <= Len(open), NEW r \in Expressions \ {"ternary"}, NEW exprs \in Seq(Nat),
         Exit(r, Children(k), Append(nodes, Object(r, exprs, Here)), new),
         Fits(Append(nodes, Object(r, exprs, Here)), new)
  PROVE  WalkInv'
<1> DEFINE h == Append(nodes, Object(r, exprs, Here))
<1>1. WellBuilt(nodes) /\ Here \in Nat
  BY DEF WalkInv, Walked, Here
<1>2. HasOneMore(h, r, exprs, Here)
  BY <1>1, OneMore
<1> HIDE DEF h
<1>3. Fits(h, new)
  BY DEF h
<1>4. Len(nodes) <= Len(h)
  BY <1>1, <1>2 DEF HasOneMore, new, WellBuilt
<1>5. Made(h, new, r, NodesOf(Children(k)))
  BY <1>2, <1>3, <1>4, Kinds DEF Made, HasOneMore
<1> QED
  BY <1>5, ExitKeeps DEF h

LEMMA ExitSimple ==
  ASSUME WalkInv, ExitIdentifier \/ ExitPrefixExpression
  PROVE  WalkInv'
<1>1. open \in Seq(Nat) /\ Len(open) \in Nat /\ WellBuilt(nodes) /\ Here \in Nat
  BY DEF WalkInv, Walked, Here
<1>2. CASE ExitIdentifier
  <2> DEFINE h == Append(nodes, Object("identifier", <<>>, Here))
  <2>1. Children(0) = <<>>
    <3>1. Children(0) \in Seq(Nat) /\ Len(Children(0)) = 0
      BY <1>1, ChildrenFacts DEF WalkInv
    <3> QED
      BY <3>1
  <2>2. "identifier" \in Expressions \ {"ternary"} /\ <<>> \in Seq(Nat) /\ 0 \in Nat /\ 0 <= Len(open)
    BY <1>1, Kinds
  <2>3. Exit("identifier", Children(0), h, new)
    BY <1>2, <2>1 DEF ExitIdentifier
  <2>4. HasOneMore(h, "identifier", <<>>, Here)
    BY <1>1, <2>2, OneMore
  <2>5. h[new].kind = "identifier" /\ DOMAIN h[new].parts = {}
    BY <2>4 DEF HasOneMore
  <2>6. Fits(h, new)
    <3> HIDE DEF h
    <3> QED
      BY <2>5, Kinds DEF Fits, ExpressionFits, StatementFits, PartsIn
  <2> QED
    BY <2>2, <2>3, <2>6, ExpressionExits
<1>3. CASE ExitPrefixExpression
  <2> DEFINE e == NodesOf(Children(1))
             h == Append(nodes, Object("prefix", e, Here))
  <2>1. /\ open # <<>> /\ areExpressions(Children(1))
        /\ Exit("prefix", Children(1), h, new)
    BY <1>3 DEF ExitPrefixExpression
  <2>2. "prefix" \in Expressions \ {"ternary"} /\ 1 \in Nat /\ 1 <= Len(open)
    BY <1>1, <2>1, Kinds
  <2>3. e \in Seq(Nat) /\ Len(e) = 1 /\ e[1] \in Exprs(nodes)
    <3>1. Children(1) \in Seq(Nat) /\ Len(Children(1)) = 1
      BY <2>2, ChildrenFacts DEF WalkInv
    <3>2. rule(Children(1)[1]) \in Expressions
      BY <2>1, <3>1 DEF areExpressions
    <3>3. Len(e) = 1
      BY <2>2, ChildrenFacts DEF WalkInv
    <3>4. e \in Seq(Nat) /\ e[1] \in Exprs(nodes)
      BY <2>2, <3>2, ChildNodes
    <3> QED
      BY <3>3, <3>4
  <2> HIDE DEF e
  <2>4. HasOneMore(h, "prefix", e, Here)
    BY <1>1, <2>2, <2>3, OneMore
  <2> HIDE DEF h
  <2>5. h[new].kind = "prefix" /\ h[new].parts = e /\ e[1] \in Exprs(h)
    BY <2>3, <2>4 DEF HasOneMore
  <2>6. Fits(h, new)
    BY <2>3, <2>5, Kinds DEF Fits, ExpressionFits, StatementFits, PartsIn
  <2> QED
    BY <2>1, <2>2, <2>3, <2>6, ExpressionExits DEF h
<1> QED
  BY <1>2, <1>3

LEMMA ExitParentheses ==
  ASSUME WalkInv, ExitParenthesesExpression
  PROVE  WalkInv'
<1> DEFINE a == NodesOf(Children(1))[1]
           h == [nodes EXCEPT ![a].range = Here]
<1>1. /\ open # <<>> /\ areExpressions(Children(1))
      /\ Exit("parentheses", Children(1), h, a)
  BY DEF ExitParenthesesExpression
<1>2. open \in Seq(Nat) /\ Len(open) \in Nat /\ WellBuilt(nodes) /\ Here \in Nat /\ Here # 0
  BY DEF WalkInv, Walked, Here
<1>3. "parentheses" \in Expressions \ {"ternary"} /\ 1 \in Nat /\ 1 <= Len(open)
  BY <1>1, <1>2, Kinds
<1>4. a \in Exprs(nodes)
  <2>1. Children(1) \in Seq(Nat) /\ Len(Children(1)) = 1
    BY <1>3, ChildrenFacts DEF WalkInv
  <2>2. rule(Children(1)[1]) \in Expressions
    BY <1>1, <2>1 DEF areExpressions
  <2> QED
    BY <1>3, <2>2, ChildNodes
<1> HIDE DEF a
<1>5. HasRange(h, a, Here)
  BY <1>2, <1>4, RangeSet DEF Exprs, Nodes
<1> HIDE DEF h
<1>6. Made(h, a, "parentheses", NodesOf(Children(1)))
  <2>1. Len(nodes) <= Len(h) /\ h[a].kind \in Expressions /\ a \in Nodes
    BY <1>2, <1>4, <1>5 DEF HasRange, Exprs, WellBuilt, Nodes
  <2> QED
    BY <1>3, <1>5, <2>1, Kinds DEF HasRange, Made
<1> QED
  BY <1>1, <1>3, <1>6, ExitKeeps


(* The arguments of the calls of a chain are counted on.                   *)
LEMMA ArgumentsFacts ==
  ASSUME NEW n \in Nat, NEW links \in [1..n -> Links]
  PROVE  \A i \in 0..n : /\ arguments(links, i) \in Nat
                         /\ arguments(links, i) <= arguments(links, n)
                         /\ i > 0 /\ links[i] = "callWith" => arguments(links, i) >= 1
<1> DEFINE A(i) == {j \in 1..i : links[j] = "callWith"}
<1>1. \A i \in 0..n : IsFiniteSet(A(i)) /\ Cardinality(A(i)) \in Nat
  <2> SUFFICES ASSUME NEW i \in 0..n PROVE IsFiniteSet(A(i)) /\ Cardinality(A(i)) \in Nat
    OBVIOUS
  <2>1. IsFiniteSet(1..i)
    BY FS_Interval
  <2>2. IsFiniteSet(A(i))
    BY <2>1, FS_Subset
  <2> QED
    BY <2>2, FS_CardinalityType
<1> SUFFICES ASSUME NEW i \in 0..n
    PROVE /\ Cardinality(A(i)) \in Nat /\ Cardinality(A(i)) <= Cardinality(A(n))
          /\ i > 0 /\ links[i] = "callWith" => Cardinality(A(i)) >= 1
  BY DEF arguments
<1>2. Cardinality(A(i)) <= Cardinality(A(n))
  <2>1. A(i) \subseteq A(n)
    OBVIOUS
  <2>2. IsFiniteSet(A(n))
    BY <1>1
  <2> HIDE DEF A
  <2> QED
    BY <2>1, <2>2, FS_Subset
<1>3. i > 0 /\ links[i] = "callWith" => Cardinality(A(i)) >= 1
  <2>1. i > 0 /\ links[i] = "callWith" => i \in A(i)
    OBVIOUS
  <2> HIDE DEF A
  <2>2. IsFiniteSet(A(i)) /\ Cardinality(A(i)) \in Nat
    BY <1>1
  <2>3. A(i) # {} => Cardinality(A(i)) # 0
    BY <2>2, FS_EmptySet
  <2> QED
    BY <2>1, <2>2, <2>3
<1> QED
  BY <1>1, <1>2, <1>3


LEMMA ExitLinks ==
  ASSUME WalkInv, ExitCallOrMemberExpression
  PROVE  WalkInv'
<1>0. PICK n \in 1..source.chain : \E links \in [1..n -> Links] :
        LET parts == Children(1 + arguments(links, n))
            made == LinkNodes(links, NodesOf(parts))
        IN  /\ Len(open) > arguments(links, n)
            /\ areExpressions(parts)
            /\ Exit(made[n].kind, parts, nodes \o made, new + n - 1)
  BY DEF ExitCallOrMemberExpression
<1>1. PICK links \in [1..n -> Links] :
        LET parts == Children(1 + arguments(links, n))
            made == LinkNodes(links, NodesOf(parts))
        IN  /\ Len(open) > arguments(links, n)
            /\ areExpressions(parts)
            /\ Exit(made[n].kind, parts, nodes \o made, new + n - 1)
  BY <1>0
<1> DEFINE k == 1 + arguments(links, n)
           e == NodesOf(Children(k))
           made == LinkNodes(links, e)
           h == nodes \o made
           ast == new + n - 1
<1>2. /\ Len(open) > arguments(links, n)
      /\ areExpressions(Children(k))
      /\ Exit(made[n].kind, Children(k), h, ast)
  BY <1>1
<1>3. /\ n \in Nat /\ n >= 1 /\ DOMAIN links = 1..n
      /\ \A i \in 1..n : links[i] \in Links
  OBVIOUS
<1>4. /\ \A i \in 0..n : arguments(links, i) \in Nat /\ arguments(links, i) <= arguments(links, n)
      /\ \A i \in 1..n : links[i] = "callWith" => arguments(links, i) >= 1
  BY <1>3, ArgumentsFacts
<1>5. k \in Nat /\ k >= 1 /\ k <= Len(open)
  <2>1. arguments(links, n) \in Nat /\ Len(open) \in Nat
    BY <1>3, <1>4 DEF WalkInv, Walked
  <2> QED
    BY <2>1, <1>2
<1> HIDE DEF k
<1>6. e \in Seq(Nat) /\ \A i \in 1..k : e[i] \in Exprs(nodes)
  <2>1. \A i \in 1..k : rule(Children(k)[i]) \in Expressions
    <3>1. Children(k) \in Seq(Nat) /\ Len(Children(k)) = k
      BY <1>5, ChildrenFacts DEF WalkInv
    <3> QED
      BY <1>2, <3>1 DEF areExpressions
  <2> QED
    BY <1>5, <2>1, ChildNodes
<1> HIDE DEF e
<1>7. /\ nodes \in Seq(AnyNode) /\ Len(nodes) \in Nat /\ Nodes = 1..Len(nodes) /\ new = Len(nodes) + 1
      /\ Here \in Nat /\ WellBuilt(nodes) /\ ast \in Nat /\ ast = Len(nodes) + n
  BY <1>3 DEF WalkInv, Walked, WellBuilt, Nodes, new, Here
<1> DEFINE first(i) == IF i = 1 THEN e[1] ELSE new + i - 2
           extra(i) == e[1 + arguments(links, i)]
<1>8. /\ DOMAIN made = 1..n
      /\ \A i \in 1..n :
           made[i] = Object(IF links[i] = "member" THEN "member" ELSE "call",
                            <<first(i)>> \o (IF links[i] = "callWith" THEN <<extra(i)>> ELSE <<>>),
                            IF i = n THEN Here ELSE 0)
  <2>1. Len(links) = n
    <3>1. links = [i \in 1..n |-> links[i]]
      OBVIOUS
    <3>2. links \in Seq(Links)
      BY <1>3, <3>1
    <3> QED
      BY <1>3, <3>2
  <2> QED
    BY <1>3, <2>1 DEF LinkNodes
<1>9. \A i \in 1..n : first(i) \in Nat /\ (links[i] = "callWith" => extra(i) \in Exprs(nodes))
  <2>1. \A i \in 1..n : links[i] = "callWith" => 1 + arguments(links, i) \in 1..k
    BY <1>3, <1>4 DEF k
  <2>2. e[1] \in Nat
    BY <1>5, <1>6, <1>7 DEF Exprs
  <2> QED
    BY <1>6, <1>7, <2>1, <2>2
<1>10. \A i \in 1..n : Exprs(nodes) \subseteq Nat
  BY <1>7 DEF Exprs, Nodes
<1>11. ASSUME NEW i \in 1..n
       PROVE  /\ made[i].kind = IF links[i] = "member" THEN "member" ELSE "call"
              /\ made[i].range = IF i = n THEN Here ELSE 0
              /\ made[i].parts \in Seq(Nat)
              /\ Len(made[i].parts) = IF links[i] = "callWith" THEN 2 ELSE 1
              /\ made[i].parts[1] = first(i)
              /\ links[i] = "callWith" => made[i].parts[2] \in Exprs(nodes)
              /\ made[i] \in AnyNode
  <2> DEFINE a == first(i)
             b == extra(i)
  <2>1. a \in Nat /\ (links[i] = "callWith" => b \in Exprs(nodes) /\ b \in Nat)
    BY <1>9, <1>10
  <2>2. made[i] = Object(IF links[i] = "member" THEN "member" ELSE "call",
                         <<a>> \o (IF links[i] = "callWith" THEN <<b>> ELSE <<>>),
                         IF i = n THEN Here ELSE 0)
    BY <1>8
  <2>3. a = first(i)
    OBVIOUS
  <2> HIDE DEF a, b, made, first
  <2> DEFINE q == <<a>> \o (IF links[i] = "callWith" THEN <<b>> ELSE <<>>)
  <2>4. /\ q \in Seq(Nat) /\ Len(q) = (IF links[i] = "callWith" THEN 2 ELSE 1) /\ q[1] = a
        /\ links[i] = "callWith" => q[2] = b
    <3>1. CASE links[i] = "callWith"
      BY <2>1, <3>1
    <3>2. CASE links[i] # "callWith"
      BY <2>1, <3>2
    <3> QED
      BY <3>1, <3>2
  <2> HIDE DEF q
  <2>5. made[i] = [kind |-> IF links[i] = "member" THEN "member" ELSE "call", op |-> 0, parts |-> q,
                   range |-> IF i = n THEN Here ELSE 0]
    BY <2>2 DEF Object, q
  <2>6. made[i] \in AnyNode
    BY <2>4, <2>5, <1>7, Kinds DEF AnyNode
  <2> QED
    BY <2>1, <2>3, <2>4, <2>5, <2>6
<1>12. made \in Seq(AnyNode) /\ Len(made) = n
  <2> HIDE DEF made
  <2>1. made = [i \in 1..n |-> made[i]]
    <3>1. made = [i \in DOMAIN made |-> made[i]]
      BY DEF made, LinkNodes
    <3> QED
      BY <1>8, <3>1
  <2> QED
    BY <1>3, <1>11, <2>1
<1> HIDE DEF made
<1>13. /\ h \in Seq(AnyNode) /\ Len(h) = Len(nodes) + n /\ DOMAIN h = 1..(Len(nodes) + n)
       /\ \A m \in Nodes : h[m] = nodes[m]
       /\ \A i \in 1..n : h[Len(nodes) + i] = made[i]
  BY <1>3, <1>7, <1>12
<1> HIDE DEF h
<1>14. Exprs(nodes) \subseteq Exprs(h)
  BY <1>3, <1>7, <1>13 DEF Exprs
<1>15. \A i \in 1..n : Len(nodes) + i \in Exprs(h)
  <2> SUFFICES ASSUME NEW i \in 1..n PROVE Len(nodes) + i \in Exprs(h)
    OBVIOUS
  <2>1. Len(nodes) + i \in DOMAIN h /\ h[Len(nodes) + i] = made[i]
    BY <1>3, <1>7, <1>13
  <2>2. made[i].kind \in Expressions
    BY <1>11, Kinds
  <2> QED
    BY <2>1, <2>2 DEF Exprs
<1>16. ASSUME NEW i \in 1..n PROVE Fits(h, Len(nodes) + i)
  <2>1. first(i) \in Exprs(h)
    <3>1. CASE i = 1
      BY <3>1, <1>5, <1>6, <1>14
    <3>2. CASE i # 1
      <4>1. i - 1 \in 1..n /\ first(i) = Len(nodes) + (i - 1)
        BY <3>2, <1>3, <1>7
      <4> QED
        BY <4>1, <1>15
    <3> QED
      BY <3>1, <3>2
  <2> HIDE DEF first
  <2>2. h[Len(nodes) + i] = made[i]
    BY <1>13
  <2>3. /\ made[i].kind = IF links[i] = "member" THEN "member" ELSE "call"
        /\ made[i].parts \in Seq(Nat)
        /\ Len(made[i].parts) = IF links[i] = "callWith" THEN 2 ELSE 1
        /\ \A j \in DOMAIN made[i].parts : made[i].parts[j] \in Exprs(h)
    <3>1. /\ made[i].parts \in Seq(Nat)
          /\ Len(made[i].parts) = IF links[i] = "callWith" THEN 2 ELSE 1
          /\ made[i].parts[1] \in Exprs(h)
          /\ links[i] = "callWith" => made[i].parts[2] \in Exprs(h)
      BY <1>11, <1>14, <2>1
    <3>2. /\ DOMAIN made[i].parts = 1..Len(made[i].parts)
          /\ made[i].kind = IF links[i] = "member" THEN "member" ELSE "call"
      BY <3>1, <1>11
    <3>3. CASE links[i] = "callWith"
      <4>1. \A j \in 1..2 : j = 1 \/ j = 2
        OBVIOUS
      <4> QED
        BY <3>1, <3>2, <3>3, <4>1
    <3>4. CASE links[i] # "callWith"
      <4>1. \A j \in 1..1 : j = 1
        OBVIOUS
      <4> QED
        BY <3>1, <3>2, <3>4, <4>1
    <3> QED
      BY <3>3, <3>4
  <2> QED
    BY <2>2, <2>3, Kinds DEF Fits, ExpressionFits, StatementFits, PartsIn
<1>17. WellBuilt(h)
  <2>1. Succeeds(nodes, h)
    BY <1>3, <1>7, <1>13 DEF Succeeds
  <2>2. \A m \in DOMAIN nodes : h[m].parts = nodes[m].parts
    <3>1. \A m \in Nodes : h[m] = nodes[m]
      BY <1>13
    <3> QED
      BY <3>1 DEF Nodes
  <2>3. ASSUME NEW m \in DOMAIN h \ DOMAIN nodes PROVE Fits(h, m)
    <3>1. m - Len(nodes) \in 1..n /\ Len(nodes) + (m - Len(nodes)) = m
      BY <1>3, <1>7, <1>13
    <3> QED
      BY <3>1, <1>16
  <2> QED
    BY <2>1, <2>2, <2>3, <1>7, BuiltOn
<1>18. made[n].kind \in Expressions \ {"ternary"} /\ n \in 1..n
  BY <1>3, <1>11, Kinds
<1>19. Made(h, ast, made[n].kind, NodesOf(Children(k)))
  <2>1. \A m \in DOMAIN h \ Nodes : m - Len(nodes) \in 1..n /\ h[m] = made[m - Len(nodes)]
    <3> SUFFICES ASSUME NEW m \in DOMAIN h \ Nodes PROVE m - Len(nodes) \in 1..n /\ h[m] = made[m - Len(nodes)]
      OBVIOUS
    <3>1. m - Len(nodes) \in 1..n /\ Len(nodes) + (m - Len(nodes)) = m
      BY <1>3, <1>7, <1>13
    <3> QED
      BY <3>1, <1>13
  <2>2. \A m \in DOMAIN h \ Nodes : m # ast => h[m].range = 0
    <3> SUFFICES ASSUME NEW m \in DOMAIN h \ Nodes, m # ast PROVE h[m].range = 0
      OBVIOUS
    <3>1. m - Len(nodes) \in 1..n /\ h[m] = made[m - Len(nodes)]
      BY <2>1
    <3>2. m \in Nat /\ m # Len(nodes) + n
      BY <1>7, <1>13
    <3> DEFINE j == m - Len(nodes)
    <3>3. j # n
      BY <3>2, <1>3, <1>7
    <3>4. j \in 1..n /\ h[m] = made[j]
      BY <3>1
    <3> HIDE DEF j
    <3>5. made[j].range = IF j = n THEN Here ELSE 0
      BY <3>4, <1>11
    <3> QED
      BY <3>3, <3>4, <3>5
  <2>3. ast \in DOMAIN h /\ ast \notin Nodes /\ h[ast].range = Here /\ h[ast].kind = made[n].kind
    BY <1>3, <1>7, <1>11, <1>13, <1>18
  <2>4. Len(nodes) <= Len(h) /\ \A m \in Nodes : h[m] = nodes[m]
    BY <1>3, <1>7, <1>13
  <2> HIDE DEF ast
  <2> QED
    BY <1>17, <1>18, <2>2, <2>3, <2>4, Kinds DEF Made
<1> QED
  BY <1>2, <1>5, <1>18, <1>19, ExitKeeps


(* The chains are folded from the first operator, or body, to the last.    *)
FirstBinary(ops, exprs) == [kind |-> "binary", op |-> ops[1], parts |-> SubSeq(exprs, 1, 2), range |-> Here]
BinaryAt(ops, exprs, g, i) ==
  g[i] = IF i = 1 THEN Append(nodes, FirstBinary(ops, exprs))
         ELSE appendExpr(g[i - 1], new, ops[i], exprs[i + 1])
LEMMA BinaryEquation ==
  ASSUME NEW ops, NEW exprs, Len(ops) \in Nat, Len(ops) >= 1
  PROVE  \E g : /\ BinaryTree(ops, exprs) = g[Len(ops)]
                /\ \A i \in 1..Len(ops) : BinaryAt(ops, exprs, g, i)
<1> DEFINE N == Len(ops)
           Upto(m, g) == g = [i \in 1..m |-> g[i]] /\ \A i \in 1..m : BinaryAt(ops, exprs, g, i)
           S == {m \in 1..N : \E g : Upto(m, g)}
           Q(g) == g = [i \in 1..N |-> IF i = 1 THEN Append(nodes, FirstBinary(ops, exprs))
                                       ELSE appendExpr(g[i - 1], new, ops[i], exprs[i + 1])]
           c == CHOOSE g : Q(g)
<1>0. N \in Nat /\ N >= 1 /\ 1 \in 1..N
  OBVIOUS
<1>1. 1 \in S
  <2>1. Upto(1, [i \in 1..1 |-> Append(nodes, FirstBinary(ops, exprs))])
    BY DEF BinaryAt
  <2> HIDE DEF Upto
  <2> QED
    BY <2>1, <1>0
<1>2. ASSUME NEW m \in 1..N, m \in S, m < N PROVE m + 1 \in S
  <2>1. PICK g : Upto(m, g)
    BY <1>2
  <2> DEFINE x == appendExpr(g[m], new, ops[m + 1], exprs[m + 2])
             g1 == [i \in 1..(m + 1) |-> IF i <= m THEN g[i] ELSE x]
  <2>2. \A i \in 1..m : i \in 1..(m + 1) /\ g1[i] = g[i]
    OBVIOUS
  <2>3. g1[m + 1] = x /\ (m + 1) - 1 = m /\ (m + 1) + 1 = m + 2 /\ m \in 1..m /\ m + 1 # 1
    OBVIOUS
  <2>4. \A i \in 1..m : i # 1 => i - 1 \in 1..m
    OBVIOUS
  <2>5. \A i \in 1..(m + 1) : i \in 1..m \/ i = m + 1
    OBVIOUS
  <2>6. ASSUME NEW i \in 1..(m + 1) PROVE BinaryAt(ops, exprs, g1, i)
    <3> HIDE DEF g1
    <3>1. CASE i \in 1..m
      <4>1. BinaryAt(ops, exprs, g, i)
        BY <2>1, <3>1
      <4> QED
        BY <4>1, <2>2, <2>4, <3>1 DEF BinaryAt
    <3>2. CASE i = m + 1
      BY <2>2, <2>3, <3>2 DEF BinaryAt
    <3> QED
      BY <2>5, <3>1, <3>2
  <2>7. Upto(m + 1, g1)
    BY <2>6
  <2>8. m + 1 \in 1..N
    BY <1>2
  <2> HIDE DEF Upto, g1
  <2> QED
    BY <2>7, <2>8
<1>3. N \in S
  <2> HIDE DEF S, N
  <2>1. \A k \in 1..N : k \in S
    BY <1>0, <1>1, <1>2, CountingUp
  <2> QED
    BY <1>0, <2>1
<1>4. PICK g : Upto(N, g)
  BY <1>3
<1>5. Q(g)
  BY <1>4 DEF BinaryAt
<1>6. Q(c)
  BY <1>5
<1>7. BinaryTree(ops, exprs) = c[N]
  BY DEF BinaryTree, FirstBinary
<1> HIDE DEF c
<1>8. \A i \in 1..N : BinaryAt(ops, exprs, c, i)
  BY <1>6 DEF BinaryAt
<1> QED
  BY <1>7, <1>8

TernaryAt(exprs, g, i) ==
  g[i] = IF i = 1 THEN Append(nodes, Object("ternary", SubSeq(exprs, 1, 3), Here))
         ELSE addBody(g[i - 1], exprs[2 * i], exprs[2 * i + 1])
LEMMA TernaryEquation ==
  ASSUME NEW exprs, NEW N \in Nat, N >= 1, Len(exprs) = 2 * N + 1
  PROVE  \E g : /\ TernaryTree(exprs) = g[N]
                /\ \A i \in 1..N : TernaryAt(exprs, g, i)
<1> DEFINE Upto(m, g) == g = [i \in 1..m |-> g[i]] /\ \A i \in 1..m : TernaryAt(exprs, g, i)
           S == {m \in 1..N : \E g : Upto(m, g)}
           Q(g) == g = [i \in 1..N |-> IF i = 1 THEN Append(nodes, Object("ternary", SubSeq(exprs, 1, 3), Here))
                                       ELSE addBody(g[i - 1], exprs[2 * i], exprs[2 * i + 1])]
           c == CHOOSE g : Q(g)
<1>0. N \in Nat /\ N >= 1 /\ 1 \in 1..N
  OBVIOUS
<1>1. 1 \in S
  <2>1. Upto(1, [i \in 1..1 |-> Append(nodes, Object("ternary", SubSeq(exprs, 1, 3), Here))])
    BY DEF TernaryAt
  <2> HIDE DEF Upto
  <2> QED
    BY <2>1, <1>0
<1>2. ASSUME NEW m \in 1..N, m \in S, m < N PROVE m + 1 \in S
  <2>1. PICK g : Upto(m, g)
    BY <1>2
  <2> DEFINE x == addBody(g[m], exprs[2 * (m + 1)], exprs[2 * (m + 1) + 1])
             g1 == [i \in 1..(m + 1) |-> IF i <= m THEN g[i] ELSE x]
  <2>2. \A i \in 1..m : i \in 1..(m + 1) /\ g1[i] = g[i]
    OBVIOUS
  <2>3. g1[m + 1] = x /\ (m + 1) - 1 = m /\ m \in 1..m /\ m + 1 # 1
    OBVIOUS
  <2>4. \A i \in 1..m : i # 1 => i - 1 \in 1..m
    OBVIOUS
  <2>5. \A i \in 1..(m + 1) : i \in 1..m \/ i = m + 1
    OBVIOUS
  <2>6. ASSUME NEW i \in 1..(m + 1) PROVE TernaryAt(exprs, g1, i)
    <3> HIDE DEF g1
    <3>1. CASE i \in 1..m
      <4>1. TernaryAt(exprs, g, i)
        BY <2>1, <3>1
      <4> QED
        BY <4>1, <2>2, <2>4, <3>1 DEF TernaryAt
    <3>2. CASE i = m + 1
      BY <2>2, <2>3, <3>2 DEF TernaryAt
    <3> QED
      BY <2>5, <3>1, <3>2
  <2>7. Upto(m + 1, g1)
    BY <2>6
  <2>8. m + 1 \in 1..N
    BY <1>2
  <2> HIDE DEF Upto, g1
  <2> QED
    BY <2>7, <2>8
<1>3. N \in S
  <2> HIDE DEF S
  <2>1. \A k \in 1..N : k \in S
    BY <1>0, <1>1, <1>2, CountingUp
  <2> QED
    BY <1>0, <2>1
<1>4. PICK g : Upto(N, g)
  BY <1>3
<1>5. Q(g)
  BY <1>4 DEF TernaryAt
<1>6. Q(c)
  BY <1>5
<1>7. TernaryTree(exprs) = c[N]
  <2>1. Len(exprs) \div 2 = N
    BY <1>0
  <2> QED
    BY <2>1 DEF TernaryTree
<1> HIDE DEF c
<1>8. \A i \in 1..N : TernaryAt(exprs, c, i)
  BY <1>6 DEF TernaryAt
<1> QED
  BY <1>7, <1>8


(* One node is another, and one is added.                                  *)
Rewritten(h, h1, t, a, b) ==
  /\ h1 \in Seq(AnyNode) /\ Len(h1) = Len(h) + 1
  /\ DOMAIN h1 = DOMAIN h \cup {Len(h) + 1} /\ Len(h) + 1 \notin DOMAIN h
  /\ \A n \in DOMAIN h \ {t} : h1[n] = h[n]
  /\ h1[t] = a /\ h1[Len(h) + 1] = b
LEMMA Rewriting ==
  ASSUME NEW h \in Seq(AnyNode), NEW t \in DOMAIN h, NEW a \in AnyNode, NEW b \in AnyNode
  PROVE  Rewritten(h, Append([h EXCEPT ![t] = a], b), t, a, b)
<1> DEFINE g == [h EXCEPT ![t] = a]
           h1 == Append(g, b)
<1>1. /\ g \in Seq(AnyNode) /\ Len(g) = Len(h) /\ g[t] = a /\ \A n \in DOMAIN h \ {t} : g[n] = h[n]
      /\ Len(h) \in Nat /\ DOMAIN h = 1..Len(h)
  OBVIOUS
<1> HIDE DEF g
<1>2. /\ h1 \in Seq(AnyNode) /\ Len(h1) = Len(g) + 1
      /\ \A n \in 1..Len(g) : h1[n] = g[n]
      /\ h1[Len(g) + 1] = b
  BY <1>1
<1> HIDE DEF h1
<1>3. Len(h) + 1 \notin DOMAIN h /\ DOMAIN h1 = DOMAIN h \cup {Len(h) + 1} /\ DOMAIN h = 1..Len(g)
  BY <1>1, <1>2
<1>4. Rewritten(h, h1, t, a, b)
  BY <1>1, <1>2, <1>3 DEF Rewritten
<1> QED
  BY <1>4 DEF h1, g

(* The right part of a binary node is a node.                              *)
LEMMA RightParts ==
  ASSUME NEW h, WellBuilt(h)
  PROVE  \A n \in Kind(h, "binary") : h[n].parts[2] \in DOMAIN h
<1> TAKE n \in Kind(h, "binary")
<1>1. n \in DOMAIN h /\ h[n].kind = "binary"
  BY DEF Kind
<1>2. Len(h[n].parts) = 2 /\ PartsIn(h, n, Exprs(h)) /\ h[n] \in AnyNode
  BY <1>1, Kinds DEF WellBuilt, Fits, ExpressionFits
<1>3. h[n].parts \in Seq(Nat)
  BY <1>2 DEF AnyNode
<1>4. 2 \in DOMAIN h[n].parts
  BY <1>2, <1>3
<1> QED
  BY <1>2, <1>4 DEF PartsIn, Exprs

(* The right spine from a node of D stays in D, if each step of it does.   *)
LEMMA SpineIn ==
  ASSUME NEW h, WellBuilt(h), NEW D, NEW this \in D \cap Kind(h, "binary"), NEW o,
         \A n \in D \cap Kind(h, "binary") : isBinary(h, h[n].parts[2]) => h[n].parts[2] \in D
  PROVE  appendsTo(h, this, o) \in D \cap Kind(h, "binary")
<1> DEFINE f == [n \in DOMAIN h |-> IF h[n].op <= o \/ ~isBinary(h, h[n].parts[2]) THEN n ELSE h[n].parts[2]]
<1>1. Len(h) \in Nat
  BY DEF WellBuilt
<1>2. ASSUME NEW n \in D \cap Kind(h, "binary") PROVE f[n] \in D \cap Kind(h, "binary")
  <2>1. n \in DOMAIN h
    BY DEF Kind
  <2>2. f[n] = IF h[n].op <= o \/ ~isBinary(h, h[n].parts[2]) THEN n ELSE h[n].parts[2]
    BY <2>1
  <2>3. h[n].parts[2] \in DOMAIN h
    BY RightParts
  <2> HIDE DEF f
  <2> QED
    BY <2>2, <2>3 DEF isBinary, Kind
<1>3. Iterate(f, this, Len(h)) \in D \cap Kind(h, "binary")
  <2> HIDE DEF f
  <2> QED
    BY <1>1, <1>2, IterateStays
<1> QED
  BY <1>3 DEF appendsTo

(* What one appendExpr does: the object it arrives at keeps its range; the *)
(* one it makes has none.                                                  *)
Appended(h, h1, t, right) ==
  LET made == Len(h) + 1
  IN  /\ t \in Kind(h, "binary")
      /\ h1 \in Seq(AnyNode) /\ Len(h1) = made /\ DOMAIN h1 = DOMAIN h \cup {made} /\ made \notin DOMAIN h
      /\ \A n \in DOMAIN h \ {t} : h1[n] = h[n]
      /\ h1[t].kind = "binary" /\ h1[t].range = h[t].range
      /\ h1[made].kind = "binary" /\ h1[made].range = 0
      /\ \/ h1[t].parts = <<made, right>> /\ h1[made].parts = h[t].parts
         \/ /\ h1[t].parts \in Seq(Nat) /\ Len(h1[t].parts) = 2
            /\ h1[t].parts[1] = h[t].parts[1] /\ h1[t].parts[2] = made
            /\ h1[made].parts = <<h[t].parts[2], right>>
LEMMA AppendExprFacts ==
  ASSUME NEW h, WellBuilt(h), NEW this \in Kind(h, "binary"), NEW o \in Priorities, NEW right \in Nat
  PROVE  Appended(h, appendExpr(h, this, o, right), appendsTo(h, this, o), right)
<1> DEFINE t == appendsTo(h, this, o)
           made == Len(h) + 1
<1>1. h \in Seq(AnyNode) /\ Len(h) \in Nat /\ DOMAIN h = 1..Len(h)
  BY DEF WellBuilt
<1>2. t \in Kind(h, "binary")
  <2>1. \A n \in Kind(h, "binary") : h[n].parts[2] \in DOMAIN h
    BY RightParts
  <2>2. Kind(h, "binary") \subseteq DOMAIN h
    BY DEF Kind
  <2>3. t \in DOMAIN h \cap Kind(h, "binary")
    BY <2>1, <2>2, SpineIn
  <2> QED
    BY <2>3
<1> HIDE DEF t
<1>3. /\ t \in DOMAIN h /\ h[t] \in AnyNode /\ h[t].kind = "binary" /\ h[t].parts \in Seq(Nat)
      /\ Len(h[t].parts) = 2 /\ h[t].parts[1] \in Nat /\ h[t].parts[2] \in Nat
  <2>1. t \in DOMAIN h /\ h[t] \in AnyNode /\ h[t].kind = "binary"
    BY <1>1, <1>2 DEF Kind
  <2>2. h[t].parts \in Seq(Nat)
    BY <2>1 DEF AnyNode
  <2>3. Len(h[t].parts) = 2
    BY <2>1 DEF WellBuilt, Fits, ExpressionFits
  <2> QED
    BY <2>1, <2>2, <2>3
<1> DEFINE x == [h[t] EXCEPT !.op = o, !.parts = <<made, right>>]
           y == [h[t] EXCEPT !.range = 0]
           u == [h[t] EXCEPT !.parts = [h[t].parts EXCEPT ![2] = made]]
           v == [h[t] EXCEPT !.op = o, !.parts = <<h[t].parts[2], right>>, !.range = 0]
<1>4. appendExpr(h, this, o, right) =
        IF h[t].op <= o THEN Append([h EXCEPT ![t] = x], y) ELSE Append([h EXCEPT ![t] = u], v)
  BY <1>3 DEF appendExpr, t
<1>5. made \in Nat
  BY <1>1
<1>6. /\ x \in AnyNode /\ x.kind = "binary" /\ x.range = h[t].range /\ x.parts = <<made, right>>
      /\ y \in AnyNode /\ y.kind = "binary" /\ y.range = 0 /\ y.parts = h[t].parts
  <2>1. <<made, right>> \in Seq(Nat) /\ o \in Priorities \cup {0}
    BY <1>5
  <2>2. x \in AnyNode /\ x.kind = "binary" /\ x.range = h[t].range /\ x.parts = <<made, right>>
    <3> DEFINE q == <<made, right>>
    <3>1. x = [h[t] EXCEPT !.op = o, !.parts = q] /\ q \in Seq(Nat)
      BY <2>1
    <3> HIDE DEF q, x
    <3>2. x \in AnyNode /\ x.kind = "binary" /\ x.range = h[t].range /\ x.parts = q
      BY <1>3, <2>1, <3>1 DEF AnyNode
    <3> QED
      BY <3>2 DEF q
  <2>3. y \in AnyNode /\ y.kind = "binary" /\ y.range = 0 /\ y.parts = h[t].parts
    BY <1>3 DEF AnyNode
  <2> QED
    BY <2>2, <2>3
<1>7. /\ u \in AnyNode /\ u.kind = "binary" /\ u.range = h[t].range
      /\ u.parts \in Seq(Nat) /\ Len(u.parts) = 2 /\ u.parts[1] = h[t].parts[1] /\ u.parts[2] = made
      /\ v \in AnyNode /\ v.kind = "binary" /\ v.range = 0 /\ v.parts = <<h[t].parts[2], right>>
  <2> DEFINE q == [h[t].parts EXCEPT ![2] = made]
  <2>1. q \in Seq(Nat) /\ Len(q) = 2 /\ q[1] = h[t].parts[1] /\ q[2] = made
    BY <1>3, <1>5
  <2> HIDE DEF q
  <2>2. u = [h[t] EXCEPT !.parts = q]
    BY DEF q
  <2> HIDE DEF u
  <2>3. u \in AnyNode /\ u.kind = "binary" /\ u.range = h[t].range /\ u.parts = q
    BY <1>3, <2>1, <2>2 DEF AnyNode
  <2>4. v \in AnyNode /\ v.kind = "binary" /\ v.range = 0 /\ v.parts = <<h[t].parts[2], right>>
    <3> DEFINE w == <<h[t].parts[2], right>>
    <3>1. v = [h[t] EXCEPT !.op = o, !.parts = w, !.range = 0] /\ w \in Seq(Nat) /\ o \in Priorities \cup {0}
      BY <1>3
    <3> HIDE DEF w, v
    <3>2. v \in AnyNode /\ v.kind = "binary" /\ v.range = 0 /\ v.parts = w
      BY <1>3, <3>1 DEF AnyNode
    <3> QED
      BY <3>2 DEF w
  <2> QED
    BY <2>1, <2>3, <2>4
<1> HIDE DEF x, y, u, v
<1>9. ASSUME h[t].op <= o PROVE Appended(h, appendExpr(h, this, o, right), t, right)
  <2>1. appendExpr(h, this, o, right) = Append([h EXCEPT ![t] = x], y)
    BY <1>4, <1>9
  <2>2. Rewritten(h, appendExpr(h, this, o, right), t, x, y)
    BY <1>1, <1>3, <1>6, <2>1, Rewriting
  <2> QED
    BY <1>2, <1>6, <2>2 DEF Appended, Rewritten
<1>10. ASSUME ~(h[t].op <= o) PROVE Appended(h, appendExpr(h, this, o, right), t, right)
  <2>1. appendExpr(h, this, o, right) = Append([h EXCEPT ![t] = u], v)
    BY <1>4, <1>10
  <2>2. Rewritten(h, appendExpr(h, this, o, right), t, u, v)
    BY <1>1, <1>3, <1>7, <2>1, Rewriting
  <2> QED
    BY <1>2, <1>7, <2>2 DEF Appended, Rewritten
<1> QED
  BY <1>9, <1>10 DEF t


GrowsBinary(h) ==
  /\ WellBuilt(h) /\ Len(h) >= new
  /\ \A n \in Nodes :
       /\ h[n].kind = nodes[n].kind /\ h[n].range = nodes[n].range
       /\ h[n].kind # "binary" => h[n].parts = nodes[n].parts
  /\ new \in Kind(h, "binary") /\ h[new].range = Here
  /\ \A n \in DOMAIN h \ (Nodes \cup {new}) : h[n].range = 0
LEMMA AppendGrows ==
  ASSUME WellBuilt(nodes), NEW h, GrowsBinary(h), NEW h1, NEW t, NEW right \in Exprs(nodes), Appended(h, h1, t, right)
  PROVE  GrowsBinary(h1)
<1> DEFINE made == Len(h) + 1
<1>1. /\ h \in Seq(AnyNode) /\ Len(h) \in Nat /\ DOMAIN h = 1..Len(h) /\ Len(h) >= new
      /\ Nodes = 1..Len(nodes) /\ Len(nodes) \in Nat /\ new = Len(nodes) + 1
      /\ Nodes \subseteq DOMAIN h
  BY DEF GrowsBinary, WellBuilt, Nodes, new
<1>2. /\ t \in DOMAIN h /\ h[t].kind = "binary"
      /\ h1 \in Seq(AnyNode) /\ Len(h1) = made /\ DOMAIN h1 = DOMAIN h \cup {made} /\ made \notin DOMAIN h
      /\ \A n \in DOMAIN h \ {t} : h1[n] = h[n]
      /\ h1[t].kind = "binary" /\ h1[t].range = h[t].range
      /\ h1[made].kind = "binary" /\ h1[made].range = 0
  BY DEF Appended, Kind
<1>3. \A n \in DOMAIN h : h1[n].kind = h[n].kind /\ h1[n].range = h[n].range
                          /\ (h[n].kind # "binary" => h1[n].parts = h[n].parts)
  BY <1>2
<1>4. Exprs(h) \subseteq Exprs(h1) /\ made \in Exprs(h1) /\ right \in Exprs(h1)
  <2>1. right \in Exprs(h)
    BY <1>1 DEF GrowsBinary, Exprs, Nodes
  <2> QED
    BY <2>1, <1>2, <1>3, Kinds DEF Exprs
<1>5. h[t].parts \in Seq(Nat) /\ Len(h[t].parts) = 2 /\ h[t].parts[1] \in Exprs(h) /\ h[t].parts[2] \in Exprs(h)
  <2>1. h[t] \in AnyNode
    BY <1>1, <1>2
  <2>2. Fits(h, t)
    BY <1>2 DEF GrowsBinary, WellBuilt
  <2>3. h[t].parts \in Seq(Nat) /\ Len(h[t].parts) = 2 /\ PartsIn(h, t, Exprs(h))
    BY <1>2, <2>1, <2>2, Kinds DEF AnyNode, Fits, ExpressionFits
  <2> QED
    BY <2>3 DEF PartsIn
<1>6. \A n \in {t, made} : /\ h1[n].kind = "binary"
                           /\ Len(h1[n].parts) = 2 /\ DOMAIN h1[n].parts = 1..2
                           /\ h1[n].parts[1] \in Exprs(h1) /\ h1[n].parts[2] \in Exprs(h1)
  <2>1. CASE h1[t].parts = <<made, right>> /\ h1[made].parts = h[t].parts
    <3>1. /\ Len(h1[t].parts) = 2 /\ DOMAIN h1[t].parts = 1..2
          /\ h1[t].parts[1] \in Exprs(h1) /\ h1[t].parts[2] \in Exprs(h1)
      BY <2>1, <1>4
    <3>2. /\ Len(h1[made].parts) = 2 /\ DOMAIN h1[made].parts = 1..2
          /\ h1[made].parts[1] \in Exprs(h1) /\ h1[made].parts[2] \in Exprs(h1)
      BY <2>1, <1>4, <1>5
    <3> QED
      BY <3>1, <3>2, <1>2
  <2>2. CASE /\ h1[t].parts \in Seq(Nat) /\ Len(h1[t].parts) = 2
             /\ h1[t].parts[1] = h[t].parts[1] /\ h1[t].parts[2] = made
             /\ h1[made].parts = <<h[t].parts[2], right>>
    <3>1. /\ Len(h1[t].parts) = 2 /\ DOMAIN h1[t].parts = 1..2
          /\ h1[t].parts[1] \in Exprs(h1) /\ h1[t].parts[2] \in Exprs(h1)
      BY <2>2, <1>4, <1>5
    <3>2. /\ Len(h1[made].parts) = 2 /\ DOMAIN h1[made].parts = 1..2
          /\ h1[made].parts[1] \in Exprs(h1) /\ h1[made].parts[2] \in Exprs(h1)
      BY <2>2, <1>4, <1>5
    <3> QED
      BY <3>1, <3>2, <1>2
  <2> QED
    BY <2>1, <2>2 DEF Appended
<1>7. \A n \in {t, made} : Fits(h1, n)
  BY <1>6, Kinds DEF Fits, ExpressionFits, StatementFits, PartsIn
<1>8. WellBuilt(h1)
  <2>1. Succeeds(h, h1)
    BY <1>1, <1>2, <1>3 DEF Succeeds
  <2>2. \A n \in DOMAIN h : h1[n].parts = h[n].parts \/ Fits(h1, n)
    BY <1>2, <1>7
  <2>3. \A n \in DOMAIN h1 \ DOMAIN h : Fits(h1, n)
    BY <1>2, <1>7
  <2> QED
    BY <2>1, <2>2, <2>3, BuiltOn DEF GrowsBinary
<1>9. new \in Kind(h1, "binary") /\ h1[new].range = Here
  BY <1>2, <1>3 DEF GrowsBinary, Kind
<1>10. \A n \in Nodes :
         /\ h1[n].kind = nodes[n].kind /\ h1[n].range = nodes[n].range
         /\ h1[n].kind # "binary" => h1[n].parts = nodes[n].parts
  BY <1>1, <1>3 DEF GrowsBinary
<1>11. \A n \in DOMAIN h1 \ (Nodes \cup {new}) : h1[n].range = 0
  BY <1>2, <1>3 DEF GrowsBinary
<1>12. Len(h1) >= new
  BY <1>1, <1>2
<1> QED
  BY <1>8, <1>9, <1>10, <1>11, <1>12 DEF GrowsBinary

LEMMA FirstGrows ==
  ASSUME WellBuilt(nodes), Here \in Nat, NEW ops, NEW exprs \in Seq(Nat), ops[1] \in Priorities, Len(exprs) >= 2,
         exprs[1] \in Exprs(nodes), exprs[2] \in Exprs(nodes)
  PROVE  GrowsBinary(Append(nodes, FirstBinary(ops, exprs)))
<1> DEFINE x == FirstBinary(ops, exprs)
           h == Append(nodes, x)
<1>1. nodes \in Seq(AnyNode) /\ Len(nodes) \in Nat /\ Nodes = 1..Len(nodes) /\ new = Len(nodes) + 1
  BY DEF WellBuilt, Nodes, new
<1>2. /\ x \in AnyNode /\ x.kind = "binary" /\ x.range = Here
      /\ Len(x.parts) = 2 /\ DOMAIN x.parts = 1..2 /\ x.parts[1] = exprs[1] /\ x.parts[2] = exprs[2]
  <2> DEFINE q == SubSeq(exprs, 1, 2)
  <2>1. q \in Seq(Nat) /\ Len(q) = 2 /\ q[1] = exprs[1] /\ q[2] = exprs[2] /\ DOMAIN q = 1..2
    OBVIOUS
  <2> HIDE DEF q
  <2>2. x = [kind |-> "binary", op |-> ops[1], parts |-> q, range |-> Here]
    BY DEF FirstBinary, q
  <2> QED
    BY <2>1, <2>2, Kinds DEF AnyNode
<1> HIDE DEF x
<1>3. /\ h \in Seq(AnyNode) /\ Len(h) = new /\ DOMAIN h = Nodes \cup {new} /\ new \notin Nodes
      /\ \A n \in Nodes : h[n] = nodes[n]
      /\ h[new] = x
  BY <1>1, <1>2
<1> HIDE DEF h
<1>4. Exprs(nodes) \subseteq Exprs(h)
  BY <1>3 DEF Exprs, Nodes
<1>5. Fits(h, new)
  <2>1. /\ h[new].kind = "binary" /\ Len(h[new].parts) = 2 /\ DOMAIN h[new].parts = 1..2
        /\ h[new].parts[1] \in Exprs(h) /\ h[new].parts[2] \in Exprs(h)
    BY <1>2, <1>3, <1>4
  <2> QED
    BY <2>1, Kinds DEF Fits, ExpressionFits, StatementFits, PartsIn
<1>6. WellBuilt(h)
  <2>1. Succeeds(nodes, h)
    BY <1>1, <1>3 DEF Succeeds, Nodes
  <2>2. \A n \in DOMAIN nodes : h[n].parts = nodes[n].parts
    BY <1>3 DEF Nodes
  <2>3. DOMAIN h \ DOMAIN nodes = {new}
    BY <1>3 DEF Nodes
  <2> QED
    BY <2>1, <2>2, <2>3, <1>5, BuiltOn
<1>7. GrowsBinary(h)
  <2>1. Len(h) >= new /\ new \in Kind(h, "binary") /\ h[new].range = Here
    BY <1>1, <1>2, <1>3 DEF Kind
  <2> QED
    BY <1>3, <1>6, <2>1 DEF GrowsBinary
<1> QED
  BY <1>7 DEF h, x

LEMMA ExitBinary ==
  ASSUME WalkInv, ExitBinaryExpression
  PROVE  WalkInv'
<1>1. PICK n \in 1..source.chain :
        /\ Len(open) > n
        /\ rule(Children(n + 1)[1]) \in Operands \ {"prefix"}
        /\ \A i \in 2..(n + 1) : isRight(Children(n + 1)[i], i = n + 1)
        /\ \E ops \in [1..n -> Priorities] :
             Exit("binary", Children(n + 1), BinaryTree(ops, NodesOf(Children(n + 1))), new)
  BY DEF ExitBinaryExpression
<1>2. PICK ops \in [1..n -> Priorities] :
        Exit("binary", Children(n + 1), BinaryTree(ops, NodesOf(Children(n + 1))), new)
  BY <1>1
<1> DEFINE k == n + 1
           e == NodesOf(Children(k))
           h == BinaryTree(ops, e)
<1>3. n \in Nat /\ n >= 1 /\ k \in Nat /\ k <= Len(open)
  <2>1. Len(open) \in Nat
    BY DEF WalkInv, Walked
  <2> QED
    BY <1>1, <2>1
<1>4. \A i \in 1..k : rule(Children(k)[i]) \in Expressions
  <2>1. \A i \in 1..k : i = 1 \/ i \in 2..k
    BY <1>3
  <2>2. rule(Children(k)[1]) \in Expressions
    BY <1>1, Kinds DEF Operands
  <2>3. \A i \in 2..k : rule(Children(k)[i]) \in Expressions
    BY <1>1, Kinds DEF isRight, signs
  <2> QED
    BY <2>1, <2>2, <2>3
<1>5. e \in Seq(Nat) /\ Len(e) = k /\ \A i \in 1..k : e[i] \in Exprs(nodes)
  <2>1. Len(e) = k
    BY <1>3, ChildrenFacts DEF WalkInv
  <2>2. e \in Seq(Nat) /\ \A i \in 1..k : e[i] \in Exprs(nodes)
    BY <1>3, <1>4, ChildNodes
  <2> QED
    BY <2>1, <2>2
<1>6. Len(ops) = n /\ \A i \in 1..n : ops[i] \in Priorities
  <2>1. ops = [i \in 1..n |-> ops[i]]
    OBVIOUS
  <2>2. ops \in Seq(Priorities)
    BY <1>3, <2>1
  <2> QED
    BY <1>3, <2>2
<1>7. WellBuilt(nodes) /\ Here \in Nat
  BY DEF WalkInv, Walked, Here
<1> HIDE DEF k, e
<1>8. PICK g : h = g[n] /\ \A i \in 1..n : BinaryAt(ops, e, g, i)
  BY <1>3, <1>6, BinaryEquation
<1> HIDE DEF h
<1> DEFINE S == {i \in 1..n : GrowsBinary(g[i])}
<1>9. 1 \in S
  <2>1. g[1] = Append(nodes, FirstBinary(ops, e)) /\ 1 \in 1..n
    <3>1. 1 \in 1..n
      BY <1>3
    <3>2. BinaryAt(ops, e, g, 1)
      BY <1>8, <3>1
    <3> QED
      BY <3>1, <3>2 DEF BinaryAt
  <2>2. 1 \in 1..k /\ 2 \in 1..k /\ k >= 2
    BY <1>3 DEF k
  <2> QED
    BY <2>1, <2>2, <1>5, <1>6, <1>7, FirstGrows
<1>10. ASSUME NEW i \in 1..n, i \in S, i < n PROVE i + 1 \in S
  <2>1. i + 1 \in 1..n /\ i + 1 # 1 /\ (i + 1) - 1 = i /\ (i + 1) + 1 \in 1..k
    BY <1>3, <1>10 DEF k
  <2>2. g[i + 1] = appendExpr(g[i], new, ops[i + 1], e[(i + 1) + 1])
    <3>1. BinaryAt(ops, e, g, i + 1)
      BY <1>8, <2>1
    <3> QED
      BY <2>1, <3>1 DEF BinaryAt
  <2> DEFINE right == e[(i + 1) + 1]
  <2>3. right \in Exprs(nodes) /\ right \in Nat
    <3>1. right \in Exprs(nodes)
      BY <1>5, <2>1
    <3>2. Exprs(nodes) \subseteq Nat
      BY <1>7 DEF Exprs, WellBuilt
    <3> QED
      BY <3>1, <3>2
  <2> HIDE DEF right
  <2>4. GrowsBinary(g[i]) /\ WellBuilt(g[i]) /\ new \in Kind(g[i], "binary")
    BY <1>10 DEF GrowsBinary
  <2>5. PICK t : Appended(g[i], g[i + 1], t, right)
    <3>1. ops[i + 1] \in Priorities
      BY <1>6, <2>1
    <3>2. g[i + 1] = appendExpr(g[i], new, ops[i + 1], right)
      BY <2>2 DEF right
    <3>3. Appended(g[i], g[i + 1], appendsTo(g[i], new, ops[i + 1]), right)
      BY <2>3, <2>4, <3>1, <3>2, AppendExprFacts
    <3> QED
      BY <3>3
  <2>6. GrowsBinary(g[i + 1])
    BY <1>7, <2>3, <2>4, <2>5, AppendGrows
  <2> QED
    BY <2>1, <2>6
<1>11. GrowsBinary(h)
  <2> HIDE DEF S
  <2>1. \A i \in 1..n : i \in S
    BY <1>3, <1>9, <1>10, CountingUp
  <2>2. n \in S
    BY <1>3, <2>1
  <2> QED
    BY <2>2, <1>8 DEF S
<1>12. Made(h, new, "binary", e)
  <2>1. Len(nodes) <= Len(h) /\ new \in DOMAIN h /\ new \notin Nodes
    BY <1>7, <1>11 DEF GrowsBinary, WellBuilt, Kind, new, Nodes
  <2> QED
    BY <1>11, <2>1, Kinds DEF GrowsBinary, Made, Kind
<1> QED
  <2>1. Exit("binary", Children(k), h, new)
    BY <1>2 DEF h, e, k
  <2>2. "binary" \in Expressions \cup Statements
    BY Kinds
  <2> QED
    BY <1>3, <1>12, <2>1, <2>2, ExitKeeps DEF e


(* What addBody does: the root's third part goes into a node behind it.    *)
BodyAdded(h, h1, left, right) ==
  LET made == Len(h) + 1
  IN  /\ h1 \in Seq(AnyNode) /\ Len(h1) = made /\ DOMAIN h1 = DOMAIN h \cup {made} /\ made \notin DOMAIN h
      /\ \A n \in DOMAIN h \ {new} : h1[n] = h[n]
      /\ h1[new].kind = "ternary" /\ h1[new].range = h[new].range
      /\ h1[new].parts \in Seq(Nat) /\ Len(h1[new].parts) = 3
      /\ h1[new].parts[1] = h[new].parts[1] /\ h1[new].parts[2] = h[new].parts[2] /\ h1[new].parts[3] = made
      /\ h1[made].kind = "ternary" /\ h1[made].range = 0
      /\ h1[made].parts \in Seq(Nat) /\ Len(h1[made].parts) = 3
      /\ h1[made].parts[1] = h[new].parts[3] /\ h1[made].parts[2] = left /\ h1[made].parts[3] = right
LEMMA AddBodyFacts ==
  ASSUME NEW h, WellBuilt(h), new \in Kind(h, "ternary"), NEW left \in Nat, NEW right \in Nat
  PROVE  BodyAdded(h, addBody(h, left, right), left, right)
<1> DEFINE made == Len(h) + 1
<1>1. h \in Seq(AnyNode) /\ Len(h) \in Nat /\ DOMAIN h = 1..Len(h) /\ made \in Nat
  BY DEF WellBuilt
<1>2. /\ new \in DOMAIN h /\ h[new] \in AnyNode /\ h[new].kind = "ternary" /\ h[new].parts \in Seq(Nat)
      /\ Len(h[new].parts) = 3 /\ \A i \in 1..3 : h[new].parts[i] \in Nat
  <2>1. new \in DOMAIN h /\ h[new] \in AnyNode /\ h[new].kind = "ternary"
    BY <1>1 DEF Kind
  <2>2. h[new].parts \in Seq(Nat)
    BY <2>1 DEF AnyNode
  <2>3. Len(h[new].parts) = 3
    BY <2>1 DEF WellBuilt, Fits, ExpressionFits
  <2> QED
    BY <2>1, <2>2, <2>3
<1> DEFINE q == [h[new].parts EXCEPT ![3] = made]
           x == [h[new] EXCEPT !.parts = q]
           w == <<h[new].parts[3], left, right>>
           y == Object("ternary", w, 0)
<1>3. addBody(h, left, right) = Append([h EXCEPT ![new] = x], y)
  BY <1>2 DEF addBody
<1>4. /\ q \in Seq(Nat) /\ Len(q) = 3 /\ q[1] = h[new].parts[1] /\ q[2] = h[new].parts[2] /\ q[3] = made
  BY <1>1, <1>2
<1>5. w \in Seq(Nat) /\ Len(w) = 3 /\ w[1] = h[new].parts[3] /\ w[2] = left /\ w[3] = right
  BY <1>2
<1> HIDE DEF q, w
<1>6. x \in AnyNode /\ x.kind = "ternary" /\ x.range = h[new].range /\ x.parts = q
  BY <1>2, <1>4 DEF AnyNode
<1>7. y \in AnyNode /\ y.kind = "ternary" /\ y.range = 0 /\ y.parts = w
  BY <1>5, Kinds DEF Object, AnyNode
<1> HIDE DEF x, y
<1>8. Rewritten(h, addBody(h, left, right), new, x, y)
  BY <1>1, <1>2, <1>3, <1>6, <1>7, Rewriting
<1> QED
  BY <1>4, <1>5, <1>6, <1>7, <1>8 DEF Rewritten, BodyAdded

GrowsTernary(h, e, i) ==
  LET third == h[new].parts[3]
  IN  /\ WellBuilt(h) /\ Len(h) >= new
      /\ \A n \in Nodes : h[n] = nodes[n]
      /\ new \in Kind(h, "ternary") /\ h[new].range = Here
      /\ \A n \in DOMAIN h \ (Nodes \cup {new}) : h[n].range = 0
      /\ h[new].parts[1] = e[1] /\ h[new].parts[2] = e[2]
      /\ i = 1 => third = e[3]
      /\ i >= 2 => third \in Kind(h, "ternary") /\ third \notin Nodes
      /\ i = 2 => \A j \in 1..3 : h[third].parts[j] = e[j + 2]
      /\ i >= 3 => h[third].parts[1] \notin Nodes
LEMMA BodyGrows ==
  ASSUME WellBuilt(nodes), NEW e, NEW i \in Nat, i >= 1, NEW h, GrowsTernary(h, e, i), NEW h1,
         e[2 * (i + 1)] \in Exprs(nodes), e[2 * (i + 1) + 1] \in Exprs(nodes),
         BodyAdded(h, h1, e[2 * (i + 1)], e[2 * (i + 1) + 1])
  PROVE  GrowsTernary(h1, e, i + 1)
<1> DEFINE made == Len(h) + 1
           left == e[2 * (i + 1)]
           right == e[2 * (i + 1) + 1]
<1>1. /\ h \in Seq(AnyNode) /\ Len(h) \in Nat /\ DOMAIN h = 1..Len(h) /\ Len(h) >= new
      /\ Nodes = 1..Len(nodes) /\ Len(nodes) \in Nat /\ new = Len(nodes) + 1
      /\ Nodes \subseteq DOMAIN h /\ new \in DOMAIN h /\ h[new].kind = "ternary" /\ new \notin Nodes
  BY DEF GrowsTernary, WellBuilt, Nodes, new, Kind
<1>2. /\ h1 \in Seq(AnyNode) /\ Len(h1) = made /\ DOMAIN h1 = DOMAIN h \cup {made} /\ made \notin DOMAIN h
      /\ \A n \in DOMAIN h \ {new} : h1[n] = h[n]
      /\ h1[new].kind = "ternary" /\ h1[new].range = h[new].range
      /\ h1[new].parts \in Seq(Nat) /\ Len(h1[new].parts) = 3
      /\ h1[new].parts[1] = h[new].parts[1] /\ h1[new].parts[2] = h[new].parts[2] /\ h1[new].parts[3] = made
      /\ h1[made].kind = "ternary" /\ h1[made].range = 0
      /\ h1[made].parts \in Seq(Nat) /\ Len(h1[made].parts) = 3
      /\ h1[made].parts[1] = h[new].parts[3] /\ h1[made].parts[2] = left /\ h1[made].parts[3] = right
  BY DEF BodyAdded
<1>3. left \in Exprs(nodes) /\ right \in Exprs(nodes)
  OBVIOUS
<1> HIDE DEF left, right
<1>4. \A n \in DOMAIN h : h1[n].kind = h[n].kind /\ h1[n].range = h[n].range
  BY <1>1, <1>2
<1>5. Exprs(nodes) \subseteq Exprs(h) /\ Exprs(h) \subseteq Exprs(h1) /\ made \in Exprs(h1)
  <2>1. Exprs(nodes) \subseteq Exprs(h)
    BY <1>1 DEF GrowsTernary, Exprs, Nodes
  <2> QED
    BY <2>1, <1>2, <1>4, Kinds DEF Exprs
<1>6. \A j \in 1..3 : h[new].parts[j] \in Exprs(h)
  <2>1. Fits(h, new) /\ h[new] \in AnyNode
    BY <1>1 DEF GrowsTernary, WellBuilt
  <2>2. h[new].parts \in Seq(Nat) /\ Len(h[new].parts) = 3 /\ PartsIn(h, new, Exprs(h))
    BY <1>1, <2>1, Kinds DEF AnyNode, Fits, ExpressionFits
  <2> QED
    BY <2>2 DEF PartsIn
<1>7. ASSUME NEW n \in {new, made} PROVE Fits(h1, n)
  <2>1. \A j \in 1..3 : h1[n].parts[j] \in Exprs(h1)
    <3>1. \A j \in 1..3 : j = 1 \/ j = 2 \/ j = 3
      OBVIOUS
    <3>2. CASE n = new
      BY <3>1, <3>2, <1>2, <1>5, <1>6
    <3>3. CASE n = made
      <4>1. h1[made].parts[1] \in Exprs(h1)
        <5>1. h[new].parts[3] \in Exprs(h)
          BY <1>6
        <5> QED
          BY <5>1, <1>2, <1>5
      <4>2. h1[made].parts[2] \in Exprs(h1) /\ h1[made].parts[3] \in Exprs(h1)
        BY <1>2, <1>3, <1>5
      <4> QED
        BY <3>1, <3>3, <4>1, <4>2
    <3> QED
      BY <3>2, <3>3
  <2>2. h1[n].kind = "ternary" /\ h1[n].parts \in Seq(Nat) /\ Len(h1[n].parts) = 3
    <3>1. CASE n = new
      BY <3>1, <1>2
    <3>2. CASE n = made
      BY <3>2, <1>2
    <3> QED
      BY <3>1, <3>2
  <2>3. DOMAIN h1[n].parts = 1..3
    BY <2>2
  <2> QED
    BY <2>1, <2>2, <2>3, Kinds DEF Fits, ExpressionFits, StatementFits, PartsIn
<1>8. WellBuilt(h1)
  <2>0. Len(h) <= Len(h1) /\ h1 \in Seq(AnyNode)
    BY <1>1, <1>2
  <2>1. Succeeds(h, h1)
    BY <2>0, <1>4 DEF Succeeds
  <2>2. \A n \in DOMAIN h : h1[n].parts = h[n].parts \/ Fits(h1, n)
    BY <1>2, <1>7
  <2>3. \A n \in DOMAIN h1 \ DOMAIN h : Fits(h1, n)
    BY <1>2, <1>7
  <2> QED
    BY <2>1, <2>2, <2>3, BuiltOn DEF GrowsTernary
<1>9. /\ new \in Kind(h1, "ternary") /\ h1[new].range = Here
      /\ \A n \in DOMAIN h1 \ (Nodes \cup {new}) : h1[n].range = 0
      /\ Len(h1) >= new
      /\ \A n \in Nodes : h1[n] = nodes[n]
      /\ h1[new].parts[1] = e[1] /\ h1[new].parts[2] = e[2]
  <2>1. h[new].range = Here /\ h[new].parts[1] = e[1] /\ h[new].parts[2] = e[2]
    BY DEF GrowsTernary
  <2>2. new \in Kind(h1, "ternary") /\ h1[new].range = Here
    BY <1>1, <1>2, <2>1 DEF Kind
  <2>3. Len(h1) >= new
    BY <1>1, <1>2
  <2>4. \A n \in Nodes : h1[n] = nodes[n]
    <3>1. \A n \in Nodes : h[n] = nodes[n]
      BY DEF GrowsTernary
    <3>2. \A n \in Nodes : n \in DOMAIN h \ {new}
      BY <1>1
    <3>3. \A n \in DOMAIN h \ {new} : h1[n] = h[n]
      BY <1>2
    <3> QED
      BY <3>1, <3>2, <3>3
  <2>5. \A n \in DOMAIN h1 \ (Nodes \cup {new}) : h1[n].range = 0
    <3>1. \A n \in DOMAIN h \ (Nodes \cup {new}) : h[n].range = 0
      BY DEF GrowsTernary
    <3>2. DOMAIN h1 = DOMAIN h \cup {made} /\ h1[made].range = 0
      BY <1>2
    <3> QED
      BY <3>1, <3>2, <1>4
  <2> QED
    BY <1>2, <2>1, <2>2, <2>3, <2>4, <2>5
<1>10. made \in Kind(h1, "ternary") /\ made \notin Nodes
  BY <1>1, <1>2 DEF Kind
<1>11. i + 1 = 2 => \A j \in 1..3 : h1[made].parts[j] = e[j + 2]
  <2> SUFFICES ASSUME i = 1 PROVE \A j \in 1..3 : h1[made].parts[j] = e[j + 2]
    BY <1>1
  <2>1. h[new].parts[3] = e[3]
    BY DEF GrowsTernary
  <2>2. left = e[4] /\ right = e[5]
    BY DEF left, right
  <2>3. \A j \in 1..3 : j = 1 \/ j = 2 \/ j = 3
    OBVIOUS
  <2> QED
    BY <1>2, <2>1, <2>2, <2>3
<1>12. i + 1 >= 3 => h1[made].parts[1] \notin Nodes
  <2>1. i >= 2 => h[new].parts[3] \notin Nodes
    BY DEF GrowsTernary
  <2>2. h1[made].parts[1] = h[new].parts[3]
    BY <1>2
  <2> QED
    BY <2>1, <2>2
<1> QED
  <2>1. i + 1 # 1
    OBVIOUS
  <2> QED
    BY <1>2, <1>8, <1>9, <1>10, <1>11, <1>12, <2>1 DEF GrowsTernary

LEMMA FirstBody ==
  ASSUME WellBuilt(nodes), Here \in Nat, NEW e \in Seq(Nat), Len(e) >= 3, \A i \in 1..3 : e[i] \in Exprs(nodes)
  PROVE  GrowsTernary(Append(nodes, Object("ternary", SubSeq(e, 1, 3), Here)), e, 1)
<1> DEFINE q == SubSeq(e, 1, 3)
           h == Append(nodes, Object("ternary", q, Here))
<1>1. q \in Seq(Nat) /\ Len(q) = 3 /\ q[1] = e[1] /\ q[2] = e[2] /\ q[3] = e[3]
  OBVIOUS
<1>2. "ternary" \in Expressions
  BY Kinds
<1> HIDE DEF q
<1>3. HasOneMore(h, "ternary", q, Here)
  BY <1>1, <1>2, OneMore
<1> HIDE DEF h
<1>4. /\ DOMAIN h = Nodes \cup {new} /\ new \notin Nodes /\ Len(h) = new /\ new \in Nat
      /\ \A n \in Nodes : h[n] = nodes[n]
      /\ h[new].kind = "ternary" /\ h[new].parts = q /\ h[new].range = Here
      /\ Exprs(nodes) \subseteq Exprs(h)
  BY <1>3 DEF HasOneMore, new, WellBuilt
<1>5. \A j \in DOMAIN q : q[j] \in Exprs(h)
  <2>1. \A j \in DOMAIN q : j = 1 \/ j = 2 \/ j = 3
    BY <1>1
  <2> QED
    BY <1>1, <1>4, <2>1
<1>6. Fits(h, new)
  BY <1>1, <1>4, <1>5, Kinds DEF Fits, ExpressionFits, StatementFits, PartsIn
<1>7. GrowsTernary(h, e, 1)
  <2>1. WellBuilt(h)
    BY <1>3, <1>6 DEF HasOneMore
  <2>2. Len(h) >= new /\ \A n \in DOMAIN h \ (Nodes \cup {new}) : h[n].range = 0
    BY <1>4
  <2>3. new \in Kind(h, "ternary")
    BY <1>4 DEF Kind
  <2>4. h[new].parts[1] = e[1] /\ h[new].parts[2] = e[2] /\ h[new].parts[3] = e[3]
    BY <1>1, <1>4
  <2> QED
    BY <1>4, <2>1, <2>2, <2>3, <2>4 DEF GrowsTernary
<1> QED
  BY <1>7 DEF h, q

LEMMA ExitTernary ==
  ASSUME WalkInv, ExitTernaryExpression
  PROVE  WalkInv'
<1>1. PICK n \in 1..source.chain :
        /\ Len(open) > 2 * n
        /\ areExpressions(Children(2 * n + 1))
        /\ Exit("ternary", Children(2 * n + 1), TernaryTree(NodesOf(Children(2 * n + 1))), new)
  BY DEF ExitTernaryExpression
<1> DEFINE k == 2 * n + 1
           e == NodesOf(Children(k))
           h == TernaryTree(e)
<1>2. n \in Nat /\ n >= 1 /\ k \in Nat /\ k <= Len(open) /\ k >= 3
  <2>1. Len(open) \in Nat
    BY DEF WalkInv, Walked
  <2> QED
    BY <1>1, <2>1
<1>3. e \in Seq(Nat) /\ Len(e) = k /\ \A i \in 1..k : e[i] \in Exprs(nodes)
  <2>1. Children(k) \in Seq(Nat) /\ Len(Children(k)) = k /\ Len(e) = k
    BY <1>2, ChildrenFacts DEF WalkInv
  <2>2. \A i \in 1..k : rule(Children(k)[i]) \in Expressions
    BY <1>1, <2>1 DEF areExpressions
  <2>3. e \in Seq(Nat) /\ \A i \in 1..k : e[i] \in Exprs(nodes)
    BY <1>2, <2>2, ChildNodes
  <2> QED
    BY <2>1, <2>3
<1>4. WellBuilt(nodes) /\ Here \in Nat
  BY DEF WalkInv, Walked, Here
<1> HIDE DEF e
<1>5. PICK g : h = g[n] /\ \A i \in 1..n : TernaryAt(e, g, i)
  BY <1>2, <1>3, TernaryEquation
<1> HIDE DEF h
<1> DEFINE S == {i \in 1..n : GrowsTernary(g[i], e, i)}
<1>6. 1 \in S
  <2>1. 1 \in 1..n
    BY <1>2
  <2>2. TernaryAt(e, g, 1)
    BY <1>5, <2>1
  <2>3. \A i \in 1..3 : i \in 1..k
    BY <1>2
  <2> QED
    BY <2>1, <2>2, <2>3, <1>2, <1>3, <1>4, FirstBody DEF TernaryAt
<1>7. ASSUME NEW i \in 1..n, i \in S, i < n PROVE i + 1 \in S
  <2>1. i + 1 \in 1..n /\ i + 1 # 1 /\ (i + 1) - 1 = i /\ i \in Nat /\ i >= 1
    BY <1>2, <1>7
  <2>2. 2 * (i + 1) \in 1..k /\ 2 * (i + 1) + 1 \in 1..k
    BY <1>2, <1>7
  <2>3. g[i + 1] = addBody(g[i], e[2 * (i + 1)], e[2 * (i + 1) + 1])
    <3>1. TernaryAt(e, g, i + 1)
      BY <1>5, <2>1
    <3> QED
      BY <2>1, <3>1 DEF TernaryAt
  <2>4. /\ e[2 * (i + 1)] \in Exprs(nodes) /\ e[2 * (i + 1) + 1] \in Exprs(nodes)
        /\ e[2 * (i + 1)] \in Nat /\ e[2 * (i + 1) + 1] \in Nat
    <3>1. Exprs(nodes) \subseteq Nat
      BY <1>4 DEF Exprs, WellBuilt
    <3> QED
      BY <1>3, <2>2, <3>1
  <2>5. GrowsTernary(g[i], e, i) /\ WellBuilt(g[i]) /\ new \in Kind(g[i], "ternary")
    BY <1>7 DEF GrowsTernary
  <2>6. BodyAdded(g[i], g[i + 1], e[2 * (i + 1)], e[2 * (i + 1) + 1])
    BY <2>3, <2>4, <2>5, AddBodyFacts
  <2>7. GrowsTernary(g[i + 1], e, i + 1)
    BY <1>4, <2>1, <2>4, <2>5, <2>6, BodyGrows
  <2> QED
    BY <2>1, <2>7
<1>8. GrowsTernary(h, e, n)
  <2> HIDE DEF S
  <2>1. \A i \in 1..n : i \in S
    BY <1>2, <1>6, <1>7, CountingUp
  <2>2. n \in S
    BY <1>2, <2>1
  <2> QED
    BY <2>2, <1>5 DEF S
<1>9. Nesting(h, new, e)
  <2>1. new \in Kind(h, "ternary") /\ h[new].parts[1] = e[1] /\ h[new].parts[2] = e[2]
    BY <1>8 DEF GrowsTernary
  <2>2. 2 * n + 1 = 3 => n = 1
    BY <1>2
  <2>3. 2 * n + 1 = 5 => n = 2
    BY <1>2
  <2>4. Len(e) = 2 * n + 1 /\ (2 * n + 1 >= 7 => n >= 3)
    BY <1>2, <1>3
  <2>5. e[3] \in Nodes
    BY <1>2, <1>3 DEF Exprs, Nodes
  <2> QED
    BY <2>1, <2>2, <2>3, <2>4, <2>5, <1>8 DEF GrowsTernary, Nesting
<1>10. Made(h, new, "ternary", e)
  <2>1. Len(nodes) <= Len(h) /\ new \in DOMAIN h /\ new \notin Nodes
    BY <1>4, <1>8 DEF GrowsTernary, WellBuilt, Kind, new, Nodes
  <2>2. Len(e) >= 3 /\ \E m \in Nat : Len(e) = 2 * m + 1
    BY <1>2, <1>3
  <2> QED
    BY <1>8, <1>9, <2>1, <2>2, Kinds DEF GrowsTernary, Made, Kind
<1> QED
  <2>1. Exit("ternary", Children(k), h, new)
    BY <1>1 DEF h, e
  <2>2. "ternary" \in Expressions \cup Statements
    BY Kinds
  <2> HIDE DEF k
  <2> QED
    BY <1>2, <1>10, <2>1, <2>2, ExitKeeps DEF e


LEMMA WalkInit == Init => WalkInv
<1> SUFFICES ASSUME Init PROVE WalkInv
  OBVIOUS
<1>1. contexts = <<>> /\ nodes = <<>> /\ astNodes = <<>> /\ open = <<>>
  BY DEF Init
<1>2. WellBuilt(nodes)
  BY <1>1 DEF WellBuilt
<1> QED
  BY <1>1, <1>2 DEF WalkInv, Walked, NodeOfContext, RangeIsLast, TernaryTrees, Nodes

LEMMA WalkStays ==
  ASSUME WalkInv, UNCHANGED parsed
  PROVE  WalkInv'
<1>1. contexts' = contexts /\ nodes' = nodes /\ astNodes' = astNodes /\ open' = open
  BY DEF parsed
<1>2. Walked'
  BY <1>1 DEF WalkInv, Walked
<1>3. NodeOfContext'
  BY <1>1 DEF WalkInv, NodeOfContext, rule, kind, Nodes
<1>4. RangeIsLast'
  BY <1>1 DEF WalkInv, RangeIsLast, isLastOf, kind, Nodes
<1>5. TernaryTrees'
  BY <1>1 DEF WalkInv, TernaryTrees, rule, NodesOf
<1> QED
  BY <1>2, <1>3, <1>4, <1>5 DEF WalkInv

LEMMA WalkStep ==
  ASSUME WalkInv, [Next]_vars
  PROVE  WalkInv'
<1>1. ASSUME Walk PROVE WalkInv'
  BY <1>1, ExitSimple, ExitParentheses, ExitBinary, ExitTernary, ExitLinks, ExitStatements, ExitIf, ExitPlaces,
     WalkStays DEF Walk, ExitWalang
<1>2. ASSUME Compile PROVE WalkInv'
  BY <1>2, WalkStays DEF Compile, PrepareFails, PrepareRecursive, Prepared, Enter, Refused, UnknownName, Catch,
     Report, Fail
<1>3. ASSUME UNCHANGED vars PROVE WalkInv'
  BY <1>3, WalkStays DEF vars
<1> QED
  BY <1>1, <1>2, <1>3 DEF Next

-----------------------------------------------------------------------------
(* The compiler.                                                           *)

(* The statements that can be refused have been placed.                    *)
FrameOf(n) ==
  /\ n \in Nodes
  /\ kind(n) \in {"declare", "assign", "break"} => nodes[n].range # 0
HasPlace(n) ==
  /\ n \in Nodes
  /\ \/ isLastOf(nodes[n].range, n)
     \/ nodes[n].range = 0 /\ \A c \in DOMAIN contexts : astNodes[c] # n
Failed ==
  /\ HasPlace(error.culprit)
  /\ error.message => error.range = nodes[error.culprit].range
  /\ ~error.message =>
       \/ frames = <<>> /\ error.culprit \in of("function") \cup of("class")
       \/ frames # <<>> /\ error.culprit = Last(frames)
FramesFit == frames \in Seq(Nat) /\ \A i \in DOMAIN frames : FrameOf(frames[i])
WalkedAll == phase # "parsing" => \A i \in DOMAIN open : isStatement(open[i])
CompileInv ==
  /\ FramesFit /\ WalkedAll
  /\ error \in [culprit: Nat, message: BOOLEAN, range: Nat]
  /\ phase \in {"parsing", "preparing", "compiling", "unwinding", "failed"}
  /\ phase \in {"parsing", "preparing"} => frames = <<>>
  /\ phase \in {"unwinding", "failed"} => Failed
  /\ phase = "failed" => frames = <<>>
IInv == WalkInv /\ CompileInv

LEMMA FileNodes ==
  ASSUME WalkInv, \A i \in DOMAIN open : isStatement(open[i]), NEW n \in file
  PROVE  FrameOf(n) /\ isLastOf(nodes[n].range, n)
<1>1. PICK i \in DOMAIN open : n = astNodes[open[i]]
  BY DEF file
<1>2. open[i] \in DOMAIN contexts /\ open[i] \in Nat /\ open[i] # 0
  BY DEF WalkInv, Walked
<1>3. nodes[n].range = open[i]
  BY <1>1 DEF isStatement, node
<1>4. n \in Nodes
  BY <1>1, <1>2 DEF WalkInv, NodeOfContext
<1>5. isLastOf(nodes[n].range, n)
  BY <1>2, <1>3, <1>4 DEF WalkInv, RangeIsLast
<1> QED
  BY <1>2, <1>3, <1>4, <1>5 DEF FrameOf

LEMMA ExpressionsHavePlaces ==
  ASSUME WalkInv, NEW n \in Nodes, kind(n) \in Expressions \/ nodes[n].range # 0
  PROVE  HasPlace(n) /\ FrameOf(n)
<1>1. /\ kind(n) \in Expressions => kind(n) \notin Statements
      /\ kind(n) \in Expressions => kind(n) \notin {"declare", "assign", "break"}
  BY Kinds
<1>2. \/ nodes[n].range = 0 /\ (kind(n) \in Statements \/ \A c \in DOMAIN contexts : astNodes[c] # n)
      \/ isLastOf(nodes[n].range, n)
  BY DEF WalkInv, RangeIsLast
<1>3. HasPlace(n)
  <2>1. CASE isLastOf(nodes[n].range, n)
    BY <2>1 DEF HasPlace, isLastOf
  <2>2. CASE nodes[n].range = 0 /\ (kind(n) \in Statements \/ \A c \in DOMAIN contexts : astNodes[c] # n)
    <3>1. kind(n) \in Expressions
      BY <2>2
    <3>2. \A c \in DOMAIN contexts : astNodes[c] # n
      BY <3>1, <2>2, <1>1
    <3> QED
      BY <2>2, <3>2 DEF HasPlace
  <2> QED
    BY <1>2, <2>1, <2>2
<1>4. FrameOf(n)
  BY <1>1 DEF FrameOf
<1> QED
  BY <1>3, <1>4

(* What is compiled inside of a node is what the node was built of.        *)
LEMMA CompiledFrames ==
  ASSUME WalkInv, NEW n \in Nodes, NEW m \in Compiled(n)
  PROVE  FrameOf(m)
<1>1. \A x \in Nodes : Fits(nodes, x) /\ nodes[x] \in AnyNode /\ nodes[x].parts \in Seq(Nat)
  <2>1. WellBuilt(nodes)
    BY DEF WalkInv, Walked
  <2>2. \A x \in Nodes : Fits(nodes, x) /\ nodes[x] \in AnyNode
    BY <2>1 DEF WellBuilt, Nodes
  <2> QED
    BY <2>2 DEF AnyNode
<1>2. \A x \in Exprs(nodes) \cup Placed(nodes) : FrameOf(x)
  BY Kinds DEF Exprs, Placed, FrameOf, Nodes, kind
<1>3. \A x, S : PartsIn(nodes, x, S) => \A y \in Parts(x) : y \in S
  BY DEF PartsIn, Parts, part
<1>4. \A x \in Nodes : kind(x) = "block" => \A y \in Parts(x) : FrameOf(y)
  <2> SUFFICES ASSUME NEW x \in Nodes, kind(x) = "block" PROVE \A y \in Parts(x) : FrameOf(y)
    OBVIOUS
  <2>1. PartsIn(nodes, x, Placed(nodes))
    BY <1>1 DEF Fits, StatementFits, kind
  <2> QED
    BY <2>1, <1>2, <1>3
<1>5. \A x \in Nodes : kind(x) \in Expressions => \A y \in Parts(x) : FrameOf(y)
  <2> SUFFICES ASSUME NEW x \in Nodes, kind(x) \in Expressions PROVE \A y \in Parts(x) : FrameOf(y)
    OBVIOUS
  <2>1. PartsIn(nodes, x, Exprs(nodes))
    BY <1>1 DEF Fits, ExpressionFits, kind
  <2> QED
    BY <2>1, <1>2, <1>3
<1>6. \A x, j : j \in DOMAIN nodes[x].parts => part(x, j) \in Parts(x)
  BY DEF Parts, part
<1>7. \A x, k : x \in Kind(nodes, k) => x \in Nodes /\ kind(x) = k
  BY DEF Kind, Nodes, kind
<1>8. CASE kind(n) \in {"identifier", "member", "break"}
  BY <1>8 DEF Compiled
<1>9. CASE kind(n) = "call"
  <2>1. Len(nodes[n].parts) >= 1 /\ nodes[n].parts \in Seq(Nat)
    BY <1>1, <1>9 DEF Fits, ExpressionFits, kind
  <2>2. PartsIn(nodes, n, Exprs(nodes))
    BY <1>1, <1>9, Kinds DEF Fits, ExpressionFits, kind
  <2>3. \A i \in 1..Len(nodes[n].parts) : part(n, i) \in Exprs(nodes)
    BY <2>1, <2>2 DEF PartsIn, part
  <2>4. m \in {part(n, i) : i \in 2..Len(nodes[n].parts)}
         \cup (IF kind(part(n, 1)) = "member" THEN Parts(part(n, 1)) ELSE {})
    BY <1>9 DEF Compiled
  <2>5. CASE m \in {part(n, i) : i \in 2..Len(nodes[n].parts)}
    <3>1. PICK i \in 2..Len(nodes[n].parts) : m = part(n, i)
      BY <2>5
    <3>2. i \in 1..Len(nodes[n].parts)
      BY <2>1
    <3> QED
      BY <2>3, <3>1, <3>2, <1>2
  <2>6. CASE m \in Parts(part(n, 1))
    <3>1. part(n, 1) \in Exprs(nodes)
      BY <2>1, <2>3
    <3>2. part(n, 1) \in Nodes /\ kind(part(n, 1)) \in Expressions
      BY <3>1 DEF Exprs, Nodes, kind
    <3> QED
      BY <2>6, <3>2, <1>5
  <2> QED
    BY <2>4, <2>5, <2>6
<1>10. CASE kind(n) = "assign"
  <2>1. Len(nodes[n].parts) = 2 /\ nodes[n].parts \in Seq(Nat) /\ PartsIn(nodes, n, Exprs(nodes))
    BY <1>1, <1>10 DEF Fits, StatementFits, kind
  <2>2. m = part(n, 2)
    BY <1>10 DEF Compiled
  <2> QED
    BY <2>1, <2>2, <1>2 DEF PartsIn, part
<1>11. CASE kind(n) \in {"while", "if"}
  <2>1. /\ nodes[n].parts \in Seq(Nat)
        /\ part(n, 1) \in Exprs(nodes) /\ part(n, 2) \in Kind(nodes, "block")
        /\ Len(nodes[n].parts) \in 2..3
        /\ Len(nodes[n].parts) = 3 => part(n, 3) \in Kind(nodes, "block") \cup Kind(nodes, "if")
    BY <1>1, <1>11 DEF Fits, StatementFits, kind, part
  <2>2. m \in {part(n, 1)} \cup Parts(part(n, 2)) \cup {part(n, i) : i \in 3..Len(nodes[n].parts)}
    BY <1>11 DEF Compiled
  <2>3. CASE m \in {part(n, i) : i \in 3..Len(nodes[n].parts)}
    <3>0. PICK i \in 3..Len(nodes[n].parts) : m = part(n, i)
      BY <2>3
    <3>1. m = part(n, 3) /\ Len(nodes[n].parts) = 3
      <4> DEFINE l == Len(nodes[n].parts)
      <4>1. l \in 2..3 /\ i \in 3..l
        BY <2>1
      <4> HIDE DEF l
      <4>2. l = 3 /\ i = 3
        BY <4>1
      <4> QED
        BY <3>0, <4>2 DEF l
    <3>2. m \in Nodes /\ kind(m) \in {"block", "if"}
      BY <2>1, <3>1, <1>7
    <3> QED
      BY <3>2 DEF FrameOf
  <2>4. CASE m \in Parts(part(n, 2))
    BY <2>1, <2>4, <1>4, <1>7
  <2> QED
    BY <2>1, <2>2, <2>3, <2>4, <1>2
<1>12. CASE kind(n) = "function"
  <2>1. Len(nodes[n].parts) = 1 /\ nodes[n].parts \in Seq(Nat) /\ PartsIn(nodes, n, Kind(nodes, "block"))
    BY <1>1, <1>12 DEF Fits, StatementFits, kind
  <2>2. m \in Parts(part(n, 1))
    BY <1>12 DEF Compiled
  <2>3. part(n, 1) \in Kind(nodes, "block")
    BY <2>1 DEF PartsIn, part
  <2> QED
    BY <2>2, <2>3, <1>4, <1>7
<1>13. CASE kind(n) = "class"
  <2>1. PartsIn(nodes, n, Kind(nodes, "function"))
    BY <1>1, <1>13 DEF Fits, StatementFits, kind
  <2>2. PICK f \in Parts(n) : m \in Parts(part(f, 1))
    BY <1>13 DEF Compiled
  <2>3. f \in Nodes /\ kind(f) = "function"
    BY <2>1, <1>3, <1>7
  <2>4. Len(nodes[f].parts) = 1 /\ nodes[f].parts \in Seq(Nat) /\ PartsIn(nodes, f, Kind(nodes, "block"))
    BY <2>3, <1>1 DEF Fits, StatementFits, kind
  <2>5. part(f, 1) \in Kind(nodes, "block")
    BY <2>4 DEF PartsIn, part
  <2> QED
    BY <2>2, <2>5, <1>4, <1>7
<1>14. CASE kind(n) \notin {"identifier", "member", "break", "call", "assign", "while", "if", "function", "class"}
  <2>1. m \in Parts(n)
    BY <1>14 DEF Compiled
  <2>2. CASE kind(n) = "block"
    BY <2>1, <2>2, <1>4
  <2>3. CASE kind(n) \in Expressions
    BY <2>1, <2>3, <1>5
  <2>4. CASE kind(n) \in {"expressionStatement", "declare", "return"}
    <3>1. PartsIn(nodes, n, Exprs(nodes))
      BY <1>1, <2>4 DEF Fits, StatementFits, kind
    <3> QED
      BY <2>1, <3>1, <1>2, <1>3
  <2>5. kind(n) \in Expressions \cup Statements
    BY <1>1 DEF AnyNode, kind
  <2> QED
    BY <1>14, <2>2, <2>3, <2>4, <2>5 DEF Statements
<1> QED
  BY <1>8, <1>9, <1>10, <1>11, <1>12, <1>13, <1>14


(* The resolver ends up at an expression it was given, or inside of one.   *)
LEMMA ResolvedPlaces ==
  ASSUME WalkInv, NEW n \in Nodes, NEW m \in Resolved(n)
  PROVE  HasPlace(m)
<1>1. \A x \in Nodes : Fits(nodes, x) /\ nodes[x] \in AnyNode /\ nodes[x].parts \in Seq(Nat)
  <2>1. WellBuilt(nodes)
    BY DEF WalkInv, Walked
  <2>2. \A x \in Nodes : Fits(nodes, x) /\ nodes[x] \in AnyNode
    BY <2>1 DEF WellBuilt, Nodes
  <2> QED
    BY <2>2 DEF AnyNode
<1>2. \A x \in Exprs(nodes) : HasPlace(x) /\ x \in Nodes /\ kind(x) \in Expressions
  <2>1. \A x \in Exprs(nodes) : x \in Nodes /\ kind(x) \in Expressions
    BY DEF Exprs, Nodes, kind
  <2> QED
    BY <2>1, ExpressionsHavePlaces
<1>3. ASSUME NEW x \in Exprs(nodes)
      PROVE  /\ kind(x) \notin {"identifier", "call"} => part(x, 1) \in Exprs(nodes)
             /\ kind(x) = "call" => part(x, 1) \in Exprs(nodes)
             /\ kind(x) = "ternary" => part(x, 2) \in Exprs(nodes)
  <2>1. x \in Nodes /\ kind(x) \in Expressions /\ Fits(nodes, x) /\ nodes[x].parts \in Seq(Nat)
    BY <1>1, <1>2
  <2>2. PartsIn(nodes, x, Exprs(nodes))
    BY <2>1 DEF Fits, ExpressionFits, kind
  <2>3. \A j \in 1..Len(nodes[x].parts) : part(x, j) \in Exprs(nodes)
    BY <2>1, <2>2 DEF PartsIn, part
  <2>4. /\ kind(x) \in {"prefix", "member", "call"} => Len(nodes[x].parts) >= 1
        /\ kind(x) = "binary" => Len(nodes[x].parts) = 2
        /\ kind(x) = "ternary" => Len(nodes[x].parts) = 3
    <3>1. /\ kind(x) \in {"prefix", "member"} => Len(nodes[x].parts) = 1
          /\ kind(x) = "call" => Len(nodes[x].parts) >= 1
          /\ kind(x) = "binary" => Len(nodes[x].parts) = 2
          /\ kind(x) = "ternary" => Len(nodes[x].parts) = 3
      BY <2>1 DEF Fits, ExpressionFits, kind
    <3> QED
      BY <3>1
  <2>5. kind(x) \in {"identifier", "prefix", "parentheses", "call", "member", "binary", "ternary"}
    BY <2>1, Kinds
  <2>6. kind(x) # "parentheses"
    BY <2>1 DEF Fits, ExpressionFits, kind
  <2> QED
    BY <2>3, <2>4, <2>5, <2>6
<1>4. ASSUME NEW x \in Exprs(nodes)
      PROVE  Iterate(operand, x, Len(nodes)) \in Exprs(nodes)
  <2>1. \A y \in Exprs(nodes) : operand[y] \in Exprs(nodes)
    <3> SUFFICES ASSUME NEW y \in Exprs(nodes) PROVE operand[y] \in Exprs(nodes)
      OBVIOUS
    <3>1. operand[y] = CASE kind(y) \in {"identifier", "call"} -> y
                         [] kind(y) = "ternary" -> part(y, 2)
                         [] OTHER -> part(y, 1)
      BY <1>2 DEF operand
    <3>2. CASE kind(y) \in {"identifier", "call"}
      BY <3>1, <3>2
    <3>3. CASE kind(y) = "ternary"
      BY <3>1, <3>3, <1>3
    <3>4. CASE kind(y) \notin {"identifier", "call", "ternary"}
      BY <3>1, <3>4, <1>3
    <3> QED
      BY <3>2, <3>3, <3>4
  <2>2. Len(nodes) \in Nat
    BY DEF WalkInv, Walked, WellBuilt
  <2> QED
    BY <2>1, <2>2, IterateStays
<1>5. \A x \in Exprs(nodes) : \A y \in resolveExpression(x) : y \in Exprs(nodes)
  BY <1>4 DEF resolveExpression
<1>6. \A x \in Exprs(nodes) : \A y \in resolveTypeExpression(x) : y \in Exprs(nodes)
  <2> SUFFICES ASSUME NEW x \in Exprs(nodes), NEW y \in resolveTypeExpression(x) PROVE y \in Exprs(nodes)
    OBVIOUS
  <2> DEFINE z == Iterate(operand, x, Len(nodes))
  <2>1. z \in Exprs(nodes)
    BY <1>4
  <2>2. y \in IF kind(z) = "call" THEN resolveExpression(part(z, 1)) ELSE {z}
    BY DEF resolveTypeExpression
  <2> HIDE DEF z
  <2>3. CASE kind(z) = "call"
    BY <2>1, <2>2, <2>3, <1>3, <1>5
  <2>4. CASE kind(z) # "call"
    BY <2>1, <2>2, <2>4
  <2> QED
    BY <2>3, <2>4
<1>7. m \in Exprs(nodes)
  <2>1. CASE kind(n) \in {"identifier", "call", "member"}
    <3>1. n \in Exprs(nodes)
      BY <2>1, Kinds DEF Exprs, Nodes, kind
    <3>2. CASE kind(n) = "identifier"
      BY <3>1, <3>2 DEF Resolved
    <3>3. CASE kind(n) \in {"call", "member"}
      <4>1. m \in resolveExpression(part(n, 1))
        BY <3>3 DEF Resolved
      <4> QED
        BY <4>1, <3>1, <3>3, <1>3, <1>5
    <3> QED
      BY <2>1, <3>2, <3>3
  <2>2. CASE kind(n) \in {"assign", "declare"}
    <3>1. part(n, 1) \in Exprs(nodes)
      <4>1. /\ PartsIn(nodes, n, Exprs(nodes)) /\ Len(nodes[n].parts) \in {1, 2}
            /\ nodes[n].parts \in Seq(Nat)
        BY <1>1, <2>2 DEF Fits, StatementFits, kind
      <4> QED
        BY <4>1 DEF PartsIn, part
    <3>2. m \in resolveExpression(part(n, 1)) \cup resolveTypeExpression(part(n, 1))
      BY <2>2 DEF Resolved
    <3> QED
      BY <3>1, <3>2, <1>5, <1>6
  <2>3. CASE kind(n) \notin {"identifier", "call", "member", "assign", "declare"}
    BY <2>3 DEF Resolved
  <2> QED
    BY <2>1, <2>2, <2>3
<1> QED
  BY <1>2, <1>7


(* The compiler's part of the invariant depends on the nodes as they are.  *)
LEMMA PartsOfCompileInv ==
  ASSUME UNCHANGED parsed
  PROVE  /\ frames' \in Seq(Nat) /\ (\A i \in DOMAIN frames' : FrameOf(frames'[i])) => FramesFit'
         /\ (\A i \in DOMAIN open : isStatement(open[i])) => WalkedAll'
         /\ (/\ HasPlace(error'.culprit)
             /\ error'.message => error'.range = nodes[error'.culprit].range
             /\ ~error'.message =>
                  \/ frames' = <<>> /\ error'.culprit \in of("function") \cup of("class")
                  \/ frames' # <<>> /\ error'.culprit = Last(frames'))
            => Failed'
<1>1. contexts' = contexts /\ nodes' = nodes /\ astNodes' = astNodes /\ open' = open
  BY DEF parsed
<1>2. frames' \in Seq(Nat) /\ (\A i \in DOMAIN frames' : FrameOf(frames'[i])) => FramesFit'
  BY <1>1 DEF FramesFit, FrameOf, Nodes, kind
<1>3. (\A i \in DOMAIN open : isStatement(open[i])) => WalkedAll'
  BY <1>1 DEF WalkedAll, isStatement, rule, node
<1>4. of("function")' = of("function") /\ of("class")' = of("class")
  BY <1>1 DEF of, file
<1>5. HasPlace(error'.culprit) => HasPlace(error.culprit)'
  BY <1>1 DEF HasPlace, isLastOf, Nodes
<1> QED
  BY <1>1, <1>2, <1>3, <1>4, <1>5 DEF Failed

LEMMA SetRangeFacts ==
  ASSUME NEW e \in [culprit: Nat, message: BOOLEAN, range: Nat], NEW r \in Nat
  PROVE  /\ setRange(e, r) \in [culprit: Nat, message: BOOLEAN, range: Nat]
         /\ setRange(e, r).message /\ setRange(e, r).culprit = e.culprit
         /\ e.message => setRange(e, r) = e
         /\ ~e.message => setRange(e, r).range = r
BY DEF setRange

LEMMA RangesAreNumbers ==
  ASSUME WalkInv, NEW n \in Nodes
  PROVE  nodes[n].range \in Nat /\ n \in Nat
<1>1. WellBuilt(nodes)
  BY DEF WalkInv, Walked
<1>2. nodes[n] \in AnyNode /\ Nodes = 1..Len(nodes) /\ Len(nodes) \in Nat
  BY <1>1 DEF WellBuilt, Nodes
<1> QED
  BY <1>2 DEF AnyNode

(* A failure is of a node that has a place, and brings its range or meets  *)
(* the catch clause of that very node first.                               *)
LEMMA FailKeeps ==
  ASSUME IInv, NEW n, HasPlace(n), NEW e, Fail(e), phase \in {"preparing", "compiling"},
         \/ e = setRange(Thrown(n), nodes[n].range)
         \/ e = Thrown(n) /\ frames = <<>> /\ n \in of("function") \cup of("class")
         \/ e = Thrown(n) /\ frames # <<>> /\ n = Last(frames)
  PROVE  CompileInv'
<1>1. UNCHANGED parsed /\ frames' = frames /\ error' = e /\ phase' = "unwinding"
  BY DEF Fail
<1>2. nodes[n].range \in Nat /\ n \in Nat
  BY RangesAreNumbers DEF IInv, HasPlace
<1>3. /\ Thrown(n) \in [culprit: Nat, message: BOOLEAN, range: Nat]
      /\ Thrown(n).culprit = n /\ ~Thrown(n).message
  BY <1>2 DEF Thrown, NoError
<1>4. e \in [culprit: Nat, message: BOOLEAN, range: Nat] /\ e.culprit = n
  BY <1>2, <1>3, SetRangeFacts
<1>5. /\ e.message => e.range = nodes[n].range
      /\ ~e.message => \/ frames = <<>> /\ n \in of("function") \cup of("class")
                       \/ frames # <<>> /\ n = Last(frames)
  BY <1>2, <1>3, SetRangeFacts
<1>6. Failed'
  BY <1>1, <1>4, <1>5, PartsOfCompileInv
<1>7. FramesFit' /\ WalkedAll'
  BY <1>1, PartsOfCompileInv DEF IInv, CompileInv, FramesFit, WalkedAll
<1> QED
  BY <1>1, <1>4, <1>6, <1>7 DEF CompileInv

LEMMA CompileInit == Init => CompileInv
<1> SUFFICES ASSUME Init PROVE CompileInv
  OBVIOUS
<1>1. frames = <<>> /\ phase = "parsing" /\ error = NoError
  BY DEF Init
<1> QED
  BY <1>1 DEF CompileInv, FramesFit, WalkedAll, NoError

LEMMA CompileInvStays ==
  ASSUME IInv, UNCHANGED vars
  PROVE  CompileInv'
<1>1. UNCHANGED parsed /\ frames' = frames /\ phase' = phase /\ error' = error
  BY DEF vars
<1>2. FramesFit'
  BY <1>1, PartsOfCompileInv DEF IInv, CompileInv, FramesFit
<1>3. WalkedAll'
  <2>1. CASE phase = "parsing"
    BY <1>1, <2>1 DEF WalkedAll
  <2>2. CASE phase # "parsing"
    BY <1>1, <2>2, PartsOfCompileInv DEF IInv, CompileInv, WalkedAll
  <2> QED
    BY <2>1, <2>2
<1>4. phase' \in {"unwinding", "failed"} => Failed'
  BY <1>1, PartsOfCompileInv DEF IInv, CompileInv, Failed
<1> QED
  BY <1>1, <1>2, <1>3, <1>4 DEF IInv, CompileInv

(* While the tree is walked nothing is compiled yet.                       *)
LEMMA CompileInvWalks ==
  ASSUME IInv, Walk
  PROVE  CompileInv'
<1>1. /\ phase = "parsing" /\ frames' = frames /\ error' = error
      /\ phase' = "parsing" \/ ExitWalang
  BY DEF Walk, Exit, ExitRule, ExitIdentifier, ExitPrefixExpression, ExitParenthesesExpression,
     ExitBinaryExpression, ExitTernaryExpression, ExitCallOrMemberExpression, ExitExpressionOrDeclareOrReturn,
     ExitAssignStatement, ExitBreakStatement, ExitBlockStatement, ExitWhileStatement, ExitIfStatement,
     ExitFunctionStatement, ExitClassStatement, ExitStatement, ExitWalang
<1>2. frames' = <<>>
  BY <1>1 DEF IInv, CompileInv
<1>3. FramesFit'
  BY <1>2 DEF FramesFit
<1>4. CASE phase' = "parsing"
  BY <1>1, <1>2, <1>3, <1>4 DEF IInv, CompileInv, WalkedAll
<1>5. CASE ExitWalang
  <2>1. WalkedAll' /\ phase' = "preparing"
    BY <1>5, PartsOfCompileInv DEF ExitWalang
  <2> QED
    BY <1>1, <1>2, <1>3, <2>1 DEF IInv, CompileInv
<1> QED
  BY <1>1, <1>4, <1>5

LEMMA CompileInvPrepares ==
  ASSUME IInv, PrepareFails \/ PrepareRecursive \/ Prepared
  PROVE  CompileInv'
<1>1. WalkInv /\ CompileInv /\ phase = "preparing" /\ frames = <<>>
  BY DEF IInv, CompileInv, PrepareFails, PrepareRecursive, Prepared
<1>2. \A n \in file : HasPlace(n)
  BY <1>1, FileNodes DEF CompileInv, WalkedAll, FrameOf, HasPlace
<1>3. \A n \in of("function") \cup of("class") : HasPlace(n)
  BY <1>2 DEF of
<1>4. CASE PrepareFails
  <2>1. PICK n \in of("function") \cup of("class") : Fail(Thrown(n))
    BY <1>4 DEF PrepareFails
  <2> QED
    BY <2>1, <1>1, <1>3, FailKeeps
<1>5. CASE PrepareRecursive
  <2>1. PICK n \in of("class") : Fail(setRange(Thrown(n), nodes[n].range))
    BY <1>5 DEF PrepareRecursive
  <2> QED
    BY <2>1, <1>1, <1>3, FailKeeps
<1>6. CASE Prepared
  <2>1. UNCHANGED parsed /\ frames' = frames /\ error' = error /\ phase' = "compiling"
    BY <1>6 DEF Prepared
  <2>2. FramesFit' /\ WalkedAll'
    BY <1>1, <2>1, PartsOfCompileInv DEF CompileInv, FramesFit, WalkedAll
  <2> QED
    BY <1>1, <2>1, <2>2 DEF CompileInv
<1> QED
  BY <1>4, <1>5, <1>6

LEMMA CompileInvEnters ==
  ASSUME IInv, Enter
  PROVE  CompileInv'
<1>1. WalkInv /\ CompileInv /\ phase = "compiling"
  BY DEF IInv, Enter
<1>2. PICK n \in (IF frames = <<>> THEN file ELSE Compiled(top)) : frames' = Append(frames, n)
  BY DEF Enter
<1>3. UNCHANGED parsed /\ phase' = phase /\ error' = error
  BY DEF Enter
<1>4. frames \in Seq(Nat) /\ \A i \in DOMAIN frames : FrameOf(frames[i])
  BY <1>1 DEF CompileInv, FramesFit
<1>5. FrameOf(n)
  <2>1. CASE frames = <<>>
    BY <2>1, <1>1, <1>2, FileNodes DEF CompileInv, WalkedAll
  <2>2. CASE frames # <<>>
    <3>1. top \in Nodes
      BY <2>2, <1>4 DEF top, Last, FrameOf
    <3> QED
      BY <2>2, <3>1, <1>1, <1>2, CompiledFrames
  <2> QED
    BY <2>1, <2>2
<1>6. n \in Nat
  BY <1>1, <1>5, RangesAreNumbers DEF FrameOf
<1>7. frames' \in Seq(Nat) /\ \A i \in DOMAIN frames' : FrameOf(frames'[i])
  BY <1>2, <1>4, <1>5, <1>6
<1>8. FramesFit' /\ WalkedAll'
  BY <1>1, <1>3, <1>7, PartsOfCompileInv DEF CompileInv, WalkedAll
<1> QED
  BY <1>1, <1>3, <1>8 DEF CompileInv

LEMMA CompileInvRefuses ==
  ASSUME IInv, Refused \/ UnknownName
  PROVE  CompileInv'
<1>1. WalkInv /\ CompileInv /\ phase = "compiling" /\ frames # <<>>
  BY DEF IInv, Refused, UnknownName
<1>2. FrameOf(top)
  BY <1>1 DEF CompileInv, FramesFit, top, Last
<1>3. CASE Refused
  <2>1. kind(top) \in Expressions \/ kind(top) \in {"declare", "assign", "break"}
    BY <1>3, Kinds DEF Refused
  <2>2. HasPlace(top)
    BY <1>1, <1>2, <2>1, ExpressionsHavePlaces DEF FrameOf
  <2> QED
    BY <1>1, <1>3, <2>2, FailKeeps DEF Refused, top
<1>4. CASE UnknownName
  <2>1. PICK n \in Resolved(top) : Fail(setRange(Thrown(n), nodes[n].range))
    BY <1>4 DEF UnknownName
  <2>2. HasPlace(n)
    BY <1>1, <1>2, <2>1, ResolvedPlaces DEF FrameOf
  <2> QED
    BY <1>1, <2>1, <2>2, FailKeeps
<1> QED
  BY <1>3, <1>4

(* The first clause an error passes is that of the node it is about, and   *)
(* it has its range from there on.                                         *)
LEMMA CompileInvCatches ==
  ASSUME IInv, Catch
  PROVE  CompileInv'
<1>1. /\ WalkInv /\ CompileInv /\ Failed /\ phase = "unwinding" /\ frames # <<>>
      /\ frames \in Seq(Nat) /\ \A i \in DOMAIN frames : FrameOf(frames[i])
  BY DEF IInv, CompileInv, FramesFit, Catch
<1>2. /\ UNCHANGED parsed /\ phase' = phase /\ frames' = Front(frames)
      /\ error' = setRange(error, nodes[top].range)
  BY DEF Catch
<1>3. /\ frames' \in Seq(Nat) /\ \A i \in DOMAIN frames' : FrameOf(frames'[i])
      /\ top \in Nodes
  <2>1. Len(frames) \in Nat /\ Len(frames) # 0 /\ DOMAIN frames = 1..Len(frames)
    BY <1>1
  <2>2. frames' = SubSeq(frames, 1, Len(frames) - 1)
    BY <1>2 DEF Front
  <2>3. /\ frames' \in Seq(Nat) /\ DOMAIN frames' = 1..(Len(frames) - 1)
        /\ \A i \in 1..(Len(frames) - 1) : frames'[i] = frames[i] /\ i \in DOMAIN frames
    <3> DEFINE l == Len(frames) - 1
    <3>1. l \in Nat /\ l <= Len(frames) /\ \A i \in 1..l : i \in 1..Len(frames)
      BY <2>1
    <3>2. /\ SubSeq(frames, 1, l) \in Seq(Nat) /\ DOMAIN SubSeq(frames, 1, l) = 1..l
          /\ \A i \in 1..l : SubSeq(frames, 1, l)[i] = frames[i]
      <4> HIDE DEF l
      <4>1. \A i \in 1..l : frames[i] \in Nat
        BY <1>1, <2>1, <3>1
      <4>2. SubSeq(frames, 1, l) = [i \in 1..l |-> frames[i]]
        BY <1>1, <3>1
      <4> QED
        BY <3>1, <4>1, <4>2
    <3> QED
      BY <2>1, <2>2, <3>1, <3>2
  <2>4. \A i \in DOMAIN frames' : FrameOf(frames'[i])
    BY <1>1, <2>3
  <2>5. top \in Nodes
    BY <1>1, <2>1 DEF top, Last, FrameOf
  <2> QED
    BY <2>3, <2>4, <2>5
<1>4. nodes[top].range \in Nat /\ error \in [culprit: Nat, message: BOOLEAN, range: Nat]
  BY <1>1, <1>3, RangesAreNumbers DEF CompileInv
<1>5. /\ error' \in [culprit: Nat, message: BOOLEAN, range: Nat]
      /\ error'.message /\ error'.culprit = error.culprit
      /\ error.message => error' = error
      /\ ~error.message => error'.range = nodes[top].range
  BY <1>2, <1>4, SetRangeFacts
<1>6. error'.range = nodes[error'.culprit].range
  BY <1>1, <1>5 DEF Failed, top
<1>7. Failed'
  BY <1>1, <1>2, <1>5, <1>6, PartsOfCompileInv DEF Failed
<1>8. FramesFit' /\ WalkedAll'
  BY <1>1, <1>2, <1>3, PartsOfCompileInv DEF CompileInv, WalkedAll
<1> QED
  BY <1>1, <1>2, <1>5, <1>7, <1>8 DEF CompileInv

LEMMA CompileInvReports ==
  ASSUME IInv, Report
  PROVE  CompileInv'
<1>1. WalkInv /\ CompileInv /\ Failed /\ phase = "unwinding" /\ frames = <<>>
  BY DEF IInv, CompileInv, Report
<1>2. UNCHANGED parsed /\ phase' = "failed" /\ frames' = frames /\ error' = error
  BY DEF Report
<1>3. FramesFit' /\ WalkedAll' /\ Failed'
  BY <1>1, <1>2, PartsOfCompileInv DEF CompileInv, FramesFit, WalkedAll, Failed
<1> QED
  BY <1>1, <1>2, <1>3 DEF CompileInv

LEMMA IInvStep ==
  ASSUME IInv, [Next]_vars
  PROVE  IInv'
<1>1. WalkInv'
  BY WalkStep DEF IInv
<1>2. CompileInv'
  BY CompileInvStays, CompileInvWalks, CompileInvPrepares, CompileInvEnters, CompileInvRefuses, CompileInvCatches,
     CompileInvReports DEF Next, Compile
<1> QED
  BY <1>1, <1>2 DEF IInv


-----------------------------------------------------------------------------
(* What holds of every run.                                                *)

LEMMA IInvHolds == Spec => []IInv
<1>1. Init => IInv
  BY WalkInit, CompileInit DEF IInv
<1>2. IInv /\ [Next]_vars => IInv'
  BY IInvStep
<1> QED
  BY <1>1, <1>2, PTL DEF Spec

(* The syntax tree is well-built whatever is written: every part of a node *)
(* is a node, of a kind that the grammar lets stand there, and the chains  *)
(* have their operands (the listener's casts, which nothing checks).  What *)
(* the compiler is in are nodes, and the statements among them that can be *)
(* refused have their range.                                               *)
THEOREM TreesAreWellBuilt == Spec => [](WellBuilt(nodes) /\ FramesFit)
<1>1. IInv => WellBuilt(nodes) /\ FramesFit
  BY DEF IInv, WalkInv, Walked, CompileInv
<1> QED
  BY <1>1, IInvHolds, PTL

LEMMA LastContext ==
  ASSUME WalkInv, NEW n, HasPlace(n)
  PROVE  nodes[n].range = IF contextsOf(n) = {} THEN 0 ELSE Max(contextsOf(n))
<1>1. contexts \in Seq(Context) /\ DOMAIN contexts = 1..Len(contexts) /\ Len(contexts) \in Nat
  BY DEF WalkInv, Walked
<1>2. CASE isLastOf(nodes[n].range, n)
  <2> DEFINE r == nodes[n].range
  <2>1. r \in contextsOf(n) /\ \A d \in contextsOf(n) : d <= r
    BY <1>2 DEF isLastOf, contextsOf
  <2>2. contextsOf(n) \subseteq Int
    BY <1>1 DEF contextsOf
  <2>3. \A m \in contextsOf(n) : (\A d \in contextsOf(n) : m >= d) => m = r
    BY <2>1, <2>2
  <2>4. r \in contextsOf(n) /\ \A d \in contextsOf(n) : r >= d
    BY <2>1, <2>2
  <2>5. Max(contextsOf(n)) = r
    <3> HIDE DEF r
    <3> QED
      BY <2>3, <2>4 DEF Max
  <2> QED
    BY <2>1, <2>5
<1>3. CASE nodes[n].range = 0 /\ \A c \in DOMAIN contexts : astNodes[c] # n
  BY <1>3 DEF contextsOf
<1> QED
  BY <1>2, <1>3 DEF HasPlace

(* An error says where the innermost node that failed was written, with    *)
(* the parentheses around it: the first catch clause it passes is that of  *)
(* the node itself, and no later one changes the range (setRangeAndThrow,  *)
(* compileStatement, compileExpression).                                   *)
THEOREM ErrorsReportInnermost == Spec => []ReportsInnermost
<1>1. IInv => ReportsInnermost
  <2> SUFFICES ASSUME IInv, phase = "failed" PROVE ReportsInnermost
    BY DEF ReportsInnermost
  <2>1. WalkInv /\ Failed /\ frames = <<>>
    BY DEF IInv, CompileInv
  <2>2. /\ HasPlace(error.culprit)
        /\ error.message => error.range = nodes[error.culprit].range
        /\ ~error.message => error.culprit \in of("function") \cup of("class")
    BY <2>1 DEF Failed
  <2>3. nodes[error.culprit].range =
          IF contextsOf(error.culprit) = {} THEN 0 ELSE Max(contextsOf(error.culprit))
    BY <2>1, <2>2, LastContext
  <2> QED
    BY <2>2, <2>3 DEF ReportsInnermost
<1> QED
  BY <1>1, IInvHolds, PTL

LEMMA Bodies ==
  ASSUME WalkInv, NEW c \in DOMAIN contexts, rule(c) = "ternary"
  PROVE  body(c, 1) = astNodes[c] /\ body(c, 2) = part(astNodes[c], 3)
<1> DEFINE f == [m \in Nodes |-> part(m, 3)]
           x == astNodes[c]
<1>0. x \in Nodes /\ f[x] = part(x, 3)
  BY DEF WalkInv, NodeOfContext
<1> HIDE DEF f, x
<1>1. Iterate(f, x, 0) = x
  <2>1. PICK g : Iterate(f, x, 0) = g[0] /\ \A k \in 0..0 : IterateAt(f, x, g, k)
    BY IterateEquation
  <2> QED
    BY <2>1 DEF IterateAt
<1>2. Iterate(f, x, 1) = f[x]
  <2>1. PICK g : Iterate(f, x, 1) = g[1] /\ \A k \in 0..1 : IterateAt(f, x, g, k)
    BY IterateEquation
  <2>2. 1 \in 0..1 /\ 0 \in 0..1 /\ 1 - 1 = 0 /\ 1 # 0
    OBVIOUS
  <2>3. g[0] = x
    BY <2>1, <2>2 DEF IterateAt
  <2>4. g[1] = f[g[0]]
    BY <2>1, <2>2 DEF IterateAt
  <2> QED
    BY <2>1, <2>3, <2>4
<1>3. 1 - 1 = 0 /\ 2 - 1 = 1
  OBVIOUS
<1> QED
  BY <1>0, <1>1, <1>2, <1>3 DEF body, f, x

(* The bodies of a ternary expression nest to the right as long as there   *)
(* are no more than two of them (addBody).                                 *)
THEOREM OnlyShortTernariesNestRight == Spec => []TernaryNestsRight
<1>1. IInv => TernaryNestsRight
  <2> SUFFICES ASSUME IInv, NEW c \in DOMAIN contexts, rule(c) = "ternary"
               PROVE  nestsRight(c) <=> Len(contexts[c].parts) < 7
    BY DEF TernaryNestsRight
  <2> DEFINE p == NodesOf(contexts[c].parts)
             root == astNodes[c]
             third == part(root, 3)
  <2>1. WalkInv /\ contexts[c].parts \in Seq(Nat)
    <3>1. WalkInv /\ contexts \in Seq(Context)
      BY DEF IInv, WalkInv, Walked
    <3>2. contexts[c] \in Context
      BY <3>1
    <3> QED
      BY <3>1, <3>2 DEF Context
  <2>2. Len(p) = Len(contexts[c].parts)
    <3>1. p = [i \in 1..Len(contexts[c].parts) |-> astNodes[contexts[c].parts[i]]]
      BY <2>1 DEF NodesOf
    <3>2. \A i \in 1..Len(contexts[c].parts) : astNodes[contexts[c].parts[i]] \in Nat
      <4>1. /\ astNodes \in Seq(Nat) /\ DOMAIN astNodes = DOMAIN contexts
            /\ \A i \in DOMAIN contexts[c].parts : contexts[c].parts[i] \in DOMAIN contexts
        BY <2>1 DEF WalkInv, Walked
      <4>2. DOMAIN contexts[c].parts = 1..Len(contexts[c].parts)
        BY <2>1
      <4>3. \A d \in DOMAIN contexts : astNodes[d] \in Nat
        <5>1. \A d \in DOMAIN astNodes : astNodes[d] \in Nat
          BY <4>1
        <5> QED
          BY <4>1, <5>1
      <4> QED
        BY <4>1, <4>2, <4>3
    <3> QED
      BY <2>1, <3>1, <3>2
  <2>3. Len(p) >= 3 /\ Nesting(nodes, root, p)
    BY <2>1 DEF WalkInv, TernaryTrees
  <2>4. PICK n \in Nat : Len(p) = 2 * n + 1
    BY <2>1 DEF WalkInv, TernaryTrees
  <2>5. body(c, 1) = root /\ body(c, 2) = third
    BY <2>1, Bodies
  <2>6. /\ kind(root) = "ternary"
        /\ Len(p) \in {3, 5} => part(root, 1) = p[1] /\ part(root, 2) = p[2]
        /\ Len(p) = 3 => third = p[3]
        /\ Len(p) = 5 => /\ kind(third) = "ternary"
                         /\ part(third, 1) = p[3] /\ part(third, 2) = p[4] /\ part(third, 3) = p[5]
        /\ Len(p) >= 7 => part(third, 1) # p[3]
    <3>1. third = nodes[root].parts[3]
      BY DEF part
    <3> HIDE DEF third, p, root
    <3>2. /\ root \in Kind(nodes, "ternary")
          /\ Len(p) \in {3, 5} => nodes[root].parts[1] = p[1] /\ nodes[root].parts[2] = p[2]
          /\ Len(p) = 3 => third = p[3]
          /\ Len(p) = 5 => /\ third \in Kind(nodes, "ternary")
                           /\ \A i \in 1..3 : nodes[third].parts[i] = p[i + 2]
          /\ Len(p) >= 7 => nodes[third].parts[1] # p[3]
      BY <2>3, <3>1 DEF Nesting
    <3>3. Len(p) = 5 => nodes[third].parts[1] = p[3] /\ nodes[third].parts[2] = p[4] /\ nodes[third].parts[3] = p[5]
      <4>1. 1 \in 1..3 /\ 2 \in 1..3 /\ 3 \in 1..3 /\ 1 + 2 = 3 /\ 2 + 2 = 4 /\ 3 + 2 = 5
        OBVIOUS
      <4> QED
        BY <3>2, <4>1
    <3> QED
      BY <3>2, <3>3 DEF Kind, kind, part
  <2> HIDE DEF p, root, third
  <2>7. nestsRight(c) = (/\ \A i \in 1..(Len(p) \div 2) : /\ kind(body(c, i)) = "ternary"
                                                          /\ part(body(c, i), 1) = p[2 * i - 1]
                                                          /\ part(body(c, i), 2) = p[2 * i]
                         /\ part(body(c, Len(p) \div 2), 3) = p[Len(p)])
    BY DEF nestsRight, p
  <2>8. Len(p) \div 2 = n
    BY <2>4
  <2>9. CASE n = 1
    <3>1. Len(p) = 3 /\ 1..n = {1} /\ 2 * 1 - 1 = 1 /\ 2 * 1 = 2
      BY <2>4, <2>9
    <3>2. nestsRight(c)
      BY <2>5, <2>6, <2>7, <2>8, <2>9, <3>1 DEF third
    <3> QED
      BY <2>2, <3>1, <3>2
  <2>10. CASE n = 2
    <3>1. Len(p) = 5 /\ 1..n = {1, 2} /\ 2 * 1 - 1 = 1 /\ 2 * 1 = 2 /\ 2 * 2 - 1 = 3 /\ 2 * 2 = 4
      BY <2>4, <2>10
    <3>2. nestsRight(c)
      BY <2>5, <2>6, <2>7, <2>8, <2>10, <3>1
    <3> QED
      BY <2>2, <3>1, <3>2
  <2>11. CASE n >= 3
    <3>1. Len(p) >= 7 /\ 2 \in 1..n /\ 2 * 2 - 1 = 3
      BY <2>4, <2>11
    <3>2. ~nestsRight(c)
      BY <2>5, <2>6, <2>7, <2>8, <3>1
    <3> QED
      BY <2>2, <3>1, <3>2
  <2>12. n = 1 \/ n = 2 \/ n >= 3
    BY <2>3, <2>4
  <2> QED
    BY <2>9, <2>10, <2>11, <2>12
<1> QED
  BY <1>1, IInvHolds, PTL
-----------------------------------------------------------------------------
(* Every node is held once.                                                *)

(* The places a node may have: a part of another node, or a root, that is  *)
(* the node of an open context.  The roots are entry 0 of a book.          *)
Book(h, w) == [m \in {0} \cup DOMAIN h |-> IF m = 0 THEN w ELSE h[m].parts]
SlotsOf(b) == UNION {{m} \X DOMAIN b[m] : m \in DOMAIN b}
At(b, s) == b[s[1]][s[2]]
Once(b, n) == \E s \in SlotsOf(b) : At(b, s) = n /\ \A u \in SlotsOf(b) : At(b, u) = n => u = s
HeldOnce(h, w, X) ==
  /\ \A s \in SlotsOf(Book(h, w)) : At(Book(h, w), s) \in DOMAIN h
  /\ \A n \in DOMAIN h \ X : Once(Book(h, w), n)

LEMMA BookSlots ==
  ASSUME NEW h, NEW w, 0 \notin DOMAIN h
  PROVE  /\ \A s \in SlotsOf(Book(h, w)) :
              /\ s = <<s[1], s[2]>>
              /\ \/ s[1] = 0 /\ s[2] \in DOMAIN w /\ At(Book(h, w), s) = w[s[2]]
                 \/ /\ s[1] \in DOMAIN h /\ s[2] \in DOMAIN h[s[1]].parts
                    /\ At(Book(h, w), s) = h[s[1]].parts[s[2]]
         /\ \A i \in DOMAIN w : <<0, i>> \in SlotsOf(Book(h, w)) /\ At(Book(h, w), <<0, i>>) = w[i]
         /\ \A m \in DOMAIN h : \A i \in DOMAIN h[m].parts :
              <<m, i>> \in SlotsOf(Book(h, w)) /\ At(Book(h, w), <<m, i>>) = h[m].parts[i]
<1> DEFINE b == Book(h, w)
<1>1. DOMAIN b = {0} \cup DOMAIN h /\ b[0] = w /\ \A m \in DOMAIN h : b[m] = h[m].parts
  BY DEF Book
<1> HIDE DEF b
<1>2. ASSUME NEW s \in SlotsOf(b)
      PROVE  /\ s = <<s[1], s[2]>>
             /\ \/ s[1] = 0 /\ s[2] \in DOMAIN w /\ At(b, s) = w[s[2]]
                \/ /\ s[1] \in DOMAIN h /\ s[2] \in DOMAIN h[s[1]].parts
                   /\ At(b, s) = h[s[1]].parts[s[2]]
  <2>1. PICK m \in DOMAIN b : s \in {m} \X DOMAIN b[m]
    BY DEF SlotsOf
  <2>2. s = <<s[1], s[2]>> /\ s[1] = m /\ s[2] \in DOMAIN b[m]
    BY <2>1
  <2> QED
    BY <1>1, <2>2 DEF At
<1>3. ASSUME NEW m \in DOMAIN b, NEW i \in DOMAIN b[m]
      PROVE  <<m, i>> \in SlotsOf(b) /\ At(b, <<m, i>>) = b[m][i]
  <2>1. <<m, i>> \in {m} \X DOMAIN b[m]
    OBVIOUS
  <2> QED
    BY <2>1 DEF SlotsOf, At
<1> QED
  BY <1>1, <1>2, <1>3 DEF b

(* The node made is in one place, and the others, except those in X, have  *)
(* changed places, one for one: src tells where what is in a place was.    *)
Moves(b, b1, D, X, made, place, src) ==
  /\ place \in SlotsOf(b1) /\ At(b1, place) = made
  /\ \A u \in SlotsOf(b1) \ {place} :
        /\ At(b1, u) \in D
        /\ At(b1, u) \notin X => src[u] \in SlotsOf(b) /\ At(b, src[u]) = At(b1, u)
  /\ \A u, v \in SlotsOf(b1) \ {place} :
        At(b1, u) \notin X /\ At(b1, v) \notin X /\ src[u] = src[v] => u = v
  /\ \A s \in SlotsOf(b) : At(b, s) \notin X =>
        \E u \in SlotsOf(b1) \ {place} : src[u] = s /\ At(b1, u) = At(b, s)
LEMMA Moved ==
  ASSUME NEW h, NEW w, NEW h1, NEW w1, NEW X, NEW made, NEW place, NEW src,
         HeldOnce(h, w, X), made \notin DOMAIN h, DOMAIN h1 = DOMAIN h \cup {made},
         Moves(Book(h, w), Book(h1, w1), DOMAIN h, X, made, place, src)
  PROVE  HeldOnce(h1, w1, X)
<1> DEFINE b == Book(h, w)
           b1 == Book(h1, w1)
<1>0. Moves(b, b1, DOMAIN h, X, made, place, src)
  OBVIOUS
<1>6. HeldOnce(h, w, X) = (/\ \A s \in SlotsOf(b) : At(b, s) \in DOMAIN h
                          /\ \A n \in DOMAIN h \ X : Once(b, n))
  BY DEF HeldOnce
<1>7. HeldOnce(h1, w1, X) = (/\ \A s \in SlotsOf(b1) : At(b1, s) \in DOMAIN h1
                            /\ \A n \in DOMAIN h1 \ X : Once(b1, n))
  BY DEF HeldOnce
<1> HIDE DEF b, b1
<1>1. \A u \in SlotsOf(b1) \ {place} : At(b1, u) \in DOMAIN h
  BY <1>0 DEF Moves
<1>2. place \in SlotsOf(b1) /\ At(b1, place) = made
  BY <1>0 DEF Moves
<1>3. \A s \in SlotsOf(b1) : At(b1, s) \in DOMAIN h1
  BY <1>1, <1>2
<1>4. Once(b1, made)
  BY <1>1, <1>2 DEF Once
<1>5. ASSUME NEW n \in DOMAIN h, n \notin X PROVE Once(b1, n)
  <2>1. PICK s \in SlotsOf(b) : At(b, s) = n /\ \A u \in SlotsOf(b) : At(b, u) = n => u = s
    BY <1>5, <1>6 DEF Once
  <2>2. \A u \in SlotsOf(b1) \ {place} : At(b1, u) = n => src[u] = s
    BY <1>0, <1>5, <2>1 DEF Moves
  <2>3. \A u, v \in SlotsOf(b1) \ {place} : At(b1, u) = n /\ At(b1, v) = n => u = v
    BY <1>0, <1>5, <2>2 DEF Moves
  <2>4. PICK u \in SlotsOf(b1) \ {place} : At(b1, u) = n
    BY <1>0, <1>5, <2>1 DEF Moves
  <2> QED
    BY <1>2, <2>3, <2>4, <1>5 DEF Once
<1> QED
  BY <1>3, <1>4, <1>5, <1>7

(* A node takes roots as its parts (p tells which) and becomes the root at *)
(* q, where one of them was or nothing.                                    *)
Taken(h, w, h1, w1, X, made, q, p) ==
  LET parts == h1[made].parts
  IN  /\ 0 \notin DOMAIN h /\ made \notin DOMAIN h /\ made # 0 /\ DOMAIN h1 = DOMAIN h \cup {made}
      /\ \A m \in DOMAIN h : h1[m].parts = h[m].parts
      /\ q \in DOMAIN w1 /\ w1[q] = made
      /\ \A i \in DOMAIN w1 \ {q} : i \in DOMAIN w /\ w1[i] = w[i]
      /\ \A j \in DOMAIN parts :
            /\ parts[j] \in DOMAIN h
            /\ parts[j] \notin X => p[j] \in DOMAIN w /\ w[p[j]] = parts[j] /\ p[j] \notin DOMAIN w1 \ {q}
      /\ \A i, j \in DOMAIN parts : parts[i] \notin X /\ parts[j] \notin X /\ p[i] = p[j] => i = j
      /\ \A i \in DOMAIN w : w[i] \notin X =>
            i \in DOMAIN w1 \ {q} \/ \E j \in DOMAIN parts : p[j] = i /\ parts[j] = w[i]
LEMMA Takes ==
  ASSUME NEW h, NEW w, NEW h1, NEW w1, NEW X, NEW made, NEW q, NEW p,
         HeldOnce(h, w, X), Taken(h, w, h1, w1, X, made, q, p)
  PROVE  HeldOnce(h1, w1, X)
<1>0. /\ 0 \notin DOMAIN h /\ made \notin DOMAIN h /\ made # 0 /\ DOMAIN h1 = DOMAIN h \cup {made}
      /\ \A m \in DOMAIN h : h1[m].parts = h[m].parts
      /\ q \in DOMAIN w1 /\ w1[q] = made
      /\ \A i \in DOMAIN w1 \ {q} : i \in DOMAIN w /\ w1[i] = w[i]
      /\ \A j \in DOMAIN h1[made].parts :
            /\ h1[made].parts[j] \in DOMAIN h
            /\ h1[made].parts[j] \notin X =>
                 p[j] \in DOMAIN w /\ w[p[j]] = h1[made].parts[j] /\ p[j] \notin DOMAIN w1 \ {q}
      /\ \A i, j \in DOMAIN h1[made].parts :
            h1[made].parts[i] \notin X /\ h1[made].parts[j] \notin X /\ p[i] = p[j] => i = j
      /\ \A i \in DOMAIN w : w[i] \notin X =>
            i \in DOMAIN w1 \ {q} \/ \E j \in DOMAIN h1[made].parts : p[j] = i /\ h1[made].parts[j] = w[i]
  BY DEF Taken
<1> DEFINE b == Book(h, w)
           b1 == Book(h1, w1)
           place == <<0, q>>
           src == [u \in SlotsOf(b1) |-> IF u[1] = made THEN <<0, p[u[2]]>> ELSE u]
<1>1. 0 \notin DOMAIN h1
  BY <1>0
<1>2. place \in SlotsOf(b1) /\ At(b1, place) = made
  BY <1>0, <1>1, BookSlots
<1>3. ASSUME NEW u \in SlotsOf(b1) \ {place}
      PROVE  /\ u = <<u[1], u[2]>> /\ At(b1, u) \in DOMAIN h
             /\ \/ /\ u[1] = made /\ u[2] \in DOMAIN h1[made].parts /\ src[u] = <<0, p[u[2]]>>
                   /\ At(b1, u) = h1[made].parts[u[2]]
                \/ /\ u[1] # made /\ src[u] = u /\ u \in SlotsOf(b) /\ At(b, u) = At(b1, u)
                   /\ u[1] = 0 => u[2] \in DOMAIN w1 \ {q}
  <2>1. /\ u = <<u[1], u[2]>>
        /\ \/ u[1] = 0 /\ u[2] \in DOMAIN w1 /\ At(b1, u) = w1[u[2]]
           \/ u[1] \in DOMAIN h1 /\ u[2] \in DOMAIN h1[u[1]].parts /\ At(b1, u) = h1[u[1]].parts[u[2]]
    BY <1>0, <1>1, BookSlots
  <2>2. src[u] = IF u[1] = made THEN <<0, p[u[2]]>> ELSE u
    OBVIOUS
  <2> HIDE DEF src, b, b1
  <2>3. CASE u[1] = made
    BY <2>1, <2>2, <2>3, <1>0
  <2>4. CASE u[1] # made
    <3>1. u[1] = 0 => u[2] \in DOMAIN w1 \ {q}
      BY <2>1, <1>1
    <3>2. u \in SlotsOf(b) /\ At(b, u) = At(b1, u)
      <4>1. CASE u[1] = 0
        <5>1. u[2] \in DOMAIN w /\ w[u[2]] = w1[u[2]] /\ At(b1, u) = w1[u[2]]
          BY <2>1, <3>1, <4>1, <1>0, <1>1
        <5> QED
          BY <2>1, <4>1, <5>1, <1>0, BookSlots DEF b
      <4>2. CASE u[1] # 0
        <5>1. u[1] \in DOMAIN h /\ u[2] \in DOMAIN h[u[1]].parts /\ At(b1, u) = h[u[1]].parts[u[2]]
          BY <2>1, <2>4, <4>2, <1>0
        <5> QED
          BY <2>1, <5>1, <1>0, BookSlots DEF b
      <4> QED
        BY <4>1, <4>2
    <3>3. At(b, u) \in DOMAIN h
      BY <3>2 DEF HeldOnce, b
    <3> QED
      BY <2>1, <2>2, <2>4, <3>1, <3>2, <3>3
  <2> QED
    BY <2>3, <2>4
<1>4. ASSUME NEW i, i \in DOMAIN w PROVE <<0, i>> \in SlotsOf(b) /\ At(b, <<0, i>>) = w[i]
  BY <1>0, <1>4, BookSlots
<1>5. \A j \in DOMAIN h1[made].parts : <<made, j>> \in SlotsOf(b1) \ {place}
  BY <1>0, <1>1, BookSlots
<1>6. \A i \in DOMAIN w1 \ {q} : <<0, i>> \in SlotsOf(b1) \ {place}
  BY <1>0, <1>1, BookSlots
<1>7. \A s \in SlotsOf(b) : s[1] # 0 => s \in SlotsOf(b1) \ {place} /\ s[1] # made
  <2> SUFFICES ASSUME NEW s \in SlotsOf(b), s[1] # 0 PROVE s \in SlotsOf(b1) \ {place} /\ s[1] # made
    OBVIOUS
  <2>1. s = <<s[1], s[2]>> /\ s[1] \in DOMAIN h /\ s[2] \in DOMAIN h[s[1]].parts
    BY <1>0, BookSlots
  <2>2. s[1] \in DOMAIN h1 /\ s[2] \in DOMAIN h1[s[1]].parts /\ s[1] # made
    BY <1>0, <2>1
  <2> QED
    BY <1>1, <2>1, <2>2, BookSlots
<1>8. \A s \in SlotsOf(b) : s = <<s[1], s[2]>> /\ (s[1] = 0 => s[2] \in DOMAIN w /\ At(b, s) = w[s[2]])
  BY <1>0, BookSlots
<1>12. b = Book(h, w) /\ b1 = Book(h1, w1)
  OBVIOUS
<1> HIDE DEF src, b, b1, place
<1>9. ASSUME NEW u \in SlotsOf(b1) \ {place}
      PROVE  /\ At(b1, u) \in DOMAIN h
             /\ At(b1, u) \notin X => src[u] \in SlotsOf(b) /\ At(b, src[u]) = At(b1, u)
  BY <1>0, <1>3, <1>4
<1>10. ASSUME NEW u \in SlotsOf(b1) \ {place}, NEW v \in SlotsOf(b1) \ {place},
              At(b1, u) \notin X, At(b1, v) \notin X, src[u] = src[v]
       PROVE  u = v
  <2>1. CASE u[1] = made /\ v[1] = made
    <3>1. p[u[2]] = p[v[2]]
      BY <2>1, <1>3, <1>10
    <3>2. u[2] = v[2]
      BY <2>1, <3>1, <1>0, <1>3, <1>10
    <3> QED
      BY <2>1, <3>2, <1>3
  <2>2. CASE u[1] # made /\ v[1] # made
    BY <2>2, <1>3, <1>10
  <2>3. ASSUME NEW x \in SlotsOf(b1) \ {place}, NEW y \in SlotsOf(b1) \ {place},
               At(b1, x) \notin X, src[x] = src[y], x[1] = made, y[1] # made
        PROVE  FALSE
    <3>1. x[2] \in DOMAIN h1[made].parts /\ src[x] = <<0, p[x[2]]>> /\ h1[made].parts[x[2]] \notin X
      BY <2>3, <1>3
    <3>2. y = <<0, p[x[2]]>>
      BY <2>3, <3>1, <1>3
    <3>3. p[x[2]] \in DOMAIN w1 \ {q}
      BY <2>3, <3>2, <1>3
    <3> QED
      BY <3>1, <3>3, <1>0
  <2> QED
    BY <2>1, <2>2, <2>3, <1>10
<1>11. ASSUME NEW s \in SlotsOf(b), At(b, s) \notin X
       PROVE  \E u \in SlotsOf(b1) \ {place} : src[u] = s /\ At(b1, u) = At(b, s)
  <2>1. CASE s[1] # 0
    <3>1. s \in SlotsOf(b1) \ {place} /\ s[1] # made
      BY <2>1, <1>7
    <3> QED
      BY <3>1, <1>3
  <2>2. CASE s[1] = 0
    <3>1. s = <<0, s[2]>> /\ s[2] \in DOMAIN w /\ At(b, s) = w[s[2]]
      BY <2>2, <1>8
    <3>2. CASE s[2] \in DOMAIN w1 \ {q}
      <4>1. s \in SlotsOf(b1) \ {place}
        BY <3>1, <3>2, <1>6
      <4> QED
        BY <4>1, <2>2, <1>0, <1>3
    <3>3. CASE \E j \in DOMAIN h1[made].parts : p[j] = s[2] /\ h1[made].parts[j] = w[s[2]]
      <4>1. PICK j \in DOMAIN h1[made].parts : p[j] = s[2] /\ h1[made].parts[j] = w[s[2]]
        BY <3>3
      <4> DEFINE u == <<made, j>>
      <4>2. u \in SlotsOf(b1) \ {place} /\ u[1] = made /\ u[2] = j
        BY <1>5
      <4> HIDE DEF u
      <4>3. src[u] = <<0, p[j]>> /\ At(b1, u) = h1[made].parts[j]
        BY <4>2, <1>3
      <4> QED
        BY <4>1, <4>2, <4>3, <3>1
    <3> QED
      BY <3>1, <3>2, <3>3, <1>0, <1>11
  <2> QED
    BY <2>1, <2>2
<1> QED
  <2>1. Moves(b, b1, DOMAIN h, X, made, place, src)
    BY <1>2, <1>9, <1>10, <1>11 DEF Moves
  <2>2. Moves(Book(h, w), Book(h1, w1), DOMAIN h, X, made, place, src)
    BY <2>1, <1>12
  <2> QED
    BY <1>0, <2>2, Moved

(* The node t is rewritten, with the one made as its part d; what t had,   *)
(* and the roots that are none in w1, become parts of the two.             *)
Rewired(h, w, h1, w1, made, t, d, src) ==
  LET ours == {<<t, j>> : j \in DOMAIN h1[t].parts} \cup {<<made, j>> : j \in DOMAIN h1[made].parts}
      theirs == {<<t, j>> : j \in DOMAIN h[t].parts} \cup {<<0, i>> : i \in DOMAIN w \ DOMAIN w1}
  IN  /\ 0 \notin DOMAIN h /\ made \notin DOMAIN h /\ made # 0 /\ DOMAIN h1 = DOMAIN h \cup {made}
      /\ t \in DOMAIN h /\ \A m \in DOMAIN h \ {t} : h1[m].parts = h[m].parts
      /\ d \in DOMAIN h1[t].parts /\ h1[t].parts[d] = made
      /\ \A i \in DOMAIN w1 : i \in DOMAIN w /\ w1[i] = w[i]
      /\ \A u \in ours \ {<<t, d>>} : src[u] \in theirs /\ At(Book(h, w), src[u]) = At(Book(h1, w1), u)
      /\ \A u, v \in ours \ {<<t, d>>} : src[u] = src[v] => u = v
      /\ \A s \in theirs : \E u \in ours \ {<<t, d>>} : src[u] = s
LEMMA Rewires ==
  ASSUME NEW h, NEW w, NEW h1, NEW w1, NEW X, NEW made, NEW t, NEW d, NEW src,
         HeldOnce(h, w, X), Rewired(h, w, h1, w1, made, t, d, src)
  PROVE  HeldOnce(h1, w1, X)
<1> DEFINE b == Book(h, w)
           b1 == Book(h1, w1)
           place == <<t, d>>
           ours == {<<t, j>> : j \in DOMAIN h1[t].parts} \cup {<<made, j>> : j \in DOMAIN h1[made].parts}
           theirs == {<<t, j>> : j \in DOMAIN h[t].parts} \cup {<<0, i>> : i \in DOMAIN w \ DOMAIN w1}
           f == [u \in SlotsOf(b1) |-> IF u \in ours THEN src[u] ELSE u]
<1>0. /\ 0 \notin DOMAIN h /\ made \notin DOMAIN h /\ made # 0 /\ DOMAIN h1 = DOMAIN h \cup {made}
      /\ t \in DOMAIN h /\ \A m \in DOMAIN h \ {t} : h1[m].parts = h[m].parts
      /\ d \in DOMAIN h1[t].parts /\ h1[t].parts[d] = made
      /\ \A i \in DOMAIN w1 : i \in DOMAIN w /\ w1[i] = w[i]
  BY DEF Rewired
<1>1. /\ \A u \in ours \ {place} : src[u] \in theirs /\ At(b, src[u]) = At(b1, u)
      /\ \A u, v \in ours \ {place} : src[u] = src[v] => u = v
      /\ \A s \in theirs : \E u \in ours \ {place} : src[u] = s
  BY DEF Rewired
<1>2. 0 \notin DOMAIN h1
  BY <1>0
<1>3. place \in SlotsOf(b1) /\ At(b1, place) = made
  BY <1>0, <1>2, BookSlots
<1>4. theirs \subseteq SlotsOf(b) /\ ours \subseteq SlotsOf(b1)
  BY <1>0, <1>2, BookSlots
<1>5. \A u \in SlotsOf(b1) : f[u] = IF u \in ours THEN src[u] ELSE u
  OBVIOUS

(* The other places stay as they are.                                      *)
<1>6. ASSUME NEW u \in SlotsOf(b1), u \notin ours
      PROVE  u \in SlotsOf(b) /\ u \notin theirs /\ At(b, u) = At(b1, u)
  <2>1. /\ u = <<u[1], u[2]>>
        /\ \/ u[1] = 0 /\ u[2] \in DOMAIN w1 /\ At(b1, u) = w1[u[2]]
           \/ u[1] \in DOMAIN h1 /\ u[2] \in DOMAIN h1[u[1]].parts /\ At(b1, u) = h1[u[1]].parts[u[2]]
    BY <1>2, BookSlots
  <2>2. CASE u[1] = 0
    <3>1. u[2] \in DOMAIN w1 /\ At(b1, u) = w[u[2]] /\ u[2] \in DOMAIN w
      BY <2>1, <2>2, <1>0, <1>2
    <3>2. u \in SlotsOf(b) /\ At(b, u) = w[u[2]]
      BY <2>1, <2>2, <3>1, <1>0, BookSlots
    <3>3. u \notin theirs
      BY <2>1, <2>2, <3>1, <1>0
    <3> QED
      BY <3>1, <3>2, <3>3
  <2>3. CASE u[1] # 0
    <3>1. u[1] \in DOMAIN h1 /\ u[2] \in DOMAIN h1[u[1]].parts /\ At(b1, u) = h1[u[1]].parts[u[2]]
      BY <2>1, <2>3
    <3>2. u[1] \notin {t, made}
      BY <2>1, <3>1, <1>6
    <3>3. u[1] \in DOMAIN h /\ h1[u[1]].parts = h[u[1]].parts
      BY <3>1, <3>2, <1>0
    <3>4. u \in SlotsOf(b) /\ At(b, u) = h[u[1]].parts[u[2]]
      BY <2>1, <3>1, <3>3, <1>0, BookSlots
    <3>5. u \notin theirs
      BY <2>1, <2>3, <3>2
    <3> QED
      BY <3>1, <3>3, <3>4, <3>5
  <2> QED
    BY <2>2, <2>3
<1>7. ASSUME NEW s \in SlotsOf(b), s \notin theirs PROVE s \in SlotsOf(b1) /\ s \notin ours
  <2>1. /\ s = <<s[1], s[2]>>
        /\ \/ s[1] = 0 /\ s[2] \in DOMAIN w
           \/ s[1] \in DOMAIN h /\ s[2] \in DOMAIN h[s[1]].parts
    BY <1>0, BookSlots
  <2>2. CASE s[1] = 0
    <3>1. s[2] \in DOMAIN w1
      BY <2>1, <2>2, <1>0, <1>7
    <3>2. s \in SlotsOf(b1)
      BY <2>1, <2>2, <3>1, <1>2, BookSlots
    <3>3. s \notin ours
      BY <2>1, <2>2, <1>0
    <3> QED
      BY <3>2, <3>3
  <2>3. CASE s[1] # 0
    <3>1. s[1] \in DOMAIN h /\ s[2] \in DOMAIN h[s[1]].parts /\ s[1] # t
      BY <2>1, <2>3, <1>7
    <3>2. s[1] \in DOMAIN h1 /\ s[2] \in DOMAIN h1[s[1]].parts /\ s[1] # made
      BY <3>1, <1>0
    <3>3. s \in SlotsOf(b1)
      BY <2>1, <3>2, <1>2, BookSlots
    <3>4. s \notin ours
      BY <2>1, <3>1, <3>2
    <3> QED
      BY <3>3, <3>4
  <2> QED
    BY <2>2, <2>3
<1>8. place \in ours
  BY <1>0
<1>9. \A s \in SlotsOf(b) : At(b, s) \in DOMAIN h
  BY DEF HeldOnce
<1> HIDE DEF f, b, b1, place, ours, theirs
<1>10. \A u \in SlotsOf(b1) \ {place} : f[u] \in SlotsOf(b) /\ At(b, f[u]) = At(b1, u)
  BY <1>1, <1>4, <1>5, <1>6
<1>11. \A u, v \in SlotsOf(b1) \ {place} : f[u] = f[v] => u = v
  BY <1>1, <1>4, <1>5, <1>6
<1>12. \A s \in SlotsOf(b) : \E u \in SlotsOf(b1) \ {place} : f[u] = s
  BY <1>1, <1>4, <1>5, <1>7, <1>8
<1>13. Moves(b, b1, DOMAIN h, X, made, place, f)
  BY <1>3, <1>9, <1>10, <1>11, <1>12 DEF Moves
<1>14. Moves(Book(h, w), Book(h1, w1), DOMAIN h, X, made, place, f)
  BY <1>13 DEF b, b1
<1> QED
  BY <1>0, <1>14, Moved
-----------------------------------------------------------------------------
Roots == [i \in DOMAIN open |-> astNodes[open[i]]]
OnceInv == HeldOnce(nodes, Roots, ElseBlocks)

LEMMA MoreExcepted ==
  ASSUME NEW h, NEW w, NEW X, NEW Y, HeldOnce(h, w, X), X \subseteq Y
  PROVE  HeldOnce(h, w, Y)
BY DEF HeldOnce

LEMMA SameParts ==
  ASSUME NEW h, NEW w, NEW h1, NEW X, HeldOnce(h, w, X), DOMAIN h1 = DOMAIN h,
         \A m \in DOMAIN h : h1[m].parts = h[m].parts
  PROVE  HeldOnce(h1, w, X)
<1>1. Book(h1, w) = Book(h, w)
  BY DEF Book
<1> QED
  BY <1>1 DEF HeldOnce

(* One place is one part or one root.                                      *)
LEMMA OnceCounted ==
  ASSUME WalkInv, OnceInv
  PROVE  EachOnce
<1> DEFINE w == Roots
           b == Book(nodes, w)
<1>1. nodes \in Seq(AnyNode) /\ DOMAIN nodes = Nodes /\ 0 \notin DOMAIN nodes
  BY DEF WalkInv, Walked, WellBuilt, Nodes
<1> SUFFICES ASSUME NEW n \in Nodes \ ElseBlocks
             PROVE  Cardinality(partOf(n)) + Cardinality({i \in DOMAIN open : astNodes[open[i]] = n}) = 1
  BY DEF EachOnce
<1>2. PICK s \in SlotsOf(b) : At(b, s) = n /\ \A u \in SlotsOf(b) : At(b, u) = n => u = s
  BY <1>1 DEF OnceInv, HeldOnce, Once
<1> DEFINE A == partOf(n)
           B == {i \in DOMAIN open : astNodes[open[i]] = n}
<1>3. DOMAIN w = DOMAIN open /\ \A i \in DOMAIN open : w[i] = astNodes[open[i]]
  BY DEF Roots
<1>4. \A u : u \in A <=> u = <<u[1], u[2]>> /\ u[1] \in Nodes /\ u[2] \in DOMAIN nodes[u[1]].parts
                                           /\ nodes[u[1]].parts[u[2]] = n
  <2>1. ASSUME NEW u, u \in A
        PROVE  /\ u = <<u[1], u[2]>> /\ u[1] \in Nodes /\ u[2] \in DOMAIN nodes[u[1]].parts
               /\ nodes[u[1]].parts[u[2]] = n
    <3>1. PICK m \in Nodes : u \in {m} \X {i \in DOMAIN nodes[m].parts : nodes[m].parts[i] = n}
      BY <2>1 DEF partOf, part
    <3> QED
      BY <3>1
  <2>2. ASSUME NEW u, u = <<u[1], u[2]>>, u[1] \in Nodes, u[2] \in DOMAIN nodes[u[1]].parts,
               nodes[u[1]].parts[u[2]] = n
        PROVE  u \in A
    <3>1. u \in {u[1]} \X {i \in DOMAIN nodes[u[1]].parts : nodes[u[1]].parts[i] = n}
      BY <2>2
    <3> QED
      BY <3>1, <2>2 DEF partOf, part
  <2> QED
    BY <2>1, <2>2
<1>5. \A u \in A : u = s /\ u[1] # 0
  <2> SUFFICES ASSUME NEW u \in A PROVE u = s /\ u[1] # 0
    OBVIOUS
  <2>1. /\ u = <<u[1], u[2]>> /\ u[1] \in Nodes /\ u[2] \in DOMAIN nodes[u[1]].parts
        /\ nodes[u[1]].parts[u[2]] = n
    BY <1>4
  <2>2. u \in SlotsOf(b) /\ At(b, u) = n
    BY <1>1, <2>1, BookSlots
  <2> QED
    BY <1>1, <1>2, <2>1, <2>2
<1>6. ASSUME NEW i \in B PROVE s = <<0, i>>
  <2>1. i \in DOMAIN w /\ w[i] = n
    BY <1>3
  <2>2. <<0, i>> \in SlotsOf(b) /\ At(b, <<0, i>>) = w[i]
    BY <1>1, <2>1, BookSlots
  <2> QED
    BY <1>2, <2>1, <2>2
<1>7. /\ s = <<s[1], s[2]>>
      /\ \/ s[1] = 0 /\ s[2] \in DOMAIN w /\ w[s[2]] = n
         \/ s[1] \in Nodes /\ s[2] \in DOMAIN nodes[s[1]].parts /\ nodes[s[1]].parts[s[2]] = n
  BY <1>1, <1>2, BookSlots
<1>8. \/ A = {} /\ B = {s[2]}
      \/ A = {s} /\ B = {}
  <2>1. CASE s[1] = 0
    <3>1. A = {}
      BY <2>1, <1>5
    <3>2. s[2] \in B
      BY <2>1, <1>1, <1>3, <1>7
    <3>3. \A i \in B : i = s[2]
      BY <1>6
    <3> QED
      BY <3>1, <3>2, <3>3
  <2>2. CASE s[1] # 0
    <3>1. s \in A
      BY <2>2, <1>4, <1>7
    <3>2. B = {}
      BY <2>2, <1>6
    <3> HIDE DEF A, B
    <3> QED
      BY <3>1, <3>2, <1>5
  <2> QED
    BY <2>1, <2>2
<1> HIDE DEF A, B
<1>9. Cardinality(A) + Cardinality(B) = 1
  <2>1. Cardinality({s}) = 1 /\ Cardinality({s[2]}) = 1 /\ Cardinality({}) = 0
    BY FS_Singleton, FS_EmptySet
  <2> QED
    BY <1>8, <2>1
<1> QED
  BY <1>9 DEF A, B

(* What the exit of a rule with k children makes of the roots.             *)
RootsWith(k, a) ==
  [i \in 1..(Len(open) - k + 1) |-> IF i = Len(open) - k + 1 THEN a ELSE astNodes[open[i]]]
LEMMA ExitRoots ==
  ASSUME WalkInv, NEW k \in Nat, k <= Len(open), NEW r, NEW h, NEW a, Exit(r, Children(k), h, a)
  PROVE  /\ nodes' = h /\ Roots' = RootsWith(k, a)
         /\ \A c \in DOMAIN contexts : contexts'[c] = contexts[c] /\ astNodes'[c] = astNodes[c]
         /\ DOMAIN contexts' = DOMAIN contexts \cup {Here}
         /\ contexts'[Here] = [rule |-> r, parts |-> Children(k)]
<1>1. /\ contexts \in Seq(Context) /\ astNodes \in Seq(Nat) /\ open \in Seq(Nat)
      /\ Len(astNodes) = Len(contexts) /\ Len(contexts) \in Nat /\ Len(open) \in Nat
      /\ DOMAIN contexts = 1..Len(contexts) /\ DOMAIN astNodes = 1..Len(contexts)
      /\ Here = Len(contexts) + 1 /\ DOMAIN open = 1..Len(open)
      /\ \A i \in DOMAIN open : open[i] \in DOMAIN contexts
  BY DEF WalkInv, Walked, Here
<1>2. Len(Children(k)) = k
  BY ChildrenFacts DEF WalkInv
<1>3. /\ contexts' = Append(contexts, [rule |-> r, parts |-> Children(k)]) /\ nodes' = h
      /\ astNodes' = Append(astNodes, a)
      /\ open' = Append(SubSeq(open, 1, Len(open) - k), Here)
  BY <1>2 DEF Exit
<1>4. /\ DOMAIN contexts' = DOMAIN contexts \cup {Here}
      /\ contexts'[Here] = [rule |-> r, parts |-> Children(k)]
      /\ \A c \in DOMAIN contexts : contexts'[c] = contexts[c] /\ astNodes'[c] = astNodes[c]
      /\ astNodes'[Here] = a
  BY <1>1, <1>3
<1>5. /\ DOMAIN open' = 1..(Len(open) - k + 1)
      /\ \A i \in 1..(Len(open) - k) : open'[i] = open[i] /\ i \in DOMAIN open
      /\ open'[Len(open) - k + 1] = Here
  <2> DEFINE N == Len(open) - k
             o == SubSeq(open, 1, N)
  <2>0. open \in Seq(Nat) /\ Len(open) \in Nat /\ DOMAIN open = 1..Len(open)
    BY <1>1
  <2>1. N \in Nat /\ N <= Len(open)
    BY <2>0
  <2>2. open' = Append(o, Here)
    BY <1>3
  <2> HIDE DEF N
  <2>3. o \in Seq(Nat) /\ Len(o) = N /\ \A i \in 1..N : o[i] = open[i] /\ i \in DOMAIN open
    BY <2>0, <2>1
  <2>4. Here \in Nat
    BY <1>1
  <2> HIDE DEF o
  <2>5. /\ DOMAIN open' = 1..(N + 1) /\ \A i \in 1..N : open'[i] = o[i]
        /\ open'[N + 1] = Here
    BY <2>1, <2>2, <2>3, <2>4
  <2> QED
    BY <2>3, <2>5 DEF N
<1>6. \A i \in 1..(Len(open) - k + 1) : i = Len(open) - k + 1 \/ i \in 1..(Len(open) - k)
  <2>1. Len(open) \in Nat
    BY <1>1
  <2> QED
    BY <2>1
<1>7. ASSUME NEW i \in 1..(Len(open) - k + 1)
      PROVE  astNodes'[open'[i]] = IF i = Len(open) - k + 1 THEN a ELSE astNodes[open[i]]
  <2>1. CASE i = Len(open) - k + 1
    BY <2>1, <1>4, <1>5
  <2>2. CASE i # Len(open) - k + 1
    <3>1. i \in 1..(Len(open) - k)
      BY <2>2, <1>6
    <3>2. open'[i] = open[i] /\ open[i] \in DOMAIN contexts
      BY <3>1, <1>1, <1>5
    <3> QED
      BY <2>2, <3>2, <1>4
  <2> QED
    BY <2>1, <2>2
<1>8. Roots' = RootsWith(k, a)
  BY <1>5, <1>7 DEF Roots, RootsWith
<1> QED
  BY <1>3, <1>4, <1>8

LEMMA ElseBlocksStay ==
  ASSUME WalkInv, NEW k \in Nat, k <= Len(open), NEW r, NEW h, NEW a, Exit(r, Children(k), h, a)
  PROVE  ElseBlocks \subseteq ElseBlocks'
<1> DEFINE D == {d \in DOMAIN contexts : /\ contexts[d].rule = "if" /\ Len(contexts[d].parts) = 3
                                        /\ contexts[contexts[d].parts[3]].rule = "block"}
           B == UNION {{contexts[c].parts[2], contexts[c].parts[3]} : c \in D}
<1>1. ElseBlocks = {astNodes[x] : x \in B}
  BY DEF ElseBlocks, rule
<1>2. ElseBlocks' = {astNodes'[x] : x \in B'}
  BY DEF ElseBlocks, rule
<1>3. /\ \A c \in DOMAIN contexts : contexts'[c] = contexts[c] /\ astNodes'[c] = astNodes[c]
      /\ DOMAIN contexts \subseteq DOMAIN contexts'
  BY ExitRoots
<1>4. \A d \in D : contexts[d].parts[2] \in DOMAIN contexts /\ contexts[d].parts[3] \in DOMAIN contexts
  <2> SUFFICES ASSUME NEW d \in D
               PROVE  contexts[d].parts[2] \in DOMAIN contexts /\ contexts[d].parts[3] \in DOMAIN contexts
    OBVIOUS
  <2>1. contexts[d] \in Context
    BY DEF WalkInv, Walked
  <2>2. contexts[d].parts \in Seq(Nat) /\ Len(contexts[d].parts) = 3
    BY <2>1 DEF Context
  <2>3. 2 \in DOMAIN contexts[d].parts /\ 3 \in DOMAIN contexts[d].parts
    BY <2>2
  <2> QED
    BY <2>3 DEF WalkInv, Walked
<1>5. D \subseteq D'
  BY <1>3, <1>4
<1>6. ASSUME NEW x \in B PROVE x \in B' /\ astNodes'[x] = astNodes[x]
  <2>1. PICK d \in D : x \in {contexts[d].parts[2], contexts[d].parts[3]}
    OBVIOUS
  <2> QED
    BY <2>1, <1>3, <1>4, <1>5
<1> HIDE DEF B
<1> QED
  BY <1>1, <1>2, <1>6

(* One node, whose parts are the children except for what is in X.         *)
PartsAre(e, k, X) ==
  /\ ElseBlocks \subseteq X /\ X \subseteq ElseBlocks'
  /\ \A i \in DOMAIN e : e[i] \in Nodes /\ (e[i] \notin X => i \in 1..k /\ e[i] = NodesOf(Children(k))[i])
  /\ \A i \in 1..k : NodesOf(Children(k))[i] \notin X => i \in DOMAIN e /\ e[i] = NodesOf(Children(k))[i]
LEMMA OneNodeOnce ==
  ASSUME WalkInv, OnceInv, NEW k \in Nat, k <= Len(open), NEW r, NEW j \in Expressions \cup Statements,
         NEW e \in Seq(Nat), NEW range \in Nat,
         Exit(r, Children(k), Append(nodes, Object(j, e, range)), new),
         NEW X, PartsAre(e, k, X)
  PROVE  OnceInv'
<1> DEFINE h == Append(nodes, Object(j, e, range))
           w == Roots
           w1 == RootsWith(k, new)
           L == Len(open)
           p == [i \in DOMAIN e |-> L - k + i]
           c == NodesOf(Children(k))
<1>0. /\ ElseBlocks \subseteq X /\ X \subseteq ElseBlocks'
      /\ \A i \in DOMAIN e : e[i] \in Nodes /\ (e[i] \notin X => i \in 1..k /\ e[i] = NodesOf(Children(k))[i])
      /\ \A i \in 1..k : NodesOf(Children(k))[i] \notin X => i \in DOMAIN e /\ e[i] = NodesOf(Children(k))[i]
  BY DEF PartsAre
<1>1. /\ nodes \in Seq(AnyNode) /\ DOMAIN nodes = Nodes /\ 0 \notin DOMAIN nodes /\ WellBuilt(nodes)
      /\ new = Len(nodes) + 1 /\ new # 0 /\ L \in Nat /\ DOMAIN open = 1..L
  BY DEF WalkInv, Walked, WellBuilt, Nodes, new
<1>2. HasOneMore(h, j, e, range)
  BY <1>1, OneMore
<1>3. HeldOnce(nodes, w, X)
  BY <1>0, MoreExcepted DEF OnceInv
<1>4. nodes' = h /\ Roots' = w1
  BY ExitRoots
<1>5. DOMAIN w = 1..L /\ \A i \in 1..L : w[i] = astNodes[open[i]]
  BY <1>1 DEF Roots
<1>6. /\ DOMAIN w1 = 1..(L - k + 1) /\ L - k + 1 \in DOMAIN w1 /\ w1[L - k + 1] = new
      /\ \A i \in DOMAIN w1 \ {L - k + 1} : i \in 1..L /\ w1[i] = w[i]
  <2>1. DOMAIN w1 = 1..(L - k + 1) /\ L - k + 1 \in DOMAIN w1 /\ w1[L - k + 1] = new
    BY <1>1 DEF RootsWith
  <2>2. ASSUME NEW i \in DOMAIN w1 \ {L - k + 1} PROVE i \in 1..L /\ w1[i] = w[i]
    <3>1. i \in 1..L /\ i # L - k + 1 /\ i \in 1..(L - k + 1)
      BY <1>1, <2>1
    <3>2. w1[i] = astNodes[open[i]]
      BY <3>1 DEF RootsWith
    <3> QED
      BY <3>1, <3>2, <1>5
  <2> QED
    BY <2>1, <2>2
<1>7. \A i \in 1..k : L - k + i \in 1..L /\ w[L - k + i] = c[i] /\ L - k + i \notin DOMAIN w1 \ {L - k + 1}
  <2> SUFFICES ASSUME NEW i \in 1..k
               PROVE  L - k + i \in 1..L /\ w[L - k + i] = c[i] /\ L - k + i \notin DOMAIN w1 \ {L - k + 1}
    OBVIOUS
  <2>1. L - k + i \in 1..L
    BY <1>1
  <2>2. Children(k)[i] = open[L - k + i] /\ c[i] = astNodes[Children(k)[i]]
    BY ChildrenFacts DEF WalkInv
  <2>3. L - k + i \notin DOMAIN w1 \ {L - k + 1}
    <3> HIDE DEF w1, w, h, c, p
    <3>1. L \in Nat /\ DOMAIN w1 = 1..(L - k + 1)
      BY <1>1, <1>6
    <3> HIDE DEF L
    <3>2. L - k + i \in 1..(L - k + 1) => L - k + i = L - k + 1
      BY <3>1
    <3> QED
      BY <3>1, <3>2
  <2> QED
    BY <2>1, <2>2, <2>3, <1>5
<1>8. /\ DOMAIN h = DOMAIN nodes \cup {new} /\ new \notin DOMAIN nodes /\ h[new].parts = e
      /\ \A n \in DOMAIN nodes : h[n].parts = nodes[n].parts
  BY <1>1, <1>2 DEF HasOneMore
<1>9. \A i \in 1..L : i \in DOMAIN w1 \ {L - k + 1} \/ \E n \in 1..k : L - k + n = i
  <2> SUFFICES ASSUME NEW i \in 1..L, i \notin DOMAIN w1 \ {L - k + 1}
               PROVE  \E n \in 1..k : L - k + n = i
    OBVIOUS
  <2>1. i >= L - k + 1 /\ i <= L
    BY <1>1, <1>6
  <2>2. i - (L - k) \in 1..k /\ L - k + (i - (L - k)) = i
    BY <1>1, <2>1
  <2> QED
    BY <2>2
<1>10. \A i \in DOMAIN e : p[i] = L - k + i /\ i \in Nat
  <2>1. DOMAIN e \subseteq Nat
    OBVIOUS
  <2> QED
    BY <2>1
<1> HIDE DEF h, w, w1, c, p
<1>11. Taken(nodes, w, h, w1, X, new, L - k + 1, p)
  <2>1. ASSUME NEW i \in DOMAIN h[new].parts
        PROVE  /\ h[new].parts[i] \in DOMAIN nodes
               /\ h[new].parts[i] \notin X =>
                    p[i] \in DOMAIN w /\ w[p[i]] = h[new].parts[i] /\ p[i] \notin DOMAIN w1 \ {L - k + 1}
    <3>1. i \in DOMAIN e /\ e[i] \in DOMAIN nodes
      BY <1>0, <1>1, <1>8
    <3>2. ASSUME e[i] \notin X
          PROVE  p[i] \in DOMAIN w /\ w[p[i]] = e[i] /\ p[i] \notin DOMAIN w1 \ {L - k + 1}
      <4>1. i \in 1..k /\ e[i] = c[i]
        BY <3>1, <3>2, <1>0 DEF c
      <4> QED
        BY <3>1, <4>1, <1>5, <1>7, <1>10
    <3> QED
      BY <3>1, <3>2, <1>8
  <2>2. ASSUME NEW i \in DOMAIN h[new].parts, NEW n \in DOMAIN h[new].parts, p[i] = p[n] PROVE i = n
    <3>1. L - k + i = L - k + n /\ i \in Nat /\ n \in Nat
      BY <2>2, <1>8, <1>10
    <3> QED
      BY <3>1, <1>1
  <2>3. ASSUME NEW i \in DOMAIN w, w[i] \notin X
        PROVE  \/ i \in DOMAIN w1 \ {L - k + 1}
               \/ \E n \in DOMAIN h[new].parts : p[n] = i /\ h[new].parts[n] = w[i]
    <3> SUFFICES ASSUME i \notin DOMAIN w1 \ {L - k + 1}
                 PROVE  \E n \in DOMAIN e : p[n] = i /\ e[n] = w[i]
      BY <1>8
    <3>1. PICK n \in 1..k : L - k + n = i
      BY <2>3, <1>5, <1>9
    <3>2. c[n] = w[i]
      BY <3>1, <1>7
    <3>3. n \in DOMAIN e /\ e[n] = c[n]
      BY <2>3, <3>2, <1>0 DEF c
    <3> QED
      BY <3>1, <3>2, <3>3, <1>10
  <2>4. \A i \in DOMAIN w1 \ {L - k + 1} : i \in DOMAIN w /\ w1[i] = w[i]
    BY <1>5, <1>6
  <2> HIDE DEF L
  <2> QED
    BY <2>1, <2>2, <2>3, <2>4, <1>1, <1>6, <1>8 DEF Taken
<1>12. HeldOnce(h, w1, X)
  BY <1>3, <1>11, Takes
<1>13. HeldOnce(h, w1, ElseBlocks')
  BY <1>0, <1>12, MoreExcepted
<1> QED
  BY <1>4, <1>13 DEF OnceInv
(* The exits that add one node over all children, in order.                *)
PlainStep(k, r, range) ==
  /\ k \in Nat /\ k <= Len(open) /\ r \in (Expressions \cup Statements) \ {"if"} /\ range \in {0, Here}
  /\ Exit(r, Children(k), Append(nodes, Object(r, NodesOf(Children(k)), range)), new)
LEMMA PlainSteps ==
  ASSUME WalkInv,
         \/ ExitIdentifier \/ ExitPrefixExpression
         \/ ExitExpressionOrDeclareOrReturn \/ ExitAssignStatement \/ ExitBreakStatement
         \/ ExitBlockStatement \/ ExitWhileStatement \/ ExitFunctionStatement \/ ExitClassStatement
  PROVE  \E k, r, range : PlainStep(k, r, range)
<1>1. open \in Seq(Nat) /\ Len(open) \in Nat /\ Here \in Nat /\ 0 \in Nat
  BY DEF WalkInv, Walked, Here
<1>2. /\ {"identifier", "prefix", "expressionStatement", "declare", "return", "assign", "break", "block", "while",
           "function", "class"} \subseteq (Expressions \cup Statements) \ {"if"}
      /\ {"expressionStatement", "declare", "return"} \subseteq (Expressions \cup Statements) \ {"if"}
  BY Kinds DEF Statements
<1>3. Children(0) = <<>> /\ NodesOf(Children(0)) = <<>>
  <2>1. /\ Children(0) \in Seq(Nat) /\ Len(Children(0)) = 0
        /\ NodesOf(Children(0)) \in Seq(Nat) /\ Len(NodesOf(Children(0))) = 0
    BY <1>1, ChildNodes, ChildrenFacts DEF WalkInv
  <2> QED
    BY <2>1
<1>4. ASSUME NEW k \in Nat, k <= Len(open), NEW r \in (Expressions \cup Statements) \ {"if"},
             ExitRule(r, Children(k), NodesOf(Children(k)))
      PROVE  \E range : PlainStep(k, r, range)
  <2>1. PlainStep(k, r, 0)
    BY <1>4 DEF ExitRule, PlainStep
  <2> QED
    BY <2>1
<1>5. CASE ExitIdentifier
  <2>1. PlainStep(0, "identifier", Here)
    BY <1>1, <1>2, <1>3, <1>5 DEF ExitIdentifier, PlainStep
  <2> QED
    BY <2>1
<1>6. CASE ExitPrefixExpression
  <2>1. Exit("prefix", Children(1), Append(nodes, Object("prefix", NodesOf(Children(1)), Here)), new) /\ open # <<>>
    BY <1>6 DEF ExitPrefixExpression
  <2>2. 1 \in Nat /\ 1 <= Len(open)
    BY <1>1, <2>1
  <2>3. PlainStep(1, "prefix", Here)
    BY <1>2, <2>1, <2>2 DEF PlainStep
  <2> QED
    BY <2>3
<1>7. CASE ExitExpressionOrDeclareOrReturn
  <2>1. PICK r \in {"expressionStatement", "declare", "return"} :
          open # <<>> /\ ExitRule(r, Children(1), NodesOf(Children(1)))
    BY <1>7 DEF ExitExpressionOrDeclareOrReturn
  <2>2. 1 \in Nat /\ 1 <= Len(open) /\ r \in (Expressions \cup Statements) \ {"if"}
    BY <1>1, <1>2, <2>1
  <2> QED
    BY <1>4, <2>1, <2>2
<1>8. CASE ExitAssignStatement
  <2>1. Len(open) > 1 /\ ExitRule("assign", Children(2), NodesOf(Children(2)))
    BY <1>8 DEF ExitAssignStatement
  <2>2. 2 \in Nat /\ 2 <= Len(open)
    BY <1>1, <2>1
  <2> QED
    BY <1>2, <1>4, <2>1, <2>2
<1>9. CASE ExitBreakStatement
  <2>1. ExitRule("break", Children(0), NodesOf(Children(0))) /\ 0 <= Len(open)
    BY <1>1, <1>3, <1>9 DEF ExitBreakStatement
  <2> QED
    BY <1>1, <1>2, <1>4, <2>1
<1>10. CASE ExitBlockStatement
  <2>1. PICK n \in 0..Len(open) : ExitRule("block", Children(n), NodesOf(Children(n)))
    BY <1>10 DEF ExitBlockStatement
  <2>2. n \in Nat /\ n <= Len(open)
    BY <1>1
  <2> QED
    BY <1>2, <1>4, <2>1, <2>2
<1>11. CASE ExitWhileStatement
  <2>1. Len(open) > 1 /\ ExitRule("while", Children(2), NodesOf(Children(2)))
    BY <1>11 DEF ExitWhileStatement
  <2>2. 2 \in Nat /\ 2 <= Len(open)
    BY <1>1, <2>1
  <2> QED
    BY <1>2, <1>4, <2>1, <2>2
<1>12. CASE ExitFunctionStatement
  <2>1. open # <<>> /\ ExitRule("function", Children(1), NodesOf(Children(1)))
    BY <1>12 DEF ExitFunctionStatement
  <2>2. 1 \in Nat /\ 1 <= Len(open)
    BY <1>1, <2>1
  <2> QED
    BY <1>2, <1>4, <2>1, <2>2
<1>13. CASE ExitClassStatement
  <2>1. PICK n \in 0..Len(open) : ExitRule("class", Children(n), NodesOf(Children(n)))
    BY <1>13 DEF ExitClassStatement
  <2>2. n \in Nat /\ n <= Len(open)
    BY <1>1
  <2> QED
    BY <1>2, <1>4, <2>1, <2>2
<1> QED
  BY <1>5, <1>6, <1>7, <1>8, <1>9, <1>10, <1>11, <1>12, <1>13

LEMMA PlainExit ==
  ASSUME WalkInv, OnceInv, NEW k \in Nat, k <= Len(open), NEW r, NEW j \in Expressions \cup Statements,
         NEW range \in Nat, Exit(r, Children(k), Append(nodes, Object(j, NodesOf(Children(k)), range)), new)
  PROVE  OnceInv'
<1> DEFINE e == NodesOf(Children(k))
<1>1. e \in Seq(Nat) /\ DOMAIN e = 1..k /\ \A i \in 1..k : e[i] \in Nodes
  BY ChildNodes, ChildrenFacts DEF WalkInv
<1>2. ElseBlocks \subseteq ElseBlocks'
  BY ElseBlocksStay
<1> HIDE DEF e
<1>3. \A i \in DOMAIN e : e[i] \in Nodes /\ (e[i] \notin ElseBlocks => i \in 1..k /\ e[i] = NodesOf(Children(k))[i])
  BY <1>1 DEF e
<1>4. \A i \in 1..k : NodesOf(Children(k))[i] \notin ElseBlocks => i \in DOMAIN e /\ e[i] = NodesOf(Children(k))[i]
  BY <1>1 DEF e
<1>5. Exit(r, Children(k), Append(nodes, Object(j, e, range)), new)
  BY DEF e
<1>6. PartsAre(e, k, ElseBlocks)
  BY <1>2, <1>3, <1>4 DEF PartsAre
<1> QED
  BY <1>1, <1>5, <1>6, OneNodeOnce

LEMMA OnceStatements ==
  ASSUME WalkInv, OnceInv, NEW k, NEW r, NEW range, PlainStep(k, r, range)
  PROVE  OnceInv'
<1>1. Here \in Nat /\ 0 \in Nat
  BY DEF WalkInv, Walked, Here
<1> QED
  BY <1>1, PlainExit DEF PlainStep

(* An else block is lost, and the then block used twice: both excepted.    *)
LEMMA OnceIf ==
  ASSUME WalkInv, OnceInv, ExitIfStatement
  PROVE  OnceInv'
<1>1. PICK n \in 2..3 :
        /\ Len(open) >= n
        /\ isBlock(Children(n)[2])
        /\ n = 3 => isBlock(Children(n)[3]) \/ isElseIf(Children(n)[3])
        /\ ExitRule("if", Children(n),
             NodesOf(IF n = 3 /\ isBlock(Children(n)[3])
                     THEN <<Children(n)[1], Children(n)[2], Children(n)[2]>> ELSE Children(n)))
  BY DEF ExitIfStatement
<1> DEFINE p == Children(n)
           e == NodesOf(p)
<1>2. n \in Nat /\ n <= Len(open) /\ (n = 2 \/ n = 3) /\ "if" \in Expressions \cup Statements /\ 0 \in Nat
  <2>1. Len(open) \in Nat
    BY DEF WalkInv, Walked
  <2> QED
    BY <1>1, <2>1 DEF Statements
<1>3. /\ p \in Seq(Nat) /\ Len(p) = n /\ e \in Seq(Nat) /\ DOMAIN e = 1..n
      /\ \A i \in 1..n : e[i] = astNodes[p[i]] /\ e[i] \in Nodes /\ p[i] \in DOMAIN contexts
  BY <1>2, ChildrenFacts, ChildNodes DEF WalkInv
<1>4. CASE ~(n = 3 /\ isBlock(p[3]))
  <2>1. Exit("if", p, Append(nodes, Object("if", e, 0)), new)
    BY <1>1, <1>4 DEF ExitRule
  <2> QED
    BY <1>2, <2>1, PlainExit
<1>5. CASE n = 3 /\ isBlock(p[3])
  <2> DEFINE f == <<e[1], e[2], e[2]>>
             h == Append(nodes, Object("if", f, 0))
             X == ElseBlocks'
  <2>1. NodesOf(<<p[1], p[2], p[2]>>) = f
    <3> DEFINE q == <<p[1], p[2], p[2]>>
    <3>1. DOMAIN q = 1..3 /\ q[1] = p[1] /\ q[2] = p[2] /\ q[3] = p[2]
      OBVIOUS
    <3>2. NodesOf(q) = [i \in 1..3 |-> astNodes[q[i]]]
      BY <3>1 DEF NodesOf
    <3>3. e[1] = astNodes[p[1]] /\ e[2] = astNodes[p[2]]
      BY <1>3, <1>5
    <3> HIDE DEF q, e
    <3>4. NodesOf(q) = f
      BY <3>1, <3>2, <3>3
    <3> QED
      BY <3>4 DEF q
  <2>2. Exit("if", p, h, new)
    BY <1>1, <1>5, <2>1 DEF ExitRule
  <2>3. e[1] \in Nodes /\ e[2] \in Nodes /\ e[3] \in Nodes /\ Nodes \subseteq Nat
    <3>1. \A i \in 1..3 : e[i] \in Nodes
      BY <1>3, <1>5
    <3>2. Nodes \subseteq Nat
      BY DEF WalkInv, Walked, WellBuilt, Nodes
    <3> HIDE DEF e
    <3> QED
      BY <3>1, <3>2
  <2>4. ElseBlocks \subseteq X
    BY <1>2, <2>2, ElseBlocksStay
  <2>5. e[2] \in X /\ e[3] \in X
    <3>1. /\ \A c \in DOMAIN contexts : contexts'[c] = contexts[c] /\ astNodes'[c] = astNodes[c]
          /\ DOMAIN contexts' = DOMAIN contexts \cup {Here}
          /\ contexts'[Here] = [rule |-> "if", parts |-> p]
      <4> HIDE DEF h
      <4> QED
        BY <1>2, <2>2, ExitRoots
    <3>2. p[3] \in DOMAIN contexts /\ rule(p[3]) = "block" /\ p[2] \in DOMAIN contexts
      BY <1>3, <1>5 DEF isBlock
    <3> DEFINE D == {d \in DOMAIN contexts' : /\ contexts'[d].rule = "if" /\ Len(contexts'[d].parts) = 3
                                            /\ contexts'[contexts'[d].parts[3]].rule = "block"}
               B == UNION {{contexts'[c].parts[2], contexts'[c].parts[3]} : c \in D}
    <3>3. X = {astNodes'[x] : x \in B}
      BY DEF ElseBlocks, rule
    <3>4. contexts'[Here].rule = "if" /\ contexts'[Here].parts = p /\ Len(p) = 3
      BY <1>3, <1>5, <3>1
    <3>5. contexts'[p[3]].rule = "block"
      BY <3>1, <3>2 DEF rule
    <3>6. Here \in D
      <4> HIDE DEF p
      <4> QED
        BY <3>1, <3>4, <3>5
    <3>7. p[2] \in B /\ p[3] \in B
      <4> HIDE DEF D, p
      <4> QED
        BY <3>4, <3>6
    <3>8. e[2] = astNodes'[p[2]] /\ e[3] = astNodes'[p[3]]
      BY <1>3, <1>5, <3>1, <3>2
    <3> HIDE DEF B, e, p
    <3> QED
      BY <3>3, <3>7, <3>8
  <2> HIDE DEF X
  <2>6. f \in Seq(Nat) /\ DOMAIN f = 1..3 /\ f[1] = e[1] /\ f[2] = e[2] /\ f[3] = e[2]
    <3>1. e[1] \in Nat /\ e[2] \in Nat
      BY <2>3
    <3> HIDE DEF e
    <3> QED
      BY <3>1
  <2> HIDE DEF f
  <2>7. \A i \in DOMAIN f : f[i] \in Nodes /\ (f[i] \notin X => i \in 1..n /\ f[i] = NodesOf(Children(n))[i])
    <3> SUFFICES ASSUME NEW i \in 1..3 PROVE f[i] \in Nodes /\ (f[i] \notin X => i \in 1..n /\ f[i] = e[i])
      BY <2>6
    <3>1. i = 1 \/ i = 2 \/ i = 3
      OBVIOUS
    <3> HIDE DEF e
    <3> QED
      BY <3>1, <1>5, <2>3, <2>5, <2>6
  <2>8. \A i \in 1..n : NodesOf(Children(n))[i] \notin X => i \in DOMAIN f /\ f[i] = NodesOf(Children(n))[i]
    <3> SUFFICES ASSUME NEW i \in 1..3, e[i] \notin X PROVE i \in DOMAIN f /\ f[i] = e[i]
      BY <1>5
    <3>1. i = 1 \/ i = 2 \/ i = 3
      OBVIOUS
    <3> HIDE DEF e
    <3> QED
      BY <3>1, <2>5, <2>6
  <2>9. X \subseteq ElseBlocks'
    BY DEF X
  <2>10. PartsAre(f, n, X)
    <3> HIDE DEF p, e
    <3> QED
      BY <2>4, <2>7, <2>8, <2>9 DEF PartsAre
  <2>11. f \in Seq(Nat) /\ Exit("if", Children(n), Append(nodes, Object("if", f, 0)), new)
    BY <2>2, <2>6
  <2> QED
    BY <1>2, <2>10, <2>11, OneNodeOnce
<1> QED
  BY <1>4, <1>5

(* Parentheses and `statement` make no node.                               *)
LEMMA OnceParentheses ==
  ASSUME WalkInv, OnceInv, ExitParenthesesExpression
  PROVE  OnceInv'
<1> DEFINE a == NodesOf(Children(1))[1]
           h == [nodes EXCEPT ![a].range = Here]
           L == Len(open)
<1>1. open # <<>> /\ areExpressions(Children(1)) /\ Exit("parentheses", Children(1), h, a)
  BY DEF ExitParenthesesExpression
<1>2. open \in Seq(Nat) /\ L \in Nat /\ WellBuilt(nodes) /\ Here \in Nat /\ Here # 0 /\ DOMAIN open = 1..L
  BY DEF WalkInv, Walked, Here
<1>3. 1 \in Nat /\ 1 <= L /\ L - 1 + 1 = L
  BY <1>1, <1>2
<1>4. a \in Nodes /\ a = astNodes[open[L]]
  <2>1. a \in Nodes /\ a = astNodes[Children(1)[1]] /\ Children(1)[1] = open[L - 1 + 1]
    BY <1>3, ChildNodes, ChildrenFacts DEF WalkInv
  <2> QED
    BY <1>3, <2>1
<1> HIDE DEF a
<1>5. HasRange(h, a, Here)
  BY <1>2, <1>4, RangeSet
<1> HIDE DEF h
<1>6. nodes' = h /\ Roots' = RootsWith(1, a)
  BY <1>1, <1>3, ExitRoots
<1>7. RootsWith(1, a) = Roots
  BY <1>2, <1>3, <1>4 DEF RootsWith, Roots
<1>8. HeldOnce(h, Roots, ElseBlocks)
  <2>1. DOMAIN h = DOMAIN nodes /\ \A m \in DOMAIN nodes : h[m].parts = nodes[m].parts
    BY <1>5 DEF HasRange, Nodes
  <2> QED
    BY <2>1, SameParts DEF OnceInv
<1>9. ElseBlocks \subseteq ElseBlocks'
  BY <1>1, <1>3, ElseBlocksStay
<1> QED
  BY <1>6, <1>7, <1>8, <1>9, MoreExcepted DEF OnceInv

LEMMA OncePlaces ==
  ASSUME WalkInv, OnceInv, ExitStatement
  PROVE  OnceInv'
<1> DEFINE c == Last(open)
           a == astNodes[c]
           h == [nodes EXCEPT ![a].range = c]
<1>1. nodes' = h /\ contexts' = contexts /\ astNodes' = astNodes /\ open' = open /\ open # <<>>
  BY DEF ExitStatement
<1>2. c \in DOMAIN contexts /\ c \in Nat /\ c # 0
  <2>1. open \in Seq(Nat) /\ Len(open) \in DOMAIN open
    BY <1>1 DEF WalkInv, Walked
  <2>2. c = open[Len(open)]
    BY DEF Last
  <2> QED
    BY <2>1, <2>2 DEF WalkInv, Walked
<1>3. a \in Nodes /\ WellBuilt(nodes)
  BY <1>2 DEF WalkInv, NodeOfContext, Walked
<1>4. HasRange(h, a, c)
  <2> HIDE DEF a, c
  <2> QED
    BY <1>2, <1>3, RangeSet
<1> HIDE DEF h, a, c
<1>5. HeldOnce(h, Roots, ElseBlocks)
  <2>1. DOMAIN h = DOMAIN nodes /\ \A m \in DOMAIN nodes : h[m].parts = nodes[m].parts
    BY <1>4 DEF HasRange, Nodes
  <2> QED
    BY <2>1, SameParts DEF OnceInv
<1>6. Roots' = Roots /\ ElseBlocks' = ElseBlocks
  BY <1>1 DEF Roots, ElseBlocks, rule
<1> QED
  BY <1>1, <1>5, <1>6 DEF OnceInv
-----------------------------------------------------------------------------
(* A chain takes its operands one after the other: the roots when the node *)
(* is a and has taken the first m of those behind the first b.             *)
Left(b, m, a) ==
  [i \in {x \in DOMAIN open : x <= b + 1 \/ x > b + m} |-> IF i = b + 1 THEN a ELSE astNodes[open[i]]]
LEMMA LeftFacts ==
  ASSUME WalkInv, NEW b \in Nat, NEW m \in Nat, b < Len(open), NEW a
  PROVE  /\ DOMAIN open = 1..Len(open) /\ Len(open) \in Nat
         /\ \A i : i \in DOMAIN Left(b, m, a) <=> i \in 1..Len(open) /\ (i <= b + 1 \/ i > b + m)
         /\ b + 1 \in DOMAIN Left(b, m, a) /\ Left(b, m, a)[b + 1] = a
         /\ \A i \in DOMAIN Left(b, m, a) : i # b + 1 => Left(b, m, a)[i] = Roots[i]
         /\ \A i \in DOMAIN open : Roots[i] = astNodes[open[i]]
<1>1. DOMAIN open = 1..Len(open) /\ Len(open) \in Nat
  BY DEF WalkInv, Walked
<1>2. \A i \in DOMAIN open : Roots[i] = astNodes[open[i]]
  BY DEF Roots
<1>3. DOMAIN Left(b, m, a) = {x \in DOMAIN open : x <= b + 1 \/ x > b + m}
  BY DEF Left
<1>4. \A i \in DOMAIN Left(b, m, a) : Left(b, m, a)[i] = IF i = b + 1 THEN a ELSE astNodes[open[i]]
  BY DEF Left
<1>5. b + 1 \in DOMAIN open /\ b + 1 <= b + 1
  BY <1>1
<1> QED
  BY <1>1, <1>2, <1>3, <1>4, <1>5

LEMMA LeftAtFirst ==
  ASSUME WalkInv, NEW k \in Nat, k >= 1, k <= Len(open)
  PROVE  Left(Len(open) - k, 1, NodesOf(Children(k))[1]) = Roots
<1> DEFINE b == Len(open) - k
           w == Left(b, 1, NodesOf(Children(k))[1])
<1>1. Len(open) \in Nat /\ DOMAIN open = 1..Len(open) /\ 1 \in 1..k
  BY DEF WalkInv, Walked
<1>2. b \in Nat /\ b < Len(open)
  BY <1>1
<1>3. NodesOf(Children(k))[1] = astNodes[open[b + 1]]
  BY <1>1, ChildrenFacts DEF WalkInv
<1> HIDE DEF b
<1>4. \A x \in DOMAIN open : x <= b + 1 \/ x > b + 1
  BY <1>1, <1>2
<1>5. {x \in DOMAIN open : x <= b + 1 \/ x > b + 1} = DOMAIN open
  BY <1>4
<1>6. w = [i \in DOMAIN open |-> IF i = b + 1 THEN NodesOf(Children(k))[1] ELSE astNodes[open[i]]]
  BY <1>5 DEF Left
<1>7. w = Roots
  BY <1>3, <1>6 DEF Roots
<1> QED
  BY <1>7 DEF b

LEMMA LeftAtLast ==
  ASSUME WalkInv, NEW k \in Nat, k >= 1, k <= Len(open), NEW a
  PROVE  Left(Len(open) - k, k, a) = RootsWith(k, a)
<1> DEFINE b == Len(open) - k
<1>1. Len(open) \in Nat /\ DOMAIN open = 1..Len(open)
  BY DEF WalkInv, Walked
<1>2. \A x : x \in {y \in DOMAIN open : y <= b + 1 \/ y > b + k} <=> x \in 1..(b + 1)
  BY <1>1
<1>3. {x \in DOMAIN open : x <= b + 1 \/ x > b + k} = 1..(b + 1)
  BY <1>2
<1> QED
  BY <1>3 DEF Left, RootsWith

(* A node takes the root and d operands more.                              *)
TakesRoots(h, h1, made, a, b, m, d) ==
  /\ 0 \notin DOMAIN h /\ made \notin DOMAIN h /\ made # 0 /\ DOMAIN h1 = DOMAIN h \cup {made}
  /\ \A n \in DOMAIN h : h1[n].parts = h[n].parts
  /\ DOMAIN h1[made].parts = 1..(d + 1) /\ h1[made].parts[1] = a
  /\ \A j \in 1..d : h1[made].parts[j + 1] = Roots[b + m + j]
LEMMA TakesNext ==
  ASSUME WalkInv, NEW b \in Nat, NEW m \in Nat, m >= 1, NEW d \in Nat, b + m + d <= Len(open),
         NEW h, NEW h1, NEW a, NEW made, NEW X, HeldOnce(h, Left(b, m, a), X), TakesRoots(h, h1, made, a, b, m, d)
  PROVE  HeldOnce(h1, Left(b, m + d, made), X)
<1> DEFINE w == Left(b, m, a)
           w1 == Left(b, m + d, made)
           p == [j \in 1..(d + 1) |-> IF j = 1 THEN b + 1 ELSE b + m + (j - 1)]
           L == Len(open)
           parts == h1[made].parts
<1>1. L \in Nat /\ b < L /\ m + d \in Nat /\ b + (m + d) <= L
  BY DEF WalkInv, Walked
<1>2. /\ \A i : i \in DOMAIN w <=> i \in 1..L /\ (i <= b + 1 \/ i > b + m)
      /\ b + 1 \in DOMAIN w /\ w[b + 1] = a
      /\ \A i \in DOMAIN w : i # b + 1 => w[i] = Roots[i]
  BY <1>1, LeftFacts
<1>3. /\ \A i : i \in DOMAIN w1 <=> i \in 1..L /\ (i <= b + 1 \/ i > b + (m + d))
      /\ b + 1 \in DOMAIN w1 /\ w1[b + 1] = made
      /\ \A i \in DOMAIN w1 : i # b + 1 => w1[i] = Roots[i]
  BY <1>1, LeftFacts
<1>4. /\ 0 \notin DOMAIN h /\ made \notin DOMAIN h /\ made # 0 /\ DOMAIN h1 = DOMAIN h \cup {made}
      /\ \A n \in DOMAIN h : h1[n].parts = h[n].parts
      /\ DOMAIN parts = 1..(d + 1) /\ parts[1] = a
      /\ \A j \in 1..d : parts[j + 1] = Roots[b + m + j]
  BY DEF TakesRoots
<1>5. \A i \in DOMAIN w : w[i] \in DOMAIN h
  <2>1. HeldOnce(h, w, X) /\ 0 \notin DOMAIN h
    BY <1>4
  <2> HIDE DEF w
  <2>2. ASSUME NEW i, i \in DOMAIN w
        PROVE  <<0, i>> \in SlotsOf(Book(h, w)) /\ At(Book(h, w), <<0, i>>) = w[i]
    BY <2>1, <2>2, BookSlots
  <2> QED
    BY <2>1, <2>2 DEF HeldOnce
<1>6. HeldOnce(h, w, X)
  OBVIOUS
<1> HIDE DEF w, w1, L, parts
<1>7. \A i \in DOMAIN w1 \ {b + 1} : i \in DOMAIN w /\ w1[i] = w[i]
  BY <1>1, <1>2, <1>3
<1>8. ASSUME NEW j \in 1..(d + 1)
      PROVE  /\ p[j] \in DOMAIN w /\ w[p[j]] = parts[j] /\ p[j] \notin DOMAIN w1 \ {b + 1}
             /\ p[j] = IF j = 1 THEN b + 1 ELSE b + m + (j - 1)
  <2>1. CASE j = 1
    BY <2>1, <1>2, <1>4
  <2>2. CASE j # 1
    <3> DEFINE i == j - 1
    <3>1. i \in 1..d /\ j = i + 1 /\ p[j] = b + m + i
      BY <2>2
    <3> HIDE DEF i, p
    <3>2. b + m + i \in 1..L /\ b + m + i > b + m /\ b + m + i # b + 1
      BY <1>1, <3>1
    <3>3. b + m + i \in DOMAIN w /\ w[b + m + i] = Roots[b + m + i]
      BY <1>2, <3>2
    <3>4. b + m + i \notin DOMAIN w1
      <4>1. ~(b + m + i <= b + 1 \/ b + m + i > b + (m + d))
        BY <1>1, <3>1
      <4> QED
        BY <1>3, <4>1
    <3>5. p[j] = IF j = 1 THEN b + 1 ELSE b + m + (j - 1)
      BY <2>2 DEF p
    <3> QED
      BY <1>4, <3>1, <3>3, <3>4, <3>5
  <2> QED
    BY <2>1, <2>2
<1>9. ASSUME NEW i \in 1..(d + 1), NEW j \in 1..(d + 1), p[i] = p[j] PROVE i = j
  <2>1. (IF i = 1 THEN b + 1 ELSE b + m + (i - 1)) = IF j = 1 THEN b + 1 ELSE b + m + (j - 1)
    BY <1>8, <1>9
  <2> HIDE DEF p
  <2> QED
    BY <2>1
<1>10. ASSUME NEW i \in DOMAIN w PROVE i \in DOMAIN w1 \ {b + 1} \/ \E j \in 1..(d + 1) : p[j] = i
  <2>1. CASE i = b + 1
    <3>1. 1 \in 1..(d + 1) /\ p[1] = i
      BY <2>1
    <3> QED
      BY <3>1
  <2>2. CASE i # b + 1 /\ i \in DOMAIN w1
    BY <2>2
  <2>3. CASE i # b + 1 /\ i \notin DOMAIN w1
    <3>1. i \in 1..L /\ i > b + m /\ i <= b + (m + d)
      BY <2>3, <1>1, <1>2, <1>3, <1>10
    <3> DEFINE j == i - (b + m) + 1
    <3>2. j \in 1..(d + 1) /\ j # 1 /\ b + m + (j - 1) = i
      BY <1>1, <3>1
    <3> HIDE DEF j, p
    <3>3. p[j] = i
      BY <1>8, <3>2
    <3> QED
      BY <3>2, <3>3
  <2> QED
    BY <2>1, <2>2, <2>3
<1> HIDE DEF p
<1>11. Taken(h, w, h1, w1, X, made, b + 1, p)
  <2>1. parts = h1[made].parts
    BY DEF parts
  <2>2. \A j \in DOMAIN h1[made].parts :
            /\ h1[made].parts[j] \in DOMAIN h
            /\ p[j] \in DOMAIN w /\ w[p[j]] = h1[made].parts[j] /\ p[j] \notin DOMAIN w1 \ {b + 1}
    BY <2>1, <1>4, <1>5, <1>8
  <2>3. \A i, j \in DOMAIN h1[made].parts : p[i] = p[j] => i = j
    BY <2>1, <1>4, <1>9
  <2>4. ASSUME NEW i \in DOMAIN w
        PROVE  i \in DOMAIN w1 \ {b + 1} \/ \E j \in DOMAIN h1[made].parts : p[j] = i /\ h1[made].parts[j] = w[i]
    <3>1. CASE i \in DOMAIN w1 \ {b + 1}
      BY <3>1
    <3>2. CASE \E j \in 1..(d + 1) : p[j] = i
      <4>1. PICK j \in 1..(d + 1) : p[j] = i
        BY <3>2
      <4>2. w[p[j]] = parts[j] /\ j \in DOMAIN h1[made].parts
        BY <2>1, <4>1, <1>4, <1>8
      <4> QED
        BY <2>1, <4>1, <4>2
    <3> QED
      BY <3>1, <3>2, <1>10
  <2> QED
    BY <1>3, <1>4, <1>7, <2>2, <2>3, <2>4 DEF Taken
<1> QED
  BY <1>6, <1>11, Takes DEF w1
LEMMA InBook ==
  ASSUME NEW h, NEW w, 0 \notin DOMAIN h
  PROVE  /\ \A m, i : m \in DOMAIN h => At(Book(h, w), <<m, i>>) = h[m].parts[i]
         /\ \A i : At(Book(h, w), <<0, i>>) = w[i]
<1> DEFINE b == Book(h, w)
<1>1. b[0] = w /\ \A m \in DOMAIN h : b[m] = h[m].parts
  BY DEF Book
<1>2. \A m, i : <<m, i>>[1] = m /\ <<m, i>>[2] = i
  OBVIOUS
<1> HIDE DEF b
<1>3. \A m, i : At(b, <<m, i>>) = b[m][i]
  BY <1>2 DEF At
<1> QED
  BY <1>1, <1>3 DEF b

(* What goes from one set of operands to the next.                         *)
LEMMA LeftBehind ==
  ASSUME WalkInv, NEW b \in Nat, NEW m \in Nat, m >= 1, NEW d \in Nat, b + m + d <= Len(open), NEW a
  PROVE  /\ \A i \in DOMAIN Left(b, m + d, a) :
              i \in DOMAIN Left(b, m, a) /\ Left(b, m + d, a)[i] = Left(b, m, a)[i]
         /\ \A i : i \in DOMAIN Left(b, m, a) \ DOMAIN Left(b, m + d, a) <=> \E j \in 1..d : i = b + m + j
         /\ \A j \in 1..d : Left(b, m, a)[b + m + j] = Roots[b + m + j]
<1> DEFINE w == Left(b, m, a)
           w1 == Left(b, m + d, a)
           L == Len(open)
<1>0. L \in Nat
  BY DEF WalkInv, Walked
<1>1. b < L /\ m + d \in Nat /\ b + (m + d) <= L
  BY <1>0
<1>2. /\ \A i : i \in DOMAIN w <=> i \in 1..L /\ (i <= b + 1 \/ i > b + m)
      /\ b + 1 \in DOMAIN w /\ w[b + 1] = a
      /\ \A i \in DOMAIN w : i # b + 1 => w[i] = Roots[i]
  BY <1>1, LeftFacts
<1>3. /\ \A i : i \in DOMAIN w1 <=> i \in 1..L /\ (i <= b + 1 \/ i > b + (m + d))
      /\ b + 1 \in DOMAIN w1 /\ w1[b + 1] = a
      /\ \A i \in DOMAIN w1 : i # b + 1 => w1[i] = Roots[i]
  BY <1>1, LeftFacts
<1> HIDE DEF w, w1, L
<1>4. \A i \in DOMAIN w1 : i \in DOMAIN w /\ w1[i] = w[i]
  BY <1>0, <1>1, <1>2, <1>3
<1>5. ASSUME NEW j \in 1..d
      PROVE  b + m + j \in DOMAIN w \ DOMAIN w1 /\ w[b + m + j] = Roots[b + m + j]
  <2>1. b + m + j \in 1..L /\ b + m + j > b + m /\ ~(b + m + j <= b + 1) /\ ~(b + m + j > b + (m + d))
    BY <1>0, <1>1
  <2>2. b + m + j # b + 1
    BY <1>0
  <2> QED
    BY <2>1, <2>2, <1>2, <1>3
<1>6. ASSUME NEW i, i \in DOMAIN w \ DOMAIN w1 PROVE \E j \in 1..d : i = b + m + j
  <2>1. i \in 1..L /\ i > b + m /\ i <= b + (m + d)
    BY <1>0, <1>1, <1>2, <1>3, <1>6
  <2>2. i - (b + m) \in 1..d /\ i = b + m + (i - (b + m))
    BY <1>0, <2>1
  <2> QED
    BY <2>2
<1> QED
  BY <1>4, <1>5, <1>6 DEF w, w1

LEMMA AppendRewires ==
  ASSUME WalkInv, NEW b \in Nat, NEW m \in Nat, m >= 1, b + m + 1 <= Len(open),
         NEW h, WellBuilt(h), NEW a, NEW X, HeldOnce(h, Left(b, m, a), X),
         NEW h1, NEW t, Appended(h, h1, t, Roots[b + m + 1])
  PROVE  HeldOnce(h1, Left(b, m + 1, a), X)
<1> DEFINE w == Left(b, m, a)
           w1 == Left(b, m + 1, a)
           r == b + m + 1
           right == Roots[b + m + 1]
           made == Len(h) + 1
<1>1. /\ \A i \in DOMAIN w1 : i \in DOMAIN w /\ w1[i] = w[i]
      /\ \A i : i \in DOMAIN w \ DOMAIN w1 <=> i = r
      /\ w[r] = right
  <2>1. 1 \in Nat /\ \A j \in 1..1 : j = 1
    OBVIOUS
  <2>2. \A i : (\E j \in 1..1 : i = b + m + j) <=> i = b + m + 1
    BY <2>1
  <2>3. 1 \in 1..1
    OBVIOUS
  <2> QED
    BY <2>1, <2>2, <2>3, LeftBehind
<1>2. h \in Seq(AnyNode) /\ Len(h) \in Nat /\ 0 \notin DOMAIN h /\ made # 0
  BY DEF WellBuilt
<1>3. /\ t \in DOMAIN h /\ h[t].kind = "binary"
      /\ DOMAIN h1 = DOMAIN h \cup {made} /\ made \notin DOMAIN h
      /\ \A n \in DOMAIN h \ {t} : h1[n] = h[n]
  BY DEF Appended, Kind
<1>4. DOMAIN h[t].parts = 1..2
  <2>1. h[t] \in AnyNode /\ Fits(h, t)
    BY <1>2, <1>3 DEF WellBuilt
  <2>2. h[t].parts \in Seq(Nat) /\ Len(h[t].parts) = 2
    BY <1>3, <2>1, Kinds DEF AnyNode, Fits, ExpressionFits
  <2> QED
    BY <2>2
<1>5. t # made /\ t # 0 /\ 0 \notin DOMAIN h1
  BY <1>2, <1>3
<1>6. /\ \A n, i : n \in DOMAIN h => At(Book(h, w), <<n, i>>) = h[n].parts[i]
      /\ \A i : At(Book(h, w), <<0, i>>) = w[i]
      /\ \A n, i : n \in DOMAIN h1 => At(Book(h1, w1), <<n, i>>) = h1[n].parts[i]
  <2> HIDE DEF w, w1
  <2> QED
    BY <1>2, <1>5, InBook
<1>7. HeldOnce(h, w, X)
  OBVIOUS
<1>8. \A j \in 1..2 : j = 1 \/ j = 2
  OBVIOUS
<1>9. 1 \in 1..2 /\ 2 \in 1..2
  OBVIOUS
<1> HIDE DEF w, w1, r, made, right
<1> DEFINE ours == {<<t, j>> : j \in DOMAIN h1[t].parts} \cup {<<made, j>> : j \in DOMAIN h1[made].parts}
           theirs == {<<t, j>> : j \in DOMAIN h[t].parts} \cup {<<0, i>> : i \in DOMAIN w \ DOMAIN w1}
<1>10. theirs = {<<t, 1>>, <<t, 2>>, <<0, r>>}
  BY <1>1, <1>4, <1>8, <1>9
<1>11. CASE h1[t].parts = <<made, right>> /\ h1[made].parts = h[t].parts
  <2> DEFINE src == [u \in {<<t, 2>>, <<made, 1>>, <<made, 2>>} |-> IF u = <<t, 2>> THEN <<0, r>> ELSE <<t, u[2]>>]
  <2>1. DOMAIN h1[t].parts = 1..2 /\ h1[t].parts[1] = made /\ h1[t].parts[2] = right /\ DOMAIN h1[made].parts = 1..2
    BY <1>4, <1>11
  <2>2. ours = {<<t, 1>>, <<t, 2>>, <<made, 1>>, <<made, 2>>}
    BY <2>1, <1>8, <1>9
  <2>3. src[<<t, 2>>] = <<0, r>> /\ src[<<made, 1>>] = <<t, 1>> /\ src[<<made, 2>>] = <<t, 2>>
    BY <1>5
  <2> HIDE DEF src, ours, theirs
  <2>4. ours \ {<<t, 1>>} = {<<t, 2>>, <<made, 1>>, <<made, 2>>}
    BY <2>2, <1>5
  <2>5. /\ At(Book(h1, w1), <<t, 2>>) = right /\ At(Book(h, w), <<0, r>>) = right
        /\ At(Book(h1, w1), <<made, 1>>) = h[t].parts[1] /\ At(Book(h, w), <<t, 1>>) = h[t].parts[1]
        /\ At(Book(h1, w1), <<made, 2>>) = h[t].parts[2] /\ At(Book(h, w), <<t, 2>>) = h[t].parts[2]
    BY <2>1, <1>1, <1>3, <1>6, <1>11
  <2>6. \A u \in ours \ {<<t, 1>>} : src[u] \in theirs /\ At(Book(h, w), src[u]) = At(Book(h1, w1), u)
    BY <2>3, <2>4, <2>5, <1>10
  <2>7. \A u, v \in ours \ {<<t, 1>>} : src[u] = src[v] => u = v
    <3>1. <<0, r>> # <<t, 1>> /\ <<0, r>> # <<t, 2>> /\ <<t, 1>> # <<t, 2>>
      BY <1>5
    <3> QED
      BY <2>3, <2>4, <3>1
  <2>8. \A s \in theirs : \E u \in ours \ {<<t, 1>>} : src[u] = s
    BY <2>3, <2>4, <1>10
  <2>9. Rewired(h, w, h1, w1, made, t, 1, src)
    BY <2>1, <2>6, <2>7, <2>8, <1>1, <1>2, <1>3, <1>9 DEF Rewired, ours, theirs
  <2> QED
    BY <2>9, <1>7, Rewires DEF w1
<1>12. CASE /\ h1[t].parts \in Seq(Nat) /\ Len(h1[t].parts) = 2
            /\ h1[t].parts[1] = h[t].parts[1] /\ h1[t].parts[2] = made
            /\ h1[made].parts = <<h[t].parts[2], right>>
  <2> DEFINE src == [u \in {<<t, 1>>, <<made, 1>>, <<made, 2>>} |->
                       IF u = <<made, 2>> THEN <<0, r>> ELSE IF u = <<made, 1>> THEN <<t, 2>> ELSE u]
  <2>1. /\ DOMAIN h1[t].parts = 1..2 /\ DOMAIN h1[made].parts = 1..2
        /\ h1[made].parts[1] = h[t].parts[2] /\ h1[made].parts[2] = right
    BY <1>12
  <2>2. ours = {<<t, 1>>, <<t, 2>>, <<made, 1>>, <<made, 2>>}
    BY <2>1, <1>8, <1>9
  <2>3. src[<<made, 2>>] = <<0, r>> /\ src[<<made, 1>>] = <<t, 2>> /\ src[<<t, 1>>] = <<t, 1>>
    BY <1>5
  <2> HIDE DEF src, ours, theirs
  <2>4. ours \ {<<t, 2>>} = {<<t, 1>>, <<made, 1>>, <<made, 2>>}
    BY <2>2, <1>5
  <2>5. /\ At(Book(h1, w1), <<made, 2>>) = right /\ At(Book(h, w), <<0, r>>) = right
        /\ At(Book(h1, w1), <<made, 1>>) = h[t].parts[2] /\ At(Book(h, w), <<t, 2>>) = h[t].parts[2]
        /\ At(Book(h1, w1), <<t, 1>>) = h[t].parts[1] /\ At(Book(h, w), <<t, 1>>) = h[t].parts[1]
    BY <2>1, <1>1, <1>3, <1>6, <1>12
  <2>6. \A u \in ours \ {<<t, 2>>} : src[u] \in theirs /\ At(Book(h, w), src[u]) = At(Book(h1, w1), u)
    BY <2>3, <2>4, <2>5, <1>10
  <2>7. \A u, v \in ours \ {<<t, 2>>} : src[u] = src[v] => u = v
    <3>1. <<0, r>> # <<t, 1>> /\ <<0, r>> # <<t, 2>> /\ <<t, 1>> # <<t, 2>>
      BY <1>5
    <3> QED
      BY <2>3, <2>4, <3>1
  <2>8. \A s \in theirs : \E u \in ours \ {<<t, 2>>} : src[u] = s
    BY <2>3, <2>4, <1>10
  <2>9. Rewired(h, w, h1, w1, made, t, 2, src)
    BY <2>1, <2>6, <2>7, <2>8, <1>1, <1>2, <1>3, <1>9, <1>12 DEF Rewired, ours, theirs
  <2> QED
    BY <2>9, <1>7, Rewires DEF w1
<1> QED
  BY <1>11, <1>12 DEF Appended, made, right
LEMMA OnceExit ==
  ASSUME WalkInv, NEW k \in Nat, k >= 1, k <= Len(open), NEW r, NEW h, NEW a, Exit(r, Children(k), h, a),
         HeldOnce(h, Left(Len(open) - k, k, a), ElseBlocks)
  PROVE  OnceInv'
<1>1. nodes' = h /\ Roots' = RootsWith(k, a)
  BY ExitRoots
<1>2. HeldOnce(nodes', Roots', ElseBlocks)
  BY <1>1, LeftAtLast
<1>3. ElseBlocks \subseteq ElseBlocks'
  BY ElseBlocksStay
<1> QED
  BY <1>2, <1>3, MoreExcepted DEF OnceInv

LEMMA ChildRoots ==
  ASSUME WalkInv, NEW k \in Nat, k <= Len(open)
  PROVE  \A j \in 1..k : NodesOf(Children(k))[j] = Roots[Len(open) - k + j]
<1> SUFFICES ASSUME NEW j \in 1..k PROVE NodesOf(Children(k))[j] = Roots[Len(open) - k + j]
  OBVIOUS
<1>1. NodesOf(Children(k))[j] = astNodes[open[Len(open) - k + j]]
  BY ChildrenFacts DEF WalkInv
<1>2. Len(open) - k + j \in DOMAIN open
  <2>1. Len(open) \in Nat /\ DOMAIN open = 1..Len(open)
    BY DEF WalkInv, Walked
  <2> QED
    BY <2>1
<1> QED
  BY <1>1, <1>2 DEF Roots

(* The first operator: the node made has the first two operands.           *)
LEMMA FirstOnce ==
  ASSUME WalkInv, OnceInv, NEW k \in Nat, k <= Len(open), NEW d \in 1..2, k >= d + 1, NEW x,
         x \in AnyNode, x.parts = SubSeq(NodesOf(Children(k)), 1, d + 1)
  PROVE  HeldOnce(Append(nodes, x), Left(Len(open) - k, d + 1, new), ElseBlocks)
<1> DEFINE b == Len(open) - k
           e == NodesOf(Children(k))
           h == Append(nodes, x)
<1>1. /\ nodes \in Seq(AnyNode) /\ Len(nodes) \in Nat /\ new = Len(nodes) + 1 /\ DOMAIN nodes = 1..Len(nodes)
      /\ Len(open) \in Nat
  BY DEF WalkInv, Walked, WellBuilt, new
<1>2. b \in Nat /\ d \in Nat /\ 1 \in Nat /\ b + 1 + d <= Len(open) /\ k >= 1 /\ d + 1 = 1 + d
  BY <1>1
<1>3. HeldOnce(nodes, Left(b, 1, e[1]), ElseBlocks)
  BY <1>2, LeftAtFirst DEF OnceInv
<1>4. e \in Seq(Nat) /\ Len(e) = k /\ \A j \in 1..k : e[j] = Roots[b + j]
  <2>1. Len(e) = k
    BY ChildrenFacts DEF WalkInv
  <2>2. e \in Seq(Nat)
    BY ChildNodes
  <2> QED
    BY <2>1, <2>2, ChildRoots
<1>5. x.parts = SubSeq(e, 1, d + 1)
  OBVIOUS
<1> HIDE DEF e
<1>6. DOMAIN x.parts = 1..(d + 1) /\ \A j \in 1..(d + 1) : x.parts[j] = e[j]
  BY <1>4, <1>5
<1>7. /\ DOMAIN h = DOMAIN nodes \cup {new} /\ new \notin DOMAIN nodes /\ h[new] = x
      /\ \A n \in DOMAIN nodes : h[n] = nodes[n]
  BY <1>1
<1> HIDE DEF h, b
<1>8. \A j \in 1..d : x.parts[j + 1] = Roots[b + 1 + j]
  <2> SUFFICES ASSUME NEW j \in 1..d PROVE x.parts[j + 1] = Roots[b + 1 + j]
    OBVIOUS
  <2>1. j + 1 \in 1..(d + 1) /\ j + 1 \in 1..k /\ b + (j + 1) = b + 1 + j
    BY <1>2
  <2> QED
    BY <2>1, <1>4, <1>6
<1>9. TakesRoots(nodes, h, new, e[1], b, 1, d)
  <2>1. 0 \notin DOMAIN nodes /\ new # 0 /\ 1 \in 1..(d + 1)
    BY <1>1
  <2> QED
    BY <2>1, <1>6, <1>7, <1>8 DEF TakesRoots
<1>10. HeldOnce(h, Left(b, 1 + d, new), ElseBlocks)
  BY <1>2, <1>3, <1>9, TakesNext
<1> QED
  BY <1>2, <1>10 DEF h, b

LEMMA OnceBinary ==
  ASSUME WalkInv, OnceInv, ExitBinaryExpression
  PROVE  OnceInv'
<1>1. PICK n \in 1..source.chain :
        /\ Len(open) > n
        /\ rule(Children(n + 1)[1]) \in Operands \ {"prefix"}
        /\ \A i \in 2..(n + 1) : isRight(Children(n + 1)[i], i = n + 1)
        /\ \E ops \in [1..n -> Priorities] :
             Exit("binary", Children(n + 1), BinaryTree(ops, NodesOf(Children(n + 1))), new)
  BY DEF ExitBinaryExpression
<1>2. PICK ops \in [1..n -> Priorities] :
        Exit("binary", Children(n + 1), BinaryTree(ops, NodesOf(Children(n + 1))), new)
  BY <1>1
<1> DEFINE k == n + 1
           b == Len(open) - k
           e == NodesOf(Children(k))
           h == BinaryTree(ops, e)
<1>3. n \in Nat /\ n >= 1 /\ k \in Nat /\ k <= Len(open) /\ Len(open) \in Nat /\ k = n + 1 /\ b \in Nat /\ b + k = Len(open)
  <2>1. Len(open) \in Nat
    BY DEF WalkInv, Walked
  <2> QED
    BY <1>1, <2>1
<1>4. \A i \in 1..k : rule(Children(k)[i]) \in Expressions
  <2>1. \A i \in 1..k : i = 1 \/ i \in 2..k
    BY <1>3
  <2>2. rule(Children(k)[1]) \in Expressions
    BY <1>1, Kinds DEF Operands
  <2>3. \A i \in 2..k : rule(Children(k)[i]) \in Expressions
    BY <1>1, Kinds DEF isRight, signs
  <2> QED
    BY <2>1, <2>2, <2>3
<1>5. e \in Seq(Nat) /\ Len(e) = k /\ \A i \in 1..k : e[i] \in Exprs(nodes) /\ e[i] = Roots[b + i]
  <2>1. Len(e) = k
    BY <1>3, ChildrenFacts DEF WalkInv
  <2>2. e \in Seq(Nat) /\ \A i \in 1..k : e[i] \in Exprs(nodes)
    BY <1>3, <1>4, ChildNodes
  <2> QED
    BY <2>1, <2>2, <1>3, ChildRoots
<1>6. Len(ops) = n /\ \A i \in 1..n : ops[i] \in Priorities
  <2>1. ops = [i \in 1..n |-> ops[i]]
    OBVIOUS
  <2>2. ops \in Seq(Priorities)
    BY <1>3, <2>1
  <2> QED
    BY <1>3, <2>2
<1>7. WellBuilt(nodes) /\ Here \in Nat
  BY DEF WalkInv, Walked, Here
<1>8. Exit("binary", Children(k), h, new)
  BY <1>2
<1>9. \A x : x = FirstBinary(ops, e) => x.parts = SubSeq(NodesOf(Children(k)), 1, 1 + 1)
  BY DEF FirstBinary
<1>10. b = Len(open) - k
  OBVIOUS
<1> HIDE DEF k, e, b
<1>11. PICK g : h = g[n] /\ \A i \in 1..n : BinaryAt(ops, e, g, i)
  BY <1>3, <1>6, BinaryEquation
<1> HIDE DEF h
<1> DEFINE S == {i \in 1..n : GrowsBinary(g[i]) /\ HeldOnce(g[i], Left(b, i + 1, new), ElseBlocks)}
<1>12. 1 \in S
  <2> DEFINE x == FirstBinary(ops, e)
  <2>1. g[1] = Append(nodes, x) /\ 1 \in 1..n
    <3>1. 1 \in 1..n
      BY <1>3
    <3>2. BinaryAt(ops, e, g, 1)
      BY <1>11, <3>1
    <3> QED
      BY <3>1, <3>2 DEF BinaryAt
  <2>2. 1 \in 1..k /\ 2 \in 1..k /\ k >= 2
    BY <1>3
  <2>3. GrowsBinary(g[1])
    BY <2>1, <2>2, <1>5, <1>6, <1>7, FirstGrows
  <2>4. x \in AnyNode
    <3>1. g[1] \in Seq(AnyNode)
      BY <2>3 DEF GrowsBinary, WellBuilt
    <3>2. nodes \in Seq(AnyNode)
      BY <1>7 DEF WellBuilt
    <3>3. new \in DOMAIN g[1] /\ g[1][new] = x
      <4>1. new \in DOMAIN g[1]
        BY <2>3 DEF GrowsBinary, Kind
      <4> HIDE DEF x
      <4>2. g[1][new] = x
        BY <2>1, <3>2 DEF new
      <4> QED
        BY <4>1, <4>2
    <3> HIDE DEF x
    <3> QED
      BY <3>1, <3>3
  <2>5. x.parts = SubSeq(NodesOf(Children(k)), 1, 1 + 1) /\ 1 \in 1..2 /\ k >= 1 + 1
    BY <1>9, <2>2
  <2> HIDE DEF x
  <2>6. HeldOnce(Append(nodes, x), Left(Len(open) - k, 1 + 1, new), ElseBlocks)
    BY <1>3, <2>4, <2>5, FirstOnce
  <2> QED
    BY <1>10, <2>1, <2>3, <2>6
<1>13. ASSUME NEW i \in 1..n, i \in S, i < n PROVE i + 1 \in S
  <2>1. /\ i + 1 \in 1..n /\ i + 1 # 1 /\ (i + 1) - 1 = i /\ (i + 1) + 1 \in 1..k
        /\ i + 1 \in Nat /\ i + 1 >= 1 /\ b + (i + 1) + 1 <= Len(open) /\ b + ((i + 1) + 1) = b + (i + 1) + 1
    BY <1>3, <1>13
  <2>2. g[i + 1] = appendExpr(g[i], new, ops[i + 1], e[(i + 1) + 1])
    <3>1. BinaryAt(ops, e, g, i + 1)
      BY <1>11, <2>1
    <3> QED
      BY <2>1, <3>1 DEF BinaryAt
  <2> DEFINE right == e[(i + 1) + 1]
  <2>3. right \in Exprs(nodes) /\ right \in Nat /\ right = Roots[b + (i + 1) + 1]
    <3>1. right \in Exprs(nodes) /\ right = Roots[b + ((i + 1) + 1)]
      BY <1>5, <2>1
    <3>2. Exprs(nodes) \subseteq Nat
      BY <1>7 DEF Exprs, WellBuilt
    <3> QED
      BY <2>1, <3>1, <3>2
  <2> HIDE DEF right
  <2>4. GrowsBinary(g[i]) /\ WellBuilt(g[i]) /\ new \in Kind(g[i], "binary")
    BY <1>13 DEF GrowsBinary
  <2>5. PICK t : Appended(g[i], g[i + 1], t, right)
    <3>1. ops[i + 1] \in Priorities
      BY <1>6, <2>1
    <3>2. g[i + 1] = appendExpr(g[i], new, ops[i + 1], right)
      BY <2>2 DEF right
    <3>3. Appended(g[i], g[i + 1], appendsTo(g[i], new, ops[i + 1]), right)
      BY <2>3, <2>4, <3>1, <3>2, AppendExprFacts
    <3> QED
      BY <3>3
  <2>6. GrowsBinary(g[i + 1])
    BY <1>7, <2>3, <2>4, <2>5, AppendGrows
  <2>7. HeldOnce(g[i + 1], Left(b, (i + 1) + 1, new), ElseBlocks)
    <3>1. HeldOnce(g[i], Left(b, i + 1, new), ElseBlocks)
      BY <1>13
    <3>2. Appended(g[i], g[i + 1], t, Roots[b + (i + 1) + 1])
      BY <2>3, <2>5
    <3> QED
      BY <1>3, <2>1, <2>4, <3>1, <3>2, AppendRewires
  <2> QED
    BY <2>1, <2>6, <2>7
<1>14. HeldOnce(h, Left(b, n + 1, new), ElseBlocks)
  <2> HIDE DEF S
  <2>1. \A i \in 1..n : i \in S
    BY <1>3, <1>12, <1>13, CountingUp
  <2>2. n \in S
    BY <1>3, <2>1
  <2> QED
    BY <2>2, <1>11 DEF S
<1> QED
  <2>1. k >= 1 /\ HeldOnce(h, Left(Len(open) - k, k, new), ElseBlocks)
    BY <1>3, <1>10, <1>14
  <2> QED
    BY <1>3, <1>8, <2>1, OnceExit
LEMMA BodyRewires ==
  ASSUME WalkInv, NEW b \in Nat, NEW m \in Nat, m >= 1, b + m + 2 <= Len(open),
         NEW h, WellBuilt(h), new \in Kind(h, "ternary"), NEW a, NEW X, HeldOnce(h, Left(b, m, a), X),
         NEW h1, BodyAdded(h, h1, Roots[b + m + 1], Roots[b + m + 2])
  PROVE  HeldOnce(h1, Left(b, m + 2, a), X)
<1> DEFINE w == Left(b, m, a)
           w1 == Left(b, m + 2, a)
           r == b + m + 1
           s == b + m + 2
           left == Roots[b + m + 1]
           right == Roots[b + m + 2]
           made == Len(h) + 1
           t == new
<1>1. /\ \A i \in DOMAIN w1 : i \in DOMAIN w /\ w1[i] = w[i]
      /\ \A i : i \in DOMAIN w \ DOMAIN w1 <=> i = r \/ i = s
      /\ w[r] = left /\ w[s] = right /\ r # s
  <2>1. 2 \in Nat /\ \A j \in 1..2 : j = 1 \/ j = 2
    OBVIOUS
  <2>2. 1 \in 1..2 /\ 2 \in 1..2
    OBVIOUS
  <2>3. \A i : (\E j \in 1..2 : i = b + m + j) <=> i = b + m + 1 \/ i = b + m + 2
    BY <2>1, <2>2
  <2>4. b + m + 1 # b + m + 2
    OBVIOUS
  <2> QED
    BY <2>1, <2>2, <2>3, <2>4, LeftBehind
<1>2. h \in Seq(AnyNode) /\ Len(h) \in Nat /\ 0 \notin DOMAIN h /\ made # 0
  BY DEF WellBuilt
<1>3. t \in DOMAIN h /\ h[t].kind = "ternary" /\ BodyAdded(h, h1, left, right)
  BY DEF Kind
<1> HIDE DEF t, left, right
<1>4. /\ DOMAIN h1 = DOMAIN h \cup {made} /\ made \notin DOMAIN h
      /\ \A n \in DOMAIN h \ {t} : h1[n] = h[n]
      /\ h1[t].parts \in Seq(Nat) /\ Len(h1[t].parts) = 3
      /\ h1[t].parts[1] = h[t].parts[1] /\ h1[t].parts[2] = h[t].parts[2] /\ h1[t].parts[3] = made
      /\ h1[made].parts \in Seq(Nat) /\ Len(h1[made].parts) = 3
      /\ h1[made].parts[1] = h[t].parts[3] /\ h1[made].parts[2] = left /\ h1[made].parts[3] = right
  BY <1>3 DEF BodyAdded, t
<1>5. DOMAIN h[t].parts = 1..3 /\ DOMAIN h1[t].parts = 1..3 /\ DOMAIN h1[made].parts = 1..3
  <2>1. h[t] \in AnyNode /\ Fits(h, t)
    BY <1>2, <1>3 DEF WellBuilt
  <2>2. h[t].parts \in Seq(Nat) /\ Len(h[t].parts) = 3
    BY <1>3, <2>1, Kinds DEF AnyNode, Fits, ExpressionFits
  <2>3. h1[t].parts \in Seq(Nat) /\ Len(h1[t].parts) = 3
    BY <1>4
  <2>4. h1[made].parts \in Seq(Nat) /\ Len(h1[made].parts) = 3
    BY <1>4
  <2> HIDE DEF made
  <2> QED
    BY <2>2, <2>3, <2>4
<1>6. t # made /\ t # 0 /\ 0 \notin DOMAIN h1
  BY <1>2, <1>3, <1>4
<1>7. /\ \A n, i : n \in DOMAIN h => At(Book(h, w), <<n, i>>) = h[n].parts[i]
      /\ \A i : At(Book(h, w), <<0, i>>) = w[i]
      /\ \A n, i : n \in DOMAIN h1 => At(Book(h1, w1), <<n, i>>) = h1[n].parts[i]
  <2> HIDE DEF w, w1
  <2> QED
    BY <1>2, <1>6, InBook
<1>8. HeldOnce(h, w, X)
  OBVIOUS
<1>9. /\ \A j \in 1..3 : j = 1 \/ j = 2 \/ j = 3
      /\ 1 \in 1..3 /\ 2 \in 1..3 /\ 3 \in 1..3
  OBVIOUS
<1> HIDE DEF w, w1, r, s, made
<1> DEFINE ours == {<<t, j>> : j \in DOMAIN h1[t].parts} \cup {<<made, j>> : j \in DOMAIN h1[made].parts}
           theirs == {<<t, j>> : j \in DOMAIN h[t].parts} \cup {<<0, i>> : i \in DOMAIN w \ DOMAIN w1}
           rest == {<<t, 1>>, <<t, 2>>, <<made, 1>>, <<made, 2>>, <<made, 3>>}
           src == [u \in rest |-> IF u = <<made, 1>> THEN <<t, 3>> ELSE IF u = <<made, 2>> THEN <<0, r>>
                                  ELSE IF u = <<made, 3>> THEN <<0, s>> ELSE u]
<1>10. theirs = {<<t, 1>>, <<t, 2>>, <<t, 3>>, <<0, r>>, <<0, s>>}
  BY <1>1, <1>5, <1>9
<1>11. ours = {<<t, 1>>, <<t, 2>>, <<t, 3>>, <<made, 1>>, <<made, 2>>, <<made, 3>>}
  BY <1>5, <1>9
<1>12. /\ src[<<made, 1>>] = <<t, 3>> /\ src[<<made, 2>>] = <<0, r>> /\ src[<<made, 3>>] = <<0, s>>
       /\ src[<<t, 1>>] = <<t, 1>> /\ src[<<t, 2>>] = <<t, 2>>
  BY <1>6
<1> HIDE DEF src, ours, theirs, rest
<1>13. ours \ {<<t, 3>>} = {<<t, 1>>, <<t, 2>>, <<made, 1>>, <<made, 2>>, <<made, 3>>}
  BY <1>11, <1>6
<1>14. /\ At(Book(h1, w1), <<made, 1>>) = h[t].parts[3] /\ At(Book(h, w), <<t, 3>>) = h[t].parts[3]
       /\ At(Book(h1, w1), <<made, 2>>) = left /\ At(Book(h, w), <<0, r>>) = left
       /\ At(Book(h1, w1), <<made, 3>>) = right /\ At(Book(h, w), <<0, s>>) = right
       /\ At(Book(h1, w1), <<t, 1>>) = h[t].parts[1] /\ At(Book(h, w), <<t, 1>>) = h[t].parts[1]
       /\ At(Book(h1, w1), <<t, 2>>) = h[t].parts[2] /\ At(Book(h, w), <<t, 2>>) = h[t].parts[2]
  <2>1. t \in DOMAIN h1 /\ made \in DOMAIN h1
    BY <1>3, <1>4
  <2>2. \A j : At(Book(h1, w1), <<made, j>>) = h1[made].parts[j]
    BY <2>1, <1>7
  <2>3. \A j : At(Book(h1, w1), <<t, j>>) = h1[t].parts[j]
    BY <2>1, <1>7
  <2>4. \A j : At(Book(h, w), <<t, j>>) = h[t].parts[j]
    BY <1>3, <1>7
  <2>5. At(Book(h, w), <<0, r>>) = left /\ At(Book(h, w), <<0, s>>) = right
    BY <1>1, <1>7
  <2>6. /\ h1[t].parts[1] = h[t].parts[1] /\ h1[t].parts[2] = h[t].parts[2]
        /\ h1[made].parts[1] = h[t].parts[3] /\ h1[made].parts[2] = left /\ h1[made].parts[3] = right
    BY <1>4
  <2> QED
    BY <2>2, <2>3, <2>4, <2>5, <2>6
<1>15. \A u \in ours \ {<<t, 3>>} : src[u] \in theirs /\ At(Book(h, w), src[u]) = At(Book(h1, w1), u)
  BY <1>10, <1>12, <1>13, <1>14
<1>16. \A u, v \in ours \ {<<t, 3>>} : src[u] = src[v] => u = v
  <2>1. /\ <<0, r>> # <<t, 1>> /\ <<0, r>> # <<t, 2>> /\ <<0, r>> # <<t, 3>>
        /\ <<0, s>> # <<t, 1>> /\ <<0, s>> # <<t, 2>> /\ <<0, s>> # <<t, 3>>
        /\ <<0, r>> # <<0, s>>
        /\ <<t, 1>> # <<t, 2>> /\ <<t, 1>> # <<t, 3>> /\ <<t, 2>> # <<t, 3>>
    BY <1>1, <1>6
  <2> QED
    BY <1>12, <1>13, <2>1
<1>17. \A x \in theirs : \E u \in ours \ {<<t, 3>>} : src[u] = x
  BY <1>10, <1>12, <1>13
<1>18. Rewired(h, w, h1, w1, made, t, 3, src)
  BY <1>1, <1>2, <1>3, <1>4, <1>5, <1>9, <1>15, <1>16, <1>17 DEF Rewired, ours, theirs
<1> QED
  BY <1>8, <1>18, Rewires DEF w1

LEMMA OnceTernary ==
  ASSUME WalkInv, OnceInv, ExitTernaryExpression
  PROVE  OnceInv'
<1>1. PICK n \in 1..source.chain :
        /\ Len(open) > 2 * n
        /\ areExpressions(Children(2 * n + 1))
        /\ Exit("ternary", Children(2 * n + 1), TernaryTree(NodesOf(Children(2 * n + 1))), new)
  BY DEF ExitTernaryExpression
<1> DEFINE k == 2 * n + 1
           b == Len(open) - k
           e == NodesOf(Children(k))
           h == TernaryTree(e)
<1>2. /\ n \in Nat /\ n >= 1 /\ k \in Nat /\ k <= Len(open) /\ k >= 3 /\ k = 2 * n + 1
      /\ Len(open) \in Nat /\ b \in Nat /\ b + k = Len(open)
  <2>1. Len(open) \in Nat
    BY DEF WalkInv, Walked
  <2> QED
    BY <1>1, <2>1
<1>3. e \in Seq(Nat) /\ Len(e) = k /\ \A i \in 1..k : e[i] \in Exprs(nodes) /\ e[i] = Roots[b + i]
  <2>1. Children(k) \in Seq(Nat) /\ Len(Children(k)) = k /\ Len(e) = k
    BY <1>2, ChildrenFacts DEF WalkInv
  <2>2. \A i \in 1..k : rule(Children(k)[i]) \in Expressions
    BY <1>1, <2>1 DEF areExpressions
  <2>3. e \in Seq(Nat) /\ \A i \in 1..k : e[i] \in Exprs(nodes)
    BY <1>2, <2>2, ChildNodes
  <2> QED
    BY <2>1, <2>3, <1>2, ChildRoots
<1>4. WellBuilt(nodes) /\ Here \in Nat
  BY DEF WalkInv, Walked, Here
<1>5. Exit("ternary", Children(k), h, new)
  BY <1>1
<1>6. b = Len(open) - k /\ e = NodesOf(Children(k))
  OBVIOUS
<1> HIDE DEF e, k, b
<1>7. PICK g : h = g[n] /\ \A i \in 1..n : TernaryAt(e, g, i)
  BY <1>2, <1>3, TernaryEquation
<1> HIDE DEF h
<1> DEFINE S == {i \in 1..n : GrowsTernary(g[i], e, i) /\ HeldOnce(g[i], Left(b, 2 * i + 1, new), ElseBlocks)}
<1>8. 1 \in S
  <2> DEFINE x == Object("ternary", SubSeq(e, 1, 3), Here)
  <2>1. 1 \in 1..n
    BY <1>2
  <2>2. g[1] = Append(nodes, x)
    <3>1. TernaryAt(e, g, 1)
      BY <1>7, <2>1
    <3> QED
      BY <3>1 DEF TernaryAt
  <2>3. GrowsTernary(g[1], e, 1)
    <3>1. \A i \in 1..3 : i \in 1..k
      BY <1>2
    <3> QED
      BY <2>2, <3>1, <1>2, <1>3, <1>4, FirstBody
  <2>4. x \in AnyNode /\ x.parts = SubSeq(NodesOf(Children(k)), 1, 2 + 1)
    <3> DEFINE q == SubSeq(e, 1, 3)
    <3>0. 2 + 1 = 3
      OBVIOUS
    <3>1. q \in Seq(Nat) /\ q = SubSeq(NodesOf(Children(k)), 1, 2 + 1)
      <4>1. q \in Seq(Nat)
        BY <1>2, <1>3, SMTT(30)
      <4> QED
        BY <4>1, <3>0, <1>6
    <3> HIDE DEF q
    <3>2. x = Object("ternary", q, Here)
      BY DEF q
    <3> QED
      BY <3>1, <3>2, <1>4, Kinds DEF Object, AnyNode
  <2>5. 2 \in 1..2 /\ k >= 2 + 1 /\ 2 * 1 + 1 = 2 + 1
    BY <1>2
  <2> HIDE DEF x
  <2>6. HeldOnce(Append(nodes, x), Left(Len(open) - k, 2 + 1, new), ElseBlocks)
    BY <1>2, <2>4, <2>5, FirstOnce
  <2> QED
    BY <1>6, <2>1, <2>2, <2>3, <2>5, <2>6
<1>9. ASSUME NEW i \in 1..n, i \in S, i < n PROVE i + 1 \in S
  <2>1. i + 1 \in 1..n /\ i + 1 # 1 /\ (i + 1) - 1 = i /\ i \in Nat /\ i >= 1
    BY <1>2, <1>9
  <2>2. 2 * (i + 1) \in 1..k /\ 2 * (i + 1) + 1 \in 1..k
    BY <1>2, <1>9
  <2>3. g[i + 1] = addBody(g[i], e[2 * (i + 1)], e[2 * (i + 1) + 1])
    <3>1. TernaryAt(e, g, i + 1)
      BY <1>7, <2>1
    <3> QED
      BY <2>1, <3>1 DEF TernaryAt
  <2>4. /\ e[2 * (i + 1)] \in Exprs(nodes) /\ e[2 * (i + 1) + 1] \in Exprs(nodes)
        /\ e[2 * (i + 1)] \in Nat /\ e[2 * (i + 1) + 1] \in Nat
    <3>1. Exprs(nodes) \subseteq Nat
      BY <1>4 DEF Exprs, WellBuilt
    <3> QED
      BY <1>3, <2>2, <3>1
  <2>5. GrowsTernary(g[i], e, i) /\ WellBuilt(g[i]) /\ new \in Kind(g[i], "ternary")
    BY <1>9 DEF GrowsTernary
  <2>6. BodyAdded(g[i], g[i + 1], e[2 * (i + 1)], e[2 * (i + 1) + 1])
    BY <2>3, <2>4, <2>5, AddBodyFacts
  <2>7. GrowsTernary(g[i + 1], e, i + 1)
    BY <1>4, <2>1, <2>4, <2>5, <2>6, BodyGrows
  <2>8. HeldOnce(g[i + 1], Left(b, 2 * (i + 1) + 1, new), ElseBlocks)
    <3> DEFINE m == 2 * i + 1
    <3>1. /\ m \in Nat /\ m >= 1 /\ b + m + 2 <= Len(open)
          /\ b + 2 * (i + 1) = b + m + 1 /\ b + (2 * (i + 1) + 1) = b + m + 2 /\ 2 * (i + 1) + 1 = m + 2
      BY <1>2, <1>9
    <3>2. HeldOnce(g[i], Left(b, m, new), ElseBlocks)
      BY <1>9
    <3> HIDE DEF m
    <3>3. e[2 * (i + 1)] = Roots[b + m + 1] /\ e[2 * (i + 1) + 1] = Roots[b + m + 2]
      BY <3>1, <2>2, <1>3
    <3>4. BodyAdded(g[i], g[i + 1], Roots[b + m + 1], Roots[b + m + 2])
      BY <3>3, <2>6
    <3>5. HeldOnce(g[i + 1], Left(b, m + 2, new), ElseBlocks)
      BY <1>2, <2>5, <3>1, <3>2, <3>4, BodyRewires
    <3> QED
      BY <3>1, <3>5
  <2> QED
    BY <2>1, <2>7, <2>8
<1>10. HeldOnce(h, Left(b, 2 * n + 1, new), ElseBlocks)
  <2> HIDE DEF S
  <2>1. \A i \in 1..n : i \in S
    BY <1>2, <1>8, <1>9, CountingUp
  <2>2. n \in S
    BY <1>2, <2>1
  <2> QED
    BY <2>2, <1>7 DEF S
<1> QED
  <2>1. k >= 1 /\ HeldOnce(h, Left(Len(open) - k, k, new), ElseBlocks)
    BY <1>2, <1>6, <1>10
  <2> QED
    BY <1>2, <1>5, <2>1, OnceExit
LEMMA ArgumentsNext ==
  ASSUME NEW n \in Nat, NEW links \in [1..n -> Links]
  PROVE  /\ arguments(links, 0) = 0
         /\ \A i \in 1..n : arguments(links, i) = arguments(links, i - 1) + IF links[i] = "callWith" THEN 1 ELSE 0
<1> DEFINE A(i) == {j \in 1..i : links[j] = "callWith"}
<1>1. A(0) = {}
  OBVIOUS
<1>2. ASSUME NEW i \in 1..n
      PROVE  Cardinality(A(i)) = Cardinality(A(i - 1)) + IF links[i] = "callWith" THEN 1 ELSE 0
  <2>1. IsFiniteSet(1..(i - 1))
    BY FS_Interval
  <2>2. IsFiniteSet(A(i - 1)) /\ i \notin A(i - 1)
    BY <2>1, FS_Subset
  <2>3. A(i) = IF links[i] = "callWith" THEN A(i - 1) \cup {i} ELSE A(i - 1)
    <3>1. \A j : j \in 1..i <=> j \in 1..(i - 1) \/ j = i
      OBVIOUS
    <3> QED
      BY <3>1
  <2>4. Cardinality(A(i - 1)) \in Nat
    BY <2>2, FS_CardinalityType
  <2> HIDE DEF A
  <2>5. Cardinality(A(i - 1) \cup {i}) = Cardinality(A(i - 1)) + 1
    BY <2>2, FS_AddElement
  <2> QED
    BY <2>3, <2>4, <2>5
<1> QED
  BY <1>1, <1>2, FS_EmptySet DEF arguments

(* What the links make: each takes the one before and its argument.        *)
ChainOf(made, n, links, e) ==
  /\ DOMAIN made = 1..n /\ made = [i \in 1..n |-> made[i]]
  /\ \A i \in 1..n :
       LET d == IF links[i] = "callWith" THEN 1 ELSE 0
       IN  /\ DOMAIN made[i].parts = 1..(d + 1)
           /\ made[i].parts[1] = IF i = 1 THEN e[1] ELSE new + i - 2
           /\ d = 1 => made[i].parts[2] = e[1 + arguments(links, i)]
LEMMA LinkParts ==
  ASSUME NEW n \in Nat, n >= 1, NEW links \in [1..n -> Links], NEW e
  PROVE  ChainOf(LinkNodes(links, e), n, links, e)
<1> DEFINE made == LinkNodes(links, e)
<1>1. DOMAIN links = 1..n
  OBVIOUS
<1>2. /\ DOMAIN made = 1..n
      /\ \A i \in 1..n :
           made[i].parts = <<IF i = 1 THEN e[1] ELSE new + i - 2>>
                             \o (IF links[i] = "callWith" THEN <<e[1 + arguments(links, i)]>> ELSE <<>>)
  BY <1>1 DEF LinkNodes, Object
<1>6. made = [i \in 1..n |-> made[i]]
  <2>1. made = [i \in DOMAIN made |-> made[i]]
    BY DEF LinkNodes
  <2> HIDE DEF made
  <2> QED
    BY <2>1, <1>2
<1> HIDE DEF made
<1> SUFFICES ASSUME NEW i \in 1..n
    PROVE LET d == IF links[i] = "callWith" THEN 1 ELSE 0
          IN  /\ DOMAIN made[i].parts = 1..(d + 1)
              /\ made[i].parts[1] = IF i = 1 THEN e[1] ELSE new + i - 2
              /\ d = 1 => made[i].parts[2] = e[1 + arguments(links, i)]
  BY <1>2, <1>6 DEF made, ChainOf
<1> DEFINE a == IF i = 1 THEN e[1] ELSE new + i - 2
           x == e[1 + arguments(links, i)]
<1>3. made[i].parts = <<a>> \o (IF links[i] = "callWith" THEN <<x>> ELSE <<>>)
  BY <1>2
<1>4. CASE links[i] = "callWith"
  <2> HIDE DEF a, x
  <2>1. <<a>> \in Seq({a, x}) /\ <<x>> \in Seq({a, x}) /\ Len(<<a>>) = 1 /\ Len(<<x>>) = 1
    OBVIOUS
  <2>2. DOMAIN (<<a>> \o <<x>>) = 1..2 /\ (<<a>> \o <<x>>)[1] = a /\ (<<a>> \o <<x>>)[2] = x
    BY <2>1
  <2>3. DOMAIN made[i].parts = 1..2 /\ made[i].parts[1] = a /\ made[i].parts[2] = x
    BY <2>2, <1>3, <1>4
  <2> QED
    BY <2>3, <1>4 DEF a, x
<1>5. CASE links[i] # "callWith"
  <2> HIDE DEF a, x
  <2>1. made[i].parts = <<a>>
    BY <1>3, <1>5
  <2> QED
    BY <2>1, <1>5 DEF a
<1> QED
  BY <1>4, <1>5

Stages(h, s, made, n) ==
  /\ h[0] = s /\ h[n] = s \o made
  /\ \A j \in 0..n : /\ DOMAIN h[j] = 1..(Len(s) + j)
                     /\ \A i \in 1..Len(s) : h[j][i] = s[i]
                     /\ \A i \in 1..j : h[j][Len(s) + i] = made[i]
LEMMA Behind ==
  ASSUME NEW S, NEW s \in Seq(S), NEW n \in Nat, NEW made, DOMAIN made = 1..n, made = [i \in 1..n |-> made[i]]
  PROVE  \E h : Stages(h, s, made, n)
<1> DEFINE T == S \cup {made[i] : i \in 1..n}
           h == [j \in 0..n |-> [i \in 1..(Len(s) + j) |-> (s \o made)[i]]]
<1>1. s \in Seq(T) /\ made \in Seq(T) /\ Len(made) = n /\ Len(s) \in Nat
  <2>1. \A i \in 1..n : made[i] \in T
    OBVIOUS
  <2>2. made \in Seq(T) /\ Len(made) = n
    BY <2>1
  <2>3. s \in Seq(T) /\ Len(s) \in Nat
    OBVIOUS
  <2> QED
    BY <2>2, <2>3
<1> HIDE DEF T
<1> DEFINE c == s \o made
<1>2. /\ c \in Seq(T) /\ Len(c) = Len(s) + n /\ DOMAIN c = 1..(Len(s) + n)
      /\ \A i \in 1..Len(s) : c[i] = s[i]
      /\ \A i \in 1..n : c[Len(s) + i] = made[i]
  BY <1>1
<1> HIDE DEF c
<1>3. \A j \in 0..n : h[j] = [i \in 1..(Len(s) + j) |-> c[i]]
  BY DEF c
<1> HIDE DEF h
<1>4. 0 \in 0..n /\ n \in 0..n
  OBVIOUS
<1>5. h[0] = s
  <2>0. Len(s) + 0 = Len(s)
    BY <1>1
  <2>1. h[0] = [i \in 1..Len(s) |-> c[i]]
    BY <2>0, <1>3, <1>4
  <2>2. s = [i \in 1..Len(s) |-> s[i]]
    BY <1>1
  <2> QED
    BY <2>1, <2>2, <1>2
<1>6. h[n] = s \o made
  <2>1. c = [i \in 1..(Len(s) + n) |-> c[i]]
    BY <1>2
  <2> QED
    BY <2>1, <1>3, <1>4 DEF c
<1>7. ASSUME NEW j \in 0..n
      PROVE  /\ DOMAIN h[j] = 1..(Len(s) + j)
             /\ \A i \in 1..Len(s) : h[j][i] = s[i]
             /\ \A i \in 1..j : h[j][Len(s) + i] = made[i]
  <2>1. \A i \in 1..(Len(s) + j) : h[j][i] = c[i]
    BY <1>3
  <2>2. \A i \in 1..Len(s) : i \in 1..(Len(s) + j)
    BY <1>1
  <2>3. \A i \in 1..j : Len(s) + i \in 1..(Len(s) + j) /\ i \in 1..n
    BY <1>1
  <2> QED
    BY <2>1, <2>2, <2>3, <1>2, <1>3
<1>8. Stages(h, s, made, n)
  BY <1>5, <1>6, <1>7 DEF Stages
<1> QED
  BY <1>8

LEMMA OnceLinks ==
  ASSUME WalkInv, OnceInv, ExitCallOrMemberExpression
  PROVE  OnceInv'
<1>1. PICK n \in 1..source.chain : \E links \in [1..n -> Links] :
        LET parts == Children(1 + arguments(links, n))
            made == LinkNodes(links, NodesOf(parts))
        IN  Len(open) > arguments(links, n) /\ Exit(made[n].kind, parts, nodes \o made, new + n - 1)
  BY DEF ExitCallOrMemberExpression
<1>2. PICK links \in [1..n -> Links] :
        LET parts == Children(1 + arguments(links, n))
            made == LinkNodes(links, NodesOf(parts))
        IN  Len(open) > arguments(links, n) /\ Exit(made[n].kind, parts, nodes \o made, new + n - 1)
  BY <1>1
<1> DEFINE A(i) == arguments(links, i)
           k == 1 + A(n)
           b == Len(open) - k
           e == NodesOf(Children(k))
           made == LinkNodes(links, e)
           N == Len(nodes)
<1>3. Len(open) > A(n) /\ Exit(made[n].kind, Children(k), nodes \o made, new + n - 1)
  BY <1>2
<1>4. n \in Nat /\ n >= 1 /\ \A i \in 1..n : links[i] \in Links
  OBVIOUS
<1>5. \A i \in 0..n : A(i) \in Nat /\ A(i) <= A(n)
  BY <1>4, ArgumentsFacts
<1>6. A(0) = 0 /\ \A i \in 1..n : A(i) = A(i - 1) + IF links[i] = "callWith" THEN 1 ELSE 0
  BY <1>4, ArgumentsNext
<1>7. /\ DOMAIN made = 1..n
      /\ \A i \in 1..n :
           LET d == IF links[i] = "callWith" THEN 1 ELSE 0
           IN  /\ DOMAIN made[i].parts = 1..(d + 1)
               /\ made[i].parts[1] = IF i = 1 THEN e[1] ELSE new + i - 2
               /\ d = 1 => made[i].parts[2] = e[1 + A(i)]
      /\ made = [i \in 1..n |-> made[i]]
  <2>1. ChainOf(made, n, links, e)
    BY <1>4, LinkParts
  <2> HIDE DEF made
  <2> QED
    BY <2>1 DEF ChainOf
<1>9. N \in Nat /\ nodes \in Seq(AnyNode) /\ DOMAIN nodes = 1..N /\ new = N + 1 /\ Len(open) \in Nat
  BY DEF WalkInv, Walked, WellBuilt, new
<1>10. k \in Nat /\ k >= 1 /\ k <= Len(open) /\ b \in Nat /\ b + k = Len(open) /\ A(n) \in Nat
  <2>1. A(n) \in Nat
    BY <1>4, <1>5
  <2> HIDE DEF A
  <2> QED
    BY <2>1, <1>3, <1>9
<1>11. b = Len(open) - k /\ e = NodesOf(Children(k)) /\ k = 1 + A(n)
  OBVIOUS
<1> HIDE DEF made, e, b, k, A
<1>8. PICK h : Stages(h, nodes, made, n)
  BY <1>4, <1>7, <1>9, Behind
<1>12. /\ h[0] = nodes /\ h[n] = nodes \o made
       /\ \A j \in 0..n : /\ DOMAIN h[j] = 1..(N + j)
                          /\ \A i \in 1..N : h[j][i] = nodes[i]
                          /\ \A i \in 1..j : h[j][N + i] = made[i]
  BY <1>8 DEF Stages
<1>13. \A j \in 1..k : e[j] = Roots[b + j]
  BY <1>10, <1>11, ChildRoots
<1> HIDE DEF N
<1> DEFINE root(j) == IF j = 0 THEN e[1] ELSE N + j
           S == {j \in 0..n : HeldOnce(h[j], Left(b, 1 + A(j), root(j)), ElseBlocks)}
<1>14. 0 \in S
  <2>1. HeldOnce(nodes, Left(b, 1, e[1]), ElseBlocks)
    BY <1>10, <1>11, LeftAtFirst DEF OnceInv
  <2>2. root(0) = e[1] /\ 1 + A(0) = 1 /\ h[0] = nodes /\ 0 \in 0..n
    BY <1>4, <1>6, <1>12
  <2> HIDE DEF root
  <2> QED
    BY <2>1, <2>2
<1>15. ASSUME NEW j \in 0..n, j \in S, j < n PROVE j + 1 \in S
  <2> DEFINE d == IF links[j + 1] = "callWith" THEN 1 ELSE 0
             m == 1 + A(j)
             a == root(j)
             parts == made[j + 1].parts
  <2>1. /\ j + 1 \in 0..n /\ j + 1 \in 1..n /\ (j + 1) - 1 = j /\ j \in Nat /\ j + 1 # 0
        /\ j + 1 = 1 <=> j = 0
    BY <1>4, <1>15
  <2>2. d \in Nat /\ d \in {0, 1} /\ A(j + 1) = A(j) + d /\ A(j) \in Nat /\ A(j + 1) <= A(n) /\ A(j + 1) \in Nat
    BY <2>1, <1>5, <1>6
  <2>3. /\ DOMAIN parts = 1..(d + 1)
        /\ parts[1] = IF j + 1 = 1 THEN e[1] ELSE new + (j + 1) - 2
        /\ d = 1 => parts[2] = e[1 + A(j + 1)]
    BY <2>1, <1>7
  <2>4. parts[1] = a
    <3>1. new + (j + 1) - 2 = N + j
      BY <2>1, <1>9
    <3> QED
      BY <2>1, <2>3, <3>1
  <2>5. root(j + 1) = N + j + 1
    BY <2>1, <1>9
  <2>6. HeldOnce(h[j], Left(b, m, a), ElseBlocks)
    BY <1>15
  <2>7. /\ DOMAIN h[j] = 1..(N + j) /\ DOMAIN h[j + 1] = 1..(N + j + 1)
        /\ h[j + 1][N + j + 1] = made[j + 1]
    <3>1. j + 1 \in 1..(j + 1) /\ N + (j + 1) = N + j + 1
      BY <2>1, <1>9
    <3>2. DOMAIN h[j + 1] = 1..(N + (j + 1)) /\ h[j + 1][N + (j + 1)] = made[j + 1]
      BY <2>1, <3>1, <1>12
    <3> QED
      BY <3>1, <3>2, <1>12
  <2>8. \A x \in 1..(N + j) : h[j + 1][x] = h[j][x]
    <3> SUFFICES ASSUME NEW x \in 1..(N + j) PROVE h[j + 1][x] = h[j][x]
      OBVIOUS
    <3>1. CASE x \in 1..N
      BY <2>1, <3>1, <1>12
    <3>2. CASE x \notin 1..N
      <4>1. x - N \in 1..j /\ x - N \in 1..(j + 1) /\ N + (x - N) = x
        BY <2>1, <3>2, <1>9
      <4>2. h[j][N + (x - N)] = made[x - N] /\ h[j + 1][N + (x - N)] = made[x - N]
        BY <2>1, <4>1, <1>12
      <4> QED
        BY <4>1, <4>2
    <3> QED
      BY <3>1, <3>2
  <2> HIDE DEF root, S, a, parts, d
  <2>9. /\ DOMAIN h[j + 1] = DOMAIN h[j] \cup {N + j + 1} /\ N + j + 1 \notin DOMAIN h[j]
        /\ 0 \notin DOMAIN h[j] /\ N + j + 1 # 0
    BY <2>1, <2>7, <1>9
  <2>14. /\ m \in Nat /\ m >= 1 /\ m + d = 1 + A(j + 1) /\ 1 + A(j + 1) <= k
         /\ 1 + A(j + 1) \in Nat /\ 1 + A(j + 1) >= 1
    <3> DEFINE x == A(j)
               y == A(j + 1)
               z == A(n)
    <3>1. y = x + d /\ x \in Nat /\ y \in Nat /\ y <= z /\ k = 1 + z /\ z \in Nat /\ m = 1 + x
      BY <2>2, <1>10, <1>11
    <3>2. d \in Nat
      BY <2>2
    <3> HIDE DEF x, y, z, m
    <3>3. m \in Nat /\ m >= 1 /\ m + d = 1 + y /\ 1 + y <= k /\ 1 + y \in Nat /\ 1 + y >= 1
      BY <3>1, <3>2
    <3> QED
      BY <3>3 DEF x, y, z
  <2>10. \A i \in 1..d : parts[i + 1] = Roots[b + m + i]
    <3> SUFFICES ASSUME NEW i \in 1..d PROVE parts[i + 1] = Roots[b + m + i]
      OBVIOUS
    <3>1. d = 1 /\ i = 1
      BY <2>2
    <3>2. 1 + A(j + 1) \in 1..k /\ 1 + A(j + 1) = m + 1
      BY <2>14, <3>1
    <3>3. b + (m + 1) = b + m + 1
      BY <2>14, <1>10
    <3> QED
      BY <2>3, <3>1, <3>2, <3>3, <1>13
  <2>11. TakesRoots(h[j], h[j + 1], N + j + 1, a, b, m, d)
    <3>1. \A x \in DOMAIN h[j] : h[j + 1][x].parts = h[j][x].parts
      BY <2>7, <2>8
    <3>2. h[j + 1][N + j + 1].parts = parts
      BY <2>7 DEF parts
    <3> QED
      BY <2>3, <2>4, <2>9, <2>10, <3>1, <3>2 DEF TakesRoots
  <2> HIDE DEF m
  <2>12. m \in Nat /\ m >= 1 /\ b + m + d <= Len(open) /\ m + d = 1 + A(j + 1)
    <3>1. m + d <= k /\ b + k = Len(open) /\ b \in Nat /\ k \in Nat /\ d \in Nat /\ m \in Nat /\ Len(open) \in Nat
      BY <2>2, <2>14, <1>9, <1>10
    <3>2. b + m + d <= Len(open)
      BY <3>1
    <3> QED
      BY <3>2, <2>14
  <2>13. HeldOnce(h[j + 1], Left(b, m + d, N + j + 1), ElseBlocks)
    BY <2>2, <2>6, <2>11, <2>12, <1>10, TakesNext
  <2> QED
    BY <2>1, <2>5, <2>12, <2>13 DEF S
<1>16. HeldOnce(h[n], Left(b, 1 + A(n), root(n)), ElseBlocks)
  <2> HIDE DEF S
  <2>0. 0 \in Nat /\ n \in 0..n /\ 0 <= n
    BY <1>4
  <2>1. \A j \in 0..n : j \in S
    BY <2>0, <1>4, <1>14, <1>15, CountingUp
  <2> QED
    BY <2>0, <2>1 DEF S
<1>17. root(n) = new + n - 1
  BY <1>4, <1>9
<1> HIDE DEF root
<1>18. HeldOnce(nodes \o made, Left(Len(open) - k, k, new + n - 1), ElseBlocks)
  BY <1>11, <1>12, <1>16, <1>17
<1> QED
  BY <1>3, <1>10, <1>18, OnceExit

-----------------------------------------------------------------------------
LEMMA OnceInit == Init => OnceInv
<1> SUFFICES ASSUME Init PROVE OnceInv
  OBVIOUS
<1>1. nodes = <<>> /\ open = <<>>
  BY DEF Init
<1>2. DOMAIN nodes = {} /\ DOMAIN Roots = {}
  BY <1>1 DEF Roots
<1>3. SlotsOf(Book(nodes, Roots)) = {}
  <2>1. DOMAIN Book(nodes, Roots) = {0} /\ Book(nodes, Roots)[0] = Roots
    BY <1>2 DEF Book
  <2> HIDE DEF Roots
  <2> QED
    BY <1>2, <2>1 DEF SlotsOf
<1> QED
  BY <1>2, <1>3 DEF OnceInv, HeldOnce

LEMMA OnceStep ==
  ASSUME WalkInv, OnceInv, [Next]_vars
  PROVE  OnceInv'
<1>1. CASE UNCHANGED parsed
  BY <1>1 DEF parsed, OnceInv, Roots, ElseBlocks, rule
<1>2. CASE Walk
  <2>1. CASE ExitWalang
    BY <2>1, <1>1 DEF ExitWalang
  <2>2. CASE \/ ExitIdentifier \/ ExitPrefixExpression
             \/ ExitExpressionOrDeclareOrReturn \/ ExitAssignStatement \/ ExitBreakStatement
             \/ ExitBlockStatement \/ ExitWhileStatement \/ ExitFunctionStatement \/ ExitClassStatement
    <3>1. PICK k, r, range : PlainStep(k, r, range)
      BY <2>2, PlainSteps
    <3> QED
      BY <3>1, OnceStatements
  <2> QED
    BY <2>1, <2>2, <1>2, OnceIf, OnceParentheses, OncePlaces, OnceBinary, OnceTernary, OnceLinks DEF Walk
<1>3. CASE Compile
  BY <1>3, <1>1 DEF Compile, PrepareFails, PrepareRecursive, Prepared, Enter, Refused, UnknownName, Catch, Report, Fail
<1>4. CASE UNCHANGED vars
  BY <1>4, <1>1 DEF vars
<1> QED
  BY <1>2, <1>3, <1>4 DEF Next

(* What was written is in the tree, and once, in every file: no chain, no  *)
(* parentheses and no statement loses an operand, an argument or a body,   *)
(* or uses one twice; only the blocks of an `if` with two are excepted     *)
(* (binary_expression.cpp, ternary_expression.cpp, call_expression.cpp).   *)
THEOREM NothingIsLost == Spec => []EachOnce
<1>1. Init => OnceInv
  BY OnceInit
<1>2. WalkInv /\ OnceInv /\ [Next]_vars => OnceInv'
  BY OnceStep
<1>3. WalkInv /\ OnceInv => EachOnce
  BY OnceCounted
<1>4. IInv => WalkInv
  BY DEF IInv
<1> QED
  BY <1>1, <1>2, <1>3, <1>4, IInvHolds, PTL DEF Spec

-----------------------------------------------------------------------------
(* Where the nodes were written.  First, trees without a cycle.            *)

PartSet(h, n) == {h[n].parts[i] : i \in DOMAIN h[n].parts}
WellFounded(h) ==
  /\ \A n \in DOMAIN h : PartSet(h, n) \subseteq DOMAIN h
  /\ \A S \in SUBSET DOMAIN h : S # {} => \E m \in S : PartSet(h, m) \cap S = {}

(* New nodes hold old ones and newer ones only the ones before.            *)
Added(h, h1) ==
  /\ DOMAIN h \subseteq DOMAIN h1 /\ DOMAIN h1 \subseteq Nat
  /\ \A n \in DOMAIN h : PartSet(h1, n) = PartSet(h, n)
  /\ \A n \in DOMAIN h1 \ DOMAIN h : \A m \in PartSet(h1, n) : m \in DOMAIN h \/ (m \in DOMAIN h1 /\ m < n)
LEMMA AddedWellFounded ==
  ASSUME NEW h, NEW h1, WellFounded(h), Added(h, h1)
  PROVE  WellFounded(h1)
<1>1. \A n \in DOMAIN h1 : PartSet(h1, n) \subseteq DOMAIN h1
  BY DEF WellFounded, Added
<1>2. ASSUME NEW S \in SUBSET DOMAIN h1, S # {} PROVE \E m \in S : PartSet(h1, m) \cap S = {}
  <2>1. CASE S \cap DOMAIN h # {}
    <3>1. PICK m \in S \cap DOMAIN h : PartSet(h, m) \cap (S \cap DOMAIN h) = {}
      BY <2>1 DEF WellFounded
    <3>2. PartSet(h1, m) = PartSet(h, m) /\ PartSet(h, m) \subseteq DOMAIN h
      BY <3>1 DEF WellFounded, Added
    <3>3. PartSet(h1, m) \cap S = {}
      BY <3>1, <3>2
    <3> QED
      BY <3>1, <3>3
  <2>2. CASE S \cap DOMAIN h = {}
    <3> DEFINE R == OpToRel(<, Nat)
    <3>1. IsWellFoundedOn(R, Nat)
      BY NatLessThanWellFounded
    <3>2. \A x \in Nat, y \in Nat : y < x => <<y, x>> \in R
      BY DEF OpToRel
    <3> HIDE DEF R
    <3>3. S \subseteq Nat
      BY DEF Added
    <3>4. PICK x \in S : \A y \in S : ~ (<<y, x>> \in R)
      BY <1>2, <3>1, <3>3, WFMin
    <3>5. x \in DOMAIN h1 \ DOMAIN h /\ x \in Nat
      BY <2>2, <3>3, <3>4
    <3>6. \A m \in PartSet(h1, x) : m \in DOMAIN h \/ m < x
      BY <3>5 DEF Added
    <3>7. PartSet(h1, x) \cap S = {}
      BY <2>2, <3>2, <3>3, <3>4, <3>5, <3>6
    <3> QED
      BY <3>4, <3>7
  <2> QED
    BY <2>1, <2>2
<1> QED
  BY <1>1, <1>2 DEF WellFounded

(* A node is taken apart: a new one takes parts of it, and nodes of V,     *)
(* which it is not below, hang under both.                                 *)
Hung(h, h1, t, made, V) ==
  /\ DOMAIN h1 = DOMAIN h \cup {made} /\ made \notin DOMAIN h
  /\ t \in DOMAIN h \ V /\ V \subseteq DOMAIN h
  /\ \A n \in V : PartSet(h, n) \subseteq V
  /\ \A n \in DOMAIN h \ {t} : PartSet(h1, n) = PartSet(h, n)
  /\ PartSet(h1, t) \subseteq PartSet(h, t) \cup V \cup {made}
  /\ PartSet(h1, made) \subseteq PartSet(h, t) \cup V
LEMMA HungWellFounded ==
  ASSUME NEW h, NEW h1, NEW t, NEW made, NEW V, WellFounded(h), Hung(h, h1, t, made, V)
  PROVE  WellFounded(h1)
<1>1. \A n \in DOMAIN h : PartSet(h, n) \subseteq DOMAIN h
  BY DEF WellFounded
<1>2. \A n \in DOMAIN h1 : PartSet(h1, n) \subseteq DOMAIN h1
  <2> TAKE n \in DOMAIN h1
  <2>1. CASE n = t
    BY <1>1, <2>1 DEF Hung
  <2>2. CASE n = made
    BY <1>1, <2>2 DEF Hung
  <2>3. CASE n \in DOMAIN h \ {t}
    BY <1>1, <2>3 DEF Hung
  <2> QED
    BY <2>1, <2>2, <2>3 DEF Hung
<1>3. ASSUME NEW S \in SUBSET DOMAIN h1, S # {} PROVE \E m \in S : PartSet(h1, m) \cap S = {}
  <2>1. CASE S \cap V # {}
    <3>1. PICK m \in S \cap V : PartSet(h, m) \cap (S \cap V) = {}
      <4>1. S \cap V \in SUBSET DOMAIN h
        BY DEF Hung
      <4> QED
        BY <2>1, <4>1 DEF WellFounded
    <3>2. PartSet(h1, m) = PartSet(h, m) /\ PartSet(h, m) \subseteq V
      BY <3>1 DEF Hung
    <3>3. PartSet(h1, m) \cap S = {}
      BY <3>1, <3>2
    <3> QED
      BY <3>1, <3>3
  <2>2. CASE S \cap V = {}
    <3> DEFINE S2 == (S \cap DOMAIN h) \cup (IF made \in S THEN {t} ELSE {})
    <3>1. S2 \in SUBSET DOMAIN h /\ S2 # {}
      BY <1>3 DEF Hung
    <3>2. PICK m \in S2 : PartSet(h, m) \cap S2 = {}
      BY <3>1 DEF WellFounded
    <3>3. \A X : X \subseteq DOMAIN h /\ X \cap S2 = {} => X \cap S = {}
      OBVIOUS
    <3>4. m \in DOMAIN h /\ PartSet(h, m) \subseteq DOMAIN h
      BY <1>1, <3>1, <3>2
    <3>5. PartSet(h, m) \cap S = {}
      BY <3>2, <3>3, <3>4
    <3>6. CASE m # t
      <4>1. m \in S
        BY <3>2, <3>6
      <4>2. PartSet(h1, m) = PartSet(h, m)
        BY <3>4, <3>6 DEF Hung
      <4> QED
        BY <3>5, <4>1, <4>2
    <3>7. CASE m = t /\ made \in S
      <4>1. PartSet(h1, made) \cap S = {}
        BY <2>2, <3>5, <3>7 DEF Hung
      <4> QED
        BY <3>7, <4>1
    <3>8. CASE m = t /\ made \notin S
      <4>1. t \in S
        BY <3>2, <3>8
      <4>2. PartSet(h1, t) \cap S = {}
        BY <2>2, <3>5, <3>8 DEF Hung
      <4> QED
        BY <4>1, <4>2
    <3> QED
      BY <3>6, <3>7, <3>8
  <2> QED
    BY <2>1, <2>2
<1> QED
  BY <1>2, <1>3 DEF WellFounded

(* What encloses a node and what it holds, encloses all that is below.     *)
Encloses(h, hull) ==
  /\ \A n \in DOMAIN h : hull[n] \in SUBSET Nat /\ hull[n] # {} /\ h[n].range \in hull[n] \cup {0}
  /\ \A n \in DOMAIN h : \A m \in PartSet(h, n) : hull[m] \subseteq hull[n]
LEMMA RangesInEquation ==
  ASSUME WellBuilt(nodes), WellFounded(nodes)
  PROVE  \A n \in Nodes :
           rangesIn[n] = ({nodes[n].range} \ {0}) \cup UNION {rangesIn[m] : m \in Parts(n)}
<1> DEFINE Body(F, n) == ({nodes[n].range} \ {0}) \cup UNION {F[m] : m \in Parts(n)}
           Is(F) == F = [n \in Nodes |-> Body(F, n)]
           Big == {F \in [Nodes -> SUBSET Nat] : \A n \in Nodes : Body(F, n) \subseteq F[n]}
           g == [n \in Nodes |-> {r \in Nat : \A F \in Big : r \in F[n]}]
<1>1. \A n \in Nodes : Parts(n) \subseteq Nodes /\ nodes[n].range \in Nat
  <2>1. \A n \in Nodes : Parts(n) = PartSet(nodes, n)
    BY DEF Parts, PartSet, part
  <2>2. \A n \in Nodes : nodes[n] \in AnyNode
    BY DEF WellBuilt, Nodes
  <2> QED
    BY <2>1, <2>2 DEF WellFounded, Nodes, AnyNode
<1>2. g \in [Nodes -> SUBSET Nat]
  OBVIOUS
<1>3. ASSUME NEW n \in Nodes PROVE Body(g, n) \subseteq g[n]
  <2>1. ASSUME NEW r \in Body(g, n), NEW F \in Big PROVE r \in Nat /\ r \in F[n]
    <3>1. CASE r \in {nodes[n].range} \ {0}
      BY <1>1, <2>1, <3>1
    <3>2. CASE r \in UNION {g[m] : m \in Parts(n)}
      <4>1. PICK m \in Parts(n) : r \in g[m]
        <5> HIDE DEF g
        <5> QED
          BY <3>2
      <4>2. m \in Nodes
        BY <1>1, <4>1
      <4>3. r \in Nat /\ r \in F[m]
        BY <4>1, <4>2, <2>1
      <4>4. F[m] \subseteq Body(F, n)
        BY <4>1
      <4> QED
        BY <2>1, <4>3, <4>4
    <3> QED
      BY <2>1, <3>1, <3>2
  <2>2. Big # {}
    <3> DEFINE F == [m \in Nodes |-> Nat]
    <3>1. F \in [Nodes -> SUBSET Nat]
      OBVIOUS
    <3>2. \A m \in Nodes : Body(F, m) \subseteq F[m]
      BY <1>1
    <3> QED
      BY <3>1, <3>2
  <2>3. ASSUME NEW r \in Body(g, n) PROVE r \in g[n]
    <3> HIDE DEF Big, Body
    <3> QED
      BY <2>1, <2>2, <2>3
  <2> QED
    BY <2>3
<1>4. ASSUME NEW n \in Nodes PROVE g[n] \subseteq Body(g, n)
  <2> DEFINE F == [m \in Nodes |-> Body(g, m)]
  <2>1. ASSUME NEW m \in Nodes PROVE Body(g, m) \subseteq g[m] /\ Body(g, m) \subseteq Nat /\ F[m] = Body(g, m)
    BY <1>3, <2>1
  <2>2. F \in [Nodes -> SUBSET Nat]
    BY <2>1
  <2>3. ASSUME NEW m \in Nodes PROVE Body(F, m) \subseteq Body(g, m)
    <3>1. \A j \in Parts(m) : F[j] \subseteq g[j]
      BY <1>1, <2>1, <2>3
    <3> HIDE DEF F, g
    <3> QED
      BY <3>1
  <2>4. F \in Big
    <3>1. \A m \in Nodes : Body(F, m) \subseteq F[m]
      BY <2>1, <2>3
    <3> QED
      BY <2>2, <3>1
  <2>5. g[n] \subseteq F[n]
    BY <1>4, <2>4
  <2> QED
    BY <2>1, <2>5, <1>4
<1>5. Is(g)
  <2>1. \A n \in Nodes : g[n] = Body(g, n)
    BY <1>3, <1>4
  <2>2. g = [n \in Nodes |-> g[n]]
    OBVIOUS
  <2> HIDE DEF g, Body
  <2> QED
    BY <2>1, <2>2
<1>6. rangesIn = CHOOSE F : Is(F)
  BY DEF rangesIn
<1>7. Is(rangesIn)
  <2> HIDE DEF g, Is
  <2> QED
    BY <1>5, <1>6
<1> QED
  BY <1>7
LEMMA RangesWithin ==
  ASSUME WellBuilt(nodes), WellFounded(nodes), NEW hull, Encloses(nodes, hull)
  PROVE  \A n \in Nodes : rangesIn[n] \subseteq hull[n]
<1> DEFINE S == {n \in Nodes : ~ (rangesIn[n] \subseteq hull[n])}
<1> SUFFICES ASSUME S # {} PROVE FALSE
  OBVIOUS
<1>1. PICK n \in S : PartSet(nodes, n) \cap S = {}
  BY DEF WellFounded, Nodes
<1>2. n \in Nodes /\ PartSet(nodes, n) \subseteq Nodes /\ Parts(n) = PartSet(nodes, n)
  BY <1>1 DEF WellFounded, Nodes, Parts, PartSet, part
<1>3. \A m \in Parts(n) : rangesIn[m] \subseteq hull[m] /\ hull[m] \subseteq hull[n]
  BY <1>1, <1>2 DEF Encloses, Nodes
<1>4. {nodes[n].range} \ {0} \subseteq hull[n]
  BY <1>2 DEF Encloses, Nodes
<1>5. rangesIn[n] = ({nodes[n].range} \ {0}) \cup UNION {rangesIn[m] : m \in Parts(n)}
  BY <1>2, RangesInEquation
<1>6. rangesIn[n] \subseteq hull[n]
  BY <1>3, <1>4, <1>5
<1> QED
  BY <1>1, <1>6
-----------------------------------------------------------------------------
(* Spans.                                                                  *)

Backward(cs) == \A c \in DOMAIN cs : \A i \in DOMAIN cs[c].parts : cs[c].parts[i] \in 1..(c - 1)
FirstAt(cs, f, c) == IF cs[c].parts = <<>> THEN c ELSE f[cs[c].parts[1]]
IsFirst(cs, f) == f = [c \in DOMAIN cs |-> FirstAt(cs, f, c)]
LEMMA FirstPart ==
  ASSUME NEW cs \in Seq(Context), Backward(cs)
  PROVE  \A c \in DOMAIN cs :
           cs[c].parts # <<>> => 1 \in DOMAIN cs[c].parts /\ cs[c].parts[1] \in 1..(c - 1)
<1> TAKE c \in DOMAIN cs
<1>1. cs[c].parts \in Seq(Nat)
  <2>1. cs[c] \in Context
    OBVIOUS
  <2> QED
    BY <2>1 DEF Context
<1> QED
  BY <1>1 DEF Backward

LEMMA FirstExists ==
  ASSUME NEW cs \in Seq(Context), Backward(cs)
  PROVE  \E f : IsFirst(cs, f)
<1> DEFINE N == Len(cs)
           Upto(m, f) == DOMAIN f = 1..m /\ \A c \in 1..m : f[c] = FirstAt(cs, f, c)
           S == {m \in 0..N : \E f : Upto(m, f)}
<1>1. N \in Nat /\ DOMAIN cs = 1..N
  OBVIOUS
<1>2. 0 \in S
  <2>1. Upto(0, [c \in 1..0 |-> c])
    OBVIOUS
  <2> QED
    BY <1>1, <2>1
<1>3. ASSUME NEW m \in 0..N, m \in S, m < N PROVE m + 1 \in S
  <2>1. PICK f : Upto(m, f)
    BY <1>3
  <2> DEFINE g == [c \in 1..(m + 1) |-> IF c <= m THEN f[c] ELSE FirstAt(cs, f, c)]
  <2>2. \A c \in 1..m : c \in 1..(m + 1) /\ g[c] = f[c]
    OBVIOUS
  <2>3. m + 1 \in 1..(m + 1) /\ ~ (m + 1 <= m) /\ m + 1 \in DOMAIN cs
    BY <1>1, <1>3
  <2>4. g[m + 1] = FirstAt(cs, f, m + 1)
    BY <2>3
  <2>5. \A c \in 1..(m + 1) : c \in DOMAIN cs /\ (cs[c].parts # <<>> => cs[c].parts[1] \in 1..m)
    <3> TAKE c \in 1..(m + 1)
    <3>1. c \in DOMAIN cs
      BY <1>1, <1>3
    <3>2. cs[c].parts # <<>> => cs[c].parts[1] \in 1..(c - 1)
      BY <3>1, FirstPart
    <3>3. 1..(c - 1) \subseteq 1..m
      OBVIOUS
    <3> QED
      BY <3>1, <3>2, <3>3
  <2>6. \A c \in 1..(m + 1) : FirstAt(cs, g, c) = FirstAt(cs, f, c)
    <3> HIDE DEF g
    <3> QED
      BY <2>2, <2>5 DEF FirstAt
  <2>7. Upto(m + 1, g)
    <3>1. DOMAIN g = 1..(m + 1)
      OBVIOUS
    <3>2. \A c \in 1..(m + 1) : c \in 1..m \/ c = m + 1
      OBVIOUS
    <3> HIDE DEF g
    <3> QED
      BY <3>1, <3>2, <2>1, <2>2, <2>4, <2>6
  <2>8. m + 1 \in 0..N
    BY <1>1, <1>3
  <2> HIDE DEF Upto, g
  <2> QED
    BY <2>7, <2>8
<1>4. N \in S
  <2> HIDE DEF S
  <2>1. \A m \in 0..N : m \in S
    BY <1>1, <1>2, <1>3, CountingUp
  <2> QED
    BY <1>1, <2>1
<1>5. PICK f : Upto(N, f)
  BY <1>4
<1>6. IsFirst(cs, [c \in DOMAIN cs |-> f[c]])
  <2> DEFINE g == [c \in DOMAIN cs |-> f[c]]
  <2>1. \A c \in DOMAIN cs : g[c] = f[c] /\ f[c] = FirstAt(cs, f, c)
    BY <1>1, <1>5
  <2>2. \A c \in DOMAIN cs : cs[c].parts # <<>> => cs[c].parts[1] \in DOMAIN cs
    <3> TAKE c \in DOMAIN cs
    <3>1. cs[c].parts # <<>> => cs[c].parts[1] \in 1..(c - 1)
      BY FirstPart
    <3> QED
      BY <1>1, <3>1
  <2>3. \A c \in DOMAIN cs : FirstAt(cs, g, c) = FirstAt(cs, f, c)
    <3>1. \A c \in DOMAIN cs : g[c] = f[c]
      OBVIOUS
    <3> HIDE DEF g
    <3> QED
      BY <2>2, <3>1 DEF FirstAt
  <2>4. g = [c \in DOMAIN cs |-> g[c]]
    OBVIOUS
  <2> HIDE DEF g
  <2>5. \A c \in DOMAIN cs : g[c] = FirstAt(cs, g, c)
    BY <2>1, <2>3
  <2>6. IsFirst(cs, g)
    BY <2>4, <2>5 DEF IsFirst
  <2> QED
    BY <2>6 DEF g
<1> QED
  BY <1>6
LEMMA FirstChosen ==
  ASSUME NEW cs \in Seq(Context), Backward(cs)
  PROVE  IsFirst(cs, CHOOSE f : IsFirst(cs, f))
BY FirstExists

(* Contexts that come later do not change what the earlier ones span.      *)
LEMMA FirstStays ==
  ASSUME NEW cs \in Seq(Context), NEW cs1 \in Seq(Context), Backward(cs1),
         NEW f, NEW f1, IsFirst(cs, f), IsFirst(cs1, f1),
         Len(cs) <= Len(cs1), \A c \in DOMAIN cs : cs1[c] = cs[c]
  PROVE  \A c \in DOMAIN cs : f1[c] = f[c]
<1> DEFINE N == Len(cs)
           S == {m \in 0..N : \A c \in 1..m : f1[c] = f[c]}
<1>1. N \in Nat /\ DOMAIN cs = 1..N /\ 1..N \subseteq DOMAIN cs1
  OBVIOUS
<1>2. 0 \in S
  BY <1>1
<1>3. ASSUME NEW m \in 0..N, m \in S, m < N PROVE m + 1 \in S
  <2>1. m + 1 \in DOMAIN cs /\ m + 1 \in DOMAIN cs1 /\ cs1[m + 1] = cs[m + 1] /\ (m + 1) - 1 = m
    BY <1>1, <1>3
  <2>2. cs1[m + 1].parts # <<>> => cs1[m + 1].parts[1] \in 1..m
    BY <2>1, FirstPart
  <2>3. f[m + 1] = FirstAt(cs, f, m + 1) /\ f1[m + 1] = FirstAt(cs1, f1, m + 1)
    BY <2>1 DEF IsFirst
  <2>4. f1[m + 1] = f[m + 1]
    BY <1>3, <2>1, <2>2, <2>3 DEF FirstAt
  <2>5. \A c \in 1..(m + 1) : c \in 1..m \/ c = m + 1
    BY <1>1, <1>3
  <2> QED
    BY <1>3, <2>1, <2>4, <2>5, <1>1
<1>4. \A m \in 0..N : m \in S
  <2> HIDE DEF S
  <2> QED
    BY <1>1, <1>2, <1>3, CountingUp
<1> QED
  BY <1>1, <1>4
-----------------------------------------------------------------------------
(* The contexts whose parent is still to come, and what they span.         *)

Ordered ==
  /\ Backward(contexts)
  /\ \A c \in DOMAIN contexts : firstIn[c] \in 1..c
  /\ \A i, j \in DOMAIN open : i < j => open[i] < firstIn[open[j]]
  /\ \A c \in DOMAIN contexts : \A i \in DOMAIN contexts[c].parts :
       \A j \in DOMAIN open : contexts[c].parts[i] # open[j]
(* What the rule of a context says of it.                                  *)
RuleFits(r, parts, kindOf) ==
  /\ r = "if" => Len(parts) \in 2..3 /\ rule(parts[2]) = "block"
  /\ r \in {"identifier", "prefix"} => kindOf = r
RulesFit == \A c \in DOMAIN contexts : RuleFits(rule(c), contexts[c].parts, kind(astNodes[c]))

(* What the youngest k of them span together.                              *)
From(k) == IF k = 0 THEN Here ELSE firstIn[open[Len(open) - k + 1]]
Whole(k) == From(k)..Here
LEMMA OpenFacts ==
  ASSUME WalkInv, Ordered
  PROVE  /\ open \in Seq(Nat) /\ Len(open) \in Nat /\ DOMAIN open = 1..Len(open)
         /\ contexts \in Seq(Context) /\ Len(contexts) \in Nat /\ DOMAIN contexts = 1..Len(contexts)
         /\ Here = Len(contexts) + 1
         /\ \A i \in DOMAIN open : open[i] \in DOMAIN contexts /\ open[i] \in Nat
         /\ \A c \in DOMAIN contexts : firstIn[c] \in 1..c /\ firstIn[c] \in Nat
BY DEF WalkInv, Walked, Here, Ordered
LEMMA SpansApart ==
  ASSUME WalkInv, Ordered
  PROVE  \A i, j \in DOMAIN open : Span(open[i]) \cap Span(open[j]) # {} => i = j
<1>1. ASSUME NEW i \in DOMAIN open, NEW j \in DOMAIN open, i < j PROVE Span(open[i]) \cap Span(open[j]) = {}
  BY <1>1, OpenFacts DEF Ordered, Span
<1>2. DOMAIN open \subseteq Nat
  BY OpenFacts
<1> QED
  BY <1>1, <1>2
LEMMA WholeFacts ==
  ASSUME WalkInv, Ordered, NEW k \in Nat, k <= Len(open)
  PROVE  /\ From(k) \in 1..Here /\ Here \in Whole(k) /\ Whole(k) \subseteq Nat
         /\ \A i \in DOMAIN open : i > Len(open) - k => Span(open[i]) \subseteq Whole(k)
         /\ \A i \in DOMAIN open : i <= Len(open) - k => open[i] < From(k) /\ Span(open[i]) \cap Whole(k) = {}
<1>1. From(k) \in 1..Here
  <2>1. CASE k = 0
    BY <2>1, OpenFacts DEF From
  <2>2. CASE k # 0
    <3>1. Len(open) - k + 1 \in DOMAIN open
      BY <2>2, OpenFacts
    <3>2. open[Len(open) - k + 1] \in 1..Len(contexts)
      BY <3>1, OpenFacts
    <3>3. firstIn[open[Len(open) - k + 1]] \in 1..open[Len(open) - k + 1]
      BY <3>2, OpenFacts
    <3> QED
      BY <2>2, <3>2, <3>3, OpenFacts DEF From
  <2> QED
    BY <2>1, <2>2
<1>2. Here \in Whole(k) /\ Whole(k) \subseteq Nat
  BY <1>1, OpenFacts DEF Whole
<1>3. ASSUME NEW i \in DOMAIN open, i > Len(open) - k PROVE Span(open[i]) \subseteq Whole(k)
  <2>1. Len(open) - k + 1 \in DOMAIN open /\ k # 0
    BY <1>3, OpenFacts
  <2>2. open[i] \in 1..Len(contexts)
    BY OpenFacts
  <2> DEFINE j == Len(open) - k + 1
  <2>3. From(k) = firstIn[open[j]] /\ open[j] \in Nat /\ firstIn[open[j]] \in 1..open[j]
    BY <2>1, OpenFacts DEF From
  <2>4. i = j \/ j < i
    BY <1>3, <2>1, OpenFacts
  <2>5. firstIn[open[i]] \in 1..open[i]
    BY <2>2, OpenFacts
  <2>6. j < i => open[j] < firstIn[open[i]]
    BY <2>1 DEF Ordered
  <2> HIDE DEF j
  <2>7. From(k) <= firstIn[open[i]]
    BY <2>2, <2>3, <2>4, <2>5, <2>6
  <2>8. From(k) \in Nat /\ Here \in Nat /\ open[i] <= Here
    BY <1>1, <2>2, OpenFacts
  <2> QED
    BY <2>2, <2>5, <2>7, <2>8 DEF Span, Whole
<1>4. ASSUME NEW i \in DOMAIN open, i <= Len(open) - k
      PROVE  open[i] < From(k) /\ Span(open[i]) \cap Whole(k) = {}
  <2>1. open[i] \in 1..Len(contexts)
    BY OpenFacts
  <2>2. open[i] < From(k)
    <3>1. CASE k = 0
      BY <2>1, <3>1, OpenFacts DEF From
    <3>2. CASE k # 0
      <4>1. Len(open) - k + 1 \in DOMAIN open /\ i < Len(open) - k + 1
        BY <1>4, <3>2, OpenFacts
      <4> QED
        BY <3>2, <4>1 DEF From, Ordered
    <3> QED
      BY <3>1, <3>2
  <2>3. firstIn[open[i]] \in Nat /\ From(k) \in Nat /\ Here \in Nat /\ open[i] \in Nat
    BY <1>1, <2>1, OpenFacts
  <2> QED
    BY <2>2, <2>3 DEF Span, Whole
<1> QED
  BY <1>1, <1>2, <1>3, <1>4

(* An exit leaves the older contexts, and what they span, as they are.     *)
Exited(r, k, h, ast) ==
  /\ contexts' \in Seq(Context) /\ Len(contexts') = Here /\ DOMAIN contexts' = DOMAIN contexts \cup {Here}
  /\ \A c \in DOMAIN contexts : contexts'[c] = contexts[c] /\ astNodes'[c] = astNodes[c]
  /\ contexts'[Here].rule = r /\ contexts'[Here].parts = Children(k)
  /\ astNodes'[Here] = ast /\ nodes' = h
  /\ Len(open') = Len(open) - k + 1 /\ DOMAIN open' = 1..(Len(open) - k + 1)
  /\ \A i \in 1..(Len(open) - k) : i \in DOMAIN open /\ open'[i] = open[i]
  /\ open'[Len(open) - k + 1] = Here
LEMMA ExitFacts ==
  ASSUME WalkInv, NEW k \in Nat, k <= Len(open), NEW r \in Expressions \cup Statements, NEW h, NEW ast,
         Exit(r, Children(k), h, ast)
  PROVE  Exited(r, k, h, ast)
<1> DEFINE parts == Children(k)
<1>1. /\ contexts' = Append(contexts, [rule |-> r, parts |-> parts]) /\ nodes' = h
      /\ astNodes' = Append(astNodes, ast)
      /\ open' = Append(SubSeq(open, 1, Len(open) - Len(parts)), Here)
  BY DEF Exit
<1>2. /\ contexts \in Seq(Context) /\ astNodes \in Seq(Nat) /\ open \in Seq(Nat)
      /\ Len(astNodes) = Len(contexts) /\ Len(contexts) \in Nat
      /\ DOMAIN contexts = 1..Len(contexts) /\ DOMAIN astNodes = 1..Len(contexts)
      /\ Here = Len(contexts) + 1 /\ Len(open) \in Nat /\ DOMAIN open = 1..Len(open)
  BY DEF WalkInv, Walked, Here
<1>3. parts \in Seq(Nat) /\ Len(parts) = k
  BY ChildrenFacts DEF WalkInv
<1>4. [rule |-> r, parts |-> parts] \in Context
  BY <1>3 DEF Context
<1>5. /\ contexts' \in Seq(Context) /\ Len(contexts') = Here /\ DOMAIN contexts' = DOMAIN contexts \cup {Here}
      /\ \A c \in DOMAIN contexts : contexts'[c] = contexts[c]
      /\ contexts'[Here] = [rule |-> r, parts |-> parts]
  <2> HIDE DEF parts
  <2> QED
    BY <1>1, <1>2, <1>4
<1>6. /\ \A c \in DOMAIN contexts : astNodes'[c] = astNodes[c]
      /\ astNodes'[Here] = ast
  BY <1>1, <1>2
<1>7. /\ Len(open') = Len(open) - k + 1 /\ DOMAIN open' = 1..(Len(open) - k + 1)
      /\ \A i \in 1..(Len(open) - k) : i \in DOMAIN open /\ open'[i] = open[i]
      /\ open'[Len(open) - k + 1] = Here
  <2> DEFINE N == Len(open) - k
             o == SubSeq(open, 1, N)
  <2>0. open \in Seq(Nat) /\ Len(open) \in Nat /\ DOMAIN open = 1..Len(open)
    BY <1>2
  <2>1. N \in Nat /\ N <= Len(open)
    BY <2>0
  <2>2. open' = Append(o, Here) /\ Here \in Nat
    BY <1>1, <1>2, <1>3
  <2> HIDE DEF N
  <2>3. o \in Seq(Nat) /\ Len(o) = N /\ \A i \in 1..N : o[i] = open[i] /\ i \in DOMAIN open
    BY <2>0, <2>1
  <2> HIDE DEF o
  <2>4. /\ Len(open') = N + 1 /\ DOMAIN open' = 1..(N + 1) /\ \A i \in 1..N : open'[i] = o[i]
        /\ open'[N + 1] = Here
    BY <2>1, <2>2, <2>3
  <2> QED
    BY <2>3, <2>4 DEF N
<1> HIDE DEF parts
<1>8. contexts'[Here].rule = r /\ contexts'[Here].parts = parts
  BY <1>5
<1> QED
  BY <1>1, <1>5, <1>6, <1>7, <1>8 DEF Exited, parts
LEMMA BackwardKept ==
  ASSUME WalkInv, Ordered, NEW k \in Nat, k <= Len(open), NEW r, NEW h, NEW ast, Exited(r, k, h, ast)
  PROVE  /\ Backward(contexts')
         /\ \A c \in DOMAIN contexts : firstIn'[c] = firstIn[c]
         /\ firstIn'[Here] = From(k)
<1>1. /\ Len(Children(k)) = k /\ Children(k) \in Seq(Nat) /\ DOMAIN Children(k) = 1..k
      /\ \A i \in 1..k : Children(k)[i] = open[Len(open) - k + i] /\ Children(k)[i] \in DOMAIN contexts
  BY ChildrenFacts DEF WalkInv
<1>2. Backward(contexts')
  <2> SUFFICES ASSUME NEW c \in DOMAIN contexts', NEW i \in DOMAIN contexts'[c].parts
      PROVE contexts'[c].parts[i] \in 1..(c - 1)
    BY DEF Backward
  <2>1. CASE c \in DOMAIN contexts
    BY <2>1 DEF Exited, Ordered, Backward
  <2>2. CASE c = Here
    <3>1. i \in 1..k /\ contexts'[c].parts[i] = Children(k)[i]
      BY <1>1, <2>2 DEF Exited
    <3>2. contexts'[c].parts[i] \in 1..Len(contexts)
      BY <1>1, <3>1, OpenFacts
    <3> QED
      BY <2>2, <3>2, OpenFacts
  <2> QED
    BY <2>1, <2>2 DEF Exited
<1>3. IsFirst(contexts, firstIn)
  <2>1. firstIn = CHOOSE f : IsFirst(contexts, f)
    BY DEF firstIn, IsFirst, FirstAt
  <2>2. Backward(contexts) /\ contexts \in Seq(Context)
    BY OpenFacts DEF Ordered
  <2> QED
    BY <2>1, <2>2, FirstChosen
<1>4. IsFirst(contexts', firstIn')
  <2>1. firstIn' = CHOOSE f : IsFirst(contexts', f)
    BY DEF firstIn, IsFirst, FirstAt
  <2>2. contexts' \in Seq(Context)
    BY DEF Exited
  <2> QED
    BY <1>2, <2>1, <2>2, FirstChosen
<1>5. \A c \in DOMAIN contexts : firstIn'[c] = firstIn[c]
  <2>1. /\ contexts' \in Seq(Context) /\ contexts \in Seq(Context) /\ Len(contexts) <= Len(contexts')
        /\ \A c \in DOMAIN contexts : contexts'[c] = contexts[c]
    BY OpenFacts DEF Exited
  <2> QED
    BY <1>2, <1>3, <1>4, <2>1, FirstStays
<1>6. firstIn'[Here] = From(k)
  <2>1. firstIn'[Here] = FirstAt(contexts', firstIn', Here)
    <3>1. Here \in DOMAIN contexts'
      BY DEF Exited
    <3> QED
      BY <1>4, <3>1 DEF IsFirst
  <2>2. contexts'[Here].parts = Children(k)
    BY DEF Exited
  <2>3. CASE k = 0
    <3>1. Children(k) = <<>>
      BY <1>1, <2>3
    <3> QED
      BY <2>1, <2>2, <2>3, <3>1 DEF FirstAt, From
  <2>4. CASE k # 0
    <3>1. Children(k) # <<>> /\ 1 \in 1..k
      BY <1>1, <2>4
    <3>2. firstIn'[Here] = firstIn'[Children(k)[1]]
      BY <2>1, <2>2, <3>1 DEF FirstAt
    <3>3. firstIn'[Children(k)[1]] = firstIn[open[Len(open) - k + 1]]
      BY <1>1, <1>5, <3>1
    <3> QED
      BY <2>4, <3>2, <3>3 DEF From
  <2> QED
    BY <2>3, <2>4
<1> QED
  BY <1>2, <1>5, <1>6

LEMMA OrderKept ==
  ASSUME WalkInv, Ordered, NEW k \in Nat, k <= Len(open), NEW r, NEW h, NEW ast, Exited(r, k, h, ast)
  PROVE  Ordered'
<1>1. /\ Backward(contexts')
      /\ \A c \in DOMAIN contexts : firstIn'[c] = firstIn[c]
      /\ firstIn'[Here] = From(k)
  BY BackwardKept
<1>2. \A c \in DOMAIN contexts' : firstIn'[c] \in 1..c
  <2>1. \A c \in DOMAIN contexts : firstIn'[c] \in 1..c
    BY <1>1 DEF Ordered
  <2>2. firstIn'[Here] \in 1..Here
    BY <1>1, WholeFacts
  <2> QED
    BY <2>1, <2>2 DEF Exited
<1> DEFINE last == Len(open) - k + 1
<1>3. /\ DOMAIN open' = 1..last /\ open'[last] = Here /\ last \in Nat
      /\ \A i \in 1..last : i # last => i \in DOMAIN open /\ i <= Len(open) - k /\ open'[i] = open[i]
  <2>1. \A i \in 1..last : i # last => i \in 1..(Len(open) - k) /\ i <= Len(open) - k
    BY OpenFacts
  <2>2. last \in Nat
    BY OpenFacts
  <2> QED
    BY <2>1, <2>2 DEF Exited
<1> HIDE DEF last
<1>4. \A i, j \in DOMAIN open' : i < j => open'[i] < firstIn'[open'[j]]
  <2> SUFFICES ASSUME NEW i \in 1..last, NEW j \in 1..last, i < j PROVE open'[i] < firstIn'[open'[j]]
    BY <1>3
  <2>1. i # last
    BY <1>3
  <2>2. CASE j = last
    BY <2>1, <2>2, <1>1, <1>3, WholeFacts
  <2>3. CASE j # last
    <3>1. i \in DOMAIN open /\ j \in DOMAIN open /\ open'[i] = open[i] /\ open'[j] = open[j]
      BY <2>1, <2>3, <1>3
    <3>2. firstIn'[open[j]] = firstIn[open[j]]
      BY <3>1, <1>1, OpenFacts
    <3> QED
      BY <3>1, <3>2 DEF Ordered
  <2> QED
    BY <2>2, <2>3
<1>5. ASSUME NEW c \in DOMAIN contexts', NEW i \in DOMAIN contexts'[c].parts, NEW j \in DOMAIN open'
      PROVE  contexts'[c].parts[i] # open'[j]
  <2>1. CASE c \in DOMAIN contexts
    <3>1. i \in DOMAIN contexts[c].parts /\ contexts'[c].parts[i] = contexts[c].parts[i]
      BY <2>1 DEF Exited
    <3>2. CASE j = last
      <4>1. contexts[c].parts[i] \in DOMAIN contexts
        BY <2>1, <3>1 DEF WalkInv, Walked
      <4> QED
        BY <3>1, <3>2, <4>1, <1>3, OpenFacts
    <3>3. CASE j # last
      BY <2>1, <3>1, <3>3, <1>3 DEF Ordered
    <3> QED
      BY <3>2, <3>3
  <2>2. CASE c = Here
    <3>1. /\ DOMAIN Children(k) = 1..k
          /\ \A n \in 1..k : Children(k)[n] = open[Len(open) - k + n] /\ Children(k)[n] \in DOMAIN contexts
      <4>1. Len(Children(k)) = k /\ Children(k) \in Seq(Nat)
        BY ChildrenFacts DEF WalkInv
      <4>2. DOMAIN Children(k) = 1..k
        BY <4>1
      <4>3. \A n \in 1..k : Children(k)[n] = open[Len(open) - k + n] /\ Children(k)[n] \in DOMAIN contexts
        BY ChildrenFacts DEF WalkInv
      <4> QED
        BY <4>2, <4>3
    <3>2. i \in 1..k /\ contexts'[c].parts[i] = open[Len(open) - k + i] /\ contexts'[c].parts[i] \in DOMAIN contexts
      BY <2>2, <3>1 DEF Exited
    <3>3. CASE j = last
      BY <3>2, <3>3, <1>3, OpenFacts
    <3>4. CASE j # last
      <4>1. j \in DOMAIN open /\ open'[j] = open[j] /\ j <= Len(open) - k /\ j \in Nat
        BY <1>3, <3>4
      <4>2. Len(open) - k + i \in DOMAIN open /\ j < Len(open) - k + i
        BY <3>2, <4>1, OpenFacts
      <4>3. open[j] < firstIn[open[Len(open) - k + i]]
        BY <4>1, <4>2 DEF Ordered
      <4>4. \A m \in DOMAIN open : firstIn[open[m]] \in 1..open[m] /\ open[m] \in Nat
        BY OpenFacts
      <4>5. open[j] # open[Len(open) - k + i]
        BY <4>1, <4>2, <4>3, <4>4
      <4> QED
        BY <3>2, <4>1, <4>5
    <3> QED
      BY <3>3, <3>4
  <2> QED
    BY <2>1, <2>2 DEF Exited
<1> QED
  BY <1>1, <1>2, <1>4, <1>5 DEF Ordered
-----------------------------------------------------------------------------
(* The invariant: every node has a hull, in which is its range and what it *)
(* holds, and which is in the span of one open context.                    *)

Hull(hull) ==
  /\ Encloses(nodes, hull)
  /\ \A n \in Nodes : nodes[n].range \notin TakenApart \cup {0} => hull[n] \subseteq Span(nodes[n].range)
  /\ \A n \in Nodes : \E i \in DOMAIN open : hull[n] \subseteq Span(open[i])
  /\ \A i \in DOMAIN open : hull[astNodes[open[i]]] \subseteq Span(open[i])
NestInv == Ordered /\ RulesFit /\ WellFounded(nodes) /\ \E hull : Hull(hull)

LEMMA RulesKept ==
  ASSUME WalkInv, RulesFit, NEW k \in Nat, k <= Len(open), NEW r, NEW h, NEW ast, Exited(r, k, h, ast),
         RuleFits(r, Children(k), h[ast].kind), \A n \in Nodes : h[n].kind = nodes[n].kind
  PROVE  RulesFit'
<1> SUFFICES ASSUME NEW c \in DOMAIN contexts'
    PROVE  /\ contexts'[c].rule = "if" =>
                Len(contexts'[c].parts) \in 2..3 /\ contexts'[contexts'[c].parts[2]].rule = "block"
           /\ contexts'[c].rule \in {"identifier", "prefix"} => h[astNodes'[c]].kind = contexts'[c].rule
  BY DEF RulesFit, RuleFits, rule, kind, Exited
<1>1. CASE c \in DOMAIN contexts
  <2>1. contexts'[c] = contexts[c] /\ astNodes'[c] = astNodes[c] /\ astNodes[c] \in Nodes
    BY <1>1 DEF Exited, WalkInv, NodeOfContext
  <2>2. RuleFits(contexts[c].rule, contexts[c].parts, nodes[astNodes[c]].kind)
    BY <1>1 DEF RulesFit, rule, kind
  <2>3. contexts[c].rule = "if" => contexts'[contexts[c].parts[2]] = contexts[contexts[c].parts[2]]
    <3> HAVE contexts[c].rule = "if"
    <3>1. contexts[c].parts \in Seq(Nat)
      <4>1. contexts[c] \in Context
        BY <1>1 DEF WalkInv, Walked
      <4> QED
        BY <4>1 DEF Context
    <3>2. 2 \in DOMAIN contexts[c].parts
      BY <2>2, <3>1 DEF RuleFits
    <3>3. contexts[c].parts[2] \in DOMAIN contexts
      BY <1>1, <3>2 DEF WalkInv, Walked
    <3> QED
      BY <3>3 DEF Exited
  <2> QED
    BY <2>1, <2>2, <2>3 DEF RuleFits, rule
<1>2. CASE c = Here
  <2>1. contexts'[c].rule = r /\ contexts'[c].parts = Children(k) /\ astNodes'[c] = ast
    BY <1>2 DEF Exited
  <2>2. r = "if" => contexts'[Children(k)[2]] = contexts[Children(k)[2]]
    <3> HAVE r = "if"
    <3>1. 2 \in 1..k
      <4>1. Len(Children(k)) = k
        BY ChildrenFacts DEF WalkInv
      <4> QED
        BY <4>1 DEF RuleFits
    <3>2. Children(k)[2] \in DOMAIN contexts
      BY <3>1, ChildrenFacts DEF WalkInv
    <3> QED
      BY <3>2 DEF Exited
  <2> QED
    BY <2>1, <2>2 DEF RuleFits, rule
<1> QED
  BY <1>1, <1>2 DEF Exited

(* What was taken apart stays so.                                          *)
LEMMA TakenApartStays ==
  ASSUME WalkInv, Ordered, NEW k \in Nat, k <= Len(open), NEW r, NEW h, NEW ast, Exited(r, k, h, ast),
         \A n \in Nodes : h[n].kind = nodes[n].kind
  PROVE  /\ TakenApart \subseteq TakenApart'
         /\ r = "binary" =>
              \A j \in 2..(k - 1) :
                rule(Children(k)[j]) = "parentheses" /\ node(Children(k)[j]).kind = "binary" =>
                  Span(Children(k)[j]) \subseteq TakenApart'
<1> DEFINE Q == {q \in DOMAIN contexts :
                   /\ contexts[q].rule = "parentheses" /\ nodes[astNodes[q]].kind = "binary"
                   /\ \E c \in DOMAIN contexts : contexts[c].rule = "binary"
                        /\ \E i \in 2..(Len(contexts[c].parts) - 1) : contexts[c].parts[i] = q}
           Q1 == {q \in DOMAIN contexts' :
                   /\ contexts'[q].rule = "parentheses" /\ nodes'[astNodes'[q]].kind = "binary"
                   /\ \E c \in DOMAIN contexts' : contexts'[c].rule = "binary"
                        /\ \E i \in 2..(Len(contexts'[c].parts) - 1) : contexts'[c].parts[i] = q}
<1>1. TakenApart = UNION {firstIn[q]..q : q \in Q} /\ TakenApart' = UNION {firstIn'[q]..q : q \in Q1}
  BY DEF TakenApart, Span, rule, node
<1>2. \A c \in DOMAIN contexts :
        /\ c \in DOMAIN contexts' /\ contexts'[c] = contexts[c] /\ firstIn'[c] = firstIn[c]
        /\ nodes'[astNodes'[c]].kind = nodes[astNodes[c]].kind
  <2>1. \A c \in DOMAIN contexts : firstIn'[c] = firstIn[c]
    BY BackwardKept
  <2>2. \A c \in DOMAIN contexts : nodes'[astNodes'[c]].kind = nodes[astNodes[c]].kind
    BY DEF Exited, WalkInv, NodeOfContext
  <2> QED
    BY <2>1, <2>2 DEF Exited
<1>3. Q \subseteq Q1
  BY <1>2
<1>4. TakenApart \subseteq TakenApart'
  <2> HIDE DEF Q, Q1
  <2>1. \A q \in Q : q \in Q1 /\ firstIn'[q] = firstIn[q]
    <3>1. Q \subseteq DOMAIN contexts
      BY DEF Q
    <3> QED
      BY <1>2, <1>3, <3>1
  <2> QED
    BY <1>1, <2>1
<1>5. ASSUME r = "binary", NEW j \in 2..(k - 1),
             rule(Children(k)[j]) = "parentheses", node(Children(k)[j]).kind = "binary"
      PROVE  Span(Children(k)[j]) \subseteq TakenApart'
  <2> DEFINE q == Children(k)[j]
  <2>1. j \in 1..k
    OBVIOUS
  <2>2. q \in DOMAIN contexts /\ Len(Children(k)) = k
    BY <2>1, ChildrenFacts DEF WalkInv
  <2>3. contexts'[q].rule = "parentheses" /\ nodes'[astNodes'[q]].kind = "binary" /\ q \in DOMAIN contexts'
    BY <1>2, <1>5, <2>2 DEF rule, node
  <2>4. /\ Here \in DOMAIN contexts' /\ contexts'[Here].rule = "binary"
        /\ j \in 2..(Len(contexts'[Here].parts) - 1) /\ contexts'[Here].parts[j] = q
    BY <1>5, <2>2 DEF Exited
  <2>5. q \in Q1
    <3> HIDE DEF q
    <3> QED
      BY <2>3, <2>4
  <2>6. Span(q) = firstIn'[q]..q
    BY <1>2, <2>2 DEF Span
  <2> HIDE DEF Q1, q
  <2> QED
    BY <1>1, <2>5, <2>6 DEF q
<1> QED
  BY <1>4, <1>5

(* An exit whose nodes have hulls: those of its children's spans may       *)
(* change, within what the exit spans.                                     *)
Rehulled(k, h, ast, hull, hull1) ==
  /\ Nodes \subseteq DOMAIN h /\ Encloses(h, hull1) /\ WellFounded(h)
  /\ \A n \in Nodes : /\ h[n].kind = nodes[n].kind
                      /\ hull1[n] = hull[n] \/ (hull[n] \subseteq Whole(k) /\ hull1[n] \subseteq Whole(k))
  /\ \A n \in DOMAIN h \ Nodes : hull1[n] \subseteq Whole(k)
  /\ ast \in DOMAIN h /\ hull1[ast] \subseteq Whole(k)
SpanNext(c) == firstIn'[c]..c
RangesRight(k, h, hull, hull1) ==
  \A n \in DOMAIN h :
    \/ h[n].range \in TakenApart' \cup {0}
    \/ h[n].range = Here /\ hull1[n] \subseteq Whole(k)
    \/ n \in Nodes /\ h[n].range = nodes[n].range /\ hull1[n] = hull[n]
LEMMA NestKept ==
  ASSUME WalkInv, Ordered, RulesFit, NEW k \in Nat, k <= Len(open), NEW r \in Expressions \cup Statements,
         NEW h, NEW ast, Exit(r, Children(k), h, ast), RuleFits(r, Children(k), h[ast].kind),
         NEW hull, Hull(hull), NEW hull1, Rehulled(k, h, ast, hull, hull1), RangesRight(k, h, hull, hull1)
  PROVE  NestInv'
<1>1. Exited(r, k, h, ast)
  BY ExitFacts
<1>2. \A n \in Nodes : h[n].kind = nodes[n].kind
  BY DEF Rehulled
<1>3. Ordered' /\ RulesFit'
  BY <1>1, <1>2, OrderKept, RulesKept
<1>4. WellFounded(nodes)'
  BY <1>1 DEF Rehulled, Exited
<1>5. TakenApart \subseteq TakenApart'
  BY <1>1, <1>2, TakenApartStays
<1>6. /\ \A c \in DOMAIN contexts : SpanNext(c) = Span(c)
      /\ SpanNext(Here) = Whole(k)
  <2>1. /\ \A c \in DOMAIN contexts : firstIn'[c] = firstIn[c]
        /\ firstIn'[Here] = From(k)
    BY <1>1, BackwardKept
  <2> QED
    BY <2>1 DEF Span, SpanNext, Whole
<1>7. nodes' = h /\ Nodes' = DOMAIN h
  BY <1>1 DEF Exited, Nodes
<1> DEFINE last == Len(open) - k + 1
<1>8. /\ last \in DOMAIN open' /\ open'[last] = Here /\ astNodes'[Here] = ast
      /\ \A i \in DOMAIN open : i <= Len(open) - k =>
           /\ i \in DOMAIN open' /\ open'[i] = open[i] /\ SpanNext(open'[i]) = Span(open[i])
           /\ astNodes'[open[i]] = astNodes[open[i]] /\ astNodes[open[i]] \in Nodes
      /\ \A i \in DOMAIN open' : i # last => i \in DOMAIN open /\ i <= Len(open) - k
  <2>1. last \in 1..last
    BY OpenFacts
  <2>2. \A i \in DOMAIN open : i <= Len(open) - k => i \in 1..last /\ i \in 1..(Len(open) - k)
    BY OpenFacts
  <2>3. \A i \in 1..last : i # last => i \in 1..(Len(open) - k) /\ i <= Len(open) - k
    BY OpenFacts
  <2>4. \A i \in DOMAIN open : open[i] \in DOMAIN contexts /\ astNodes[open[i]] \in Nodes
    BY OpenFacts DEF WalkInv, NodeOfContext
  <2> QED
    BY <1>1, <1>6, <2>1, <2>2, <2>3, <2>4 DEF Exited
<1> HIDE DEF last
<1>9. ASSUME NEW i \in DOMAIN open PROVE i <= Len(open) - k \/ Span(open[i]) \subseteq Whole(k)
  <2>1. i <= Len(open) - k \/ i > Len(open) - k
    BY OpenFacts
  <2> QED
    BY <2>1, WholeFacts
<1>10. ASSUME NEW n \in Nodes
       PROVE  \/ hull1[n] \subseteq Whole(k)
              \/ hull1[n] = hull[n] /\ \E i \in DOMAIN open : i <= Len(open) - k /\ hull[n] \subseteq Span(open[i])
  <2>1. PICK i \in DOMAIN open : hull[n] \subseteq Span(open[i])
    BY DEF Hull
  <2> QED
    BY <2>1, <1>9 DEF Rehulled
<1>11. Encloses(nodes, hull1)'
  BY <1>7 DEF Rehulled, Encloses, PartSet
<1>12. ASSUME NEW n \in DOMAIN h, h[n].range \notin TakenApart' \cup {0}
       PROVE  hull1[n] \subseteq SpanNext(h[n].range)
  <2>1. CASE h[n].range = Here /\ hull1[n] \subseteq Whole(k)
    BY <2>1, <1>6
  <2>2. CASE n \in Nodes /\ h[n].range = nodes[n].range /\ hull1[n] = hull[n]
    <3>1. hull[n] \subseteq Span(nodes[n].range)
      BY <1>5, <1>12, <2>2 DEF Hull
    <3>2. nodes[n].range \in hull[n]
      BY <1>12, <2>2 DEF Hull, Encloses, Nodes
    <3>3. PICK i \in DOMAIN open : hull[n] \subseteq Span(open[i])
      BY <2>2 DEF Hull
    <3>4. Span(open[i]) \subseteq DOMAIN contexts
      BY OpenFacts DEF Span
    <3> QED
      BY <1>6, <2>2, <3>1, <3>2, <3>3, <3>4
  <2> QED
    BY <1>12, <2>1, <2>2 DEF RangesRight
<1>13. ASSUME NEW n \in DOMAIN h PROVE \E i \in DOMAIN open' : hull1[n] \subseteq SpanNext(open'[i])
  <2>1. CASE hull1[n] \subseteq Whole(k)
    BY <2>1, <1>6, <1>8
  <2>2. CASE n \in Nodes /\ hull1[n] = hull[n] /\ \E i \in DOMAIN open : i <= Len(open) - k /\ hull[n] \subseteq Span(open[i])
    BY <2>2, <1>8
  <2> QED
    BY <1>10, <2>1, <2>2 DEF Rehulled
<1>14. ASSUME NEW i \in DOMAIN open' PROVE hull1[astNodes'[open'[i]]] \subseteq SpanNext(open'[i])
  <2>1. CASE i = last
    BY <2>1, <1>6, <1>8 DEF Rehulled
  <2>2. CASE i # last
    <3>1. i \in DOMAIN open /\ i <= Len(open) - k
      BY <2>2, <1>8
    <3> DEFINE n == astNodes[open[i]]
    <3>2. /\ n \in Nodes /\ hull[n] \subseteq Span(open[i]) /\ hull[n] # {}
      BY <3>1, <1>8 DEF Hull, Encloses, Nodes
    <3>3. Span(open[i]) \cap Whole(k) = {}
      BY <3>1, WholeFacts
    <3>4. hull1[n] = hull[n]
      BY <3>2, <3>3 DEF Rehulled
    <3> QED
      BY <3>1, <3>2, <3>4, <1>8
  <2> QED
    BY <2>1, <2>2
<1>15. Hull(hull1)'
  BY <1>7, <1>11, <1>12, <1>13, <1>14 DEF Hull, Span, SpanNext
<1> QED
  BY <1>3, <1>4, <1>15 DEF NestInv

(* The nodes of the children: their hulls are in what the exit spans.      *)
Heads(k) == {NodesOf(Children(k))[i] : i \in 1..k}
LEMMA HeadFacts ==
  ASSUME WalkInv, Ordered, NEW k \in Nat, k <= Len(open), NEW hull, Hull(hull)
  PROVE  /\ Heads(k) \subseteq Nodes
         /\ \A m \in Heads(k) : hull[m] \subseteq Whole(k)
         /\ \A i \in 1..k : hull[NodesOf(Children(k))[i]] \subseteq Span(Children(k)[i])
<1>1. \A i \in 1..k : NodesOf(Children(k))[i] \in Nodes
  BY ChildNodes
<1>2. ASSUME NEW i \in 1..k
      PROVE  /\ hull[NodesOf(Children(k))[i]] \subseteq Span(Children(k)[i])
             /\ Span(Children(k)[i]) \subseteq Whole(k)
  <2> DEFINE j == Len(open) - k + i
  <2>1. j \in DOMAIN open /\ j > Len(open) - k
    BY OpenFacts
  <2>2. NodesOf(Children(k))[i] = astNodes[open[j]] /\ Children(k)[i] = open[j]
    BY ChildrenFacts DEF WalkInv
  <2> HIDE DEF j
  <2> QED
    BY <2>1, <2>2, WholeFacts DEF Hull
<1> QED
  BY <1>1, <1>2 DEF Heads

(* An exit that only adds nodes, over those of the children.               *)
OnlyAdds(k, h, ast) ==
  /\ Nodes \subseteq DOMAIN h /\ ast \in DOMAIN h \ Nodes /\ WellFounded(h)
  /\ \A n \in Nodes : h[n] = nodes[n]
  /\ \A n \in DOMAIN h \ Nodes :
       h[n].range \in {0, Here} /\ PartSet(h, n) \subseteq Heads(k) \cup (DOMAIN h \ Nodes)
LEMMA NestAdded ==
  ASSUME WalkInv, NestInv, NEW k \in Nat, k <= Len(open), NEW r \in Expressions \cup Statements,
         NEW h, NEW ast, Exit(r, Children(k), h, ast), RuleFits(r, Children(k), h[ast].kind),
         OnlyAdds(k, h, ast)
  PROVE  NestInv'
<1>1. PICK hull : Hull(hull)
  BY DEF NestInv
<1>2. Ordered /\ RulesFit /\ WellFounded(nodes)
  BY DEF NestInv
<1> DEFINE hull1 == [n \in DOMAIN h |-> IF n \in Nodes THEN hull[n] ELSE Whole(k)]
<1>3. /\ \A n \in Nodes : hull1[n] = hull[n]
      /\ \A n \in DOMAIN h \ Nodes : hull1[n] = Whole(k)
  BY DEF OnlyAdds
<1> HIDE DEF hull1
<1>4. Here \in Whole(k) /\ Whole(k) \in SUBSET Nat
  BY <1>2, WholeFacts
<1>5. Encloses(h, hull1)
  <2>1. ASSUME NEW n \in DOMAIN h
        PROVE  hull1[n] \in SUBSET Nat /\ hull1[n] # {} /\ h[n].range \in hull1[n] \cup {0}
    <3>1. CASE n \in Nodes
      BY <1>1, <1>3, <3>1 DEF Hull, Encloses, OnlyAdds, Nodes
    <3>2. CASE n \notin Nodes
      BY <1>3, <1>4, <3>2 DEF OnlyAdds
    <3> QED
      BY <3>1, <3>2
  <2>2. ASSUME NEW n \in DOMAIN h, NEW m \in PartSet(h, n) PROVE hull1[m] \subseteq hull1[n]
    <3>1. CASE n \in Nodes
      <4>1. m \in PartSet(nodes, n)
        BY <3>1, <2>2 DEF OnlyAdds, PartSet
      <4>2. m \in Nodes
        BY <1>2, <3>1, <4>1 DEF WellFounded, Nodes
      <4>3. hull[m] \subseteq hull[n]
        BY <1>1, <3>1, <4>1 DEF Hull, Encloses, Nodes
      <4> QED
        BY <1>3, <3>1, <4>2, <4>3
    <3>2. CASE n \notin Nodes
      <4>1. m \in Heads(k) \/ m \in DOMAIN h \ Nodes
        BY <3>2, <2>2 DEF OnlyAdds
      <4>2. m \in Heads(k) => m \in Nodes /\ hull[m] \subseteq Whole(k)
        BY <1>1, <1>2, HeadFacts
      <4> QED
        BY <1>3, <3>2, <4>1, <4>2
    <3> QED
      BY <3>1, <3>2
  <2> QED
    BY <2>1, <2>2 DEF Encloses
<1>6. Rehulled(k, h, ast, hull, hull1)
  <2>1. \A n \in Nodes : h[n].kind = nodes[n].kind /\ hull1[n] = hull[n]
    BY <1>3 DEF OnlyAdds
  <2>2. \A n \in DOMAIN h \ Nodes : hull1[n] \subseteq Whole(k)
    BY <1>3
  <2>3. Nodes \subseteq DOMAIN h /\ WellFounded(h) /\ ast \in DOMAIN h /\ hull1[ast] \subseteq Whole(k)
    BY <2>2 DEF OnlyAdds
  <2> QED
    BY <1>5, <2>1, <2>2, <2>3 DEF Rehulled
<1>7. RangesRight(k, h, hull, hull1)
  BY <1>3 DEF RangesRight, OnlyAdds
<1> QED
  BY <1>1, <1>2, <1>6, <1>7, NestKept

(* One node, over nodes of the children.                                   *)
LEMMA NestOne ==
  ASSUME WalkInv, NestInv, NEW k \in Nat, k <= Len(open), NEW r \in Expressions \cup Statements,
         NEW exprs \in Seq(Nat), NEW range \in {0, Here}, NEW j \in Expressions \cup Statements,
         \A i \in DOMAIN exprs : exprs[i] \in Heads(k),
         Exit(r, Children(k), Append(nodes, Object(j, exprs, range)), new), RuleFits(r, Children(k), j)
  PROVE  NestInv'
<1> DEFINE h == Append(nodes, Object(j, exprs, range))
<1>1. /\ DOMAIN h = Nodes \cup {new} /\ new \notin Nodes /\ \A n \in Nodes : h[n] = nodes[n]
      /\ h[new].kind = j /\ h[new].parts = exprs /\ h[new].range = range
  <2>1. WellBuilt(nodes) /\ range \in Nat
    BY DEF WalkInv, Walked, Here
  <2>2. HasOneMore(h, j, exprs, range)
    BY <2>1, OneMore
  <2> QED
    BY <2>2 DEF HasOneMore
<1> HIDE DEF h
<1>2. Heads(k) \subseteq Nodes
  BY HeadFacts DEF NestInv
<1>3. PartSet(h, new) \subseteq Heads(k) /\ \A n \in Nodes : PartSet(h, n) = PartSet(nodes, n)
  BY <1>1 DEF PartSet
<1>4. WellFounded(h)
  <2>1. Nodes \subseteq Nat /\ new \in Nat
    BY DEF WalkInv, Walked, WellBuilt, Nodes, new
  <2>2. DOMAIN nodes = Nodes
    BY DEF Nodes
  <2>3. /\ Nodes \subseteq DOMAIN h /\ DOMAIN h \subseteq Nat /\ DOMAIN h \ Nodes = {new}
        /\ PartSet(h, new) \subseteq Nodes
    BY <1>1, <1>2, <1>3, <2>1
  <2>4. Added(nodes, h)
    BY <1>3, <2>2, <2>3 DEF Added
  <2> QED
    BY <2>4, AddedWellFounded DEF NestInv
<1>5. OnlyAdds(k, h, new)
  BY <1>1, <1>3, <1>4 DEF OnlyAdds
<1> QED
  BY <1>1, <1>5, NestAdded DEF h
LEMMA NestPlain ==
  ASSUME WalkInv, NestInv, NEW k, NEW r, NEW range, PlainStep(k, r, range)
  PROVE  NestInv'
<1>1. k \in Nat /\ k <= Len(open) /\ r \in Expressions \cup Statements /\ range \in {0, Here}
  BY DEF PlainStep
<1>2. NodesOf(Children(k)) \in Seq(Nat) /\ DOMAIN NodesOf(Children(k)) = 1..k
  BY <1>1, ChildNodes, ChildrenFacts DEF WalkInv
<1>3. \A i \in DOMAIN NodesOf(Children(k)) : NodesOf(Children(k))[i] \in Heads(k)
  BY <1>2 DEF Heads
<1>4. RuleFits(r, Children(k), r)
  BY DEF PlainStep, RuleFits
<1> QED
  BY <1>1, <1>2, <1>3, <1>4, NestOne DEF PlainStep

LEMMA NestIf ==
  ASSUME WalkInv, NestInv, ExitIfStatement
  PROVE  NestInv'
<1>1. PICK n \in 2..3 :
        /\ Len(open) >= n
        /\ isBlock(Children(n)[2])
        /\ ExitRule("if", Children(n),
             NodesOf(IF n = 3 /\ isBlock(Children(n)[3])
                     THEN <<Children(n)[1], Children(n)[2], Children(n)[2]>> ELSE Children(n)))
  BY DEF ExitIfStatement
<1> DEFINE p == Children(n)
           e == NodesOf(p)
           q == IF n = 3 /\ isBlock(p[3]) THEN <<p[1], p[2], p[2]>> ELSE p
           f == NodesOf(q)
<1>2. n \in Nat /\ n <= Len(open) /\ "if" \in Expressions \cup Statements /\ 0 \in {0, Here}
  <2>1. Len(open) \in Nat
    BY DEF WalkInv, Walked
  <2> QED
    BY <1>1, <2>1 DEF Statements
<1>3. /\ p \in Seq(Nat) /\ Len(p) = n /\ e \in Seq(Nat) /\ DOMAIN e = 1..n
      /\ \A i \in 1..n : e[i] = astNodes[p[i]] /\ e[i] \in Nat
  <2>1. e \in Seq(Nat) /\ DOMAIN e = 1..n
    BY <1>2, ChildrenFacts, ChildNodes DEF WalkInv
  <2>2. \A i \in 1..n : e[i] \in Nat
    <3> HIDE DEF e
    <3> QED
      BY <2>1
  <2> QED
    BY <1>2, <2>1, <2>2, ChildrenFacts DEF WalkInv
<1>4. f \in Seq(Nat) /\ \A i \in DOMAIN f : \E j \in 1..n : f[i] = e[j]
  <2>1. CASE n = 3 /\ isBlock(p[3])
    <3>1. q = <<p[1], p[2], p[2]>>
      BY <2>1
    <3>2. f = [i \in 1..3 |-> astNodes[q[i]]]
      BY <3>1 DEF NodesOf
    <3>3. f[1] = astNodes[p[1]] /\ f[2] = astNodes[p[2]] /\ f[3] = astNodes[p[2]]
      BY <3>1, <3>2
    <3>4. e[1] = astNodes[p[1]] /\ e[2] = astNodes[p[2]] /\ e[1] \in Nat /\ e[2] \in Nat /\ 1 \in 1..n /\ 2 \in 1..n
      BY <1>3, <2>1
    <3> HIDE DEF f, e, p, q
    <3>5. \A i \in 1..3 : i = 1 \/ i = 2 \/ i = 3
      OBVIOUS
    <3>6. DOMAIN f = 1..3 /\ \A i \in 1..3 : f[i] = e[1] \/ f[i] = e[2]
      BY <3>2, <3>3, <3>4, <3>5
    <3>7. f = [i \in 1..3 |-> f[i]] /\ \A i \in 1..3 : f[i] \in Nat
      BY <3>2, <3>4, <3>6
    <3>8. f \in Seq(Nat)
      BY <3>7
    <3> QED
      BY <3>4, <3>6, <3>8
  <2>2. CASE ~(n = 3 /\ isBlock(p[3]))
    <3>1. f = e
      BY <2>2
    <3> HIDE DEF f, e
    <3> QED
      BY <1>3, <3>1
  <2> QED
    BY <2>1, <2>2
<1>5. \A i \in DOMAIN f : f[i] \in Heads(n)
  <2> HIDE DEF f
  <2> QED
    BY <1>4 DEF Heads
<1>6. Exit("if", p, Append(nodes, Object("if", f, 0)), new)
  BY <1>1 DEF ExitRule
<1>7. RuleFits("if", p, "if")
  <2>1. Len(p) \in 2..3 /\ rule(p[2]) = "block"
    BY <1>1, <1>3 DEF isBlock
  <2> QED
    BY <2>1 DEF RuleFits
<1> HIDE DEF f
<1> QED
  BY <1>2, <1>4, <1>5, <1>6, <1>7, NestOne
LEMMA NestLinks ==
  ASSUME WalkInv, NestInv, ExitCallOrMemberExpression
  PROVE  NestInv'
<1>1. PICK n \in 1..source.chain : \E links \in [1..n -> Links] :
        LET parts == Children(1 + arguments(links, n))
            made == LinkNodes(links, NodesOf(parts))
        IN  Len(open) > arguments(links, n) /\ Exit(made[n].kind, parts, nodes \o made, new + n - 1)
  BY DEF ExitCallOrMemberExpression
<1>2. PICK links \in [1..n -> Links] :
        LET parts == Children(1 + arguments(links, n))
            made == LinkNodes(links, NodesOf(parts))
        IN  Len(open) > arguments(links, n) /\ Exit(made[n].kind, parts, nodes \o made, new + n - 1)
  BY <1>1
<1> DEFINE k == 1 + arguments(links, n)
           e == NodesOf(Children(k))
           made == LinkNodes(links, e)
           N == Len(nodes)
           h == nodes \o made
           ast == new + n - 1
<1>3. Len(open) > arguments(links, n) /\ Exit(made[n].kind, Children(k), h, ast)
  BY <1>2
<1>4. n \in Nat /\ n >= 1
  OBVIOUS
<1>5. \A i \in 0..n : /\ arguments(links, i) \in Nat /\ arguments(links, i) <= arguments(links, n)
                      /\ i > 0 /\ links[i] = "callWith" => arguments(links, i) >= 1
  BY <1>4, ArgumentsFacts
<1>6. N \in Nat /\ nodes \in Seq(AnyNode) /\ Nodes = 1..N /\ DOMAIN nodes = 1..N /\ new = N + 1 /\ Len(open) \in Nat
  BY DEF WalkInv, Walked, WellBuilt, new, Nodes
<1>7. k \in Nat /\ k <= Len(open) /\ 1 \in 1..k /\ \A i \in 1..n : 1 + arguments(links, i) \in 1..k
  <2>1. arguments(links, n) \in Nat /\ \A i \in 1..n : arguments(links, i) \in Nat /\ arguments(links, i) <= arguments(links, n)
    BY <1>4, <1>5
  <2> QED
    BY <2>1, <1>3, <1>6
<1>8. ChainOf(made, n, links, e)
  BY <1>4, LinkParts
<1>9. \A i \in 1..n : /\ made[i].range = (IF i = n THEN Here ELSE 0)
                      /\ made[i].kind = (IF links[i] = "member" THEN "member" ELSE "call")
  <2>1. DOMAIN links = 1..n
    OBVIOUS
  <2>2. Len(links) = n
    <3>1. links \in Seq(Links)
      BY <1>4
    <3> QED
      BY <1>4, <2>1, <3>1
  <2> QED
    BY <2>1, <2>2 DEF LinkNodes, Object
<1> HIDE DEF made, k, e
<1>10. DOMAIN made = 1..n /\ made = [i \in 1..n |-> made[i]]
  BY <1>8 DEF ChainOf
<1>11. /\ DOMAIN h = 1..(N + n) /\ \A i \in 1..N : h[i] = nodes[i]
       /\ \A i \in 1..n : h[N + i] = made[i]
  <2>1. PICK g : Stages(g, nodes, made, n)
    BY <1>4, <1>6, <1>10, Behind
  <2>2. n \in 0..n
    BY <1>4
  <2>3. h = g[n]
    BY <2>1 DEF Stages
  <2> HIDE DEF h, N
  <2>4. /\ DOMAIN g[n] = 1..(Len(nodes) + n) /\ \A i \in 1..Len(nodes) : g[n][i] = nodes[i]
        /\ \A i \in 1..n : g[n][Len(nodes) + i] = made[i]
    BY <2>1, <2>2 DEF Stages
  <2> QED
    BY <2>3, <2>4 DEF N
<1> HIDE DEF h, N
<1>12. \A i \in 1..k : e[i] \in Heads(k)
  BY DEF Heads, e
<1>13. ASSUME NEW m \in DOMAIN h \ Nodes
       PROVE  /\ h[m].range \in {0, Here}
              /\ \A x \in PartSet(h, m) : x \in Heads(k) \/ (x \in DOMAIN h \ Nodes /\ x < m)
  <2> DEFINE i == m - N
  <2>1. i \in 1..n /\ m = N + i
    BY <1>4, <1>6, <1>11
  <2> HIDE DEF i
  <2>2. h[m] = made[i]
    BY <2>1, <1>11
  <2> DEFINE d == IF links[i] = "callWith" THEN 1 ELSE 0
  <2>3. /\ DOMAIN made[i].parts = 1..(d + 1)
        /\ made[i].parts[1] = IF i = 1 THEN e[1] ELSE new + i - 2
        /\ d = 1 => made[i].parts[2] = e[1 + arguments(links, i)]
    BY <2>1, <1>8 DEF ChainOf
  <2>4. ASSUME NEW x \in PartSet(h, m) PROVE x \in Heads(k) \/ (x \in DOMAIN h \ Nodes /\ x < m)
    <3>1. PICK j \in DOMAIN made[i].parts : x = made[i].parts[j]
      BY <2>2, <2>4 DEF PartSet
    <3>2. j = 1 \/ (j = 2 /\ d = 1)
      BY <2>3, <3>1
    <3>3. CASE j = 1 /\ i = 1
      BY <2>3, <3>1, <3>3, <1>7, <1>12
    <3>4. CASE j = 1 /\ i # 1
      <4>1. x = N + 1 + i - 2
        BY <2>3, <3>1, <3>4, <1>6
      <4>2. x \in 1..(N + n) /\ x \notin 1..N /\ x < N + i
        BY <2>1, <3>4, <4>1, <1>4, <1>6
      <4> QED
        BY <2>1, <4>2, <1>6, <1>11
    <3>5. CASE j = 2 /\ d = 1
      BY <2>1, <2>3, <3>1, <3>5, <1>7, <1>12
    <3> QED
      BY <3>2, <3>3, <3>4, <3>5
  <2> QED
    BY <2>1, <2>2, <2>4, <1>9
<1>14. Heads(k) \subseteq Nodes
  BY <1>7, HeadFacts DEF NestInv
<1>15. Nodes \subseteq DOMAIN h /\ DOMAIN h \subseteq Nat /\ ast \in DOMAIN h \ Nodes
       /\ \A m \in Nodes : h[m] = nodes[m]
  BY <1>4, <1>6, <1>11
<1>16. WellFounded(h)
  <2>1. DOMAIN nodes = Nodes
    BY DEF Nodes
  <2>2. \A m \in Nodes : PartSet(h, m) = PartSet(nodes, m)
    BY <1>15 DEF PartSet
  <2>3. Added(nodes, h)
    BY <2>1, <2>2, <1>13, <1>14, <1>15 DEF Added
  <2> QED
    BY <2>3, AddedWellFounded DEF NestInv
<1>17. OnlyAdds(k, h, ast)
  <2> HIDE DEF ast
  <2> QED
    BY <1>13, <1>15, <1>16 DEF OnlyAdds
<1>18. made[n].kind \in {"member", "call"} /\ made[n].kind \in Expressions \cup Statements
  BY <1>4, <1>9, Kinds
<1>19. RuleFits(made[n].kind, Children(k), h[ast].kind)
  BY <1>18 DEF RuleFits
<1> QED
  <2> HIDE DEF ast
  <2> QED
    BY <1>3, <1>7, <1>17, <1>18, <1>19, NestAdded

(* The node of an open context is in no other node.                        *)
LEMMA RootIsNoPart ==
  ASSUME WalkInv, OnceInv, Ordered, RulesFit, NEW i \in DOMAIN open
  PROVE  \A n \in Nodes : astNodes[open[i]] \notin PartSet(nodes, n)
<1> DEFINE x == astNodes[open[i]]
<1>1. open[i] \in DOMAIN contexts /\ x \in Nodes
  BY OpenFacts DEF WalkInv, NodeOfContext
<1>2. x \notin ElseBlocks
  <2> SUFFICES ASSUME x \in ElseBlocks PROVE FALSE
    OBVIOUS
  <2> DEFINE D == {d \in DOMAIN contexts : /\ rule(d) = "if" /\ Len(contexts[d].parts) = 3
                                          /\ rule(contexts[d].parts[3]) = "block"}
             B == UNION {{contexts[c].parts[2], contexts[c].parts[3]} : c \in D}
  <2>1. PICK b \in B : x = astNodes[b]
    BY DEF ElseBlocks
  <2>2. PICK c \in D : b \in {contexts[c].parts[2], contexts[c].parts[3]}
    BY <2>1
  <2>3. /\ c \in DOMAIN contexts /\ rule(c) = "if" /\ Len(contexts[c].parts) = 3
        /\ rule(contexts[c].parts[3]) = "block"
    BY <2>2
  <2>4. rule(contexts[c].parts[2]) = "block"
    BY <2>3 DEF RulesFit, RuleFits
  <2> HIDE DEF D, B
  <2>5. contexts[c].parts \in Seq(Nat)
    <3>1. contexts[c] \in Context
      BY <2>3 DEF WalkInv, Walked
    <3> QED
      BY <3>1 DEF Context
  <2>6. 2 \in DOMAIN contexts[c].parts /\ 3 \in DOMAIN contexts[c].parts
    BY <2>3, <2>5
  <2>7. PICK j \in DOMAIN contexts[c].parts : b = contexts[c].parts[j] /\ rule(b) = "block"
    BY <2>2, <2>3, <2>4, <2>6
  <2>8. b \in DOMAIN contexts
    BY <2>3, <2>7 DEF WalkInv, Walked
  <2>9. "block" \in Statements
    BY DEF Statements
  <2>10. open[i] = b
    BY <1>1, <2>1, <2>7, <2>8, <2>9 DEF WalkInv, NodeOfContext
  <2> QED
    BY <2>3, <2>7, <2>10 DEF Ordered
<1>3. 0 \notin DOMAIN nodes /\ DOMAIN nodes = Nodes
  BY DEF WalkInv, Walked, WellBuilt, Nodes
<1>4. DOMAIN Roots = DOMAIN open /\ Roots[i] = x
  BY DEF Roots
<1> HIDE DEF x
<1>5. Once(Book(nodes, Roots), x)
  BY <1>1, <1>2, <1>3 DEF OnceInv, HeldOnce
<1>6. <<0, i>> \in SlotsOf(Book(nodes, Roots)) /\ At(Book(nodes, Roots), <<0, i>>) = x
  BY <1>3, <1>4, BookSlots
<1>7. ASSUME NEW n \in Nodes, x \in PartSet(nodes, n) PROVE FALSE
  <2>1. PICK j \in DOMAIN nodes[n].parts : x = nodes[n].parts[j]
    BY <1>7 DEF PartSet
  <2>2. <<n, j>> \in SlotsOf(Book(nodes, Roots)) /\ At(Book(nodes, Roots), <<n, j>>) = x
    BY <1>3, <2>1, BookSlots
  <2>3. <<n, j>> = <<0, i>>
    BY <1>5, <1>6, <2>2 DEF Once
  <2> QED
    BY <1>3, <2>3
<1> QED
  BY <1>7 DEF x

(* A node that is in no other has its range set: its hull takes it in.     *)
LEMMA RangeSetNests ==
  ASSUME WalkInv, WellFounded(nodes), NEW a \in Nodes, \A n \in Nodes : a \notin PartSet(nodes, n),
         NEW hull, Encloses(nodes, hull), NEW c \in Nat, NEW h, HasRange(h, a, c), NEW hull1,
         hull1 = [n \in Nodes |-> IF n = a THEN hull[a] \cup {c} ELSE hull[n]]
  PROVE  Encloses(h, hull1) /\ WellFounded(h)
<1>1. DOMAIN nodes = Nodes /\ DOMAIN h = Nodes /\ Nodes \subseteq Nat
  BY DEF HasRange, WalkInv, Walked, WellBuilt, Nodes
<1>2. \A n \in Nodes : PartSet(h, n) = PartSet(nodes, n) /\ PartSet(nodes, n) \subseteq Nodes
  BY <1>1 DEF HasRange, PartSet, WellFounded
<1>3. WellFounded(h)
  <2>1. Added(nodes, h)
    BY <1>1, <1>2 DEF Added
  <2> QED
    BY <2>1, AddedWellFounded
<1>4. ASSUME NEW n \in Nodes PROVE hull1[n] \in SUBSET Nat /\ hull1[n] # {} /\ h[n].range \in hull1[n] \cup {0}
  <2>1. hull[n] \in SUBSET Nat /\ hull[n] # {} /\ nodes[n].range \in hull[n] \cup {0}
    BY <1>1 DEF Encloses
  <2>2. CASE n = a
    BY <2>1, <2>2 DEF HasRange
  <2>3. CASE n # a
    BY <2>1, <2>3 DEF HasRange
  <2> QED
    BY <2>2, <2>3
<1>5. ASSUME NEW n \in Nodes, NEW m \in PartSet(h, n) PROVE hull1[m] \subseteq hull1[n]
  <2>1. m \in PartSet(nodes, n) /\ m # a /\ m \in Nodes
    BY <1>2, <1>5
  <2>2. hull[m] \subseteq hull[n]
    BY <1>1, <2>1 DEF Encloses
  <2> QED
    BY <2>1, <2>2
<1> QED
  BY <1>1, <1>3, <1>4, <1>5 DEF Encloses

LEMMA NestParentheses ==
  ASSUME WalkInv, OnceInv, NestInv, ExitParenthesesExpression
  PROVE  NestInv'
<1> DEFINE a == NodesOf(Children(1))[1]
           h == [nodes EXCEPT ![a].range = Here]
           L == Len(open)
<1>1. open # <<>> /\ Exit("parentheses", Children(1), h, a)
  BY DEF ExitParenthesesExpression
<1>2. open \in Seq(Nat) /\ L \in Nat /\ WellBuilt(nodes) /\ Here \in Nat /\ Here # 0 /\ DOMAIN open = 1..L
  BY DEF WalkInv, Walked, Here
<1>3. 1 \in Nat /\ 1 <= L /\ L - 1 + 1 = L /\ L \in DOMAIN open /\ 1 \in 1..1
  BY <1>1, <1>2
<1>4. a \in Nodes /\ a = astNodes[open[L]] /\ a \in Heads(1)
  <2>1. a \in Nodes /\ a = astNodes[Children(1)[1]] /\ Children(1)[1] = open[L - 1 + 1]
    BY <1>3, ChildNodes, ChildrenFacts DEF WalkInv
  <2> QED
    BY <1>3, <2>1 DEF Heads
<1> HIDE DEF a
<1>5. HasRange(h, a, Here)
  BY <1>2, <1>4, RangeSet
<1> HIDE DEF h
<1>6. Ordered /\ RulesFit /\ WellFounded(nodes)
  BY DEF NestInv
<1>7. PICK hull : Hull(hull)
  BY DEF NestInv
<1>8. \A n \in Nodes : a \notin PartSet(nodes, n)
  BY <1>3, <1>4, <1>6, RootIsNoPart
<1> DEFINE hull1 == [n \in Nodes |-> IF n = a THEN hull[a] \cup {Here} ELSE hull[n]]
<1>9. Encloses(h, hull1) /\ WellFounded(h)
  BY <1>2, <1>4, <1>5, <1>6, <1>7, <1>8, RangeSetNests DEF Hull
<1>10. hull1[a] \subseteq Whole(1) /\ hull[a] \subseteq Whole(1) /\ \A n \in Nodes : n # a => hull1[n] = hull[n]
  <2>1. hull[a] \subseteq Whole(1) /\ Here \in Whole(1)
    BY <1>3, <1>4, <1>6, <1>7, HeadFacts, WholeFacts
  <2> QED
    BY <1>4, <2>1
<1> HIDE DEF hull1
<1>11. DOMAIN h = Nodes /\ h[a].range = Here
       /\ \A n \in Nodes : h[n].kind = nodes[n].kind /\ (n # a => h[n].range = nodes[n].range)
  BY <1>5 DEF HasRange
<1>12. Rehulled(1, h, a, hull, hull1)
  BY <1>4, <1>9, <1>10, <1>11 DEF Rehulled
<1>13. RangesRight(1, h, hull, hull1)
  BY <1>10, <1>11 DEF RangesRight
<1>14. RuleFits("parentheses", Children(1), h[a].kind) /\ "parentheses" \in Expressions \cup Statements
  BY Kinds DEF RuleFits
<1> QED
  BY <1>1, <1>3, <1>6, <1>7, <1>12, <1>13, <1>14, NestKept

LEMMA NestPlaces ==
  ASSUME WalkInv, OnceInv, NestInv, ExitStatement
  PROVE  NestInv'
<1> DEFINE c == Last(open)
           a == astNodes[c]
           h == [nodes EXCEPT ![a].range = c]
<1>1. nodes' = h /\ contexts' = contexts /\ astNodes' = astNodes /\ open' = open /\ open # <<>>
  BY DEF ExitStatement
<1>2. Ordered /\ RulesFit /\ WellFounded(nodes)
  BY DEF NestInv
<1>3. c \in DOMAIN contexts /\ c \in Nat /\ c # 0 /\ Len(open) \in DOMAIN open /\ c = open[Len(open)]
  <2>1. open \in Seq(Nat) /\ Len(open) \in DOMAIN open
    BY <1>1 DEF WalkInv, Walked
  <2>2. c = open[Len(open)]
    BY DEF Last
  <2> QED
    BY <2>1, <2>2 DEF WalkInv, Walked
<1>4. a \in Nodes /\ WellBuilt(nodes)
  BY <1>3 DEF WalkInv, NodeOfContext, Walked
<1>5. HasRange(h, a, c)
  <2> HIDE DEF a, c
  <2> QED
    BY <1>3, <1>4, RangeSet
<1>6. \A n \in Nodes : a \notin PartSet(nodes, n)
  BY <1>2, <1>3, RootIsNoPart
<1>7. PICK hull : Hull(hull)
  BY DEF NestInv
<1>21. PICK hull1 : hull1 = [n \in Nodes |-> IF n = a THEN hull[a] \cup {c} ELSE hull[n]]
  OBVIOUS
<1>8. a = astNodes[open[Len(open)]]
  BY <1>3
<1> HIDE DEF h, a, c
<1>9. Encloses(h, hull1) /\ WellFounded(h)
  BY <1>2, <1>3, <1>4, <1>5, <1>6, <1>7, <1>21, RangeSetNests DEF Hull
<1>10. hull[a] \subseteq Span(c) /\ c \in Span(c)
  <2>1. hull[a] \subseteq Span(c)
    BY <1>3, <1>7, <1>8 DEF Hull
  <2>2. firstIn[c] \in 1..c
    BY <1>2, <1>3 DEF Ordered
  <2> QED
    BY <1>3, <2>1, <2>2 DEF Span
<1>11. hull1[a] \subseteq Span(c) /\ \A n \in Nodes : n # a => hull1[n] = hull[n]
  BY <1>4, <1>10, <1>21
<1>12. /\ DOMAIN h = Nodes /\ h[a].range = c
       /\ \A n \in Nodes : h[n].kind = nodes[n].kind /\ (n # a => h[n].range = nodes[n].range)
  BY <1>5 DEF HasRange
<1>13. \A d \in DOMAIN contexts : astNodes[d] \in Nodes
  BY DEF WalkInv, NodeOfContext
<1>14. Ordered' /\ firstIn' = firstIn
  BY <1>1, <1>2 DEF Ordered, firstIn
<1>15. RulesFit'
  BY <1>1, <1>2, <1>12, <1>13 DEF RulesFit, RuleFits, rule, kind
<1>16. TakenApart' = TakenApart
  <2>1. \A q \in DOMAIN contexts : h[astNodes[q]].kind = nodes[astNodes[q]].kind
    BY <1>12, <1>13
  <2> QED
    BY <1>1, <1>14, <2>1 DEF TakenApart, Span, rule, node
<1>17. \A n \in Nodes : h[n].range \notin TakenApart \cup {0} => hull1[n] \subseteq Span(h[n].range)
  <2> TAKE n \in Nodes
  <2>1. CASE n = a
    BY <2>1, <1>11, <1>12
  <2>2. CASE n # a
    BY <2>2, <1>7, <1>11, <1>12 DEF Hull
  <2> QED
    BY <2>1, <2>2
<1>18. \A n \in Nodes : \E i \in DOMAIN open : hull1[n] \subseteq Span(open[i])
  <2> TAKE n \in Nodes
  <2>1. CASE n = a
    BY <2>1, <1>3, <1>11
  <2>2. CASE n # a
    BY <2>2, <1>7, <1>11 DEF Hull
  <2> QED
    BY <2>1, <2>2
<1>19. \A i \in DOMAIN open : hull1[astNodes[open[i]]] \subseteq Span(open[i])
  <2> TAKE i \in DOMAIN open
  <2>1. astNodes[open[i]] \in Nodes
    BY <1>13 DEF WalkInv, Walked
  <2>2. CASE astNodes[open[i]] # a
    BY <2>1, <2>2, <1>7, <1>11 DEF Hull
  <2>3. CASE astNodes[open[i]] = a
    <3>1. hull[a] \subseteq Span(open[i]) /\ hull[a] # {}
      BY <2>3, <1>4, <1>7 DEF Hull, Encloses, Nodes
    <3>2. i = Len(open)
      BY <1>2, <1>3, <1>10, <3>1, SpansApart
    <3> QED
      BY <2>3, <3>2, <1>3, <1>11
  <2> QED
    BY <2>2, <2>3
<1>20. Hull(hull1)'
  <2>1. Encloses(nodes, hull1)'
    BY <1>1, <1>9 DEF Encloses, PartSet
  <2>2. \A n \in Nodes' : nodes'[n].range \notin TakenApart' \cup {0} => hull1[n] \subseteq firstIn'[nodes'[n].range]..(nodes'[n].range)
    BY <1>1, <1>12, <1>14, <1>16, <1>17 DEF Span, Nodes
  <2>3. \A n \in Nodes' : \E i \in DOMAIN open' : hull1[n] \subseteq firstIn'[open'[i]]..open'[i]
    BY <1>1, <1>12, <1>14, <1>18 DEF Span, Nodes
  <2>4. \A i \in DOMAIN open' : hull1[astNodes'[open'[i]]] \subseteq firstIn'[open'[i]]..open'[i]
    BY <1>1, <1>14, <1>19 DEF Span
  <2> QED
    BY <2>1, <2>2, <2>3, <2>4 DEF Hull, Span
<1> QED
  BY <1>1, <1>9, <1>14, <1>15, <1>20 DEF NestInv
(* The chain of bodies: old nodes stay, new ones hold the children's.      *)
TernaryNests(h, k) ==
  /\ WellFounded(h)
  /\ \A m \in DOMAIN h \ Nodes : PartSet(h, m) \subseteq Heads(k) \cup (DOMAIN h \ Nodes)
LEMMA BodyNests ==
  ASSUME WalkInv, WellFounded(nodes), NEW k, Heads(k) \subseteq Nodes, NEW e, NEW i, NEW h, GrowsTernary(h, e, i),
         TernaryNests(h, k), NEW left \in Heads(k), NEW right \in Heads(k), NEW h1, BodyAdded(h, h1, left, right)
  PROVE  TernaryNests(h1, k)
<1> DEFINE made == Len(h) + 1
<1>1. /\ Nodes \subseteq DOMAIN h /\ new \in DOMAIN h /\ new \notin Nodes /\ made \notin Nodes
      /\ \A m \in Nodes : h[m] = nodes[m]
      /\ DOMAIN nodes = Nodes
  <2>1. nodes \in Seq(AnyNode) /\ h \in Seq(AnyNode) /\ Len(h) >= Len(nodes) + 1
    BY DEF GrowsTernary, WellBuilt, WalkInv, Walked, new
  <2> QED
    BY <2>1 DEF GrowsTernary, Kind, new, Nodes
<1>2. /\ DOMAIN h1 = DOMAIN h \cup {made} /\ made \notin DOMAIN h
      /\ \A m \in DOMAIN h \ {new} : h1[m] = h[m]
      /\ h1[new].parts \in Seq(Nat) /\ Len(h1[new].parts) = 3
      /\ h1[new].parts[1] = h[new].parts[1] /\ h1[new].parts[2] = h[new].parts[2] /\ h1[new].parts[3] = made
      /\ h1[made].parts \in Seq(Nat) /\ Len(h1[made].parts) = 3
      /\ h1[made].parts[1] = h[new].parts[3] /\ h1[made].parts[2] = left /\ h1[made].parts[3] = right
  BY DEF BodyAdded
<1>3. DOMAIN h[new].parts = 1..3
  <2>1. Fits(h, new) /\ h[new] \in AnyNode /\ h[new].kind = "ternary"
    BY <1>1 DEF GrowsTernary, WellBuilt, Kind
  <2>2. h[new].parts \in Seq(Nat) /\ Len(h[new].parts) = 3
    BY <2>1, Kinds DEF AnyNode, Fits, ExpressionFits
  <2> QED
    BY <2>2
<1>4. DOMAIN h1[new].parts = 1..3 /\ DOMAIN h1[made].parts = 1..3 /\ \A j \in 1..3 : j = 1 \/ j = 2 \/ j = 3
  BY <1>2
<1>5. \A j \in 1..3 : h[new].parts[j] \in PartSet(h, new)
  BY <1>3 DEF PartSet
<1> HIDE DEF made
<1>6. PartSet(h1, new) \subseteq PartSet(h, new) \cup {made}
  BY <1>2, <1>4, <1>5, SMTT(30) DEF PartSet
<1>7. PartSet(h1, made) \subseteq PartSet(h, new) \cup Heads(k)
  BY <1>2, <1>4, <1>5 DEF PartSet
<1>8. \A m \in DOMAIN h \ {new} : PartSet(h1, m) = PartSet(h, m)
  BY <1>2 DEF PartSet
<1>9. \A m \in Nodes : PartSet(h, m) \subseteq Nodes
  BY <1>1 DEF PartSet, WellFounded
<1>10. Hung(h, h1, new, made, Nodes)
  BY <1>1, <1>2, <1>6, <1>7, <1>8, <1>9 DEF Hung
<1>11. WellFounded(h1)
  BY <1>10, HungWellFounded DEF TernaryNests
<1>12. PartSet(h, new) \subseteq Heads(k) \cup (DOMAIN h \ Nodes)
  BY <1>1 DEF TernaryNests
<1>13. ASSUME NEW m \in DOMAIN h1 \ Nodes PROVE PartSet(h1, m) \subseteq Heads(k) \cup (DOMAIN h1 \ Nodes)
  <2>1. CASE m = new
    BY <2>1, <1>1, <1>2, <1>6, <1>12
  <2>2. CASE m = made
    BY <2>2, <1>1, <1>2, <1>7, <1>12
  <2>3. CASE m # new /\ m # made
    BY <2>3, <1>2, <1>8, <1>13 DEF TernaryNests
  <2> QED
    BY <2>1, <2>2, <2>3
<1> QED
  BY <1>11, <1>13 DEF TernaryNests

LEMMA NestTernary ==
  ASSUME WalkInv, NestInv, ExitTernaryExpression
  PROVE  NestInv'
<1>1. PICK n \in 1..source.chain :
        /\ Len(open) > 2 * n
        /\ areExpressions(Children(2 * n + 1))
        /\ Exit("ternary", Children(2 * n + 1), TernaryTree(NodesOf(Children(2 * n + 1))), new)
  BY DEF ExitTernaryExpression
<1> DEFINE k == 2 * n + 1
           e == NodesOf(Children(k))
           h == TernaryTree(e)
<1>2. n \in Nat /\ n >= 1 /\ k \in Nat /\ k <= Len(open) /\ k >= 3 /\ k = 2 * n + 1
  <2>1. Len(open) \in Nat
    BY DEF WalkInv, Walked
  <2> QED
    BY <1>1, <2>1
<1>3. e \in Seq(Nat) /\ Len(e) = k /\ \A i \in 1..k : e[i] \in Exprs(nodes) /\ e[i] \in Heads(k) /\ e[i] \in Nat
  <2>1. Children(k) \in Seq(Nat) /\ Len(Children(k)) = k /\ Len(e) = k
    BY <1>2, ChildrenFacts DEF WalkInv
  <2>2. \A i \in 1..k : rule(Children(k)[i]) \in Expressions
    BY <1>1, <2>1 DEF areExpressions
  <2>3. e \in Seq(Nat) /\ \A i \in 1..k : e[i] \in Exprs(nodes)
    BY <1>2, <2>2, ChildNodes
  <2>4. \A i \in 1..k : e[i] \in Heads(k)
    BY DEF Heads
  <2>5. \A i \in 1..k : e[i] \in Nat
    <3> HIDE DEF e
    <3> QED
      BY <2>1, <2>3
  <2> QED
    BY <2>1, <2>3, <2>4, <2>5
<1>4. WellBuilt(nodes) /\ Here \in Nat
  BY DEF WalkInv, Walked, Here
<1>5. Exit("ternary", Children(k), h, new)
  BY <1>1
<1> HIDE DEF e, k
<1>6. Heads(k) \subseteq Nodes /\ WellFounded(nodes)
  BY <1>2, HeadFacts DEF NestInv
<1>7. PICK g : h = g[n] /\ \A i \in 1..n : TernaryAt(e, g, i)
  BY <1>2, <1>3, TernaryEquation
<1> HIDE DEF h
<1> DEFINE S == {i \in 1..n : GrowsTernary(g[i], e, i) /\ TernaryNests(g[i], k)}
<1>8. 1 \in S
  <2> DEFINE q == SubSeq(e, 1, 3)
             h1 == Append(nodes, Object("ternary", q, Here))
  <2>1. 1 \in 1..n
    BY <1>2
  <2>2. g[1] = h1
    <3>1. TernaryAt(e, g, 1)
      BY <1>7, <2>1
    <3> QED
      BY <3>1 DEF TernaryAt
  <2>3. GrowsTernary(h1, e, 1)
    <3>1. \A i \in 1..3 : i \in 1..k
      BY <1>2
    <3> QED
      BY <3>1, <1>2, <1>3, <1>4, FirstBody
  <2>4. q \in Seq(Nat) /\ DOMAIN q = 1..3 /\ \A i \in 1..3 : q[i] = e[i] /\ i \in 1..k
    BY <1>2, <1>3
  <2> HIDE DEF q
  <2>5. HasOneMore(h1, "ternary", q, Here)
    BY <1>4, <2>4, Kinds, OneMore
  <2> HIDE DEF h1
  <2>6. /\ DOMAIN h1 = Nodes \cup {new} /\ new \notin Nodes /\ \A m \in Nodes : h1[m] = nodes[m]
        /\ h1[new].parts = q
    BY <2>5 DEF HasOneMore
  <2>7. PartSet(h1, new) \subseteq Heads(k)
    BY <1>3, <2>4, <2>6 DEF PartSet
  <2>8. WellFounded(h1)
    <3>1. Nodes \subseteq Nat /\ new \in Nat /\ DOMAIN nodes = Nodes
      BY <1>4 DEF WellBuilt, Nodes, new
    <3>2. \A m \in Nodes : PartSet(h1, m) = PartSet(nodes, m)
      BY <2>6 DEF PartSet
    <3>3. Added(nodes, h1)
      BY <3>1, <3>2, <2>6, <2>7, <1>6 DEF Added
    <3> QED
      BY <3>3, <1>6, AddedWellFounded
  <2>9. TernaryNests(h1, k)
    BY <2>6, <2>7, <2>8 DEF TernaryNests
  <2> QED
    BY <2>1, <2>2, <2>3, <2>9
<1>9. ASSUME NEW i \in 1..n, i \in S, i < n PROVE i + 1 \in S
  <2>1. i + 1 \in 1..n /\ i + 1 # 1 /\ (i + 1) - 1 = i /\ i \in Nat /\ i >= 1
    BY <1>2, <1>9
  <2>2. 2 * (i + 1) \in 1..k /\ 2 * (i + 1) + 1 \in 1..k
    BY <1>2, <1>9
  <2> DEFINE left == e[2 * (i + 1)]
             right == e[2 * (i + 1) + 1]
  <2>3. g[i + 1] = addBody(g[i], left, right)
    <3>1. TernaryAt(e, g, i + 1)
      BY <1>7, <2>1
    <3> QED
      BY <2>1, <3>1 DEF TernaryAt
  <2>4. /\ left \in Exprs(nodes) /\ left \in Heads(k) /\ left \in Nat
        /\ right \in Exprs(nodes) /\ right \in Heads(k) /\ right \in Nat
    BY <1>3, <2>2
  <2>5. GrowsTernary(g[i], e, i) /\ TernaryNests(g[i], k) /\ WellBuilt(g[i]) /\ new \in Kind(g[i], "ternary")
    BY <1>9 DEF GrowsTernary
  <2>6. BodyAdded(g[i], g[i + 1], left, right)
    BY <2>3, <2>4, <2>5, AddBodyFacts
  <2>7. GrowsTernary(g[i + 1], e, i + 1)
    BY <1>4, <2>1, <2>4, <2>5, <2>6, BodyGrows
  <2>8. TernaryNests(g[i + 1], k)
    BY <1>6, <2>4, <2>5, <2>6, BodyNests
  <2> QED
    BY <2>1, <2>7, <2>8
<1>10. GrowsTernary(h, e, n) /\ TernaryNests(h, k)
  <2> HIDE DEF S
  <2>1. \A i \in 1..n : i \in S
    BY <1>2, <1>8, <1>9, CountingUp
  <2>2. n \in S
    BY <1>2, <2>1
  <2> QED
    BY <2>2, <1>7 DEF S
<1>11. OnlyAdds(k, h, new)
  <2>1. Nodes \subseteq DOMAIN h /\ new \in DOMAIN h \ Nodes
    <3>1. nodes \in Seq(AnyNode) /\ h \in Seq(AnyNode) /\ Len(h) >= Len(nodes) + 1
      BY <1>4, <1>10 DEF GrowsTernary, WellBuilt, new
    <3> QED
      BY <3>1 DEF new, Nodes
  <2>2. /\ \A m \in Nodes : h[m] = nodes[m]
        /\ \A m \in DOMAIN h \ Nodes : h[m].range \in {0, Here}
    BY <1>10 DEF GrowsTernary
  <2> QED
    BY <2>1, <2>2, <1>10 DEF OnlyAdds, TernaryNests
<1>12. "ternary" \in Expressions \cup Statements /\ RuleFits("ternary", Children(k), h[new].kind)
  BY Kinds DEF RuleFits
<1> QED
  BY <1>2, <1>5, <1>11, <1>12, NestAdded
(* What was written in one operand; what an operator takes apart of it.    *)
InPart(k, hull, j) == {m \in Nodes : hull[m] \subseteq Span(Children(k)[j])}
BinaryPart(k, j) == kind(NodesOf(Children(k))[j]) = "binary"
Opened(h, i, k, hull) ==
  (DOMAIN h \ Nodes) \cup {m \in Nodes : \E j \in 2..i : BinaryPart(k, j) /\ m \in InPart(k, hull, j)}
Inside(h, k, hull) == (DOMAIN h \ Nodes) \cup {m \in Nodes : hull[m] \subseteq Whole(k)}
PartsApart(k, hull) ==
  /\ \A j \in 1..k : \A m \in InPart(k, hull, j) : PartSet(nodes, m) \subseteq InPart(k, hull, j)
  /\ \A j \in 1..k : \A m \in Nodes : \A x \in PartSet(nodes, m) : x \in InPart(k, hull, j) => m \in InPart(k, hull, j)
  /\ \A i, j \in 1..k : \A m \in Nodes : m \in InPart(k, hull, i) /\ m \in InPart(k, hull, j) => i = j
  /\ \A j \in 1..k : NodesOf(Children(k))[j] \in InPart(k, hull, j)
  /\ \A j \in 1..k : \A m \in InPart(k, hull, j) : hull[m] \subseteq Whole(k)
  /\ \A m \in Nodes : \A x \in PartSet(nodes, m) :
       x \in Nodes /\ (hull[m] \subseteq Whole(k) => hull[x] \subseteq Whole(k))
LEMMA PartsAreApart ==
  ASSUME WalkInv, NestInv, NEW hull, Hull(hull), NEW k \in Nat, k <= Len(open)
  PROVE  PartsApart(k, hull)
<1>1. Ordered /\ WellFounded(nodes) /\ DOMAIN nodes = Nodes
  BY DEF NestInv, Nodes
<1>2. /\ \A m \in Nodes : hull[m] # {} /\ PartSet(nodes, m) \subseteq Nodes
      /\ \A m \in Nodes : \A x \in PartSet(nodes, m) : hull[x] \subseteq hull[m]
  BY <1>1 DEF Hull, Encloses, WellFounded
<1>3. ASSUME NEW j \in 1..k
      PROVE  \E i \in DOMAIN open :
               i = Len(open) - k + j /\ Children(k)[j] = open[i] /\ Span(open[i]) \subseteq Whole(k)
  <2> DEFINE i == Len(open) - k + j
  <2>1. i \in DOMAIN open /\ i > Len(open) - k
    BY <1>1, OpenFacts
  <2>2. Children(k)[j] = open[i]
    BY ChildrenFacts DEF WalkInv
  <2>3. Span(open[i]) \subseteq Whole(k)
    <3> HIDE DEF i
    <3> QED
      BY <1>1, <2>1, WholeFacts
  <2> QED
    BY <2>1, <2>2, <2>3
<1>4. \A j \in 1..k : \A m \in InPart(k, hull, j) : PartSet(nodes, m) \subseteq InPart(k, hull, j)
  BY <1>2 DEF InPart
<1>5. ASSUME NEW j \in 1..k, NEW m \in Nodes, NEW x \in PartSet(nodes, m), x \in InPart(k, hull, j)
      PROVE  m \in InPart(k, hull, j)
  <2>1. PICK i \in DOMAIN open : Children(k)[j] = open[i]
    BY <1>3
  <2>2. PICK d \in DOMAIN open : hull[m] \subseteq Span(open[d])
    BY DEF Hull
  <2>3. hull[x] # {} /\ hull[x] \subseteq Span(open[i]) /\ hull[x] \subseteq Span(open[d])
    BY <1>2, <1>5, <2>1, <2>2 DEF InPart
  <2>4. i = d
    BY <1>1, <2>3, SpansApart
  <2> QED
    BY <2>1, <2>2, <2>4 DEF InPart
<1>6. ASSUME NEW i \in 1..k, NEW j \in 1..k, NEW m \in Nodes, m \in InPart(k, hull, i), m \in InPart(k, hull, j)
      PROVE  i = j
  <2>1. PICK a \in DOMAIN open : a = Len(open) - k + i /\ Children(k)[i] = open[a]
    BY <1>3
  <2>2. PICK b \in DOMAIN open : b = Len(open) - k + j /\ Children(k)[j] = open[b]
    BY <1>3
  <2>3. hull[m] # {} /\ hull[m] \subseteq Span(open[a]) /\ hull[m] \subseteq Span(open[b])
    BY <1>2, <1>6, <2>1, <2>2 DEF InPart
  <2>4. a = b
    BY <1>1, <2>3, SpansApart
  <2> QED
    BY <1>1, <2>1, <2>2, <2>4, OpenFacts
<1>7. \A j \in 1..k : NodesOf(Children(k))[j] \in InPart(k, hull, j)
  BY <1>1, HeadFacts, ChildNodes DEF InPart
<1>8. \A j \in 1..k : \A m \in InPart(k, hull, j) : hull[m] \subseteq Whole(k)
  BY <1>3 DEF InPart
<1>9. \A m \in Nodes : \A x \in PartSet(nodes, m) :
        x \in Nodes /\ (hull[m] \subseteq Whole(k) => hull[x] \subseteq Whole(k))
  BY <1>2
<1> QED
  BY <1>4, <1>5, <1>6, <1>7, <1>8, <1>9 DEF PartsApart

(* Up to i operators: what is not in an operand that was taken apart, is   *)
(* as it was; the right spine, along which the next one goes, is in those  *)
(* that may be.                                                            *)
BinaryNests(h, i, k, hull) ==
  /\ GrowsBinary(h) /\ WellFounded(h)
  /\ \A m \in Nodes \ Opened(h, i, k, hull) : h[m] = nodes[m]
  /\ \A m \in Inside(h, k, hull) : PartSet(h, m) \subseteq Inside(h, k, hull)
  /\ \A m \in Opened(h, i + 1, k, hull) \cap Kind(h, "binary") :
       isBinary(h, h[m].parts[2]) => h[m].parts[2] \in Opened(h, i + 1, k, hull)
LEMMA SecondPart ==
  ASSUME NEW h, WellBuilt(h)
  PROVE  \A m \in Kind(h, "binary") : h[m].parts[1] \in PartSet(h, m) /\ h[m].parts[2] \in PartSet(h, m)
                                      /\ DOMAIN h[m].parts = 1..2
<1> TAKE m \in Kind(h, "binary")
<1>1. m \in DOMAIN h /\ h[m].kind = "binary"
  BY DEF Kind
<1>2. Len(h[m].parts) = 2 /\ h[m] \in AnyNode
  BY <1>1, Kinds DEF WellBuilt, Fits, ExpressionFits
<1>3. h[m].parts \in Seq(Nat)
  BY <1>2 DEF AnyNode
<1>4. DOMAIN h[m].parts = 1..2
  BY <1>2, <1>3
<1> QED
  BY <1>4 DEF PartSet
LEMMA SpineStays ==
  ASSUME WalkInv, WellFounded(nodes), NEW k \in Nat, NEW hull, PartsApart(k, hull), NEW i \in Nat, i >= 1, i < k,
         NEW h, \A m \in Opened(h, i, k, hull) \cap Kind(h, "binary") :
                  isBinary(h, h[m].parts[2]) => h[m].parts[2] \in Opened(h, i + 1, k, hull),
         Nodes \subseteq DOMAIN h, WellBuilt(h),
         \A m \in Nodes \ Opened(h, i, k, hull) : h[m] = nodes[m]
  PROVE  \A m \in Opened(h, i + 1, k, hull) \cap Kind(h, "binary") :
           isBinary(h, h[m].parts[2]) => h[m].parts[2] \in Opened(h, i + 1, k, hull)
<1> SUFFICES ASSUME NEW m \in Opened(h, i + 1, k, hull) \cap Kind(h, "binary"), isBinary(h, h[m].parts[2])
    PROVE h[m].parts[2] \in Opened(h, i + 1, k, hull)
  OBVIOUS
<1>2. CASE m \in Opened(h, i, k, hull)
  BY <1>2
<1>3. CASE m \notin Opened(h, i, k, hull)
  <2>1. m \in Nodes /\ h[m] = nodes[m]
    BY <1>3 DEF Opened
  <2>2. PICK j \in 2..(i + 1) : BinaryPart(k, j) /\ m \in InPart(k, hull, j)
    BY <2>1 DEF Opened
  <2>3. j \in 1..k
    BY <2>2
  <2>4. h[m].parts[2] \in PartSet(nodes, m)
    <3>1. h[m].parts[2] \in PartSet(h, m)
      BY SecondPart
    <3> QED
      BY <2>1, <3>1 DEF PartSet
  <2>5. h[m].parts[2] \in InPart(k, hull, j) /\ h[m].parts[2] \in Nodes
    BY <2>2, <2>3, <2>4 DEF PartsApart, InPart
  <2> QED
    BY <2>2, <2>5 DEF Opened
<1> QED
  BY <1>2, <1>3
(* One operator: the node made holds the first two operands.               *)
LEMMA FirstNests ==
  ASSUME WalkInv, WellFounded(nodes), NEW k \in Nat, k >= 2, k <= Len(open), NEW hull, PartsApart(k, hull),
         NEW ops, NEW e, e = NodesOf(Children(k)), GrowsBinary(Append(nodes, FirstBinary(ops, e)))
  PROVE  BinaryNests(Append(nodes, FirstBinary(ops, e)), 1, k, hull)
<1> DEFINE x == FirstBinary(ops, e)
           h == Append(nodes, x)
<1>1. /\ nodes \in Seq(AnyNode) /\ Len(nodes) \in Nat /\ Nodes = 1..Len(nodes) /\ new = Len(nodes) + 1
      /\ DOMAIN nodes = Nodes /\ Nodes \subseteq Nat
  BY DEF WalkInv, Walked, WellBuilt, Nodes, new
<1>2. e \in Seq(Nat) /\ Len(e) = k
  BY ChildrenFacts, ChildNodes DEF WalkInv
<1>3. DOMAIN x.parts = 1..2 /\ x.parts[1] = e[1] /\ x.parts[2] = e[2]
  BY <1>2 DEF FirstBinary
<1> HIDE DEF x
<1>4. /\ DOMAIN h = Nodes \cup {new} /\ new \notin Nodes /\ h[new] = x /\ new \in Nat
      /\ \A m \in Nodes : h[m] = nodes[m]
  BY <1>1
<1>5. GrowsBinary(h) /\ WellBuilt(h)
  BY DEF x, GrowsBinary
<1> HIDE DEF h
<1>6. /\ 1 \in 1..k /\ 2 \in 1..k /\ e[1] \in InPart(k, hull, 1) /\ e[2] \in InPart(k, hull, 2)
      /\ e[1] \in Nodes /\ e[2] \in Nodes
  <2>1. 1 \in 1..k /\ 2 \in 1..k
    OBVIOUS
  <2> QED
    BY <2>1 DEF PartsApart, InPart
<1>7. PartSet(h, new) \subseteq {e[1], e[2]} /\ \A m \in Nodes : PartSet(h, m) = PartSet(nodes, m)
  <2>1. \A j \in 1..2 : j = 1 \/ j = 2
    OBVIOUS
  <2> QED
    BY <2>1, <1>3, <1>4 DEF PartSet
<1>8. WellFounded(h)
  <2>1. Added(nodes, h)
    BY <1>1, <1>4, <1>6, <1>7 DEF Added
  <2> QED
    BY <2>1, AddedWellFounded
<1>9. ASSUME NEW m \in Inside(h, k, hull) PROVE PartSet(h, m) \subseteq Inside(h, k, hull)
  <2>1. CASE m = new
    BY <2>1, <1>6, <1>7 DEF Inside, PartsApart
  <2>2. CASE m # new
    <3>1. m \in Nodes /\ hull[m] \subseteq Whole(k) /\ PartSet(h, m) = PartSet(nodes, m)
      BY <2>2, <1>4, <1>7 DEF Inside
    <3> QED
      BY <3>1 DEF Inside, PartsApart
  <2> QED
    BY <2>1, <2>2
<1>10. \A m \in Nodes \ Opened(h, 1, k, hull) : h[m] = nodes[m]
  BY <1>4
<1>11. ASSUME NEW m \in Opened(h, 1, k, hull) \cap Kind(h, "binary"), isBinary(h, h[m].parts[2])
       PROVE  h[m].parts[2] \in Opened(h, 1 + 1, k, hull)
  <2>1. m = new
    BY <1>4 DEF Opened
  <2>2. h[m].parts[2] = e[2]
    BY <2>1, <1>3, <1>4
  <2>3. nodes[e[2]].kind = "binary"
    BY <2>2, <1>4, <1>6, <1>11 DEF isBinary
  <2>4. BinaryPart(k, 2) /\ 2 \in 2..(1 + 1)
    BY <2>3 DEF BinaryPart, kind
  <2> QED
    BY <2>2, <2>4, <1>6 DEF Opened
<1>12. \A m \in Opened(h, 1 + 1, k, hull) \cap Kind(h, "binary") :
         isBinary(h, h[m].parts[2]) => h[m].parts[2] \in Opened(h, 1 + 1, k, hull)
  <2>1. 1 \in Nat /\ 1 >= 1 /\ 1 < k /\ Nodes \subseteq DOMAIN h
    BY <1>4
  <2> QED
    BY <2>1, <1>5, <1>10, <1>11, SpineStays
<1>13. BinaryNests(h, 1, k, hull)
  BY <1>5, <1>8, <1>9, <1>10, <1>12 DEF BinaryNests
<1> QED
  BY <1>13 DEF h, x
(* One operator more.                                                      *)
LEMMA AppendNests ==
  ASSUME WalkInv, WellFounded(nodes), NEW k \in Nat, NEW hull, PartsApart(k, hull),
         NEW i \in Nat, i >= 1, i + 2 <= k, NEW h, BinaryNests(h, i, k, hull), NEW o \in Priorities,
         NEW right, right = NodesOf(Children(k))[i + 2], right \in Nat,
         NEW h1, h1 = appendExpr(h, new, o, right), GrowsBinary(h1)
  PROVE  BinaryNests(h1, i + 1, k, hull)
<1> DEFINE t == appendsTo(h, new, o)
           made == Len(h) + 1
           Open == Opened(h, i + 1, k, hull)
           V == InPart(k, hull, i + 2)
<1>1. /\ h \in Seq(AnyNode) /\ WellBuilt(h) /\ Len(h) \in Nat /\ DOMAIN h = 1..Len(h) /\ Len(h) >= new
      /\ Nodes = 1..Len(nodes) /\ Len(nodes) \in Nat /\ new = Len(nodes) + 1 /\ DOMAIN nodes = Nodes
      /\ new \in Kind(h, "binary")
  BY DEF BinaryNests, GrowsBinary, WellBuilt, WalkInv, Walked, Nodes, new
<1>2. Nodes \subseteq DOMAIN h /\ new \in DOMAIN h \ Nodes /\ made \notin Nodes /\ made \notin DOMAIN h
  BY <1>1
<1>3. t \in Open \cap Kind(h, "binary")
  <2>1. new \in Open \cap Kind(h, "binary")
    BY <1>1, <1>2 DEF Opened
  <2>2. \A m \in Open \cap Kind(h, "binary") : isBinary(h, h[m].parts[2]) => h[m].parts[2] \in Open
    BY DEF BinaryNests
  <2> HIDE DEF Open
  <2> QED
    BY <1>1, <2>1, <2>2, SpineIn
<1>4. Appended(h, h1, t, right)
  BY <1>1, AppendExprFacts
<1> HIDE DEF t
<1>5. /\ t \in DOMAIN h /\ h[t].kind = "binary"
      /\ DOMAIN h1 = DOMAIN h \cup {made} /\ \A m \in DOMAIN h \ {t} : h1[m] = h[m]
      /\ h1[made].kind = "binary"
  BY <1>4 DEF Appended, Kind
<1>6. h[t].parts[1] \in PartSet(h, t) /\ h[t].parts[2] \in PartSet(h, t) /\ DOMAIN h[t].parts = 1..2
  BY <1>1, <1>3, SecondPart
<1>7. \A j \in 1..2 : j = 1 \/ j = 2
  OBVIOUS
<1>8. \/ h1[t].parts = <<made, right>> /\ h1[made].parts = h[t].parts
      \/ /\ h1[t].parts \in Seq(Nat) /\ Len(h1[t].parts) = 2
         /\ h1[t].parts[1] = h[t].parts[1] /\ h1[t].parts[2] = made
         /\ h1[made].parts = <<h[t].parts[2], right>>
  BY <1>4 DEF Appended
<1> HIDE DEF made
<1>9. /\ PartSet(h1, t) \subseteq PartSet(h, t) \cup {made, right}
      /\ PartSet(h1, made) \subseteq PartSet(h, t) \cup {right}
      /\ DOMAIN h1[t].parts = 1..2 /\ DOMAIN h1[made].parts = 1..2
  <2>1. CASE h1[t].parts = <<made, right>> /\ h1[made].parts = h[t].parts
    BY <2>1, <1>6, <1>7 DEF PartSet
  <2>2. CASE /\ h1[t].parts \in Seq(Nat) /\ Len(h1[t].parts) = 2
             /\ h1[t].parts[1] = h[t].parts[1] /\ h1[t].parts[2] = made
             /\ h1[made].parts = <<h[t].parts[2], right>>
    BY <2>2, <1>6, <1>7, SMTT(30) DEF PartSet
  <2> QED
    BY <1>8, <2>1, <2>2
<1>10. right \in V /\ right \in Nodes /\ V \subseteq Nodes /\ i + 2 \in 1..k
  <2>1. i + 2 \in 1..k
    OBVIOUS
  <2> QED
    BY <2>1 DEF PartsApart, InPart
<1>11. V \cap Open = {}
  <2> SUFFICES ASSUME NEW m \in V, m \in Open PROVE FALSE
    OBVIOUS
  <2>1. PICK j \in 2..(i + 1) : m \in InPart(k, hull, j)
    BY <1>10 DEF Opened
  <2>2. j \in 1..k /\ j # i + 2
    OBVIOUS
  <2> QED
    BY <1>10, <2>1, <2>2 DEF PartsApart
<1>12. \A j : j \in 2..i => j \in 2..(i + 1)
  OBVIOUS
<1>13. \A m \in Nodes \ Open : h[m] = nodes[m]
  <2>1. Opened(h, i, k, hull) \subseteq Open
    BY <1>12 DEF Opened
  <2> QED
    BY <2>1 DEF BinaryNests
<1>14. \A m \in V : PartSet(h, m) \subseteq V
  <2>1. \A m \in V : m \in Nodes \ Open
    BY <1>10, <1>11
  <2>2. \A m \in V : PartSet(h, m) = PartSet(nodes, m)
    BY <1>13, <2>1 DEF PartSet
  <2> QED
    BY <1>10, <2>2 DEF PartsApart
<1>15. \A m \in DOMAIN h \ {t} : PartSet(h1, m) = PartSet(h, m)
  BY <1>5 DEF PartSet
<1>16. WellFounded(h1)
  <2> HIDE DEF V, Open
  <2>1. t \in DOMAIN h \ V /\ V \subseteq DOMAIN h
    BY <1>2, <1>3, <1>5, <1>10, <1>11
  <2>2. PartSet(h1, t) \subseteq PartSet(h, t) \cup V \cup {made} /\ PartSet(h1, made) \subseteq PartSet(h, t) \cup V
    BY <1>9, <1>10
  <2>3. Hung(h, h1, t, made, V)
    BY <1>2, <1>5, <1>14, <1>15, <2>1, <2>2 DEF Hung
  <2> QED
    BY <2>3, HungWellFounded DEF BinaryNests
<1>17. Open \cup {made} \subseteq Opened(h1, i + 1, k, hull)
  BY <1>2, <1>5 DEF Opened
<1>18. \A m \in Nodes \ Opened(h1, i + 1, k, hull) : h1[m] = nodes[m]
  <2> HIDE DEF Open
  <2> QED
    BY <1>2, <1>3, <1>5, <1>13, <1>17
<1>19. ASSUME NEW m \in Inside(h1, k, hull) PROVE PartSet(h1, m) \subseteq Inside(h1, k, hull)
  <2>1. Inside(h1, k, hull) = Inside(h, k, hull) \cup {made}
    BY <1>2, <1>5 DEF Inside
  <2>2. \A x \in Inside(h, k, hull) : PartSet(h, x) \subseteq Inside(h, k, hull)
    BY DEF BinaryNests
  <2>3. t \in Inside(h, k, hull)
    <3>1. CASE t \in Nodes
      <4>1. PICK j \in 2..(i + 1) : t \in InPart(k, hull, j)
        BY <1>3, <3>1 DEF Opened
      <4>2. j \in 1..k
        OBVIOUS
      <4> QED
        BY <3>1, <4>1, <4>2 DEF PartsApart, Inside
    <3>2. CASE t \notin Nodes
      BY <3>2, <1>5 DEF Inside
    <3> QED
      BY <3>1, <3>2
  <2>4. right \in Inside(h, k, hull)
    BY <1>10 DEF PartsApart, Inside
  <2>5. CASE m = t
    BY <2>1, <2>2, <2>3, <2>4, <2>5, <1>9
  <2>6. CASE m = made
    BY <2>1, <2>2, <2>3, <2>4, <2>6, <1>9
  <2>7. CASE m # t /\ m # made
    <3>1. m \in Inside(h, k, hull) /\ m \in DOMAIN h
      BY <2>1, <2>7, <1>2, <1>19 DEF Inside
    <3> QED
      BY <2>1, <2>2, <2>7, <3>1, <1>15
  <2> QED
    BY <2>5, <2>6, <2>7
<1>20. \A m \in DOMAIN h : h1[m].kind = h[m].kind
  BY <1>4 DEF Appended, Kind
<1>21. Open \cup {made} \subseteq Opened(h1, (i + 1) + 1, k, hull)
  <2>1. \A j : j \in 2..(i + 1) => j \in 2..((i + 1) + 1)
    OBVIOUS
  <2> QED
    BY <2>1, <1>2, <1>5 DEF Opened
<1>22. isBinary(h1, right) => right \in Opened(h1, (i + 1) + 1, k, hull)
  <2> HAVE isBinary(h1, right)
  <2>1. nodes[right].kind = "binary"
    <3>1. h1[right].kind = nodes[right].kind
      BY <1>10 DEF GrowsBinary
    <3> QED
      BY <3>1 DEF isBinary
  <2>2. BinaryPart(k, i + 2) /\ i + 2 \in 2..((i + 1) + 1)
    BY <2>1 DEF BinaryPart, kind
  <2> QED
    BY <2>2, <1>10 DEF Opened
<1>23. isBinary(h1, h[t].parts[2]) => h[t].parts[2] \in Open
  <2>1. h[t].parts[2] \in DOMAIN h
    BY <1>6, <1>5 DEF BinaryNests, WellFounded
  <2>2. isBinary(h1, h[t].parts[2]) => isBinary(h, h[t].parts[2])
    BY <2>1, <1>20 DEF isBinary
  <2> QED
    BY <2>2, <1>3 DEF BinaryNests
<1>24. ASSUME NEW m \in Opened(h1, i + 1, k, hull) \cap Kind(h1, "binary"), isBinary(h1, h1[m].parts[2])
       PROVE  h1[m].parts[2] \in Opened(h1, (i + 1) + 1, k, hull)
  <2>0. Opened(h1, i + 1, k, hull) = Open \cup {made}
    BY <1>2, <1>5 DEF Opened
  <2> HIDE DEF Open
  <2>1. CASE m \in {t, made}
    <3>1. \/ h1[m].parts[2] = right \/ h1[m].parts[2] = made \/ h1[m].parts[2] = h[t].parts[2]
      BY <2>1, <1>6, <1>8
    <3> QED
      BY <3>1, <1>21, <1>22, <1>23, <1>24
  <2>2. CASE m \notin {t, made}
    <3>1. m \in Open /\ m \in DOMAIN h
      BY <2>0, <2>2, <1>2 DEF Open, Opened
    <3>2. h1[m] = h[m] /\ m \in Kind(h, "binary")
      BY <2>2, <3>1, <1>5 DEF Kind
    <3>3. h[m].parts[2] \in DOMAIN h
      BY <1>1, <3>2, RightParts
    <3>4. isBinary(h, h[m].parts[2])
      BY <3>2, <3>3, <1>20, <1>24 DEF isBinary
    <3>5. h[m].parts[2] \in Open
      BY <3>1, <3>2, <3>4 DEF BinaryNests, Open
    <3> QED
      BY <3>2, <3>5, <1>21
  <2> QED
    BY <2>1, <2>2
<1>25. \A m \in Opened(h1, (i + 1) + 1, k, hull) \cap Kind(h1, "binary") :
         isBinary(h1, h1[m].parts[2]) => h1[m].parts[2] \in Opened(h1, (i + 1) + 1, k, hull)
  <2>1. i + 1 \in Nat /\ i + 1 >= 1 /\ i + 1 < k /\ Nodes \subseteq DOMAIN h1 /\ WellBuilt(h1)
    BY <1>2, <1>5 DEF GrowsBinary
  <2> QED
    BY <2>1, <1>18, <1>24, SpineStays
<1> QED
  BY <1>16, <1>18, <1>19, <1>25 DEF BinaryNests
(* What was taken apart is open in the new tree: the hulls of those nodes. *)
LEMMA BinaryHulls ==
  ASSUME WalkInv, NestInv, NEW hull, Hull(hull), NEW n \in Nat, n >= 1, NEW k, k = n + 1, k <= Len(open),
         PartsApart(k, hull), NEW h, BinaryNests(h, n, k, hull),
         \A i \in 2..n : isRight(Children(k)[i], FALSE),
         Exit("binary", Children(k), h, new)
  PROVE  NestInv'
<1>1. k \in Nat /\ "binary" \in Expressions \cup Statements /\ RuleFits("binary", Children(k), h[new].kind)
  BY Kinds DEF RuleFits
<1>2. Ordered /\ RulesFit /\ WellFounded(nodes) /\ DOMAIN nodes = Nodes
  BY DEF NestInv, Nodes
<1>3. Exited("binary", k, h, new)
  BY <1>1, ExitFacts
<1> DEFINE Open == Opened(h, n, k, hull)
<1>4. /\ WellFounded(h) /\ Nodes \subseteq DOMAIN h /\ new \in DOMAIN h \ Nodes
      /\ \A m \in Nodes : h[m].kind = nodes[m].kind /\ h[m].range = nodes[m].range
      /\ h[new].range = Here
      /\ \A m \in DOMAIN h \ (Nodes \cup {new}) : h[m].range = 0
      /\ \A m \in Nodes \ Open : h[m] = nodes[m]
  <2>1. /\ nodes \in Seq(AnyNode) /\ h \in Seq(AnyNode) /\ Len(h) >= new
    BY DEF BinaryNests, GrowsBinary, WellBuilt, WalkInv, Walked
  <2>2. Nodes \subseteq DOMAIN h /\ new \in DOMAIN h \ Nodes
    BY <2>1 DEF new, Nodes
  <2> QED
    BY <2>2 DEF BinaryNests, GrowsBinary
<1>5. DOMAIN h \ Nodes \subseteq Open
  BY DEF Opened
<1>6. ASSUME NEW m \in Open \cap Nodes
      PROVE  \E j \in 2..n : j \in 1..k /\ BinaryPart(k, j) /\ m \in InPart(k, hull, j)
  BY <1>6 DEF Opened
<1>7. \A m \in Open \cap Nodes : hull[m] \subseteq Whole(k)
  BY <1>6 DEF PartsApart
<1> HIDE DEF Open
<1> DEFINE hull1 == [m \in DOMAIN h |-> IF m \in Open THEN Whole(k) ELSE hull[m]]
<1>8. /\ \A m \in DOMAIN h : m \in Open => hull1[m] = Whole(k)
      /\ \A m \in DOMAIN h : m \notin Open => hull1[m] = hull[m] /\ m \in Nodes /\ h[m] = nodes[m]
  BY <1>4, <1>5
<1> HIDE DEF hull1
<1>9. Here \in Whole(k) /\ Whole(k) \in SUBSET Nat
  BY <1>1, <1>2, WholeFacts
<1>10. ASSUME NEW m \in DOMAIN h
       PROVE  hull1[m] \in SUBSET Nat /\ hull1[m] # {} /\ h[m].range \in hull1[m] \cup {0}
  <2>1. CASE m \notin Open
    BY <2>1, <1>2, <1>8 DEF Hull, Encloses
  <2>2. CASE m \in Open /\ m \notin Nodes
    BY <2>2, <1>4, <1>8, <1>9
  <2>3. CASE m \in Open /\ m \in Nodes
    <3>1. nodes[m].range \in hull[m] \cup {0}
      BY <2>3, <1>2 DEF Hull, Encloses
    <3> QED
      BY <2>3, <3>1, <1>4, <1>7, <1>8, <1>9
  <2> QED
    BY <2>1, <2>2, <2>3
<1>11. ASSUME NEW m \in DOMAIN h, NEW x \in PartSet(h, m) PROVE hull1[x] \subseteq hull1[m]
  <2>1. x \in DOMAIN h
    BY <1>4 DEF WellFounded
  <2>2. CASE m \in Open
    <3>1. m \in Inside(h, k, hull)
      BY <2>2, <1>4, <1>7 DEF Inside
    <3>2. x \in Inside(h, k, hull)
      BY <3>1 DEF BinaryNests
    <3>3. hull1[x] = Whole(k) \/ (x \in Nodes /\ hull1[x] = hull[x])
      BY <2>1, <1>8
    <3>4. hull1[x] \subseteq Whole(k)
      <4>1. CASE x \in Open
        BY <2>1, <4>1, <1>8
      <4>2. CASE x \notin Open
        BY <2>1, <3>2, <4>2, <1>8 DEF Inside
      <4> QED
        BY <4>1, <4>2
    <3> QED
      BY <2>2, <3>4, <1>8
  <2>3. CASE m \notin Open
    <3>1. m \in Nodes /\ h[m] = nodes[m] /\ x \in PartSet(nodes, m)
      BY <2>3, <1>8 DEF PartSet
    <3>2. hull[x] \subseteq hull[m] /\ x \in Nodes
      BY <3>1, <1>2 DEF Hull, Encloses, WellFounded
    <3>3. x \notin Open
      <4> SUFFICES ASSUME x \in Open PROVE FALSE
        OBVIOUS
      <4>1. PICK j \in 2..n : j \in 1..k /\ BinaryPart(k, j) /\ x \in InPart(k, hull, j)
        BY <3>2, <1>6
      <4>2. m \in InPart(k, hull, j)
        BY <3>1, <4>1 DEF PartsApart
      <4> QED
        BY <2>3, <3>1, <4>1, <4>2 DEF Open, Opened
    <3> QED
      BY <2>1, <2>3, <3>2, <3>3, <1>8
  <2> QED
    BY <2>2, <2>3
<1>12. Encloses(h, hull1)
  BY <1>10, <1>11 DEF Encloses
<1>13. Rehulled(k, h, new, hull, hull1)
  <2>1. ASSUME NEW m \in Nodes PROVE hull1[m] = hull[m] \/ (hull[m] \subseteq Whole(k) /\ hull1[m] \subseteq Whole(k))
    BY <1>4, <1>7, <1>8
  <2>2. \A m \in DOMAIN h \ Nodes : hull1[m] \subseteq Whole(k)
    BY <1>5, <1>8
  <2> QED
    BY <1>4, <1>12, <2>1, <2>2 DEF Rehulled
<1>14. ASSUME NEW m \in Open \cap Nodes PROVE h[m].range \in TakenApart' \cup {0}
  <2>1. PICK j \in 2..n : j \in 1..k /\ BinaryPart(k, j) /\ m \in InPart(k, hull, j)
    BY <1>6
  <2> DEFINE c == Children(k)[j]
  <2>2. c \in DOMAIN contexts /\ NodesOf(Children(k))[j] = astNodes[c]
    BY <2>1, <1>1, ChildrenFacts DEF WalkInv
  <2>3. rule(c) \in {"identifier", "parentheses"} \/ signs(c)
    BY DEF isRight
  <2>4. node(c).kind = "binary"
    BY <2>1, <2>2 DEF BinaryPart, kind, node
  <2>5. rule(c) = "parentheses"
    <3>1. rule(c) \in {"identifier", "prefix"} => node(c).kind = rule(c)
      BY <2>2, <1>2 DEF RulesFit, RuleFits, kind, node
    <3> QED
      BY <2>3, <2>4, <3>1 DEF signs
  <2>6. Span(c) \subseteq TakenApart'
    <3>1. j \in 2..(k - 1)
      OBVIOUS
    <3>2. \A m1 \in Nodes : h[m1].kind = nodes[m1].kind
      BY <1>4
    <3> QED
      BY <2>4, <2>5, <3>1, <3>2, <1>1, <1>2, <1>3, TakenApartStays
  <2>7. nodes[m].range \in hull[m] \cup {0} /\ hull[m] \subseteq Span(c)
    BY <2>1, <1>2 DEF Hull, Encloses, InPart
  <2> QED
    BY <2>6, <2>7, <1>4
<1>15. RangesRight(k, h, hull, hull1)
  <2> SUFFICES ASSUME NEW m \in DOMAIN h
      PROVE \/ h[m].range \in TakenApart' \cup {0}
            \/ h[m].range = Here /\ hull1[m] \subseteq Whole(k)
            \/ m \in Nodes /\ h[m].range = nodes[m].range /\ hull1[m] = hull[m]
    BY DEF RangesRight
  <2>1. CASE m \notin Open
    BY <2>1, <1>8
  <2>2. CASE m \in Open /\ m \in Nodes
    BY <2>2, <1>14
  <2>3. CASE m \notin Nodes
    BY <2>3, <1>4, <1>5, <1>8
  <2> QED
    BY <2>1, <2>2, <2>3
<1> QED
  BY <1>1, <1>2, <1>13, <1>15, NestKept
(* The whole chain, from one operator to all.                              *)
LEMMA NestBinary ==
  ASSUME WalkInv, NestInv, ExitBinaryExpression
  PROVE  NestInv'
<1>1. PICK n \in 1..source.chain :
        /\ Len(open) > n
        /\ rule(Children(n + 1)[1]) \in Operands \ {"prefix"}
        /\ \A i \in 2..(n + 1) : isRight(Children(n + 1)[i], i = n + 1)
        /\ \E ops \in [1..n -> Priorities] :
             Exit("binary", Children(n + 1), BinaryTree(ops, NodesOf(Children(n + 1))), new)
  BY DEF ExitBinaryExpression
<1>2. PICK ops \in [1..n -> Priorities] :
        Exit("binary", Children(n + 1), BinaryTree(ops, NodesOf(Children(n + 1))), new)
  BY <1>1
<1> DEFINE k == n + 1
           e == NodesOf(Children(k))
           h == BinaryTree(ops, e)
<1>3. n \in Nat /\ n >= 1 /\ k \in Nat /\ k <= Len(open) /\ k = n + 1 /\ k >= 2
  <2>1. Len(open) \in Nat
    BY DEF WalkInv, Walked
  <2> QED
    BY <1>1, <2>1
<1>4. \A i \in 1..k : rule(Children(k)[i]) \in Expressions
  <2>1. \A i \in 1..k : i = 1 \/ i \in 2..k
    BY <1>3
  <2>2. rule(Children(k)[1]) \in Expressions
    BY <1>1, Kinds DEF Operands
  <2>3. \A i \in 2..k : rule(Children(k)[i]) \in Expressions
    BY <1>1, Kinds DEF isRight, signs
  <2> QED
    BY <2>1, <2>2, <2>3
<1>5. e \in Seq(Nat) /\ Len(e) = k /\ \A i \in 1..k : e[i] \in Exprs(nodes)
  <2>1. Len(e) = k
    BY <1>3, ChildrenFacts DEF WalkInv
  <2>2. e \in Seq(Nat) /\ \A i \in 1..k : e[i] \in Exprs(nodes)
    BY <1>3, <1>4, ChildNodes
  <2> QED
    BY <2>1, <2>2
<1>6. Len(ops) = n /\ \A i \in 1..n : ops[i] \in Priorities
  <2>1. ops = [i \in 1..n |-> ops[i]]
    OBVIOUS
  <2>2. ops \in Seq(Priorities)
    BY <1>3, <2>1
  <2> QED
    BY <1>3, <2>2
<1>7. WellBuilt(nodes) /\ Here \in Nat /\ WellFounded(nodes)
  BY DEF WalkInv, Walked, Here, NestInv
<1>8. Exit("binary", Children(k), h, new) /\ e = NodesOf(Children(k))
  BY <1>2
<1>9. \A i \in 2..n : isRight(Children(k)[i], FALSE)
  <2> TAKE i \in 2..n
  <2>1. i \in 2..(n + 1) /\ i # n + 1
    BY <1>3
  <2>2. isRight(Children(n + 1)[i], i = n + 1)
    BY <1>1, <2>1
  <2> QED
    BY <2>1, <2>2 DEF isRight
<1> HIDE DEF k, e
<1>10. PICK g : h = g[n] /\ \A i \in 1..n : BinaryAt(ops, e, g, i)
  BY <1>3, <1>6, BinaryEquation
<1> HIDE DEF h
<1>11. PICK hull : Hull(hull)
  BY DEF NestInv
<1>12. PartsApart(k, hull)
  BY <1>3, <1>11, PartsAreApart
<1> DEFINE S == {i \in 1..n : BinaryNests(g[i], i, k, hull)}
<1>13. 1 \in S
  <2>1. g[1] = Append(nodes, FirstBinary(ops, e)) /\ 1 \in 1..n
    <3>1. 1 \in 1..n
      BY <1>3
    <3>2. BinaryAt(ops, e, g, 1)
      BY <1>10, <3>1
    <3> QED
      BY <3>1, <3>2 DEF BinaryAt
  <2>2. 1 \in 1..k /\ 2 \in 1..k
    BY <1>3
  <2>3. GrowsBinary(Append(nodes, FirstBinary(ops, e)))
    BY <2>1, <2>2, <1>3, <1>5, <1>6, <1>7, FirstGrows
  <2>4. BinaryNests(g[1], 1, k, hull)
    BY <2>1, <2>3, <1>3, <1>7, <1>8, <1>12, FirstNests
  <2> QED
    BY <2>1, <2>4
<1>14. ASSUME NEW i \in 1..n, i \in S, i < n PROVE i + 1 \in S
  <2>1. /\ i + 1 \in 1..n /\ i + 1 # 1 /\ (i + 1) - 1 = i /\ i + 2 \in 1..k /\ (i + 1) + 1 = i + 2
        /\ i \in Nat /\ i >= 1 /\ i + 2 <= k
    BY <1>3, <1>14
  <2> DEFINE right == e[i + 2]
  <2>2. g[i + 1] = appendExpr(g[i], new, ops[i + 1], right)
    <3>1. BinaryAt(ops, e, g, i + 1)
      BY <1>10, <2>1
    <3> QED
      BY <2>1, <3>1 DEF BinaryAt
  <2>3. right \in Exprs(nodes) /\ right \in Nat /\ right = NodesOf(Children(k))[i + 2]
    <3>1. right \in Exprs(nodes)
      BY <1>5, <2>1
    <3>2. Exprs(nodes) \subseteq Nat
      BY <1>7 DEF Exprs, WellBuilt
    <3> QED
      BY <3>1, <3>2, <1>8
  <2> HIDE DEF right
  <2>4. /\ BinaryNests(g[i], i, k, hull) /\ GrowsBinary(g[i]) /\ WellBuilt(g[i]) /\ new \in Kind(g[i], "binary")
        /\ ops[i + 1] \in Priorities
    BY <1>6, <1>14, <2>1 DEF BinaryNests, GrowsBinary
  <2>5. PICK t : Appended(g[i], g[i + 1], t, right)
    <3>1. Appended(g[i], g[i + 1], appendsTo(g[i], new, ops[i + 1]), right)
      BY <2>2, <2>3, <2>4, AppendExprFacts
    <3> QED
      BY <3>1
  <2>6. GrowsBinary(g[i + 1])
    BY <1>7, <2>3, <2>4, <2>5, AppendGrows
  <2>7. BinaryNests(g[i + 1], i + 1, k, hull)
    BY <1>3, <1>7, <1>12, <2>1, <2>2, <2>3, <2>4, <2>6, AppendNests
  <2> QED
    BY <2>1, <2>7
<1>15. BinaryNests(h, n, k, hull)
  <2> HIDE DEF S
  <2>1. \A i \in 1..n : i \in S
    BY <1>3, <1>13, <1>14, CountingUp
  <2>2. n \in S
    BY <1>3, <2>1
  <2> QED
    BY <2>2, <1>10 DEF S
<1> QED
  BY <1>3, <1>8, <1>9, <1>11, <1>12, <1>15, BinaryHulls

-----------------------------------------------------------------------------
LEMMA NestInit == Init => NestInv
<1> SUFFICES ASSUME Init PROVE NestInv
  OBVIOUS
<1>1. nodes = <<>> /\ open = <<>> /\ contexts = <<>>
  BY DEF Init
<1>2. DOMAIN nodes = {} /\ DOMAIN open = {} /\ DOMAIN contexts = {}
  BY <1>1
<1>3. Ordered /\ RulesFit
  BY <1>2 DEF Ordered, Backward, RulesFit
<1>4. WellFounded(nodes)
  BY <1>2 DEF WellFounded
<1>5. Hull(<<>>)
  BY <1>2 DEF Hull, Encloses, Nodes
<1> QED
  BY <1>3, <1>4, <1>5 DEF NestInv

LEMMA NestStays ==
  ASSUME NestInv, UNCHANGED parsed
  PROVE  NestInv'
<1>1. /\ contexts' = contexts /\ nodes' = nodes /\ astNodes' = astNodes /\ open' = open
  BY DEF parsed
<1>2. Ordered' /\ firstIn' = firstIn
  BY <1>1 DEF NestInv, Ordered, firstIn
<1>3. RulesFit' /\ WellFounded(nodes)'
  <2>1. RulesFit'
    BY <1>1 DEF NestInv, RulesFit, RuleFits, rule, kind
  <2>2. WellFounded(nodes)'
    BY <1>1 DEF NestInv
  <2> QED
    BY <2>1, <2>2
<1>4. TakenApart' = TakenApart
  BY <1>1, <1>2 DEF TakenApart, Span, rule, node
<1>5. PICK hull : Hull(hull)
  BY DEF NestInv
<1>6. Hull(hull)'
  BY <1>1, <1>2, <1>4, <1>5 DEF Hull, Encloses, PartSet, Span, Nodes
<1> QED
  BY <1>2, <1>3, <1>6 DEF NestInv

LEMMA NestStep ==
  ASSUME WalkInv, OnceInv, NestInv, [Next]_vars
  PROVE  NestInv'
<1>1. CASE UNCHANGED parsed
  BY <1>1, NestStays
<1>2. CASE Walk
  <2>1. CASE ExitWalang
    BY <2>1, <1>1 DEF ExitWalang
  <2>2. CASE \/ ExitIdentifier \/ ExitPrefixExpression
             \/ ExitExpressionOrDeclareOrReturn \/ ExitAssignStatement \/ ExitBreakStatement
             \/ ExitBlockStatement \/ ExitWhileStatement \/ ExitFunctionStatement \/ ExitClassStatement
    <3>1. PICK k, r, range : PlainStep(k, r, range)
      BY <2>2, PlainSteps
    <3> QED
      BY <3>1, NestPlain
  <2> QED
    BY <2>1, <2>2, <1>2, NestParentheses, NestBinary, NestTernary, NestLinks, NestIf, NestPlaces DEF Walk
<1>3. CASE Compile
  BY <1>3, <1>1 DEF Compile, PrepareFails, PrepareRecursive, Prepared, Enter, Refused, UnknownName, Catch, Report, Fail
<1>4. CASE UNCHANGED vars
  BY <1>4, <1>1 DEF vars
<1> QED
  BY <1>2, <1>3, <1>4 DEF Next

(* What is below a node is in its hull, and that in its range.             *)
LEMMA HullsHoldRanges ==
  ASSUME WalkInv, NestInv
  PROVE  RangesNest
<1>1. PICK hull : Hull(hull)
  BY DEF NestInv
<1>2. \A n \in Nodes : rangesIn[n] \subseteq hull[n]
  BY <1>1, RangesWithin DEF WalkInv, Walked, NestInv, Hull
<1> QED
  BY <1>1, <1>2 DEF Hull, RangesNest

(* The tree below a node was written inside the range of the node, in      *)
(* every file, with chains of any length in chains of any depth: whatever  *)
(* the constructors and the parentheses did to it, a message of the node   *)
(* is not about text elsewhere; only the ranges of parentheses that        *)
(* appendExpr took apart are excepted (parser.cpp, binary_expression.cpp,  *)
(* ternary_expression.cpp, call_expression.cpp).                           *)
THEOREM RangesAreNested == Spec => []RangesNest
<1>1. Init => OnceInv /\ NestInv
  BY OnceInit, NestInit
<1>2. WalkInv /\ OnceInv /\ NestInv /\ [Next]_vars => OnceInv' /\ NestInv'
  BY OnceStep, NestStep
<1>3. WalkInv /\ NestInv => RangesNest
  BY HullsHoldRanges
<1>4. IInv => WalkInv
  BY DEF IInv
<1> QED
  BY <1>1, <1>2, <1>3, <1>4, IInvHolds, PTL DEF Spec
=============================================================================

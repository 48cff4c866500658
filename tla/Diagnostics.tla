---------------------------- MODULE Diagnostics ----------------------------
(***************************************************************************)
(* Where an error message points.  The listener (src/parser.cpp) gives the *)
(* nodes of the syntax tree their ranges while the parse tree is walked;   *)
(* the constructors of the chains (binary_expression.cpp,                  *)
(* ternary_expression.cpp, call_expression.cpp, member_expression.cpp)     *)
(* make nodes of their own on the way.  An error of the compiler takes its *)
(* range, and with it its text, from the catch clauses it passes           *)
(* (compileStatement, compileExpression, helper/diagnose.hpp).             *)
(*                                                                         *)
(* A range is the context it was taken from, by its place in the walk; 0   *)
(* is the default Range, "unknown file:0:1 - 0:1".  An `expression` or     *)
(* `statement` context spans the text of its only child and is identified  *)
(* with it.                                                                *)
(***************************************************************************)
EXTENDS Integers, SequencesExt

CONSTANT
  Sources  (* what the files are made of: some rules of the grammar, and    *)
           (* bounds for the contexts in a file and for the operators,      *)
           (* ternary bodies or links in a chain                            *)

VARIABLES
  source,
  contexts,  (* the parse tree, in the order the walker exits it            *)
  nodes,     (* the syntax tree nodes                                       *)
  astNodes,  (* astNodes_: the node of a context                            *)
  open,      (* the contexts walked whose parent is not                     *)
  frames,    (* the nodes whose compileStatement or compileExpression runs  *)
  phase,
  error
parsed == <<source, contexts, nodes, astNodes, open>>
vars == <<parsed, frames, phase, error>>

Operands == {"identifier", "prefix", "parentheses", "call", "member"}
Expressions == Operands \cup {"binary", "ternary"}
Statements ==
  {"expressionStatement", "declare", "assign", "return", "break", "block", "if", "while",
   "function", "class"}
ASSUME SourcesAssumption ==
  Sources \subseteq [rules: SUBSET (Expressions \cup Statements), contexts: Nat, chain: Nat \ {0}]

rule(c) == contexts[c].rule
node(c) == nodes[astNodes[c]]
Here == Len(contexts) + 1
new == Len(nodes) + 1
Nodes == DOMAIN nodes
(* exitStatement came by: the node's range is that of the statement.       *)
isStatement(c) == rule(c) \in Statements /\ node(c).range = c

Priorities == 1..2     (* two levels of operators tell all that matters    *)
AnyNode == [kind: Expressions \cup Statements, op: Priorities \cup {0}, parts: Seq(Nat), range: Nat]
Object(kind, parts, range) == [kind |-> kind, op |-> 0, parts |-> parts, range |-> range]
(* f, applied that often.                                                  *)
Iterate(f, x, times) == LET at[k \in 0..times] == IF k = 0 THEN x ELSE f[at[k - 1]] IN at[times]
NoError == [culprit |-> 0, message |-> FALSE, range |-> 0]

-----------------------------------------------------------------------------
(* The walk.                                                               *)

(* One exit: "parts" are the children, the youngest of the open contexts.  *)
Exit(r, parts, heap, ast) ==
  /\ phase = "parsing" /\ r \in source.rules /\ Len(contexts) < source.contexts
  /\ contexts' = Append(contexts, [rule |-> r, parts |-> parts])
  /\ nodes' = heap
  /\ astNodes' = Append(astNodes, ast)
  /\ open' = Append(SubSeq(open, 1, Len(open) - Len(parts)), Here)
  /\ UNCHANGED <<source, frames, phase, error>>

Children(k) == SubSeq(open, Len(open) - k + 1, Len(open))
NodesOf(parts) == [i \in DOMAIN parts |-> astNodes[parts[i]]]
areExpressions(parts) == \A i \in DOMAIN parts : rule(parts[i]) \in Expressions

ExitIdentifier ==
  Exit("identifier", <<>>, Append(nodes, Object("identifier", <<>>, Here)), new)

ExitPrefixExpression ==
  /\ open # <<>> /\ areExpressions(Children(1))
  /\ Exit("prefix", Children(1), Append(nodes, Object("prefix", NodesOf(Children(1)), Here)), new)

(* Parentheses leave no node: the node inside gets their range.            *)
ExitParenthesesExpression ==
  /\ open # <<>> /\ areExpressions(Children(1))
  /\ LET inner == NodesOf(Children(1))[1]
     IN  Exit("parentheses", Children(1), [nodes EXCEPT ![inner].range = Here], inner)

isBinary(heap, n) == heap[n].kind = "binary"

(* The object whose appendExpr does the work, from "this" down the right   *)
(* spine.                                                                  *)
appendsToLeft(heap, this, op) ==                                    \* mutant
  Iterate([n \in DOMAIN heap |->
             IF heap[n].op <= op \/ ~isBinary(heap, heap[n].parts[1]) THEN n ELSE heap[n].parts[1]],
          this, Len(heap))
appendsTo(heap, this, op) ==
  Iterate([n \in DOMAIN heap |->
             IF heap[n].op <= op \/ ~isBinary(heap, heap[n].parts[2]) THEN n ELSE heap[n].parts[2]],
          this, Len(heap))
appendExprInPlace(heap, this, op, rightExpr) ==                     \* mutant
  [heap EXCEPT ![appendsTo(heap, this, op)].op = op, ![appendsTo(heap, this, op)].parts[2] = rightExpr]
appendExpr(heap, this, op, rightExpr) ==
  LET t == appendsTo(heap, this, op)
      made == Len(heap) + 1
  IN  IF heap[t].op <= op
      THEN Append([heap EXCEPT ![t].op = op, ![t].parts = <<made, rightExpr>>],
                  [heap[t] EXCEPT !.range = 0])
      ELSE Append([heap EXCEPT ![t].parts[2] = made],
                  [heap[t] EXCEPT !.op = op, !.parts = <<heap[t].parts[2], rightExpr>>, !.range = 0])

BinaryTree(ops, exprs) ==
  LET first == [kind |-> "binary", op |-> ops[1], parts |-> SubSeq(exprs, 1, 2), range |-> Here]
      heap[i \in 1..Len(ops)] ==
        IF i = 1 THEN Append(nodes, first) ELSE appendExpr(heap[i - 1], new, ops[i], exprs[i + 1])
  IN  heap[Len(ops)]

(* The grammar is ambiguous and ANTLR takes the first alternative that     *)
(* fits: a sign takes all that follows it, so it is no first operand; a    *)
(* call or member on the right takes the operators that follow it into a   *)
(* binaryExpression of its own.                                            *)
beginsWithLink(c) == rule(contexts[c].parts[1]) \in {"call", "member"}
signs(c) == rule(c) = "prefix" /\ rule(contexts[c].parts[1]) \in Operands \ {"prefix"}
isRight(c, last) ==
  \/ rule(c) \in {"identifier", "parentheses"}
  \/ signs(c)
  \/ last /\ rule(c) \in {"call", "member"}
  \/ last /\ rule(c) = "binary" /\ beginsWithLink(c)

ExitBinaryExpression ==
  \E n \in 1..source.chain :
    LET parts == Children(n + 1)
    IN  /\ Len(open) > n
        /\ rule(parts[1]) \in Operands \ {"prefix"}
        /\ \A i \in 2..(n + 1) : isRight(parts[i], i = n + 1)
        /\ \E ops \in [1..n -> Priorities] :
             Exit("binary", parts, BinaryTree(ops, NodesOf(parts)), new)

(* Each further body wraps what is the root's third part by then.          *)
addBodyFlat(heap, left, right) ==                                   \* mutant
  Append([heap EXCEPT ![new].parts[3] = Len(heap) + 1],
         Object("ternary", <<heap[new].parts[1], left, right>>, 0))
addBody(heap, left, right) ==
  Append([heap EXCEPT ![new].parts[3] = Len(heap) + 1],
         Object("ternary", <<heap[new].parts[3], left, right>>, 0))
TernaryTree(exprs) ==
  LET bodies == Len(exprs) \div 2
      heap[i \in 1..bodies] ==
        IF i = 1 THEN Append(nodes, Object("ternary", SubSeq(exprs, 1, 3), Here))
        ELSE addBody(heap[i - 1], exprs[2 * i], exprs[2 * i + 1])
  IN  heap[bodies]

(* As above: only a condition that is a call or a member makes the third   *)
(* part a ternaryExpression, every other one continues the chain.          *)
isElse(c, last) ==
  \/ rule(c) \in Expressions \ {"prefix", "ternary"}
  \/ signs(c)
  \/ last /\ rule(c) = "ternary" /\ beginsWithLink(c)

ExitTernaryExpression ==
  \E n \in 1..source.chain :
    LET parts == Children(2 * n + 1)
    IN  /\ Len(open) > 2 * n
        /\ areExpressions(parts)
        /\ rule(parts[1]) \notin {"prefix", "ternary"}
        /\ \A i \in 1..n : isElse(parts[2 * i + 1], i = n)
        /\ Exit("ternary", parts, TernaryTree(NodesOf(parts)), new)

(* callOrMemberExpressionRight* and the last link: one node each, the last *)
(* one the context's.  A call has one argument or none.                    *)
Links == {"member", "call", "callWith"}
arguments(links, i) == Cardinality({j \in 1..i : links[j] = "callWith"})
LinkNodes(links, exprs) ==
  [i \in DOMAIN links |->
     Object(IF links[i] = "member" THEN "member" ELSE "call",
            <<IF i = 1 THEN exprs[1] ELSE new + i - 2>>
              \o (IF links[i] = "callWith" THEN <<exprs[1 + arguments(links, i)]>> ELSE <<>>),
            IF i = Len(links) THEN Here ELSE 0)]

ExitCallOrMemberExpression ==
  \E n \in 1..source.chain : \E links \in [1..n -> Links] :
    LET parts == Children(1 + arguments(links, n))
        made == LinkNodes(links, NodesOf(parts))
    IN  /\ Len(open) > arguments(links, n)
        /\ areExpressions(parts)
        /\ rule(parts[1]) \in {"identifier", "parentheses"}
        /\ Exit(made[n].kind, parts, nodes \o made, new + n - 1)

(* The statements: the rule's own exit makes a node without a range.       *)
isBlock(c) == rule(c) = "block" /\ ~isStatement(c)
isElseIf(c) == rule(c) = "if" /\ ~isStatement(c)
ExitRule(r, parts, exprs) == Exit(r, parts, Append(nodes, Object(r, exprs, 0)), new)

ExitExpressionOrDeclareOrReturn ==
  \E r \in {"expressionStatement", "declare", "return"} :
    /\ open # <<>> /\ areExpressions(Children(1))
    /\ ExitRule(r, Children(1), NodesOf(Children(1)))
ExitAssignStatement ==
  /\ Len(open) > 1 /\ areExpressions(Children(2))
  /\ ExitRule("assign", Children(2), NodesOf(Children(2)))
ExitBreakStatement == ExitRule("break", <<>>, <<>>)     (* continue is alike *)
ExitBlockStatement ==
  \E n \in 0..Len(open) :
    /\ \A i \in DOMAIN Children(n) : isStatement(Children(n)[i])
    /\ ExitRule("block", Children(n), NodesOf(Children(n)))
ExitWhileStatement ==
  /\ Len(open) > 1 /\ rule(Children(2)[1]) \in Expressions /\ isBlock(Children(2)[2])
  /\ ExitRule("while", Children(2), NodesOf(Children(2)))
ExitIfStatementWithoutElse ==                                       \* mutant
  \E n \in 2..3 :
    LET parts == Children(n)
    IN  /\ Len(open) >= n
        /\ rule(parts[1]) \in Expressions /\ isBlock(parts[2])
        /\ n = 3 => isBlock(parts[3]) \/ isElseIf(parts[3])
        /\ ExitRule("if", parts, NodesOf(SubSeq(parts, 1, 2)))
(* An else block is the then block once more: blockStatements.at(0).       *)
ExitIfStatement ==
  \E n \in 2..3 :
    LET parts == Children(n)
    IN  /\ Len(open) >= n
        /\ rule(parts[1]) \in Expressions /\ isBlock(parts[2])
        /\ n = 3 => isBlock(parts[3]) \/ isElseIf(parts[3])
        /\ ExitRule("if", parts,
             NodesOf(IF n = 3 /\ isBlock(parts[3]) THEN <<parts[1], parts[2], parts[2]>> ELSE parts))
ExitFunctionStatement ==
  /\ open # <<>> /\ isBlock(Last(open))
  /\ ExitRule("function", Children(1), NodesOf(Children(1)))
ExitClassStatement ==
  \E n \in 0..Len(open) :
    /\ \A i \in DOMAIN Children(n) : rule(Children(n)[i]) = "function" /\ ~isStatement(Children(n)[i])
    /\ ExitRule("class", Children(n), NodesOf(Children(n)))

(* exitStatement: the child of the `statement` context gets the range.     *)
ExitStatement ==
  /\ phase = "parsing" /\ open # <<>>
  /\ rule(Last(open)) \in Statements /\ ~isStatement(Last(open))
  /\ nodes' = [nodes EXCEPT ![astNodes[Last(open)]].range = Last(open)]
  /\ UNCHANGED <<source, contexts, astNodes, open, frames, phase, error>>

ExitWalang ==
  /\ phase = "parsing" /\ open # <<>>
  /\ \A i \in DOMAIN open : isStatement(open[i])
  /\ phase' = "preparing"
  /\ UNCHANGED <<parsed, frames, error>>

Walk ==
  \/ ExitIdentifier \/ ExitPrefixExpression \/ ExitParenthesesExpression
  \/ ExitBinaryExpression \/ ExitTernaryExpression \/ ExitCallOrMemberExpression
  \/ ExitExpressionOrDeclareOrReturn \/ ExitAssignStatement \/ ExitBreakStatement
  \/ ExitBlockStatement \/ ExitWhileStatement \/ ExitIfStatement
  \/ ExitFunctionStatement \/ ExitClassStatement
  \/ ExitStatement \/ ExitWalang

-----------------------------------------------------------------------------
(* The compiler, up to its first error.                                    *)

setRangeAlways(e, range) == [e EXCEPT !.message = TRUE, !.range = range]   \* mutant
(* The first range makes the message, and a message is never made again.   *)
setRange(e, range) ==
  IF e.message THEN e ELSE [e EXCEPT !.message = TRUE, !.range = range]

file == {astNodes[open[i]] : i \in DOMAIN open}
of(kind) == {n \in file : nodes[n].kind = kind}
Thrown(n) == [NoError EXCEPT !.culprit = n]
Fail(e) ==
  /\ phase' = "unwinding"
  /\ error' = e
  /\ UNCHANGED <<parsed, frames>>

(* The prepare passes run before any catch clause: a name defined twice,   *)
(* an unknown type, a decorator out of place.                              *)
PrepareFails ==
  /\ phase = "preparing"
  /\ \E n \in of("function") \cup of("class") : Fail(Thrown(n))
(* A class with itself as a member is the one that brings its range.       *)
PrepareRecursive ==
  /\ phase = "preparing"
  /\ \E n \in of("class") : Fail(setRange(Thrown(n), nodes[n].range))
Prepared ==
  /\ phase = "preparing"
  /\ phase' = "compiling"
  /\ UNCHANGED <<parsed, frames, error>>

top == Last(frames)
part(n, i) == nodes[n].parts[i]
Parts(n) == {part(n, i) : i \in DOMAIN nodes[n].parts}
kind(n) == nodes[n].kind

(* What is compiled under a catch clause of its own, inside of node n:     *)
(* blocks and methods in place are not, and what a call calls or a member  *)
(* is looked up in only goes through the resolver.  The receiver of a      *)
(* method is one more argument.                                            *)
Compiled(n) ==
  CASE kind(n) \in {"identifier", "member", "break"} -> {}
    [] kind(n) = "call" ->
         {part(n, i) : i \in 2..Len(nodes[n].parts)}
           \cup (IF kind(part(n, 1)) = "member" THEN Parts(part(n, 1)) ELSE {})
    [] kind(n) = "assign" -> {part(n, 2)}
    [] kind(n) \in {"while", "if"} ->
         {part(n, 1)} \cup Parts(part(n, 2)) \cup {part(n, i) : i \in 3..Len(nodes[n].parts)}
    [] kind(n) = "function" -> Parts(part(n, 1))
    [] kind(n) = "class" -> UNION {Parts(part(m, 1)) : m \in Parts(n)}
    [] OTHER -> Parts(n)

(* A function or class inside another statement stops the compiler.        *)
Enter ==
  /\ phase = "compiling"
  /\ \E n \in (IF frames = <<>> THEN file ELSE Compiled(top)) :
       /\ kind(n) \in {"function", "class"} => frames = <<>>
       /\ frames' = Append(frames, n)
  /\ UNCHANGED <<parsed, phase, error>>

(* The operations that refuse a node throw without a range: a type without *)
(* the operator, a wrong number of arguments, a jump out of no loop, an    *)
(* unknown type, an expression that the resolver knows nothing of.         *)
Refused ==
  /\ phase = "compiling" /\ frames # <<>>
  /\ kind(top) \in {"identifier", "prefix", "binary", "call", "member", "declare", "assign", "break"}
  /\ Fail(Thrown(top))

(* The identifier at which the resolver arrives from an expression, if it  *)
(* does: through first operands and then parts.  What a call returns has a *)
(* type, and is no symbol.                                                 *)
operand == [n \in Nodes |->
  CASE kind(n) \in {"identifier", "call"} -> n
    [] kind(n) = "ternary" -> part(n, 2)
    [] OTHER -> part(n, 1)]
resolveExpression(n) == {m \in {Iterate(operand, n, Len(nodes))} : kind(m) = "identifier"}
resolveTypeExpression(n) ==
  LET m == Iterate(operand, n, Len(nodes))
  IN  IF kind(m) = "call" THEN resolveExpression(part(m, 1)) ELSE {m}
Resolved(n) ==
  CASE kind(n) = "identifier" -> {n}
    [] kind(n) \in {"call", "member", "assign"} -> resolveExpression(part(n, 1))
    [] kind(n) = "declare" -> resolveTypeExpression(part(n, 1))
    [] OTHER -> {}
(* resolveIdentifier and compileIdentifier bring the identifier's range.   *)
UnknownName ==
  /\ phase = "compiling" /\ frames # <<>>
  /\ \E n \in Resolved(top) : Fail(setRange(Thrown(n), nodes[n].range))

(* One catch clause: e.setRangeAndThrow(expression->range()).              *)
Catch ==
  /\ phase = "unwinding" /\ frames # <<>>
  /\ error' = setRange(error, nodes[top].range)
  /\ frames' = Front(frames)
  /\ UNCHANGED <<parsed, phase>>

Report ==
  /\ phase = "unwinding" /\ frames = <<>>
  /\ phase' = "failed"
  /\ UNCHANGED <<parsed, frames, error>>

Init ==
  /\ source \in Sources
  /\ contexts = <<>> /\ nodes = <<>> /\ astNodes = <<>> /\ open = <<>>
  /\ frames = <<>>
  /\ phase = "parsing"
  /\ error = NoError
Compile == PrepareFails \/ PrepareRecursive \/ Prepared \/ Enter \/ Refused \/ UnknownName \/ Catch \/ Report
Next == Walk \/ Compile
Spec == Init /\ [][Next]_vars

-----------------------------------------------------------------------------

(* The walk leaves a context behind its children: what it spans, to itself.*)
firstIn[c \in DOMAIN contexts] ==
  IF contexts[c].parts = <<>> THEN c ELSE firstIn[contexts[c].parts[1]]
Span(c) == firstIn[c]..c
(* Binary expressions in parentheses that appendExpr takes apart again     *)
(* (BinaryExpression.tla).                                                 *)
TakenApart ==
  UNION {Span(p) : p \in
    {q \in DOMAIN contexts :
       /\ rule(q) = "parentheses" /\ node(q).kind = "binary"
       /\ \E c \in DOMAIN contexts : rule(c) = "binary"
            /\ \E i \in 2..(Len(contexts[c].parts) - 1) : contexts[c].parts[i] = q}}

rangesIn[n \in Nodes] ==
  ({nodes[n].range} \ {0}) \cup UNION {rangesIn[m] : m \in Parts(n)}
(* The tree a node heads was written inside the range the node has: a      *)
(* message of the node is not about text elsewhere, however often the      *)
(* constructors of the chains moved its contents.  (Not so for parentheses *)
(* whose contents were taken apart.)                                       *)
RangesNest ==
  \A n \in Nodes :
    nodes[n].range \notin TakenApart \cup {0} => rangesIn[n] \subseteq Span(nodes[n].range)

(* The blocks of an `if` with two of them: the second is lost, the first   *)
(* used twice (StatementCompiler.tla).                                     *)
ElseBlocks ==
  {astNodes[b] : b \in UNION {{contexts[c].parts[2], contexts[c].parts[3]} :
     c \in {d \in DOMAIN contexts : /\ rule(d) = "if" /\ Len(contexts[d].parts) = 3
                                    /\ rule(contexts[d].parts[3]) = "block"}}}
partOf(n) == UNION {{m} \X {i \in DOMAIN nodes[m].parts : part(m, i) = n} : m \in Nodes}
(* What was written is in the tree, and once: no constructor loses an      *)
(* operand, an argument or a statement, or uses one twice.                 *)
EachOnce ==
  \A n \in Nodes \ ElseBlocks :
    Cardinality(partOf(n)) + Cardinality({i \in DOMAIN open : astNodes[open[i]] = n}) = 1

contextsOf(n) == {c \in DOMAIN contexts : astNodes[c] = n}
(* An error says where the innermost node that failed was written, with    *)
(* the parentheses around it, whatever statements and expressions it       *)
(* passes on its way out.  Only a node that a chain made for itself has no *)
(* place, and only what the prepare passes refuse has no message           *)
(* (setRangeAndThrow, compileStatement, compileExpression).                *)
ReportsInnermost ==
  phase = "failed" =>
    LET written == contextsOf(error.culprit)
    IN  IF error.message THEN error.range = (IF written = {} THEN 0 ELSE Max(written))
        ELSE error.culprit \in of("function") \cup of("class")

body(c, i) == Iterate([m \in Nodes |-> part(m, 3)], astNodes[c], i - 1)
nestsRight(c) ==
  LET p == NodesOf(contexts[c].parts)
      n == Len(p) \div 2
  IN  /\ \A i \in 1..n : /\ kind(body(c, i)) = "ternary"
                         /\ part(body(c, i), 1) = p[2 * i - 1]
                         /\ part(body(c, i), 2) = p[2 * i]
      /\ part(body(c, n), 3) = p[Len(p)]
(* The bodies of a ternary expression nest to the right: each is the third *)
(* part of the one before (tests/parse/ternaryExpression.cpp, "multiple"). *)
(* From three bodies on addBody wraps the whole of the root's third part   *)
(* again, and they do not.                                                 *)
TernaryNestsRight ==
  \A c \in DOMAIN contexts :
    rule(c) = "ternary" => (nestsRight(c) <=> Len(contexts[c].parts) < 7)
=============================================================================

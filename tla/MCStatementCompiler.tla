------------------------ MODULE MCStatementCompiler ------------------------
(* Files for StatementCompiler: all of up to "Size" statements of some     *)
(* kinds, built statement by statement.                                    *)
EXTENDS StatementCompiler

CONSTANT Size

(* The next statement is in a list of a statement around the last one, or  *)
(* in one that the last one opens.                                         *)
Fits(p, s) ==
  LET a == s.parent
      siblings == {m \in DOMAIN p : p[m].parent = a}
  IN  /\ a <= Len(p)
      /\ \A m \in (a + 1)..Len(p) : p[m].parent >= a
      /\ \A m \in siblings : p[m].block <= s.block
      /\ a = 0 => s.block = 1
      /\ a # 0 =>
           /\ p[a].kind \in Container
           /\ s.block = 2 => p[a].kind \in {"ifElse", "ifElseIf"}
           /\ p[a].kind = "class" => s.kind = "function"
           /\ (s.block = 2 /\ p[a].kind = "ifElseIf") =>
                s.kind \in Branching /\ \A m \in siblings : p[m].block = 1
NamesOf(kind) ==
  CASE kind = "let" -> {"x"}
    [] kind = "function" -> {"f", "x"}
    [] kind = "class" -> {"f"}
    [] OTHER -> {NoName}
VarsOf(kind, reads) ==
  CASE kind = "expression" -> {"x"}
    [] kind \in {"let", "function", "if"} -> reads
    [] OTHER -> {NoName}
Statements(kinds, reads) ==
  UNION {[kind: {k}, name: NamesOf(k), var: VarsOf(k, reads), parent: 0..Size, block: {1, 2}] :
           k \in kinds}
Grown(files, statements) ==
  files \cup {Append(q[1], q[2]) : q \in {r \in files \X statements : Fits(r[1], r[2])}}

(* Every else-if is there.                                                 *)
Complete(p) ==
  \A n \in DOMAIN p : p[n].kind = "ifElseIf" => \E m \in DOMAIN p : p[m].parent = n /\ p[m].block = 2
FilesOf(kinds, reads) ==
  LET statements == Statements(kinds, reads)
      grown == FoldLeft(LAMBDA files, n : Grown(files, statements), {<<>>}, [n \in 1..Size |-> n])
  IN  {p \in grown : Complete(p) /\ WellFormed(p)}

(* What binds labels, and what binds names.                                *)
MCPrograms ==
  FilesOf({"while", "break", "continue", "ifElse", "ifElseIf", "function", "block"}, {NoName})
    \cup FilesOf({"let", "expression", "if", "function", "class"}, {"x", NoName})
ElsePrograms == FilesOf({"let", "expression", "ifElse"}, {NoName})
=============================================================================

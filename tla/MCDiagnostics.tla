--------------------------- MODULE MCDiagnostics ----------------------------
(* Files for Diagnostics: of expressions, of a ternary chain only, and of  *)
(* statements.                                                             *)
EXTENDS Diagnostics

ExpressionFiles ==
  [rules |-> {"identifier", "prefix", "parentheses", "binary", "ternary", "call", "member",
              "expressionStatement"},
   contexts |-> 7, chain |-> 2]
TernaryFiles ==
  [rules |-> {"identifier", "ternary", "expressionStatement"}, contexts |-> 9, chain |-> 3]
StatementFiles ==
  [rules |-> {"identifier", "expressionStatement", "break", "block", "if", "while", "function",
              "class", "declare", "assign", "return"},
   contexts |-> 6, chain |-> 1]
MCSources == {ExpressionFiles, TernaryFiles, StatementFiles}
=============================================================================

SPECIFICATION Spec
CONSTANTS
  MaxOps = 4
  ChainOps = {"MUL", "ADD", "SUB", "LOGIC_OR"}
  InnerOps = {"SUB", "AND"}
  Inputs <- MCInputs
INVARIANTS
  TypeOK
  OnlyEndangeredBreak
  Precedence
  MatchesReference
  InOrder

SPECIFICATION Spec
CONSTANTS
  Names = {"this", "x", "f"}
  NoName = NoName
  Start = Start
  Size = 4
  Programs <- MCPrograms
INVARIANTS
  TypeOK
  JumpsBindInnermost
  JumpErrorJustified
  LabelsUnique
  ReadsInScope
  NestedFunctionsRefused
  EveryFunctionCompiled

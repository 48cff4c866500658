SPECIFICATION Spec
CONSTANTS
  Names = {"this", "x", "f"}
  NoName = NoName
  Start = Start
  Size = 2
  Programs <- ElsePrograms
INVARIANTS
  NothingDropped

SPECIFICATION Spec
CONSTANTS
  Names = {"this", "x", "g"}
  FieldNames = {"a", "b", "c", "p", "v"}
  Basis = {"i32", "f64"}
  Classes = {"P", "Q", "S", "E"}
  Members <- FlatMembers
  Slots <- FlatSlots
  Bytes <- I32Is4F64Is8
  Functions <- MCFunctions
  Depth = 2
  Paths <- AllPaths
  MaxLength = 2
INVARIANTS
  TypeOK
  LocalsDisjoint
PROPERTIES
  ImplementsVariables
CHECK_DEADLOCK FALSE

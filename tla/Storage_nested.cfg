SPECIFICATION Spec
CONSTANTS
  Names = {"x"}
  FieldNames = {"a", "p"}
  Basis = {"i32", "f64"}
  Classes = {"E", "N"}
  Members <- NestedMembers
  Slots <- NestedSlots
  Bytes <- I32Is4F64Is8
  Functions <- NestedFunctions
  Depth = 2
  Paths <- AllPaths
  MaxLength = 2
INVARIANTS MembersApart
CHECK_DEADLOCK FALSE

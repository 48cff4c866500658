SPECIFICATION Spec
CONSTANTS
  Objects = {}
  ObjectSlot <- NoSlot
  Bits <- ScaledBits
  Variables = {"i", "gi", "u", "gu", "x", "gx", "y", "gy"}
  VariableType <- NumberVariables
  MemberPaths = {}
  MemberType <- NoSlot
  Callees = {"count", "next"}
  ArgumentTypes <- NumberArguments
  ReturnType <- NumberReturns
  Literals = {6}
  BinaryOps <- BinaryOp
  PrefixOps <- PrefixOp
  Uses <- NumberUses
  MaxNodes = 5
  GlobalVariables = {"gi", "gu", "gx", "gy"}
  Samples <- ExtremeSamples
INVARIANTS
  MatchesMeaning
CHECK_DEADLOCK FALSE

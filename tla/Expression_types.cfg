SPECIFICATION Spec
CONSTANTS
  Objects = {"OneI32", "OneI64"}
  ObjectSlot <- OfSlot
  Bits <- ScaledBits
  Variables = {"i", "u", "x", "f", "p", "q"}
  VariableType <- TypedVariables
  MemberPaths = {"pi", "px"}
  MemberType <- TypedMembers
  Callees = {"nothing", "convert"}
  ArgumentTypes <- TypedArguments
  ReturnType <- TypedReturns
  Literals = {1}
  BinaryOps = {"ADD", "MOD", "LESS_THAN", "LOGIC_OR"}
  PrefixOps = {"SUB", "NOT"}
  Uses <- EveryUse
  MaxNodes = 5
  GlobalVariables = {}
  Samples = {}
INVARIANTS
  TypeOK
  ValidUnlessExcused
CHECK_DEADLOCK FALSE

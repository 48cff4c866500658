SPECIFICATION Spec
CONSTANTS
  Values = {"i32", "Empty", "One", "Two", "Three"}
  Slots <- Layouts
  Classes = {"Empty", "One", "Two", "Three"}
  Bytes <- ByteSizes
  Variables = {"i", "e", "o", "p", "q", "r"}
  VariableType <- VariablesOfEach
  Functions = {"makeEmpty", "makeOne", "makeTwo", "join", "run", "Two_get", "Two_with"}
  ArgumentTypes <- Arguments
  ReturnType <- Results
  Methods = {"Two_get", "Two_with"}
  Readonly = {"Two_get"}
  Clobbering = TRUE
  Uses <- EveryUse
  MaxNodes = 9
INVARIANTS
  ValidUnlessCause
  MatchesMeaning
  ReceiverBehindResult
CHECK_DEADLOCK FALSE

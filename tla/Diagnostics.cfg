SPECIFICATION Spec
CONSTANTS
  Sources <- MCSources
INVARIANTS
  RangesNest
  EachOnce
  ReportsInnermost
  TernaryNestsRight
CHECK_DEADLOCK FALSE

SPECIFICATION Spec
CONSTANTS
  Names <- MCNames
  NoClass = NoClass
  NoType = NoType
  Programs <- MCPrograms
  MaxMembers = 2
INVARIANTS
  TypeOK
  LayoutClosed
  LayoutWellFounded
  NoClassLost
  SourceOrder
  StuckWhenNoProgress
  LeftoverIsUnbuildable
  SignaturesSeeEveryClass
  RedefinedIsDeclaredTwice
PROPERTIES
  ImplementsResolution
  Termination
CHECK_DEADLOCK FALSE

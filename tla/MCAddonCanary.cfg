SPECIFICATION FairSpec
CONSTANTS
  MaxAttempts = 2
  MaxLate = 1
  Stubs <- MCStubs
  None = None
INVARIANTS
  TypeOK
  OverlaysOnFrozenBase
  StopRules
  Conclusive
  FailureExplained
PROPERTY JobEnds
CHECK_DEADLOCK FALSE

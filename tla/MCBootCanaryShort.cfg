SPECIFICATION FairSpec
CONSTANTS
  None = None
  UnitLimit = 4
  MaxResets = 1
  Machines <- MCFewMachines
CHECK_DEADLOCK FALSE
PROPERTIES
  VerdictGiven

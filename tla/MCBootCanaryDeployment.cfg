SPECIFICATION Spec
CONSTANTS
  None = None
  UnitLimit = 10
  MaxResets = 1
  Machines <- MCMachines
CHECK_DEADLOCK FALSE
INVARIANTS
  AcceptedNamesDeployment

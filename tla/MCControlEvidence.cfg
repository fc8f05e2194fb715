SPECIFICATION Spec
CONSTANTS
  None = None
  MaxJobs = 2
  Sources <- MCSources
  GuestMachines <- MCMachines
CHECK_DEADLOCK FALSE
INVARIANTS
  PassedUkiWasAdmitted
  PassedCopyWasRejected
  PassedOneSource
  CompletedJobPasses

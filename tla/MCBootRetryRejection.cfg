SPECIFICATION Spec
CONSTANTS
  Polls = 3
  None = None
  MaxAttempts = 2
  MaxInvocations = 1
INVARIANT RejectionNeverRetried
CHECK_DEADLOCK FALSE

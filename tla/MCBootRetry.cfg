SPECIFICATION FairSpec
CONSTANTS
  Polls = 3
  None = None
  MaxAttempts = 2
  MaxInvocations = 2
INVARIANTS RetryTypeOK SuccessIsJoined AcceptedIsSelected NoStaleEvidence
  CompletedReceiptNeverRetried RejectionRetriedOnlyLate
PROPERTIES KeepsPromise InvocationEnds
CHECK_DEADLOCK FALSE

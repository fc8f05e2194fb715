SPECIFICATION FairSpec
CONSTANTS
  Instances = {i1, i2}
  Sessions = {x1, x2}
  MaxEvents = 3
  LogLimit = 2
  None = None
INVARIANTS TypeOK SessionsReturned SessionsApart LogCoversQuote
PROPERTY RequestsEnd

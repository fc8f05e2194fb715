SPECIFICATION FairSpec
CONSTANTS
  Seeds = {s1}
  Instances = {i1}
  Slots = {t1, t2}
  MaxAk = 2
  None = None
  Torn = Torn
INVARIANT LeakBounded
PROPERTIES FlushSparesOthers WaitEnds

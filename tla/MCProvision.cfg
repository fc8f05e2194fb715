SPECIFICATION Spec
CONSTANTS
  Seeds = {s1, s2}
  Instances = {i1}
  Slots = {t1}
  MaxAk = 2
  None = None
  Torn = Torn
INVARIANTS TypeOK ActiveMeansCoherent IdentityCoherent
PROPERTY IdentityIsStable

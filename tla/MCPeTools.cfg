SPECIFICATION Spec
CONSTANTS
  Align = 2
  MaxPadding = 2
  Images <- MCImages
  MaxSignatures = 2
  None = None
INVARIANTS
  SignatureFollowsBytes
  SectionsSurvive
  StripUndoesSign
  CutImagesRefused
  SoundImagesAccepted
  StaticTruthful

SPECIFICATION FairSpec
CONSTANTS
  Positions = {1, 2}
  TrueT = 1
  TrueTh = 1
  RtkErrors = {0, 4}
  PlainErrors <- OtherSide
  PcdErrors = {1}
  MaxStep = 1
  MaxSlew = 1
  RtkGate = 1
  RtkNeed = 2
  RtkWindow = 1
  ResetGap = 1
  PcdTimeout = 1
  CalNeed = 2
  None = None
INVARIANTS
  ConvergedIsRight
PROPERTIES
  NoMixedAnchor
  TrustIsEarned
  MatcherKeepsAnchor
  FalseFixNeverDrags
  EventuallyAnchored

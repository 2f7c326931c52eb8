SPECIFICATION FairSpec
CONSTANTS
  Field = 4
  Gates = {"fix", "quality"}
  RequireCov = TRUE
  GateVar = 2
  Datum = 2
  Radius = 1
  ResetCov = 1
  DriftThreshold = 1
  Cooldown = 1
  Variances = {1, 2, 3}
  Spread <- MCSpread
  MaxMoves = 1
  MaxDrifts = 2
  MaxPending = 2
  None = None
INVARIANTS RtkFixesAreAccurate EstimateStaysOnSite
PROPERTIES OneResetPerLoss EstimateRecovers

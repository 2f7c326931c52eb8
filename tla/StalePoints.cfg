SPECIFICATION Spec
CONSTANTS
  Turn = 10
  Rate = 1
  ProcessNoise = 1
  Gate = 2
  Deviations <- SmallDeviations
  Covariances <- ClaimedCovariances
  MaxAge = 1
  MaxLag = 1
  MaxVariance = 8
  MaxMishaps = 1
  NaN = NaN
  Redraw = Redraw
INVARIANTS
  SigmaPointsAreCurrent
CHECK_DEADLOCK FALSE

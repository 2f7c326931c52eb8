SPECIFICATION FairSpec
CONSTANTS
  Poses <- TwoPoses
  TrueWorld <- RealWorld
  Antenna <- OnTheLeft
  ImuYaw = 3
  YawOffset = 3
  Convergence = 3
  TrueDeclination = 1
  Declinations = {0, 1}
  Datums <- OneDatum
  MaxFixes = 1
  MaxRequests = 1
INVARIANTS
  TransformIsTrue
  DatumIsOrigin
PROPERTIES
  MessagesAreTrue
  FixesSentOnce
  FixesAreSent

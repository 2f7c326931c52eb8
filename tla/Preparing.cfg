SPECIFICATION Spec
CONSTANTS
  Instants <- TwoInstants
  Setups <- Devices
  FrameTransform <- Transforms
  Lean <- Leans
  Estimates <- TwoEstimates
  Requests <- OneRequest
  Gravity = 9
  None = None
  Blank = Blank
  Target = Target
  MaxInstants = 3
  MaxMessages = 3
  MaxRequests = 1
INVARIANTS
  PosesAreTrue
  RelativeMotionIsTrue
  DisplacementsAddUp
  TwistErrorIsLeverArm
  GravityErrorIsAttitude

SPECIFICATION Spec
CONSTANTS
  OdomTopics = {}
  ImuTopics = {}
  PoseTopics = {"pose0"}
  TwistTopics = {"twist0"}
  Channels <- PoseAndTwist
  SmoothLaggedData = TRUE
  PredictToCurrentTime = FALSE
  PermitCorrectedPublication = FALSE
  UseControl = FALSE
  DisabledAtStartup = FALSE
  HistoryLength = 2
  SensorTimeout = 2
  MaxLead = 1
  StartTimes = {1}
  MaxTime = 4
  MaxMessages = 3
  MaxControls = 0
INVARIANTS
  EachFusedOnce

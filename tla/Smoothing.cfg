SPECIFICATION FairSpec
CONSTANTS
  OdomTopics = {}
  ImuTopics = {}
  PoseTopics = {"pose0"}
  TwistTopics = {"twist0"}
  Channels <- PoseAndTwist
  SmoothLaggedData = TRUE
  PredictToCurrentTime = FALSE
  PermitCorrectedPublication = FALSE
  UseControl = FALSE
  DisabledAtStartup = TRUE
  HistoryLength = 2
  SensorTimeout = 2
  MaxLead = 1
  StartTimes = {1}
  MaxTime = 4
  MaxMessages = 3
  MaxControls = 0
INVARIANTS
  FilterNotAheadOfClock
  ReplayIsExact
  HistoryIsReplayable
  SetPoseForgetsThePast
  ChannelsKeepOrder
  TimeoutPredicts
PROPERTIES
  DataStampsIncrease
  DueMeasurementsLeave
  ImplementsInOrderFusion

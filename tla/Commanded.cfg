SPECIFICATION Spec
CONSTANTS
  OdomTopics = {"odom0"}
  ImuTopics = {"imu0"}
  PoseTopics = {}
  TwistTopics = {}
  Channels <- OdometryAndImu
  SmoothLaggedData = TRUE
  PredictToCurrentTime = FALSE
  PermitCorrectedPublication = FALSE
  UseControl = TRUE
  DisabledAtStartup = FALSE
  HistoryLength = 2
  SensorTimeout = 2
  MaxLead = 0
  StartTimes = {1}
  MaxTime = 4
  MaxMessages = 3
  MaxControls = 1
INVARIANTS
  ControlIsLatest

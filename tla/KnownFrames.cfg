SPECIFICATION ListenerSpec
CONSTANTS
  Frames = {"map", "odom", "base", "side", "arm"}
  Blank = Blank
  Base = "base"
  Ancestors <- Tree
  Moving = {"odom", "arm"}
  PoseAt <- Poses
  Headers <- FullOrPart
  RobotAt <- Robot
  VelocityAt <- Velocity
  Turn = 1
  Requests <- SomeRequests
  TicksPerSecond = 2
  LastIntTick = 2
  Overflows <- IntBounds
  Capacities = {1, 2}
  QueueSize = 1
  MaxTime = 3
  MaxStates = 3
  MaxRequests = 1
  None = None
PROPERTIES
  KnownFramesAreAnswered
CHECK_DEADLOCK FALSE

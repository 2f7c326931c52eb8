------------------------------ MODULE RosFilter ------------------------------
(***************************************************************************)
(* The state-estimation node (ros_filter.cpp): sensor callbacks put        *)
(* time-stamped measurements in a priority queue, and a periodic timer     *)
(* folds those that are due into the filter and publishes the estimate.    *)
(* With smooth_lagged_data the node keeps a history of measurements and    *)
(* filter states; a measurement older than the filter makes it go back to  *)
(* a state before that measurement and replay everything since.            *)
(*                                                                         *)
(* Every callback and the timer run on one thread (ekf_node.cpp spins a    *)
(* single-threaded executor), so a callback runs only between two timer    *)
(* cycles.  One timer cycle is cut into a step that opens it, one step per *)
(* measurement, one that closes the integration and one that publishes.    *)
(* The clock may advance at any moment.                                    *)
(***************************************************************************)
EXTENDS FilterBase, FiniteSets

CONSTANTS
  OdomTopics, ImuTopics, PoseTopics, TwistTopics,  \* the configured topics
  Channels,       \* <<topic, kind>> for each part with update_sum_ > 0
  SmoothLaggedData, PredictToCurrentTime,          \* Boolean parameters of
  PermitCorrectedPublication, UseControl,          \* the same names
  DisabledAtStartup,
  HistoryLength,  \* history_length_
  SensorTimeout,  \* filter_.sensor_timeout_
  MaxLead,        \* how far a stamp may lie ahead of this node's clock
  StartTimes,     \* bound: values of the clock when the node starts
  MaxTime,        \* bound: last value of the clock
  MaxMessages,    \* bound: number of sensor messages
  MaxControls     \* bound: number of velocity commands

ASSUME TopicsAssumption ==
  Channels \subseteq
    (OdomTopics \X {"pose", "twist"})
      \cup (ImuTopics \X {"pose", "twist", "acceleration"})
      \cup (PoseTopics \X {"pose"}) \cup (TwistTopics \X {"twist"})

ASSUME FiniteAssumption == IsFiniteSet(Channels)

ASSUME FlagsAssumption ==
  {SmoothLaggedData, PredictToCurrentTime, PermitCorrectedPublication,
   UseControl, DisabledAtStartup} \subseteq BOOLEAN

ASSUME NumbersAssumption ==
  /\ {HistoryLength, SensorTimeout, MaxLead, MaxTime, MaxMessages, MaxControls}
       \subseteq Nat
  /\ StartTimes \subseteq 0..MaxTime

VARIABLES
  now,                 \* the node's clock
  phase,               \* where the node is in its timer callback
  currentTime,         \* cur_time: the clock as the timer cycle began
  enabled,             \* enabled_
  toggledOn,           \* toggled_on_
  lastSetPoseTime,     \* last_set_pose_time_
  lastMessageTimes,    \* last_message_times_, 0 for a topic not yet heard
  latestControl,       \* latest_control_, named by the number of the command
  queue,               \* measurement_queue_
  measurementHistory,  \* measurement_history_
  stateHistory,        \* filter_state_history_
  restoredCount,       \* restored_measurement_count
  lastPublishedStamp,  \* last_published_stamp_
  messages,            \* number of sensor messages taken, the identity of each
  (* The next three record what the node did and never influence it. *)
  published,           \* the last message sent on odometry/filtered
  staleReplay,         \* since the last command, a replay has put measurements
                       \* back while one with an earlier command was queued
  fellBack             \* since the last set_pose, revertTo has found no state
                       \* to go back to although something was folded in

inputVars == <<enabled, toggledOn, lastSetPoseTime, lastMessageTimes,
               latestControl, messages>>
historyVars == <<measurementHistory, stateHistory, fellBack>>
outputVars == <<lastPublishedStamp, published>>
cycleVars == <<phase, currentTime, restoredCount, staleReplay>>

vars == <<now, cycleVars, inputVars, queue, historyVars, outputVars, filterVars>>

Times == 0..MaxTime

(* A measurement carries the control that was in force when it arrived. *)
Measurement ==
  [channel : Channels, time : Times, id : 1..MaxMessages,
   control : 0..MaxControls]

FilterState ==
  [time : Times, estimate : Seq(Measurement), control : 0..MaxControls]

TypeOK ==
  /\ now \in Times
  /\ phase \in {"spin", "integrate", "publish"}
  /\ currentTime \in Times
  /\ enabled \in BOOLEAN
  /\ toggledOn \in BOOLEAN
  /\ lastSetPoseTime \in Times
  /\ lastMessageTimes \in [Channels -> Times]
  /\ latestControl \in 0..MaxControls
  /\ queue \subseteq Measurement /\ IsFiniteSet(queue)
  /\ measurementHistory \in Seq(Measurement)
  /\ stateHistory \in Seq(FilterState)
  /\ restoredCount \in Int
  /\ lastPublishedStamp \in Times
  /\ messages \in 0..MaxMessages
  /\ published \in [stamp : Times, estimate : Seq(Measurement)]
  /\ staleReplay \in BOOLEAN /\ fellBack \in BOOLEAN
  /\ initialized \in BOOLEAN
  /\ lastMeasurementTime \in Times
  /\ control \in 0..MaxControls
  /\ estimate \in Seq(Measurement)

Init ==
  /\ now \in StartTimes
  /\ FilterInit(now)
  /\ phase = "spin" /\ currentTime = 0 /\ restoredCount = 0 /\ staleReplay = FALSE
  /\ enabled = ~DisabledAtStartup
  /\ toggledOn = TRUE
  /\ lastSetPoseTime = 0
  /\ lastMessageTimes = [c \in Channels |-> 0]
  /\ latestControl = 0
  /\ queue = {}
  /\ measurementHistory = <<>> /\ stateHistory = <<>> /\ fellBack = FALSE
  /\ lastPublishedStamp = 0
  /\ published = [stamp |-> 0, estimate |-> <<>>]
  /\ messages = 0

-----------------------------------------------------------------------------
(* Sensor callbacks. *)

(* The measurement that a callback makes of one part of a message. *)
NewMeasurement(c, stamp) ==
  [channel |-> c, time |-> stamp, id |-> messages + 1, control |-> latestControl]

(* The parts of a message that are not older than the last on their channel. *)
FreshIsAll(parts, stamp) == parts  \* mutant: the comparison is dropped
Fresh(parts, stamp) == {c \in parts : lastMessageTimes[c] <= stamp}

(* poseCallback, twistCallback and accelerationCallback have this control in
   common, and odometryCallback and imuCallback call them for the parts of
   one message.  A stamp at or before the last set_pose is ignored, and so is
   a part older than the last one on its channel.  A part whose preparation
   fails (no transform, nothing left to update) is not enqueued, but its
   stamp is remembered all the same. *)
Receive(parts) ==
  /\ phase = "spin"
  /\ messages < MaxMessages
  /\ \E stamp \in 1..MaxTime :
       LET fresh == Fresh(parts, stamp)
       IN /\ stamp <= now + MaxLead
          /\ lastSetPoseTime < stamp
          /\ fresh # {}
          /\ \E prepared \in SUBSET fresh :
               queue' = queue \cup {NewMeasurement(c, stamp) : c \in prepared}
          /\ lastMessageTimes' =
               [c \in Channels |-> IF c \in fresh THEN stamp
                                                  ELSE lastMessageTimes[c]]
          /\ messages' = messages + 1
  /\ UNCHANGED <<now, cycleVars, enabled, toggledOn, lastSetPoseTime,
                 latestControl, historyVars, outputVars, filterVars>>

PoseCallback == \E t \in PoseTopics : Receive({<<t, "pose">>} \cap Channels)

TwistCallback == \E t \in TwistTopics : Receive({<<t, "twist">>} \cap Channels)

OdometryCallback ==
  \E t \in OdomTopics : Receive(({t} \X {"pose", "twist"}) \cap Channels)

(* A covariance that starts with -1 withdraws that part of an IMU message. *)
ImuCallback ==
  \E t \in ImuTopics :
    \E kinds \in SUBSET {"pose", "twist", "acceleration"} :
      Receive(({t} \X kinds) \cap Channels)

(* A velocity command goes to the node and to the filter at once. *)
ControlCallback ==
  /\ phase = "spin"
  /\ UseControl
  /\ latestControl < MaxControls
  /\ latestControl' = latestControl + 1
  /\ control' = latestControl + 1
  /\ staleReplay' = FALSE
  /\ UNCHANGED <<now, phase, currentTime, restoredCount, enabled, toggledOn, lastSetPoseTime,
                 lastMessageTimes, messages, queue, historyVars, outputVars,
                 initialized, lastMeasurementTime, estimate>>

-----------------------------------------------------------------------------
(* Services. *)

(* mutant: the saved states and measurements survive *)
SetPoseKeepsHistory ==
  /\ phase = "spin"
  /\ lastSetPoseTime' \in {t \in Times : t <= now + MaxLead}
  /\ queue' = {}
  /\ SetState(<<>>, now)
  /\ UNCHANGED <<now, cycleVars, enabled, toggledOn, lastMessageTimes,
                 latestControl, messages, historyVars, outputVars, control>>

(* The node forgets queue and history and starts again from the given pose,
   dated now; messages stamped up to the pose's own stamp will be ignored. *)
SetPoseCallback ==
  /\ phase = "spin"
  /\ lastSetPoseTime' \in {t \in Times : t <= now + MaxLead}
  /\ queue' = {}
  /\ measurementHistory' = <<>> /\ stateHistory' = <<>> /\ fellBack' = FALSE
  /\ SetState(<<>>, now)
  /\ UNCHANGED <<now, cycleVars, enabled, toggledOn, lastMessageTimes,
                 latestControl, messages, outputVars, control>>

EnableFilterSrvCallback ==
  /\ phase = "spin"
  /\ ~enabled
  /\ enabled' = TRUE
  /\ UNCHANGED <<now, cycleVars, toggledOn, lastSetPoseTime, lastMessageTimes,
                 latestControl, messages, queue, historyVars, outputVars,
                 filterVars>>

ToggleFilterProcessingCallback ==
  /\ phase = "spin"
  /\ toggledOn' = ~toggledOn
  /\ UNCHANGED <<now, cycleVars, enabled, lastSetPoseTime, lastMessageTimes,
                 latestControl, messages, queue, historyVars, outputVars,
                 filterVars>>

-----------------------------------------------------------------------------
(* Queue and history. *)

(* measurement_queue_ is a priority queue on the stamps; which one of equal
   stamps comes first is up to the heap. *)
IsTop(m, q) == m \in q /\ \A other \in q : m.time <= other.time

(* Popping s from the back while it is later than t leaves n entries. *)
KeptByPopBack(s, t, n) ==
  /\ n \in 0..Len(s)
  /\ n > 0 => s[n].time <= t
  /\ \A i \in (n + 1)..Len(s) : s[i].time > t

(* Popping s from the front while it is before t drops n entries. *)
DroppedByPopFront(s, t, n) ==
  /\ n \in 0..Len(s)
  /\ n < Len(s) => s[n + 1].time >= t
  /\ \A i \in 1..n : s[i].time < t

(* The state the filter returns to when n of the saved states are at or
   before the requested time: the last of those, or the oldest one saved. *)
RevertStateOffByOne(n) ==  \* mutant: the state after the one asked for
  stateHistory[IF n < Len(stateHistory) THEN n + 1 ELSE n]
RevertState(n) == IF n > 0 THEN stateHistory[n] ELSE stateHistory[1]

(* What revertTo leaves in the history when k measurements stay, and what it
   puts back in the queue for a filter that has reverted to state s. *)
KeptMeasurements(k) == SubSeq(measurementHistory, 1, k)

Popped(k) == Range(SubSeq(measurementHistory, k + 1, Len(measurementHistory)))
RestoredPredating(s, k) ==  \* mutant: the comparison is the wrong way round
  {m \in Popped(k) : s.time >= m.time}
Restored(s, k) == {m \in Popped(k) : s.time <= m.time}

(* Go back to time t.  The measurements after t leave the history, and those
   that do not predate the state reverted to return to the queue.  With no
   saved state at all nothing happens.  The filter's control stays. *)
RevertTo(t) ==
  \E n \in 0..Len(stateHistory) :
    /\ KeptByPopBack(stateHistory, t, n)
    /\ stateHistory' = SubSeq(stateHistory, 1, n)
    /\ fellBack' = (fellBack \/ (n = 0 /\ Fused # {}))
    /\ IF stateHistory = <<>>
       THEN UNCHANGED <<queue, measurementHistory, filterVars>>
       ELSE LET s == RevertState(n)
            IN \E k \in 0..Len(measurementHistory) :
                 /\ KeptByPopBack(measurementHistory, t, k)
                 /\ measurementHistory' = KeptMeasurements(k)
                 /\ queue' = queue \cup Restored(s, k)
                 /\ SetState(s.estimate, s.time)
                 /\ UNCHANGED control

(* saveFilterState, of the state the filter has after this step. *)
SavedTooEarly ==  \* mutant: the estimate is saved before the correction
  [time |-> lastMeasurementTime', estimate |-> estimate, control |-> control']
SavedState ==
  [time |-> lastMeasurementTime', estimate |-> estimate', control |-> control']

ClearExpiredHistory(cutoff) ==
  /\ \E n \in 0..Len(measurementHistory) :
       /\ DroppedByPopFront(measurementHistory, cutoff, n)
       /\ measurementHistory' =
            SubSeq(measurementHistory, n + 1, Len(measurementHistory))
  /\ \E n \in 0..Len(stateHistory) :
       /\ DroppedByPopFront(stateHistory, cutoff, n)
       /\ stateHistory' = SubSeq(stateHistory, n + 1, Len(stateHistory))

-----------------------------------------------------------------------------
(* The timer: periodicUpdate and integrateMeasurements.  A cycle of a node
   that is not enabled returns at once, and is no step. *)

OpenCycle(next) ==
  /\ phase = "spin" /\ enabled
  /\ currentTime' = now
  /\ phase' = next

(* The measurement at the top of the queue is older than the filter. *)
LaggedMeasurement ==
  /\ SmoothLaggedData
  /\ \E first \in queue : IsTop(first, queue) /\ first.time < lastMeasurementTime

(* mutant: the queue is kept for later *)
DiscardNothing ==
  /\ OpenCycle("publish")
  /\ ~toggledOn
  /\ lastMeasurementTime' = IF initialized THEN now ELSE lastMeasurementTime
  /\ UNCHANGED <<now, restoredCount, staleReplay, inputVars, queue, historyVars, outputVars,
                 initialized, control, estimate>>

(* Processing is toggled off: the queue is thrown away and the estimate is
   kept from falling behind. *)
DiscardMeasurements ==
  /\ OpenCycle("publish")
  /\ ~toggledOn
  /\ queue' = {}
  /\ lastMeasurementTime' = IF initialized THEN now ELSE lastMeasurementTime
  /\ UNCHANGED <<now, restoredCount, staleReplay, inputVars, historyVars, outputVars,
                 initialized, control, estimate>>

SensorsLate == now - lastMeasurementTime > SensorTimeout  \* mutant: > for >=
SensorsTimedOut == now - lastMeasurementTime >= SensorTimeout

(* Nothing in the queue: predict if asked to, or if the sensors timed out. *)
IntegrateNothing ==
  /\ OpenCycle("publish")
  /\ toggledOn
  /\ queue = {}
  /\ IF initialized /\ (PredictToCurrentTime \/ SensorsTimedOut)
     THEN PredictTo(now)
     ELSE UNCHANGED filterVars
  /\ UNCHANGED <<now, restoredCount, staleReplay, inputVars, queue, historyVars, outputVars>>

BeginIntegration ==
  /\ OpenCycle("integrate")
  /\ toggledOn
  /\ queue # {} /\ ~LaggedMeasurement
  /\ restoredCount' = 0
  /\ UNCHANGED <<now, staleReplay, inputVars, queue, historyVars, outputVars, filterVars>>

BeginReplay ==
  /\ OpenCycle("integrate")
  /\ toggledOn
  /\ LaggedMeasurement
  /\ \E first \in queue : IsTop(first, queue) /\ RevertTo(first.time - 1)
  /\ restoredCount' = Cardinality(queue') - Cardinality(queue)
  /\ staleReplay' =
       \/ staleReplay
       \/ /\ UseControl /\ restoredCount' > 0
          /\ \E m \in queue' : m.control # latestControl
  /\ UNCHANGED <<now, inputVars, outputVars>>

(* While measurements remain to be restored, each one processed brings back
   the control that it arrived with. *)
RestoreAlways(m) ==  \* mutant: new measurements bring their control too
  IF UseControl THEN control' = m.control /\ UNCHANGED restoredCount
                ELSE UNCHANGED <<control, restoredCount>>
RestoreControl(m) ==
  IF UseControl /\ restoredCount > 0
  THEN control' = m.control /\ restoredCount' = restoredCount - 1
  ELSE UNCHANGED <<control, restoredCount>>

(* One state is saved per time stamp: not while the next measurement in the
   queue has the stamp that the filter has now. *)
RememberMeasurement(m) ==
  /\ measurementHistory' = Append(measurementHistory, m)
  /\ stateHistory' = IF \E next \in queue' :
                          IsTop(next, queue') /\ next.time = lastMeasurementTime'
                     THEN stateHistory
                     ELSE Append(stateHistory, SavedState)
  /\ UNCHANGED fellBack

(* A measurement that is later than this cycle waits for a future one. *)
DueAlways(m) == TRUE  \* mutant: the early exit from the loop is missing
Due(m) == m.time <= currentTime

QueueAfterPop(m) == queue \ {m}

IntegrateMeasurement ==
  /\ phase = "integrate"
  /\ \E m \in queue :
       /\ IsTop(m, queue)
       /\ Due(m)
       /\ queue' = QueueAfterPop(m)
       /\ RestoreControl(m)
       /\ ProcessMeasurement(m)
       /\ IF SmoothLaggedData THEN RememberMeasurement(m)
                              ELSE UNCHANGED historyVars
  /\ UNCHANGED <<now, phase, currentTime, staleReplay, inputVars, outputVars>>

(* What is left in the queue, if anything, is not due. *)
EndIntegration ==
  /\ phase = "integrate"
  /\ \A m \in queue : ~Due(m)
  /\ IF initialized /\ PredictToCurrentTime THEN PredictTo(currentTime)
                                            ELSE UNCHANGED filterVars
  /\ phase' = "publish"
  /\ restoredCount' = 0
  /\ UNCHANGED <<now, currentTime, staleReplay, inputVars, queue, historyVars, outputVars>>

(* An estimate whose stamp is not later than the last is a correction. *)
CorrectedStrictly ==  \* mutant: > for >=
  ~PermitCorrectedPublication /\ lastPublishedStamp > lastMeasurementTime
CorrectedData ==
  ~PermitCorrectedPublication /\ lastPublishedStamp >= lastMeasurementTime

(* The stamp is remembered whether or not the estimate goes out. *)
PublishEstimate ==
  /\ lastPublishedStamp' = lastMeasurementTime
  /\ published' = IF CorrectedData
                  THEN published
                  ELSE [stamp |-> lastMeasurementTime, estimate |-> estimate]

CloseCycle ==
  /\ phase = "publish"
  /\ phase' = "spin"
  /\ currentTime' = 0
  /\ IF initialized THEN PublishEstimate ELSE UNCHANGED outputVars
  /\ IF SmoothLaggedData
     THEN ClearExpiredHistory(lastMeasurementTime - HistoryLength)
     ELSE UNCHANGED <<measurementHistory, stateHistory>>
  /\ UNCHANGED <<now, restoredCount, staleReplay, inputVars, queue, fellBack, filterVars>>

-----------------------------------------------------------------------------
Tick ==
  /\ now < MaxTime
  /\ now' = now + 1
  /\ UNCHANGED <<cycleVars, inputVars, queue, historyVars, outputVars, filterVars>>

Callback ==
  \/ PoseCallback \/ TwistCallback \/ OdometryCallback \/ ImuCallback
  \/ ControlCallback
  \/ SetPoseCallback
  \/ EnableFilterSrvCallback \/ ToggleFilterProcessingCallback

TimerStep ==
  \/ DiscardMeasurements \/ IntegrateNothing
  \/ BeginIntegration \/ BeginReplay
  \/ IntegrateMeasurement \/ EndIntegration
  \/ CloseCycle

Next == Callback \/ TimerStep \/ Tick

Spec == Init /\ [][Next]_vars

(* The clock advances and the executor keeps calling the timer. *)
FairSpec == Spec /\ WF_vars(Tick) /\ WF_vars(TimerStep)

-----------------------------------------------------------------------------
(* Properties.  Those of one configuration say so in their premise.        *)

InOrder(s) == \A i, j \in DOMAIN s : i < j => s[i].time <= s[j].time

(* With lag smoothing, as long as the history always reached back far enough
   for what was folded in, the estimate is what in-order processing would have made of the same
   measurements: each of them folded in once, in the order of their stamps
   (integrateMeasurements, revertTo). *)
ReplayIsExact ==
  SmoothLaggedData /\ ~fellBack => InOrder(estimate) /\ IsInjective(estimate)

(* The saved states that revertTo can choose: the last one of each stamp. *)
RevertPoints ==
  {stateHistory[n] : n \in {k \in 1..Len(stateHistory) :
     k < Len(stateHistory) => stateHistory[k].time < stateHistory[k + 1].time}}

(* Going back loses nothing: whatever the estimate has on top of a state that
   revertTo can choose is in the measurement history, later than that state,
   and nothing else is (revertTo, clearExpiredHistory, saveFilterState). *)
HistoryIsReplayable ==
  SmoothLaggedData /\ ~fellBack /\ phase # "integrate" =>
    \A s \in RevertPoints :
      /\ Range(s.estimate) \subseteq Fused
      /\ Fused \ Range(s.estimate) =
           {m \in Range(measurementHistory) : s.time < m.time}

(* A measurement is in one place only: waiting in the queue or kept in the
   history, never in both and never twice.  revertTo moves shared pointers
   from one container to the other. *)
OneHome ==
  /\ queue \cap Range(measurementHistory) = {}
  /\ IsInjective(measurementHistory)

(* After a set_pose nothing stamped at or before it is used again: not from
   the queue, not out of the history, not through a saved state. *)
SetPoseForgetsThePast ==
  LET Forgets(ms) == \A m \in ms : lastSetPoseTime < m.time
  IN /\ Forgets(queue)
     /\ Forgets(Fused)
     /\ Forgets(Range(measurementHistory))
     /\ \A s \in Range(stateHistory) : Forgets(Range(s.estimate))

(* The filter never runs ahead of the clock, so that no prediction is asked
   to go back in time, whatever the stamps in the messages are
   (integrateMeasurements calls predict with current_time minus that time). *)
FilterNotAheadOfClock ==
  /\ lastMeasurementTime <= now
  /\ phase = "integrate" => lastMeasurementTime <= currentTime

(* Two measurements of one channel are stamped in the order in which they
   arrived, whatever the replay or a set_pose did in between. *)
ChannelsKeepOrder ==
  \A m1, m2 \in queue \cup Fused :
    m1.channel = m2.channel /\ m1.id < m2.id => m1.time <= m2.time

(* Without smoothing, every measurement is folded in at most once. *)
FusedOnce ==
  ~SmoothLaggedData => IsInjective(estimate) /\ queue \cap Fused = {}

(* Once an estimate has gone out under the stamp of a measurement it is made
   of, only later stamps follow: a replay that goes back to before that stamp
   reaches it again before the cycle ends, also when the history is too short
   or a set_pose comes in between.  A stamp that only a prediction led to can
   be published again, or an earlier one after it, which the comment at the
   guard of periodicUpdate says should never happen. *)
DataStampsIncrease ==
  [][published' # published /\ ~PermitCorrectedPublication
     /\ (\E m \in Range(published.estimate) : m.time = published.stamp)
       => published.stamp < published'.stamp]_vars

(* A cycle that folds nothing new into the published estimate leaves it less
   than sensor_timeout behind the clock, by predicting if need be, unless a
   measurement waits for its time: then the queue is not empty, and the timeout
   not looked at. *)
TimeoutPredicts ==
  phase = "publish" /\ initialized /\ toggledOn /\ estimate = published.estimate =>
    \/ currentTime - lastMeasurementTime < SensorTimeout
    \/ \E m \in queue : currentTime < m.time

(* The filter predicts with the latest command received, also when what it
   folds in arrived under an earlier one.  Only a replay leaves an earlier one
   behind, and only when one of the measurements queued as it began arrived
   under an earlier one: the restored count runs over the first measurements
   folded in, the late ones among them, so the last one restored keeps the
   command of the one before. *)
ControlIsLatest == ~staleReplay => control = latestControl

(* Whatever is due is eventually folded in or discarded by an enabled node. *)
DueMeasurementsLeave ==
  (enabled /\ \E m \in queue : m.time <= now)
    ~> (\A m \in queue : m.time > now)

-----------------------------------------------------------------------------
(* What comments and documentation say of the node and the code does not do. *)

(* "revert to the last state prior to the lagged measurement, then process all
   measurements until the current time": no measurement is folded in twice,
   with or without enough history. *)
EachFusedOnce == SmoothLaggedData => IsInjective(estimate)

=============================================================================

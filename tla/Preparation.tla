----------------------------- MODULE Preparation -----------------------------
(***************************************************************************)
(* What src/src/ros_filter.cpp makes of the contents of a message before    *)
(* it becomes a measurement: preparePose with its absolute, differential    *)
(* and relative modes, prepareTwist and prepareAcceleration, and set_pose.  *)
(* RosFilter models when a measurement is folded in; this module models     *)
(* what it says.                                                            *)
(*                                                                         *)
(* One device, an odometry source or an IMU, looks at a robot that moves.   *)
(* Its parts share nothing with those of other devices but the estimate,    *)
(* which the timer changes (action Estimate).  Poses and velocities are     *)
(* those of PlanarTransforms.  The accelerometer is seen from the side: its *)
(* plane is spanned by forward and up, and its angle is the tilt.           *)
(***************************************************************************)
EXTENDS PlanarTransforms, Sequences

CONSTANTS
  Instants,        \* [pose, velocity, turn, tilt, acceleration]: states of the robot
  Setups,          \* configurations of the device, see SetupOf
  FrameTransform,  \* transform from each frame the device may use to the target frame
  Lean,            \* tilt of an accelerometer in each of these frames
  Estimates,       \* [turn, tilt]: what the filter may believe
  Requests,        \* [frame, pose]: set_pose in a frame of a pose of the target frame
  Gravity,         \* gravitational_acceleration_
  None, Blank, Target,
  MaxInstants, MaxMessages, MaxRequests

Frames == DOMAIN FrameTransform
Parts == {"pose", "twist", "acceleration"}
Axes == {"x", "y"}

(* Parts in use (update_sum_), mode of the pose, frame_id, child_frame_id,  *)
(* the axes in use (update_vector_), and whether gravity is to be taken off *)
(* accelerations (remove_gravitational_acceleration_, by default not).      *)
SetupOf ==
  [imu : BOOLEAN, parts : SUBSET Parts, mode : {"absolute", "differential", "relative"},
   frame : Frames \cup {Blank}, child : Frames \cup {Blank}, axes : SUBSET Axes,
   removeGravity : BOOLEAN]

Vector == [x : Int, y : Int, yaw : {0}]

ASSUME ConstantsAssumption ==
  /\ \A i \in Instants : /\ i.pose \in Transform /\ i.velocity \in Vector
                         /\ i.turn \in Int /\ i.tilt \in Yaws /\ i.acceleration \in Vector
  /\ Setups \subseteq SetupOf
  /\ \A s \in Setups : IF s.imu THEN s.child = s.frame ELSE s.parts \subseteq {"pose", "twist"}
  /\ FrameTransform \in [Frames -> Transform]
  /\ Lean \in [Frames -> Yaws]
  /\ Estimates \subseteq [turn : Int, tilt : Yaws]
  /\ Requests \subseteq [frame : Frames \cup {Blank}, pose : Transform]
  /\ Gravity \in Int
  /\ None \notin Transform /\ None \notin Int
  /\ Blank \notin Frames /\ Target \notin Frames /\ Blank # Target
  /\ MaxInstants \in Nat /\ MaxMessages \in Nat /\ MaxRequests \in Nat

VARIABLES
  setup,                 \* configuration of the device
  trajectory,            \* what happened: sequence of [is, stamp]
  known,                 \* frames in tf_buffer_
  estimate,              \* turn rate and attitude in filter_.getState()
  statePose,             \* pose in filter_.getState(), once set by set_pose
  lastSetPoseTime,       \* last_set_pose_time_
  lastMessageTimes,      \* last_message_times_
  previousMeasurement,   \* previous_measurements_[topic_name]
  initialMeasurement,    \* initial_measurements_[topic_name]
  prepared,              \* instants whose pose was prepared since set_pose
  queued,                \* measurements of each part enqueued since set_pose
  messages, requests     \* how many there were

vars == <<setup, trajectory, known, estimate, statePose, lastSetPoseTime,
          lastMessageTimes, previousMeasurement, initialMeasurement, prepared,
          queued, messages, requests>>

filter == <<statePose, lastSetPoseTime, lastMessageTimes, previousMeasurement,
            initialMeasurement, prepared, queued>>

-----------------------------------------------------------------------------
(* The device.                                                              *)

True(i) == trajectory[i].is
Stamp(i) == trajectory[i].stamp

(* w x r: the velocity of a point at r of a body that turns at rate w.      *)
LeverArm(turn, r) == At(-turn * r.y, turn * r.x)

Plus(u, v) == At(u.x + v.x, u.y + v.y)
Minus(u, v) == At(u.x - v.x, u.y - v.y)

(* How the device's frame lies in the target frame; a blank frame is the    *)
(* target frame itself.                                                     *)
Mount(frame) == IF frame = Blank THEN Identity ELSE FrameTransform[frame]
Tilted(frame) == IF frame = Blank THEN 0 ELSE Lean[frame]

(* An odometry source reports its pose in its own fixed frame, an IMU its   *)
(* own orientation in the fixed frame.                                      *)
ReportedPose(i) ==
  IF setup.imu
  THEN Facing(Identity, Clamp(True(i).pose.yaw + Mount(setup.frame).yaw))
  ELSE Mult(InverseOf[Mount(setup.frame)], True(i).pose)

(* The velocity of the point where the sensor sits, in the sensor's frame;  *)
(* an IMU reports none.                                                     *)
ReportedVelocity(i) ==
  LET mount == Mount(setup.child)
  IN IF setup.imu THEN At(0, 0)
     ELSE Rotate(Clamp(-mount.yaw),
                 Plus(True(i).velocity, LeverArm(True(i).turn, mount)))

(* Acceleration and the force that holds the robot up, in the sensor's frame. *)
ReportedAcceleration(i) ==
  Rotate(Clamp(-(True(i).tilt + Tilted(setup.frame))),
         Plus(True(i).acceleration, At(0, Gravity)))

ReportedTilt(i) == Clamp(True(i).tilt + Tilted(setup.frame))

-----------------------------------------------------------------------------
(* lookupTransformSafe: a frame once known stays known, and a frame is      *)
(* always known to itself.                                                  *)
CanTransform(frame) == frame = Target \/ frame \in known
TransformFrom(frame) == IF frame = Target THEN Identity ELSE FrameTransform[frame]

(* The update vector goes through the rotation with the measurement.        *)
Turned(axes, yaw) ==
  IF yaw \in {1, 3} THEN {IF axis = "x" THEN "y" ELSE "x" : axis \in axes} ELSE axes

PoseFrameOfMessage == setup.frame

(* The frame preparePose takes the data to be in.                           *)
PoseFrame ==
  IF setup.mode = "differential" /\ ~setup.imu THEN Target ELSE setup.frame

(* The mounting of an IMU is taken off its orientation here, and no other   *)
(* transform is applied later.                                              *)
PoseTmp(i) ==
  IF setup.imu
  THEN Facing(Identity, Clamp(ReportedPose(i).yaw - TransformFrom(PoseFrame).yaw))
  ELSE ReportedPose(i)

TargetFrameTransAlways == TransformFrom(PoseFrame)

TargetFrameTrans == IF setup.imu THEN Identity ELSE TransformFrom(PoseFrame)

(* The change since the previous message, and the time it is divided by.    *)
Delta(i) ==
  Mult(Facing(Identity, TargetFrameTrans.yaw), Mult(InverseOf[previousMeasurement], PoseTmp(i)))

TimeOfLast(part, i) ==
  IF lastMessageTimes[part] = None THEN Stamp(i) ELSE lastMessageTimes[part]

InitialReplaced(i) == PoseTmp(i)

Initial(i) == IF initialMeasurement = None THEN PoseTmp(i) ELSE initialMeasurement

(* A measurement with the instant it is of and the turn rate and tilt it    *)
(* relies on, which the properties refer to.                                *)
Measurement(i, value, over, believed, axes) ==
  [sample |-> i, value |-> value, over |-> over, believed |-> believed, axes |-> axes]

(* The measurement preparePose makes, if any: <<>> is its return of false.  *)
PreparedPose(i) ==
  LET axes == Turned(setup.axes, TransformFrom(PoseFrame).yaw)
      Pose(value, over) == <<Measurement(i, value, over, estimate, axes)>>
  IN CASE ~CanTransform(PoseFrame) -> <<>>
       [] CanTransform(PoseFrame) /\ setup.mode = "differential" ->
            IF previousMeasurement = None THEN <<>>
            ELSE Pose(Delta(i), Stamp(i) - TimeOfLast("pose", i))
       [] CanTransform(PoseFrame) /\ setup.mode = "relative" ->
            Pose(Mult(TargetFrameTrans, Mult(InverseOf[Initial(i)], PoseTmp(i))), 1)
       [] CanTransform(PoseFrame) /\ setup.mode = "absolute" ->
            Pose(Mult(TargetFrameTrans, PoseTmp(i)), 1)

(* A blank frame is taken for the target frame, here and below.             *)
SensorFrame(frame) == IF frame = Blank THEN Target ELSE frame

VelocityWithLeverArm(trans, v) == Plus(Rotate(trans.yaw, v), LeverArm(estimate.turn, trans))

(* The turn rate for the lever arm is the estimate's, not the message's.    *)
VelocityAtOrigin(trans, v) == Minus(Rotate(trans.yaw, v), LeverArm(estimate.turn, trans))

PreparedTwist(i) ==
  LET frame == SensorFrame(setup.child)
      trans == TransformFrom(frame)
  IN IF CanTransform(frame)
     THEN <<Measurement(i,
              VelocityAtOrigin(trans, ReportedVelocity(i)), 1, estimate,
              Turned(setup.axes, trans.yaw))>>
     ELSE <<>>

RotNormForward(attitude) == Rotate(attitude, At(0, Gravity))

(* Gravity in a frame of the given attitude.                                *)
RotNorm(attitude) == Rotate(Clamp(-attitude), At(0, Gravity))

(* If gravity is to be taken off, that is done with the message's           *)
(* orientation if there is one, and otherwise with the estimate's, turned   *)
(* by the mounting.                                                         *)
PreparedAcceleration(i, oriented) ==
  LET frame == SensorFrame(setup.frame)
      lean == IF frame = Target THEN 0 ELSE Lean[frame]
      attitude == IF oriented THEN ReportedTilt(i) ELSE Clamp(estimate.tilt + lean)
      believed == [estimate EXCEPT !.tilt = IF oriented THEN True(i).tilt ELSE @]
      removed == IF setup.removeGravity THEN RotNorm(attitude) ELSE At(0, 0)
  IN IF CanTransform(frame)
     THEN <<Measurement(i,
              Rotate(lean, Minus(ReportedAcceleration(i), removed)),
              1, believed, Turned(setup.axes, lean))>>
     ELSE <<>>

-----------------------------------------------------------------------------
(* poseCallback, twistCallback and accelerationCallback for the parts that  *)
(* odometryCallback and imuCallback find in a message.                      *)
Newer(part, i) == TimeOfLast(part, i) <= Stamp(i)

Heard(parts, part, i) == part \in parts /\ Newer(part, i)

Prepared(part, i, oriented) ==
  CASE part = "pose" -> PreparedPose(i)
    [] part = "twist" -> PreparedTwist(i)
    [] part = "acceleration" -> PreparedAcceleration(i, oriented)

Enqueued(parts, i, oriented) ==
  [part \in Parts |-> IF Heard(parts, part, i) THEN queued[part] \o Prepared(part, i, oriented)
                      ELSE queued[part]]

Receive(parts, i, oriented) ==
  /\ messages < MaxMessages
  /\ messages' = messages + 1
  /\ IF lastSetPoseTime >= Stamp(i) THEN UNCHANGED filter
     ELSE /\ lastMessageTimes' = [part \in Parts |->
               IF Heard(parts, part, i) THEN Stamp(i) ELSE lastMessageTimes[part]]
          /\ queued' = Enqueued(parts, i, oriented)
          /\ IF Heard(parts, "pose", i) /\ CanTransform(PoseFrame)
             THEN /\ previousMeasurement' =
                       IF setup.mode = "differential" THEN PoseTmp(i) ELSE previousMeasurement
                  /\ initialMeasurement' =
                       IF setup.mode = "relative" THEN Initial(i) ELSE initialMeasurement
                  /\ prepared' = Append(prepared, i)
             ELSE UNCHANGED <<previousMeasurement, initialMeasurement, prepared>>
          /\ UNCHANGED <<statePose, lastSetPoseTime>>
  /\ UNCHANGED <<setup, trajectory, known, estimate, requests>>

(* Messages may come late, twice, in any order or not at all.               *)
OdometryCallback ==
  /\ ~setup.imu
  /\ \E i \in DOMAIN trajectory : Receive(setup.parts, i, FALSE)

(* An IMU marks what it does not measure with a covariance of -1.           *)
ImuCallback ==
  /\ setup.imu
  /\ \E i \in DOMAIN trajectory, missing \in SUBSET ({"pose"} \cup setup.parts) :
       Receive(setup.parts \ missing, i, "pose" \notin missing)

(* The request gives a pose in some frame; preparePose takes it to the      *)
(* world frame, and what it leaves alone stays zero.                        *)
SetPoseCallback(request, stamp) ==
  /\ requests < MaxRequests
  /\ requests' = requests + 1
  /\ statePose' = IF CanTransform(request.frame)
                  THEN Mult(TransformFrom(request.frame),
                            Mult(InverseOf[Mount(request.frame)], request.pose))
                  ELSE Identity
  /\ lastSetPoseTime' = stamp
  /\ previousMeasurement' = None
  /\ initialMeasurement' = None
  /\ prepared' = <<>>
  /\ queued' = [part \in Parts |-> <<>>]
  /\ UNCHANGED <<setup, trajectory, known, estimate, lastMessageTimes, messages>>

-----------------------------------------------------------------------------
(* The robot moves; stamps are coarse enough for two instants to share one. *)
Move(is, tick) ==
  /\ Len(trajectory) < MaxInstants
  /\ trajectory' = Append(trajectory,
       [is |-> is, stamp |-> trajectory[Len(trajectory)].stamp + tick])
  /\ UNCHANGED <<setup, known, estimate, messages, requests>> /\ UNCHANGED filter

FrameBecomesKnown(frame) ==
  /\ frame \notin known
  /\ known' = known \cup {frame}
  /\ UNCHANGED <<setup, trajectory, estimate, messages, requests>> /\ UNCHANGED filter

(* The timer: the estimate may be behind the robot or wrong.                *)
Estimate(e) ==
  /\ estimate' = e
  /\ e # estimate
  /\ UNCHANGED <<setup, trajectory, known, messages, requests>> /\ UNCHANGED filter

Init ==
  /\ setup \in Setups
  /\ trajectory \in {<<[is |-> is, stamp |-> 1]>> : is \in Instants}
  /\ known = {}
  /\ estimate \in Estimates
  /\ statePose = None
  /\ lastSetPoseTime = 0
  /\ lastMessageTimes = [part \in Parts |-> None]
  /\ previousMeasurement = None /\ initialMeasurement = None
  /\ prepared = <<>> /\ queued = [part \in Parts |-> <<>>]
  /\ messages = 0 /\ requests = 0

Next ==
  \/ OdometryCallback
  \/ ImuCallback
  \/ \E request \in Requests, i \in DOMAIN trajectory : SetPoseCallback(request, Stamp(i))
  \/ \E is \in Instants, tick \in {0, 1} : Move(is, tick)
  \/ \E frame \in {setup.frame, setup.child} \ {Blank} : FrameBecomesKnown(frame)
  \/ \E e \in Estimates : Estimate(e)

Spec == Init /\ [][Next]_vars

-----------------------------------------------------------------------------
(* Properties.                                                              *)

MeasurementOf ==
  [sample : DOMAIN trajectory, value : Transform, over : Nat,
   believed : [turn : Int, tilt : Yaws], axes : SUBSET Axes]

(* Every variable keeps to its type.                                        *)
TypeOK ==
  /\ setup \in Setups
  /\ trajectory \in Seq([is : Instants, stamp : Nat]) /\ trajectory # <<>>
  /\ known \subseteq Frames
  /\ estimate \in Estimates
  /\ statePose \in Transform \cup {None}
  /\ lastSetPoseTime \in Nat
  /\ lastMessageTimes \in [Parts -> Nat \cup {None}]
  /\ previousMeasurement \in Transform \cup {None}
  /\ initialMeasurement \in Transform \cup {None}
  /\ prepared \in Seq(DOMAIN trajectory)
  /\ queued \in [Parts -> Seq(MeasurementOf)]
  /\ messages \in 0..MaxMessages /\ requests \in 0..MaxRequests

(* The part of a pose an IMU knows.                                         *)
Seen(pose) == IF setup.imu THEN Facing(Identity, pose.yaw) ELSE pose

(* Body motion from one instant to another, as the device can see it.       *)
Motion(i, j) == Mult(InverseOf[Seen(True(i).pose)], Seen(True(j).pose))

Unit(axis) == IF axis = "x" THEN At(1, 0) ELSE At(0, 1)

(* The axes that something along the given axes shows along once turned.    *)
ShownAlong(axes, yaw) ==
  {axis \in Axes : \E used \in axes : Rotate(yaw, Unit(used))[axis] # 0}

(* preparePose, absolute: the measurement is where the robot really was,    *)
(* whatever frame or mounting the message came from, and the axes in use    *)
(* are those that what was configured of the message tells something about. *)
PosesAreTrue ==
  setup.mode = "absolute" =>
    \A k \in DOMAIN queued["pose"] :
      LET m == queued["pose"][k]
      IN /\ m.value = Seen(True(m.sample).pose)
         /\ ~setup.imu => m.axes = ShownAlong(setup.axes, Mount(setup.frame).yaw)

(* preparePose, relative: between any two measurements since the last       *)
(* set_pose lies the robot's real motion, across late, lost and repeated    *)
(* messages, although each was made relative to the first one.              *)
RelativeMotionIsTrue ==
  setup.mode = "relative" =>
    \A k, l \in DOMAIN queued["pose"] :
      LET m == queued["pose"][k]
          n == queued["pose"][l]
      IN Mult(InverseOf[m.value], n.value) = Motion(m.sample, n.sample)

(* preparePose, differential: the velocities lead from each prepared pose   *)
(* to the next, each over the time between the two stamps, so that they add *)
(* up to the whole motion since the first one.  previous_measurements_ and  *)
(* last_message_times_ are written in two functions, under two conditions,  *)
(* and must stay in step.  Two poses of one stamp make a velocity over no   *)
(* time, which the filter refuses.                                          *)
DisplacementsAddUp ==
  setup.mode = "differential" =>
    LET velocities == queued["pose"]
    IN /\ Len(velocities) = IF prepared = <<>> THEN 0 ELSE Len(prepared) - 1
       /\ \A k \in DOMAIN velocities :
            LET i == prepared[k]
                j == prepared[k + 1]
            IN /\ velocities[k].value = Motion(i, j)
               /\ velocities[k].over = Stamp(j) - Stamp(i)

(* prepareTwist: the velocity is the robot's own up to the offset of the    *)
(* sensor times the error of the estimated turn rate.                       *)
TwistErrorIsLeverArm ==
  ~setup.imu =>
    \A k \in DOMAIN queued["twist"] :
      LET m == queued["twist"][k]
      IN Minus(m.value, True(m.sample).velocity) =
           LeverArm(True(m.sample).turn - m.believed.turn, Mount(setup.child))

(* prepareAcceleration: what is left of gravity is the difference between   *)
(* gravity in the true attitude and in the one relied on, and all of it     *)
(* unless it is to be taken off; the rest is the robot's acceleration along *)
(* its own axes, whatever the mounting.                                     *)
GravityErrorIsAttitude ==
  \A k \in DOMAIN queued["acceleration"] :
    LET m == queued["acceleration"][k]
        Felt(tilt, v) == Rotate(Clamp(-tilt), v)
        up == At(0, Gravity)
        tilt == True(m.sample).tilt
    IN Minus(m.value, Felt(tilt, True(m.sample).acceleration)) =
         Minus(Felt(tilt, up),
               IF setup.removeGravity THEN Felt(m.believed.tilt, up) ELSE At(0, 0))

=============================================================================

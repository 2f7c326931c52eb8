-------------------------- MODULE PreparationProofs --------------------------
(***************************************************************************)
(* Theorems about Preparation, for every device, mounting, trajectory and  *)
(* estimate: what a measurement says of the robot is true, whatever the    *)
(* frame and the mode of preparePose it went through.                      *)
(***************************************************************************)
EXTENDS Preparation, PlanarTransformsProofs

-----------------------------------------------------------------------------
(* The device and what it sees.                                            *)

LEMMA MountType ==
  ASSUME NEW frame \in Frames \cup {Blank}
  PROVE  Mount(frame) \in Transform /\ Tilted(frame) \in Yaws
<1>1. CASE frame = Blank
  BY <1>1, IdentityType DEF Mount, Tilted, Yaws
<1>2. CASE frame # Blank
  <2>1. frame \in Frames
    BY <1>2
  <2>2. FrameTransform[frame] \in Transform /\ Lean[frame] \in Yaws
    BY <2>1, ConstantsAssumption
  <2> QED  BY <1>2, <2>2 DEF Mount, Tilted
<1> QED  BY <1>1, <1>2

(* A frame that lookupTransformSafe knows has its mounting for a transform;
   a blank frame is never known. *)
LEMMA KnownFrame ==
  ASSUME known \subseteq Frames, NEW frame \in Frames \cup {Blank}, CanTransform(frame)
  PROVE  frame \in Frames /\ TransformFrom(frame) = Mount(frame)
  BY ConstantsAssumption DEF CanTransform, TransformFrom, Mount

LEMMA KnownSensorFrame ==
  ASSUME known \subseteq Frames, NEW frame \in Frames \cup {Blank},
         CanTransform(SensorFrame(frame))
  PROVE  /\ TransformFrom(SensorFrame(frame)) = Mount(frame)
         /\ (IF SensorFrame(frame) = Target THEN 0 ELSE Lean[SensorFrame(frame)]) = Tilted(frame)
<1>1. CASE frame = Blank
  BY <1>1 DEF SensorFrame, TransformFrom, Mount, Tilted
<1>2. CASE frame # Blank
  BY <1>2, KnownFrame, ConstantsAssumption DEF SensorFrame, Mount, Tilted
<1> QED  BY <1>1, <1>2

(* The frames of the device. *)
LEMMA SetupIs ==
  ASSUME TypeOK
  PROVE  /\ setup \in SetupOf
         /\ setup.frame \in Frames \cup {Blank} /\ setup.child \in Frames \cup {Blank}
         /\ setup.parts \subseteq Parts /\ setup.axes \subseteq Axes
         /\ setup.mode \in {"absolute", "differential", "relative"}
         /\ setup.imu \in BOOLEAN
<1>1. setup \in SetupOf
  BY ConstantsAssumption DEF TypeOK
<1> QED  BY <1>1 DEF SetupOf

LEMMA PositionIs ==
  ASSUME NEW v \in Vector
  PROVE  v \in Transform /\ v.x \in Int /\ v.y \in Int
  BY DEF Vector, Transform, Yaws

LEMMA InstantIs ==
  ASSUME TypeOK, NEW i \in DOMAIN trajectory
  PROVE  /\ True(i) \in Instants /\ Stamp(i) \in Nat
         /\ True(i).pose \in Transform /\ True(i).pose.yaw \in Yaws
         /\ True(i).velocity \in Transform /\ True(i).acceleration \in Transform
         /\ True(i).turn \in Int /\ True(i).tilt \in Yaws
<1>1. trajectory[i] \in [is : Instants, stamp : Nat]
  <2> DEFINE S == [is : Instants, stamp : Nat]
  <2>1. trajectory \in Seq(S)
    BY DEF TypeOK
  <2> HIDE DEF S
  <2>2. trajectory[i] \in S
    BY <2>1
  <2> QED  BY <2>2 DEF S
<1>2. True(i) \in Instants /\ Stamp(i) \in Nat
  BY <1>1 DEF True, Stamp
<1>3. /\ True(i).pose \in Transform /\ True(i).velocity \in Vector
      /\ True(i).acceleration \in Vector /\ True(i).turn \in Int /\ True(i).tilt \in Yaws
  BY <1>2, ConstantsAssumption
<1> QED  BY <1>2, <1>3, PositionIs, FieldsOf

LEMMA EstimateIs ==
  ASSUME TypeOK
  PROVE  estimate \in [turn : Int, tilt : Yaws] /\ estimate.turn \in Int /\ estimate.tilt \in Yaws
<1>1. estimate \in [turn : Int, tilt : Yaws]
  BY ConstantsAssumption DEF TypeOK
<1> QED  BY <1>1

LEMMA PlusIs ==
  ASSUME NEW u \in Transform, NEW v \in Transform
  PROVE  /\ Plus(u, v) \in Transform
         /\ Plus(u, v).x = u.x + v.x /\ Plus(u, v).y = u.y + v.y /\ Plus(u, v).yaw = 0
  BY FieldsOf, AtIs DEF Plus, At

LEMMA MinusIs ==
  ASSUME NEW u \in Transform, NEW v \in Transform
  PROVE  /\ Minus(u, v) \in Transform
         /\ Minus(u, v).x = u.x - v.x /\ Minus(u, v).y = u.y - v.y /\ Minus(u, v).yaw = 0
  BY FieldsOf, AtIs DEF Minus, At

LEMMA ProductIsInt == \A n, m \in Int : n * m \in Int
  OBVIOUS

LEMMA LeverArmIs ==
  ASSUME NEW turn \in Int, NEW r \in Transform
  PROVE  /\ LeverArm(turn, r) \in Transform
         /\ LeverArm(turn, r).x = -turn * r.y /\ LeverArm(turn, r).y = turn * r.x
         /\ LeverArm(turn, r).yaw = 0
<1>1. r.x \in Int /\ r.y \in Int /\ -turn \in Int
  BY FieldsOf
<1>2. -turn * r.y \in Int /\ turn * r.x \in Int
  BY <1>1, ProductIsInt
<1> QED  BY <1>2, AtIs DEF LeverArm, At

LEMMA GravityIs ==
  /\ At(0, Gravity) \in Transform
  /\ \A yaw \in Yaws : Rotate(yaw, At(0, Gravity)) \in Transform
<1>1. At(0, Gravity) \in Transform
  BY AtIs, ConstantsAssumption
<1> QED  BY <1>1, RotateIs

-----------------------------------------------------------------------------
(* What preparePose makes of a reported pose.                              *)

LEMMA SeenIs ==
  ASSUME TypeOK, NEW pose \in Transform
  PROVE  Seen(pose) \in Transform
  BY IdentityType, FacingIs, FieldsOf DEF Seen

LEMMA MountingComesOff ==
  \A y, m \in Yaws : Clamp(Clamp(y + m) - m) = y
  BY DEF Clamp, Yaws

(* An IMU gives the orientation of the robot itself. *)
LEMMA PoseOfImu ==
  ASSUME TypeOK, NEW i \in DOMAIN trajectory, setup.imu, CanTransform(PoseFrame)
  PROVE  PoseTmp(i) = Seen(True(i).pose) /\ PoseTmp(i) \in Transform
<1> DEFINE yaw == True(i).pose.yaw
           mount == Mount(setup.frame)
<1>1. /\ yaw \in Yaws /\ True(i).pose \in Transform
      /\ mount \in Transform /\ mount.yaw \in Yaws
  BY InstantIs, SetupIs, MountType, FieldsOf
<1>2. PoseFrame = setup.frame /\ TransformFrom(PoseFrame) = mount
  <2>1. PoseFrame = setup.frame
    BY DEF PoseFrame
  <2>2. CanTransform(setup.frame) /\ known \subseteq Frames
    BY <2>1 DEF TypeOK
  <2> QED  BY <2>1, <2>2, SetupIs, KnownFrame
<1>3. ReportedPose(i).yaw = Clamp(yaw + mount.yaw)
  BY DEF ReportedPose, Facing
<1>4. PoseTmp(i) = Facing(Identity, Clamp(ReportedPose(i).yaw - TransformFrom(PoseFrame).yaw))
  BY DEF PoseTmp
<1> HIDE DEF yaw, mount
<1>5. PoseTmp(i) = Facing(Identity, yaw)
  BY <1>1, <1>2, <1>3, <1>4, MountingComesOff
<1>6. Seen(True(i).pose) = Facing(Identity, yaw)
  BY DEF Seen, yaw
<1> QED  BY <1>1, <1>5, <1>6, IdentityType, FacingIs

(* An odometry source gives it in its own fixed frame. *)
LEMMA PoseOfOdometry ==
  ASSUME TypeOK, NEW i \in DOMAIN trajectory, ~setup.imu
  PROVE  /\ PoseTmp(i) = Mult(InverseOf[Mount(setup.frame)], Seen(True(i).pose))
         /\ InverseOf[Mount(setup.frame)] \in Transform
         /\ PoseTmp(i) \in Transform
<1>1. Mount(setup.frame) \in Transform /\ True(i).pose \in Transform
  BY SetupIs, MountType, InstantIs
<1>2. InverseOf[Mount(setup.frame)] \in Transform
  BY <1>1, InverseType
<1>3. PoseTmp(i) = Mult(InverseOf[Mount(setup.frame)], True(i).pose)
  BY DEF PoseTmp, ReportedPose
<1>4. Seen(True(i).pose) = True(i).pose
  BY DEF Seen
<1> QED  BY <1>1, <1>2, <1>3, <1>4, MultType

LEMMA PoseTmpType ==
  ASSUME TypeOK, NEW i \in DOMAIN trajectory, CanTransform(PoseFrame)
  PROVE  PoseTmp(i) \in Transform
  BY PoseOfImu, PoseOfOdometry

(* Between two poses of the same device lies the motion of the robot: the
   mounting cancels out. *)
LEMMA MotionBetween ==
  ASSUME TypeOK, NEW i \in DOMAIN trajectory, NEW j \in DOMAIN trajectory,
         CanTransform(PoseFrame)
  PROVE  Mult(InverseOf[PoseTmp(i)], PoseTmp(j)) = Motion(i, j)
<1>1. CASE setup.imu
  BY <1>1, PoseOfImu DEF Motion
<1>2. CASE ~setup.imu
  <2> DEFINE c == InverseOf[Mount(setup.frame)]
             a == Seen(True(i).pose)
             b == Seen(True(j).pose)
  <2>1. a \in Transform /\ b \in Transform
    BY InstantIs, SeenIs
  <2>2. c \in Transform /\ PoseTmp(i) = Mult(c, a) /\ PoseTmp(j) = Mult(c, b)
    BY <1>2, PoseOfOdometry
  <2>3. Motion(i, j) = Mult(InverseOf[a], b)
    BY DEF Motion
  <2> HIDE DEF a, b, c
  <2> QED  BY <2>1, <2>2, <2>3, CommonFactor
<1> QED  BY <1>1, <1>2

LEMMA TargetFrameTransIs ==
  ASSUME TypeOK, CanTransform(PoseFrame)
  PROVE  /\ TargetFrameTrans \in Transform
         /\ setup.imu => TargetFrameTrans = Identity
         /\ setup.mode = "differential" => TargetFrameTrans = Identity
         /\ ~setup.imu /\ setup.mode # "differential" => TargetFrameTrans = Mount(setup.frame)
<1>1. CASE setup.imu
  BY <1>1, IdentityType DEF TargetFrameTrans
<1>2. CASE ~setup.imu /\ setup.mode = "differential"
  BY <1>2, IdentityType DEF TargetFrameTrans, PoseFrame, TransformFrom
<1>3. CASE ~setup.imu /\ setup.mode # "differential"
  <2>1. PoseFrame = setup.frame
    BY <1>3 DEF PoseFrame
  <2>2. TransformFrom(setup.frame) = Mount(setup.frame)
    BY <2>1, SetupIs, KnownFrame DEF TypeOK
  <2> QED  BY <1>3, <2>1, <2>2, SetupIs, MountType DEF TargetFrameTrans
<1> QED  BY <1>1, <1>2, <1>3

(* absolute: the mounting that the report lacks is put back. *)
LEMMA AbsolutePose ==
  ASSUME TypeOK, NEW i \in DOMAIN trajectory, CanTransform(PoseFrame), setup.mode = "absolute"
  PROVE  Mult(TargetFrameTrans, PoseTmp(i)) = Seen(True(i).pose)
<1>1. Seen(True(i).pose) \in Transform
  BY InstantIs, SeenIs
<1>2. CASE setup.imu
  BY <1>1, <1>2, PoseOfImu, TargetFrameTransIs, IdentityLeft
<1>3. CASE ~setup.imu
  <2> DEFINE mount == Mount(setup.frame)
             pose == Seen(True(i).pose)
  <2>1. mount \in Transform /\ TargetFrameTrans = mount
    BY <1>3, SetupIs, MountType, TargetFrameTransIs
  <2>2. PoseTmp(i) = Mult(InverseOf[mount], pose)
    BY <1>3, PoseOfOdometry
  <2> HIDE DEF mount, pose
  <2>3. Mult(mount, Mult(InverseOf[mount], pose)) = pose
    BY <1>1, <2>1, InverseTakesOff DEF pose
  <2> QED  BY <2>1, <2>2, <2>3 DEF pose
<1> QED  BY <1>2, <1>3

(* differential: the change since the pose before is the robot's motion. *)
LEMMA DifferentialPose ==
  ASSUME TypeOK, NEW i \in DOMAIN trajectory, NEW j \in DOMAIN trajectory,
         CanTransform(PoseFrame), setup.mode = "differential",
         previousMeasurement = PoseTmp(i)
  PROVE  Delta(j) = Motion(i, j)
<1>1. TargetFrameTrans = Identity
  BY TargetFrameTransIs
<1>2. Facing(Identity, TargetFrameTrans.yaw) = Identity
  BY <1>1 DEF Facing, Identity, At
<1>3. InverseOf[PoseTmp(i)] \in Transform /\ PoseTmp(j) \in Transform
  BY PoseTmpType, InverseType
<1>4. Mult(InverseOf[PoseTmp(i)], PoseTmp(j)) \in Transform
  BY <1>3, MultType
<1>5. Delta(j) = Mult(Identity, Mult(InverseOf[PoseTmp(i)], PoseTmp(j)))
  BY <1>2 DEF Delta
<1> QED  BY <1>4, <1>5, IdentityLeft, MotionBetween

LEMMA MotionType ==
  ASSUME TypeOK, NEW i \in DOMAIN trajectory, NEW j \in DOMAIN trajectory
  PROVE  Motion(i, j) \in Transform
  BY InstantIs, SeenIs, InverseType, MultType DEF Motion

LEMMA DeltaType ==
  ASSUME TypeOK, NEW i \in DOMAIN trajectory, CanTransform(PoseFrame),
         previousMeasurement # None
  PROVE  Delta(i) \in Transform
<1>1. /\ TargetFrameTrans \in Transform /\ TargetFrameTrans.yaw \in Yaws
      /\ previousMeasurement \in Transform /\ PoseTmp(i) \in Transform
  BY TargetFrameTransIs, FieldsOf, PoseTmpType DEF TypeOK
<1>2. Facing(Identity, TargetFrameTrans.yaw) \in Transform
  BY <1>1, IdentityType, FacingIs
<1> QED  BY <1>1, <1>2, InverseType, MultType DEF Delta

(* relative: two measurements made relative to the same pose differ by what
   lies between their own poses. *)
LEMMA RelativePoses ==
  ASSUME NEW trans \in Transform, NEW first \in Transform,
         NEW p \in Transform, NEW q \in Transform
  PROVE  Mult(InverseOf[Mult(trans, Mult(InverseOf[first], p))],
              Mult(trans, Mult(InverseOf[first], q))) = Mult(InverseOf[p], q)
<1>1. InverseOf[first] \in Transform
  BY InverseType
<1>2. Mult(InverseOf[first], p) \in Transform /\ Mult(InverseOf[first], q) \in Transform
  BY <1>1, MultType
<1> QED  BY <1>1, <1>2, CommonFactor

-----------------------------------------------------------------------------
(* The measurements that a message gives rise to.                          *)

PoseMeasurement(i, value, over) ==
  Measurement(i, value, over, estimate, Turned(setup.axes, TransformFrom(PoseFrame).yaw))

TwistMeasurement(i) ==
  Measurement(i, VelocityAtOrigin(Mount(setup.child), ReportedVelocity(i)), 1, estimate,
              Turned(setup.axes, Mount(setup.child).yaw))

Attitude(i, oriented) ==
  IF oriented THEN ReportedTilt(i) ELSE Clamp(estimate.tilt + Tilted(setup.frame))

Believed(i, oriented) ==
  [estimate EXCEPT !.tilt = IF oriented THEN True(i).tilt ELSE @]

(* What is taken off an acceleration for gravity. *)
Removed(i, oriented) ==
  IF setup.removeGravity THEN RotNorm(Attitude(i, oriented)) ELSE At(0, 0)

AccelerationMeasurement(i, oriented) ==
  Measurement(i,
    Rotate(Tilted(setup.frame), Minus(ReportedAcceleration(i), Removed(i, oriented))),
    1, Believed(i, oriented), Turned(setup.axes, Tilted(setup.frame)))

LEMMA TurnedAxes ==
  ASSUME NEW axes \in SUBSET Axes, NEW yaw
  PROVE  Turned(axes, yaw) \in SUBSET Axes
  BY DEF Turned, Axes

LEMMA MeasurementIs ==
  ASSUME NEW i \in DOMAIN trajectory, NEW value \in Transform, NEW over \in Nat,
         NEW believed \in [turn : Int, tilt : Yaws], NEW axes \in SUBSET Axes
  PROVE  Measurement(i, value, over, believed, axes) \in MeasurementOf
  BY DEF Measurement, MeasurementOf

LEMMA PreparedPoseIs ==
  ASSUME TypeOK, NEW i \in DOMAIN trajectory
  PROVE  /\ ~CanTransform(PoseFrame) => PreparedPose(i) = <<>>
         /\ CanTransform(PoseFrame) /\ setup.mode = "differential" /\ previousMeasurement = None
              => PreparedPose(i) = <<>>
         /\ CanTransform(PoseFrame) /\ setup.mode = "differential" /\ previousMeasurement # None
              => PreparedPose(i) =
                   <<PoseMeasurement(i, Delta(i), Stamp(i) - TimeOfLast("pose", i))>>
         /\ CanTransform(PoseFrame) /\ setup.mode = "relative"
              => PreparedPose(i) =
                   <<PoseMeasurement(i,
                       Mult(TargetFrameTrans, Mult(InverseOf[Initial(i)], PoseTmp(i))), 1)>>
         /\ CanTransform(PoseFrame) /\ setup.mode = "absolute"
              => PreparedPose(i) = <<PoseMeasurement(i, Mult(TargetFrameTrans, PoseTmp(i)), 1)>>
<1>1. setup.mode \in {"absolute", "differential", "relative"}
  BY SetupIs
<1>2. CASE ~CanTransform(PoseFrame)
  BY <1>2 DEF PreparedPose
<1>3. CASE CanTransform(PoseFrame) /\ setup.mode = "differential"
  BY <1>3 DEF PreparedPose, PoseMeasurement
<1>4. CASE CanTransform(PoseFrame) /\ setup.mode = "relative"
  BY <1>4 DEF PreparedPose, PoseMeasurement
<1>5. CASE CanTransform(PoseFrame) /\ setup.mode = "absolute"
  BY <1>5 DEF PreparedPose, PoseMeasurement
<1> QED  BY <1>1, <1>2, <1>3, <1>4, <1>5

LEMMA PreparedTwistIs ==
  ASSUME TypeOK, NEW i \in DOMAIN trajectory
  PROVE  PreparedTwist(i) = <<>> \/ PreparedTwist(i) = <<TwistMeasurement(i)>>
<1>1. CASE ~CanTransform(SensorFrame(setup.child))
  BY <1>1 DEF PreparedTwist
<1>2. CASE CanTransform(SensorFrame(setup.child))
  <2>1. TransformFrom(SensorFrame(setup.child)) = Mount(setup.child)
    BY <1>2, SetupIs, KnownSensorFrame DEF TypeOK
  <2> QED  BY <1>2, <2>1 DEF PreparedTwist, TwistMeasurement
<1> QED  BY <1>1, <1>2

LEMMA PreparedAccelerationIs ==
  ASSUME TypeOK, NEW i \in DOMAIN trajectory, NEW oriented \in BOOLEAN
  PROVE  \/ PreparedAcceleration(i, oriented) = <<>>
         \/ PreparedAcceleration(i, oriented) = <<AccelerationMeasurement(i, oriented)>>
<1> DEFINE frame == SensorFrame(setup.frame)
           lean == IF frame = Target THEN 0 ELSE Lean[frame]
<1>1. CASE ~CanTransform(frame)
  BY <1>1 DEF PreparedAcceleration
<1>2. CASE CanTransform(frame)
  <2>1. lean = Tilted(setup.frame)
    BY <1>2, SetupIs, KnownSensorFrame DEF TypeOK
  <2>2. PreparedAcceleration(i, oriented) =
          <<Measurement(i,
              Rotate(lean, Minus(ReportedAcceleration(i),
                IF setup.removeGravity
                THEN RotNorm(IF oriented THEN ReportedTilt(i) ELSE Clamp(estimate.tilt + lean))
                ELSE At(0, 0))),
              1, [estimate EXCEPT !.tilt = IF oriented THEN True(i).tilt ELSE @],
              Turned(setup.axes, lean))>>
    BY <1>2 DEF PreparedAcceleration
  <2> HIDE DEF lean
  <2> QED  BY <2>1, <2>2 DEF AccelerationMeasurement, Attitude, Believed, Removed
<1> QED  BY <1>1, <1>2

LEMMA InitialType ==
  ASSUME TypeOK, NEW i \in DOMAIN trajectory, CanTransform(PoseFrame)
  PROVE  Initial(i) \in Transform /\ Initial(i) # None
  BY PoseTmpType, ConstantsAssumption DEF Initial, TypeOK

LEMMA TimeOfLastIs ==
  ASSUME TypeOK, NEW part \in Parts, NEW i \in DOMAIN trajectory
  PROVE  /\ lastMessageTimes[part] \in Nat \cup {None}
         /\ TimeOfLast(part, i) \in Nat
         /\ lastMessageTimes[part] # None => TimeOfLast(part, i) = lastMessageTimes[part]
  BY InstantIs DEF TypeOK, TimeOfLast

LEMMA PoseMeasurementType ==
  ASSUME TypeOK, NEW i \in DOMAIN trajectory, NEW value \in Transform, NEW over \in Nat
  PROVE  PoseMeasurement(i, value, over) \in MeasurementOf
<1>1. Turned(setup.axes, TransformFrom(PoseFrame).yaw) \in SUBSET Axes
  BY SetupIs, TurnedAxes
<1> QED  BY <1>1, EstimateIs, MeasurementIs DEF PoseMeasurement

LEMMA ReportedVelocityType ==
  ASSUME TypeOK, NEW i \in DOMAIN trajectory
  PROVE  ReportedVelocity(i) \in Transform
<1> DEFINE mount == Mount(setup.child)
           w == Plus(True(i).velocity, LeverArm(True(i).turn, mount))
<1>1. mount \in Transform /\ mount.yaw \in Yaws
  BY SetupIs, MountType, FieldsOf
<1>2. w \in Transform
  BY <1>1, InstantIs, LeverArmIs, PlusIs
<1>3. Clamp(-mount.yaw) \in Yaws
  BY <1>1, ClampYaws DEF Yaws
<1>4. Rotate(Clamp(-mount.yaw), w) \in Transform
  BY <1>2, <1>3, RotateIs
<1>5. At(0, 0) \in Transform
  BY AtIs
<1> QED  BY <1>4, <1>5 DEF ReportedVelocity

LEMMA TwistMeasurementType ==
  ASSUME TypeOK, NEW i \in DOMAIN trajectory
  PROVE  TwistMeasurement(i) \in MeasurementOf
<1> DEFINE mount == Mount(setup.child)
           value == VelocityAtOrigin(mount, ReportedVelocity(i))
<1>1. mount \in Transform /\ mount.yaw \in Yaws
  BY SetupIs, MountType, FieldsOf
<1>2. Rotate(mount.yaw, ReportedVelocity(i)) \in Transform
  BY <1>1, ReportedVelocityType, RotateIs
<1>3. LeverArm(estimate.turn, mount) \in Transform
  BY <1>1, EstimateIs, LeverArmIs
<1>4. value \in Transform
  BY <1>2, <1>3, MinusIs DEF VelocityAtOrigin
<1>5. Turned(setup.axes, mount.yaw) \in SUBSET Axes
  BY SetupIs, TurnedAxes
<1> QED  BY <1>4, <1>5, EstimateIs, MeasurementIs DEF TwistMeasurement

LEMMA TiltsAreYaws ==
  ASSUME TypeOK, NEW i \in DOMAIN trajectory, NEW oriented \in BOOLEAN
  PROVE  /\ Tilted(setup.frame) \in Yaws /\ Attitude(i, oriented) \in Yaws
         /\ Believed(i, oriented) \in [turn : Int, tilt : Yaws]
         /\ Believed(i, oriented).tilt \in Yaws
         /\ Believed(i, oriented).tilt = IF oriented THEN True(i).tilt ELSE estimate.tilt
         /\ Attitude(i, oriented) = Clamp(Believed(i, oriented).tilt + Tilted(setup.frame))
<1>1. /\ Tilted(setup.frame) \in Yaws /\ True(i).tilt \in Yaws
      /\ estimate \in [turn : Int, tilt : Yaws] /\ estimate.tilt \in Yaws
  BY SetupIs, MountType, InstantIs, EstimateIs
<1>2. /\ Believed(i, oriented) \in [turn : Int, tilt : Yaws]
      /\ Believed(i, oriented).tilt = IF oriented THEN True(i).tilt ELSE estimate.tilt
  BY <1>1 DEF Believed
<1>3. Attitude(i, oriented) = Clamp(Believed(i, oriented).tilt + Tilted(setup.frame))
  BY <1>2 DEF Attitude, ReportedTilt
<1>4. Believed(i, oriented).tilt \in Yaws
  BY <1>1, <1>2
<1>5. Believed(i, oriented).tilt + Tilted(setup.frame) \in Int
  BY <1>1, <1>4 DEF Yaws
<1> QED  BY <1>1, <1>2, <1>3, <1>4, <1>5, ClampYaws

LEMMA FeltGravity ==
  ASSUME NEW attitude \in Yaws
  PROVE  Clamp(-attitude) \in Yaws /\ RotNorm(attitude) \in Transform
<1>1. Clamp(-attitude) \in Yaws
  BY ClampYaws DEF Yaws
<1> QED  BY <1>1, GravityIs DEF RotNorm

LEMMA ReportedAccelerationType ==
  ASSUME TypeOK, NEW i \in DOMAIN trajectory
  PROVE  /\ Clamp(-(True(i).tilt + Tilted(setup.frame))) \in Yaws
         /\ Plus(True(i).acceleration, At(0, Gravity)) \in Transform
         /\ ReportedAcceleration(i) \in Transform
<1>1. True(i).tilt \in Yaws /\ Tilted(setup.frame) \in Yaws /\ True(i).acceleration \in Transform
  BY InstantIs, SetupIs, MountType
<1>2. Clamp(-(True(i).tilt + Tilted(setup.frame))) \in Yaws
  BY <1>1, ClampYaws DEF Yaws
<1>3. Plus(True(i).acceleration, At(0, Gravity)) \in Transform
  BY <1>1, GravityIs, PlusIs
<1> QED  BY <1>2, <1>3, RotateIs DEF ReportedAcceleration

LEMMA AccelerationMeasurementType ==
  ASSUME TypeOK, NEW i \in DOMAIN trajectory, NEW oriented \in BOOLEAN
  PROVE  AccelerationMeasurement(i, oriented) \in MeasurementOf
<1> DEFINE lean == Tilted(setup.frame)
           left == Minus(ReportedAcceleration(i), Removed(i, oriented))
<1>1. /\ lean \in Yaws /\ Attitude(i, oriented) \in Yaws
      /\ Believed(i, oriented) \in [turn : Int, tilt : Yaws]
  BY TiltsAreYaws
<1>2. left \in Transform
  <2>1. Removed(i, oriented) \in Transform
    BY <1>1, FeltGravity, AtIs DEF Removed
  <2> QED  BY <2>1, ReportedAccelerationType, MinusIs
<1>3. Rotate(lean, left) \in Transform
  BY <1>1, <1>2, RotateIs
<1>4. Turned(setup.axes, lean) \in SUBSET Axes
  BY SetupIs, TurnedAxes
<1> QED  BY <1>1, <1>3, <1>4, MeasurementIs DEF AccelerationMeasurement

-----------------------------------------------------------------------------
(* The kinds of steps: a message is taken in, set_pose forgets, and all     *)
(* others leave what the filter has prepared alone.                         *)

TakesIn(parts, i, oriented) ==
  /\ lastMessageTimes' = [part \in Parts |->
       IF Heard(parts, part, i) THEN Stamp(i) ELSE lastMessageTimes[part]]
  /\ queued' = Enqueued(parts, i, oriented)
  /\ IF Heard(parts, "pose", i) /\ CanTransform(PoseFrame)
     THEN /\ previousMeasurement' =
               IF setup.mode = "differential" THEN PoseTmp(i) ELSE previousMeasurement
          /\ initialMeasurement' =
               IF setup.mode = "relative" THEN Initial(i) ELSE initialMeasurement
          /\ prepared' = Append(prepared, i)
     ELSE UNCHANGED <<previousMeasurement, initialMeasurement, prepared>>
  /\ UNCHANGED <<setup, trajectory, known, estimate>>

Forgets ==
  /\ previousMeasurement' = None /\ initialMeasurement' = None
  /\ prepared' = <<>>
  /\ queued' = [part \in Parts |-> <<>>]
  /\ UNCHANGED <<setup, trajectory, known, estimate, lastMessageTimes>>

LeavesAlone ==
  /\ UNCHANGED <<setup, lastMessageTimes, previousMeasurement, initialMeasurement, prepared, queued>>
  /\ known \subseteq known'
  /\ \A i \in DOMAIN trajectory : i \in DOMAIN trajectory' /\ trajectory'[i] = trajectory[i]

LEMMA ReceiveKind ==
  ASSUME NEW parts, NEW i \in DOMAIN trajectory, NEW oriented \in BOOLEAN,
         Receive(parts, i, oriented)
  PROVE  LeavesAlone \/ TakesIn(parts, i, oriented)
<1>1. CASE lastSetPoseTime >= Stamp(i)
  BY <1>1 DEF Receive, LeavesAlone, filter
<1>2. CASE ~(lastSetPoseTime >= Stamp(i))
  BY <1>2 DEF Receive, TakesIn
<1> QED  BY <1>1, <1>2

LEMMA SequencesGrow ==
  ASSUME NEW S, NEW T, S \subseteq T
  PROVE  Seq(S) \subseteq Seq(T)
  OBVIOUS

LEMMA AppendOne ==
  ASSUME NEW S, NEW s \in Seq(S), NEW m \in S
  PROVE  /\ s \o <<>> = s /\ s \o <<m>> = Append(s, m)
         /\ Append(s, m) \in Seq(S)
         /\ Len(Append(s, m)) = Len(s) + 1
         /\ DOMAIN Append(s, m) = DOMAIN s \cup {Len(s) + 1}
         /\ \A k \in DOMAIN s : Append(s, m)[k] = s[k]
         /\ Append(s, m)[Len(s) + 1] = m
  OBVIOUS

LEMMA MoveKeepsThePast ==
  ASSUME TypeOK, NEW is \in Instants, NEW tick \in {0, 1}, Move(is, tick)
  PROVE  /\ LeavesAlone
         /\ trajectory' \in Seq([is : Instants, stamp : Nat]) /\ trajectory' # <<>>
         /\ DOMAIN trajectory \subseteq DOMAIN trajectory'
<1> DEFINE S == [is : Instants, stamp : Nat]
           next == [is |-> is, stamp |-> trajectory[Len(trajectory)].stamp + tick]
<1>1. trajectory \in Seq(S) /\ trajectory # <<>> /\ trajectory' = Append(trajectory, next)
  BY DEF TypeOK, Move
<1>2. next \in S
  <2>1. Len(trajectory) \in DOMAIN trajectory
    <3> HIDE DEF S
    <3> QED  BY <1>1
  <2>2. Stamp(Len(trajectory)) \in Nat
    BY <2>1, InstantIs
  <2> QED  BY <2>2 DEF Stamp
<1> HIDE DEF S, next
<1>3. /\ DOMAIN trajectory \subseteq DOMAIN trajectory'
      /\ \A i \in DOMAIN trajectory : i \in DOMAIN trajectory' /\ trajectory'[i] = trajectory[i]
  BY <1>1
<1>4. trajectory' \in Seq(S) /\ trajectory' # <<>>
  BY <1>1, <1>2
<1>5. LeavesAlone
  BY <1>3 DEF LeavesAlone, Move, filter
<1> QED  BY <1>3, <1>4, <1>5 DEF S

LEMMA PreparedType ==
  ASSUME TypeOK, NEW part \in Parts, NEW i \in DOMAIN trajectory, NEW oriented \in BOOLEAN,
         Newer(part, i)
  PROVE  \/ Prepared(part, i, oriented) = <<>>
         \/ \E m \in MeasurementOf : Prepared(part, i, oriented) = <<m>>
<1>1. CASE part = "pose"
  <2>1. Prepared(part, i, oriented) = PreparedPose(i)
    BY <1>1 DEF Prepared
  <2>2. CASE \/ ~CanTransform(PoseFrame)
             \/ CanTransform(PoseFrame) /\ setup.mode = "differential" /\ previousMeasurement = None
    BY <2>1, <2>2, PreparedPoseIs
  <2>3. CASE CanTransform(PoseFrame) /\ setup.mode = "differential" /\ previousMeasurement # None
    <3>1. Delta(i) \in Transform
      BY <2>3, DeltaType
    <3>2. TimeOfLast("pose", i) \in Nat /\ Stamp(i) \in Nat /\ TimeOfLast("pose", i) <= Stamp(i)
      BY <1>1, TimeOfLastIs, InstantIs DEF Newer, Parts
    <3>3. Stamp(i) - TimeOfLast("pose", i) \in Nat
      BY <3>2
    <3> QED  BY <2>1, <2>3, <3>1, <3>3, PoseMeasurementType, PreparedPoseIs
  <2>4. CASE CanTransform(PoseFrame) /\ setup.mode = "relative"
    <3>1. /\ TargetFrameTrans \in Transform /\ Initial(i) \in Transform
          /\ PoseTmp(i) \in Transform
      BY <2>4, TargetFrameTransIs, InitialType, PoseTmpType
    <3>2. Mult(TargetFrameTrans, Mult(InverseOf[Initial(i)], PoseTmp(i))) \in Transform
      BY <3>1, InverseType, MultType
    <3> QED  BY <2>1, <2>4, <3>2, PoseMeasurementType, PreparedPoseIs
  <2>5. CASE CanTransform(PoseFrame) /\ setup.mode = "absolute"
    <3>1. Mult(TargetFrameTrans, PoseTmp(i)) \in Transform
      BY <2>5, TargetFrameTransIs, PoseTmpType, MultType
    <3> QED  BY <2>1, <2>5, <3>1, PoseMeasurementType, PreparedPoseIs
  <2>6. setup.mode = "absolute" \/ setup.mode = "differential" \/ setup.mode = "relative"
    BY SetupIs
  <2> QED  BY <2>2, <2>3, <2>4, <2>5, <2>6
<1>2. CASE part = "twist"
  BY <1>2, PreparedTwistIs, TwistMeasurementType DEF Prepared
<1>3. CASE part = "acceleration"
  BY <1>3, PreparedAccelerationIs, AccelerationMeasurementType DEF Prepared
<1> QED  BY <1>1, <1>2, <1>3 DEF Parts

(* A queue stays as it is or gains the measurement that was prepared. *)
LEMMA QueueGrows ==
  ASSUME TypeOK, NEW parts, NEW part \in Parts, NEW i \in DOMAIN trajectory,
         NEW oriented \in BOOLEAN, TakesIn(parts, i, oriented)
  PROVE  /\ queued[part] \in Seq(MeasurementOf)
         /\ \/ /\ queued'[part] = queued[part]
               /\ ~Heard(parts, part, i) \/ Prepared(part, i, oriented) = <<>>
            \/ /\ Heard(parts, part, i)
               /\ \E m \in MeasurementOf : /\ Prepared(part, i, oriented) = <<m>>
                                           /\ queued'[part] = Append(queued[part], m)
<1>1. queued[part] \in Seq(MeasurementOf)
  BY DEF TypeOK
<1>2. queued'[part] = IF Heard(parts, part, i) THEN queued[part] \o Prepared(part, i, oriented)
                      ELSE queued[part]
  BY DEF TakesIn, Enqueued
<1>3. CASE ~Heard(parts, part, i)
  BY <1>1, <1>2, <1>3
<1>4. CASE Heard(parts, part, i)
  <2>1. Newer(part, i)
    BY <1>4 DEF Heard
  <2>2. CASE Prepared(part, i, oriented) = <<>>
    BY <1>1, <1>2, <1>4, <2>2
  <2>3. CASE \E m \in MeasurementOf : Prepared(part, i, oriented) = <<m>>
    <3>1. PICK m \in MeasurementOf : Prepared(part, i, oriented) = <<m>>
      BY <2>3
    <3>2. queued[part] \o <<m>> = Append(queued[part], m)
      BY <1>1, AppendOne
    <3> QED  BY <1>1, <1>2, <1>4, <3>1, <3>2
  <2> QED  BY <2>1, <2>2, <2>3, PreparedType
<1> QED  BY <1>3, <1>4, <1>1

-----------------------------------------------------------------------------
(* Types.                                                                  *)

LEMMA TakingInIsTyped ==
  ASSUME TypeOK, NEW parts, NEW i \in DOMAIN trajectory, NEW oriented \in BOOLEAN,
         TakesIn(parts, i, oriented)
  PROVE  /\ lastMessageTimes' \in [Parts -> Nat \cup {None}]
         /\ previousMeasurement' \in Transform \cup {None}
         /\ initialMeasurement' \in Transform \cup {None}
         /\ prepared' \in Seq(DOMAIN trajectory)
         /\ queued' \in [Parts -> Seq(MeasurementOf)]
<1>1. lastMessageTimes' \in [Parts -> Nat \cup {None}]
  <2>1. Stamp(i) \in Nat /\ lastMessageTimes \in [Parts -> Nat \cup {None}]
    BY InstantIs DEF TypeOK
  <2> QED  BY <2>1 DEF TakesIn
<1>2. /\ previousMeasurement' \in Transform \cup {None}
      /\ initialMeasurement' \in Transform \cup {None}
      /\ prepared' \in Seq(DOMAIN trajectory)
  <2>1. CASE Heard(parts, "pose", i) /\ CanTransform(PoseFrame)
    <3>1. PoseTmp(i) \in Transform /\ Initial(i) \in Transform
      BY <2>1, PoseTmpType, InitialType
    <3>2. prepared' \in Seq(DOMAIN trajectory)
      <4>1. prepared \in Seq(DOMAIN trajectory) /\ prepared' = Append(prepared, i)
        BY <2>1 DEF TypeOK, TakesIn
      <4> QED  BY <4>1, AppendOne
    <3> QED  BY <2>1, <3>1, <3>2 DEF TypeOK, TakesIn
  <2>2. CASE ~(Heard(parts, "pose", i) /\ CanTransform(PoseFrame))
    BY <2>2 DEF TypeOK, TakesIn
  <2> QED  BY <2>1, <2>2
<1>3. queued' \in [Parts -> Seq(MeasurementOf)]
  <2>1. queued' = [part \in Parts |->
                     IF Heard(parts, part, i) THEN queued[part] \o Prepared(part, i, oriented)
                     ELSE queued[part]]
    BY DEF TakesIn, Enqueued
  <2>2. ASSUME NEW part \in Parts PROVE queued'[part] \in Seq(MeasurementOf)
    <3>1. queued[part] \in Seq(MeasurementOf)
      BY DEF TypeOK
    <3>2. \/ queued'[part] = queued[part]
          \/ \E m \in MeasurementOf : queued'[part] = Append(queued[part], m)
      BY QueueGrows
    <3> QED  BY <3>1, <3>2
  <2> QED  BY <2>1, <2>2
<1> QED  BY <1>1, <1>2, <1>3

LEMMA ReceiveIsTyped ==
  ASSUME TypeOK, NEW parts, NEW i \in DOMAIN trajectory, NEW oriented \in BOOLEAN,
         Receive(parts, i, oriented)
  PROVE  TypeOK'
<1>1. messages' \in 0..MaxMessages /\ requests' \in 0..MaxRequests
  BY ConstantsAssumption DEF TypeOK, Receive
<1>2. UNCHANGED <<setup, trajectory, known, estimate, statePose, lastSetPoseTime>>
  BY DEF Receive, filter
<1>3. MeasurementOf' = MeasurementOf
  BY <1>2 DEF MeasurementOf
<1>4. /\ lastMessageTimes' \in [Parts -> Nat \cup {None}]
      /\ previousMeasurement' \in Transform \cup {None}
      /\ initialMeasurement' \in Transform \cup {None}
      /\ prepared' \in Seq(DOMAIN trajectory)
      /\ queued' \in [Parts -> Seq(MeasurementOf)]
  <2>1. CASE lastSetPoseTime >= Stamp(i)
    BY <2>1 DEF TypeOK, Receive, filter
  <2>2. CASE ~(lastSetPoseTime >= Stamp(i))
    <3>1. TakesIn(parts, i, oriented)
      BY <2>2 DEF Receive, TakesIn
    <3> QED  BY <3>1, TakingInIsTyped
  <2> QED  BY <2>1, <2>2
<1> QED  BY <1>1, <1>2, <1>3, <1>4 DEF TypeOK

LEMMA SetPoseIsTyped ==
  ASSUME TypeOK, NEW request \in Requests, NEW i \in DOMAIN trajectory,
         SetPoseCallback(request, Stamp(i))
  PROVE  TypeOK' /\ Forgets
<1>1. request.frame \in Frames \cup {Blank} /\ request.pose \in Transform
  BY ConstantsAssumption
<1>2. statePose' \in Transform
  <2>1. CASE CanTransform(request.frame)
    <3> DEFINE mount == Mount(request.frame)
    <3>1. TransformFrom(request.frame) = mount /\ mount \in Transform
      BY <1>1, <2>1, KnownFrame, MountType DEF TypeOK
    <3>2. statePose' = Mult(mount, Mult(InverseOf[mount], request.pose))
      BY <2>1, <3>1 DEF SetPoseCallback
    <3> QED  BY <1>1, <3>1, <3>2, InverseType, MultType
  <2>2. CASE ~CanTransform(request.frame)
    BY <2>2, IdentityType DEF SetPoseCallback
  <2> QED  BY <2>1, <2>2
<1>3. messages' \in 0..MaxMessages /\ requests' \in 0..MaxRequests
  BY ConstantsAssumption DEF TypeOK, SetPoseCallback
<1>4. lastSetPoseTime' \in Nat
  BY InstantIs DEF SetPoseCallback
<1>5. prepared' \in Seq(DOMAIN trajectory) /\ queued' \in [Parts -> Seq(MeasurementOf)]
  BY DEF SetPoseCallback
<1>6. MeasurementOf' = MeasurementOf
  BY DEF MeasurementOf, SetPoseCallback
<1>7. UNCHANGED <<setup, trajectory, known, estimate, lastMessageTimes>>
      /\ previousMeasurement' = None /\ initialMeasurement' = None
  BY DEF SetPoseCallback
<1>8. TypeOK'
  BY <1>2, <1>3, <1>4, <1>5, <1>6, <1>7 DEF TypeOK
<1>9. Forgets
  BY DEF Forgets, SetPoseCallback
<1> QED  BY <1>8, <1>9

LEMMA MoveIsTyped ==
  ASSUME TypeOK, NEW is \in Instants, NEW tick \in {0, 1}, Move(is, tick)
  PROVE  TypeOK'
<1>1. /\ trajectory' \in Seq([is : Instants, stamp : Nat]) /\ trajectory' # <<>>
      /\ DOMAIN trajectory \subseteq DOMAIN trajectory'
  BY MoveKeepsThePast
<1>2. MeasurementOf \subseteq MeasurementOf'
  BY <1>1 DEF MeasurementOf
<1>3. UNCHANGED <<setup, known, estimate, messages, requests>> /\ UNCHANGED filter
  BY DEF Move
<1>4. prepared' \in Seq(DOMAIN trajectory')
  BY <1>1, <1>3, SequencesGrow DEF TypeOK, filter
<1>5. queued' \in [Parts -> Seq(MeasurementOf')]
  <2>1. Seq(MeasurementOf) \subseteq Seq(MeasurementOf')
    BY <1>2, SequencesGrow
  <2> QED  BY <1>3, <2>1 DEF TypeOK, filter
<1> QED  BY <1>1, <1>3, <1>4, <1>5 DEF TypeOK, filter

LEMMA OthersAreTyped ==
  ASSUME TypeOK,
         \/ \E frame \in {setup.frame, setup.child} \ {Blank} : FrameBecomesKnown(frame)
         \/ \E e \in Estimates : Estimate(e)
         \/ UNCHANGED vars
  PROVE  TypeOK' /\ LeavesAlone
<1>1. CASE \E frame \in {setup.frame, setup.child} \ {Blank} : FrameBecomesKnown(frame)
  <2>1. PICK frame \in {setup.frame, setup.child} \ {Blank} : FrameBecomesKnown(frame)
    BY <1>1
  <2>2. frame \in Frames
    BY SetupIs
  <2>3. /\ known' = known \cup {frame}
        /\ UNCHANGED <<setup, trajectory, estimate, messages, requests>> /\ UNCHANGED filter
    BY <2>1 DEF FrameBecomesKnown
  <2>4. TypeOK'
    BY <2>2, <2>3 DEF TypeOK, MeasurementOf, filter
  <2> QED  BY <2>3, <2>4 DEF LeavesAlone, filter
<1>2. CASE \E e \in Estimates : Estimate(e)
  BY <1>2 DEF TypeOK, MeasurementOf, Estimate, filter, LeavesAlone
<1>3. CASE UNCHANGED vars
  BY <1>3 DEF TypeOK, MeasurementOf, vars, LeavesAlone
<1> QED  BY <1>1, <1>2, <1>3

(* Every step keeps the types and is of one of the three kinds. *)
LEMMA StepKind ==
  ASSUME TypeOK, [Next]_vars
  PROVE  /\ TypeOK'
         /\ \/ LeavesAlone
            \/ Forgets
            \/ \E parts \in SUBSET Parts, i \in DOMAIN trajectory, oriented \in BOOLEAN :
                 TakesIn(parts, i, oriented)
<1> USE DEF Next
<1>1. CASE OdometryCallback
  <2>1. PICK i \in DOMAIN trajectory : Receive(setup.parts, i, FALSE)
    BY <1>1 DEF OdometryCallback
  <2>2. setup.parts \in SUBSET Parts
    BY SetupIs
  <2> QED  BY <2>1, <2>2, ReceiveIsTyped, ReceiveKind
<1>2. CASE ImuCallback
  <2>1. PICK i \in DOMAIN trajectory, missing \in SUBSET ({"pose"} \cup setup.parts) :
          Receive(setup.parts \ missing, i, "pose" \notin missing)
    BY <1>2 DEF ImuCallback
  <2>2. setup.parts \ missing \in SUBSET Parts /\ ("pose" \notin missing) \in BOOLEAN
    BY SetupIs
  <2> QED  BY <2>1, <2>2, ReceiveIsTyped, ReceiveKind
<1>3. CASE \E request \in Requests, i \in DOMAIN trajectory : SetPoseCallback(request, Stamp(i))
  BY <1>3, SetPoseIsTyped
<1>4. CASE \E is \in Instants, tick \in {0, 1} : Move(is, tick)
  BY <1>4, MoveIsTyped, MoveKeepsThePast
<1>5. CASE \/ \E frame \in {setup.frame, setup.child} \ {Blank} : FrameBecomesKnown(frame)
           \/ \E e \in Estimates : Estimate(e)
           \/ UNCHANGED vars
  BY <1>5, OthersAreTyped
<1> QED  BY <1>1, <1>2, <1>3, <1>4, <1>5

LEMMA InitIsTyped == Init => TypeOK
<1> SUFFICES ASSUME Init PROVE TypeOK
  OBVIOUS
<1>1. PICK is \in Instants : trajectory = <<[is |-> is, stamp |-> 1]>>
  BY DEF Init
<1>2. trajectory \in Seq([is : Instants, stamp : Nat]) /\ trajectory # <<>>
  <2> DEFINE S == [is : Instants, stamp : Nat]
             first == [is |-> is, stamp |-> 1]
  <2>1. first \in S
    OBVIOUS
  <2> HIDE DEF S, first
  <2>2. <<first>> \in Seq(S) /\ <<first>> # <<>>
    BY <2>1
  <2> QED  BY <1>1, <2>2 DEF S, first
<1>3. messages \in 0..MaxMessages /\ requests \in 0..MaxRequests
  BY ConstantsAssumption DEF Init
<1> QED  BY <1>2, <1>3 DEF Init, TypeOK

(* Every variable keeps to its type; in particular, every measurement that  *)
(* is made is one of an instant of the robot's, over a time that is not     *)
(* negative.                                                                *)
THEOREM PreparationTypeCorrect == Spec => []TypeOK
<1>1. TypeOK /\ [Next]_vars => TypeOK'
  BY StepKind
<1> QED  BY <1>1, InitIsTyped, PTL DEF Spec

-----------------------------------------------------------------------------
(* What was measured stays true: the past of the robot does not change.    *)

LEMMA QueuedIs ==
  ASSUME TypeOK, NEW part \in Parts, NEW k \in DOMAIN queued[part]
  PROVE  /\ queued[part][k] \in MeasurementOf
         /\ queued[part][k].sample \in DOMAIN trajectory
         /\ queued[part][k].value \in Transform
<1>1. queued[part] \in Seq(MeasurementOf)
  BY DEF TypeOK
<1>2. queued[part][k] \in MeasurementOf
  BY <1>1
<1> QED  BY <1>2 DEF MeasurementOf

LEMMA PastIsKept ==
  ASSUME LeavesAlone \/ UNCHANGED <<setup, trajectory>>,
         NEW i \in DOMAIN trajectory, NEW j \in DOMAIN trajectory
  PROVE  /\ setup' = setup
         /\ True(i)' = True(i) /\ Stamp(i)' = Stamp(i)
         /\ Seen(True(i).pose)' = Seen(True(i).pose)
         /\ PoseFrame' = PoseFrame
         /\ PoseTmp(i)' = PoseTmp(i) /\ Motion(i, j)' = Motion(i, j)
         /\ TargetFrameTrans' = TargetFrameTrans
<1>1. setup' = setup /\ trajectory'[i] = trajectory[i] /\ trajectory'[j] = trajectory[j]
  BY DEF LeavesAlone
<1>2. True(i)' = True(i) /\ Stamp(i)' = Stamp(i) /\ True(j)' = True(j)
  BY <1>1 DEF True, Stamp
<1>3. /\ Seen(True(i).pose)' = Seen(True(i).pose)
      /\ Motion(i, j)' = Motion(i, j)
  BY <1>1, <1>2 DEF Seen, Motion
<1>4. PoseFrame' = PoseFrame /\ TargetFrameTrans' = TargetFrameTrans
  BY <1>1 DEF PoseFrame, TargetFrameTrans, TransformFrom
<1>5. PoseTmp(i)' = PoseTmp(i)
  BY <1>1, <1>2 DEF PoseTmp, PoseFrame, ReportedPose, Mount, TransformFrom
<1> QED  BY <1>1, <1>2, <1>3, <1>4, <1>5

(* A measurement of a queue was there before or has just been prepared. *)
LEMMA OldOrNew ==
  ASSUME TypeOK, NEW parts, NEW part \in Parts, NEW i \in DOMAIN trajectory,
         NEW oriented \in BOOLEAN, TakesIn(parts, i, oriented),
         NEW k \in DOMAIN queued'[part]
  PROVE  \/ k \in DOMAIN queued[part] /\ queued'[part][k] = queued[part][k]
         \/ /\ Heard(parts, part, i) /\ k = Len(queued[part]) + 1
            /\ Prepared(part, i, oriented) = <<queued'[part][k]>>
<1>1. queued[part] \in Seq(MeasurementOf)
  BY QueueGrows
<1>2. CASE queued'[part] = queued[part]
  BY <1>2
<1>3. CASE \E m \in MeasurementOf : /\ Heard(parts, part, i)
                                    /\ Prepared(part, i, oriented) = <<m>>
                                    /\ queued'[part] = Append(queued[part], m)
  <2>1. PICK m \in MeasurementOf : /\ Heard(parts, part, i)
                                   /\ Prepared(part, i, oriented) = <<m>>
                                   /\ queued'[part] = Append(queued[part], m)
    BY <1>3
  <2> QED  BY <1>1, <2>1, AppendOne
<1> QED  BY <1>2, <1>3, QueueGrows

LEMMA NotEmpty == ASSUME NEW a PROVE <<a>> # <<>>
  OBVIOUS

LEMMA NothingJoins ==
  ASSUME TypeOK, NEW parts, NEW part \in Parts, NEW i \in DOMAIN trajectory,
         NEW oriented \in BOOLEAN, TakesIn(parts, i, oriented),
         ~Heard(parts, part, i) \/ Prepared(part, i, oriented) = <<>>
  PROVE  queued'[part] = queued[part]
<1>1. ASSUME NEW m PROVE ~(Heard(parts, part, i) /\ Prepared(part, i, oriented) = <<m>>)
  BY NotEmpty
<1> QED  BY <1>1, QueueGrows

LEMMA SameSingleton == ASSUME NEW a, NEW b, <<a>> = <<b>> PROVE a = b
  OBVIOUS

-----------------------------------------------------------------------------
(* preparePose, absolute.                                                  *)

TruePose(m) ==
  /\ m.value = Seen(True(m.sample).pose)
  /\ ~setup.imu => m.axes = ShownAlong(setup.axes, Mount(setup.frame).yaw)

(* A quarter turn swaps the two axes, a half turn does not. *)
LEMMA TurnedAxesShow ==
  ASSUME NEW axes \in SUBSET Axes, NEW yaw \in Yaws
  PROVE  Turned(axes, yaw) = ShownAlong(axes, yaw)
<1>1. At(1, 0) \in Transform /\ At(0, 1) \in Transform
  BY AtIs
<1>2. /\ Rotate(yaw, At(1, 0)).x = Cos(yaw) /\ Rotate(yaw, At(1, 0)).y = Sin(yaw)
      /\ Rotate(yaw, At(0, 1)).x = -Sin(yaw) /\ Rotate(yaw, At(0, 1)).y = Cos(yaw)
  <2>1. /\ Rotate(yaw, At(1, 0)).x = Cos(yaw) * 1 - Sin(yaw) * 0
        /\ Rotate(yaw, At(1, 0)).y = Sin(yaw) * 1 + Cos(yaw) * 0
    BY <1>1, RotateIs DEF At
  <2>2. /\ Rotate(yaw, At(0, 1)).x = Cos(yaw) * 0 - Sin(yaw) * 1
        /\ Rotate(yaw, At(0, 1)).y = Sin(yaw) * 0 + Cos(yaw) * 1
    BY <1>1, RotateIs DEF At
  <2>3. Cos(yaw) \in Int /\ Sin(yaw) \in Int
    BY DEF Cos, Sin, Yaws
  <2> QED  BY <2>1, <2>2, <2>3
<1>3. \A used \in Axes :
        /\ Rotate(yaw, Unit(used))["x"] # 0 <=> (used = "x" <=> yaw \in {0, 2})
        /\ Rotate(yaw, Unit(used))["y"] # 0 <=> (used = "y" <=> yaw \in {0, 2})
  BY <1>2 DEF Unit, Axes, Cos, Sin, Yaws
<1>4. /\ "x" \in ShownAlong(axes, yaw) <=> \E used \in axes : used = "x" <=> yaw \in {0, 2}
      /\ "y" \in ShownAlong(axes, yaw) <=> \E used \in axes : used = "y" <=> yaw \in {0, 2}
  BY <1>3 DEF ShownAlong, Axes
<1>5. /\ "x" \in Turned(axes, yaw) <=> \E used \in axes : used = "x" <=> yaw \in {0, 2}
      /\ "y" \in Turned(axes, yaw) <=> \E used \in axes : used = "y" <=> yaw \in {0, 2}
  <2>1. CASE yaw \in {1, 3}
    BY <2>1 DEF Turned, Axes
  <2>2. CASE yaw \in {0, 2}
    BY <2>2 DEF Turned, Axes
  <2> QED  BY <2>1, <2>2 DEF Yaws
<1>6. Turned(axes, yaw) \subseteq Axes /\ ShownAlong(axes, yaw) \subseteq Axes
  BY TurnedAxes DEF ShownAlong
<1>7. \A a \in Axes : a = "x" \/ a = "y"
  BY DEF Axes
<1>8. \A a \in Axes : a \in Turned(axes, yaw) <=> a \in ShownAlong(axes, yaw)
  BY <1>4, <1>5, <1>7
<1> QED  BY <1>6, <1>8

LEMMA PosesStayTrue ==
  ASSUME TypeOK, PosesAreTrue, LeavesAlone
  PROVE  PosesAreTrue'
<1> SUFFICES ASSUME setup'.mode = "absolute", NEW k \in DOMAIN queued'["pose"],
                    NEW m, m = queued'["pose"][k]
             PROVE  TruePose(m)'
  BY DEF PosesAreTrue, TruePose
<1>1. setup' = setup /\ queued' = queued
  BY DEF LeavesAlone
<1>2. m.sample \in DOMAIN trajectory
  BY <1>1, QueuedIs DEF Parts
<1>3. TruePose(m)
  BY <1>1 DEF PosesAreTrue, TruePose
<1> QED  BY <1>1, <1>2, <1>3, PastIsKept DEF TruePose, Mount

LEMMA PosesAreTakenInTrue ==
  ASSUME TypeOK, PosesAreTrue, NEW parts, NEW i \in DOMAIN trajectory,
         NEW oriented \in BOOLEAN, TakesIn(parts, i, oriented)
  PROVE  PosesAreTrue'
<1> SUFFICES ASSUME setup'.mode = "absolute", NEW k \in DOMAIN queued'["pose"],
                    NEW m, m = queued'["pose"][k]
             PROVE  TruePose(m)'
  BY DEF PosesAreTrue, TruePose
<1>1. UNCHANGED <<setup, trajectory>> /\ "pose" \in Parts
  BY DEF TakesIn, Parts
<1>2. TruePose(m) /\ m.sample \in DOMAIN trajectory
  <2>1. CASE k \in DOMAIN queued["pose"] /\ m = queued["pose"][k]
    BY <1>1, <2>1, QueuedIs DEF PosesAreTrue, TruePose
  <2>2. CASE Prepared("pose", i, oriented) = <<m>>
    <3>1. PreparedPose(i) = <<m>>
      BY <2>2 DEF Prepared
    <3>2. CanTransform(PoseFrame)
      BY <3>1, PreparedPoseIs
    <3>3. PreparedPose(i) = <<PoseMeasurement(i, Mult(TargetFrameTrans, PoseTmp(i)), 1)>>
      BY <1>1, <3>2, PreparedPoseIs
    <3>4. m = PoseMeasurement(i, Mult(TargetFrameTrans, PoseTmp(i)), 1)
      BY <3>1, <3>3, SameSingleton
    <3>5. /\ m.sample = i /\ m.value = Mult(TargetFrameTrans, PoseTmp(i))
          /\ m.axes = Turned(setup.axes, TransformFrom(PoseFrame).yaw)
      BY <3>4 DEF PoseMeasurement, Measurement
    <3>6. m.value = Seen(True(m.sample).pose)
      BY <1>1, <3>2, <3>5, AbsolutePose
    <3>7. PoseFrame = setup.frame
      BY <1>1 DEF PoseFrame
    <3>8. TransformFrom(PoseFrame) = Mount(setup.frame)
      BY <3>2, <3>7, SetupIs, KnownFrame DEF TypeOK
    <3>9. Mount(setup.frame).yaw \in Yaws
      BY SetupIs, MountType, FieldsOf
    <3>10. m.axes = ShownAlong(setup.axes, Mount(setup.frame).yaw)
      BY <3>5, <3>8, <3>9, SetupIs, TurnedAxesShow
    <3> QED  BY <3>5, <3>6, <3>10 DEF TruePose
  <2> QED  BY <1>1, <2>1, <2>2, OldOrNew
<1> QED  BY <1>1, <1>2, PastIsKept DEF TruePose, Mount

(* preparePose, absolute: the measurement is where the robot really was,    *)
(* whatever frame or mounting the message came from, and its axes in use    *)
(* are turned with it: late, repeated and lost messages, set_pose and       *)
(* frames that are not yet known included.                                  *)
THEOREM PosesTrue == Spec => []PosesAreTrue
<1>1. Init => PosesAreTrue
  BY DEF Init, PosesAreTrue, Parts
<1>2. ASSUME TypeOK, PosesAreTrue, [Next]_vars PROVE PosesAreTrue'
  <2>1. CASE LeavesAlone
    BY <1>2, <2>1, PosesStayTrue
  <2>2. CASE Forgets
    BY <2>2 DEF Forgets, PosesAreTrue, Parts
  <2>3. CASE \E parts \in SUBSET Parts, i \in DOMAIN trajectory, oriented \in BOOLEAN :
               TakesIn(parts, i, oriented)
    BY <1>2, <2>3, PosesAreTakenInTrue
  <2> QED  BY <1>2, <2>1, <2>2, <2>3, StepKind
<1> QED  BY <1>1, <1>2, PreparationTypeCorrect, PTL DEF Spec

-----------------------------------------------------------------------------
(* preparePose, relative.                                                  *)

RelativePose(m) ==
  m.value = Mult(TargetFrameTrans, Mult(InverseOf[initialMeasurement], PoseTmp(m.sample)))

(* All measurements since set_pose are relative to one and the same pose,
   initial_measurements_. *)
RelativeToFirst ==
  setup.mode = "relative" =>
    \A k \in DOMAIN queued["pose"] :
      /\ CanTransform(PoseFrame) /\ initialMeasurement # None
      /\ RelativePose(queued["pose"][k])

LEMMA StaysRelative ==
  ASSUME TypeOK, RelativeToFirst, LeavesAlone
  PROVE  RelativeToFirst'
<1> SUFFICES ASSUME setup'.mode = "relative", NEW k \in DOMAIN queued'["pose"],
                    NEW m, m = queued'["pose"][k]
             PROVE  /\ CanTransform(PoseFrame)' /\ initialMeasurement' # None
                    /\ RelativePose(m)'
  BY DEF RelativeToFirst, RelativePose
<1>1. UNCHANGED <<setup, queued, initialMeasurement>> /\ known \subseteq known'
  BY DEF LeavesAlone
<1>2. m.sample \in DOMAIN trajectory
  BY <1>1, QueuedIs DEF Parts
<1>3. CanTransform(PoseFrame) /\ initialMeasurement # None /\ RelativePose(m)
  BY <1>1 DEF RelativeToFirst
<1>4. CanTransform(PoseFrame)'
  <2>1. PoseFrame' = PoseFrame
    BY <1>1 DEF PoseFrame
  <2> QED  BY <1>1, <1>3, <2>1 DEF CanTransform
<1>5. RelativePose(m)'
  BY <1>1, <1>2, <1>3, PastIsKept DEF RelativePose
<1> QED  BY <1>1, <1>3, <1>4, <1>5

LEMMA IsTakenInRelative ==
  ASSUME TypeOK, RelativeToFirst, NEW parts, NEW i \in DOMAIN trajectory,
         NEW oriented \in BOOLEAN, TakesIn(parts, i, oriented)
  PROVE  RelativeToFirst'
<1> SUFFICES ASSUME setup'.mode = "relative", NEW k \in DOMAIN queued'["pose"],
                    NEW m, m = queued'["pose"][k]
             PROVE  /\ CanTransform(PoseFrame)' /\ initialMeasurement' # None
                    /\ RelativePose(m)'
  BY DEF RelativeToFirst, RelativePose
<1>1. UNCHANGED <<setup, trajectory, known>> /\ "pose" \in Parts /\ setup.mode = "relative"
  BY DEF TakesIn, Parts
<1>2. /\ CanTransform(PoseFrame) /\ initialMeasurement' # None
      /\ m.sample \in DOMAIN trajectory
      /\ m.value = Mult(TargetFrameTrans, Mult(InverseOf[initialMeasurement'], PoseTmp(m.sample)))
  <2>1. CASE k \in DOMAIN queued["pose"] /\ m = queued["pose"][k]
    <3>1. CanTransform(PoseFrame) /\ initialMeasurement # None /\ RelativePose(m)
      BY <1>1, <2>1 DEF RelativeToFirst
    <3>2. m.sample \in DOMAIN trajectory
      BY <1>1, <2>1, QueuedIs
    <3>3. initialMeasurement' = initialMeasurement
      BY <3>1 DEF TakesIn, Initial
    <3> QED  BY <3>1, <3>2, <3>3 DEF RelativePose
  <2>2. CASE Heard(parts, "pose", i) /\ Prepared("pose", i, oriented) = <<m>>
    <3>1. PreparedPose(i) = <<m>>
      BY <2>2 DEF Prepared
    <3>2. CanTransform(PoseFrame)
      BY <3>1, PreparedPoseIs
    <3> DEFINE value == Mult(TargetFrameTrans, Mult(InverseOf[Initial(i)], PoseTmp(i)))
    <3>3. PreparedPose(i) = <<PoseMeasurement(i, value, 1)>>
      BY <1>1, <3>2, PreparedPoseIs
    <3>4. m = PoseMeasurement(i, value, 1)
      BY <3>1, <3>3, SameSingleton
    <3>5. m.sample = i /\ m.value = value
      BY <3>4 DEF PoseMeasurement, Measurement
    <3>6. initialMeasurement' = Initial(i) /\ initialMeasurement' # None
      BY <1>1, <2>2, <3>2, InitialType DEF TakesIn
    <3> QED  BY <3>2, <3>5, <3>6
  <2> QED  BY <1>1, <2>1, <2>2, OldOrNew
<1>3. CanTransform(PoseFrame)'
  <2>1. PoseFrame' = PoseFrame /\ known' = known
    BY <1>1 DEF PoseFrame
  <2> QED  BY <1>2, <2>1 DEF CanTransform
<1>4. RelativePose(m)'
  BY <1>1, <1>2, PastIsKept DEF RelativePose
<1> QED  BY <1>2, <1>3, <1>4

LEMMA RelativeAlways == Spec => []RelativeToFirst
<1>1. Init => RelativeToFirst
  BY DEF Init, RelativeToFirst, Parts
<1>2. ASSUME TypeOK, RelativeToFirst, [Next]_vars PROVE RelativeToFirst'
  <2>1. CASE LeavesAlone
    BY <1>2, <2>1, StaysRelative
  <2>2. CASE Forgets
    BY <2>2 DEF Forgets, RelativeToFirst, Parts
  <2>3. CASE \E parts \in SUBSET Parts, i \in DOMAIN trajectory, oriented \in BOOLEAN :
               TakesIn(parts, i, oriented)
    BY <1>2, <2>3, IsTakenInRelative
  <2> QED  BY <1>2, <2>1, <2>2, <2>3, StepKind
<1> QED  BY <1>1, <1>2, PreparationTypeCorrect, PTL DEF Spec

LEMMA MotionIsKept ==
  ASSUME TypeOK, RelativeToFirst
  PROVE  RelativeMotionIsTrue
<1> SUFFICES ASSUME setup.mode = "relative",
                    NEW k \in DOMAIN queued["pose"], NEW l \in DOMAIN queued["pose"],
                    NEW m, m = queued["pose"][k], NEW n, n = queued["pose"][l]
             PROVE  Mult(InverseOf[m.value], n.value) = Motion(m.sample, n.sample)
  BY DEF RelativeMotionIsTrue
<1> DEFINE p == PoseTmp(m.sample)
           q == PoseTmp(n.sample)
<1>1. /\ CanTransform(PoseFrame) /\ initialMeasurement # None
      /\ RelativePose(m) /\ RelativePose(n)
  BY DEF RelativeToFirst
<1>2. /\ m.sample \in DOMAIN trajectory /\ n.sample \in DOMAIN trajectory
  BY QueuedIs DEF Parts
<1>3. /\ TargetFrameTrans \in Transform /\ initialMeasurement \in Transform
      /\ p \in Transform /\ q \in Transform
  BY <1>1, <1>2, TargetFrameTransIs, PoseTmpType DEF TypeOK
<1>4. /\ m.value = Mult(TargetFrameTrans, Mult(InverseOf[initialMeasurement], p))
      /\ n.value = Mult(TargetFrameTrans, Mult(InverseOf[initialMeasurement], q))
  BY <1>1 DEF RelativePose
<1>5. Mult(InverseOf[p], q) = Motion(m.sample, n.sample)
  BY <1>1, <1>2, MotionBetween
<1> HIDE DEF p, q
<1> QED  BY <1>3, <1>4, <1>5, RelativePoses

(* preparePose, relative: between any two measurements since the last      *)
(* set_pose lies the robot's real motion.                                  *)
THEOREM RelativeMotionTrue == Spec => []RelativeMotionIsTrue
  BY RelativeAlways, MotionIsKept, PreparationTypeCorrect, PTL

-----------------------------------------------------------------------------
(* preparePose, differential.                                              *)

(* previous_measurements_ and last_message_times_ are those of the last pose
   that was prepared since set_pose. *)
PreviousIsLast ==
  setup.mode = "differential" =>
    IF prepared = <<>> THEN previousMeasurement = None
    ELSE /\ CanTransform(PoseFrame)
         /\ previousMeasurement = PoseTmp(prepared[Len(prepared)])
         /\ lastMessageTimes["pose"] = Stamp(prepared[Len(prepared)])

DifferentialInv == PreviousIsLast /\ DisplacementsAddUp

Leads(m, i, j) == m.value = Motion(i, j) /\ m.over = Stamp(j) - Stamp(i)

LEMMA AddUpMeans ==
  ASSUME setup.mode = "differential"
  PROVE  DisplacementsAddUp <=>
           /\ Len(queued["pose"]) = IF prepared = <<>> THEN 0 ELSE Len(prepared) - 1
           /\ \A k \in DOMAIN queued["pose"] :
                Leads(queued["pose"][k], prepared[k], prepared[k + 1])
  BY DEF DisplacementsAddUp, Leads

LEMMA PreparedIs ==
  ASSUME TypeOK
  PROVE  /\ prepared \in Seq(DOMAIN trajectory)
         /\ Len(prepared) \in Nat
         /\ \A k \in DOMAIN prepared : prepared[k] \in DOMAIN trajectory
         /\ prepared # <<>> => Len(prepared) \in DOMAIN prepared
         /\ queued["pose"] \in Seq(MeasurementOf) /\ Len(queued["pose"]) \in Nat
         /\ DOMAIN queued["pose"] = 1..Len(queued["pose"])
         /\ DOMAIN prepared = 1..Len(prepared)
<1>1. prepared \in Seq(DOMAIN trajectory) /\ queued["pose"] \in Seq(MeasurementOf)
  BY DEF TypeOK, Parts
<1> QED  BY <1>1

(* Both ends of a velocity are poses that were prepared. *)
LEMMA EndsArePrepared ==
  ASSUME TypeOK, DisplacementsAddUp, setup.mode = "differential",
         NEW k \in DOMAIN queued["pose"]
  PROVE  /\ k \in DOMAIN prepared /\ k + 1 \in DOMAIN prepared
         /\ prepared[k] \in DOMAIN trajectory /\ prepared[k + 1] \in DOMAIN trajectory
<1>1. Len(queued["pose"]) = IF prepared = <<>> THEN 0 ELSE Len(prepared) - 1
  BY AddUpMeans
<1>2. k \in 1..Len(queued["pose"])
  BY PreparedIs
<1>3. k \in 1..Len(prepared) /\ k + 1 \in 1..Len(prepared)
  BY <1>1, <1>2, PreparedIs
<1> QED  BY <1>3, PreparedIs

LEMMA DifferentialStays ==
  ASSUME TypeOK, DifferentialInv, LeavesAlone
  PROVE  DifferentialInv'
<1>1. /\ UNCHANGED <<setup, lastMessageTimes, previousMeasurement, prepared, queued>>
      /\ known \subseteq known'
  BY DEF LeavesAlone
<1>2. CASE setup.mode # "differential"
  BY <1>1, <1>2 DEF DifferentialInv, PreviousIsLast, DisplacementsAddUp
<1>3. CASE setup.mode = "differential"
  <2>1. PreviousIsLast'
    <3>1. CASE prepared = <<>>
      BY <1>1, <1>3, <3>1 DEF DifferentialInv, PreviousIsLast
    <3>2. CASE prepared # <<>>
      <4> SUFFICES ASSUME NEW last, last = prepared[Len(prepared)]
                   PROVE  /\ CanTransform(PoseFrame)'
                          /\ previousMeasurement' = PoseTmp(last)'
                          /\ lastMessageTimes'["pose"] = Stamp(last)'
        BY <1>1, <3>2 DEF PreviousIsLast
      <4>1. /\ CanTransform(PoseFrame) /\ previousMeasurement = PoseTmp(last)
            /\ lastMessageTimes["pose"] = Stamp(last)
        BY <1>3, <3>2 DEF DifferentialInv, PreviousIsLast
      <4>2. last \in DOMAIN trajectory
        BY <3>2, PreparedIs
      <4>3. PoseTmp(last)' = PoseTmp(last) /\ Stamp(last)' = Stamp(last) /\ PoseFrame' = PoseFrame
        BY <4>2, PastIsKept
      <4> QED  BY <1>1, <4>1, <4>3 DEF CanTransform
    <3> QED  BY <3>1, <3>2
  <2>2. DisplacementsAddUp'
    <3>1. DisplacementsAddUp
      BY DEF DifferentialInv
    <3>2. Len(queued'["pose"]) = IF prepared' = <<>> THEN 0 ELSE Len(prepared') - 1
      BY <1>1, <1>3, <3>1, AddUpMeans
    <3> SUFFICES ASSUME NEW k \in DOMAIN queued'["pose"],
                        NEW i, i = prepared'[k], NEW j, j = prepared'[k + 1],
                        NEW m, m = queued'["pose"][k]
                 PROVE  Leads(m, i, j)'
      BY <3>2 DEF DisplacementsAddUp, Leads
    <3>3. Leads(m, i, j)
      BY <1>1, <1>3, <3>1, AddUpMeans
    <3>4. i \in DOMAIN trajectory /\ j \in DOMAIN trajectory
      BY <1>1, <1>3, <3>1, EndsArePrepared
    <3> QED  BY <3>3, <3>4, PastIsKept DEF Leads
  <2> QED  BY <2>1, <2>2 DEF DifferentialInv
<1> QED  BY <1>2, <1>3

(* The velocity that a pose leads to. *)
LEMMA NextVelocity ==
  ASSUME TypeOK, DifferentialInv, setup.mode = "differential", prepared # <<>>,
         NEW i \in DOMAIN trajectory, NEW m, PreparedPose(i) = <<m>>
  PROVE  Leads(m, prepared[Len(prepared)], i)
<1> DEFINE last == prepared[Len(prepared)]
<1>1. last \in DOMAIN trajectory
  BY PreparedIs
<1>2. /\ CanTransform(PoseFrame) /\ previousMeasurement = PoseTmp(last)
      /\ lastMessageTimes["pose"] = Stamp(last)
  BY DEF DifferentialInv, PreviousIsLast
<1>3. previousMeasurement # None /\ Stamp(last) # None
  BY <1>1, <1>2, PoseTmpType, InstantIs, ConstantsAssumption
<1>4. TimeOfLast("pose", i) = Stamp(last)
  BY <1>2, <1>3 DEF TimeOfLast
<1>5. m = PoseMeasurement(i, Delta(i), Stamp(i) - TimeOfLast("pose", i))
  BY <1>2, <1>3, PreparedPoseIs, SameSingleton
<1>6. m.value = Delta(i) /\ m.over = Stamp(i) - Stamp(last)
  BY <1>4, <1>5 DEF PoseMeasurement, Measurement
<1>7. Delta(i) = Motion(last, i)
  BY <1>1, <1>2, DifferentialPose
<1> QED  BY <1>6, <1>7 DEF Leads

(* A pose is taken in: the velocity that leads to it joins the queue, if    *)
(* there was a pose before, and it becomes the previous one.                *)
LEMMA DifferentialMovesOn ==
  ASSUME TypeOK, DifferentialInv, setup.mode = "differential",
         NEW parts, NEW i \in DOMAIN trajectory, NEW oriented \in BOOLEAN,
         TakesIn(parts, i, oriented), Heard(parts, "pose", i), CanTransform(PoseFrame)
  PROVE  DifferentialInv'
<1>1. /\ UNCHANGED <<setup, trajectory, known>> /\ "pose" \in Parts
      /\ prepared' = Append(prepared, i) /\ previousMeasurement' = PoseTmp(i)
      /\ lastMessageTimes'["pose"] = Stamp(i)
  BY DEF TakesIn, Parts
<1>2. /\ prepared' # <<>> /\ Len(prepared') = Len(prepared) + 1
      /\ prepared'[Len(prepared')] = i /\ prepared'[Len(prepared) + 1] = i
      /\ \A k \in DOMAIN prepared : prepared'[k] = prepared[k]
  BY <1>1, PreparedIs
<1>3. PreviousIsLast'
  <2>1. PoseTmp(i)' = PoseTmp(i) /\ Stamp(i)' = Stamp(i) /\ PoseFrame' = PoseFrame
    BY <1>1, PastIsKept
  <2>2. CanTransform(PoseFrame)'
    BY <1>1, <2>1 DEF CanTransform
  <2> SUFFICES ASSUME NEW last, last = prepared'[Len(prepared')]
               PROVE  /\ previousMeasurement' = PoseTmp(last)'
                      /\ lastMessageTimes'["pose"] = Stamp(last)'
    BY <1>2, <2>2 DEF PreviousIsLast
  <2> QED  BY <1>1, <1>2, <2>1
<1>4. DisplacementsAddUp'
  <2>1. /\ Len(queued["pose"]) = IF prepared = <<>> THEN 0 ELSE Len(prepared) - 1
        /\ \A k \in DOMAIN queued["pose"] :
             Leads(queued["pose"][k], prepared[k], prepared[k + 1])
    BY AddUpMeans DEF DifferentialInv
  <2>2. Prepared("pose", i, oriented) = PreparedPose(i)
    BY DEF Prepared
  <2>3. Len(queued'["pose"]) = Len(prepared') - 1
    <3>1. CASE prepared = <<>>
      <4>1. PreparedPose(i) = <<>>
        BY <3>1, PreparedPoseIs DEF DifferentialInv, PreviousIsLast
      <4>2. queued'["pose"] = queued["pose"]
        BY <1>1, <2>2, <4>1, NothingJoins
      <4>3. Len(prepared) = 0
        BY <3>1
      <4> QED  BY <1>2, <2>1, <3>1, <4>2, <4>3
    <3>2. CASE prepared # <<>>
      <4>1. previousMeasurement # None
        <5>1. /\ prepared[Len(prepared)] \in DOMAIN trajectory
              /\ previousMeasurement = PoseTmp(prepared[Len(prepared)])
          BY <3>2, PreparedIs DEF DifferentialInv, PreviousIsLast
        <5> QED  BY <5>1, PoseTmpType, ConstantsAssumption
      <4>2. PreparedPose(i) = <<PoseMeasurement(i, Delta(i), Stamp(i) - TimeOfLast("pose", i))>>
        BY <4>1, PreparedPoseIs
      <4>3. PreparedPose(i) # <<>>
        BY <4>2
      <4>4. \E m \in MeasurementOf : queued'["pose"] = Append(queued["pose"], m)
        BY <1>1, <2>2, <4>3, QueueGrows
      <4>5. Len(queued'["pose"]) = Len(queued["pose"]) + 1
        BY <4>4, PreparedIs
      <4>6. Len(queued["pose"]) = Len(prepared) - 1 /\ Len(prepared) \in Nat
        BY <2>1, <3>2, PreparedIs
      <4> QED  BY <1>2, <4>5, <4>6
    <3> QED  BY <3>1, <3>2
  <2> SUFFICES ASSUME NEW k \in DOMAIN queued'["pose"],
                      NEW a, a = prepared'[k], NEW b, b = prepared'[k + 1],
                      NEW m, m = queued'["pose"][k]
               PROVE  Leads(m, a, b)'
    BY <1>2, <2>3 DEF DisplacementsAddUp, Leads
  <2>4. Leads(m, a, b) /\ a \in DOMAIN trajectory /\ b \in DOMAIN trajectory
    <3>1. CASE k \in DOMAIN queued["pose"] /\ m = queued["pose"][k]
      <4>1. k \in DOMAIN prepared /\ k + 1 \in DOMAIN prepared
        BY <3>1, EndsArePrepared DEF DifferentialInv
      <4>2. a = prepared[k] /\ b = prepared[k + 1]
        BY <1>2, <4>1
      <4> QED  BY <2>1, <3>1, <4>1, <4>2, PreparedIs
    <3>2. CASE k = Len(queued["pose"]) + 1 /\ Prepared("pose", i, oriented) = <<m>>
      <4>1. prepared # <<>>
        <5>1. PreparedPose(i) # <<>>
          BY <2>2, <3>2, NotEmpty
        <5> QED  BY <5>1, PreparedPoseIs DEF DifferentialInv, PreviousIsLast
      <4>2. k = Len(prepared) /\ Len(prepared) \in DOMAIN prepared
        BY <2>1, <3>2, <4>1, PreparedIs
      <4>3. a = prepared[Len(prepared)] /\ b = i
        BY <1>2, <4>2
      <4>4. Leads(m, prepared[Len(prepared)], i)
        BY <2>2, <3>2, <4>1, NextVelocity
      <4>5. prepared[Len(prepared)] \in DOMAIN trajectory
        BY <4>2, PreparedIs
      <4> QED  BY <4>3, <4>4, <4>5
    <3>3. \/ k \in DOMAIN queued["pose"] /\ queued'["pose"][k] = queued["pose"][k]
          \/ /\ k = Len(queued["pose"]) + 1
             /\ Prepared("pose", i, oriented) = <<queued'["pose"][k]>>
      BY <1>1, OldOrNew
    <3> QED  BY <3>1, <3>2, <3>3
  <2> QED  BY <1>1, <2>4, PastIsKept DEF Leads
<1> QED  BY <1>3, <1>4 DEF DifferentialInv

(* No pose is taken in: once one was prepared the frame is known, and only  *)
(* a pose that is prepared takes over the time of the last message.         *)
LEMMA DifferentialWaits ==
  ASSUME TypeOK, DifferentialInv, setup.mode = "differential",
         NEW parts, NEW i \in DOMAIN trajectory, NEW oriented \in BOOLEAN,
         TakesIn(parts, i, oriented), ~(Heard(parts, "pose", i) /\ CanTransform(PoseFrame))
  PROVE  DifferentialInv'
<1>1. /\ UNCHANGED <<setup, trajectory, known, prepared, previousMeasurement>>
      /\ "pose" \in Parts
  BY DEF TakesIn, Parts
<1>2. queued'["pose"] = queued["pose"]
  <2>1. ~Heard(parts, "pose", i) \/ Prepared("pose", i, oriented) = <<>>
    BY PreparedPoseIs DEF Prepared
  <2> QED  BY <1>1, <2>1, NothingJoins
<1>3. prepared # <<>> => lastMessageTimes'["pose"] = lastMessageTimes["pose"]
  <2> SUFFICES ASSUME prepared # <<>> PROVE lastMessageTimes'["pose"] = lastMessageTimes["pose"]
    OBVIOUS
  <2>1. CanTransform(PoseFrame)
    BY DEF DifferentialInv, PreviousIsLast
  <2> QED  BY <1>1, <2>1 DEF TakesIn
<1>4. PreviousIsLast'
  <2>1. CASE prepared = <<>>
    BY <1>1, <2>1 DEF DifferentialInv, PreviousIsLast
  <2>2. CASE prepared # <<>>
    <3> SUFFICES ASSUME NEW last, last = prepared[Len(prepared)]
                 PROVE  /\ CanTransform(PoseFrame)'
                        /\ previousMeasurement' = PoseTmp(last)'
                        /\ lastMessageTimes'["pose"] = Stamp(last)'
      BY <1>1, <2>2 DEF PreviousIsLast
    <3>1. /\ CanTransform(PoseFrame) /\ previousMeasurement = PoseTmp(last)
          /\ lastMessageTimes["pose"] = Stamp(last)
      BY <2>2 DEF DifferentialInv, PreviousIsLast
    <3>2. PoseTmp(last)' = PoseTmp(last) /\ Stamp(last)' = Stamp(last) /\ PoseFrame' = PoseFrame
      BY <1>1, <2>2, PreparedIs, PastIsKept
    <3> QED  BY <1>1, <1>3, <2>2, <3>1, <3>2 DEF CanTransform
  <2> QED  BY <2>1, <2>2
<1>5. DisplacementsAddUp'
  <2>1. DisplacementsAddUp
    BY DEF DifferentialInv
  <2>2. Len(queued'["pose"]) = IF prepared' = <<>> THEN 0 ELSE Len(prepared') - 1
    BY <1>1, <1>2, <2>1, AddUpMeans
  <2> SUFFICES ASSUME NEW k \in DOMAIN queued'["pose"],
                      NEW a, a = prepared'[k], NEW b, b = prepared'[k + 1],
                      NEW m, m = queued'["pose"][k]
               PROVE  Leads(m, a, b)'
    BY <2>2 DEF DisplacementsAddUp, Leads
  <2>3. Leads(m, a, b) /\ a \in DOMAIN trajectory /\ b \in DOMAIN trajectory
    BY <1>1, <1>2, <2>1, AddUpMeans, EndsArePrepared
  <2> QED  BY <1>1, <2>3, PastIsKept DEF Leads
<1> QED  BY <1>4, <1>5 DEF DifferentialInv

LEMMA OtherModes ==
  ASSUME setup.mode # "differential", setup' = setup
  PROVE  DifferentialInv'
  BY DEF DifferentialInv, PreviousIsLast, DisplacementsAddUp

LEMMA DifferentialAlways == Spec => []DifferentialInv
<1>1. Init => DifferentialInv
  <2> SUFFICES ASSUME Init PROVE DifferentialInv
    OBVIOUS
  <2>1. prepared = <<>> /\ queued["pose"] = <<>> /\ previousMeasurement = None
    BY DEF Init, Parts
  <2> QED  BY <2>1 DEF DifferentialInv, PreviousIsLast, DisplacementsAddUp
<1>2. ASSUME TypeOK, DifferentialInv, [Next]_vars PROVE DifferentialInv'
  <2>1. CASE LeavesAlone
    BY <1>2, <2>1, DifferentialStays
  <2>2. CASE Forgets
    <3>1. prepared' = <<>> /\ queued'["pose"] = <<>> /\ previousMeasurement' = None
      BY <2>2 DEF Forgets, Parts
    <3> QED  BY <3>1 DEF DifferentialInv, PreviousIsLast, DisplacementsAddUp
  <2>3. CASE \E parts \in SUBSET Parts, i \in DOMAIN trajectory, oriented \in BOOLEAN :
               TakesIn(parts, i, oriented)
    <3>1. PICK parts \in SUBSET Parts, i \in DOMAIN trajectory, oriented \in BOOLEAN :
            TakesIn(parts, i, oriented)
      BY <2>3
    <3>2. setup' = setup
      BY <3>1 DEF TakesIn
    <3> QED  BY <1>2, <3>1, <3>2, OtherModes, DifferentialMovesOn, DifferentialWaits
  <2> QED  BY <1>2, <2>1, <2>2, <2>3, StepKind
<1> QED  BY <1>1, <1>2, PreparationTypeCorrect, PTL DEF Spec

(* preparePose, differential: the velocities lead from each prepared pose   *)
(* to the next over the time between their stamps, however many messages    *)
(* are late, lost or repeated: previous_measurements_ and                   *)
(* last_message_times_ stay in step, although two functions write them.     *)
THEOREM DisplacementsSum == Spec => []DisplacementsAddUp
<1>1. DifferentialInv => DisplacementsAddUp
  BY DEF DifferentialInv
<1> QED  BY <1>1, DifferentialAlways, PTL

-----------------------------------------------------------------------------
(* Velocities and forces.                                                  *)

LEMMA SamePosition ==
  ASSUME NEW u \in Transform, NEW v \in Transform, u.x = v.x, u.y = v.y, u.yaw = 0, v.yaw = 0
  PROVE  u = v
  BY SameTransform

LEMMA CosSinAre ==
  ASSUME NEW yaw \in Yaws
  PROVE  Cos(yaw) \in {-1, 0, 1} /\ Sin(yaw) \in {-1, 0, 1}
  BY DEF Cos, Sin, Yaws

LEMMA TurnOfSum ==
  ASSUME NEW c \in {-1, 0, 1}, NEW s \in {-1, 0, 1},
         NEW a \in Int, NEW b \in Int, NEW d \in Int, NEW e \in Int
  PROVE  /\ c * (a + b) - s * (d + e) = (c * a - s * d) + (c * b - s * e)
         /\ s * (a + b) + c * (d + e) = (s * a + c * d) + (s * b + c * e)
         /\ c * (a - b) - s * (d - e) = (c * a - s * d) - (c * b - s * e)
         /\ s * (a - b) + c * (d - e) = (s * a + c * d) - (s * b + c * e)
<1>1. CASE c = 1
  BY <1>1
<1>2. CASE c = 0
  BY <1>2
<1>3. CASE c = -1
  BY <1>3
<1> QED  BY <1>1, <1>2, <1>3

(* A rotation of a sum is the sum of the rotations. *)
LEMMA RotateSums ==
  ASSUME NEW yaw \in Yaws, NEW u \in Transform, NEW v \in Transform
  PROVE  /\ Rotate(yaw, Plus(u, v)) = Plus(Rotate(yaw, u), Rotate(yaw, v))
         /\ Rotate(yaw, Minus(u, v)) = Minus(Rotate(yaw, u), Rotate(yaw, v))
<1> DEFINE c == Cos(yaw)
           s == Sin(yaw)
           p == Plus(u, v)
           m == Minus(u, v)
           ru == Rotate(yaw, u)
           rv == Rotate(yaw, v)
<1>1. /\ u.x \in Int /\ u.y \in Int /\ v.x \in Int /\ v.y \in Int
      /\ c \in {-1, 0, 1} /\ s \in {-1, 0, 1}
  BY FieldsOf, CosSinAre
<1>2. /\ p \in Transform /\ p.x = u.x + v.x /\ p.y = u.y + v.y
      /\ m \in Transform /\ m.x = u.x - v.x /\ m.y = u.y - v.y
  BY PlusIs, MinusIs
<1>3. /\ ru \in Transform /\ ru.x = c * u.x - s * u.y /\ ru.y = s * u.x + c * u.y
      /\ rv \in Transform /\ rv.x = c * v.x - s * v.y /\ rv.y = s * v.x + c * v.y
  BY RotateIs
<1>4. /\ Rotate(yaw, p) = At(c * p.x - s * p.y, s * p.x + c * p.y)
      /\ Rotate(yaw, m) = At(c * m.x - s * m.y, s * m.x + c * m.y)
  BY <1>2, RotateIs
<1>5. /\ c * (u.x + v.x) - s * (u.y + v.y) = (c * u.x - s * u.y) + (c * v.x - s * v.y)
      /\ s * (u.x + v.x) + c * (u.y + v.y) = (s * u.x + c * u.y) + (s * v.x + c * v.y)
      /\ c * (u.x - v.x) - s * (u.y - v.y) = (c * u.x - s * u.y) - (c * v.x - s * v.y)
      /\ s * (u.x - v.x) + c * (u.y - v.y) = (s * u.x + c * u.y) - (s * v.x + c * v.y)
  <2> HIDE DEF c, s
  <2> QED  BY <1>1, TurnOfSum
<1> HIDE DEF c, s, p, m, ru, rv
<1>6. /\ Rotate(yaw, p) = At(ru.x + rv.x, ru.y + rv.y)
      /\ Rotate(yaw, m) = At(ru.x - rv.x, ru.y - rv.y)
  BY <1>2, <1>3, <1>4, <1>5
<1> QED  BY <1>6 DEF Plus, Minus, p, m, ru, rv

LEMMA NoRotation ==
  ASSUME NEW v \in Transform, v.yaw = 0
  PROVE  Rotate(0, v) = v
<1>1. /\ Rotate(0, v) \in Transform /\ Rotate(0, v).yaw = 0
      /\ Rotate(0, v).x = Cos(0) * v.x - Sin(0) * v.y
      /\ Rotate(0, v).y = Sin(0) * v.x + Cos(0) * v.y
  BY RotateIs DEF Yaws
<1>2. Cos(0) = 1 /\ Sin(0) = 0 /\ v.x \in Int /\ v.y \in Int
  BY FieldsOf DEF Cos, Sin
<1>3. 1 * v.x - 0 * v.y = v.x /\ 0 * v.x + 1 * v.y = v.y
  BY <1>2
<1> QED  BY <1>1, <1>2, <1>3, SamePosition

LEMMA BackAgain == \A y \in Yaws : Clamp(-y) \in Yaws /\ Clamp(y + Clamp(-y)) = 0
  BY DEF Clamp, Yaws

LEMMA RotateBack ==
  ASSUME NEW yaw \in Yaws, NEW v \in Transform, v.yaw = 0
  PROVE  Rotate(yaw, Rotate(Clamp(-yaw), v)) = v
<1>1. Clamp(-yaw) \in Yaws /\ Clamp(yaw + Clamp(-yaw)) = 0
  BY BackAgain
<1>2. Rotate(yaw, Rotate(Clamp(-yaw), v)) = Rotate(0, v)
  BY <1>1, RotateTwice
<1> QED  BY <1>2, NoRotation

-----------------------------------------------------------------------------
(* prepareTwist.                                                           *)

TwistOff(m) ==
  Minus(m.value, True(m.sample).velocity) =
    LeverArm(True(m.sample).turn - m.believed.turn, Mount(setup.child))

LEMMA LeverArmsDiffer ==
  ASSUME NEW t \in Int, NEW e \in Int, NEW r \in Int, NEW v \in Int
  PROVE  /\ v + (-t * r) - (-e * r) - v = -(t - e) * r
         /\ v + t * r - e * r - v = (t - e) * r
  OBVIOUS

(* The lever arm of the true turn rate comes with the report, that of the
   estimated one is taken off. *)
LEMMA TwistIsOff ==
  ASSUME TypeOK, ~setup.imu, NEW i \in DOMAIN trajectory
  PROVE  TwistOff(TwistMeasurement(i))
<1> DEFINE mount == Mount(setup.child)
           v == True(i).velocity
           t == True(i).turn
           e == estimate.turn
           w == Plus(v, LeverArm(t, mount))
           value == VelocityAtOrigin(mount, ReportedVelocity(i))
<1>1. /\ mount \in Transform /\ mount.yaw \in Yaws /\ mount.x \in Int /\ mount.y \in Int
      /\ v \in Transform /\ v.x \in Int /\ v.y \in Int /\ t \in Int /\ e \in Int
  BY SetupIs, MountType, InstantIs, EstimateIs, FieldsOf
<1>2. ReportedVelocity(i) = Rotate(Clamp(-mount.yaw), w)
  BY DEF ReportedVelocity
<1>3. value = Minus(Rotate(mount.yaw, ReportedVelocity(i)), LeverArm(e, mount))
  BY DEF VelocityAtOrigin
<1> HIDE DEF mount, v, t, e
<1>4. /\ LeverArm(t, mount) \in Transform
      /\ LeverArm(t, mount).x = -t * mount.y /\ LeverArm(t, mount).y = t * mount.x
      /\ LeverArm(e, mount) \in Transform
      /\ LeverArm(e, mount).x = -e * mount.y /\ LeverArm(e, mount).y = e * mount.x
  BY <1>1, LeverArmIs
<1>5. /\ w \in Transform /\ w.yaw = 0
      /\ w.x = v.x + (-t * mount.y) /\ w.y = v.y + t * mount.x
  BY <1>1, <1>4, PlusIs
<1> HIDE DEF w
<1>6. value = Minus(w, LeverArm(e, mount))
  BY <1>1, <1>2, <1>3, <1>5, RotateBack
<1> HIDE DEF value
<1>7. /\ value \in Transform
      /\ value.x = w.x - LeverArm(e, mount).x /\ value.y = w.y - LeverArm(e, mount).y
  BY <1>4, <1>5, <1>6, MinusIs
<1>8. /\ Minus(value, v) \in Transform /\ Minus(value, v).yaw = 0
      /\ Minus(value, v).x = v.x + (-t * mount.y) - (-e * mount.y) - v.x
      /\ Minus(value, v).y = v.y + t * mount.x - e * mount.x - v.y
  BY <1>1, <1>4, <1>5, <1>7, MinusIs
<1>9. /\ LeverArm(t - e, mount) \in Transform /\ LeverArm(t - e, mount).yaw = 0
      /\ LeverArm(t - e, mount).x = -(t - e) * mount.y
      /\ LeverArm(t - e, mount).y = (t - e) * mount.x
  BY <1>1, LeverArmIs
<1>10. Minus(value, v) = LeverArm(t - e, mount)
  <2>1. /\ v.x + (-t * mount.y) - (-e * mount.y) - v.x = -(t - e) * mount.y
        /\ v.y + t * mount.x - e * mount.x - v.y = (t - e) * mount.x
    BY <1>1, LeverArmsDiffer
  <2>2. /\ Minus(value, v).x = LeverArm(t - e, mount).x
        /\ Minus(value, v).y = LeverArm(t - e, mount).y
    BY <1>8, <1>9, <2>1
  <2> QED  BY <1>8, <1>9, <2>2, SamePosition
<1>11. /\ TwistMeasurement(i).sample = i /\ TwistMeasurement(i).value = value
       /\ TwistMeasurement(i).believed.turn = e
  BY DEF TwistMeasurement, Measurement, value, e, mount
<1> QED  BY <1>10, <1>11 DEF TwistOff, mount, v, t

LEMMA TwistsStayOff ==
  ASSUME TypeOK, TwistErrorIsLeverArm, LeavesAlone
  PROVE  TwistErrorIsLeverArm'
<1> SUFFICES ASSUME ~setup'.imu, NEW k \in DOMAIN queued'["twist"],
                    NEW m, m = queued'["twist"][k]
             PROVE  TwistOff(m)'
  BY DEF TwistErrorIsLeverArm, TwistOff
<1>1. UNCHANGED <<setup, queued>>
  BY DEF LeavesAlone
<1>2. TwistOff(m) /\ m.sample \in DOMAIN trajectory
  BY <1>1, QueuedIs DEF Parts, TwistErrorIsLeverArm, TwistOff
<1> QED  BY <1>1, <1>2, PastIsKept DEF TwistOff, Mount

LEMMA TwistsAreTakenIn ==
  ASSUME TypeOK, TwistErrorIsLeverArm, NEW parts, NEW i \in DOMAIN trajectory,
         NEW oriented \in BOOLEAN, TakesIn(parts, i, oriented)
  PROVE  TwistErrorIsLeverArm'
<1> SUFFICES ASSUME ~setup'.imu, NEW k \in DOMAIN queued'["twist"],
                    NEW m, m = queued'["twist"][k]
             PROVE  TwistOff(m)'
  BY DEF TwistErrorIsLeverArm, TwistOff
<1>1. UNCHANGED <<setup, trajectory>> /\ "twist" \in Parts
  BY DEF TakesIn, Parts
<1>2. TwistOff(m) /\ m.sample \in DOMAIN trajectory
  <2>1. CASE k \in DOMAIN queued["twist"] /\ m = queued["twist"][k]
    BY <1>1, <2>1, QueuedIs DEF TwistErrorIsLeverArm, TwistOff
  <2>2. CASE Prepared("twist", i, oriented) = <<m>>
    <3>1. PreparedTwist(i) = <<m>>
      BY <2>2 DEF Prepared
    <3>2. m = TwistMeasurement(i)
      BY <3>1, PreparedTwistIs, NotEmpty, SameSingleton
    <3>3. m.sample = i
      BY <3>2 DEF TwistMeasurement, Measurement
    <3> QED  BY <1>1, <3>2, <3>3, TwistIsOff
  <2> QED  BY <1>1, <2>1, <2>2, OldOrNew
<1> QED  BY <1>1, <1>2, PastIsKept DEF TwistOff, Mount

(* prepareTwist: the velocity is the robot's own up to the offset of the    *)
(* sensor times the error of the turn rate that was estimated when the      *)
(* message came, for every mounting of the sensor.                          *)
THEOREM TwistError == Spec => []TwistErrorIsLeverArm
<1>1. Init => TwistErrorIsLeverArm
  BY DEF Init, TwistErrorIsLeverArm, Parts
<1>2. ASSUME TypeOK, TwistErrorIsLeverArm, [Next]_vars PROVE TwistErrorIsLeverArm'
  <2>1. CASE LeavesAlone
    BY <1>2, <2>1, TwistsStayOff
  <2>2. CASE Forgets
    BY <2>2 DEF Forgets, TwistErrorIsLeverArm, Parts
  <2>3. CASE \E parts \in SUBSET Parts, i \in DOMAIN trajectory, oriented \in BOOLEAN :
               TakesIn(parts, i, oriented)
    BY <1>2, <2>3, TwistsAreTakenIn
  <2> QED  BY <1>2, <2>1, <2>2, <2>3, StepKind
<1> QED  BY <1>1, <1>2, PreparationTypeCorrect, PTL DEF Spec

-----------------------------------------------------------------------------
(* prepareAcceleration.                                                    *)

GravityOff(m) ==
  Minus(m.value, Rotate(Clamp(-True(m.sample).tilt), True(m.sample).acceleration)) =
    Minus(Rotate(Clamp(-True(m.sample).tilt), At(0, Gravity)),
          IF setup.removeGravity THEN Rotate(Clamp(-m.believed.tilt), At(0, Gravity))
          ELSE At(0, 0))

LEMMA LeanComesOff ==
  \A l, t \in Yaws : /\ Clamp(-t) \in Yaws
                     /\ Clamp(l + Clamp(-(t + l))) = Clamp(-t)
                     /\ Clamp(l + Clamp(-Clamp(t + l))) = Clamp(-t)
  BY DEF Clamp, Yaws

LEMMA MinusOfPlus ==
  ASSUME NEW a \in Transform, NEW u \in Transform, NEW b \in Transform
  PROVE  Minus(Minus(Plus(a, u), b), a) = Minus(u, b)
<1> DEFINE p == Plus(a, u)
           m == Minus(p, b)
<1>1. /\ a.x \in Int /\ a.y \in Int /\ u.x \in Int /\ u.y \in Int /\ b.x \in Int /\ b.y \in Int
  BY FieldsOf
<1>2. p \in Transform /\ p.x = a.x + u.x /\ p.y = a.y + u.y
  BY PlusIs
<1> HIDE DEF p
<1>3. m \in Transform /\ m.x = p.x - b.x /\ m.y = p.y - b.y
  BY <1>2, MinusIs
<1> HIDE DEF m
<1>4. Minus(m, a) = At(m.x - a.x, m.y - a.y) /\ Minus(u, b) = At(u.x - b.x, u.y - b.y)
  BY DEF Minus
<1>5. m.x - a.x = u.x - b.x /\ m.y - a.y = u.y - b.y
  BY <1>1, <1>2, <1>3
<1>6. Minus(m, a) = Minus(u, b)
  BY <1>4, <1>5
<1> QED  BY <1>6 DEF m, p

LEMMA NothingTurns ==
  ASSUME NEW yaw \in Yaws
  PROVE  Rotate(yaw, At(0, 0)) = At(0, 0)
<1>1. At(0, 0) \in Transform
  BY AtIs
<1>2. Rotate(yaw, At(0, 0)) = At(Cos(yaw) * 0 - Sin(yaw) * 0, Sin(yaw) * 0 + Cos(yaw) * 0)
  BY <1>1, RotateIs DEF At
<1>3. Cos(yaw) \in Int /\ Sin(yaw) \in Int
  BY DEF Cos, Sin, Yaws
<1>4. Cos(yaw) * 0 - Sin(yaw) * 0 = 0 /\ Sin(yaw) * 0 + Cos(yaw) * 0 = 0
  BY <1>3
<1> QED  BY <1>2, <1>4

(* The lean of the accelerometer comes off both the force and the gravity
   that is expected. *)
LEMMA GravityIsOff ==
  ASSUME TypeOK, NEW i \in DOMAIN trajectory, NEW oriented \in BOOLEAN
  PROVE  GravityOff(AccelerationMeasurement(i, oriented))
<1> DEFINE lean == Tilted(setup.frame)
           tilt == True(i).tilt
           b == Believed(i, oriented).tilt
           acc == True(i).acceleration
           up == At(0, Gravity)
           force == Plus(acc, up)
           felt == Rotate(Clamp(-(tilt + lean)), force)
           expected == IF setup.removeGravity THEN Rotate(Clamp(-Clamp(b + lean)), up)
                       ELSE At(0, 0)
           taken == IF setup.removeGravity THEN Rotate(Clamp(-b), up) ELSE At(0, 0)
           value == Rotate(lean, Minus(felt, expected))
<1>1. /\ lean \in Yaws /\ tilt \in Yaws /\ b \in Yaws
      /\ acc \in Transform /\ up \in Transform /\ force \in Transform
      /\ Attitude(i, oriented) = Clamp(b + lean)
      /\ Clamp(-(tilt + lean)) \in Yaws
  BY TiltsAreYaws, InstantIs, GravityIs, ReportedAccelerationType
<1>2. /\ AccelerationMeasurement(i, oriented).sample = i
      /\ AccelerationMeasurement(i, oriented).value = value
      /\ AccelerationMeasurement(i, oriented).believed.tilt = b
  <2>1. ReportedAcceleration(i) = felt
    BY DEF ReportedAcceleration
  <2>2. Removed(i, oriented) = expected
    BY <1>1 DEF RotNorm, Removed
  <2> HIDE DEF felt, expected
  <2> QED  BY <2>1, <2>2 DEF AccelerationMeasurement, Measurement
<1>3. GravityOff(AccelerationMeasurement(i, oriented)) <=>
        Minus(value, Rotate(Clamp(-tilt), acc)) =
          Minus(Rotate(Clamp(-tilt), up), taken)
  <2> HIDE DEF value, b
  <2> QED  BY <1>2 DEF GravityOff
<1> HIDE DEF lean, tilt, b, acc, up
<1>4. Clamp(b + lean) \in Yaws /\ Clamp(-Clamp(b + lean)) \in Yaws /\ Clamp(-tilt) \in Yaws
      /\ Clamp(-b) \in Yaws
  BY <1>1, ClampYaws, BackAgain DEF Yaws
<1>5. felt \in Transform /\ expected \in Transform
  BY <1>1, <1>4, RotateIs, AtIs
<1>6. value = Minus(Rotate(lean, felt), Rotate(lean, expected))
  <2> HIDE DEF felt, expected
  <2> QED  BY <1>1, <1>5, RotateSums
<1>7. Rotate(lean, felt) = Rotate(Clamp(-tilt), force)
  <2> HIDE DEF force
  <2> QED  BY <1>1, RotateTwice, LeanComesOff
<1>8. Rotate(lean, expected) = taken
  <2>1. Rotate(lean, Rotate(Clamp(-Clamp(b + lean)), up)) = Rotate(Clamp(-b), up)
    BY <1>1, <1>4, RotateTwice, LeanComesOff
  <2>2. Rotate(lean, At(0, 0)) = At(0, 0)
    BY <1>1, NothingTurns
  <2> QED  BY <2>1, <2>2
<1>9. Rotate(Clamp(-tilt), force) = Plus(Rotate(Clamp(-tilt), acc), Rotate(Clamp(-tilt), up))
  BY <1>1, <1>4, RotateSums
<1>10. /\ Rotate(Clamp(-tilt), acc) \in Transform /\ Rotate(Clamp(-tilt), up) \in Transform
       /\ taken \in Transform
  BY <1>1, <1>4, RotateIs, AtIs
<1> HIDE DEF value, taken
<1>11. value = Minus(Plus(Rotate(Clamp(-tilt), acc), Rotate(Clamp(-tilt), up)), taken)
  BY <1>6, <1>7, <1>8, <1>9
<1> QED  BY <1>3, <1>10, <1>11, MinusOfPlus

LEMMA ForcesStayOff ==
  ASSUME TypeOK, GravityErrorIsAttitude, LeavesAlone
  PROVE  GravityErrorIsAttitude'
<1> SUFFICES ASSUME NEW k \in DOMAIN queued'["acceleration"],
                    NEW m, m = queued'["acceleration"][k]
             PROVE  GravityOff(m)'
  BY DEF GravityErrorIsAttitude, GravityOff
<1>1. UNCHANGED <<setup, queued>>
  BY DEF LeavesAlone
<1>2. GravityOff(m) /\ m.sample \in DOMAIN trajectory
  BY <1>1, QueuedIs DEF Parts, GravityErrorIsAttitude, GravityOff
<1> QED  BY <1>1, <1>2, PastIsKept DEF GravityOff

LEMMA ForcesAreTakenIn ==
  ASSUME TypeOK, GravityErrorIsAttitude, NEW parts, NEW i \in DOMAIN trajectory,
         NEW oriented \in BOOLEAN, TakesIn(parts, i, oriented)
  PROVE  GravityErrorIsAttitude'
<1> SUFFICES ASSUME NEW k \in DOMAIN queued'["acceleration"],
                    NEW m, m = queued'["acceleration"][k]
             PROVE  GravityOff(m)'
  BY DEF GravityErrorIsAttitude, GravityOff
<1>1. UNCHANGED <<setup, trajectory>> /\ "acceleration" \in Parts
  BY DEF TakesIn, Parts
<1>2. GravityOff(m) /\ m.sample \in DOMAIN trajectory
  <2>1. CASE k \in DOMAIN queued["acceleration"] /\ m = queued["acceleration"][k]
    BY <1>1, <2>1, QueuedIs DEF GravityErrorIsAttitude, GravityOff
  <2>2. CASE Prepared("acceleration", i, oriented) = <<m>>
    <3>1. PreparedAcceleration(i, oriented) = <<m>>
      BY <2>2 DEF Prepared
    <3>2. m = AccelerationMeasurement(i, oriented)
      BY <3>1, PreparedAccelerationIs, NotEmpty, SameSingleton
    <3>3. m.sample = i
      BY <3>2 DEF AccelerationMeasurement, Measurement
    <3> QED  BY <1>1, <3>2, <3>3, GravityIsOff
  <2> QED  BY <1>1, <2>1, <2>2, OldOrNew
<1> QED  BY <1>1, <1>2, PastIsKept DEF GravityOff

(* prepareAcceleration: what is left of gravity is the difference between   *)
(* gravity in the true attitude and in the one relied on, the message's or  *)
(* the estimate's, and all of it unless it is to be taken off; the rest is  *)
(* the robot's acceleration along its own axes, for every mounting of the   *)
(* accelerometer.                                                           *)
THEOREM GravityError == Spec => []GravityErrorIsAttitude
<1>1. Init => GravityErrorIsAttitude
  BY DEF Init, GravityErrorIsAttitude, Parts
<1>2. ASSUME TypeOK, GravityErrorIsAttitude, [Next]_vars PROVE GravityErrorIsAttitude'
  <2>1. CASE LeavesAlone
    BY <1>2, <2>1, ForcesStayOff
  <2>2. CASE Forgets
    BY <2>2 DEF Forgets, GravityErrorIsAttitude, Parts
  <2>3. CASE \E parts \in SUBSET Parts, i \in DOMAIN trajectory, oriented \in BOOLEAN :
               TakesIn(parts, i, oriented)
    BY <1>2, <2>3, ForcesAreTakenIn
  <2> QED  BY <1>2, <2>1, <2>2, <2>3, StepKind
<1> QED  BY <1>1, <1>2, PreparationTypeCorrect, PTL DEF Spec

=============================================================================

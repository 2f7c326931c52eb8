------------------------ MODULE NavSatTransformProofs ------------------------
(***************************************************************************)
(* Proofs about NavSatTransform, for every set of poses, every mounting,    *)
(* every datum and any number of fixes and requests: types, that a transform *)
(* from sensor data is the real one, that a datum is the origin, that a fix  *)
(* goes out once, and that what goes out is where the robot was.            *)
(***************************************************************************)
EXTENDS NavSatTransform, PlanarTransformsProofs

-----------------------------------------------------------------------------
(* Types of what the actions compute. *)

LEMMA RotateType ==
  ASSUME NEW yaw \in Yaws, NEW v \in Transform
  PROVE  Rotate(yaw, v) \in Transform
<1>1. Facing(Identity, yaw) \in Transform
  BY IdentityType, FacingIs
<1>2. Mult(Facing(Identity, yaw), v) \in Transform
  BY <1>1, MultType
<1> QED  BY <1>2, OriginType DEF Rotate

LEMMA SensedTypes ==
  ASSUME NEW p \in Poses
  PROVE  /\ p \in Transform /\ p.yaw \in Yaws
         /\ WorldPose(p) \in Transform /\ WorldPose(p).yaw \in Yaws
         /\ AntennaAt(p) \in Transform
         /\ MeasuredYaw(p) \in Yaws
         /\ Mounted(Clamp(MeasuredYaw(p) + ImuYaw)) \in Yaws
         /\ Clamp(MeasuredYaw(p) + ImuYaw) \in Yaws
<1>1. p \in Transform /\ p.yaw \in Yaws
  BY TransformsAssumption, FieldsOf
<1>2. WorldPose(p) \in Transform /\ WorldPose(p).yaw \in Yaws
  BY <1>1, TransformsAssumption, MultType, FieldsOf DEF WorldPose
<1>3. AntennaAt(p) \in Transform
  BY <1>1, TransformsAssumption, MultType, OriginType DEF AntennaAt
<1>4. MeasuredYaw(p) \in Yaws
  BY <1>1, AnglesAssumption, ClampYaws DEF MeasuredYaw, Yaws
<1>5. Clamp(MeasuredYaw(p) + ImuYaw) \in Yaws
  BY <1>4, AnglesAssumption, ClampYaws DEF Yaws
<1>6. Mounted(Clamp(MeasuredYaw(p) + ImuYaw)) \in Yaws
  BY <1>5, AnglesAssumption, ClampYaws DEF Mounted, Yaws
<1> QED  BY <1>1, <1>2, <1>3, <1>4, <1>5, <1>6

LEMMA HeadingType ==
  ASSUME TypeOK, NEW yaw \in Yaws, NEW convergence \in Yaws
  PROVE  Heading(yaw, convergence) \in Yaws
<1>1. yaw + magneticDeclination + YawOffset + convergence \in Int
  BY AnglesAssumption DEF TypeOK, Yaws
<1> QED  BY <1>1, ClampYaws DEF Heading

LEMMA WorldTimesInverseType ==
  ASSUME NEW w \in Transform, NEW p \in Transform
  PROVE  WorldTimesInverse(w, p) \in Transform
BY MultType, InverseType DEF WorldTimesInverse

LEMMA RobotOriginType ==
  ASSUME TypeOK
  PROVE  RobotOriginCartesianPose \in Transform
<1>1. Heading(transformOrientation, utmMeridianConvergence) \in Yaws
  BY HeadingType DEF TypeOK
<1>2. Rotate(Heading(transformOrientation, utmMeridianConvergence), Antenna) \in Transform
  BY <1>1, RotateType, TransformsAssumption
<1>3. transformCartesianPose \in Transform
  BY DEF TypeOK
<1> QED  BY <1>2, <1>3, InverseType, MultType DEF RobotOriginCartesianPose

LEMMA DatumType ==
  ASSUME TypeOK
  PROVE  /\ manualDatum \in Transform /\ manualDatum.yaw \in Yaws
         /\ Facing(manualDatum, Heading(manualDatum.yaw, Convergence)) \in Transform
<1>1. manualDatum \in Transform /\ manualDatum.yaw \in Yaws
  BY FieldsOf DEF TypeOK
<1>2. Heading(manualDatum.yaw, Convergence) \in Yaws
  BY <1>1, HeadingType, AnglesAssumption
<1> QED  BY <1>1, <1>2, FacingIs

LEMMA SentTypes ==
  ASSUME TypeOK
  PROVE  /\ RobotOriginWorldPose(CartesianToMap(latestCartesianPose)) \in Transform
         /\ MapToLL(Origin(latestWorldPose)) \in Transform
<1>1. /\ cartesianWorldTransform \in Transform /\ latestCartesianPose \in Transform
      /\ latestWorldPose \in Transform /\ robot \in Poses
  BY DEF TypeOK
<1>2. CartesianToMap(latestCartesianPose) \in Transform
  BY <1>1, MultType, OriginType DEF CartesianToMap
<1>3. Rotate(WorldPose(robot).yaw, Antenna) \in Transform
  BY <1>1, SensedTypes, RotateType, TransformsAssumption
<1>4. Mult(InverseOf[Rotate(WorldPose(robot).yaw, Antenna)], CartesianToMap(latestCartesianPose))
        \in Transform
  BY <1>2, <1>3, InverseType, MultType
<1>5. Origin(latestWorldPose) \in Transform /\ InverseOf[cartesianWorldTransform] \in Transform
  BY <1>1, OriginType, InverseType
<1>6. MapToLL(Origin(latestWorldPose)) \in Transform
  BY <1>5, MultType, OriginType DEF MapToLL
<1> QED  BY <1>4, <1>6, IdentityType DEF RobotOriginWorldPose

-----------------------------------------------------------------------------
LEMMA NavSatInitType == Init => TypeOK
<1> SUFFICES ASSUME Init PROVE TypeOK
  OBVIOUS
<1>1. Identity \in Transform /\ manualDatum \in Transform
  BY IdentityType, TransformsAssumption DEF Init
<1>2. 0 \in 0..MaxFixes /\ 0 \in 0..MaxRequests /\ 0 \in Yaws
  BY BoundsAssumption DEF Yaws
<1>3. magneticDeclination \in Yaws
  BY AnglesAssumption DEF Init
<1> QED  BY <1>1, <1>2, <1>3 DEF Init, TypeOK

LEMMA NavSatStepType == TypeOK /\ [Next]_vars => TypeOK'
<1> SUFFICES ASSUME TypeOK, [Next]_vars PROVE TypeOK'
  OBVIOUS
<1>0. robot \in Poses /\ robot \in Transform
  BY SensedTypes DEF TypeOK
<1>1. CASE GpsFixCallback
  <2>1. fix.number + 1 \in 0..MaxFixes
    BY <1>1, BoundsAssumption DEF GpsFixCallback, TypeOK
  <2>2. AntennaAt(robot) \in Transform
    BY <1>0, SensedTypes
  <2>3. CASE ~transformGood /\ ~useManualDatum
    <3>1. storedAt' \in [{"gps", "odom", "imu"} -> Poses]
      BY <1>0, <1>1, <2>3 DEF GpsFixCallback, TypeOK
    <3> QED
      BY <1>0, <1>1, <2>1, <2>2, <2>3, <3>1, AnglesAssumption
      DEF GpsFixCallback, SetTransformGps, settings, datumVars, transformVars, odomVars,
          outputVars, TypeOK
  <2>4. CASE ~(~transformGood /\ ~useManualDatum)
    BY <1>0, <1>1, <2>1, <2>2, <2>4
    DEF GpsFixCallback, settings, datumVars, transformVars, odomVars, outputVars, TypeOK
  <2> QED  BY <2>3, <2>4
<1>2. CASE ImuCallback
  <2>1. transformOrientation' \in Yaws
    BY <1>0, <1>2, SensedTypes DEF ImuCallback
  <2>2. storedAt' \in [{"gps", "odom", "imu"} -> Poses] /\ hasTransformImu' \in BOOLEAN
    BY <1>0, <1>2 DEF ImuCallback, TypeOK
  <2> QED
    BY <1>2, <2>1, <2>2
    DEF ImuCallback, settings, datumVars, transformVars, gpsVars, odomVars, outputVars, TypeOK
<1>3. CASE OdomCallback
  <2>1. WorldPose(robot) \in Transform /\ WorldPose(robot).yaw \in Yaws
    BY <1>0, SensedTypes
  <2>2. storedAt' \in [{"gps", "odom", "imu"} -> Poses]
    BY <1>0, <1>3 DEF OdomCallback, SetTransformOdometry, TypeOK
  <2>3. transformOrientation' \in Yaws /\ hasTransformImu' \in BOOLEAN
    BY <1>3, <2>1 DEF OdomCallback, SetTransformOdometry, TypeOK
  <2>4. transformWorldPose' \in Transform /\ hasTransformOdom' \in BOOLEAN
    BY <1>3, <2>1 DEF OdomCallback, SetTransformOdometry, TypeOK
  <2> QED
    BY <1>0, <1>3, <2>1, <2>2, <2>3, <2>4
    DEF OdomCallback, settings, datumVars, transformVars, gpsVars, outputVars, TypeOK
<1>4. CASE DatumCallback
  <2>1. requests' \in 0..MaxRequests
    BY <1>4, BoundsAssumption DEF DatumCallback, TypeOK
  <2>2. manualDatum' \in Transform
    BY <1>4, TransformsAssumption DEF DatumCallback
  <2> QED
    BY <1>4, <2>1, <2>2
    DEF DatumCallback, settings, storedVars, gpsVars, odomVars, outputVars, TypeOK
<1>5. CASE ParametersCallback
  <2>1. requests' \in 0..MaxRequests
    BY <1>5, BoundsAssumption DEF ParametersCallback, TypeOK
  <2>2. magneticDeclination' \in Yaws
    BY <1>5, AnglesAssumption DEF ParametersCallback
  <2> QED
    BY <1>5, <2>1, <2>2
    DEF ParametersCallback, settings, datumVars, storedVars, gpsVars, odomVars, outputVars,
        TypeOK
<1>6. CASE ComputeTransform
  <2>1. Facing(RobotOriginCartesianPose,
               Heading(transformOrientation, utmMeridianConvergence)) \in Transform
    BY RobotOriginType, HeadingType, FacingIs DEF TypeOK
  <2>2. cartesianWorldTransform' \in Transform
    BY <1>6, <2>1, WorldTimesInverseType DEF ComputeTransform, TypeOK
  <2> QED
    BY <1>6, <2>2
    DEF ComputeTransform, settings, datumVars, storedVars, gpsVars, odomVars, outputVars, TypeOK
<1>7. CASE ComputeTransformFromDatum
  <2>1. cartesianWorldTransform' \in Transform
    BY <1>7, DatumType, IdentityType, WorldTimesInverseType DEF ComputeTransformFromDatum
  <2>2. Origin(manualDatum) \in Transform /\ manualDatum.yaw \in Yaws
    BY DatumType, OriginType
  <2> QED
    BY <1>7, <2>1, <2>2, IdentityType, AnglesAssumption
    DEF ComputeTransformFromDatum, SetTransformGps, settings, datumVars, gpsVars, odomVars,
        outputVars, TypeOK
<1>8. CASE Publish
  <2>1. gpsOdometry' \in [number : 0..MaxFixes, position : Transform] /\ gpsUpdated' \in BOOLEAN
    <3>1. CASE gpsUpdated
      <4>1. fix.number \in 0..MaxFixes
        BY DEF TypeOK
      <4>2. PrepareGpsOdometry
        BY <1>8, <3>1 DEF Publish
      <4> QED  BY <4>1, <4>2, SentTypes DEF PrepareGpsOdometry
    <3>2. CASE ~gpsUpdated
      <4>1. gpsOdometry' = gpsOdometry /\ gpsUpdated' = gpsUpdated
        BY <1>8, <3>2 DEF Publish
      <4> QED  BY <4>1 DEF TypeOK
    <3> QED  BY <3>1, <3>2
  <2>2. filteredGps' \in Transform /\ odomUpdated' \in BOOLEAN
    BY <1>8, SentTypes DEF Publish, PrepareFilteredGps, TypeOK
  <2> QED
    BY <1>8, <2>1, <2>2 DEF Publish, settings, datumVars, storedVars, transformVars, TypeOK
<1>9. CASE Move
  BY <1>9
  DEF Move, settings, datumVars, storedVars, transformVars, gpsVars, odomVars, outputVars, TypeOK
<1>10. CASE FrameBecomesKnown
  BY <1>10
  DEF FrameBecomesKnown, settings, datumVars, storedVars, transformVars, gpsVars, odomVars,
      outputVars, TypeOK
<1>11. CASE UNCHANGED vars
  BY <1>11
  DEF vars, settings, datumVars, storedVars, transformVars, gpsVars, odomVars, outputVars, TypeOK
<1> QED
  BY <1>1, <1>2, <1>3, <1>4, <1>5, <1>6, <1>7, <1>8, <1>9, <1>10, <1>11
  DEF Next, TransformCallback

(* Every variable of the node keeps to its type; in particular every angle
   stays within one turn (clampRotation). *)
THEOREM NavSatTypeCorrect == Spec => []TypeOK
<1> QED  BY NavSatInitType, NavSatStepType, PTL DEF Spec

-----------------------------------------------------------------------------
(* Without a datum, what is stored for the transform is what the sensors said
   where storedAt says, with the mounting of the IMU taken off. *)
StoredIsSensed ==
  ~useManualDatum =>
    /\ ~waitForDatum
    /\ hasTransformGps =>
         /\ transformCartesianPose = AntennaAt(storedAt["gps"])
         /\ utmMeridianConvergence = Convergence
    /\ hasTransformOdom => transformWorldPose = WorldPose(storedAt["odom"])
    /\ hasTransformImu /\ useOdometryYaw =>
         transformOrientation = WorldPose(storedAt["imu"]).yaw
    /\ hasTransformImu /\ ~useOdometryYaw =>
         /\ "imu" \in frames
         /\ transformOrientation = MeasuredYaw(storedAt["imu"])

IInv == TypeOK /\ StoredIsSensed /\ TransformIsTrue /\ DatumIsOrigin

LEMMA MountingComesOff ==
  ASSUME NEW p \in Poses
  PROVE  Mounted(Clamp(MeasuredYaw(p) + ImuYaw)) = MeasuredYaw(p)
<1>1. MeasuredYaw(p) \in 0..3 /\ ImuYaw \in 0..3
  BY SensedTypes, AnglesAssumption DEF Yaws
<1>2. \A m, i \in 0..3 : (((m + i) % 4) - i) % 4 = m
  OBVIOUS
<1> QED  BY <1>1, <1>2 DEF Mounted, Clamp

(* The heading made of the stored orientation is the robot's heading in the
   grid, for an IMU and for earth-referenced odometry. *)
LEMMA HeadingIsTrue ==
  ASSUME magneticDeclination = TrueDeclination
  PROVE  \A p \in Poses :
           /\ Heading(MeasuredYaw(p), Convergence) = p.yaw
           /\ EarthReferenced => Heading(WorldPose(p).yaw, Convergence) = p.yaw
<1> SUFFICES ASSUME NEW p \in Poses, NEW yaw,
                    \/ yaw = MeasuredYaw(p)
                    \/ yaw = WorldPose(p).yaw /\ EarthReferenced
             PROVE  Heading(yaw, Convergence) = p.yaw
  OBVIOUS
<1> DEFINE n == TrueDeclination + YawOffset + Convergence
<1>1. /\ TrueDeclination \in Int /\ YawOffset \in Int /\ Convergence \in Int
      /\ n \in Int /\ p \in Transform /\ p.yaw \in Yaws /\ TrueWorld \in Transform /\ TrueWorld.yaw \in Yaws
  BY SensedTypes, AnglesAssumption, TransformsAssumption, FieldsOf DEF Yaws
<1>2. yaw = Clamp(p.yaw - n)
  <2>1. CASE yaw = MeasuredYaw(p)
    BY <2>1 DEF MeasuredYaw
  <2>2. CASE yaw = WorldPose(p).yaw /\ EarthReferenced
    <3>1. WorldPose(p).yaw = Clamp(TrueWorld.yaw + p.yaw)
      BY <1>1, MultIs DEF WorldPose
    <3>2. TrueWorld.yaw + TrueDeclination + YawOffset + Convergence = TrueWorld.yaw + n
      BY <1>1 DEF Yaws
    <3>3. Clamp(TrueWorld.yaw + n) = 0
      BY <2>2, <3>2 DEF EarthReferenced
    <3> HIDE DEF n
    <3> QED  BY <1>1, <2>2, <3>1, <3>3, SameTurn
  <2> QED  BY <2>1, <2>2
<1>3. yaw \in Int
  <2>1. p.yaw - n \in Int
    BY <1>1 DEF Yaws
  <2> QED  BY <1>2, <2>1, ClampYaws DEF Yaws
<1>4. yaw + magneticDeclination + YawOffset + Convergence = yaw + n
  BY <1>1, <1>3
<1> HIDE DEF n
<1> QED  BY <1>1, <1>2, <1>4, TurnBack DEF Heading

(* What the computation makes of what the sensors said in one place. *)
LEMMA ComputedIsTrue ==
  ASSUME TypeOK, StoredIsSensed, ComputeTransform, WellFounded'
  PROVE  cartesianWorldTransform' = TrueWorld
<1> DEFINE p == storedAt["odom"]
           h == Heading(transformOrientation, utmMeridianConvergence)
<1>1. /\ storedAt["gps"] = p /\ storedAt["imu"].yaw = p.yaw /\ "gps" \in frames
      /\ magneticDeclination = TrueDeclination /\ (useOdometryYaw => EarthReferenced)
      /\ ~useManualDatum /\ hasTransformOdom /\ hasTransformGps /\ hasTransformImu
  BY DEF WellFounded, ComputeTransform, storedVars, settings, datumVars, EarthReferenced
<1>2. /\ p \in Poses /\ storedAt["imu"] \in Poses /\ p \in Transform
  BY TransformsAssumption DEF TypeOK
<1>3. /\ transformCartesianPose = AntennaAt(p) /\ utmMeridianConvergence = Convergence
      /\ transformWorldPose = WorldPose(p)
  BY <1>1 DEF StoredIsSensed
<1>4. h = p.yaw
  <2> DEFINE q == storedAt["imu"]
  <2>1. /\ Heading(MeasuredYaw(q), Convergence) = q.yaw
        /\ EarthReferenced => Heading(WorldPose(q).yaw, Convergence) = q.yaw
    BY <1>1, <1>2, HeadingIsTrue
  <2>2. CASE useOdometryYaw
    <3>1. transformOrientation = WorldPose(storedAt["imu"]).yaw
      BY <1>1, <2>2 DEF StoredIsSensed
    <3> QED  BY <1>1, <1>3, <2>1, <2>2, <3>1
  <2>3. CASE ~useOdometryYaw
    <3>1. transformOrientation = MeasuredYaw(storedAt["imu"])
      BY <1>1, <2>3 DEF StoredIsSensed
    <3> QED  BY <1>1, <1>3, <2>1, <3>1
  <2> QED  BY <2>2, <2>3
<1>5. RobotOriginCartesianPose = Origin(p)
  <2>1. RobotOriginCartesianPose = Mult(InverseOf[Rotate(h, Antenna)], transformCartesianPose)
    BY <1>1 DEF RobotOriginCartesianPose
  <2>2. Mult(InverseOf[Rotate(p.yaw, Antenna)], Origin(Mult(p, Antenna))) = Origin(p)
    BY <1>2, TransformsAssumption, OffsetComesOff
  <2> HIDE DEF h
  <2> QED  BY <1>3, <1>4, <2>1, <2>2 DEF AntennaAt
<1>6. Facing(Origin(p), p.yaw) = p
  BY <1>2, OriginType DEF Facing, Transform
<1>7. cartesianWorldTransform' = WorldTimesInverse(WorldPose(p), p)
  <2>1. cartesianWorldTransform' =
          WorldTimesInverse(transformWorldPose, Facing(RobotOriginCartesianPose, h))
    BY DEF ComputeTransform
  <2> HIDE DEF h
  <2> QED  BY <1>3, <1>4, <1>5, <1>6, <2>1
<1> QED
  BY <1>2, <1>7, TransformsAssumption, Cancel DEF WorldTimesInverse, WorldPose

LEMMA StoredStep == TypeOK /\ StoredIsSensed /\ [Next]_vars => StoredIsSensed'
<1> SUFFICES ASSUME TypeOK, StoredIsSensed, [Next]_vars, ~useManualDatum'
             PROVE  StoredIsSensed'
  BY DEF StoredIsSensed
<1>0. /\ robot \in Poses /\ storedAt \in [{"gps", "odom", "imu"} -> Poses]
  BY DEF TypeOK
<1>1. CASE GpsFixCallback
  BY <1>0, <1>1
  DEF GpsFixCallback, SetTransformGps, settings, datumVars, transformVars, odomVars,
      StoredIsSensed, AntennaAt, WorldPose, MeasuredYaw
<1>2. CASE ImuCallback
  BY <1>0, <1>2, MountingComesOff
  DEF ImuCallback, settings, datumVars, gpsVars, StoredIsSensed, AntennaAt, WorldPose, MeasuredYaw
<1>3. CASE OdomCallback
  BY <1>0, <1>3
  DEF OdomCallback, SetTransformOdometry, settings, datumVars, gpsVars, StoredIsSensed,
      AntennaAt, WorldPose, MeasuredYaw
<1>4. CASE DatumCallback \/ ComputeTransformFromDatum
  BY <1>4 DEF DatumCallback, ComputeTransformFromDatum, datumVars
<1>5. CASE ParametersCallback \/ ComputeTransform \/ Publish \/ Move \/ FrameBecomesKnown
           \/ UNCHANGED vars
  <2>1. /\ UNCHANGED <<settings, datumVars, storedVars>> /\ frames \subseteq frames'
    BY <1>5
    DEF ParametersCallback, ComputeTransform, Publish, Move, FrameBecomesKnown, vars
  <2> QED
    BY <2>1 DEF settings, datumVars, storedVars, StoredIsSensed, AntennaAt, WorldPose, MeasuredYaw
<1> QED
  BY <1>1, <1>2, <1>3, <1>4, <1>5 DEF Next, TransformCallback

(* While a transform from sensor data is in use, what it was made from stays. *)
LEMMA TransformStep ==
  TypeOK /\ StoredIsSensed /\ TransformIsTrue /\ [Next]_vars => TransformIsTrue'
<1> SUFFICES ASSUME TypeOK, StoredIsSensed, TransformIsTrue, [Next]_vars, WellFounded'
             PROVE  cartesianWorldTransform' = TrueWorld
  BY DEF TransformIsTrue
<1>0. transformGood' /\ ~useManualDatum'
  BY DEF WellFounded
<1>1. CASE ComputeTransform
  BY <1>1, ComputedIsTrue
<1>2. CASE ~ComputeTransform
  <2>1. /\ transformGood = transformGood' /\ useManualDatum = useManualDatum'
        /\ UNCHANGED <<cartesianWorldTransform, offsetRemoved, magneticDeclination, storedAt,
                       useOdometryYaw>>
    <3>1. CASE GpsFixCallback
      BY <1>0, <3>1 DEF GpsFixCallback, settings, datumVars, transformVars
    <3>2. CASE ImuCallback
      BY <1>0, <3>2 DEF ImuCallback, settings, datumVars, transformVars
    <3>3. CASE OdomCallback
      BY <1>0, <3>3 DEF OdomCallback, settings, datumVars, transformVars
    <3>4. CASE DatumCallback \/ ParametersCallback \/ ComputeTransformFromDatum
      BY <1>0, <3>4 DEF DatumCallback, ParametersCallback, ComputeTransformFromDatum, datumVars
    <3>5. CASE Publish \/ Move \/ FrameBecomesKnown \/ UNCHANGED vars
      BY <3>5
      DEF Publish, Move, FrameBecomesKnown, vars, settings, datumVars, storedVars, transformVars
    <3> QED
      BY <1>2, <3>1, <3>2, <3>3, <3>4, <3>5 DEF Next, TransformCallback
  <2>2. WellFounded
    BY <2>1 DEF WellFounded, EarthReferenced
  <2> QED  BY <2>1, <2>2 DEF TransformIsTrue
<1> QED  BY <1>1, <1>2

LEMMA DatumStep == TypeOK /\ DatumIsOrigin /\ [Next]_vars => DatumIsOrigin'
<1> SUFFICES ASSUME TypeOK, DatumIsOrigin, [Next]_vars, transformGood', useManualDatum'
             PROVE  CartesianToMap(Origin(manualDatum))' = Identity
  BY DEF DatumIsOrigin
<1>1. CASE ComputeTransformFromDatum
  <2> DEFINE f == Facing(manualDatum, Heading(manualDatum.yaw, Convergence))
  <2>1. /\ cartesianWorldTransform' = Mult(Identity, InverseOf[f])
        /\ manualDatum' = manualDatum
    BY <1>1 DEF ComputeTransformFromDatum, WorldTimesInverse, datumVars
  <2>2. f \in Transform
    BY DatumType
  <2>3. Origin(f) = Origin(manualDatum)
    BY DEF Origin, Facing
  <2>4. Origin(Mult(Mult(Identity, InverseOf[f]), Origin(f))) = Identity
    BY <2>2, InverseTakesHome
  <2> HIDE DEF f
  <2>5. CartesianToMap(Origin(manualDatum))' =
          Origin(Mult(cartesianWorldTransform', Origin(manualDatum')))
    BY DEF CartesianToMap, Origin
  <2> QED  BY <2>1, <2>3, <2>4, <2>5
<1>2. CASE ~ComputeTransformFromDatum
  <2>1. /\ transformGood /\ useManualDatum
        /\ UNCHANGED <<cartesianWorldTransform, manualDatum>>
    BY <1>2
    DEF Next, TransformCallback, GpsFixCallback, ImuCallback, OdomCallback, DatumCallback,
        ParametersCallback, ComputeTransform, Publish, Move, FrameBecomesKnown, vars,
        datumVars, transformVars
  <2> QED  BY <2>1 DEF DatumIsOrigin, CartesianToMap, Origin
<1> QED  BY <1>1, <1>2

LEMMA NavSatInvariant == Spec => []IInv
<1>1. Init => IInv
  BY NavSatInitType
  DEF Init, IInv, StoredIsSensed, TransformIsTrue, WellFounded, DatumIsOrigin
<1>2. IInv /\ [Next]_vars => IInv'
  BY NavSatStepType, StoredStep, TransformStep, DatumStep DEF IInv
<1> QED  BY <1>1, <1>2, PTL DEF Spec

(* A transform made from data that were sensed in one place is the real one,
   wherever that is and however the devices are mounted (computeTransform). *)
THEOREM TransformTrue == Spec => []TransformIsTrue
<1>1. IInv => TransformIsTrue
  BY DEF IInv
<1> QED  BY <1>1, NavSatInvariant, PTL

(* A datum is the origin of the world frame of every transform that is used
   after it (datumCallback, setManualDatum). *)
THEOREM DatumAtOrigin == Spec => []DatumIsOrigin
<1>1. IInv => DatumIsOrigin
  BY DEF IInv
<1> QED  BY <1>1, NavSatInvariant, PTL

-----------------------------------------------------------------------------
(* What waits to be sent is what the sensors said at fix.at and odomAt, and is
   newer than what was sent. *)
WaitingIsSensed ==
  /\ gpsUpdated => latestCartesianPose = AntennaAt(fix.at)
  /\ odomUpdated => latestWorldPose = WorldPose(odomAt)

WaitingIsNew ==
  /\ gpsOdometry.number <= fix.number
  /\ gpsUpdated => gpsOdometry.number < fix.number

SentInv == TypeOK /\ WaitingIsSensed /\ WaitingIsNew

LEMMA WaitingStep == SentInv /\ [Next]_vars => WaitingIsSensed' /\ WaitingIsNew'
<1> SUFFICES ASSUME SentInv, [Next]_vars
             PROVE  WaitingIsSensed' /\ WaitingIsNew'
  OBVIOUS
<1>0. /\ fix.number \in Nat /\ gpsOdometry.number \in Nat
      /\ WaitingIsSensed /\ WaitingIsNew
  BY BoundsAssumption DEF SentInv, TypeOK
<1>1. CASE GpsFixCallback
  <2>1. /\ latestCartesianPose' = AntennaAt(robot) /\ fix' = [number |-> fix.number + 1, at |-> robot]
        /\ gpsUpdated' = TRUE /\ UNCHANGED <<latestWorldPose, odomUpdated, odomAt, gpsOdometry>>
    BY <1>1 DEF GpsFixCallback, odomVars, outputVars
  <2> QED  BY <1>0, <2>1 DEF WaitingIsSensed, WaitingIsNew, AntennaAt, WorldPose
<1>2. CASE OdomCallback
  <2>1. /\ latestWorldPose' = WorldPose(robot) /\ odomAt' = robot
        /\ UNCHANGED <<latestCartesianPose, gpsUpdated, fix, gpsOdometry>>
    BY <1>2 DEF OdomCallback, gpsVars, outputVars
  <2> QED  BY <1>0, <2>1 DEF WaitingIsSensed, WaitingIsNew, AntennaAt, WorldPose
<1>3. CASE Publish
  <2>1. /\ UNCHANGED <<latestCartesianPose, fix, latestWorldPose, odomAt>>
        /\ gpsUpdated' => gpsUpdated
        /\ odomUpdated' => odomUpdated
        /\ \/ gpsOdometry' = gpsOdometry /\ gpsUpdated' = gpsUpdated
           \/ gpsOdometry'.number = fix.number /\ ~gpsUpdated'
    BY <1>3 DEF Publish, PrepareGpsOdometry, PrepareFilteredGps
  <2> QED  BY <1>0, <2>1 DEF WaitingIsSensed, WaitingIsNew, AntennaAt, WorldPose
<1>4. CASE ImuCallback \/ DatumCallback \/ ParametersCallback \/ ComputeTransform
           \/ ComputeTransformFromDatum \/ Move \/ FrameBecomesKnown \/ UNCHANGED vars
  <2>1. UNCHANGED <<gpsVars, odomVars, outputVars>>
    BY <1>4
    DEF ImuCallback, DatumCallback, ParametersCallback, ComputeTransform,
        ComputeTransformFromDatum, Move, FrameBecomesKnown, vars
  <2> QED
    BY <1>0, <2>1
    DEF gpsVars, odomVars, outputVars, WaitingIsSensed, WaitingIsNew, AntennaAt, WorldPose
<1> QED  BY <1>1, <1>2, <1>3, <1>4 DEF Next, TransformCallback

LEMMA WaitingInvariant == Spec => []SentInv
<1>1. Init => SentInv
  BY NavSatInitType DEF Init, SentInv, WaitingIsSensed, WaitingIsNew
<1>2. SentInv /\ [Next]_vars => SentInv'
  BY NavSatStepType, WaitingStep DEF SentInv
<1> QED  BY <1>1, <1>2, PTL DEF Spec

(* Only the timer sends, and what it sends on odometry/gps is the fix that
   waits. *)
LEMMA OnlyPublishSends ==
  ASSUME [Next]_vars
  PROVE  /\ gpsOdometry' # gpsOdometry => Publish /\ gpsUpdated /\ PrepareGpsOdometry
         /\ filteredGps' # filteredGps => Publish /\ PrepareFilteredGps
<1>1. CASE Publish
  BY <1>1 DEF Publish
<1>2. CASE ~Publish
  <2>1. UNCHANGED outputVars
    BY <1>2
    DEF Next, TransformCallback, GpsFixCallback, ImuCallback, OdomCallback, DatumCallback,
        ParametersCallback, ComputeTransform, ComputeTransformFromDatum, Move,
        FrameBecomesKnown, vars
  <2> QED  BY <2>1 DEF outputVars
<1> QED  BY <1>1, <1>2

(* Each message on odometry/gps is about a newer fix than the one before it,
   whatever datums and parameters are asked for (prepareGpsOdometry). *)
THEOREM FixesAreSentOnce == Spec => FixesSentOnce
<1>1. SentInv /\ [Next]_vars =>
        [gpsOdometry' # gpsOdometry => gpsOdometry.number < gpsOdometry'.number]_vars
  <2> SUFFICES ASSUME SentInv, [Next]_vars, gpsOdometry' # gpsOdometry
               PROVE  gpsOdometry.number < gpsOdometry'.number
    OBVIOUS
  <2>1. gpsUpdated /\ PrepareGpsOdometry
    BY OnlyPublishSends
  <2> QED  BY <2>1 DEF PrepareGpsOdometry, SentInv, WaitingIsNew
<1> QED  BY <1>1, WaitingInvariant, PTL DEF Spec, FixesSentOnce

(* With the real transform, what is sent is where the robot was: at the fix,
   with the offset of the antenna taken off, and at the odometry
   (getRobotOriginWorldPose, mapToLL). *)
THEOREM MessagesTrue == Spec => MessagesAreTrue
<1> DEFINE True ==
      cartesianWorldTransform = TrueWorld =>
        /\ (gpsOdometry' # gpsOdometry /\ {"gps", "base_link"} \subseteq frames
            /\ robot.yaw = fix.at.yaw)
             => gpsOdometry'.position = Origin(WorldPose(fix.at))
        /\ filteredGps' # filteredGps => filteredGps' = Origin(odomAt)
<1>1. SentInv /\ [Next]_vars => [True]_vars
  <2> SUFFICES ASSUME SentInv, [Next]_vars, cartesianWorldTransform = TrueWorld
               PROVE  True
    OBVIOUS
  <2>0. /\ fix.at \in Transform /\ odomAt \in Transform /\ robot \in Transform
        /\ Antenna \in Transform /\ Antenna.yaw = 0 /\ TrueWorld \in Transform
    BY TransformsAssumption DEF SentInv, TypeOK
  <2>1. ASSUME gpsOdometry' # gpsOdometry, {"gps", "base_link"} \subseteq frames,
               robot.yaw = fix.at.yaw
        PROVE  gpsOdometry'.position = Origin(WorldPose(fix.at))
    <3> DEFINE p == fix.at
               q == WorldPose(p)
    <3>1. gpsUpdated /\ PrepareGpsOdometry
      BY <2>1, OnlyPublishSends
    <3>2. gpsOdometry'.position = Mult(InverseOf[Rotate(WorldPose(robot).yaw, Antenna)],
                                       CartesianToMap(AntennaAt(p)))
      BY <2>1, <3>1 DEF PrepareGpsOdometry, RobotOriginWorldPose, SentInv, WaitingIsSensed
    <3>3. WorldPose(robot).yaw = q.yaw /\ q \in Transform
      <4>1. /\ Mult(TrueWorld, robot).yaw = Clamp(TrueWorld.yaw + robot.yaw)
            /\ Mult(TrueWorld, p).yaw = Clamp(TrueWorld.yaw + p.yaw)
        BY <2>0, MultIs
      <4>2. Mult(TrueWorld, p) \in Transform
        BY <2>0, MultType
      <4> QED  BY <2>1, <4>1, <4>2 DEF WorldPose
    <3>4. CartesianToMap(AntennaAt(p)) = Origin(Mult(q, Antenna))
      <4>1. Mult(p, Antenna) \in Transform
        BY <2>0, MultType
      <4>2. CartesianToMap(AntennaAt(p)) = Origin(Mult(TrueWorld, Origin(Mult(p, Antenna))))
        BY DEF CartesianToMap, AntennaAt
      <4>3. @ = Origin(Mult(TrueWorld, Mult(p, Antenna)))
        BY <2>0, <4>1, OneAfterTheOther
      <4>4. @ = Origin(Mult(q, Antenna))
        BY <2>0, ProductOfThree DEF WorldPose
      <4> QED  BY <4>2, <4>3, <4>4
    <3>5. Mult(InverseOf[Rotate(q.yaw, Antenna)], Origin(Mult(q, Antenna))) = Origin(q)
      BY <2>0, <3>3, OffsetComesOff
    <3> HIDE DEF q
    <3>6. gpsOdometry'.position = Origin(q)
      BY <3>2, <3>3, <3>4, <3>5
    <3> QED  BY <3>6 DEF q
  <2>2. ASSUME filteredGps' # filteredGps
        PROVE  filteredGps' = Origin(odomAt)
    <3>1. odomUpdated /\ PrepareFilteredGps
      BY <2>2, OnlyPublishSends DEF Publish
    <3>2. latestWorldPose = Mult(TrueWorld, odomAt) /\ latestWorldPose \in Transform
      BY <2>0, <3>1, MultType DEF SentInv, WaitingIsSensed, WorldPose
    <3>3. filteredGps' = Origin(Mult(InverseOf[TrueWorld], Origin(latestWorldPose)))
      BY <3>1 DEF PrepareFilteredGps, MapToLL
    <3>4. @ = Origin(Mult(InverseOf[TrueWorld], latestWorldPose))
      BY <2>0, <3>2, InverseType, OneAfterTheOther
    <3>5. @ = Origin(odomAt)
      BY <2>0, <3>2, InverseUndoes
    <3> QED  BY <3>3, <3>4, <3>5
  <2> QED  BY <2>1, <2>2
<1> QED  BY <1>1, WaitingInvariant, PTL DEF Spec, MessagesAreTrue, True

=============================================================================

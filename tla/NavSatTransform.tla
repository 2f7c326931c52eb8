---------------------------- MODULE NavSatTransform ----------------------------
(***************************************************************************)
(* navsat_transform_node (navsat_transform.cpp): from one GPS fix, one      *)
(* odometry pose and one heading it computes, once, the transform from the  *)
(* Cartesian (UTM) grid to the robot's world frame, or takes it from a      *)
(* datum.  It then turns every fix into a position in the world frame       *)
(* (odometry/gps) and every odometry pose into a fix (gps/filtered).        *)
(*                                                                          *)
(* Callbacks, services and the timer run on one thread.  The robot moves    *)
(* and frames become known to tf at any moment in between.  What the        *)
(* sensors report follows from where the robot really is (robot) and where  *)
(* the world frame really lies in the grid (TrueWorld).  Not modelled:      *)
(* use_local_cartesian, altitude, covariances and the broadcast transform.  *)
(***************************************************************************)
EXTENDS PlanarTransforms

CONSTANTS
  Poses,             \* bound: where the robot can be in the Cartesian grid
  TrueWorld,         \* the real transform from the grid to the world frame
  Antenna,           \* the navsat device in base_link, a position
  ImuYaw,            \* the yaw of the IMU's frame in base_link
  YawOffset,         \* yaw_offset_, also the real one
  Convergence,       \* meridian convergence of the grid
  TrueDeclination,   \* the real magnetic declination
  Declinations,      \* values that magnetic_declination_radians is given
  Datums,            \* datums that the user may ask for
  MaxFixes,          \* bound: number of fixes
  MaxRequests        \* bound: number of datum and parameter requests

ASSUME TransformsAssumption ==
  /\ Poses \subseteq Transform /\ Poses # {}
  /\ Datums \subseteq Transform
  /\ TrueWorld \in Transform
  /\ Antenna \in Transform /\ Antenna.yaw = 0

ASSUME AnglesAssumption ==
  /\ {ImuYaw, YawOffset, Convergence, TrueDeclination} \subseteq Yaws
  /\ Declinations \subseteq Yaws

ASSUME BoundsAssumption == {MaxFixes, MaxRequests} \subseteq Nat

VARIABLES
  robot,                    \* where the robot is in the Cartesian grid
  frames,                   \* what tf knows: "gps" and "imu" in base_link, and
                            \* "base_link" in the world frame
  useOdometryYaw,           \* use_odometry_yaw_
  waitForDatum,             \* parameter wait_for_datum
  publishGps,               \* publish_gps_
  magneticDeclination,      \* magnetic_declination_
  useManualDatum,           \* use_manual_datum_
  manualDatum,              \* manual_datum_geopose_, in the grid
  transformGood,            \* transform_good_
  hasTransformOdom, hasTransformGps, hasTransformImu,
  transformCartesianPose,   \* transform_cartesian_pose_
  transformWorldPose,       \* transform_world_pose_
  transformOrientation,     \* transform_orientation_
  utmMeridianConvergence,   \* utm_meridian_convergence_
  cartesianWorldTransform,  \* cartesian_world_transform_
  latestCartesianPose,      \* latest_cartesian_pose_
  gpsUpdated,               \* gps_updated_
  latestWorldPose,          \* latest_world_pose_
  odomUpdated,              \* odom_updated_
  requests,                 \* number of requests so far
  (* The rest records what happened and influences nothing. *)
  offsetRemoved,            \* the transform was computed with a known antenna
  storedAt,                 \* where the robot was when each of the three data
                            \* for the transform was stored
  fix,                      \* number of the latest fix, and where the robot was
  odomAt,                   \* where the robot was at the latest odometry
  gpsOdometry,              \* the last message on odometry/gps
  filteredGps               \* the last message on gps/filtered

settings == <<useOdometryYaw, waitForDatum, publishGps>>
datumVars == <<useManualDatum, manualDatum>>
storedVars ==
  <<hasTransformOdom, hasTransformGps, hasTransformImu, transformCartesianPose,
    transformWorldPose, transformOrientation, utmMeridianConvergence, storedAt>>
transformVars == <<transformGood, cartesianWorldTransform, offsetRemoved>>
gpsVars == <<latestCartesianPose, gpsUpdated, fix>>
odomVars == <<latestWorldPose, odomUpdated, odomAt>>
outputVars == <<gpsOdometry, filteredGps>>

vars == <<robot, frames, settings, magneticDeclination, requests, datumVars,
          storedVars, transformVars, gpsVars, odomVars, outputVars>>

TypeOK ==
  /\ robot \in Poses
  /\ frames \subseteq {"gps", "imu", "base_link"}
  /\ {useOdometryYaw, waitForDatum, publishGps, useManualDatum,
      transformGood, hasTransformOdom, hasTransformGps, hasTransformImu,
      offsetRemoved, gpsUpdated, odomUpdated} \subseteq BOOLEAN
  /\ magneticDeclination \in Yaws
  /\ {manualDatum, transformCartesianPose, transformWorldPose,
      cartesianWorldTransform, latestCartesianPose, latestWorldPose,
      filteredGps} \subseteq Transform
  /\ {transformOrientation, utmMeridianConvergence} \subseteq Yaws
  /\ requests \in 0..MaxRequests
  /\ fix \in [number : 0..MaxFixes, at : Poses]
  /\ odomAt \in Poses
  /\ storedAt \in [{"gps", "odom", "imu"} -> Poses]
  /\ gpsOdometry \in [number : 0..MaxFixes, position : Transform]

(* With wait_for_datum the constructor asks for the datum itself: the one in
   the parameter, or latitude and longitude 0 when that has not 3 values. *)
Init ==
  /\ robot \in Poses
  /\ frames = {}
  /\ useOdometryYaw \in BOOLEAN /\ waitForDatum \in BOOLEAN
  /\ publishGps \in BOOLEAN
  /\ useManualDatum = waitForDatum
  /\ \/ manualDatum = Identity
     \/ waitForDatum /\ manualDatum \in Datums
  /\ magneticDeclination \in Declinations
  /\ transformGood = FALSE /\ offsetRemoved = FALSE
  /\ hasTransformOdom = FALSE /\ hasTransformGps = FALSE /\ hasTransformImu = FALSE
  /\ transformCartesianPose = Identity /\ transformWorldPose = Identity
  /\ transformOrientation = 0 /\ utmMeridianConvergence = 0
  /\ cartesianWorldTransform = Identity
  /\ latestCartesianPose = Identity /\ gpsUpdated = FALSE
  /\ latestWorldPose = Identity /\ odomUpdated = FALSE
  /\ fix = [number |-> 0, at |-> robot] /\ odomAt = robot
  /\ storedAt = [s \in {"gps", "odom", "imu"} |-> robot]
  /\ requests = 0
  /\ gpsOdometry = [number |-> 0, position |-> Identity]
  /\ filteredGps = Identity

-----------------------------------------------------------------------------
(* What the sensors report when the robot is at pose p. *)

AntennaAt(p) == Origin(Mult(p, Antenna))

WorldPose(p) == Mult(TrueWorld, p)

(* The heading in base_link that an IMU measures against magnetic north. *)
MeasuredYaw(p) == Clamp(p.yaw - (TrueDeclination + YawOffset + Convergence))

-----------------------------------------------------------------------------
(* Sensor callbacks.  A fix without status or with a coordinate that is not a
   number only changes the name of the antenna's frame, and is no step. *)

SetTransformGps(position) ==
  /\ transformCartesianPose' = position
  /\ utmMeridianConvergence' = Convergence
  /\ hasTransformGps' = TRUE

GpsFixCallback ==
  /\ fix.number < MaxFixes
  /\ IF ~transformGood /\ ~useManualDatum
     THEN /\ SetTransformGps(AntennaAt(robot))
          /\ storedAt' = [storedAt EXCEPT !["gps"] = robot]
     ELSE UNCHANGED <<transformCartesianPose, utmMeridianConvergence,
                      hasTransformGps, storedAt>>
  /\ latestCartesianPose' = AntennaAt(robot)
  /\ gpsUpdated' = TRUE
  /\ fix' = [number |-> fix.number + 1, at |-> robot]
  /\ UNCHANGED <<robot, frames, settings, magneticDeclination, requests,
                 datumVars, hasTransformOdom, hasTransformImu,
                 transformWorldPose, transformOrientation, transformVars,
                 odomVars, outputVars>>

(* imuCallback of a message in frame "imu": the orientation is stored even
   when its correction for the mounting fails. *)
Mounted(yaw) == Clamp(yaw - ImuYaw)

ImuCallback ==
  /\ ~useOdometryYaw /\ ~waitForDatum  \* the node subscribes
  /\ ~transformGood \/ useManualDatum
  /\ hasTransformOdom
  /\ LET yaw == Clamp(MeasuredYaw(robot) + ImuYaw)
     IN transformOrientation' = IF "imu" \in frames THEN Mounted(yaw) ELSE yaw
  /\ storedAt' = [storedAt EXCEPT !["imu"] = robot]
  /\ hasTransformImu' = (hasTransformImu \/ "imu" \in frames)
  /\ UNCHANGED <<robot, frames, settings, magneticDeclination, requests,
                 datumVars, hasTransformOdom, hasTransformGps,
                 transformCartesianPose, transformWorldPose,
                 utmMeridianConvergence, transformVars, gpsVars, odomVars,
                 outputVars>>

(* With use_odometry_yaw the odometry's heading goes through imuCallback, as
   if an IMU in base_link had measured it. *)
SetTransformOdometry ==
  /\ transformWorldPose' = WorldPose(robot)
  /\ hasTransformOdom' = TRUE
  /\ IF useOdometryYaw /\ ~useManualDatum
     THEN /\ transformOrientation' = WorldPose(robot).yaw
          /\ hasTransformImu' = TRUE
          /\ storedAt' = [storedAt EXCEPT !["odom"] = robot, !["imu"] = robot]
     ELSE /\ UNCHANGED <<transformOrientation, hasTransformImu>>
          /\ storedAt' = [storedAt EXCEPT !["odom"] = robot]

OdomCallback ==
  /\ IF transformGood
     THEN UNCHANGED <<transformWorldPose, hasTransformOdom,
                      transformOrientation, hasTransformImu, storedAt>>
     ELSE SetTransformOdometry
  /\ latestWorldPose' = WorldPose(robot)
  /\ odomUpdated' = TRUE
  /\ odomAt' = robot
  /\ UNCHANGED <<robot, frames, settings, magneticDeclination, requests,
                 datumVars, hasTransformGps, transformCartesianPose,
                 utmMeridianConvergence, transformVars, gpsVars, outputVars>>

-----------------------------------------------------------------------------
(* Requests. *)

DatumCallbackKeeps ==  \* mutant: the transform is not computed again
  /\ requests < MaxRequests
  /\ requests' = requests + 1
  /\ manualDatum' \in Datums
  /\ useManualDatum' = TRUE
  /\ UNCHANGED <<robot, frames, settings, magneticDeclination, storedVars,
                 transformVars, gpsVars, odomVars, outputVars>>
DatumCallback ==
  /\ requests < MaxRequests
  /\ requests' = requests + 1
  /\ manualDatum' \in Datums
  /\ useManualDatum' = TRUE
  /\ transformGood' = FALSE
  /\ UNCHANGED <<robot, frames, settings, magneticDeclination, storedVars,
                 cartesianWorldTransform, offsetRemoved, gpsVars, odomVars,
                 outputVars>>

ParametersCallback ==
  /\ requests < MaxRequests
  /\ requests' = requests + 1
  /\ magneticDeclination' \in Declinations
  /\ transformGood' = FALSE
  /\ UNCHANGED <<robot, frames, settings, datumVars, storedVars,
                 cartesianWorldTransform, offsetRemoved, gpsVars, odomVars,
                 outputVars>>

-----------------------------------------------------------------------------
(* The timer, transformCallback. *)

Heading(yaw, convergence) == Clamp(yaw + magneticDeclination + YawOffset + convergence)

(* getRobotOriginCartesianPose: without the antenna's frame, the device is
   taken to be at the robot's origin. *)
RobotOriginCartesianPose ==
  IF "gps" \in frames
  THEN Mult(InverseOf[Rotate(Heading(transformOrientation, utmMeridianConvergence), Antenna)],
            transformCartesianPose)
  ELSE transformCartesianPose

(* orig_odom_pos * orig_cartesian_pos_inverse *)
InverseTimesWorld(worldPose, cartesianPose) ==  \* mutant: the order is swapped
  Mult(InverseOf[cartesianPose], worldPose)
WorldTimesInverse(worldPose, cartesianPose) ==
  Mult(worldPose, InverseOf[cartesianPose])

ComputeTransform ==
  /\ ~transformGood
  /\ ~useManualDatum
  /\ hasTransformOdom /\ hasTransformGps /\ hasTransformImu
  /\ cartesianWorldTransform' =
       WorldTimesInverse(transformWorldPose,
         Facing(RobotOriginCartesianPose,
                Heading(transformOrientation, utmMeridianConvergence)))
  /\ offsetRemoved' = ("gps" \in frames)
  /\ transformGood' = TRUE
  /\ UNCHANGED <<robot, frames, settings, magneticDeclination, requests,
                 datumVars, storedVars, gpsVars, odomVars, outputVars>>

(* setManualDatum, followed by the computation: the datum takes the place of
   the fix, of the odometry (at the origin) and of the heading. *)
ComputeTransformFromDatum ==
  /\ ~transformGood
  /\ useManualDatum
  /\ hasTransformOdom
  /\ SetTransformGps(Origin(manualDatum))
  /\ transformWorldPose' = Identity
  /\ transformOrientation' = manualDatum.yaw
  /\ hasTransformImu' = TRUE
  /\ cartesianWorldTransform' =
       WorldTimesInverse(Identity,
         Facing(manualDatum, Heading(manualDatum.yaw, Convergence)))
  /\ transformGood' = TRUE
  /\ UNCHANGED <<robot, frames, settings, magneticDeclination, requests,
                 datumVars, hasTransformOdom, storedAt, offsetRemoved, gpsVars,
                 odomVars, outputVars>>

(* cartesianToMap and mapToLL, for positions. *)
CartesianToMap(position) == Origin(Mult(cartesianWorldTransform, position))

MapToLLForward(position) ==  \* mutant: the transform is not inverted
  Origin(Mult(cartesianWorldTransform, position))
MapToLL(position) == Origin(Mult(InverseOf[cartesianWorldTransform], position))

(* getRobotOriginWorldPose: the antenna's offset, turned as the robot is turned
   in the world frame now, is taken off; without the frames for that the pose
   stays the identity it was set to. *)
RobotOriginWorldPose(gpsPosition) ==
  IF {"gps", "base_link"} \subseteq frames
  THEN Mult(InverseOf[Rotate(WorldPose(robot).yaw, Antenna)], gpsPosition)
  ELSE Identity

PrepareAgain ==  \* mutant: the fix is not marked as used
  /\ gpsOdometry' = [number |-> fix.number,
                     position |-> RobotOriginWorldPose(CartesianToMap(latestCartesianPose))]
  /\ UNCHANGED gpsUpdated
PrepareGpsOdometry ==
  /\ gpsOdometry' = [number |-> fix.number,
                     position |-> RobotOriginWorldPose(CartesianToMap(latestCartesianPose))]
  /\ gpsUpdated' = FALSE

PrepareFilteredGps ==
  /\ filteredGps' = MapToLL(Origin(latestWorldPose))
  /\ odomUpdated' = FALSE

PublishBoth ==  \* mutant: odometry/gps only with gps/filtered
  /\ transformGood
  /\ odomUpdated
  /\ publishGps
  /\ IF gpsUpdated THEN PrepareGpsOdometry ELSE UNCHANGED <<gpsOdometry, gpsUpdated>>
  /\ PrepareFilteredGps
  /\ UNCHANGED <<robot, frames, settings, magneticDeclination, requests,
                 datumVars, storedVars, transformVars, latestCartesianPose, fix,
                 latestWorldPose, odomAt>>

(* The timer with a transform.  Odometry is only used up by gps/filtered. *)
Publish ==
  /\ transformGood
  /\ odomUpdated
  /\ IF gpsUpdated THEN PrepareGpsOdometry ELSE UNCHANGED <<gpsOdometry, gpsUpdated>>
  /\ IF publishGps THEN PrepareFilteredGps ELSE UNCHANGED <<filteredGps, odomUpdated>>
  /\ UNCHANGED <<robot, frames, settings, magneticDeclination, requests,
                 datumVars, storedVars, transformVars, latestCartesianPose, fix,
                 latestWorldPose, odomAt>>

TransformCallback == ComputeTransform \/ ComputeTransformFromDatum \/ Publish

-----------------------------------------------------------------------------
(* The world. *)

Move ==
  /\ robot' \in Poses
  /\ UNCHANGED <<frames, settings, magneticDeclination, requests, datumVars,
                 storedVars, transformVars, gpsVars, odomVars, outputVars>>

(* lookupTransformSafe falls back on the latest transform known, so that a
   frame once known can always be looked up. *)
FrameBecomesKnown ==
  /\ \E f \in {"gps", "imu", "base_link"} \ frames : frames' = frames \cup {f}
  /\ UNCHANGED <<robot, settings, magneticDeclination, requests, datumVars,
                 storedVars, transformVars, gpsVars, odomVars, outputVars>>

Next ==
  \/ GpsFixCallback \/ ImuCallback \/ OdomCallback
  \/ DatumCallback \/ ParametersCallback
  \/ TransformCallback
  \/ Move \/ FrameBecomesKnown

Spec == Init /\ [][Next]_vars

(* The timer fires for ever. *)
FairSpec == Spec /\ WF_vars(TransformCallback)

-----------------------------------------------------------------------------
(* Properties. *)

(* The odometry is "in an earth-referenced frame" when its heading plus the
   corrections that are made to an IMU's is the heading in the grid. *)
EarthReferenced ==
  Clamp(TrueWorld.yaw + TrueDeclination + YawOffset + Convergence) = 0

(* The transform in use comes from sensors that saw the robot in one place,
   with what is known about them being right. *)
WellFounded ==
  /\ transformGood /\ ~useManualDatum
  /\ storedAt["gps"] = storedAt["odom"]
  /\ storedAt["imu"].yaw = storedAt["odom"].yaw
  /\ offsetRemoved
  /\ magneticDeclination = TrueDeclination
  /\ useOdometryYaw => EarthReferenced

(* A transform made from data that were sensed in one place, wherever that is,
   is the real one: antenna, mounting of the IMU, declination, offset and
   convergence are each accounted for once, on the right side and with the
   right sign (computeTransform, getRobotOriginCartesianPose, imuCallback). *)
TransformIsTrue == WellFounded => cartesianWorldTransform = TrueWorld

(* Whatever sensor data come before or after it, the datum last asked for is
   the origin of the world frame of a transform in use (datumCallback,
   setManualDatum), and once there is a datum it stays so. *)
DatumIsOrigin ==
  transformGood /\ useManualDatum =>
    CartesianToMap(Origin(manualDatum)) = Identity

(* With the real transform, what goes out on odometry/gps is where the robot
   was at that fix, wherever it has moved since, unless it has turned (the
   offset is taken off with its present heading), and what goes out on
   gps/filtered is where it was at its last odometry. *)
MessagesAreTrue ==
  [][cartesianWorldTransform = TrueWorld =>
       /\ (gpsOdometry' # gpsOdometry /\ {"gps", "base_link"} \subseteq frames
           /\ robot.yaw = fix.at.yaw)
            => gpsOdometry'.position = Origin(WorldPose(fix.at))
       /\ filteredGps' # filteredGps => filteredGps' = Origin(odomAt)]_vars

(* A fix is sent at most once on odometry/gps, also across new datums. *)
FixesSentOnce ==
  [][gpsOdometry' # gpsOdometry => gpsOdometry.number < gpsOdometry'.number]_vars

(* A fix goes out once there is a transform and odometry
   (transformCallback, prepareGpsOdometry). *)
FixesAreSent ==
  transformGood /\ gpsUpdated /\ odomUpdated ~> ~gpsUpdated

=============================================================================

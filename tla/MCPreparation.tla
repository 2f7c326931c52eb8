---------------------------- MODULE MCPreparation ----------------------------
(***************************************************************************)
(* Preparation on a small instance for TLC: two states of the robot that    *)
(* differ in everything, a frame that is off the origin and turned, and one *)
(* that leans.                                                              *)
(***************************************************************************)
EXTENDS Preparation, TLC

TwoInstants ==
  {[pose |-> [x |-> 5, y |-> 0, yaw |-> 3], velocity |-> At(2, 1), turn |-> 1,
    tilt |-> 1, acceleration |-> At(1, 3)],
   [pose |-> [x |-> 3, y |-> 2, yaw |-> 0], velocity |-> At(-1, 4), turn |-> 0,
    tilt |-> 0, acceleration |-> At(2, -1)]}

Transforms == "side" :> [x |-> 1, y |-> 2, yaw |-> 1] @@ "nose" :> [x |-> 3, y |-> 1, yaw |-> 2]
Leans == "side" :> 0 @@ "nose" :> 1

Odometry(mode, frame, child, axes) ==
  [imu |-> FALSE, parts |-> {"pose", "twist"}, mode |-> mode, frame |-> frame,
   child |-> child, axes |-> axes, removeGravity |-> FALSE]

Imu(parts, mode, frame, removeGravity) ==
  [imu |-> TRUE, parts |-> parts, mode |-> mode, frame |-> frame, child |-> frame, axes |-> Axes,
   removeGravity |-> removeGravity]

Devices ==
  {Odometry("absolute", "side", "nose", {"x"}), Odometry("absolute", Blank, "side", {"y"}),
   Odometry("differential", "side", "side", Axes), Odometry("differential", Blank, Blank, Axes),
   Odometry("relative", "nose", "side", Axes),
   Imu({"pose", "acceleration"}, "absolute", "nose", TRUE),
   Imu({"acceleration"}, "absolute", "nose", FALSE),
   Imu({"pose"}, "differential", "side", FALSE), Imu({"pose"}, "relative", "nose", FALSE)}

TwoEstimates == {[turn |-> 1, tilt |-> 1], [turn |-> 0, tilt |-> 2]}

OneRequest == {[frame |-> "side", pose |-> [x |-> 3, y |-> 2, yaw |-> 1]]}

=============================================================================

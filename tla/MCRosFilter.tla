----------------------------- MODULE MCRosFilter -----------------------------
(***************************************************************************)
(* RosFilter on small instances for TLC.                                   *)
(***************************************************************************)
EXTENDS RosFilter

(* A topic of poses and one of velocities. *)
PoseAndTwist == {<<"pose0", "pose">>, <<"twist0", "twist">>}

(* The poses of odometry, and the accelerations of an IMU. *)
OdometryAndImu == {<<"odom0", "pose">>, <<"imu0", "acceleration">>}

(* The measurements that the cycle in progress is going to account for are
   part of the abstract set from the moment the cycle begins. *)
BeingFused == IF phase = "integrate" THEN {m \in queue : Due(m)} ELSE {}

Abstract == INSTANCE InOrderFusion WITH fused <- Fused \cup BeingFused, exact <- ~fellBack

(* The node with lag smoothing implements in-order fusion. *)
ImplementsInOrderFusion == Abstract!Spec

=============================================================================

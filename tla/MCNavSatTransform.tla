-------------------------- MODULE MCNavSatTransform --------------------------
(***************************************************************************)
(* NavSatTransform on a small instance for TLC: two poses of the robot that *)
(* differ in position and heading, an antenna that is not on the axis of    *)
(* any quarter turn, and angles that do not cancel out by accident.         *)
(***************************************************************************)
EXTENDS NavSatTransform

TwoPoses == {[x |-> 5, y |-> 0, yaw |-> 0], [x |-> 3, y |-> 2, yaw |-> 1]}

RealWorld == [x |-> 4, y |-> 7, yaw |-> 1]

OnTheLeft == At(1, 2)

OneDatum == {[x |-> 1, y |-> 3, yaw |-> 1]}

=============================================================================

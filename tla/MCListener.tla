------------------------------ MODULE MCListener ------------------------------
(***************************************************************************)
(* Listener on a small instance for TLC: a robot with a side sensor and an  *)
(* arm that moves, below the two usual world frames.                        *)
(***************************************************************************)
EXTENDS Listener, TLC

Tree ==
  "map" :> {} @@ "odom" :> {"map"} @@ "base" :> {"map", "odom"}
    @@ "side" :> {"map", "odom", "base"} @@ "arm" :> {"map", "odom", "base", "side"}

(* The map frame drifts and the arm is moved along. *)
Poses(f, tick) ==
  LET odom == [x |-> 1, y |-> tick, yaw |-> 1]
      side == Mult(odom, [x |-> 2, y |-> 1, yaw |-> 3])
  IN CASE f = "map" -> Identity
       [] f \in {"odom", "base"} -> odom
       [] f = "side" -> side
       [] f = "arm" -> Mult(side, [x |-> 1 + tick, y |-> 3, yaw |-> 1])

(* A robot that turns while it goes straight on. *)
Robot(tick) == [x |-> 10, y |-> tick, yaw |-> Clamp(tick)]
Velocity(tick) == Rotate(Clamp(-tick), At(0, 1))

FullOrPart == {[world |-> "odom", base |-> "base"], [world |-> Blank, base |-> "base"]}

Asks(frame, world, time, rounded) ==
  [frame |-> frame, world |-> world, time |-> time, rounded |-> rounded]

SomeRequests ==
  {Asks("base", Blank, 3, TRUE), Asks("base", "map", 2, FALSE),
   Asks("side", Blank, 0, TRUE), Asks("side", "side", 2, FALSE),
   Asks("arm", "odom", 3, TRUE), Asks("arm", "map", 3, FALSE),
   Asks("odom", Blank, 3, TRUE)}

(* The least int and the greatest one, here a second or more. *)
IntBounds == {-3, 2}

=============================================================================

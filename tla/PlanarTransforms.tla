--------------------------- MODULE PlanarTransforms ---------------------------
(***************************************************************************)
(* Rigid motions of the plane with integer coordinates and quarter turns:   *)
(* enough of tf2::Transform and tf2::Quaternion to tell a product from the  *)
(* product in the other order, an angle from its opposite, and a transform  *)
(* from its inverse.  A position is a transform that does not turn.         *)
(***************************************************************************)
EXTENDS Integers

Yaws == 0..3

Transform == [x : Int, y : Int, yaw : Yaws]

At(x, y) == [x |-> x, y |-> y, yaw |-> 0]

Identity == At(0, 0)

(* clampRotation of a sum of quarter turns. *)
Clamp(angle) == angle % 4

Cos(yaw) == IF yaw = 0 THEN 1 ELSE IF yaw = 2 THEN -1 ELSE 0
Sin(yaw) == IF yaw = 1 THEN 1 ELSE IF yaw = 3 THEN -1 ELSE 0

(* setRotation with a yaw only. *)
Facing(v, yaw) == [x |-> v.x, y |-> v.y, yaw |-> yaw]

(* Functions, so that TLC evaluates each factor once. *)
Product[pair \in Transform \X Transform] ==
  LET a == pair[1]
      b == pair[2]
  IN [x |-> a.x + Cos(a.yaw) * b.x - Sin(a.yaw) * b.y,
      y |-> a.y + Sin(a.yaw) * b.x + Cos(a.yaw) * b.y,
      yaw |-> Clamp(a.yaw + b.yaw)]

Mult(a, b) == Product[<<a, b>>]

InverseOf[a \in Transform] ==
  Mult(Facing(Identity, Clamp(-a.yaw)), At(-a.x, -a.y))

(* setRotation with the identity: where a transform puts the origin. *)
Origin(a) == At(a.x, a.y)

(* quatRotate: the position v turned by yaw. *)
Rotate(yaw, v) == Origin(Mult(Facing(Identity, yaw), v))

=============================================================================

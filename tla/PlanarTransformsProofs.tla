------------------------ MODULE PlanarTransformsProofs ------------------------
(***************************************************************************)
(* What the operators of PlanarTransforms give back, for every position.    *)
(***************************************************************************)
EXTENDS PlanarTransforms, TLAPS

LEMMA ClampYaws == \A n \in Int : Clamp(n) \in Yaws
  BY DEF Clamp, Yaws

LEMMA SumOfYaws ==
  \A a, b \in Yaws : Clamp(a + b) = IF a + b < 4 THEN a + b ELSE a + b - 4
  BY DEF Clamp, Yaws

LEMMA OppositeYaw == \A a \in Yaws : Clamp(-a) = IF a = 0 THEN 0 ELSE 4 - a
  BY DEF Clamp, Yaws

LEMMA CosSin ==
  ASSUME NEW yaw \in Yaws
  PROVE  Cos(yaw) \in Int /\ Sin(yaw) \in Int
  BY DEF Cos, Sin, Yaws

LEMMA MultIs ==
  ASSUME NEW a \in Transform, NEW b \in Transform
  PROVE  Mult(a, b) =
           [x |-> a.x + Cos(a.yaw) * b.x - Sin(a.yaw) * b.y,
            y |-> a.y + Sin(a.yaw) * b.x + Cos(a.yaw) * b.y,
            yaw |-> Clamp(a.yaw + b.yaw)]
<1>1. <<a, b>> \in Transform \X Transform
  OBVIOUS
<1> QED  BY <1>1 DEF Mult, Product

LEMMA AtIs == ASSUME NEW x \in Int, NEW y \in Int PROVE At(x, y) \in Transform
  BY DEF At, Transform, Yaws

LEMMA FacingIs ==
  ASSUME NEW v \in Transform, NEW yaw \in Yaws
  PROVE  /\ Facing(v, yaw) \in Transform
         /\ Facing(v, yaw).x = v.x /\ Facing(v, yaw).y = v.y /\ Facing(v, yaw).yaw = yaw
  BY DEF Facing, Transform

LEMMA FieldsOf ==
  ASSUME NEW a \in Transform
  PROVE  a.x \in Int /\ a.y \in Int /\ a.yaw \in Yaws
  BY DEF Transform

LEMMA MultType ==
  ASSUME NEW a \in Transform, NEW b \in Transform
  PROVE  Mult(a, b) \in Transform
<1>1. /\ Cos(a.yaw) \in {-1, 0, 1} /\ Sin(a.yaw) \in {-1, 0, 1}
      /\ a.x \in Int /\ a.y \in Int /\ a.yaw \in Int /\ b.x \in Int /\ b.y \in Int /\ b.yaw \in Int
  BY DEF Cos, Sin, Transform, Yaws
<1>2. ASSUME NEW k \in {-1, 0, 1}, NEW n \in Int PROVE k * n \in Int
  BY <1>2
<1>3. Clamp(a.yaw + b.yaw) \in Yaws
  BY <1>1, ClampYaws
<1> QED  BY <1>1, <1>2, <1>3, MultIs DEF Transform

LEMMA InverseIs ==
  ASSUME NEW a \in Transform
  PROVE InverseOf[a] = [x |-> -(Cos(a.yaw) * a.x) - Sin(a.yaw) * a.y,
                      y |-> Sin(a.yaw) * a.x - Cos(a.yaw) * a.y,
                      yaw |-> Clamp(-a.yaw)]
<1> DEFINE r == Facing(Identity, Clamp(-a.yaw))
           v == At(-a.x, -a.y)
<1>1. a.x \in Int /\ a.y \in Int /\ a.yaw \in Yaws
  BY FieldsOf
<1>2. v \in Transform /\ v.x = -a.x /\ v.y = -a.y /\ v.yaw = 0
  BY <1>1, AtIs DEF At
<1>3. Clamp(-a.yaw) \in Yaws
  BY <1>1, ClampYaws DEF Yaws
<1>4. Identity \in Transform /\ Identity.x = 0 /\ Identity.y = 0
  BY AtIs DEF Identity, At
<1>5. /\ r \in Transform /\ r.x = 0 /\ r.y = 0 /\ r.yaw = Clamp(-a.yaw)
  BY <1>3, <1>4, FacingIs
<1>6. /\ Cos(Clamp(-a.yaw)) = Cos(a.yaw) /\ Sin(Clamp(-a.yaw)) = -Sin(a.yaw)
      /\ Clamp(Clamp(-a.yaw) + 0) = Clamp(-a.yaw)
  BY <1>1 DEF Cos, Sin, Clamp, Yaws
<1>7. InverseOf[a] = Mult(r, v)
  BY DEF InverseOf
<1> HIDE DEF r, v
<1>8. Mult(r, v) = [x |-> r.x + Cos(r.yaw) * v.x - Sin(r.yaw) * v.y,
                    y |-> r.y + Sin(r.yaw) * v.x + Cos(r.yaw) * v.y,
                    yaw |-> Clamp(r.yaw + v.yaw)]
  BY <1>2, <1>5, MultIs
<1> DEFINE c == Cos(a.yaw)
           s == Sin(a.yaw)
<1>9. c \in {-1, 0, 1} /\ s \in {-1, 0, 1}
  BY DEF Cos, Sin
<1>10. Cos(r.yaw) = c /\ Sin(r.yaw) = -s
  BY <1>5, <1>6
<1> HIDE DEF c, s
<1>11. /\ r.x + c * v.x - (-s) * v.y = -(c * a.x) - s * a.y
       /\ r.y + (-s) * v.x + c * v.y = s * a.x - c * a.y
  BY <1>1, <1>2, <1>5, <1>9
<1>12. InverseOf[a] = [x |-> -(c * a.x) - s * a.y, y |-> s * a.x - c * a.y,
                     yaw |-> Clamp(-a.yaw)]
  BY <1>2, <1>5, <1>6, <1>7, <1>8, <1>10, <1>11
<1> QED  BY <1>12 DEF c, s

LEMMA InverseType == ASSUME NEW a \in Transform PROVE InverseOf[a] \in Transform
<1>1. /\ Cos(a.yaw) \in {-1, 0, 1} /\ Sin(a.yaw) \in {-1, 0, 1}
      /\ a.x \in Int /\ a.y \in Int /\ -a.yaw \in Int
  BY DEF Cos, Sin, Transform, Yaws
<1>2. ASSUME NEW k \in {-1, 0, 1}, NEW n \in Int PROVE k * n \in Int
  BY <1>2
<1>3. Clamp(-a.yaw) \in Yaws
  BY <1>1, ClampYaws
<1>4. InverseOf[a] = [x |-> -(Cos(a.yaw) * a.x) - Sin(a.yaw) * a.y,
                    y |-> Sin(a.yaw) * a.x - Cos(a.yaw) * a.y,
                    yaw |-> Clamp(-a.yaw)]
  BY InverseIs
<1>5. Cos(a.yaw) * a.x \in Int /\ Sin(a.yaw) * a.y \in Int
      /\ Sin(a.yaw) * a.x \in Int /\ Cos(a.yaw) * a.y \in Int
  BY <1>1, <1>2
<1> HIDE DEF Clamp
<1> QED  BY <1>3, <1>4, <1>5 DEF Transform

(* A product loses a factor on the right to that factor's inverse. *)
LEMMA Cancel ==
  ASSUME NEW w \in Transform, NEW p \in Transform
  PROVE  Mult(Mult(w, p), InverseOf[p]) = w
<1> DEFINE q == Mult(w, p)
           i == InverseOf[p]
<1>1. /\ w.x \in Int /\ w.y \in Int /\ w.yaw \in Yaws
      /\ p.x \in Int /\ p.y \in Int /\ p.yaw \in Yaws
  BY FieldsOf
<1>2. q \in Transform /\ i \in Transform
  BY MultType, InverseType
<1>3. /\ q.x = w.x + Cos(w.yaw) * p.x - Sin(w.yaw) * p.y
      /\ q.y = w.y + Sin(w.yaw) * p.x + Cos(w.yaw) * p.y
      /\ q.yaw = Clamp(w.yaw + p.yaw)
  BY MultIs
<1>4. /\ i.x = -(Cos(p.yaw) * p.x) - Sin(p.yaw) * p.y
      /\ i.y = Sin(p.yaw) * p.x - Cos(p.yaw) * p.y
      /\ i.yaw = Clamp(-p.yaw)
  <2>1. InverseOf[p] = [x |-> -(Cos(p.yaw) * p.x) - Sin(p.yaw) * p.y,
                      y |-> Sin(p.yaw) * p.x - Cos(p.yaw) * p.y,
                      yaw |-> Clamp(-p.yaw)]
    BY InverseIs
  <2> QED  BY <2>1
<1> HIDE DEF q, i
<1>5. /\ q.yaw \in Yaws /\ i.yaw \in Yaws
      /\ q.yaw = IF w.yaw + p.yaw < 4 THEN w.yaw + p.yaw ELSE w.yaw + p.yaw - 4
      /\ i.yaw = IF p.yaw = 0 THEN 0 ELSE 4 - p.yaw
  BY <1>1, <1>2, <1>3, <1>4, SumOfYaws, OppositeYaw, FieldsOf
<1>6. Clamp(q.yaw + i.yaw) = w.yaw
  BY <1>1, <1>5, SumOfYaws DEF Yaws
<1>7. /\ q.x + Cos(q.yaw) * i.x - Sin(q.yaw) * i.y = w.x
      /\ q.y + Sin(q.yaw) * i.x + Cos(q.yaw) * i.y = w.y
  <2>1. CASE p.yaw = 0
    <3>1. q.yaw = w.yaw /\ i.x = -p.x /\ i.y = -p.y
      BY <1>1, <1>4, <1>5, <2>1 DEF Cos, Sin, Yaws
    <3> QED  BY <1>1, <1>3, <3>1 DEF Cos, Sin
  <2>2. CASE p.yaw = 1
    <3>1. i.x = -p.y /\ i.y = p.x
      BY <1>1, <1>4, <2>2 DEF Cos, Sin
    <3>2. Cos(q.yaw) = -Sin(w.yaw) /\ Sin(q.yaw) = Cos(w.yaw)
      BY <1>1, <1>5, <2>2 DEF Cos, Sin, Yaws
    <3> QED  BY <1>1, <1>3, <3>1, <3>2 DEF Cos, Sin
  <2>3. CASE p.yaw = 2
    <3>1. i.x = p.x /\ i.y = p.y
      BY <1>1, <1>4, <2>3 DEF Cos, Sin
    <3>2. Cos(q.yaw) = -Cos(w.yaw) /\ Sin(q.yaw) = -Sin(w.yaw)
      BY <1>1, <1>5, <2>3 DEF Cos, Sin, Yaws
    <3> QED  BY <1>1, <1>3, <3>1, <3>2 DEF Cos, Sin
  <2>4. CASE p.yaw = 3
    <3>1. i.x = p.y /\ i.y = -p.x
      BY <1>1, <1>4, <2>4 DEF Cos, Sin
    <3>2. Cos(q.yaw) = Sin(w.yaw) /\ Sin(q.yaw) = -Cos(w.yaw)
      BY <1>1, <1>5, <2>4 DEF Cos, Sin, Yaws
    <3> QED  BY <1>1, <1>3, <3>1, <3>2 DEF Cos, Sin
  <2> QED  BY <1>1, <2>1, <2>2, <2>3, <2>4 DEF Yaws
<1>8. Mult(q, i) = [x |-> w.x, y |-> w.y, yaw |-> w.yaw]
  BY <1>2, <1>6, <1>7, MultIs
<1>9. w = [x |-> w.x, y |-> w.y, yaw |-> w.yaw]
  BY DEF Transform
<1> QED  BY <1>8, <1>9 DEF q, i


(* A turn that is taken back and a turn that is made again. *)
LEMMA TurnBack == \A y \in Yaws, n \in Int : Clamp(Clamp(y - n) + n) = y
  BY DEF Clamp, Yaws

LEMMA SameTurn ==
  \A y, t \in Yaws, n \in Int : Clamp(t + n) = 0 => Clamp(t + y) = Clamp(y - n)
  BY DEF Clamp, Yaws

LEMMA OriginType ==
  ASSUME NEW a \in Transform
  PROVE  /\ Origin(a) \in Transform
         /\ Origin(a).x = a.x /\ Origin(a).y = a.y /\ Origin(a).yaw = 0
  BY FieldsOf, AtIs DEF Origin, At

LEMMA IdentityType ==
  Identity \in Transform /\ Identity.x = 0 /\ Identity.y = 0 /\ Identity.yaw = 0
  BY AtIs DEF Identity, At

(* The offset of an antenna, turned as the robot is, is what lies between the
   antenna and the robot. *)
LEMMA OffsetComesOff ==
  ASSUME NEW p \in Transform, NEW v \in Transform, v.yaw = 0
  PROVE  /\ Rotate(p.yaw, v) \in Transform
         /\ Mult(InverseOf[Rotate(p.yaw, v)], Origin(Mult(p, v))) = Origin(p)
<1> DEFINE dx == Cos(p.yaw) * v.x - Sin(p.yaw) * v.y
           dy == Sin(p.yaw) * v.x + Cos(p.yaw) * v.y
           r == Rotate(p.yaw, v)
           a == Origin(Mult(p, v))
<1>1. /\ p.x \in Int /\ p.y \in Int /\ p.yaw \in Yaws /\ v.x \in Int /\ v.y \in Int
  BY FieldsOf
<1>2. dx \in Int /\ dy \in Int
  BY <1>1 DEF Cos, Sin
<1>3. Facing(Identity, p.yaw) \in Transform
      /\ Facing(Identity, p.yaw).x = 0 /\ Facing(Identity, p.yaw).y = 0
      /\ Facing(Identity, p.yaw).yaw = p.yaw
  BY <1>1, IdentityType, FacingIs
<1>4. Mult(Facing(Identity, p.yaw), v).x = 0 + dx - 0 /\ Mult(Facing(Identity, p.yaw), v).y = 0 + dy
  <2>1. /\ Mult(Facing(Identity, p.yaw), v).x = 0 + Cos(p.yaw) * v.x - Sin(p.yaw) * v.y
        /\ Mult(Facing(Identity, p.yaw), v).y = 0 + Sin(p.yaw) * v.x + Cos(p.yaw) * v.y
    BY <1>3, MultIs
  <2> QED  BY <1>1, <2>1 DEF Cos, Sin
<1>5. r = At(dx, dy)
  BY <1>2, <1>4 DEF Rotate, Origin
<1>6. Mult(p, v).x = p.x + Cos(p.yaw) * v.x - Sin(p.yaw) * v.y
      /\ Mult(p, v).y = p.y + Sin(p.yaw) * v.x + Cos(p.yaw) * v.y
  BY MultIs
<1>7. Mult(p, v).x = p.x + dx /\ Mult(p, v).y = p.y + dy
  BY <1>1, <1>6 DEF Cos, Sin
<1> HIDE DEF dx, dy, r, a
<1>8. a = At(p.x + dx, p.y + dy)
  BY <1>7 DEF a, Origin
<1>9. /\ r \in Transform /\ r.x = dx /\ r.y = dy /\ r.yaw = 0
      /\ a \in Transform /\ a.x = p.x + dx /\ a.y = p.y + dy /\ a.yaw = 0
  BY <1>1, <1>2, <1>5, <1>8, AtIs DEF At
<1>10. /\ InverseOf[r] \in Transform
       /\ InverseOf[r].x = -dx /\ InverseOf[r].y = -dy /\ InverseOf[r].yaw = 0
  <2>1. InverseOf[r] = [x |-> -(Cos(r.yaw) * r.x) - Sin(r.yaw) * r.y,
                      y |-> Sin(r.yaw) * r.x - Cos(r.yaw) * r.y,
                      yaw |-> Clamp(-r.yaw)]
    BY <1>9, InverseIs
  <2>2. Clamp(-r.yaw) = 0
    BY <1>9, OppositeYaw DEF Yaws
  <2>3. Cos(r.yaw) = 1 /\ Sin(r.yaw) = 0
    BY <1>9 DEF Cos, Sin
  <2> QED  BY <1>2, <1>9, <2>1, <2>2, <2>3, InverseType
<1>11. Mult(InverseOf[r], a) = At(p.x, p.y)
  <2>1. Mult(InverseOf[r], a) =
          [x |-> InverseOf[r].x + Cos(InverseOf[r].yaw) * a.x - Sin(InverseOf[r].yaw) * a.y,
           y |-> InverseOf[r].y + Sin(InverseOf[r].yaw) * a.x + Cos(InverseOf[r].yaw) * a.y,
           yaw |-> Clamp(InverseOf[r].yaw + a.yaw)]
    BY <1>9, <1>10, MultIs
  <2>2. Cos(InverseOf[r].yaw) = 1 /\ Sin(InverseOf[r].yaw) = 0
    BY <1>10 DEF Cos, Sin
  <2>3. Clamp(InverseOf[r].yaw + a.yaw) = 0
    BY <1>9, <1>10, SumOfYaws DEF Yaws
  <2> QED  BY <1>1, <1>2, <1>9, <1>10, <2>1, <2>2, <2>3 DEF At
<1> QED  BY <1>9, <1>11 DEF r, a, Origin

(* The inverse of a transform takes its origin home. *)
LEMMA InverseTakesHome ==
  ASSUME NEW f \in Transform
  PROVE  Origin(Mult(Mult(Identity, InverseOf[f]), Origin(f))) = Identity
<1> DEFINE i == InverseOf[f]
           m == Mult(Identity, i)
           o == Origin(f)
<1>1. /\ f.x \in Int /\ f.y \in Int /\ f.yaw \in Yaws
      /\ i \in Transform /\ i.x \in Int /\ i.y \in Int /\ i.yaw \in Yaws
      /\ o \in Transform /\ o.x = f.x /\ o.y = f.y /\ o.yaw = 0
  BY FieldsOf, InverseType, OriginType
<1>2. /\ i.x = -(Cos(f.yaw) * f.x) - Sin(f.yaw) * f.y
      /\ i.y = Sin(f.yaw) * f.x - Cos(f.yaw) * f.y
      /\ i.yaw = Clamp(-f.yaw)
  <2>1. InverseOf[f] = [x |-> -(Cos(f.yaw) * f.x) - Sin(f.yaw) * f.y,
                      y |-> Sin(f.yaw) * f.x - Cos(f.yaw) * f.y,
                      yaw |-> Clamp(-f.yaw)]
    BY InverseIs
  <2> QED  BY <2>1
<1> HIDE DEF i, o
<1>3. m \in Transform /\ m.x = i.x /\ m.y = i.y /\ m.yaw = i.yaw
  <2>1. Mult(Identity, i) = [x |-> Identity.x + Cos(Identity.yaw) * i.x - Sin(Identity.yaw) * i.y,
                             y |-> Identity.y + Sin(Identity.yaw) * i.x + Cos(Identity.yaw) * i.y,
                             yaw |-> Clamp(Identity.yaw + i.yaw)]
    BY <1>1, IdentityType, MultIs
  <2>2. Cos(Identity.yaw) = 1 /\ Sin(Identity.yaw) = 0 /\ Clamp(Identity.yaw + i.yaw) = i.yaw
    <3>1. Clamp(Identity.yaw + i.yaw) = Clamp(0 + i.yaw) /\ 0 \in Yaws
      BY IdentityType DEF Yaws
    <3>2. Clamp(0 + i.yaw) = i.yaw
      BY <1>1, <3>1, SumOfYaws DEF Yaws
    <3> QED  BY <3>1, <3>2, IdentityType DEF Cos, Sin
  <2> QED  BY <1>1, <2>1, <2>2, IdentityType, MultType
<1> HIDE DEF m
<1>4. /\ Cos(i.yaw) = Cos(f.yaw) /\ Sin(i.yaw) = -Sin(f.yaw)
  BY <1>1, <1>2, OppositeYaw DEF Cos, Sin, Yaws
<1>5. Mult(m, o).x = m.x + Cos(m.yaw) * o.x - Sin(m.yaw) * o.y
      /\ Mult(m, o).y = m.y + Sin(m.yaw) * o.x + Cos(m.yaw) * o.y
  BY <1>1, <1>3, MultIs
<1> DEFINE c == Cos(f.yaw)
           s == Sin(f.yaw)
<1>6. c \in {-1, 0, 1} /\ s \in {-1, 0, 1}
  BY DEF Cos, Sin
<1>7. Mult(m, o).x = (-(c * f.x) - s * f.y) + c * f.x - (-s) * f.y
      /\ Mult(m, o).y = (s * f.x - c * f.y) + (-s) * f.x + c * f.y
  BY <1>1, <1>2, <1>3, <1>4, <1>5
<1> HIDE DEF c, s
<1>8. Mult(m, o).x = 0 /\ Mult(m, o).y = 0
  BY <1>1, <1>6, <1>7
<1> QED  BY <1>8 DEF Origin, Identity, m, o, i

(* Where a product of transforms puts the origin, one factor at a time. *)
LEMMA OneAfterTheOther ==
  ASSUME NEW w \in Transform, NEW q \in Transform
  PROVE  Origin(Mult(w, Origin(q))) = Origin(Mult(w, q))
<1>1. /\ Origin(q) \in Transform /\ Origin(q).x = q.x /\ Origin(q).y = q.y
  BY OriginType
<1>2. /\ Mult(w, q).x = w.x + Cos(w.yaw) * q.x - Sin(w.yaw) * q.y
      /\ Mult(w, q).y = w.y + Sin(w.yaw) * q.x + Cos(w.yaw) * q.y
  BY MultIs
<1>3. /\ Mult(w, Origin(q)).x = w.x + Cos(w.yaw) * Origin(q).x - Sin(w.yaw) * Origin(q).y
      /\ Mult(w, Origin(q)).y = w.y + Sin(w.yaw) * Origin(q).x + Cos(w.yaw) * Origin(q).y
  BY <1>1, MultIs
<1>4. Mult(w, Origin(q)).x = Mult(w, q).x /\ Mult(w, Origin(q)).y = Mult(w, q).y
  BY <1>1, <1>2, <1>3
<1> QED  BY <1>4 DEF Origin

LEMMA TurnTwice ==
  ASSUME NEW a \in Yaws, NEW b \in Yaws, NEW x \in Int, NEW y \in Int
  PROVE  /\ Cos(Clamp(a + b)) * x - Sin(Clamp(a + b)) * y
              = Cos(a) * (Cos(b) * x - Sin(b) * y) - Sin(a) * (Sin(b) * x + Cos(b) * y)
         /\ Sin(Clamp(a + b)) * x + Cos(Clamp(a + b)) * y
              = Sin(a) * (Cos(b) * x - Sin(b) * y) + Cos(a) * (Sin(b) * x + Cos(b) * y)
<1>1. CASE a = 0
  BY <1>1, SumOfYaws DEF Cos, Sin, Yaws
<1>2. CASE a = 1
  BY <1>2, SumOfYaws DEF Cos, Sin, Yaws
<1>3. CASE a = 2
  BY <1>3, SumOfYaws DEF Cos, Sin, Yaws
<1>4. CASE a = 3
  BY <1>4, SumOfYaws DEF Cos, Sin, Yaws
<1> QED  BY <1>1, <1>2, <1>3, <1>4 DEF Yaws

LEMMA SumOfTurns ==
  ASSUME NEW k \in {-1, 0, 1}, NEW l \in {-1, 0, 1}, NEW a \in Int, NEW b \in Int,
         NEW c \in Int, NEW d \in Int
  PROVE  /\ k * (a + c) - l * (b + d) = k * a - l * b + (k * c - l * d)
         /\ l * (a + c) + k * (b + d) = l * a + k * b + (l * c + k * d)
<1>1. CASE k = -1
  BY <1>1
<1>2. CASE k = 0
  BY <1>2
<1>3. CASE k = 1
  BY <1>3
<1> QED  BY <1>1, <1>2, <1>3

(* The product of transforms is associative, as far as positions go. *)
LEMMA ProductOfThree ==
  ASSUME NEW w \in Transform, NEW p \in Transform, NEW v \in Transform
  PROVE  Origin(Mult(w, Mult(p, v))) = Origin(Mult(Mult(w, p), v))
<1> DEFINE vx == Cos(p.yaw) * v.x - Sin(p.yaw) * v.y
           vy == Sin(p.yaw) * v.x + Cos(p.yaw) * v.y
           q == Mult(p, v)
           r == Mult(w, p)
<1>1. /\ w.x \in Int /\ w.y \in Int /\ w.yaw \in Yaws
      /\ p.x \in Int /\ p.y \in Int /\ p.yaw \in Yaws
      /\ v.x \in Int /\ v.y \in Int
      /\ q \in Transform /\ r \in Transform
  BY FieldsOf, MultType
<1>2. /\ Cos(w.yaw) \in {-1, 0, 1} /\ Sin(w.yaw) \in {-1, 0, 1}
      /\ Cos(p.yaw) \in {-1, 0, 1} /\ Sin(p.yaw) \in {-1, 0, 1}
  BY DEF Cos, Sin
<1>3. vx \in Int /\ vy \in Int
  BY <1>1 DEF Cos, Sin
<1>4. q.x = p.x + vx /\ q.y = p.y + vy
  <2>1. /\ q.x = p.x + Cos(p.yaw) * v.x - Sin(p.yaw) * v.y
        /\ q.y = p.y + Sin(p.yaw) * v.x + Cos(p.yaw) * v.y
    BY MultIs
  <2> QED  BY <1>1, <2>1 DEF Cos, Sin
<1>5. /\ r.x = w.x + Cos(w.yaw) * p.x - Sin(w.yaw) * p.y
      /\ r.y = w.y + Sin(w.yaw) * p.x + Cos(w.yaw) * p.y
      /\ r.yaw = Clamp(w.yaw + p.yaw)
  BY MultIs
<1>6. /\ Cos(r.yaw) * v.x - Sin(r.yaw) * v.y = Cos(w.yaw) * vx - Sin(w.yaw) * vy
      /\ Sin(r.yaw) * v.x + Cos(r.yaw) * v.y = Sin(w.yaw) * vx + Cos(w.yaw) * vy
  <2>1. /\ Cos(Clamp(w.yaw + p.yaw)) * v.x - Sin(Clamp(w.yaw + p.yaw)) * v.y
             = Cos(w.yaw) * vx - Sin(w.yaw) * vy
        /\ Sin(Clamp(w.yaw + p.yaw)) * v.x + Cos(Clamp(w.yaw + p.yaw)) * v.y
             = Sin(w.yaw) * vx + Cos(w.yaw) * vy
    <3> HIDE DEF q, r
    <3>1. w.yaw \in Yaws /\ p.yaw \in Yaws /\ v.x \in Int /\ v.y \in Int
      BY <1>1
    <3> QED  BY <3>1, TurnTwice
  <2> HIDE DEF vx, vy, r, q
  <2> QED  BY <1>5, <2>1
<1> HIDE DEF vx, vy, q, r
<1>7. /\ Mult(w, q).x = w.x + Cos(w.yaw) * q.x - Sin(w.yaw) * q.y
      /\ Mult(w, q).y = w.y + Sin(w.yaw) * q.x + Cos(w.yaw) * q.y
      /\ Mult(r, v).x = r.x + Cos(r.yaw) * v.x - Sin(r.yaw) * v.y
      /\ Mult(r, v).y = r.y + Sin(r.yaw) * v.x + Cos(r.yaw) * v.y
  BY <1>1, MultIs
<1> DEFINE c == Cos(w.yaw)
           s == Sin(w.yaw)
<1>8. /\ c * (p.x + vx) - s * (p.y + vy) = c * p.x - s * p.y + (c * vx - s * vy)
      /\ s * (p.x + vx) + c * (p.y + vy) = s * p.x + c * p.y + (s * vx + c * vy)
  BY <1>1, <1>2, <1>3, SumOfTurns
<1>9. Mult(w, q).x = Mult(r, v).x /\ Mult(w, q).y = Mult(r, v).y
  <2> DEFINE cr == Cos(r.yaw)
             sr == Sin(r.yaw)
  <2>1. cr * v.x \in Int /\ sr * v.y \in Int /\ sr * v.x \in Int /\ cr * v.y \in Int
    BY <1>1 DEF Cos, Sin
  <2>2. /\ c * vx \in Int /\ s * vy \in Int /\ s * vx \in Int /\ c * vy \in Int
        /\ c * p.x \in Int /\ s * p.y \in Int /\ s * p.x \in Int /\ c * p.y \in Int
    BY <1>1, <1>3 DEF Cos, Sin
  <2>3. /\ c * q.x \in Int /\ s * q.y \in Int /\ s * q.x \in Int /\ c * q.y \in Int
    BY <1>1, <1>3, <1>4 DEF Cos, Sin
  <2>4. /\ c * q.x - s * q.y = c * p.x - s * p.y + (cr * v.x - sr * v.y)
        /\ s * q.x + c * q.y = s * p.x + c * p.y + (sr * v.x + cr * v.y)
    BY <1>4, <1>6, <1>8
  <2>5. /\ Mult(w, q).x = w.x + c * q.x - s * q.y
        /\ Mult(w, q).y = w.y + s * q.x + c * q.y
        /\ Mult(r, v).x = (w.x + c * p.x - s * p.y) + cr * v.x - sr * v.y
        /\ Mult(r, v).y = (w.y + s * p.x + c * p.y) + sr * v.x + cr * v.y
    BY <1>5, <1>7
  <2> HIDE DEF c, s, cr, sr
  <2> DEFINE a1 == c * q.x    a2 == s * q.y    a3 == s * q.x    a4 == c * q.y
             b1 == c * p.x    b2 == s * p.y    b3 == s * p.x    b4 == c * p.y
             d1 == cr * v.x   d2 == sr * v.y   d3 == sr * v.x   d4 == cr * v.y
  <2>6. /\ a1 - a2 = b1 - b2 + (d1 - d2)
        /\ a3 + a4 = b3 + b4 + (d3 + d4)
    BY <2>4
  <2>7. /\ {a1, a2, a3, a4, b1, b2, b3, b4, d1, d2, d3, d4} \subseteq Int
        /\ w.x \in Int /\ w.y \in Int
    BY <1>1, <2>1, <2>2, <2>3
  <2>8. /\ Mult(w, q).x = w.x + a1 - a2 /\ Mult(r, v).x = w.x + b1 - b2 + d1 - d2
        /\ Mult(w, q).y = w.y + a3 + a4 /\ Mult(r, v).y = w.y + b3 + b4 + d3 + d4
    BY <2>5
  <2> HIDE DEF a1, a2, a3, a4, b1, b2, b3, b4, d1, d2, d3, d4
  <2> QED  BY <2>6, <2>7, <2>8
<1> QED  BY <1>9 DEF Origin, q, r

(* A transform, undone. *)
LEMMA InverseUndoes ==
  ASSUME NEW w \in Transform, NEW p \in Transform
  PROVE  Origin(Mult(InverseOf[w], Mult(w, p))) = Origin(p)
<1> DEFINE i == InverseOf[w]
           m == Mult(i, w)
<1>1. i \in Transform /\ m \in Transform /\ w.yaw \in Yaws
  BY InverseType, MultType, FieldsOf
<1>2. /\ i.x = -(Cos(w.yaw) * w.x) - Sin(w.yaw) * w.y
      /\ i.y = Sin(w.yaw) * w.x - Cos(w.yaw) * w.y
      /\ i.yaw = Clamp(-w.yaw)
  <2>1. InverseOf[w] = [x |-> -(Cos(w.yaw) * w.x) - Sin(w.yaw) * w.y,
                      y |-> Sin(w.yaw) * w.x - Cos(w.yaw) * w.y,
                      yaw |-> Clamp(-w.yaw)]
    BY InverseIs
  <2> QED  BY <2>1
<1> HIDE DEF i
<1>3. Cos(i.yaw) = Cos(w.yaw) /\ Sin(i.yaw) = -Sin(w.yaw)
  BY <1>1, <1>2, OppositeYaw DEF Cos, Sin, Yaws
<1>4. /\ m.x = i.x + Cos(i.yaw) * w.x - Sin(i.yaw) * w.y
      /\ m.y = i.y + Sin(i.yaw) * w.x + Cos(i.yaw) * w.y
      /\ m.yaw = Clamp(i.yaw + w.yaw)
  BY <1>1, MultIs
<1>5. m.yaw = 0
  BY <1>1, <1>2, <1>4, OppositeYaw, SumOfYaws DEF Yaws
<1> DEFINE c == Cos(w.yaw)
           s == Sin(w.yaw)
<1>6. c \in {-1, 0, 1} /\ s \in {-1, 0, 1} /\ w.x \in Int /\ w.y \in Int
  BY FieldsOf DEF Cos, Sin
<1>7. /\ m.x = (-(c * w.x) - s * w.y) + c * w.x - (-s) * w.y
      /\ m.y = (s * w.x - c * w.y) + (-s) * w.x + c * w.y
  BY <1>2, <1>3, <1>4
<1> HIDE DEF c, s
<1>8. m.x = 0 /\ m.y = 0
  BY <1>6, <1>7
<1> HIDE DEF m
<1>9. Mult(m, p).x = p.x /\ Mult(m, p).y = p.y
  <2>1. /\ Mult(m, p).x = m.x + Cos(m.yaw) * p.x - Sin(m.yaw) * p.y
        /\ Mult(m, p).y = m.y + Sin(m.yaw) * p.x + Cos(m.yaw) * p.y
    BY <1>1, MultIs
  <2>2. Cos(m.yaw) = 1 /\ Sin(m.yaw) = 0 /\ p.x \in Int /\ p.y \in Int
    BY <1>5, FieldsOf DEF Cos, Sin
  <2> QED  BY <1>8, <2>1, <2>2
<1>10. Origin(Mult(i, Mult(w, p))) = Origin(Mult(m, p))
  BY <1>1, ProductOfThree DEF m
<1> QED  BY <1>9, <1>10 DEF Origin, i

-----------------------------------------------------------------------------
(* Transforms are a group. *)

LEMMA SameTransform ==
  ASSUME NEW a \in Transform, NEW b \in Transform, a.x = b.x, a.y = b.y, a.yaw = b.yaw
  PROVE  a = b
  BY DEF Transform

LEMMA SameOrigin ==
  ASSUME NEW a \in Transform, NEW b \in Transform, Origin(a) = Origin(b)
  PROVE  a.x = b.x /\ a.y = b.y
<1>1. /\ Origin(a).x = a.x /\ Origin(a).y = a.y
      /\ Origin(b).x = b.x /\ Origin(b).y = b.y
  BY OriginType
<1> QED  BY <1>1

LEMMA ClampOfSum ==
  \A a, b, c \in Yaws : Clamp(a + Clamp(b + c)) = Clamp(Clamp(a + b) + c)
  BY DEF Clamp, Yaws

LEMMA MultAssociates ==
  ASSUME NEW a \in Transform, NEW b \in Transform, NEW c \in Transform
  PROVE  Mult(a, Mult(b, c)) = Mult(Mult(a, b), c)
<1> DEFINE l == Mult(a, Mult(b, c))
           r == Mult(Mult(a, b), c)
<1>1. l \in Transform /\ r \in Transform
  BY MultType
<1>2. l.x = r.x /\ l.y = r.y
  BY <1>1, ProductOfThree, SameOrigin
<1>3. l.yaw = r.yaw
  <2>1. /\ Mult(b, c) \in Transform /\ Mult(a, b) \in Transform
        /\ a.yaw \in Yaws /\ b.yaw \in Yaws /\ c.yaw \in Yaws
    BY MultType, FieldsOf
  <2>2. Mult(b, c).yaw = Clamp(b.yaw + c.yaw) /\ Mult(a, b).yaw = Clamp(a.yaw + b.yaw)
    BY MultIs
  <2>3. l.yaw = Clamp(a.yaw + Mult(b, c).yaw) /\ r.yaw = Clamp(Mult(a, b).yaw + c.yaw)
    BY <2>1, MultIs
  <2> QED  BY <2>1, <2>2, <2>3, ClampOfSum
<1> HIDE DEF l, r
<1>4. l = r
  BY <1>1, <1>2, <1>3, SameTransform
<1> QED  BY <1>4 DEF l, r

LEMMA ProductFields ==
  ASSUME NEW a \in Transform, NEW b \in Transform
  PROVE  /\ Mult(a, b) \in Transform
         /\ Mult(a, b).x = a.x + Cos(a.yaw) * b.x - Sin(a.yaw) * b.y
         /\ Mult(a, b).y = a.y + Sin(a.yaw) * b.x + Cos(a.yaw) * b.y
         /\ Mult(a, b).yaw = Clamp(a.yaw + b.yaw)
<1>1. Mult(a, b) =
        [x |-> a.x + Cos(a.yaw) * b.x - Sin(a.yaw) * b.y,
         y |-> a.y + Sin(a.yaw) * b.x + Cos(a.yaw) * b.y,
         yaw |-> Clamp(a.yaw + b.yaw)]
  BY MultIs
<1> QED  BY <1>1, MultType

LEMMA InverseYaw == ASSUME NEW a \in Transform PROVE InverseOf[a].yaw = Clamp(-a.yaw)
<1>1. InverseOf[a] = [x |-> -(Cos(a.yaw) * a.x) - Sin(a.yaw) * a.y,
                    y |-> Sin(a.yaw) * a.x - Cos(a.yaw) * a.y,
                    yaw |-> Clamp(-a.yaw)]
  BY InverseIs
<1> QED  BY <1>1

LEMMA IdentityLeft ==
  ASSUME NEW a \in Transform
  PROVE  Mult(Identity, a) = a
<1>1. Identity \in Transform /\ Identity.x = 0 /\ Identity.y = 0 /\ Identity.yaw = 0
  BY IdentityType
<1>2. /\ Mult(Identity, a).x = Identity.x + Cos(Identity.yaw) * a.x - Sin(Identity.yaw) * a.y
      /\ Mult(Identity, a).y = Identity.y + Sin(Identity.yaw) * a.x + Cos(Identity.yaw) * a.y
      /\ Mult(Identity, a).yaw = Clamp(Identity.yaw + a.yaw)
      /\ Mult(Identity, a) \in Transform
  BY <1>1, ProductFields
<1>3. a.x \in Int /\ a.y \in Int /\ a.yaw \in Yaws /\ Clamp(0 + a.yaw) = a.yaw
  BY FieldsOf, SumOfYaws DEF Yaws
<1>4. Cos(0) = 1 /\ Sin(0) = 0
  BY DEF Cos, Sin
<1>5. /\ Mult(Identity, a).x = 0 + 1 * a.x - 0 * a.y
      /\ Mult(Identity, a).y = 0 + 0 * a.x + 1 * a.y
  BY <1>1, <1>2, <1>4
<1>6. Mult(Identity, a).x = a.x /\ Mult(Identity, a).y = a.y /\ Mult(Identity, a).yaw = a.yaw
  BY <1>1, <1>2, <1>3, <1>5
<1> QED  BY <1>2, <1>6, SameTransform

LEMMA InverseRight ==
  ASSUME NEW a \in Transform
  PROVE  Mult(a, InverseOf[a]) = Identity
<1>1. Mult(Mult(Identity, a), InverseOf[a]) = Identity
  BY IdentityType, Cancel
<1> QED  BY <1>1, IdentityLeft

LEMMA InverseLeft ==
  ASSUME NEW a \in Transform
  PROVE  Mult(InverseOf[a], a) = Identity
<1> DEFINE i == InverseOf[a]
           m == Mult(i, a)
<1>1. i \in Transform /\ m \in Transform
  BY InverseType, MultType
<1>2. m.yaw = 0
  <2>1. m.yaw = Clamp(i.yaw + a.yaw) /\ a.yaw \in Yaws
    BY <1>1, MultIs, FieldsOf
  <2>2. i.yaw = Clamp(-a.yaw)
    BY InverseYaw
  <2> QED  BY <2>1, <2>2, OppositeYaw, SumOfYaws DEF Yaws
<1>3. m.x = 0 /\ m.y = 0
  <2>1. Mult(a, Identity) \in Transform /\ Mult(a, Identity).x = a.x /\ Mult(a, Identity).y = a.y
    <3>1. /\ Mult(a, Identity).x = a.x + Cos(a.yaw) * 0 - Sin(a.yaw) * 0
          /\ Mult(a, Identity).y = a.y + Sin(a.yaw) * 0 + Cos(a.yaw) * 0
      BY IdentityType, MultIs
    <3>2. Cos(a.yaw) \in Int /\ Sin(a.yaw) \in Int /\ a.x \in Int /\ a.y \in Int
      BY FieldsOf DEF Cos, Sin
    <3> QED  BY <3>1, <3>2, IdentityType, MultType
  <2>2. Origin(Mult(i, Mult(a, Identity))) = Origin(Identity)
    BY IdentityType, InverseUndoes
  <2>3. Origin(Mult(i, Mult(a, Identity))) = Origin(Mult(m, Identity))
    BY <1>1, IdentityType, ProductOfThree
  <2>4. Mult(m, Identity).x = m.x /\ Mult(m, Identity).y = m.y /\ Mult(m, Identity) \in Transform
    <3>1. /\ Mult(m, Identity).x = m.x + Cos(m.yaw) * 0 - Sin(m.yaw) * 0
          /\ Mult(m, Identity).y = m.y + Sin(m.yaw) * 0 + Cos(m.yaw) * 0
      BY <1>1, IdentityType, MultIs
    <3>2. Cos(m.yaw) \in Int /\ Sin(m.yaw) \in Int /\ m.x \in Int /\ m.y \in Int
      BY <1>1, FieldsOf DEF Cos, Sin
    <3> QED  BY <1>1, <3>1, <3>2, IdentityType, MultType
  <2> HIDE DEF m, i
  <2>5. Mult(m, Identity).x = Identity.x /\ Mult(m, Identity).y = Identity.y
    BY <2>2, <2>3, <2>4, IdentityType, SameOrigin
  <2> QED  BY <2>4, <2>5, IdentityType
<1> HIDE DEF m
<1>4. m = Identity
  BY <1>1, <1>2, <1>3, IdentityType, SameTransform
<1> QED  BY <1>4 DEF m, i

LEMMA InverseTakesOff ==
  ASSUME NEW a \in Transform, NEW b \in Transform
  PROVE  /\ Mult(InverseOf[a], Mult(a, b)) = b
         /\ Mult(a, Mult(InverseOf[a], b)) = b
<1>1. InverseOf[a] \in Transform
  BY InverseType
<1>2. Mult(InverseOf[a], Mult(a, b)) = Mult(Mult(InverseOf[a], a), b)
  BY <1>1, MultAssociates
<1>3. Mult(a, Mult(InverseOf[a], b)) = Mult(Mult(a, InverseOf[a]), b)
  BY <1>1, MultAssociates
<1> QED  BY <1>2, <1>3, InverseLeft, InverseRight, IdentityLeft

LEMMA InverseOfProduct ==
  ASSUME NEW a \in Transform, NEW b \in Transform
  PROVE  InverseOf[Mult(a, b)] = Mult(InverseOf[b], InverseOf[a])
<1> DEFINE u == Mult(a, b)
           v == Mult(InverseOf[b], InverseOf[a])
<1>1. /\ InverseOf[a] \in Transform /\ InverseOf[b] \in Transform
      /\ u \in Transform /\ v \in Transform
  BY InverseType, MultType
<1>2. Mult(v, u) = Identity
  <2>1. Mult(v, u) = Mult(InverseOf[b], Mult(InverseOf[a], u))
    BY <1>1, MultAssociates
  <2>2. Mult(InverseOf[a], u) = b
    BY InverseTakesOff
  <2> QED  BY <2>1, <2>2, InverseLeft
<1> HIDE DEF u, v
<1>3. Mult(Mult(v, u), InverseOf[u]) = v
  BY <1>1, Cancel
<1>4. InverseOf[u] = v
  BY <1>1, <1>2, <1>3, IdentityLeft, InverseType
<1> QED  BY <1>4 DEF u, v

(* What lies between two transforms does not change if both are turned and
   moved by a third one. *)
LEMMA CommonFactor ==
  ASSUME NEW c \in Transform, NEW a \in Transform, NEW b \in Transform
  PROVE  Mult(InverseOf[Mult(c, a)], Mult(c, b)) = Mult(InverseOf[a], b)
<1>1. InverseOf[a] \in Transform /\ InverseOf[c] \in Transform /\ Mult(c, b) \in Transform
  BY InverseType, MultType
<1>2. InverseOf[Mult(c, a)] = Mult(InverseOf[a], InverseOf[c])
  BY InverseOfProduct
<1>3. Mult(Mult(InverseOf[a], InverseOf[c]), Mult(c, b)) = Mult(InverseOf[a], Mult(InverseOf[c], Mult(c, b)))
  BY <1>1, MultAssociates
<1>4. Mult(InverseOf[c], Mult(c, b)) = b
  BY InverseTakesOff
<1> QED  BY <1>2, <1>3, <1>4

-----------------------------------------------------------------------------
(* Rotations of a position. *)

LEMMA RotateIs ==
  ASSUME NEW yaw \in Yaws, NEW v \in Transform
  PROVE  /\ Rotate(yaw, v) = At(Cos(yaw) * v.x - Sin(yaw) * v.y, Sin(yaw) * v.x + Cos(yaw) * v.y)
         /\ Rotate(yaw, v) \in Transform
         /\ Rotate(yaw, v).x = Cos(yaw) * v.x - Sin(yaw) * v.y
         /\ Rotate(yaw, v).y = Sin(yaw) * v.x + Cos(yaw) * v.y
         /\ Rotate(yaw, v).yaw = 0
<1> DEFINE f == Facing(Identity, yaw)
<1>1. f \in Transform /\ f.x = 0 /\ f.y = 0 /\ f.yaw = yaw
  BY IdentityType, FacingIs
<1>2. v.x \in Int /\ v.y \in Int
  BY FieldsOf
<1>3. Cos(yaw) * v.x - Sin(yaw) * v.y \in Int /\ Sin(yaw) * v.x + Cos(yaw) * v.y \in Int
  BY <1>2 DEF Cos, Sin
<1>4. /\ Mult(f, v).x = 0 + Cos(yaw) * v.x - Sin(yaw) * v.y
      /\ Mult(f, v).y = 0 + Sin(yaw) * v.x + Cos(yaw) * v.y
  <2>1. /\ Mult(f, v).x = f.x + Cos(f.yaw) * v.x - Sin(f.yaw) * v.y
        /\ Mult(f, v).y = f.y + Sin(f.yaw) * v.x + Cos(f.yaw) * v.y
    BY <1>1, MultIs
  <2> QED  BY <1>1, <2>1
<1>5. /\ Mult(f, v).x = Cos(yaw) * v.x - Sin(yaw) * v.y
      /\ Mult(f, v).y = Sin(yaw) * v.x + Cos(yaw) * v.y
  BY <1>2, <1>4 DEF Cos, Sin
<1>6. Rotate(yaw, v) = At(Cos(yaw) * v.x - Sin(yaw) * v.y, Sin(yaw) * v.x + Cos(yaw) * v.y)
  BY <1>5 DEF Rotate, Origin
<1> QED  BY <1>3, <1>6, AtIs DEF At

LEMMA RotateTwice ==
  ASSUME NEW a \in Yaws, NEW b \in Yaws, NEW v \in Transform
  PROVE  Rotate(a, Rotate(b, v)) = Rotate(Clamp(a + b), v)
<1> DEFINE r == Rotate(b, v)
<1>1. /\ r \in Transform
      /\ r.x = Cos(b) * v.x - Sin(b) * v.y
      /\ r.y = Sin(b) * v.x + Cos(b) * v.y
  BY RotateIs
<1>2. Clamp(a + b) \in Yaws /\ v.x \in Int /\ v.y \in Int
  BY ClampYaws, FieldsOf DEF Yaws
<1>3. Rotate(a, r) = At(Cos(a) * r.x - Sin(a) * r.y, Sin(a) * r.x + Cos(a) * r.y)
  BY <1>1, RotateIs
<1>4. Rotate(Clamp(a + b), v) =
        At(Cos(Clamp(a + b)) * v.x - Sin(Clamp(a + b)) * v.y,
           Sin(Clamp(a + b)) * v.x + Cos(Clamp(a + b)) * v.y)
  BY <1>2, RotateIs
<1>5. /\ Cos(Clamp(a + b)) * v.x - Sin(Clamp(a + b)) * v.y = Cos(a) * r.x - Sin(a) * r.y
      /\ Sin(Clamp(a + b)) * v.x + Cos(Clamp(a + b)) * v.y = Sin(a) * r.x + Cos(a) * r.y
  <2>1. /\ Cos(Clamp(a + b)) * v.x - Sin(Clamp(a + b)) * v.y
             = Cos(a) * (Cos(b) * v.x - Sin(b) * v.y) - Sin(a) * (Sin(b) * v.x + Cos(b) * v.y)
        /\ Sin(Clamp(a + b)) * v.x + Cos(Clamp(a + b)) * v.y
             = Sin(a) * (Cos(b) * v.x - Sin(b) * v.y) + Cos(a) * (Sin(b) * v.x + Cos(b) * v.y)
    BY <1>2, TurnTwice
  <2> HIDE DEF r
  <2> QED  BY <1>1, <2>1
<1> QED  BY <1>3, <1>4, <1>5

=============================================================================

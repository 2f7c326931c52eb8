------------------------- MODULE KalmanFilterProofs -------------------------
(***************************************************************************)
(* The types of KalmanFilter, and that its corrections stay between        *)
(* estimate and measurement, for every value of the constants.             *)
(***************************************************************************)
EXTENDS KalmanFilter, TLAPS

(***************************************************************************)
(* Division.                                                               *)
(***************************************************************************)

LEMMA Monotone ==
  ASSUME NEW c \in Nat, NEW a \in Int, NEW b \in Int, a >= b
  PROVE  c * a >= c * b
<1>1. a - b \in Nat
  OBVIOUS
<1>2. c * (a - b) \in Nat
  BY <1>1
<1>3. c * (a - b) = c * a - c * b
  OBVIOUS
<1> QED BY <1>2, <1>3

LEMMA Division ==
  ASSUME NEW x \in Nat, NEW c \in Nat \ {0}
  PROVE  x \div c \in Nat /\ c * (x \div c) <= x
<1>1. x \div c \in Int /\ c * (x \div c) <= x /\ x < c * (x \div c) + c
  OBVIOUS
<1>2. x \div c >= 0
  <2>1. SUFFICES ASSUME -1 >= x \div c PROVE FALSE
    BY <1>1
  <2>2. c * (-1) >= c * (x \div c)
    BY <1>1, <2>1, Monotone
  <2> QED BY <1>1, <2>2
<1> QED BY <1>1, <1>2

(* A share of a part is not more than the whole. *)
LEMMA ShareBounds ==
  ASSUME NEW a \in Int, NEW b \in Nat, NEW c \in Nat \ {0}, c >= b
  PROVE  Share(a, b, c) \in Nat /\ Share(a, b, c) <= Abs(a)
<1> DEFINE d == Abs(a)  x == d * b + c - 1  q == x \div c
<1>1. d \in Nat /\ d * b \in Nat /\ d * c \in Nat
  BY DEF Abs
<1>2. x \in Nat
  BY <1>1
<1>3. q \in Nat /\ c * q <= x
  BY <1>2, Division
<1>4. q <= d
  <2>1. SUFFICES ASSUME q >= d + 1 PROVE FALSE
    BY <1>1, <1>3
  <2>2. c * q >= c * (d + 1)
    BY <1>1, <1>3, <2>1, Monotone
  <2>3. c * (d + 1) = d * c + c
    BY <1>1
  <2>4. d * c >= d * b
    BY <1>1, Monotone
  <2>5. c * q <= d * b + c - 1 /\ c * q \in Int
    BY <1>3
  <2> HIDE DEF d, q
  <2> QED BY <1>1, <2>2, <2>3, <2>4, <2>5
<1> QED BY <1>3, <1>4 DEF Share

(* The UKF takes off no more than the spread of its points. *)
LEMMA ReductionBounds ==
  ASSUME NEW s \in Nat, NEW n \in Nat \ {0}
  PROVE  /\ (s * s * s) \div ((s + n) * (s + n)) \in Nat
         /\ (s * s * s) \div ((s + n) * (s + n)) <= s
<1> DEFINE x == s * s * s  c == (s + n) * (s + n)  q == x \div c
<1>1. c = s * s + (s * n + n * s + n * n)
  OBVIOUS
<1>2. s * s \in Nat /\ s * n \in Nat /\ n * s \in Nat /\ n * n \in Nat \ {0}
  OBVIOUS
<1>3. c \in Nat \ {0} /\ c >= s * s
  BY <1>1, <1>2
<1>4. x \in Nat
  BY <1>2
<1>5. q \in Nat /\ c * q <= x
  BY <1>3, <1>4, Division
<1>6. q <= s
  <2>1. SUFFICES ASSUME q >= s + 1 PROVE FALSE
    BY <1>5
  <2>2. c * q >= c * (s + 1)
    BY <1>3, <1>5, <2>1, Monotone
  <2>3. s * c >= s * (s * s)
    BY <1>2, <1>3, Monotone
  <2>4. s * c = c * s /\ s * (s * s) = x /\ c * (s + 1) = c * s + c
    BY <1>3
  <2>5. c * q \in Int /\ c * s \in Int
    BY <1>3, <1>5
  <2> HIDE DEF c, q, x
  <2> QED BY <1>3, <1>4, <1>5, <2>2, <2>3, <2>4, <2>5
<1> QED BY <1>5, <1>6

LEMMA NoiseIsPositive ==
  ASSUME NEW r \in Int  PROVE  Noise(r) \in Nat \ {0}
BY DEF Noise, Abs

(***************************************************************************)
(* Wrapping.                                                               *)
(***************************************************************************)

(* A wrapped angle is in range and differs by whole turns from the angle. *)
LEMMA WrapTurns ==
  ASSUME NEW a \in Int
  PROVE  Wrap(a) \in Angles /\ \E k \in Int : a = Wrap(a) + Turn * k
<1> DEFINE b == a % Turn  h == Turn \div 2
<1>1. Turn \in Nat \ {0}
  BY AngleAssumption
<1>2. b \in 0..(Turn - 1) /\ a = (Turn * (a \div Turn)) + b /\ a \div Turn \in Int
  BY <1>1
<1>3. h \in Int /\ 2 * h <= Turn /\ Turn <= 2 * h + 1
  BY <1>1
<1>4. Wrap(a) = IF b > h THEN b - Turn ELSE b
  BY DEF Wrap
<1>5. Wrap(a) \in Angles
  BY <1>1, <1>2, <1>3, <1>4 DEF Angles
<1>6. \E k \in Int : a = Wrap(a) + Turn * k
  <2>1. CASE b > h
    <3>1. Turn * (a \div Turn + 1) = Turn * (a \div Turn) + Turn
      BY <1>1, <1>2
    <3>2. a = Wrap(a) + Turn * (a \div Turn + 1)
      BY <1>1, <1>2, <1>4, <2>1, <3>1
    <3> QED BY <1>2, <3>2
  <2>2. CASE ~(b > h)
    <3>1. a = Wrap(a) + Turn * (a \div Turn)
      BY <1>1, <1>2, <1>4, <2>2
    <3> QED BY <1>2, <3>1
  <2> QED BY <2>1, <2>2
<1> QED BY <1>5, <1>6

LEMMA AnglesAreIntegers == Angles \subseteq Int
BY DEF Angles

LEMMA WrapInRange ==
  ASSUME NEW a \in Int  PROVE  Wrap(a) \in Angles /\ Wrap(a) \in Int
BY WrapTurns, AnglesAreIntegers

(* No two angles in range differ by whole turns. *)
LEMMA WrapUnique ==
  ASSUME NEW x \in Angles, NEW y \in Angles, NEW k \in Int, x = y + Turn * k
  PROVE  x = y
<1>1. Turn \in Nat \ {0} /\ x \in Int /\ y \in Int
  BY AngleAssumption DEF Angles
<1>2. x - y < Turn /\ -Turn < x - y
  BY <1>1 DEF Angles
<1>3. Turn * k < Turn /\ -Turn < Turn * k
  BY <1>1, <1>2
<1>4. k < 1
  <2>1. SUFFICES ASSUME k >= 1 PROVE FALSE
    OBVIOUS
  <2>2. Turn * k >= Turn * 1
    BY <1>1, <2>1, Monotone
  <2> QED BY <1>1, <1>3, <2>2
<1>5. k > -1
  <2>1. SUFFICES ASSUME -1 >= k PROVE FALSE
    OBVIOUS
  <2>2. Turn * (-1) >= Turn * k
    BY <1>1, <2>1, Monotone
  <2> QED BY <1>1, <1>3, <2>2
<1>6. k = 0
  BY <1>4, <1>5
<1> QED BY <1>1, <1>6


(* Turning by an angle in range and back measures that angle. *)
LEMMA WrapDifference ==
  ASSUME NEW y \in Int, NEW m \in Angles
  PROVE  Wrap(Wrap(y + m) - y) = m
<1>1. m \in Int
  BY DEF Angles
<1> DEFINE w == Wrap(y + m)  d == Wrap(w - y)
<1>2. w \in Angles /\ d \in Angles /\ w \in Int /\ d \in Int
  <2>1. w \in Angles /\ w \in Int
    BY <1>1, WrapInRange
  <2> QED BY <2>1, WrapInRange
<1>3. PICK i \in Int : y + m = w + Turn * i
  BY <1>1, WrapTurns
<1>4. PICK j \in Int : w - y = d + Turn * j
  BY <1>2, WrapTurns
<1>5. Turn * (i + j) = Turn * i + Turn * j
  BY AngleAssumption
<1>6. Turn * i \in Int /\ Turn * j \in Int
  BY AngleAssumption
<1>7. m = d + Turn * (i + j)
  BY <1>1, <1>2, <1>3, <1>4, <1>5, <1>6
<1> QED BY <1>2, <1>7, WrapUnique

(* Moving part of the way does not leave the range. *)
LEMMA PartOfTheWay ==
  ASSUME NEW i \in Angles, NEW m \in Nat, m <= Abs(i)
  PROVE  (IF i < 0 THEN -m ELSE m) \in Angles
BY AngleAssumption DEF Angles, Abs

(* An estimate moved by part of the innovation lies between. *)
LEMMA MoveStaysBetween ==
  ASSUME NEW y \in Angles, NEW z \in Angles, NEW m \in Nat, m <= Abs(Wrap(z - y))
  PROVE  LET i == Wrap(z - y)
             moved == Wrap(Wrap(IF i < 0 THEN y - m ELSE y + m) - y)
         IN Abs(moved) <= Abs(i) /\ moved * i >= 0
<1> DEFINE i == Wrap(z - y)
           step == IF i < 0 THEN -m ELSE m
           moved == Wrap(Wrap(IF i < 0 THEN y - m ELSE y + m) - y)
<1>1. y \in Int /\ z \in Int
  BY AnglesAreIntegers
<1>2. i \in Angles /\ i \in Int
  BY <1>1, WrapInRange
<1>3. step \in Angles
  BY <1>2, PartOfTheWay
<1>4. moved = step
  <2>1. (IF i < 0 THEN y - m ELSE y + m) = y + step
    BY <1>1, <1>2
  <2> QED BY <1>1, <1>3, <2>1, WrapDifference
<1>5. Abs(step) <= Abs(i)
  BY <1>2 DEF Abs
<1>6. step * i >= 0
  <2>1. CASE i < 0
    <3>1. m * (-i) \in Nat
      BY <1>2, <2>1
    <3>2. step * i = m * (-i)
      BY <1>2, <2>1
    <3> QED BY <3>1, <3>2
  <2>2. CASE ~(i < 0)
    BY <1>2, <2>2
  <2> QED BY <2>1, <2>2
<1> QED BY <1>4, <1>5, <1>6

(***************************************************************************)
(* The inductive invariant.                                                *)
(***************************************************************************)

PointsType == {Redraw} \cup [centre : Angles, spread : Int]

FilterType ==
  [initialized : BOOLEAN, yaw : Angles, variance : Int, lag : Nat,
   points : PointsType, overwritten : BOOLEAN]

(* The filter with some of its members changed. *)
LEMMA Changed ==
  ASSUME NEW f \in FilterType, NEW yaw \in Angles, NEW variance \in Int,
         NEW points \in PointsType, NEW overwritten \in BOOLEAN
  PROVE  /\ [f EXCEPT !.yaw = yaw, !.variance = variance,
                      !.points = points, !.overwritten = overwritten] \in FilterType
         /\ [f EXCEPT !.yaw = yaw, !.variance = variance, !.points = points] \in FilterType
BY DEF FilterType

LEMMA Overwritten ==
  ASSUME NEW f \in FilterType, NEW yaw \in Angles, NEW variance \in Int,
         NEW lag \in Nat, NEW overwritten \in BOOLEAN
  PROVE  [f EXCEPT !.yaw = yaw, !.variance = variance, !.lag = lag,
                   !.overwritten = overwritten] \in FilterType
BY DEF FilterType

(* Points that are kept belong to the state, unless the state was overwritten,
   and have no more spread than it has variance. *)
FilterInv(f) ==
  /\ f \in FilterType
  /\ f.variance <= MaxVariance
  /\ f.overwritten => kind = "ukf"
  /\ f.points # Redraw => kind = "ukf" /\ f.points.spread >= 0
  /\ f.points # Redraw \/ ~f.overwritten => f.variance >= 0
  /\ f.points # Redraw /\ ~f.overwritten =>
       f.points.centre = f.yaw /\ f.points.spread <= f.variance

Inv ==
  /\ kind \in {"ekf", "ukf"} /\ robot \in Angles
  /\ setPoseAge \in 0..(MaxAge + 1) /\ mishaps \in 0..MaxMishaps
  /\ FilterInv(filter)

LEMMA ClaimedNoise ==
  ASSUME NEW r \in Covariances
  PROVE  r \in Int /\ Noise(r) \in 1..MaxVariance
BY NoiseAssumption DEF Noise, Abs

LEMMA CorrectedBounds ==
  ASSUME NEW v \in Nat, NEW s \in Nat, NEW n \in Nat \ {0}
  PROVE  /\ Corrected(v, s, n) \in Int /\ Corrected(v, s, n) <= v
         /\ kind = "ekf" \/ s <= v => Corrected(v, s, n) >= 0
<1>1. CASE kind = "ekf"
  <2>1. v + n \in Nat \ {0} /\ v + n >= n
    OBVIOUS
  <2>2. Share(v, n, v + n) \in Nat /\ Share(v, n, v + n) <= Abs(v)
    BY <2>1, ShareBounds
  <2> QED BY <1>1, <2>2 DEF Corrected, Abs
<1>2. CASE kind # "ekf"
  <2> DEFINE less == (s * s * s) \div ((s + n) * (s + n))
  <2>1. less \in Nat /\ less <= s
    BY ReductionBounds
  <2>2. Corrected(v, s, n) = v - less
    BY <1>2 DEF Corrected
  <2> HIDE DEF less
  <2> QED BY <1>2, <2>1, <2>2
<1> QED BY <1>1, <1>2

(* A prediction of a filter whose variance is not negative. *)
LEMMA PredictKeepsInv ==
  ASSUME NEW f, FilterInv(f), f.variance >= 0, NEW delta \in Nat,
         kind \in {"ekf", "ukf"}
  PROVE  FilterInv(Predict(f, delta)) /\ Predict(f, delta).variance >= 0
<1> DEFINE yaw == Wrap(f.yaw + Rate * delta)
           variance == AtMost(f.variance + ProcessNoise * delta, MaxVariance)
           points == IF kind = "ukf"
                     THEN [centre |-> yaw, spread |-> f.variance] ELSE Redraw
           g == Predict(f, delta)
<1>1. f \in FilterType /\ f.variance \in Nat /\ f.variance <= MaxVariance
  BY DEF FilterInv, FilterType
<1>2. yaw \in Angles /\ yaw \in Int
  <2>1. f.yaw \in Angles
    BY <1>1 DEF FilterType
  <2>2. f.yaw \in Int
    BY <2>1, AnglesAreIntegers
  <2>3. Rate * delta \in Int
    BY AngleAssumption
  <2> QED BY <2>2, <2>3, WrapInRange
<1>3. variance \in Nat /\ f.variance <= variance /\ variance <= MaxVariance
  <2>1. ProcessNoise * delta \in Nat
    BY NoiseAssumption
  <2> QED BY <1>1, <2>1, NoiseAssumption DEF AtMost
<1>4. points \in PointsType
  BY <1>1, <1>2 DEF PointsType
<1>5. g = [f EXCEPT !.yaw = yaw, !.variance = variance, !.points = points,
                   !.overwritten = f.overwritten /\ f.points = Redraw]
  BY DEF Predict, Projected
<1>6. g \in FilterType
  <2> HIDE DEF yaw, variance, points, g
  <2>1. (f.overwritten /\ f.points = Redraw) \in BOOLEAN
    OBVIOUS
  <2>2. variance \in Int
    BY <1>3
  <2> QED BY <1>1, <1>2, <1>4, <1>5, <2>1, <2>2, Changed
<1>7. /\ g.yaw = yaw /\ g.variance = variance /\ g.points = points
      /\ g.overwritten <=> f.overwritten /\ f.points = Redraw
  <2> HIDE DEF yaw, variance, points, g
  <2> QED BY <1>1, <1>5 DEF FilterType
<1>8. kind = "ukf" => points.centre = yaw /\ points.spread = f.variance
  OBVIOUS
<1>9. kind # "ukf" => points = Redraw
  OBVIOUS
<1> HIDE DEF yaw, variance, points, g
<1>10. FilterInv(g)
  <2>1. g.variance <= MaxVariance /\ g.variance >= 0
    BY <1>3, <1>7
  <2>2. g.overwritten => kind = "ukf"
    BY <1>7 DEF FilterInv
  <2>3. g.points # Redraw => kind = "ukf" /\ g.points.spread >= 0
    BY <1>1, <1>7, <1>8, <1>9
  <2>4. g.points # Redraw =>
          g.points.centre = g.yaw /\ g.points.spread <= g.variance
    BY <1>3, <1>7, <1>8, <1>9
  <2> QED BY <1>6, <2>1, <2>2, <2>3, <2>4 DEF FilterInv
<1> QED BY <1>3, <1>7, <1>10 DEF g

(* A correction with points of the state, or with points that were kept when
   the state was overwritten. *)
LEMMA CorrectKeepsInv ==
  ASSUME NEW f, FilterInv(f), f.variance >= 0, kind \in {"ekf", "ukf"},
         NEW z \in Angles \cup {NaN}, NEW r \in Covariances
  PROVE  FilterInv(Correct(f, z, r))
<1> DEFINE p == IF f.points = Redraw
                THEN [centre |-> f.yaw, spread |-> f.variance] ELSE f.points
           innovation == Wrap(z - p.centre)
           n == Noise(r)
           move == Share(innovation, p.spread, p.spread + n)
           yaw == Wrap(IF innovation < 0 THEN f.yaw - move ELSE f.yaw + move)
           variance == Corrected(f.variance, p.spread, n)
           g == Correct(f, z, r)
<1>1. /\ f \in FilterType /\ f.variance \in Nat /\ f.variance <= MaxVariance
      /\ f.yaw \in Angles /\ f.yaw \in Int
  <2>1. f \in FilterType /\ f.variance <= MaxVariance
    BY DEF FilterInv
  <2>2. f.yaw \in Angles /\ f.variance \in Int
    BY <2>1 DEF FilterType
  <2>3. f.yaw \in Int
    BY <2>2, AnglesAreIntegers
  <2>4. f.variance \in Nat
    BY <2>2
  <2> QED BY <2>1, <2>2, <2>3, <2>4
<1>2. p.centre \in Angles /\ p.centre \in Int /\ p.spread \in Nat
  <2>1. CASE f.points = Redraw
    BY <1>1, <2>1
  <2>2. CASE f.points # Redraw
    <3>1. f.points \in [centre : Angles, spread : Int]
      BY <1>1, <2>2 DEF FilterType, PointsType
    <3>2. f.points.spread >= 0
      BY <2>2 DEF FilterInv
    <3> QED BY <2>2, <3>1, <3>2, AnglesAreIntegers
  <2> QED BY <2>1, <2>2
<1>3. n \in Nat \ {0}
  BY ClaimedNoise, NoiseAssumption
<1>4. CASE z = NaN
  <2>1. g = [DropPoints(f) EXCEPT !.overwritten = FALSE]
    BY <1>4 DEF Correct, CorrectWith
  <2>2. g = [f EXCEPT !.yaw = f.yaw, !.variance = f.variance, !.points = Redraw,
                     !.overwritten = FALSE]
    BY <1>1, <2>1 DEF DropPoints, FilterType
  <2>3. g \in FilterType
    <3>1. Redraw \in PointsType /\ FALSE \in BOOLEAN /\ f.variance \in Int
      BY <1>1 DEF PointsType
    <3> HIDE DEF g
    <3> QED BY <1>1, <2>2, <3>1, Changed
  <2>4. g.variance = f.variance /\ g.points = Redraw /\ ~g.overwritten
    BY <1>1, <2>2 DEF FilterType
  <2> HIDE DEF g
  <2>5. FilterInv(g)
    BY <1>1, <2>3, <2>4 DEF FilterInv
  <2> QED BY <2>5 DEF g
<1>5. CASE z # NaN /\ ~Accepts(innovation, p.spread, n)
  BY <1>5 DEF Correct, CorrectWith
<1>6. CASE z # NaN /\ Accepts(innovation, p.spread, n)
  <2>1. g = [DropPoints(f) EXCEPT !.yaw = yaw, !.variance = variance]
    BY <1>1, <1>6 DEF Correct, CorrectWith, DropPoints, FilterType
  <2>2. g = [f EXCEPT !.yaw = yaw, !.variance = variance, !.points = Redraw]
    BY <1>1, <2>1 DEF DropPoints, FilterType
  <2>3. yaw \in Angles
    <3>1. z \in Int
      BY <1>6, AnglesAreIntegers
    <3>2. innovation \in Int
      BY <1>2, <3>1, WrapInRange
    <3>3. p.spread + n \in Nat \ {0} /\ p.spread + n >= p.spread
      BY <1>2, <1>3
    <3>4. move \in Nat
      <4> HIDE DEF p, innovation, n
      <4> QED BY <1>2, <3>2, <3>3, ShareBounds
    <3>5. f.yaw - move \in Int /\ f.yaw + move \in Int
      <4> HIDE DEF move
      <4> QED BY <1>1, <3>4
    <3> QED BY <3>5, WrapInRange
  <2>4. /\ variance \in Int /\ variance <= f.variance
        /\ kind = "ekf" \/ p.spread <= f.variance => variance >= 0
    <3> HIDE DEF p, n
    <3> QED BY <1>1, <1>2, <1>3, CorrectedBounds
  <2>5. f.overwritten \/ kind = "ekf" \/ p.spread <= f.variance
    <3>1. CASE f.points = Redraw
      BY <1>1, <3>1
    <3>2. CASE f.points # Redraw
      BY <3>2 DEF FilterInv
    <3> QED BY <3>1, <3>2
  <2>6. g \in FilterType
    <3>1. Redraw \in PointsType
      BY DEF PointsType
    <3> HIDE DEF g, yaw, variance
    <3> QED BY <1>1, <2>2, <2>3, <2>4, <3>1, Changed
  <2>7. g.variance = variance /\ g.points = Redraw /\ g.overwritten = f.overwritten
    <3> HIDE DEF g, yaw, variance
    <3> QED BY <1>1, <2>2 DEF FilterType
  <2>8. f.overwritten => kind = "ukf"
    BY DEF FilterInv
  <2> HIDE DEF g, p, variance
  <2>9. g.variance <= MaxVariance
    BY <1>1, <2>4, <2>7, NoiseAssumption
  <2>10. ~g.overwritten => g.variance >= 0
    BY <2>4, <2>5, <2>7
  <2>11. FilterInv(g)
    BY <2>6, <2>7, <2>8, <2>9, <2>10 DEF FilterInv
  <2> QED BY <2>11 DEF g
<1> QED BY <1>4, <1>5, <1>6

(* A correction with points of the state. *)
LEMMA CorrectStaysBetween ==
  ASSUME NEW f, FilterInv(f), ~f.overwritten, kind \in {"ekf", "ukf"},
         NEW z \in Angles, NEW r \in Covariances
  PROVE  LET after == Correct(f, z, r)
             whole == Wrap(z - f.yaw)
             moved == Wrap(after.yaw - f.yaw)
         IN /\ Abs(moved) <= Abs(whole) /\ moved * whole >= 0
            /\ 0 <= after.variance /\ after.variance <= f.variance
<1> DEFINE p == IF f.points = Redraw
                THEN [centre |-> f.yaw, spread |-> f.variance] ELSE f.points
           whole == Wrap(z - f.yaw)
           n == Noise(r)
           move == Share(whole, p.spread, p.spread + n)
           yaw == Wrap(IF whole < 0 THEN f.yaw - move ELSE f.yaw + move)
           variance == Corrected(f.variance, p.spread, n)
           g == Correct(f, z, r)
<1>1. /\ f \in FilterType /\ f.variance \in Nat
      /\ f.yaw \in Angles /\ f.yaw \in Int /\ z \in Int /\ z # NaN
  <2>1. f \in FilterType /\ f.variance >= 0
    BY DEF FilterInv
  <2>2. f.yaw \in Angles /\ f.variance \in Int
    BY <2>1 DEF FilterType
  <2>3. f.yaw \in Int /\ z \in Int
    BY <2>2, AnglesAreIntegers
  <2>4. f.variance \in Nat
    BY <2>1, <2>2
  <2> QED BY <2>1, <2>2, <2>3, <2>4, ValueAssumption
<1>2. p.centre = f.yaw /\ p.spread \in Nat /\ p.spread <= f.variance
  <2>1. CASE f.points = Redraw
    BY <1>1, <2>1
  <2>2. CASE f.points # Redraw
    <3>1. f.points \in [centre : Angles, spread : Int]
      BY <1>1, <2>2 DEF FilterType, PointsType
    <3>2. /\ f.points.spread >= 0 /\ f.points.centre = f.yaw
          /\ f.points.spread <= f.variance
      BY <2>2 DEF FilterInv
    <3> QED BY <2>2, <3>1, <3>2
  <2> QED BY <2>1, <2>2
<1>3. n \in Nat \ {0}
  BY ClaimedNoise, NoiseAssumption
<1>4. whole \in Int
  BY <1>1, WrapInRange
<1>5. CASE ~Accepts(whole, p.spread, n)
  <2>1. g = f
    BY <1>1, <1>2, <1>5 DEF Correct, CorrectWith
  <2>2. Wrap(f.yaw - f.yaw) = 0
    <3>1. f.yaw - f.yaw = 0 /\ 0 \in Angles
      BY <1>1, AngleAssumption DEF Angles
    <3>2. PICK k \in Int : 0 = Wrap(0) + Turn * k
      BY WrapTurns
    <3>3. Wrap(0) \in Angles
      BY WrapTurns
    <3> QED BY <3>1, <3>2, <3>3, WrapUnique
  <2>3. Abs(0) <= Abs(whole) /\ 0 * whole >= 0
    BY <1>4 DEF Abs
  <2> HIDE DEF g, whole
  <2> QED BY <1>1, <2>1, <2>2, <2>3 DEF g, whole
<1>6. CASE Accepts(whole, p.spread, n)
  <2>1. g = [DropPoints(f) EXCEPT !.yaw = yaw, !.variance = variance]
    BY <1>1, <1>2, <1>6 DEF Correct, CorrectWith, DropPoints, FilterType
  <2>2. g.yaw = yaw /\ g.variance = variance
    <3> HIDE DEF g, yaw, variance
    <3> QED BY <1>1, <2>1 DEF DropPoints, FilterType
  <2>3. move \in Nat /\ move <= Abs(whole)
    <3>1. p.spread + n \in Nat \ {0} /\ p.spread + n >= p.spread
      BY <1>2, <1>3
    <3> HIDE DEF p, n, whole
    <3> QED BY <1>2, <1>4, <3>1, ShareBounds
  <2>4. variance \in Int /\ variance <= f.variance /\ variance >= 0
    <3> HIDE DEF p, n
    <3> QED BY <1>1, <1>2, <1>3, CorrectedBounds
  <2>5. Abs(Wrap(yaw - f.yaw)) <= Abs(whole) /\ Wrap(yaw - f.yaw) * whole >= 0
    <3> HIDE DEF move
    <3> QED BY <1>1, <2>3, MoveStaysBetween
  <2> HIDE DEF g, whole, yaw, variance
  <2> QED BY <2>2, <2>4, <2>5 DEF g, whole
<1> QED BY <1>5, <1>6

LEMMA OverwriteKeepsInv ==
  ASSUME NEW f, FilterInv(f), kind \in {"ekf", "ukf"}, NEW yaw \in Angles,
         NEW variance \in 0..MaxVariance, NEW lag \in Nat
  PROVE  /\ FilterInv(Overwrite(f, yaw, variance, lag))
         /\ Overwrite(f, yaw, variance, lag).variance >= 0
         /\ Overwrite(f, yaw, variance, lag).initialized = f.initialized
<1> DEFINE g == Overwrite(f, yaw, variance, lag)
<1>1. f \in FilterType /\ variance \in Nat /\ variance \in Int /\ variance <= MaxVariance
  BY NoiseAssumption DEF FilterInv
<1>2. g = [f EXCEPT !.yaw = yaw, !.variance = variance, !.lag = lag,
                   !.overwritten = (f.points # Redraw)]
  BY DEF Overwrite
<1>3. (f.points # Redraw) \in BOOLEAN
  OBVIOUS
<1> HIDE DEF g
<1>4. g \in FilterType
  <2> DEFINE other == (f.points # Redraw)
  <2>1. other \in BOOLEAN
    BY <1>3
  <2>2. g = [f EXCEPT !.yaw = yaw, !.variance = variance, !.lag = lag,
                     !.overwritten = other]
    BY <1>2
  <2> HIDE DEF other
  <2> QED BY <1>1, <2>1, <2>2, Overwritten
<1>5. /\ g.variance = variance /\ g.points = f.points
      /\ g.initialized = f.initialized
      /\ g.overwritten <=> f.points # Redraw
  BY <1>1, <1>2 DEF FilterType
<1>6. f.points # Redraw => kind = "ukf" /\ f.points.spread >= 0
  BY DEF FilterInv
<1>7. FilterInv(g)
  BY <1>1, <1>4, <1>5, <1>6 DEF FilterInv
<1> QED BY <1>1, <1>5, <1>7 DEF g

(* Neither the lag nor being initialised matters to the invariant. *)
LEMMA LagKeepsInv ==
  ASSUME NEW f, FilterInv(f), NEW lag \in Nat
  PROVE  /\ FilterInv([f EXCEPT !.lag = lag])
         /\ FilterInv([f EXCEPT !.initialized = TRUE])
<1>1. f \in FilterType
  BY DEF FilterInv
<1>2. [f EXCEPT !.lag = lag] \in FilterType /\ [f EXCEPT !.initialized = TRUE] \in FilterType
  BY <1>1 DEF FilterType
<1> DEFINE g == [f EXCEPT !.lag = lag]  h == [f EXCEPT !.initialized = TRUE]
<1>3. /\ g.yaw = f.yaw /\ g.variance = f.variance /\ g.points = f.points
      /\ g.overwritten = f.overwritten
  BY <1>1 DEF FilterType
<1>4. /\ h.yaw = f.yaw /\ h.variance = f.variance /\ h.points = f.points
      /\ h.overwritten = f.overwritten
  BY <1>1 DEF FilterType
<1> HIDE DEF g, h
<1>5. FilterInv(g)
  BY <1>2, <1>3 DEF FilterInv, g
<1>6. FilterInv(h)
  BY <1>2, <1>4 DEF FilterInv, h
<1> QED BY <1>5, <1>6 DEF g, h

LEMMA PredictedForKeepsInv ==
  ASSUME NEW f, FilterInv(f), f.variance >= 0, kind \in {"ekf", "ukf"}, NEW age \in Nat
  PROVE  FilterInv(PredictedFor(f, age)) /\ PredictedFor(f, age).variance >= 0
<1>1. CASE f.lag > age
  <2>1. f.lag - age \in Nat
    BY <1>1 DEF FilterInv, FilterType
  <2> QED BY <1>1, <2>1, PredictKeepsInv DEF PredictedFor
<1>2. CASE ~(f.lag > age)
  BY <1>2 DEF PredictedFor
<1> QED BY <1>1, <1>2

LEMMA ProcessMeasurementKeepsInv ==
  ASSUME NEW f, FilterInv(f), f.variance >= 0, kind \in {"ekf", "ukf"},
         NEW age \in Nat, NEW z \in Angles \cup {NaN}, NEW r \in Covariances,
         f.initialized \/ (z # NaN /\ r \in Nat)
  PROVE  FilterInv(ProcessMeasurement(f, age, z, r))
<1>1. CASE f.initialized
  <2> DEFINE g == Correct(PredictedFor(f, age), z, r)
  <2>1. FilterInv(g)
    BY PredictedForKeepsInv, CorrectKeepsInv
  <2>2. ProcessMeasurement(f, age, z, r) = [g EXCEPT !.lag = AtMost(g.lag, age)]
    BY <1>1 DEF ProcessMeasurement
  <2> HIDE DEF g
  <2>3. AtMost(g.lag, age) \in Nat
    BY <2>1 DEF FilterInv, FilterType, AtMost
  <2> QED BY <2>1, <2>2, <2>3, LagKeepsInv
<1>2. CASE ~f.initialized
  <2> DEFINE g == Overwrite(f, z, r, age)
  <2>1. z \in Angles /\ r \in 0..MaxVariance
    BY <1>2, NoiseAssumption
  <2>2. FilterInv(g)
    BY <2>1, OverwriteKeepsInv
  <2>3. ProcessMeasurement(f, age, z, r) = [g EXCEPT !.initialized = TRUE]
    BY <1>2 DEF ProcessMeasurement
  <2> HIDE DEF g
  <2>4. 0 \in Nat
    OBVIOUS
  <2> QED BY <2>2, <2>3, <2>4, LagKeepsInv
<1> QED BY <1>1, <1>2

(***************************************************************************)
(* The theorems.                                                           *)
(***************************************************************************)

LEMMA InitInv == Init => Inv
<1> SUFFICES ASSUME Init PROVE Inv
  OBVIOUS
<1>1. 0 \in Angles /\ 0 \in Nat /\ 1 \in Int /\ 1 <= MaxVariance
  BY AngleAssumption, NoiseAssumption DEF Angles
<1>2. filter \in FilterType
  <2>1. filter.points \in PointsType
    BY <1>1 DEF Init, PointsType
  <2> QED BY <1>1, <2>1 DEF Init, FilterType
<1>3. FilterInv(filter)
  BY <1>1, <1>2 DEF Init, FilterInv
<1> QED BY <1>3, BoundAssumption DEF Init, Inv

LEMMA ReportsAreAngles ==
  ASSUME robot \in Angles, NEW age \in Nat
  PROVE  Reports(age) \subseteq Angles
<1> SUFFICES ASSUME NEW d \in Deviations PROVE Wrap(robot - Rate * age + d) \in Angles
  BY DEF Reports
<1>1. robot \in Int /\ d \in Int
  BY AnglesAreIntegers, AngleAssumption
<1>2. Rate * age \in Int
  BY AngleAssumption
<1> QED BY <1>1, <1>2, WrapInRange

LEMMA MeasureKeepsInv ==
  ASSUME Inv, NEW age \in Nat, NEW z \in Angles \cup {NaN}, NEW r \in Covariances,
         Measure(age, z, r)
  PROVE  FilterInv(filter)' /\ UNCHANGED <<kind, robot, setPoseAge>>
<1>1. filter.variance >= 0
  BY DEF Measure, Broken, Inv, FilterInv, FilterType
<1>2. FilterInv(ProcessMeasurement(filter, age, z, r))
  BY <1>1, ProcessMeasurementKeepsInv DEF Inv, Measure
<1> QED BY <1>2 DEF Measure, FilterInv

LEMMA NextInv == Inv /\ [Next]_vars => Inv'
<1> SUFFICES ASSUME Inv, [Next]_vars PROVE Inv'
  OBVIOUS
<1> USE DEF Inv
<1>1. 0..MaxAge \subseteq Nat /\ 0..MaxLag \subseteq Nat
  BY BoundAssumption
<1>2. CASE Tick
  <2>1. robot' \in Angles
    <3>1. robot + Rate \in Int
      BY AnglesAreIntegers, AngleAssumption
    <3> QED BY <1>2, <3>1, WrapInRange DEF Tick
  <2>2. setPoseAge' \in 0..(MaxAge + 1)
    BY <1>2, BoundAssumption DEF Tick, AtMost
  <2>3. FilterInv(filter)'
    <3>1. filter.lag \in Nat /\ filter.lag + 1 \in Nat
      BY DEF FilterInv, FilterType
    <3> DEFINE lag == IF filter.initialized THEN filter.lag + 1 ELSE filter.lag
    <3>2. lag \in Nat /\ filter' = [filter EXCEPT !.lag = lag]
      BY <1>2, <3>1 DEF Tick
    <3> HIDE DEF lag
    <3>3. FilterInv([filter EXCEPT !.lag = lag])
      BY <3>2, LagKeepsInv
    <3> QED BY <1>2, <3>2, <3>3 DEF FilterInv, Tick
  <2> QED BY <1>2, <2>1, <2>2, <2>3 DEF Tick
<1>3. CASE TimerPredicts
  <2>1. filter.lag \in Nat /\ filter.variance >= 0
    BY <1>3 DEF TimerPredicts, Broken, FilterInv, FilterType
  <2>2. FilterInv(Predict(filter, filter.lag))
    BY <2>1, PredictKeepsInv
  <2>3. FilterInv([Predict(filter, filter.lag) EXCEPT !.lag = 0])
    BY <2>2, LagKeepsInv
  <2>4. FilterInv(filter)'
    BY <1>3, <2>3 DEF TimerPredicts, FilterInv
  <2> QED BY <1>3, <2>4 DEF TimerPredicts
<1>4. ASSUME NEW age \in 0..MaxAge, SoundMeasurement(age) PROVE Inv'
  <2>1. PICK z \in Reports(age), r \in Covariances : Measure(age, z, r)
    BY <1>4 DEF SoundMeasurement
  <2>2. z \in Angles
    BY <1>1, ReportsAreAngles
  <2>3. FilterInv(filter)' /\ UNCHANGED <<kind, robot, setPoseAge>>
    BY <1>1, <2>1, <2>2, MeasureKeepsInv
  <2> QED BY <1>4, <2>3 DEF SoundMeasurement
<1>5. CASE Mishap
  <2>1. mishaps' \in 0..MaxMishaps
    BY <1>5, BoundAssumption DEF Mishap
  <2>2. PICK r \in Covariances, age \in 0..MaxAge :
          \/ Measure(age, NaN, r)
          \/ \E yaw \in Angles :
               \/ Measure(age, yaw, r)
               \/ SetPose(yaw, Noise(r), age)
               \/ \E lag \in 0..MaxLag, z \in Reports(age) :
                    Replay(yaw, Noise(r), lag, age, z, r)
    BY <1>5 DEF Mishap
  <2>3. Noise(r) \in 0..MaxVariance /\ r \in Int
    BY ClaimedNoise, NoiseAssumption
  <2>4. CASE Measure(age, NaN, r)
    BY <1>1, <2>1, <2>4, MeasureKeepsInv
  <2>5. ASSUME NEW yaw \in Angles, Measure(age, yaw, r) PROVE Inv'
    BY <1>1, <2>1, <2>5, MeasureKeepsInv
  <2>6. ASSUME NEW yaw \in Angles, SetPose(yaw, Noise(r), age) PROVE Inv'
    <3>1. FilterInv(Overwrite(filter, yaw, Noise(r), 0))
      BY <2>3, OverwriteKeepsInv
    <3>2. FilterInv(filter)'
      BY <2>6, <3>1 DEF SetPose, FilterInv
    <3>3. setPoseAge' \in 0..(MaxAge + 1)
      BY <2>6, BoundAssumption DEF SetPose
    <3> QED BY <2>1, <2>6, <3>2, <3>3 DEF SetPose
  <2>7. ASSUME NEW yaw \in Angles, NEW lag \in 0..MaxLag, NEW z \in Reports(age),
               Replay(yaw, Noise(r), lag, age, z, r)
        PROVE  Inv'
    <3> DEFINE g == Overwrite(filter, yaw, Noise(r), lag)
    <3>1. z \in Angles
      BY <1>1, ReportsAreAngles
    <3>2. FilterInv(g) /\ g.variance >= 0 /\ g.initialized
      BY <1>1, <2>3, <2>7, OverwriteKeepsInv DEF Replay
    <3>3. FilterInv(ProcessMeasurement(g, age, z, r))
      <4> HIDE DEF g
      <4> QED BY <1>1, <3>1, <3>2, ProcessMeasurementKeepsInv
    <3>4. FilterInv(filter)'
      BY <2>7, <3>3 DEF Replay, FilterInv
    <3> QED BY <2>1, <2>7, <3>4 DEF Replay
  <2> QED BY <2>2, <2>4, <2>5, <2>6, <2>7
<1>6. CASE UNCHANGED vars
  BY <1>6 DEF vars, FilterInv
<1> QED BY <1>2, <1>3, <1>4, <1>5, <1>6 DEF Next

LEMMA Invariance == Spec => []Inv
BY InitInv, NextInv, PTL DEF Spec

(* Every member keeps its type, and angles stay wrapped. *)
THEOREM KalmanTypeCorrect == Spec => []TypeOK
<1>1. Inv => TypeOK
  BY DEF Inv, FilterInv, FilterType, TypeOK
<1> QED BY <1>1, Invariance, PTL

(* As long as no state was put in the place of the one that the UKF's points
   were drawn from, a correction moves the estimate towards what was measured,
   the short way and not past it, and the variance does not grow and does not
   become negative (ekf.cpp and ukf.cpp, correct). *)
THEOREM CorrectionsAreSound == Spec => []CorrectionsStayBetween
<1>1. Inv => CorrectionsStayBetween
  <2> SUFFICES ASSUME Inv, NEW age \in 0..MaxAge, NEW z \in Angles, NEW r \in Covariances,
                      ~PredictedFor(filter, age).overwritten
               PROVE  LET before == PredictedFor(filter, age)
                          after == Correct(before, z, r)
                          whole == Wrap(z - before.yaw)
                          moved == Wrap(after.yaw - before.yaw)
                      IN /\ Abs(moved) <= Abs(whole) /\ moved * whole >= 0
                         /\ 0 <= after.variance /\ after.variance <= before.variance
    BY DEF CorrectionsStayBetween
  <2> DEFINE before == PredictedFor(filter, age)
  <2>1. filter.variance >= 0
    <3>1. CASE filter.points = Redraw /\ filter.overwritten
      <4>1. before.overwritten
        BY <3>1 DEF PredictedFor, Predict, Projected, Inv, FilterInv, FilterType
      <4> QED BY <4>1
    <3>2. CASE ~(filter.points = Redraw /\ filter.overwritten)
      BY <3>2 DEF Inv, FilterInv
    <3> QED BY <3>1, <3>2
  <2>2. FilterInv(before)
    BY <2>1, BoundAssumption, PredictedForKeepsInv DEF Inv
  <2> HIDE DEF before
  <2> QED BY <2>2, CorrectStaysBetween DEF Inv, before
<1> QED BY <1>1, Invariance, PTL

=============================================================================

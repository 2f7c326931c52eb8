---------------------------- MODULE KalmanFilter ----------------------------
(***************************************************************************)
(* The two recursive filters behind FilterBase (ekf.cpp, ukf.cpp), for one *)
(* measured member of the state that is an angle: the yaw, turning at a    *)
(* known rate.  Angles are whole units of which a full turn has Turn,      *)
(* variances whole squares of a unit; a fraction of a unit counts as one.  *)
(* Correlation with other members is left out.                             *)
(*                                                                         *)
(* The sigma points of the UKF lie symmetrically about a centre, with      *)
(* weights for which their mean is the centre and their variance the       *)
(* spread they were drawn with, so these two stand for them.               *)
(***************************************************************************)
EXTENDS Integers

CONSTANTS
  Turn,          \* units in a full turn
  Rate,          \* units the robot turns in one unit of time (Vyaw)
  ProcessNoise,  \* process_noise_covariance_, per unit of time
  Gate,          \* mahalanobis_thresh_, n sigmas
  Deviations,    \* errors of a sound measurement
  Covariances,   \* variances that measurements claim
  MaxAge,        \* age of the oldest measurement that arrives
  MaxLag,        \* bound: the filter's time behind the clock
  MaxVariance,   \* bound: the variance, which a prediction makes grow
  MaxMishaps,    \* bound: set_pose, replays and outliers
  NaN,           \* a measured value that is no number
  Redraw         \* sigma points that the next correction draws anew

ASSUME AngleAssumption == Turn \in Nat \ {0} /\ Rate \in Int /\ Deviations \subseteq Int

ASSUME NoiseAssumption ==
  /\ ProcessNoise \in Nat /\ Gate \in Nat \ {0}  \* a gate of zero lets nothing in
  /\ MaxVariance \in Nat \ {0} /\ Covariances \subseteq (-MaxVariance)..MaxVariance

ASSUME BoundAssumption == MaxAge \in Nat /\ MaxLag \in Nat /\ MaxMishaps \in Nat

ASSUME ValueAssumption ==
  NaN \notin Int /\ Redraw \notin [centre : Int, spread : Int]

VARIABLES
  kind,        \* which of the two filters the node runs
  filter,      \* its members
  robot,       \* the robot's true yaw now
  setPoseAge,  \* now - last_set_pose_time_; older than anything if never set
  mishaps

vars == <<kind, filter, robot, setPoseAge, mishaps>>

(* Plausible bugs, for the mutants. *)
AcceptsByNoise(innovation, spread, noise) ==  \* the state's own uncertainty forgotten
  innovation * innovation < Gate * Gate * noise
KeepsPoints(f) == f  \* uncorrected_ stays as it is

-----------------------------------------------------------------------------
(* angles::normalize_angle, clampRotation: from just above minus half a turn
   to half a turn. *)
Wrap(a) == LET b == a % Turn IN IF b > Turn \div 2 THEN b - Turn ELSE b
Angles == {a \in (-Turn)..Turn : -Turn < 2 * a /\ 2 * a <= Turn}

Abs(a) == IF a < 0 THEN -a ELSE a
AtMost(a, bound) == IF a > bound THEN bound ELSE a

(* A variance that is negative is taken for its absolute value, one of zero
   for the least there is; 1 stands for 1e-9. *)
Noise(r) == IF r = 0 THEN 1 ELSE Abs(r)

(* a * b / c, for c > 0, a fraction counting as a whole. *)
Share(a, b, c) == (Abs(a) * b + c - 1) \div c

(* checkMahalanobisThreshold *)
Accepts(innovation, spread, noise) ==
  innovation * innovation < Gate * Gate * (spread + noise)

(* What is known after a correction: the Joseph form for the EKF, which for
   one member is P R / (P + R), and P - K P_zz K' for the UKF, where P_zz is
   the spread of the sigma points without the measurement's noise. *)
Corrected(variance, spread, noise) ==
  IF kind = "ekf"
  THEN Share(variance, noise, variance + noise)
  ELSE variance - (spread * spread * spread) \div ((spread + noise) * (spread + noise))

(* uncorrected_ = false: the sigma points used now will not do again. *)
DropPoints(f) == [f EXCEPT !.points = Redraw]

(* Ekf::correct, and Ukf::correct once it has its sigma points p.  Without a
   number nothing is measured, and the empty correction succeeds. *)
CorrectWith(p, f, z, r) ==
  LET innovation == Wrap(z - p.centre)
      noise == Noise(r)
      move == Share(innovation, p.spread, p.spread + noise)
  IN IF z = NaN THEN [DropPoints(f) EXCEPT !.overwritten = FALSE]
     ELSE IF ~Accepts(innovation, p.spread, noise) THEN f
     ELSE [DropPoints(f) EXCEPT
             !.yaw = Wrap(IF innovation < 0 THEN @ - move ELSE @ + move),
             !.variance = Corrected(@, p.spread, noise)]

(* The UKF draws its points from the state only if it has corrected since
   the last prediction; the EKF always works with its state. *)
Correct(f, z, r) ==
  CorrectWith(IF f.points = Redraw THEN [centre |-> f.yaw, spread |-> f.variance]
              ELSE f.points, f, z, r)

(* Ekf::predict, and what Ukf::predict makes of state and covariance. *)
Projected(f, delta) ==
  [f EXCEPT !.yaw = Wrap(@ + Rate * delta),
            !.variance = AtMost(@ + ProcessNoise * delta, MaxVariance)]

(* The points of Ukf::predict are those of the state before the process noise
   is added.  After a correction with points of another state overwritten
   stays. *)
Predict(f, delta) ==
  LET g == Projected(f, delta)
  IN [g EXCEPT !.points = IF kind = "ukf"
                          THEN [centre |-> g.yaw, spread |-> f.variance] ELSE Redraw,
               !.overwritten = @ /\ f.points = Redraw]

(* setState, setEstimateErrorCovariance, setLastMeasurementTime; the sigma
   points stay.  overwritten records that they may not be those of the state,
   and influences nothing. *)
Overwrite(f, yaw, variance, lag) ==
  [f EXCEPT !.yaw = yaw, !.variance = variance, !.lag = lag,
            !.overwritten = f.points # Redraw]

(* The filter when a measurement of that age is about to correct it: one
   older than the filter's own time is not predicted for. *)
PredictedFor(f, age) == IF f.lag > age THEN Predict(f, f.lag - age) ELSE f

(* FilterBase::processMeasurement.  The first measurement is taken as it is. *)
ProcessMeasurement(f, age, z, r) ==
  IF f.initialized
  THEN [Correct(PredictedFor(f, age), z, r) EXCEPT !.lag = AtMost(@, age)]
  ELSE [Overwrite(f, z, r, age) EXCEPT !.initialized = TRUE]

-----------------------------------------------------------------------------
(* FilterBase::reset and the constructors: the UKF begins with sigma points
   that are all zero and passes for uncorrected. *)
Init ==
  /\ kind \in {"ekf", "ukf"}
  /\ filter = [initialized |-> FALSE, yaw |-> 0, variance |-> 1, lag |-> 0,
               points |-> IF kind = "ukf" THEN [centre |-> 0, spread |-> 0] ELSE Redraw,
               overwritten |-> FALSE]
  /\ robot \in Angles
  /\ setPoseAge = MaxAge + 1
  /\ mishaps = 0

Tick ==
  /\ filter.initialized => filter.lag < MaxLag
  /\ robot' = Wrap(robot + Rate)
  /\ filter' = [filter EXCEPT !.lag = IF filter.initialized THEN @ + 1 ELSE @]
  /\ setPoseAge' = AtMost(setPoseAge + 1, MaxAge + 1)
  /\ UNCHANGED <<kind, mishaps>>

(* What a sound sensor may have said that long ago. *)
Reports(age) == {Wrap(robot - Rate * age + d) : d \in Deviations}

(* Of a negative variance the UKF cannot draw sigma points (llt); what it
   does from then on is not modelled. *)
Broken == filter.variance < 0

(* A measurement is folded in, unless it is from before the last set_pose.
   The first one is a number and has a variance that is not negative. *)
Measure(age, z, r) ==
  /\ age < setPoseAge /\ ~Broken
  /\ filter.initialized \/ (z # NaN /\ r \in Nat)
  /\ filter' = ProcessMeasurement(filter, age, z, r)
  /\ UNCHANGED <<kind, robot, setPoseAge>>

SoundMeasurement(age) ==
  /\ \E z \in Reports(age), r \in Covariances : Measure(age, z, r)
  /\ UNCHANGED mishaps

(* The timer predicts to the present: predict_to_current_time, or nothing
   came for sensor_timeout. *)
TimerPredicts ==
  /\ filter.initialized /\ filter.lag > 0 /\ ~Broken
  /\ filter' = [Predict(filter, filter.lag) EXCEPT !.lag = 0]
  /\ UNCHANGED <<kind, robot, setPoseAge, mishaps>>

(* setPoseCallback: the state is that of the message, whose stamp may be old,
   and the filter's time is the present. *)
SetPose(yaw, variance, age) ==
  /\ filter' = Overwrite(filter, yaw, variance, 0)
  /\ setPoseAge' = age
  /\ UNCHANGED <<kind, robot>>

(* revertTo, and the first measurement of the replay, in one timer cycle: a
   saved state is brought back, whatever it was. *)
Replay(yaw, variance, lag, age, z, r) ==
  /\ filter.initialized /\ age < setPoseAge
  /\ filter' = ProcessMeasurement(Overwrite(filter, yaw, variance, lag), age, z, r)
  /\ UNCHANGED <<kind, robot, setPoseAge>>

(* Values that are none or wrong, and states that are set from outside. *)
Mishap ==
  /\ mishaps < MaxMishaps
  /\ mishaps' = mishaps + 1
  /\ \E r \in Covariances, age \in 0..MaxAge :
       \/ Measure(age, NaN, r)
       \/ \E yaw \in Angles :
            \/ Measure(age, yaw, r)
            \/ SetPose(yaw, Noise(r), age)
            \/ \E lag \in 0..MaxLag, z \in Reports(age) :
                 Replay(yaw, Noise(r), lag, age, z, r)

Next == Tick \/ TimerPredicts \/ (\E age \in 0..MaxAge : SoundMeasurement(age)) \/ Mishap

Spec == Init /\ [][Next]_vars

(* Time passes, and the sensor goes on reporting. *)
FairSpec == Spec /\ WF_vars(Tick) /\ WF_vars(SoundMeasurement(0))

-----------------------------------------------------------------------------
(* Every member has its type, and angles are wrapped (wrapStateAngles). *)
TypeOK ==
  /\ kind \in {"ekf", "ukf"} /\ robot \in Angles
  /\ setPoseAge \in 0..(MaxAge + 1) /\ mishaps \in 0..MaxMishaps
  /\ filter.yaw \in Angles /\ filter.variance \in Int /\ filter.lag \in Nat

(* A correction moves the estimate towards what was measured, never past it
   and never the long way round, and leaves no more uncertainty than before
   and none that is negative: whatever is measured next, of any age, after
   any sequence of predictions, rejected and late measurements.  The state
   must not have been overwritten since the UKF last drew its points. *)
CorrectionsStayBetween ==
  \A age \in 0..MaxAge, z \in Angles, r \in Covariances :
    LET before == PredictedFor(filter, age)
        after == Correct(before, z, r)
        whole == Wrap(z - before.yaw)
        moved == Wrap(after.yaw - before.yaw)
    IN filter.initialized /\ ~before.overwritten =>
         /\ Abs(moved) <= Abs(whole) /\ moved * whole >= 0
         /\ 0 <= after.variance /\ after.variance <= before.variance

(* Whatever measurement comes next is folded in with sigma points, once some
   were drawn, that lie about the present state: "the sigma points need to be
   updated to reflect the current state" (ukf.cpp:79-83). *)
SigmaPointsAreCurrent ==
  \A age \in 0..MaxAge :
    LET f == PredictedFor(filter, age)
    IN filter.initialized /\ age < setPoseAge =>
         f.points = Redraw \/ f.points.spread = 0 \/ f.points.centre = f.yaw

(* How far the estimate is off, at its own time. *)
Error == Abs(Wrap(filter.yaw - (robot - Rate * filter.lag)))
Tolerance == 1 + Abs(Rate) * MaxAge

(* Whatever set_pose, replays and outliers did to the estimate, it comes
   back to the truth and stays, although the gate throws away measurements
   that contradict it: while they are thrown away the variance grows. *)
EstimateConverges ==
  [](~Broken) => <>[](filter.initialized /\ Error <= Tolerance)

=============================================================================

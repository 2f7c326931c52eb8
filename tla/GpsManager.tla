------------------------------ MODULE GpsManager ------------------------------
(***************************************************************************)
(* The way of a GPS fix into the global filter: the receiver, the gate that *)
(* drops what cannot be right (gps_fix_gate.py or gps_quality_gate.py),     *)
(* navsat_transform, the GPS manager (gps_manager.py), which passes on the  *)
(* fixes of RTK quality and, when they come back far from the estimate,     *)
(* resets the filter by its set_pose service; and the filter at the end     *)
(* (ros_filter.cpp), which fuses fixes and serves resets in any order.      *)
(*                                                                          *)
(* The world has one dimension, headings are left out.  A fix is where it   *)
(* says the robot is, where the robot was, and its variance; stamps appear  *)
(* as the relation of a fix to the resets that are under way.               *)
(***************************************************************************)
EXTENDS Integers, Sequences

CONSTANTS
  Field,           \* the robot and its estimate are in 0..Field
  Gates,           \* the gates that may be in place
  RequireCov,      \* require_cov of the quality gate
  GateVar,         \* the gate's limit of variance (max_cov_m2, max_pos_std^2)
  Datum, Radius,   \* datum and max_radius_m of the fix gate
  ResetCov,        \* reset_cov_threshold
  DriftThreshold,  \* reset_drift_threshold
  Cooldown,        \* reset_cooldown, in ticks
  Variances,       \* the variances that a receiver computes
  Spread,          \* how far a fix of such a variance may be off
  MaxMoves,        \* bound: moves of the robot
  MaxDrifts,       \* bound: errors of dead reckoning without GPS
  MaxPending,      \* bound: requests that are not served yet
  None

ASSUME GpsAssumption ==
  /\ Gates \subseteq {"fix", "quality"} /\ RequireCov \in BOOLEAN
  /\ Datum \in 0..Field
  /\ {Field, GateVar, Radius, ResetCov, DriftThreshold, Cooldown,
      MaxMoves, MaxDrifts, MaxPending} \subseteq Nat
  /\ Variances \subseteq Nat \ {0} /\ Spread \in [Variances -> Nat]

(* The variance of RTK quality, which is all that reset_cov_threshold admits. *)
Best == CHOOSE v \in Variances : \A w \in Variances : v <= w

ASSUME RtkAssumption ==
  /\ Best \in Variances
  /\ \A v \in Variances : v <= ResetCov => Spread[v] <= Spread[Best]

Places == 0..Field

VARIABLES
  robot, estimate, \* where the robot is, and where the filter believes it is
  sky,             \* "open" or "blocked"
  gate,            \* the gate in place
  reports,         \* the driver reports covariances
  raw,             \* odometry/gps_raw: the fix that waits for the manager
  gps,             \* odometry/gps: the one that waits for the filter
  queue,           \* the filter's measurement queue
  requests,        \* set_pose requests under way
  lastEkfPose,     \* last_ekf_pose
  gpsWasLost,      \* gps_was_lost
  resetAge,        \* ticks since last_reset_time up to Cooldown, or None
  lostSinceReset,  \* observer: the manager saw a poor fix since its last reset
  moves, drifts

worldVars == <<robot, sky, gate, reports, moves, drifts>>
managerVars == <<lastEkfPose, gpsWasLost, resetAge, lostSinceReset>>
vars == <<worldVars, managerVars, estimate, raw, gps, queue, requests>>

Distance(a, b) == IF a < b THEN b - a ELSE a - b

(* A fix on its way.  "under" is None when it is newer than every reset, 0 when
   it is not newer than one that was served, and k when the k-th request under
   way is the first that has its stamp or a later one. *)
OnTheWay == [at : Places, truth : Places, variance : Variances \cup {0},
             under : {None} \cup 0..MaxPending]

ASSUME NoneAssumption == None \notin Int \cup OnTheWay

Init ==
  /\ robot = Datum /\ estimate = Datum /\ sky = "open"
  /\ gate \in Gates /\ reports \in BOOLEAN
  /\ raw = None /\ gps = None /\ queue = None /\ requests = <<>>
  /\ lastEkfPose = None /\ gpsWasLost = FALSE /\ resetAge = None /\ lostSinceReset = FALSE
  /\ moves = 0 /\ drifts = 0

-----------------------------------------------------------------------------
(* The robot and the sky. *)

(* The filter's prediction follows the robot, *)
Move(d) ==
  /\ moves < MaxMoves /\ {robot + d, estimate + d} \subseteq Places
  /\ robot' = robot + d /\ estimate' = estimate + d /\ moves' = moves + 1
  /\ UNCHANGED <<sky, gate, reports, drifts, managerVars, raw, gps, queue, requests>>

(* but not for ever. *)
Drift(d) ==
  /\ sky = "blocked" /\ drifts < MaxDrifts /\ estimate + d \in Places
  /\ estimate' = estimate + d /\ drifts' = drifts + 1
  /\ UNCHANGED <<robot, sky, gate, reports, moves, managerVars, raw, gps, queue, requests>>

SkyChanges ==
  /\ sky' = IF sky = "open" THEN "blocked" ELSE "open"
  /\ UNCHANGED <<robot, estimate, gate, reports, moves, drifts, managerVars, raw, gps, queue,
                 requests>>

-----------------------------------------------------------------------------
(* The gates.  A driver that reports no covariance leaves its array at 0. *)

TrustsFix(at, variance) ==  \* mutant: no look at where the fix is
  reports => variance <= GateVar
FixGate(at, variance) ==
  /\ reports => variance <= GateVar
  /\ Distance(at, Datum) <= Radius

IgnoresRequireCov(at, variance) ==  \* mutant: an unknown covariance is good
  variance <= GateVar
QualityGate(at, variance) ==
  IF reports /\ variance > 0 THEN variance <= GateVar ELSE ~RequireCov

Passes(at, variance) ==
  IF gate = "fix" THEN FixGate(at, variance) ELSE QualityGate(at, variance)

(* Under the open sky a fix has RTK quality.  navsat_transform copies the
   covariance, whatever its type. *)
Fix(at, variance) ==
  /\ Distance(at, robot) <= Spread[variance]
  /\ sky = "open" => variance = Best
  /\ LET reported == IF reports THEN variance ELSE 0
     IN /\ Passes(at, reported)
        /\ raw' = [at |-> at, truth |-> robot, variance |-> reported, under |-> None]
  /\ UNCHANGED <<worldVars, managerVars, estimate, gps, queue, requests>>

-----------------------------------------------------------------------------
(* The manager. *)

Covered(m) ==
  IF m # None /\ m.under = None THEN [m EXCEPT !.under = Len(requests) + 1] ELSE m

CanReset == resetAge \in {None, Cooldown}

DriftIsLarge(m) == Distance(m.at, lastEkfPose) > DriftThreshold

(* _set_pose: nobody waits for the answer. *)
SetPose(m) ==
  /\ Len(requests) < MaxPending
  /\ requests' = Append(requests, m)
  /\ resetAge' = 0
  /\ gps' = Covered(m) /\ queue' = Covered(queue)

NoReset(m) == gps' = m /\ UNCHANGED <<requests, resetAge, queue>>

KeepsLost ==  \* mutant: gps_was_lost is not cleared
  /\ raw # None /\ raw.variance <= ResetCov
  /\ IF gpsWasLost /\ lastEkfPose # None /\ DriftIsLarge(raw) /\ CanReset
     THEN SetPose(raw) /\ lostSinceReset' = FALSE
     ELSE NoReset(raw) /\ UNCHANGED lostSinceReset
  /\ raw' = None
  /\ UNCHANGED <<worldVars, estimate, lastEkfPose, gpsWasLost>>
(* gps_callback with a fix of RTK quality: without the service, no reset. *)
GoodFix ==
  /\ raw # None /\ raw.variance <= ResetCov
  /\ \/ /\ gpsWasLost /\ lastEkfPose # None /\ DriftIsLarge(raw) /\ CanReset
        /\ SetPose(raw) /\ lostSinceReset' = FALSE
     \/ NoReset(raw) /\ UNCHANGED lostSinceReset
  /\ gpsWasLost' = FALSE /\ raw' = None
  /\ UNCHANGED <<worldVars, estimate, lastEkfPose>>

(* gps_callback with any other: it goes no further. *)
PoorFix ==
  /\ raw # None /\ raw.variance > ResetCov
  /\ gpsWasLost' = TRUE /\ lostSinceReset' = TRUE /\ raw' = None
  /\ UNCHANGED <<worldVars, estimate, lastEkfPose, resetAge, gps, queue, requests>>

(* ekf_callback; the estimate may change before the next one. *)
EkfCallback ==
  /\ lastEkfPose' = estimate
  /\ UNCHANGED <<worldVars, estimate, gpsWasLost, resetAge, lostSinceReset, raw, gps, queue,
                 requests>>

Tick ==
  /\ resetAge \in 0..Cooldown - 1
  /\ resetAge' = resetAge + 1
  /\ UNCHANGED <<worldVars, estimate, lastEkfPose, gpsWasLost, lostSinceReset, raw, gps, queue,
                 requests>>

-----------------------------------------------------------------------------
(* The filter. *)

OnlyOlder ==  \* mutant: the comparison of the stamps is the wrong way round
  /\ gps # None /\ gps' = None
  /\ IF gps.under = 0 THEN queue = None /\ queue' = gps ELSE UNCHANGED queue
  /\ UNCHANGED <<worldVars, managerVars, estimate, raw, requests>>
OdometryCallback ==
  /\ gps # None /\ gps' = None
  /\ IF gps.under = 0 THEN UNCHANGED queue ELSE queue = None /\ queue' = gps
  /\ UNCHANGED <<worldVars, managerVars, estimate, raw, requests>>

(* A fix draws the estimate closer, or all the way. *)
TimerCallback ==
  /\ queue # None /\ queue' = None
  /\ \E e \in Places :
       /\ Distance(estimate, e) + Distance(e, queue.at) = Distance(estimate, queue.at)
       /\ e = estimate => e = queue.at
       /\ estimate' = e
  /\ UNCHANGED <<worldVars, managerVars, raw, gps, requests>>

Served(m) ==
  IF m # None /\ m.under \notin {None, 0} THEN [m EXCEPT !.under = @ - 1] ELSE m

SetPoseCallback ==
  /\ requests # <<>> /\ requests' = Tail(requests)
  /\ estimate' = Head(requests).at
  /\ queue' = None /\ gps' = Served(gps)
  /\ UNCHANGED <<worldVars, managerVars, raw>>

-----------------------------------------------------------------------------
Next ==
  \/ \E d \in {-1, 1} : Move(d) \/ Drift(d)
  \/ SkyChanges
  \/ \E at \in Places, variance \in Variances : Fix(at, variance)
  \/ GoodFix \/ PoorFix \/ EkfCallback \/ Tick
  \/ OdometryCallback \/ TimerCallback \/ SetPoseCallback

Spec == Init /\ [][Next]_vars

(* The receiver and the nodes run; nothing makes the sky open. *)
FairSpec ==
  /\ Spec
  /\ WF_vars(\E at \in Places, variance \in Variances : Fix(at, variance))
  /\ WF_vars(GoodFix \/ PoorFix)
  /\ WF_vars(OdometryCallback) /\ WF_vars(TimerCallback) /\ WF_vars(SetPoseCallback)

-----------------------------------------------------------------------------
(* Every variable keeps to its type, for either gate and any receiver. *)
TypeOK ==
  /\ robot \in Places /\ estimate \in Places /\ sky \in {"open", "blocked"}
  /\ gate \in Gates /\ reports \in BOOLEAN
  /\ raw \in OnTheWay \cup {None} /\ gps \in OnTheWay \cup {None} /\ queue \in OnTheWay \cup {None}
  /\ requests \in Seq(OnTheWay) /\ Len(requests) <= MaxPending
  /\ lastEkfPose \in Places \cup {None} /\ gpsWasLost \in BOOLEAN
  /\ resetAge \in 0..Cooldown \cup {None} /\ lostSinceReset \in BOOLEAN
  /\ moves \in 0..MaxMoves /\ drifts \in 0..MaxDrifts

(* Where covariances are known, or the quality gate requires that they are, all
   that reaches the filter, the poses it is reset to included, is as accurate as
   RTK is: nothing on the way from the receiver turns an unknown covariance
   into a small one (gps_quality_gate.py:112-121, gps_manager.py:85).  That rests
   on a receiver whose error is bounded by the variance it computes (Spread),
   which map_anchor_node.py:105-108 doubts; the property is about the way. *)
RtkFixesAreAccurate ==
  LET Accurate(m) == Distance(m.at, m.truth) <= Spread[Best]
  IN reports \/ (gate = "quality" /\ RequireCov) =>
       /\ \A m \in {gps, queue} \ {None} : Accurate(m)
       /\ \A i \in DOMAIN requests : Accurate(requests[i])

(* Behind the fix gate no fix and no reset takes the estimate off the site,
   whatever the receiver claims: it gets there only by its own odometry
   (gps_fix_gate.py:17-19, the run of 2026-07-14). *)
EstimateStaysOnSite ==
  gate = "fix" => Distance(estimate, Datum) <= Radius + moves + drifts

(* The filter is reset once per loss of GPS, and not within the cool-down: a
   request follows a fix that was poor, and later than the last request
   (gps_manager.py:89-98). *)
OneResetPerLoss ==
  [][Len(requests') > Len(requests) => lostSinceReset /\ resetAge \in {None, Cooldown}]_vars

(* When the sky stays open the estimate comes to the robot and stays there,
   whatever fixes and resets are still under way, and whether or not the reset
   that clears gps_was_lost is made (gps_manager.py:85-98).  The quality gate must
   have covariances, or not require them, and the robot must be on the site. *)
EstimateRecovers ==
  LET Usable == /\ gate = "quality" => reports \/ ~RequireCov
                /\ Distance(robot, Datum) <= Radius
  IN <>[](sky = "open" /\ Usable) => <>[](Distance(estimate, robot) <= Spread[Best])

=============================================================================

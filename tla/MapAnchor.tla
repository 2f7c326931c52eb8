------------------------------ MODULE MapAnchor ------------------------------
(***************************************************************************)
(* src/scripts/map_anchor_node.py: the transform from odom to map, held in  *)
(* place by RTK fixes, poses of a point cloud matcher (PCD) and plain fixes, *)
(* whichever may be trusted.                                                *)
(*                                                                         *)
(* The robot drives on a line and keeps its heading, so that a position is a *)
(* number and a yaw is 0 or 1 half turns; a half turn is what the IMU was   *)
(* mounted off by (lines 127-129). What a message says is the truth plus an *)
(* error.  Times are kept as ages, in ticks, that stop growing where the    *)
(* code no longer tells them apart.  rclpy runs one callback at a time.     *)
(***************************************************************************)
EXTENDS Integers, Sequences, FiniteSets

CONSTANTS
  Positions,              \* of the robot in the odom frame
  TrueT, TrueTh,          \* the transform from odom to map
  RtkErrors, PlainErrors, PcdErrors,
  MaxStep, MaxSlew,       \* max_step_m, max_slew_mps (per tick)
  RtkGate, RtkNeed,       \* rtk_gate_m, rtk_gate_n
  RtkWindow,              \* window of rtk_recent
  ResetGap,               \* rtk_gate_reset_s
  PcdTimeout,             \* pcd_timeout
  CalNeed,                \* n_apply of YawAutocal
  None

HalfTurns == {0, 1}
Modes == {"INIT", "GPS_RTK", "GPS_SUSPECT", "GPS", "PCD", "PCD_HOLD"}

ASSUME ConstantsAssumption ==
  /\ Positions \subseteq Int /\ TrueT \in Int /\ TrueTh \in HalfTurns
  /\ RtkErrors \subseteq Int /\ PlainErrors \subseteq Int /\ PcdErrors \subseteq Int
  /\ MaxStep \in Nat \ {0} /\ MaxSlew \in Nat \ {0}
  /\ RtkGate \in Nat \ {0} /\ RtkNeed \in Nat \ {0}
  /\ RtkWindow \in Nat /\ ResetGap \in Nat /\ PcdTimeout \in Nat /\ CalNeed \in Nat \ {0}
  /\ None \notin Int

VARIABLES
  hybrid,        \* pcd_pose_topic is set
  yawInit,       \* pcd_yaw_init
  reversed,      \* half turns between the IMU's yaw and the robot's
  odom,          \* position of the last odometry, None before
  imuYaw,        \* imu_yaw
  t, th, thInit, anchored,
  mode,
  rtkStreak,     \* rtk_streak, counted up to RtkNeed
  rtkOk,
  calN,          \* autocal.n, counted up to CalNeed
  calActive,     \* _cal_active
  extYawDone,
  rtkAge,        \* last_rtk_t, RtkWindow before the first
  evalAge, pcdAge, gpsAge,  \* last_rtk_eval_t, last_pcd[0], last_gps_t, None before
  tYaw,          \* the yaw all of t was computed with, None for a mixture
  evals          \* the last RtkNeed judgements of RTK samples

pose == <<t, th, thInit, anchored, tYaw>>
trust == <<rtkStreak, rtkOk, evalAge, evals>>
calibration == <<calN, calActive, extYawDone>>
ages == <<rtkAge, evalAge, pcdAge, gpsAge>>
config == <<hybrid, yawInit, reversed>>
vars == <<config, odom, imuYaw, pose, mode, trust, calibration, rtkAge, pcdAge,
          gpsAge>>

-----------------------------------------------------------------------------
Abs(n) == IF n < 0 THEN -n ELSE n
Least(m, n) == IF m < n THEN m ELSE n

Wrap(yaw) == yaw % 2

(* A position in the odom frame turned by yaw.                              *)
Turn(yaw, x) == IF yaw = 0 THEN x ELSE -x

TrueX == TrueT + Turn(TrueTh, odom)

(* The robot's heading in the map is 0.                                     *)
OdomYaw == Wrap(-TrueTh)

AnchorTarget(gx, yaw) == gx - Turn(yaw, odom)

RtkRecent == rtkAge < RtkWindow
PcdFresh == pcdAge # None /\ pcdAge < PcdTimeout
PcdEver == hybrid /\ pcdAge # None

(* Mutant: a matcher that fell silent leaves the anchor to plain fixes.     *)
SelectFreshSource ==
  IF RtkRecent THEN "GPS_RTK" ELSE IF PcdEver /\ PcdFresh THEN "PCD" ELSE "GPS"

SelectSource ==
  IF RtkRecent THEN "GPS_RTK"
  ELSE IF PcdEver THEN (IF PcdFresh THEN "PCD" ELSE "PCD_HOLD")
  ELSE "GPS"

(* Time since the last update_anchor, and a default before the first.       *)
Dt == IF gpsAge = None THEN 1 ELSE gpsAge

(* How far one correction may go: per sample and per time.                  *)
SlewLimit(step, rate) == Least(step, rate * Dt)

(* From one position towards another by so much, and no further.            *)
Toward(from, to, step) ==
  IF Abs(to - from) <= step THEN to ELSE IF to > from THEN from + step ELSE from - step

(* Half of the way there, within twice what a plain fix is allowed.         *)
Snapped(target) ==
  LET way == (Abs(target - t) + 1) \div 2
  IN Toward(t, target, Least(way, SlewLimit(2 * MaxStep, 2 * MaxSlew)))

(* The gain depends on the reported variance; any part of the way is one.   *)
Crept(target) ==
  {Toward(t, target, step) : step \in 0..SlewLimit(MaxStep, MaxSlew)}

(* Mutant: th is turned under an anchor that stays.                         *)
SettledAnyway(turned) == anchored

(* A callback that turns th takes the anchor back.                          *)
Settled(turned) == anchored /\ ~turned

(* t as it is written by any handler, first or not since th was turned.     *)
Anchor(yaw, settled, positions) ==
  /\ t' \in positions
  /\ anchored' = TRUE
  /\ tYaw' = IF ~settled \/ tYaw = yaw THEN yaw ELSE None

SnapAnchor(gx, yaw, settled) ==
  LET target == AnchorTarget(gx, yaw)
  IN Anchor(yaw, settled, IF settled THEN {Snapped(target)} ELSE {target})

UpdateAnchor(gx, yaw, settled) ==
  LET target == AnchorTarget(gx, yaw)
  IN /\ Anchor(yaw, settled, IF settled THEN Crept(target) ELSE {target})
     /\ gpsAge' = 0

KeepAnchor(settled) == t' = t /\ anchored' = settled /\ tYaw' = tYaw

-----------------------------------------------------------------------------
(* on_fix: the gated fix stream.  A fix that is not RTK does not take back  *)
(* what an RTK fix said.                                                    *)
OnFix(rtk) ==
  /\ rtkAge' = IF rtk THEN 0 ELSE rtkAge
  /\ UNCHANGED <<config, odom, imuYaw, pose, mode, trust, calibration, pcdAge, gpsAge>>

(* on_imu: the correction counts once it rests on enough measurements.      *)
Correction == IF calN >= CalNeed THEN reversed ELSE 0

OnImu ==
  /\ imuYaw' = Wrap(reversed + Correction)
  /\ UNCHANGED <<config, odom, pose, mode, trust, calibration, rtkAge, pcdAge, gpsAge>>

(* on_odom: yaw is known from the first IMU message on, and published with  *)
(* a provisional t, which the first observation replaces.  Later samples    *)
(* bring th over slowly: it gets there within many IMU messages, hence only *)
(* to a yaw that the IMU messages keep.                                     *)
Smoothed(yaw) ==
  IF imuYaw = Wrap(reversed + Correction) THEN {yaw, Wrap(imuYaw - OdomYaw)} ELSE {yaw}

(* Mutant: no transform before the first position.                          *)
NothingProvisional == None

Provisional == 0

OnOdom(x) ==
  /\ odom' = x
  /\ IF imuYaw = None THEN UNCHANGED <<th, thInit>>
     ELSE /\ thInit' = TRUE
          /\ th' \in IF thInit THEN Smoothed(th) ELSE {Wrap(imuYaw - OdomYaw)}
  /\ t' = IF t = None /\ thInit' THEN Provisional ELSE t
  /\ UNCHANGED <<config, imuYaw, anchored, tYaw, mode, trust, calibration, rtkAge, pcdAge,
                 gpsAge>>

(* on_pcd: its yaw sets th right once, if so configured; its position is    *)
(* taken unless a trusted RTK stream is there.                              *)
StandstillInit == yawInit /\ ~extYawDone /\ imuYaw # None /\ odom # None

OnPcd(e) ==
  LET yaw == IF StandstillInit THEN TrueTh ELSE th
      settled == Settled(StandstillInit)
  IN /\ hybrid
     /\ pcdAge' = 0
     /\ th' = yaw
     /\ IF StandstillInit
        THEN calN' = CalNeed /\ calActive' = TRUE /\ extYawDone' = TRUE
        ELSE UNCHANGED calibration
     /\ IF odom = None \/ ~thInit \/ (RtkRecent /\ rtkOk)
        THEN KeepAnchor(settled) /\ mode' = mode
        ELSE mode' = "PCD" /\ SnapAnchor(TrueX + e, yaw, settled)
     /\ UNCHANGED <<config, odom, imuYaw, thInit, trust, rtkAge, gpsAge>>

-----------------------------------------------------------------------------
(* Mutants: the gap between samples is not looked at; a bad sample does not *)
(* start the count again.                                                   *)
StreakOverGaps(streak, resid, gap) ==
  IF resid > RtkGate THEN 0 ELSE Least(RtkNeed, streak + 1)

StreakOverOutliers(streak, resid, gap) ==
  Least(RtkNeed, 1 + (IF gap > ResetGap THEN 0 ELSE streak))

(* gate_rtk: a bad sample takes trust at once, RtkNeed good ones in a row,  *)
(* none too long after the other, give it.                                  *)
StreakAfter(streak, resid, gap) ==
  IF resid > RtkGate THEN 0
  ELSE Least(RtkNeed, 1 + (IF gap > ResetGap THEN 0 ELSE streak))

Gap == IF evalAge = None THEN 0 ELSE evalAge

LastOf(n, s) == IF Len(s) <= n THEN s ELSE SubSeq(s, Len(s) - n + 1, Len(s))

(* The source policy of on_gps for a sample gx, with th turned and streak   *)
(* cleared by calibration or not.                                           *)
TakeRtk(gx, yaw, settled, streak) ==
  LET resid == Abs(AnchorTarget(gx, yaw) - t)
  IN /\ IF settled
        THEN /\ rtkStreak' = StreakAfter(streak, resid, Gap)
             /\ evalAge' = 0
             /\ evals' = LastOf(RtkNeed,
                  Append(evals, [good |-> resid <= RtkGate, linked |-> Gap <= ResetGap]))
             /\ rtkOk' = (rtkStreak' >= RtkNeed)
        ELSE /\ rtkStreak' = streak
             /\ rtkOk' = TRUE
             /\ UNCHANGED <<evalAge, evals>>
     /\ CASE rtkOk' -> /\ mode' = "GPS_RTK"
                       /\ SnapAnchor(gx, yaw, settled)
                       /\ UNCHANGED gpsAge
          [] ~rtkOk' /\ PcdEver -> mode' = "GPS_SUSPECT" /\ KeepAnchor(settled) /\ UNCHANGED gpsAge
          [] ~rtkOk' /\ ~PcdEver -> mode' = "GPS_SUSPECT" /\ UpdateAnchor(gx, yaw, settled)

TakeOther(gx, yaw, settled, streak) ==
  /\ mode' = SelectSource
  /\ rtkStreak' = streak
  /\ UNCHANGED <<rtkOk, evalAge, evals>>
  /\ IF SelectSource = "GPS" THEN UpdateAnchor(gx, yaw, settled)
     ELSE KeepAnchor(settled) /\ UNCHANGED gpsAge

(* YawAutocal.add: whether a sample completes a measurement depends on the  *)
(* drive so far and on the variance fixes report; a measurement finds what  *)
(* the IMU is off by.                                                       *)
Measures == IF imuYaw # None THEN BOOLEAN ELSE {FALSE}

(* Mutant: _cal_active is set before it is asked for.                       *)
EngagesLate(n) == n >= CalNeed /\ ~(n >= CalNeed) /\ reversed # 0

(* A large correction that comes into effect turns th at once.              *)
Engages(n) == n >= CalNeed /\ ~calActive /\ reversed # 0

(* on_gps: calibration first, then the source policy with the same sample.  *)
(* navsat_transform gives no position before it knows our yaw.              *)
OnGps(e, measured) ==
  LET n == IF measured THEN Least(CalNeed, calN + 1) ELSE calN
      engaged == measured /\ Engages(n)
      yaw == IF engaged THEN Wrap(th + reversed) ELSE th
      settled == Settled(engaged)
      streak == IF engaged THEN 0 ELSE rtkStreak
      gx == TrueX + e
  IN /\ odom # None /\ thInit /\ t # None
     /\ measured \in Measures
     /\ calN' = n
     /\ calActive' = IF measured THEN n >= CalNeed ELSE calActive
     /\ th' = yaw
     /\ IF SelectSource = "GPS_RTK" THEN TakeRtk(gx, yaw, settled, streak)
        ELSE TakeOther(gx, yaw, settled, streak)
     /\ UNCHANGED <<config, odom, imuYaw, thInit, extYawDone, rtkAge, pcdAge>>

(* eval_convergence: once seeded by the matcher, or when the calibration    *)
(* has been steady for long enough, which it may be once it is active.      *)
MayReportConvergence == extYawDone \/ calN >= CalNeed

Older(age, limit) == IF age = None THEN None ELSE Least(limit, age + 1)

Tick ==
  /\ rtkAge' = Older(rtkAge, RtkWindow)
  /\ evalAge' = Older(evalAge, ResetGap + 1)
  /\ pcdAge' = Older(pcdAge, PcdTimeout)
  /\ gpsAge' = Older(gpsAge, MaxStep)
  /\ UNCHANGED <<config, odom, imuYaw, pose, mode, rtkStreak, rtkOk, evals, calibration>>

-----------------------------------------------------------------------------
Init ==
  /\ hybrid \in BOOLEAN
  /\ yawInit \in {FALSE, hybrid}
  /\ reversed \in HalfTurns
  /\ odom = None /\ imuYaw = None
  /\ t = None /\ th = 0 /\ thInit = FALSE /\ anchored = FALSE /\ tYaw = None
  /\ mode = "INIT"
  /\ rtkStreak = 0 /\ rtkOk = FALSE /\ evals = <<>>
  /\ calN = 0 /\ calActive = FALSE /\ extYawDone = FALSE
  /\ rtkAge = RtkWindow /\ evalAge = None /\ pcdAge = None /\ gpsAge = None

(* A sample comes by way of navsat_transform, the word on it by OnFix: what
   rtk_recent says of the newest fix need not be true of the sample. *)
Errors == RtkErrors \cup PlainErrors

Fix == \E rtk \in BOOLEAN : OnFix(rtk)
Odom == \E x \in Positions : OnOdom(x)
Pcd == \E e \in PcdErrors : OnPcd(e)
Gps == \E e \in Errors, measured \in BOOLEAN : OnGps(e, measured)

Next == Fix \/ OnImu \/ Odom \/ Pcd \/ Gps \/ Tick

Spec == Init /\ [][Next]_vars

(* Sensors keep sending, and the executor handles what they send.           *)
FairSpec == Spec /\ WF_vars(OnImu) /\ WF_vars(Odom) /\ WF_vars(Gps)
-----------------------------------------------------------------------------
(* Properties.                                                              *)

(* Every variable keeps to its type.                                        *)
TypeOK ==
  /\ hybrid \in BOOLEAN /\ yawInit \in BOOLEAN /\ reversed \in HalfTurns
  /\ odom \in Positions \cup {None} /\ imuYaw \in HalfTurns \cup {None}
  /\ t \in Int \cup {None} /\ th \in HalfTurns
  /\ thInit \in BOOLEAN /\ anchored \in BOOLEAN
  /\ tYaw \in HalfTurns \cup {None}
  /\ mode \in Modes
  /\ rtkStreak \in 0..RtkNeed /\ rtkOk \in BOOLEAN
  /\ evals \in Seq([good : BOOLEAN, linked : BOOLEAN]) /\ Len(evals) <= RtkNeed
  /\ calN \in 0..CalNeed /\ calActive \in BOOLEAN /\ extYawDone \in BOOLEAN
  /\ rtkAge \in 0..RtkWindow /\ evalAge \in 0..(ResetGap + 1) \cup {None}
  /\ pcdAge \in 0..PcdTimeout \cup {None} /\ gpsAge \in 0..MaxStep \cup {None}

(* Whenever th is turned, by calibration (on_gps) or by the matcher         *)
(* (on_pcd), what was there of t is given up, whatever else the callback    *)
(* goes on to do: no later correction rests on what an old yaw left.        *)
NoMixedAnchor ==
  [][th' # th /\ calibration' # calibration /\ anchored' => tYaw' = th']_vars

Earned(judgements) ==
  /\ Len(judgements) = RtkNeed
  /\ \A k \in DOMAIN judgements : judgements[k].good
  /\ \A k \in DOMAIN judgements : k > 1 => judgements[k].linked

(* gate_rtk: while the anchor is there and th stays as it is, an RTK stream *)
(* that was not trusted is trusted again only after RtkNeed consistent      *)
(* samples in a row, none of them late, whatever plain fixes and matcher    *)
(* poses came in between.  While the node is re-anchoring there is nothing  *)
(* to be consistent with: the first RTK sample is then trusted at once      *)
(* (line 564), and is what the anchor is made of.                           *)
TrustIsEarned ==
  [][~rtkOk /\ rtkOk' /\ anchored /\ th' = th => Earned(evals')]_vars

(* Once the matcher was heard, only its poses and trusted RTK samples move  *)
(* the anchor (lines 598-599); plain fixes and suspect RTK samples do not.  *)
MatcherKeepsAnchor ==
  [][anchored /\ PcdEver /\ t' # t => Pcd \/ (rtkOk' /\ RtkRecent)]_vars

Close(position) == Abs(position - TrueT) <= RtkGate

(* Once the matcher was heard and the anchor is right within the gate, no   *)
(* number of RTK samples that are far off drags it away, one by one or in a *)
(* row, for as long as it stays anchored: the receiver's own word is not    *)
(* enough (lines 105-111).                                                  *)
FalseFixNeverDrags ==
  [][anchored /\ anchored' /\ PcdEver /\ th = TrueTh /\ th' = th /\ Close(t) => Close(t')]_vars

(* yaw_converged releases autonomous driving (lines 366-369) and so means   *)
(* that th is right.  It need not if a pose of the matcher seeds the        *)
(* calibration before on_odom has set th, which then does so with the yaw   *)
(* of an IMU message not yet corrected, and takes yaw_tau to recover.  The  *)
(* premise leaves out every run in which a matcher seeded the calibration,  *)
(* also those where that was in time.  It relies on an IMU that keeps       *)
(* sending: on_odom smooths th towards the yaw it heard last (Smoothed).    *)
ConvergedIsRight == MayReportConvergence /\ ~yawInit => th = TrueTh

(* Waiting for a position before publishing a yaw would deadlock with       *)
(* navsat_transform, which waits for the yaw; without a matcher the anchor  *)
(* settles all the same.                                                    *)
EventuallyAnchored == ~hybrid ~> anchored

=============================================================================

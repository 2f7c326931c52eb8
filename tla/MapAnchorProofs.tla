--------------------------- MODULE MapAnchorProofs ---------------------------
(***************************************************************************)
(* Theorems about MapAnchor, for any positions, errors, gates, windows and  *)
(* limits.                                                                  *)
(***************************************************************************)
EXTENDS MapAnchor, SequenceTheorems, TLAPS

Judgement == [good : BOOLEAN, linked : BOOLEAN]

-----------------------------------------------------------------------------
(* Helpers.                                                                 *)

LEMMA LeastOfNaturals ==
  ASSUME NEW m \in Nat, NEW n \in Nat
  PROVE  Least(m, n) \in Nat /\ Least(m, n) <= m /\ Least(m, n) <= n
         /\ (Least(m, n) = m \/ Least(m, n) = n)
BY DEF Least

LEMMA WithinMeans ==
  ASSUME NEW n \in Int, NEW limit \in Nat
  PROVE  Abs(n) <= limit <=> -limit <= n /\ n <= limit
BY DEF Abs

(* From one place within a limit towards another is within the limit. *)
LEMMA BetweenStaysWithin ==
  ASSUME NEW b \in Int, NEW a \in Int, NEW c \in Int, NEW e \in Int, NEW limit \in Int,
         -limit <= e, e <= limit, -limit <= a - c, a - c <= limit,
         \/ b = c + e
         \/ a <= b /\ b <= c + e
         \/ c + e <= b /\ b <= a
  PROVE  -limit <= b - c /\ b - c <= limit /\ b - c \in Int
OBVIOUS

LEMMA YawsWrap ==
  ASSUME NEW a \in -2..2
  PROVE  Wrap(a) \in HalfTurns
BY DEF Wrap, HalfTurns

(* A step towards another position ends between the two. *)
LEMMA TowardStaysBetween ==
  ASSUME NEW from \in Int, NEW to \in Int, NEW step \in Nat
  PROVE  /\ Toward(from, to, step) \in Int
         /\ \/ from <= Toward(from, to, step) /\ Toward(from, to, step) <= to
            \/ to <= Toward(from, to, step) /\ Toward(from, to, step) <= from
BY DEF Toward, Abs

LEMMA SlewLimits ==
  ASSUME TypeOK
  PROVE  SlewLimit(MaxStep, MaxSlew) \in Nat /\ SlewLimit(2 * MaxStep, 2 * MaxSlew) \in Nat
<1>1. MaxStep \in Nat /\ MaxSlew \in Nat /\ Dt \in Nat
  BY ConstantsAssumption DEF TypeOK, Dt
<1>2. MaxSlew * Dt \in Nat /\ (2 * MaxSlew) * Dt \in Nat /\ 2 * MaxStep \in Nat
  BY <1>1
<1> QED  BY <1>1, <1>2 DEF SlewLimit, Least

LEMMA SnapsBetween ==
  ASSUME TypeOK, t \in Int, NEW target \in Int
  PROVE  /\ Snapped(target) \in Int
         /\ \/ t <= Snapped(target) /\ Snapped(target) <= target
            \/ target <= Snapped(target) /\ Snapped(target) <= t
<1> DEFINE way == (Abs(target - t) + 1) \div 2
           step == Least(way, SlewLimit(2 * MaxStep, 2 * MaxSlew))
<1>1. way \in Nat
  BY DEF Abs
<1>2. SlewLimit(2 * MaxStep, 2 * MaxSlew) \in Nat
  BY SlewLimits
<1> HIDE DEF way
<1>3. step \in Nat
  BY <1>1, <1>2, LeastOfNaturals
<1>4. Snapped(target) = Toward(t, target, step)
  BY DEF Snapped, way
<1> HIDE DEF step
<1> QED  BY <1>3, <1>4, TowardStaysBetween

LEMMA CreptAreTyped ==
  ASSUME TypeOK, t \in Int, NEW target \in Int
  PROVE  Crept(target) \subseteq Int
<1>1. SlewLimit(MaxStep, MaxSlew) \in Nat
  BY SlewLimits
<1>2. \A step \in 0..SlewLimit(MaxStep, MaxSlew) : Toward(t, target, step) \in Int
  BY <1>1, TowardStaysBetween
<1> QED  BY <1>2 DEF Crept

(* What is kept is all there was, or all but the first, and the new judgement. *)
FollowsOn(kept) ==
  \/ /\ Len(kept) = Len(evals) + 1
     /\ \A k \in 1..(Len(kept) - 1) : kept[k] = evals[k]
  \/ /\ Len(kept) = RtkNeed /\ Len(evals) = RtkNeed
     /\ \A k \in 1..(Len(kept) - 1) : kept[k] = evals[k + 1]

LEMMA LastJudgements ==
  ASSUME TypeOK, NEW judged \in Judgement,
         NEW kept, kept = LastOf(RtkNeed, Append(evals, judged))
  PROVE  /\ kept \in Seq(Judgement) /\ Len(kept) \in 1..RtkNeed
         /\ kept[Len(kept)] = judged /\ FollowsOn(kept)
<1> DEFINE all == Append(evals, judged)
<1>1. /\ RtkNeed \in Nat \ {0}
      /\ evals \in Seq(Judgement) /\ Len(evals) <= RtkNeed
  BY ConstantsAssumption DEF TypeOK, Judgement
<1>2. /\ all \in Seq(Judgement) /\ Len(all) = Len(evals) + 1 /\ Len(evals) \in Nat
      /\ all[Len(evals) + 1] = judged /\ \A k \in 1..Len(evals) : all[k] = evals[k]
  BY <1>1
<1> HIDE DEF all
<1>3. CASE Len(all) <= RtkNeed
  <2>1. kept = all
    BY <1>1, <1>3 DEF LastOf, all
  <2> QED  BY <1>1, <1>2, <1>3, <2>1 DEF FollowsOn
<1>4. CASE ~(Len(all) <= RtkNeed)
  <2>1. Len(evals) = RtkNeed /\ Len(all) = RtkNeed + 1 /\ Len(all) - RtkNeed + 1 = 2
    BY <1>1, <1>2, <1>4
  <2>2. kept = SubSeq(all, 2, RtkNeed + 1)
    BY <1>1, <1>2, <1>4, <2>1 DEF LastOf, all
  <2>3. /\ SubSeq(all, 2, RtkNeed + 1) \in Seq(Judgement)
        /\ Len(SubSeq(all, 2, RtkNeed + 1)) = RtkNeed
        /\ \A k \in 1..RtkNeed : SubSeq(all, 2, RtkNeed + 1)[k] = all[k + 1]
    BY <1>1, <1>2, <2>1, SubSeqProperties
  <2>4. kept \in Seq(Judgement) /\ Len(kept) \in 1..RtkNeed /\ kept[Len(kept)] = judged
    BY <1>1, <1>2, <2>1, <2>2, <2>3
  <2>5. Len(kept) = RtkNeed
    BY <2>2, <2>3
  <2>6. \A k \in 1..(Len(kept) - 1) : kept[k] = evals[k + 1]
    BY <1>1, <1>2, <2>1, <2>2, <2>3, <2>5
  <2> QED  BY <2>1, <2>4, <2>5, <2>6 DEF FollowsOn
<1> QED  BY <1>1, <1>3, <1>4

-----------------------------------------------------------------------------
(* Type correctness.                                                        *)

LEMMA TargetTyped ==
  ASSUME TypeOK, odom # None, NEW e \in Int, NEW yaw \in HalfTurns
  PROVE  /\ TrueX + e \in Int /\ AnchorTarget(TrueX + e, yaw) \in Int
         /\ yaw = TrueTh => AnchorTarget(TrueX + e, yaw) = TrueT + e
<1>1. odom \in Int /\ TrueT \in Int /\ TrueTh \in HalfTurns
  BY ConstantsAssumption DEF TypeOK
<1>2. Turn(TrueTh, odom) \in Int /\ Turn(yaw, odom) \in Int
  BY <1>1 DEF Turn
<1> QED  BY <1>1, <1>2 DEF TrueX, AnchorTarget

LEMMA AnchorTyped ==
  ASSUME TypeOK, NEW yaw \in HalfTurns, NEW settled \in BOOLEAN, NEW positions \in SUBSET Int,
         Anchor(yaw, settled, positions)
  PROVE  t' \in Int /\ anchored' = TRUE /\ tYaw' \in HalfTurns \cup {None}
BY DEF Anchor, TypeOK

LEMMA SnapTyped ==
  ASSUME TypeOK, t # None \/ ~anchored, odom # None, NEW e \in Int,
         NEW yaw \in HalfTurns, NEW settled \in BOOLEAN, settled => anchored,
         SnapAnchor(TrueX + e, yaw, settled)
  PROVE  /\ t' \in Int /\ anchored' = TRUE /\ tYaw' \in HalfTurns \cup {None}
         /\ tYaw' = IF ~settled \/ tYaw = yaw THEN yaw ELSE None
         /\ yaw = TrueTh =>
              \/ t' = TrueT + e
              \/ t \in Int /\ t <= t' /\ t' <= TrueT + e
              \/ t \in Int /\ TrueT + e <= t' /\ t' <= t
<1> DEFINE target == AnchorTarget(TrueX + e, yaw)
<1>1. target \in Int /\ (yaw = TrueTh => target = TrueT + e)
  BY TargetTyped
<1> HIDE DEF target
<1>2. Anchor(yaw, settled, IF settled THEN {Snapped(target)} ELSE {target})
  BY DEF SnapAnchor, target
<1>3. CASE settled
  <2>1. t \in Int /\ t' = Snapped(target)
    BY <1>2, <1>3 DEF Anchor, TypeOK
  <2>2. /\ Snapped(target) \in Int
        /\ \/ t <= Snapped(target) /\ Snapped(target) <= target
           \/ target <= Snapped(target) /\ Snapped(target) <= t
    BY <1>1, <2>1, SnapsBetween
  <2> QED  BY <1>1, <1>2, <1>3, <2>1, <2>2 DEF Anchor, TypeOK
<1>4. CASE ~settled
  BY <1>1, <1>2, <1>4 DEF Anchor, TypeOK
<1> QED  BY <1>3, <1>4

LEMMA UpdateTyped ==
  ASSUME TypeOK, t # None, odom # None, NEW e \in Int,
         NEW yaw \in HalfTurns, NEW settled \in BOOLEAN,
         UpdateAnchor(TrueX + e, yaw, settled)
  PROVE  /\ t' \in Int /\ anchored' = TRUE /\ tYaw' \in HalfTurns \cup {None}
         /\ tYaw' = (IF ~settled \/ tYaw = yaw THEN yaw ELSE None)
         /\ gpsAge' = 0
<1> DEFINE target == AnchorTarget(TrueX + e, yaw)
<1>1. target \in Int /\ t \in Int
  BY TargetTyped DEF TypeOK
<1> HIDE DEF target
<1>2. /\ Anchor(yaw, settled, IF settled THEN Crept(target) ELSE {target})
      /\ gpsAge' = 0
  BY DEF UpdateAnchor, target
<1>3. (IF settled THEN Crept(target) ELSE {target}) \subseteq Int
  BY <1>1, CreptAreTyped
<1> QED  BY <1>2, <1>3, AnchorTyped DEF Anchor

(* What a handler of samples of position does to the anchor, trust and mode. *)
LEMMA StreakTyped ==
  ASSUME TypeOK, NEW streak \in 0..RtkNeed, NEW resid \in Int, NEW gap \in Int
  PROVE  /\ StreakAfter(streak, resid, gap) \in 0..RtkNeed
         /\ \/ StreakAfter(streak, resid, gap) = 0
            \/ /\ resid <= RtkGate
               /\ \/ StreakAfter(streak, resid, gap) = 1
                  \/ /\ gap <= ResetGap
                     /\ StreakAfter(streak, resid, gap) <= streak + 1
<1>1. RtkNeed \in Nat \ {0} /\ RtkGate \in Nat /\ ResetGap \in Nat
  BY ConstantsAssumption
<1> QED  BY <1>1 DEF StreakAfter, Least

LEMMA RtkTyped ==
  ASSUME TypeOK, t # None, odom # None, NEW e \in Int, NEW yaw \in HalfTurns,
         NEW settled \in BOOLEAN, settled => anchored, NEW streak \in 0..RtkNeed,
         TakeRtk(TrueX + e, yaw, settled, streak)
  PROVE  /\ t' \in Int /\ anchored' \in BOOLEAN /\ tYaw' \in HalfTurns \cup {None}
         /\ rtkStreak' \in 0..RtkNeed /\ rtkOk' \in BOOLEAN
         /\ evals' \in Seq(Judgement) /\ Len(evals') <= RtkNeed
         /\ evalAge' \in 0..(ResetGap + 1) \cup {None}
         /\ gpsAge' \in 0..MaxStep \cup {None} /\ mode' \in Modes
<1> DEFINE resid == Abs(AnchorTarget(TrueX + e, yaw) - t)
<1>1. resid \in Int /\ t \in Int
  BY TargetTyped DEF TypeOK, Abs
<1>2. RtkNeed \in Nat \ {0} /\ ResetGap \in Nat /\ MaxStep \in Nat /\ Gap \in Int
  BY ConstantsAssumption DEF TypeOK, Gap
<1>3. /\ rtkStreak' \in 0..RtkNeed /\ rtkOk' \in BOOLEAN
      /\ evals' \in Seq(Judgement) /\ Len(evals') <= RtkNeed
      /\ evalAge' \in 0..(ResetGap + 1) \cup {None}
  <2>1. CASE settled
    <3> DEFINE judged == [good |-> resid <= RtkGate, linked |-> Gap <= ResetGap]
    <3>1. /\ rtkStreak' = StreakAfter(streak, resid, Gap) /\ evalAge' = 0
          /\ evals' = LastOf(RtkNeed, Append(evals, judged))
          /\ rtkOk' = (rtkStreak' >= RtkNeed)
      BY <2>1 DEF TakeRtk
    <3>2. judged \in Judgement
      BY DEF Judgement
    <3> HIDE DEF judged, resid
    <3>3. evals' \in Seq(Judgement) /\ Len(evals') <= RtkNeed
      <4>1. evals' \in Seq(Judgement) /\ Len(evals') \in 1..RtkNeed
        BY <3>1, <3>2, LastJudgements
      <4> QED  BY <1>2, <4>1
    <3>4. rtkStreak' \in 0..RtkNeed
      BY <1>1, <1>2, <3>1, StreakTyped
    <3> QED  BY <1>2, <3>1, <3>3, <3>4
  <2>2. CASE ~settled
    BY <2>2 DEF TakeRtk, TypeOK, Judgement
  <2> QED  BY <2>1, <2>2
<1> HIDE DEF resid
<1>4. CASE SnapAnchor(TrueX + e, yaw, settled) /\ UNCHANGED gpsAge /\ mode' = "GPS_RTK"
  BY <1>3, <1>4, SnapTyped DEF TypeOK, Modes
<1>5. CASE UpdateAnchor(TrueX + e, yaw, settled) /\ mode' = "GPS_SUSPECT"
  <2>1. t' \in Int /\ anchored' = TRUE /\ tYaw' \in HalfTurns \cup {None} /\ gpsAge' = 0
    BY <1>5, UpdateTyped
  <2> QED  BY <1>2, <1>3, <1>5, <2>1 DEF Modes
<1>6. CASE KeepAnchor(settled) /\ UNCHANGED gpsAge /\ mode' = "GPS_SUSPECT"
  BY <1>1, <1>3, <1>6 DEF KeepAnchor, TypeOK, Modes
<1>7. \/ SnapAnchor(TrueX + e, yaw, settled) /\ UNCHANGED gpsAge /\ mode' = "GPS_RTK"
      \/ UpdateAnchor(TrueX + e, yaw, settled) /\ mode' = "GPS_SUSPECT"
      \/ KeepAnchor(settled) /\ UNCHANGED gpsAge /\ mode' = "GPS_SUSPECT"
  BY <1>3 DEF TakeRtk, PcdEver
<1> QED  BY <1>4, <1>5, <1>6, <1>7

LEMMA OtherTyped ==
  ASSUME TypeOK, t # None, odom # None, NEW e \in Int, NEW yaw \in HalfTurns,
         NEW settled \in BOOLEAN, NEW streak \in 0..RtkNeed,
         TakeOther(TrueX + e, yaw, settled, streak)
  PROVE  /\ t' \in Int /\ anchored' \in BOOLEAN /\ tYaw' \in HalfTurns \cup {None}
         /\ gpsAge' \in 0..MaxStep \cup {None} /\ mode' \in Modes
<1>1. mode' \in Modes
  BY DEF TakeOther, SelectSource, Modes
<1>2. CASE UpdateAnchor(TrueX + e, yaw, settled)
  <2>1. t' \in Int /\ anchored' = TRUE /\ tYaw' \in HalfTurns \cup {None} /\ gpsAge' = 0
    BY <1>2, UpdateTyped
  <2>2. 0 \in 0..MaxStep
    BY ConstantsAssumption
  <2> QED  BY <1>1, <2>1, <2>2
<1>3. CASE KeepAnchor(settled) /\ UNCHANGED gpsAge
  BY <1>1, <1>3 DEF KeepAnchor, TypeOK
<1> QED  BY <1>2, <1>3 DEF TakeOther

(* An anchor has a position. *)
AnchorKnown == anchored => t # None

LEMMA YawsTyped ==
  ASSUME TypeOK
  PROVE  /\ OdomYaw \in HalfTurns /\ Correction \in HalfTurns
         /\ \A yaw \in HalfTurns : Wrap(yaw + reversed) \in HalfTurns
         /\ \A yaw \in HalfTurns : Wrap(yaw - OdomYaw) \in HalfTurns
         /\ Wrap(reversed + Correction) \in HalfTurns
<1>1. TrueTh \in HalfTurns /\ reversed \in HalfTurns
  BY ConstantsAssumption DEF TypeOK
<1>2. OdomYaw \in HalfTurns
  BY <1>1, YawsWrap DEF OdomYaw, HalfTurns
<1>3. Correction \in HalfTurns
  BY <1>1 DEF Correction, HalfTurns
<1>4. \A yaw \in HalfTurns : yaw + reversed \in -2..2 /\ yaw - OdomYaw \in -2..2
  BY <1>1, <1>2 DEF HalfTurns
<1>5. reversed + Correction \in -2..2
  BY <1>1, <1>3 DEF HalfTurns
<1> QED  BY <1>2, <1>3, <1>4, <1>5, YawsWrap

LEMMA OlderTyped ==
  ASSUME NEW limit \in Nat, NEW age \in 0..limit \cup {None}
  PROVE  Older(age, limit) \in 0..limit \cup {None} /\ (age # None => Older(age, limit) \in 0..limit)
<1>1. CASE age = None
  BY <1>1 DEF Older
<1>2. CASE age # None
  BY <1>2, ConstantsAssumption DEF Older, Least
<1> QED  BY <1>1, <1>2

LEMMA TypeStep ==
  ASSUME TypeOK, AnchorKnown, [Next]_vars
  PROVE  TypeOK' /\ AnchorKnown'
<1> USE DEF TypeOK, AnchorKnown, config, pose, trust, calibration
<1>1. CASE UNCHANGED vars
  BY <1>1 DEF vars
<1>2. ASSUME NEW rtk \in BOOLEAN, OnFix(rtk)
      PROVE  TypeOK' /\ AnchorKnown'
  BY <1>2, ConstantsAssumption DEF OnFix
<1>3. CASE OnImu
  <2>1. imuYaw' \in HalfTurns
    BY <1>3, YawsTyped DEF OnImu
  <2> QED  BY <1>3, <2>1 DEF OnImu
<1>4. ASSUME NEW x \in Positions, OnOdom(x)
      PROVE  TypeOK' /\ AnchorKnown'
  <2>1. odom' \in Positions /\ thInit' \in BOOLEAN
    BY <1>4 DEF OnOdom
  <2>2. th' \in HalfTurns
    <3>1. CASE imuYaw = None
      BY <1>4, <3>1 DEF OnOdom
    <3>2. CASE imuYaw # None
      <4>1. Wrap(imuYaw - OdomYaw) \in HalfTurns
        BY <3>2, YawsTyped
      <4> QED  BY <1>4, <3>2, <4>1 DEF OnOdom, Smoothed
    <3> QED  BY <3>1, <3>2
  <2>3. t' \in Int \cup {None} /\ (t # None => t' = t)
    BY <1>4 DEF OnOdom, Provisional
  <2> QED  BY <1>4, <2>1, <2>2, <2>3 DEF OnOdom
<1>5. ASSUME NEW e \in PcdErrors, OnPcd(e)
      PROVE  TypeOK' /\ AnchorKnown'
  <2> DEFINE yaw == IF StandstillInit THEN TrueTh ELSE th
             settled == Settled(StandstillInit)
  <2>1. e \in Int /\ yaw \in HalfTurns /\ settled \in BOOLEAN /\ (settled => anchored)
    BY ConstantsAssumption DEF Settled, StandstillInit
  <2>2. th' = yaw /\ pcdAge' = 0
    BY <1>5 DEF OnPcd
  <2>3. \/ KeepAnchor(settled) /\ mode' = mode
        \/ SnapAnchor(TrueX + e, yaw, settled) /\ mode' = "PCD" /\ odom # None
    BY <1>5 DEF OnPcd
  <2>4. calN' \in 0..CalNeed /\ calActive' \in BOOLEAN /\ extYawDone' \in BOOLEAN
    <3>1. CASE StandstillInit
      <4>1. calN' = CalNeed /\ calActive' = TRUE /\ extYawDone' = TRUE
        BY <1>5, <3>1 DEF OnPcd
      <4>2. CalNeed \in 0..CalNeed
        BY ConstantsAssumption
      <4> QED  BY <4>1, <4>2
    <3>2. CASE ~StandstillInit
      <4>1. UNCHANGED calibration
        BY <1>5, <3>2 DEF OnPcd
      <4> QED  BY <4>1
    <3> QED  BY <3>1, <3>2
  <2>5. UNCHANGED <<config, odom, imuYaw, thInit, trust, rtkAge, gpsAge>>
    BY <1>5 DEF OnPcd
  <2> HIDE DEF yaw, settled
  <2>6. /\ t' \in Int \cup {None} /\ anchored' \in BOOLEAN /\ tYaw' \in HalfTurns \cup {None}
        /\ mode' \in Modes /\ AnchorKnown'
    <3>1. CASE KeepAnchor(settled) /\ mode' = mode
      BY <2>1, <3>1 DEF KeepAnchor
    <3>2. CASE SnapAnchor(TrueX + e, yaw, settled) /\ mode' = "PCD" /\ odom # None
      <4>1. t' \in Int /\ anchored' = TRUE /\ tYaw' \in HalfTurns \cup {None}
        BY <2>1, <3>2, SnapTyped
      <4> QED  BY <3>2, <4>1, ConstantsAssumption DEF Modes
    <3> QED  BY <2>3, <3>1, <3>2
  <2>7. pcdAge' \in 0..PcdTimeout
    BY <2>2, ConstantsAssumption
  <2> QED  BY <2>1, <2>2, <2>4, <2>5, <2>6, <2>7
<1>6. ASSUME NEW e \in Errors, NEW measured \in BOOLEAN, OnGps(e, measured)
      PROVE  TypeOK' /\ AnchorKnown'
  <2> DEFINE n == IF measured THEN Least(CalNeed, calN + 1) ELSE calN
             engaged == measured /\ Engages(n)
             yaw == IF engaged THEN Wrap(th + reversed) ELSE th
             settled == Settled(engaged)
             streak == IF engaged THEN 0 ELSE rtkStreak
  <2>1. e \in Int /\ odom # None /\ t # None
    BY <1>6, ConstantsAssumption DEF OnGps, Errors
  <2>2. n \in 0..CalNeed
    BY ConstantsAssumption DEF Least
  <2>3. yaw \in HalfTurns
    BY YawsTyped
  <2>4. settled \in BOOLEAN /\ (settled => anchored) /\ streak \in 0..RtkNeed
    BY ConstantsAssumption DEF Settled
  <2>5. calN' = n /\ th' = yaw /\ calActive' = (IF measured THEN n >= CalNeed ELSE calActive)
    BY <1>6 DEF OnGps
  <2>6. \/ TakeRtk(TrueX + e, yaw, settled, streak)
        \/ TakeOther(TrueX + e, yaw, settled, streak)
    BY <1>6 DEF OnGps
  <2>7. UNCHANGED <<config, odom, imuYaw, thInit, extYawDone, rtkAge, pcdAge>>
    BY <1>6 DEF OnGps
  <2> HIDE DEF n, engaged, yaw, settled, streak
  <2>8. /\ t' \in Int /\ anchored' \in BOOLEAN /\ tYaw' \in HalfTurns \cup {None}
        /\ rtkStreak' \in 0..RtkNeed /\ rtkOk' \in BOOLEAN
        /\ evals' \in Seq(Judgement) /\ Len(evals') <= RtkNeed
        /\ evalAge' \in 0..(ResetGap + 1) \cup {None}
        /\ gpsAge' \in 0..MaxStep \cup {None} /\ mode' \in Modes
    <3>1. CASE TakeRtk(TrueX + e, yaw, settled, streak)
      BY <2>1, <2>3, <2>4, <3>1, RtkTyped
    <3>2. CASE TakeOther(TrueX + e, yaw, settled, streak)
      <4>1. rtkStreak' = streak /\ UNCHANGED <<rtkOk, evalAge, evals>>
        BY <3>2 DEF TakeOther
      <4>2. /\ t' \in Int /\ anchored' \in BOOLEAN /\ tYaw' \in HalfTurns \cup {None}
            /\ gpsAge' \in 0..MaxStep \cup {None} /\ mode' \in Modes
        BY <2>1, <2>3, <2>4, <3>2, OtherTyped
      <4> QED  BY <2>4, <4>1, <4>2 DEF Judgement
    <3> QED  BY <2>6, <3>1, <3>2
  <2>9. calActive' \in BOOLEAN
    <3>1. CASE measured
      <4>1. calActive' = (n >= CalNeed)
        BY <2>5, <3>1
      <4> QED  BY <4>1
    <3>2. CASE ~measured
      <4>1. calActive' = calActive
        BY <2>5, <3>2
      <4> QED  BY <4>1
    <3> QED  BY <3>1, <3>2
  <2>10. t' # None
    BY <2>8, ConstantsAssumption
  <2> QED  BY <2>2, <2>3, <2>5, <2>7, <2>8, <2>9, <2>10 DEF Judgement
<1>7. CASE Tick
  <2>1. /\ rtkAge' = Older(rtkAge, RtkWindow) /\ evalAge' = Older(evalAge, ResetGap + 1)
        /\ pcdAge' = Older(pcdAge, PcdTimeout) /\ gpsAge' = Older(gpsAge, MaxStep)
    BY <1>7 DEF Tick
  <2>2. /\ RtkWindow \in Nat /\ ResetGap + 1 \in Nat /\ PcdTimeout \in Nat /\ MaxStep \in Nat
        /\ rtkAge # None
    BY ConstantsAssumption
  <2>3. /\ rtkAge' \in 0..RtkWindow /\ evalAge' \in 0..(ResetGap + 1) \cup {None}
        /\ pcdAge' \in 0..PcdTimeout \cup {None} /\ gpsAge' \in 0..MaxStep \cup {None}
    <3>1. rtkAge' \in 0..RtkWindow
      BY <2>1, <2>2, OlderTyped
    <3>2. evalAge' \in 0..(ResetGap + 1) \cup {None}
      BY <2>1, <2>2, OlderTyped
    <3>3. pcdAge' \in 0..PcdTimeout \cup {None}
      BY <2>1, <2>2, OlderTyped
    <3>4. gpsAge' \in 0..MaxStep \cup {None}
      BY <2>1, <2>2, OlderTyped
    <3> QED  BY <3>1, <3>2, <3>3, <3>4
  <2> QED  BY <1>7, <2>3 DEF Tick
<1> QED  BY <1>1, <1>2, <1>3, <1>4, <1>5, <1>6, <1>7 DEF Next, Fix, Odom, Pcd, Gps

(* Every variable of map_anchor_node.py keeps to its type, and the anchor is
   never said to be there before it has a position. *)
THEOREM AnchorTypeCorrect == Spec => [](TypeOK /\ AnchorKnown)
<1>1. Init => TypeOK /\ AnchorKnown
  <2> SUFFICES ASSUME Init
               PROVE  TypeOK /\ AnchorKnown
    OBVIOUS
  <2>1. evals \in Seq(Judgement) /\ Len(evals) <= RtkNeed
    BY ConstantsAssumption DEF Init
  <2>2. hybrid \in BOOLEAN /\ yawInit \in BOOLEAN /\ rtkOk \in BOOLEAN
        /\ calActive \in BOOLEAN /\ extYawDone \in BOOLEAN /\ thInit \in BOOLEAN
        /\ anchored \in BOOLEAN
    BY DEF Init
  <2>3. /\ reversed \in HalfTurns /\ odom = None /\ imuYaw = None /\ t = None
        /\ th \in HalfTurns /\ tYaw = None /\ mode \in Modes
    BY DEF Init, HalfTurns, Modes
  <2>4. /\ rtkStreak \in 0..RtkNeed /\ calN \in 0..CalNeed /\ rtkAge \in 0..RtkWindow
        /\ evalAge = None /\ pcdAge = None /\ gpsAge = None /\ ~anchored
    BY ConstantsAssumption DEF Init
  <2> QED  BY <2>1, <2>2, <2>3, <2>4 DEF TypeOK, AnchorKnown, Judgement
<1>2. TypeOK /\ AnchorKnown /\ [Next]_vars => TypeOK' /\ AnchorKnown'
  BY TypeStep
<1> QED  BY <1>1, <1>2, PTL DEF Spec

-----------------------------------------------------------------------------
(* What on_gps does, in the words that the properties use.                  *)

LEMMA TurnsAreSeen ==
  ASSUME TypeOK, NEW n \in Int, Engages(n)
  PROVE  Wrap(th + reversed) # th
<1>1. th \in {0, 1} /\ reversed = 1
  BY DEF Engages, TypeOK, HalfTurns
<1>2. (0 + 1) % 2 = 1 /\ (1 + 1) % 2 = 0
  OBVIOUS
<1> QED  BY <1>1, <1>2 DEF Wrap

LEMMA GpsSteps ==
  ASSUME TypeOK, NEW e \in Errors, NEW measured \in BOOLEAN, OnGps(e, measured)
  PROVE  \E engaged \in BOOLEAN, yaw \in HalfTurns, streak \in 0..RtkNeed :
           /\ e \in Int /\ odom # None /\ t # None /\ thInit
           /\ yaw = th' /\ (engaged => yaw # th) /\ (~engaged => yaw = th)
           /\ Settled(engaged) \in BOOLEAN /\ (Settled(engaged) => anchored)
           /\ streak = IF engaged THEN 0 ELSE rtkStreak
           /\ \/ RtkRecent /\ TakeRtk(TrueX + e, yaw, Settled(engaged), streak)
              \/ TakeOther(TrueX + e, yaw, Settled(engaged), streak)
<1> DEFINE n == IF measured THEN Least(CalNeed, calN + 1) ELSE calN
           engaged == measured /\ Engages(n)
           yaw == IF engaged THEN Wrap(th + reversed) ELSE th
           streak == IF engaged THEN 0 ELSE rtkStreak
<1>1. e \in Int /\ odom # None /\ t # None /\ thInit
  BY ConstantsAssumption DEF OnGps, Errors
<1>2. n \in Int
  BY ConstantsAssumption DEF Least, TypeOK
<1>3. engaged \in BOOLEAN
  BY DEF Engages
<1>4. yaw \in HalfTurns
  BY YawsTyped DEF TypeOK
<1>5. streak \in 0..RtkNeed
  BY ConstantsAssumption DEF TypeOK
<1>6. yaw = th'
  BY DEF OnGps
<1>7. (engaged => yaw # th) /\ (~engaged => yaw = th)
  BY <1>2, TurnsAreSeen
<1>8. \/ RtkRecent /\ TakeRtk(TrueX + e, yaw, Settled(engaged), streak)
      \/ TakeOther(TrueX + e, yaw, Settled(engaged), streak)
  <2>1. SelectSource = "GPS_RTK" => RtkRecent
    BY DEF SelectSource
  <2>2. IF SelectSource = "GPS_RTK" THEN TakeRtk(TrueX + e, yaw, Settled(engaged), streak)
        ELSE TakeOther(TrueX + e, yaw, Settled(engaged), streak)
    BY DEF OnGps
  <2> QED  BY <2>1, <2>2
<1>9. Settled(engaged) \in BOOLEAN /\ (Settled(engaged) => anchored)
  BY DEF Settled
<1> HIDE DEF n, engaged, yaw
<1> QED  BY <1>1, <1>3, <1>4, <1>5, <1>6, <1>7, <1>8, <1>9

-----------------------------------------------------------------------------
(* Yaws are not mixed.                                                      *)

(* Whenever th is turned by calibration or by the matcher, what there was of
   t is given up (_engage_yaw in on_gps, the standstill start in on_pcd). *)
THEOREM AnchorsAreNotMixed == Spec => NoMixedAnchor
<1> DEFINE Unmixed == th' # th /\ calibration' # calibration /\ anchored' => tYaw' = th'
<1>1. TypeOK /\ AnchorKnown /\ [Next]_vars => Unmixed
  <2> SUFFICES ASSUME TypeOK, AnchorKnown, Next, th' # th, calibration' # calibration, anchored'
               PROVE  tYaw' = th'
    BY DEF vars, pose
  <2>1. ASSUME NEW e \in PcdErrors, OnPcd(e)
        PROVE  tYaw' = th'
    <3>1. StandstillInit /\ ~Settled(TRUE) /\ th' = TrueTh
      BY <2>1 DEF OnPcd, Settled
    <3>2. Settled(StandstillInit) = FALSE
      BY <3>1 DEF Settled
    <3>3. \/ KeepAnchor(FALSE)
          \/ SnapAnchor(TrueX + e, TrueTh, FALSE)
      BY <2>1, <3>1, <3>2 DEF OnPcd
    <3> QED  BY <3>1, <3>3 DEF KeepAnchor, SnapAnchor, Anchor
  <2>2. ASSUME NEW e \in Errors, NEW measured \in BOOLEAN, OnGps(e, measured)
        PROVE  tYaw' = th'
    <3>1. PICK engaged \in BOOLEAN, yaw \in HalfTurns, streak \in 0..RtkNeed :
            /\ yaw = th' /\ (~engaged => yaw = th)
            /\ \/ TakeRtk(TrueX + e, yaw, Settled(engaged), streak)
               \/ TakeOther(TrueX + e, yaw, Settled(engaged), streak)
      BY <2>2, GpsSteps
    <3>2. engaged /\ Settled(engaged) = FALSE
      BY <3>1 DEF Settled
    <3>3. \/ SnapAnchor(TrueX + e, yaw, FALSE)
          \/ UpdateAnchor(TrueX + e, yaw, FALSE)
          \/ KeepAnchor(FALSE)
      BY <3>1, <3>2 DEF TakeRtk, TakeOther
    <3> QED  BY <3>1, <3>3 DEF KeepAnchor, SnapAnchor, UpdateAnchor, Anchor
  <2>3. CASE OnImu \/ Tick \/ Fix \/ Odom
    BY <2>3 DEF OnImu, Tick, Fix, Odom, OnFix, OnOdom, pose
  <2> QED  BY <2>1, <2>2, <2>3 DEF Next, Pcd, Gps
<1>2. TypeOK /\ AnchorKnown /\ [Next]_vars => [Unmixed]_vars
  BY <1>1
<1> QED  BY <1>2, AnchorTypeCorrect, PTL DEF Spec, NoMixedAnchor

-----------------------------------------------------------------------------
(* Trust.                                                                   *)

(* The streak counts the last judgements, as many as it says: all good, each
   but the first of them linked to the one before. *)
StreakInv ==
  /\ rtkStreak <= Len(evals)
  /\ \A k \in 1..Len(evals) :
       /\ Len(evals) - rtkStreak < k => evals[k].good
       /\ Len(evals) - rtkStreak + 1 < k => evals[k].linked

LEMMA JudgingKeepsStreak ==
  ASSUME TypeOK, StreakInv, NEW resid \in Int, NEW streak \in Int,
         streak = StreakAfter(rtkStreak, resid, Gap),
         NEW judged \in Judgement,
         judged.good = (resid <= RtkGate), judged.linked = (Gap <= ResetGap),
         NEW kept, kept = LastOf(RtkNeed, Append(evals, judged))
  PROVE  /\ streak <= Len(kept)
         /\ \A k \in 1..Len(kept) :
              /\ Len(kept) - streak < k => kept[k].good
              /\ Len(kept) - streak + 1 < k => kept[k].linked
<1>1. RtkNeed \in Nat \ {0} /\ Gap \in Int /\ rtkStreak \in 0..RtkNeed
  BY ConstantsAssumption DEF TypeOK, Gap
<1>2. evals \in Seq(Judgement) /\ Len(evals) <= RtkNeed
  BY DEF TypeOK, Judgement
<1>3. /\ kept \in Seq(Judgement) /\ Len(kept) \in 1..RtkNeed
      /\ kept[Len(kept)] = judged /\ FollowsOn(kept)
  BY LastJudgements
<1>4. CASE streak = 0
  BY <1>3, <1>4
<1>5. CASE streak # 0
  <2>1. resid <= RtkGate /\ streak \in 0..RtkNeed
        /\ (streak = 1 \/ (Gap <= ResetGap /\ streak <= rtkStreak + 1))
    BY <1>1, <1>5, StreakTyped
  <2>2. judged.good
    BY <2>1
  <2>3. CASE streak = 1
    BY <1>3, <2>2, <2>3
  <2>4. CASE Gap <= ResetGap /\ streak <= rtkStreak + 1
    <3>1. judged.linked
      BY <2>4
    <3>2. Len(evals) \in Nat /\ Len(kept) \in Nat /\ rtkStreak <= Len(evals)
      BY <1>2, <1>3 DEF StreakInv
    <3>3. streak <= Len(kept)
      BY <1>1, <1>3, <2>1, <2>4, <3>2 DEF FollowsOn
    <3>4. ASSUME NEW k \in 1..(Len(kept) - 1)
          PROVE  /\ Len(kept) - streak < k => kept[k].good
                 /\ Len(kept) - streak + 1 < k => kept[k].linked
      <4>1. CASE /\ Len(kept) = Len(evals) + 1
                 /\ \A i \in 1..(Len(kept) - 1) : kept[i] = evals[i]
        <5>1. k \in 1..Len(evals) /\ kept[k] = evals[k]
          BY <3>2, <3>4, <4>1
        <5>2. /\ Len(kept) - streak < k => Len(evals) - rtkStreak < k
              /\ Len(kept) - streak + 1 < k => Len(evals) - rtkStreak + 1 < k
          BY <1>1, <2>4, <3>2, <4>1
        <5> QED  BY <5>1, <5>2 DEF StreakInv
      <4>2. CASE /\ Len(kept) = RtkNeed /\ Len(evals) = RtkNeed
                 /\ \A i \in 1..(Len(kept) - 1) : kept[i] = evals[i + 1]
        <5>1. k + 1 \in 1..Len(evals) /\ kept[k] = evals[k + 1]
          BY <1>1, <3>4, <4>2
        <5>2. /\ Len(kept) - streak < k => Len(evals) - rtkStreak < k + 1
              /\ Len(kept) - streak + 1 < k => Len(evals) - rtkStreak + 1 < k + 1
          BY <1>1, <2>4, <3>2, <4>2
        <5> QED  BY <5>1, <5>2 DEF StreakInv
      <4> QED  BY <1>3, <4>1, <4>2 DEF FollowsOn
    <3>5. \A k \in 1..Len(kept) : k = Len(kept) \/ k \in 1..(Len(kept) - 1)
      BY <3>2
    <3> QED  BY <1>3, <2>2, <3>1, <3>3, <3>4, <3>5
  <2> QED  BY <2>1, <2>3, <2>4
<1> QED  BY <1>4, <1>5

LEMMA RtkKeepsStreak ==
  ASSUME TypeOK, StreakInv, t # None, odom # None, NEW e \in Int, NEW yaw \in HalfTurns,
         NEW engaged \in BOOLEAN, NEW streak,
         streak = IF engaged THEN 0 ELSE rtkStreak,
         TakeRtk(TrueX + e, yaw, Settled(engaged), streak)
  PROVE  StreakInv'
<1> DEFINE resid == Abs(AnchorTarget(TrueX + e, yaw) - t)
<1>1. CASE Settled(engaged)
  <2>1. resid \in Int
    BY TargetTyped DEF TypeOK, Abs
  <2>2. streak = rtkStreak
    BY <1>1 DEF Settled
  <2> DEFINE judged == [good |-> resid <= RtkGate, linked |-> Gap <= ResetGap]
  <2>3. /\ rtkStreak' = StreakAfter(rtkStreak, resid, Gap)
        /\ evals' = LastOf(RtkNeed, Append(evals, judged))
    BY <1>1, <2>2 DEF TakeRtk
  <2>5. /\ judged \in Judgement
        /\ judged.good = (resid <= RtkGate) /\ judged.linked = (Gap <= ResetGap)
    BY DEF Judgement
  <2> HIDE DEF judged
  <2> HIDE DEF resid
  <2>4. rtkStreak' \in Int
    <3>1. Gap \in Int /\ rtkStreak \in 0..RtkNeed /\ RtkNeed \in Nat
      BY ConstantsAssumption DEF TypeOK, Gap
    <3> QED  BY <2>1, <2>3, <3>1, StreakTyped
  <2> QED  BY <2>1, <2>3, <2>4, <2>5, JudgingKeepsStreak DEF StreakInv
<1>2. CASE ~Settled(engaged)
  <2>1. rtkStreak' = streak /\ evals' = evals
    BY <1>2 DEF TakeRtk
  <2>2. CASE engaged
    <3>1. rtkStreak' = 0 /\ Len(evals) \in Nat
      BY <2>1, <2>2 DEF TypeOK
    <3> QED  BY <2>1, <3>1 DEF StreakInv
  <2>3. CASE ~engaged
    BY <2>1, <2>3 DEF StreakInv
  <2> QED  BY <2>2, <2>3
<1> QED  BY <1>1, <1>2

LEMMA StreakStep ==
  ASSUME TypeOK, StreakInv, [Next]_vars
  PROVE  StreakInv'
<1>1. CASE UNCHANGED trust
  BY <1>1 DEF trust, StreakInv
<1>2. ASSUME NEW e \in Errors, NEW measured \in BOOLEAN, OnGps(e, measured)
      PROVE  StreakInv'
  <2>1. PICK engaged \in BOOLEAN, yaw \in HalfTurns, streak \in 0..RtkNeed :
          /\ e \in Int /\ odom # None /\ t # None
          /\ streak = IF engaged THEN 0 ELSE rtkStreak
          /\ \/ TakeRtk(TrueX + e, yaw, Settled(engaged), streak)
             \/ TakeOther(TrueX + e, yaw, Settled(engaged), streak)
    BY <1>2, GpsSteps
  <2>2. CASE TakeRtk(TrueX + e, yaw, Settled(engaged), streak)
    BY <2>1, <2>2, RtkKeepsStreak
  <2>3. CASE TakeOther(TrueX + e, yaw, Settled(engaged), streak)
    <3>1. rtkStreak' = streak /\ evals' = evals
      BY <2>3 DEF TakeOther
    <3>2. CASE engaged
      <4>1. rtkStreak' = 0 /\ Len(evals) \in Nat
        BY <2>1, <3>1, <3>2 DEF TypeOK
      <4> QED  BY <3>1, <4>1 DEF StreakInv
    <3>3. CASE ~engaged
      BY <2>1, <3>1, <3>3 DEF StreakInv
    <3> QED  BY <3>2, <3>3
  <2> QED  BY <2>1, <2>2, <2>3
<1>3. CASE Tick
  BY <1>3 DEF Tick, StreakInv
<1>4. CASE UNCHANGED vars \/ Fix \/ OnImu \/ Odom \/ Pcd
  <2>1. UNCHANGED trust
    BY <1>4 DEF vars, Fix, OnFix, OnImu, Odom, OnOdom, Pcd, OnPcd, trust
  <2> QED  BY <1>1, <2>1
<1> QED  BY <1>2, <1>3, <1>4 DEF Next, Gps

(* gate_rtk: a stream that was distrusted is trusted only after RtkNeed good
   samples in a row, none of them late, whatever came in between. *)
THEOREM TrustHasToBeEarned == Spec => TrustIsEarned
<1> DEFINE Earns == ~rtkOk /\ rtkOk' /\ anchored /\ th' = th => Earned(evals')
<1>1. Init => StreakInv
  BY DEF Init, StreakInv
<1>2. TypeOK /\ StreakInv /\ [Next]_vars => StreakInv'
  BY StreakStep
<1>3. TypeOK /\ TypeOK' /\ StreakInv /\ [Next]_vars => Earns
  <2> SUFFICES ASSUME TypeOK, TypeOK', StreakInv, [Next]_vars,
                      ~rtkOk, rtkOk', anchored, th' = th
               PROVE  Earned(evals')
    OBVIOUS
  <2>1. PICK e \in Errors, measured \in BOOLEAN : OnGps(e, measured)
    <3>1. ~UNCHANGED rtkOk
      OBVIOUS
    <3>2. ~UNCHANGED vars /\ ~Fix /\ ~OnImu /\ ~Odom /\ ~Pcd /\ ~Tick
      BY <3>1 DEF vars, trust, Fix, OnFix, OnImu, Odom, OnOdom, Pcd, OnPcd, Tick
    <3> QED  BY <3>2 DEF Next, Gps
  <2>2. PICK engaged \in BOOLEAN, yaw \in HalfTurns, streak \in 0..RtkNeed :
          /\ yaw = th' /\ (engaged => yaw # th)
          /\ \/ TakeRtk(TrueX + e, yaw, Settled(engaged), streak)
             \/ TakeOther(TrueX + e, yaw, Settled(engaged), streak)
    BY <2>1, GpsSteps
  <2>3. Settled(engaged)
    BY <2>2 DEF Settled
  <2>4. rtkStreak' >= RtkNeed
    BY <2>2, <2>3 DEF TakeRtk, TakeOther
  <2>5. StreakInv'
    BY StreakStep
  <2>6. /\ RtkNeed \in Nat /\ rtkStreak' = RtkNeed /\ Len(evals') = RtkNeed
        /\ DOMAIN evals' = 1..Len(evals')
    BY <2>4, <2>5, ConstantsAssumption DEF TypeOK, StreakInv
  <2> QED  BY <2>5, <2>6 DEF StreakInv, Earned
<1>4. TypeOK /\ TypeOK' /\ StreakInv /\ [Next]_vars => [Earns]_vars
  BY <1>3
<1> QED  BY <1>1, <1>2, <1>4, AnchorTypeCorrect, PTL DEF Spec, TrustIsEarned

-----------------------------------------------------------------------------
(* Which samples move the anchor.                                           *)

(* With a matcher about, a sample of on_gps moves t only if RTK is trusted. *)
LEMMA GpsMovesAnchor ==
  ASSUME TypeOK, PcdEver, NEW e \in Errors, NEW measured \in BOOLEAN, OnGps(e, measured)
  PROVE  \/ t' = t
         \/ \E settled \in BOOLEAN :
              /\ settled => anchored
              /\ odom # None /\ t # None /\ e \in Int
              /\ RtkRecent /\ rtkOk' /\ SnapAnchor(TrueX + e, th', settled)
              /\ anchored /\ th' = th =>
                   settled /\ Abs(AnchorTarget(TrueX + e, th) - t) <= RtkGate
<1>1. PICK engaged \in BOOLEAN, yaw \in HalfTurns, streak \in 0..RtkNeed :
        /\ e \in Int /\ odom # None /\ t # None
        /\ yaw = th' /\ (engaged => yaw # th)
        /\ Settled(engaged) \in BOOLEAN /\ (Settled(engaged) => anchored)
        /\ \/ RtkRecent /\ TakeRtk(TrueX + e, yaw, Settled(engaged), streak)
           \/ TakeOther(TrueX + e, yaw, Settled(engaged), streak)
  BY GpsSteps
<1>2. CASE TakeOther(TrueX + e, yaw, Settled(engaged), streak)
  <2>1. SelectSource # "GPS"
    BY DEF SelectSource
  <2> QED  BY <1>2, <2>1 DEF TakeOther, KeepAnchor
<1>3. CASE RtkRecent /\ TakeRtk(TrueX + e, yaw, Settled(engaged), streak) /\ rtkOk'
  <2> DEFINE resid == Abs(AnchorTarget(TrueX + e, yaw) - t)
  <2>1. SnapAnchor(TrueX + e, yaw, Settled(engaged))
    BY <1>3 DEF TakeRtk
  <2>2. ASSUME anchored, th' = th
        PROVE  Settled(engaged) /\ resid <= RtkGate
    <3>1. Settled(engaged)
      BY <1>1, <2>2 DEF Settled
    <3>2. rtkStreak' >= RtkNeed /\ rtkStreak' = StreakAfter(streak, resid, Gap)
      BY <1>3, <3>1 DEF TakeRtk
    <3>3. RtkNeed \in Nat \ {0}
      BY ConstantsAssumption
    <3>4. rtkStreak' # 0
      BY <3>2, <3>3
    <3> HIDE DEF resid
    <3>5. resid > RtkGate => StreakAfter(streak, resid, Gap) = 0
      BY DEF StreakAfter
    <3>6. resid \in Int /\ RtkGate \in Int
      BY <1>1, TargetTyped, ConstantsAssumption DEF resid, Abs, TypeOK
    <3> QED  BY <3>1, <3>2, <3>4, <3>5, <3>6
  <2> QED  BY <1>1, <1>3, <2>1, <2>2
<1>4. CASE TakeRtk(TrueX + e, yaw, Settled(engaged), streak) /\ ~rtkOk'
  BY <1>4 DEF TakeRtk, KeepAnchor
<1> QED  BY <1>1, <1>2, <1>3, <1>4

(* Once the matcher was heard, only its poses and trusted RTK samples move
   the anchor (the source policy of on_gps). *)
THEOREM MatcherKeepsTheAnchor == Spec => MatcherKeepsAnchor
<1> DEFINE Keeps == anchored /\ PcdEver /\ t' # t => Pcd \/ (rtkOk' /\ RtkRecent)
<1>1. TypeOK /\ AnchorKnown /\ [Next]_vars => [Keeps]_vars
  <2> SUFFICES ASSUME TypeOK, AnchorKnown, Next, anchored, PcdEver, t' # t, ~Pcd
               PROVE  rtkOk' /\ RtkRecent
    OBVIOUS
  <2>1. PICK e \in Errors, measured \in BOOLEAN : OnGps(e, measured)
    <3>1. ~Fix /\ ~OnImu /\ ~Odom /\ ~Tick
      BY DEF Fix, OnFix, OnImu, Odom, OnOdom, Tick, pose, AnchorKnown
    <3> QED  BY <3>1 DEF Next, Gps
  <2> QED  BY <2>1, GpsMovesAnchor
<1> QED  BY <1>1, AnchorTypeCorrect, PTL DEF Spec, MatcherKeepsAnchor

(* What the gate has to be set for: the matcher is right within the gate, and
   a sample is either right within the gate or off by more than twice of it. *)
ErrorsAreTold ==
  /\ \A e \in PcdErrors : Abs(e) <= RtkGate
  /\ \A e \in Errors : Abs(e) <= RtkGate \/ Abs(e) > 2 * RtkGate

(* Then no number of false RTK samples drags an anchor away that is right,
   however they alternate with other messages (on_gps, gate_rtk). *)
THEOREM FalseFixesNeverDrag ==
  ASSUME ErrorsAreTold
  PROVE  Spec => FalseFixNeverDrags
<1> DEFINE Stays ==
      anchored /\ anchored' /\ PcdEver /\ th = TrueTh /\ th' = th /\ Close(t) => Close(t')
<1>1. TypeOK /\ AnchorKnown /\ [Next]_vars => [Stays]_vars
  <2> SUFFICES ASSUME TypeOK, AnchorKnown, Next, anchored, PcdEver, th = TrueTh, th' = th,
                      Close(t)
               PROVE  Close(t')
    OBVIOUS
  <2> USE DEF Close
  <2>1. t \in Int /\ TrueT \in Int /\ RtkGate \in Nat
    BY ConstantsAssumption DEF TypeOK, AnchorKnown
  <2>2. ASSUME NEW e \in Int, Abs(e) <= RtkGate, odom # None, NEW settled \in BOOLEAN,
               settled => anchored, SnapAnchor(TrueX + e, TrueTh, settled)
        PROVE  Close(t')
    <3>1. /\ t' \in Int
          /\ \/ t' = TrueT + e
             \/ t <= t' /\ t' <= TrueT + e
             \/ TrueT + e <= t' /\ t' <= t
      BY <2>1, <2>2, SnapTyped, ConstantsAssumption
    <3>2. -RtkGate <= e /\ e <= RtkGate
      BY <2>1, <2>2, WithinMeans
    <3>3. -RtkGate <= t - TrueT /\ t - TrueT <= RtkGate /\ t - TrueT \in Int
      BY <2>1, WithinMeans
    <3>4. -RtkGate <= t' - TrueT /\ t' - TrueT <= RtkGate /\ t' - TrueT \in Int
      <4>1. RtkGate \in Int
        BY <2>1
      <4> QED  BY <2>1, <3>1, <3>2, <3>3, <4>1, BetweenStaysWithin
    <3> QED  BY <2>1, <3>4, WithinMeans
  <2>3. ASSUME NEW e \in PcdErrors, OnPcd(e)
        PROVE  Close(t')
    <3>1. e \in Int /\ Abs(e) <= RtkGate
      BY ConstantsAssumption DEF ErrorsAreTold
    <3>2. Settled(StandstillInit) \in BOOLEAN /\ (Settled(StandstillInit) => anchored)
      BY DEF Settled, StandstillInit, TypeOK
    <3>3. \/ KeepAnchor(Settled(StandstillInit))
          \/ odom # None /\ SnapAnchor(TrueX + e, TrueTh, Settled(StandstillInit))
      BY <2>3 DEF OnPcd
    <3> QED  BY <2>2, <3>1, <3>2, <3>3 DEF KeepAnchor
  <2>4. ASSUME NEW e \in Errors, NEW measured \in BOOLEAN, OnGps(e, measured), t' # t
        PROVE  Close(t')
    <3>1. PICK settled \in BOOLEAN :
            /\ settled => anchored
            /\ odom # None /\ e \in Int
            /\ SnapAnchor(TrueX + e, TrueTh, settled)
            /\ Abs(AnchorTarget(TrueX + e, TrueTh) - t) <= RtkGate
      BY <2>4, GpsMovesAnchor
    <3>2. AnchorTarget(TrueX + e, TrueTh) = TrueT + e
      BY <3>1, TargetTyped, ConstantsAssumption
    <3>3. AnchorTarget(TrueX + e, TrueTh) - t \in Int
      BY <2>1, <3>1, <3>2
    <3>4. ~(Abs(e) > 2 * RtkGate)
      <4>1. /\ -RtkGate <= AnchorTarget(TrueX + e, TrueTh) - t
            /\ AnchorTarget(TrueX + e, TrueTh) - t <= RtkGate
        BY <2>1, <3>1, <3>3, WithinMeans
      <4>2. -RtkGate <= t - TrueT /\ t - TrueT <= RtkGate
        BY <2>1, WithinMeans
      <4>3. e \in Int /\ 2 * RtkGate \in Nat /\ -(2 * RtkGate) <= e /\ e <= 2 * RtkGate
        BY <2>1, <3>1, <3>2, <4>1, <4>2
      <4> QED  BY <4>3 DEF Abs
    <3>5. Abs(e) <= RtkGate
      BY <3>4 DEF ErrorsAreTold
    <3> QED  BY <2>2, <3>1, <3>5
  <2>5. CASE Fix \/ OnImu \/ Odom \/ Tick
    <3>1. t' = t
      BY <2>5 DEF Fix, OnFix, OnImu, Odom, OnOdom, Tick, pose, AnchorKnown
    <3> QED  BY <3>1
  <2>6. CASE t' = t
    BY <2>6
  <2> QED  BY <2>3, <2>4, <2>5, <2>6 DEF Next, Pcd, Gps
<1> QED  BY <1>1, AnchorTypeCorrect, PTL DEF Spec, FalseFixNeverDrags

-----------------------------------------------------------------------------
(* Convergence.                                                             *)

(* Unless the matcher may set th, calibration alone does: until it rests on
   enough measurements th and the IMU's yaw are off by what the IMU is, and
   from then on th is right, however old the IMU's last yaw is. *)
CalibrationInv ==
  ~yawInit =>
    /\ ~extYawDone
    /\ calActive <=> calN >= CalNeed
    /\ calN > 0 => thInit
    /\ calN < CalNeed /\ imuYaw # None => imuYaw = reversed
    /\ calN < CalNeed /\ thInit => th = Wrap(TrueTh + reversed)
    /\ calN >= CalNeed => th = TrueTh

LEMMA HalfTurnsAddUp ==
  ASSUME TypeOK
  PROVE  /\ Wrap(reversed - OdomYaw) = Wrap(TrueTh + reversed)
         /\ Wrap(Wrap(TrueTh + reversed) + reversed) = TrueTh
         /\ Wrap(reversed + reversed) = 0 /\ Wrap(reversed + 0) = reversed
         /\ Wrap(0 - OdomYaw) = TrueTh
         /\ reversed = 0 => Wrap(TrueTh + reversed) = TrueTh
<1>1. TrueTh \in {0, 1} /\ reversed \in {0, 1}
  BY ConstantsAssumption DEF TypeOK, HalfTurns
<1>2. 0 % 2 = 0 /\ 1 % 2 = 1 /\ 2 % 2 = 0
  OBVIOUS
<1>3. \A x \in {0, 1} : (-x) % 2 = x
  OBVIOUS
<1>4. OdomYaw = TrueTh
  BY <1>1, <1>3 DEF Wrap, OdomYaw
<1> QED  BY <1>1, <1>2, <1>3, <1>4 DEF Wrap

LEMMA CalibrationStep ==
  ASSUME TypeOK, CalibrationInv, [Next]_vars
  PROVE  CalibrationInv'
<1> SUFFICES ASSUME ~yawInit'
             PROVE  /\ ~extYawDone'
                    /\ calActive' <=> calN' >= CalNeed
                    /\ calN' > 0 => thInit'
                    /\ calN' < CalNeed /\ imuYaw' # None => imuYaw' = reversed'
                    /\ calN' < CalNeed /\ thInit' => th' = Wrap(TrueTh + reversed')
                    /\ calN' >= CalNeed => th' = TrueTh
  BY DEF CalibrationInv
<1>1. yawInit' = yawInit /\ reversed' = reversed
  BY DEF Next, vars, Fix, OnFix, OnImu, Odom, OnOdom, Pcd, OnPcd, Gps, OnGps, Tick, config
<1>2. /\ ~yawInit /\ ~extYawDone
      /\ calActive <=> calN >= CalNeed
      /\ calN > 0 => thInit
      /\ calN < CalNeed /\ imuYaw # None => imuYaw = reversed
      /\ calN < CalNeed /\ thInit => th = Wrap(TrueTh + reversed)
      /\ calN >= CalNeed => th = TrueTh
  BY <1>1 DEF CalibrationInv
<1>3. CalNeed \in Nat \ {0} /\ calN \in 0..CalNeed
  BY ConstantsAssumption DEF TypeOK
<1>4. CASE OnImu
  <2>1. UNCHANGED <<calN, calActive, extYawDone, thInit, th>>
    BY <1>4 DEF OnImu, calibration, pose
  <2>2. calN < CalNeed => imuYaw' = reversed
    BY <1>3, <1>4, HalfTurnsAddUp DEF OnImu, Correction
  <2> QED  BY <1>1, <1>2, <2>1, <2>2
<1>5. ASSUME NEW x \in Positions, OnOdom(x)
      PROVE  CalibrationInv'
  <2>1. UNCHANGED <<calN, calActive, extYawDone, imuYaw>> /\ (thInit => thInit')
    BY <1>5 DEF OnOdom, calibration
  <2>2. calN < CalNeed /\ thInit' => th' = Wrap(TrueTh + reversed)
    <3>1. SUFFICES ASSUME calN < CalNeed, thInit'
                   PROVE  th' = Wrap(TrueTh + reversed)
      OBVIOUS
    <3>2. CASE imuYaw = None
      BY <1>2, <1>5, <3>1, <3>2 DEF OnOdom
    <3>3. CASE imuYaw # None
      BY <1>2, <1>5, <3>1, <3>3, HalfTurnsAddUp DEF OnOdom, Smoothed
    <3> QED  BY <3>2, <3>3
  <2>3. calN >= CalNeed => th' = TrueTh
    <3>1. SUFFICES ASSUME calN >= CalNeed
                   PROVE  th' = TrueTh
      OBVIOUS
    <3>2. thInit /\ th = TrueTh
      BY <1>2, <1>3, <3>1
    <3>3. Correction = reversed
      BY <3>1 DEF Correction
    <3>4. imuYaw = Wrap(reversed + Correction) => Wrap(imuYaw - OdomYaw) = TrueTh
      BY <3>3, HalfTurnsAddUp
    <3> QED  BY <1>5, <3>2, <3>4 DEF OnOdom, Smoothed
  <2> QED  BY <1>1, <1>2, <2>1, <2>2, <2>3 DEF CalibrationInv
<1>6. ASSUME NEW e \in PcdErrors, OnPcd(e)
      PROVE  CalibrationInv'
  <2>1. ~StandstillInit
    BY <1>2 DEF StandstillInit
  <2>2. UNCHANGED <<calN, calActive, extYawDone, thInit, th, imuYaw>>
    BY <1>6, <2>1 DEF OnPcd, calibration
  <2> QED  BY <1>1, <1>2, <2>2 DEF CalibrationInv
<1>7. ASSUME NEW e \in Errors, NEW measured \in BOOLEAN, OnGps(e, measured)
      PROVE  CalibrationInv'
  <2> DEFINE n == IF measured THEN Least(CalNeed, calN + 1) ELSE calN
             engaged == measured /\ Engages(n)
  <2>1. UNCHANGED <<extYawDone, thInit, imuYaw>> /\ thInit
    BY <1>7 DEF OnGps
  <2>2. /\ calN' = n /\ calActive' = (IF measured THEN n >= CalNeed ELSE calActive)
        /\ th' = IF engaged THEN Wrap(th + reversed) ELSE th
    BY <1>7 DEF OnGps
  <2>3. n \in 0..CalNeed /\ calN <= n /\ (~measured => n = calN)
    BY <1>3 DEF Least
  <2> HIDE DEF n
  <2>4. calActive' <=> calN' >= CalNeed
    <3>1. CASE measured
      <4>1. calActive' = (n >= CalNeed) /\ calN' = n
        BY <2>2, <3>1
      <4> QED  BY <4>1
    <3>2. CASE ~measured
      <4>1. calActive' = calActive /\ calN' = calN
        BY <2>2, <2>3, <3>2
      <4> QED  BY <1>2, <4>1
    <3> QED  BY <3>1, <3>2
  <2>5. calN' < CalNeed => calN < CalNeed /\ th' = th
    BY <1>3, <2>2, <2>3 DEF Engages
  <2>6. ASSUME calN' >= CalNeed
        PROVE  th' = TrueTh
    <3>1. CASE calN >= CalNeed
      BY <1>2, <2>2, <3>1 DEF Engages
    <3>2. CASE calN < CalNeed
      <4>1. measured /\ n >= CalNeed /\ ~calActive
        BY <1>2, <1>3, <2>2, <2>3, <2>6, <3>2
      <4>2. th = Wrap(TrueTh + reversed)
        BY <1>2, <2>1, <3>2
      <4> QED  BY <2>2, <4>1, <4>2, HalfTurnsAddUp DEF Engages
    <3> QED  BY <1>3, <3>1, <3>2
  <2> QED  BY <1>1, <1>2, <2>1, <2>4, <2>5, <2>6 DEF CalibrationInv
<1>8. CASE UNCHANGED vars \/ Fix \/ Tick
  <2>1. UNCHANGED <<calN, calActive, extYawDone, thInit, th, imuYaw>>
    BY <1>8 DEF vars, Fix, OnFix, Tick, calibration, pose
  <2> QED  BY <1>1, <1>2, <2>1
<1> QED  BY <1>4, <1>5, <1>6, <1>7, <1>8 DEF Next, Odom, Pcd, Gps, CalibrationInv

(* yaw_converged, which releases autonomous driving, means that th is right,
   however many measurements it takes (eval_convergence, YawAutocal). *)
THEOREM ConvergenceIsRight == Spec => []ConvergedIsRight
<1>1. Init => CalibrationInv
  <2> SUFFICES ASSUME Init
               PROVE  CalibrationInv
    OBVIOUS
  <2>1. /\ ~extYawDone /\ calActive = FALSE /\ calN = 0 /\ ~thInit /\ imuYaw = None
        /\ ~(calN >= CalNeed)
    BY ConstantsAssumption DEF Init
  <2> QED  BY <2>1 DEF CalibrationInv
<1>2. TypeOK /\ CalibrationInv /\ [Next]_vars => CalibrationInv'
  BY CalibrationStep
<1>3. CalibrationInv => ConvergedIsRight
  BY DEF CalibrationInv, ConvergedIsRight, MayReportConvergence
<1> QED  BY <1>1, <1>2, <1>3, AnchorTypeCorrect, PTL DEF Spec
=============================================================================

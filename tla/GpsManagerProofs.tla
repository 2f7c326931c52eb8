--------------------------- MODULE GpsManagerProofs ---------------------------
(***************************************************************************)
(* Theorems about GpsManager, for every field, site, gate, threshold and    *)
(* receiver, and any number of moves, drifts and requests.                  *)
(***************************************************************************)
EXTENDS GpsManager, SequenceTheorems, TLAPS

(* A fix that is marked as covered stays a fix, *)
LEMMA CoveredType ==
  ASSUME TypeOK, NEW m \in OnTheWay \cup {None}, Len(requests) < MaxPending
  PROVE  /\ Covered(m) \in OnTheWay \cup {None}
         /\ m = None <=> Covered(m) = None
         /\ m # None => /\ Covered(m).at = m.at /\ Covered(m).truth = m.truth
                        /\ Covered(m).variance = m.variance
<1>1. Len(requests) + 1 \in 0..MaxPending
  BY GpsAssumption DEF TypeOK
<1>2. CASE m # None /\ m.under = None
  <2>1. Covered(m) = [m EXCEPT !.under = Len(requests) + 1]
    BY <1>2 DEF Covered
  <2>2. Covered(m) \in OnTheWay
    BY <1>1, <1>2, <2>1 DEF OnTheWay
  <2> QED  BY <1>2, <2>1, <2>2, NoneAssumption DEF OnTheWay
<1>3. CASE ~(m # None /\ m.under = None)
  BY <1>3 DEF Covered
<1> QED  BY <1>2, <1>3

(* and so does one after a request was served. *)
LEMMA ServedType ==
  ASSUME TypeOK, NEW m \in OnTheWay \cup {None}
  PROVE  /\ Served(m) \in OnTheWay \cup {None}
         /\ m = None <=> Served(m) = None
         /\ m # None => /\ Served(m).at = m.at /\ Served(m).truth = m.truth
                        /\ Served(m).variance = m.variance
<1>1. CASE m # None /\ m.under \notin {None, 0}
  <2>1. m.under - 1 \in 0..MaxPending
    BY <1>1, GpsAssumption DEF OnTheWay
  <2>2. Served(m) = [m EXCEPT !.under = m.under - 1]
    BY <1>1 DEF Served
  <2>3. Served(m) \in OnTheWay
    BY <1>1, <2>1, <2>2 DEF OnTheWay
  <2> QED  BY <1>1, <2>2, <2>3, NoneAssumption DEF OnTheWay
<1>2. CASE ~(m # None /\ m.under \notin {None, 0})
  BY <1>2 DEF Served
<1> QED  BY <1>1, <1>2

LEMMA TypeStep ==
  ASSUME TypeOK, [Next]_vars
  PROVE  TypeOK'
<1> USE GpsAssumption DEF TypeOK, worldVars, managerVars
<1>1. CASE UNCHANGED vars
  BY <1>1 DEF vars
<1>2. ASSUME NEW d \in {-1, 1}, Move(d)
      PROVE  TypeOK'
  <2>1. robot' \in Places /\ estimate' \in Places /\ moves' \in 0..MaxMoves
    BY <1>2 DEF Move
  <2> QED  BY <1>2, <2>1 DEF Move
<1>3. ASSUME NEW d \in {-1, 1}, Drift(d)
      PROVE  TypeOK'
  <2>1. estimate' \in Places /\ drifts' \in 0..MaxDrifts
    BY <1>3 DEF Drift
  <2> QED  BY <1>3, <2>1 DEF Drift
<1>4. CASE SkyChanges
  BY <1>4 DEF SkyChanges
<1>5. ASSUME NEW at \in Places, NEW variance \in Variances, Fix(at, variance)
      PROVE  TypeOK'
  <2>1. raw' \in OnTheWay
    BY <1>5 DEF Fix, OnTheWay
  <2> QED  BY <1>5, <2>1 DEF Fix
<1>6. CASE GoodFix
  <2>1. raw \in OnTheWay
    BY <1>6 DEF GoodFix
  <2>2. CASE SetPose(raw) /\ lostSinceReset' = FALSE
    <3>1. gps' \in OnTheWay \cup {None} /\ queue' \in OnTheWay \cup {None}
      BY <2>1, <2>2, CoveredType DEF SetPose
    <3>2. requests' \in Seq(OnTheWay) /\ Len(requests') <= MaxPending
      BY <2>1, <2>2 DEF SetPose
    <3>3. resetAge' \in 0..Cooldown
      BY <2>2 DEF SetPose
    <3> QED  BY <1>6, <2>2, <3>1, <3>2, <3>3 DEF GoodFix
  <2>3. CASE NoReset(raw) /\ UNCHANGED lostSinceReset
    BY <1>6, <2>1, <2>3 DEF GoodFix, NoReset
  <2> QED  BY <1>6, <2>2, <2>3 DEF GoodFix
<1>7. CASE PoorFix
  BY <1>7 DEF PoorFix
<1>8. CASE EkfCallback
  BY <1>8 DEF EkfCallback
<1>9. CASE Tick
  <2>1. resetAge' \in 0..Cooldown
    BY <1>9 DEF Tick
  <2> QED  BY <1>9, <2>1 DEF Tick
<1>10. CASE OdometryCallback
  BY <1>10 DEF OdometryCallback
<1>11. CASE TimerCallback
  BY <1>11 DEF TimerCallback
<1>12. CASE SetPoseCallback
  <2>1. gps' \in OnTheWay \cup {None}
    BY <1>12, ServedType DEF SetPoseCallback
  <2>2. Head(requests) \in OnTheWay /\ Tail(requests) \in Seq(OnTheWay)
        /\ Len(Tail(requests)) <= MaxPending
    BY <1>12 DEF SetPoseCallback
  <2>3. estimate' \in Places
    BY <1>12, <2>2 DEF SetPoseCallback, OnTheWay
  <2> QED  BY <1>12, <2>1, <2>2, <2>3 DEF SetPoseCallback
<1> QED  BY <1>1, <1>2, <1>3, <1>4, <1>5, <1>6, <1>7, <1>8, <1>9, <1>10, <1>11, <1>12 DEF Next

(* Type correctness: whatever is under way is a fix, positions stay in the
   field, and counts within their bounds. *)
THEOREM GpsTypeCorrect == Spec => []TypeOK
<1>1. Init => TypeOK
  <2> SUFFICES ASSUME Init  PROVE TypeOK
    OBVIOUS
  <2>1. robot \in Places /\ estimate \in Places
    BY GpsAssumption DEF Init, Places
  <2>2. requests \in Seq(OnTheWay) /\ Len(requests) <= MaxPending
    BY GpsAssumption DEF Init
  <2>3. moves \in 0..MaxMoves /\ drifts \in 0..MaxDrifts
    BY GpsAssumption DEF Init
  <2> QED  BY <2>1, <2>2, <2>3 DEF Init, TypeOK
<1>2. TypeOK /\ [Next]_vars => TypeOK'
  BY TypeStep
<1> QED  BY <1>1, <1>2, PTL DEF Spec

-----------------------------------------------------------------------------
(* The site.  The estimate leaves it only by a move or a drift, because what
   will move it otherwise is on the site already where it passed the gate. *)
OnSite(m) == Distance(m.at, Datum) <= Radius

SiteInv ==
  gate = "fix" =>
    /\ raw # None => OnSite(raw)
    /\ gps # None => OnSite(gps)
    /\ queue # None => OnSite(queue)
    /\ \A i \in DOMAIN requests : OnSite(requests[i])
    /\ Distance(estimate, Datum) <= Radius + moves + drifts

(* One step of dead reckoning is one place. *)
LEMMA OneStepAway ==
  ASSUME NEW a \in Int, NEW b \in Int, NEW d \in {-1, 1}
  PROVE  Distance(a + d, b) <= Distance(a, b) + 1
BY DEF Distance

(* What lies between two places is no farther off than one of them. *)
LEMMA BetweenIsNear ==
  ASSUME NEW a \in Int, NEW b \in Int, NEW e \in Int, NEW c \in Int,
         Distance(a, e) + Distance(e, b) = Distance(a, b)
  PROVE  Distance(e, c) <= Distance(a, c) \/ Distance(e, c) <= Distance(b, c)
BY DEF Distance

LEMMA SiteStep ==
  ASSUME TypeOK, SiteInv, [Next]_vars
  PROVE  SiteInv'
<1> SUFFICES ASSUME gate' = "fix"
             PROVE  /\ raw' # None => OnSite(raw')
                    /\ gps' # None => OnSite(gps')
                    /\ queue' # None => OnSite(queue')
                    /\ \A i \in DOMAIN requests' : OnSite(requests'[i])
                    /\ Distance(estimate', Datum) <= Radius + moves' + drifts'
  BY DEF SiteInv, OnSite
<1>1. gate = "fix"
  BY DEF Next, vars, worldVars, Move, Drift, SkyChanges, Fix, GoodFix, PoorFix, EkfCallback, Tick,
         OdometryCallback, TimerCallback, SetPoseCallback
<1>2. /\ raw # None => OnSite(raw)
      /\ gps # None => OnSite(gps)
      /\ queue # None => OnSite(queue)
      /\ \A i \in DOMAIN requests : OnSite(requests[i])
      /\ Distance(estimate, Datum) <= Radius + moves + drifts
  BY <1>1 DEF SiteInv
<1>3. /\ estimate \in Int /\ Datum \in Int /\ Radius \in Nat /\ moves \in Nat /\ drifts \in Nat
  BY GpsAssumption DEF TypeOK, Places
<1>4. CASE UNCHANGED vars
  BY <1>2, <1>4 DEF vars, worldVars
<1>5. ASSUME NEW d \in {-1, 1}, Move(d) \/ Drift(d)
      PROVE  /\ UNCHANGED <<raw, gps, queue, requests>>
             /\ Distance(estimate', Datum) <= Radius + moves' + drifts'
  <2>1. Distance(estimate + d, Datum) <= Distance(estimate, Datum) + 1
    BY <1>3, OneStepAway
  <2>2. {Distance(estimate, Datum), Distance(estimate + d, Datum)} \subseteq Int
    BY <1>3 DEF Distance
  <2>3. Distance(estimate + d, Datum) <= Radius + moves + drifts + 1
    BY <1>2, <1>3, <2>1, <2>2
  <2>4. CASE Move(d)
    BY <1>3, <2>2, <2>3, <2>4 DEF Move
  <2>5. CASE Drift(d)
    BY <1>3, <2>2, <2>3, <2>5 DEF Drift
  <2> QED  BY <1>5, <2>4, <2>5
<1>6. ASSUME NEW at \in Places, NEW variance \in Variances, Fix(at, variance)
      PROVE  OnSite(raw') /\ UNCHANGED <<gps, queue, requests, estimate, moves, drifts>>
  BY <1>1, <1>6 DEF Fix, Passes, FixGate, OnSite, worldVars
<1>7. CASE GoodFix
  <2>1. raw # None /\ raw \in OnTheWay /\ gps' # None /\ raw' = None
        /\ UNCHANGED <<estimate, moves, drifts>>
    <3>1. raw # None /\ raw \in OnTheWay
      BY <1>7 DEF GoodFix, TypeOK
    <3>2. CASE SetPose(raw)
      BY <1>7, <3>1, <3>2, CoveredType DEF GoodFix, SetPose, worldVars
    <3>3. CASE NoReset(raw)
      BY <1>7, <3>1, <3>3 DEF GoodFix, NoReset, worldVars
    <3> QED  BY <1>7, <3>2, <3>3 DEF GoodFix
  <2>2. CASE SetPose(raw)
    <3>1. OnSite(gps')
      BY <1>2, <2>1, <2>2, CoveredType DEF SetPose, OnSite
    <3>2. queue' # None => OnSite(queue')
      BY <1>2, <2>2, CoveredType DEF SetPose, OnSite, TypeOK
    <3>3. requests' = Append(requests, raw) /\ requests \in Seq(OnTheWay)
      BY <2>2 DEF SetPose, TypeOK
    <3>4. \A i \in DOMAIN requests' : OnSite(requests'[i])
      BY <1>2, <2>1, <3>3 DEF OnSite
    <3> QED  BY <1>2, <2>1, <3>1, <3>2, <3>4
  <2>3. CASE NoReset(raw)
    BY <1>2, <2>1, <2>3 DEF NoReset
  <2> QED  BY <1>7, <2>2, <2>3 DEF GoodFix
<1>8. CASE PoorFix
  BY <1>2, <1>8 DEF PoorFix, worldVars
<1>9. CASE EkfCallback \/ Tick \/ SkyChanges
  BY <1>2, <1>9 DEF EkfCallback, Tick, SkyChanges, worldVars
<1>10. CASE OdometryCallback
  BY <1>2, <1>10 DEF OdometryCallback, worldVars
<1>11. CASE TimerCallback
  <2>1. PICK e \in Places :
          /\ Distance(estimate, e) + Distance(e, queue.at) = Distance(estimate, queue.at)
          /\ estimate' = e
    BY <1>11 DEF TimerCallback
  <2>2. queue.at \in Int /\ e \in Int
    BY <1>11, GpsAssumption DEF TimerCallback, TypeOK, OnTheWay, Places
  <2>3. Distance(queue.at, Datum) <= Radius
    BY <1>2, <1>11 DEF TimerCallback, OnSite
  <2>4. Distance(e, Datum) <= Distance(estimate, Datum)
        \/ Distance(e, Datum) <= Distance(queue.at, Datum)
    BY <1>3, <2>1, <2>2, BetweenIsNear
  <2>5. {Distance(e, Datum), Distance(estimate, Datum), Distance(queue.at, Datum)} \subseteq Int
    BY <1>3, <2>2 DEF Distance
  <2>6. Distance(e, Datum) <= Radius + moves + drifts
    BY <1>2, <1>3, <2>3, <2>4, <2>5
  <2> QED  BY <1>2, <1>11, <2>1, <2>6 DEF TimerCallback, worldVars
<1>12. CASE SetPoseCallback
  <2>1. requests \in Seq(OnTheWay) /\ requests # <<>>
    BY <1>12 DEF SetPoseCallback, TypeOK
  <2>2. OnSite(requests[1]) /\ requests[1] \in OnTheWay
    BY <1>2, <2>1
  <2>3. estimate' = requests[1].at /\ UNCHANGED <<raw, moves, drifts>> /\ queue' = None
    BY <1>12, <2>1 DEF SetPoseCallback, worldVars
  <2>4. gps' # None => OnSite(gps')
    BY <1>2, <1>12, ServedType DEF SetPoseCallback, OnSite, TypeOK
  <2>5. \A i \in DOMAIN requests' : OnSite(requests'[i])
    <3> SUFFICES ASSUME NEW i \in DOMAIN Tail(requests)
                 PROVE  OnSite(Tail(requests)[i])
      BY <1>12 DEF SetPoseCallback
    <3>1. i + 1 \in DOMAIN requests /\ Tail(requests)[i] = requests[i + 1]
      BY <2>1
    <3> QED  BY <1>2, <3>1
  <2>6. Distance(estimate', Datum) \in Int /\ Distance(estimate', Datum) <= Radius
    BY <1>3, <2>2, <2>3, GpsAssumption DEF OnSite, OnTheWay, Places, Distance
  <2>7. Distance(estimate', Datum) <= Radius + moves' + drifts'
    BY <1>3, <2>3, <2>6
  <2> QED  BY <1>2, <2>3, <2>4, <2>5, <2>7
<1> QED
  BY <1>2, <1>4, <1>5, <1>6, <1>7, <1>8, <1>9, <1>10, <1>11, <1>12 DEF Next

(* Behind the fix gate the estimate stays within the radius of the datum, but
   for what dead reckoning adds, for every receiver, threshold and cool-down:
   no fix and no reset takes it off the site (gps_fix_gate.py:88-101). *)
THEOREM StaysOnSite == Spec => []EstimateStaysOnSite
<1>1. Init => SiteInv
  <2> SUFFICES ASSUME Init  PROVE SiteInv
    OBVIOUS
  <2>1. Distance(estimate, Datum) = 0 /\ Radius + moves + drifts = Radius
    BY GpsAssumption DEF Init, Distance
  <2> QED  BY <2>1, GpsAssumption DEF Init, SiteInv
<1>2. TypeOK /\ SiteInv /\ [Next]_vars => SiteInv'
  BY SiteStep
<1>3. SiteInv => EstimateStaysOnSite
  BY DEF SiteInv, EstimateStaysOnSite
<1> QED  BY <1>1, <1>2, <1>3, GpsTypeCorrect, PTL DEF Spec

-----------------------------------------------------------------------------
(* Accuracy.  A fix that the manager has yet to judge needs to be accurate only
   where its variance will let it pass. *)
IsAccurate(m) == Distance(m.at, m.truth) <= Spread[Best]

VarianceIsKnown == reports \/ (gate = "quality" /\ RequireCov)

RtkInv ==
  VarianceIsKnown =>
    /\ raw # None /\ raw.variance <= ResetCov => IsAccurate(raw)
    /\ gps # None => IsAccurate(gps)
    /\ queue # None => IsAccurate(queue)
    /\ \A i \in DOMAIN requests : IsAccurate(requests[i])

LEMMA RtkStep ==
  ASSUME TypeOK, RtkInv, [Next]_vars
  PROVE  RtkInv'
<1> SUFFICES ASSUME VarianceIsKnown'
             PROVE  /\ raw' # None /\ raw'.variance <= ResetCov => IsAccurate(raw')
                    /\ gps' # None => IsAccurate(gps')
                    /\ queue' # None => IsAccurate(queue')
                    /\ \A i \in DOMAIN requests' : IsAccurate(requests'[i])
  BY DEF RtkInv, IsAccurate
<1>1. VarianceIsKnown
  BY DEF VarianceIsKnown, Next, vars, worldVars, Move, Drift, SkyChanges, Fix, GoodFix, PoorFix,
         EkfCallback, Tick, OdometryCallback, TimerCallback, SetPoseCallback
<1>2. /\ raw # None /\ raw.variance <= ResetCov => IsAccurate(raw)
      /\ gps # None => IsAccurate(gps)
      /\ queue # None => IsAccurate(queue)
      /\ \A i \in DOMAIN requests : IsAccurate(requests[i])
  BY <1>1 DEF RtkInv
<1>3. CASE UNCHANGED <<raw, gps, queue, requests>>
  BY <1>2, <1>3
<1>4. ASSUME NEW at \in Places, NEW variance \in Variances, Fix(at, variance)
      PROVE  /\ raw'.variance <= ResetCov => IsAccurate(raw')
             /\ UNCHANGED <<gps, queue, requests>>
  <2>1. CASE reports
    <3>1. raw' = [at |-> at, truth |-> robot, variance |-> variance, under |-> None]
          /\ Distance(at, robot) <= Spread[variance]
      BY <1>4, <2>1 DEF Fix
    <3>2. ASSUME variance <= ResetCov
          PROVE  Distance(at, robot) <= Spread[Best]
      <4>1. Spread[variance] <= Spread[Best]
        BY <3>2, RtkAssumption
      <4>2. {Distance(at, robot), Spread[variance], Spread[Best]} \subseteq Int
        BY RtkAssumption, GpsAssumption DEF Distance, Places, TypeOK
      <4> QED  BY <3>1, <4>1, <4>2
    <3> QED  BY <1>4, <3>1, <3>2 DEF Fix, IsAccurate
  <2>2. CASE ~reports
    BY <1>1, <1>4, <2>2 DEF VarianceIsKnown, Fix, Passes, QualityGate
  <2> QED  BY <2>1, <2>2
<1>5. CASE GoodFix
  <2>1. raw \in OnTheWay /\ raw # None /\ raw' = None /\ IsAccurate(raw)
    BY <1>2, <1>5 DEF GoodFix, TypeOK
  <2>2. CASE SetPose(raw)
    <3>1. IsAccurate(gps') /\ (queue' # None => IsAccurate(queue'))
      BY <1>2, <2>1, <2>2, CoveredType DEF SetPose, IsAccurate, TypeOK
    <3>2. requests' = Append(requests, raw) /\ requests \in Seq(OnTheWay)
      BY <2>2 DEF SetPose, TypeOK
    <3>3. \A i \in DOMAIN requests' : IsAccurate(requests'[i])
      BY <1>2, <2>1, <3>2 DEF IsAccurate
    <3> QED  BY <2>1, <3>1, <3>3
  <2>3. CASE NoReset(raw)
    BY <1>2, <2>1, <2>3 DEF NoReset
  <2> QED  BY <1>5, <2>2, <2>3 DEF GoodFix
<1>6. CASE PoorFix
  BY <1>2, <1>6 DEF PoorFix
<1>7. CASE OdometryCallback
  BY <1>2, <1>7 DEF OdometryCallback
<1>8. CASE TimerCallback
  BY <1>2, <1>8 DEF TimerCallback
<1>9. CASE SetPoseCallback
  <2>1. requests \in Seq(OnTheWay) /\ requests # <<>>
    BY <1>9 DEF SetPoseCallback, TypeOK
  <2>2. gps' # None => IsAccurate(gps')
    BY <1>2, <1>9, ServedType DEF SetPoseCallback, IsAccurate, TypeOK
  <2>3. \A i \in DOMAIN requests' : IsAccurate(requests'[i])
    <3> SUFFICES ASSUME NEW i \in DOMAIN Tail(requests)
                 PROVE  IsAccurate(Tail(requests)[i])
      BY <1>9 DEF SetPoseCallback
    <3>1. i + 1 \in DOMAIN requests /\ Tail(requests)[i] = requests[i + 1]
      BY <2>1
    <3> QED  BY <1>2, <3>1
  <2> QED  BY <1>2, <1>9, <2>2, <2>3 DEF SetPoseCallback
<1> QED
  BY <1>2, <1>3, <1>4, <1>5, <1>6, <1>7, <1>8, <1>9
     DEF Next, vars, Move, Drift, SkyChanges, EkfCallback, Tick

(* Where variances are known, or must be, every fix in the filter and every pose
   it is reset to is as accurate as RTK is, for every relation of variance and
   error in which a variance of RTK quality says so (RtkAssumption). *)
THEOREM FixesAreAccurate == Spec => []RtkFixesAreAccurate
<1>1. Init => RtkInv
  BY DEF Init, RtkInv
<1>2. TypeOK /\ RtkInv /\ [Next]_vars => RtkInv'
  BY RtkStep
<1>3. RtkInv => RtkFixesAreAccurate
  BY DEF RtkInv, RtkFixesAreAccurate, VarianceIsKnown, IsAccurate
<1> QED  BY <1>1, <1>2, <1>3, GpsTypeCorrect, PTL DEF Spec

-----------------------------------------------------------------------------
(* Resets.  A loss that the manager remembers is one since its last reset. *)
LossInv == gpsWasLost => lostSinceReset

(* A request follows a fix that was poor, and later than the last request, and
   a whole cool-down, whatever the filter and the receiver do in between. *)
THEOREM ResetsFollowLosses == Spec => OneResetPerLoss
<1> DEFINE Justified == Len(requests') > Len(requests) =>
                          lostSinceReset /\ resetAge \in {None, Cooldown}
<1>1. Init => LossInv
  BY DEF Init, LossInv
<1>2. LossInv /\ [Next]_vars => LossInv'
  BY DEF LossInv, Next, vars, worldVars, managerVars, Move, Drift, SkyChanges, Fix, GoodFix,
         PoorFix, EkfCallback, Tick, OdometryCallback, TimerCallback, SetPoseCallback
<1>3. ASSUME TypeOK, LossInv, [Next]_vars
      PROVE  [Justified]_vars
  <2>1. CASE GoodFix
    BY <1>3, <2>1 DEF GoodFix, NoReset, LossInv, CanReset, TypeOK
  <2>2. CASE SetPoseCallback
    <3>1. Len(requests') = Len(requests) - 1 /\ Len(requests) \in Nat
      BY <1>3, <2>2 DEF SetPoseCallback, TypeOK
    <3> QED  BY <3>1
  <2>3. CASE UNCHANGED requests
    BY <1>3, <2>3 DEF TypeOK
  <2> QED
    BY <1>3, <2>1, <2>2, <2>3 DEF Next, vars, Move, Drift, SkyChanges, Fix, PoorFix, EkfCallback,
                                  Tick, OdometryCallback, TimerCallback
<1> QED  BY <1>1, <1>2, <1>3, GpsTypeCorrect, PTL DEF Spec, OneResetPerLoss

=============================================================================

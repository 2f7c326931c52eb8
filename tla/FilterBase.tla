----------------------------- MODULE FilterBase -----------------------------
(***************************************************************************)
(* The recursive filter that RosFilter drives (filter_base.cpp), as far as *)
(* its clients can tell: whether it has been initialised, the time stamp   *)
(* of its estimate, the control term it predicts with, and the estimate.   *)
(*                                                                         *)
(* The estimate is represented by the measurements folded into it, in the  *)
(* order in which they were folded.  What the two filters make of them     *)
(* (ekf.cpp, ukf.cpp) is the subject of KalmanFilter.                      *)
(***************************************************************************)
EXTENDS Integers, Sequences, Functions

VARIABLES
  initialized,          \* initialized_
  lastMeasurementTime,  \* last_measurement_time_
  control,              \* latest_control_, named by the command it came from
  estimate              \* state_ and estimate_error_covariance_

filterVars == <<initialized, lastMeasurementTime, control, estimate>>

(* FilterBase::reset, with the last measurement time that loadParams sets
   so that the first delta is not huge. *)
FilterInit(startTime) ==
  /\ initialized = FALSE
  /\ lastMeasurementTime = startTime
  /\ control = 0
  /\ estimate = <<>>

(* Predict to the measurement's time if that is later than the filter's own
   time, then correct; a measurement from the past only corrects and leaves
   the filter's time alone.  The first measurement initialises the state and
   always sets the time. *)
ProcessMeasurement(m) ==
  /\ initialized' = TRUE
  /\ estimate' = Append(estimate, m)
  /\ lastMeasurementTime' =
       IF initialized /\ m.time < lastMeasurementTime
       THEN lastMeasurementTime
       ELSE m.time

(* setState, setEstimateErrorCovariance and setLastMeasurementTime, which
   leave initialized_ and the control term as they are. *)
SetState(newEstimate, time) ==
  /\ estimate' = newEstimate
  /\ lastMeasurementTime' = time
  /\ UNCHANGED initialized

(* predict followed by setLastMeasurementTime: the time moves, and the
   measurements folded into the estimate are the same. *)
PredictTo(time) ==
  /\ lastMeasurementTime' = time
  /\ UNCHANGED <<initialized, control, estimate>>

(* The measurements the estimate is made of. *)
Fused == Range(estimate)

=============================================================================

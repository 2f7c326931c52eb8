---------------------------- MODULE MCKalmanFilter --------------------------
(***************************************************************************)
(* KalmanFilter on small instances for TLC.                                *)
(***************************************************************************)
EXTENDS KalmanFilter

(* A sound measurement is off by a unit at most. *)
SmallDeviations == {-1, 1}

(* A variance that is negative, and one of zero. *)
ClaimedCovariances == {-3, 0}

=============================================================================

---------------------------- MODULE MCGpsManager ----------------------------
(* A receiver on a site of three places, around it one on each side that is off
   the site; a fix is exact, off by one, or anywhere. *)
EXTENDS GpsManager

MCSpread == [v \in Variances |-> CASE v = 1 -> 0 [] v = 2 -> 1 [] OTHER -> Field]
=============================================================================

----------------------------- MODULE MCMapAnchor -----------------------------
(***************************************************************************)
(* MapAnchor on a small instance for TLC: poses of the matcher and plain    *)
(* fixes are off to different sides, RTK fixes are right or far outside the *)
(* gate.                                                                    *)
(***************************************************************************)
EXTENDS MapAnchor

OtherSide == {-1}

=============================================================================

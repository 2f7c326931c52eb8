---------------------------- MODULE InOrderFusion ----------------------------
(***************************************************************************)
(* What smooth_lagged_data promises (doc/state_estimation_nodes.rst,       *)
(* smooth_lagged_data): late measurements are folded in as if they had     *)
(* come in time.  Seen from outside, the filter holds a set of             *)
(* measurements that only grows, whatever order they arrive in, until a    *)
(* set_pose empties it.  The promise ends (exact becomes false) when a     *)
(* measurement is older than the history kept, and a set_pose renews it.   *)
(***************************************************************************)
VARIABLES
  fused,  \* the measurements that the estimate accounts for
  exact   \* each of them is accounted for once, at its own time

Init == fused = {} /\ exact = TRUE

Absorb ==
  /\ exact
  /\ fused \subseteq fused'
  /\ UNCHANGED exact

SetPose ==
  /\ fused' = {}
  /\ exact' = TRUE

FallBack ==
  /\ exact' = FALSE

Next == Absorb \/ SetPose \/ FallBack

Spec == Init /\ [][Next]_<<fused, exact>>

=============================================================================

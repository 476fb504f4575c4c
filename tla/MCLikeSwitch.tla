---------------------------- MODULE MCLikeSwitch ----------------------------
(* LikeSwitch on a small instance.  Requests and workers are               *)
(* interchangeable, but symmetry would not be sound for TablesConverge.    *)
EXTENDS LikeSwitch
=============================================================================

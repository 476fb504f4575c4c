----------------------------- MODULE MCAccount -----------------------------
(* Account, and with it FollowSync, Session, Profile and Publication, on a *)
(* small instance.                                                         *)
EXTENDS Account, TLC

\* Requests and tabs are interchangeable.
Symmetry == Permutations(Req) \union Permutations(Tab)
=============================================================================

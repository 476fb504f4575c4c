----------------------------- MODULE MCFollowFeed ---------------------------
(* FollowFeed on a small instance. *)
EXTENDS FollowFeed, TLC

\* Users, videos, requests and workers are interchangeable.
Symmetry == Permutations(User) \union Permutations(Video)
            \union Permutations(Req) \union Permutations(Worker)
=============================================================================

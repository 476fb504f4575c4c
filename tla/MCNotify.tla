------------------------------ MODULE MCNotify ------------------------------
(* Notify on a small instance. *)
EXTENDS Notify, TLC

\* Actors, windows and workers are interchangeable.
Symmetry == Permutations(Actor) \union Permutations(Bucket) \union Permutations(Worker)
=============================================================================

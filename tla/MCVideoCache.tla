---------------------------- MODULE MCVideoCache ----------------------------
(* VideoCache on a small instance. *)
EXTENDS VideoCache, TLC

\* Readers, requests and handlers are interchangeable.
Symmetry == Permutations(Reader) \union Permutations(Op) \union Permutations(Worker)
=============================================================================

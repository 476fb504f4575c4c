----------------------------- MODULE MCHotScore -----------------------------
(* HotScore on a small instance. *)
EXTENDS HotScore, TLC

\* Sources and workers are interchangeable.
Symmetry == Permutations(Source) \union Permutations(Worker)
=============================================================================

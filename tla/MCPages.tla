------------------------------ MODULE MCPages ------------------------------
(* Pages on a small instance. *)
EXTENDS Pages

\* The follow feed has the most states before anything happens to it.
MCMaxChange == [l \in List |-> IF l = "follow" THEN 1 ELSE 2]
=============================================================================

------------------------------ MODULE MCRollups ------------------------------
(* Small instance of Dashboard, and so of Rollups, for TLC: short days. *)
EXTENDS Dashboard
Symmetry == Permutations(Runs)
=============================================================================

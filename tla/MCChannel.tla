------------------------------ MODULE MCChannel -----------------------------
(* Instances of a channel for TLC. *)
EXTENDS Channel, TLC

Symmetry == Permutations(Procs) \cup Permutations(Inodes) \cup Permutations(Geoms)
=============================================================================

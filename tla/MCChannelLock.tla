---------------------------- MODULE MCChannelLock ---------------------------
(* Instances of the writer lock for TLC. *)
EXTENDS ChannelLock, TLC

Symmetry == Permutations(Procs) \cup Permutations(Inodes)
=============================================================================

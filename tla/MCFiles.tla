------------------------------ MODULE MCFiles -------------------------------
(* Instances of Files for TLC. *)
EXTENDS Files, TLC

Symmetry == Permutations(Procs) \cup Permutations(Inodes)
=============================================================================

-------------------------- MODULE MCCommitProtocol --------------------------
(* Instances of CommitProtocol for TLC. *)
EXTENDS CommitImplements, TLC

Symmetry == Permutations(Pages) \cup Permutations(Content)
=============================================================================

----------------------------- MODULE MCKeySlots -----------------------------
(* Instances of KeySlots for TLC. *)
EXTENDS KeySlots, TLC

Symmetry == Permutations(Keys)
=============================================================================

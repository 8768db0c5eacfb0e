----------------------------- MODULE MCPageBody -----------------------------
(* Instance of PageBody for TLC: room for three entries and two bytes. *)
EXTENDS PageBody
=============================================================================

---------------------------- MODULE MCPageCache ----------------------------
(* A small instance of PageCache for TLC: three pages, one committed.       *)
EXTENDS PageCache
=============================================================================

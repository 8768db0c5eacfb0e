--------------------------- MODULE MCSwiftBinding ---------------------------
(***************************************************************************)
(* The Swift binding with three calls, two transactions, three savepoints  *)
(* of two names and two writes.                                            *)
(***************************************************************************)
EXTENDS SwiftBinding
=============================================================================

---------------------------- MODULE MCPyBinding -----------------------------
(***************************************************************************)
(* The Python binding: one thread with nested savepoints, or with two      *)
(* transactions that use one name, and two threads at once with fewer.     *)
(***************************************************************************)
EXTENDS PyBinding

CONSTANTS p, q

MCThreads == {p, q}
MCLimits == {[threads |-> {p}, names |-> {"a", "b"}, txns |-> 1, marks |-> 2],
             [threads |-> {p}, names |-> {"a"}, txns |-> 2, marks |-> 2],
             [threads |-> {p, q}, names |-> {}, txns |-> 2, marks |-> 0],
             [threads |-> {p, q}, names |-> {"a"}, txns |-> 1, marks |-> 1]}
=============================================================================

------------------------------ MODULE MCTables ------------------------------
(* A small instance of Tables for TLC. *)
EXTENDS Tables

MCPageIds == 1..31
=============================================================================

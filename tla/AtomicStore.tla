----------------------------- MODULE AtomicStore -----------------------------
(***************************************************************************)
(* What the engine promises its client, with no pages, slots or fsyncs in  *)
(* it: one stored state that changes only when a commit takes effect, and  *)
(* a handle that shows it.  README.md, "after a crash, you just open the   *)
(* file and it's correct".                                                 *)
(*                                                                         *)
(* CommitProtocol is shown to implement this module, with "stored" mapped  *)
(* to the bytes the medium really holds.                                   *)
(***************************************************************************)

CONSTANTS States,     \* the states a database can be in
          EmptyState, \* the state a new database is created in
          None        \* "no state": nothing staged, or no usable handle

VARIABLES stored,     \* the state a crash falls back to
          staged,     \* a state whose commit has begun to take effect, or None
          view        \* the state the open handle shows, or None

absVars == <<stored, staged, view>>

AbsInit ==
    /\ stored = EmptyState
    /\ staged = None
    /\ view = EmptyState

\* A commit reaches the point where a crash may already keep it.
Stage(s) ==
    /\ view # None
    /\ staged = None
    /\ staged' = s
    /\ UNCHANGED <<stored, view>>

\* commit() returns Ok: the staged state is now the stored one.
Acknowledge ==
    /\ staged # None
    /\ view # None
    /\ stored' = staged
    /\ view' = staged
    /\ staged' = None

\* The handle is poisoned or closed.  Nothing stored changes.
Lose ==
    /\ view' = None
    /\ UNCHANGED <<stored, staged>>

\* A crash decides a staged commit one way or the other, never partly.
Crash ==
    /\ stored' \in {stored} \cup ({staged} \ {None})
    /\ staged' = None
    /\ view' = None

Reopen ==
    /\ view = None
    /\ staged = None
    /\ view' = stored
    /\ UNCHANGED <<stored, staged>>

AbsNext ==
    \/ \E s \in States : Stage(s)
    \/ Acknowledge
    \/ Lose
    \/ Crash
    \/ Reopen

AbsSpec == AbsInit /\ [][AbsNext]_absVars
=============================================================================

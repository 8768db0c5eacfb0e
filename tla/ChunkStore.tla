----------------------------- MODULE ChunkStore -----------------------------
(***************************************************************************)
(* What the engine promises its caller about stored chunks: a map from     *)
(* handles to values with their tag and client byte, and a table of named  *)
(* roots, both changed inside one transaction at a time and restored       *)
(* exactly by savepoints, rollback and reopening.  A handle is minted at   *)
(* most once per lineage.  A call that fails changes nothing, except that  *)
(* a batch delete keeps the part it got through.                           *)
(***************************************************************************)
EXTENDS Integers, Sequences

CONSTANTS Handles,   \* 1 to the last handle that can be minted
          Values, Tags, Bytes, RootNames,
          Absent     \* what a handle with no chunk maps to, and an unset name

VARIABLES db,      \* the working chunks, names and next handle
          saved,   \* the same at the last commit
          marks,   \* the same at each savepoint
          open     \* a transaction is active

vars == <<db, saved, marks, open>>

Empty == [chunk |-> [h \in Handles |-> Absent], name |-> [n \in RootNames |-> Absent], next |-> 1]

Init == db = Empty /\ saved = Empty /\ marks = <<>> /\ open = FALSE

-----------------------------------------------------------------------------
\* What one call may do to the working state.
Allocates(old, new) ==
    /\ old.next \in Handles
    /\ \E v \in Values, tag \in Tags \cup {0} :
          new = [old EXCEPT !.chunk[old.next] = [value |-> v, tag |-> tag, byte |-> 0],
                            !.next = @ + 1]

Live(old) == {h \in Handles : old.chunk[h] # Absent}
Updates(old, new) ==
    \E h \in Live(old), v \in Values : new = [old EXCEPT !.chunk[h].value = v]
SetsClientByte(old, new) ==
    \E h \in Live(old), b \in Bytes : new = [old EXCEPT !.chunk[h].byte = b]
Deletes(old, new) ==
    \E hs \in SUBSET Live(old) :
        new = [old EXCEPT !.chunk = [h \in Handles |-> IF h \in hs THEN Absent ELSE @[h]]]
Names(old, new) ==
    \E n \in RootNames, h \in Handles \cup {Absent} : new = [old EXCEPT !.name[n] = h]

Changes(old, new) ==
    \/ Allocates(old, new) \/ Updates(old, new) \/ SetsClientByte(old, new)
    \/ Deletes(old, new) \/ Names(old, new)

-----------------------------------------------------------------------------
Call == open /\ Changes(db, db') /\ UNCHANGED <<saved, marks, open>>
Begin == ~open /\ open' = TRUE /\ UNCHANGED <<db, saved, marks>>
Savepoint == open /\ marks' = Append(marks, db) /\ UNCHANGED <<db, saved, open>>
RollbackTo(i) == db' = marks[i] /\ marks' = SubSeq(marks, 1, i) /\ UNCHANGED <<saved, open>>
Release(i) == marks' = SubSeq(marks, 1, i - 1) /\ UNCHANGED <<db, saved, open>>
Commit == open /\ open' = FALSE /\ saved' = db /\ marks' = <<>> /\ UNCHANGED db
Discard == open' = FALSE /\ db' = saved /\ marks' = <<>> /\ UNCHANGED saved

Next ==
    \/ Call \/ Begin \/ Savepoint \/ Commit \/ Discard
    \/ \E i \in 1..Len(marks) : RollbackTo(i) \/ Release(i)

Spec == Init /\ [][Next]_vars
=============================================================================

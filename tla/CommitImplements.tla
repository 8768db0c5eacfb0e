-------------------------- MODULE CommitImplements --------------------------
(***************************************************************************)
(* The refinement mapping from CommitProtocol to AtomicStore.  The stored  *)
(* state is what a reader would get off the medium: the pages named by the *)
(* superblock recovery would pick, with the bytes those pages really hold. *)
(***************************************************************************)
EXTENDS CommitProtocol

CONSTANT NoState
ASSUME NoStateAssumption ==
    NoState \notin [Pages -> Content \cup {Garbage, Absent}]

\* The slot recovery picks; any slot when none is valid.
WinnerOf(slots) ==
    CHOOSE i \in Slots : (\E j \in Slots : IsWinner(slots, j)) => IsWinner(slots, i)

\* The pages of snap, as bytes b hold them.
ReadBack(snap, b) == [p \in Pages |-> IF snap[p] = Absent THEN Absent ELSE b[p]]

StoredState == ReadBack(diskSlot[WinnerOf(diskSlot)].snap, disk)

\* A superblock newer than the durable winner is written and not yet durable.
NewerWritten ==
    /\ phase \in {"barrier", "poisoned"}
    /\ osSlot[WinnerOf(osSlot)].counter > diskSlot[WinnerOf(diskSlot)].counter

StagedState ==
    IF NewerWritten THEN ReadBack(osSlot[WinnerOf(osSlot)].snap, os) ELSE NoState

ShownState == IF phase \in LivePhases THEN ReadBack(committed, os) ELSE NoState

Store == INSTANCE AtomicStore WITH
    States <- Snapshots, EmptyState <- EmptySnapshot, None <- NoState,
    stored <- StoredState, staged <- StagedState, view <- ShownState

\* The commit protocol implements the atomic store: whatever fails or crashes
\* between its steps, the bytes on the medium read back as the state before
\* the commit or the state after it (run_commit, open_existing).
ImplementsAtomicStore == Store!AbsSpec
=============================================================================

--------------------------- MODULE CommitProtocol ---------------------------
(***************************************************************************)
(* The shadow-paging commit of the transaction manager over a file whose   *)
(* writes become durable only at an fsync, and the recovery that picks the *)
(* winning superblock at open (src/src/transaction/{commit, lifecycle,     *)
(* recovery}.rs, src/src/page_cache.rs flush, src/src/page_io.rs).         *)
(*                                                                         *)
(* A snapshot is what one superblock's roots reach: the pages of the       *)
(* snapshot, each with the content it must have.  A page in use by no      *)
(* snapshot that can still be restored may be handed out as a copy-on-     *)
(* write target; PageReclaim is the model of how the engine knows.         *)
(***************************************************************************)
EXTENDS Integers

CONSTANTS Pages,          \* data page ids (everything after the slots)
          Content,        \* what a page can hold
          Absent,         \* "this page is not in the snapshot"
          Garbage,        \* bytes that fail the page checksum
          N,              \* superblock_count
          MaxTxnCounter   \* superblock::MAX_TXN_COUNTER

ASSUME ContentAssumption == Absent \notin Content /\ Garbage \notin Content
                              /\ Absent # Garbage
ASSUME NAssumption == N \in 2..16
ASSUME MaxTxnCounterAssumption == MaxTxnCounter \in Nat /\ MaxTxnCounter >= N

VARIABLES
    disk,       \* page -> bytes on the medium
    os,         \* page -> bytes a read returns (the kernel's page cache)
    dropped,    \* pages and slots whose last write the kernel has given up on
    diskSlot,   \* superblock slot -> superblock on the medium
    osSlot,     \* superblock slot -> superblock a read returns
    phase,      \* where the engine is
    dirty,      \* page cache: page -> content not yet written, or Absent
    committed,  \* committed_roots
    current,    \* current_roots
    txnCounter, \* txn_counter
    acked       \* the last state commit() returned Ok for, with its counter

fileVars == <<disk, os, dropped, diskSlot, osSlot>>
vars == <<disk, os, dropped, diskSlot, osSlot, phase, dirty, committed,
          current, txnCounter, acked>>

-----------------------------------------------------------------------------
Slots == 0..(N - 1)
Bytes == Content \cup {Garbage}
Snapshots == [Pages -> Content \cup {Absent}]
EmptySnapshot == [p \in Pages |-> Absent]
Superblocks == [valid : BOOLEAN, counter : 0..MaxTxnCounter, snap : Snapshots]

\* A slot whose checksum does not verify: Superblock::deserialize is None.
Torn == [valid |-> FALSE, counter |-> 0, snap |-> EmptySnapshot]
Superblock(c, s) == [valid |-> TRUE, counter |-> c, snap |-> s]

CommitPhases == {"flush1", "persist", "flush2", "superblock", "barrier"}
LivePhases == {"idle", "active"} \cup CommitPhases
Phases == LivePhases \cup {"poisoned", "closed"}

TypeOK ==
    /\ disk \in [Pages -> Bytes]
    /\ os \in [Pages -> Bytes]
    /\ dropped \in [page : SUBSET Pages, slot : SUBSET Slots]
    /\ diskSlot \in [Slots -> Superblocks]
    /\ osSlot \in [Slots -> Superblocks]
    /\ phase \in Phases
    /\ dirty \in Snapshots
    /\ committed \in Snapshots
    /\ current \in Snapshots
    /\ txnCounter \in 0..MaxTxnCounter
    /\ acked \in [some : BOOLEAN, counter : 0..MaxTxnCounter, snap : Snapshots]

\* The slot recovery picks: highest counter among the valid ones, the last
\* one on a tie (max_by_key).
IsWinner(slots, i) ==
    /\ slots[i].valid
    /\ \A j \in Slots : slots[j].valid =>
          \/ slots[j].counter < slots[i].counter
          \/ slots[j].counter = slots[i].counter /\ j <= i

\* The snapshot is readable from bytes b: every page of it verifies.
Intact(snap, b) == \A p \in Pages : snap[p] # Absent => b[p] = snap[p]

\* The slot the next superblock goes to.
TargetSlot == (txnCounter + 1) % N

NothingDropped == [page |-> {}, slot |-> {}]

Clean == \A p \in Pages : dirty[p] = Absent

-----------------------------------------------------------------------------
new_empty(c) == Superblock(c, EmptySnapshot)

(* create_new: N valid slots over the same empty roots, slot i at counter  *)
(* N-1-i, made durable by one fsync before the handle is returned.         *)
Init ==
    /\ disk = [p \in Pages |-> Garbage]
    /\ os = disk
    /\ dropped = NothingDropped
    /\ diskSlot = [i \in Slots |-> new_empty(N - 1 - i)]
    /\ osSlot = diskSlot
    /\ phase = "idle"
    /\ dirty = EmptySnapshot
    /\ committed = EmptySnapshot
    /\ current = EmptySnapshot
    /\ txnCounter = N - 1
    /\ acked = [some |-> FALSE, counter |-> 0, snap |-> EmptySnapshot]

Begin ==
    /\ phase = "idle"
    /\ phase' = "active"
    /\ current' = committed
    /\ UNCHANGED <<fileVars, dirty, committed, txnCounter, acked>>

\* A page neither the committed nor the current roots reach.
Allocatable(p) == committed[p] = Absent /\ current[p] = Absent

\* Copy-on-write: content c goes to a fresh page p in the page cache, and the
\* pages of Q leave the current roots.
Cow(p, c, Q) ==
    /\ Allocatable(p)
    /\ current' = [r \in Pages |-> IF r = p THEN c
                                   ELSE IF r \in Q THEN Absent ELSE current[r]]
    /\ dirty' = [dirty EXCEPT ![p] = c]

InUse(q) == current[q] # Absent

\* One mutation: at most one page superseded per fresh page (a spine is a run
\* of these), or a page leaves with no successor (a delete).
Mutate(p, c, Q) ==
    /\ phase = "active"
    /\ \A q \in Q : InUse(q)
    /\ Cow(p, c, Q)
    /\ UNCHANGED <<fileVars, phase, committed, txnCounter, acked>>

FreePage(q) ==
    /\ phase = "active"
    /\ InUse(q)
    /\ current' = [current EXCEPT ![q] = Absent]
    /\ UNCHANGED <<fileVars, phase, dirty, committed, txnCounter, acked>>

\* rollback: discard_all_dirty, then the committed roots again.
Rollback ==
    /\ phase = "active"
    /\ phase' = "idle"
    /\ dirty' = EmptySnapshot
    /\ current' = committed
    /\ UNCHANGED <<fileVars, committed, txnCounter, acked>>

-----------------------------------------------------------------------------
(* commit, one action per step of run_commit.                              *)

\* next_txn_counter is consulted before any I/O.
CommitStart ==
    /\ phase = "active"
    /\ txnCounter + 1 <= MaxTxnCounter
    /\ phase' = "flush1"
    /\ UNCHANGED <<fileVars, dirty, committed, current, txnCounter, acked>>

\* TxnCounterExhausted is an error of commit, and commit poisons on any.
CommitRefused ==
    /\ phase = "active"
    /\ txnCounter + 1 > MaxTxnCounter
    /\ phase' = "poisoned"
    /\ UNCHANGED <<fileVars, dirty, committed, current, txnCounter, acked>>

\* PageCache::flush writes the dirty pages one at a time, clearing each flag.
WritePage(p) ==
    /\ phase \in {"flush1", "flush2"}
    /\ dirty[p] # Absent
    /\ os' = [os EXCEPT ![p] = dirty[p]]
    /\ dropped' = [dropped EXCEPT !.page = @ \ {p}]
    /\ dirty' = [dirty EXCEPT ![p] = Absent]
    /\ UNCHANGED <<disk, diskSlot, osSlot, phase, committed, current,
                   txnCounter, acked>>

\* Everything the kernel still tracks as dirty reaches the medium.
SyncFile ==
    /\ disk' = [p \in Pages |-> IF p \in dropped.page THEN disk[p] ELSE os[p]]
    /\ diskSlot' = [i \in Slots |-> IF i \in dropped.slot THEN diskSlot[i]
                                                          ELSE osSlot[i]]
    /\ UNCHANGED <<os, osSlot, dropped>>

\* (Mutant: a flush that does not fsync.)
FsyncPagesSkipped ==
    /\ phase \in {"flush1", "flush2"}
    /\ Clean
    /\ phase' = IF phase = "flush1" THEN "persist" ELSE "superblock"
    /\ UNCHANGED <<fileVars, dirty, committed, current, txnCounter, acked>>

\* The fsync that ends each PageCache::flush (fsync #1 and #2).
FsyncPages ==
    /\ phase \in {"flush1", "flush2"}
    /\ Clean
    /\ SyncFile
    /\ phase' = IF phase = "flush1" THEN "persist" ELSE "superblock"
    /\ UNCHANGED <<dirty, committed, current, txnCounter, acked>>

\* FreemapRecycle::persist: the freemap pages of this commit, each a
\* copy-on-write of at most one old freemap page.
PersistFreemap(p, c, Q) ==
    /\ phase = "persist"
    /\ \A q \in Q : InUse(q)
    /\ Cow(p, c, Q)
    /\ UNCHANGED <<fileVars, phase, committed, txnCounter, acked>>

PersistDone ==
    /\ phase = "persist"
    /\ phase' = "flush2"
    /\ UNCHANGED <<fileVars, dirty, committed, current, txnCounter, acked>>

\* The counter is bumped and the superblock written to slot counter % N.
WriteSuperblock ==
    /\ phase = "superblock"
    /\ osSlot' = [osSlot EXCEPT ![TargetSlot] = Superblock(txnCounter + 1, current)]
    /\ dropped' = [dropped EXCEPT !.slot = @ \ {TargetSlot}]
    /\ txnCounter' = txnCounter + 1
    /\ phase' = "barrier"
    /\ UNCHANGED <<disk, os, diskSlot, dirty, committed, current, acked>>

\* (Mutant: commit returns without fsync #3.)
FsyncSuperblockSkipped ==
    /\ phase = "barrier"
    /\ committed' = current
    /\ acked' = [some |-> TRUE, counter |-> txnCounter, snap |-> current]
    /\ phase' = "idle"
    /\ UNCHANGED <<fileVars, dirty, current, txnCounter>>

\* (Mutant: the committed roots are not promoted.)
FsyncSuperblockUnpromoted ==
    /\ phase = "barrier"
    /\ SyncFile
    /\ acked' = [some |-> TRUE, counter |-> txnCounter, snap |-> current]
    /\ phase' = "idle"
    /\ UNCHANGED <<dirty, committed, current, txnCounter>>

\* fsync #3, the linearization point, and the promotion of the current roots.
FsyncSuperblock ==
    /\ phase = "barrier"
    /\ SyncFile
    /\ committed' = current
    /\ acked' = [some |-> TRUE, counter |-> txnCounter, snap |-> current]
    /\ phase' = "idle"
    /\ UNCHANGED <<dirty, current, txnCounter>>

-----------------------------------------------------------------------------
(* Errors.  Inside commit every one poisons, whatever its kind; elsewhere  *)
(* the fatal ones do (poison_on_fatal).                                    *)

PendingPages == {p \in Pages \ dropped.page : os[p] # disk[p]}
PendingSlots == {i \in Slots \ dropped.slot : osSlot[i] # diskSlot[i]}

Poison == phase' = "poisoned"

FatalError ==
    /\ phase \in {"idle", "active"}
    /\ Poison
    /\ UNCHANGED <<fileVars, dirty, committed, current, txnCounter, acked>>

\* An error with no effect on the file (CacheFull in persist, say).
CommitFails ==
    /\ phase \in CommitPhases
    /\ Poison
    /\ UNCHANGED <<fileVars, dirty, committed, current, txnCounter, acked>>

\* write_page_unit fails part way through a page of a flush.
WritePageFails(p) ==
    /\ phase \in {"flush1", "flush2"}
    /\ dirty[p] # Absent
    /\ os' = [os EXCEPT ![p] = Garbage]
    /\ dropped' = [dropped EXCEPT !.page = @ \ {p}]
    /\ Poison
    /\ UNCHANGED <<disk, diskSlot, osSlot, dirty, committed, current,
                   txnCounter, acked>>

\* ... or part way through the superblock.
WriteSuperblockFails ==
    /\ phase = "superblock"
    /\ osSlot' = [osSlot EXCEPT ![TargetSlot] = Torn]
    /\ dropped' = [dropped EXCEPT !.slot = @ \ {TargetSlot}]
    /\ txnCounter' = txnCounter + 1
    /\ Poison
    /\ UNCHANGED <<disk, os, diskSlot, dirty, committed, current, acked>>

\* fsync fails: the kernel may forget any of the writes it was asked to sync,
\* and still serve them to reads.
FsyncFails(P, S) ==
    /\ phase \in {"flush1", "flush2", "barrier"}
    /\ Clean
    /\ dropped' = [page |-> dropped.page \cup P, slot |-> dropped.slot \cup S]
    /\ Poison
    /\ UNCHANGED <<disk, os, diskSlot, osSlot, dirty, committed, current,
                   txnCounter, acked>>

-----------------------------------------------------------------------------
(* The ways a handle ends, and open_existing.                              *)

ForgetMemory ==
    /\ phase' = "closed"
    /\ dirty' = EmptySnapshot
    /\ committed' = EmptySnapshot
    /\ current' = EmptySnapshot
    /\ txnCounter' = 0

\* Power loss: of the writes no fsync has covered, some reach the medium (K),
\* some reach it in part (T), the others are lost.
PowerLoss(K, T, KS, TS) ==
    /\ disk' = [p \in Pages |-> IF p \in K THEN os[p]
                                ELSE IF p \in T THEN Garbage ELSE disk[p]]
    /\ diskSlot' = [i \in Slots |-> IF i \in KS THEN osSlot[i]
                                    ELSE IF i \in TS THEN Torn ELSE diskSlot[i]]
    /\ os' = disk'
    /\ osSlot' = diskSlot'
    /\ dropped' = NothingDropped
    /\ ForgetMemory
    /\ UNCHANGED acked

\* The process ends, or the client drops the handle, and the machine stays up:
\* what was written stays readable although it may not be durable.
Exit ==
    /\ phase # "closed"
    /\ ForgetMemory
    /\ UNCHANGED <<fileVars, acked>>

\* The superblocks a read returns are the durable ones.
SlotsDurable == osSlot = diskSlot

Open(i) ==
    /\ phase = "closed"
    /\ IsWinner(osSlot, i)
    /\ committed' = osSlot[i].snap
    /\ current' = osSlot[i].snap
    /\ txnCounter' = osSlot[i].counter
    /\ phase' = "idle"
    /\ dirty' = EmptySnapshot
    /\ UNCHANGED <<fileVars, acked>>

-----------------------------------------------------------------------------
AtMostOne(S) == {{}} \cup {{x} : x \in S}

Transaction ==
    \/ Begin
    \/ \E p \in Pages, c \in Content, Q \in AtMostOne(Pages) : Mutate(p, c, Q)
    \/ \E q \in Pages : FreePage(q)
    \/ Rollback

Commit ==
    \/ CommitStart
    \/ CommitRefused
    \/ \E p \in Pages : WritePage(p)
    \/ FsyncPages
    \/ \E p \in Pages, c \in Content, Q \in AtMostOne(Pages) : PersistFreemap(p, c, Q)
    \/ PersistDone
    \/ WriteSuperblock
    \/ FsyncSuperblock

Failure ==
    \/ FatalError
    \/ CommitFails
    \/ \E p \in Pages : WritePageFails(p)
    \/ WriteSuperblockFails
    \/ \E P \in SUBSET PendingPages, S \in SUBSET PendingSlots : FsyncFails(P, S)

CrashAndOpen ==
    \/ \E K \in SUBSET PendingPages, KS \in SUBSET PendingSlots :
         \E T \in SUBSET (PendingPages \ K), TS \in SUBSET (PendingSlots \ KS) :
           PowerLoss(K, T, KS, TS)
    \/ \E i \in Slots : Open(i)

\* A process that ends while its superblock is written and not yet durable is
\* left out: a reader may then act on a superblock that a power loss takes back.
Next ==
    \/ Transaction
    \/ Commit
    \/ Failure
    \/ CrashAndOpen
    \/ SlotsDurable /\ Exit

Spec == Init /\ [][Next]_vars

-----------------------------------------------------------------------------
(* Properties.                                                             *)

\* Whatever is in flight, the snapshot of the superblock that recovery would
\* pick from the medium can be read back from the medium in full
\* (run_commit: pages are durable before the superblock that names them, and
\* no page of it is overwritten afterwards).
DurableWinnerIntact ==
    \A i \in Slots : IsWinner(diskSlot, i) => Intact(diskSlot[i].snap, disk)

\* The same of what the open handle serves: the committed roots it holds are
\* readable through the kernel, also while a later commit is under way.
CommittedReadable ==
    phase \in LivePhases => Intact(committed, os)

\* A commit() that returned Ok is never lost: recovery from the medium finds
\* it, or a later one.  True from the first acknowledged commit on, for any N.
AckedCommitDurable ==
    acked.some =>
        \E i \in Slots :
            /\ IsWinner(diskSlot, i)
            /\ diskSlot[i].counter >= acked.counter
            /\ diskSlot[i].counter = acked.counter => diskSlot[i].snap = acked.snap

\* The file can always be opened: some slot is valid on the medium
\* (superblock/mod.rs: "a crash between (1) and (3) cannot destroy the
\* last-known-good superblock").
AlwaysOpenable == \E i \in Slots : diskSlot[i].valid

-----------------------------------------------------------------------------
(* The inductive invariant behind the properties.                          *)

\* The snapshot is on the medium and is what a read returns.
Solid(snap) == Intact(snap, disk) /\ Intact(snap, os)

\* No valid slot names a page yet: no commit has become durable.
Pristine == \A j \in Slots : diskSlot[j].valid => diskSlot[j].snap = EmptySnapshot

\* The next commit after counter c spares slot i.
Spares(c, i) == (c + 1) % N # i

\* The durable winner is solid, and the next commit either spares its slot or
\* cannot lose anything, no slot naming a page.
WinnerSafe ==
    \A i \in Slots : IsWinner(diskSlot, i) =>
        /\ Solid(diskSlot[i].snap)
        /\ Spares(diskSlot[i].counter, i) \/ Pristine

\* The engine works on top of the durable winner.
OnWinner(c) ==
    \E w \in Slots : IsWinner(diskSlot, w) /\ diskSlot[w] = Superblock(c, committed)

\* A superblock naming solid pages is written over the target slot, in full or
\* torn, and is not durable.
InFlight(sb) ==
    /\ txnCounter > 0
    /\ OnWinner(txnCounter - 1)
    /\ osSlot = [diskSlot EXCEPT ![txnCounter % N] = sb]
    /\ Solid(current)

SlotsByPhase ==
    /\ phase \notin {"barrier", "poisoned"} => SlotsDurable
    /\ phase \in LivePhases \ {"barrier"} => OnWinner(txnCounter)
    /\ phase \in CommitPhases \ {"barrier"} => txnCounter < MaxTxnCounter
    /\ phase = "barrier" => InFlight(Superblock(txnCounter, current))
    /\ phase = "poisoned" =>
          \/ SlotsDurable
          \/ InFlight(Superblock(txnCounter, current))
          \/ InFlight(Torn)

\* A page of the current roots is in the page cache, or written and tracked.
Written(p) ==
    \/ dirty[p] = current[p]
    \/ dirty[p] = Absent /\ os[p] = current[p] /\ p \notin dropped.page

PagesByPhase ==
    /\ phase \in LivePhases =>
          \A p \in Pages : committed[p] # Absent => dirty[p] = Absent
    /\ phase \in {"active", "flush1", "persist", "flush2"} =>
          \A p \in Pages : current[p] # Absent => Written(p)
    /\ phase = "superblock" => Solid(current)
    /\ phase \in {"idle", "superblock", "barrier"} => Clean
    /\ phase = "idle" => current = committed

\* The kernel gives up only on writes that are not on the medium.
DroppedPending ==
    /\ \A p \in dropped.page : os[p] # disk[p]
    /\ \A i \in dropped.slot : osSlot[i] # diskSlot[i]
    /\ phase = "barrier" => dropped.slot = {}

AckedSafe ==
    acked.some =>
        \E i \in Slots :
            /\ IsWinner(diskSlot, i)
            /\ Spares(diskSlot[i].counter, i)
            /\ diskSlot[i].counter >= acked.counter
            /\ diskSlot[i].counter = acked.counter => diskSlot[i].snap = acked.snap

\* The commit protocol's inductive invariant: the engine always works on top
\* of a durable, readable winner that its next superblock write spares, and a
\* superblock is written only once every page it names is on the medium.
CommitInv ==
    /\ TypeOK
    /\ WinnerSafe
    /\ SlotsByPhase
    /\ PagesByPhase
    /\ DroppedPending
    /\ AckedSafe

\* What makes AlwaysOpenable inductive when N >= 3: a winner the next write
\* spares, or the slots as create_new left them.
OpenableInv ==
    \E i \in Slots :
        /\ IsWinner(diskSlot, i)
        /\ \/ Spares(diskSlot[i].counter, i)
           \/ \A j \in Slots : diskSlot[j].valid /\ diskSlot[j].counter = N - 1 - j
=============================================================================

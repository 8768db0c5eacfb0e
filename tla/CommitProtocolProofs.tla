------------------------ MODULE CommitProtocolProofs ------------------------
(***************************************************************************)
(* Machine-checked proofs about CommitProtocol, for every set of pages and *)
(* contents, every N the superblock format allows and every counter bound; *)
(* at the end, that the protocol implements AtomicStore.                   *)
(***************************************************************************)
EXTENDS CommitImplements, TLAPS

-----------------------------------------------------------------------------
(* Slot arithmetic.                                                        *)

\* A counter modulo N names a slot (run_commit's choice of slot).
LEMMA SlotOfCounter == ASSUME NEW c \in Nat PROVE c % N \in Slots
BY NAssumption DEF Slots

\* Two consecutive counters go to different slots: there are at least two.
LEMMA ConsecutiveSlots == ASSUME NEW c \in Nat PROVE (c + 1) % N # c % N
BY NAssumption

\* The slot just written is spared by the next commit.
LEMMA SparesOwnSlot == ASSUME NEW c \in Nat PROVE Spares(c, c % N)
BY ConsecutiveSlots DEF Spares

-----------------------------------------------------------------------------
(* Winners (the max_by_key of open_existing).                              *)

\* Recovery's choice is unambiguous.
LEMMA WinnerUnique ==
    ASSUME NEW slots \in [Slots -> Superblocks],
           NEW i \in Slots, NEW j \in Slots,
           IsWinner(slots, i), IsWinner(slots, j)
    PROVE  i = j
BY SMTT(30), NAssumption, MaxTxnCounterAssumption DEF IsWinner, Slots, Superblocks

\* A superblock with a counter above the winner's wins, whatever slot it takes.
LEMMA NewerWins ==
    ASSUME NEW slots \in [Slots -> Superblocks],
           NEW w \in Slots, IsWinner(slots, w),
           NEW t \in Slots, NEW sb \in Superblocks,
           sb.valid, sb.counter > slots[w].counter,
           NEW i \in Slots
    PROVE  IsWinner([slots EXCEPT ![t] = sb], i) <=> i = t
<1> DEFINE new == [slots EXCEPT ![t] = sb]
<1>1. /\ new[t] = sb
      /\ \A j \in Slots : j # t => new[j] = slots[j]
  OBVIOUS
<1>2. \A j \in Slots : slots[j].counter \in Nat /\ sb.counter \in Nat
  BY MaxTxnCounterAssumption DEF Superblocks
<1>3. \A j \in Slots : slots[j].valid => slots[j].counter < sb.counter
  BY <1>2 DEF IsWinner
<1>4. IsWinner(new, t)
  <2>1. \A j \in Slots : new[j].valid =>
            \/ new[j].counter < new[t].counter
            \/ new[j].counter = new[t].counter /\ j <= t
    BY <1>1, <1>2, <1>3, NAssumption DEF Slots
  <2> QED BY <2>1, <1>1 DEF IsWinner
<1>5. IsWinner(new, i) => i = t
  BY <1>1, <1>2, <1>3 DEF IsWinner
<1> QED BY <1>4, <1>5

\* Tearing a slot other than the winner's leaves the winner.
LEMMA TornSpares ==
    ASSUME NEW slots \in [Slots -> Superblocks],
           NEW w \in Slots, IsWinner(slots, w),
           NEW t \in Slots, t # w
    PROVE  IsWinner([slots EXCEPT ![t] = Torn], w)
BY DEF IsWinner, Torn

\* A torn slot is a value of the right type.
LEMMA TornType == Torn \in Superblocks
BY MaxTxnCounterAssumption DEF Torn, Superblocks, Snapshots, EmptySnapshot

-----------------------------------------------------------------------------
(* The inductive invariant.                                                *)

\* create_new establishes it.
LEMMA CommitInit == Init => CommitInv
<1> SUFFICES ASSUME Init PROVE CommitInv
  OBVIOUS
<1> USE NAssumption, MaxTxnCounterAssumption DEF Init, new_empty
<1>1. EmptySnapshot \in Snapshots
  BY DEF EmptySnapshot, Snapshots
<1>2. \A i \in Slots : /\ N - 1 - i \in 0..MaxTxnCounter
                       /\ Superblock(N - 1 - i, EmptySnapshot) \in Superblocks
  BY <1>1 DEF Slots, Superblock, Superblocks
<1>3. TypeOK
  BY <1>1, <1>2 DEF TypeOK, Bytes, NothingDropped, Phases, LivePhases
<1>4. \A s : Intact(EmptySnapshot, s)
  BY DEF Intact, EmptySnapshot
<1>5. \A i \in Slots : diskSlot[i] = Superblock(N - 1 - i, EmptySnapshot)
  OBVIOUS
<1>6. WinnerSafe
  BY <1>4, <1>5 DEF WinnerSafe, Solid, Pristine, Superblock
<1>7. IsWinner(diskSlot, 0) /\ diskSlot[0] = Superblock(N - 1, EmptySnapshot)
  BY <1>5 DEF IsWinner, Superblock, Slots
<1>8. SlotsByPhase
  BY <1>7 DEF SlotsByPhase, SlotsDurable, OnWinner, LivePhases, Slots
<1>9. PagesByPhase
  BY DEF PagesByPhase, EmptySnapshot, Clean
<1>10. DroppedPending
  BY DEF DroppedPending, NothingDropped
<1>11. AckedSafe
  BY DEF AckedSafe
<1> QED BY <1>3, <1>6, <1>8, <1>9, <1>10, <1>11 DEF CommitInv

\* A torn superblock is one.  Every later step sees this fact: a record update
\* among its facts spares tlapm a slow inference of types.
LEMMA SomeTorn == \E sb : sb = [Torn EXCEPT !.valid = FALSE]
BY ZenonT(30)

USE SomeTorn

\* What an open handle serves is on the medium and readable.
LEMMA CommittedSolid ==
    ASSUME CommitInv, phase \in LivePhases
    PROVE  Solid(committed)
<1>1. \E w \in Slots : IsWinner(diskSlot, w) /\ diskSlot[w].snap = committed
  BY DEF CommitInv, SlotsByPhase, InFlight, OnWinner, Superblock
<1> QED BY <1>1 DEF CommitInv, WinnerSafe

\* A step that leaves the file and the acknowledgement alone.
LEMMA FileSame ==
    ASSUME CommitInv, UNCHANGED <<fileVars, acked>>
    PROVE  WinnerSafe' /\ AckedSafe'
BY DEF CommitInv, fileVars, WinnerSafe, AckedSafe, Solid, Intact, Pristine,
       Spares, IsWinner

\* begin, the mutations, rollback.
LEMMA TransactionStep ==
    ASSUME CommitInv, Transaction
    PROVE  CommitInv'
<1> USE DEF CommitInv
<1>1. UNCHANGED <<fileVars, committed, txnCounter, acked>>
  BY DEF Transaction, Begin, Mutate, FreePage, Rollback
<1>2. WinnerSafe' /\ AckedSafe'
  BY <1>1, FileSame
<1>3. /\ phase \in {"idle", "active"}
      /\ phase' \in {"idle", "active"}
  BY DEF Transaction, Begin, Mutate, FreePage, Rollback
<1>4. SlotsByPhase'
  BY <1>1, <1>3 DEF SlotsByPhase, SlotsDurable, OnWinner, IsWinner, fileVars,
       LivePhases, CommitPhases
<1>5. DroppedPending'
  BY <1>1, <1>3 DEF DroppedPending, fileVars
<1>6. CASE Begin
  <2>1. TypeOK'
    BY <1>1, <1>6 DEF Begin, TypeOK, fileVars, Phases, LivePhases
  <2>2. PagesByPhase'
    <3>1. Solid(committed)
      BY <1>3, CommittedSolid DEF LivePhases
    <3>2. \A p \in Pages : committed[p] # Absent => Written(p)'
      BY <3>1, <1>1, <1>6 DEF Begin, Written, Solid, Intact, DroppedPending,
           PagesByPhase, Clean, fileVars
    <3> QED BY <3>2, <1>1, <1>6 DEF Begin, PagesByPhase, Clean, LivePhases
  <2> QED BY <1>2, <1>4, <1>5, <2>1, <2>2
<1>7. ASSUME NEW p \in Pages, NEW c \in Content, NEW Q \in AtMostOne(Pages),
             Mutate(p, c, Q)
      PROVE  CommitInv'
  <2>1. TypeOK'
    BY <1>1, <1>7 DEF Mutate, Cow, TypeOK, fileVars, Snapshots
  <2>2. PagesByPhase'
    BY <1>1, <1>7 DEF Mutate, Cow, Allocatable, PagesByPhase, Written, fileVars,
         TypeOK, Snapshots
  <2> QED BY <1>2, <1>4, <1>5, <2>1, <2>2
<1>8. ASSUME NEW q \in Pages, FreePage(q) PROVE CommitInv'
  <2>1. TypeOK'
    BY <1>1, <1>8 DEF FreePage, TypeOK, fileVars, Snapshots
  <2>2. PagesByPhase'
    BY <1>1, <1>8 DEF FreePage, PagesByPhase, Written, fileVars, TypeOK, Snapshots
  <2> QED BY <1>2, <1>4, <1>5, <2>1, <2>2
<1>9. CASE Rollback
  <2>1. TypeOK'
    BY <1>1, <1>9 DEF Rollback, TypeOK, fileVars, Snapshots, EmptySnapshot, Phases, LivePhases
  <2>2. PagesByPhase'
    BY <1>1, <1>9 DEF Rollback, PagesByPhase, EmptySnapshot, Clean
  <2> QED BY <1>2, <1>4, <1>5, <2>1, <2>2
<1> QED BY <1>6, <1>7, <1>8, <1>9 DEF Transaction

-----------------------------------------------------------------------------
(* The steps of commit.                                                    *)

\* Between commits the winner is what the engine works on.
LEMMA WinnerIsCommitted ==
    ASSUME CommitInv, phase \in LivePhases \ {"barrier"},
           NEW i \in Slots, IsWinner(diskSlot, i)
    PROVE  diskSlot[i] = Superblock(txnCounter, committed)
BY WinnerUnique DEF CommitInv, TypeOK, SlotsByPhase, OnWinner

\* A write to a page outside the committed snapshot leaves the winner solid.
LEMMA WriteSparesWinner ==
    ASSUME CommitInv, phase \in LivePhases \ {"barrier"},
           NEW p \in Pages, dirty[p] # Absent,
           NEW b, os' = [os EXCEPT ![p] = b],
           UNCHANGED <<disk, diskSlot>>
    PROVE  WinnerSafe'
<1>1. committed[p] = Absent
  BY DEF CommitInv, PagesByPhase
<1> SUFFICES ASSUME NEW i \in Slots, IsWinner(diskSlot, i)
             PROVE  /\ Solid(diskSlot[i].snap)'
                    /\ (Spares(diskSlot[i].counter, i) \/ Pristine)'
  BY DEF WinnerSafe, IsWinner
<1>2. diskSlot[i].snap = committed
  BY WinnerIsCommitted DEF Superblock
<1>3. Solid(committed) /\ (Spares(diskSlot[i].counter, i) \/ Pristine)
  BY <1>2 DEF CommitInv, WinnerSafe
<1>4. Solid(diskSlot[i].snap)'
  BY <1>1, <1>2, <1>3 DEF Solid, Intact, CommitInv, TypeOK
<1> QED BY <1>3, <1>4 DEF Pristine, Spares

\* Steps that only move the engine to its next phase.
LEMMA PhaseStep ==
    ASSUME CommitInv, CommitStart \/ CommitRefused \/ PersistDone
    PROVE  CommitInv'
<1> USE DEF CommitInv, CommitStart, CommitRefused, PersistDone
<1>1. WinnerSafe' /\ AckedSafe'
  BY FileSame
<1>2. TypeOK'
  BY DEF TypeOK, fileVars, Phases, LivePhases, CommitPhases
<1>3. SlotsByPhase'
  BY MaxTxnCounterAssumption DEF SlotsByPhase, SlotsDurable, OnWinner, IsWinner, fileVars,
       LivePhases, CommitPhases, TypeOK
<1>4. PagesByPhase'
  BY DEF PagesByPhase, Written, Clean, fileVars, LivePhases, CommitPhases
<1>5. DroppedPending'
  BY DEF DroppedPending, fileVars
<1> QED BY <1>1, <1>2, <1>3, <1>4, <1>5

\* A flush writes one dirty page.
LEMMA WritePageStep ==
    ASSUME CommitInv, NEW p \in Pages, WritePage(p)
    PROVE  CommitInv'
<1> USE DEF CommitInv, WritePage
<1>1. phase \in LivePhases \ {"barrier"}
  BY DEF LivePhases, CommitPhases
<1>2. WinnerSafe'
  BY ZenonT(30), <1>1, WriteSparesWinner
<1>3. AckedSafe'
  BY DEF AckedSafe, IsWinner, Spares
<1>4. TypeOK'
  <2>1. dirty[p] \in Bytes
    BY DEF TypeOK, Snapshots, Bytes
  <2> QED BY <2>1 DEF TypeOK, Snapshots, Bytes
<1>5. SlotsByPhase'
  BY DEF SlotsByPhase, SlotsDurable, OnWinner, IsWinner, LivePhases, CommitPhases
<1>6. PagesByPhase'
  BY DEF PagesByPhase, Written, TypeOK, Snapshots, LivePhases, CommitPhases
<1>7. DroppedPending'
  BY DEF DroppedPending, TypeOK
<1> QED BY <1>2, <1>3, <1>4, <1>5, <1>6, <1>7

\* While no superblock is in flight an fsync changes no slot, and no page of
\* the winner.
LEMMA SyncSparesWinner ==
    ASSUME CommitInv, SlotsDurable, SyncFile
    PROVE  /\ diskSlot' = diskSlot
           /\ osSlot' = diskSlot
           /\ WinnerSafe'
<1> USE DEF CommitInv
<1>1. diskSlot' = diskSlot /\ osSlot' = diskSlot
  BY DEF SyncFile, SlotsDurable, TypeOK
<1>2. ASSUME NEW i \in Slots, IsWinner(diskSlot, i)
      PROVE  Solid(diskSlot[i].snap)'
  BY <1>1, <1>2 DEF WinnerSafe, Solid, Intact, SyncFile
<1>3. WinnerSafe'
  BY <1>1, <1>2 DEF WinnerSafe, IsWinner, Spares, Pristine
<1> QED BY <1>1, <1>3

\* fsync #1 and fsync #2.
LEMMA FsyncPagesStep ==
    ASSUME CommitInv, FsyncPages
    PROVE  CommitInv'
<1> USE DEF CommitInv, FsyncPages
<1>1. phase \in LivePhases \ {"barrier"} /\ SlotsDurable
  BY DEF SlotsByPhase, LivePhases, CommitPhases
<1>2. /\ diskSlot' = diskSlot
      /\ osSlot' = diskSlot
      /\ WinnerSafe'
  BY <1>1, SyncSparesWinner
<1>3. AckedSafe'
  BY <1>2 DEF AckedSafe, IsWinner, Spares
<1>4. TypeOK'
  BY <1>2 DEF TypeOK, SyncFile, Phases, LivePhases, CommitPhases
<1>5. SlotsByPhase'
  BY <1>2 DEF SlotsByPhase, SlotsDurable, OnWinner, IsWinner, LivePhases, CommitPhases
<1>6. PagesByPhase'
  <2>1. \A p \in Pages : current[p] # Absent =>
            /\ dirty[p] = Absent
            /\ os[p] = current[p]
            /\ p \notin dropped.page
    BY DEF PagesByPhase, Written, Clean
  <2>2. Solid(current)'
    BY <2>1 DEF Solid, Intact, SyncFile
  <2> QED BY <2>1, <2>2 DEF PagesByPhase, Written, Clean, SyncFile, LivePhases, CommitPhases
<1>7. DroppedPending'
  BY <1>2, <1>1 DEF DroppedPending, SyncFile, SlotsDurable, TypeOK
<1> QED BY <1>2, <1>3, <1>4, <1>5, <1>6, <1>7

\* FreemapRecycle::persist writes only to pages the committed roots spare.
LEMMA PersistStep ==
    ASSUME CommitInv, NEW p \in Pages, NEW c \in Content, NEW Q \in AtMostOne(Pages),
           PersistFreemap(p, c, Q)
    PROVE  CommitInv'
<1> USE DEF CommitInv, PersistFreemap
<1>1. WinnerSafe' /\ AckedSafe'
  BY FileSame
<1>2. TypeOK'
  BY SMTT(30) DEF Cow, TypeOK, fileVars, Snapshots
<1>3. SlotsByPhase'
  BY DEF SlotsByPhase, SlotsDurable, OnWinner, IsWinner, fileVars, LivePhases, CommitPhases
<1>4. PagesByPhase'
  BY SMTT(30) DEF Cow, Allocatable, PagesByPhase, Written, fileVars, TypeOK, Snapshots
<1>5. DroppedPending'
  BY DEF DroppedPending, fileVars
<1> QED BY <1>1, <1>2, <1>3, <1>4, <1>5

\* What WriteSuperblock and WriteSuperblockFails share: one slot of the file
\* as reads return it, and the counter.
LEMMA SuperblockInFlight ==
    ASSUME CommitInv, phase = "superblock",
           NEW sb \in Superblocks,
           osSlot' = [osSlot EXCEPT ![TargetSlot] = sb],
           dropped' = [dropped EXCEPT !.slot = @ \ {TargetSlot}],
           txnCounter' = txnCounter + 1,
           UNCHANGED <<disk, os, diskSlot, dirty, committed, current, acked>>
    PROVE  /\ WinnerSafe' /\ AckedSafe'
           /\ osSlot' \in [Slots -> Superblocks]
           /\ txnCounter' \in 0..MaxTxnCounter
           /\ dropped'.page = dropped.page
           /\ dropped'.slot = {}
           /\ txnCounter' > 0
           /\ OnWinner(txnCounter - 1)'
           /\ osSlot' = [diskSlot EXCEPT ![txnCounter' % N] = sb]
           /\ Solid(current)'
<1> USE DEF CommitInv
<1>1. SlotsDurable /\ OnWinner(txnCounter) /\ txnCounter < MaxTxnCounter
  BY DEF SlotsByPhase, LivePhases, CommitPhases
<1>2. txnCounter' \in 0..MaxTxnCounter /\ txnCounter' > 0 /\ txnCounter' - 1 = txnCounter
  BY <1>1, MaxTxnCounterAssumption DEF TypeOK
<1>3. TargetSlot \in Slots
  BY SlotOfCounter DEF TargetSlot, TypeOK
<1>4. WinnerSafe' /\ AckedSafe'
  BY DEF WinnerSafe, AckedSafe, Solid, Intact, Pristine, Spares, IsWinner
<1>5. dropped.slot = {}
  BY <1>1 DEF DroppedPending, SlotsDurable
<1>6. dropped'.page = dropped.page /\ dropped'.slot = {}
  BY <1>5 DEF TypeOK
<1>7. OnWinner(txnCounter - 1)'
  BY <1>1, <1>2 DEF OnWinner, IsWinner
<1>8. Solid(current)'
  BY DEF PagesByPhase, Solid, Intact
<1>9. osSlot' = [diskSlot EXCEPT ![txnCounter' % N] = sb]
  BY <1>1 DEF SlotsDurable, TargetSlot
<1>10. osSlot' \in [Slots -> Superblocks]
  BY <1>3 DEF TypeOK
<1> QED BY ZenonT(30), <1>2, <1>4, <1>6, <1>7, <1>8, <1>9, <1>10

\* The superblock write.
LEMMA WriteSuperblockStep ==
    ASSUME CommitInv, WriteSuperblock
    PROVE  CommitInv'
<1> USE DEF CommitInv, WriteSuperblock
<1> DEFINE sb == Superblock(txnCounter + 1, current)
<1>1. sb \in Superblocks
  BY MaxTxnCounterAssumption
  DEF SlotsByPhase, TypeOK, Superblock, Superblocks, CommitPhases
<1> HIDE DEF sb
<1>2. osSlot' = [osSlot EXCEPT ![TargetSlot] = sb]
  BY DEF sb
<1>3. /\ WinnerSafe' /\ AckedSafe'
      /\ osSlot' \in [Slots -> Superblocks]
      /\ txnCounter' \in 0..MaxTxnCounter
      /\ dropped'.page = dropped.page
      /\ dropped'.slot = {}
      /\ txnCounter' > 0
      /\ OnWinner(txnCounter - 1)'
      /\ osSlot' = [diskSlot EXCEPT ![txnCounter' % N] = sb]
      /\ Solid(current)'
  BY ZenonT(30), <1>1, <1>2, SuperblockInFlight
<1>4. TypeOK'
  BY <1>3 DEF TypeOK, Phases, LivePhases, CommitPhases
<1>5. InFlight(Superblock(txnCounter, current))'
  BY ZenonT(30), <1>3 DEF InFlight, sb
<1>6. SlotsByPhase'
  BY <1>5 DEF SlotsByPhase
<1>7. PagesByPhase'
  BY DEF PagesByPhase, Clean, LivePhases, CommitPhases
<1>8. DroppedPending'
  BY <1>3 DEF DroppedPending
<1> QED BY <1>3, <1>4, <1>6, <1>7, <1>8

\* A superblock in flight that reaches the medium whole becomes the winner,
\* and one that reaches it torn costs nothing.
LEMMA LandedSuperblock ==
    ASSUME CommitInv,
           NEW written, InFlight(written),
           NEW sb \in {Torn, Superblock(txnCounter, current)},
           diskSlot' = [diskSlot EXCEPT ![txnCounter % N] = sb],
           \A p \in Pages : os[p] = disk[p] => disk'[p] = disk[p] /\ os'[p] = os[p],
           UNCHANGED acked
    PROVE  /\ WinnerSafe' /\ AckedSafe'
           /\ sb.valid => /\ IsWinner(diskSlot', txnCounter % N)
                          /\ Spares(txnCounter, txnCounter % N)
<1> USE DEF CommitInv
<1> DEFINE t == txnCounter % N
<1>1. t \in Slots
  BY SlotOfCounter, MaxTxnCounterAssumption DEF TypeOK
<1>2. PICK w \in Slots : /\ IsWinner(diskSlot, w)
                         /\ diskSlot[w] = Superblock(txnCounter - 1, committed)
  BY DEF InFlight, OnWinner
<1>3. /\ diskSlot[w].counter = txnCounter - 1 /\ txnCounter \in Nat /\ txnCounter > 0
      /\ diskSlot \in [Slots -> Superblocks]
  BY <1>2, MaxTxnCounterAssumption DEF Superblock, TypeOK, InFlight
<1>4. sb \in Superblocks
  <2>1. Superblock(txnCounter, current) \in Superblocks
    BY DEF Superblock, Superblocks, TypeOK
  <2> QED BY <2>1, TornType
<1>5. \A s \in Snapshots : Solid(s) => Intact(s, disk') /\ Intact(s, os')
  BY DEF Solid, Intact, Snapshots
<1>6. \A i \in Slots : diskSlot'[i] = IF i = t THEN sb ELSE diskSlot[i]
  BY <1>3
<1>7. CASE sb = Torn
  <2>1. ~sb.valid /\ sb.snap = EmptySnapshot
    BY <1>7 DEF Torn
  <2>2. CASE t = w
    <3>1. Pristine
      BY <2>2, <1>2, <1>3 DEF WinnerSafe, Spares
    <3>2. Pristine'
      BY <3>1, <2>1, <1>6 DEF Pristine
    <3>3. WinnerSafe'
      <4> SUFFICES ASSUME NEW i \in Slots, IsWinner(diskSlot', i)
                   PROVE  Solid(diskSlot[i].snap)'
        BY <3>2 DEF WinnerSafe
      <4>1. diskSlot'[i].snap = EmptySnapshot
        BY <3>2 DEF IsWinner, Pristine
      <4> QED BY <4>1 DEF Solid, Intact, EmptySnapshot
    <3>4. ~acked.some
      BY <1>2, <1>3, <2>2, WinnerUnique DEF AckedSafe, Spares
    <3> QED BY <3>3, <3>4, <2>1 DEF AckedSafe
  <2>3. CASE t # w
    <3>1. IsWinner(diskSlot', w)
      BY ZenonT(30), <1>1, <1>2, <1>3, <1>7, <2>3, TornSpares
    <3>2. diskSlot' \in [Slots -> Superblocks]
      BY <1>1, <1>3, <1>4
    <3>3. diskSlot'[w] = diskSlot[w]
      BY <1>6, <2>3
    <3>4. Solid(diskSlot[w].snap) /\ (Spares(diskSlot[w].counter, w) \/ Pristine)
      BY <1>2 DEF WinnerSafe
    <3>5. Pristine => Pristine'
      BY <1>6, <2>1 DEF Pristine
    <3>6. diskSlot[w].snap \in Snapshots
      BY <1>3 DEF Superblocks
    <3>7. WinnerSafe'
      <4> SUFFICES ASSUME NEW i \in Slots, IsWinner(diskSlot', i)
                   PROVE  /\ Solid(diskSlot[i].snap)'
                          /\ (Spares(diskSlot[i].counter, i) \/ Pristine)'
        BY DEF WinnerSafe
      <4>1. i = w
        BY ZenonT(30), <3>1, <3>2, WinnerUnique
      <4> QED BY <4>1, <3>3, <3>4, <3>5, <3>6, <1>5 DEF Spares, Solid
    <3>8. AckedSafe'
      <4>1. acked.some => /\ Spares(diskSlot[w].counter, w)
                          /\ diskSlot[w].counter >= acked.counter
                          /\ diskSlot[w].counter = acked.counter =>
                                diskSlot[w].snap = acked.snap
        BY <1>2, <1>3, WinnerUnique DEF AckedSafe
      <4> QED BY <4>1, <3>1, <3>3 DEF AckedSafe, Spares
    <3> QED BY <3>7, <3>8, <2>1
  <2> QED BY <2>2, <2>3
<1>8. CASE sb = Superblock(txnCounter, current)
  <2>1. sb.valid /\ sb.counter = txnCounter /\ sb.snap = current
    BY <1>8 DEF Superblock
  <2>2. \A i \in Slots : IsWinner(diskSlot', i) <=> i = t
    <3>1. sb.counter > diskSlot[w].counter
      BY <2>1, <1>3
    <3> HIDE SomeTorn
    <3> QED BY ZenonT(30), <3>1, <2>1, <1>1, <1>2, <1>3, <1>4, NewerWins
  <2>3. Intact(current, disk') /\ Intact(current, os')
    BY <1>5 DEF InFlight, TypeOK
  <2>4. Spares(txnCounter, t)
    BY <1>3, SparesOwnSlot
  <2>5. WinnerSafe'
    BY <2>1, <2>2, <2>3, <2>4, <1>1, <1>6 DEF WinnerSafe, Spares, Solid
  <2>6. AckedSafe'
    <3>1. acked.some => acked.counter < txnCounter
      BY <1>2, <1>3, WinnerUnique, MaxTxnCounterAssumption DEF AckedSafe, TypeOK
    <3>2. acked.counter \in Nat
      BY MaxTxnCounterAssumption DEF TypeOK
    <3>3. IsWinner(diskSlot', t) /\ diskSlot'[t] = sb /\ t \in Slots
      BY ZenonT(30), <1>1, <1>6, <2>2
    <3>4. Spares(diskSlot'[t].counter, t)
      BY <3>3, <2>1, <2>4
    <3> HIDE DEF t
    <3>5. acked.some => /\ diskSlot'[t].counter > acked.counter
                        /\ diskSlot'[t].counter # acked.counter
                        /\ diskSlot'[t].counter >= acked.counter
      BY <3>1, <3>2, <3>3, <2>1, <1>3
    <3> QED BY <3>3, <3>4, <3>5 DEF AckedSafe, Spares
  <2> QED BY ZenonT(30), <2>2, <2>4, <2>5, <2>6, <1>1
<1> QED BY <1>7, <1>8

\* fsync #3 and the promotion of the roots.
LEMMA FsyncSuperblockStep ==
    ASSUME CommitInv, FsyncSuperblock
    PROVE  CommitInv'
<1> USE DEF CommitInv, FsyncSuperblock
<1> DEFINE sb == Superblock(txnCounter, current)
           t == txnCounter % N
<1>1. InFlight(sb) /\ dropped.slot = {}
  BY DEF SlotsByPhase, DroppedPending
<1>2. /\ diskSlot' = [diskSlot EXCEPT ![txnCounter % N] = sb]
      /\ osSlot' = diskSlot'
  BY ZenonT(30), <1>1 DEF SyncFile, InFlight, TypeOK
<1>3. \A p \in Pages : os[p] = disk[p] => disk'[p] = disk[p] /\ os'[p] = os[p]
  BY DEF SyncFile
<1>4. t \in Slots
  BY SlotOfCounter, MaxTxnCounterAssumption DEF TypeOK
<1>5. sb \in Superblocks /\ sb.valid /\ sb.counter = txnCounter /\ sb.snap = current
  BY DEF Superblock, Superblocks, TypeOK
<1>6. diskSlot'[t] = sb
  BY <1>2, <1>4 DEF TypeOK
<1>7. PICK w \in Slots : /\ IsWinner(diskSlot, w)
                         /\ diskSlot[w].counter = txnCounter - 1
  BY <1>1 DEF InFlight, OnWinner, Superblock
<1>8. txnCounter \in Nat
  BY MaxTxnCounterAssumption DEF TypeOK
<1>9. \A i \in Slots : IsWinner(diskSlot', i) <=> i = t
  <2>1. sb.counter > diskSlot[w].counter
    BY <1>5, <1>7, <1>8
  <2> HIDE DEF sb
  <2>2. diskSlot \in [Slots -> Superblocks]
    BY DEF TypeOK
  <2> HIDE SomeTorn
  <2> QED BY ZenonT(30), <2>1, <2>2, <1>2, <1>4, <1>5, <1>7, NewerWins
<1>10. Spares(txnCounter, t)
  BY <1>8, SparesOwnSlot
<1>11. Solid(current)'
  BY <1>1, <1>3 DEF InFlight, Solid, Intact
<1>12. TypeOK'
  BY <1>2, <1>4, <1>5 DEF TypeOK, SyncFile, Phases, LivePhases
<1> HIDE DEF sb, t
<1>13. WinnerSafe'
  BY <1>4, <1>5, <1>6, <1>9, <1>10, <1>11 DEF WinnerSafe, Spares
<1>14. SlotsByPhase'
  <2>1. OnWinner(txnCounter)'
    BY <1>4, <1>6, <1>9 DEF OnWinner, sb, Superblock
  <2> QED BY <1>2, <2>1 DEF SlotsByPhase, SlotsDurable, CommitPhases
<1>15. PagesByPhase'
  BY DEF PagesByPhase, Clean
<1>16. DroppedPending'
  BY <1>1 DEF DroppedPending, SyncFile, TypeOK
<1>17. AckedSafe'
  BY SMTT(30), <1>4, <1>5, <1>6, <1>8, <1>9, <1>10 DEF AckedSafe, Spares
<1> QED BY <1>12, <1>13, <1>14, <1>15, <1>16, <1>17

-----------------------------------------------------------------------------
(* Failures.                                                               *)

\* A poisoned transaction promises nothing of the pages it had in hand.
LEMMA PoisonedPages ==
    ASSUME phase' = "poisoned"
    PROVE  PagesByPhase'
  BY DEF PagesByPhase, LivePhases, CommitPhases

\* Errors that only poison.
LEMMA PoisonStep ==
    ASSUME CommitInv, FatalError \/ CommitFails
    PROVE  CommitInv'
<1> USE DEF CommitInv, FatalError, CommitFails, Poison
<1>1. WinnerSafe' /\ AckedSafe'
  BY FileSame
<1>2. TypeOK'
  BY SMTT(30) DEF TypeOK, fileVars, Phases
<1>3. SlotsByPhase'
  BY SMTT(30) DEF SlotsByPhase, SlotsDurable, InFlight, OnWinner, IsWinner, Solid, Intact,
       fileVars, LivePhases, CommitPhases
<1>4. PagesByPhase'
  BY ONLY PoisonedPages, FatalError \/ CommitFails DEF FatalError, CommitFails, Poison
<1>5. DroppedPending'
  BY DEF DroppedPending, fileVars
<1> QED BY <1>1, <1>2, <1>3, <1>4, <1>5

\* A page write that fails half way.
LEMMA WritePageFailsStep ==
    ASSUME CommitInv, NEW p \in Pages, WritePageFails(p)
    PROVE  CommitInv'
<1> USE DEF CommitInv, WritePageFails, Poison
<1>1. phase \in LivePhases \ {"barrier"}
  BY DEF LivePhases, CommitPhases
<1>2. WinnerSafe'
  BY ZenonT(30), <1>1, WriteSparesWinner
<1>3. AckedSafe'
  BY DEF AckedSafe, IsWinner, Spares
<1>4. TypeOK'
  BY DEF TypeOK, Bytes, Phases
<1>5. SlotsByPhase'
  BY DEF SlotsByPhase, SlotsDurable, LivePhases, CommitPhases
<1>6. PagesByPhase'
  BY PoisonedPages
<1>7. DroppedPending'
  BY DEF DroppedPending, TypeOK
<1> QED BY <1>2, <1>3, <1>4, <1>5, <1>6, <1>7

\* A superblock write that fails half way.
LEMMA WriteSuperblockFailsStep ==
    ASSUME CommitInv, WriteSuperblockFails
    PROVE  CommitInv'
<1> USE DEF CommitInv, WriteSuperblockFails, Poison
<1>1. /\ WinnerSafe' /\ AckedSafe'
      /\ osSlot' \in [Slots -> Superblocks]
      /\ txnCounter' \in 0..MaxTxnCounter
      /\ dropped'.page = dropped.page
      /\ dropped'.slot = {}
      /\ txnCounter' > 0
      /\ OnWinner(txnCounter - 1)'
      /\ osSlot' = [diskSlot EXCEPT ![txnCounter' % N] = Torn]
      /\ Solid(current)'
  BY ZenonT(30), TornType, SuperblockInFlight
<1>2. TypeOK'
  BY <1>1 DEF TypeOK, Phases
<1>3. InFlight(Torn)'
  BY ZenonT(30), <1>1 DEF InFlight, Torn, EmptySnapshot
<1>4. SlotsByPhase'
  BY <1>3 DEF SlotsByPhase, LivePhases, CommitPhases, Torn, EmptySnapshot
<1>5. PagesByPhase'
  BY DEF PagesByPhase, LivePhases, CommitPhases
<1>6. DroppedPending'
  BY <1>1 DEF DroppedPending
<1> QED BY <1>1, <1>2, <1>4, <1>5, <1>6

\* An fsync that fails.
LEMMA FsyncFailsStep ==
    ASSUME CommitInv,
           NEW P \in SUBSET PendingPages, NEW S \in SUBSET PendingSlots,
           FsyncFails(P, S)
    PROVE  CommitInv'
<1> USE DEF CommitInv, FsyncFails, Poison
<1>1. WinnerSafe' /\ AckedSafe'
  BY DEF WinnerSafe, AckedSafe, Solid, Intact, Pristine, Spares, IsWinner
<1>2. TypeOK'
  BY SMTT(30) DEF TypeOK, Phases, PendingPages, PendingSlots
<1>3. SlotsByPhase'
  BY DEF SlotsByPhase, SlotsDurable, InFlight, OnWinner, IsWinner, Solid, Intact,
       LivePhases, CommitPhases
<1>4. PagesByPhase'
  BY ZenonT(30) DEF PagesByPhase, LivePhases, CommitPhases
<1>5. DroppedPending'
  BY DEF DroppedPending, PendingPages, PendingSlots, TypeOK
<1> QED BY SMTT(30), <1>1, <1>2, <1>3, <1>4, <1>5

-----------------------------------------------------------------------------
(* Crashes and recovery.                                                   *)

\* Of a superblock in flight a power loss leaves nothing, all or a torn slot.
LEMMA PowerLossSlots ==
    ASSUME CommitInv,
           NEW K, NEW T,
           NEW KS \in SUBSET PendingSlots, NEW TS \in SUBSET (PendingSlots \ KS),
           PowerLoss(K, T, KS, TS)
    PROVE  \/ diskSlot' = diskSlot
           \/ /\ phase \in {"barrier", "poisoned"}
              /\ \E written \in {Torn, Superblock(txnCounter, current)} :
                   \E sb \in {Torn, written} :
                     /\ InFlight(written)
                     /\ diskSlot' = [diskSlot EXCEPT ![txnCounter % N] = sb]
<1> USE DEF CommitInv
<1> DEFINE t == txnCounter % N
<1>1. CASE SlotsDurable
  <2>1. PendingSlots = {}
    BY <1>1 DEF PendingSlots, SlotsDurable
  <2> QED BY <2>1 DEF PowerLoss, TypeOK
<1>2. ASSUME NEW sb \in {Torn, Superblock(txnCounter, current)}, InFlight(sb)
      PROVE  \/ diskSlot' = diskSlot
             \/ diskSlot' = [diskSlot EXCEPT ![t] = sb]
             \/ diskSlot' = [diskSlot EXCEPT ![t] = Torn]
  <2>1. t \in Slots /\ diskSlot \in [Slots -> Superblocks]
    BY SlotOfCounter, MaxTxnCounterAssumption DEF TypeOK
  <2>2. PendingSlots \subseteq {t} /\ osSlot[t] = sb
    BY <1>2, <2>1 DEF PendingSlots, InFlight
  <2> HIDE DEF t
  <2>3. diskSlot' = [i \in Slots |-> IF i \in KS THEN osSlot[i]
                                     ELSE IF i \in TS THEN Torn ELSE diskSlot[i]]
    BY DEF PowerLoss
  <2>4. CASE t \in KS
    BY ZenonT(30), <2>1, <2>2, <2>3, <2>4
  <2>5. CASE t \in TS
    BY ZenonT(30), <2>1, <2>2, <2>3, <2>5
  <2>6. CASE t \notin KS /\ t \notin TS
    BY <2>1, <2>2, <2>3, <2>6
  <2> QED BY <2>4, <2>5, <2>6
<1>3. \/ SlotsDurable
      \/ /\ phase \in {"barrier", "poisoned"}
         /\ \/ InFlight(Superblock(txnCounter, current))
            \/ InFlight(Torn)
  BY DEF SlotsByPhase
<1> QED BY <1>1, <1>2, <1>3

\* Power loss at any point of a commit.
LEMMA PowerLossStep ==
    ASSUME CommitInv,
           NEW K \in SUBSET PendingPages, NEW T \in SUBSET (PendingPages \ K),
           NEW KS \in SUBSET PendingSlots, NEW TS \in SUBSET (PendingSlots \ KS),
           PowerLoss(K, T, KS, TS)
    PROVE  CommitInv'
<1> USE DEF CommitInv
<1>1. \A p \in Pages : os[p] = disk[p] => disk'[p] = disk[p] /\ os'[p] = os[p]
  BY DEF PowerLoss, PendingPages
<1>2. WinnerSafe' /\ AckedSafe'
  <2>1. CASE diskSlot' = diskSlot
    BY SMTT(30), <2>1, <1>1 DEF PowerLoss, WinnerSafe, AckedSafe, Solid, Intact, Pristine,
         Spares, IsWinner
  <2>2. ASSUME NEW written, InFlight(written),
               NEW sb \in {Torn, Superblock(txnCounter, current)},
               diskSlot' = [diskSlot EXCEPT ![txnCounter % N] = sb]
        PROVE  WinnerSafe' /\ AckedSafe'
    BY ZenonT(30), <2>2, <1>1, LandedSuperblock DEF PowerLoss
  <2> QED BY SMTT(90), <2>1, <2>2, PowerLossSlots
<1>3. TypeOK'
  <2>1. diskSlot' \in [Slots -> Superblocks]
    BY TornType DEF PowerLoss, TypeOK
  <2>2. disk' \in [Pages -> Bytes]
    BY SMTT(30) DEF PowerLoss, TypeOK, Bytes
  <2> QED BY SMTT(30), <2>1, <2>2, MaxTxnCounterAssumption
       DEF PowerLoss, ForgetMemory, TypeOK, NothingDropped, Snapshots, EmptySnapshot, Phases
<1>4. SlotsByPhase'
  BY SMTT(30) DEF PowerLoss, ForgetMemory, SlotsByPhase, SlotsDurable, LivePhases, CommitPhases
<1>5. PagesByPhase'
  BY SMTT(30) DEF PowerLoss, ForgetMemory, PagesByPhase, LivePhases, CommitPhases
<1>6. DroppedPending'
  BY DEF PowerLoss, ForgetMemory, DroppedPending, NothingDropped
<1> QED BY <1>2, <1>3, <1>4, <1>5, <1>6

\* A handle dropped while the superblocks are durable.
LEMMA ExitStep ==
    ASSUME CommitInv, SlotsDurable, Exit
    PROVE  CommitInv'
<1> USE DEF CommitInv, Exit, ForgetMemory
<1>1. WinnerSafe' /\ AckedSafe'
  BY FileSame
<1>2. TypeOK'
  BY MaxTxnCounterAssumption DEF TypeOK, fileVars, Snapshots, EmptySnapshot, Phases
<1>3. SlotsByPhase'
  BY DEF SlotsByPhase, SlotsDurable, fileVars, LivePhases, CommitPhases
<1>4. PagesByPhase'
  BY DEF PagesByPhase, LivePhases, CommitPhases
<1>5. DroppedPending'
  BY DEF DroppedPending, fileVars
<1> QED BY <1>1, <1>2, <1>3, <1>4, <1>5

\* open_existing.
LEMMA OpenStep ==
    ASSUME CommitInv, NEW i \in Slots, Open(i)
    PROVE  CommitInv'
<1> USE DEF CommitInv, Open
<1>1. WinnerSafe' /\ AckedSafe'
  BY FileSame
<1>2. osSlot[i] \in Superblocks /\ osSlot[i].valid /\ osSlot = diskSlot
  BY DEF TypeOK, IsWinner, SlotsByPhase, SlotsDurable
<1>3. TypeOK'
  BY SMTT(30), <1>2 DEF TypeOK, Superblocks, fileVars, Snapshots, EmptySnapshot, Phases, LivePhases
<1>4. SlotsByPhase'
  <2>1. osSlot[i] = Superblock(osSlot[i].counter, osSlot[i].snap)
    BY ZenonT(30), <1>2 DEF Superblock, Superblocks
  <2>2. OnWinner(txnCounter)'
    BY <1>2, <2>1 DEF OnWinner, IsWinner, fileVars
  <2> QED BY <1>2, <2>2 DEF SlotsByPhase, SlotsDurable, fileVars, CommitPhases
<1>5. PagesByPhase'
  BY DEF PagesByPhase, EmptySnapshot, Clean
<1>6. DroppedPending'
  BY DEF DroppedPending, fileVars
<1> QED BY <1>1, <1>3, <1>4, <1>5, <1>6

-----------------------------------------------------------------------------
(* The invariant, and what follows from it.                                *)

LEMMA CommitNext == CommitInv /\ [Next]_vars => CommitInv'
<1> SUFFICES ASSUME CommitInv, [Next]_vars PROVE CommitInv'
  OBVIOUS
<1>1. CASE Transaction
  BY <1>1, TransactionStep
<1>2. CASE Commit
  BY <1>2, PhaseStep, WritePageStep, FsyncPagesStep, PersistStep,
     WriteSuperblockStep, FsyncSuperblockStep DEF Commit
<1>3. CASE Failure
  BY <1>3, PoisonStep, WritePageFailsStep, WriteSuperblockFailsStep, FsyncFailsStep
  DEF Failure
<1>4. CASE CrashAndOpen
  BY <1>4, PowerLossStep, OpenStep DEF CrashAndOpen
<1>5. CASE SlotsDurable /\ Exit
  BY <1>5, ExitStep
<1>6. CASE UNCHANGED vars
  <2> USE <1>6 DEF vars, CommitInv
  <2>1. TypeOK'
    BY DEF TypeOK
  <2>2. WinnerSafe' /\ AckedSafe'
    BY SMTT(30), FileSame DEF fileVars
  <2>3. SlotsByPhase'
    BY SMTT(30) DEF SlotsByPhase, SlotsDurable, OnWinner, InFlight, IsWinner, Solid, Intact
  <2>4. PagesByPhase'
    BY ZenonT(30) DEF PagesByPhase, Written, Clean, Solid, Intact
  <2>5. DroppedPending'
    BY ZenonT(30) DEF DroppedPending
  <2> QED BY <2>1, <2>2, <2>3, <2>4, <2>5
<1> QED BY <1>1, <1>2, <1>3, <1>4, <1>5, <1>6 DEF Next

\* The inductive invariant holds in every reachable state, for every N: the
\* engine works on top of a durable, readable winner (run_commit, open_existing).
THEOREM CommitInvariant == Spec => []CommitInv
BY CommitInit, CommitNext, PTL DEF Spec

\* Every variable keeps its type; the counter never passes MAX_TXN_COUNTER.
THEOREM TypeCorrect == Spec => []TypeOK
<1>1. CommitInv => TypeOK
  BY DEF CommitInv
<1> QED BY <1>1, CommitInvariant, PTL

\* The snapshot recovery would pick is always readable from the medium
\* (DurableWinnerIntact; pages durable before the superblock naming them).
THEOREM DurableWinner == Spec => []DurableWinnerIntact
<1>1. CommitInv => DurableWinnerIntact
  BY DEF CommitInv, WinnerSafe, Solid, DurableWinnerIntact
<1> QED BY <1>1, CommitInvariant, PTL

\* The committed roots stay readable while a commit is under way.
THEOREM HandleReadable == Spec => []CommittedReadable
<1>1. CommitInv => CommittedReadable
  BY SMTT(30), CommittedSolid DEF CommittedReadable, Solid
<1> QED BY <1>1, CommitInvariant, PTL

\* No acknowledged commit is lost, for every N from 2 up.
THEOREM AckedDurable == Spec => []AckedCommitDurable
<1>1. CommitInv => AckedCommitDurable
  BY DEF CommitInv, AckedSafe, AckedCommitDurable
<1> QED BY <1>1, CommitInvariant, PTL

-----------------------------------------------------------------------------
(* With three slots or more the file can always be opened.                 *)

\* A superblock write that is torn leaves a slot to open from, and not a newer
\* one than before.
LEMMA TornLeavesWinner ==
    ASSUME N >= 3, CommitInv, OpenableInv, NEW written, InFlight(written)
    PROVE  LET torn == [diskSlot EXCEPT ![txnCounter % N] = Torn]
           IN  \E i \in Slots : /\ IsWinner(torn, i)
                                /\ Spares(torn[i].counter, i)
                                /\ torn[i].counter < txnCounter
<1> USE DEF CommitInv
<1> DEFINE t == txnCounter % N
           torn == [diskSlot EXCEPT ![t] = Torn]
<1>1. t \in Slots
  BY SlotOfCounter, MaxTxnCounterAssumption DEF TypeOK
<1>2. PICK w \in Slots : /\ IsWinner(diskSlot, w)
                         /\ diskSlot[w] = Superblock(txnCounter - 1, committed)
  BY SMTT(30) DEF InFlight, OnWinner
<1>3. /\ diskSlot[w].counter = txnCounter - 1 /\ txnCounter \in Nat /\ txnCounter > 0
      /\ diskSlot \in [Slots -> Superblocks]
  BY SMTT(30), <1>2, MaxTxnCounterAssumption DEF Superblock, TypeOK, InFlight
<1>4. \A i \in Slots : torn[i] = IF i = t THEN Torn ELSE diskSlot[i]
  BY <1>3
<1>5. CASE Spares(diskSlot[w].counter, w)
  <2>1. t # w
    BY <1>5, <1>3 DEF Spares
  <2>2. IsWinner(torn, w)
    BY ZenonT(30), <1>1, <1>2, <1>3, <2>1, TornSpares
  <2> QED BY <1>3, <1>4, <1>5, <2>1, <2>2
<1>6. CASE ~Spares(diskSlot[w].counter, w)
  <2>1. \A j \in Slots : diskSlot[j].valid /\ diskSlot[j].counter = N - 1 - j
    BY <1>2, <1>3, <1>6, WinnerUnique DEF OpenableInv
  <2>2. w = 0
    BY <1>2, <2>1, NAssumption DEF IsWinner, Slots
  <2>3. txnCounter = N
    BY SMTT(90), <2>1, <2>2, <1>3, NAssumption DEF Slots
  <2>4. t = 0
    BY <2>3, NAssumption
  <2> HIDE DEF t
  <2>5. 1 \in Slots /\ torn[1].valid /\ torn[1].counter = N - 2
    BY <1>4, <2>1, <2>4, NAssumption DEF Slots
  <2>6. ~torn[0].valid
    BY <1>4, <2>4, NAssumption DEF Slots, Torn
  <2>7. \A j \in Slots : j # 0 => torn[j].counter = N - 1 - j
    BY SMTT(30), <1>4, <2>1, <2>4
  <2> HIDE DEF torn
  <2>8. IsWinner(torn, 1)
    BY SMTT(30), <2>5, <2>6, <2>7, NAssumption DEF IsWinner, Slots
  <2>9. Spares(torn[1].counter, 1)
    <3>1. (N - 2) + 1 = N - 1 /\ (N - 1) % N = N - 1
      BY SMTT(30), NAssumption
    <3> QED BY <3>1, <2>5, NAssumption DEF Spares
  <2> QED BY <2>3, <2>5, <2>8, <2>9, NAssumption DEF t, torn
<1> QED BY ZenonT(30), <1>5, <1>6

\* How a step changes the durable slots: not at all, or by landing the
\* superblock that is in flight.
LEMMA SlotsStep ==
    ASSUME CommitInv, [Next]_vars
    PROVE  \/ diskSlot' = diskSlot
           \/ \E written, sb \in {Torn, Superblock(txnCounter, current)} :
                /\ InFlight(written)
                /\ diskSlot' = [diskSlot EXCEPT ![txnCounter % N] = sb]
                /\ \A p \in Pages : os[p] = disk[p] =>
                       disk'[p] = disk[p] /\ os'[p] = os[p]
                /\ sb.valid \/ UNCHANGED acked
<1> USE DEF CommitInv
<1>1. CASE Transaction
  BY <1>1 DEF Transaction, Begin, Mutate, FreePage, Rollback, fileVars
<1>2. CASE Commit
  <2>1. CASE FsyncPages
    <3>1. SlotsDurable
      BY SMTT(30), <2>1 DEF FsyncPages, SlotsByPhase
    <3> QED BY ZenonT(30), <2>1, <3>1, SyncSparesWinner DEF FsyncPages
  <2>2. CASE FsyncSuperblock
    <3> DEFINE sb == Superblock(txnCounter, current)
    <3>1. InFlight(sb) /\ dropped.slot = {}
      BY <2>2 DEF FsyncSuperblock, SlotsByPhase, DroppedPending
    <3>2. diskSlot' = [diskSlot EXCEPT ![txnCounter % N] = sb]
      BY ZenonT(30), <3>1, <2>2 DEF FsyncSuperblock, SyncFile, InFlight, TypeOK
    <3>3. \A p \in Pages : os[p] = disk[p] => disk'[p] = disk[p] /\ os'[p] = os[p]
      BY <2>2 DEF FsyncSuperblock, SyncFile
    <3>4. sb.valid
      BY DEF Superblock
    <3> QED BY SMTT(30), <3>1, <3>2, <3>3, <3>4
  <2> QED BY <1>2, <2>1, <2>2 DEF Commit, CommitStart, CommitRefused, WritePage,
             PersistFreemap, PersistDone, WriteSuperblock, fileVars
<1>3. CASE Failure
  BY SMTT(30), <1>3 DEF Failure, FatalError, CommitFails, WritePageFails, WriteSuperblockFails,
       FsyncFails, fileVars
<1>4. ASSUME NEW K \in SUBSET PendingPages, NEW T \in SUBSET (PendingPages \ K),
             NEW KS \in SUBSET PendingSlots, NEW TS \in SUBSET (PendingSlots \ KS),
             PowerLoss(K, T, KS, TS)
      PROVE  \/ diskSlot' = diskSlot
             \/ \E written, sb \in {Torn, Superblock(txnCounter, current)} :
                  /\ InFlight(written)
                  /\ diskSlot' = [diskSlot EXCEPT ![txnCounter % N] = sb]
                  /\ \A p \in Pages : os[p] = disk[p] =>
                         disk'[p] = disk[p] /\ os'[p] = os[p]
                  /\ sb.valid \/ UNCHANGED acked
  <2>1. \A p \in Pages : os[p] = disk[p] => disk'[p] = disk[p] /\ os'[p] = os[p]
    BY <1>4 DEF PowerLoss, PendingPages
  <2>2. UNCHANGED acked
    BY SMTT(30), <1>4 DEF PowerLoss
  <2> QED BY SMTT(30), <1>4, <2>1, <2>2, PowerLossSlots
<1>5. CASE (\E i \in Slots : Open(i)) \/ Exit
  BY <1>5 DEF Open, Exit, fileVars
<1>6. CASE UNCHANGED vars
  BY SMTT(30), <1>6 DEF vars
<1> QED BY ZenonT(30), <1>1, <1>2, <1>3, <1>4, <1>5, <1>6 DEF Next, CrashAndOpen

LEMMA OpenableNext ==
    ASSUME N >= 3, CommitInv, OpenableInv, [Next]_vars
    PROVE  OpenableInv'
<1>1. CASE diskSlot' = diskSlot
  BY <1>1 DEF OpenableInv, IsWinner, Spares
<1>2. ASSUME NEW written, InFlight(written),
             diskSlot' = [diskSlot EXCEPT ![txnCounter % N] = Torn]
      PROVE  OpenableInv'
  BY ZenonT(30), <1>2, TornLeavesWinner DEF OpenableInv, Spares
<1>3. ASSUME NEW written, InFlight(written),
             diskSlot' = [diskSlot EXCEPT ![txnCounter % N] =
                              Superblock(txnCounter, current)]
      PROVE  OpenableInv'
  <2> DEFINE sb == Superblock(txnCounter, current)
             t == txnCounter % N
  <2>1. t \in Slots /\ txnCounter \in Nat /\ diskSlot \in [Slots -> Superblocks]
    BY SMTT(30), SlotOfCounter, MaxTxnCounterAssumption DEF CommitInv, TypeOK
  <2>2. sb \in Superblocks /\ sb.valid /\ sb.counter = txnCounter
    BY SMTT(30) DEF CommitInv, TypeOK, Superblock, Superblocks
  <2>3. PICK w \in Slots : IsWinner(diskSlot, w) /\ diskSlot[w].counter = txnCounter - 1
    BY SMTT(30), <1>3 DEF InFlight, OnWinner, Superblock
  <2>4. sb.counter > diskSlot[w].counter
    BY <2>1, <2>2, <2>3
  <2>5. diskSlot'[t] = sb
    BY <1>3, <2>1
  <2>6. Spares(txnCounter, t)
    BY <2>1, SparesOwnSlot
  <2> HIDE DEF sb
  <2>7. IsWinner(diskSlot', t)
    <3> HIDE SomeTorn
    <3> QED BY ZenonT(30), <1>3, <2>1, <2>2, <2>3, <2>4, NewerWins DEF sb
  <2> QED BY <2>1, <2>2, <2>5, <2>6, <2>7 DEF OpenableInv, Spares
<1> QED BY SMTT(30), <1>1, <1>2, <1>3, SlotsStep

\* create_new leaves a winner, and every slot as it wrote it.
LEMMA OpenableInit == Init => OpenableInv
<1> SUFFICES ASSUME Init PROVE OpenableInv
  OBVIOUS
<1> HIDE SomeTorn
<1>1. \A j \in Slots : diskSlot[j].valid /\ diskSlot[j].counter = N - 1 - j
  BY DEF Init, new_empty, Superblock
<1>2. 0 \in Slots /\ \A j \in Slots : N - 1 - j < N - 1 - 0 \/ j = 0
  BY NAssumption DEF Slots
<1>3. IsWinner(diskSlot, 0)
  BY <1>1, <1>2 DEF IsWinner
<1> QED BY <1>1, <1>2, <1>3 DEF OpenableInv

\* With N >= 3 the file can be opened whatever commits were torn, the very
\* first one included (create_new's stagger, run_commit's slot choice).
THEOREM Openable == ASSUME N >= 3 PROVE Spec => []AlwaysOpenable
<1>1. Init => OpenableInv
  BY OpenableInit
<1>2. CommitInv /\ OpenableInv /\ [Next]_vars => OpenableInv'
  BY OpenableNext
<1>3. OpenableInv => AlwaysOpenable
  BY DEF OpenableInv, AlwaysOpenable, IsWinner
<1> QED BY <1>1, <1>2, <1>3, CommitInvariant, PTL DEF Spec

-----------------------------------------------------------------------------
(* The refinement of AtomicStore, for every N >= 3.                        *)

\* The invariant the refinement rests on.
RefineInv == N >= 3 /\ CommitInv /\ OpenableInv

-----------------------------------------------------------------------------
(* What the refinement mapping evaluates to.                               *)

\* recovery's choice, as a function.
LEMMA WinnerOfIs ==
    ASSUME NEW slots \in [Slots -> Superblocks],
           NEW i \in Slots, IsWinner(slots, i)
    PROVE  WinnerOf(slots) = i
BY WinnerUnique DEF WinnerOf

\* A readable snapshot reads back as itself.
LEMMA ReadBackIntact ==
    ASSUME NEW s \in Snapshots, NEW b, Intact(s, b)
    PROVE  ReadBack(s, b) = s
BY DEF ReadBack, Intact, Snapshots

\* The stored state is the snapshot of the durable winner.
LEMMA StoredIs ==
    RefineInv => \A w \in Slots : IsWinner(diskSlot, w) =>
                     StoredState = diskSlot[w].snap
<1> SUFFICES ASSUME RefineInv, NEW w \in Slots, IsWinner(diskSlot, w)
             PROVE  StoredState = diskSlot[w].snap
  OBVIOUS
<1>1. diskSlot \in [Slots -> Superblocks] /\ diskSlot[w].snap \in Snapshots
  BY DEF RefineInv, CommitInv, TypeOK, Superblocks
<1>2. Intact(diskSlot[w].snap, disk)
  BY DEF RefineInv, CommitInv, WinnerSafe, Solid
<1> QED BY <1>1, <1>2, WinnerOfIs, ReadBackIntact DEF StoredState

\* The handle shows the committed roots.
LEMMA ShownIs ==
    RefineInv => /\ phase \in LivePhases => ShownState = committed
                 /\ phase \notin LivePhases => ShownState = NoState
BY CommittedSolid, ReadBackIntact DEF RefineInv, CommitInv, TypeOK, ShownState, Solid

\* A snapshot is a state, not the absence of one.
LEMMA SnapshotIsState == ASSUME NEW s \in Snapshots PROVE s # NoState
<1>1. s \in [Pages -> Content \cup {Garbage, Absent}]
  BY DEF Snapshots
<1> QED BY <1>1, NoStateAssumption

\* Nothing is staged unless a whole superblock is in flight.
LEMMA StagedIs ==
    RefineInv =>
        /\ phase \notin {"barrier", "poisoned"} => StagedState = NoState
        /\ SlotsDurable => StagedState = NoState
        /\ InFlight(Torn) => StagedState = NoState
        /\ phase \in {"barrier", "poisoned"}
             /\ InFlight(Superblock(txnCounter, current)) => StagedState = current
<1> SUFFICES ASSUME RefineInv
    PROVE /\ phase \notin {"barrier", "poisoned"} => StagedState = NoState
          /\ SlotsDurable => StagedState = NoState
          /\ InFlight(Torn) => StagedState = NoState
          /\ phase \in {"barrier", "poisoned"}
               /\ InFlight(Superblock(txnCounter, current)) => StagedState = current
  BY SMTT(30)
<1> USE DEF RefineInv, CommitInv
<1>1. PICK v \in Slots : IsWinner(diskSlot, v)
  BY DEF OpenableInv
<1>2. diskSlot \in [Slots -> Superblocks] /\ osSlot \in [Slots -> Superblocks]
  BY DEF TypeOK
<1>3. WinnerOf(diskSlot) = v /\ diskSlot[v].counter \in Nat
  BY <1>1, <1>2, WinnerOfIs, MaxTxnCounterAssumption DEF Superblocks
<1>4. phase \notin {"barrier", "poisoned"} => StagedState = NoState
  BY DEF StagedState, NewerWritten
<1>5. SlotsDurable => StagedState = NoState
  BY <1>3 DEF StagedState, NewerWritten, SlotsDurable
<1>6. ASSUME NEW sb, InFlight(sb)
      PROVE  diskSlot[v].counter = txnCounter - 1 /\ txnCounter \in Nat /\ txnCounter > 0
  BY <1>6, <1>1, <1>2, WinnerUnique, MaxTxnCounterAssumption
  DEF InFlight, OnWinner, Superblock, TypeOK
<1>7. ASSUME InFlight(Torn) PROVE StagedState = NoState
  <2>1. osSlot = [diskSlot EXCEPT ![txnCounter % N] = Torn]
    BY <1>7 DEF InFlight
  <2>2. PICK i \in Slots : IsWinner(osSlot, i) /\ osSlot[i].counter < txnCounter
    BY ZenonT(30), <1>7, <2>1, TornLeavesWinner
  <2>3. WinnerOf(osSlot) = i /\ osSlot[i].counter \in Nat
    BY <2>2, <1>2, WinnerOfIs, MaxTxnCounterAssumption DEF Superblocks
  <2> QED BY <1>3, <1>6, <1>7, <2>2, <2>3 DEF StagedState, NewerWritten
<1>8. ASSUME phase \in {"barrier", "poisoned"},
             InFlight(Superblock(txnCounter, current))
      PROVE  StagedState = current
  <2> DEFINE sb == Superblock(txnCounter, current)
             t == txnCounter % N
  <2>1. t \in Slots
    BY SlotOfCounter, MaxTxnCounterAssumption DEF TypeOK
  <2>2. sb \in Superblocks /\ sb.valid /\ sb.counter = txnCounter /\ sb.snap = current
    BY DEF TypeOK, Superblock, Superblocks
  <2>3. osSlot = [diskSlot EXCEPT ![t] = sb]
    BY <1>8 DEF InFlight
  <2>4. sb.counter > diskSlot[v].counter
    BY <1>6, <1>8, <2>2
  <2> HIDE DEF sb, t
  <2>5. IsWinner(osSlot, t) /\ osSlot[t] = sb
    <3> HIDE SomeTorn
    <3> QED BY ZenonT(30), <2>1, <2>2, <2>3, <2>4, <1>1, <1>2, NewerWins
  <2>6. WinnerOf(osSlot) = t
    BY <2>1, <2>5, <1>2, WinnerOfIs
  <2>7. NewerWritten
    BY <1>3, <1>8, <2>4, <2>5, <2>6 DEF NewerWritten
  <2>8. Intact(current, os) /\ current \in Snapshots
    BY <1>8 DEF InFlight, Solid, TypeOK
  <2> QED BY <2>2, <2>5, <2>6, <2>7, <2>8, ReadBackIntact DEF StagedState
<1> QED BY <1>4, <1>5, <1>7, <1>8

\* What the mapping evaluates to, as one state predicate.
MappingFacts ==
    /\ \A w \in Slots : IsWinner(diskSlot, w) => StoredState = diskSlot[w].snap
    /\ phase \in LivePhases => ShownState = committed
    /\ phase \notin LivePhases => ShownState = NoState
    /\ phase \notin {"barrier", "poisoned"} => StagedState = NoState
    /\ SlotsDurable => StagedState = NoState
    /\ InFlight(Torn) => StagedState = NoState
    /\ phase \in {"barrier", "poisoned"}
         /\ InFlight(Superblock(txnCounter, current)) => StagedState = current

LEMMA Mapping == RefineInv => MappingFacts
BY StoredIs, ShownIs, StagedIs DEF MappingFacts

LEMMA MappingNext == RefineInv' => MappingFacts'
BY Mapping, PTL

-----------------------------------------------------------------------------
(* Every step of the protocol is a step of the store, or none of its       *)
(* business.                                                               *)

\* A step that leaves the durable slots alone stores nothing.
LEMMA StoredSame ==
    ASSUME RefineInv, RefineInv', diskSlot' = diskSlot
    PROVE  StoredState' = StoredState
<1>1. PICK w \in Slots : IsWinner(diskSlot, w)
  BY DEF RefineInv, OpenableInv
<1>2. IsWinner(diskSlot', w)
  BY <1>1
<1>3. StoredState' = diskSlot'[w].snap
  BY <1>2, MappingNext DEF MappingFacts, IsWinner
<1>4. StoredState = diskSlot[w].snap
  BY <1>1, Mapping DEF MappingFacts
<1> QED BY <1>3, <1>4

\* Steps of a live handle up to the superblock write.
LEMMA QuietStep ==
    ASSUME RefineInv, RefineInv',
           phase \in LivePhases \ {"barrier"}, phase' \in LivePhases \ {"barrier"},
           diskSlot' = diskSlot, committed' = committed
    PROVE  UNCHANGED <<StoredState, StagedState, ShownState>>
<1>1. StoredState' = StoredState
  BY StoredSame
<1>2. StagedState = NoState /\ ShownState = committed
  BY Mapping DEF MappingFacts, LivePhases, CommitPhases
<1>3. StagedState' = NoState /\ ShownState' = committed'
  BY MappingNext DEF MappingFacts, LivePhases, CommitPhases
<1> QED BY <1>1, <1>2, <1>3

\* The superblock write stages the current roots.
LEMMA StageStep ==
    ASSUME RefineInv, RefineInv', WriteSuperblock
    PROVE  Store!Stage(current)
<1> USE DEF WriteSuperblock
<1>1. StoredState' = StoredState
  BY StoredSame
<1>2. StagedState = NoState /\ ShownState = committed
  BY Mapping DEF MappingFacts, LivePhases, CommitPhases
<1>3. InFlight(Superblock(txnCounter, current))'
  BY DEF RefineInv, CommitInv, SlotsByPhase
<1>4. StagedState' = current' /\ ShownState' = committed'
  BY <1>3, MappingNext DEF MappingFacts, LivePhases, CommitPhases
<1>5. committed # NoState
  BY SnapshotIsState DEF RefineInv, CommitInv, TypeOK
<1> QED BY <1>1, <1>2, <1>4, <1>5 DEF Store!Stage

\* fsync #3 acknowledges them.
LEMMA AcknowledgeStep ==
    ASSUME RefineInv, RefineInv', FsyncSuperblock
    PROVE  Store!Acknowledge
<1> USE DEF FsyncSuperblock
<1>1. InFlight(Superblock(txnCounter, current))
  BY DEF RefineInv, CommitInv, SlotsByPhase
<1>2. StagedState = current /\ ShownState = committed
  BY <1>1, Mapping DEF MappingFacts, LivePhases, CommitPhases
<1>3. current # NoState /\ committed # NoState
  BY SnapshotIsState DEF RefineInv, CommitInv, TypeOK
<1>4. StagedState' = NoState /\ ShownState' = current
  BY MappingNext DEF MappingFacts, LivePhases
<1>5. PICK w \in Slots : /\ IsWinner(diskSlot', w)
                         /\ diskSlot'[w].snap = current
  <2>1. OnWinner(txnCounter)'
    BY SMTT(30) DEF RefineInv, CommitInv, SlotsByPhase, LivePhases
  <2> QED BY <2>1 DEF OnWinner, Superblock, IsWinner
<1>6. StoredState' = current
  BY <1>5, MappingNext DEF MappingFacts, IsWinner
<1> QED BY <1>2, <1>3, <1>4, <1>6 DEF Store!Acknowledge

\* A failure loses the handle and nothing else.
LEMMA LoseStep ==
    ASSUME RefineInv, RefineInv', Failure \/ CommitRefused
    PROVE  Store!Lose
<1> USE DEF RefineInv, CommitInv
<1>1. diskSlot' = diskSlot /\ phase' = "poisoned" /\ phase \in LivePhases
  BY DEF Failure, FatalError, CommitFails, WritePageFails, WriteSuperblockFails,
         FsyncFails, Poison, CommitRefused, fileVars, LivePhases, CommitPhases
<1>2. StoredState' = StoredState
  BY <1>1, StoredSame
<1>3. ShownState' = NoState
  BY <1>1, MappingNext DEF MappingFacts, LivePhases, CommitPhases
<1>4. StagedState' = StagedState
  <2>1. CASE phase = "barrier"
    <3>1. InFlight(Superblock(txnCounter, current))
      BY <2>1 DEF SlotsByPhase
    <3>2. UNCHANGED <<osSlot, diskSlot, disk, os, committed, current, txnCounter>>
      BY <2>1 DEF Failure, FatalError, CommitFails, WritePageFails,
           WriteSuperblockFails, FsyncFails, CommitRefused, fileVars, CommitPhases
    <3>3. InFlight(Superblock(txnCounter, current))'
      BY <3>1, <3>2 DEF InFlight, OnWinner, IsWinner, Solid, Intact
    <3>4. StagedState = current
      BY <2>1, <3>1, Mapping DEF MappingFacts
    <3>5. StagedState' = current'
      BY <1>1, <3>3, MappingNext DEF MappingFacts
    <3> QED BY <3>2, <3>4, <3>5
  <2>2. CASE phase # "barrier"
    <3>1. StagedState = NoState
      BY <1>1, <2>2, Mapping DEF MappingFacts, LivePhases, CommitPhases
    <3>2. SlotsDurable
      BY <1>1, <2>2 DEF SlotsByPhase, LivePhases, CommitPhases
    <3>3. CASE WriteSuperblockFails
      <4>1. osSlot' = [diskSlot EXCEPT ![txnCounter' % N] = Torn]
        BY <3>2, <3>3 DEF WriteSuperblockFails, TargetSlot, SlotsDurable
      <4>2. InFlight(Torn)'
        BY ZenonT(30), <4>1, <3>3, TornType, SuperblockInFlight
        DEF WriteSuperblockFails, InFlight, Torn, EmptySnapshot
      <4>3. StagedState' = NoState
        BY <4>2, MappingNext DEF MappingFacts, Torn, EmptySnapshot
      <4> QED BY <3>1, <4>3
    <3>4. CASE ~WriteSuperblockFails
      <4>1. SlotsDurable'
        BY <3>2, <3>4 DEF Failure, FatalError, CommitFails, WritePageFails,
             FsyncFails, CommitRefused, fileVars, SlotsDurable
      <4>2. StagedState' = NoState
        BY <4>1, MappingNext DEF MappingFacts
      <4> QED BY <3>1, <4>2
    <3> QED BY <3>3, <3>4
  <2> QED BY <2>1, <2>2
<1> QED BY <1>2, <1>3, <1>4 DEF Store!Lose

\* Power loss keeps the stored state, or the staged one, whole.
LEMMA CrashStep ==
    ASSUME RefineInv, RefineInv',
           NEW K \in SUBSET PendingPages, NEW T \in SUBSET (PendingPages \ K),
           NEW KS \in SUBSET PendingSlots, NEW TS \in SUBSET (PendingSlots \ KS),
           PowerLoss(K, T, KS, TS)
    PROVE  Store!Crash
<1> USE DEF RefineInv
<1> DEFINE t == txnCounter % N
<1>1. phase' = "closed"
  BY DEF PowerLoss, ForgetMemory
<1>2. StagedState' = NoState /\ ShownState' = NoState
  BY <1>1, MappingNext DEF MappingFacts, LivePhases, CommitPhases
<1>3. StoredState' \in {StoredState} \cup ({StagedState} \ {NoState})
  <2>1. CASE diskSlot' = diskSlot
    BY <2>1, StoredSame
  <2>2. ASSUME phase \in {"barrier", "poisoned"},
               NEW written, InFlight(written),
               diskSlot' = [diskSlot EXCEPT ![t] = Torn]
        PROVE  StoredState' = StoredState
    <3>1. PICK w \in Slots : /\ IsWinner(diskSlot, w)
                             /\ diskSlot[w].counter = txnCounter - 1
      BY SMTT(30), <2>2 DEF InFlight, OnWinner, Superblock
    <3>2. StoredState = diskSlot[w].snap
      BY SMTT(30), <3>1, Mapping DEF MappingFacts
    <3>3. PICK v \in Slots : IsWinner(diskSlot', v)
      BY SMTT(30) DEF OpenableInv, IsWinner
    <3>4. StoredState' = diskSlot'[v].snap
      BY <3>3, MappingNext DEF MappingFacts, IsWinner
    <3>5. /\ t \in Slots /\ txnCounter \in Nat /\ txnCounter > 0
          /\ diskSlot \in [Slots -> Superblocks]
          /\ diskSlot' \in [Slots -> Superblocks]
      BY <2>2, SlotOfCounter, MaxTxnCounterAssumption DEF CommitInv, TypeOK, InFlight
    <3>6. CASE t = w
      <4>1. Pristine
        BY SMTT(30), <3>1, <3>5, <3>6 DEF CommitInv, WinnerSafe, Spares
      <4>2. diskSlot[w].snap = EmptySnapshot /\ diskSlot'[v].snap = EmptySnapshot
        BY <4>1, <3>1, <3>3, <3>5, <2>2 DEF Pristine, IsWinner, Torn
      <4> QED BY <4>2, <3>2, <3>4
    <3>7. CASE t # w
      <4> HIDE DEF t
      <4>1. IsWinner(diskSlot', w) /\ diskSlot'[w] = diskSlot[w]
        BY ZenonT(30), <2>2, <3>1, <3>5, <3>7, TornSpares
      <4> QED BY <4>1, <3>2, <3>3, <3>4, <3>5, WinnerUnique
    <3> QED BY <3>6, <3>7
  <2>3. ASSUME phase \in {"barrier", "poisoned"},
               InFlight(Superblock(txnCounter, current)),
               diskSlot' = [diskSlot EXCEPT ![t] = Superblock(txnCounter, current)]
        PROVE  StoredState' = StagedState /\ StagedState # NoState
    <3> DEFINE sb == Superblock(txnCounter, current)
    <3>1. StagedState = current
      BY <2>3, Mapping DEF MappingFacts
    <3>2. current # NoState
      BY SnapshotIsState DEF CommitInv, TypeOK
    <3>3. t \in Slots /\ diskSlot \in [Slots -> Superblocks]
      BY SlotOfCounter, MaxTxnCounterAssumption DEF CommitInv, TypeOK
    <3>4. diskSlot'[t] = sb /\ sb.snap = current /\ sb.valid
      BY <2>3, <3>3 DEF Superblock
    <3>5. \A p \in Pages : os[p] = disk[p] => disk'[p] = disk[p] /\ os'[p] = os[p]
      BY DEF PowerLoss, PendingPages
    <3>6. IsWinner(diskSlot', t)
      BY ZenonT(30), <2>3, <3>4, <3>5, LandedSuperblock DEF PowerLoss
    <3>7. StoredState' = diskSlot'[t].snap
      BY <3>3, <3>6, MappingNext DEF MappingFacts, IsWinner
    <3> QED BY <3>1, <3>2, <3>4, <3>7
  <2> QED BY ZenonT(30), <2>1, <2>2, <2>3, PowerLossSlots
<1> QED BY <1>2, <1>3 DEF Store!Crash

\* open_existing shows what is stored.
LEMMA ReopenStep ==
    ASSUME RefineInv, RefineInv', NEW i \in Slots, Open(i)
    PROVE  Store!Reopen
<1> USE DEF RefineInv, Open
<1>1. diskSlot' = diskSlot /\ osSlot = diskSlot
  BY DEF CommitInv, SlotsByPhase, SlotsDurable, fileVars
<1>2. StoredState' = StoredState
  BY <1>1, StoredSame
<1>3. StagedState = NoState /\ ShownState = NoState
  BY Mapping DEF MappingFacts, LivePhases, CommitPhases
<1>4. StagedState' = NoState /\ ShownState' = osSlot[i].snap
  BY MappingNext DEF MappingFacts, LivePhases, CommitPhases
<1>5. StoredState = osSlot[i].snap
  BY <1>1, Mapping DEF MappingFacts
<1> QED BY SMTT(30), <1>2, <1>3, <1>4, <1>5 DEF Store!Reopen

\* Dropping a handle loses it; dropping a poisoned one changes nothing.
LEMMA DropStep ==
    ASSUME RefineInv, RefineInv', SlotsDurable, Exit
    PROVE  Store!Lose
<1> USE DEF RefineInv, Exit, ForgetMemory
<1>1. diskSlot' = diskSlot /\ SlotsDurable'
  BY DEF fileVars, SlotsDurable
<1>2. StoredState' = StoredState
  BY <1>1, StoredSame
<1>3. StagedState = NoState
  BY Mapping DEF MappingFacts
<1>4. StagedState' = NoState /\ ShownState' = NoState
  BY <1>1, MappingNext DEF MappingFacts, LivePhases, CommitPhases
<1> QED BY <1>2, <1>3, <1>4 DEF Store!Lose

LEMMA StoreStep ==
    ASSUME RefineInv, RefineInv', [Next]_vars
    PROVE  [Store!AbsNext]_<<StoredState, StagedState, ShownState>>
<1> USE DEF Store!AbsNext
<1>1. CASE Transaction
  BY <1>1, QuietStep DEF Transaction, Begin, Mutate, FreePage, Rollback, fileVars, LivePhases
<1>2. CASE Commit
  <2>1. CASE WriteSuperblock
    <3>1. current \in Snapshots
      BY DEF RefineInv, CommitInv, TypeOK
    <3> QED BY <2>1, <3>1, StageStep
  <2>2. CASE FsyncSuperblock
    BY <2>2, AcknowledgeStep
  <2>3. CASE CommitRefused
    BY <2>3, LoseStep
  <2>4. CASE FsyncPages
    <3>1. diskSlot' = diskSlot
      BY <2>4, SyncSparesWinner DEF FsyncPages, RefineInv, CommitInv, SlotsByPhase
    <3> QED BY <2>4, <3>1, QuietStep DEF FsyncPages, LivePhases, CommitPhases
  <2> QED BY <1>2, <2>1, <2>2, <2>3, <2>4, QuietStep DEF Commit, CommitStart, WritePage,
             PersistFreemap, PersistDone, fileVars, LivePhases, CommitPhases
<1>3. CASE Failure
  BY <1>3, LoseStep
<1>4. CASE CrashAndOpen
  BY <1>4, CrashStep, ReopenStep DEF CrashAndOpen
<1>5. CASE SlotsDurable /\ Exit
  BY <1>5, DropStep
<1>6. CASE UNCHANGED vars
  BY <1>6 DEF vars, StoredState, StagedState, ShownState, NewerWritten
<1> QED BY <1>1, <1>2, <1>3, <1>4, <1>5, <1>6 DEF Next

\* With N >= 3 the commit protocol implements the atomic store: read back from
\* the medium, a crash at any step leaves the state before the commit or the
\* state after it (run_commit, open_existing, README.md's promise).
THEOREM CommitImplementsStore == ASSUME N >= 3 PROVE Spec => ImplementsAtomicStore
<1>1. Init => OpenableInv
  BY OpenableInit
<1>2. Init => RefineInv
  BY <1>1, CommitInit DEF RefineInv
<1>3. RefineInv /\ [Next]_vars => RefineInv'
  BY CommitNext, OpenableNext DEF RefineInv
<1>4. Init => Store!AbsInit
  <2> SUFFICES ASSUME Init PROVE Store!AbsInit
    OBVIOUS
  <2>1. MappingFacts
    BY <1>2, Mapping
  <2>2. ShownState = EmptySnapshot /\ StagedState = NoState
    BY <2>1 DEF Init, MappingFacts, LivePhases
  <2>3. 0 \in Slots /\ IsWinner(diskSlot, 0) /\ diskSlot[0].snap = EmptySnapshot
    BY NAssumption DEF Init, new_empty, IsWinner, Superblock, Slots
  <2>4. StoredState = EmptySnapshot
    BY <2>1, <2>3 DEF MappingFacts
  <2> QED BY <2>2, <2>4 DEF Store!AbsInit
<1>5. RefineInv /\ RefineInv' /\ [Next]_vars
        => [Store!AbsNext]_<<StoredState, StagedState, ShownState>>
  BY StoreStep
<1> QED BY <1>2, <1>3, <1>4, <1>5, PTL
     DEF Spec, ImplementsAtomicStore, Store!AbsSpec, Store!absVars
=============================================================================

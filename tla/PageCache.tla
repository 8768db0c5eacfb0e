----------------------------- MODULE PageCache -----------------------------
(***************************************************************************)
(* The page cache and its spillway (src/src/page_cache.rs, spillway.rs):   *)
(* a bounded set of pages in memory, the dirty ones pinned there until a   *)
(* commit flushes them or, when every page is dirty, moved to a sidecar    *)
(* file and brought back on the next access.                               *)
(*                                                                         *)
(* A call that needs room is a sequence of steps: clean pages are evicted, *)
(* then dirty ones spilled, until it fits or the call fails.  The victim   *)
(* is any page that qualifies (which one the LRU index would pick is not   *)
(* a matter of correctness).  Sealing and opening a page of an encrypted   *)
(* database are inverse to each other and left out.                        *)
(***************************************************************************)
EXTENDS Integers, FiniteSets

CONSTANTS PageCount,   \* bound: page ids are below this
          FirstPages,  \* pages of the snapshot at the start
          Values,      \* what callers write to a page
          Blank,       \* bytes without a valid checksum: zeroed
          Absent,      \* not in memory; no slot
          CacheSizes,  \* values of max_pages
          SpillSizes,  \* values of spillway_max_bytes, in pages; 0 disables it
          MaxSlots     \* bound: slots of the sidecar file

ASSUME CacheAssumption ==
    /\ PageCount \in Nat /\ FirstPages \in 0..PageCount
    /\ Blank \notin Values /\ Absent \notin Values \cup {Blank}
    /\ Absent \notin Nat
    /\ CacheSizes \subseteq Nat \ {0} /\ SpillSizes \subseteq Nat
    /\ MaxSlots \in Nat

VARIABLES
    buf,         \* entries: the bytes of each page in memory
    dirty,       \* entries whose dirty flag is set
    owes,        \* entries whose needs_stamp flag is set
    dirtyCount,  \* dirty_count
    maxPages,    \* max_pages
    slots,       \* Spillway::slots: the slot of each spilled page
    sidecar,     \* bytes in the slots of the sidecar file
    cursor,      \* next_slot_index
    spillMax,    \* spillway_max_bytes, in pages
    disk,        \* bytes in the main file
    fileLen,     \* pages in the main file
    next,        \* next_page_id
    begun,       \* next_page_id when the transaction began
    total,       \* committed_roots.total_pages
    txn,         \* "none", "open", "flush1", "persist", "flush2" or "dead"
    call,        \* the call that is making room, with its page
    phase,       \* where a flush is: "no", "cache", "drain" or "trim"
    batch        \* pages of the drain batch still to be written

memVars == <<buf, dirty, owes, dirtyCount>>
spillVars == <<slots, sidecar, cursor>>
fileVars == <<disk, fileLen>>
limits == <<maxPages, spillMax>>
txnVars == <<begun, total, txn>>
flushVars == <<phase, batch>>
vars == <<buf, dirty, owes, dirtyCount, maxPages, slots, sidecar, cursor,
          spillMax, disk, fileLen, next, begun, total, txn, call, phase, batch>>

PageIds == 0..(PageCount - 1)
Slots == 0..(MaxSlots - 1)
Bytes == Values \cup {Blank}
NoCall == [kind |-> "none", page |-> 0]
Calls == [kind : {"none", "alloc", "load", "resize"}, page : 0..PageCount]

resident == {p \in PageIds : buf[p] # Absent}
spilled == {p \in PageIds : slots[p] # Absent}

Nowhere == [p \in PageIds |-> Absent]
EmptySidecar == [s \in Slots |-> Blank]

Init ==
    /\ buf = Nowhere /\ dirty = {} /\ owes = {} /\ dirtyCount = 0
    /\ maxPages \in CacheSizes /\ spillMax \in SpillSizes
    /\ slots = Nowhere /\ sidecar = EmptySidecar /\ cursor = 0
    /\ disk \in [PageIds -> Bytes]
    /\ \A p \in PageIds : disk[p] = Blank <=> p >= FirstPages
    /\ fileLen = FirstPages /\ next = FirstPages
    /\ begun = FirstPages /\ total = FirstPages
    /\ txn = "none" /\ call = NoCall /\ phase = "no" /\ batch = {}

-----------------------------------------------------------------------------
(* The calls of the transaction layer.                                      *)

Ready == call = NoCall /\ phase = "no" /\ txn # "dead"
MayWrite == Ready /\ txn \in {"open", "persist"}

\* Bound: whatever the next call spills has a slot.
SlotsLeft == cursor + Cardinality(resident) < MaxSlots + maxPages

Begin ==
    /\ Ready /\ txn = "none"
    /\ txn' = "open" /\ begun' = next
    /\ UNCHANGED <<memVars, limits, spillVars, fileVars, next, total, call,
                   flushVars>>

\* get, or the first half of get_mut, of a page that is not in memory.
Miss(p) ==
    /\ Ready /\ SlotsLeft /\ p < next /\ p \notin resident
    /\ call' = [kind |-> "load", page |-> p]
    /\ UNCHANGED <<memVars, limits, spillVars, fileVars, next, txnVars,
                   flushVars>>

\* get_mut of a page in memory, and what its caller writes; the packing cursor
\* leaves the checksum to the cache.
GetMut(p, v, deferred) ==
    /\ MayWrite /\ p \in resident
    /\ buf' = [buf EXCEPT ![p] = v]
    /\ dirtyCount' = IF p \in dirty THEN dirtyCount ELSE dirtyCount + 1
    /\ dirty' = dirty \cup {p}
    /\ owes' = IF deferred THEN owes \cup {p} ELSE owes
    /\ UNCHANGED <<limits, spillVars, fileVars, next, txnVars, call,
                   flushVars>>

\* A zeroed dirty entry; the call then makes room.
Enter(p) ==
    /\ buf' = [buf EXCEPT ![p] = Blank]
    /\ dirty' = dirty \cup {p} /\ owes' = owes \ {p}
    /\ dirtyCount' = IF p \in dirty THEN dirtyCount ELSE dirtyCount + 1
    /\ call' = [kind |-> "alloc", page |-> p]

NewPage ==
    /\ MayWrite /\ SlotsLeft /\ next < PageCount
    /\ next' = next + 1
    /\ Enter(next)
    /\ UNCHANGED <<limits, spillVars, fileVars, txnVars, flushVars>>

\* Spillway::forget: the slot is not used again before the next truncate.
forget(p) == slots' = [slots EXCEPT ![p] = Absent]

\* claim_page and reclaim_dead_txn_page: the page starts again from zero, and
\* what the spillway held of it is dropped.
Reissue(p) ==
    /\ MayWrite /\ SlotsLeft /\ p < next
    /\ Enter(p)
    /\ forget(p)
    /\ UNCHANGED <<limits, sidecar, cursor, fileVars, next, txnVars,
                   flushVars>>

SetCacheMaxBytes(n) ==
    /\ Ready /\ txn = "none"
    /\ maxPages' = n
    /\ call' = [kind |-> "resize", page |-> 0]
    /\ UNCHANGED <<memVars, spillMax, spillVars, fileVars, next, txnVars,
                   flushVars>>

SetSpillwayMaxBytes(n) ==
    /\ Ready /\ txn = "none"
    /\ spillMax' = n
    /\ UNCHANGED <<memVars, maxPages, spillVars, fileVars, next, txnVars,
                   call, flushVars>>

-----------------------------------------------------------------------------
(* maybe_evict, and the end of the call that needed room.                   *)

OverCap == Cardinality(resident) > maxPages
AllDirty == dirtyCount = Cardinality(resident)

Dropped(p) == buf' = [buf EXCEPT ![p] = Absent]

\* evict_clean_to_cap drops one clean page.
EvictClean(p) ==
    /\ call # NoCall /\ OverCap /\ ~AllDirty
    /\ p \in resident \ dirty
    /\ Dropped(p) /\ owes' = owes \ {p}
    /\ UNCHANGED <<dirty, dirtyCount, limits, spillVars, fileVars, next,
                   txnVars, call, flushVars>>

NothingClean == AllDirty \/ resident \subseteq dirty
NeedsSpill == call.kind \in {"alloc", "load"} /\ OverCap /\ NothingClean

\* What leaves the cache: a page whose stamp is owed has a stale checksum.
Leaving(p, owing) == IF p \in owing THEN Blank ELSE buf[p]

\* One dirty entry less, saturating.
untrack_dirty(p) == IF p \in dirty /\ dirtyCount > 0 THEN dirtyCount - 1 ELSE dirtyCount

SlotFor(p) == IF slots[p] # Absent THEN slots[p] ELSE cursor
write_slot(s, bytes) == sidecar' = [sidecar EXCEPT ![s] = bytes]

\* A variant that the runs must reject: the victim is not stamped.
SpillUnstamped(p) ==
    /\ NeedsSpill /\ p \in resident
    /\ p \in spilled \/ Cardinality(spilled) < spillMax
    /\ SlotFor(p) < MaxSlots
    /\ owes' = owes \ {p}
    /\ write_slot(SlotFor(p), Leaving(p, owes))
    /\ slots' = [slots EXCEPT ![p] = SlotFor(p)]
    /\ cursor' = IF p \in spilled THEN cursor ELSE cursor + 1
    /\ Dropped(p) /\ dirty' = dirty \ {p}
    /\ dirtyCount' = untrack_dirty(p)
    /\ UNCHANGED <<limits, fileVars, next, txnVars, call, flushVars>>

\* The victim is stamped, then written to its slot or to the next free one.
Spill(p) ==
    /\ NeedsSpill /\ p \in resident
    /\ p \in spilled \/ Cardinality(spilled) < spillMax
    /\ SlotFor(p) < MaxSlots
    /\ owes' = owes \ {p}
    /\ write_slot(SlotFor(p), Leaving(p, owes'))
    /\ slots' = [slots EXCEPT ![p] = SlotFor(p)]
    /\ cursor' = IF p \in spilled THEN cursor ELSE cursor + 1
    /\ Dropped(p) /\ dirty' = dirty \ {p}
    /\ dirtyCount' = untrack_dirty(p)
    /\ UNCHANGED <<limits, fileVars, next, txnVars, call, flushVars>>

\* A variant that the runs must reject: no error when the spillway is disabled.
FullNeedsSpillway ==
    /\ NeedsSpill /\ spillMax > 0 /\ Cardinality(spilled) >= spillMax
    /\ \E p \in resident \ spilled : owes' = owes \ {p}
    /\ call' = NoCall
    /\ txn' = IF txn = "persist" THEN "dead" ELSE txn
    /\ UNCHANGED <<buf, dirty, dirtyCount, limits, spillVars, fileVars, next,
                   begun, total, flushVars>>

\* CacheFull or SpillwayFull: the call returns an error, the victim is put
\* back, and what the call had entered stays.  Inside a commit any error ends
\* the handle.
Full ==
    /\ NeedsSpill /\ Cardinality(spilled) >= spillMax
    /\ \E p \in resident \ spilled :
          owes' = IF spillMax = 0 THEN owes ELSE owes \ {p}
    /\ call' = NoCall
    /\ txn' = IF txn = "persist" THEN "dead" ELSE txn
    /\ UNCHANGED <<buf, dirty, dirtyCount, limits, spillVars, fileVars, next,
                   begun, total, flushVars>>

AllocDone ==
    /\ call.kind = "alloc" /\ ~OverCap
    /\ call' = NoCall
    /\ UNCHANGED <<memVars, limits, spillVars, fileVars, next, txnVars,
                   flushVars>>

ResizeDone ==
    /\ call.kind = "resize" /\ (~OverCap \/ NothingClean)
    /\ call' = NoCall
    /\ UNCHANGED <<memVars, limits, spillVars, fileVars, next, txnVars,
                   flushVars>>

\* Spillway::rehydrate: the bytes of a spilled page.
read_slot(s) == sidecar[s]
rehydrate(p) == read_slot(slots[p])

\* A variant that the runs must reject: the page comes back uncounted.
RehydrateUncounted ==
    /\ call.kind = "load" /\ ~OverCap /\ call.page \in spilled
    /\ buf' = [buf EXCEPT ![call.page] = rehydrate(call.page)]
    /\ forget(call.page)
    /\ dirty' = dirty \cup {call.page}
    /\ call' = NoCall
    /\ UNCHANGED <<owes, dirtyCount, limits, sidecar, cursor, fileVars, next,
                   txnVars, flushVars>>

\* load_page of a spilled page: it is still dirty.
Rehydrate ==
    /\ call.kind = "load" /\ ~OverCap /\ call.page \in spilled
    /\ buf' = [buf EXCEPT ![call.page] = rehydrate(call.page)]
    /\ forget(call.page)
    /\ dirty' = dirty \cup {call.page} /\ dirtyCount' = dirtyCount + 1
    /\ call' = NoCall
    /\ UNCHANGED <<owes, limits, sidecar, cursor, fileVars, next, txnVars,
                   flushVars>>

\* A read past the end of the file fails like one of bytes nobody stamped.
read_page_unit_into(p) == IF p < fileLen THEN disk[p] ELSE Blank
verify_checksum(bytes) == bytes # Blank

\* load_page of a page of the file.  Bytes without a valid checksum are refused:
\* the orphan sweep skips such a page, any other caller poisons the handle.
LoadPage ==
    /\ call.kind = "load" /\ ~OverCap /\ call.page \notin spilled
    /\ \/ /\ verify_checksum(read_page_unit_into(call.page))
          /\ buf' = [buf EXCEPT ![call.page] = read_page_unit_into(call.page)]
          /\ UNCHANGED txn
       \/ /\ ~verify_checksum(read_page_unit_into(call.page))
          /\ txn' \in {txn, "dead"}
          /\ UNCHANGED buf
    /\ call' = NoCall
    /\ UNCHANGED <<dirty, owes, dirtyCount, limits, spillVars, fileVars, next,
                   begun, total, flushVars>>

-----------------------------------------------------------------------------
(* flush: the dirty pages in memory, then the spilled ones in batches.      *)

FlushStart ==
    /\ Ready /\ txn \in {"open", "persist"}
    /\ txn' = IF txn = "open" THEN "flush1" ELSE "flush2"
    /\ phase' = "cache"
    /\ UNCHANGED <<memVars, limits, spillVars, fileVars, next, begun, total,
                   call, batch>>

WriteFile(p, v) ==
    /\ disk' = [disk EXCEPT ![p] = v]
    /\ fileLen' = IF p < fileLen THEN fileLen ELSE p + 1

\* stamp_deferred, then the write; the flag and the counter change together.
WriteBack(p) ==
    /\ phase = "cache" /\ p \in dirty \cap resident
    /\ owes' = owes \ {p} /\ WriteFile(p, Leaving(p, owes'))
    /\ dirty' = dirty \ {p}
    /\ dirtyCount' = IF dirtyCount > 0 THEN dirtyCount - 1 ELSE 0
    /\ UNCHANGED <<buf, limits, spillVars, next, txnVars, call, flushVars>>

CacheWritten ==
    /\ phase = "cache" /\ dirty \cap resident = {}
    /\ dirtyCount' = 0 /\ phase' = "drain"
    /\ UNCHANGED <<buf, dirty, owes, limits, spillVars, fileVars, next,
                   txnVars, call, batch>>

\* drain_batch: up to max_pages of the spilled pages.
DrainBatch ==
    /\ phase = "drain" /\ batch = {} /\ spilled # {}
    /\ batch' \in {B \in SUBSET spilled :
                     \/ B = spilled /\ Cardinality(B) <= maxPages
                     \/ Cardinality(B) = maxPages}
    /\ UNCHANGED <<memVars, limits, spillVars, fileVars, next, txnVars, call,
                   phase>>

\* Copied to the file as it is, and entered clean unless it is there already.
Drain(p) ==
    /\ p \in batch
    /\ WriteFile(p, rehydrate(p))
    /\ forget(p)
    /\ buf' = IF p \in resident THEN buf
              ELSE [buf EXCEPT ![p] = rehydrate(p)]
    /\ batch' = batch \ {p} /\ phase' = IF batch' = {} THEN "trim" ELSE phase
    /\ UNCHANGED <<dirty, owes, dirtyCount, limits, sidecar, cursor, next,
                   txnVars, call>>

\* evict_clean_to_cap between batches.
Trim ==
    /\ phase = "trim"
    /\ \/ /\ OverCap /\ ~AllDirty
          /\ \E p \in resident \ dirty : Dropped(p)
          /\ UNCHANGED phase
       \/ /\ ~OverCap \/ NothingClean
          /\ phase' = "drain" /\ UNCHANGED buf
    /\ UNCHANGED <<dirty, owes, dirtyCount, limits, spillVars, fileVars, next,
                   txnVars, call, batch>>

\* The sidecar file is emptied and the main file synced; the second flush is
\* followed by the superblock.
FlushEnd ==
    /\ phase = "drain" /\ batch = {} /\ spilled = {}
    /\ sidecar' = EmptySidecar /\ cursor' = 0
    /\ phase' = "no"
    /\ txn' = IF txn = "flush1" THEN "persist" ELSE "none"
    /\ total' = IF txn = "flush1" THEN total ELSE fileLen
    /\ UNCHANGED <<memVars, limits, slots, fileVars, next, begun, call, batch>>

-----------------------------------------------------------------------------
(* Rollback, errors and reopening.                                          *)

\* PageIo::set_page_count, to a smaller number or to a larger one.
set_page_count(n) ==
    /\ disk' = [p \in PageIds |-> IF p < n THEN disk[p] ELSE Blank]
    /\ fileLen' = n

\* What PageCache::truncate leaves of the pages of keep, and of the file.
Truncate(n, keep, spillKeep) ==
    /\ buf' = [p \in PageIds |-> IF p < n /\ p \in keep THEN buf[p] ELSE Absent]
    /\ slots' = [p \in PageIds |->
                   IF p < n /\ p \in spillKeep THEN slots[p] ELSE Absent]
    /\ set_page_count(n)
    /\ next' = IF next > n THEN n ELSE next

\* discard_all_dirty, then truncate to the committed size.
Rollback ==
    /\ Ready /\ txn = "open"
    /\ Truncate(total, resident \ dirty, {})
    /\ dirty' = {} /\ owes' = {} /\ dirtyCount' = 0
    /\ sidecar' = EmptySidecar /\ cursor' = 0
    /\ txn' = "none"
    /\ UNCHANGED <<limits, begun, total, call, flushVars>>

\* A variant that the runs must reject: the whole spillway is given back.
RollbackToDropsSpilled(n) ==
    /\ Ready /\ txn = "open" /\ n \in begun..next
    /\ Truncate(n, resident, {})
    /\ dirty' = {p \in dirty : p < n} /\ owes' = {p \in owes : p < n}
    /\ dirtyCount' = dirtyCount - Cardinality({p \in dirty : p >= n})
    /\ UNCHANGED <<limits, sidecar, cursor, txnVars, call, flushVars>>

\* rollback_to a savepoint whose watermark is n.
RollbackTo(n) ==
    /\ Ready /\ txn = "open" /\ n \in begun..next
    /\ Truncate(n, resident, spilled)
    /\ dirty' = {p \in dirty : p < n} /\ owes' = {p \in owes : p < n}
    /\ dirtyCount' = dirtyCount - Cardinality({p \in dirty : p >= n})
    /\ UNCHANGED <<limits, sidecar, cursor, txnVars, call, flushVars>>

\* A read or a write fails: the handle is poisoned.
Fail ==
    /\ txn # "dead"
    /\ txn' = "dead" /\ call' = NoCall /\ phase' = "no" /\ batch' = {}
    /\ UNCHANGED <<memVars, limits, spillVars, fileVars, next, begun, total>>

\* The process ends, in whatever state; the sidecar file is worth nothing.
Reopen ==
    /\ total <= fileLen
    /\ buf' = Nowhere /\ dirty' = {} /\ owes' = {} /\ dirtyCount' = 0
    /\ slots' = Nowhere /\ sidecar' = EmptySidecar /\ cursor' = 0
    /\ next' = total /\ begun' = total
    /\ txn' = "none" /\ call' = NoCall /\ phase' = "no" /\ batch' = {}
    /\ UNCHANGED <<limits, fileVars, total>>

EvictStep ==
    \/ \E p \in PageIds : EvictClean(p) \/ Spill(p)
    \/ Full \/ AllocDone \/ ResizeDone \/ Rehydrate \/ LoadPage
FlushStep ==
    \/ \E p \in PageIds : WriteBack(p) \/ Drain(p)
    \/ CacheWritten \/ DrainBatch \/ Trim \/ FlushEnd

Next ==
    \/ Begin \/ NewPage \/ FlushStart \/ Rollback \/ Fail \/ Reopen
    \/ \E p \in PageIds : Miss(p) \/ Reissue(p)
    \/ \E p \in PageIds, v \in Values, d \in BOOLEAN : GetMut(p, v, d)
    \/ \E n \in CacheSizes : SetCacheMaxBytes(n)
    \/ \E n \in SpillSizes : SetSpillwayMaxBytes(n)
    \/ \E n \in 0..PageCount : RollbackTo(n)
    \/ EvictStep \/ FlushStep

Spec == Init /\ [][Next]_vars

\* A call, once made, runs until it returns.
FairSpec == Spec /\ WF_vars(EvictStep) /\ WF_vars(FlushStep)

-----------------------------------------------------------------------------
(* Properties.                                                              *)

\* What a page reads as, wherever its bytes are.
Held(p) ==
    IF p \in resident THEN buf[p]
    ELSE IF p \in spilled THEN rehydrate(p)
    ELSE disk[p]

View == [p \in PageIds |->
            IF txn # "dead" /\ p < next THEN Held(p) ELSE Absent]

Store == INSTANCE PageStore WITH mem <- View, file <- disk, mode <- txn

\* The cache over its spillway behaves like the memory PageStore describes:
\* eviction, spilling, rehydration, draining and their failures cannot be seen,
\* no write is lost or undone, and a flush leaves nothing behind.
ImplementsPageStore == Store!Spec

\* The steps of a call that makes room, and of a flush, change nothing that a
\* page reads as, unless they end the handle: a victim of maybe_evict comes back
\* as it left, from the file or from its slot.
WorkHidden ==
    [][EvictStep \/ FlushStep => View' = View \/ txn' = "dead"]_vars

\* dirty_count is the number of dirty entries in memory, on which the early
\* exit of evict_clean_to_cap relies.
CountExact == txn # "dead" => dirtyCount = Cardinality(dirty)

\* A page is in one place: never in memory and in the spillway, never two pages
\* in one slot of the sidecar file; and a page that is clean in memory is in
\* the file as it is.
OnePlace ==
    /\ resident \cap spilled = {}
    /\ \A p, q \in spilled : p # q => slots[p] # slots[q]
    /\ \A p \in resident \ dirty : p < fileLen /\ buf[p] = disk[p]

-----------------------------------------------------------------------------
(* The inductive invariant.                                                 *)

Shape ==
    /\ buf \in [PageIds -> Bytes \cup {Absent}]
    /\ dirty \subseteq PageIds
    /\ slots \in [PageIds -> Slots \cup {Absent}]
    /\ sidecar \in [Slots -> Bytes] /\ cursor \in Nat
    /\ disk \in [PageIds -> Bytes]
    /\ fileLen \in 0..PageCount /\ next \in 0..PageCount
    /\ total \in 0..PageCount
    /\ txn \in {"none", "open", "flush1", "persist", "flush2", "dead"}
    /\ phase \in {"no", "cache", "drain", "trim"}

\* A used slot is below the cursor, so the next one is free.
SlotsBehind == \A p \in spilled : slots[p] < cursor

\* Pages in memory or spilled were handed out, and one that the file does not
\* reach yet is dirty or spilled.
Unwritten ==
    /\ dirty \subseteq resident
    /\ \A p \in resident \cup spilled : p < next
    /\ \A p \in PageIds : fileLen <= p /\ p < next => p \in dirty \cup spilled

\* A page is loaded only while it is not in memory, and calls and flushes do
\* not overlap.
CallsApart ==
    /\ call # NoCall => phase = "no" /\ txn # "dead"
    /\ call.kind = "load" => call.page \in PageIds \ resident /\ call.page < next

\* What is left to write while a flush is under way.
Flushing ==
    /\ phase = "no" <=> txn \notin {"flush1", "flush2"}
    /\ batch \subseteq spilled /\ (phase # "drain" => batch = {})
    /\ phase \in {"drain", "trim"} => dirty = {}

\* Why a page always reads as it was last written: where its bytes are, and
\* what calls and flushes under way may assume.
CacheInv == Shape /\ OnePlace /\ SlotsBehind /\ Unwritten /\ CallsApart /\ Flushing

\* Every call returns: making room ends, and so does draining a spillway that
\* is larger than the cache.
CallsReturn == (call # NoCall \/ phase # "no") ~> (call = NoCall /\ phase = "no")
=============================================================================

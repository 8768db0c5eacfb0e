------------------------------- MODULE Chunks -------------------------------
(***************************************************************************)
(* The chunk operations: how a value is packed into a data page or spread  *)
(* over an overflow chain, how its handle, tag and client byte are         *)
(* published, how the storage of what it replaces is released, and how     *)
(* defragmentation moves values (src/src/transaction/{staging, mutate,     *)
(* packing, read, named_roots, stats}.rs, data_page.rs, overflow.rs,       *)
(* defrag.rs).  Each operation prepares everything that can fail and then  *)
(* installs; `room' is the number of its fallible steps that succeed.      *)
(*                                                                         *)
(* The two trees are the maps that Tables shows them to be, the allocator  *)
(* the contract that PageReclaim checks.  Pages are the pages of values.   *)
(***************************************************************************)
EXTENDS Integers, Sequences, FiniteSets, FiniteSetsExt, SequencesExt

CONSTANTS PageIds, Values, Tags, Bytes, RootNames,
          Size,            \* bytes a value takes in a data page, slot entry included
          Parts,           \* overflow pages it takes; 0 when it is kept inline
          PageSpace,       \* bytes of a data page that slots and values share
          MaxNextHandle,   \* MAX_NEXT_HANDLE, the highest next_handle open accepts
          MaxRoots,        \* MAX_NAMED_ROOTS
          Ratios,          \* sparse thresholds, as <<numerator, denominator>>
          Caps,            \* max_values of defrag and of delete_with_tag
          Batches,         \* the arguments of delete_many
          NamedHandles,    \* the handles given to set_root_name
          MaxCalls,        \* bound: calls that change chunks or names
          MaxRoom,         \* bound: fallible steps granted to an operation
          MaxSavepoints,   \* bound: savepoints open at once
          Blank, Absent

ASSUME ChunksAssumption ==
    /\ PageIds \subseteq Nat \ {0} /\ MaxNextHandle \in Nat \ {0}
    /\ \A v \in Values : IF Parts[v] = 0 THEN Size[v] <= PageSpace ELSE Parts[v] \in Nat
    /\ 0 \notin Tags

VARIABLES
    pages,       \* the pages of values
    committed,   \* committed_roots, with committed_live_slots
    cur,         \* current_roots, with current_live_slots
    cursor,      \* insert_cursor, 0 when there is none
    freed,       \* txn_freed_pages
    active,      \* active_txn
    sps,         \* savepoints
    ret,         \* what the last call returned
    calls        \* bound: calls left

vars == <<pages, committed, cur, cursor, freed, active, sps, ret, calls>>

None == 0
Handles == 1..MaxNextHandle - 1
\* wrote is history: the value that was written under the entry.
Deleted == [flags |-> "Deleted", page |-> None, slot |-> 0, tag |-> 0, byte |-> 0,
            wrote |-> Absent]
EmptyName == [name |-> Absent, handle |-> 0]
Done == [call |-> "other", err |-> "none"]

\* History: lossless, that no operation of the lineage failed after it had
\* allocated; exact, that none failed in ensure_handle_table.
EmptyRoots ==
    [ht |-> [h \in Handles |-> Deleted], rooted |-> FALSE, mi |-> {}, next |-> 1,
     names |-> [i \in 1..MaxRoots |-> EmptyName], live |-> [p \in PageIds |-> 0],
     used |-> {}, lossless |-> TRUE, exact |-> TRUE]

Init ==
    /\ pages = [p \in PageIds |-> Blank]
    /\ committed = EmptyRoots /\ cur = EmptyRoots
    /\ cursor = None /\ freed = {} /\ active = FALSE /\ sps = <<>>
    /\ ret = Done /\ calls = MaxCalls

-----------------------------------------------------------------------------
\* An operation is a function of this record: what it reads and changes, the
\* steps it is still granted, its error, and the entry its value was given.
Start(room) ==
    [pages |-> pages, cur |-> cur, cursor |-> cursor, freed |-> freed,
     room |-> room, grant |-> room, err |-> "none", entry |-> Deleted]
Ok(s) == s.err = "none"
Fails(s, e) == [s EXCEPT !.err = e]
Then(s, Rest(_)) == IF Ok(s) THEN Rest(s) ELSE s
Spare(s) == PageIds \ (s.cur.used \cup committed.used \cup UNION {sps[i].roots.used : i \in 1..Len(sps)})

\* A step that may fail and changes nothing that is modelled here: preparing a
\* new tree root, or reading the pages of a chain.
Step(s) == IF s.room = 0 THEN Fails(s, "CacheFull") ELSE [s EXCEPT !.room = @ - 1]

Take(s, ids) ==
    [s EXCEPT !.cur.used = @ \cup ids, !.room = @ - Cardinality(ids)]

\* DataPage::insert: a slot index is never used twice.
Used(page) == FoldLeft(LAMBDA n, v : n + Size[v], 0, page.slots)
Fits(page, v) == Used(page) + Size[v] <= PageSpace
\* A variant that the runs must reject: the index is the count after the insert.
InsertSlotCountAfter(s, p, v) ==
    [s EXCEPT !.pages[p].slots = Append(@, v), !.cur.live[p] = @ + 1,
              !.entry = [Deleted EXCEPT !.flags = "Live", !.page = p,
                                        !.slot = Len(s.pages[p].slots) + 1, !.wrote = v]]

InsertSlot(s, p, v) ==
    [s EXCEPT !.pages[p].slots = Append(@, v), !.cur.live[p] = @ + 1,
              !.entry = [Deleted EXCEPT !.flags = "Live", !.page = p,
                                        !.slot = Len(s.pages[p].slots), !.wrote = v]]

\* SlotPacker::insert.  Under a savepoint every value gets a page of its own.
PackInline(s, v) ==
    LET p == Min(Spare(s))
        fresh == [Take(s, {p}) EXCEPT !.pages[p] = [type |-> "Data", slots |-> <<>>],
                                      !.cursor = IF sps = <<>> THEN p ELSE @]
    IN  IF s.cursor # None /\ Fits(s.pages[s.cursor], v) THEN InsertSlot(s, s.cursor, v)
        ELSE IF s.room = 0 \/ Spare(s) = {} THEN Fails(s, "CacheFull")
        ELSE InsertSlot(fresh, p, v)

\* Overflow::write: every page is allocated before any is filled, and those
\* allocated when one fails stay so.
WriteChain(s, v) ==
    LET n == Min({Parts[v], s.room, Cardinality(Spare(s))})
        ids == [k \in 1..n |-> CHOOSE p \in Spare(s) : Cardinality({q \in Spare(s) : q < p}) = k - 1]
        taken == Take(s, ToSet(ids))
        part(i) == [type |-> "Overflow", total |-> Parts[v], part |-> <<v, i>>,
                    next |-> IF i < n THEN ids[i + 1] ELSE None]
    IN  IF n < Parts[v] THEN Fails(taken, "CacheFull")
        ELSE [taken EXCEPT !.pages = [p \in PageIds |-> IF p \in ToSet(ids)
                                                        THEN part(CHOOSE i \in 1..n : ids[i] = p)
                                                        ELSE @[p]],
                           !.entry = [Deleted EXCEPT !.flags = "Overflow", !.page = ids[1],
                                                  !.wrote = v]]

WriteValue(s, v) == IF Parts[v] = 0 THEN PackInline(s, v) ELSE WriteChain(s, v)

IsOverflow(mem, p) == mem[p] # Blank /\ mem[p].type = "Overflow"

\* The k-th page of a chain.  The walk is cut at the total its first page
\* states, and reports corruption on a page of another type.
ChainIds(mem, first) ==
    LET total == mem[first].total
        walk[k \in 1..total] ==
            IF k = 1 THEN first
            ELSE IF walk[k - 1] = None \/ ~IsOverflow(mem, walk[k - 1]) THEN None
            ELSE mem[walk[k - 1]].next
    IN  SelectSeq([k \in 1..total |-> walk[k]], LAMBDA p : p # None)
ReadChain(mem, ids, total, v) ==
    IF /\ \A k \in 1..Len(ids) : IsOverflow(mem, ids[k]) /\ mem[ids[k]].part = <<v, k>>
       /\ Len(ids) = total /\ mem[ids[total]].next = None
    THEN v ELSE Absent

\* read_inner, on an entry that is not Deleted.  Absent stands for a corrupt
\* page, an empty slot or a value put together from the wrong parts.
ReadEntry(mem, e) ==
    IF e.flags = "Overflow"
    THEN IF ~IsOverflow(mem, e.page) THEN Absent
         ELSE ReadChain(mem, ChainIds(mem, e.page), mem[e.page].total, mem[e.page].part[1])
    ELSE IF mem[e.page] = Blank \/ mem[e.page].type # "Data" THEN Absent
    ELSE IF e.slot >= Len(mem[e.page].slots) THEN Absent
    ELSE mem[e.page].slots[e.slot + 1]

\* release_data_slot: a page whose last live slot goes is freed at commit.
ReleaseSlot(s, p) ==
    IF s.cur.live[p] = 0 THEN s
    ELSE [s EXCEPT !.cur.live[p] = @ - 1,
                   !.freed = IF s.cur.live[p] = 1 THEN @ \cup {p} ELSE @,
                   !.cursor = IF s.cur.live[p] = 1 /\ @ = p THEN None ELSE @]
ReleaseNew(s) == IF s.entry.flags = "Live" THEN ReleaseSlot(s, s.entry.page) ELSE s

-----------------------------------------------------------------------------
\* A variant that the runs must reject: the new slot stays counted.
AbortKeepsSlot(s) == [s EXCEPT !.cur.rooted = cur.rooted]

\* abort_allocate_prepare: the table root is put back, the new slot released.
AbortAllocate(s) == ReleaseNew([s EXCEPT !.cur.rooted = cur.rooted])
OrElse(s, Undo(_)) == IF Ok(s) THEN s ELSE Undo(s)

\* A failure of ensure_handle_table returns at once, with the slot still counted.
EnsureHandleTable(s) ==
    IF s.cur.rooted THEN s
    ELSE IF s.room = 0 THEN Fails([s EXCEPT !.cur.exact = @ /\ s.entry.flags # "Live"], "CacheFull")
    ELSE [s EXCEPT !.cur.rooted = TRUE, !.room = @ - 1]

Publish(s, h, tag) ==
    [s EXCEPT !.cur.ht[h] = [s.entry EXCEPT !.tag = tag], !.cur.next = h + 1,
              !.cur.mi = IF tag = 0 THEN @ ELSE @ \cup {<<tag, h>>}]

\* next_handle_after
Mintable(h) == h + 1 <= MaxNextHandle

AllocateFrom(s, v, tag) ==
    IF ~Mintable(s.cur.next) THEN Fails(s, "HandleSpaceExhausted")
    ELSE Then(WriteValue(s, v), LAMBDA written :
         Then(EnsureHandleTable(written), LAMBDA rooted :
         OrElse(Then(Step(rooted), LAMBDA table :
                Then(IF tag = 0 THEN table ELSE Step(table), LAMBDA ready :
                    Publish(ready, s.cur.next, tag))),
                AbortAllocate)))

\* A variant that the runs must reject: only the first page of a chain is freed.
ReleaseFirstPage(s, e) ==
    IF e.flags = "Live" THEN ReleaseSlot(s, e.page) ELSE [s EXCEPT !.freed = @ \cup {e.page}]

\* What the old value occupied goes once the new entry is installed.
ReleaseOld(s, e) ==
    IF e.flags = "Live" THEN ReleaseSlot(s, e.page)
    ELSE [s EXCEPT !.freed = @ \cup ToSet(ChainIds(s.pages, e.page))]
\* The walk over an old chain reads its pages, and may fail.
WalkOld(s, e) == IF e.flags = "Overflow" THEN Step(s) ELSE s

\* A variant that the runs must reject: the client byte starts again from 0.
ReplaceResetsByte(s, h, old) ==
    ReleaseOld([s EXCEPT !.cur.ht[h] = [s.entry EXCEPT !.tag = old.tag]], old)

\* The tag and the client byte are carried over.
Replace(s, h, old) ==
    ReleaseOld([s EXCEPT !.cur.ht[h] = [s.entry EXCEPT !.tag = old.tag, !.byte = old.byte]], old)
UpdateEntry(s, h, v, old) ==
    IF old.flags = "Deleted" THEN Fails(s, "InvalidHandle")
    ELSE Then(WriteValue(s, v), LAMBDA written :
         OrElse(Then(Step(written), LAMBDA table :
                Then(WalkOld(table, old), LAMBDA ready : Replace(ready, h, old))),
                ReleaseNew))
UpdateFrom(s, h, v) == UpdateEntry(s, h, v, s.cur.ht[h])

Unpublish(s, h, old) ==
    ReleaseOld([s EXCEPT !.cur.ht[h] = Deleted, !.cur.mi = @ \ {<<old.tag, h>>}], old)
DeleteEntry(s, h, old) ==
    Then(Step(s), LAMBDA table :
        IF old.flags = "Deleted" THEN Fails(table, "InvalidHandle")
        ELSE Then(WalkOld(table, old), LAMBDA walked :
             Then(IF old.tag = 0 THEN walked ELSE Step(walked), LAMBDA ready :
                 Unpublish(ready, h, old))))
DeleteFrom(s, h) == DeleteEntry(s, h, s.cur.ht[h])
DeleteEach(s, hs) == FoldLeft(LAMBDA acc, h : IF Ok(acc) THEN DeleteFrom(acc, h) ELSE acc, s, hs)

SetByteFrom(s, h, b) ==
    IF s.cur.ht[h].flags = "Deleted" THEN Fails(s, "InvalidHandle")
    ELSE Then(Step(s), LAMBDA table : [table EXCEPT !.cur.ht[h].byte = b])

\* sparse_data_pages: live over stored slots, against the page's own count.
IsSparse(s, p, ratio) ==
    s.cur.live[p] > 0 /\ s.cur.live[p] * ratio[2] < ratio[1] * Len(s.pages[p].slots)
SparsePages(s, ratio) == {p \in PageIds : ratio[1] > 0 /\ IsSparse(s, p, ratio)}

\* A variant that the runs must reject: a cap of 0 is not "no cap".
MoveValueCapZero(acc, h, sparse, cap) ==
    IF \/ ~Ok(acc.s) \/ acc.moved >= cap
       \/ acc.s.cur.ht[h].flags # "Live" \/ acc.s.cur.ht[h].page \notin sparse
    THEN acc
    ELSE [s |-> UpdateFrom(acc.s, h, ReadEntry(acc.s.pages, acc.s.cur.ht[h])),
          moved |-> acc.moved + 1]

\* One turn of defrag's loop, over the handles listed when it began.
MoveValue(acc, h, sparse, cap) ==
    IF \/ ~Ok(acc.s) \/ (cap > 0 /\ acc.moved >= cap)
       \/ acc.s.cur.ht[h].flags # "Live" \/ acc.s.cur.ht[h].page \notin sparse
    THEN acc
    ELSE [s |-> UpdateFrom(acc.s, h, ReadEntry(acc.s.pages, acc.s.cur.ht[h])),
          moved |-> acc.moved + 1]
LiveHandles(s) == SetToSortSeq({h \in Handles : s.cur.ht[h].flags # "Deleted"}, <)
DefragFrom(s, ratio, cap) ==
    LET sparse == SparsePages(s, ratio) IN
    FoldLeft(LAMBDA acc, h : MoveValue(acc, h, sparse, cap), [s |-> s, moved |-> 0],
             LiveHandles(s)).s

-----------------------------------------------------------------------------
AllUsed(c, s) == c.used \cup committed.used \cup UNION {s[i].roots.used : i \in 1..Len(s)}
Shown(m, used) == [p \in PageIds |-> IF p \in used THEN m[p] ELSE Blank]

Called == active /\ calls > 0 /\ calls' = calls - 1 /\ UNCHANGED <<committed, active, sps>>

\* A call returns with what it changed, Ok or not.
Return(s, out) ==
    \* a grant that is not used up is as good as MaxRoom
    /\ s.room = 0 \/ s.grant = MaxRoom
    \* bound: no operation runs out of room after one has left pages behind
    /\ s.err = "CacheFull" => cur.lossless
    /\ cur' = [s.cur EXCEPT !.lossless = @ /\ (Ok(s) \/ s.cur.used \ cur.used \subseteq s.freed)]
    /\ pages' = Shown(s.pages, AllUsed(cur', sps))
    /\ cursor' = s.cursor /\ freed' = s.freed
    /\ ret' = out

Answer(s) == [Done EXCEPT !.err = s.err]
Returns(s) == Return(s, Answer(s))

Allocate(v, tag, room) == Called /\ Returns(AllocateFrom(Start(room), v, tag))
Update(h, v, room) == Called /\ Returns(UpdateFrom(Start(room), h, v))
SetClientByte(h, b, room) == Called /\ Returns(SetByteFrom(Start(room), h, b))
Delete(h, room) == Called /\ Returns(DeleteFrom(Start(room), h))

\* lookup_live and the comparison of the tags come before anything is prepared.
DeleteTagged(h, tag, room) ==
    /\ Called
    /\ Returns(IF cur.ht[h].flags = "Deleted" THEN Fails(Start(room), "InvalidHandle")
               ELSE IF cur.ht[h].tag # tag THEN Fails(Start(room), "TagMismatch")
               ELSE DeleteFrom(Start(room), h))

DeleteMany(hs, room) == Called /\ Returns(DeleteEach(Start(room), hs))

\* handles_for_tag_bounded, asked for one more than may be deleted.
Members(tag, limit) ==
    LET all == SetToSortSeq({h \in Handles : <<tag, h>> \in cur.mi}, <) IN
    SubSeq(all, 1, Min({limit, Len(all)}))
Enumerate(tag, max) == Members(tag, max + 1)
WithTagAnswer(s, tag, complete) == [call |-> "delete_with_tag", err |-> s.err, tag |-> tag, complete |-> complete]
DeleteWithTag(tag, max, room) ==
    LET members == IF max = 0 THEN <<>> ELSE Enumerate(tag, max)
        s == DeleteEach(Start(room), SubSeq(members, 1, Min({max, Len(members)})))
    IN  /\ Called
        /\ Return(s, WithTagAnswer(s, tag, max > 0 /\ Len(members) <= max))

\* DefragStats are left out; `left' is history: the pages found sparse, apart
\* from the one the insert cursor was on, that still hold a live value.
Defrag(ratio, cap, room) ==
    LET s == DefragFrom(Start(room), ratio, cap) IN
    /\ Called
    /\ Return(s, [call |-> "defrag", err |-> s.err, capped |-> cap > 0,
                  left |-> {p \in SparsePages(Start(room), ratio) \ {cursor} : s.cur.live[p] > 0}])

\* The names are a table of MAX_NAMED_ROOTS entries, searched from its start.
Slots(n) == {i \in 1..MaxRoots : cur.names[i].name = n}
NameSlot(n) == IF Slots(n) # {} THEN Min(Slots(n)) ELSE IF Slots(Absent) # {} THEN Min(Slots(Absent)) ELSE 0
SetRootName(n, h) ==
    /\ Called
    /\ Returns(IF NameSlot(n) = 0 THEN Fails(Start(0), "RootNameTableFull")
               ELSE [Start(0) EXCEPT !.cur.names[NameSlot(n)] = [name |-> n, handle |-> h]])
ClearRootName(n) ==
    /\ Called
    /\ Returns(IF Slots(n) = {} THEN Start(0)
               ELSE [Start(0) EXCEPT !.cur.names[Min(Slots(n))] = EmptyName])

-----------------------------------------------------------------------------
Begin ==
    /\ ~active /\ active' = TRUE
    /\ cur' = committed /\ cursor' = None /\ freed' = {} /\ ret' = Done
    /\ UNCHANGED <<pages, committed, sps, calls>>

Savepoint ==
    /\ active /\ Len(sps) < MaxSavepoints
    /\ sps' = Append(sps, [roots |-> cur, freed |-> freed])
    /\ freed' = {} /\ cursor' = None /\ ret' = Done
    /\ UNCHANGED <<pages, committed, cur, active, calls>>

RollbackTo(i) ==
    /\ active
    /\ cur' = sps[i].roots /\ sps' = SubSeq(sps, 1, i)
    /\ freed' = {} /\ cursor' = None /\ ret' = Done
    /\ pages' = Shown(pages, AllUsed(cur', sps'))
    /\ UNCHANGED <<committed, active, calls>>

Release(i) ==
    /\ active
    /\ freed' = freed \cup UNION {sps[j].freed : j \in i..Len(sps)}
    /\ sps' = SubSeq(sps, 1, i - 1) /\ ret' = Done
    /\ UNCHANGED <<pages, committed, cur, cursor, active, calls>>

Commit ==
    LET all == freed \cup UNION {sps[j].freed : j \in 1..Len(sps)} IN
    /\ active /\ active' = FALSE
    /\ cur' = [cur EXCEPT !.used = @ \ all] /\ committed' = cur'
    /\ pages' = Shown(pages, cur'.used)
    /\ sps' = <<>> /\ freed' = {} /\ cursor' = None /\ ret' = Done
    /\ UNCHANGED calls

\* The table that open rebuilds counts the live entries of each page.
Recounted(r) ==
    [r EXCEPT !.live = [p \in PageIds |-> Cardinality({h \in Handles : r.ht[h].flags = "Live"
                                                                       /\ r.ht[h].page = p})],
              !.exact = TRUE]
Discard(roots) ==
    /\ active' = FALSE /\ committed' = roots /\ cur' = roots
    /\ pages' = Shown(pages, roots.used)
    /\ sps' = <<>> /\ freed' = {} /\ cursor' = None /\ ret' = Done
    /\ UNCHANGED calls
Rollback == active /\ Discard(committed)
Reopen == Discard(Recounted(committed))

Rooms == 0..MaxRoom
Chunked ==
    \E room \in Rooms :
        \/ \E v \in Values, tag \in Tags \cup {0} : Allocate(v, tag, room)
        \/ \E h \in Handles : \/ \E v \in Values : Update(h, v, room)
                              \/ \E b \in Bytes : SetClientByte(h, b, room)
                              \/ Delete(h, room)
                              \/ \E tag \in Tags \cup {0} : DeleteTagged(h, tag, room)
        \/ \E hs \in Batches : DeleteMany(hs, room)
        \/ \E tag \in Tags, max \in Caps : DeleteWithTag(tag, max, room)
        \/ \E ratio \in Ratios, cap \in Caps : Defrag(ratio, cap, room)

Next ==
    \/ Chunked
    \/ \E n \in RootNames : ClearRootName(n) \/ \E h \in NamedHandles : SetRootName(n, h)
    \/ \E i \in 1..Len(sps) : RollbackTo(i) \/ Release(i)
    \/ Begin \/ Savepoint \/ Commit \/ Rollback \/ Reopen

Spec == Init /\ [][Next]_vars

-----------------------------------------------------------------------------
\* What a set of roots means to the caller.
NameOf(r, n) ==
    LET at == {i \in 1..MaxRoots : r.names[i].name = n} IN
    IF at = {} THEN Absent ELSE r.names[Min(at)].handle
View(r) ==
    [chunk |-> [h \in Handles |-> IF r.ht[h].flags = "Deleted" THEN Absent
                                  ELSE [value |-> r.ht[h].wrote,
                                        tag |-> r.ht[h].tag, byte |-> r.ht[h].byte]],
     name |-> [n \in RootNames |-> NameOf(r, n)],
     next |-> r.next]

Store == INSTANCE ChunkStore
    WITH db <- View(cur), saved <- View(committed),
         marks <- [i \in 1..Len(sps) |-> View(sps[i].roots)], open <- active

\* The chunk operations implement ChunkStore: a call that returns Err changes
\* nothing the caller can see, a batch keeps whole deletes, tags and client
\* bytes survive updates and defragmentation, and savepoints, rollback and
\* reopening restore exactly what was there.  The values of the mapping are
\* those written; ValuesReadBack says that they are those read.
ImplementsChunkStore == Store!Spec

Restorable == {cur, committed} \cup {sps[i].roots : i \in 1..Len(sps)}

\* Every live entry of every set of roots a caller can come back to reads as
\* the value written under it, through packing, chains, updates that replace
\* one by the other, defragmentation and the reuse of freed pages.
ValuesReadBack ==
    \A r \in Restorable, h \in Handles :
        r.ht[h].flags # "Deleted" => ReadEntry(pages, r.ht[h]) = r.ht[h].wrote

\* What is derived from the handle table is what a scan of it would give, through
\* every aborted call and every rewind: the live-slot counts that decide when a
\* data page is freed (up to a failure of ensure_handle_table, which keeps its slot
\* counted), and the reverse map, so that delete_with_tag reports completion
\* exactly when no handle of the tag is left.
DerivedExact ==
    /\ \A r \in Restorable :
          /\ r.exact => r.live = Recounted(r).live
          /\ r.mi = {<<r.ht[h].tag, h>> :
                       h \in {k \in Handles : r.ht[k].flags # "Deleted" /\ r.ht[k].tag # 0}}
    /\ ret.call = "delete_with_tag" /\ ret.err = "none" /\ ret.complete
          => \A h \in Handles : cur.ht[h].tag # ret.tag

\* Storage is neither lost nor given away: what an entry needs is allocated,
\* and once a transaction ends in a lineage where no call left pages behind,
\* nothing else is.
Needed(r) ==
    UNION {IF r.ht[h].flags = "Live" THEN {r.ht[h].page} ELSE ToSet(ChainIds(pages, r.ht[h].page)) :
           h \in {k \in Handles : r.ht[k].flags # "Deleted"}}
StorageAccounted ==
    /\ \A r \in Restorable : Needed(r) \subseteq r.used
    /\ ~active /\ committed.lossless => Needed(committed) = committed.used

\* A pass of defrag that is not capped and does not fail empties every page it
\* found sparse, the insert cursor's own apart, while the counts are exact.
DefragEmptiesSparse ==
    ret.call = "defrag" /\ ret.err = "none" /\ ~ret.capped /\ cur.exact => ret.left = {}
=============================================================================

---------------------------- MODULE PageReclaim ----------------------------
(***************************************************************************)
(* Who owns each page of the file: the copy-on-write allocator, the free-  *)
(* page bitmap kept as a copy-on-write radix tree, the within-transaction  *)
(* recycle pool, the structural streams of the freemap's own pages,        *)
(* savepoints, the commit that marks freed pages, the orphan sweep of      *)
(* defrag and what a reopen forgets (src/src/transaction/{freemap,         *)
(* savepoints, lifecycle, commit}.rs, src/src/freemap_tree.rs).            *)
(*                                                                         *)
(* What a page holds is abstracted to which structure references it.  The  *)
(* handle table and the membership index are one set of radix pages, data  *)
(* and overflow pages one set of value pages; the freemap keeps its shape, *)
(* because its own pages are what the structural streams recycle.  An      *)
(* operation is the sequence of page allocations it makes, each of which   *)
(* may fail for want of cache room, and the install that ends it.          *)
(***************************************************************************)
EXTENDS Integers, Sequences, FiniteSets, FiniteSetsExt

CONSTANTS SuperblockCount,   \* pages 0 .. superblock_count - 1 are slots
          LeafCapacity,      \* bits of a freemap leaf
          PtrsPerInterior,   \* children of a freemap interior
          MaxDepth,          \* freemap_tree::MAX_DEPTH
          OpPages,           \* bound: operations extend only below this id
          MaxPage,           \* bound: the freemap may extend below this id
          MaxCand,           \* bound: pages one operation allocates
          MaxSavepoints      \* bound: savepoints open at once

ASSUME ReclaimAssumption ==
    /\ SuperblockCount \in 2..16
    /\ LeafCapacity \in Nat \ {0} /\ PtrsPerInterior \in Nat \ {0, 1}
    /\ MaxDepth \in Nat
    /\ OpPages \in Nat /\ MaxPage \in Nat /\ SuperblockCount < OpPages
    /\ OpPages <= MaxPage
    /\ MaxCand \in Nat /\ MaxSavepoints \in Nat

VARIABLES
    committed,   \* committed_roots
    cur,         \* current_roots
    active,      \* active_txn
    committing,  \* run_commit is between its first flush and its promotion
    sps,         \* savepoints
    txnFreed,    \* txn_freed_pages
    cursor,      \* packer.insert_cursor
    allocated,   \* TxnPageRecycle::allocated
    recyclable,  \* TxnPageRecycle::recyclable
    hint,        \* FreemapRecycle::hint
    hintAtBegin, \* FreemapRecycle::hint_at_begin
    reuse,       \* structural_reuse
    superseded,  \* structural_superseded
    pending,     \* pending_structural_frees
    session,     \* session_owned
    next,        \* PageCache::next_page_id
    fileLen,     \* pages in the file
    typed,       \* pages that read as FreeMap or FreeMapInterior
    diskTyped,   \* the same, of the bytes in the file
    cand,        \* pages the running operation has allocated, not installed
    walk,        \* the freemap descent under way: "none", "clear" or "mark"
    target,      \* the id that descent is for
    work         \* ids a commit or a sweep has still to mark free

rootVars == <<committed, cur>>
txnVars == <<active, committing, sps, txnFreed, cursor>>
poolVars == <<allocated, recyclable>>
hintVars == <<hint, hintAtBegin>>
streamVars == <<reuse, superseded, pending, session>>
fileVars == <<next, fileLen, typed, diskTyped>>
opVars == <<cand, walk, target, work>>
vars == <<committed, cur, active, committing, sps, txnFreed, cursor,
          allocated, recyclable, hint, hintAtBegin, reuse, superseded,
          pending, session, next, fileLen, typed, diskTyped, cand, walk,
          target, work>>

-----------------------------------------------------------------------------
None == 0    \* page 0 is a superblock slot: PAGE_ID_NONE and a null child
PageIds == SuperblockCount..(MaxPage - 1)
Below(n) == 0..(n - 1)

\* Ids covered by a subtree whose root is k levels above the leaves.
Span(k) == LeafCapacity * PtrsPerInterior^k
\* A subtree covers some ids, and at MAX_DEPTH it covers all of them.
ASSUME SpanAssumption ==
    (\A k \in 0..MaxDepth : Span(k) \in Nat \ {0}) /\ MaxPage <= Span(MaxDepth)

NodeAt(k, id) == <<k, id \div Span(k)>>
Nodes == {NodeAt(k, id) : k \in 0..MaxDepth, id \in 0..(MaxPage - 1)}
NoTree == [n \in Nodes |-> None]

TreeExists(fm) == fm[<<0, 0>>] # None
Depth(fm) == Max({k \in 0..MaxDepth : fm[<<k, 0>>] # None})
TreePages(fm) == {fm[n] : n \in Nodes} \ {None}

\* What a set of roots reaches.  orphans and lossless are history: the freemap
\* pages a reopen forgot about; and that in this lineage no operation failed
\* half way, no reopen found a tail beyond total_pages, and no commit that had
\* swept orphans was cut short.
Roots == [radix : SUBSET PageIds, value : SUBSET PageIds,
          fm : [Nodes -> PageIds \cup {None}], free : SUBSET PageIds,
          total : 0..MaxPage, lossless : BOOLEAN, orphans : SUBSET PageIds]
PagesOf(r) == r.radix \cup r.value \cup TreePages(r.fm)
FreemapMarks == [superseded : SUBSET PageIds, session : SUBSET PageIds]
Savepoints == [roots : Roots, watermark : 0..MaxPage, freed : SUBSET PageIds,
               freemap : FreemapMarks]
SavepointFrees(s) == UNION {s[i].freed : i \in 1..Len(s)}

TypeOK ==
    /\ committed \in Roots /\ cur \in Roots
    /\ active \in BOOLEAN /\ committing \in BOOLEAN
    /\ sps \in Seq(Savepoints) /\ Len(sps) <= MaxSavepoints
    /\ txnFreed \subseteq PageIds /\ cursor \in PageIds \cup {None}
    /\ allocated \subseteq PageIds /\ recyclable \subseteq PageIds
    /\ hint \in 0..MaxPage /\ hintAtBegin \in 0..MaxPage
    /\ reuse \subseteq PageIds /\ superseded \subseteq PageIds
    /\ pending \subseteq PageIds /\ session \subseteq PageIds
    /\ next \in 0..MaxPage /\ fileLen \in 0..MaxPage
    /\ typed \subseteq PageIds /\ diskTyped \subseteq PageIds
    /\ cand \subseteq PageIds /\ work \subseteq PageIds
    /\ walk \in {"none", "clear", "mark"}
    /\ target \in PageIds \cup {None}

EmptyRoots == [radix |-> {}, value |-> {}, fm |-> NoTree, free |-> {},
               total |-> SuperblockCount, lossless |-> TRUE, orphans |-> {}]

Init ==
    /\ committed = EmptyRoots /\ cur = EmptyRoots
    /\ active = FALSE /\ committing = FALSE
    /\ sps = <<>> /\ txnFreed = {} /\ cursor = None
    /\ allocated = {} /\ recyclable = {} /\ hint = 0 /\ hintAtBegin = 0
    /\ reuse = {} /\ superseded = {} /\ pending = {} /\ session = {}
    /\ next = SuperblockCount /\ fileLen = SuperblockCount
    /\ typed = {} /\ diskTyped = {}
    /\ cand = {} /\ walk = "none" /\ target = None /\ work = {}

-----------------------------------------------------------------------------
\* No freemap descent or marking loop is on the stack.
InOperation == active /\ ~committing /\ walk = "none" /\ work = {}
\* The engine is between two calls of its user.
Ready == InOperation /\ cand = {}
ReuseEnabled == sps = <<>>

(* What TxnPageRecycle and FreemapRecycle do at the ends of a transaction   *)
(* and around a savepoint.                                                  *)

PoolReset == allocated' = {} /\ recyclable' = {}
\* drain_into: the whole pool joins the pages to free at commit.
DrainInto(freed) == freed \cup recyclable

FreemapBegin == /\ session' = {} /\ reuse' = pending /\ superseded' = {}
                /\ hintAtBegin' = hint
FreemapCommit == /\ pending' = superseded \cup reuse
                 /\ session' = {} /\ superseded' = {} /\ reuse' = {}

\* A variant that the runs must reject: the hint stays where the transaction's
\* allocations left it.
FreemapRollbackKeepsHint == /\ superseded' = {} /\ reuse' = {} /\ session' = {}
                            /\ UNCHANGED <<hint, pending>>
FreemapRollback == /\ superseded' = {} /\ reuse' = {} /\ session' = {}
                   /\ hint' = hintAtBegin
                   /\ UNCHANGED pending

savepoint_mark == [superseded |-> superseded, session |-> session]
rollback_to_mark(mark) == superseded' = mark.superseded /\ session' = mark.session

cache_watermark == next

Begin ==
    /\ ~active
    /\ cur' = committed
    /\ FreemapBegin
    /\ PoolReset
    /\ cursor' = None /\ active' = TRUE /\ sps' = <<>> /\ txnFreed' = {}
    /\ UNCHANGED <<committed, committing, hint, pending, fileVars, opVars>>

-----------------------------------------------------------------------------
(* cow_alloc: the recycle pool first, then the bitmap, then the file's end. *)

Scannable == {id \in cur.free : id >= hint}
BitmapOffers == TreeExists(cur.fm) /\ Scannable # {}

Take(id) ==
    /\ cand' = cand \cup {id}
    /\ allocated' = allocated \cup {id}
    /\ typed' = typed \ {id}

DrawPool ==
    /\ InOperation /\ ReuseEnabled /\ Cardinality(cand) < MaxCand
    /\ \E id \in recyclable :
          /\ recyclable' = recyclable \ {id}
          /\ Take(id)
    /\ UNCHANGED <<rootVars, txnVars, hintVars, streamVars, next, fileLen,
                   diskTyped, walk, target, work>>

\* allocate_first found a bit: the descent that clears it comes first.
ScanBitmap ==
    /\ InOperation /\ ReuseEnabled /\ Cardinality(cand) < MaxCand
    /\ recyclable = {} /\ BitmapOffers
    /\ walk' = "clear" /\ target' = Min(Scannable)
    /\ UNCHANGED <<rootVars, txnVars, poolVars, hintVars, streamVars,
                   fileVars, cand, work>>

MustExtend == ~ReuseEnabled \/ (recyclable = {} /\ ~BitmapOffers)

ExtendFile ==
    /\ InOperation /\ MustExtend /\ Cardinality(cand) < MaxCand
    /\ next < OpPages
    /\ next' = next + 1
    /\ Take(next)
    /\ UNCHANGED <<rootVars, txnVars, recyclable, hintVars, streamVars,
                   fileLen, diskTyped, walk, target, work>>

\* Overflow pages and a new handle-table root come straight from new_page,
\* unrecorded.
NewPage ==
    /\ InOperation /\ Cardinality(cand) < MaxCand
    /\ next < OpPages
    /\ next' = next + 1
    /\ cand' = cand \cup {next}
    /\ typed' = typed \ {next}
    /\ UNCHANGED <<rootVars, txnVars, poolVars, hintVars, streamVars,
                   fileLen, diskTyped, walk, target, work>>

-----------------------------------------------------------------------------
(* The freemap tree: cow_descend copies, page by page from the root, every  *)
(* node on the path that this transaction does not own yet.                 *)

Capacity(fm) == Span(Depth(fm))
Unowned(fm, id) == {k \in 0..Depth(fm) : fm[NodeAt(k, id)] \notin session}

\* create makes a leaf the root, grow puts a node above the root.
create == <<0, 0>>
grow(fm) == <<Depth(fm) + 1, 0>>

\* create, then grow, then the topmost node that has to be copied.
NodeToWrite(fm, id) ==
    IF ~TreeExists(fm) THEN create
    ELSE IF Capacity(fm) <= id /\ Depth(fm) < MaxDepth
         THEN grow(fm)
         ELSE NodeAt(Max(Unowned(fm, id)), id)

PathOwned(fm, id) ==
    /\ TreeExists(fm) /\ id < Capacity(fm)
    /\ Unowned(fm, id) = {}

StructuralExtend(id) ==
    \/ /\ id \in reuse
       /\ reuse' = reuse \ {id}
       /\ UNCHANGED next
    \/ /\ reuse = {} /\ id = next /\ next < MaxPage
       /\ next' = next + 1
       /\ UNCHANGED reuse

\* cow_node, grow, create, or the materialisation of an absent child.
WriteNode ==
    /\ walk # "none" /\ ~PathOwned(cur.fm, target)
    /\ LET n == NodeToWrite(cur.fm, target) IN
       \E id \in reuse \cup {next} :
          /\ StructuralExtend(id)
          /\ cur' = [cur EXCEPT !.fm[n] = id]
          /\ session' = session \cup {id}
          /\ superseded' = superseded \cup ({cur.fm[n]} \ {None})
          /\ typed' = typed \cup {id}
    /\ UNCHANGED <<committed, txnVars, poolVars, hintVars, pending, fileLen,
                   diskTyped, opVars>>

is_free(r, id) == id \in r.free
clear_bit(r, id) == [r EXCEPT !.free = @ \ {id}]
mark_free(r, id) == [r EXCEPT !.free = @ \cup {id}, !.orphans = @ \ {id}]

\* clear_bit at the leaf, then claim_page hands the id out.
ClearBit ==
    /\ walk = "clear" /\ PathOwned(cur.fm, target)
    /\ cur' = clear_bit(cur, target)
    /\ hint' = target
    /\ Take(target)
    /\ walk' = "none" /\ target' = None
    /\ UNCHANGED <<committed, txnVars, recyclable, hintAtBegin, streamVars,
                   next, fileLen, diskTyped, work>>

\* mark_free_committed_path on the next id of persist's or the sweep's list.
StartMark ==
    /\ walk = "none" /\ work # {}
    /\ walk' = "mark" /\ target' \in work
    /\ UNCHANGED <<rootVars, txnVars, poolVars, hintVars, streamVars,
                   fileVars, cand, work>>

\* A variant that the runs must reject: a walk that ends without its mark.
MarkBitForgotten ==
    /\ walk = "mark" /\ PathOwned(cur.fm, target)
    /\ walk' = "none" /\ target' = None
    /\ UNCHANGED <<committed, cur, txnVars, poolVars, hint, hintAtBegin, streamVars,
                   fileVars, cand, work>>

MarkBit ==
    /\ walk = "mark" /\ PathOwned(cur.fm, target)
    /\ cur' = mark_free(cur, target)
    /\ hint' = Min({hint, target})
    /\ work' = work \ {target}
    /\ walk' = "none" /\ target' = None
    /\ UNCHANGED <<committed, txnVars, poolVars, hintAtBegin, streamVars,
                   fileVars, cand>>

-----------------------------------------------------------------------------
(* The end of an operation.                                                 *)

\* A variant that the runs must reject: retire ignores open savepoints.
ToPoolUngated(freed) == freed \cap allocated

\* retire: what this transaction allocated goes to the pool, but never while
\* a savepoint is open; the rest waits for the commit.
ToPool(freed) == IF ReuseEnabled THEN freed \cap allocated ELSE {}

\* packer.insert makes a data page it allocates the page to pack into, unless
\* a savepoint is open.
PackedInto(pages) == IF ReuseEnabled THEN pages \cap allocated ELSE {}

\* The new roots are installed: R are the radix pages the copy superseded, V
\* the value pages whose last slot or chain was released, W the new value
\* pages.  A data page packed into may have been started by an operation that
\* failed.
Install ==
    /\ InOperation /\ cand # {}
    /\ \E R \in SUBSET (cur.radix \cup cand), V \in SUBSET cur.value,
          W \in SUBSET (cand \cup ({cursor} \ {None})) :
          /\ Cardinality(R \cup V) <= MaxCand
          /\ W \cap (R \cup V) = {} /\ ~(cand \subseteq W \cup R)
          /\ cur' = [cur EXCEPT !.radix = (@ \cup (cand \ W)) \ R,
                                !.value = (@ \cup W) \ V]
          /\ recyclable' = recyclable \cup ToPool(R)
          /\ txnFreed' = txnFreed \cup V \cup (R \ ToPool(R))
          /\ cursor' \in PackedInto(W \cap cand) \cup
                           {IF cursor \in V THEN None ELSE cursor}
    /\ cand' = {}
    /\ UNCHANGED <<committed, active, committing, sps, allocated, hintVars,
                   streamVars, fileVars, walk, target, work>>

\* An operational error: the operation returns Err and the transaction goes
\* on.  Of what it had allocated, only a data page whose slot is given back is
\* freed; the rest, and a page lost in the failing call, is out of reach.
GiveUp(r, lost) ==
    /\ \E S \in SUBSET cand :
          /\ Cardinality(S) <= 1
          /\ txnFreed' = txnFreed \cup S
          /\ cur' = [r EXCEPT !.lossless = @ /\ cand \subseteq S
                                             /\ lost = {}]
          /\ cursor' \in {cursor, None} \cup PackedInto(cand \ S)
    /\ cand' = {} /\ work' = {} /\ walk' = "none" /\ target' = None
    /\ UNCHANGED <<committed, active, committing, sps, poolVars, hintAtBegin,
                   pending, session, superseded, fileLen, diskTyped>>

OperationFails ==
    /\ InOperation /\ cand # {}
    /\ GiveUp(cur, {})
    /\ UNCHANGED <<hint, reuse, next, typed>>

\* new_page takes its id before it finds that there is no room.
ExtendFails ==
    /\ InOperation /\ next < OpPages
    /\ next' = next + 1 /\ typed' = typed \ {next}
    /\ GiveUp(cur, {next})
    /\ UNCHANGED <<hint, reuse>>

\* The hint is lowered even when the marking of an id fails.
HintAfterFailure == IF walk = "mark" THEN Min({hint, target}) ELSE hint

\* structural_extend pops the id before claim_page finds no room; or the leaf
\* cannot be brought back into the cache.
DescentFails ==
    /\ walk # "none" /\ ~committing
    /\ hint' = HintAfterFailure
    /\ \/ /\ ~PathOwned(cur.fm, target)
          /\ \E id \in reuse \cup {next} :
                /\ StructuralExtend(id)
                /\ typed' = typed \ {id}
                /\ GiveUp(cur, {id})
       \/ /\ PathOwned(cur.fm, target)
          /\ GiveUp(cur, {})
          /\ UNCHANGED <<reuse, next, typed>>

\* The bit is cleared, and then claim_page finds no room.
ClaimFails ==
    /\ walk = "clear" /\ PathOwned(cur.fm, target)
    /\ hint' = target /\ typed' = typed \ {target}
    /\ GiveUp(clear_bit(cur, target), {target})
    /\ UNCHANGED <<reuse, next>>

-----------------------------------------------------------------------------
(* Savepoints, rollback, commit, the sweep, and reopening the file.         *)

\* A variant that the runs must reject: inserts after the savepoint go on
\* packing the page that the savepoint's roots reference.
SavepointKeepsCursor ==
    /\ Ready /\ Len(sps) < MaxSavepoints
    /\ sps' = Append(sps, [roots |-> cur, watermark |-> cache_watermark,
                           freed |-> DrainInto(txnFreed),
                           freemap |-> savepoint_mark])
    /\ txnFreed' = {} /\ recyclable' = {}
    /\ UNCHANGED <<rootVars, active, committing, cursor, allocated, hintVars,
                   streamVars, fileVars, opVars>>

Savepoint ==
    /\ Ready /\ Len(sps) < MaxSavepoints
    /\ sps' = Append(sps, [roots |-> cur, watermark |-> cache_watermark,
                           freed |-> DrainInto(txnFreed),
                           freemap |-> savepoint_mark])
    /\ txnFreed' = {} /\ recyclable' = {} /\ cursor' = None
    /\ UNCHANGED <<rootVars, active, committing, allocated, hintVars,
                   streamVars, fileVars, opVars>>

\* PageCache::truncate: the file becomes exactly n pages long.
Truncate(n) ==
    /\ next' = Min({next, n})
    /\ fileLen' = n
    /\ diskTyped' = diskTyped \cap Below(n)

RollbackTo ==
    /\ Ready
    /\ \E i \in 1..Len(sps) :
          /\ Truncate(sps[i].watermark)
          /\ typed' = typed \cap Below(sps[i].watermark)
          /\ cur' = sps[i].roots
          /\ rollback_to_mark(sps[i].freemap)
          /\ sps' = SubSeq(sps, 1, i)
    /\ txnFreed' = {} /\ cursor' = None
    /\ UNCHANGED <<committed, active, committing, poolVars, hintVars, reuse,
                   pending, opVars>>

\* A variant that the runs must reject: the frees of inner savepoints are
\* dropped with them.
ReleaseOuterOnly ==
    /\ Ready
    /\ \E i \in 1..Len(sps) :
          /\ txnFreed' = txnFreed \cup sps[i].freed
          /\ sps' = SubSeq(sps, 1, i - 1)
    /\ UNCHANGED <<rootVars, active, committing, cursor, poolVars, hintVars,
                   streamVars, fileVars, opVars>>

Release ==
    /\ Ready
    /\ \E i \in 1..Len(sps) :
          /\ txnFreed' = txnFreed \cup
                           SavepointFrees(SubSeq(sps, i, Len(sps)))
          /\ sps' = SubSeq(sps, 1, i - 1)
    /\ UNCHANGED <<rootVars, active, committing, cursor, poolVars, hintVars,
                   streamVars, fileVars, opVars>>

Rollback ==
    /\ Ready
    /\ Truncate(committed.total)
    /\ typed' = diskTyped'
    /\ cur' = committed
    /\ FreemapRollback /\ PoolReset
    /\ cursor' = None /\ active' = FALSE /\ sps' = <<>> /\ txnFreed' = {}
    /\ UNCHANGED <<committed, committing, hintAtBegin, opVars>>

Flush ==
    /\ fileLen' = Max({fileLen, next})
    /\ diskTyped' = typed

\* Merge the savepoints' frees, drain the pool, flush: persist marks the rest.
CommitStart ==
    /\ Ready
    /\ committing' = TRUE
    /\ work' = DrainInto(txnFreed \cup SavepointFrees(sps))
    /\ txnFreed' = work' /\ recyclable' = {}
    /\ sps' = [i \in 1..Len(sps) |-> [sps[i] EXCEPT !.freed = {}]]
    /\ Flush
    /\ UNCHANGED <<rootVars, active, cursor, allocated, hintVars, streamVars,
                   next, typed, cand, walk, target>>

\* Flush again, write the superblock, promote.
CommitEnd ==
    /\ committing /\ walk = "none" /\ work = {}
    /\ Flush
    /\ cur' = [cur EXCEPT !.total = fileLen'] /\ committed' = cur'
    /\ FreemapCommit /\ PoolReset
    /\ cursor' = None /\ active' = FALSE /\ committing' = FALSE
    /\ sps' = <<>> /\ txnFreed' = {}
    /\ UNCHANGED <<hintVars, next, typed, opVars>>

\* Variants that the runs must reject: the sweep does not know the recycle
\* streams, or its scan stops one page early.
OrphansInStreams ==
    {id \in PageIds : /\ id < next /\ id \in typed
                      /\ id \notin TreePages(cur.fm) /\ ~is_free(cur, id)}
\* Freemap-typed pages that nothing accounts for.
Orphans ==
    {id \in PageIds : /\ id < next /\ id \in typed
                      /\ id \notin TreePages(cur.fm) /\ ~is_free(cur, id)
                      /\ id \notin reuse \cup superseded \cup pending}

Sweep ==
    /\ Ready /\ sps = <<>> /\ TreeExists(cur.fm) /\ Orphans # {}
    /\ work' = Orphans
    /\ UNCHANGED <<rootVars, txnVars, poolVars, hintVars, streamVars,
                   fileVars, cand, walk, target>>

\* The process ends, in whatever state, and the file is opened again: the
\* recycle state was only in memory, and what lies beyond total_pages stays in
\* the file.
Reopen ==
    /\ committed.total <= fileLen
    /\ committed' = [committed EXCEPT
                       !.orphans = @ \cup (pending \ committed.free),
                       !.lossless =
                          /\ @ /\ cur.lossless /\ fileLen = committed.total
                          /\ committing => cur.orphans = committed.orphans]
    /\ cur' = committed'
    /\ active' = FALSE /\ committing' = FALSE /\ sps' = <<>>
    /\ txnFreed' = {} /\ cursor' = None /\ allocated' = {} /\ recyclable' = {}
    /\ hint' = 0 /\ hintAtBegin' = 0
    /\ reuse' = {} /\ superseded' = {} /\ pending' = {} /\ session' = {}
    /\ next' = committed.total /\ typed' = diskTyped
    /\ cand' = {} /\ walk' = "none" /\ target' = None /\ work' = {}
    /\ UNCHANGED <<fileLen, diskTyped>>

Next ==
    \/ Begin \/ DrawPool \/ ScanBitmap \/ ExtendFile \/ NewPage
    \/ WriteNode \/ ClearBit \/ StartMark \/ MarkBit
    \/ Install \/ OperationFails \/ ExtendFails \/ DescentFails \/ ClaimFails
    \/ Savepoint \/ RollbackTo \/ Release \/ Rollback
    \/ CommitStart \/ CommitEnd \/ Sweep \/ Reopen

Spec == Init /\ [][Next]_vars

\* run_commit is one call: it goes on until it returns or the process ends.
CommitStep ==
    committing /\ (StartMark \/ WriteNode \/ MarkBit \/ CommitEnd)
FairSpec == Spec /\ WF_vars(CommitStep)

-----------------------------------------------------------------------------
Freed == IF committing THEN work ELSE txnFreed \cup SavepointFrees(sps)

\* Pages the allocator may hand out and overwrite before the next commit.
Available ==
    recyclable \cup reuse \cup (IF committing THEN {} ELSE cur.free)
      \cup {id \in PageIds : id >= next}

\* What a crash, a rollback, or a rollback to a savepoint brings back.
Restorable ==
    PagesOf(committed) \cup
      (IF committing THEN {} ELSE UNION {PagesOf(sps[i].roots) : i \in 1..Len(sps)})

\* No page of a snapshot that can still be restored, nor of the current roots,
\* is available to the allocator (the three halves of TxnPageRecycle's argument,
\* and the one-commit delay of the structural streams).
SnapshotsSpared ==
    active => Available \cap (Restorable \cup PagesOf(cur) \cup cand) = {}

\* Every page has at most one owner: the current roots, the running operation,
\* the recycle pool, the list of pages to free at commit, the two structural
\* streams and the bitmap never share an id, so no id is handed out twice.
\* Between transactions the pages waiting for structural reuse are neither in
\* the committed snapshot nor in its bitmap.
OneOwner ==
    /\ TypeOK
    /\ active =>
          LET owners == <<PagesOf(cur), cand, recyclable, Freed, reuse,
                          superseded, cur.free>>
          IN  \A i, j \in 1..7 : i # j => owners[i] \cap owners[j] = {}
    /\ ~active => pending \cap (PagesOf(committed) \cup committed.free) = {}

\* A lineage of transactions in which no operation failed half way loses no
\* page: each is in use, free, or waiting in a stream, except for the freemap
\* pages a reopen forgot, and those are found by the sweep of defrag
\* (release, reclaim_orphans).
NoPageLost ==
    /\ (~active /\ committed.lossless) =>
          {id \in PageIds : id < next} \subseteq
             PagesOf(committed) \cup committed.free \cup pending
               \cup committed.orphans
    /\ (active /\ cur.lossless) =>
          {id \in PageIds : id < next} \subseteq
             PagesOf(cur) \cup cur.free \cup cand \cup recyclable \cup Freed
               \cup reuse \cup superseded \cup cur.orphans
    /\ (Ready /\ sps = <<>> /\ TreeExists(cur.fm) /\ cur.lossless) =>
          cur.orphans \subseteq Orphans

\* The scan of allocate_first starts at the hint: no free id lies below it, so
\* none is stranded.
NoFreeBelowHint ==
    /\ (active /\ walk # "mark") => \A id \in cur.free : hint <= id
    /\ ~active => \A id \in committed.free : hint <= id

\* Pages edited in place: the freemap nodes the transaction owns, when a
\* descent writes them, and the data page being packed.
EditedInPlace ==
    (IF walk = "none" THEN {} ELSE TreePages(cur.fm) \cap session)
      \cup ({cursor} \ {None})

\* A page edited in place belongs to no snapshot that can be restored, and is
\* not on offer.
EditsUnshared ==
    (active /\ ~committing) => EditedInPlace \cap (Restorable \cup Available) = {}

\* Marking pages free takes freemap pages of its own, whose supersession frees
\* further pages, and still every commit that starts comes to an end (the room
\* for new nodes is the model's bound).
PersistTerminates ==
    (committing /\ next + Cardinality(Nodes) <= MaxPage) ~> ~committing

-----------------------------------------------------------------------------
(* What the documents say and the code does not do.                         *)

\* The file is never shorter than total_pages of the durable superblock, so an
\* open never refuses it.
FileCoversCommitted == committed.total <= fileLen
=============================================================================

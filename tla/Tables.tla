------------------------------- MODULE Tables -------------------------------
(***************************************************************************)
(* The handle table and the membership index together, page by page, under *)
(* the operations that change them: allocate, update, delete, savepoints,  *)
(* commit, rollback and reopening (src/src/transaction/{staging, mutate,   *)
(* savepoints, lifecycle, recovery}.rs).  An operation prepares new roots  *)
(* for both trees, any allocation of which may fail, and installs them     *)
(* together.  The depths of the two trees live outside the roots, and are  *)
(* re-derived whenever the roots are rewound.                              *)
(*                                                                         *)
(* Values are abstracted to the flag of their entry (Live or Overflow);    *)
(* the allocator to its contract, which PageReclaim checks.  A page that   *)
(* is not allocated is shown blank: its next owner writes it whole.        *)
(***************************************************************************)
EXTENDS Integers, Sequences, FiniteSets, FiniteSetsExt, SequencesExt

CONSTANTS PageIds, MaxKey, EntriesPerLeaf, PtrsPerInterior, SlotsPerPage,
          MaxDepth, InnerRootBits,
          Tags,            \* the tags in use; 0 is "untagged"
          MaxHandle,       \* bound: handles minted are below this one
          MaxCalls,        \* bound: allocate, update and delete calls in all
          MaxRoom,         \* bound: allocations one operation is granted
          MaxSavepoints,   \* bound: savepoints open at once
          Blank            \* what a page that is not allocated holds

ASSUME TablesAssumption ==
    /\ PageIds \subseteq Nat \ {0} /\ MaxKey \in Nat /\ MaxDepth \in Nat
    /\ EntriesPerLeaf \in Nat \ {0} /\ PtrsPerInterior \in Nat \ {0, 1}
    /\ SlotsPerPage \in Nat \ {0, 1}
    \* at MAX_DEPTH either tree addresses every u64
    /\ EntriesPerLeaf * PtrsPerInterior^MaxDepth > MaxKey
    /\ SlotsPerPage^(MaxDepth + 1) > MaxKey

HT == INSTANCE HandleTable
MI == INSTANCE MembershipIndex

VARIABLES
    mem,         \* the pages
    committed,   \* committed_roots
    cur,         \* current_roots
    active,      \* active_txn
    sps,         \* savepoints
    txnFreed,    \* txn_freed_pages
    htDepth,     \* HandleTable::depth
    miDepth,     \* MembershipIndex::outer_depth
    error,       \* what the last call returned: "none" or its error
    calls,       \* bound: allocate, update and delete calls left
    cut          \* history: a rewind to savepoint cut (0: to the committed roots)
                 \* failed after it had restored the roots; NotCut otherwise

vars == <<mem, committed, cur, active, sps, txnFreed, htDepth, miDepth, error, calls, cut>>

None == 0
Handles == 1..MaxHandle
NotCut == MaxSavepoints + 1
Zero == [flags |-> "Deleted", tag |-> 0]

\* want is history: the entry every handle should read as.  So is lossless:
\* that no operation of this lineage failed after it had allocated.
EmptyRoots == [ht |-> None, mi |-> None, next |-> 1, used |-> {},
               want |-> [h \in Handles |-> Zero], lossless |-> TRUE]

Init ==
    /\ mem = [p \in PageIds |-> Blank]
    /\ committed = EmptyRoots /\ cur = EmptyRoots
    /\ active = FALSE /\ sps = <<>> /\ txnFreed = {}
    /\ htDepth = 0 /\ miDepth = 0 /\ error = "none"
    /\ calls = MaxCalls /\ cut = NotCut

-----------------------------------------------------------------------------
Start(room, depth) ==
    [mem |-> mem, used |-> cur.used, room |-> room, err |-> "none", freed |-> <<>>,
     id |-> None, depth |-> depth, prev |-> Zero, ht |-> cur.ht, htDepth |-> htDepth]
Ok(s) == s.err = "none"
Ids(seq) == {seq[i] : i \in 1..Len(seq)}
Shown(m, used) == [p \in PageIds |-> IF p \in used THEN m[p] ELSE Blank]
AllUsed(c, s) == c.used \cup committed.used \cup UNION {s[i].roots.used : i \in 1..Len(s)}

\* retire_superseded: outside savepoints a page this transaction allocated
\* itself may be handed out again at once; any other waits for the commit.
ToPool(r) == IF sps = <<>> THEN Ids(r.freed) \ committed.used ELSE {}

\* The infallible end of an operation: the new roots, and what they supersede.
Install(r, roots) ==
    /\ cur' = [roots EXCEPT !.used = r.used \ ToPool(r)]
    /\ txnFreed' = txnFreed \cup (Ids(r.freed) \ ToPool(r))
    /\ mem' = Shown(r.mem, AllUsed(cur', sps))
    /\ htDepth' = r.htDepth /\ miDepth' = r.depth
    /\ error' = "none"

\* The operation returns Err: the roots stay, the pages it drew stay allocated.
Abandon(r) ==
    /\ cur.lossless      \* bound: one failure that leaves pages behind in a lineage
    /\ cur' = [cur EXCEPT !.used = r.used, !.lossless = @ /\ r.used = cur.used]
    /\ mem' = Shown(r.mem, AllUsed(cur', sps))
    /\ error' = r.err
    /\ UNCHANGED <<txnFreed, htDepth, miDepth>>

\* A call inside a transaction.  After a rewind that failed half way a caller
\* is expected to repeat it, or a rewind further out, before anything else.
Ready == active /\ cut = NotCut
Called == Ready /\ calls > 0 /\ calls' = calls - 1
CanRewind(i) == active /\ i <= cut

Begin ==
    /\ ~active
    /\ active' = TRUE /\ cur' = committed /\ error' = "none"
    /\ UNCHANGED <<mem, committed, sps, txnFreed, htDepth, miDepth, calls, cut>>

\* ensure_handle_table
EnsureRoot(s) ==
    IF cur.ht = None THEN HT!CreateRoot(s) ELSE [s EXCEPT !.id = cur.ht]

\* The handle-table candidate is ready: keep its root and depth, and go on
\* with the membership index.
HtReady(s) == [s EXCEPT !.ht = s.id, !.htDepth = s.depth, !.id = cur.mi, !.depth = miDepth]

AllocateCandidates(s, h, entry) ==
    HT!Then(EnsureRoot(s), LAMBDA e :
    HT!Then(HT!Insert(e, e.id, h, entry), LAMBDA f :
        IF entry.tag = 0 THEN HtReady(f)
        ELSE MI!IndexInsert(HtReady(f), cur.mi, entry.tag, h)))

Allocate(tag, room) ==
    LET h == cur.next
        entry == [flags |-> "Live", tag |-> tag]
        r == AllocateCandidates(Start(room, htDepth), h, entry)
    IN  /\ Called /\ h < MaxHandle
        /\ IF Ok(r)
           THEN Install(r, [cur EXCEPT !.ht = r.ht, !.mi = r.id, !.next = h + 1,
                                       !.want[h] = entry])
           ELSE Abandon(r)
        /\ UNCHANGED <<committed, active, sps, cut>>

\* The new value may be kept the other way round: inline or in a chain.
Update(h, room) ==
    LET old == HT!Lookup(mem, cur.ht, h, htDepth)
        entry == [old EXCEPT !.flags = IF @ = "Live" THEN "Overflow" ELSE "Live"]
        r == HT!Then(HT!Insert(Start(room, htDepth), cur.ht, h, entry), HtReady)
    IN  /\ Called
        /\ old.flags # "Deleted"
        /\ IF Ok(r) THEN Install(r, [cur EXCEPT !.ht = r.ht, !.want[h] = entry])
           ELSE Abandon(r)
        /\ UNCHANGED <<committed, active, sps, cut>>

DeleteCandidates(s, h) ==
    HT!Then(HT!Delete(s, cur.ht, h), LAMBDA d :
        IF d.prev = Zero THEN [d EXCEPT !.err = "InvalidHandle"]
        ELSE IF d.prev.tag = 0 THEN HtReady(d)
        ELSE MI!IndexRemove(HtReady(d), cur.mi, d.prev.tag, h))

Delete(h, room) ==
    LET r == DeleteCandidates(Start(room, htDepth), h) IN
    /\ Called
    /\ IF Ok(r) THEN Install(r, [cur EXCEPT !.ht = r.ht, !.mi = r.id, !.want[h] = Zero])
       ELSE Abandon(r)
    /\ UNCHANGED <<committed, active, sps, cut>>

-----------------------------------------------------------------------------
Savepoint ==
    /\ Ready /\ Len(sps) < MaxSavepoints
    /\ sps' = Append(sps, [roots |-> cur, freed |-> txnFreed])
    /\ txnFreed' = {} /\ error' = "none"
    /\ UNCHANGED <<mem, committed, cur, active, htDepth, miDepth, calls, cut>>

\* The roots first, then each depth, re-derived from the restored root.
Rewound(roots) ==
    /\ cur' = roots
    /\ miDepth' = MI!RecoverDepth(mem, roots.mi)
    /\ htDepth' = HT!RecoverDepth(mem, roots.ht)

\* A read of either walk fails for want of cache room: the pages above the
\* watermark are gone and the roots restored, but the savepoints are not
\* popped and the depths not reached stay as they were.
RewindFails(i) ==
    LET roots == IF i = 0 THEN committed ELSE sps[i].roots IN
    /\ CanRewind(i)
    /\ cur' = roots
    /\ miDepth' \in {miDepth, MI!RecoverDepth(mem, roots.mi)}
    /\ mem' = Shown(mem, AllUsed(roots, SubSeq(sps, 1, i)))
    /\ error' = "CacheFull" /\ cut' = i
    /\ UNCHANGED <<committed, active, sps, txnFreed, htDepth, calls>>

RollbackTo(i) ==
    /\ CanRewind(i)
    /\ Rewound(sps[i].roots)
    /\ sps' = SubSeq(sps, 1, i)
    /\ txnFreed' = {} /\ error' = "none" /\ cut' = NotCut
    /\ mem' = Shown(mem, AllUsed(cur', sps'))
    /\ UNCHANGED <<committed, active, calls>>

Release(i) ==
    /\ Ready
    /\ txnFreed' = txnFreed \cup UNION {sps[j].freed : j \in i..Len(sps)}
    /\ sps' = SubSeq(sps, 1, i - 1) /\ error' = "none"
    /\ UNCHANGED <<mem, committed, cur, active, htDepth, miDepth, calls, cut>>

Rollback ==
    /\ active
    /\ Rewound(committed)
    /\ active' = FALSE /\ sps' = <<>> /\ txnFreed' = {}
    /\ error' = "none" /\ cut' = NotCut
    /\ mem' = Shown(mem, committed.used)
    /\ UNCHANGED <<committed, calls>>

\* The pages superseded since begin are marked free only now.
Commit ==
    LET freed == txnFreed \cup UNION {sps[j].freed : j \in 1..Len(sps)}
        roots == [cur EXCEPT !.used = @ \ freed]
    IN  /\ Ready
        /\ committed' = roots /\ cur' = roots
        /\ mem' = Shown(mem, roots.used)
        /\ active' = FALSE /\ sps' = <<>> /\ txnFreed' = {} /\ error' = "none"
        /\ UNCHANGED <<htDepth, miDepth, calls, cut>>

\* The process ends; the next open reads the committed roots and walks both
\* spines.
Reopen ==
    /\ Rewound(committed)
    /\ active' = FALSE /\ sps' = <<>> /\ txnFreed' = {}
    /\ error' = "none" /\ cut' = NotCut
    /\ mem' = Shown(mem, committed.used)
    /\ UNCHANGED <<committed, calls>>

Next ==
    \/ Begin \/ Savepoint \/ Rollback \/ Commit \/ Reopen
    \/ \E room \in 0..MaxRoom : \/ \E tag \in Tags \cup {0} : Allocate(tag, room)
                                \/ \E h \in Handles : Update(h, room) \/ Delete(h, room)
    \/ \E i \in 1..Len(sps) : RollbackTo(i) \/ Release(i)
    \/ \E i \in 0..Len(sps) : RewindFails(i)

Spec == Init /\ [][Next]_vars

-----------------------------------------------------------------------------
\* The roots a caller can still come to: the current ones, the committed ones
\* and those of every savepoint that is intact.
Restorable == {committed} \cup {sps[i].roots : i \in 1..Min({Len(sps), cut})} \cup {cur}

Reached(r) ==
    HT!Pages(mem, r.ht, HT!RecoverDepth(mem, r.ht)) \cup
    MI!IndexPages(mem, r.mi, Tags, MI!RecoverDepth(mem, r.mi))

\* What the two trees of a set of roots say, read at given depths.
ReadsAs(r, hd, md) ==
    /\ \A h \in Handles : HT!Lookup(mem, r.ht, h, hd) = r.want[h]
    /\ HT!IterLive(mem, r.ht, hd) = {h \in Handles : r.want[h].flags # "Deleted"}
    /\ \A t \in Tags :
          LET members == {h \in Handles : r.want[h].flags # "Deleted" /\ r.want[h].tag = t}
              all == SetToSortSeq(members, <)
          IN  /\ {h \in Handles : MI!IsMember(mem, r.mi, t, h, md)} = members
              /\ MI!HandlesForTag(mem, r.mi, t, md) = all
              /\ \A n \in 0..Cardinality(members) :
                    MI!HandlesForTagBounded(mem, r.mi, t, md, n) = SubSeq(all, 1, n)

\* Every set of roots a caller can come back to reads as it did when it was
\* current: the handle table holds exactly the live entries, and the index
\* holds and lists, in order, exactly the live handles of each tag.  The current
\* roots do so at the depths kept in memory, which are theirs through growth,
\* discarded candidates, rewinds and reopening (HANDLES-INDEX-3, I99, C1), and no
\* call reports a corrupt page over trees this code wrote.
RootsReadBack ==
    /\ error # "CorruptPage"
    /\ cut = NotCut => /\ htDepth = HT!RecoverDepth(mem, cur.ht)
                       /\ miDepth = MI!RecoverDepth(mem, cur.mi)
    /\ \A r \in Restorable \ {cur} : ReadsAs(r, HT!RecoverDepth(mem, r.ht), MI!RecoverDepth(mem, r.mi))
    /\ cut = NotCut => ReadsAs(cur, htDepth, miDepth)

\* The pages a mutation reports as superseded are exactly those it replaced:
\* nothing reachable is ever offered again, and once a transaction in which
\* no operation failed has ended, every allocated page is reachable.
PagesAccounted ==
    /\ \A r \in Restorable : Reached(r) \subseteq r.used
    /\ ~active /\ committed.lossless => Reached(committed) = committed.used

=============================================================================

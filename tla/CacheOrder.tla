----------------------------- MODULE CacheOrder -----------------------------
(***************************************************************************)
(* Which page leaves the cache when room is needed (src/src/page_cache.rs, *)
(* spillway.rs): the entries with their dirty flags, the LRU index over    *)
(* them, the pages of the spillway, and every call that touches, inserts,  *)
(* evicts, spills, drains or drops a page.                                 *)
(*                                                                         *)
(* PageCache shows that the bytes survive whatever page is chosen; here    *)
(* the bytes are left out and the choice is the code's.  A call that makes *)
(* room, and one that drops pages, is one step per page.                   *)
(***************************************************************************)
EXTENDS LruIndex

CONSTANTS MaxPage,     \* bound: page ids are 1 .. MaxPage
          FirstPages,  \* pages of the file at the start
          CacheSizes,  \* values of max_pages
          SpillSizes,  \* values of spillway_max_bytes, in pages; 0 disables it
          MaxRefused   \* bound: calls in a row that found no room

ASSUME OrderAssumption ==
    /\ MaxPage \in Nat /\ FirstPages \in 0..MaxPage
    /\ CacheSizes \subseteq Nat \ {0} /\ SpillSizes \subseteq Nat
    /\ MaxRefused \in Nat

VARIABLES
    entries,   \* keys of PageCache::entries
    dirty,     \* entries whose dirty flag is set
    lru,       \* the LRU index
    queue,     \* history: the queue that the index stands for
    spilled,   \* keys of Spillway::slots
    maxPages,  \* max_pages
    spillMax,  \* spillway_max_bytes, in pages
    policy,    \* drain_insertion
    next,      \* next_page_id
    total,     \* committed_roots.total_pages
    active,    \* a transaction is open
    call,      \* the call under way, with its page or page count
    work,      \* pages that call has still to drop or to drain
    refused    \* history: pages entered by calls that then found no room

cacheVars == <<entries, dirty, lru, queue>>
limits == <<maxPages, spillMax, policy>>
txnVars == <<next, total, active>>
vars == <<entries, dirty, lru, queue, spilled, maxPages, spillMax, policy,
          next, total, active, call, work, refused>>

PageIds == 1..MaxPage
DrainInsertion == {"LruTail", "Mru"}
NoCall == [kind |-> "none", arg |-> 0]
Calls == [kind : {"none", "alloc", "load", "resize", "drain", "trim",
                  "discard", "truncate", "rewind"},
          arg : 0..MaxPage]

Init ==
    /\ entries = {} /\ dirty = {} /\ lru = EmptyIndex /\ queue = <<>>
    /\ spilled = {}
    /\ maxPages \in CacheSizes /\ spillMax \in SpillSizes
    /\ policy \in DrainInsertion
    /\ next = FirstPages /\ total = FirstPages /\ active = FALSE
    /\ call = NoCall /\ work = {} /\ refused = 0

-----------------------------------------------------------------------------
(* What every path does to the index, and to the queue beside it.           *)

touch_lru(p) == lru' = push_front(lru, p) /\ queue' = InFront(Without(queue, p), p)
ToTail(p) == lru' = push_back(lru, p) /\ queue' = AtBack(Without(queue, p), p)
LeaveLru(p) == lru' = remove(lru, p) /\ queue' = Without(queue, p)

\* An entry is dropped, and its place in the index with it.
discard(p) ==
    /\ entries' = entries \ {p} /\ dirty' = dirty \ {p}
    /\ LeaveLru(p)

Ready == call = NoCall
Handed(p) == p <= next

Begin ==
    /\ Ready /\ ~active
    /\ active' = TRUE
    /\ UNCHANGED <<cacheVars, spilled, limits, next, total, call, work, refused>>

\* get of a page in memory.
get(p) ==
    /\ Ready /\ p \in entries
    /\ touch_lru(p)
    /\ UNCHANGED <<entries, dirty, spilled, limits, txnVars, call, work, refused>>

\* get_mut of a page in memory.
get_mut(p) ==
    /\ Ready /\ active /\ p \in entries
    /\ touch_lru(p) /\ dirty' = dirty \cup {p}
    /\ UNCHANGED <<entries, spilled, limits, txnVars, call, work, refused>>

\* get, or the first half of get_mut, of a page that is not in memory.
Miss(p) ==
    /\ Ready /\ Handed(p) /\ p \notin entries
    /\ call' = [kind |-> "load", arg |-> p]
    /\ UNCHANGED <<cacheVars, spilled, limits, txnVars, work, refused>>

\* A zeroed dirty entry at the MRU end, before the call makes room.
Enter(p) ==
    /\ entries' = entries \cup {p} /\ dirty' = dirty \cup {p}
    /\ touch_lru(p)
    /\ call' = [kind |-> "alloc", arg |-> p]

MayEnter == Ready /\ active /\ refused < MaxRefused

new_page ==
    /\ MayEnter /\ next < MaxPage
    /\ next' = next + 1
    /\ Enter(next')
    /\ UNCHANGED <<spilled, limits, total, active, work, refused>>

reissue_page(p) ==
    /\ MayEnter /\ Handed(p)
    /\ spilled' = spilled \ {p}
    /\ Enter(p)
    /\ UNCHANGED <<limits, txnVars, work, refused>>

-----------------------------------------------------------------------------
(* evict_clean_to_cap, then the spilling of maybe_evict.                    *)

OverCap == Cardinality(entries) > maxPages
Clean == entries \ dirty
MakingRoom == call.kind \in {"alloc", "load", "resize", "trim"}
NeedsSpill == call.kind \in {"alloc", "load"} /\ OverCap /\ Clean = {}

\* A variant that the runs must reject: the scan starts at the MRU end.
evict_newest_clean ==
    /\ MakingRoom /\ OverCap /\ Clean # {}
    /\ LET p == queue[CHOOSE k \in 1..Len(queue) :
                        /\ queue[k] \in Clean
                        /\ \A j \in 1..(k - 1) : queue[j] \notin Clean]
       IN  discard(p)
    /\ UNCHANGED <<spilled, limits, txnVars, call, work, refused>>

\* The clean page nearest to the LRU end goes.
evict_clean ==
    /\ MakingRoom /\ OverCap /\ Clean # {}
    /\ \E p \in Clean : find(lru, Clean, p) /\ discard(p)
    /\ UNCHANGED <<spilled, limits, txnVars, call, work, refused>>

\* Everything is dirty: the page at the LRU end moves to the spillway.
spill ==
    /\ NeedsSpill /\ spillMax > 0 /\ lru.tail # Nil
    /\ Cardinality(spilled) < spillMax
    /\ discard(lru.tail)
    /\ spilled' = spilled \cup {lru.tail}
    /\ UNCHANGED <<limits, txnVars, call, work, refused>>

EndRefused ==
    /\ call' = NoCall
    /\ refused' = IF call.kind = "alloc" THEN refused + 1 ELSE refused

CacheFull ==
    /\ NeedsSpill /\ spillMax = 0
    /\ EndRefused
    /\ UNCHANGED <<cacheVars, spilled, limits, txnVars, work>>

\* The victim is taken out, finds no slot, and is put back.
SpillwayFull ==
    /\ NeedsSpill /\ spillMax > 0 /\ lru.tail # Nil
    /\ Cardinality(spilled) >= spillMax
    /\ lru' = push_back(remove(lru, lru.tail), lru.tail)
    /\ queue' = AtBack(Without(queue, lru.tail), lru.tail)
    /\ EndRefused
    /\ UNCHANGED <<entries, dirty, spilled, limits, txnVars, work>>

\* A variant that the runs must reject: one eviction and the call returns.
AllocDoneOver ==
    /\ call.kind = "alloc"
    /\ call' = NoCall /\ refused' = 0
    /\ UNCHANGED <<cacheVars, spilled, limits, txnVars, work>>

AllocDone ==
    /\ call.kind = "alloc" /\ ~OverCap
    /\ call' = NoCall /\ refused' = 0
    /\ UNCHANGED <<cacheVars, spilled, limits, txnVars, work>>

\* load_page enters the page after it made room: one page above the limit.  A
\* spilled page is dirty still.
load_page ==
    /\ call.kind = "load" /\ ~OverCap
    /\ entries' = entries \cup {call.arg}
    /\ dirty' = IF call.arg \in spilled THEN dirty \cup {call.arg} ELSE dirty
    /\ spilled' = spilled \ {call.arg}
    /\ touch_lru(call.arg)
    /\ call' = NoCall /\ refused' = 0
    /\ UNCHANGED <<limits, txnVars, work>>

\* A dead page of the file that does not verify (the sweep goes on after it).
LoadFails ==
    /\ call.kind = "load" /\ ~OverCap /\ call.arg \notin spilled
    /\ call' = NoCall /\ refused' = 0
    /\ UNCHANGED <<cacheVars, spilled, limits, txnVars, work>>

-----------------------------------------------------------------------------
(* Setters, between transactions.                                           *)

set_cache_max_bytes(n) ==
    /\ Ready /\ ~active
    /\ maxPages' = n /\ call' = [kind |-> "resize", arg |-> 0]
    /\ UNCHANGED <<cacheVars, spilled, spillMax, policy, txnVars, work, refused>>

ResizeDone ==
    /\ call.kind = "resize" /\ (~OverCap \/ Clean = {})
    /\ call' = NoCall /\ refused' = IF OverCap THEN refused ELSE 0
    /\ UNCHANGED <<cacheVars, spilled, limits, txnVars, work>>

set_spillway_max_bytes(n) ==
    /\ Ready /\ ~active
    /\ spillMax' = n
    /\ UNCHANGED <<cacheVars, spilled, maxPages, policy, txnVars, call, work, refused>>

set_drain_insertion(d) ==
    /\ Ready /\ ~active
    /\ policy' = d
    /\ UNCHANGED <<cacheVars, spilled, maxPages, spillMax, txnVars, call, work, refused>>

-----------------------------------------------------------------------------
(* flush: the dirty entries are written in place, then the spilled pages    *)
(* come back in batches, each followed by an eviction to the limit.         *)

flush ==
    /\ Ready /\ active
    /\ dirty' = {} /\ call' = [kind |-> "drain", arg |-> 0]
    /\ UNCHANGED <<entries, lru, queue, spilled, limits, txnVars, work, refused>>

drain_batch ==
    /\ call.kind = "drain" /\ work = {} /\ spilled # {}
    /\ work' \in {B \in SUBSET spilled :
                    \/ B = spilled /\ Cardinality(B) <= maxPages
                    \/ Cardinality(B) = maxPages}
    /\ UNCHANGED <<cacheVars, spilled, limits, txnVars, call, refused>>

\* Entered clean, at the end of the index that drain_insertion names.
Drain(p) ==
    /\ call.kind = "drain" /\ p \in work
    /\ spilled' = spilled \ {p} /\ work' = work \ {p}
    /\ entries' = entries \cup {p}
    /\ IF p \in entries THEN UNCHANGED <<lru, queue>>
       ELSE IF policy = "Mru" THEN touch_lru(p) ELSE ToTail(p)
    /\ call' = IF work' = {} THEN [call EXCEPT !.kind = "trim"] ELSE call
    /\ UNCHANGED <<dirty, limits, txnVars, refused>>

TrimDone ==
    /\ call.kind = "trim" /\ (~OverCap \/ Clean = {})
    /\ call' = [call EXCEPT !.kind = "drain"]
    /\ UNCHANGED <<cacheVars, spilled, limits, txnVars, work, refused>>

\* After the first flush of a commit the transaction goes on, after the second
\* it ends.
FlushEnd ==
    /\ call.kind = "drain" /\ work = {} /\ spilled = {}
    /\ call' = NoCall
    /\ active' \in BOOLEAN
    /\ total' = IF active' THEN total ELSE next
    /\ UNCHANGED <<cacheVars, spilled, limits, next, work, refused>>

-----------------------------------------------------------------------------
(* Rollback: discard_all_dirty and truncate; rollback_to: truncate alone.   *)

Above(n) == {p \in entries : p > n}
Excused == IF Cardinality(entries) > maxPages THEN refused ELSE 0

discard_all_dirty ==
    /\ Ready /\ active
    /\ call' = [kind |-> "discard", arg |-> total] /\ work' = dirty
    /\ UNCHANGED <<cacheVars, spilled, limits, txnVars, refused>>

truncate(n) ==
    /\ Ready /\ active /\ n \in total..next
    /\ call' = [kind |-> "rewind", arg |-> n] /\ work' = Above(n)
    /\ UNCHANGED <<cacheVars, spilled, limits, txnVars, refused>>

Drop(p) ==
    /\ call.kind \in {"discard", "truncate", "rewind"} /\ p \in work
    /\ discard(p)
    /\ work' = work \ {p}
    /\ UNCHANGED <<spilled, limits, txnVars, call, refused>>

\* The spillway is emptied, and the file truncated to the committed size.
Discarded ==
    /\ call.kind = "discard" /\ work = {}
    /\ spilled' = {}
    /\ call' = [call EXCEPT !.kind = "truncate"] /\ work' = Above(call.arg)
    /\ UNCHANGED <<cacheVars, limits, txnVars, refused>>

Truncated ==
    /\ call.kind \in {"truncate", "rewind"} /\ work = {}
    /\ spilled' = {p \in spilled : p <= call.arg}
    /\ next' = IF next > call.arg THEN call.arg ELSE next
    /\ active' = (call.kind = "rewind")
    /\ call' = NoCall /\ refused' = Excused
    /\ UNCHANGED <<cacheVars, limits, total, work>>

MakeRoom ==
    \/ evict_clean \/ spill \/ CacheFull \/ SpillwayFull
    \/ AllocDone \/ load_page \/ LoadFails \/ ResizeDone
FlushStep == drain_batch \/ TrimDone \/ FlushEnd \/ \E p \in PageIds : Drain(p)
DropStep == Discarded \/ Truncated \/ \E p \in PageIds : Drop(p)

Next ==
    \/ Begin \/ new_page \/ flush \/ discard_all_dirty
    \/ \E p \in PageIds : get(p) \/ get_mut(p) \/ Miss(p) \/ reissue_page(p)
    \/ \E n \in 0..MaxPage : truncate(n)
    \/ \E n \in CacheSizes : set_cache_max_bytes(n)
    \/ \E n \in SpillSizes : set_spillway_max_bytes(n)
    \/ \E d \in DrainInsertion : set_drain_insertion(d)
    \/ MakeRoom \/ FlushStep \/ DropStep

Spec == Init /\ [][Next]_vars

-----------------------------------------------------------------------------
(* Properties.                                                              *)

\* The linked index is the queue it replaced: after any sequence of touches,
\* insertions at either end, removals and failed spills its links, both ways,
\* and its two ends are those of the queue (lru.rs, "Correctness model").
IndexIsQueue == Represents(lru, queue)

\* The index and the entries hold the same pages, between any two steps: the
\* eviction loops follow the index and look the page up in the entries.
IndexTracksEntries == DOMAIN lru.nodes = entries

\* Position in the queue: the larger, the longer unused.
Age(p) == IndexOf(queue, p)

\* The page that leaves to make room has been unused the longest: a clean page
\* longer than any other clean page, a dirty one longer than any page at all
\* (evict_clean_to_cap, maybe_evict).
VictimOldest ==
    [][MakingRoom => \A p \in entries \ entries' :
          /\ p \in dirty => Clean = {}
          /\ \A q \in entries \ {p} :
                (p \in dirty \/ q \in Clean) => Age(q) < Age(p)]_vars

\* A call that finds no room leaves the pages in the order it found them, so
\* the next one tries the same victim (the restore after a failed spill).
RefusalKeepsOrder ==
    [][CacheFull \/ SpillwayFull => queue' = queue]_vars

\* The page a call is allocating is still in memory when the call returns: the
\* loops that make room never choose it (new_page, "never the eviction victim").
AllocatedStays == call.kind = "alloc" => call.arg \in dirty

\* Between calls the cache is at most one page above max_pages (load_page makes
\* room before it enters its page), and one more for each call since that
\* entered a page and then found no room.
CapHolds ==
    call = NoCall => Cardinality(entries) <= maxPages + 1 + refused
=============================================================================

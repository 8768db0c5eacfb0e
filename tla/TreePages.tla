----------------------------- MODULE TreePages -----------------------------
(***************************************************************************)
(* What the copy-on-write trees see of the page layer: a memory of pages   *)
(* and the `alloc` closure the transaction layer hands them.  A mutation   *)
(* threads one record s through its steps:                                 *)
(*   mem    the pages                                                      *)
(*   used   ids that are allocated                                         *)
(*   room   allocations left before the cache reports CacheFull            *)
(*   err    "none" or the error the mutation returns                       *)
(*   freed  ids the mutation supersedes, in the order it pushes them       *)
(*   id     the page the last step returned                                *)
(*   depth  the descent depth the mutation runs with                       *)
(*   prev   what the last delete removed                                   *)
(***************************************************************************)
EXTENDS Integers, Sequences, FiniteSets, FiniteSetsExt

CONSTANTS PageIds,   \* ids the allocator may hand out; never 0
          MaxKey     \* u64::MAX, where capacities and spans saturate

None == 0            \* PAGE_ID_NONE, a null child and an absent value
Corrupt == -1        \* in a read, the CorruptPage error

Ok(s) == s.err = "none"
Fails(s, e) == [s EXCEPT !.err = e]

\* Rust's ?: the rest of a mutation, which a failure before it turns off.
Then(s, Rest(_)) == IF Ok(s) THEN Rest(s) ELSE s

\* The allocator's contract: an id nothing allocated holds, or an error.
Alloc(s) ==
    LET spare == PageIds \ s.used IN
    IF s.room = 0 \/ spare = {} THEN Fails(s, "CacheFull")
    ELSE [s EXCEPT !.used = @ \cup {Min(spare)}, !.room = @ - 1, !.id = Min(spare)]

\* Steps of a mutation; none is taken after a failure.
Put(s, id, page) == IF Ok(s) THEN [s EXCEPT !.mem[id] = page] ELSE s
PutSlot(s, id, i, v) == IF Ok(s) THEN [s EXCEPT !.mem[id].slot[i] = v] ELSE s
Supersede(s, id) == IF Ok(s) THEN [s EXCEPT !.freed = Append(@, id)] ELSE s
RestoringDepth(s, depth) == IF Ok(s) THEN s ELSE [s EXCEPT !.depth = depth]
Returning(s, id) == IF Ok(s) THEN [s EXCEPT !.id = id] ELSE s

SatMul(a, b) == Min({a * b, MaxKey})
SatAdd(a, b) == Min({a + b, MaxKey})
=============================================================================

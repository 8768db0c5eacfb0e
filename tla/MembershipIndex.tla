-------------------------- MODULE MembershipIndex --------------------------
(***************************************************************************)
(* The reverse map from a tag to the handles that carry it: an outer       *)
(* RadixU64 from the tag to the packed root and depth of an inner one,     *)
(* whose keys are the handles (MembershipIndex of                          *)
(* src/src/membership_index.rs).  The outer depth is kept in memory and    *)
(* is s.depth here; an inner depth is stored with its root.                *)
(***************************************************************************)
EXTENDS RadixU64

CONSTANT InnerRootBits     \* 58: the low bits of a packed value hold the root

\* A variant that the runs must reject: the depth is left out.
PackRootOnly(root, depth) == root % 2^InnerRootBits

PackInner(root, depth) == depth * 2^InnerRootBits + root
InnerRoot(packed) == packed % 2^InnerRootBits
InnerDepth(packed) == packed \div 2^InnerRootBits

\* The packed value of a tag, with the refusal of a depth no tree can have.
InnerOf(mem, outerRoot, tag, depth) == Lookup(mem, outerRoot, tag, depth)
InnerCorrupt(mem, outerRoot, tag, depth) ==
    LET packed == InnerOf(mem, outerRoot, tag, depth) IN
    \/ CorruptAt(mem, outerRoot, tag, depth)
    \/ InnerRoot(packed) # None /\ InnerDepth(packed) > MaxDepth
LoadInner(s, outerRoot, tag) ==
    LET packed == InnerOf(s.mem, outerRoot, tag, s.depth) IN
    IF InnerCorrupt(s.mem, outerRoot, tag, s.depth) THEN Fails(s, "CorruptPage")
    ELSE [s EXCEPT !.id = InnerRoot(packed), !.depth = InnerDepth(packed)]

\* The packed depth is the one after the insert.
IndexInsert(s, outerRoot, tag, handle) ==
    RestoringDepth(
        Then(IF outerRoot = None THEN CreateRoot(s) ELSE Returning(s, outerRoot), LAMBDA outer :
        Then(LoadInner(outer, outer.id, tag), LAMBDA found :
        Then(IF found.id = None THEN CreateRoot(found) ELSE found, LAMBDA inner :
        Then(Insert(inner, inner.id, handle, 1), LAMBDA new :
            Insert([new EXCEPT !.depth = outer.depth], outer.id, tag,
                   PackInner(new.id, new.depth)))))),
        s.depth)

\* An inner tree whose last member goes is freed whole and its tag dropped.
IndexRemove(s, outerRoot, tag, handle) ==
    IF outerRoot = None THEN NothingDeleted(s, outerRoot)
    ELSE RestoringDepth(
        Then(LoadInner(s, outerRoot, tag), LAMBDA inner :
        Then(Delete(inner, inner.id, handle), LAMBDA d :
            IF d.prev = 0 THEN NothingDeleted(s, outerRoot)
            ELSE IF AnyPresent(d.mem, d.id, d.depth)
            THEN Insert([d EXCEPT !.depth = s.depth], outerRoot, tag, PackInner(d.id, d.depth))
            ELSE Then(FreeSubtree(d, d.id, d.depth), LAMBDA gone :
                     Delete([gone EXCEPT !.depth = s.depth], outerRoot, tag)))),
        s.depth)

IsMember(mem, outerRoot, tag, handle, depth) ==
    LET packed == InnerOf(mem, outerRoot, tag, depth) IN
    Lookup(mem, InnerRoot(packed), handle, InnerDepth(packed)) # 0

HandlesForTag(mem, outerRoot, tag, depth) ==
    LET packed == InnerOf(mem, outerRoot, tag, depth) IN
    Iter(mem, InnerRoot(packed), InnerDepth(packed))

HandlesForTagBounded(mem, outerRoot, tag, depth, limit) ==
    LET packed == InnerOf(mem, outerRoot, tag, depth) IN
    IterBounded(mem, InnerRoot(packed), InnerDepth(packed), limit)

\* Every page of the index: the outer tree's and those of its inner trees.
IndexPages(mem, outerRoot, tags, depth) ==
    Pages(mem, outerRoot, depth) \cup
    UNION {LET packed == InnerOf(mem, outerRoot, t, depth) IN
           Pages(mem, InnerRoot(packed), InnerDepth(packed)) : t \in tags}
=============================================================================

---------------------------- MODULE HandleTable ----------------------------
(***************************************************************************)
(* The handle table: a copy-on-write radix tree from handles to entries    *)
(* (src/src/handle_table.rs).  The depth of the descent is kept in memory, *)
(* beside the root and never in a page.                                    *)
(***************************************************************************)
EXTENDS TreePages

CONSTANTS EntriesPerLeaf, PtrsPerInterior, MaxDepth

\* HandleFlags::from_u8 reads any byte but 1 and 2, so a zeroed slot too, as
\* Deleted.
Zero == [flags |-> "Deleted", tag |-> 0]

Leaf == [type |-> "HandleTable", flag |-> "leaf",
         slot |-> [i \in 0..EntriesPerLeaf - 1 |-> Zero]]
Interior == [type |-> "HandleTable", flag |-> "interior",
             slot |-> [i \in 0..PtrsPerInterior - 1 |-> None]]

ReadEntry(s, page, i) == s.mem[page].slot[i]
WriteEntry(s, page, i, entry) == PutSlot(s, page, i, entry)

RECURSIVE Capacity(_)
Capacity(depth) ==
    IF depth = 0 THEN EntriesPerLeaf ELSE SatMul(Capacity(depth - 1), PtrsPerInterior)

RECURSIVE SpanAtLevel(_)
SpanAtLevel(level) ==
    IF level <= 1 THEN EntriesPerLeaf ELSE SatMul(SpanAtLevel(level - 1), PtrsPerInterior)

OutOfReach(depth, handle) == Capacity(depth) # MaxKey /\ handle >= Capacity(depth)

-----------------------------------------------------------------------------
CreateRoot(s) == Then(Alloc(s), LAMBDA a : [Put(a, a.id, Leaf) EXCEPT !.depth = 0])

\* The old root becomes child 0; nothing is superseded; the depth is raised
\* before the insert that follows may fail.
Grow(s, oldRoot) ==
    Then(Alloc(s), LAMBDA a :
        [PutSlot(Put(a, a.id, Interior), a.id, 0, oldRoot) EXCEPT !.depth = @ + 1])

RECURSIVE GrowToFit(_, _, _)
GrowToFit(s, root, handle) ==
    IF s.depth < MaxDepth /\ handle >= Capacity(s.depth)
    THEN Then(Grow(s, root), LAMBDA g : GrowToFit(g, g.id, handle))
    ELSE Returning(s, root)

\* The page is cloned whole before anything in it is changed.
CopyOnWrite(s, page) ==
    Then(Alloc(s), LAMBDA a : Supersede(Put(a, a.id, a.mem[page]), page))

\* A zero child pointer: the subtree is created when an insert first needs it.
ChildForInsert(s, child, level) ==
    IF child # None THEN Returning(s, child)
    ELSE Then(Alloc(s), LAMBDA a : Put(a, a.id, IF level = 1 THEN Leaf ELSE Interior))

RECURSIVE InsertRecursive(_, _, _, _, _)
\* The rest of an insert once page `new' of an interior level is a copy.
InsertBelow(s, new, i, rest, entry, level) ==
    Then(ChildForInsert(s, s.mem[new].slot[i], level), LAMBDA child :
        Then(InsertRecursive(child, child.id, rest, entry, level - 1), LAMBDA sub :
            Returning(PutSlot(sub, new, i, sub.id), new)))
InsertRecursive(s, page, handle, entry, level) ==
    Then(CopyOnWrite(s, page), LAMBDA c :
        IF level = 0 THEN WriteEntry(c, c.id, handle % EntriesPerLeaf, entry)
        ELSE InsertBelow(c, c.id, handle \div SpanAtLevel(level), handle % SpanAtLevel(level),
                         entry, level))

\* insert restores the depth itself on every error.
Insert(s, root, handle, entry) ==
    RestoringDepth(Then(GrowToFit(s, root, handle), LAMBDA g :
                       InsertRecursive(g, g.id, handle, entry, g.depth)),
                   s.depth)

\* prev is the entry that was tombstoned, Zero when there was none; then no
\* page is copied at any level.
NothingDeleted(s, page) == [s EXCEPT !.id = page, !.prev = Zero]
DeleteFromLeaf(s, page, i) ==
    IF ReadEntry(s, page, i).flags = "Deleted" THEN NothingDeleted(s, page)
    ELSE Then(CopyOnWrite([s EXCEPT !.prev = ReadEntry(s, page, i)], page), LAMBDA c :
             WriteEntry(c, c.id, i, Zero))

RECURSIVE DeleteRecursive(_, _, _, _)
DeleteBelow(s, page, i, rest, level) ==
    IF s.mem[page].slot[i] = None THEN NothingDeleted(s, page)
    ELSE Then(DeleteRecursive(s, s.mem[page].slot[i], rest, level - 1), LAMBDA sub :
             IF sub.prev = Zero THEN NothingDeleted(sub, page)
             ELSE Then(CopyOnWrite(sub, page), LAMBDA c : PutSlot(c, c.id, i, sub.id)))
DeleteRecursive(s, page, handle, level) ==
    IF level = 0 THEN DeleteFromLeaf(s, page, handle % EntriesPerLeaf)
    ELSE DeleteBelow(s, page, handle \div SpanAtLevel(level), handle % SpanAtLevel(level), level)

Delete(s, root, handle) ==
    IF root = None \/ OutOfReach(s.depth, handle) THEN NothingDeleted(s, root)
    ELSE DeleteRecursive(s, root, handle, s.depth)

-----------------------------------------------------------------------------
\* The leaf and slot of a handle, None when its subtree was never created,
\* Corrupt when a page of the path is not what its level requires.
RECURSIVE Descend(_, _, _, _)
Descend(mem, page, rest, level) ==
    IF level = 0 THEN <<page, rest % EntriesPerLeaf>>
    ELSE LET i == rest \div SpanAtLevel(level) IN
         IF i >= PtrsPerInterior THEN <<None, 0>>
         ELSE IF mem[page].type # "HandleTable" \/ mem[page].flag # "interior"
         THEN <<None, Corrupt>>
         ELSE IF mem[page].slot[i] = None THEN <<None, 0>>
         ELSE Descend(mem, mem[page].slot[i], rest % SpanAtLevel(level), level - 1)

FindLeaf(mem, root, handle, depth) ==
    IF OutOfReach(depth, handle) THEN <<None, 0>> ELSE Descend(mem, root, handle, depth)

\* Zero when the handle is absent or deleted.
Lookup(mem, root, handle, depth) ==
    IF root = None THEN Zero
    ELSE LET leaf == FindLeaf(mem, root, handle, depth) IN
         IF leaf[1] = None THEN Zero ELSE mem[leaf[1]].slot[leaf[2]]

RECURSIVE IterRecursive(_, _, _, _)
IterRecursive(mem, page, base, level) ==
    IF level = 0
    THEN {SatAdd(base, i) : i \in {j \in 0..EntriesPerLeaf - 1 : mem[page].slot[j].flags # "Deleted"}}
    ELSE UNION {IterRecursive(mem, mem[page].slot[i], SatAdd(base, SatMul(i, SpanAtLevel(level))), level - 1) :
                i \in {j \in 0..PtrsPerInterior - 1 : mem[page].slot[j] # None}}

IterLive(mem, root, depth) == IF root = None THEN {} ELSE IterRecursive(mem, root, 0, depth)

\* Walk the left spine until a page that is not interior; Corrupt stands for
\* CorruptPage.
RECURSIVE SpineDepth(_, _, _)
SpineDepth(mem, page, depth) ==
    IF mem[page].flag # "interior" THEN depth
    ELSE IF mem[page].type # "HandleTable" \/ depth + 1 > MaxDepth THEN Corrupt
    ELSE IF mem[page].slot[0] = None THEN depth + 1
    ELSE SpineDepth(mem, mem[page].slot[0], depth + 1)

RecoverDepth(mem, root) == IF root = None THEN 0 ELSE SpineDepth(mem, root, 0)

\* The pages of a tree, for the accounting of the allocator.
RECURSIVE PagesAt(_, _, _)
PagesAt(mem, page, level) ==
    {page} \cup IF level = 0 THEN {}
                ELSE UNION {PagesAt(mem, mem[page].slot[i], level - 1) :
                            i \in {j \in 0..PtrsPerInterior - 1 : mem[page].slot[j] # None}}
Pages(mem, root, depth) == IF root = None THEN {} ELSE PagesAt(mem, root, depth)
=============================================================================

------------------------------ MODULE RadixU64 ------------------------------
(***************************************************************************)
(* The copy-on-write radix tree from numbers to non-zero numbers on which  *)
(* the membership index is built twice over (RadixU64 of                   *)
(* src/src/membership_index.rs).  Every descent checks the type of every   *)
(* page it passes.                                                         *)
(***************************************************************************)
EXTENDS TreePages, SequencesExt

CONSTANTS SlotsPerPage, MaxDepth

Indices == 0..SlotsPerPage - 1
IndexSeq == [k \in 1..SlotsPerPage |-> k - 1]

ExpectedTypeAt(level) == IF level = 0 THEN "MembershipLeaf" ELSE "MembershipInterior"
HasTypeAt(mem, page, level) == mem[page].type = ExpectedTypeAt(level)
CheckTypeAt(s, page, level) ==
    IF Ok(s) /\ ~HasTypeAt(s.mem, page, level) THEN Fails(s, "CorruptPage") ELSE s

\* A zeroed page of the type its level requires.
ZeroPage(level) == [type |-> ExpectedTypeAt(level), slot |-> [i \in Indices |-> None]]
InitPage(s, level) == Then(Alloc(s), LAMBDA a : Put(a, a.id, ZeroPage(level)))

Children(mem, page) == {i \in Indices : mem[page].slot[i] # None}

\* A variant that the runs must reject: only the root page is given back.
FreeRootOnly(s, root, depth) == IF root = None THEN s ELSE Supersede(s, root)

\* Post-order over a subtree that is about to be dropped.
RECURSIVE FreeSubtree(_, _, _)
FreeSubtree(s, root, depth) ==
    IF root = None THEN s
    ELSE Then(CheckTypeAt(s, root, depth), LAMBDA checked :
             Supersede(IF depth = 0 THEN checked
                       ELSE FoldLeft(LAMBDA acc, i :
                                         IF ~Ok(acc) \/ s.mem[root].slot[i] = None THEN acc
                                         ELSE FreeSubtree(acc, s.mem[root].slot[i], depth - 1),
                                     checked, IndexSeq),
                       root))

CreateRoot(s) == InitPage([s EXCEPT !.depth = 0], 0)

RECURSIVE Capacity(_)
Capacity(depth) ==
    IF depth = 0 THEN SlotsPerPage ELSE SatMul(Capacity(depth - 1), SlotsPerPage)

RECURSIVE SpanAtLevel(_)
SpanAtLevel(level) ==
    IF level <= 1 THEN SlotsPerPage ELSE SatMul(SpanAtLevel(level - 1), SlotsPerPage)

OutOfReach(depth, key) == Capacity(depth) # MaxKey /\ key >= Capacity(depth)

-----------------------------------------------------------------------------
\* <<leaf, index>>, <<None, 0>> when the key's subtree is absent, or
\* <<None, Corrupt>>.
RECURSIVE Descend(_, _, _, _)
Descend(mem, page, rest, level) ==
    IF level = 0 THEN <<page, rest % SlotsPerPage>>
    ELSE LET i == rest \div SpanAtLevel(level) IN
         IF i >= SlotsPerPage THEN <<None, 0>>
         ELSE IF ~HasTypeAt(mem, page, level) THEN <<None, Corrupt>>
         ELSE IF mem[page].slot[i] = None THEN <<None, 0>>
         ELSE Descend(mem, mem[page].slot[i], rest % SpanAtLevel(level), level - 1)

FindLeaf(mem, root, key, depth) ==
    IF OutOfReach(depth, key) THEN <<None, 0>> ELSE Descend(mem, root, key, depth)

\* 0 stands for absent, and for the CorruptPage error of a page out of place,
\* which CorruptAt tells apart.
CorruptAt(mem, root, key, depth) ==
    /\ root # None
    /\ LET leaf == FindLeaf(mem, root, key, depth) IN
       IF leaf[1] = None THEN leaf[2] = Corrupt ELSE ~HasTypeAt(mem, leaf[1], 0)
Lookup(mem, root, key, depth) ==
    IF root = None THEN 0
    ELSE LET leaf == FindLeaf(mem, root, key, depth) IN
         IF leaf[1] = None \/ CorruptAt(mem, root, key, depth) THEN 0
         ELSE mem[leaf[1]].slot[leaf[2]]

-----------------------------------------------------------------------------
Grow(s, oldRoot) ==
    Then(Alloc(s), LAMBDA a :
        [PutSlot(Put(a, a.id, ZeroPage(1)), a.id, 0, oldRoot) EXCEPT !.depth = @ + 1])

CopyOnWrite(s, page) ==
    Then(Alloc(s), LAMBDA a : Supersede(Put(a, a.id, a.mem[page]), page))

ChildForInsert(s, child, level) ==
    IF child = None THEN InitPage(s, level - 1) ELSE Returning(s, child)

RECURSIVE InsertRecursive(_, _, _, _, _)
InsertBelow(s, new, i, rest, value, level) ==
    Then(ChildForInsert(s, s.mem[new].slot[i], level), LAMBDA child :
        Then(InsertRecursive(child, child.id, rest, value, level - 1), LAMBDA sub :
            Returning(PutSlot(sub, new, i, sub.id), new)))
InsertRecursive(s, page, key, value, level) ==
    Then(CheckTypeAt(s, page, level), LAMBDA checked :
        Then(CopyOnWrite(checked, page), LAMBDA c :
            IF level = 0 THEN PutSlot(c, c.id, key % SlotsPerPage, value)
            ELSE InsertBelow(c, c.id, key \div SpanAtLevel(level), key % SpanAtLevel(level),
                             value, level)))

\* Unlike the handle table's, insert leaves the depth raised when it fails:
\* its caller runs it on a copy.
RECURSIVE Insert(_, _, _, _)
Insert(s, root, key, value) ==
    IF s.depth < MaxDepth /\ key >= Capacity(s.depth)
    THEN Then(Grow(s, root), LAMBDA g : Insert(g, g.id, key, value))
    ELSE InsertRecursive(s, root, key, value, s.depth)

\* prev is the value removed, 0 when there was none.
NothingDeleted(s, page) == [s EXCEPT !.id = page, !.prev = 0]

RECURSIVE DeleteRecursive(_, _, _, _)
DeleteSlot(s, page, i, rest, level) ==
    IF s.mem[page].slot[i] = None THEN NothingDeleted(s, page)
    ELSE IF level = 0
    THEN Then(CopyOnWrite([s EXCEPT !.prev = s.mem[page].slot[i]], page), LAMBDA c :
             PutSlot(c, c.id, i, None))
    ELSE Then(DeleteRecursive(s, s.mem[page].slot[i], rest, level - 1), LAMBDA sub :
             IF sub.prev = 0 THEN NothingDeleted(sub, page)
             ELSE Then(CopyOnWrite(sub, page), LAMBDA c : PutSlot(c, c.id, i, sub.id)))
DeleteRecursive(s, page, key, level) ==
    Then(CheckTypeAt(s, page, level), LAMBDA checked :
        IF level = 0 THEN DeleteSlot(checked, page, key % SlotsPerPage, 0, 0)
        ELSE DeleteSlot(checked, page, key \div SpanAtLevel(level), key % SpanAtLevel(level), level))

Delete(s, root, key) ==
    IF root = None \/ OutOfReach(s.depth, key) THEN NothingDeleted(s, root)
    ELSE DeleteRecursive(s, root, key, s.depth)

-----------------------------------------------------------------------------
\* Keys in the order of the enumeration; the caller drops the values.
RECURSIVE IterRecursive(_, _, _, _, _)
IterRecursive(mem, page, base, level, out) ==
    IF ~HasTypeAt(mem, page, level) THEN Append(out, Corrupt) ELSE
    FoldLeft(LAMBDA acc, i :
                 IF mem[page].slot[i] = None THEN acc
                 ELSE IF level = 0 THEN Append(acc, SatAdd(base, i))
                 ELSE IterRecursive(mem, mem[page].slot[i],
                                    SatAdd(base, SatMul(i, SpanAtLevel(level))), level - 1, acc),
             out, IndexSeq)
Iter(mem, root, depth) ==
    IF root = None THEN <<>> ELSE IterRecursive(mem, root, 0, depth, <<>>)

RECURSIVE IterBoundedRecursive(_, _, _, _, _, _)
IterBoundedRecursive(mem, page, base, level, limit, out) ==
    IF Len(out) < limit /\ ~HasTypeAt(mem, page, level) THEN Append(out, Corrupt) ELSE
    FoldLeft(LAMBDA acc, i :
                 IF Len(acc) >= limit \/ mem[page].slot[i] = None THEN acc
                 ELSE IF level = 0 THEN Append(acc, SatAdd(base, i))
                 ELSE IterBoundedRecursive(mem, mem[page].slot[i],
                                           SatAdd(base, SatMul(i, SpanAtLevel(level))),
                                           level - 1, limit, acc),
             out, IndexSeq)
IterBounded(mem, root, depth, limit) ==
    IF root = None \/ limit = 0 THEN <<>>
    ELSE IterBoundedRecursive(mem, root, 0, depth, limit, <<>>)

RECURSIVE AnyRecursive(_, _, _)
AnyRecursive(mem, page, level) ==
    \E i \in Children(mem, page) : level = 0 \/ AnyRecursive(mem, mem[page].slot[i], level - 1)
AnyPresent(mem, root, depth) == root # None /\ AnyRecursive(mem, root, depth)

\* Corrupt stands for CorruptPage.
RECURSIVE SpineDepth(_, _, _)
SpineDepth(mem, page, depth) ==
    IF mem[page].type # "MembershipInterior" THEN depth
    ELSE IF depth + 1 > MaxDepth THEN Corrupt
    ELSE IF mem[page].slot[0] = None THEN depth + 1
    ELSE SpineDepth(mem, mem[page].slot[0], depth + 1)
RecoverDepth(mem, root) == IF root = None THEN 0 ELSE SpineDepth(mem, root, 0)

RECURSIVE PagesAt(_, _, _)
PagesAt(mem, page, level) ==
    {page} \cup IF level = 0 THEN {}
                ELSE UNION {PagesAt(mem, mem[page].slot[i], level - 1) : i \in Children(mem, page)}
Pages(mem, root, depth) == IF root = None THEN {} ELSE PagesAt(mem, root, depth)
=============================================================================

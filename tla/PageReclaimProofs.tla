------------------------- MODULE PageReclaimProofs -------------------------
(***************************************************************************)
(* Machine-checked proofs about PageReclaim, for every number of pages,    *)
(* savepoints and superblock slots and every shape of the freemap: every   *)
(* page has one owner, no page of a snapshot that can be restored is on    *)
(* offer or edited in place, nothing free lies below the hint, and a       *)
(* lineage in which no operation failed half way loses no page.            *)
(***************************************************************************)
EXTENDS PageReclaim, TLAPS

-----------------------------------------------------------------------------
(* The inductive invariant.                                                *)

Apart(A, B) == \A p \in A : p \notin B

\* The pages the transaction packs values into: those its roots name, and one
\* that a failed operation may have left started.
ValuePages == cur.value \cup ({cursor} \ {None})
Tree == TreePages(cur.fm)
TxnFrees == IF committing THEN {} ELSE txnFreed \cup SavepointFrees(sps)
\* What the savepoints a to b of s had freed, and the first i of the open ones.
FreedIn(s, a, b) == UNION {s[j].freed : j \in a..b}
FreesTo(i) == FreedIn(sps, 1, i)
Sole(fm) == \A m, n \in Nodes : fm[m] # None /\ fm[m] = fm[n] => m = n

\* Between transactions nothing is under way; savepoints suspend the pool, the
\* packing cursor and every descent into the freemap.
ControlInv ==
    /\ committing => active /\ cand = {} /\ recyclable = {}
    /\ ~active => /\ cur = committed /\ sps = <<>> /\ txnFreed = {} /\ cursor = None
                  /\ cand = {} /\ recyclable = {} /\ walk = "none" /\ work = {}
                  /\ reuse = {} /\ superseded = {} /\ session = {}
                  /\ typed = diskTyped
    /\ sps # <<>> => recyclable = {} /\ cursor = None
    /\ sps # <<>> /\ ~committing => walk = "none" /\ work = {}
    /\ walk = "clear" => ~committing /\ target \in cur.free
    /\ walk = "mark" => target \in work

\* One owner for every page, in all the places a page can be.
OwnersInv ==
    /\ Apart(cur.radix, ValuePages \cup Tree \cup cand \cup recyclable \cup TxnFrees
                          \cup work \cup reuse \cup superseded \cup cur.free)
    /\ Apart(ValuePages, Tree \cup cand \cup recyclable \cup TxnFrees
                           \cup work \cup reuse \cup superseded \cup cur.free)
    /\ Apart(Tree, cand \cup recyclable \cup TxnFrees
                     \cup work \cup reuse \cup superseded \cup cur.free)
    /\ Apart(cand, recyclable \cup TxnFrees \cup work \cup reuse \cup superseded
                     \cup cur.free)
    /\ Apart(recyclable, TxnFrees \cup work \cup reuse \cup superseded \cup cur.free)
    /\ Apart(TxnFrees, work \cup reuse \cup superseded \cup cur.free)
    /\ Apart(work, reuse \cup superseded \cup cur.free)
    /\ Apart(reuse, superseded \cup cur.free)
    /\ Apart(superseded, cur.free)
    /\ Sole(cur.fm)

Owned == cur.radix \cup ValuePages \cup Tree \cup cand \cup recyclable \cup TxnFrees
           \cup work \cup reuse \cup superseded \cup cur.free
Kept == PagesOf(committed) \cup committed.free \cup pending

\* Every page that has an owner was handed out, and what the last commit left
\* is inside the file it states.
BoundsInv ==
    /\ SuperblockCount <= next /\ SuperblockCount <= committed.total
    /\ Owned \cup Kept \subseteq Below(next)
    /\ Kept \subseteq Below(committed.total)

\* The committed snapshot is its own owner, and what this transaction may take
\* or edit is apart from it.
CommittedInv ==
    /\ Apart(committed.radix, committed.value \cup TreePages(committed.fm)
                                \cup committed.free \cup pending)
    /\ Apart(committed.value, TreePages(committed.fm) \cup committed.free \cup pending)
    /\ Apart(TreePages(committed.fm), committed.free \cup pending)
    /\ Apart(committed.free, pending)
    /\ Sole(committed.fm)
    /\ recyclable \cup ({cursor} \ {None}) \subseteq allocated
    /\ reuse \subseteq pending
    /\ Apart(PagesOf(committed), allocated \cup cand \cup session)
    /\ Apart(pending, allocated)
    /\ ~committing => Apart(PagesOf(committed) \cup pending, cur.free \cup work)
    /\ TreePages(committed.fm) \subseteq Tree \cup superseded

\* An open savepoint shares the freemap with the current roots; its pages are
\* apart from what can be handed out, and below its watermark.
SavepointInv(i) ==
    LET r == sps[i].roots
        w == sps[i].watermark
    IN  /\ r.fm = cur.fm /\ r.free = cur.free /\ r.orphans = cur.orphans
        /\ sps[i].freemap = savepoint_mark
        /\ Apart(r.radix, r.value \cup Tree \cup FreesTo(i) \cup reuse \cup superseded
                            \cup cur.free)
        /\ Apart(r.value, Tree \cup FreesTo(i) \cup reuse \cup superseded \cup cur.free)
        /\ Apart(typed, r.radix \cup r.value)
        /\ r.radix \cup r.value \cup FreesTo(i) \cup Tree \cup reuse \cup superseded
             \cup cur.free \cup Kept \subseteq Below(w)
        /\ SuperblockCount <= w /\ w <= next
        /\ \A j \in 1..i : sps[j].watermark <= w
SavepointsInv == ~committing => \A i \in 1..Len(sps) : SavepointInv(i)

\* What reads as a freemap page holds neither keys nor values.
TypedInv ==
    /\ Apart(typed, cur.radix \cup ValuePages \cup cand \cup recyclable \cup TxnFrees
                      \cup committed.radix \cup committed.value)
    /\ Tree \cup superseded \cup reuse \subseteq typed
    /\ Apart(diskTyped, committed.radix \cup committed.value)
    /\ TreePages(committed.fm) \subseteq diskTyped
    /\ ~committing => pending \subseteq diskTyped

HintInv ==
    /\ \A id \in cur.free : hint <= id /\ (walk = "clear" => target <= id)
    /\ active => \A id \in committed.free : hintAtBegin <= id

\* The forgotten freemap pages of the current lineage still read as such and
\* belong to nobody, and so do the pages waiting for structural reuse.
Forgotten ==
    /\ cur.orphans \subseteq typed \cap Below(next)
    /\ Apart(cur.orphans, Tree \cup reuse \cup superseded \cup cur.free \cup pending)
    /\ committing => Apart(cur.orphans, work)
    /\ committing => cur.orphans \cup pending \subseteq diskTyped
    /\ pending \subseteq typed

\* In a lineage without half-done operations every page is accounted for: in
\* the current roots, in the committed ones, and in every open savepoint.
CurrentLossless ==
    cur.lossless =>
       /\ committed.lossless /\ fileLen <= next /\ Forgotten
       /\ PageIds \cap Below(next) \subseteq
             PagesOf(cur) \cup cur.free \cup cand \cup recyclable \cup Freed
               \cup reuse \cup superseded \cup cur.orphans
               \cup (IF active THEN {} ELSE pending)
CommittedLossless ==
    committed.lossless =>
       /\ committed.total <= next
       /\ PageIds \cap Below(committed.total) \subseteq Kept \cup committed.orphans
       /\ committed.orphans \subseteq Below(committed.total)
       /\ Apart(committed.orphans, Kept)
       /\ ~committing => committed.orphans \subseteq diskTyped
SavepointLossless(i) ==
    LET r == sps[i].roots
        w == sps[i].watermark
    IN  /\ committed.lossless => committed.total <= w
        /\ r.lossless =>
              /\ committed.lossless /\ Forgotten
              /\ cur.orphans \subseteq Below(w)
              /\ PageIds \cap Below(w) \subseteq
                    PagesOf(r) \cup r.free \cup FreesTo(i) \cup reuse
                      \cup superseded \cup r.orphans
LosslessInv ==
    /\ CurrentLossless /\ CommittedLossless
    /\ ~committing => \A i \in 1..Len(sps) : SavepointLossless(i)

ReclaimInv ==
    /\ TypeOK /\ ControlInv /\ OwnersInv /\ BoundsInv /\ CommittedInv
    /\ SavepointsInv /\ TypedInv /\ HintInv /\ LosslessInv

-----------------------------------------------------------------------------
(* Numbers, the nodes of the freemap, and the frees of savepoints.          *)

LEMMA NumbersAre ==
    /\ SuperblockCount \in Nat \ {0} /\ MaxPage \in Nat /\ None \notin PageIds
    /\ \A p \in PageIds : p \in Nat /\ SuperblockCount <= p /\ p < MaxPage
    /\ \A n \in 0..MaxPage : n \in Nat /\ n <= MaxPage
BY ReclaimAssumption DEF PageIds, None

LEMMA BelowIs ==
    ASSUME NEW a \in Nat
    PROVE  /\ \A p \in Below(a) : p \in Nat /\ p < a
           /\ \A p \in Nat : p < a => p \in Below(a)
BY DEF Below

LEMMA BelowGrows ==
    ASSUME NEW a \in Nat, NEW b \in Nat, a <= b
    PROVE  Below(a) \subseteq Below(b)
BY DEF Below

\* Some roots have lost a page.  Every step of the proofs below sees this fact:
\* a record update among its facts spares tlapm a slow inference of types.
LEMMA SomeLossy == \E r \in Roots : r = [EmptyRoots EXCEPT !.lossless = FALSE]
<1>1. EmptyRoots \in Roots
  BY ReclaimAssumption DEF EmptyRoots, Roots, NoTree
<1> QED
  BY ZenonT(30), <1>1 DEF Roots

USE SomeLossy

LEMMA MinOfTwo ==
    ASSUME NEW a \in Nat, NEW b \in Nat
    PROVE  Min({a, b}) = IF a <= b THEN a ELSE b
BY DEF Min

LEMMA MaxOfTwo ==
    ASSUME NEW a \in Nat, NEW b \in Nat
    PROVE  Max({a, b}) = IF a <= b THEN b ELSE a
BY DEF Max

\* The nodes that create and grow make, and those on the path to an id.
LEMMA NodesAre ==
    /\ \A k \in 0..MaxDepth : <<k, 0>> \in Nodes
    /\ \A k \in 0..MaxDepth, id \in PageIds : NodeAt(k, id) \in Nodes
<1>1. ASSUME NEW k \in 0..MaxDepth PROVE <<k, 0>> \in Nodes
  <2>1. Span(k) \in Nat \ {0}
    BY SpanAssumption
  <2>2. NodeAt(k, 0) = <<k, 0>>
    BY <2>1 DEF NodeAt
  <2> QED
    BY <2>2, ReclaimAssumption DEF Nodes
<1>2. ASSUME NEW k \in 0..MaxDepth, NEW id \in PageIds PROVE NodeAt(k, id) \in Nodes
  BY ReclaimAssumption DEF Nodes, PageIds
<1> QED
  BY <1>1, <1>2

\* What a savepoint, rollback_to and release do to the frees of savepoints.
LEMMA FreesOfNone == SavepointFrees(<<>>) = {}
BY DEF SavepointFrees

LEMMA FreesOfAppend ==
    ASSUME NEW s \in Seq(Savepoints), NEW x \in Savepoints
    PROVE  SavepointFrees(Append(s, x)) = SavepointFrees(s) \cup x.freed
<1>1. Len(Append(s, x)) = Len(s) + 1 /\ Append(s, x)[Len(s) + 1] = x
  OBVIOUS
<1>2. \A j \in 1..Len(s) : Append(s, x)[j] = s[j]
  OBVIOUS
<1>3. 1..(Len(s) + 1) = 1..Len(s) \cup {Len(s) + 1}
  OBVIOUS
<1> QED
  BY <1>1, <1>2, <1>3 DEF SavepointFrees

LEMMA FreesOfPrefix ==
    ASSUME NEW s \in Seq(Savepoints), NEW i \in 0..Len(s)
    PROVE  SavepointFrees(SubSeq(s, 1, i)) = FreedIn(s, 1, i)
<1>1. Len(SubSeq(s, 1, i)) = i /\ \A j \in 1..i : SubSeq(s, 1, i)[j] = s[j]
  OBVIOUS
<1> QED
  BY <1>1 DEF SavepointFrees, FreedIn

LEMMA FreesOfSuffix ==
    ASSUME NEW s \in Seq(Savepoints), NEW i \in 1..Len(s)
    PROVE  SavepointFrees(SubSeq(s, i, Len(s))) = FreedIn(s, i, Len(s))
<1> DEFINE t == SubSeq(s, i, Len(s))
<1>1. /\ Len(t) = Len(s) - i + 1
      /\ \A j \in 1..(Len(s) - i + 1) : t[j] = s[i + j - 1]
  OBVIOUS
<1>2. \A j \in i..Len(s) : j - i + 1 \in 1..(Len(s) - i + 1) /\ s[j] = t[j - i + 1]
  BY <1>1
<1>3. \A j \in 1..(Len(s) - i + 1) : i + j - 1 \in i..Len(s)
  OBVIOUS
<1>4. SavepointFrees(t) = UNION {t[j].freed : j \in 1..(Len(s) - i + 1)}
  BY <1>1 DEF SavepointFrees
<1> HIDE DEF t
<1>5. ASSUME NEW p, p \in UNION {t[j].freed : j \in 1..(Len(s) - i + 1)}
      PROVE  p \in UNION {s[j].freed : j \in i..Len(s)}
  BY ZenonT(30), <1>5, <1>1, <1>3
<1>6. ASSUME NEW p, p \in UNION {s[j].freed : j \in i..Len(s)}
      PROVE  p \in UNION {t[j].freed : j \in 1..(Len(s) - i + 1)}
  BY ZenonT(30), <1>6, <1>2
<1> QED
  BY ZenonT(30), <1>4, <1>5, <1>6 DEF t, FreedIn

LEMMA FreesSplit ==
    ASSUME NEW s \in Seq(Savepoints), NEW i \in 1..Len(s)
    PROVE  /\ SavepointFrees(s) = FreedIn(s, 1, i - 1) \cup FreedIn(s, i, Len(s))
           /\ FreedIn(s, 1, i) \subseteq SavepointFrees(s)
<1>1. 1..Len(s) = (1..(i - 1)) \cup (i..Len(s)) /\ 1..i \subseteq 1..Len(s)
  OBVIOUS
<1> QED
  BY <1>1 DEF SavepointFrees, FreedIn

-----------------------------------------------------------------------------
(* Parts of a step that leave parts of the invariant alone.                 *)

USE DEF rootVars, txnVars, poolVars, hintVars, streamVars, fileVars, opVars

\* What an open savepoint is a record of.
LEMMA SavepointIs ==
    ASSUME NEW s \in Seq(Savepoints), NEW i \in 1..Len(s)
    PROVE  /\ s[i] \in Savepoints /\ s[i].roots \in Roots /\ s[i].watermark \in Nat
           /\ s[i].freed \subseteq PageIds
<1>1. s[i] \in Savepoints
  OBVIOUS
<1> QED
  BY <1>1, ReclaimAssumption DEF Savepoints

\* With no savepoint open there is nothing to keep of one.
LEMMA NoSavepoints ==
    ASSUME sps' = <<>>
    PROVE  SavepointsInv' /\ \A i \in 1..Len(sps') : SavepointLossless(i)'
BY DEF SavepointsInv

\* A step that leaves the freemap alone keeps the open savepoints as they are.
LEMMA SavepointsKept ==
    ASSUME ReclaimInv, TypeOK',
           ~committing, ~committing', sps' = sps, next <= next',
           cur'.fm = cur.fm, cur'.free = cur.free, cur'.orphans = cur.orphans,
           UNCHANGED <<committed, reuse, superseded, pending, session>>,
           typed' \subseteq typed, \A p \in typed : p < next => p \in typed'
    PROVE  SavepointsInv' /\ \A i \in 1..Len(sps') : SavepointLossless(i)'
<1> SUFFICES ASSUME NEW i \in 1..Len(sps')
             PROVE  SavepointInv(i)' /\ SavepointLossless(i)'
  BY DEF SavepointsInv
<1>1. i \in 1..Len(sps) /\ SavepointInv(i) /\ SavepointLossless(i)
  BY DEF ReclaimInv, SavepointsInv, LosslessInv
<1>2. Tree' = Tree /\ FreesTo(i)' = FreesTo(i) /\ Kept' = Kept
  BY DEF Tree, FreesTo, Kept, TreePages, PagesOf
<1>3. /\ sps[i].watermark \in Nat /\ next \in Nat /\ next' \in Nat
      /\ sps[i].roots \in Roots
  BY SMTT(30), <1>1, SavepointIs, NumbersAre DEF ReclaimInv, TypeOK
<1>4. SavepointInv(i)'
  BY <1>1, <1>2, <1>3 DEF SavepointInv, Apart, savepoint_mark
<1>5. ASSUME sps[i].roots.lossless
      PROVE  Forgotten'
  <2>1. Forgotten /\ cur.orphans \subseteq Below(next) /\ pending \subseteq Below(next)
    BY <1>1, <1>5 DEF SavepointLossless, ReclaimInv, BoundsInv, Kept, Forgotten
  <2> QED
    BY <1>2, <1>3, <2>1 DEF Forgotten, Below, Apart
<1>6. SavepointLossless(i)'
  BY <1>1, <1>2, <1>5 DEF SavepointLossless, PagesOf, TreePages
<1> QED
  BY <1>4, <1>6

\* The committed roots, and what they need, are untouched by most steps.
LEMMA CommittedKept ==
    ASSUME ReclaimInv, TypeOK', UNCHANGED <<committed, pending>>,
           committed.total <= next => committed.total <= next',
           ~committing' => ~committing, diskTyped' = diskTyped
    PROVE  CommittedLossless'
<1>1. Kept' = Kept
  BY DEF Kept, PagesOf, TreePages
<1> QED
  BY <1>1 DEF ReclaimInv, LosslessInv, CommittedLossless

-----------------------------------------------------------------------------
(* One lemma for each action.                                               *)

LEMMA KeepsBegin ==
    ASSUME ReclaimInv, Begin
    PROVE  ReclaimInv'
<1>1. /\ cur' = cur /\ cur = committed /\ UNCHANGED <<sps, cand, work, walk, txnFreed, cursor>>
      /\ sps = <<>> /\ cand = {} /\ work = {} /\ walk = "none" /\ txnFreed = {} /\ cursor = None
      /\ recyclable' = {} /\ allocated' = {} /\ session' = {} /\ superseded' = {}
      /\ recyclable = {} /\ superseded = {} /\ reuse = {} /\ reuse' = pending
      /\ ~committing /\ active' = TRUE /\ ~active /\ hintAtBegin' = hint /\ typed = diskTyped
      /\ UNCHANGED <<committed, committing, pending, hint, next, fileLen, typed, diskTyped, target>>
  BY DEF Begin, ReclaimInv, ControlInv, FreemapBegin, PoolReset
<1>2. /\ Tree' = Tree /\ Tree = TreePages(committed.fm)
      /\ ValuePages' = committed.value /\ ValuePages = committed.value
      /\ TxnFrees' = {} /\ TxnFrees = {} /\ Kept' = Kept /\ Freed = {} /\ Freed' = {}
      /\ PagesOf(cur)' = PagesOf(cur) /\ PagesOf(committed)' = PagesOf(committed)
  BY <1>1, FreesOfNone DEF Tree, TreePages, ValuePages, TxnFrees, Kept, PagesOf, Freed
<1>3. TypeOK'
  BY <1>1 DEF ReclaimInv, TypeOK
<1>4. ControlInv'
  BY <1>1 DEF ControlInv
<1>5. OwnersInv'
  BY <1>1, <1>2 DEF ReclaimInv, OwnersInv, CommittedInv, Apart
<1>6. BoundsInv'
  BY <1>1, <1>2 DEF ReclaimInv, BoundsInv, Owned, Kept
<1>7. CommittedInv'
  BY <1>1, <1>2 DEF ReclaimInv, CommittedInv, Apart
<1>8. SavepointsInv' /\ \A i \in 1..Len(sps') : SavepointLossless(i)'
  BY <1>1, NoSavepoints
<1>9. TypedInv'
  BY <1>1, <1>2 DEF ReclaimInv, TypedInv, Apart
<1>10. HintInv'
  BY <1>1 DEF ReclaimInv, HintInv
<1>11. CommittedLossless'
  BY <1>1, <1>3, CommittedKept
<1>12. CurrentLossless'
  BY <1>1, <1>2 DEF ReclaimInv, LosslessInv, CurrentLossless, CommittedLossless, Forgotten, Apart
<1> QED
  BY <1>3, <1>4, <1>5, <1>6, <1>7, <1>8, <1>9, <1>10, <1>11, <1>12 DEF ReclaimInv, LosslessInv

LEMMA KeepsDrawPool ==
    ASSUME ReclaimInv, DrawPool
    PROVE  ReclaimInv'
<1>1. PICK id \in recyclable :
         /\ recyclable' = recyclable \ {id} /\ cand' = cand \cup {id}
         /\ allocated' = allocated \cup {id} /\ typed' = typed \ {id}
  BY DEF DrawPool, Take
<1>2. /\ sps = <<>> /\ active /\ ~committing /\ walk = "none" /\ work = {}
      /\ UNCHANGED <<committed, cur, active, committing, sps, txnFreed, cursor, hint, hintAtBegin,
                     reuse, superseded, pending, session, next, fileLen, diskTyped, walk,
                     target, work>>
  BY DEF DrawPool, InOperation, ReuseEnabled
<1>3. /\ Tree' = Tree /\ ValuePages' = ValuePages /\ TxnFrees' = TxnFrees /\ Kept' = Kept
      /\ PagesOf(committed)' = PagesOf(committed) /\ PagesOf(cur)' = PagesOf(cur) /\ Freed' = Freed
  BY <1>2 DEF Tree, TreePages, ValuePages, TxnFrees, Kept, PagesOf, Freed
<1>4. TypeOK'
  BY <1>1, <1>2 DEF ReclaimInv, TypeOK
<1>5. ControlInv'
  BY <1>1, <1>2 DEF ReclaimInv, ControlInv
<1>6. OwnersInv'
  BY <1>1, <1>2, <1>3 DEF ReclaimInv, OwnersInv, Apart
<1>7. BoundsInv'
  BY <1>1, <1>2, <1>3 DEF ReclaimInv, BoundsInv, Owned
<1>8. CommittedInv'
  BY <1>1, <1>2, <1>3 DEF ReclaimInv, CommittedInv, Apart
<1>9. SavepointsInv' /\ \A i \in 1..Len(sps') : SavepointLossless(i)'
  BY <1>2, NoSavepoints
<1>10. TypedInv'
  BY <1>1, <1>2, <1>3 DEF ReclaimInv, TypedInv, OwnersInv, Apart
<1>11. HintInv'
  BY <1>2 DEF ReclaimInv, HintInv
<1>12. CommittedLossless'
  BY <1>2, <1>4, CommittedKept
<1>13. CurrentLossless'
  BY <1>1, <1>2, <1>3 DEF ReclaimInv, LosslessInv, CurrentLossless, Forgotten, TypedInv, CommittedInv, Apart
<1> QED
  BY <1>4, <1>5, <1>6, <1>7, <1>8, <1>9, <1>10, <1>11, <1>12, <1>13 DEF ReclaimInv, LosslessInv

\* The next id belongs to nobody.
LEMMA NextIsNew ==
    ASSUME ReclaimInv
    PROVE  /\ next \in Nat /\ next \notin Owned \cup Kept
           /\ next < MaxPage => next \in PageIds
           /\ \A p \in Below(next + 1) : p \in Below(next) \/ p = next
           /\ Below(next) \subseteq Below(next + 1) /\ next \in Below(next + 1)
<1>1. next \in Nat /\ SuperblockCount \in Nat /\ SuperblockCount <= next
  BY NumbersAre DEF ReclaimInv, TypeOK, BoundsInv
<1>2. next \notin Below(next)
  BY <1>1 DEF Below
<1>3. next \notin Owned \cup Kept
  BY <1>2 DEF ReclaimInv, BoundsInv
<1> QED
  BY <1>1, <1>3, ReclaimAssumption DEF Below, PageIds

LEMMA KeepsExtend ==
    ASSUME ReclaimInv, ExtendFile \/ NewPage
    PROVE  ReclaimInv'
<1>1. /\ active /\ ~committing /\ walk = "none" /\ work = {}
      /\ next < MaxPage /\ next' = next + 1
      /\ cand' = cand \cup {next} /\ typed' = typed \ {next}
      /\ allocated' \in {allocated, allocated \cup {next}}
      /\ UNCHANGED <<committed, cur, active, committing, sps, txnFreed, cursor, recyclable, hint,
                     hintAtBegin, reuse, superseded, pending, session, fileLen, diskTyped, walk,
                     target, work>>
  BY ReclaimAssumption DEF ExtendFile, NewPage, Take, InOperation, ReclaimInv, TypeOK
<1>2. /\ Tree' = Tree /\ ValuePages' = ValuePages /\ TxnFrees' = TxnFrees /\ Kept' = Kept
      /\ PagesOf(committed)' = PagesOf(committed) /\ PagesOf(cur)' = PagesOf(cur) /\ Freed' = Freed
  BY <1>1 DEF Tree, TreePages, ValuePages, TxnFrees, Kept, PagesOf, Freed
<1>3. /\ next \in Nat /\ next \notin Owned \cup Kept /\ next \in PageIds
      /\ \A p \in Below(next') : p \in Below(next) \/ p = next
      /\ Below(next) \subseteq Below(next') /\ next \in Below(next')
  BY <1>1, NextIsNew
<1>4. TypeOK'
  BY SMTT(30), <1>1, <1>3, ReclaimAssumption DEF ReclaimInv, TypeOK
<1>5. ControlInv'
  BY <1>1 DEF ReclaimInv, ControlInv
<1>6. OwnersInv'
  BY <1>1, <1>2, <1>3 DEF ReclaimInv, OwnersInv, Apart, Owned
<1>7. BoundsInv'
  BY <1>1, <1>2, <1>3, ReclaimAssumption DEF ReclaimInv, BoundsInv, Owned
<1>8. CommittedInv'
  BY <1>1, <1>2, <1>3 DEF ReclaimInv, CommittedInv, Apart, Kept
<1>9. SavepointsInv' /\ \A i \in 1..Len(sps') : SavepointLossless(i)'
  <2>1. \A p \in typed : p < next => p \in typed'
    BY <1>1, <1>3
  <2>2. next <= next' /\ typed' \subseteq typed
    BY <1>1, <1>3
  <2> QED
    BY <1>1, <1>4, <2>1, <2>2, SavepointsKept
<1>10. TypedInv'
  BY <1>1, <1>2, <1>3 DEF ReclaimInv, TypedInv, Apart, Owned
<1>11. HintInv'
  BY <1>1 DEF ReclaimInv, HintInv
<1>12. CommittedLossless'
  <2>1. committed.total <= next => committed.total <= next'
    BY <1>1, <1>3, ReclaimAssumption DEF ReclaimInv, TypeOK, Roots
  <2> QED
    BY <1>1, <1>4, <2>1, CommittedKept
<1>13. CurrentLossless'
  <2> SUFFICES ASSUME cur.lossless PROVE CurrentLossless'
    BY <1>1 DEF CurrentLossless
  <2>1. Forgotten'
    <3>1. next \notin cur.orphans
      BY <1>3 DEF ReclaimInv, LosslessInv, CurrentLossless, Forgotten, Below
    <3> QED
      BY <1>1, <1>2, <1>3, <3>1 DEF ReclaimInv, LosslessInv, CurrentLossless, Forgotten, Kept, Apart
  <2>2. fileLen' <= next'
    BY <1>1, <1>3, ReclaimAssumption DEF ReclaimInv, LosslessInv, CurrentLossless, TypeOK
  <2> QED
    BY <1>1, <1>2, <1>3, <2>1, <2>2 DEF ReclaimInv, LosslessInv, CurrentLossless
<1> QED
  BY <1>4, <1>5, <1>6, <1>7, <1>8, <1>9, <1>10, <1>11, <1>12, <1>13 DEF ReclaimInv, LosslessInv

\* Steps that take nothing: a mark of the next id, and the sweep.
LEMMA KeepsStartMark ==
    ASSUME ReclaimInv, StartMark
    PROVE  ReclaimInv'
<1>1. /\ walk = "none" /\ walk' = "mark" /\ target' \in work /\ active /\ work # {}
      /\ ~committing => sps = <<>>
      /\ UNCHANGED <<committed, cur, active, committing, sps, txnFreed, cursor, allocated,
                     recyclable, hint, hintAtBegin, reuse, superseded, pending, session, next,
                     fileLen, typed, diskTyped, cand, work>>
  BY DEF StartMark, ReclaimInv, ControlInv
<1>2. /\ Tree' = Tree /\ ValuePages' = ValuePages /\ TxnFrees' = TxnFrees /\ Kept' = Kept
      /\ PagesOf(committed)' = PagesOf(committed) /\ PagesOf(cur)' = PagesOf(cur) /\ Freed' = Freed
  BY <1>1 DEF Tree, TreePages, ValuePages, TxnFrees, Kept, PagesOf, Freed
<1>4. TypeOK'
  BY <1>1 DEF ReclaimInv, TypeOK
<1>5. ControlInv'
  BY <1>1 DEF ReclaimInv, ControlInv
<1>6. OwnersInv'
  BY <1>1, <1>2 DEF ReclaimInv, OwnersInv
<1>7. BoundsInv'
  BY <1>1, <1>2 DEF ReclaimInv, BoundsInv, Owned
<1>8. CommittedInv'
  BY <1>1, <1>2 DEF ReclaimInv, CommittedInv
<1>9. SavepointsInv' /\ (~committing' => \A i \in 1..Len(sps') : SavepointLossless(i)')
  BY <1>1, NoSavepoints DEF SavepointsInv
<1>10. TypedInv'
  BY <1>1, <1>2 DEF ReclaimInv, TypedInv
<1>11. HintInv'
  BY <1>1 DEF ReclaimInv, HintInv
<1>12. CommittedLossless'
  BY <1>1, <1>4, CommittedKept
<1>13. CurrentLossless'
  BY <1>1, <1>2 DEF ReclaimInv, LosslessInv, CurrentLossless, Forgotten
<1> QED
  BY <1>4, <1>5, <1>6, <1>7, <1>8, <1>9, <1>10, <1>11, <1>12, <1>13 DEF ReclaimInv, LosslessInv

LEMMA KeepsSweep ==
    ASSUME ReclaimInv, Sweep
    PROVE  ReclaimInv'
<1>1. /\ active /\ ~committing /\ walk = "none" /\ work = {} /\ cand = {} /\ sps = <<>>
      /\ work' = Orphans
      /\ UNCHANGED <<committed, cur, active, committing, sps, txnFreed, cursor, allocated,
                     recyclable, hint, hintAtBegin, reuse, superseded, pending, session, next,
                     fileLen, typed, diskTyped, cand, walk, target>>
  BY DEF Sweep, Ready, InOperation
<1>2. /\ Tree' = Tree /\ ValuePages' = ValuePages /\ TxnFrees' = TxnFrees /\ Kept' = Kept
      /\ PagesOf(committed)' = PagesOf(committed) /\ PagesOf(cur)' = PagesOf(cur) /\ Freed' = Freed
  BY <1>1 DEF Tree, TreePages, ValuePages, TxnFrees, Kept, PagesOf, Freed
<1>3. /\ Orphans \subseteq typed /\ Orphans \subseteq PageIds /\ Orphans \subseteq Below(next)
      /\ Apart(Orphans, Tree \cup cur.free \cup reuse \cup superseded \cup pending)
      /\ Apart(Orphans, cur.radix \cup ValuePages \cup recyclable \cup TxnFrees)
      /\ Apart(Orphans, PagesOf(committed))
  <2>1. /\ Orphans \subseteq typed /\ Orphans \subseteq PageIds
        /\ \A p \in Orphans : p < next
        /\ Apart(Orphans, Tree \cup cur.free \cup reuse \cup superseded \cup pending)
    BY DEF Orphans, Apart, Tree, is_free
  <2>2. Orphans \subseteq Below(next)
    <3>1. next \in Nat
      BY NumbersAre DEF ReclaimInv, TypeOK
    <3> QED
      BY <2>1, <3>1, NumbersAre, BelowIs
  <2> QED
    BY <2>1, <2>2 DEF ReclaimInv, TypedInv, CommittedInv, PagesOf, Apart
<1>4. TypeOK'
  BY <1>1, <1>3 DEF ReclaimInv, TypeOK
<1>5. ControlInv'
  BY <1>1 DEF ReclaimInv, ControlInv
<1>6. OwnersInv'
  BY <1>1, <1>2, <1>3 DEF ReclaimInv, OwnersInv, Apart
<1>7. BoundsInv'
  BY <1>1, <1>2, <1>3 DEF ReclaimInv, BoundsInv, Owned
<1>8. CommittedInv'
  BY <1>1, <1>2, <1>3 DEF ReclaimInv, CommittedInv, Apart
<1>9. SavepointsInv' /\ \A i \in 1..Len(sps') : SavepointLossless(i)'
  BY <1>1, NoSavepoints
<1>10. TypedInv'
  BY <1>1, <1>2 DEF ReclaimInv, TypedInv
<1>11. HintInv'
  BY <1>1 DEF ReclaimInv, HintInv
<1>12. CommittedLossless'
  BY <1>1, <1>4, CommittedKept
<1>13. CurrentLossless'
  BY <1>1, <1>2 DEF ReclaimInv, LosslessInv, CurrentLossless, Forgotten
<1> QED
  BY <1>4, <1>5, <1>6, <1>7, <1>8, <1>9, <1>10, <1>11, <1>12, <1>13 DEF ReclaimInv, LosslessInv

LEMMA KeepsClearBit ==
    ASSUME ReclaimInv, ClearBit
    PROVE  ReclaimInv'
<1>1. /\ walk = "clear" /\ active /\ ~committing /\ target \in cur.free /\ sps = <<>>
      /\ cur' = [cur EXCEPT !.free = @ \ {target}] /\ hint' = target
      /\ cand' = cand \cup {target} /\ allocated' = allocated \cup {target}
      /\ typed' = typed \ {target} /\ walk' = "none" /\ target' = None
      /\ UNCHANGED <<committed, active, committing, sps, txnFreed, cursor, recyclable,
                     hintAtBegin, reuse, superseded, pending, session, next, fileLen, diskTyped,
                     work>>
  BY DEF ClearBit, Take, clear_bit, ReclaimInv, ControlInv
<1>2. /\ cur \in Roots /\ cur'.radix = cur.radix /\ cur'.value = cur.value /\ cur'.fm = cur.fm
      /\ cur'.free = cur.free \ {target} /\ cur'.total = cur.total
      /\ cur'.lossless = cur.lossless /\ cur'.orphans = cur.orphans
  BY <1>1 DEF ReclaimInv, TypeOK, Roots
<1>3. /\ Tree' = Tree /\ ValuePages' = ValuePages /\ TxnFrees' = TxnFrees /\ Kept' = Kept
      /\ PagesOf(committed)' = PagesOf(committed) /\ PagesOf(cur)' = PagesOf(cur) /\ Freed' = Freed
  BY <1>1, <1>2 DEF Tree, TreePages, ValuePages, TxnFrees, Kept, PagesOf, Freed
<1>4. TypeOK'
  <2>1. cur' \in Roots /\ target \in PageIds
    BY <1>1, <1>2 DEF Roots
  <2>2. target \in 0..MaxPage
    BY <2>1, ReclaimAssumption DEF PageIds
  <2> QED
    BY <1>1, <2>1, <2>2 DEF ReclaimInv, TypeOK
<1>5. ControlInv'
  BY <1>1, <1>2 DEF ReclaimInv, ControlInv
<1>6. OwnersInv'
  BY <1>1, <1>2, <1>3 DEF ReclaimInv, OwnersInv, Apart
<1>7. BoundsInv'
  BY <1>1, <1>2, <1>3 DEF ReclaimInv, BoundsInv, Owned
<1>8. CommittedInv'
  BY <1>1, <1>2, <1>3 DEF ReclaimInv, CommittedInv, Apart
<1>9. SavepointsInv' /\ \A i \in 1..Len(sps') : SavepointLossless(i)'
  BY <1>1, NoSavepoints
<1>10. TypedInv'
  BY <1>1, <1>2, <1>3 DEF ReclaimInv, TypedInv, OwnersInv, Apart
<1>11. HintInv'
  BY <1>1, <1>2 DEF ReclaimInv, HintInv
<1>12. CommittedLossless'
  BY <1>1, <1>4, CommittedKept
<1>13. CurrentLossless'
  BY <1>1, <1>2, <1>3 DEF ReclaimInv, LosslessInv, CurrentLossless, Forgotten, CommittedInv, Apart
<1> QED
  BY <1>4, <1>5, <1>6, <1>7, <1>8, <1>9, <1>10, <1>11, <1>12, <1>13 DEF ReclaimInv, LosslessInv

LEMMA KeepsMarkBit ==
    ASSUME ReclaimInv, MarkBit
    PROVE  ReclaimInv'
<1>1. /\ walk = "mark" /\ active /\ target \in work
      /\ ~committing => sps = <<>>
      /\ cur' = [cur EXCEPT !.free = @ \cup {target}, !.orphans = @ \ {target}]
      /\ hint' = Min({hint, target}) /\ work' = work \ {target}
      /\ walk' = "none" /\ target' = None
      /\ UNCHANGED <<committed, active, committing, sps, txnFreed, cursor, allocated, recyclable,
                     hintAtBegin, reuse, superseded, pending, session, next, fileLen, typed,
                     diskTyped, cand>>
  BY DEF MarkBit, mark_free, ReclaimInv, ControlInv
<1>2. /\ cur \in Roots /\ cur'.radix = cur.radix /\ cur'.value = cur.value /\ cur'.fm = cur.fm
      /\ cur'.free = cur.free \cup {target} /\ cur'.total = cur.total
      /\ cur'.lossless = cur.lossless /\ cur'.orphans = cur.orphans \ {target}
  BY <1>1 DEF ReclaimInv, TypeOK, Roots
<1>3. /\ Tree' = Tree /\ ValuePages' = ValuePages /\ TxnFrees' = TxnFrees /\ Kept' = Kept
      /\ PagesOf(committed)' = PagesOf(committed) /\ PagesOf(cur)' = PagesOf(cur)
      /\ Freed \subseteq Freed' \cup {target}
  BY <1>1, <1>2 DEF Tree, TreePages, ValuePages, TxnFrees, Kept, PagesOf, Freed
<1>4. target \in PageIds /\ hint' \in 0..MaxPage /\ hint' <= hint /\ hint' <= target
  <2>1. target \in PageIds /\ hint \in 0..MaxPage
    BY <1>1 DEF ReclaimInv, TypeOK
  <2>2. target \in 0..MaxPage /\ target \in Nat /\ hint \in Nat
    BY <2>1, ReclaimAssumption DEF PageIds
  <2>3. hint' = IF hint <= target THEN hint ELSE target
    BY <1>1, <2>2, MinOfTwo
  <2> QED
    BY <2>1, <2>2, <2>3
<1>5. TypeOK'
  <2>1. cur' \in Roots
    BY ZenonT(30), <1>1, <1>2, <1>4 DEF Roots
  <2> QED
    BY <1>1, <1>4, <2>1 DEF ReclaimInv, TypeOK
<1>6. ControlInv'
  BY <1>1, <1>2 DEF ReclaimInv, ControlInv
<1>7. OwnersInv'
  BY <1>1, <1>2, <1>3 DEF ReclaimInv, OwnersInv, Apart
<1>8. BoundsInv'
  BY <1>1, <1>2, <1>3 DEF ReclaimInv, BoundsInv, Owned
<1>9. CommittedInv'
  BY <1>1, <1>2, <1>3 DEF ReclaimInv, CommittedInv, Apart
<1>10. SavepointsInv' /\ (~committing' => \A i \in 1..Len(sps') : SavepointLossless(i)')
  BY <1>1, NoSavepoints DEF SavepointsInv
<1>11. TypedInv'
  BY <1>1, <1>2, <1>3 DEF ReclaimInv, TypedInv, Apart
<1>12. HintInv'
  <2>1. \A id \in cur.free : id \in Nat
    BY <1>2, ReclaimAssumption DEF Roots, PageIds
  <2>2. hint \in Nat /\ hint' \in Nat
    BY <1>4, ReclaimAssumption DEF ReclaimInv, TypeOK
  <2> QED
    BY <1>1, <1>2, <1>4, <2>1, <2>2 DEF ReclaimInv, HintInv
<1>13. CommittedLossless'
  BY <1>1, <1>5, CommittedKept
<1>14. CurrentLossless'
  BY <1>1, <1>2, <1>3 DEF ReclaimInv, LosslessInv, CurrentLossless, Forgotten, CommittedInv,
     TypedInv, OwnersInv, Apart
<1> QED
  BY <1>5, <1>6, <1>7, <1>8, <1>9, <1>10, <1>11, <1>12, <1>13, <1>14 DEF ReclaimInv, LosslessInv

LEMMA KeepsInstall ==
    ASSUME ReclaimInv, Install
    PROVE  ReclaimInv'
<1>1. PICK R \in SUBSET (cur.radix \cup cand), V \in SUBSET cur.value,
           W \in SUBSET (cand \cup ({cursor} \ {None})) :
         /\ W \cap (R \cup V) = {}
         /\ cur' = [cur EXCEPT !.radix = (@ \cup (cand \ W)) \ R, !.value = (@ \cup W) \ V]
         /\ recyclable' = recyclable \cup ToPool(R)
         /\ txnFreed' = txnFreed \cup V \cup (R \ ToPool(R))
         /\ cursor' \in PackedInto(W \cap cand) \cup {IF cursor \in V THEN None ELSE cursor}
  BY ZenonT(30) DEF Install
<1> DEFINE P == ToPool(R)
<1>2. /\ active /\ ~committing /\ walk = "none" /\ work = {} /\ cand' = {}
      /\ UNCHANGED <<committed, active, committing, sps, allocated, hint, hintAtBegin, reuse,
                     superseded, pending, session, next, fileLen, typed, diskTyped, walk, target,
                     work>>
  BY DEF Install, InOperation
<1>3. /\ cur \in Roots /\ cur'.fm = cur.fm /\ cur'.free = cur.free /\ cur'.total = cur.total
      /\ cur'.lossless = cur.lossless /\ cur'.orphans = cur.orphans
      /\ cur'.radix = (cur.radix \cup (cand \ W)) \ R /\ cur'.value = (cur.value \cup W) \ V
  BY <1>1 DEF ReclaimInv, TypeOK, Roots
<1>4. /\ P \subseteq R /\ P \subseteq allocated /\ (sps # <<>> => P = {})
      /\ sps # <<>> => cursor' = None
      /\ cursor' # None => cursor' \in allocated
      /\ cursor' # None => (cursor' = cursor /\ cursor \notin V) \/ cursor' \in W \cap cand
  <2>1. CASE sps = <<>>
    BY <1>1, <2>1 DEF ToPool, PackedInto, ReuseEnabled, ReclaimInv, CommittedInv
  <2>2. CASE sps # <<>>
    BY <1>1, <2>2 DEF ToPool, PackedInto, ReuseEnabled, ReclaimInv, ControlInv
  <2> QED
    BY <2>1, <2>2
<1>5. /\ recyclable' = recyclable \cup P /\ txnFreed' = txnFreed \cup V \cup (R \ P)
  BY <1>1
<1> HIDE DEF P
<1>6. /\ Tree' = Tree /\ Kept' = Kept /\ PagesOf(committed)' = PagesOf(committed)
      /\ V \subseteq ValuePages /\ W \subseteq cand \cup ValuePages
      /\ \A p \in ValuePages' : p \notin V /\ (p \in ValuePages \/ p \in W \cap cand)
  BY <1>1, <1>2, <1>3, <1>4 DEF Tree, TreePages, Kept, PagesOf, ValuePages
<1>7. TxnFrees' = TxnFrees \cup V \cup (R \ P)
  BY <1>2, <1>5 DEF TxnFrees
<1>8. TypeOK'
  <2>1. cur' \in Roots
    BY ZenonT(30), <1>1, <1>3 DEF ReclaimInv, TypeOK, Roots
  <2>2. txnFreed' \subseteq PageIds /\ recyclable' \subseteq PageIds
    BY <1>1, <1>3, <1>4, <1>5 DEF ReclaimInv, TypeOK, Roots
  <2>3. cursor' \in PageIds \cup {None}
    BY <1>4 DEF ReclaimInv, TypeOK
  <2> QED
    BY <1>2, <2>1, <2>2, <2>3 DEF ReclaimInv, TypeOK
<1>9. ControlInv'
  BY <1>2, <1>4, <1>5 DEF ReclaimInv, ControlInv
<1>10. OwnersInv'
  BY <1>1, <1>2, <1>3, <1>4, <1>5, <1>6, <1>7 DEF ReclaimInv, OwnersInv, Apart
<1>11. BoundsInv'
  <2>1. Owned' \subseteq Owned
    BY <1>1, <1>2, <1>3, <1>4, <1>5, <1>6, <1>7 DEF Owned
  <2> QED
    BY <1>2, <1>6, <2>1 DEF ReclaimInv, BoundsInv
<1>12. CommittedInv'
  BY <1>2, <1>3, <1>4, <1>5, <1>6 DEF ReclaimInv, CommittedInv, Apart
<1>13. SavepointsInv' /\ \A i \in 1..Len(sps') : SavepointLossless(i)'
  <2>1. next <= next'
    BY <1>2, ReclaimAssumption DEF ReclaimInv, TypeOK
  <2> QED
    BY <1>2, <1>3, <1>8, <2>1, SavepointsKept
<1>14. TypedInv'
  BY <1>1, <1>2, <1>3, <1>4, <1>5, <1>6, <1>7 DEF ReclaimInv, TypedInv, Apart
<1>15. HintInv'
  BY <1>2, <1>3 DEF ReclaimInv, HintInv
<1>16. CommittedLossless'
  BY <1>2, <1>8, CommittedKept
<1>17. CurrentLossless'
  <2> SUFFICES ASSUME cur.lossless PROVE CurrentLossless'
    BY <1>3 DEF CurrentLossless
  <2>1. committed.lossless /\ fileLen <= next /\ Forgotten /\ Forgotten'
    BY <1>2, <1>3, <1>6 DEF ReclaimInv, LosslessInv, CurrentLossless, Forgotten
  <2>2. /\ Freed = TxnFrees /\ Freed' = TxnFrees'
        /\ PagesOf(cur) = cur.radix \cup cur.value \cup Tree
        /\ PagesOf(cur)' = cur'.radix \cup cur'.value \cup Tree'
    BY <1>2 DEF Freed, TxnFrees, PagesOf, Tree
  <2>3. PagesOf(cur) \cup cand \cup recyclable \cup Freed
          \subseteq PagesOf(cur)' \cup recyclable' \cup Freed'
    BY <1>1, <1>3, <1>5, <1>6, <1>7, <2>2
  <2> QED
    BY <1>2, <1>3, <2>1, <2>3 DEF ReclaimInv, LosslessInv, CurrentLossless
<1> QED
  BY <1>8, <1>9, <1>10, <1>11, <1>12, <1>13, <1>14, <1>15, <1>16, <1>17 DEF ReclaimInv, LosslessInv

\* An operation that fails: what it had taken is freed or out of reach, and so
\* are the pages lost in the failing call.
LEMMA KeepsGiveUp ==
    ASSUME ReclaimInv, active, ~committing, NEW r, NEW lost, GiveUp(r, lost),
           r = cur \/ (r = clear_bit(cur, target) /\ sps = <<>>),
           reuse' = reuse \ lost, typed' = typed \ lost, Apart(lost, Tree \cup superseded),
           next' \in 0..MaxPage, next <= next', lost = {} => next' = next /\ r = cur,
           hint' \in 0..MaxPage, \A id \in r.free : hint' <= id,
           sps # <<>> => reuse' = reuse /\ \A p \in lost : ~(p < next)
    PROVE  ReclaimInv'
<1>1. PICK S \in SUBSET cand :
         /\ txnFreed' = txnFreed \cup S
         /\ cur' = [r EXCEPT !.lossless = @ /\ cand \subseteq S /\ lost = {}]
         /\ cursor' \in {cursor, None} \cup PackedInto(cand \ S)
  BY ZenonT(30) DEF GiveUp
<1>2. /\ cand' = {} /\ work' = {} /\ walk' = "none" /\ target' = None
      /\ UNCHANGED <<committed, active, committing, sps, allocated, recyclable, hintAtBegin,
                     pending, session, superseded, fileLen, diskTyped>>
  BY DEF GiveUp
<1>3. cur \in Roots /\ r \in Roots
  BY SMTT(30) DEF ReclaimInv, TypeOK, Roots, clear_bit
<1>4. /\ r.radix = cur.radix /\ r.value = cur.value /\ r.fm = cur.fm /\ r.free \subseteq cur.free
      /\ r.lossless = cur.lossless /\ r.orphans = cur.orphans
      /\ sps # <<>> \/ lost = {} => r.free = cur.free
  BY <1>3 DEF Roots, clear_bit
<1>5. /\ cur'.radix = cur.radix /\ cur'.value = cur.value /\ cur'.fm = cur.fm
      /\ cur'.free = r.free /\ cur'.orphans = cur.orphans
      /\ cur'.lossless => cur.lossless /\ cand \subseteq S /\ lost = {}
      /\ cur' \in Roots
  BY <1>1, <1>3, <1>4 DEF Roots
<1>6. /\ sps # <<>> => cursor' = None
      /\ cursor' # None => cursor' \in allocated /\ (cursor' = cursor \/ cursor' \in cand \ S)
  BY <1>1 DEF PackedInto, ReuseEnabled, ReclaimInv, ControlInv, CommittedInv
<1>7. /\ Tree' = Tree /\ Kept' = Kept /\ PagesOf(committed)' = PagesOf(committed)
      /\ PagesOf(cur)' = PagesOf(cur)
      /\ \A p \in ValuePages' : p \in ValuePages \/ p \in cand \ S
      /\ TxnFrees' = TxnFrees \cup S /\ Freed' = Freed \cup S
  BY <1>1, <1>2, <1>5, <1>6 DEF Tree, TreePages, Kept, PagesOf, ValuePages, TxnFrees, Freed
<1>8. TypeOK'
  <2>1. cursor' \in PageIds \cup {None} /\ txnFreed' \subseteq PageIds
    BY <1>1, <1>6 DEF ReclaimInv, TypeOK
  <2> QED
    BY <1>2, <1>5, <2>1 DEF ReclaimInv, TypeOK
<1>9. ControlInv'
  BY <1>2, <1>6 DEF ReclaimInv, ControlInv
<1>10. OwnersInv'
  BY <1>2, <1>4, <1>5, <1>7 DEF ReclaimInv, OwnersInv, Apart
<1>11. BoundsInv'
  <2>1. Owned' \subseteq Owned
    BY <1>2, <1>4, <1>5, <1>7 DEF Owned
  <2>2. /\ next \in Nat /\ next' \in Nat /\ SuperblockCount \in Nat
        /\ SuperblockCount <= next
    BY NumbersAre DEF ReclaimInv, TypeOK, BoundsInv
  <2>3. Below(next) \subseteq Below(next') /\ SuperblockCount <= next'
    BY <2>2 DEF Below
  <2> QED
    BY <1>2, <1>7, <2>1, <2>3 DEF ReclaimInv, BoundsInv
<1>12. CommittedInv'
  BY <1>2, <1>4, <1>5, <1>6, <1>7 DEF ReclaimInv, CommittedInv, Apart
<1>13. SavepointsInv' /\ \A i \in 1..Len(sps') : SavepointLossless(i)'
  <2>1. CASE sps = <<>>
    BY <1>2, <2>1, NoSavepoints
  <2>2. CASE sps # <<>>
    BY <1>2, <1>4, <1>5, <1>8, <2>2, SavepointsKept
  <2> QED
    BY <2>1, <2>2
<1>14. TypedInv'
  BY <1>2, <1>5, <1>7 DEF ReclaimInv, TypedInv, Apart
<1>15. HintInv'
  BY <1>2, <1>5 DEF ReclaimInv, HintInv
<1>16. CommittedLossless'
  <2>1. committed.total <= next => committed.total <= next'
    BY SMTT(30), ReclaimAssumption DEF ReclaimInv, TypeOK, Roots
  <2> QED
    BY <1>2, <1>8, <2>1, CommittedKept
<1>17. CurrentLossless'
  <2> SUFFICES ASSUME cur'.lossless PROVE CurrentLossless'
    BY DEF CurrentLossless
  <2>1. cur.lossless /\ cand \subseteq S /\ lost = {} /\ next' = next /\ cur'.free = cur.free
    BY <1>4, <1>5
  <2>2. reuse' = reuse /\ typed' = typed
    BY <2>1
  <2>3. committed.lossless /\ fileLen <= next /\ Forgotten
    BY <2>1 DEF ReclaimInv, LosslessInv, CurrentLossless
  <2>4. Forgotten'
    BY <1>2, <1>5, <1>7, <2>1, <2>2, <2>3 DEF Forgotten
  <2> QED
    BY <1>2, <1>5, <1>7, <2>1, <2>2, <2>3, <2>4 DEF ReclaimInv, LosslessInv, CurrentLossless
<1> QED
  BY <1>8, <1>9, <1>10, <1>11, <1>12, <1>13, <1>14, <1>15, <1>16, <1>17 DEF ReclaimInv, LosslessInv

LEMMA KeepsOperationFails ==
    ASSUME ReclaimInv, OperationFails
    PROVE  ReclaimInv'
<1>1. /\ active /\ ~committing /\ GiveUp(cur, {})
      /\ hint' = hint /\ reuse' = reuse \ {} /\ next' = next /\ typed' = typed \ {}
  BY DEF OperationFails, InOperation
<1>2. /\ next' \in 0..MaxPage /\ next <= next' /\ hint' \in 0..MaxPage
      /\ \A id \in cur.free : hint' <= id
  BY <1>1, ReclaimAssumption DEF ReclaimInv, TypeOK, HintInv
<1>3. Apart({}, Tree \cup superseded)
  BY DEF Apart
<1> QED
  BY ZenonT(30), <1>1, <1>2, <1>3, KeepsGiveUp

LEMMA KeepsExtendFails ==
    ASSUME ReclaimInv, ExtendFails
    PROVE  ReclaimInv'
<1>1. /\ active /\ ~committing /\ GiveUp(cur, {next}) /\ next < OpPages
      /\ hint' = hint /\ reuse' = reuse /\ next' = next + 1 /\ typed' = typed \ {next}
  BY DEF ExtendFails, InOperation
<1>2. /\ next' \in 0..MaxPage /\ next <= next' /\ hint' \in 0..MaxPage /\ ~(next < next)
      /\ \A id \in cur.free : hint' <= id
  BY <1>1, ReclaimAssumption DEF ReclaimInv, TypeOK, HintInv
<1>3. next \notin Tree \cup superseded \cup reuse
  BY NextIsNew DEF Owned
<1>4. reuse' = reuse \ {next} /\ Apart({next}, Tree \cup superseded)
  BY <1>1, <1>3 DEF Apart
<1> QED
  BY ZenonT(30), <1>1, <1>2, <1>4, KeepsGiveUp

LEMMA KeepsDescentFails ==
    ASSUME ReclaimInv, DescentFails
    PROVE  ReclaimInv'
<1>1. walk # "none" /\ ~committing /\ hint' = HintAfterFailure
  BY DEF DescentFails
<1>2. active /\ sps = <<>>
  BY <1>1 DEF ReclaimInv, TypeOK, ControlInv
<1>3. hint \in Nat /\ hint <= MaxPage /\ hint \in 0..MaxPage
  BY ReclaimAssumption DEF ReclaimInv, TypeOK
<1>4. hint' \in 0..MaxPage /\ hint' <= hint
  <2>1. CASE walk = "mark"
    <3>1. target \in Nat
      BY <2>1, NumbersAre DEF ReclaimInv, TypeOK, ControlInv
    <3> QED
      BY <1>1, <1>3, <2>1, <3>1, MinOfTwo, ReclaimAssumption DEF HintAfterFailure
  <2>2. CASE walk # "mark"
    BY <1>1, <1>3, <2>2, ReclaimAssumption DEF HintAfterFailure
  <2> QED
    BY <2>1, <2>2
<1>5. \A id \in cur.free : hint' <= id
  <2> TAKE id \in cur.free
  <2>1. id \in Nat /\ hint <= id
    BY SMTT(30), ReclaimAssumption DEF ReclaimInv, TypeOK, Roots, PageIds, HintInv
  <2> QED
    BY <1>3, <1>4, <2>1
<1>6. next \in Nat /\ next \in 0..MaxPage /\ MaxPage \in Nat
  BY ReclaimAssumption DEF ReclaimInv, TypeOK
<1>7. CASE ~PathOwned(cur.fm, target)
  <2>1. PICK id \in reuse \cup {next} :
          StructuralExtend(id) /\ typed' = typed \ {id} /\ GiveUp(cur, {id})
    BY <1>7 DEF DescentFails
  <2>2. id \notin Tree \cup superseded
    BY NextIsNew DEF ReclaimInv, OwnersInv, Apart, Owned
  <2>3. Apart({id}, Tree \cup superseded)
    BY <2>2 DEF Apart
  <2>4. reuse' = reuse \ {id} /\ next' \in 0..MaxPage /\ next <= next'
    BY <2>1, <1>6, NextIsNew DEF StructuralExtend, Owned
  <2> QED
    BY ZenonT(30), <1>1, <1>2, <1>4, <1>5, <2>1, <2>3, <2>4, KeepsGiveUp
<1>8. CASE PathOwned(cur.fm, target)
  <2>1. /\ GiveUp(cur, {}) /\ reuse' = reuse \ {} /\ next' = next /\ typed' = typed \ {}
    BY <1>8 DEF DescentFails
  <2>2. Apart({}, Tree \cup superseded) /\ next <= next' /\ next' \in 0..MaxPage
    BY <1>6, <2>1 DEF Apart
  <2> QED
    BY ZenonT(30), <1>1, <1>2, <1>4, <1>5, <2>1, <2>2, KeepsGiveUp
<1> QED
  BY <1>7, <1>8

LEMMA KeepsClaimFails ==
    ASSUME ReclaimInv, ClaimFails
    PROVE  ReclaimInv'
<1>1. /\ walk = "clear" /\ hint' = target /\ typed' = typed \ {target}
      /\ GiveUp(clear_bit(cur, target), {target}) /\ reuse' = reuse /\ next' = next
  BY DEF ClaimFails
<1>2. active /\ ~committing /\ sps = <<>> /\ target \in cur.free
  BY <1>1 DEF ReclaimInv, TypeOK, ControlInv
<1>3. /\ next' \in 0..MaxPage /\ next <= next' /\ hint' \in 0..MaxPage
      /\ \A id \in cur.free : hint' <= id
  BY SMTT(30), <1>1, <1>2, ReclaimAssumption DEF ReclaimInv, TypeOK, Roots, PageIds, HintInv
<1>4. target \notin Tree \cup superseded \cup reuse
  BY <1>2 DEF ReclaimInv, OwnersInv, Apart
<1>5. reuse' = reuse \ {target} /\ Apart({target}, Tree \cup superseded)
  BY <1>1, <1>4 DEF Apart
<1>6. clear_bit(cur, target).free \subseteq cur.free
  BY DEF ReclaimInv, TypeOK, Roots, clear_bit
<1> QED
  BY ZenonT(30), <1>1, <1>2, <1>3, <1>5, <1>6, KeepsGiveUp

\* A step that leaves the freemap alone and keeps the first k savepoints.
LEMMA SavepointsCut ==
    ASSUME ReclaimInv, TypeOK', ~committing, ~committing',
           NEW k \in 0..Len(sps), sps' = SubSeq(sps, 1, k),
           \A j \in 1..k : sps[j].watermark <= next',
           cur'.fm = cur.fm, cur'.free = cur.free, cur'.orphans = cur.orphans,
           UNCHANGED <<committed, reuse, superseded, pending, session>>,
           typed' \subseteq typed, \A p \in typed : p < next' => p \in typed'
    PROVE  SavepointsInv' /\ \A i \in 1..Len(sps') : SavepointLossless(i)'
<1>1. /\ sps \in Seq(Savepoints) /\ Len(sps') = k /\ \A j \in 1..k : sps'[j] = sps[j]
  BY DEF ReclaimInv, TypeOK
<1> SUFFICES ASSUME NEW i \in 1..k
             PROVE  SavepointInv(i)' /\ SavepointLossless(i)'
  BY <1>1 DEF SavepointsInv
<1>2. i \in 1..Len(sps) /\ SavepointInv(i) /\ SavepointLossless(i)
  BY <1>1 DEF ReclaimInv, SavepointsInv, LosslessInv
<1>3. /\ sps'[i] = sps[i] /\ \A j \in 1..i : sps'[j] = sps[j]
  BY <1>1
<1>4. Tree' = Tree /\ FreesTo(i)' = FreesTo(i) /\ Kept' = Kept
  BY <1>3 DEF Tree, FreesTo, FreedIn, Kept, TreePages, PagesOf
<1>5. /\ sps[i].watermark \in Nat /\ next' \in Nat /\ sps[i].roots \in Roots
      /\ sps[i].watermark <= next'
  BY ZenonT(30), <1>2, SavepointIs, NumbersAre DEF ReclaimInv, TypeOK
<1>6. SavepointInv(i)'
  BY <1>2, <1>3, <1>4, <1>5 DEF SavepointInv, Apart, savepoint_mark
<1>7. ASSUME sps[i].roots.lossless
      PROVE  Forgotten'
  <2>1. /\ Forgotten /\ cur.orphans \subseteq Below(sps[i].watermark)
        /\ pending \subseteq Below(sps[i].watermark)
    BY <1>2, <1>7 DEF SavepointLossless, SavepointInv, Kept
  <2> QED
    BY <1>4, <1>5, <2>1 DEF Forgotten, Below, Apart
<1>8. PagesOf(sps[i].roots)' = PagesOf(sps[i].roots)
  BY <1>3 DEF PagesOf, TreePages
<1>9. SavepointLossless(i)'
  BY <1>2, <1>3, <1>4, <1>7, <1>8 DEF SavepointLossless
<1> QED
  BY <1>6, <1>9

LEMMA KeepsRelease ==
    ASSUME ReclaimInv, Release
    PROVE  ReclaimInv'
<1>1. PICK i \in 1..Len(sps) :
         /\ txnFreed' = txnFreed \cup SavepointFrees(SubSeq(sps, i, Len(sps)))
         /\ sps' = SubSeq(sps, 1, i - 1)
  BY ZenonT(30) DEF Release
<1>2. /\ active /\ ~committing /\ walk = "none" /\ work = {} /\ cand = {}
      /\ UNCHANGED <<committed, cur, active, committing, cursor, allocated, recyclable, hint,
                     hintAtBegin, reuse, superseded, pending, session, next, fileLen, typed,
                     diskTyped, cand, walk, target, work>>
  BY DEF Release, Ready, InOperation
<1>3. sps \in Seq(Savepoints) /\ i - 1 \in 0..Len(sps) /\ sps # <<>>
  BY DEF ReclaimInv, TypeOK
<1>4. /\ SavepointFrees(sps') = FreedIn(sps, 1, i - 1)
      /\ SavepointFrees(SubSeq(sps, i, Len(sps))) = FreedIn(sps, i, Len(sps))
      /\ SavepointFrees(sps) = FreedIn(sps, 1, i - 1) \cup FreedIn(sps, i, Len(sps))
  BY <1>1, <1>3, FreesOfPrefix, FreesOfSuffix, FreesSplit
<1>5. TxnFrees' = TxnFrees /\ Freed' = Freed
  BY <1>1, <1>2, <1>4 DEF TxnFrees, Freed
<1>6. /\ Tree' = Tree /\ Kept' = Kept /\ PagesOf(committed)' = PagesOf(committed)
      /\ PagesOf(cur)' = PagesOf(cur) /\ ValuePages' = ValuePages
  BY <1>2 DEF Tree, TreePages, Kept, PagesOf, ValuePages
<1>7. TypeOK'
  <2>1. sps' \in Seq(Savepoints) /\ Len(sps') <= MaxSavepoints
    <3>1. Len(sps) <= MaxSavepoints /\ MaxSavepoints \in Nat
      BY ReclaimAssumption DEF ReclaimInv, TypeOK
    <3> QED
      BY <1>1, <1>3, <3>1
  <2>2. txnFreed' \subseteq PageIds
    <3>1. \A j \in 1..Len(sps) : sps[j].freed \subseteq PageIds
      BY <1>3, SavepointIs
    <3>2. FreedIn(sps, i, Len(sps)) \subseteq PageIds
      BY <1>3, <3>1 DEF FreedIn
    <3> QED
      BY <1>1, <1>4, <3>2 DEF ReclaimInv, TypeOK
  <2> QED
    BY <1>2, <2>1, <2>2 DEF ReclaimInv, TypeOK
<1>8. ControlInv'
  BY <1>2, <1>3 DEF ReclaimInv, ControlInv
<1>9. OwnersInv' /\ BoundsInv' /\ CommittedInv' /\ TypedInv' /\ HintInv'
  <2>1. Owned' = Owned
    BY <1>2, <1>5, <1>6 DEF Owned
  <2>2. OwnersInv' /\ BoundsInv'
    BY <1>2, <1>5, <1>6, <2>1 DEF ReclaimInv, OwnersInv, BoundsInv
  <2>3. CommittedInv' /\ TypedInv' /\ HintInv'
    BY <1>2, <1>5, <1>6 DEF ReclaimInv, CommittedInv, TypedInv, HintInv
  <2> QED
    BY <2>2, <2>3
<1>10. SavepointsInv' /\ \A j \in 1..Len(sps') : SavepointLossless(j)'
  <2>1. \A j \in 1..(i - 1) : sps[j].watermark <= next'
    <3>1. \A j \in 1..Len(sps) : SavepointInv(j)
      BY <1>2 DEF ReclaimInv, SavepointsInv
    <3>2. \A j \in 1..(i - 1) : j \in 1..Len(sps)
      BY <1>3
    <3> QED
      BY ZenonT(30), <1>2, <3>1, <3>2 DEF SavepointInv
  <2> QED
    BY <1>1, <1>2, <1>3, <1>7, <2>1, SavepointsCut
<1>11. CommittedLossless'
  BY <1>2, <1>7, CommittedKept
<1>12. CurrentLossless'
  <2>1. Forgotten' = Forgotten
    BY <1>2, <1>6 DEF Forgotten
  <2> QED
    BY <1>2, <1>5, <1>6, <2>1 DEF ReclaimInv, LosslessInv, CurrentLossless
<1> QED
  BY <1>7, <1>8, <1>9, <1>10, <1>11, <1>12 DEF ReclaimInv, LosslessInv

LEMMA KeepsRollbackTo ==
    ASSUME ReclaimInv, RollbackTo
    PROVE  ReclaimInv'
<1>1. PICK i \in 1..Len(sps) :
         /\ Truncate(sps[i].watermark)
         /\ typed' = typed \cap Below(sps[i].watermark)
         /\ cur' = sps[i].roots
         /\ rollback_to_mark(sps[i].freemap)
         /\ sps' = SubSeq(sps, 1, i)
  BY DEF RollbackTo
<1> DEFINE w == sps[i].watermark
<1>2. /\ active /\ ~committing /\ walk = "none" /\ work = {} /\ cand = {}
      /\ txnFreed' = {} /\ cursor' = None
      /\ UNCHANGED <<committed, active, committing, allocated, recyclable, hint, hintAtBegin,
                     reuse, pending, cand, walk, target, work>>
  BY DEF RollbackTo, Ready, InOperation
<1>3. /\ sps \in Seq(Savepoints) /\ i \in 0..Len(sps) /\ sps # <<>>
      /\ SavepointInv(i) /\ SavepointLossless(i)
  BY <1>2 DEF ReclaimInv, TypeOK, SavepointsInv, LosslessInv
<1>4. recyclable = {} /\ cursor = None
  BY <1>3 DEF ReclaimInv, ControlInv
<1>5. /\ w \in Nat /\ w \in 0..MaxPage /\ w <= next /\ SuperblockCount <= w
      /\ sps[i].roots \in Roots /\ next \in Nat
      /\ \A j \in 1..i : sps[j].watermark <= w
  <2>1. sps[i] \in Savepoints /\ sps[i].roots \in Roots
    BY <1>3, SavepointIs
  <2>2. w \in 0..MaxPage
    BY <2>1 DEF Savepoints
  <2>3. next \in Nat
    BY NumbersAre DEF ReclaimInv, TypeOK
  <2> QED
    BY <1>3, <2>1, <2>2, <2>3, NumbersAre DEF SavepointInv
<1>6. next' = w /\ fileLen' = w /\ diskTyped' = diskTyped \cap Below(w)
  <2>1. next' = Min({next, w}) /\ fileLen' = w /\ diskTyped' = diskTyped \cap Below(w)
    BY <1>1 DEF Truncate
  <2> HIDE DEF w
  <2>2. Min({next, w}) = w
    BY <1>5, MinOfTwo
  <2> QED
    BY <2>1, <2>2
<1>7. /\ cur'.fm = cur.fm /\ cur'.free = cur.free /\ cur'.orphans = cur.orphans
      /\ superseded' = superseded /\ session' = session
  BY <1>1, <1>3 DEF SavepointInv, rollback_to_mark, savepoint_mark
<1>8. /\ Tree' = Tree /\ Kept' = Kept /\ PagesOf(committed)' = PagesOf(committed)
      /\ ValuePages' = cur'.value
  BY <1>2, <1>7 DEF Tree, TreePages, Kept, PagesOf, ValuePages
<1>9. /\ SavepointFrees(sps') = FreesTo(i) /\ TxnFrees' = FreesTo(i)
      /\ Freed' = FreesTo(i) /\ FreesTo(i) \subseteq TxnFrees
  <2>1. /\ SavepointFrees(sps') = FreedIn(sps, 1, i)
    BY <1>1, <1>3, FreesOfPrefix
  <2>2. FreedIn(sps, 1, i) \subseteq SavepointFrees(sps)
    BY <1>3 DEF FreedIn, SavepointFrees
  <2> QED
    BY <1>2, <2>1, <2>2 DEF FreesTo, TxnFrees, Freed
<1>10. TypeOK'
  <2>1. sps' \in Seq(Savepoints) /\ Len(sps') <= MaxSavepoints
    <3>1. Len(sps) <= MaxSavepoints /\ MaxSavepoints \in Nat
      BY ReclaimAssumption DEF ReclaimInv, TypeOK
    <3> QED
      BY <1>1, <1>3, <3>1
  <2>2. /\ next' \in 0..MaxPage /\ fileLen' \in 0..MaxPage
        /\ typed' \subseteq PageIds /\ diskTyped' \subseteq PageIds
    BY <1>1, <1>5, <1>6 DEF ReclaimInv, TypeOK
  <2>3. cur' \in Roots /\ superseded' \subseteq PageIds /\ session' \subseteq PageIds
    BY <1>1, <1>5, <1>7 DEF ReclaimInv, TypeOK
  <2> QED
    BY <1>2, <2>1, <2>2, <2>3 DEF ReclaimInv, TypeOK
<1>11. ControlInv'
  BY <1>2, <1>4 DEF ReclaimInv, ControlInv
<1>12. OwnersInv'
  BY <1>1, <1>2, <1>3, <1>4, <1>7, <1>8, <1>9
  DEF ReclaimInv, OwnersInv, SavepointInv, Apart
<1>13. BoundsInv'
  <2>1. Kept \subseteq Below(committed.total) /\ SuperblockCount <= committed.total
    BY DEF ReclaimInv, BoundsInv
  <2>2. Owned' \cup Kept' \subseteq Below(w)
    BY <1>1, <1>2, <1>3, <1>4, <1>7, <1>8, <1>9 DEF Owned, SavepointInv
  <2> QED
    BY <1>2, <1>5, <1>6, <1>8, <2>1, <2>2 DEF BoundsInv
<1>14. CommittedInv'
  BY <1>2, <1>4, <1>7, <1>8 DEF ReclaimInv, CommittedInv, Apart
<1>15. SavepointsInv' /\ \A j \in 1..Len(sps') : SavepointLossless(j)'
  <2>1. /\ \A j \in 1..i : sps[j].watermark <= next'
        /\ typed' \subseteq typed /\ \A p \in typed : p < next' => p \in typed'
    <3>1. \A p \in typed : p \in Nat
      BY NumbersAre DEF ReclaimInv, TypeOK
    <3> QED
      BY <1>1, <1>5, <1>6, <3>1 DEF Below
  <2> QED
    BY <1>1, <1>2, <1>3, <1>7, <1>10, <2>1, SavepointsCut
<1>16. TypedInv'
  <2>1. TreePages(committed.fm) \cup pending \subseteq Below(w)
    BY <1>3 DEF SavepointInv, Kept, PagesOf
  <2>2. Tree \cup superseded \cup reuse \subseteq Below(w)
    BY <1>3 DEF SavepointInv
  <2>3. Apart(typed, cur'.radix \cup cur'.value)
    BY <1>1, <1>3 DEF SavepointInv
  <2> QED
    BY <1>1, <1>2, <1>4, <1>6, <1>7, <1>8, <1>9, <2>1, <2>2, <2>3
    DEF ReclaimInv, TypedInv, Apart
<1>17. HintInv'
  BY <1>2, <1>7 DEF ReclaimInv, HintInv
<1>18. CommittedLossless'
  <2> SUFFICES ASSUME committed.lossless PROVE CommittedLossless'
    BY <1>2 DEF CommittedLossless
  <2>1. CommittedLossless /\ committed.total <= w /\ committed.total \in Nat
    BY <1>3, ReclaimAssumption DEF ReclaimInv, LosslessInv, SavepointLossless, TypeOK, Roots
  <2>2. Below(committed.total) \subseteq Below(w)
    BY <1>5, <2>1 DEF Below
  <2> QED
    BY <1>2, <1>6, <1>8, <2>1, <2>2 DEF CommittedLossless
<1>19. CurrentLossless'
  <2> SUFFICES ASSUME cur'.lossless PROVE CurrentLossless'
    BY DEF CurrentLossless
  <2>1. /\ committed.lossless /\ Forgotten /\ cur.orphans \subseteq Below(w)
        /\ PageIds \cap Below(w) \subseteq
              PagesOf(cur') \cup cur'.free \cup FreesTo(i) \cup reuse
                \cup superseded \cup cur'.orphans
    BY <1>1, <1>3 DEF SavepointLossless
  <2>2. Forgotten'
    <3>1. pending \subseteq Below(w)
      BY <1>3 DEF SavepointInv, Kept
    <3> QED
      BY <1>1, <1>2, <1>6, <1>7, <1>8, <2>1, <3>1 DEF Forgotten, Apart
  <2>3. fileLen' <= next'
    BY <1>5, <1>6
  <2>4. PagesOf(cur)' = PagesOf(cur')
    BY DEF PagesOf, TreePages
  <2> QED
    BY <1>2, <1>6, <1>7, <1>9, <2>1, <2>2, <2>3, <2>4 DEF CurrentLossless
<1> QED
  BY <1>10, <1>11, <1>12, <1>13, <1>14, <1>15, <1>16, <1>17, <1>18, <1>19
  DEF ReclaimInv, LosslessInv

LEMMA KeepsSavepoint ==
    ASSUME ReclaimInv, Savepoint
    PROVE  ReclaimInv'
<1> DEFINE e == [roots |-> cur, watermark |-> next, freed |-> txnFreed \cup recyclable,
                 freemap |-> savepoint_mark]
<1>0. PICK n \in Nat : n = Len(sps) + 1
  BY DEF ReclaimInv, TypeOK
<1>1. /\ active /\ ~committing /\ walk = "none" /\ work = {} /\ cand = {}
      /\ Len(sps) < MaxSavepoints /\ sps' = Append(sps, e)
      /\ txnFreed' = {} /\ recyclable' = {} /\ cursor' = None
      /\ UNCHANGED <<committed, cur, active, committing, allocated, hint, hintAtBegin, reuse,
                     superseded, pending, session, next, fileLen, typed, diskTyped, cand, walk,
                     target, work>>
  BY DEF Savepoint, Ready, InOperation, DrainInto, cache_watermark
<1>2. e \in Savepoints
  BY DEF ReclaimInv, TypeOK, Savepoints, FreemapMarks, savepoint_mark
<1>3. /\ e.roots = cur /\ e.watermark = next /\ e.freed = txnFreed \cup recyclable
      /\ e.freemap = savepoint_mark
  OBVIOUS
<1> HIDE DEF e
<1>4. /\ sps \in Seq(Savepoints) /\ Len(sps') = n /\ sps'[n] = e /\ n \in Nat
      /\ \A j \in 1..Len(sps) : sps'[j] = sps[j]
  BY <1>0, <1>1, <1>2 DEF ReclaimInv, TypeOK
<1>5. /\ TxnFrees' = TxnFrees \cup recyclable /\ Freed' = Freed \cup recyclable
      /\ FreesTo(n)' = TxnFrees \cup recyclable
  <2>1. SavepointFrees(sps') = SavepointFrees(sps) \cup txnFreed \cup recyclable
    BY <1>1, <1>2, <1>3, <1>4, FreesOfAppend
  <2>2. FreedIn(sps', 1, n) = SavepointFrees(sps')
    BY <1>4 DEF FreedIn, SavepointFrees
  <2> QED
    BY <1>1, <2>1, <2>2 DEF TxnFrees, Freed, FreesTo
<1>6. /\ Tree' = Tree /\ Kept' = Kept /\ PagesOf(committed)' = PagesOf(committed)
      /\ PagesOf(cur)' = PagesOf(cur) /\ ValuePages' \subseteq ValuePages
  BY <1>1 DEF Tree, TreePages, Kept, PagesOf, ValuePages
<1>7. TypeOK'
  <2>1. sps' \in Seq(Savepoints) /\ Len(sps') <= MaxSavepoints
    BY <1>0, <1>1, <1>2, <1>4, ReclaimAssumption
  <2> QED
    BY <1>1, <2>1 DEF ReclaimInv, TypeOK
<1>8. ControlInv'
  BY <1>1 DEF ReclaimInv, ControlInv
<1>9. OwnersInv'
  BY <1>1, <1>5, <1>6 DEF ReclaimInv, OwnersInv, Apart
<1>10. BoundsInv'
  <2>1. Owned' \subseteq Owned
    BY <1>1, <1>5, <1>6 DEF Owned
  <2> QED
    BY <1>1, <1>6, <2>1 DEF ReclaimInv, BoundsInv
<1>11. CommittedInv'
  BY <1>1, <1>6 DEF ReclaimInv, CommittedInv, Apart
<1>12. TypedInv'
  BY <1>1, <1>5, <1>6 DEF ReclaimInv, TypedInv, Apart
<1>13. HintInv'
  BY <1>1 DEF ReclaimInv, HintInv
<1>14. CommittedLossless'
  BY <1>1, <1>7, CommittedKept
<1>15. Forgotten' = Forgotten
  BY <1>1, <1>6 DEF Forgotten
<1>16. CurrentLossless'
  BY <1>1, <1>5, <1>6, <1>15 DEF ReclaimInv, LosslessInv, CurrentLossless
<1>17. \A j \in 1..Len(sps) : SavepointInv(j)' /\ SavepointLossless(j)'
  <2> TAKE j \in 1..Len(sps)
  <2>1. SavepointInv(j) /\ SavepointLossless(j)
    BY <1>1 DEF ReclaimInv, SavepointsInv, LosslessInv
  <2>2. sps'[j] = sps[j] /\ \A l \in 1..j : sps'[l] = sps[l]
    BY <1>4
  <2>3. FreesTo(j)' = FreesTo(j)
    BY <2>2 DEF FreesTo, FreedIn
  <2>4. SavepointInv(j)'
    BY <1>1, <1>6, <2>1, <2>2, <2>3 DEF SavepointInv, savepoint_mark
  <2>5. SavepointLossless(j)'
    BY <1>1, <1>6, <1>15, <2>1, <2>2, <2>3 DEF SavepointLossless, PagesOf, TreePages
  <2> QED
    BY <2>4, <2>5
<1>18. SavepointInv(n)'
  <2>1. next \in Nat /\ next <= next /\ SuperblockCount <= next
    BY ReclaimAssumption DEF ReclaimInv, TypeOK, BoundsInv
  <2>2. \A j \in 1..n : sps'[j].watermark <= next
    <3>1. \A j \in 1..Len(sps) : SavepointInv(j)
      BY <1>1 DEF ReclaimInv, SavepointsInv
    <3>2. \A j \in 1..Len(sps) : sps[j].watermark <= next
      BY ZenonT(30), <3>1 DEF SavepointInv
    <3>3. \A j \in 1..n : j \in 1..Len(sps) \/ j = n
      BY <1>0, <1>4
    <3> QED
      BY <1>3, <1>4, <2>1, <3>2, <3>3
  <2>3. cur.value \subseteq ValuePages
    BY DEF ValuePages
  <2>4. /\ Apart(cur.radix, cur.value \cup Tree \cup FreesTo(n)' \cup reuse \cup superseded
                            \cup cur.free)
        /\ Apart(cur.value, Tree \cup FreesTo(n)' \cup reuse \cup superseded \cup cur.free)
    BY <1>5, <2>3 DEF ReclaimInv, OwnersInv, Apart
  <2>5. Apart(typed, cur.radix \cup cur.value)
    BY <2>3 DEF ReclaimInv, TypedInv, Apart
  <2>6. cur.radix \cup cur.value \cup FreesTo(n)' \cup Tree \cup reuse \cup superseded
             \cup cur.free \cup Kept \subseteq Below(next)
    BY <1>5, <2>3 DEF ReclaimInv, BoundsInv, Owned
  <2>7. /\ sps'[n].roots = cur /\ sps'[n].watermark = next
        /\ sps'[n].freemap = savepoint_mark /\ savepoint_mark' = savepoint_mark
    BY <1>1, <1>3, <1>4 DEF savepoint_mark
  <2>8. cur' = cur /\ typed' = typed /\ reuse' = reuse /\ superseded' = superseded /\ next' = next
    BY <1>1
  <2> QED
    BY <1>6, <2>1, <2>2, <2>4, <2>5, <2>6, <2>7, <2>8 DEF SavepointInv
<1>19. SavepointLossless(n)'
  <2>1. /\ sps'[n].roots = cur /\ sps'[n].watermark = next
    BY <1>3, <1>4
  <2>2. committed.lossless => committed.total <= next
    BY DEF ReclaimInv, LosslessInv, CommittedLossless
  <2>3. ASSUME cur.lossless
        PROVE  /\ committed.lossless /\ Forgotten /\ cur.orphans \subseteq Below(next)
               /\ PageIds \cap Below(next) \subseteq
                    PagesOf(cur) \cup cur.free \cup FreesTo(n)' \cup reuse
                      \cup superseded \cup cur.orphans
    <3>1. Freed = TxnFrees
      BY <1>1 DEF Freed, TxnFrees
    <3> QED
      BY <1>1, <1>5, <2>3, <3>1 DEF ReclaimInv, LosslessInv, CurrentLossless, Forgotten
  <2>4. PagesOf(sps[n].roots)' = PagesOf(cur)
    BY <2>1 DEF PagesOf, TreePages
  <2> QED
    BY <1>1, <1>15, <2>1, <2>2, <2>3, <2>4 DEF SavepointLossless
<1>20. SavepointsInv' /\ \A j \in 1..Len(sps') : SavepointLossless(j)'
  <2>1. \A j \in 1..Len(sps') : j \in 1..Len(sps) \/ j = n
    BY <1>0, <1>4
  <2> QED
    BY <1>17, <1>18, <1>19, <2>1 DEF SavepointsInv
<1> QED
  BY <1>7, <1>8, <1>9, <1>10, <1>11, <1>12, <1>13, <1>14, <1>16, <1>20
  DEF ReclaimInv, LosslessInv

LEMMA KeepsRollback ==
    ASSUME ReclaimInv, Rollback
    PROVE  ReclaimInv'
<1> DEFINE t == committed.total
<1>1. /\ active /\ ~committing /\ walk = "none" /\ work = {} /\ cand = {}
      /\ next' = Min({next, t}) /\ fileLen' = t /\ diskTyped' = diskTyped \cap Below(t)
      /\ typed' = diskTyped' /\ cur' = committed /\ superseded' = {} /\ reuse' = {}
      /\ session' = {} /\ hint' = hintAtBegin /\ allocated' = {} /\ recyclable' = {}
      /\ cursor' = None /\ active' = FALSE /\ sps' = <<>> /\ txnFreed' = {}
      /\ UNCHANGED <<committed, committing, pending, hintAtBegin, cand, walk, target, work>>
  BY DEF Rollback, Ready, InOperation, Truncate, FreemapRollback, PoolReset
<1>2. next \in Nat /\ t \in Nat /\ next \in 0..MaxPage /\ t \in 0..MaxPage
  BY ReclaimAssumption DEF ReclaimInv, TypeOK, Roots
<1>3. /\ next' \in 0..MaxPage /\ next' \in Nat /\ (next' = next \/ next' = t)
      /\ t <= next => next' = t
  BY <1>1, <1>2, MinOfTwo
<1>4. /\ Tree' = TreePages(committed.fm) /\ Kept' = Kept /\ ValuePages' = committed.value
      /\ PagesOf(committed)' = PagesOf(committed) /\ PagesOf(cur)' = PagesOf(committed)
      /\ TxnFrees' = {} /\ Freed' = {}
  BY <1>1, FreesOfNone DEF Tree, TreePages, Kept, PagesOf, ValuePages, TxnFrees, Freed
<1>5. TypeOK'
  <2>1. sps' \in Seq(Savepoints) /\ Len(sps') <= MaxSavepoints
    BY <1>1, ReclaimAssumption
  <2>2. typed' \subseteq PageIds /\ diskTyped' \subseteq PageIds
    BY <1>1 DEF ReclaimInv, TypeOK
  <2> QED
    BY ZenonT(30), <1>1, <1>2, <1>3, <2>1, <2>2 DEF ReclaimInv, TypeOK
<1>6. ControlInv'
  BY <1>1 DEF ReclaimInv, ControlInv
<1>7. OwnersInv'
  BY <1>1, <1>4 DEF ReclaimInv, OwnersInv, CommittedInv, Apart
<1>8. BoundsInv'
  <2>1. Kept \subseteq Below(next') /\ SuperblockCount <= next'
    BY <1>3 DEF ReclaimInv, BoundsInv
  <2>2. Owned' \subseteq Kept
    BY <1>1, <1>4 DEF Owned, Kept, PagesOf
  <2> QED
    BY ZenonT(30), <1>1, <1>4, <2>1, <2>2 DEF ReclaimInv, BoundsInv
<1>9. CommittedInv'
  <2>1. Apart(PagesOf(committed) \cup pending, committed.free)
    BY DEF ReclaimInv, CommittedInv, Apart, PagesOf
  <2> QED
    BY <1>1, <1>4, <2>1 DEF ReclaimInv, CommittedInv, Apart
<1>10. SavepointsInv' /\ \A j \in 1..Len(sps') : SavepointLossless(j)'
  BY <1>1, NoSavepoints
<1>11. TypedInv'
  <2>1. TreePages(committed.fm) \cup pending \subseteq Below(t)
    BY DEF ReclaimInv, BoundsInv, Kept, PagesOf
  <2> QED
    BY <1>1, <1>4, <2>1 DEF ReclaimInv, TypedInv, Apart
<1>12. HintInv'
  BY <1>1 DEF ReclaimInv, HintInv
<1>13. ASSUME committed.lossless
       PROVE  /\ next' = t /\ CommittedLossless
              /\ committed.orphans \subseteq typed' /\ pending \subseteq typed'
  <2>1. CommittedLossless /\ t <= next
    BY <1>13 DEF ReclaimInv, LosslessInv, CommittedLossless
  <2>2. pending \subseteq Below(t) /\ pending \subseteq diskTyped
    BY <1>1 DEF ReclaimInv, BoundsInv, Kept, TypedInv
  <2> QED
    BY <1>1, <1>3, <1>13, <2>1, <2>2 DEF CommittedLossless
<1>14. CommittedLossless'
  <2>1. t <= t
    BY <1>2
  <2> QED
    BY <1>1, <1>4, <1>13, <2>1 DEF CommittedLossless
<1>15. CurrentLossless'
  <2> SUFFICES ASSUME committed.lossless PROVE CurrentLossless'
    BY ZenonT(30), <1>1 DEF CurrentLossless
  <2>1. Forgotten'
    BY <1>1, <1>4, <1>13 DEF Forgotten, CommittedLossless, Apart, Kept, PagesOf
  <2>2. fileLen' <= next'
    BY <1>1, <1>2, <1>13
  <2> QED
    BY ZenonT(30), <1>1, <1>4, <1>13, <2>1, <2>2 DEF CurrentLossless, CommittedLossless, Kept
<1> QED
  BY <1>5, <1>6, <1>7, <1>8, <1>9, <1>10, <1>11, <1>12, <1>14, <1>15 DEF ReclaimInv, LosslessInv

LEMMA KeepsCommitStart ==
    ASSUME ReclaimInv, CommitStart
    PROVE  ReclaimInv'
<1>1. /\ active /\ ~committing /\ walk = "none" /\ work = {} /\ cand = {}
      /\ committing' = TRUE
      /\ work' = TxnFrees \cup recyclable /\ txnFreed' = work' /\ recyclable' = {}
      /\ sps' = [i \in 1..Len(sps) |-> [sps[i] EXCEPT !.freed = {}]]
      /\ fileLen' = Max({fileLen, next}) /\ diskTyped' = typed
      /\ UNCHANGED <<committed, cur, active, cursor, allocated, hint, hintAtBegin, reuse,
                     superseded, pending, session, next, typed, cand, walk, target>>
  BY DEF CommitStart, Ready, InOperation, DrainInto, Flush, TxnFrees
<1>2. fileLen \in Nat /\ next \in Nat /\ fileLen \in 0..MaxPage /\ next \in 0..MaxPage
  BY ReclaimAssumption DEF ReclaimInv, TypeOK
<1>3. fileLen' \in 0..MaxPage /\ (fileLen <= next => fileLen' = next)
  BY <1>1, <1>2, MaxOfTwo
<1>4. /\ Tree' = Tree /\ Kept' = Kept /\ PagesOf(committed)' = PagesOf(committed)
      /\ PagesOf(cur)' = PagesOf(cur) /\ ValuePages' = ValuePages /\ TxnFrees' = {}
      /\ Freed' = Freed \cup recyclable /\ work' = Freed \cup recyclable
  BY <1>1 DEF Tree, TreePages, Kept, PagesOf, ValuePages, TxnFrees, Freed
<1>5. /\ sps' \in Seq(Savepoints) /\ Len(sps') <= MaxSavepoints
      /\ sps = <<>> => sps' = <<>>
  <2>1. /\ sps \in Seq(Savepoints) /\ Len(sps) <= MaxSavepoints
        /\ \A i \in 1..Len(sps) : sps[i] \in Savepoints
    BY DEF ReclaimInv, TypeOK
  <2>2. \A i \in 1..Len(sps) : [sps[i] EXCEPT !.freed = {}] \in Savepoints
    BY SMTT(30), <2>1 DEF Savepoints
  <2>3. Len(sps) \in Nat /\ (sps = <<>> => Len(sps) = 0)
    BY <2>1
  <2>4. sps' \in [1..Len(sps) -> Savepoints]
    BY <1>1, <2>2
  <2>5. sps' \in Seq(Savepoints) /\ Len(sps') = Len(sps)
    BY <2>3, <2>4
  <2> QED
    BY <2>1, <2>3, <2>5
<1>6. TypeOK'
  <2>1. work' \subseteq PageIds
    <3>1. SavepointFrees(sps) \subseteq PageIds
      BY SavepointIs DEF SavepointFrees, ReclaimInv, TypeOK
    <3> QED
      BY <1>1, <3>1 DEF ReclaimInv, TypeOK, TxnFrees
  <2> QED
    BY SMTT(30), <1>1, <1>3, <1>5, <2>1 DEF ReclaimInv, TypeOK
<1>7. ControlInv'
  BY <1>1, <1>5 DEF ReclaimInv, ControlInv
<1>8. OwnersInv'
  BY <1>1, <1>4 DEF ReclaimInv, OwnersInv, Apart
<1>9. BoundsInv'
  <2>1. Owned' \subseteq Owned
    BY <1>1, <1>4 DEF Owned
  <2> QED
    BY <1>1, <1>4, <2>1 DEF ReclaimInv, BoundsInv
<1>10. CommittedInv'
  BY <1>1, <1>4 DEF ReclaimInv, CommittedInv, Apart
<1>11. SavepointsInv'
  BY <1>1 DEF SavepointsInv
<1>12. TypedInv'
  <2>1. TreePages(committed.fm) \subseteq typed
    BY DEF ReclaimInv, CommittedInv, TypedInv
  <2> QED
    BY <1>1, <1>4, <2>1 DEF ReclaimInv, TypedInv, Apart
<1>13. HintInv'
  BY <1>1 DEF ReclaimInv, HintInv
<1>14. CommittedLossless'
  BY <1>1, <1>4 DEF ReclaimInv, LosslessInv, CommittedLossless
<1>15. CurrentLossless'
  <2> SUFFICES ASSUME cur.lossless PROVE CurrentLossless'
    BY <1>1 DEF CurrentLossless
  <2>1. committed.lossless /\ fileLen <= next /\ Forgotten
    BY DEF ReclaimInv, LosslessInv, CurrentLossless
  <2>2. Apart(typed, work')
    BY <1>1 DEF ReclaimInv, TypedInv, Apart
  <2>3. Forgotten'
    BY <1>1, <1>4, <2>1, <2>2 DEF Forgotten, Apart
  <2>4. fileLen' <= next'
    BY <1>1, <1>2, <1>3, <2>1
  <2> QED
    BY <1>1, <1>4, <2>1, <2>3, <2>4 DEF ReclaimInv, LosslessInv, CurrentLossless
<1> QED
  BY <1>1, <1>6, <1>7, <1>8, <1>9, <1>10, <1>11, <1>12, <1>13, <1>14, <1>15
  DEF ReclaimInv, LosslessInv

LEMMA KeepsCommitEnd ==
    ASSUME ReclaimInv, CommitEnd
    PROVE  ReclaimInv'
<1>1. /\ committing /\ walk = "none" /\ work = {}
      /\ fileLen' = Max({fileLen, next}) /\ diskTyped' = typed
      /\ cur' = [cur EXCEPT !.total = fileLen'] /\ committed' = cur'
      /\ pending' = superseded \cup reuse /\ session' = {} /\ superseded' = {} /\ reuse' = {}
      /\ allocated' = {} /\ recyclable' = {}
      /\ cursor' = None /\ active' = FALSE /\ committing' = FALSE
      /\ sps' = <<>> /\ txnFreed' = {}
      /\ UNCHANGED <<hint, hintAtBegin, next, typed, cand, walk, target, work>>
  BY DEF CommitEnd, Flush, FreemapCommit, PoolReset
<1>2. active /\ cand = {} /\ recyclable = {}
  BY <1>1 DEF ReclaimInv, ControlInv
<1>3. fileLen \in Nat /\ next \in Nat /\ fileLen \in 0..MaxPage /\ next \in 0..MaxPage
  BY ReclaimAssumption DEF ReclaimInv, TypeOK
<1>4. /\ fileLen' \in 0..MaxPage /\ fileLen' \in Nat /\ next <= fileLen'
      /\ fileLen <= next => fileLen' = next
  BY <1>1, <1>3, MaxOfTwo
<1>5. /\ cur \in Roots /\ cur' \in Roots /\ cur'.radix = cur.radix /\ cur'.value = cur.value
      /\ cur'.fm = cur.fm /\ cur'.free = cur.free /\ cur'.total = fileLen'
      /\ cur'.lossless = cur.lossless /\ cur'.orphans = cur.orphans
  BY ZenonT(30), <1>1, <1>4 DEF ReclaimInv, TypeOK, Roots
<1>6. /\ Tree' = Tree /\ PagesOf(committed)' = PagesOf(cur) /\ PagesOf(cur)' = PagesOf(cur)
      /\ TreePages(committed.fm)' = Tree /\ PagesOf(cur) = cur.radix \cup cur.value \cup Tree
      /\ Kept' = PagesOf(cur) \cup cur.free \cup superseded \cup reuse
      /\ ValuePages' = cur.value /\ cur.value \subseteq ValuePages
      /\ TxnFrees' = {} /\ Freed' = {} /\ Freed = {}
  BY <1>1, <1>5, FreesOfNone DEF Tree, TreePages, Kept, PagesOf, ValuePages, TxnFrees, Freed
<1>7. TypeOK'
  <2>1. sps' \in Seq(Savepoints) /\ Len(sps') <= MaxSavepoints
    BY <1>1, ReclaimAssumption
  <2> QED
    BY ZenonT(30), <1>1, <1>4, <1>5, <2>1 DEF ReclaimInv, TypeOK
<1>8. ControlInv'
  BY <1>1, <1>2 DEF ControlInv
<1>9. OwnersInv'
  BY <1>1, <1>2, <1>5, <1>6 DEF ReclaimInv, OwnersInv, Apart
<1>10. BoundsInv'
  <2>1. Owned' \cup Kept' \subseteq Owned
    BY <1>1, <1>2, <1>5, <1>6 DEF Owned
  <2>2. Owned \subseteq Below(next) /\ SuperblockCount <= next
    BY DEF ReclaimInv, BoundsInv
  <2>3. SuperblockCount \in Nat
    BY ReclaimAssumption
  <2>4. SuperblockCount <= fileLen'
    BY <1>3, <1>4, <2>2, <2>3
  <2>5. Below(next) \subseteq Below(fileLen')
    BY <1>3, <1>4, BelowGrows
  <2>6. next' = next /\ committed'.total = fileLen'
    BY <1>1, <1>5
  <2> QED
    BY <2>1, <2>2, <2>4, <2>5, <2>6 DEF BoundsInv
<1>11. CommittedInv'
  <2>1. /\ Apart(cur.radix, cur.value \cup Tree \cup cur.free \cup superseded \cup reuse)
        /\ Apart(cur.value, Tree \cup cur.free \cup superseded \cup reuse)
        /\ Apart(Tree, cur.free \cup superseded \cup reuse)
        /\ Apart(cur.free, superseded \cup reuse)
        /\ Apart(PagesOf(cur) \cup superseded \cup reuse, cur.free) /\ Sole(cur.fm)
    BY <1>6 DEF ReclaimInv, OwnersInv, Apart
  <2> QED
    BY ZenonT(30), <1>1, <1>2, <1>5, <1>6, <2>1 DEF CommittedInv, Apart
<1>12. SavepointsInv' /\ \A j \in 1..Len(sps') : SavepointLossless(j)'
  BY <1>1, NoSavepoints
<1>13. TypedInv'
  BY <1>1, <1>2, <1>5, <1>6 DEF ReclaimInv, TypedInv, Apart
<1>14. HintInv'
  BY <1>1, <1>5 DEF ReclaimInv, HintInv
<1>15. ASSUME cur.lossless
       PROVE  /\ fileLen' = next /\ Forgotten
              /\ PageIds \cap Below(next) \subseteq Kept' \cup cur.orphans
  <2>1. fileLen <= next /\ Forgotten
    BY <1>15 DEF ReclaimInv, LosslessInv, CurrentLossless
  <2> QED
    BY <1>1, <1>2, <1>4, <1>6, <1>15, <2>1 DEF ReclaimInv, LosslessInv, CurrentLossless
<1>16. ASSUME cur.lossless
       PROVE  Apart(cur.orphans, Kept')
  <2>1. cur.orphans \subseteq typed /\ Apart(cur.orphans, Tree \cup reuse \cup superseded \cup cur.free)
    BY <1>15, <1>16 DEF Forgotten, Apart
  <2>2. Apart(typed, cur.radix \cup cur.value)
    BY <1>6 DEF ReclaimInv, TypedInv, Apart
  <2> QED
    BY <1>6, <2>1, <2>2 DEF Apart
<1>17. CommittedLossless'
  <2>1. next <= next
    BY <1>3
  <2> QED
    BY ZenonT(30), <1>1, <1>5, <1>15, <1>16, <2>1 DEF CommittedLossless, Forgotten
<1>18. CurrentLossless'
  <2> SUFFICES ASSUME cur.lossless PROVE CurrentLossless'
    BY <1>5 DEF CurrentLossless
  <2>1. Forgotten'
    BY <1>1, <1>5, <1>6, <1>13, <1>15, <1>16 DEF Forgotten, Apart, TypedInv
  <2>2. fileLen' <= next'
    BY <1>1, <1>3, <1>15
  <2> QED
    BY <1>1, <1>5, <1>6, <1>15, <2>1, <2>2 DEF CurrentLossless
<1> QED
  BY <1>7, <1>8, <1>9, <1>10, <1>11, <1>12, <1>13, <1>14, <1>17, <1>18 DEF ReclaimInv, LosslessInv

LEMMA KeepsReopen ==
    ASSUME ReclaimInv, Reopen
    PROVE  ReclaimInv'
<1> DEFINE t == committed.total
<1>1. /\ committed' = [committed EXCEPT
                         !.orphans = @ \cup (pending \ committed.free),
                         !.lossless = /\ @ /\ cur.lossless /\ fileLen = committed.total
                                      /\ committing => cur.orphans = committed.orphans]
      /\ cur' = committed' /\ active' = FALSE /\ committing' = FALSE /\ sps' = <<>>
      /\ txnFreed' = {} /\ cursor' = None /\ allocated' = {} /\ recyclable' = {}
      /\ hint' = 0 /\ hintAtBegin' = 0
      /\ reuse' = {} /\ superseded' = {} /\ pending' = {} /\ session' = {}
      /\ next' = committed.total /\ typed' = diskTyped
      /\ cand' = {} /\ walk' = "none" /\ target' = None /\ work' = {}
      /\ UNCHANGED <<fileLen, diskTyped>>
  BY DEF Reopen
<1>2. committed \in Roots /\ t \in Nat /\ t \in 0..MaxPage
  BY SMTT(30), ReclaimAssumption DEF ReclaimInv, TypeOK, Roots
<1>3. /\ committed' \in Roots /\ committed'.radix = committed.radix
      /\ committed'.value = committed.value /\ committed'.fm = committed.fm
      /\ committed'.free = committed.free /\ committed'.total = t
      /\ committed'.orphans = committed.orphans \cup (pending \ committed.free)
      /\ committed'.lossless => /\ committed.lossless /\ cur.lossless /\ fileLen = t
                                /\ committing => cur.orphans = committed.orphans
  BY ZenonT(30), <1>1, <1>2 DEF ReclaimInv, TypeOK, Roots
<1>4. /\ Tree' = TreePages(committed.fm) /\ ValuePages' = committed.value
      /\ PagesOf(committed)' = PagesOf(committed) /\ PagesOf(cur)' = PagesOf(committed)
      /\ TreePages(committed.fm)' = TreePages(committed.fm)
      /\ Kept' = PagesOf(committed) \cup committed.free
      /\ TxnFrees' = {} /\ Freed' = {}
  BY <1>1, <1>3, FreesOfNone DEF Tree, TreePages, Kept, PagesOf, ValuePages, TxnFrees, Freed
<1>5. TypeOK'
  <2>1. sps' \in Seq(Savepoints) /\ Len(sps') <= MaxSavepoints /\ 0 \in 0..MaxPage
    BY <1>1, ReclaimAssumption
  <2> QED
    BY ZenonT(30), <1>1, <1>2, <1>3, <2>1 DEF ReclaimInv, TypeOK
<1>6. ControlInv'
  BY <1>1 DEF ControlInv
<1>7. OwnersInv'
  BY <1>1, <1>3, <1>4 DEF ReclaimInv, OwnersInv, CommittedInv, Apart
<1>8. BoundsInv'
  <2>1. Owned' \cup Kept' \subseteq Kept
    BY <1>1, <1>3, <1>4 DEF Owned, Kept, PagesOf
  <2> QED
    BY <1>1, <1>3, <2>1 DEF ReclaimInv, BoundsInv
<1>9. CommittedInv'
  <2>1. Apart(PagesOf(committed), committed.free)
    BY DEF ReclaimInv, CommittedInv, Apart, PagesOf
  <2> QED
    BY <1>1, <1>3, <1>4, <2>1 DEF ReclaimInv, CommittedInv, Apart
<1>10. SavepointsInv' /\ \A j \in 1..Len(sps') : SavepointLossless(j)'
  BY <1>1, NoSavepoints
<1>11. TypedInv'
  BY <1>1, <1>3, <1>4 DEF ReclaimInv, TypedInv, Apart
<1>12. HintInv'
  <2>1. \A id \in committed.free : id \in Nat /\ 0 <= id
    BY <1>2, ReclaimAssumption DEF Roots, PageIds
  <2> QED
    BY <1>1, <1>3, <2>1 DEF HintInv
<1>13. ASSUME committed'.lossless
       PROVE  /\ PageIds \cap Below(t) \subseteq Kept' \cup committed'.orphans
              /\ committed'.orphans \subseteq Below(t)
              /\ Apart(committed'.orphans, Kept') /\ committed'.orphans \subseteq diskTyped
  <2>1. /\ CommittedLossless /\ committed.lossless /\ cur.lossless
        /\ committing => cur.orphans = committed.orphans
    BY <1>3, <1>13 DEF ReclaimInv, LosslessInv
  <2>2. pending \subseteq Below(t) /\ Apart(pending, PagesOf(committed))
    BY DEF ReclaimInv, BoundsInv, Kept, CommittedInv, Apart, PagesOf
  <2>3. committed.orphans \cup pending \subseteq diskTyped
    <3>1. CASE committing
      BY <2>1, <3>1 DEF ReclaimInv, LosslessInv, CurrentLossless, Forgotten
    <3>2. CASE ~committing
      BY <2>1, <3>2 DEF ReclaimInv, TypedInv, CommittedLossless
    <3> QED
      BY <3>1, <3>2
  <2> QED
    BY <1>3, <1>4, <2>1, <2>2, <2>3 DEF CommittedLossless, Kept, Apart
<1>14. CommittedLossless'
  <2>1. t <= t
    BY <1>2
  <2> QED
    BY <1>1, <1>3, <1>13, <2>1 DEF CommittedLossless
<1>15. CurrentLossless'
  <2> SUFFICES ASSUME committed'.lossless PROVE CurrentLossless'
    BY <1>1 DEF CurrentLossless
  <2>1. Forgotten'
    BY <1>1, <1>3, <1>4, <1>13 DEF Forgotten, Apart, PagesOf
  <2>2. fileLen' <= next'
    BY <1>1, <1>2, <1>3
  <2> QED
    BY <1>1, <1>3, <1>4, <1>13, <2>1, <2>2 DEF CurrentLossless
<1> QED
  BY <1>5, <1>6, <1>7, <1>8, <1>9, <1>10, <1>11, <1>12, <1>14, <1>15 DEF ReclaimInv, LosslessInv

LEMMA InitHolds ==
    ASSUME Init
    PROVE  ReclaimInv
<1>1. /\ cur = EmptyRoots /\ committed = EmptyRoots /\ cur.radix = {} /\ cur.value = {}
      /\ cur.fm = NoTree /\ cur.free = {} /\ cur.total = SuperblockCount /\ cur.orphans = {}
  BY DEF Init, EmptyRoots
<1>2. /\ Tree = {} /\ Kept = {} /\ ValuePages = {} /\ TxnFrees = {} /\ PagesOf(cur) = {}
      /\ PagesOf(committed) = {} /\ TreePages(committed.fm) = {} /\ Owned = {}
  <2>1. TreePages(NoTree) = {}
    BY DEF TreePages, NoTree
  <2> QED
    BY <1>1, <2>1, FreesOfNone DEF Init, Tree, Kept, PagesOf, ValuePages, TxnFrees, Owned
<1>3. /\ SuperblockCount \in Nat /\ SuperblockCount \in 0..MaxPage /\ 0 \in 0..MaxPage
      /\ SuperblockCount <= SuperblockCount
      /\ PageIds \cap Below(SuperblockCount) = {}
  BY ReclaimAssumption DEF PageIds, Below
<1>4. TypeOK
  <2>1. EmptyRoots \in Roots
    BY <1>3 DEF EmptyRoots, Roots, NoTree
  <2>2. <<>> \in Seq(Savepoints) /\ Len(<<>>) <= MaxSavepoints
    BY ReclaimAssumption
  <2> QED
    BY ZenonT(30), <1>3, <2>1, <2>2 DEF Init, TypeOK
<1>5. Sole(cur.fm) /\ Sole(committed.fm)
  BY <1>1 DEF Sole, NoTree
<1>6. ControlInv /\ OwnersInv /\ CommittedInv
  BY <1>1, <1>2, <1>5 DEF Init, ControlInv, OwnersInv, CommittedInv, Apart
<1>7. BoundsInv /\ HintInv /\ TypedInv
  BY <1>1, <1>2, <1>3 DEF Init, BoundsInv, HintInv, TypedInv, Apart
<1>8. SavepointsInv /\ \A i \in 1..Len(sps) : SavepointLossless(i)
  BY DEF Init, SavepointsInv
<1>9. CurrentLossless /\ CommittedLossless
  BY <1>1, <1>2, <1>3
  DEF Init, CurrentLossless, CommittedLossless, Forgotten, Apart, EmptyRoots
<1> QED
  BY <1>4, <1>6, <1>7, <1>8, <1>9 DEF ReclaimInv, LosslessInv

LEMMA KeepsStutter ==
    ASSUME ReclaimInv, UNCHANGED vars
    PROVE  ReclaimInv'
<1>1. UNCHANGED <<committed, cur, active, committing, sps, txnFreed, cursor, allocated,
                  recyclable, hint, hintAtBegin, reuse, superseded, pending, session, next,
                  fileLen, typed, diskTyped, cand, walk, target, work>>
  BY DEF vars
<1>2. /\ Tree' = Tree /\ Kept' = Kept /\ ValuePages' = ValuePages /\ TxnFrees' = TxnFrees
      /\ PagesOf(cur)' = PagesOf(cur) /\ PagesOf(committed)' = PagesOf(committed)
      /\ Freed' = Freed
  BY <1>1 DEF Tree, TreePages, Kept, PagesOf, ValuePages, TxnFrees, Freed
<1>3. TypeOK' /\ ControlInv' /\ HintInv'
  BY <1>1 DEF ReclaimInv, TypeOK, ControlInv, HintInv
<1>4. OwnersInv' /\ BoundsInv' /\ CommittedInv' /\ TypedInv'
  BY <1>1, <1>2 DEF ReclaimInv, OwnersInv, BoundsInv, CommittedInv, TypedInv, Owned
<1>5. SavepointsInv' /\ (~committing' => \A i \in 1..Len(sps') : SavepointLossless(i)')
  <2>1. CASE committing
    BY <1>1, <2>1 DEF SavepointsInv
  <2>2. CASE ~committing
    <3>1. next <= next' /\ ~committing'
      BY <1>1, <2>2, ReclaimAssumption DEF ReclaimInv, TypeOK
    <3>2. SavepointsInv' /\ \A i \in 1..Len(sps') : SavepointLossless(i)'
      BY <1>1, <1>3, <2>2, <3>1, SavepointsKept
    <3> QED
      BY <3>2
  <2> QED
    BY <2>1, <2>2
<1>6. CommittedLossless' /\ CurrentLossless'
  BY <1>1, <1>2 DEF ReclaimInv, LosslessInv, CommittedLossless, CurrentLossless, Forgotten
<1> QED
  BY <1>3, <1>4, <1>5, <1>6 DEF ReclaimInv, LosslessInv

-----------------------------------------------------------------------------
(* The scan of the bitmap and the descent, which take a least id and a     *)
(* highest level: a set of numbers has a least member.                     *)

INSTANCE WellFoundedInduction

\* A set of naturals has a least element.
LEMMA LeastNat ==
    ASSUME NEW T \in SUBSET Nat, T # {}
    PROVE  \E m \in T : \A k \in T : m <= k
<1> DEFINE R == OpToRel(<, Nat)
<1>1. \E m \in T : \A k \in T : ~(<<k, m>> \in R)
  <2> HIDE DEF R
  <2>1. IsWellFoundedOn(R, Nat)
    BY ZenonT(30), NatLessThanWellFounded DEF R
  <2> QED
    BY ZenonT(30), <2>1, WFMin
<1>2. PICK m \in T : \A k \in T : ~(<<k, m>> \in R)
  BY ZenonT(30), <1>1
<1>3. \A k \in T : ~(k < m)
  BY ZenonT(30), <1>2 DEF OpToRel
<1> QED
  <2> HIDE DEF R
  <2> QED
    BY <1>2, <1>3

\* The least id of the scan, and the lower of two numbers.
LEMMA MinIs ==
    ASSUME NEW T \in SUBSET Nat, T # {}
    PROVE  Min(T) \in T /\ \A k \in T : Min(T) <= k
BY LeastNat DEF Min

\* The greatest of some levels of the freemap.
LEMMA MaxLevel ==
    ASSUME NEW T \in SUBSET (0..MaxDepth), T # {}
    PROVE  Max(T) \in T
<1> DEFINE U == {MaxDepth - k : k \in T}
<1>0. MaxDepth \in Nat
  BY ReclaimAssumption
<1>1. U \in SUBSET Nat /\ U # {}
  <2>1. \A k \in T : MaxDepth - k \in Nat
    BY <1>0
  <2>2. PICK k \in T : TRUE
    OBVIOUS
  <2>3. MaxDepth - k \in U
    OBVIOUS
  <2> QED
    BY <2>1, <2>3
<1>2. PICK m \in U : \A k \in U : m <= k
  <2> HIDE DEF U
  <2> QED
    BY <1>1, LeastNat
<1>3. \A k \in T : MaxDepth - k \in U
  OBVIOUS
<1>4. PICK x \in T : m = MaxDepth - x
  BY <1>2
<1> HIDE DEF U
<1>5. \A k \in T : x >= k
  BY <1>2, <1>3, <1>4, ReclaimAssumption
<1> QED
  BY <1>5 DEF Max

\* A descent that has not got a path of its own writes a node of the tree.
LEMMA NodeToWriteIs ==
    ASSUME NEW fm, NEW id \in PageIds, ~PathOwned(fm, id)
    PROVE  NodeToWrite(fm, id) \in Nodes
<1> DEFINE levels == {k \in 0..MaxDepth : fm[<<k, 0>>] # None}
<1>1. CASE ~TreeExists(fm)
  BY <1>1, NodesAre, ReclaimAssumption DEF NodeToWrite, create
<1>2. CASE TreeExists(fm)
  <2>1. 0 \in levels
    BY <1>2, ReclaimAssumption DEF TreeExists
  <2>2. Depth(fm) = Max(levels) /\ levels \in SUBSET (0..MaxDepth)
    BY DEF Depth
  <2> HIDE DEF levels
  <2>3. Depth(fm) \in 0..MaxDepth
    BY <2>1, <2>2, MaxLevel
  <2>4. CASE Capacity(fm) <= id /\ Depth(fm) < MaxDepth
    <3>1. Depth(fm) + 1 \in 0..MaxDepth
      BY <2>3, <2>4, ReclaimAssumption
    <3> QED
      BY <3>1, <1>2, <2>4, NodesAre DEF NodeToWrite, grow
  <2>5. CASE ~(Capacity(fm) <= id /\ Depth(fm) < MaxDepth)
    <3>1. id < Capacity(fm)
      BY <2>3, <2>5, SpanAssumption, ReclaimAssumption DEF Capacity, PageIds
    <3>2. Unowned(fm, id) # {}
      BY <1>2, <3>1 DEF PathOwned
    <3>3. Unowned(fm, id) \in SUBSET (0..MaxDepth)
      BY <2>3, ReclaimAssumption DEF Unowned
    <3>4. Max(Unowned(fm, id)) \in 0..MaxDepth
      BY SMTT(30), <3>2, <3>3, MaxLevel
    <3> QED
      BY <1>2, <2>5, <3>4, NodesAre DEF NodeToWrite
  <2> QED
    BY <2>4, <2>5
<1> QED
  BY <1>1, <1>2

LEMMA KeepsScanBitmap ==
    ASSUME ReclaimInv, ScanBitmap
    PROVE  ReclaimInv'
<1>1. /\ sps = <<>> /\ active /\ ~committing /\ walk = "none" /\ work = {} /\ walk' = "clear"
      /\ target' = Min(Scannable) /\ Scannable # {}
      /\ UNCHANGED <<committed, cur, active, committing, sps, txnFreed, cursor, allocated,
                     recyclable, hint, hintAtBegin, reuse, superseded, pending, session, next,
                     fileLen, typed, diskTyped, cand, work>>
  BY DEF ScanBitmap, InOperation, ReuseEnabled, BitmapOffers
<1>2. /\ Tree' = Tree /\ ValuePages' = ValuePages /\ TxnFrees' = TxnFrees /\ Kept' = Kept
      /\ PagesOf(committed)' = PagesOf(committed) /\ PagesOf(cur)' = PagesOf(cur) /\ Freed' = Freed
  BY <1>1 DEF Tree, TreePages, ValuePages, TxnFrees, Kept, PagesOf, Freed
<1>3. target' \in cur.free /\ \A id \in cur.free : target' <= id
  <2>1. Scannable \in SUBSET Nat
    BY SMTT(30), ReclaimAssumption DEF ReclaimInv, TypeOK, Roots, Scannable, PageIds
  <2>2. Min(Scannable) \in Scannable /\ \A id \in Scannable : Min(Scannable) <= id
    BY <1>1, <2>1, MinIs
  <2> QED
    BY <1>1, <2>2 DEF Scannable, ReclaimInv, HintInv
<1>4. TypeOK'
  BY <1>1, <1>3 DEF ReclaimInv, TypeOK, Roots
<1>5. ControlInv'
  BY <1>1, <1>3 DEF ReclaimInv, ControlInv
<1>6. OwnersInv'
  BY <1>1, <1>2 DEF ReclaimInv, OwnersInv
<1>7. BoundsInv'
  BY <1>1, <1>2 DEF ReclaimInv, BoundsInv, Owned
<1>8. CommittedInv'
  BY <1>1, <1>2 DEF ReclaimInv, CommittedInv
<1>9. SavepointsInv' /\ \A i \in 1..Len(sps') : SavepointLossless(i)'
  BY <1>1, NoSavepoints
<1>10. TypedInv'
  BY <1>1, <1>2 DEF ReclaimInv, TypedInv
<1>11. HintInv'
  BY <1>1, <1>3 DEF ReclaimInv, HintInv
<1>12. CommittedLossless'
  BY <1>1, <1>4, CommittedKept
<1>13. CurrentLossless'
  BY <1>1, <1>2 DEF ReclaimInv, LosslessInv, CurrentLossless, Forgotten
<1> QED
  BY <1>4, <1>5, <1>6, <1>7, <1>8, <1>9, <1>10, <1>11, <1>12, <1>13 DEF ReclaimInv, LosslessInv

LEMMA KeepsWriteNode ==
    ASSUME ReclaimInv, WriteNode
    PROVE  ReclaimInv'
<1> DEFINE n == NodeToWrite(cur.fm, target)
           old == cur.fm[n]
<1>1. PICK id \in reuse \cup {next} :
         /\ StructuralExtend(id) /\ cur' = [cur EXCEPT !.fm[n] = id]
         /\ session' = session \cup {id} /\ superseded' = superseded \cup ({old} \ {None})
         /\ typed' = typed \cup {id}
  BY DEF WriteNode
<1>2. /\ walk # "none" /\ ~PathOwned(cur.fm, target) /\ active
      /\ ~committing => sps = <<>>
      /\ UNCHANGED <<committed, active, committing, sps, txnFreed, cursor, allocated, recyclable,
                     hint, hintAtBegin, pending, fileLen, diskTyped, cand, walk, target, work>>
  BY DEF WriteNode, ReclaimInv, ControlInv
<1>3. target \in PageIds
  BY <1>2 DEF ReclaimInv, TypeOK, ControlInv, Roots
<1>4. n \in Nodes
  BY <1>2, <1>3, NodeToWriteIs
<1> HIDE DEF n
<1>5. /\ cur \in Roots /\ cur.fm \in [Nodes -> PageIds \cup {None}] /\ None \notin PageIds
  BY SMTT(30), NumbersAre DEF ReclaimInv, TypeOK, Roots
<1>6. /\ id \in PageIds /\ id \notin Owned \ reuse /\ id \notin Kept \ pending
      /\ id \in reuse => reuse' = reuse \ {id} /\ next' = next
      /\ id \notin reuse => id = next /\ next' = next + 1 /\ next < MaxPage /\ reuse = {} /\ reuse' = {}
      /\ id \in reuse \/ id = next
  <2>1. CASE id \in reuse /\ reuse' = reuse \ {id} /\ next' = next
    BY <2>1 DEF ReclaimInv, OwnersInv, CommittedInv, TypeOK, Owned, Kept, PagesOf, Apart
  <2>2. CASE reuse = {} /\ id = next /\ next < MaxPage /\ next' = next + 1 /\ reuse' = reuse
    BY <2>2, NextIsNew
  <2> QED
    BY <1>1, <2>1, <2>2 DEF StructuralExtend
<1>7. /\ next \in Nat /\ next' \in Nat /\ next <= next' /\ reuse' = reuse \ {id}
      /\ Below(next) \subseteq Below(next') /\ id \in Below(next')
      /\ \A p \in Below(next') : p \in Below(next) \/ p = id
  <2>1. CASE id \in reuse
    BY <1>6, <2>1 DEF ReclaimInv, TypeOK, BoundsInv, Owned
  <2>2. CASE id \notin reuse
    BY <1>6, <2>2, NextIsNew
  <2> QED
    BY <2>1, <2>2
<1>8. /\ cur'.fm = [cur.fm EXCEPT ![n] = id]
      /\ cur'.radix = cur.radix /\ cur'.value = cur.value /\ cur'.free = cur.free
      /\ cur'.total = cur.total /\ cur'.lossless = cur.lossless /\ cur'.orphans = cur.orphans
  BY <1>1, <1>4, <1>5 DEF Roots
<1>9. /\ Tree' = (Tree \ {old}) \cup {id} /\ Sole(cur'.fm)
      /\ old # None => old \in Tree
      /\ id \notin Tree /\ None \notin Tree
  <2>1. id \notin Tree
    BY <1>6 DEF Owned, ReclaimInv, OwnersInv, Apart
  <2>2. \A m \in Nodes : m # n => cur'.fm[m] = cur.fm[m] /\ (cur.fm[m] # None => cur.fm[m] # old)
    BY <1>4, <1>5, <1>8 DEF ReclaimInv, OwnersInv, Sole
  <2>3. cur'.fm[n] = id /\ id # None
    BY <1>4, <1>5, <1>6, <1>8
  <2>4. old # None => old \in Tree
    BY <1>4 DEF Tree, TreePages
  <2>5. Tree' = (Tree \ {old}) \cup {id}
    BY <1>4, <1>5, <2>2, <2>3 DEF Tree, TreePages
  <2>6. Sole(cur'.fm)
    <3> SUFFICES ASSUME NEW k \in Nodes, NEW m \in Nodes,
                        cur'.fm[k] # None, cur'.fm[k] = cur'.fm[m]
                 PROVE  k = m
      BY DEF Sole
    <3>1. \A j \in Nodes : j # n /\ cur.fm[j] # None => cur.fm[j] \in Tree
      BY DEF Tree, TreePages
    <3> QED
      BY <2>1, <2>2, <2>3, <3>1 DEF ReclaimInv, OwnersInv, Sole
  <2>7. None \notin Tree
    BY DEF Tree, TreePages
  <2> QED
    BY <2>1, <2>4, <2>5, <2>6, <2>7
<1> HIDE DEF old
<1>10. /\ ValuePages' = ValuePages /\ TxnFrees' = TxnFrees /\ Kept' = Kept /\ Freed' = Freed
       /\ PagesOf(committed)' = PagesOf(committed)
       /\ PagesOf(cur) = cur.radix \cup cur.value \cup Tree
       /\ PagesOf(cur)' = cur.radix \cup cur.value \cup Tree'
  BY <1>2, <1>8 DEF Tree, TreePages, ValuePages, TxnFrees, Kept, PagesOf, Freed
<1>11. TypeOK'
  <2>1. cur' \in Roots
    BY <1>1, <1>4, <1>5, <1>6 DEF Roots
  <2>2. superseded' \subseteq PageIds
    BY <1>1, <1>4, <1>5 DEF ReclaimInv, TypeOK, old
  <2>3. next' \in 0..MaxPage
    BY SMTT(30), <1>6, <1>7, ReclaimAssumption DEF ReclaimInv, TypeOK
  <2> QED
    BY SMTT(30), <1>1, <1>2, <1>6, <1>7, <2>1, <2>2, <2>3 DEF ReclaimInv, TypeOK
<1>12. ControlInv'
  BY <1>2, <1>8 DEF ReclaimInv, ControlInv
<1>13. OwnersInv'
  BY SMTT(30), <1>1, <1>2, <1>6, <1>7, <1>8, <1>9, <1>10 DEF ReclaimInv, OwnersInv, Owned, Apart
<1>14. BoundsInv'
  <2>1. Owned' \subseteq Owned \cup {id}
    BY <1>1, <1>2, <1>7, <1>8, <1>9, <1>10 DEF Owned
  <2>2. SuperblockCount <= next /\ SuperblockCount <= next'
    BY <1>7, NumbersAre DEF ReclaimInv, BoundsInv
  <2> QED
    BY <1>2, <1>7, <1>10, <2>1, <2>2 DEF ReclaimInv, BoundsInv
<1>15. CommittedInv'
  <2>1. id \notin PagesOf(committed)
    BY <1>6 DEF ReclaimInv, CommittedInv, Kept, PagesOf, Apart
  <2>2. Tree \cup superseded \subseteq Tree' \cup superseded'
    BY <1>1, <1>9
  <2> QED
    BY SMTT(30), <1>1, <1>2, <1>7, <1>8, <1>10, <2>1, <2>2 DEF ReclaimInv, CommittedInv, Apart
<1>16. SavepointsInv' /\ (~committing' => \A i \in 1..Len(sps') : SavepointLossless(i)')
  BY <1>2, NoSavepoints DEF SavepointsInv
<1>17. TypedInv'
  BY SMTT(30), <1>1, <1>2, <1>6, <1>7, <1>8, <1>9, <1>10 DEF ReclaimInv, TypedInv, Kept, PagesOf, Owned,
     OwnersInv, CommittedInv, Apart
<1>18. HintInv'
  BY <1>2, <1>8 DEF ReclaimInv, HintInv
<1>19. CommittedLossless'
  <2>1. committed.total <= next => committed.total <= next'
    BY SMTT(30), <1>7, ReclaimAssumption DEF ReclaimInv, TypeOK, Roots
  <2> QED
    BY <1>2, <1>11, <2>1, CommittedKept
<1>20. CurrentLossless'
  <2> SUFFICES ASSUME cur.lossless PROVE CurrentLossless'
    BY <1>8 DEF CurrentLossless
  <2>1. committed.lossless /\ Forgotten /\ fileLen <= next
    BY DEF ReclaimInv, LosslessInv, CurrentLossless
  <2>2. Forgotten'
    <3>1. id \notin cur.orphans
      BY <1>6, <1>7, <2>1 DEF Forgotten, Below, Apart
    <3> QED
      BY <1>1, <1>2, <1>7, <1>8, <1>9, <2>1, <3>1 DEF Forgotten, Apart
  <2>3. fileLen' <= next'
    BY <1>2, <1>7, <2>1, ReclaimAssumption DEF ReclaimInv, TypeOK
  <2>4. Tree \cup superseded \cup reuse \subseteq Tree' \cup superseded' \cup reuse' /\ id \in Tree'
    BY <1>1, <1>7, <1>9
  <2>5. PageIds \cap Below(next) \subseteq PagesOf(cur) \cup cur.free \cup cand \cup recyclable
                 \cup Freed \cup reuse \cup superseded \cup cur.orphans
    BY <1>2 DEF ReclaimInv, LosslessInv, CurrentLossless
  <2>6. PageIds \cap Below(next') \subseteq cur.radix \cup cur.value \cup Tree' \cup cur.free
                 \cup cand \cup recyclable \cup Freed \cup reuse' \cup superseded' \cup cur.orphans
    BY <1>7, <1>10, <2>4, <2>5
  <2> QED
    BY <1>2, <1>8, <1>10, <2>1, <2>2, <2>3, <2>6 DEF CurrentLossless
<1> QED
  BY SMTT(30), <1>11, <1>12, <1>13, <1>14, <1>15, <1>16, <1>17, <1>18, <1>19, <1>20 DEF ReclaimInv, LosslessInv

-----------------------------------------------------------------------------
(* The theorems.                                                           *)

\* In every reachable state each page has one owner among all the places a page
\* can be, the committed roots and the open savepoints keep what a rollback, a
\* rollback to a savepoint or a reopen brings back, and every lineage without
\* half-done operations accounts for every page (transaction/freemap.rs,
\* transaction/savepoints.rs, transaction/lifecycle.rs, freemap_tree.rs).
THEOREM ReclaimInvariant == Spec => []ReclaimInv
<1>1. Init => ReclaimInv
  BY InitHolds
<1>2. ReclaimInv /\ [Next]_vars => ReclaimInv'
  <2> SUFFICES ASSUME ReclaimInv, [Next]_vars PROVE ReclaimInv'
    OBVIOUS
  <2>1. CASE Begin \/ DrawPool \/ ScanBitmap \/ ExtendFile \/ NewPage
    BY <2>1, KeepsBegin, KeepsDrawPool, KeepsScanBitmap, KeepsExtend
  <2>2. CASE WriteNode \/ ClearBit \/ StartMark \/ MarkBit
    BY <2>2, KeepsWriteNode, KeepsClearBit, KeepsStartMark, KeepsMarkBit
  <2>3. CASE Install \/ OperationFails \/ ExtendFails \/ DescentFails \/ ClaimFails
    BY <2>3, KeepsInstall, KeepsOperationFails, KeepsExtendFails, KeepsDescentFails,
       KeepsClaimFails
  <2>4. CASE Savepoint \/ RollbackTo \/ Release \/ Rollback
    BY <2>4, KeepsSavepoint, KeepsRollbackTo, KeepsRelease, KeepsRollback
  <2>5. CASE CommitStart \/ CommitEnd \/ Sweep \/ Reopen
    BY <2>5, KeepsCommitStart, KeepsCommitEnd, KeepsSweep, KeepsReopen
  <2>6. CASE UNCHANGED vars
    BY <2>6, KeepsStutter
  <2> QED
    BY <2>1, <2>2, <2>3, <2>4, <2>5, <2>6 DEF Next
<1> QED
  BY <1>1, <1>2, PTL DEF Spec

\* No id is ever in two of the places the allocator takes pages from and the
\* structures keep them in, so none is handed out twice (cow_alloc, retire,
\* structural_extend, persist).
THEOREM AlwaysOneOwner == Spec => []OneOwner
<1>1. ASSUME ReclaimInv
      PROVE  OneOwner
  <2> DEFINE owners == <<PagesOf(cur), cand, recyclable, Freed, reuse, superseded, cur.free>>
  <2>1. PagesOf(cur) = cur.radix \cup cur.value \cup Tree /\ cur.value \subseteq ValuePages
    BY DEF PagesOf, Tree, ValuePages
  <2>2. Freed \subseteq TxnFrees \cup work
    BY DEF Freed, TxnFrees
  <2>3. \A i, j \in 1..7 : i < j => owners[i] \cap owners[j] = {}
    BY <1>1, <2>1, <2>2 DEF ReclaimInv, OwnersInv, Apart
  <2>4. \A i, j \in 1..7 : i # j => owners[i] \cap owners[j] = {}
    <3> HIDE DEF owners
    <3> TAKE i, j \in 1..7
    <3>1. CASE i < j
      BY <2>3, <3>1
    <3>2. CASE j < i
      BY <2>3, <3>2
    <3> QED
      BY <3>1, <3>2
  <2>5. pending \cap (PagesOf(committed) \cup committed.free) = {}
    BY <1>1 DEF ReclaimInv, CommittedInv, Apart, PagesOf
  <2> QED
    BY <1>1, <2>4, <2>5 DEF OneOwner, ReclaimInv
<1> QED
  BY <1>1, ReclaimInvariant, PTL

\* No page of a snapshot that a crash, a rollback or a rollback to a savepoint
\* can bring back, nor of the current roots, is on offer to the allocator
\* (TxnPageRecycle, the one-commit delay of pending_structural_frees).
THEOREM AlwaysSpared == Spec => []SnapshotsSpared
<1>1. ASSUME ReclaimInv
      PROVE  SnapshotsSpared
  <2> SUFFICES ASSUME active, NEW p \in Available
               PROVE  p \notin Restorable \cup PagesOf(cur) \cup cand
    BY DEF SnapshotsSpared
  <2>1. \/ p \in recyclable \/ p \in reuse \/ (~committing /\ p \in cur.free)
        \/ (p \in PageIds /\ p >= next)
    BY DEF Available
  <2>2. PagesOf(cur) = cur.radix \cup cur.value \cup Tree /\ cur.value \subseteq ValuePages
    BY DEF PagesOf, Tree, ValuePages
  <2>3. next \in Nat /\ p \in Nat /\ (p >= next => p \notin Below(next))
    <3>1. p \in PageIds
      BY <1>1, <2>1 DEF ReclaimInv, TypeOK, Roots
    <3>2. next \in Nat /\ p \in Nat
      BY <1>1, <3>1, NumbersAre DEF ReclaimInv, TypeOK
    <3> QED
      BY <3>2, BelowIs
  <2>4. p \notin PagesOf(cur) /\ p \notin cand
    BY <1>1, <2>1, <2>2, <2>3 DEF ReclaimInv, OwnersInv, BoundsInv, Owned, Apart
  <2>5. p \notin PagesOf(committed)
    <3>1. PagesOf(committed) \subseteq Below(next)
      BY <1>1 DEF ReclaimInv, BoundsInv, Kept
    <3>2. Apart(PagesOf(committed), pending)
      BY <1>1 DEF ReclaimInv, CommittedInv, Apart, PagesOf
    <3> QED
      BY <1>1, <2>1, <2>3, <3>1, <3>2 DEF ReclaimInv, CommittedInv, Apart
  <2>6. ASSUME ~committing, NEW i \in 1..Len(sps)
        PROVE  p \notin PagesOf(sps[i].roots)
    <3>1. SavepointInv(i) /\ sps # <<>>
      BY <1>1, <2>6 DEF ReclaimInv, SavepointsInv, TypeOK
    <3>2. recyclable = {}
      BY <1>1, <3>1 DEF ReclaimInv, ControlInv
    <3>3. PagesOf(sps[i].roots) = sps[i].roots.radix \cup sps[i].roots.value \cup Tree
      BY <3>1 DEF PagesOf, Tree, SavepointInv
    <3>4. PagesOf(sps[i].roots) \subseteq Below(next)
      <4>1. sps[i].watermark \in Nat /\ sps[i].watermark <= next
        BY <1>1, <3>1, SavepointIs DEF ReclaimInv, TypeOK, SavepointInv
      <4>2. Below(sps[i].watermark) \subseteq Below(next)
        BY <2>3, <4>1, BelowGrows
      <4> QED
        BY <3>1, <3>3, <4>2 DEF SavepointInv
    <3>5. Apart(Tree, reuse \cup cur.free)
      BY <1>1 DEF ReclaimInv, OwnersInv, Apart
    <3> QED
      BY <2>1, <2>3, <3>1, <3>2, <3>3, <3>4, <3>5 DEF SavepointInv, Apart
  <2> QED
    BY <2>4, <2>5, <2>6 DEF Restorable
<1> QED
  BY <1>1, ReclaimInvariant, PTL

\* What the freemap descent and the packer edit in place belongs to no snapshot
\* that can be restored and is not on offer (session_owned, insert_cursor).
THEOREM EditsAlwaysUnshared == Spec => []EditsUnshared
<1>1. ASSUME ReclaimInv
      PROVE  EditsUnshared
  <2> SUFFICES ASSUME active, ~committing, NEW p \in EditedInPlace
               PROVE  p \notin Restorable \cup Available
    BY DEF EditsUnshared
  <2>1. \/ walk # "none" /\ p \in Tree /\ p \in session
        \/ p = cursor /\ p # None
    BY DEF EditedInPlace, Tree
  <2>2. sps = <<>>
    BY <2>1, <1>1 DEF ReclaimInv, ControlInv
  <2>3. p \in Tree \/ p \in ValuePages
    BY <2>1 DEF ValuePages
  <2>4. p \notin PagesOf(committed)
    BY <1>1, <2>1 DEF ReclaimInv, CommittedInv, Apart
  <2>5. p \notin recyclable \cup reuse \cup cur.free
    BY <1>1, <2>3 DEF ReclaimInv, OwnersInv, Apart
  <2>6. ~(p >= next)
    <3>1. p \in Below(next) /\ next \in Nat
      BY <1>1, <2>3, ReclaimAssumption DEF ReclaimInv, BoundsInv, Owned, TypeOK
    <3> QED
      BY <3>1 DEF Below
  <2>7. p \notin Restorable
    BY <2>2, <2>4 DEF Restorable
  <2> QED
    BY <2>5, <2>6, <2>7 DEF Available
<1> QED
  BY <1>1, ReclaimInvariant, PTL

\* The scan for a free page starts at or below the first free bit, within a
\* transaction and, after a commit, a rollback or a reopen, between two
\* (allocate_first, FreemapRecycle::hint).
THEOREM HintAlwaysLow == Spec => []NoFreeBelowHint
<1>1. ASSUME ReclaimInv
      PROVE  NoFreeBelowHint
  BY <1>1 DEF ReclaimInv, HintInv, ControlInv, NoFreeBelowHint
<1> QED
  BY <1>1, ReclaimInvariant, PTL

\* A lineage in which nothing failed half way accounts for every page, and the
\* sweep of defrag finds the freemap pages that a reopen forgot
\* (reclaim_orphans).
THEOREM NothingEverLost == Spec => []NoPageLost
<1>1. ASSUME ReclaimInv
      PROVE  NoPageLost
  <2>1. /\ next \in Nat /\ {id \in PageIds : id < next} \subseteq PageIds \cap Below(next)
        /\ \A id \in Below(next) : id < next
    <3>1. next \in Nat
      BY <1>1, NumbersAre DEF ReclaimInv, TypeOK
    <3> QED
      BY <3>1, NumbersAre, BelowIs
  <2>2. ASSUME ~active, committed.lossless
        PROVE  {id \in PageIds : id < next} \subseteq
                 PagesOf(committed) \cup committed.free \cup pending \cup committed.orphans
    <3>1. /\ cur = committed /\ cand = {} /\ recyclable = {} /\ reuse = {} /\ superseded = {}
          /\ Freed = {}
      BY <1>1, <2>2, FreesOfNone DEF ReclaimInv, ControlInv, Freed
    <3> QED
      BY <1>1, <2>1, <2>2, <3>1 DEF ReclaimInv, LosslessInv, CurrentLossless
  <2>3. ASSUME active, cur.lossless
        PROVE  {id \in PageIds : id < next} \subseteq
                 PagesOf(cur) \cup cur.free \cup cand \cup recyclable \cup Freed
                   \cup reuse \cup superseded \cup cur.orphans
    BY <1>1, <2>1, <2>3 DEF ReclaimInv, LosslessInv, CurrentLossless
  <2>4. ASSUME cur.lossless, NEW id \in cur.orphans
        PROVE  id \in Orphans
    <3>1. Forgotten /\ id \in PageIds
      BY <1>1, <2>4 DEF ReclaimInv, LosslessInv, CurrentLossless, TypeOK, Roots
    <3>2. /\ id \in typed /\ id < next
          /\ id \notin Tree \cup reuse \cup superseded \cup cur.free \cup pending
      BY <2>1, <2>4, <3>1 DEF Forgotten, Apart
    <3> QED
      BY <3>1, <3>2 DEF Orphans, Tree, is_free
  <2> QED
    BY <2>2, <2>3, <2>4 DEF NoPageLost
<1> QED
  BY <1>1, ReclaimInvariant, PTL
=============================================================================

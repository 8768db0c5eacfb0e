------------------------- MODULE SwiftBindingProofs ------------------------
(***************************************************************************)
(* Machine-checked proofs about SwiftBinding, for every number of calls,   *)
(* transactions and savepoints and every nesting of closures: the engine's *)
(* savepoints are the closures that are open, what a closure that threw    *)
(* had written is never committed, and an escaped Transaction is refused.  *)
(***************************************************************************)
EXTENDS SwiftBinding, SequenceTheorems, TLAPS

-----------------------------------------------------------------------------
(* The inductive invariant.                                                *)

Engines == [open : BOOLEAN, poisoned : BOOLEAN, txn : Nat, begun : Nat,
            marks : Seq(Marks), made : Nat, work : SUBSET Writes, durable : SUBSET Writes]
CallStates == {NotMade} \union [kind : Kinds, at : {"queued", "running", "resumed"}]

Shape ==
    /\ engine \in Engines /\ engine.txn <= engine.begun /\ engine.made <= MaxMarks
    /\ \A i \in 1..Len(engine.marks) : engine.marks[i].id <= engine.made
    /\ call \in [Calls -> CallStates]
    /\ next \in 1..(MaxCalls + 1)
    /\ frames \in Seq(Frames)
    /\ \A i \in 1..Len(frames) : frames[i].kind = "transaction" <=> i = 1
    /\ throwing \in BOOLEAN /\ (throwing => frames # <<>>)
    /\ finished \subseteq Transactions /\ doomed \subseteq Writes

\* A call begins one transaction, and the closures on the queue are those of
\* the call whose turn it is.
OneAtATime ==
    /\ frames = <<>> => engine.begun < next
    /\ frames # <<>> => engine.begun <= next /\ next \in Calls /\ call[next] # NotMade

\* Every Transaction value but the one of the running closure is finished.
OthersFinished ==
    \A x \in 1..engine.begun : x \notin finished => frames # <<>> /\ frames[1].txn = x

\* The engine's savepoints are the savepoint closures; no two share a name.
MarksAreScopes ==
    Usable =>
       /\ engine.txn = IF frames = <<>> THEN 0 ELSE frames[1].txn
       /\ Len(engine.marks) = IF frames = <<>> THEN 0 ELSE Len(frames) - 1
       /\ \A i \in 1..Len(engine.marks) : engine.marks[i].name = frames[i + 1].name
       /\ \A i, j \in 1..Len(engine.marks) :
             engine.marks[i].name = engine.marks[j].name => i = j

\* Nothing durable was written by a closure that threw or may still throw.
DurableApart ==
    /\ engine.durable \intersect doomed = {}
    /\ \A j \in 1..Len(frames) : engine.durable \intersect frames[j].wrote = {}

\* What could still be committed holds nothing of a closure that threw, and a
\* savepoint remembers nothing its own closure, or one inside it, has written.
WorkApart ==
    Usable =>
       /\ engine.work \intersect doomed = {}
       /\ \A i \in 1..Len(engine.marks) : engine.marks[i].work \subseteq engine.work
       /\ \A i, j \in 1..Len(engine.marks) :
             i <= j => engine.marks[i].work \subseteq engine.marks[j].work
       /\ \A i \in 1..Len(engine.marks), j \in 1..Len(frames) :
             i < j => engine.marks[i].work \intersect frames[j].wrote = {}

SwiftInv == /\ Shape /\ OneAtATime /\ OthersFinished
            /\ MarksAreScopes /\ DurableApart /\ WorkApart

-----------------------------------------------------------------------------
(* What the engine's calls do.                                              *)

Poisoned(e) == [e EXCEPT !.poisoned = TRUE]
Alive(e) == e.open /\ ~e.poisoned
Same(e, f) == f = e \/ f = Poisoned(e)

LEMMA OutcomeIs ==
    ASSUME NEW f, NEW r
    PROVE  Outcome(f, r).engine = f /\ Outcome(f, r).result = r
BY DEF Outcome

LEMMA ReadOutcome ==
    ASSUME NEW e \in Engines, NEW out \in with_db(e, read(e))
    PROVE  Same(e, out.engine)
BY OutcomeIs DEF with_db, read, Ok, Err, Fatal, Same, Poisoned

LEMMA CloseOutcome ==
    ASSUME NEW e \in Engines, NEW out \in native_close(e)
    PROVE  out.engine = e \/ out.engine = [Ended(e) EXCEPT !.open = FALSE]
BY OutcomeIs DEF native_close, take, Ok

LEMMA BeginOutcome ==
    ASSUME NEW e \in Engines, NEW out \in with_db(e, begin(e))
    PROVE  \/ out.result # "Ok" /\ out.engine = e
           \/ /\ out.result = "Ok" /\ Alive(e) /\ e.txn = 0
              /\ out.engine = [e EXCEPT !.txn = e.begun + 1, !.begun = e.begun + 1]
BY OutcomeIs DEF with_db, begin, Ok, Err, Alive

LEMMA CommitOutcome ==
    ASSUME NEW e \in Engines, NEW out \in with_db(e, commit(e))
    PROVE  \/ out.result # "Ok" /\ Same(e, out.engine)
           \/ /\ out.result = "Ok" /\ Alive(e) /\ e.txn # 0
              /\ out.engine = [Ended(e) EXCEPT !.durable = e.durable \union e.work]
BY OutcomeIs DEF with_db, commit, Ok, Err, Fatal, Alive, Same, Poisoned

LEMMA RollbackOutcome ==
    ASSUME NEW e \in Engines, NEW out \in with_db(e, rollback(e))
    PROVE  \/ out.engine = e /\ (Alive(e) => e.txn = 0)
           \/ out.engine = Poisoned(e)
           \/ Alive(e) /\ out.engine = Ended(e)
BY OutcomeIs DEF with_db, rollback, Ok, Err, Fatal, Alive, Poisoned

LEMMA WriteOutcome ==
    ASSUME NEW e \in Engines, NEW w, NEW out \in with_db(e, write(e, {w}))
    PROVE  \/ out.result # "Ok" /\ Same(e, out.engine)
           \/ /\ out.result = "Ok" /\ Alive(e) /\ e.txn # 0
              /\ out.engine = [e EXCEPT !.work = e.work \union {w}]
BY OutcomeIs DEF with_db, write, Ok, Err, Fatal, Alive, Same, Poisoned

LEMMA SavepointOutcome ==
    ASSUME NEW e \in Engines, NEW name, NEW out \in with_db(e, savepoint(e, name))
    PROVE  \/ out.result # "Ok" /\ out.engine = e
           \/ /\ out.result = "Ok" /\ Alive(e) /\ e.txn # 0 /\ ~HasMark(e, name)
              /\ out.engine = [e EXCEPT !.made = e.made + 1,
                                 !.marks = Append(e.marks, [name |-> name, id |-> e.made + 1,
                                                            work |-> e.work])]
BY OutcomeIs DEF with_db, savepoint, Ok, Err, Alive

\* Only the savepoints below the one called name are left.
Released(e, name) == [e EXCEPT !.marks = SubSeq(e.marks, 1, MarkIndex(e, name) - 1)]

LEMMA ReleaseOutcome ==
    ASSUME NEW e \in Engines, NEW name, NEW out \in with_db(e, release(e, name))
    PROVE  \/ /\ out.result # "Ok" /\ out.engine = e
              /\ Alive(e) => e.txn = 0 \/ ~HasMark(e, name)
           \/ /\ out.result = "Ok" /\ Alive(e) /\ e.txn # 0 /\ HasMark(e, name)
              /\ out.engine = Released(e, name)
BY OutcomeIs DEF with_db, release, Ok, Err, Alive, Released

LEMMA RollbackToOutcome ==
    ASSUME NEW e \in Engines, NEW name, NEW out \in with_db(e, rollback_to(e, name))
    PROVE  \/ /\ out.engine = e
              /\ Alive(e) => e.txn = 0 \/ ~HasMark(e, name)
           \/ out.engine = Poisoned(e)
           \/ /\ Alive(e) /\ e.txn # 0 /\ HasMark(e, name)
              /\ \/ out.engine = [e EXCEPT !.work = e.marks[MarkIndex(e, name)].work]
                 \/ out.engine = [[e EXCEPT !.work = e.marks[MarkIndex(e, name)].work]
                                    EXCEPT !.marks = SubSeq(e.marks, 1, MarkIndex(e, name))]
BY OutcomeIs DEF with_db, rollback_to, Ok, Err, Fatal, Alive, Poisoned

-----------------------------------------------------------------------------
(* Closures and savepoints.                                                 *)

LEMMA CutIs ==
    ASSUME NEW S, NEW s \in Seq(S), NEW n \in Nat, n <= Len(s)
    PROVE  /\ SubSeq(s, 1, n) \in Seq(S) /\ Len(SubSeq(s, 1, n)) = n
           /\ \A i \in 1..n : SubSeq(s, 1, n)[i] = s[i] /\ s[i] \in S
<1>1. \A i \in 1..n : s[i] \in S
  OBVIOUS
<1> QED
  BY <1>1, SubSeqProperties

\* Frame f, charged with the writes W.
Charged(f, W) == [f EXCEPT !.wrote = f.wrote \union W]

LEMMA ChargedIs ==
    ASSUME NEW f \in Frames, NEW W \in SUBSET Writes
    PROVE  /\ Charged(f, W) \in Frames /\ Charged(f, W).kind = f.kind
           /\ Charged(f, W).wrote = f.wrote \union W
           /\ f.kind = "transaction" => Charged(f, W).txn = f.txn
           /\ f.kind = "savepoint" => Charged(f, W).name = f.name
<1>1. CASE f \in [kind : {"transaction"}, txn : Transactions, wrote : SUBSET Writes]
  BY <1>1 DEF Frames, Charged
<1>2. CASE f \in [kind : {"savepoint"}, name : Names, wrote : SUBSET Writes]
  BY <1>2 DEF Frames, Charged
<1> QED
  BY <1>1, <1>2 DEF Frames

LEMMA FrameIs ==
    ASSUME NEW f \in Frames
    PROVE  /\ f.wrote \subseteq Writes /\ f.kind \in {"transaction", "savepoint"}
           /\ f.kind = "transaction" => f.txn \in Transactions
           /\ f.kind = "savepoint" => f.name \in Names
BY DEF Frames

\* The innermost closure, and the transaction's when it is the innermost.
LEMMA TopIs ==
    ASSUME Shape, frames # <<>>
    PROVE  /\ Len(frames) \in Nat \ {0} /\ Top = frames[Len(frames)] /\ Top \in Frames
           /\ frames[1] \in Frames /\ frames[1].txn \in Transactions
           /\ Top.kind = "transaction" => Len(frames) = 1
           /\ Top.kind = "savepoint" => Len(frames) > 1
<1>1. Len(frames) \in Nat \ {0}
  BY DEF Shape
<1>2. frames[1] \in Frames /\ Top \in Frames
  BY <1>1 DEF Shape, Top
<1>3. frames[1].kind = "transaction" /\ (Top.kind = "transaction" <=> Len(frames) = 1)
  <2>1. \A i \in 1..Len(frames) : frames[i].kind = "transaction" <=> i = 1
    BY DEF Shape
  <2>2. PICK n \in Nat \ {0} : n = Len(frames)
    BY <1>1
  <2>3. 1 \in 1..n /\ n \in 1..n
    OBVIOUS
  <2> QED
    BY <2>1, <2>2, <2>3 DEF Top
<1> QED
  BY <1>1, <1>2, <1>3, FrameIs DEF Top

\* What Pop leaves: the closures around the innermost, the next one charged with
\* its writes.
LEMMA PopIs ==
    ASSUME Shape, frames # <<>>, Pop
    PROVE  /\ frames' \in Seq(Frames) /\ Len(frames') = Len(frames) - 1
           /\ \A i \in 1..Len(frames') :
                 /\ i \in 1..Len(frames) /\ frames'[i].kind = frames[i].kind
                 /\ frames[i].kind = "transaction" => frames'[i].txn = frames[i].txn
                 /\ frames[i].kind = "savepoint" => frames'[i].name = frames[i].name
                 /\ \/ frames'[i].wrote = frames[i].wrote
                    \/ frames'[i].wrote = frames[i].wrote \union Top.wrote
<1> DEFINE outer == SubSeq(frames, 1, Len(frames) - 1)
<1>1. /\ Len(frames) \in Nat \ {0} /\ Top.wrote \in SUBSET Writes
      /\ frames \in Seq(Frames)
  BY TopIs, FrameIs DEF Shape
<1>2. /\ outer \in Seq(Frames) /\ Len(outer) = Len(frames) - 1
      /\ \A i \in 1..Len(outer) : outer[i] = frames[i] /\ outer[i] \in Frames
  <2>1. PICK m \in Nat : m = Len(frames) - 1 /\ m <= Len(frames)
    <3>1. Len(frames) - 1 \in Nat /\ Len(frames) - 1 <= Len(frames)
      BY <1>1
    <3> QED
      BY ZenonT(30), <3>1
  <2>2. /\ SubSeq(frames, 1, m) \in Seq(Frames) /\ Len(SubSeq(frames, 1, m)) = m
        /\ \A i \in 1..m : SubSeq(frames, 1, m)[i] = frames[i] /\ frames[i] \in Frames
    BY <1>1, <2>1, CutIs
  <2>3. outer = SubSeq(frames, 1, m)
    BY <2>1
  <2> HIDE DEF outer
  <2> QED
    BY <2>1, <2>2, <2>3
<1>3. CASE outer = <<>>
  <2>1. frames' = <<>> /\ Len(frames') = 0
    BY ZenonT(30), <1>3 DEF Pop
  <2> HIDE DEF outer
  <2>2. Len(outer) = 0
    BY <1>3
  <2>3. Len(frames) - 1 = 0 /\ frames' \in Seq(Frames)
    BY <1>2, <2>1, <2>2
  <2> QED
    BY <2>1, <2>3
<1>4. CASE outer # <<>>
  <2>1. frames' = [outer EXCEPT ![Len(outer)].wrote = @ \union Top.wrote]
    BY SMTT(30), <1>4 DEF Pop
  <2>2. PICK n \in Nat \ {0} : n = Len(outer)
    BY <1>2, <1>4
  <2> HIDE DEF outer
  <2> DEFINE g == Charged(outer[n], Top.wrote)
  <2>3. /\ g \in Frames /\ g.kind = outer[n].kind
        /\ g.wrote = outer[n].wrote \union Top.wrote
        /\ outer[n].kind = "transaction" => g.txn = outer[n].txn
        /\ outer[n].kind = "savepoint" => g.name = outer[n].name
    <3>1. outer[n] \in Frames
      BY <1>2, <2>2
    <3> QED
      BY <1>1, <3>1, ChargedIs
  <2>4. frames' = [outer EXCEPT ![n] = g]
    BY <2>1, <2>2 DEF Charged
  <2> HIDE DEF g
  <2>5. frames' \in Seq(Frames) /\ Len(frames') = n
    BY <1>2, <2>2, <2>3, <2>4
  <2>6. \A i \in 1..n : frames'[i] = IF i = n THEN g ELSE outer[i]
    BY <1>2, <2>2, <2>4
  <2> QED
    BY <1>1, <1>2, <2>2, <2>3, <2>5, <2>6
<1> QED
  BY <1>3, <1>4

LEMMA LastMark ==
    ASSUME NEW e \in Engines, NEW name, NEW k \in Nat \ {0}, k = Len(e.marks),
           e.marks[k].name = name,
           \A i, j \in 1..k : e.marks[i].name = e.marks[j].name => i = j
    PROVE  HasMark(e, name) /\ MarkIndex(e, name) = k
<1>1. e.marks \in Seq(Marks) /\ DOMAIN e.marks = 1..k
  BY DEF Engines
<1>2. IsMark(e, name, k) /\ \A i \in DOMAIN e.marks : IsMark(e, name, i) => i = k
  BY <1>1 DEF IsMark
<1> QED
  BY <1>1, <1>2 DEF HasMark, MarkIndex

-----------------------------------------------------------------------------
(* Every step keeps the invariant.                                          *)

LEMMA SameIs ==
    ASSUME NEW e \in Engines, NEW f, Same(e, f)
    PROVE  /\ f \in Engines /\ f.txn = e.txn /\ f.begun = e.begun /\ f.made = e.made
           /\ f.marks = e.marks /\ f.durable = e.durable
           /\ f.open /\ ~f.poisoned => f = e
BY ZenonT(30) DEF Same, Poisoned, Engines

LEMMA EndedIs ==
    ASSUME NEW e \in Engines
    PROVE  /\ Ended(e) \in Engines /\ Ended(e).txn = 0 /\ Ended(e).begun = e.begun
           /\ Ended(e).made = e.made /\ Ended(e).marks = <<>> /\ Ended(e).work = {}
           /\ Ended(e).durable = e.durable
<1>1. <<>> \in Seq(Marks) /\ {} \in SUBSET Writes /\ 0 \in Nat
  OBVIOUS
<1> QED
  BY ZenonT(30), <1>1 DEF Ended, Engines

LEMMA ClosedIs ==
    ASSUME NEW e \in Engines, NEW f, f = [Ended(e) EXCEPT !.open = FALSE]
    PROVE  /\ f \in Engines /\ f.txn = 0 /\ f.begun = e.begun /\ f.made = e.made
           /\ f.marks = <<>> /\ f.durable = e.durable /\ ~f.open
<1>1. Ended(e) \in Engines
  BY EndedIs
<1> HIDE DEF Ended
<1>2. /\ f \in Engines /\ f.txn = Ended(e).txn /\ f.begun = Ended(e).begun
      /\ f.made = Ended(e).made /\ f.marks = Ended(e).marks
      /\ f.durable = Ended(e).durable /\ f.open = FALSE
  BY ZenonT(30), <1>1 DEF Engines
<1> QED
  BY <1>2, EndedIs

\* A step that leaves the closures alone, and the engine too if it stays usable.
LEMMA KeepsQuiet ==
    ASSUME SwiftInv,
           engine' \in Engines, engine'.txn <= engine'.begun,
           engine'.begun = engine.begun, engine'.made = engine.made,
           engine'.durable = engine.durable,
           engine'.marks = engine.marks \/ engine'.marks = <<>>,
           Usable' => engine' = engine,
           UNCHANGED <<frames, finished, doomed>>,
           call' \in [Calls -> CallStates], next' \in 1..(MaxCalls + 1),
           throwing' \in BOOLEAN, throwing' => frames # <<>>, OneAtATime'
    PROVE  SwiftInv'
<1>1. Shape'
  <2>1. \A i \in 1..Len(engine'.marks) : engine'.marks[i].id <= engine'.made
    BY DEF SwiftInv, Shape
  <2> QED
    BY <2>1 DEF SwiftInv, Shape
<1>2. OthersFinished' /\ DurableApart'
  BY DEF SwiftInv, OthersFinished, DurableApart
<1>3. Usable' => Usable
  BY DEF Usable
<1>4. MarksAreScopes'
  BY <1>3 DEF SwiftInv, MarksAreScopes
<1>5. WorkApart'
  BY <1>3 DEF SwiftInv, WorkApart
<1> QED
  BY <1>1, <1>2, <1>4, <1>5 DEF SwiftInv

\* The same for an engine that a refused call has left alone or poisoned.
LEMMA KeepsRefused ==
    ASSUME SwiftInv, Same(engine, engine'),
           UNCHANGED <<frames, finished, doomed>>,
           call' \in [Calls -> CallStates], next' \in 1..(MaxCalls + 1),
           throwing' \in BOOLEAN, throwing' => frames # <<>>, OneAtATime'
    PROVE  SwiftInv'
<1>1. engine \in Engines /\ engine.txn <= engine.begun
  BY DEF SwiftInv, Shape
<1>2. /\ engine' \in Engines /\ engine'.txn = engine.txn /\ engine'.begun = engine.begun
      /\ engine'.made = engine.made /\ engine'.marks = engine.marks
      /\ engine'.durable = engine.durable
      /\ engine'.open /\ ~engine'.poisoned => engine' = engine
  BY <1>1, SameIs
<1>3. Usable' => engine' = engine
  BY <1>2 DEF Usable
<1> QED
  BY <1>1, <1>2, <1>3, KeepsQuiet

\* The same for a body that goes on on the queue.
LEMMA KeepsBody ==
    ASSUME SwiftInv, Same(engine, engine'), frames # <<>>,
           UNCHANGED <<frames, finished, doomed, call, next>>, throwing' \in BOOLEAN
    PROVE  SwiftInv'
<1>1. call' \in [Calls -> CallStates] /\ next' \in 1..(MaxCalls + 1)
  BY DEF SwiftInv, Shape
<1>2. engine'.begun = engine.begun
  BY SameIs DEF SwiftInv, Shape
<1>3. OneAtATime'
  BY <1>2 DEF SwiftInv, OneAtATime
<1> QED
  BY <1>1, <1>3, KeepsRefused

LEMMA ResumeIs ==
    ASSUME Shape, next \in Calls, call[next] # NotMade, Resume
    PROVE  /\ call' \in [Calls -> CallStates] /\ next' = next + 1
           /\ next' \in 1..(MaxCalls + 1)
<1>1. call[next] \in [kind : Kinds, at : {"queued", "running", "resumed"}]
  BY DEF Shape, CallStates
<1>2. [call[next] EXCEPT !.at = "resumed"] \in CallStates
  BY <1>1 DEF CallStates
<1>3. call' \in [Calls -> CallStates]
  BY <1>2 DEF Resume, Shape
<1>4. MaxCalls \in Nat
  BY CallBound
<1> QED
  BY <1>3, <1>4 DEF Resume, Calls

LEMMA QueuedIs ==
    ASSUME NEW kind \in Kinds, Queued(kind)
    PROVE  next \in Calls /\ call[next] # NotMade /\ frames = <<>>
BY DEF Queued, NotMade

LEMMA KeepsSubmit ==
    ASSUME SwiftInv, NEW c \in Calls, NEW kind \in Kinds, Submit(c, kind)
    PROVE  SwiftInv'
<1>1. /\ call' = [call EXCEPT ![c] = [kind |-> kind, at |-> "queued"]]
      /\ UNCHANGED <<engine, next, frames, throwing, finished, doomed>>
  BY DEF Submit
<1>2. call' \in [Calls -> CallStates] /\ call'[c] # NotMade
  BY <1>1 DEF SwiftInv, Shape, CallStates, NotMade
<1>3. OneAtATime'
  BY <1>1, <1>2 DEF SwiftInv, OneAtATime, Shape
<1>4. /\ next' \in 1..(MaxCalls + 1) /\ throwing' \in BOOLEAN
      /\ throwing' => frames # <<>>
  BY <1>1 DEF SwiftInv, Shape
<1>5. Same(engine, engine')
  BY <1>1 DEF Same
<1> QED
  BY <1>1, <1>2, <1>3, <1>4, <1>5, KeepsRefused

\* A call that runs on the queue without a closure of its own.
LEMMA ResumedKeeps ==
    ASSUME SwiftInv, NEW kind \in Kinds, Queued(kind), Resume,
           engine'.begun = engine.begun, UNCHANGED <<frames, throwing>>
    PROVE  /\ call' \in [Calls -> CallStates] /\ next' \in 1..(MaxCalls + 1)
           /\ throwing' \in BOOLEAN /\ (throwing' => frames # <<>>) /\ OneAtATime'
<1>1. next \in Calls /\ call[next] # NotMade /\ frames = <<>>
  BY QueuedIs
<1>2. /\ call' \in [Calls -> CallStates] /\ next' = next + 1
      /\ next' \in 1..(MaxCalls + 1)
  BY <1>1, ResumeIs DEF SwiftInv
<1>3. engine.begun \in Nat /\ next \in Nat /\ engine.begun < next
  BY <1>1, CallBound DEF SwiftInv, Shape, Engines, OneAtATime
<1>4. OneAtATime'
  BY <1>1, <1>2, <1>3 DEF OneAtATime
<1> QED
  BY <1>1, <1>2, <1>4 DEF SwiftInv, Shape

LEMMA KeepsFlat ==
    ASSUME SwiftInv, Flat
    PROVE  SwiftInv'
<1>1. engine \in Engines
  BY DEF SwiftInv, Shape
<1>2. PICK out \in with_db(engine, read(engine)) : engine' = out.engine
  BY DEF Flat
<1>3. Same(engine, engine')
  BY <1>1, <1>2, ReadOutcome
<1>4. /\ Queued("flat") /\ "flat" \in Kinds /\ Resume
      /\ UNCHANGED <<frames, throwing, finished, doomed>>
  BY DEF Flat, Kinds
<1>5. engine'.begun = engine.begun
  BY <1>1, <1>3, SameIs
<1> QED
  BY <1>3, <1>4, <1>5, ResumedKeeps, KeepsRefused

LEMMA ClosingIs ==
    ASSUME SwiftInv, NEW out \in native_close(engine), engine' = out.engine
    PROVE  /\ engine' \in Engines /\ engine'.txn <= engine'.begun
           /\ engine'.begun = engine.begun /\ engine'.made = engine.made
           /\ engine'.durable = engine.durable
           /\ engine'.marks = engine.marks \/ engine'.marks = <<>>
           /\ Usable' => engine' = engine
<1>1. engine \in Engines /\ engine.txn <= engine.begun /\ engine.begun \in Nat
  BY DEF SwiftInv, Shape, Engines
<1>2. CASE engine' = engine
  BY <1>1, <1>2
<1>3. CASE engine' = [Ended(engine) EXCEPT !.open = FALSE]
  <2>1. /\ engine' \in Engines /\ engine'.txn = 0 /\ engine'.begun = engine.begun
        /\ engine'.made = engine.made
        /\ engine'.marks = <<>> /\ engine'.durable = engine.durable /\ ~engine'.open
    BY ZenonT(30), <1>1, <1>3, ClosedIs
  <2> QED
    BY <1>1, <2>1 DEF Usable
<1> QED
  BY <1>1, <1>2, <1>3, CloseOutcome

LEMMA KeepsClose ==
    ASSUME SwiftInv, Close
    PROVE  SwiftInv'
<1>1. PICK out \in native_close(engine) : engine' = out.engine
  BY DEF Close
<1>2. /\ Queued("close") /\ "close" \in Kinds /\ Resume
      /\ UNCHANGED <<frames, throwing, finished, doomed>>
  BY DEF Close, Kinds
<1> QED
  BY <1>1, <1>2, ClosingIs, ResumedKeeps, KeepsQuiet

LEMMA KeepsCloseInBody ==
    ASSUME SwiftInv, CloseInBody
    PROVE  SwiftInv'
<1>1. PICK out \in native_close(engine) : engine' = out.engine
  BY DEF CloseInBody
<1>2. frames # <<>> /\ UNCHANGED <<call, next, frames, throwing, finished, doomed>>
  BY DEF CloseInBody, InBody
<1>3. OneAtATime'
  BY <1>1, <1>2, ClosingIs DEF SwiftInv, OneAtATime
<1>4. /\ call' \in [Calls -> CallStates] /\ next' \in 1..(MaxCalls + 1)
      /\ throwing' \in BOOLEAN
  BY <1>2 DEF SwiftInv, Shape
<1> QED
  BY <1>1, <1>2, <1>3, <1>4, ClosingIs, KeepsQuiet

\* A transaction closure begins on an idle queue.
LEMMA KeepsTransaction ==
    ASSUME SwiftInv, Transaction
    PROVE  SwiftInv'
<1>1. /\ Queued("transaction") /\ "transaction" \in Kinds
      /\ UNCHANGED <<throwing, finished, doomed>>
  BY DEF Transaction, Kinds
<1>2. next \in Calls /\ call[next] # NotMade /\ frames = <<>>
  BY <1>1, QueuedIs
<1>3. /\ engine \in Engines /\ engine.begun \in Nat /\ MaxCalls \in Nat /\ MaxTxn \in Nat
      /\ MaxCalls <= MaxTxn
  BY CallBound, SlotBounds DEF SwiftInv, Shape, Engines
<1>4. PICK out \in with_db(engine, begin(engine)) :
         \/ /\ out.result = "Ok" /\ Begin(out)
            /\ call' = [call EXCEPT ![next].at = "running"]
            /\ UNCHANGED next
         \/ /\ out.result # "Ok" /\ engine' = out.engine
            /\ Resume /\ UNCHANGED frames
  BY DEF Transaction
<1>5. CASE out.result # "Ok"
  <2>1. engine' = engine /\ Resume /\ UNCHANGED frames
    BY ZenonT(30), <1>3, <1>4, <1>5, BeginOutcome
  <2>2. Same(engine, engine') /\ engine'.begun = engine.begun
    BY <2>1 DEF Same
  <2> QED
    BY <1>1, <2>1, <2>2, ResumedKeeps, KeepsRefused
<1>6. CASE out.result = "Ok"
  <2>1. /\ Alive(engine)
        /\ engine' = [engine EXCEPT !.txn = engine.begun + 1, !.begun = engine.begun + 1]
        /\ Push([kind |-> "transaction", txn |-> engine'.txn, wrote |-> {}])
        /\ call' = [call EXCEPT ![next].at = "running"] /\ next' = next
    BY ZenonT(30), <1>3, <1>4, <1>6, BeginOutcome DEF Begin
  <2> DEFINE x == engine.begun + 1
  <2>2. /\ engine' \in Engines /\ engine'.txn = x /\ engine'.begun = x
        /\ engine'.open = engine.open /\ engine'.poisoned = engine.poisoned
        /\ engine'.marks = engine.marks /\ engine'.made = engine.made
        /\ engine'.work = engine.work /\ engine'.durable = engine.durable
    <3>1. x \in Nat /\ engine' = [engine EXCEPT !.txn = x, !.begun = x]
      BY <1>3, <2>1
    <3> HIDE DEF x
    <3> QED
      BY ZenonT(30), <1>3, <3>1 DEF Engines
  <2>3. x \in Transactions /\ x <= next
    BY <1>2, <1>3 DEF SwiftInv, Shape, OneAtATime, Transactions, Calls
  <2>4. frames' = <<[kind |-> "transaction", txn |-> x, wrote |-> {}]>>
    BY <1>2, <2>1, <2>2 DEF Push
  <2>5. /\ frames' \in Seq(Frames) /\ Len(frames') = 1 /\ frames'[1].kind = "transaction"
        /\ frames'[1].txn = x /\ frames'[1].wrote = {} /\ frames' # <<>>
    BY <2>3, <2>4 DEF Frames
  <2>6. call' \in [Calls -> CallStates] /\ call'[next] # NotMade
    <3>1. call[next] \in [kind : Kinds, at : {"queued", "running", "resumed"}]
      BY <1>2 DEF SwiftInv, Shape, CallStates
    <3>2. /\ [call[next] EXCEPT !.at = "running"] \in CallStates
          /\ [call[next] EXCEPT !.at = "running"].at = "running"
      BY <3>1 DEF CallStates
    <3>3. call'[next] = [call[next] EXCEPT !.at = "running"]
      BY <1>2, <2>1 DEF SwiftInv, Shape
    <3> QED
      BY <1>2, <2>1, <3>2, <3>3 DEF SwiftInv, Shape, NotMade
  <2> HIDE DEF x
  <2>7. x \in Nat /\ \A y \in 1..x : y \in 1..engine.begun \/ y = x
    BY <1>3 DEF x
  <2>8. Shape'
    BY <1>1, <2>1, <2>2, <2>5, <2>6, <2>7 DEF SwiftInv, Shape
  <2>9. OneAtATime' /\ OthersFinished'
    BY <1>1, <1>2, <2>1, <2>2, <2>3, <2>5, <2>6, <2>7 DEF SwiftInv, OneAtATime, OthersFinished
  <2>10. engine.marks = <<>> /\ engine.work \intersect doomed = {}
    BY <1>2, <1>3, <2>1 DEF SwiftInv, MarksAreScopes, WorkApart, Usable, Alive, Engines
  <2>11. MarksAreScopes' /\ WorkApart'
    BY <1>1, <2>2, <2>5, <2>10 DEF MarksAreScopes, WorkApart
  <2>12. DurableApart'
    BY <1>1, <2>2, <2>5 DEF SwiftInv, DurableApart
  <2> QED
    BY SMTT(30), <2>8, <2>9, <2>11, <2>12 DEF SwiftInv
<1> QED
  BY <1>5, <1>6

\* While a closure runs the engine is in its transaction, so begin is refused.
LEMMA InTransaction ==
    ASSUME SwiftInv, frames # <<>>, Alive(engine)
    PROVE  engine.txn \in Nat \ {0} /\ engine.txn = frames[1].txn
<1>1. frames[1].txn \in Transactions
  BY TopIs DEF SwiftInv
<1>2. engine.txn = frames[1].txn
  BY DEF SwiftInv, MarksAreScopes, Usable, Alive
<1> QED
  BY <1>1, <1>2, SlotBounds DEF Transactions

LEMMA KeepsNestedTransaction ==
    ASSUME SwiftInv, NestedTransaction
    PROVE  SwiftInv'
<1>1. frames # <<>> /\ UNCHANGED <<call, next, finished, doomed>> /\ throwing \in BOOLEAN
  BY DEF NestedTransaction, InBody, SwiftInv, Shape
<1>2. PICK out \in with_db(engine, begin(engine)) :
         \/ out.result = "Ok" /\ Begin(out) /\ UNCHANGED throwing
         \/ out.result # "Ok" /\ engine' = out.engine /\ throwing' = TRUE /\ UNCHANGED frames
  BY SMTT(30) DEF NestedTransaction
<1>3. out.result # "Ok" /\ out.engine = engine
  BY ZenonT(30), <1>1, InTransaction, BeginOutcome DEF SwiftInv, Shape
<1>4. Same(engine, engine') /\ UNCHANGED frames /\ throwing' \in BOOLEAN
  BY ZenonT(30), <1>2, <1>3 DEF Same
<1> QED
  BY <1>1, <1>4, KeepsBody

LEMMA KeepsThrow ==
    ASSUME SwiftInv, Throw
    PROVE  SwiftInv'
<1>1. /\ frames # <<>> /\ throwing' \in BOOLEAN
      /\ UNCHANGED <<engine, call, next, frames, finished, doomed>>
  BY DEF Throw, InBody
<1>2. Same(engine, engine')
  BY <1>1 DEF Same
<1> QED
  BY <1>1, <1>2, KeepsBody

\* Both ways out of a transaction closure leave the queue idle.
LEMMA KeepsEnd ==
    ASSUME SwiftInv, frames # <<>>, Top.kind = "transaction", Pop, Resume,
           finished' = finished \union {Top.txn}, throwing' = FALSE,
           engine' \in Engines, engine'.begun = engine.begun, engine'.made = engine.made,
           engine'.txn <= engine'.begun,
           engine'.marks = <<>> \/ (engine'.marks = engine.marks /\ ~Usable'),
           Usable' => engine'.txn = 0 /\ engine'.work = {},
           doomed' \in SUBSET Writes, engine'.durable \intersect doomed' = {}
    PROVE  SwiftInv'
<1>1. /\ Len(frames) = 1 /\ Top = frames[1] /\ frames[1].txn \in Transactions
      /\ next \in Calls /\ call[next] # NotMade
  BY ZenonT(30), TopIs DEF SwiftInv, OneAtATime
<1>2. frames' = <<>> /\ Len(frames') = 0
  BY <1>1, PopIs DEF SwiftInv
<1>3. /\ call' \in [Calls -> CallStates] /\ next' = next + 1
      /\ next' \in 1..(MaxCalls + 1)
  BY <1>1, ResumeIs DEF SwiftInv
<1>4. Shape'
  <2>1. \A i \in 1..Len(engine'.marks) : engine'.marks[i].id <= engine'.made
    BY DEF SwiftInv, Shape
  <2>2. finished' \subseteq Transactions /\ engine.made <= MaxMarks
    BY <1>1 DEF SwiftInv, Shape
  <2>3. /\ frames' \in Seq(Frames)
        /\ \A i \in 1..Len(frames') : frames'[i].kind = "transaction" <=> i = 1
    BY <1>2
  <2> QED
    BY ZenonT(30), <1>3, <2>1, <2>2, <2>3 DEF Shape
<1>5. engine.begun \in Nat /\ next \in Nat /\ engine.begun <= next
  BY CallBound DEF SwiftInv, Shape, OneAtATime, Engines
<1>6. OneAtATime'
  BY <1>2, <1>3, <1>5 DEF OneAtATime
<1>7. OthersFinished'
  BY <1>1 DEF SwiftInv, OthersFinished
<1>8. Usable' => engine'.marks = <<>> /\ Len(engine'.marks) = 0
  OBVIOUS
<1>9. MarksAreScopes' /\ WorkApart'
  BY <1>2, <1>8 DEF MarksAreScopes, WorkApart
<1>10. DurableApart'
  BY <1>2 DEF DurableApart
<1> QED
  BY <1>4, <1>6, <1>7, <1>9, <1>10 DEF SwiftInv

LEMMA KeepsCommitAtEnd ==
    ASSUME SwiftInv, CommitAtEnd
    PROVE  SwiftInv'
<1>1. frames # <<>> /\ Top.kind = "transaction" /\ ~throwing /\ doomed' = doomed
  BY DEF CommitAtEnd, InBody
<1>2. /\ engine \in Engines /\ engine.begun \in Nat /\ throwing = FALSE
      /\ doomed \in SUBSET Writes
  BY <1>1 DEF SwiftInv, Shape, Engines
<1>3. PICK out \in with_db(engine, commit(engine)) :
         /\ engine' = out.engine
         /\ \/ /\ out.result = "Ok"
               /\ finished' = finished \union {Top.txn}
               /\ Pop /\ Resume /\ UNCHANGED throwing
            \/ /\ out.result # "Ok"
               /\ throwing' = TRUE
               /\ UNCHANGED <<call, next, frames, finished>>
  BY DEF CommitAtEnd
<1>4. CASE out.result # "Ok"
  <2>1. Same(engine, engine')
    BY ZenonT(30), <1>2, <1>3, <1>4, CommitOutcome
  <2> QED
    BY ZenonT(30), <1>1, <1>3, <1>4, <2>1, KeepsBody
<1>5. CASE out.result = "Ok"
  <2>1. /\ Alive(engine)
        /\ engine' = [Ended(engine) EXCEPT !.durable = engine.durable \union engine.work]
        /\ finished' = finished \union {Top.txn} /\ Pop /\ Resume /\ throwing' = FALSE
    BY <1>2, <1>3, <1>5, CommitOutcome
  <2>2. /\ engine' \in Engines /\ engine'.begun = engine.begun /\ engine'.made = engine.made
        /\ engine'.txn = 0 /\ engine'.marks = <<>> /\ engine'.work = {}
        /\ engine'.durable = engine.durable \union engine.work
    <3>1. /\ Ended(engine) \in Engines
          /\ engine.durable \union engine.work \in SUBSET Writes
      BY <1>2, EndedIs DEF Engines
    <3>2. /\ engine' \in Engines /\ engine'.begun = Ended(engine).begun
          /\ engine'.made = Ended(engine).made /\ engine'.txn = Ended(engine).txn
          /\ engine'.marks = Ended(engine).marks /\ engine'.work = Ended(engine).work
          /\ engine'.durable = engine.durable \union engine.work
      BY <2>1, <3>1 DEF Engines
    <3> QED
      BY <1>2, <3>2, EndedIs
  <2>3. engine'.durable \intersect doomed' = {}
    BY <1>1, <2>1, <2>2 DEF SwiftInv, DurableApart, WorkApart, Usable, Alive
  <2>4. engine'.txn <= engine'.begun
    BY <1>2, <2>2
  <2> QED
    BY ZenonT(30), <1>1, <1>2, <2>1, <2>2, <2>3, <2>4, KeepsEnd
<1> QED
  BY <1>4, <1>5

LEMMA KeepsCatchTransaction ==
    ASSUME SwiftInv, CatchTransaction
    PROVE  SwiftInv'
<1>1. /\ Top.kind = "transaction" /\ Pop /\ Resume /\ throwing' = FALSE
      /\ finished' = finished \union {Top.txn} /\ doomed' = doomed \union Top.wrote
      /\ throwing
  BY DEF CatchTransaction
<1>2. /\ frames # <<>> /\ engine \in Engines /\ engine.begun \in Nat
      /\ engine.txn <= engine.begun
  BY <1>1 DEF SwiftInv, Shape, Engines
<1>3. PICK out \in with_db(engine, rollback(engine)) : engine' = out.engine
  BY DEF CatchTransaction
<1>4. doomed' \in SUBSET Writes /\ engine.durable \intersect doomed' = {}
  BY <1>1, <1>2, TopIs, FrameIs DEF SwiftInv, Shape, DurableApart
<1>5. \/ engine' = engine /\ ~Alive(engine)
      \/ engine' = Poisoned(engine)
      \/ engine' = Ended(engine)
  BY <1>2, <1>3, RollbackOutcome, InTransaction
<1>6. /\ engine' \in Engines /\ engine'.begun = engine.begun /\ engine'.made = engine.made
      /\ engine'.durable = engine.durable /\ engine'.txn <= engine'.begun
      /\ engine'.marks = <<>> \/ (engine'.marks = engine.marks /\ ~Usable')
      /\ Usable' => engine'.txn = 0 /\ engine'.work = {}
  <2>1. CASE engine' = engine /\ ~Alive(engine)
    BY <1>2, <2>1 DEF Alive, Usable
  <2>2. CASE engine' = Poisoned(engine)
    BY ZenonT(30), <1>2, <2>2 DEF Poisoned, Usable, Engines
  <2>3. CASE engine' = Ended(engine)
    BY <1>2, <2>3, EndedIs
  <2> QED
    BY <1>5, <2>1, <2>2, <2>3
<1> QED
  BY ZenonT(30), <1>1, <1>2, <1>4, <1>6, KeepsEnd

\* A forwarder's write is charged to the innermost closure.
LEMMA KeepsForward ==
    ASSUME SwiftInv, NEW x, NEW w \in Writes, Forward(x, w)
    PROVE  SwiftInv'
<1>1. /\ frames # <<>> /\ w \in Unused
      /\ UNCHANGED <<call, next, throwing, finished, doomed>>
  BY DEF Forward, InBody
<1>2. /\ engine \in Engines /\ throwing \in BOOLEAN /\ frames \in Seq(Frames)
  BY DEF SwiftInv, Shape
<1>3. PICK out \in with_db(engine, write(engine, {w})) :
         /\ engine' = out.engine
         /\ frames' = IF out.result # "Ok" THEN frames
                      ELSE [frames EXCEPT ![Len(frames)].wrote = @ \union {w}]
  BY DEF Forward
<1>4. CASE out.result # "Ok"
  <2>1. Same(engine, engine') /\ frames' = frames
    BY ZenonT(30), <1>2, <1>3, <1>4, WriteOutcome
  <2> QED
    BY <1>1, <1>2, <2>1, KeepsBody
<1>5. CASE out.result = "Ok"
  <2>1. /\ Alive(engine) /\ engine' = [engine EXCEPT !.work = engine.work \union {w}]
        /\ frames' = [frames EXCEPT ![Len(frames)].wrote = @ \union {w}]
    BY ZenonT(30), <1>2, <1>3, <1>5, WriteOutcome
  <2>2. /\ engine' \in Engines /\ engine'.open = engine.open
        /\ engine'.poisoned = engine.poisoned
        /\ engine'.txn = engine.txn /\ engine'.begun = engine.begun
        /\ engine'.marks = engine.marks /\ engine'.made = engine.made
        /\ engine'.work = engine.work \union {w} /\ engine'.durable = engine.durable
    BY ZenonT(30), <1>2, <2>1 DEF Engines
  <2>3. PICK n \in Nat \ {0} : n = Len(frames)
    BY <1>1, TopIs DEF SwiftInv
  <2> DEFINE g == Charged(frames[n], {w})
  <2>4. /\ g \in Frames /\ g.kind = frames[n].kind /\ g.wrote = frames[n].wrote \union {w}
        /\ frames[n].kind = "transaction" => g.txn = frames[n].txn
        /\ frames[n].kind = "savepoint" => g.name = frames[n].name
    <3>1. frames[n] \in Frames /\ {w} \in SUBSET Writes
      BY <1>2, <2>3
    <3> QED
      BY <3>1, ChargedIs
  <2>5. frames' = [frames EXCEPT ![n] = g]
    BY <2>1, <2>3 DEF Charged
  <2> HIDE DEF g
  <2>6. /\ frames' \in Seq(Frames) /\ Len(frames') = n /\ frames' # <<>>
        /\ \A i \in 1..n : frames'[i] = IF i = n THEN g ELSE frames[i]
    BY <1>2, <2>3, <2>4, <2>5
  <2>7. \A i \in 1..n : /\ frames'[i].kind = frames[i].kind
                        /\ \/ frames'[i].wrote = frames[i].wrote
                           \/ i = n /\ frames'[i].wrote = frames[i].wrote \union {w}
                        /\ frames[i].kind = "savepoint" => frames'[i].name = frames[i].name
    BY <2>4, <2>6
  <2>8. frames[1].kind = "transaction" /\ frames'[1].txn = frames[1].txn
    BY SMTT(30), <2>3, <2>4, <2>6 DEF SwiftInv, Shape
  <2>9. Shape'
    BY SMTT(30), <1>1, <2>2, <2>3, <2>6, <2>7 DEF SwiftInv, Shape
  <2>10. OneAtATime' /\ OthersFinished'
    BY SMTT(30), <1>1, <2>2, <2>6, <2>8 DEF SwiftInv, OneAtATime, OthersFinished
  <2>11. /\ w \notin engine.work /\ w \notin engine.durable /\ w \notin doomed
    BY <1>1 DEF Unused
  <2>12. Usable /\ Len(engine.marks) = n - 1 /\ Len(engine.marks) \in Nat
    BY SMTT(30), <1>1, <2>1, <2>3 DEF SwiftInv, MarksAreScopes, Usable, Alive
  <2>13. \A i \in 1..(n - 1) : i + 1 \in 1..n /\ frames[i + 1].kind = "savepoint"
    BY SMTT(30), <1>2, <2>3, FrameIs DEF SwiftInv, Shape
  <2>14. MarksAreScopes'
    BY SMTT(30), <1>1, <2>2, <2>6, <2>7, <2>8, <2>12, <2>13 DEF SwiftInv, MarksAreScopes
  <2>15. DurableApart'
    BY SMTT(30), <1>1, <2>2, <2>3, <2>6, <2>7, <2>11 DEF SwiftInv, DurableApart
  <2>16. WorkApart'
    BY <1>1, <2>2, <2>3, <2>6, <2>7, <2>11, <2>12 DEF SwiftInv, WorkApart
  <2> QED
    BY <2>9, <2>10, <2>14, <2>15, <2>16 DEF SwiftInv
<1> QED
  BY <1>4, <1>5

\* A savepoint closure opens with the work so far as what it goes back to.
LEMMA KeepsOpenSavepoint ==
    ASSUME SwiftInv, NEW x, NEW name \in Names, OpenSavepoint(x, name)
    PROVE  SwiftInv'
<1>1. /\ frames # <<>> /\ engine.made < MaxMarks
      /\ UNCHANGED <<call, next, finished, doomed>>
  BY SMTT(30) DEF OpenSavepoint, InBody
<1>2. /\ engine \in Engines /\ throwing \in BOOLEAN /\ frames \in Seq(Frames)
      /\ engine.made \in Nat /\ MaxMarks \in Nat
  BY SMTT(30), SlotBounds DEF SwiftInv, Shape, Engines
<1>3. PICK out \in with_db(engine, savepoint(engine, name)) :
         /\ engine' = out.engine
         /\ \/ /\ out.result = "Ok" /\ UNCHANGED throwing
               /\ Push([kind |-> "savepoint", name |-> name, wrote |-> {}])
            \/ out.result # "Ok" /\ throwing' = TRUE /\ UNCHANGED frames
  BY DEF OpenSavepoint
<1>4. CASE out.result # "Ok"
  <2>1. Same(engine, engine') /\ frames' = frames /\ throwing' = TRUE
    BY ZenonT(30), <1>2, <1>3, <1>4, SavepointOutcome DEF Same
  <2> QED
    BY SMTT(30), <1>1, <2>1, KeepsBody
<1>5. CASE out.result = "Ok"
  <2> DEFINE mark == [name |-> name, id |-> engine.made + 1, work |-> engine.work]
             frame == [kind |-> "savepoint", name |-> name, wrote |-> {}]
  <2>1. /\ Alive(engine) /\ ~HasMark(engine, name)
        /\ engine' = [engine EXCEPT !.made = engine.made + 1, !.marks = Append(engine.marks, mark)]
        /\ frames' = Append(frames, frame) /\ throwing' = throwing
    BY ZenonT(30), <1>2, <1>3, <1>5, SavepointOutcome DEF Push
  <2>2. mark \in Marks /\ engine.marks \in Seq(Marks)
    BY SMTT(30), <1>1, <1>2 DEF Marks, MarkIds, Engines
  <2>3. /\ mark.name = name /\ mark.id = engine.made + 1 /\ mark.work = engine.work
        /\ frame \in Frames /\ frame.kind = "savepoint" /\ frame.name = name
        /\ frame.wrote = {}
    BY DEF Frames
  <2> HIDE DEF mark, frame
  <2>4. /\ engine' \in Engines /\ engine'.open = engine.open
        /\ engine'.poisoned = engine.poisoned
        /\ engine'.txn = engine.txn /\ engine'.begun = engine.begun
        /\ engine'.marks = Append(engine.marks, mark) /\ engine'.made = engine.made + 1
        /\ engine'.work = engine.work /\ engine'.durable = engine.durable
    <3>1. Append(engine.marks, mark) \in Seq(Marks) /\ engine.made + 1 \in Nat
      BY <1>2, <2>2
    <3> QED
      BY ZenonT(30), <1>2, <2>1, <3>1 DEF Engines
  <2>5. PICK n \in Nat \ {0} : n = Len(frames)
    BY <1>1, TopIs DEF SwiftInv
  <2>6. Usable /\ Len(engine.marks) = n - 1
    BY <1>1, <2>1, <2>5 DEF SwiftInv, MarksAreScopes, Usable, Alive
  <2>7. /\ frames' \in Seq(Frames) /\ Len(frames') = n + 1 /\ frames' # <<>>
        /\ \A i \in 1..n : frames'[i] = frames[i]
        /\ frames'[n + 1] = frame
    BY <1>2, <2>1, <2>3, <2>5
  <2>8. /\ Len(engine'.marks) = n /\ engine'.marks[n] = mark
        /\ \A i \in 1..(n - 1) : engine'.marks[i] = engine.marks[i]
    BY <2>2, <2>4, <2>5, <2>6
  <2>9. \A i \in 1..(n - 1) : engine.marks[i].name # name
    BY <2>1, <2>2, <2>6 DEF HasMark, IsMark
  <2>10. Shape'
    <3>1. \A i \in 1..Len(engine'.marks) : engine'.marks[i].id <= engine'.made
      <4> SUFFICES ASSUME NEW i \in 1..n PROVE engine'.marks[i].id <= engine'.made
        BY <2>8
      <4>1. CASE i = n
        BY SMTT(30), <1>2, <2>3, <2>4, <2>8, <4>1
      <4>2. CASE i \in 1..(n - 1)
        <5>1. engine.marks[i].id <= engine.made /\ engine.marks[i].id \in Nat
          <6>1. i \in 1..Len(engine.marks)
            BY <2>6, <4>2
          <6>2. engine.marks[i] \in Marks
            BY <2>2, <6>1
          <6>3. engine.marks[i].id \in MarkIds
            BY <6>2 DEF Marks
          <6> QED
            BY <6>1, <6>3, SlotBounds DEF SwiftInv, Shape, MarkIds
        <5> QED
          BY SMTT(30), <1>2, <2>4, <2>8, <4>2, <5>1
      <4> QED
        BY <4>1, <4>2
    <3>2. \A i \in 1..Len(frames') : frames'[i].kind = "transaction" <=> i = 1
      <4>1. \A i \in 1..n : frames[i].kind = "transaction" <=> i = 1
        BY <2>5 DEF SwiftInv, Shape
      <4>2. \A i \in 1..(n + 1) : i \in 1..n \/ i = n + 1
        OBVIOUS
      <4> QED
        BY SMTT(30), <2>3, <2>5, <2>7, <4>1, <4>2
    <3>3. engine'.made <= MaxMarks
      BY SMTT(30), <1>1, <1>2, <2>4
    <3> QED
      BY SMTT(30), <1>1, <2>1, <2>4, <2>7, <3>1, <3>2, <3>3 DEF SwiftInv, Shape
  <2>11. OneAtATime' /\ OthersFinished'
    BY <1>1, <2>4, <2>5, <2>7 DEF SwiftInv, OneAtATime, OthersFinished
  <2>12. \A i \in 1..n : i \in 1..(n - 1) \/ i = n
    BY SMTT(30)
  <2>13. MarksAreScopes'
    <3>1. \A i \in 1..n : engine'.marks[i].name = frames'[i + 1].name
      <4>1. \A i \in 1..(n - 1) : engine.marks[i].name = frames[i + 1].name /\ i + 1 \in 1..n
        BY <2>6 DEF SwiftInv, MarksAreScopes
      <4> QED
        BY ZenonT(30), <2>3, <2>7, <2>8, <2>12, <4>1
    <3>2. \A i, j \in 1..n : engine'.marks[i].name = engine'.marks[j].name => i = j
      <4>1. \A i, j \in 1..(n - 1) : engine.marks[i].name = engine.marks[j].name => i = j
        BY <2>6 DEF SwiftInv, MarksAreScopes
      <4> QED
        BY <2>3, <2>8, <2>9, <2>12, <4>1
    <3>3. engine'.txn = frames'[1].txn
      BY <1>1, <2>4, <2>5, <2>6, <2>7 DEF SwiftInv, MarksAreScopes
    <3>4. Len(engine'.marks) = Len(frames') - 1
      BY <2>7, <2>8
    <3> QED
      BY ZenonT(30), <2>7, <2>8, <3>1, <3>2, <3>3, <3>4 DEF MarksAreScopes
  <2>14. DurableApart'
    <3>1. \A i \in 1..(n + 1) : i \in 1..n \/ i = n + 1
      OBVIOUS
    <3> QED
      BY SMTT(30), <1>1, <2>3, <2>4, <2>5, <2>7, <3>1 DEF SwiftInv, DurableApart
  <2>15. WorkApart'
    <3>1. /\ engine.work \intersect doomed = {}
          /\ \A i \in 1..(n - 1) : engine.marks[i].work \subseteq engine.work
          /\ \A i, j \in 1..(n - 1) : i <= j => engine.marks[i].work \subseteq engine.marks[j].work
          /\ \A i \in 1..(n - 1), j \in 1..n :
                i < j => engine.marks[i].work \intersect frames[j].wrote = {}
      BY SMTT(30), <2>5, <2>6 DEF SwiftInv, WorkApart
    <3>2. \A i \in 1..n : engine'.marks[i].work \subseteq engine'.work
      BY <2>3, <2>4, <2>8, <2>12, <3>1
    <3>3. \A i, j \in 1..n : i <= j => engine'.marks[i].work \subseteq engine'.marks[j].work
      BY <2>3, <2>8, <2>12, <3>1
    <3>4. \A i \in 1..n, j \in 1..(n + 1) :
             i < j => engine'.marks[i].work \intersect frames'[j].wrote = {}
      <4> SUFFICES ASSUME NEW i \in 1..n, NEW j \in 1..(n + 1), i < j
                   PROVE  engine'.marks[i].work \intersect frames'[j].wrote = {}
        OBVIOUS
      <4>1. CASE j = n + 1
        BY <2>3, <2>7, <4>1
      <4>2. CASE j # n + 1
        <5>1. i \in 1..(n - 1) /\ j \in 1..n
          BY <4>2
        <5> QED
          BY <2>7, <2>8, <3>1, <5>1
      <4> QED
        BY <4>1, <4>2
    <3> QED
      BY SMTT(30), <1>1, <2>4, <2>7, <2>8, <3>1, <3>2, <3>3, <3>4 DEF WorkApart
  <2> QED
    BY <2>10, <2>11, <2>13, <2>14, <2>15 DEF SwiftInv
<1> QED
  BY <1>4, <1>5

\* Both ways out of a savepoint closure take its mark off the engine's stack,
\* unless the engine is of no use any more.
LEMMA KeepsScopeEnd ==
    ASSUME SwiftInv, frames # <<>>, Top.kind = "savepoint", Pop,
           UNCHANGED <<call, next, finished>>, throwing' \in BOOLEAN,
           engine' \in Engines, engine'.txn = engine.txn, engine'.begun = engine.begun,
           engine'.made = engine.made, engine'.durable = engine.durable,
           doomed' \in SUBSET Writes, engine.durable \intersect doomed' = {},
           \/ ~Usable' /\ engine'.marks = engine.marks
           \/ /\ Alive(engine)
              /\ engine'.marks = SubSeq(engine.marks, 1, Len(engine.marks) - 1)
              /\ engine'.work \intersect doomed' = {}
              /\ \A i \in 1..(Len(engine.marks) - 1) : engine.marks[i].work \subseteq engine'.work
    PROVE  SwiftInv'
<1>1. PICK n \in Nat : n = Len(frames) - 1 /\ n >= 1
  BY TopIs DEF SwiftInv
<1>2. /\ frames' \in Seq(Frames) /\ Len(frames') = n /\ frames' # <<>>
      /\ \A i \in 1..n :
            /\ i \in 1..Len(frames) /\ frames'[i].kind = frames[i].kind
            /\ frames[i].kind = "transaction" => frames'[i].txn = frames[i].txn
            /\ frames[i].kind = "savepoint" => frames'[i].name = frames[i].name
            /\ \/ frames'[i].wrote = frames[i].wrote
               \/ frames'[i].wrote = frames[i].wrote \union Top.wrote
  BY <1>1, PopIs DEF SwiftInv
<1>3. /\ frames[1].kind = "transaction" /\ frames'[1].txn = frames[1].txn
      /\ Top = frames[n + 1] /\ n + 1 \in 1..Len(frames)
  BY <1>1, <1>2 DEF SwiftInv, Shape, Top
<1>4. engine.marks \in Seq(Marks) /\ Len(engine.marks) \in Nat
  BY DEF SwiftInv, Shape, Engines
<1>5. Shape'
  <2>1. \A i \in 1..Len(engine'.marks) : engine'.marks[i].id <= engine'.made
    <3>1. CASE engine'.marks = engine.marks
      BY <3>1 DEF SwiftInv, Shape
    <3>2. CASE engine'.marks = SubSeq(engine.marks, 1, Len(engine.marks) - 1)
      BY <1>4, <3>2 DEF SwiftInv, Shape
    <3> QED
      BY <3>1, <3>2
  <2>2. \A i \in 1..Len(frames') : frames'[i].kind = "transaction" <=> i = 1
    BY <1>2 DEF SwiftInv, Shape
  <2> QED
    BY <1>2, <2>1, <2>2 DEF SwiftInv, Shape
<1>6. OneAtATime' /\ OthersFinished'
  BY <1>2, <1>3 DEF SwiftInv, OneAtATime, OthersFinished
<1>7. DurableApart'
  BY SMTT(30), <1>2, <1>3 DEF SwiftInv, DurableApart
<1>8. CASE ~Usable'
  BY <1>5, <1>6, <1>7, <1>8 DEF SwiftInv, MarksAreScopes, WorkApart
<1>9. CASE Usable'
  <2>1. /\ Usable /\ engine'.work \intersect doomed' = {}
        /\ engine'.marks = SubSeq(engine.marks, 1, Len(engine.marks) - 1)
        /\ \A i \in 1..(Len(engine.marks) - 1) : engine.marks[i].work \subseteq engine'.work
    BY <1>9 DEF Usable, Alive
  <2>2. Len(engine.marks) = n
    BY <1>1, <2>1 DEF SwiftInv, MarksAreScopes
  <2>3. /\ Len(engine'.marks) = n - 1
        /\ \A i \in 1..(n - 1) : engine'.marks[i] = engine.marks[i] /\ i \in 1..n
    BY SMTT(30), <1>1, <1>4, <2>1, <2>2
  <2>4. \A i \in 1..(n - 1) : i + 1 \in 1..n /\ frames[i + 1].kind = "savepoint"
    <3>1. \A i \in 1..(n - 1) : i + 1 \in 1..n /\ i + 1 \in 1..Len(frames) /\ i + 1 # 1
      BY <1>1
    <3> QED
      BY <3>1, FrameIs DEF SwiftInv, Shape
  <2>5. MarksAreScopes'
    <3>1. \A i \in 1..(n - 1) : engine'.marks[i].name = frames'[i + 1].name
      BY <1>2, <2>1, <2>2, <2>3, <2>4 DEF SwiftInv, MarksAreScopes
    <3>2. \A i, j \in 1..(n - 1) : engine'.marks[i].name = engine'.marks[j].name => i = j
      <4>1. \A i, j \in 1..n : engine.marks[i].name = engine.marks[j].name => i = j
        BY SMTT(30), <2>1, <2>2 DEF SwiftInv, MarksAreScopes
      <4> QED
        BY SMTT(30), <2>3, <4>1
    <3>3. engine'.txn = frames'[1].txn
      BY SMTT(30), <1>3, <2>1 DEF SwiftInv, MarksAreScopes
    <3> QED
      BY SMTT(30), <1>2, <2>3, <3>1, <3>2, <3>3 DEF MarksAreScopes
  <2>6. WorkApart'
    <3>1. /\ \A i, j \in 1..n : i <= j => engine.marks[i].work \subseteq engine.marks[j].work
          /\ \A i \in 1..n, j \in 1..Len(frames) :
                i < j => engine.marks[i].work \intersect frames[j].wrote = {}
      BY SMTT(30), <2>1, <2>2 DEF SwiftInv, WorkApart
    <3>2. \A i \in 1..(n - 1) : engine'.marks[i].work \subseteq engine'.work
      BY <2>1, <2>2, <2>3
    <3>3. \A i, j \in 1..(n - 1) : i <= j => engine'.marks[i].work \subseteq engine'.marks[j].work
      BY SMTT(30), <2>3, <3>1
    <3>4. \A i \in 1..(n - 1), j \in 1..n :
             i < j => engine'.marks[i].work \intersect frames'[j].wrote = {}
      <4> SUFFICES ASSUME NEW i \in 1..(n - 1), NEW j \in 1..n, i < j
                   PROVE  engine'.marks[i].work \intersect frames'[j].wrote = {}
        OBVIOUS
      <4>1. i \in 1..n /\ i < n + 1 /\ j \in 1..Len(frames)
        BY <1>2
      <4>2. /\ engine.marks[i].work \intersect frames[j].wrote = {}
            /\ engine.marks[i].work \intersect Top.wrote = {}
        BY SMTT(30), <1>3, <3>1, <4>1
      <4> QED
        BY SMTT(30), <1>2, <2>3, <4>2
    <3> QED
      BY SMTT(30), <1>2, <2>1, <2>3, <3>2, <3>3, <3>4 DEF WorkApart
  <2> QED
    BY SMTT(30), <1>5, <1>6, <1>7, <2>5, <2>6 DEF SwiftInv
<1> QED
  BY <1>8, <1>9

\* The mark of the innermost savepoint closure is the engine's last.
LEMMA TopMark ==
    ASSUME SwiftInv, frames # <<>>, Top.kind = "savepoint", Alive(engine)
    PROVE  /\ Len(engine.marks) \in Nat \ {0}
           /\ engine.marks[Len(engine.marks)].name = Top.name
           /\ \A i, j \in 1..Len(engine.marks) :
                 engine.marks[i].name = engine.marks[j].name => i = j
           /\ HasMark(engine, Top.name)
           /\ MarkIndex(engine, Top.name) = Len(engine.marks)
           /\ engine.txn # 0
<1>1. Len(frames) \in Nat /\ Len(frames) > 1
  BY TopIs DEF SwiftInv
<1>2. /\ Len(engine.marks) = Len(frames) - 1
      /\ \A i \in 1..Len(engine.marks) : engine.marks[i].name = frames[i + 1].name
      /\ \A i, j \in 1..Len(engine.marks) :
            engine.marks[i].name = engine.marks[j].name => i = j
  BY SMTT(30) DEF SwiftInv, MarksAreScopes, Usable, Alive
<1>3. PICK k \in Nat \ {0} : k = Len(engine.marks) /\ k + 1 = Len(frames)
  BY <1>1, <1>2
<1>4. engine.marks[k].name = Top.name
  <2>1. k \in 1..Len(engine.marks)
    BY <1>3
  <2> QED
    BY ZenonT(30), <1>2, <1>3, <2>1 DEF Top
<1>5. engine \in Engines
  BY SMTT(30) DEF SwiftInv, Shape
<1>6. HasMark(engine, Top.name) /\ MarkIndex(engine, Top.name) = k
  BY ZenonT(30), <1>2, <1>3, <1>4, <1>5, LastMark
<1> QED
  BY SMTT(30), <1>2, <1>3, <1>4, <1>6, InTransaction

LEMMA KeepsReleaseAtEnd ==
    ASSUME SwiftInv, ReleaseAtEnd
    PROVE  SwiftInv'
<1>1. /\ frames # <<>> /\ Top.kind = "savepoint"
      /\ UNCHANGED <<call, next, finished, doomed>>
  BY DEF ReleaseAtEnd, InBody
<1>2. engine \in Engines /\ throwing \in BOOLEAN /\ doomed \in SUBSET Writes
  BY DEF SwiftInv, Shape
<1>3. PICK out \in with_db(engine, release(engine, Top.name)) :
         /\ engine' = out.engine
         /\ \/ out.result = "Ok" /\ Pop /\ UNCHANGED throwing
            \/ out.result # "Ok" /\ throwing' = TRUE /\ UNCHANGED frames
  BY DEF ReleaseAtEnd
<1>4. CASE out.result # "Ok"
  <2>1. Same(engine, engine') /\ frames' = frames /\ throwing' = TRUE
    <3>1. out.engine = engine
      BY <1>2, <1>4, ReleaseOutcome
    <3> QED
      BY <1>3, <1>4, <3>1 DEF Same
  <2> QED
    BY <1>1, <2>1, KeepsBody
<1>5. CASE out.result = "Ok"
  <2>1. /\ Alive(engine) /\ Pop /\ throwing' = throwing
        /\ engine' = Released(engine, Top.name)
    BY SMTT(30), <1>2, <1>3, <1>5, ReleaseOutcome
  <2>2. PICK k \in Nat \ {0} : k = Len(engine.marks) /\ k = MarkIndex(engine, Top.name)
    BY <1>1, <2>1, TopMark
  <2>3. /\ engine.marks \in Seq(Marks) /\ SubSeq(engine.marks, 1, k - 1) \in Seq(Marks)
        /\ engine' = [engine EXCEPT !.marks = SubSeq(engine.marks, 1, k - 1)]
    <3>1. engine.marks \in Seq(Marks) /\ k - 1 \in Nat /\ k - 1 <= Len(engine.marks)
      BY <1>2, <2>2 DEF Engines
    <3> QED
      BY ZenonT(30), <2>1, <2>2, <3>1, CutIs DEF Released
  <2>4. /\ engine' \in Engines /\ engine'.txn = engine.txn /\ engine'.begun = engine.begun
        /\ engine'.made = engine.made /\ engine'.durable = engine.durable
        /\ engine'.marks = SubSeq(engine.marks, 1, Len(engine.marks) - 1)
        /\ engine'.work = engine.work
    BY ZenonT(30), <1>2, <2>2, <2>3 DEF Engines
  <2>5. /\ engine'.work \intersect doomed' = {} /\ engine.durable \intersect doomed' = {}
        /\ \A i \in 1..Len(engine.marks) : engine.marks[i].work \subseteq engine'.work
    BY SMTT(30), <1>1, <2>1, <2>4 DEF SwiftInv, WorkApart, DurableApart, Usable, Alive
  <2>6. \A i \in 1..(Len(engine.marks) - 1) : i \in 1..Len(engine.marks)
    BY <2>2
  <2> QED
    BY <1>1, <1>2, <2>1, <2>4, <2>5, <2>6, KeepsScopeEnd
<1> QED
  BY <1>4, <1>5

\* What the catch of a savepoint closure leaves of the engine.
LEMMA CleanupOutcome ==
    ASSUME SwiftInv, frames # <<>>, Top.kind = "savepoint",
           NEW f \in Cleanup(engine, Top.name)
    PROVE  \/ f = engine /\ ~Alive(engine)
           \/ f = Poisoned(engine)
           \/ /\ Alive(engine)
              /\ f = [engine EXCEPT !.work = engine.marks[Len(engine.marks)].work,
                        !.marks = SubSeq(engine.marks, 1, Len(engine.marks) - 1)]
<1>1. engine \in Engines
  BY DEF SwiftInv, Shape
<1>2. PICK back \in with_db(engine, rollback_to(engine, Top.name)) :
         \E out \in with_db(back.engine, release(back.engine, Top.name)) : f = out.engine
  BY DEF Cleanup
<1>3. PICK out \in with_db(back.engine, release(back.engine, Top.name)) : f = out.engine
  BY <1>2
<1>4. CASE back.engine = engine /\ ~Alive(engine)
  BY <1>1, <1>3, <1>4, ReleaseOutcome
<1>5. CASE back.engine = Poisoned(engine)
  <2>1. Poisoned(engine) \in Engines /\ ~Alive(Poisoned(engine))
    BY ZenonT(30), <1>1 DEF Poisoned, Engines, Alive
  <2> QED
    BY <1>3, <1>5, <2>1, ReleaseOutcome
<1>6. ASSUME Alive(engine),
             NEW k \in Nat \ {0}, k = Len(engine.marks), k = MarkIndex(engine, Top.name),
             \/ back.engine = [engine EXCEPT !.work = engine.marks[k].work]
             \/ back.engine = [[engine EXCEPT !.work = engine.marks[k].work]
                                 EXCEPT !.marks = SubSeq(engine.marks, 1, k)]
      PROVE  f = [engine EXCEPT !.work = engine.marks[k].work,
                                !.marks = SubSeq(engine.marks, 1, k - 1)]
  <2>1. /\ engine.marks \in Seq(Marks) /\ SubSeq(engine.marks, 1, k) = engine.marks
        /\ engine.marks[k] \in Marks
    <3>1. engine.marks \in Seq(Marks)
      BY <1>1 DEF Engines
    <3>2. SubSeq(engine.marks, 1, k) = engine.marks
      BY ZenonT(30), <1>6, <3>1, SubSeqFull
    <3> QED
      BY <1>6, <3>1, <3>2
  <2>2. engine.marks[k].work \subseteq Writes
    BY <2>1 DEF Marks
  <2>3. back.engine = [engine EXCEPT !.work = engine.marks[k].work]
    BY ZenonT(30), <1>1, <1>6, <2>1 DEF Engines
  <2>4. /\ back.engine \in Engines /\ back.engine.marks = engine.marks
        /\ back.engine.txn = engine.txn /\ Alive(back.engine)
    BY <1>1, <1>6, <2>2, <2>3 DEF Engines, Alive
  <2>5. HasMark(back.engine, Top.name) /\ MarkIndex(back.engine, Top.name) = k
    <3>1. /\ engine.marks[k].name = Top.name
          /\ \A i, j \in 1..k : engine.marks[i].name = engine.marks[j].name => i = j
      BY <1>6, TopMark
    <3>2. /\ k = Len(back.engine.marks) /\ back.engine.marks[k].name = Top.name
          /\ \A i, j \in 1..k :
                back.engine.marks[i].name = back.engine.marks[j].name => i = j
      BY ZenonT(30), <1>6, <2>4, <3>1
    <3> QED
      BY SMTT(30), <2>4, <3>2, LastMark
  <2>6. f = [back.engine EXCEPT !.marks = SubSeq(engine.marks, 1, k - 1)]
    <3>1. engine.txn # 0
      BY <1>6, TopMark
    <3>2. out.engine = Released(back.engine, Top.name)
      <4>1. back.engine.txn # 0
        BY <2>4, <3>1
      <4> QED
        BY <2>4, <2>5, <4>1, ReleaseOutcome
    <3> QED
      BY <1>3, <2>4, <2>5, <3>2 DEF Released
  <2> QED
    BY <1>1, <2>3, <2>6 DEF Engines
<1>7. CASE Alive(engine)
  <2>1. PICK k \in Nat \ {0} : k = Len(engine.marks) /\ k = MarkIndex(engine, Top.name)
    BY <1>7, TopMark
  <2>2. \/ back.engine = Poisoned(engine)
        \/ back.engine = [engine EXCEPT !.work = engine.marks[k].work]
        \/ back.engine = [[engine EXCEPT !.work = engine.marks[k].work]
                            EXCEPT !.marks = SubSeq(engine.marks, 1, k)]
    <3>1. HasMark(engine, Top.name) /\ engine.txn # 0
      BY <1>7, TopMark
    <3> DEFINE j == MarkIndex(engine, Top.name)
    <3>2. \/ back.engine = Poisoned(engine)
          \/ back.engine = [engine EXCEPT !.work = engine.marks[j].work]
          \/ back.engine = [[engine EXCEPT !.work = engine.marks[j].work]
                              EXCEPT !.marks = SubSeq(engine.marks, 1, j)]
      BY Zenon, <1>1, <1>7, <3>1, RollbackToOutcome
    <3> QED
      BY Zenon, <2>1, <3>2
  <2> QED
    BY ZenonT(30), <1>5, <1>6, <1>7, <2>1, <2>2
<1>8. CASE ~Alive(engine)
  BY ZenonT(30), <1>1, <1>2, <1>4, <1>5, <1>8, RollbackToOutcome
<1> QED
  BY <1>7, <1>8

LEMMA KeepsCatchSavepoint ==
    ASSUME SwiftInv, CatchSavepoint
    PROVE  SwiftInv'
<1>1. /\ throwing /\ Top.kind = "savepoint" /\ Pop /\ throwing' \in BOOLEAN
      /\ engine' \in Cleanup(engine, Top.name) /\ doomed' = doomed \union Top.wrote
      /\ UNCHANGED <<call, next, finished>>
  BY DEF CatchSavepoint
<1>2. frames # <<>> /\ engine \in Engines /\ doomed \in SUBSET Writes
  BY <1>1 DEF SwiftInv, Shape
<1>3. /\ Top = frames[Len(frames)] /\ Len(frames) \in 1..Len(frames)
      /\ Top.wrote \subseteq Writes
  BY <1>2, TopIs, FrameIs DEF SwiftInv
<1>4. doomed' \in SUBSET Writes /\ engine.durable \intersect doomed' = {}
  BY SMTT(30), <1>1, <1>2, <1>3 DEF SwiftInv, DurableApart
<1>5. CASE engine' = engine /\ ~Alive(engine)
  BY SMTT(30), <1>1, <1>2, <1>4, <1>5, KeepsScopeEnd DEF Usable, Alive
<1>6. CASE engine' = Poisoned(engine)
  <2>1. /\ engine' \in Engines /\ engine'.txn = engine.txn /\ engine'.begun = engine.begun
        /\ engine'.made = engine.made /\ engine'.durable = engine.durable
        /\ engine'.marks = engine.marks /\ ~Usable'
    BY ZenonT(30), <1>2, <1>6 DEF Poisoned, Engines, Usable
  <2> QED
    BY <1>1, <1>2, <1>4, <2>1, KeepsScopeEnd
<1>7. ASSUME Alive(engine),
             engine' = [engine EXCEPT !.work = engine.marks[Len(engine.marks)].work,
                          !.marks = SubSeq(engine.marks, 1, Len(engine.marks) - 1)]
      PROVE  SwiftInv'
  <2>1. PICK k \in Nat \ {0} : k = Len(engine.marks) /\ k + 1 = Len(frames)
    <3>1. Len(engine.marks) \in Nat \ {0}
      BY <1>1, <1>2, <1>7, TopMark
    <3>2. Len(engine.marks) = Len(frames) - 1 /\ Len(frames) \in Nat
      BY <1>2, <1>7 DEF SwiftInv, Shape, MarksAreScopes, Usable, Alive
    <3>3. Len(engine.marks) + 1 = Len(frames)
      BY <3>1, <3>2
    <3> QED
      BY <3>1, <3>3
  <2>2. /\ engine.marks \in Seq(Marks) /\ SubSeq(engine.marks, 1, k - 1) \in Seq(Marks)
        /\ engine.marks[k] \in Marks
        /\ engine' = [engine EXCEPT !.work = engine.marks[k].work,
                                    !.marks = SubSeq(engine.marks, 1, k - 1)]
    BY <1>2, <1>7, <2>1 DEF Engines
  <2>3. engine.marks[k].work \subseteq Writes
    BY <2>2 DEF Marks
  <2>4. /\ engine' \in Engines /\ engine'.txn = engine.txn /\ engine'.begun = engine.begun
        /\ engine'.made = engine.made /\ engine'.durable = engine.durable
        /\ engine'.marks = SubSeq(engine.marks, 1, Len(engine.marks) - 1)
        /\ engine'.work = engine.marks[k].work
    BY ZenonT(30), <1>2, <2>1, <2>2, <2>3 DEF Engines
  <2>5. /\ engine.work \intersect doomed = {} /\ engine.marks[k].work \subseteq engine.work
        /\ engine.marks[k].work \intersect frames[k + 1].wrote = {}
        /\ \A i \in 1..(k - 1) : engine.marks[i].work \subseteq engine.marks[k].work
    BY <1>7, <2>1 DEF SwiftInv, WorkApart, Usable, Alive
  <2>6. engine'.work \intersect doomed' = {}
    BY <1>1, <1>3, <2>1, <2>4, <2>5
  <2> QED
    BY <1>1, <1>2, <1>4, <1>7, <2>1, <2>4, <2>5, <2>6, KeepsScopeEnd
<1> QED
  BY <1>1, <1>2, <1>5, <1>6, <1>7, CleanupOutcome

LEMMA KeepsStutter ==
    ASSUME SwiftInv, UNCHANGED swiftVars
    PROVE  SwiftInv'
<1>1. UNCHANGED <<engine, call, next, frames, throwing, finished, doomed>>
  BY DEF swiftVars
<1>2. Shape' /\ OneAtATime' /\ OthersFinished'
  BY <1>1 DEF SwiftInv, Shape, OneAtATime, OthersFinished
<1>3. MarksAreScopes' /\ DurableApart' /\ WorkApart'
  BY SMTT(30), <1>1 DEF SwiftInv, MarksAreScopes, DurableApart, WorkApart, Usable
<1> QED
  BY <1>2, <1>3 DEF SwiftInv

LEMMA InitHolds == Init => SwiftInv
<1> SUFFICES ASSUME Init PROVE SwiftInv
  OBVIOUS
<1>1. /\ engine = FreshEngine /\ call = [c \in Calls |-> NotMade] /\ next = 1
      /\ frames = <<>> /\ Len(frames) = 0 /\ throwing = FALSE
      /\ finished = {} /\ doomed = {}
  BY DEF Init
<1>2. /\ engine \in Engines /\ engine.txn = 0 /\ engine.begun = 0 /\ engine.made = 0
      /\ engine.marks = <<>> /\ Len(engine.marks) = 0
      /\ engine.work = {} /\ engine.durable = {}
  BY <1>1 DEF FreshEngine, Engines
<1>3. MaxMarks \in Nat /\ MaxCalls \in Nat
  BY SMTT(30), SlotBounds, CallBound
<1>4. Shape
  <2>1. call \in [Calls -> CallStates] /\ frames \in Seq(Frames)
    BY <1>1 DEF CallStates
  <2>2. engine.txn <= engine.begun /\ engine.made <= MaxMarks /\ next \in 1..(MaxCalls + 1)
    BY <1>1, <1>2, <1>3
  <2>3. \A i \in 1..0 : FALSE
    OBVIOUS
  <2>4. /\ \A i \in 1..Len(engine.marks) : engine.marks[i].id <= engine.made
        /\ \A i \in 1..Len(frames) : frames[i].kind = "transaction" <=> i = 1
    BY <1>1, <1>2, <2>3
  <2> QED
    BY ZenonT(30), <1>1, <1>2, <2>1, <2>2, <2>4 DEF Shape
<1>5. OneAtATime /\ OthersFinished
  BY <1>1, <1>2 DEF OneAtATime, OthersFinished
<1>6. MarksAreScopes /\ DurableApart /\ WorkApart
  BY <1>1, <1>2 DEF MarksAreScopes, DurableApart, WorkApart
<1> QED
  BY <1>4, <1>5, <1>6 DEF SwiftInv

LEMMA NextKeeps == SwiftInv /\ [Next]_swiftVars => SwiftInv'
<1> SUFFICES ASSUME SwiftInv, [Next]_swiftVars PROVE SwiftInv'
  OBVIOUS
<1>1. ASSUME NEW c \in Calls, NEW kind \in Kinds, Submit(c, kind) PROVE SwiftInv'
  BY <1>1, KeepsSubmit
<1>2. CASE Queue
  BY <1>2, KeepsFlat, KeepsClose, KeepsTransaction DEF Queue
<1>3. CASE EndScope
  BY <1>3, KeepsCommitAtEnd, KeepsReleaseAtEnd, KeepsCatchTransaction, KeepsCatchSavepoint DEF EndScope
<1>4. CASE Body
  BY <1>4, KeepsNestedTransaction, KeepsCloseInBody, KeepsThrow, KeepsForward, KeepsOpenSavepoint DEF Body
<1>5. CASE UNCHANGED swiftVars
  BY <1>5, KeepsStutter
<1> QED
  BY <1>1, <1>2, <1>3, <1>4, <1>5 DEF Next

-----------------------------------------------------------------------------
(* The theorems.                                                            *)

\* The closures on the queue and the engine's transaction, savepoints and work
\* stay in step, whatever the bodies do (ChiselDatabase.transaction,
\* Transaction.savepoint).
THEOREM SwiftInvariant == Spec => []SwiftInv
BY InitHolds, NextKeeps, PTL DEF Spec

\* Unless the handle is poisoned or closed, the engine is in the transaction of
\* the closure on the queue, and its savepoints are the open savepoint closures
\* in order (Transaction.savepoint, the catch).
THEOREM ScopesAlwaysMatch == Spec => []ScopesMatchMarks
<1>1. SwiftInv => ScopesMatchMarks
  <2> SUFFICES ASSUME SwiftInv PROVE ScopesMatchMarks
    OBVIOUS
  <2>1. /\ MaxCalls \in Nat /\ MaxTxn \in Nat /\ MaxCalls <= MaxTxn
        /\ engine \in Engines /\ engine.begun \in Nat
    BY SlotBounds, CallBound DEF SwiftInv, Shape, Engines
  <2>2. engine.begun <= MaxTxn
    <3>1. engine.begun < next \/ (engine.begun <= next /\ next \in Calls)
      BY DEF SwiftInv, OneAtATime
    <3>2. next \in 1..(MaxCalls + 1)
      BY DEF SwiftInv, Shape
    <3> QED
      BY <2>1, <3>1, <3>2 DEF Calls
  <2>3. IsEngine(engine)
    <3>1. engine.marks \in Seq(Marks) /\ engine.made \in Nat /\ engine.txn \in Nat
      BY <2>1 DEF Engines
    <3>2. \A i \in DOMAIN engine.marks :
             engine.marks[i] \in Marks /\ engine.marks[i].id <= engine.made
      BY SMTT(30), <3>1 DEF SwiftInv, Shape
    <3>3. engine.begun \in 0..MaxTxn /\ engine.txn \in 0..engine.begun /\ engine.made \in 0..MaxMarks
      BY <2>1, <2>2, <3>1, SlotBounds DEF SwiftInv, Shape
    <3> QED
      BY <2>1, <3>2, <3>3 DEF IsEngine, Engines
  <2>4. \A c \in Calls : \/ call[c] = NotMade
                         \/ call[c].kind \in Kinds /\ call[c].at \in {"queued", "running", "resumed"}
    BY DEF SwiftInv, Shape, CallStates
  <2>5. \A i \in DOMAIN frames : frames[i] \in Frames /\ (frames[i].kind = "transaction" <=> i = 1)
    BY DEF SwiftInv, Shape
  <2>6. TypeOK
    BY <2>3, <2>4, <2>5 DEF SwiftInv, Shape, TypeOK
  <2>7. DOMAIN engine.marks = 1..Len(engine.marks)
    BY <2>1 DEF Engines
  <2> QED
    BY <2>6, <2>7 DEF SwiftInv, MarksAreScopes, ScopesMatchMarks
<1> QED
  BY <1>1, SwiftInvariant, PTL

\* What a closure that threw had written is never committed, even when the body
\* around it catches the error and goes on (try? rollbackTo; try? release).
THEOREM ThrownNeverCommitted == Spec => []ThrownWorkUndone
<1>1. SwiftInv => ThrownWorkUndone
  BY DEF SwiftInv, DurableApart, ThrownWorkUndone
<1> QED
  BY <1>1, SwiftInvariant, PTL

\* A Transaction value that escaped its closure never works in a later one
\* (TransactionState.finished).
THEOREM EscapedAlwaysRefused == Spec => EscapedRefused
<1>1. SwiftInv /\ [Next]_swiftVars =>
        [\A x \in 1..engine.begun, w \in Writes :
           Forward(x, w) /\ w \in engine'.work => engine.txn = x]_swiftVars
  <2> SUFFICES ASSUME SwiftInv, NEW x \in 1..engine.begun, NEW w \in Writes,
                      Forward(x, w), w \in engine'.work
               PROVE  engine.txn = x
    OBVIOUS
  <2>1. frames # <<>> /\ x \notin finished /\ w \notin engine.work /\ engine \in Engines
    BY DEF Forward, InBody, live, Unused, SwiftInv, Shape
  <2>2. frames[1].txn = x
    BY <2>1 DEF SwiftInv, OthersFinished
  <2>3. PICK out \in with_db(engine, write(engine, {w})) : engine' = out.engine
    BY DEF Forward
  <2>4. Alive(engine)
    <3>1. SUFFICES ASSUME Same(engine, engine') PROVE FALSE
      BY ZenonT(30), <2>1, <2>3, WriteOutcome
    <3> QED
      BY <2>1, <3>1 DEF Same, Poisoned, Engines
  <2> QED
    BY <2>1, <2>2, <2>4, InTransaction
<1> QED
  BY <1>1, SwiftInvariant, PTL DEF Spec, EscapedRefused
=============================================================================

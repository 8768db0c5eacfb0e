-------------------------- MODULE PyBindingProofs ---------------------------
(***************************************************************************)
(* The Python binding, for any number of threads, transactions and         *)
(* savepoints: an open transaction always has an owner left, a savepoint   *)
(* object that was released frees its name, a call told that the handle is *)
(* closed finds the file lock gone, and work done through a PyTransaction  *)
(* lands in the transaction that object began.                             *)
(*                                                                         *)
(* PyInv says what each call in flight may rely on while others run: which *)
(* transaction it holds (TxnClaim), which savepoint (MarkClaim), and that  *)
(* only the thread inside the Mutex is between taking it and letting go    *)
(* (PySteps).  An engine call is then one of three kinds of EngineStep: it *)
(* begins a transaction, makes a savepoint, or takes something away.       *)
(***************************************************************************)
EXTENDS PyBinding, TLAPS

Engines == [open : BOOLEAN, poisoned : BOOLEAN, txn : Nat, begun : Nat,
            marks : Seq(Marks), made : Nat, work : SUBSET Writes, durable : SUBSET Writes]
-----------------------------------------------------------------------------
(* What the engine's calls do.                                              *)

Poisoned(e) == [e EXCEPT !.poisoned = TRUE]
Alive(e) == e.open /\ ~e.poisoned
Same(e, f) == f = e \/ f = Poisoned(e)

LEMMA OutcomeIs ==
    ASSUME NEW f, NEW r
    PROVE  Outcome(f, r).engine = f /\ Outcome(f, r).result = r
BY DEF Outcome

-----------------------------------------------------------------------------
(* Closures and savepoints.                                                 *)

LEMMA CutIs ==
    ASSUME NEW S, NEW s \in Seq(S), NEW n \in Nat, n <= Len(s)
    PROVE  /\ SubSeq(s, 1, n) \in Seq(S) /\ Len(SubSeq(s, 1, n)) = n
           /\ \A i \in 1..n : SubSeq(s, 1, n)[i] = s[i] /\ s[i] \in S
<1>1. \A i \in 1..n : s[i] \in S
  OBVIOUS
<1> QED
  BY <1>1

-----------------------------------------------------------------------------
(* The inductive invariant of PyBinding.                                    *)

ObjectIds == 0..(MaxTxn + MaxMarks)
Handles == [call : Methods, of : ObjectIds, name : Names \union {None}, op : Ops,
            then : {"none", "release"}, step : 0..7, result : Results]
PyShape ==
    /\ limit \in Limits
    /\ engine \in Engines /\ engine.txn <= engine.begun
    /\ flock \in BOOLEAN /\ mutex \in Threads \union {None} /\ gil \in Threads \union {None}
    /\ thread \in [Threads -> Handles]
    /\ began \in [Transactions -> Threads \union {None}]
    /\ sp \in [MarkIds -> {NoSavepoint} \union [txn : Transactions, name : Names]]
    /\ direct \subseteq 1..engine.begun /\ object \subseteq 1..engine.begun
    /\ direct \intersect object = {} /\ finished \subseteq object
    /\ spFinished \subseteq {s \in MarkIds : sp[s] # NoSavepoint}
    /\ released \subseteq spFinished
    /\ \A s \in MarkIds : sp[s] # NoSavepoint => sp[s].txn \in object /\ s <= engine.made

\* How far a call is, and what that says of the Mutex and the call.
InProgress(h) ==
    /\ h.call = "none" => h = Idle
    /\ h.call # "none" => h.step >= 1
    /\ h.call # "close" => h.step <= 6
    /\ h.op # "none" <=> h.step \in 1..3
    /\ h.step <= 3 => h.result = "none"
    /\ h.step > 3 => h.result # "none"
    /\ h.op \in {"savepoint", "release", "rollback_to"} => h.name \in Names
Serves(h) ==
    /\ h.call = "db" => h.op \in {"read", "begin", "commit", "rollback", "none"}
    /\ h.call = "transaction" => h.op \in {"begin", "none"}
    /\ h.call = "undo" => h.op \in {"rollback", "none"}
    /\ h.call = "tx_end" => h.op \in {"commit", "rollback", "none"}
    /\ h.call = "tx_data" => h.op \in {"write", "none"}
    /\ h.call = "tx_savepoint" => h.op \in {"savepoint", "none"} /\ h.name \in Names
    /\ h.call = "sp_end" => \/ h.op \in {"release", "none"} /\ h.then = "none"
                            \/ h.op \in {"rollback_to", "none"} /\ h.then = "release"
    /\ h.call = "sp_rollback_to" => h.op \in {"rollback_to", "none"}
    /\ h.call = "close" => h.op \in {"take", "none"}
    /\ h.call # "sp_end" => h.then = "none"
Inside(h) == h.step = 3 \/ h.step = 4 \/ (h.step = 5 /\ h.call = "close")
PySteps ==
    \A t \in Threads : InProgress(thread[t]) /\ Serves(thread[t]) /\ (Inside(thread[t]) => mutex = t)

\* A call that is to begin a transaction or make a savepoint finds an id for it.
Room ==
    /\ engine.begun <= MaxTxn /\ engine.made <= MaxMarks
    /\ \A t \in Threads : /\ thread[t].op = "begin" => engine.begun + 1 \in Transactions
                          /\ thread[t].op = "savepoint" => engine.made + 1 \in MarkIds

PyDropped ==
    /\ ~engine.open /\ flock => \E t \in Threads : thread[t].call = "close" /\ thread[t].step = 4
    /\ \A t \in Threads : thread[t].result = "Closed" => ~flock

\* Call h holds the transaction it began or is to end.
Holding(h) == \/ h.call = "transaction" /\ h.of # 0
              \/ h.call \in {"undo", "tx_end"} /\ h.op # "none"
Made(h) == h.call = "tx_savepoint" /\ h.result = "Ok"
GaveBack(h) == h.call = "sp_end" /\ h.op = "none" /\ h.then = "none" /\ h.result = "Ok"

TxnClaim(t, h) ==
    /\ h.call \in {"tx_data", "tx_savepoint"} => h.of \in object \ finished /\ began[h.of] = t
    /\ h.call = "tx_end" => h.of \in finished /\ began[h.of] = t
    /\ h.call \in {"transaction", "undo"} /\ h.of # 0 =>
          h.of \in (1..engine.begun) \ (direct \union object) /\ began[h.of] = t
    /\ h.call = "transaction" => (h.of # 0 <=> h.result = "Ok")
    /\ h.call = "undo" => h.of # 0
    /\ Alive(engine) /\ Holding(h) => engine.txn = h.of
    /\ Alive(engine) /\ h.call = "db" /\ h.op \in {"commit", "rollback"} =>
          engine.txn \in direct /\ began[engine.txn] = t
MarkClaim(t, h) ==
    /\ h.call \in {"sp_end", "sp_rollback_to"} =>
          h.of \in MarkIds /\ sp[h.of] # NoSavepoint /\ h.name = sp[h.of].name
    /\ h.call = "sp_end" => h.of \in spFinished
    /\ GaveBack(h) => \A i \in 1..Len(engine.marks) : engine.marks[i].id # h.of
    /\ Made(h) => /\ engine.made \in MarkIds /\ sp[engine.made] = NoSavepoint
                  /\ \A i \in 1..Len(engine.marks) :
                        engine.marks[i].id = engine.made => engine.marks[i].name = h.name

PyTransactions ==
    /\ \A t \in Threads : TxnClaim(t, thread[t])
    /\ Alive(engine) => \A x \in object \ finished : engine.txn = x
    /\ Alive(engine) /\ engine.txn # 0 =>
          \/ engine.txn \in direct
          \/ engine.txn \in object \ finished
          \/ \E t \in Threads : Holding(thread[t]) /\ thread[t].of = engine.txn
PyMarks ==
    /\ \A t \in Threads : MarkClaim(t, thread[t])
    /\ \A t, u \in Threads : Made(thread[t]) /\ Made(thread[u]) => t = u
    /\ \A i \in 1..Len(engine.marks) :
          /\ engine.marks[i].id <= engine.made /\ engine.marks[i].id \notin released
          /\ sp[engine.marks[i].id] # NoSavepoint => engine.marks[i].name = sp[engine.marks[i].id].name
    /\ \A i, j \in 1..Len(engine.marks) :
          engine.marks[i].id = engine.marks[j].id \/ engine.marks[i].name = engine.marks[j].name => i = j

PyCore == PyShape /\ PySteps /\ PyDropped /\ PyTransactions /\ PyMarks
\* What every step relies on.  Room follows from the bounds, which come last.
PyGood == PyCore /\ Room
-----------------------------------------------------------------------------
(* One engine call, whatever the method that makes it.                      *)

\* The savepoints of f are the oldest of those of e.
Cut(e, f) == /\ Len(f.marks) <= Len(e.marks)
             /\ \A i \in 1..Len(f.marks) : f.marks[i] = e.marks[i]

\* e becomes f and the call returns r: it begins a transaction, makes a savepoint,
\* or takes something away.
Begins(e, op, f, r) ==
    /\ op = "begin" /\ r = "Ok" /\ Alive(e) /\ e.txn = 0
    /\ f.txn = e.begun + 1 /\ f.begun = e.begun + 1 /\ f.made = e.made /\ f.marks = e.marks
Marked(e, op, name, f, r) ==
    /\ op = "savepoint" /\ r = "Ok" /\ Alive(e) /\ ~HasMark(e, name)
    /\ f.txn = e.txn /\ f.begun = e.begun /\ f.made = e.made + 1
    /\ Len(f.marks) = Len(e.marks) + 1
    /\ \A i \in 1..Len(e.marks) : f.marks[i] = e.marks[i]
    /\ f.marks[Len(e.marks) + 1].name = name /\ f.marks[Len(e.marks) + 1].id = e.made + 1
Lessens(e, op, name, f, r) ==
    /\ f.begun = e.begun /\ f.made = e.made /\ Cut(e, f)
    /\ op \in {"begin", "savepoint"} => r # "Ok"
    /\ f.txn # e.txn => f.txn = 0 /\ op \in {"commit", "rollback", "take"}
    /\ op \in {"commit", "rollback"} /\ Alive(f) => f.txn = 0
    /\ op = "take" => ~f.open
    /\ r = "Ok" /\ op \in {"write", "commit", "rollback"} => Alive(e)
    /\ r = "Ok" /\ op = "release" =>
          \E k \in 1..Len(e.marks) : e.marks[k].name = name /\ Len(f.marks) = k - 1
EngineStep(e, op, name, f, r) ==
    /\ f \in Engines /\ r \in {"Ok", "Err", "Closed"}
    /\ r = "Closed" => ~e.open
    /\ Alive(f) => Alive(e)
    /\ ~f.open /\ e.open => op = "take"
    /\ Begins(e, op, f, r) \/ Marked(e, op, name, f, r) \/ Lessens(e, op, name, f, r)

\* A call that only poisons, or does nothing.
LEMMA SameStep ==
    ASSUME NEW e \in Engines, NEW op, NEW name, NEW f, NEW r \in {"Ok", "Err", "Closed"},
           Same(e, f), r = "Closed" => ~e.open,
           op \in {"begin", "savepoint", "release"} => r # "Ok",
           op # "take", op = "write" => (r = "Ok" => Alive(e)),
           op \in {"commit", "rollback"} => r # "Ok" /\ (Alive(f) => f.txn = 0)
    PROVE  EngineStep(e, op, name, f, r)
<1>1. /\ f \in Engines /\ f.open = e.open /\ f.txn = e.txn /\ f.begun = e.begun /\ f.made = e.made
      /\ f.marks = e.marks /\ (Alive(f) => Alive(e))
  BY ZenonT(30) DEF Engines, Same, Poisoned, Alive
<1>2. Cut(e, f)
  <2>1. Len(e.marks) \in Nat
    BY DEF Engines
  <2> QED
    BY <1>1, <2>1 DEF Cut
<1>3. Lessens(e, op, name, f, r)
  BY <1>1, <1>2 DEF Lessens
<1> QED
  BY <1>1, <1>3 DEF EngineStep

LEMMA WithDb ==
    ASSUME NEW e \in Engines, NEW outs, NEW out \in with_db(e, outs)
    PROVE  \/ out = Outcome(e, "Closed") /\ ~e.open
           \/ out = Outcome(e, "Err") /\ e.open /\ ~Alive(e)
           \/ out \in outs /\ Alive(e)
BY DEF with_db, Err, Alive

\* The refusals of a handle that is closed or poisoned.
LEMMA RefusedStep ==
    ASSUME NEW e \in Engines, NEW op, op # "take", NEW name, NEW out,
           \/ out = Outcome(e, "Closed") /\ ~e.open
           \/ out = Outcome(e, "Err") /\ e.open /\ ~Alive(e)
    PROVE  EngineStep(e, op, name, out.engine, out.result)
<1>1. /\ out.engine = e /\ out.result \in {"Ok", "Err", "Closed"} /\ out.result # "Ok"
      /\ out.result = "Closed" => ~e.open
  BY OutcomeIs
<1>2. Same(e, out.engine) /\ ~Alive(out.engine)
  BY <1>1 DEF Same, Alive
<1> QED
  BY <1>1, <1>2, SameStep

LEMMA FailedStep ==
    ASSUME NEW e \in Engines, NEW op, op # "take", NEW name, NEW out,
           \/ out = Err(e) /\ (op \in {"commit", "rollback"} => e.txn = 0)
           \/ out = Fatal(e)
    PROVE  EngineStep(e, op, name, out.engine, out.result)
<1>1. /\ Same(e, out.engine) /\ out.result = "Err"
      /\ op \in {"commit", "rollback"} => (Alive(out.engine) => out.engine.txn = 0)
  <2>1. CASE out = Err(e) /\ (op \in {"commit", "rollback"} => e.txn = 0)
    <3>1. out.engine = e /\ out.result = "Err"
      BY <2>1, OutcomeIs DEF Err
    <3> QED
      BY <2>1, <3>1 DEF Same
  <2>2. CASE out = Fatal(e)
    <3>1. out.engine = Poisoned(e) /\ out.result = "Err"
      BY <2>2, OutcomeIs DEF Fatal, Poisoned
    <3>2. ~Alive(Poisoned(e))
      BY DEF Poisoned, Alive, Engines
    <3> QED
      BY <3>1, <3>2 DEF Same
  <2> QED
    BY <2>1, <2>2
<1> QED
  BY <1>1, SameStep

\* Only the savepoints change: the first n of them are left.
LEMMA CutStep ==
    ASSUME NEW e \in Engines, NEW op \in {"release", "rollback_to"}, NEW name,
           NEW f \in Engines, NEW r \in {"Ok", "Err"}, NEW n \in Nat, n <= Len(e.marks),
           Len(f.marks) = n, \A i \in 1..n : f.marks[i] = e.marks[i],
           f.open = e.open, f.poisoned = e.poisoned, f.txn = e.txn, f.begun = e.begun,
           f.made = e.made,
           r = "Ok" /\ op = "release" => n + 1 \in 1..Len(e.marks) /\ e.marks[n + 1].name = name
    PROVE  EngineStep(e, op, name, f, r)
<1>3. Cut(e, f)
  BY DEF Cut
<1>4. r = "Ok" /\ op = "release" =>
          \E k \in 1..Len(e.marks) : e.marks[k].name = name /\ Len(f.marks) = k - 1
  <2>1. SUFFICES ASSUME r = "Ok" /\ op = "release"
                 PROVE  \E k \in 1..Len(e.marks) : e.marks[k].name = name /\ Len(f.marks) = k - 1
    OBVIOUS
  <2>2. n + 1 \in 1..Len(e.marks) /\ e.marks[n + 1].name = name /\ n = (n + 1) - 1
    BY <2>1
  <2> QED
    BY <2>2
<1>5. Lessens(e, op, name, f, r)
  BY <1>3, <1>4 DEF Lessens
<1>6. Alive(f) <=> Alive(e)
  BY DEF Alive
<1> QED
  BY <1>5, <1>6 DEF EngineStep

LEMMA MarkIndexIs ==
    ASSUME NEW e \in Engines, NEW name, HasMark(e, name)
    PROVE  MarkIndex(e, name) \in 1..Len(e.marks) /\ e.marks[MarkIndex(e, name)].name = name
<1>1. DOMAIN e.marks = 1..Len(e.marks)
  BY DEF Engines
<1> QED
  BY <1>1 DEF HasMark, MarkIndex, IsMark

LEMMA BeginStep ==
    ASSUME NEW e \in Engines, NEW name, NEW out \in with_db(e, begin(e))
    PROVE  EngineStep(e, "begin", name, out.engine, out.result)
<1>1. CASE out \notin begin(e) \/ ~Alive(e)
  BY ZenonT(30), <1>1, WithDb, RefusedStep
<1>2. CASE out = Err(e)
  BY SMTT(30), <1>2, FailedStep
<1>3. CASE /\ out = Ok([e EXCEPT !.txn = e.begun + 1, !.begun = e.begun + 1])
           /\ e.txn = 0 /\ Alive(e)
  <2> DEFINE f == [e EXCEPT !.txn = e.begun + 1, !.begun = e.begun + 1]
  <2>1. out.engine = f /\ out.result = "Ok"
    BY <1>3, OutcomeIs DEF Ok
  <2>2. /\ f.open = e.open /\ f.poisoned = e.poisoned /\ f.txn = e.begun + 1
        /\ f.begun = e.begun + 1 /\ f.made = e.made /\ f.marks = e.marks
    BY DEF Engines
  <2>4. f \in Engines
    <3>1. e.begun + 1 \in Nat
      BY DEF Engines
    <3> QED
      BY ZenonT(30), <3>1 DEF Engines
  <2> HIDE DEF f
  <2>3. Begins(e, "begin", f, "Ok")
    BY <1>3, <2>2 DEF Begins
  <2> QED
    BY <1>3, <2>1, <2>2, <2>3, <2>4 DEF EngineStep
<1> QED
  BY <1>1, <1>2, <1>3 DEF begin

LEMMA EndedIs ==
    ASSUME NEW e \in Engines
    PROVE  /\ Ended(e) \in Engines /\ Ended(e).open = e.open /\ Ended(e).poisoned = e.poisoned
           /\ Ended(e).txn = 0 /\ Ended(e).marks = <<>>
           /\ Ended(e).begun = e.begun /\ Ended(e).made = e.made
<1>1. /\ Ended(e).open = e.open /\ Ended(e).poisoned = e.poisoned
      /\ Ended(e).txn = 0 /\ Ended(e).marks = <<>>
      /\ Ended(e).begun = e.begun /\ Ended(e).made = e.made
  BY DEF Ended, Engines
<1>2. <<>> \in Seq(Marks) /\ {} \in SUBSET Writes
  OBVIOUS
<1>3. Ended(e) \in Engines
  BY ZenonT(30), <1>2 DEF Ended, Engines
<1> QED
  BY <1>1, <1>3

LEMMA EndStep ==
    ASSUME NEW e \in Engines, NEW op \in {"commit", "rollback", "take"}, NEW name,
           NEW f \in Engines, f.txn = 0, f.marks = <<>>, f.begun = e.begun, f.made = e.made,
           Alive(f) => Alive(e), f.open => e.open,
           IF op = "take" THEN ~f.open ELSE Alive(e) /\ f.open = e.open
    PROVE  EngineStep(e, op, name, f, "Ok")
<1>1. Cut(e, f)
  <2>1. Len(e.marks) \in Nat /\ Len(f.marks) = 0
    BY DEF Engines
  <2> QED
    BY <2>1 DEF Cut
<1>2. Lessens(e, op, name, f, "Ok")
  BY <1>1 DEF Lessens
<1> QED
  BY <1>2 DEF EngineStep

LEMMA CommitStep ==
    ASSUME NEW e \in Engines, NEW name, NEW out \in with_db(e, commit(e))
    PROVE  EngineStep(e, "commit", name, out.engine, out.result)
<1>1. CASE out \notin commit(e) \/ ~Alive(e)
  BY <1>1, WithDb, RefusedStep
<1>2. CASE out = Fatal(e) \/ (out = Err(e) /\ e.txn = 0)
  BY <1>2, FailedStep
<1>3. CASE out = Ok([Ended(e) EXCEPT !.durable = e.durable \union e.work]) /\ Alive(e)
  <2> DEFINE f == [Ended(e) EXCEPT !.durable = e.durable \union e.work]
  <2>1. out.engine = f /\ out.result = "Ok"
    BY <1>3, OutcomeIs DEF Ok
  <2>2. /\ f.open = e.open /\ f.poisoned = e.poisoned /\ f.txn = 0
        /\ f.begun = e.begun /\ f.made = e.made /\ f.marks = <<>>
    BY EndedIs DEF Engines
  <2>3. f \in Engines
    <3>1. e.durable \union e.work \in SUBSET Writes
      BY DEF Engines
    <3> QED
      BY <3>1, EndedIs DEF Engines
  <2>4. Alive(f) => Alive(e)
    BY <2>2 DEF Alive
  <2> HIDE DEF f
  <2> QED
    BY <1>3, <2>1, <2>2, <2>3, <2>4, EndStep
<1> QED
  BY <1>1, <1>2, <1>3 DEF commit

LEMMA RollbackStep ==
    ASSUME NEW e \in Engines, NEW name, NEW out \in with_db(e, rollback(e))
    PROVE  EngineStep(e, "rollback", name, out.engine, out.result)
<1>1. CASE out \notin rollback(e) \/ ~Alive(e)
  BY <1>1, WithDb, RefusedStep
<1>2. CASE out = Fatal(e) \/ (out = Err(e) /\ e.txn = 0)
  BY <1>2, FailedStep
<1>3. CASE out = Ok(Ended(e)) /\ Alive(e)
  <2>1. out.engine = Ended(e) /\ out.result = "Ok"
    BY <1>3, OutcomeIs DEF Ok
  <2>2. Alive(Ended(e)) => Alive(e)
    BY EndedIs DEF Alive
  <2> QED
    BY <1>3, <2>1, <2>2, EndedIs, EndStep
<1> QED
  BY <1>1, <1>2, <1>3 DEF rollback

LEMMA TakeStep ==
    ASSUME NEW e \in Engines, NEW name, NEW out \in take(e)
    PROVE  EngineStep(e, "take", name, out.engine, out.result)
<1> DEFINE f == [Ended(e) EXCEPT !.open = FALSE]
<1>1. out.engine = f /\ out.result = "Ok"
  BY OutcomeIs DEF Ok, take
<1>2. /\ ~f.open /\ f.txn = 0
      /\ f.begun = e.begun /\ f.made = e.made /\ f.marks = <<>>
  BY EndedIs DEF Engines
<1>3. f \in Engines
  BY ZenonT(30), EndedIs DEF Engines
<1>4. ~Alive(f)
  BY <1>2 DEF Alive
<1> HIDE DEF f
<1> QED
  BY <1>1, <1>2, <1>3, <1>4, EndStep

LEMMA ReadStep ==
    ASSUME NEW e \in Engines, NEW name, NEW out \in with_db(e, read(e))
    PROVE  EngineStep(e, "read", name, out.engine, out.result)
<1>1. CASE out \notin read(e) \/ ~Alive(e)
  BY <1>1, WithDb, RefusedStep
<1>2. CASE out = Fatal(e) \/ out = Err(e)
  BY <1>2, FailedStep
<1>3. CASE out = Ok(e)
  <2>1. out.engine = e /\ out.result = "Ok" /\ Same(e, e)
    BY <1>3, OutcomeIs DEF Ok, Same
  <2> QED
    BY <2>1, SameStep
<1> QED
  BY <1>1, <1>2, <1>3 DEF read

LEMMA WriteStep ==
    ASSUME NEW e \in Engines, NEW name, NEW out \in with_db(e, write(e, {}))
    PROVE  EngineStep(e, "write", name, out.engine, out.result)
<1>1. CASE out \notin write(e, {}) \/ ~Alive(e)
  BY <1>1, WithDb, RefusedStep
<1>2. CASE out = Fatal(e) \/ out = Err(e)
  BY <1>2, FailedStep
<1>3. CASE out = Ok([e EXCEPT !.work = e.work \union {}]) /\ Alive(e)
  <2>1. [e EXCEPT !.work = e.work \union {}] = e
    BY DEF Engines
  <2>2. out.engine = e /\ out.result = "Ok" /\ Same(e, e)
    BY <1>3, <2>1, OutcomeIs DEF Ok, Same
  <2> QED
    BY <1>3, <2>2, SameStep
<1> QED
  BY <1>1, <1>2, <1>3 DEF write

LEMMA SavepointStep ==
    ASSUME NEW e \in Engines, NEW name \in Names, e.made + 1 \in MarkIds,
           NEW out \in with_db(e, savepoint(e, name))
    PROVE  EngineStep(e, "savepoint", name, out.engine, out.result)
<1> DEFINE mark == [name |-> name, id |-> e.made + 1, work |-> e.work]
<1>1. CASE out \notin savepoint(e, name) \/ ~Alive(e)
  BY <1>1, WithDb, RefusedStep
<1>2. CASE out = Err(e)
  BY <1>2, FailedStep
<1>3. CASE /\ out = Ok([e EXCEPT !.made = e.made + 1, !.marks = Append(e.marks, mark)])
           /\ ~HasMark(e, name) /\ Alive(e)
  <2>1. mark \in Marks /\ mark.name = name /\ mark.id = e.made + 1
    BY DEF Marks, Engines
  <2> HIDE DEF mark
  <2> DEFINE s == Append(e.marks, mark)
  <2>2. /\ s \in Seq(Marks) /\ Len(s) = Len(e.marks) + 1
        /\ \A i \in 1..Len(e.marks) : s[i] = e.marks[i]
        /\ s[Len(e.marks) + 1] = mark
    BY <2>1 DEF Engines
  <2> HIDE DEF s
  <2> DEFINE f == [e EXCEPT !.made = e.made + 1, !.marks = s]
  <2>3. out.engine = f /\ out.result = "Ok"
    BY <1>3, OutcomeIs DEF Ok, s
  <2>4. /\ f.open = e.open /\ f.poisoned = e.poisoned /\ f.txn = e.txn
        /\ f.begun = e.begun /\ f.made = e.made + 1 /\ f.marks = s
    BY DEF Engines
  <2>5. f \in Engines
    <3>1. e.made + 1 \in Nat
      BY DEF Engines
    <3> QED
      BY ZenonT(30), <2>2, <3>1 DEF Engines
  <2> HIDE DEF f
  <2>6. Marked(e, "savepoint", name, f, "Ok")
    BY <1>3, <2>1, <2>2, <2>4 DEF Marked
  <2> QED
    BY <1>3, <2>3, <2>4, <2>5, <2>6 DEF EngineStep
<1> QED
  BY <1>1, <1>2, <1>3 DEF savepoint

LEMMA ReleaseStep ==
    ASSUME NEW e \in Engines, NEW name, NEW out \in with_db(e, release(e, name))
    PROVE  EngineStep(e, "release", name, out.engine, out.result)
<1>1. CASE out \notin release(e, name) \/ ~Alive(e)
  BY <1>1, WithDb, RefusedStep
<1>2. CASE out = Err(e)
  BY <1>2, FailedStep
<1>3. CASE /\ out = Ok([e EXCEPT !.marks = SubSeq(e.marks, 1, MarkIndex(e, name) - 1)])
           /\ HasMark(e, name)
  <2>1. PICK n \in Nat : /\ n = MarkIndex(e, name) - 1 /\ n <= Len(e.marks)
                         /\ n + 1 \in 1..Len(e.marks) /\ e.marks[n + 1].name = name
    <3>1. Len(e.marks) \in Nat
      BY DEF Engines
    <3> QED
      BY <1>3, <3>1, MarkIndexIs
  <2>2. PICK s : s = SubSeq(e.marks, 1, n)
    BY ZenonT(30)
  <2>3. s \in Seq(Marks) /\ Len(s) = n /\ \A i \in 1..n : s[i] = e.marks[i]
    BY <2>1, <2>2, CutIs DEF Engines
  <2> DEFINE f == [e EXCEPT !.marks = s]
  <2>4. out.engine = f /\ out.result = "Ok"
    BY <1>3, <2>1, <2>2, OutcomeIs DEF Ok
  <2>5. /\ f \in Engines /\ f.open = e.open /\ f.poisoned = e.poisoned /\ f.txn = e.txn
        /\ f.begun = e.begun /\ f.made = e.made /\ f.marks = s
    BY <2>3 DEF Engines
  <2> HIDE DEF f
  <2> QED
    BY <2>1, <2>3, <2>4, <2>5, CutStep
<1> QED
  BY <1>1, <1>2, <1>3 DEF release

LEMMA RollbackToStep ==
    ASSUME NEW e \in Engines, NEW name, NEW out \in with_db(e, rollback_to(e, name))
    PROVE  EngineStep(e, "rollback_to", name, out.engine, out.result)
<1>1. CASE out \notin rollback_to(e, name) \/ ~Alive(e)
  BY ZenonT(30), <1>1, WithDb, RefusedStep
<1>2. CASE out = Err(e) \/ out = Fatal(e)
  BY <1>2, FailedStep
<1>3. CASE HasMark(e, name) /\ out \in rollback_to(e, name) /\ out # Err(e) /\ out # Fatal(e)
  <2>1. PICK n \in Nat : n = MarkIndex(e, name) /\ n <= Len(e.marks) /\ n >= 1
    <3>1. Len(e.marks) \in Nat
      BY DEF Engines
    <3> QED
      BY <1>3, <3>1, MarkIndexIs
  <2>2. PICK w : w = e.marks[n].work
    OBVIOUS
  <2>3. w \in SUBSET Writes /\ Len(e.marks) \in Nat
    <3>1. e.marks[n] \in Marks
      BY <2>1 DEF Engines
    <3> QED
      BY <2>2, <3>1 DEF Marks, Engines
  <2>4. PICK s : s = SubSeq(e.marks, 1, n)
    BY ZenonT(30)
  <2>5. s \in Seq(Marks) /\ Len(s) = n /\ \A i \in 1..n : s[i] = e.marks[i]
    BY <2>1, <2>4, CutIs DEF Engines
  <2> DEFINE f == [e EXCEPT !.work = w]
             g == [f EXCEPT !.marks = s]
  <2>6. out = Ok(g) \/ out = Err(f)
    BY <1>3, <2>1, <2>2, <2>4 DEF rollback_to
  <2>7. /\ f \in Engines /\ f.open = e.open /\ f.poisoned = e.poisoned /\ f.txn = e.txn
        /\ f.begun = e.begun /\ f.made = e.made /\ f.marks = e.marks
    BY <2>3 DEF Engines
  <2> HIDE DEF f
  <2>8. /\ g \in Engines /\ g.open = e.open /\ g.poisoned = e.poisoned /\ g.txn = e.txn
        /\ g.begun = e.begun /\ g.made = e.made /\ g.marks = s
    BY ZenonT(30), <2>5, <2>7 DEF Engines
  <2> HIDE DEF g
  <2>9. CASE out = Ok(g)
    <3>1. out.engine = g /\ out.result = "Ok"
      BY <2>9, OutcomeIs DEF Ok
    <3> QED
      BY <2>1, <2>5, <2>8, <3>1, CutStep
  <2>10. CASE out = Err(f)
    <3>1. out.engine = f /\ out.result = "Err"
      BY <2>10, OutcomeIs DEF Err
    <3> QED
      BY <2>3, <2>7, <3>1, CutStep
  <2> QED
    BY <2>6, <2>9, <2>10
<1> QED
  BY <1>1, <1>2, <1>3 DEF rollback_to

\* The engine's calls, whatever the outcome.
LEMMA EngineCallIs ==
    ASSUME NEW e \in Engines, NEW op \in Ops \ {"none"}, NEW name,
           op = "savepoint" => name \in Names /\ e.made + 1 \in MarkIds,
           NEW out \in EngineCall(e, op, name)
    PROVE  EngineStep(e, op, name, out.engine, out.result)
<1>1. CASE op = "begin"
  BY <1>1, BeginStep DEF EngineCall
<1>2. CASE op = "commit"
  BY <1>2, CommitStep DEF EngineCall
<1>3. CASE op = "rollback"
  BY <1>3, RollbackStep DEF EngineCall
<1>4. CASE op = "read"
  BY <1>4, ReadStep DEF EngineCall
<1>5. CASE op = "write"
  BY <1>5, WriteStep DEF EngineCall
<1>6. CASE op = "savepoint"
  BY <1>6, SavepointStep DEF EngineCall
<1>7. CASE op = "rollback_to"
  BY <1>7, RollbackToStep DEF EngineCall
<1>8. CASE op = "release"
  BY <1>8, ReleaseStep DEF EngineCall
<1>9. CASE op = "take"
  BY <1>9, TakeStep DEF EngineCall
<1> QED
  BY <1>1, <1>2, <1>3, <1>4, <1>5, <1>6, <1>7, <1>8, <1>9 DEF Ops

-----------------------------------------------------------------------------
(* The steps of a call.                                                     *)

LEMMA LockedIs ==
    ASSUME NEW call \in Methods
    PROVE  LET steps == locked(call) IN
           /\ steps[1] = "detach" /\ steps[2] = "lock" /\ steps[3] = "run"
           /\ call = "close" => /\ DOMAIN steps = 1..6 /\ Len(steps) = 6
                                /\ steps[4] = "drop" /\ steps[5] = "unlock" /\ steps[6] = "attach"
           /\ call # "close" => /\ DOMAIN steps = 1..5 /\ Len(steps) = 5
                                /\ steps[4] = "unlock" /\ steps[5] = "attach"
<1>1. PICK s : s = locked(call)
  OBVIOUS
<1>2. CASE call = "close"
  <2>1. s = <<"detach", "lock">> \o <<"run", "drop">> \o <<"unlock", "attach">>
    BY <1>1, <1>2 DEF locked, Closure
  <2>2. /\ DOMAIN s = 1..6 /\ Len(s) = 6 /\ s[1] = "detach" /\ s[2] = "lock"
        /\ s[3] = "run" /\ s[4] = "drop" /\ s[5] = "unlock" /\ s[6] = "attach"
    BY <2>1
  <2> QED
    BY <1>1, <1>2, <2>2
<1>3. CASE call # "close"
  <2>1. s = <<"detach", "lock">> \o <<"run">> \o <<"unlock", "attach">>
    BY <1>1, <1>3 DEF locked, Closure
  <2>2. /\ DOMAIN s = 1..5 /\ Len(s) = 5 /\ s[1] = "detach" /\ s[2] = "lock"
        /\ s[3] = "run" /\ s[4] = "unlock" /\ s[5] = "attach"
    BY <2>1
  <2> QED
    BY <1>1, <1>3, <2>2
<1> QED
  BY <1>2, <1>3

\* The place of a step in a call: the drop of close moves what follows it.
After(h, n) == IF h.call = "close" THEN n + 1 ELSE n

LEMMA DoesIs ==
    ASSUME NEW t \in Threads, thread[t] \in Handles
    PROVE  /\ Does(t, "detach") <=> thread[t].step = 1
           /\ Does(t, "lock") <=> thread[t].step = 2
           /\ Does(t, "run") <=> thread[t].step = 3
           /\ Does(t, "drop") <=> thread[t].call = "close" /\ thread[t].step = 4
           /\ Does(t, "unlock") <=> thread[t].step = After(thread[t], 4)
           /\ Does(t, "attach") <=> thread[t].step = After(thread[t], 5)
           /\ Returned(t) <=> thread[t].step = After(thread[t], 6)
<1> DEFINE h == thread[t]
<1>1. h.call \in Methods /\ h.step \in 0..7
  BY DEF Handles
<1>2. PICK steps : steps = locked(h.call)
  OBVIOUS
<1>3. /\ steps[1] = "detach" /\ steps[2] = "lock" /\ steps[3] = "run"
      /\ h.call = "close" => /\ DOMAIN steps = 1..6 /\ Len(steps) = 6
                             /\ steps[4] = "drop" /\ steps[5] = "unlock" /\ steps[6] = "attach"
      /\ h.call # "close" => /\ DOMAIN steps = 1..5 /\ Len(steps) = 5
                             /\ steps[4] = "unlock" /\ steps[5] = "attach"
  BY <1>1, <1>2, LockedIs
<1>4. /\ Returned(t) <=> h.step = Len(steps) + 1
      /\ \A what : Does(t, what) <=> h.step \in DOMAIN steps /\ steps[h.step] = what
  BY <1>2 DEF Does, Returned
<1>5. \/ h.step = 0 \/ h.step = 1 \/ h.step = 2 \/ h.step = 3
      \/ h.step = 4 \/ h.step = 5 \/ h.step = 6 \/ h.step = 7
  BY <1>1
<1>6. h.call = "close" => /\ 0 \notin DOMAIN steps /\ 7 \notin DOMAIN steps
                          /\ \A i \in {1, 2, 3, 4, 5, 6} : i \in DOMAIN steps
  BY <1>3
<1>7. h.call # "close" => /\ 0 \notin DOMAIN steps /\ 6 \notin DOMAIN steps
                          /\ 7 \notin DOMAIN steps
                          /\ \A i \in {1, 2, 3, 4, 5} : i \in DOMAIN steps
  BY <1>3
<1>8. CASE h.call = "close"
  <2>1. /\ After(h, 4) = 5 /\ After(h, 5) = 6 /\ After(h, 6) = 7
    BY <1>8 DEF After
  <2>2. Returned(t) <=> h.step = 7
    <3>1. Len(steps) = 6
      BY <1>3, <1>8
    <3> QED
      BY <1>1, <1>4, <3>1
  <2>5. Does(t, "drop") <=> h.step = 4
    BY <1>3, <1>4, <1>5, <1>6, <1>8
  <2>3. /\ Does(t, "detach") <=> h.step = 1
        /\ Does(t, "lock") <=> h.step = 2
        /\ Does(t, "run") <=> h.step = 3
    BY <1>3, <1>4, <1>5, <1>6, <1>8
  <2>4. /\ Does(t, "unlock") <=> h.step = 5
        /\ Does(t, "attach") <=> h.step = 6
    BY <1>3, <1>4, <1>5, <1>6, <1>8
  <2> QED
    BY <1>8, <2>1, <2>2, <2>3, <2>4, <2>5
<1>9. CASE h.call # "close"
  <2>1. /\ After(h, 4) = 4 /\ After(h, 5) = 5 /\ After(h, 6) = 6
    BY <1>9 DEF After
  <2> QED
    BY SMTT(30), <1>3, <1>4, <1>5, <1>7, <1>9, <2>1
<1> QED
  BY <1>8, <1>9

\* Numbers of steps.
LEMMA Steps ==
    ASSUME NEW h \in Handles, InProgress(h)
    PROVE  /\ h.step = After(h, 4) => h.step > 3 /\ h.step <= 5 /\ Inside(h)
           /\ h.step = After(h, 5) => h.step > 3 /\ h.step <= 6
           /\ h.step = After(h, 6) => h.step > 3 /\ ~Inside(h) /\ h.op = "none" /\ h # Idle
           /\ h.step > 3 => h.op = "none"
           /\ h.step = 3 => h.op # "none" /\ h.call # "none"
           /\ h.step >= 1 => h.call # "none"
<1>1. h.step \in 0..7
  BY DEF Handles
<1>2. h.step > 3 => h.op = "none"
  BY <1>1 DEF InProgress
<1>3. h.call = "none" => h.step = 0
  BY DEF InProgress, Idle
<1> QED
  BY <1>1, <1>2, <1>3 DEF InProgress, After, Inside, Idle

\* A thread one step on is one.  Every later step sees this fact: a record update
\* among its facts spares tlapm a slow inference of types.
LEMMA SomeStep == \E h : h = [Idle EXCEPT !.step = 1]
BY ZenonT(30)

USE SomeStep

-----------------------------------------------------------------------------
(* Steps that only move a thread on.                                        *)

\* g is h at another step.
SameCall(h, g) == /\ g.call = h.call /\ g.of = h.of /\ g.name = h.name /\ g.op = h.op
                  /\ g.then = h.then /\ g.result = h.result
OnlyThread(t) == \A u \in Threads \ {t} : thread'[u] = thread[u]

LEMMA AdvanceIs ==
    ASSUME PyShape, NEW t \in Threads, Advance(t), thread[t].step <= 6
    PROVE  /\ thread' \in [Threads -> Handles] /\ OnlyThread(t)
           /\ thread'[t].step = thread[t].step + 1 /\ SameCall(thread[t], thread'[t])
<1>1. thread \in [Threads -> Handles]
  BY DEF PyShape
<1>2. PICK h : h = thread[t]
  OBVIOUS
<1>3. h \in Handles /\ h.step \in 0..7 /\ h.step + 1 \in 0..7
  <2>1. h \in Handles /\ h.step \in 0..7
    BY <1>1, <1>2 DEF Handles
  <2> QED
    BY <1>2, <2>1
<1> DEFINE g == [h EXCEPT !.step = h.step + 1]
<1>4. thread' = [thread EXCEPT ![t] = g]
  BY <1>1, <1>2 DEF Advance
<1>5. g \in Handles
  BY <1>3 DEF Handles
<1>6. g.step = h.step + 1 /\ SameCall(h, g)
  BY <1>3 DEF SameCall, Handles
<1> HIDE DEF g
<1>7. thread'[t] = g /\ OnlyThread(t)
  BY <1>1, <1>4 DEF OnlyThread
<1>8. thread' \in [Threads -> Handles]
  BY <1>1, <1>4, <1>5
<1> QED
  BY <1>2, <1>6, <1>7, <1>8

\* What does not look at the steps is kept.
LEMMA QuietStep ==
    ASSUME PyGood, NEW t \in Threads, Advance(t), thread[t].step <= 6,
           engine' = engine, UNCHANGED Objects
    PROVE  PyTransactions' /\ PyMarks'
<1>1. \A u \in Threads : SameCall(thread[u], thread'[u])
  BY AdvanceIs DEF PyGood, PyCore, OnlyThread, SameCall
<1>2. UNCHANGED <<limit, began, direct, object, finished, sp, spFinished, released>>
  BY DEF Objects
<1>4. \A u \in Threads : /\ Holding(thread'[u]) <=> Holding(thread[u])
                         /\ Made(thread'[u]) <=> Made(thread[u])
                         /\ GaveBack(thread'[u]) <=> GaveBack(thread[u])
  BY <1>1 DEF SameCall, Holding, Made, GaveBack
<1>5. PyTransactions'
  <2>1. \A u \in Threads : TxnClaim(u, thread[u])'
    <3>1. TAKE u \in Threads
    <3>2. TxnClaim(u, thread[u])
      BY DEF PyGood, PyCore, PyTransactions
    <3> QED
      BY <1>1, <1>2, <1>4, <3>2 DEF TxnClaim, SameCall
  <2> QED
    BY <1>1, <1>2, <1>4, <2>1 DEF PyGood, PyCore, PyTransactions, SameCall
<1>6. PyMarks'
  <2>1. \A u \in Threads : MarkClaim(u, thread[u])'
    <3>1. TAKE u \in Threads
    <3>2. MarkClaim(u, thread[u])
      BY DEF PyGood, PyCore, PyMarks
    <3> QED
      BY <1>1, <1>2, <1>4, <3>2 DEF MarkClaim, SameCall
  <2> QED
    BY <1>1, <1>2, <1>4, <2>1 DEF PyGood, PyCore, PyMarks
<1> QED
  BY <1>5, <1>6

LEMMA QuietThread ==
    ASSUME PyGood, NEW t \in Threads, Advance(t), thread[t].step # 3, thread[t].step # 0,
           thread[t].step # After(thread[t], 6), thread[t].step <= 6
    PROVE  \A u \in Threads : InProgress(thread'[u]) /\ Serves(thread'[u])
<1>1. InProgress(thread[t]) /\ Serves(thread[t]) /\ thread[t] \in Handles /\ thread'[t] \in Handles
  BY AdvanceIs DEF PyGood, PyCore, PySteps, PyShape
<1>2. PICK h, g : h = thread[t] /\ g = thread'[t]
  OBVIOUS
<1>3. /\ h.step \in 0..7 /\ g.step = h.step + 1 /\ SameCall(h, g)
      /\ h.step # 3 /\ h.step # 0 /\ h.step # After(h, 6)
  BY <1>1, <1>2, AdvanceIs DEF PyGood, PyCore, Handles
<1>4. InProgress(g)
  <2>1. h.call # "none"
    BY <1>1, <1>2, <1>3 DEF InProgress, Idle
  <2>2. h.call # "close" => g.step <= 6
    BY <1>1, <1>2, <1>3 DEF InProgress, After
  <2>3. h.step \in 1..3 <=> g.step \in 1..3
    BY <1>3
  <2>4. g.step <= 3 <=> h.step <= 3
    BY <1>3
  <2> QED
    BY <1>1, <1>2, <1>3, <2>1, <2>2, <2>3, <2>4 DEF InProgress, SameCall
<1>5. Serves(g)
  BY <1>1, <1>2, <1>3 DEF Serves, SameCall
<1> QED
  BY <1>2, <1>4, <1>5, AdvanceIs DEF PyGood, PyCore, PySteps, OnlyThread

LEMMA QuietShape ==
    ASSUME PyGood, NEW t \in Threads, Advance(t), thread[t].step <= 6,
           engine' = engine, UNCHANGED Objects,
           flock' \in BOOLEAN, mutex' \in Threads \union {None}, gil' \in Threads \union {None}
    PROVE  PyShape'
<1>1. UNCHANGED <<limit, began, direct, object, finished, sp, spFinished, released>>
  BY DEF Objects
<1>2. thread' \in [Threads -> Handles]
  BY AdvanceIs DEF PyGood, PyCore
<1> QED
  BY <1>1, <1>2 DEF PyGood, PyCore, PyShape

\* Nobody but the dropping thread stands between take and drop.
LEMMA QuietDropped ==
    ASSUME PyGood, NEW t \in Threads, Advance(t), thread[t].step <= 6,
           engine' = engine, flock' = flock, ~(thread[t].call = "close" /\ thread[t].step = 4)
    PROVE  PyDropped'
<1>1. /\ OnlyThread(t) /\ SameCall(thread[t], thread'[t])
  BY AdvanceIs DEF PyGood, PyCore
<1>2. ASSUME ~engine.open, flock
      PROVE  \E u \in Threads : thread'[u].call = "close" /\ thread'[u].step = 4
  BY <1>1, <1>2 DEF PyGood, PyCore, PyDropped, OnlyThread
<1>3. \A u \in Threads : thread'[u].result = thread[u].result
  BY <1>1 DEF OnlyThread, SameCall
<1> QED
  BY <1>2, <1>3 DEF PyGood, PyCore, PyDropped

LEMMA MutexIs ==
    ASSUME PyGood, NEW t \in Threads, NEW u \in Threads, t # u, Inside(thread[t])
    PROVE  ~Inside(thread[u])
BY DEF PyGood, PyCore, PySteps

LEMMA DetachKeeps ==
    ASSUME PyGood, NEW t \in Threads, Detach(t)
    PROVE  PyCore'
<1>1. thread[t] \in Handles /\ thread[t].step = 1
  BY DoesIs DEF PyGood, PyCore, PyShape, Detach
<1>2. /\ Advance(t) /\ engine' = engine /\ flock' = flock /\ mutex' = mutex /\ gil' = None
      /\ UNCHANGED Objects
  BY DEF Detach
<1>3. thread[t].step <= 6 /\ thread[t].step # After(thread[t], 6)
  BY <1>1 DEF After
<1>4. PyShape'
  BY <1>2, <1>3, QuietShape DEF PyGood, PyCore, PyShape
<1>5. PySteps'
  <2>1. ~Inside(thread'[t])
    BY <1>1, <1>2, <1>3, AdvanceIs DEF PyGood, PyCore, Inside
  <2> QED
    BY <1>1, <1>2, <1>3, <2>1, QuietThread, AdvanceIs DEF PyGood, PyCore, PySteps, OnlyThread
<1>6. PyDropped'
  BY <1>1, <1>2, <1>3, QuietDropped
<1> QED
  BY <1>2, <1>3, <1>4, <1>5, <1>6, QuietStep DEF PyGood, PyCore

LEMMA LockKeeps ==
    ASSUME PyGood, NEW t \in Threads, Lock(t)
    PROVE  PyCore'
<1>1. thread[t] \in Handles /\ thread[t].step = 2
  BY DoesIs DEF PyGood, PyCore, PyShape, Lock
<1>2. /\ Advance(t) /\ engine' = engine /\ flock' = flock /\ mutex' = t /\ gil' = gil
      /\ UNCHANGED Objects /\ mutex = None
  BY DEF Lock
<1>3. thread[t].step <= 6 /\ thread[t].step # After(thread[t], 6)
  BY <1>1 DEF After
<1>4. PyShape'
  BY <1>2, <1>3, QuietShape DEF PyGood, PyCore, PyShape
<1>5. PySteps'
  <2>1. \A u \in Threads \ {t} : ~Inside(thread'[u])
    BY <1>2, <1>3, AdvanceIs, ThreadsAssumption DEF PyGood, PyCore, PySteps, OnlyThread
  <2> QED
    BY <1>1, <1>2, <1>3, <2>1, QuietThread DEF PySteps
<1>6. PyDropped'
  BY <1>1, <1>2, <1>3, QuietDropped
<1> QED
  BY <1>2, <1>3, <1>4, <1>5, <1>6, QuietStep DEF PyGood, PyCore

LEMMA UnlockKeeps ==
    ASSUME PyGood, NEW t \in Threads, Unlock(t)
    PROVE  PyCore'
<1>1. thread[t] \in Handles /\ thread[t].step = After(thread[t], 4) /\ InProgress(thread[t])
  BY DoesIs DEF PyGood, PyCore, PyShape, PySteps, Unlock
<1>2. /\ Advance(t) /\ engine' = engine /\ flock' = flock /\ mutex' = None /\ gil' = gil
      /\ UNCHANGED Objects
  BY DEF Unlock
<1>3. /\ thread[t].step <= 6 /\ thread[t].step # After(thread[t], 6) /\ thread[t].step # 3
      /\ thread[t].step # 0 /\ ~(thread[t].call = "close" /\ thread[t].step = 4)
  BY <1>1 DEF After
<1>4. PyShape'
  BY <1>2, <1>3, QuietShape DEF PyGood, PyCore, PyShape
<1>5. PySteps'
  <2>1. ~Inside(thread'[t])
    <3>1. thread'[t].step = thread[t].step + 1 /\ thread'[t].call = thread[t].call
      BY <1>2, <1>3, AdvanceIs DEF PyGood, PyCore, SameCall
    <3> QED
      BY <1>1, <3>1 DEF Inside, After
  <2>2. Inside(thread[t])
    BY <1>1, Steps
  <2>3. \A u \in Threads \ {t} : ~Inside(thread'[u])
    BY <1>2, <1>3, <2>2, MutexIs, AdvanceIs DEF PyGood, PyCore, OnlyThread
  <2> QED
    BY <1>2, <1>3, <2>1, <2>3, QuietThread DEF PySteps
<1>6. PyDropped'
  BY <1>2, <1>3, QuietDropped
<1> QED
  BY <1>2, <1>3, <1>4, <1>5, <1>6, QuietStep DEF PyGood, PyCore

LEMMA AttachKeeps ==
    ASSUME PyGood, NEW t \in Threads, Attach(t)
    PROVE  PyCore'
<1>1. thread[t] \in Handles /\ thread[t].step = After(thread[t], 5)
  BY DoesIs DEF PyGood, PyCore, PyShape, Attach
<1>2. /\ Advance(t) /\ engine' = engine /\ flock' = flock /\ mutex' = mutex /\ gil' = t
      /\ UNCHANGED Objects
  BY DEF Attach
<1>3. /\ thread[t].step <= 6 /\ thread[t].step # After(thread[t], 6) /\ thread[t].step # 3
      /\ thread[t].step # 0 /\ ~(thread[t].call = "close" /\ thread[t].step = 4)
  BY <1>1 DEF After
<1>4. PyShape'
  BY <1>2, <1>3, QuietShape DEF PyGood, PyCore, PyShape
<1>5. PySteps'
  <2>1. ~Inside(thread'[t])
    <3>1. thread'[t].step = thread[t].step + 1 /\ thread'[t].call = thread[t].call
      BY <1>2, <1>3, AdvanceIs DEF PyGood, PyCore, SameCall
    <3> QED
      BY <1>1, <3>1 DEF Inside, After
  <2> QED
    BY <1>2, <1>3, <2>1, QuietThread, AdvanceIs DEF PyGood, PyCore, PySteps, OnlyThread
<1>6. PyDropped'
  BY <1>2, <1>3, QuietDropped
<1> QED
  BY <1>2, <1>3, <1>4, <1>5, <1>6, QuietStep DEF PyGood, PyCore

LEMMA DropKeeps ==
    ASSUME PyGood, NEW t \in Threads, Drop(t)
    PROVE  PyCore'
<1>1. thread[t] \in Handles /\ thread[t].step = 4 /\ thread[t].call = "close"
  BY DoesIs DEF PyGood, PyCore, PyShape, Drop
<1>2. /\ Advance(t) /\ engine' = engine /\ ~flock' /\ flock' \in BOOLEAN
      /\ mutex' = mutex /\ gil' = gil /\ UNCHANGED Objects
  BY ZenonT(30) DEF Drop
<1>3. thread[t].step <= 6 /\ thread[t].step # After(thread[t], 6)
  BY <1>1 DEF After
<1>4. PyShape'
  BY <1>2, <1>3, QuietShape DEF PyGood, PyCore, PyShape
<1>5. PySteps'
  <2>1. mutex = t
    BY <1>1 DEF PyGood, PyCore, PySteps, Inside
  <2> QED
    BY <1>1, <1>2, <1>3, <2>1, QuietThread, AdvanceIs DEF PyGood, PyCore, PySteps, OnlyThread
<1>6. PyDropped'
  BY <1>2 DEF PyDropped
<1> QED
  BY <1>2, <1>3, <1>4, <1>5, <1>6, QuietStep DEF PyGood, PyCore

-----------------------------------------------------------------------------
(* The beginning of a call.                                                 *)

NewCall(method, x, name, op, then) ==
    [call |-> method, of |-> x, name |-> name, op |-> op, then |-> then, step |-> 1,
     result |-> "none"]

LEMMA ObjectIdsAre ==
    /\ 0 \in ObjectIds /\ Transactions \subseteq ObjectIds /\ MarkIds \subseteq ObjectIds
    /\ 0 \notin Transactions
BY SlotBounds DEF ObjectIds, Transactions, MarkIds

LEMMA NewCallIs ==
    ASSUME NEW method \in Methods \ {"none"}, NEW x \in ObjectIds, NEW name \in Names \union {None},
           NEW op \in Ops \ {"none"}, NEW then \in {"none", "release"},
           op \in {"savepoint", "release", "rollback_to"} => name \in Names
    PROVE  LET g == NewCall(method, x, name, op, then) IN
           /\ g \in Handles /\ InProgress(g) /\ ~Inside(g)
           /\ g.call = method /\ g.of = x /\ g.name = name /\ g.op = op /\ g.then = then
           /\ g.result = "none"
<1> DEFINE g == NewCall(method, x, name, op, then)
<1>1. /\ g.call = method /\ g.of = x /\ g.name = name /\ g.op = op /\ g.then = then
      /\ g.result = "none" /\ g.step = 1
  BY DEF NewCall
<1>2. g \in Handles
  BY DEF NewCall, Handles, Results
<1>3. InProgress(g) /\ ~Inside(g)
  BY <1>1 DEF InProgress, Inside
<1> QED
  BY <1>1, <1>2, <1>3

\* What every method does to the threads and the bounds on its way in.
LEMMA EnterIs ==
    ASSUME PyGood, NEW t \in Threads, NEW method \in Methods \ {"none"}, NEW x \in ObjectIds,
           NEW name \in Names \union {None}, NEW op \in Ops \ {"none"},
           NEW then \in {"none", "release"},
           op \in {"savepoint", "release", "rollback_to"} => name \in Names,
           Serves(NewCall(method, x, name, op, then)),
           Enter(t, method, x, op, name, then)
    PROVE  /\ thread' \in [Threads -> Handles] /\ OnlyThread(t) /\ thread[t] = Idle
           /\ thread'[t] = NewCall(method, x, name, op, then)
           /\ thread'[t].call = method /\ thread'[t].of = x /\ thread'[t].name = name
           /\ thread'[t].op = op /\ thread'[t].then = then /\ thread'[t].result = "none"
           /\ UNCHANGED <<limit, engine, flock, mutex, began, direct, object, sp, released>>
           /\ gil' \in Threads \union {None}
           /\ PySteps' /\ PyDropped'
<1> DEFINE g == NewCall(method, x, name, op, then)
<1>1. /\ g \in Handles /\ InProgress(g) /\ ~Inside(g)
      /\ g.call = method /\ g.of = x /\ g.name = name /\ g.op = op /\ g.then = then
      /\ g.result = "none"
  BY NewCallIs
<1>2. /\ thread[t] = Idle /\ thread' = [thread EXCEPT ![t] = g] /\ gil' = t
      /\ UNCHANGED <<limit, engine, flock, mutex, began, direct, object, sp, released>>
      /\ InBounds(op)
  BY DEF Enter, NewCall
<1>3. Serves(g)
  OBVIOUS
<1> HIDE DEF g
<1>4. thread \in [Threads -> Handles]
  BY DEF PyGood, PyCore, PyShape
<1>5. thread' \in [Threads -> Handles] /\ thread'[t] = g /\ OnlyThread(t)
  BY <1>1, <1>2, <1>4 DEF OnlyThread
<1>6. PySteps'
  BY <1>1, <1>2, <1>3, <1>5 DEF PyGood, PyCore, PySteps, OnlyThread
<1>8. PyDropped'
  <2>1. ~(thread[t].call = "close" /\ thread[t].step = 4)
    BY <1>2 DEF Idle
  <2> QED
    BY <1>1, <1>2, <1>5, <2>1 DEF PyGood, PyCore, PyDropped, OnlyThread
<1> QED
  BY <1>1, <1>2, <1>5, <1>6, <1>8, ThreadsAssumption DEF g

\* A method that finishes nothing.
LEMMA EnterKeeps ==
    ASSUME PyGood, NEW t \in Threads, NEW method \in Methods \ {"none"}, NEW x \in ObjectIds,
           NEW name \in Names \union {None}, NEW op \in Ops \ {"none"},
           op \in {"savepoint", "release", "rollback_to"} => name \in Names,
           Serves(NewCall(method, x, name, op, "none")),
           Enter(t, method, x, op, name, "none"),
           UNCHANGED <<finished, spFinished>>,
           TxnClaim(t, NewCall(method, x, name, op, "none")),
           MarkClaim(t, NewCall(method, x, name, op, "none"))
    PROVE  PyCore'
<1> DEFINE g == NewCall(method, x, name, op, "none")
<1>1. /\ thread' \in [Threads -> Handles] /\ OnlyThread(t) /\ thread[t] = Idle
      /\ thread'[t] = g /\ g.result = "none"
      /\ UNCHANGED <<limit, engine, flock, mutex, began, direct, object, sp, released>>
      /\ gil' \in Threads \union {None}
      /\ PySteps' /\ PyDropped'
  BY EnterIs
<1>2. TxnClaim(t, g) /\ MarkClaim(t, g)
  OBVIOUS
<1> HIDE DEF g
<1>3. PyShape'
  BY <1>1 DEF PyGood, PyCore, PyShape
<1>4. ~Holding(thread[t])
  BY <1>1 DEF Idle, Holding
<1>5. PyTransactions'
  <2>1. \A u \in Threads : TxnClaim(u, thread'[u])
    BY <1>1, <1>2 DEF PyGood, PyCore, PyTransactions, OnlyThread
  <2>2. \A u \in Threads : TxnClaim(u, thread[u])'
    BY <1>1, <2>1 DEF TxnClaim
  <2> QED
    BY <1>1, <1>4, <2>2 DEF PyGood, PyCore, PyTransactions, OnlyThread
<1>6. PyMarks'
  <2>1. \A u \in Threads : MarkClaim(u, thread'[u])
    BY <1>1, <1>2 DEF PyGood, PyCore, PyMarks, OnlyThread
  <2>2. \A u \in Threads : MarkClaim(u, thread[u])'
    BY <1>1, <2>1 DEF MarkClaim
  <2>3. ~Made(thread'[t])
    BY <1>1 DEF Made
  <2> QED
    BY <1>1, <2>2, <2>3 DEF PyGood, PyCore, PyMarks, OnlyThread
<1> QED
  BY <1>1, <1>3, <1>5, <1>6 DEF PyGood, PyCore

LEMMA EnterDbKeeps ==
    ASSUME PyGood, NEW t \in Threads, NEW method \in {"db", "transaction", "close"},
           NEW op \in {"read", "begin", "commit", "rollback", "take"},
           method = "db" => op # "take",
           method = "transaction" => op = "begin",
           method = "close" => op = "take",
           op \in {"commit", "rollback"} => BeganDirectly(t),
           EnterDb(t, method, op)
    PROVE  PyCore'
<1> DEFINE g == NewCall(method, 0, None, op, "none")
<1>1. /\ method \in Methods \ {"none"} /\ op \in Ops \ {"none"} /\ 0 \in ObjectIds
      /\ None \in Names \union {None} /\ "none" \in {"none", "release"}
      /\ op \notin {"savepoint", "release", "rollback_to"}
  BY ObjectIdsAre DEF Methods, Ops
<1>2. /\ g.call = method /\ g.of = 0 /\ g.name = None /\ g.op = op /\ g.then = "none"
      /\ g.result = "none"
  BY <1>1, NewCallIs
<1> HIDE DEF g
<1>3. Serves(g)
  BY <1>2 DEF Serves
<1>4. TxnClaim(t, g)
  BY <1>2 DEF TxnClaim, Holding, BeganDirectly
<1>5. MarkClaim(t, g)
  BY <1>2 DEF MarkClaim, GaveBack, Made
<1>6. Enter(t, method, 0, op, None, "none") /\ UNCHANGED <<finished, spFinished>>
  BY DEF EnterDb
<1> QED
  BY <1>1, <1>3, <1>4, <1>5, <1>6, EnterKeeps DEF g

LEMMA TxCallKeeps ==
    ASSUME PyGood, NEW t \in Threads, NEW x \in Transactions, Mine(t, x), x \notin finished,
           NEW method \in {"tx_data", "tx_savepoint"}, NEW op \in {"write", "savepoint"},
           NEW name \in Names \union {None},
           method = "tx_data" <=> op = "write",
           method = "tx_savepoint" => name \in Names,
           EnterTx(t, x, method, op, name), UNCHANGED <<finished, spFinished>>
    PROVE  PyCore'
<1> DEFINE g == NewCall(method, x, name, op, "none")
<1>1. /\ method \in Methods \ {"none"} /\ op \in Ops \ {"none"} /\ x \in ObjectIds
      /\ "none" \in {"none", "release"}
      /\ op \in {"savepoint", "release", "rollback_to"} => name \in Names
  BY ObjectIdsAre DEF Methods, Ops
<1>2. /\ g.call = method /\ g.of = x /\ g.name = name /\ g.op = op /\ g.then = "none"
      /\ g.result = "none"
  BY <1>1, NewCallIs
<1> HIDE DEF g
<1>3. Serves(g)
  BY <1>2 DEF Serves
<1>4. TxnClaim(t, g)
  BY <1>2 DEF TxnClaim, Holding, Mine
<1>5. MarkClaim(t, g)
  BY <1>2 DEF MarkClaim, GaveBack, Made
<1>6. Enter(t, method, x, op, name, "none")
  BY DEF EnterTx
<1> QED
  BY <1>1, <1>3, <1>4, <1>5, <1>6, EnterKeeps DEF g

\* commit, rollback and __exit__ of a PyTransaction.
LEMMA TxEndKeeps ==
    ASSUME PyGood, NEW t \in Threads, NEW x \in Transactions, Mine(t, x), x \notin finished,
           NEW op \in {"commit", "rollback"},
           EnterTx(t, x, "tx_end", op, None), Finish(x)
    PROVE  PyCore'
<1> DEFINE g == NewCall("tx_end", x, None, op, "none")
<1>1. /\ "tx_end" \in Methods \ {"none"} /\ op \in Ops \ {"none"} /\ x \in ObjectIds
      /\ None \in Names \union {None} /\ "none" \in {"none", "release"}
      /\ op \notin {"savepoint", "release", "rollback_to"}
  BY ObjectIdsAre DEF Methods, Ops
<1>2. /\ g.call = "tx_end" /\ g.of = x /\ g.name = None /\ g.op = op /\ g.then = "none"
      /\ g.result = "none"
  BY <1>1, NewCallIs
<1>3. Serves(g)
  BY <1>2 DEF Serves
<1>4. /\ thread' \in [Threads -> Handles] /\ OnlyThread(t) /\ thread[t] = Idle
      /\ thread'[t] = g
      /\ UNCHANGED <<limit, engine, flock, mutex, began, direct, object, sp, released>>
      /\ gil' \in Threads \union {None}
      /\ PySteps' /\ PyDropped'
  BY <1>1, <1>3, EnterIs DEF EnterTx
<1> HIDE DEF g
<1>5. /\ finished' = finished \union {x} /\ spFinished' = spFinished
      /\ x \in object /\ began[x] = t
  BY DEF Finish, Mine
<1>6. PyShape'
  BY <1>4, <1>5 DEF PyGood, PyCore, PyShape
<1>7. Alive(engine) => engine.txn = x
  BY <1>5 DEF PyGood, PyCore, PyTransactions
<1>8. ~Holding(thread[t]) /\ Holding(g)
  BY <1>2, <1>4 DEF Idle, Holding
<1>9. PyTransactions'
  <2>1. TxnClaim(t, thread[t])'
    BY <1>2, <1>4, <1>5, <1>7 DEF TxnClaim, Holding
  <2>2. \A u \in Threads \ {t} : TxnClaim(u, thread[u])'
    <3>1. TAKE u \in Threads \ {t}
    <3>2. TxnClaim(u, thread[u]) /\ thread'[u] = thread[u] /\ u # t
      BY <1>4 DEF PyGood, PyCore, PyTransactions, OnlyThread
    <3> QED
      BY <1>4, <1>5, <3>2 DEF TxnClaim
  <2>3. Alive(engine') => \A y \in object' \ finished' : engine'.txn = y
    BY <1>4, <1>5 DEF PyGood, PyCore, PyTransactions
  <2>4. Alive(engine') /\ engine'.txn # 0 =>
          \/ engine'.txn \in direct'
          \/ engine'.txn \in object' \ finished'
          \/ \E u \in Threads : Holding(thread'[u]) /\ thread'[u].of = engine'.txn
    BY <1>2, <1>4, <1>5, <1>7, <1>8 DEF PyGood, PyCore, PyTransactions, OnlyThread
  <2> QED
    BY <2>1, <2>2, <2>3, <2>4 DEF PyTransactions
<1>10. PyMarks'
  <2>1. MarkClaim(t, g) /\ ~Made(g)
    BY <1>2 DEF MarkClaim, GaveBack, Made
  <2>2. \A u \in Threads : MarkClaim(u, thread'[u])
    BY <1>4, <2>1 DEF PyGood, PyCore, PyMarks, OnlyThread
  <2>3. \A u \in Threads : MarkClaim(u, thread[u])'
    BY <1>4, <1>5, <2>2 DEF MarkClaim
  <2> QED
    BY <1>4, <2>1, <2>3 DEF PyGood, PyCore, PyMarks, OnlyThread
<1> QED
  BY <1>4, <1>6, <1>9, <1>10 DEF PyGood, PyCore

LEMMA SavepointIs ==
    ASSUME PyGood, NEW s \in MarkIds, sp[s] # NoSavepoint
    PROVE  s \in ObjectIds /\ sp[s].name \in Names
BY ObjectIdsAre DEF PyGood, PyCore, PyShape

LEMMA SpRollbackToKeeps ==
    ASSUME PyGood, NEW t \in Threads, NEW s \in MarkIds, MySavepoint(t, s),
           EnterSp(t, s, "sp_rollback_to", "rollback_to", "none"),
           UNCHANGED <<finished, spFinished>>
    PROVE  PyCore'
<1>1. PICK name : name = sp[s].name
  OBVIOUS
<1> DEFINE g == NewCall("sp_rollback_to", s, name, "rollback_to", "none")
<1>2. sp[s] # NoSavepoint
  BY DEF MySavepoint
<1>3. /\ "sp_rollback_to" \in Methods \ {"none"} /\ "rollback_to" \in Ops \ {"none"}
      /\ s \in ObjectIds /\ name \in Names /\ name \in Names \union {None}
      /\ "none" \in {"none", "release"}
  BY <1>1, <1>2, SavepointIs DEF Methods, Ops
<1>4. /\ g.call = "sp_rollback_to" /\ g.of = s /\ g.name = name /\ g.op = "rollback_to"
      /\ g.then = "none" /\ g.result = "none"
  BY <1>3, NewCallIs
<1> HIDE DEF g
<1>5. Serves(g)
  BY <1>4 DEF Serves
<1>6. TxnClaim(t, g)
  BY <1>4 DEF TxnClaim, Holding
<1>7. MarkClaim(t, g)
  BY <1>1, <1>2, <1>4 DEF MarkClaim, GaveBack, Made
<1>8. Enter(t, "sp_rollback_to", s, "rollback_to", name, "none")
  BY <1>1 DEF EnterSp
<1> QED
  BY <1>3, <1>5, <1>6, <1>7, <1>8, EnterKeeps DEF g

\* release and __exit__ of a PySavepoint.
LEMMA SpEndKeeps ==
    ASSUME PyGood, NEW t \in Threads, NEW s \in MarkIds, MySavepoint(t, s),
           NEW op \in {"release", "rollback_to"}, NEW then \in {"none", "release"},
           op = "release" <=> then = "none",
           EnterSp(t, s, "sp_end", op, then), FinishSp(s)
    PROVE  PyCore'
<1>1. PICK name : name = sp[s].name
  OBVIOUS
<1> DEFINE g == NewCall("sp_end", s, name, op, then)
<1>2. sp[s] # NoSavepoint
  BY DEF MySavepoint
<1>3. /\ "sp_end" \in Methods \ {"none"} /\ op \in Ops \ {"none"}
      /\ s \in ObjectIds /\ name \in Names /\ name \in Names \union {None}
  BY <1>1, <1>2, SavepointIs DEF Methods, Ops
<1>4. /\ g.call = "sp_end" /\ g.of = s /\ g.name = name /\ g.op = op
      /\ g.then = then /\ g.result = "none"
  BY <1>3, NewCallIs
<1>5. Serves(g)
  BY <1>4 DEF Serves
<1>6. Enter(t, "sp_end", s, op, name, then)
  BY <1>1 DEF EnterSp
<1>7. /\ thread' \in [Threads -> Handles] /\ OnlyThread(t) /\ thread[t] = Idle
      /\ thread'[t] = g
      /\ UNCHANGED <<limit, engine, flock, mutex, began, direct, object, sp, released>>
      /\ gil' \in Threads \union {None}
      /\ PySteps' /\ PyDropped'
  BY <1>3, <1>5, <1>6, EnterIs
<1> HIDE DEF g
<1>8. spFinished' = spFinished \union {s} /\ finished' = finished
  BY DEF FinishSp
<1>9. PyShape'
  BY <1>2, <1>7, <1>8 DEF PyGood, PyCore, PyShape
<1>10. ~Holding(thread[t])
  BY <1>7 DEF Idle, Holding
<1>11. PyTransactions'
  <2>1. TxnClaim(t, g)
    BY <1>4 DEF TxnClaim, Holding
  <2>2. \A u \in Threads : TxnClaim(u, thread'[u])
    BY <1>7, <2>1 DEF PyGood, PyCore, PyTransactions, OnlyThread
  <2>3. \A u \in Threads : TxnClaim(u, thread[u])'
    BY <1>7, <1>8, <2>2 DEF TxnClaim
  <2> QED
    BY <1>7, <1>8, <1>10, <2>3 DEF PyGood, PyCore, PyTransactions, OnlyThread
<1>12. PyMarks'
  <2>1. MarkClaim(t, thread[t])'
    BY <1>1, <1>2, <1>4, <1>7, <1>8 DEF MarkClaim, GaveBack, Made
  <2>2. \A u \in Threads \ {t} : MarkClaim(u, thread[u])'
    <3>1. TAKE u \in Threads \ {t}
    <3>2. MarkClaim(u, thread[u]) /\ thread'[u] = thread[u]
      BY <1>7 DEF PyGood, PyCore, PyMarks, OnlyThread
    <3> QED
      BY <1>7, <1>8, <3>2 DEF MarkClaim
  <2>3. ~Made(thread'[t])
    BY <1>4, <1>7 DEF Made
  <2> QED
    BY <1>7, <2>1, <2>2, <2>3 DEF PyGood, PyCore, PyMarks, OnlyThread
<1> QED
  BY <1>7, <1>9, <1>11, <1>12 DEF PyGood, PyCore

LEMMA ClientKeeps ==
    ASSUME PyGood, NEW t \in Threads, Client(t)
    PROVE  PyCore'
<1>1. CASE \/ close(t) \/ py_begin(t) \/ py_commit(t) \/ py_rollback(t)
           \/ py_data(t) \/ transaction(t)
  BY <1>1, EnterDbKeeps DEF close, py_begin, py_commit, py_rollback, py_data, transaction
<1>2. ASSUME NEW x \in Transactions, tx_data(t, x)
      PROVE  PyCore'
  BY <1>2, TxCallKeeps DEF tx_data, check_live
<1>3. ASSUME NEW x \in Transactions, tx_commit(t, x) \/ tx_rollback(t, x)
      PROVE  PyCore'
  BY <1>3, TxEndKeeps DEF tx_commit, tx_rollback, check_live
<1>4. ASSUME NEW x \in Transactions, NEW raised \in BOOLEAN, tx_exit(t, x, raised)
      PROVE  PyCore'
  BY <1>4, TxEndKeeps DEF tx_exit
<1>5. ASSUME NEW x \in Transactions, NEW name \in limit.names, tx_savepoint(t, x, name)
      PROVE  PyCore'
  <2>1. name \in Names
    BY LimitsShape DEF PyGood, PyCore, PyShape
  <2> QED
    BY <1>5, <2>1, TxCallKeeps DEF tx_savepoint, check_live
<1>6. ASSUME NEW s \in MarkIds, sp_release(t, s)
      PROVE  PyCore'
  BY <1>6, SpEndKeeps DEF sp_release
<1>7. ASSUME NEW s \in MarkIds, sp_rollback_to(t, s)
      PROVE  PyCore'
  BY <1>7, SpRollbackToKeeps DEF sp_rollback_to
<1>8. ASSUME NEW s \in MarkIds, NEW raised \in BOOLEAN, sp_exit(t, s, raised)
      PROVE  PyCore'
  BY <1>8, SpEndKeeps DEF sp_exit
<1> QED
  BY <1>1, <1>2, <1>3, <1>4, <1>5, <1>6, <1>7, <1>8 DEF Client

-----------------------------------------------------------------------------
(* The end of a call.                                                       *)

\* A thread whose call is over lets go of nothing the invariant counts on.
LEMMA ReturnedIs ==
    ASSUME PyGood, NEW t \in Threads, Returned(t)
    PROVE  /\ thread[t] \in Handles /\ InProgress(thread[t]) /\ Serves(thread[t])
           /\ thread[t].op = "none" /\ ~Inside(thread[t]) /\ thread[t].result # "none"
           /\ TxnClaim(t, thread[t]) /\ MarkClaim(t, thread[t])
           /\ ~(thread[t].call = "close" /\ thread[t].step = 4)
           /\ Holding(thread[t]) => thread[t].call = "transaction" /\ thread[t].result = "Ok"
<1>1. /\ thread[t] \in Handles /\ InProgress(thread[t]) /\ Serves(thread[t])
      /\ TxnClaim(t, thread[t]) /\ MarkClaim(t, thread[t])
  BY DEF PyGood, PyCore, PyShape, PySteps, PyTransactions, PyMarks
<1>2. thread[t].step = After(thread[t], 6)
  BY <1>1, DoesIs
<1>3. thread[t].op = "none" /\ ~Inside(thread[t]) /\ thread[t].step > 3
  BY <1>1, <1>2, Steps
<1>4. ~(thread[t].call = "close" /\ thread[t].step = 4)
  BY <1>2 DEF After
<1>5. thread[t].result # "none"
  BY <1>1, <1>3 DEF InProgress
<1>6. Holding(thread[t]) => thread[t].call = "transaction" /\ thread[t].result = "Ok"
  BY <1>1, <1>3 DEF Holding, TxnClaim
<1> QED
  BY <1>1, <1>3, <1>4, <1>5, <1>6

\* Thread t becomes g, which starts nothing new that is bounded.
LEMMA EndIs ==
    ASSUME PyGood, NEW t \in Threads, Returned(t), NEW g \in Handles,
           thread' = [thread EXCEPT ![t] = g],
           InProgress(g), Serves(g), ~Inside(g), g.op \notin {"begin", "savepoint"},
           g.result # "Closed", gil' \in Threads \union {None},
           UNCHANGED <<limit, engine, flock, mutex>>
    PROVE  /\ thread' \in [Threads -> Handles] /\ OnlyThread(t) /\ thread'[t] = g
           /\ PySteps' /\ PyDropped'
<1>1. thread \in [Threads -> Handles]
  BY DEF PyGood, PyCore, PyShape
<1>2. thread' \in [Threads -> Handles] /\ OnlyThread(t) /\ thread'[t] = g
  BY <1>1 DEF OnlyThread
<1>3. PySteps'
  BY <1>2 DEF PyGood, PyCore, PySteps, OnlyThread
<1>5. PyDropped'
  BY <1>2, ReturnedIs DEF PyGood, PyCore, PyDropped, OnlyThread
<1> QED
  BY <1>2, <1>3, <1>5

LEMMA IdleIs ==
    /\ Idle \in Handles /\ InProgress(Idle) /\ Serves(Idle) /\ ~Inside(Idle)
    /\ Idle.op = "none" /\ Idle.result = "none" /\ Idle.call = "none"
    /\ ~Holding(Idle) /\ ~Made(Idle) /\ ~GaveBack(Idle)
<1>1. /\ Idle.call = "none" /\ Idle.of = 0 /\ Idle.op = "none" /\ Idle.then = "none"
      /\ Idle.step = 0 /\ Idle.result = "none"
  BY DEF Idle
<1>2. Idle \in Handles
  BY ObjectIdsAre DEF Idle, Handles, Methods, Ops, Results
<1>3. InProgress(Idle) /\ Serves(Idle) /\ ~Inside(Idle)
  BY <1>1 DEF InProgress, Serves, Inside
<1>4. ~Holding(Idle) /\ ~Made(Idle) /\ ~GaveBack(Idle)
  BY <1>1 DEF Holding, Made, GaveBack
<1> QED
  BY <1>1, <1>2, <1>3, <1>4

LEMMA ReturnIs ==
    ASSUME PyGood, NEW t \in Threads, Returned(t), Return(t), UNCHANGED Kept
    PROVE  /\ thread' \in [Threads -> Handles] /\ OnlyThread(t) /\ thread'[t] = Idle
           /\ PySteps' /\ PyDropped'
           /\ gil' \in Threads \union {None}
           /\ UNCHANGED <<limit, engine, flock, mutex, began, direct, finished, spFinished>>
<1>1. /\ thread' = [thread EXCEPT ![t] = Idle] /\ gil' \in Threads \union {None}
      /\ UNCHANGED <<limit, engine, flock, mutex, began, direct, finished, spFinished>>
  BY DEF Return, Kept
<1> QED
  BY ZenonT(30), <1>1, IdleIs, EndIs

\* A return that hands nothing over and is not followed by an object.
LEMMA PlainReturn ==
    ASSUME PyGood, NEW t \in Threads, Returned(t), Return(t), UNCHANGED Kept, UNCHANGED <<object, sp>>,
           ~Holding(thread[t]),
           \/ released' = released
           \/ released' = released \union {thread[t].of} /\ GaveBack(thread[t])
    PROVE  PyCore'
<1>1. /\ thread' \in [Threads -> Handles] /\ OnlyThread(t) /\ thread'[t] = Idle
      /\ PySteps' /\ PyDropped'
      /\ gil' \in Threads \union {None}
      /\ UNCHANGED <<limit, engine, flock, mutex, began, direct, finished, spFinished, object, sp>>
  BY ReturnIs
<1>2. MarkClaim(t, thread[t])
  BY ReturnedIs
<1>3. GaveBack(thread[t]) => /\ thread[t].of \in spFinished
                             /\ \A i \in 1..Len(engine.marks) : engine.marks[i].id # thread[t].of
  BY <1>2 DEF MarkClaim, GaveBack
<1>4. PyShape'
  BY <1>1, <1>3 DEF PyGood, PyCore, PyShape
<1>5. PyTransactions'
  <2>1. TxnClaim(t, Idle)
    BY IdleIs DEF TxnClaim
  <2>2. \A u \in Threads : TxnClaim(u, thread'[u])
    BY <1>1, <2>1 DEF PyGood, PyCore, PyTransactions, OnlyThread
  <2>3. \A u \in Threads : TxnClaim(u, thread[u])'
    BY <1>1, <2>2 DEF TxnClaim
  <2> QED
    BY <1>1, <2>3, IdleIs DEF PyGood, PyCore, PyTransactions, OnlyThread
<1>6. PyMarks'
  <2>1. MarkClaim(t, Idle)
    BY IdleIs DEF MarkClaim
  <2>2. \A u \in Threads : MarkClaim(u, thread'[u])
    BY <1>1, <2>1 DEF PyGood, PyCore, PyMarks, OnlyThread
  <2>3. \A u \in Threads : MarkClaim(u, thread[u])'
    BY <1>1, <2>2 DEF MarkClaim
  <2>4. \A u, v \in Threads : Made(thread'[u]) /\ Made(thread'[v]) => u = v
    BY <1>1, IdleIs DEF PyGood, PyCore, PyMarks, OnlyThread
  <2>5. \A i \in 1..Len(engine.marks) : engine.marks[i].id \notin released'
    BY <1>3 DEF PyGood, PyCore, PyMarks
  <2> QED
    BY <1>1, <2>3, <2>4, <2>5 DEF PyGood, PyCore, PyMarks
<1> QED
  BY <1>1, <1>4, <1>5, <1>6 DEF PyGood, PyCore

LEMMA RaiseKeeps ==
    ASSUME PyGood, NEW t \in Threads, Raise(t)
    PROVE  PyCore'
<1>1. ~Holding(thread[t])
  BY ReturnedIs DEF Raise, Refused
<1> QED
  BY <1>1, PlainReturn DEF Raise

LEMMA ReturnOkKeeps ==
    ASSUME PyGood, NEW t \in Threads, ReturnOk(t)
    PROVE  PyCore'
<1>1. Returned(t) /\ thread[t].result = "Ok" /\ thread[t].then = "none" /\ thread[t].op = "none"
  BY ReturnedIs DEF ReturnOk, LastCall, Refused
<1>2. ~Holding(thread[t])
  BY <1>1, ReturnedIs DEF ReturnOk
<1>3. thread[t].call = "sp_end" => GaveBack(thread[t])
  BY <1>1 DEF GaveBack
<1> QED
  BY <1>1, <1>2, <1>3, PlainReturn DEF ReturnOk

LEMMA ContinueKeeps ==
    ASSUME PyGood, NEW t \in Threads, Continue(t)
    PROVE  PyCore'
<1>1. PICK h : h = thread[t]
  OBVIOUS
<1>2. /\ Returned(t) /\ h \in Handles /\ InProgress(h) /\ Serves(h) /\ h.then # "none"
      /\ TxnClaim(t, h) /\ MarkClaim(t, h)
      /\ UNCHANGED Kept /\ UNCHANGED <<gil, object, sp, released>>
  BY <1>1, ReturnedIs DEF Continue
<1>3. h.call = "sp_end" /\ h.then = "release" /\ h.name \in Names
  <2>1. h.call = "sp_end" /\ h.then = "release"
    BY <1>2 DEF Serves, Handles
  <2>2. h.of \in MarkIds /\ sp[h.of] # NoSavepoint /\ h.name = sp[h.of].name
    BY <1>1, <1>2, <2>1, ReturnedIs DEF MarkClaim
  <2> QED
    BY <2>1, <2>2, SavepointIs
<1> DEFINE g == [h EXCEPT !.op = "release", !.then = "none", !.step = 1, !.result = "none"]
<1>4. thread' = [thread EXCEPT ![t] = g]
  BY ZenonT(30), <1>1, <1>3 DEF Continue, PyGood, PyCore, PyShape
<1>5. /\ g.call = "sp_end" /\ g.of = h.of /\ g.name = h.name /\ g.op = "release"
      /\ g.then = "none" /\ g.step = 1 /\ g.result = "none"
  BY <1>2, <1>3 DEF Handles
<1>6. g \in Handles
  <2>1. "release" \in Ops /\ "none" \in Results /\ 1 \in 0..7
    BY DEF Ops, Results
  <2> QED
    BY ZenonT(30), <1>2, <2>1 DEF Handles
<1> HIDE DEF g
<1>7. InProgress(g) /\ Serves(g) /\ ~Inside(g)
  BY <1>3, <1>5 DEF InProgress, Serves, Inside
<1>8. UNCHANGED <<limit, engine, flock, mutex, gil, began, direct, object, finished, sp,
                  spFinished, released>>
  BY <1>2 DEF Kept
<1>9. gil' \in Threads \union {None}
  BY <1>8 DEF PyGood, PyCore, PyShape
<1>10. /\ thread' \in [Threads -> Handles] /\ OnlyThread(t) /\ thread'[t] = g
       /\ PySteps' /\ PyDropped'
  BY ZenonT(30), <1>2, <1>4, <1>5, <1>6, <1>7, <1>8, <1>9, EndIs
<1>11. PyShape'
  BY <1>8, <1>10 DEF PyGood, PyCore, PyShape
<1>12. PyTransactions'
  <2>1. TxnClaim(t, g)
    BY <1>5 DEF TxnClaim, Holding
  <2>2. \A u \in Threads : TxnClaim(u, thread'[u])
    BY <1>10, <2>1 DEF PyGood, PyCore, PyTransactions, OnlyThread
  <2>3. \A u \in Threads : TxnClaim(u, thread[u])'
    BY <1>8, <2>2 DEF TxnClaim
  <2>4. ~Holding(thread[t])
    BY <1>1, <1>3, ReturnedIs, <1>2
  <2> QED
    BY <1>8, <1>10, <2>3, <2>4 DEF PyGood, PyCore, PyTransactions, OnlyThread
<1>13. PyMarks'
  <2>1. MarkClaim(t, g)
    BY <1>1, <1>2, <1>3, <1>5, ReturnedIs DEF MarkClaim, Made, GaveBack
  <2>2. \A u \in Threads : MarkClaim(u, thread'[u])
    BY <1>10, <2>1 DEF PyGood, PyCore, PyMarks, OnlyThread
  <2>3. \A u \in Threads : MarkClaim(u, thread[u])'
    BY <1>8, <2>2 DEF MarkClaim
  <2>4. ~Made(g)
    BY <1>5 DEF Made
  <2> QED
    BY <1>8, <1>10, <2>3, <2>4 DEF PyGood, PyCore, PyMarks, OnlyThread
<1> QED
  BY <1>10, <1>11, <1>12, <1>13 DEF PyGood, PyCore

\* The transaction that transaction() began is the thread's, and is in nobody's hands yet.
LEMMA BegunIs ==
    ASSUME PyGood, NEW t \in Threads, LastCall(t), thread[t].call = "transaction"
    PROVE  /\ Returned(t) /\ thread[t].of # 0 /\ Holding(thread[t])
           /\ thread[t].of \in (1..engine.begun) \ (direct \union object) /\ began[thread[t].of] = t
           /\ Alive(engine) => engine.txn = thread[t].of
<1>1. Returned(t) /\ thread[t].result = "Ok" /\ TxnClaim(t, thread[t])
  BY ReturnedIs DEF LastCall, Refused
<1>2. thread[t].of # 0
  BY <1>1 DEF TxnClaim
<1>3. Holding(thread[t])
  BY <1>2 DEF Holding
<1> QED
  BY <1>1, <1>2, <1>3 DEF TxnClaim

LEMMA NewTransactionKeeps ==
    ASSUME PyGood, NEW t \in Threads, NewTransaction(t)
    PROVE  PyCore'
<1>1. PICK x : x = thread[t].of
  OBVIOUS
<1>2. /\ Returned(t) /\ x \in (1..engine.begun) \ (direct \union object) /\ began[x] = t
      /\ Alive(engine) => engine.txn = x
  BY <1>1, BegunIs DEF NewTransaction
<1>3. /\ thread' \in [Threads -> Handles] /\ OnlyThread(t) /\ thread'[t] = Idle
      /\ PySteps' /\ PyDropped'
      /\ gil' \in Threads \union {None}
      /\ UNCHANGED <<limit, engine, flock, mutex, began, direct, finished, spFinished>>
  BY <1>2, ReturnIs DEF NewTransaction
<1>4. object' = object \union {x} /\ UNCHANGED <<sp, released>>
  BY <1>1 DEF NewTransaction
<1>5. PyShape'
  BY <1>2, <1>3, <1>4 DEF PyGood, PyCore, PyShape
<1>6. PyTransactions'
  <2>1. TxnClaim(t, thread[t])'
    BY <1>3, IdleIs DEF TxnClaim
  <2>2. \A u \in Threads \ {t} : TxnClaim(u, thread[u])'
    <3>1. TAKE u \in Threads \ {t}
    <3>2. TxnClaim(u, thread[u]) /\ thread'[u] = thread[u] /\ u # t
      BY <1>3 DEF PyGood, PyCore, PyTransactions, OnlyThread
    <3> QED
      BY <1>2, <1>3, <1>4, <3>2 DEF TxnClaim
  <2>3. Alive(engine') => \A y \in object' \ finished' : engine'.txn = y
    BY <1>2, <1>3, <1>4 DEF PyGood, PyCore, PyTransactions
  <2>4. x \notin finished
    BY <1>2 DEF PyGood, PyCore, PyShape
  <2>5. Alive(engine') /\ engine'.txn # 0 => engine'.txn \in object' \ finished'
    BY <1>2, <1>3, <1>4, <2>4
  <2> QED
    BY <2>1, <2>2, <2>3, <2>5 DEF PyTransactions
<1>7. PyMarks'
  <2>1. MarkClaim(t, Idle)
    BY IdleIs DEF MarkClaim
  <2>2. \A u \in Threads : MarkClaim(u, thread'[u])
    BY <1>3, <2>1 DEF PyGood, PyCore, PyMarks, OnlyThread
  <2>3. \A u \in Threads : MarkClaim(u, thread[u])'
    BY <1>3, <1>4, <2>2 DEF MarkClaim
  <2> QED
    BY <1>3, <1>4, <2>3, IdleIs DEF PyGood, PyCore, PyMarks, OnlyThread
<1> QED
  BY <1>3, <1>5, <1>6, <1>7 DEF PyGood, PyCore

LEMMA NewTransactionFailsKeeps ==
    ASSUME PyGood, NEW t \in Threads, NewTransactionFails(t)
    PROVE  PyCore'
<1>1. PICK h : h = thread[t]
  OBVIOUS
<1>2. /\ Returned(t) /\ h \in Handles /\ Serves(h) /\ h.call = "transaction" /\ h.of # 0
      /\ h.of \in (1..engine.begun) \ (direct \union object) /\ began[h.of] = t
      /\ Alive(engine) => engine.txn = h.of
      /\ UNCHANGED Kept /\ UNCHANGED <<gil, object, sp, released>>
  BY <1>1, BegunIs, ReturnedIs DEF NewTransactionFails
<1> DEFINE g == [h EXCEPT !.call = "undo", !.op = "rollback", !.step = 1, !.result = "none"]
<1>3. thread' = [thread EXCEPT ![t] = g]
  BY ZenonT(30), <1>1 DEF NewTransactionFails, PyGood, PyCore, PyShape
<1>4. /\ g.call = "undo" /\ g.of = h.of /\ g.op = "rollback"
      /\ g.then = h.then /\ g.step = 1 /\ g.result = "none"
  BY <1>2 DEF Handles
<1>5. g \in Handles
  <2>1. "undo" \in Methods /\ "rollback" \in Ops /\ "none" \in Results /\ 1 \in 0..7
    BY DEF Methods, Ops, Results
  <2> QED
    BY ZenonT(30), <1>2, <2>1 DEF Handles
<1> HIDE DEF g
<1>6. InProgress(g) /\ Serves(g) /\ ~Inside(g)
  BY <1>2, <1>4 DEF InProgress, Serves, Inside
<1>7. UNCHANGED <<limit, engine, flock, mutex, gil, began, direct, object, finished, sp,
                  spFinished, released>>
  BY <1>2 DEF Kept
<1>8. gil' \in Threads \union {None}
  BY <1>7 DEF PyGood, PyCore, PyShape
<1>9. /\ thread' \in [Threads -> Handles] /\ OnlyThread(t) /\ thread'[t] = g
      /\ PySteps' /\ PyDropped'
  BY ZenonT(30), <1>2, <1>3, <1>4, <1>5, <1>6, <1>7, <1>8, EndIs
<1>10. PyShape'
  BY <1>7, <1>9 DEF PyGood, PyCore, PyShape
<1>11. PyTransactions'
  <2>1. TxnClaim(t, g)
    BY <1>2, <1>4 DEF TxnClaim, Holding
  <2>2. \A u \in Threads : TxnClaim(u, thread'[u])
    BY <1>9, <2>1 DEF PyGood, PyCore, PyTransactions, OnlyThread
  <2>3. \A u \in Threads : TxnClaim(u, thread[u])'
    BY <1>7, <2>2 DEF TxnClaim
  <2>4. Holding(g) /\ g.of = thread[t].of
    BY <1>1, <1>4 DEF Holding
  <2> QED
    BY <1>7, <1>9, <2>3, <2>4 DEF PyGood, PyCore, PyTransactions, OnlyThread
<1>12. PyMarks'
  <2>1. MarkClaim(t, g) /\ ~Made(g)
    BY <1>4 DEF MarkClaim, Made, GaveBack
  <2>2. \A u \in Threads : MarkClaim(u, thread'[u])
    BY <1>9, <2>1 DEF PyGood, PyCore, PyMarks, OnlyThread
  <2>3. \A u \in Threads : MarkClaim(u, thread[u])'
    BY <1>7, <2>2 DEF MarkClaim
  <2> QED
    BY <1>7, <1>9, <2>1, <2>3 DEF PyGood, PyCore, PyMarks, OnlyThread
<1> QED
  BY <1>9, <1>10, <1>11, <1>12 DEF PyGood, PyCore

LEMMA NewSavepointKeeps ==
    ASSUME PyGood, NEW t \in Threads, NewSavepoint(t)
    PROVE  PyCore'
<1>1. PICK h : h = thread[t]
  OBVIOUS
<1>2. /\ Returned(t) /\ h.call = "tx_savepoint" /\ h.result = "Ok" /\ Made(h) /\ ~Holding(h)
      /\ h.of \in object \ finished /\ h.name \in Names
      /\ engine.made \in MarkIds /\ sp[engine.made] = NoSavepoint
      /\ \A i \in 1..Len(engine.marks) :
            engine.marks[i].id = engine.made => engine.marks[i].name = h.name
  <2>1. /\ Returned(t) /\ h.call = "tx_savepoint" /\ h.result = "Ok"
        /\ TxnClaim(t, h) /\ MarkClaim(t, h) /\ Serves(h)
    BY <1>1, ReturnedIs DEF NewSavepoint, LastCall, Refused
  <2>2. Made(h) /\ ~Holding(h)
    BY <2>1 DEF Made, Holding
  <2>3. h.name \in Names
    BY <2>1 DEF Serves
  <2>4. h.of \in object \ finished
    BY <2>1 DEF TxnClaim
  <2> QED
    BY <2>1, <2>2, <2>3, <2>4 DEF MarkClaim
<1>3. /\ thread' \in [Threads -> Handles] /\ OnlyThread(t) /\ thread'[t] = Idle
      /\ PySteps' /\ PyDropped'
      /\ gil' \in Threads \union {None}
      /\ UNCHANGED <<limit, engine, flock, mutex, began, direct, finished, spFinished>>
  BY <1>2, ReturnIs DEF NewSavepoint
<1>4. UNCHANGED <<object, released>>
  BY DEF NewSavepoint
<1>5. CASE UNCHANGED sp
  BY <1>1, <1>2, <1>4, <1>5, PlainReturn DEF NewSavepoint
<1>6. CASE sp' = [sp EXCEPT ![engine.made] = [txn |-> h.of, name |-> h.name]]
  <2>1. PICK m, s : m = engine.made /\ s = [txn |-> h.of, name |-> h.name]
    BY ZenonT(30)
  <2>2. h.of \in Transactions /\ h.of # 0
    <3>1. h.of \in 1..engine.begun /\ engine.begun \in Nat /\ engine.begun <= MaxTxn
      <4>1. engine.begun \in Nat /\ engine.begun <= MaxTxn
        BY DEF PyGood, PyCore, PyShape, Room, Engines
      <4> QED
        BY <1>2, <4>1 DEF PyGood, PyCore, PyShape
    <3> QED
      BY <3>1, SlotBounds DEF Transactions
  <2>3. /\ s \in [txn : Transactions, name : Names] /\ s # NoSavepoint
        /\ s.txn = h.of /\ s.name = h.name
    BY <1>2, <2>1, <2>2 DEF NoSavepoint
  <2>4. /\ sp \in [MarkIds -> {NoSavepoint} \union [txn : Transactions, name : Names]]
        /\ m \in MarkIds /\ sp[m] = NoSavepoint /\ m = engine.made
    BY <1>2, <2>1 DEF PyGood, PyCore, PyShape
  <2>5. /\ sp' \in [MarkIds -> {NoSavepoint} \union [txn : Transactions, name : Names]]
        /\ sp'[m] = s /\ \A k \in MarkIds \ {m} : sp'[k] = sp[k]
    BY <1>6, <2>1, <2>3, <2>4
  <2>6. PyShape'
    <3>1. spFinished' \subseteq {k \in MarkIds : sp'[k] # NoSavepoint}
      BY <1>3, <2>3, <2>4, <2>5 DEF PyGood, PyCore, PyShape
    <3>2. \A k \in MarkIds : sp'[k] # NoSavepoint => sp'[k].txn \in object /\ k <= engine.made
      <4>1. m <= engine.made
        BY <2>4, SlotBounds DEF MarkIds
      <4> QED
        BY <1>2, <2>3, <2>4, <2>5, <4>1 DEF PyGood, PyCore, PyShape
    <3> QED
      BY <1>3, <1>4, <2>5, <3>1, <3>2 DEF PyGood, PyCore, PyShape
  <2>7. PyTransactions'
    <3>1. TxnClaim(t, Idle)
      BY IdleIs DEF TxnClaim
    <3>2. \A u \in Threads : TxnClaim(u, thread'[u])
      BY <1>3, <3>1 DEF PyGood, PyCore, PyTransactions, OnlyThread
    <3>3. \A u \in Threads : TxnClaim(u, thread[u])'
      BY <1>3, <1>4, <3>2 DEF TxnClaim
    <3> QED
      BY <1>1, <1>2, <1>3, <1>4, <3>3, IdleIs DEF PyGood, PyCore, PyTransactions, OnlyThread
  <2>8. PyMarks'
    <3>1. \A u \in Threads : ~Made(thread'[u])
      BY <1>1, <1>2, <1>3, IdleIs DEF PyGood, PyCore, PyMarks, OnlyThread
    <3>2. MarkClaim(t, thread[t])'
      BY <1>3, IdleIs DEF MarkClaim
    <3>3. \A u \in Threads \ {t} : MarkClaim(u, thread[u])'
      <4>1. TAKE u \in Threads \ {t}
      <4>2. MarkClaim(u, thread[u]) /\ thread'[u] = thread[u] /\ ~Made(thread'[u])
        BY <1>3, <3>1 DEF PyGood, PyCore, PyMarks, OnlyThread
      <4> QED
        BY <1>3, <2>4, <2>5, <4>2 DEF MarkClaim
    <3>4. \A i \in 1..Len(engine.marks) :
             sp'[engine.marks[i].id] # NoSavepoint =>
                engine.marks[i].name = sp'[engine.marks[i].id].name
      <4>1. TAKE i \in 1..Len(engine.marks)
      <4>2. engine.marks[i].id \in MarkIds
        <5>1. engine.marks \in Seq(Marks)
          BY DEF PyGood, PyCore, PyShape, Engines
        <5>2. engine.marks[i] \in Marks
          BY <5>1
        <5> QED
          BY <5>2 DEF Marks
      <4> QED
        BY <1>2, <2>3, <2>4, <2>5, <4>2 DEF PyGood, PyCore, PyMarks
    <3> QED
      BY SMTT(30), <1>3, <1>4, <3>1, <3>2, <3>3, <3>4 DEF PyGood, PyCore, PyMarks
  <2> QED
    BY <1>3, <2>6, <2>7, <2>8 DEF PyGood, PyCore
<1> QED
  BY <1>1, <1>5, <1>6 DEF NewSavepoint

-----------------------------------------------------------------------------
(* The engine call itself.                                                  *)

\* h has made its engine call, with result r and transaction x; g is what it is now.
Called(h, g, x, r) == /\ g.call = h.call /\ g.of = x /\ g.name = h.name /\ g.op = "none"
                      /\ g.then = h.then /\ g.step = 4 /\ g.result = r

Fresh == engine'.txn # 0 /\ engine.txn = 0

LEMMA RunIs ==
    ASSUME PyGood, NEW t \in Threads, Run(t)
    PROVE  /\ thread[t] \in Handles /\ thread[t].step = 3 /\ mutex = t
           /\ InProgress(thread[t]) /\ Serves(thread[t])
           /\ TxnClaim(t, thread[t]) /\ MarkClaim(t, thread[t])
           /\ EngineStep(engine, thread[t].op, thread[t].name, engine', thread'[t].result)
           /\ Called(thread[t], thread'[t], IF Fresh THEN engine'.txn ELSE thread[t].of,
                     thread'[t].result)
           /\ thread' \in [Threads -> Handles] /\ OnlyThread(t)
           /\ began' = IF Fresh THEN [began EXCEPT ![engine'.txn] = t] ELSE began
           /\ direct' = IF Fresh /\ thread[t].call = "db" THEN direct \union {engine'.txn} ELSE direct
           /\ UNCHANGED <<limit, flock, mutex, gil, object, finished, sp, spFinished, released>>
<1>1. PICK h : h = thread[t]
  OBVIOUS
<1>2. /\ h \in Handles /\ h.step = 3 /\ InProgress(h) /\ Serves(h)
      /\ TxnClaim(t, h) /\ MarkClaim(t, h)
  BY <1>1, DoesIs DEF PyGood, PyCore, PyShape, PySteps, PyTransactions, PyMarks, Run
<1>3. mutex = t /\ h.op \in Ops \ {"none"}
  BY <1>1, <1>2, Steps DEF PyGood, PyCore, PySteps, Inside, Handles
<1>4. PICK out \in EngineCall(engine, h.op, h.name) :
         /\ engine' = out.engine
         /\ thread' = [thread EXCEPT ![t].step = @ + 1, ![t].op = "none",
                                     ![t].result = out.result,
                                     ![t].of = IF out.engine.txn # 0 /\ engine.txn = 0
                                               THEN out.engine.txn ELSE @]
         /\ began' = IF out.engine.txn # 0 /\ engine.txn = 0
                     THEN [began EXCEPT ![out.engine.txn] = t] ELSE began
         /\ direct' = IF (out.engine.txn # 0 /\ engine.txn = 0) /\ thread[t].call = "db"
                      THEN direct \union {out.engine.txn} ELSE direct
  BY ZenonT(30), <1>1 DEF Run
<1>5. EngineStep(engine, h.op, h.name, engine', out.result)
  <2>1. engine \in Engines
    BY DEF PyGood, PyCore, PyShape
  <2>2. h.op = "savepoint" => h.name \in Names /\ engine.made + 1 \in MarkIds
    BY <1>1, <1>2 DEF PyGood, PyCore, Room, InProgress
  <2> QED
    BY <1>3, <1>4, <2>1, <2>2, EngineCallIs
<1>6. out.result \in Results
  BY <1>5 DEF EngineStep, Results
<1>7. PICK x : x = IF Fresh THEN engine'.txn ELSE h.of
  OBVIOUS
<1>8. x \in ObjectIds
  <2>1. Fresh => engine'.txn \in Transactions
    BY <1>1, <1>5 DEF PyGood, PyCore, Room, Fresh, EngineStep, Begins, Marked, Lessens
  <2> QED
    BY <1>2, <1>7, <2>1, ObjectIdsAre DEF Handles
<1> DEFINE g == [h EXCEPT !.step = 4, !.op = "none", !.result = out.result, !.of = x]
<1>9. thread' = [thread EXCEPT ![t] = g]
  <2>1. h.step + 1 = 4
    BY <1>2
  <2>2. thread' = [thread EXCEPT ![t] = [h EXCEPT !.step = h.step + 1, !.op = "none",
                                                  !.result = out.result, !.of = x]]
    BY ZenonT(30), <1>1, <1>4, <1>7 DEF PyGood, PyCore, PyShape, Fresh
  <2> QED
    BY ZenonT(30), <2>1, <2>2
<1>10. g \in Handles
  <2>1. "none" \in Ops /\ 4 \in 0..7
    BY DEF Ops
  <2> QED
    BY ZenonT(30), <1>2, <1>6, <1>8, <2>1 DEF Handles
<1>11. Called(h, g, x, out.result)
  BY <1>2 DEF Called, Handles
<1> HIDE DEF g
<1>12. thread' \in [Threads -> Handles] /\ OnlyThread(t) /\ thread'[t] = g
  BY <1>9, <1>10 DEF PyGood, PyCore, PyShape, OnlyThread
<1>13. thread'[t].result = out.result
  BY <1>11, <1>12 DEF Called
<1>14. UNCHANGED <<limit, flock, mutex, gil, object, finished, sp, spFinished, released>>
  BY DEF Run
<1>15. /\ began' = IF Fresh THEN [began EXCEPT ![engine'.txn] = t] ELSE began
       /\ direct' = IF Fresh /\ thread[t].call = "db" THEN direct \union {engine'.txn} ELSE direct
  BY <1>4 DEF Fresh
<1> QED
  BY SMTT(30), <1>1, <1>2, <1>3, <1>5, <1>7, <1>11, <1>12, <1>13, <1>14, <1>15

LEMMA RunSteps ==
    ASSUME PyGood, NEW t \in Threads, Run(t)
    PROVE  PySteps'
<1>1. PICK h, g, x : h = thread[t] /\ g = thread'[t] /\ Called(h, g, x, g.result)
  BY RunIs
<1>2. /\ InProgress(h) /\ Serves(h) /\ h.step = 3 /\ h.call # "none" /\ mutex' = t
      /\ g.result \in {"Ok", "Err", "Closed"}
  BY <1>1, RunIs, Steps DEF EngineStep
<1>3. InProgress(g)
  BY <1>1, <1>2 DEF InProgress, Called
<1>4. Serves(g)
  BY <1>1, <1>2 DEF Serves, Called
<1>5. \A u \in Threads \ {t} : thread'[u] = thread[u] /\ ~Inside(thread[u])
  <2>1. Inside(h)
    BY <1>2 DEF Inside
  <2> QED
    BY <1>1, <2>1, MutexIs, RunIs DEF OnlyThread
<1> QED
  BY <1>1, <1>2, <1>3, <1>4, <1>5 DEF PyGood, PyCore, PySteps

LEMMA RunDropped ==
    ASSUME PyGood, NEW t \in Threads, Run(t)
    PROVE  PyDropped'
<1>1. PICK h, g, x : h = thread[t] /\ g = thread'[t] /\ Called(h, g, x, g.result)
  BY RunIs
<1>2. /\ Serves(h) /\ h \in Handles /\ h.step = 3 /\ flock' = flock /\ OnlyThread(t)
      /\ EngineStep(engine, h.op, h.name, engine', g.result)
      /\ h.call # "none"
  BY <1>1, RunIs, Steps
<1>3. ASSUME ~engine'.open, flock
      PROVE  \E u \in Threads : thread'[u].call = "close" /\ thread'[u].step = 4
  <2>1. CASE engine.open
    <3>1. h.op = "take"
      BY <1>2, <1>3, <2>1 DEF EngineStep
    <3>2. h.call = "close"
      BY <1>2, <3>1 DEF Serves, Handles, Methods
    <3> QED
      BY <1>1, <3>2 DEF Called
  <2>2. CASE ~engine.open
    <3>1. PICK u \in Threads : thread[u].call = "close" /\ thread[u].step = 4
      BY <1>3, <2>2 DEF PyGood, PyCore, PyDropped
    <3>2. u # t
      BY <1>1, <1>2, <3>1
    <3> QED
      BY <1>2, <3>1, <3>2 DEF OnlyThread
  <2> QED
    BY <2>1, <2>2
<1>4. g.result = "Closed" => ~flock
  <2>1. SUFFICES ASSUME g.result = "Closed", flock PROVE FALSE
    OBVIOUS
  <2>2. ~engine.open
    BY <1>2, <2>1 DEF EngineStep
  <2>3. PICK u \in Threads : thread[u].call = "close" /\ thread[u].step = 4
    BY <2>1, <2>2 DEF PyGood, PyCore, PyDropped
  <2>4. u # t /\ Inside(thread[u]) /\ Inside(h)
    BY <1>1, <1>2, <2>3 DEF Inside
  <2> QED
    BY <1>1, <2>4, MutexIs
<1>5. \A u \in Threads : thread'[u].result = "Closed" => ~flock
  BY <1>1, <1>2, <1>4 DEF PyGood, PyCore, PyDropped, OnlyThread
<1> QED
  BY <1>2, <1>3, <1>5 DEF PyDropped

\* The call that begins a transaction finds none: nobody holds one.
LEMMA NoneOpen ==
    ASSUME PyGood, Alive(engine), engine.txn = 0
    PROVE  /\ object \subseteq finished
           /\ \A u \in Threads : /\ ~Holding(thread[u])
                                 /\ thread[u].call = "db" => thread[u].op \notin {"commit", "rollback"}
<1>1. 0 \notin object /\ 0 \notin direct /\ finished \subseteq object
  BY DEF PyGood, PyCore, PyShape
<1>2. object \subseteq finished
  BY <1>1 DEF PyGood, PyCore, PyTransactions
<1>3. ASSUME NEW u \in Threads
      PROVE  /\ ~Holding(thread[u])
             /\ thread[u].call = "db" => thread[u].op \notin {"commit", "rollback"}
  <2>1. TxnClaim(u, thread[u])
    BY DEF PyGood, PyCore, PyTransactions
  <2> QED
    BY <1>1, <2>1 DEF TxnClaim, Holding
<1> QED
  BY <1>2, <1>3

LEMMA RunBegins ==
    ASSUME PyGood, NEW t \in Threads, Run(t),
           Begins(engine, thread[t].op, engine', thread'[t].result)
    PROVE  PyCore'
<1>1. PICK h, g, n : h = thread[t] /\ g = thread'[t] /\ n = engine.begun + 1
  OBVIOUS
<1>2. /\ engine.txn = 0 /\ Alive(engine) /\ engine'.txn = n /\ engine'.begun = n
      /\ engine'.made = engine.made /\ engine'.marks = engine.marks
      /\ h.op = "begin" /\ g.result = "Ok" /\ n \in Transactions /\ n # 0
  BY <1>1, SlotBounds DEF PyGood, PyCore, Room, Begins, Transactions
<1>3. Fresh
  BY <1>2 DEF Fresh
<1>4. /\ h \in Handles /\ Serves(h) /\ TxnClaim(t, h) /\ MarkClaim(t, h) /\ Called(h, g, n, "Ok")
      /\ thread' \in [Threads -> Handles] /\ OnlyThread(t)
      /\ began' = [began EXCEPT ![n] = t]
      /\ direct' = IF h.call = "db" THEN direct \union {n} ELSE direct
      /\ UNCHANGED <<limit, flock, mutex, gil, object, finished, sp, spFinished, released>>
      /\ engine' \in Engines /\ h.call # "none"
  BY <1>1, <1>2, <1>3, RunIs, Steps DEF EngineStep
<1>5. h.call \in {"db", "transaction"}
  BY <1>2, <1>4 DEF Serves, Handles, Methods
<1>6. /\ began' \in [Transactions -> Threads \union {None}] /\ began'[n] = t
      /\ \A x \in 1..engine.begun : x # n /\ began'[x] = began[x]
  <2>1. engine.begun \in Nat
    BY DEF PyGood, PyCore, PyShape, Engines
  <2>2. \A x \in 1..engine.begun : x # n /\ x \in Transactions
    BY <1>1, <1>2, <2>1, SlotBounds DEF Transactions
  <2> QED
    BY <1>2, <1>4, <2>2 DEF PyGood, PyCore, PyShape
<1>7. /\ 1..engine.begun \subseteq 1..n /\ n \in 1..n /\ n \notin object /\ n \notin direct
      /\ engine.begun \in Nat
  <2>1. engine.begun \in Nat
    BY DEF PyGood, PyCore, PyShape, Engines
  <2> QED
    BY <1>1, <2>1 DEF PyGood, PyCore, PyShape
<1>8. PyShape'
  <2>1. /\ direct' \subseteq 1..n /\ object \subseteq 1..n /\ direct' \intersect object = {}
    BY <1>4, <1>7 DEF PyGood, PyCore, PyShape
  <2>2. engine'.txn <= engine'.begun
    BY <1>1, <1>2, <1>7
  <2> QED
    BY SMTT(30), <1>2, <1>4, <1>6, <2>1, <2>2 DEF PyGood, PyCore, PyShape
<1>9. /\ object \subseteq finished
      /\ \A u \in Threads : /\ ~Holding(thread[u])
                            /\ thread[u].call = "db" => thread[u].op \notin {"commit", "rollback"}
  BY <1>2, NoneOpen
<1>10. PyTransactions'
  <2>1. TxnClaim(t, thread[t])'
    BY SMTT(30), <1>1, <1>2, <1>4, <1>5, <1>6, <1>7 DEF TxnClaim, Called, Holding
  <2>2. \A u \in Threads \ {t} : TxnClaim(u, thread[u])'
    <3>1. TAKE u \in Threads \ {t}
    <3>2. TxnClaim(u, thread[u]) /\ thread'[u] = thread[u]
      BY <1>4 DEF PyGood, PyCore, PyTransactions, OnlyThread
    <3>3. object \subseteq 1..engine.begun /\ finished \subseteq object
      BY DEF PyGood, PyCore, PyShape
    <3> QED
      BY SMTT(30), <1>2, <1>4, <1>6, <1>7, <1>9, <3>2, <3>3 DEF TxnClaim
  <2>3. object' \ finished' = {}
    BY <1>4, <1>9
  <2>4. \/ engine'.txn \in direct'
        \/ Holding(thread'[t]) /\ thread'[t].of = engine'.txn
    BY <1>1, <1>2, <1>4, <1>5 DEF Called, Holding
  <2> QED
    BY <2>1, <2>2, <2>3, <2>4 DEF PyTransactions
<1>11. PyMarks'
  <2>1. MarkClaim(t, thread[t])' /\ ~Made(thread'[t])
    BY <1>1, <1>4, <1>5 DEF MarkClaim, Called, Made, GaveBack
  <2>2. \A u \in Threads \ {t} : MarkClaim(u, thread[u])'
    <3>1. TAKE u \in Threads \ {t}
    <3>2. MarkClaim(u, thread[u]) /\ thread'[u] = thread[u]
      BY <1>4 DEF PyGood, PyCore, PyMarks, OnlyThread
    <3> QED
      BY <1>2, <1>4, <3>2 DEF MarkClaim
  <2> QED
    BY <1>2, <1>4, <2>1, <2>2 DEF PyGood, PyCore, PyMarks, OnlyThread
<1> QED
  BY <1>8, <1>10, <1>11, RunSteps, RunDropped DEF PyGood, PyCore

LEMMA MarkIs ==
    ASSUME PyGood, NEW i \in 1..Len(engine.marks)
    PROVE  /\ engine.marks[i] \in Marks /\ engine.marks[i].id \in MarkIds
           /\ engine.marks[i].id <= engine.made /\ engine.marks[i].id \notin released
           /\ sp[engine.marks[i].id] # NoSavepoint =>
                 engine.marks[i].name = sp[engine.marks[i].id].name
<1>1. engine.marks[i] \in Marks
  BY DEF PyGood, PyCore, PyShape, Engines
<1> QED
  BY <1>1 DEF PyGood, PyCore, PyMarks, Marks

LEMMA RunMarked ==
    ASSUME PyGood, NEW t \in Threads, Run(t),
           Marked(engine, thread[t].op, thread[t].name, engine', thread'[t].result)
    PROVE  PyCore'
<1>1. PICK h, g, m, n : h = thread[t] /\ g = thread'[t] /\ m = engine.made + 1 /\ n = Len(engine.marks) + 1
  OBVIOUS
<1>2. /\ Alive(engine) /\ engine'.txn = engine.txn /\ engine'.begun = engine.begun /\ engine'.made = m
      /\ h.op = "savepoint" /\ g.result = "Ok" /\ m \in MarkIds
      /\ Len(engine'.marks) = n /\ engine'.marks[n].name = h.name /\ engine'.marks[n].id = m
      /\ \A i \in 1..Len(engine.marks) : engine'.marks[i] = engine.marks[i]
      /\ ~HasMark(engine, h.name)
  BY <1>1 DEF PyGood, PyCore, Room, Marked
<1>3. ~Fresh
  BY <1>2 DEF Fresh
<1>4. /\ h \in Handles /\ Serves(h) /\ TxnClaim(t, h) /\ Called(h, g, h.of, "Ok")
      /\ thread' \in [Threads -> Handles] /\ OnlyThread(t) /\ began' = began /\ direct' = direct
      /\ UNCHANGED <<limit, flock, mutex, gil, object, finished, sp, spFinished, released>>
      /\ engine' \in Engines /\ h.call # "none"
  BY <1>1, <1>2, <1>3, RunIs, Steps DEF EngineStep
<1>5. h.call = "tx_savepoint"
  BY <1>2, <1>4 DEF Serves, Handles, Methods
<1>6. /\ engine.made \in Nat /\ Len(engine.marks) \in Nat /\ engine.marks \in Seq(Marks)
      /\ engine.made < m /\ 1..n = 1..Len(engine.marks) \union {n}
  <2>1. engine.made \in Nat /\ Len(engine.marks) \in Nat /\ engine.marks \in Seq(Marks)
    BY DEF PyGood, PyCore, PyShape, Engines
  <2> QED
    BY <1>1, <2>1
<1>7. \A s \in MarkIds : sp[s] # NoSavepoint => s # m /\ s <= m
  <2>1. \A s \in MarkIds : sp[s] # NoSavepoint => s <= engine.made /\ s \in Nat
    BY SlotBounds DEF PyGood, PyCore, PyShape, MarkIds
  <2> QED
    BY <1>1, <1>6, <2>1
<1>8. PyShape'
  BY <1>2, <1>4, <1>7 DEF PyGood, PyCore, PyShape
<1>9. PyTransactions'
  <2>1. TxnClaim(t, thread[t])'
    BY <1>1, <1>2, <1>4, <1>5 DEF TxnClaim, Called, Holding
  <2>2. \A u \in Threads \ {t} : TxnClaim(u, thread[u])'
    <3>1. TAKE u \in Threads \ {t}
    <3>2. TxnClaim(u, thread[u]) /\ thread'[u] = thread[u]
      BY <1>4 DEF PyGood, PyCore, PyTransactions, OnlyThread
    <3> QED
      BY <1>2, <1>4, <3>2 DEF TxnClaim
  <2>3. ~Holding(h)
    BY <1>5 DEF Holding
  <2> QED
    BY SMTT(30), <1>1, <1>2, <1>4, <2>1, <2>2, <2>3 DEF PyGood, PyCore, PyTransactions, OnlyThread
<1>10. \A u \in Threads \ {t} : ~Made(thread[u])
  <2>1. SUFFICES ASSUME NEW u \in Threads \ {t}, Made(thread[u]) PROVE FALSE
    OBVIOUS
  <2>2. TxnClaim(u, thread[u]) /\ thread[u].call = "tx_savepoint"
    BY <2>1 DEF PyGood, PyCore, PyTransactions, Made
  <2>3. /\ thread[u].of \in object \ finished /\ began[thread[u].of] = u
        /\ h.of \in object \ finished /\ began[h.of] = t
    BY <1>4, <1>5, <2>2 DEF TxnClaim
  <2>4. thread[u].of = engine.txn /\ h.of = engine.txn
    BY <1>2, <2>3 DEF PyGood, PyCore, PyTransactions
  <2> QED
    BY <2>1, <2>3, <2>4
<1>11. \A i \in 1..Len(engine.marks) : engine.marks[i].id # m /\ engine.marks[i].name # h.name
  <2>1. TAKE i \in 1..Len(engine.marks)
  <2>2. engine.marks[i].id <= engine.made /\ engine.marks[i].id \in Nat
    BY MarkIs, SlotBounds DEF MarkIds
  <2>3. engine.marks[i].id # m
    BY <1>1, <1>6, <2>2
  <2>4. i \in DOMAIN engine.marks
    BY <1>6
  <2> QED
    BY <1>2, <2>3, <2>4 DEF HasMark, IsMark
<1>12. \A i \in 1..n : \/ i \in 1..Len(engine.marks) /\ engine'.marks[i] = engine.marks[i]
                       \/ i = n /\ engine'.marks[i].id = m /\ engine'.marks[i].name = h.name
  BY <1>2, <1>6
<1>13. PyMarks'
  <2>1. MarkClaim(t, thread[t])'
    <3>1. ~GaveBack(g) /\ sp[m] = NoSavepoint /\ g.name = h.name /\ g.call = "tx_savepoint"
      BY <1>2, <1>4, <1>5, <1>7 DEF GaveBack, Called
    <3>2. \A i \in 1..n : engine'.marks[i].id = m => engine'.marks[i].name = h.name
      BY <1>11, <1>12
    <3> QED
      BY <1>1, <1>2, <1>4, <3>1, <3>2 DEF MarkClaim
  <2>2. \A u \in Threads \ {t} : MarkClaim(u, thread[u])'
    <3>1. TAKE u \in Threads \ {t}
    <3>2. MarkClaim(u, thread[u]) /\ thread'[u] = thread[u] /\ ~Made(thread[u])
      BY <1>4, <1>10 DEF PyGood, PyCore, PyMarks, OnlyThread
    <3>3. GaveBack(thread[u]) => thread[u].of # m
      BY <1>7, <3>2 DEF GaveBack, MarkClaim
    <3> QED
      BY SMTT(30), <1>2, <1>4, <1>12, <3>2, <3>3 DEF MarkClaim
  <2>3. \A u, v \in Threads : Made(thread'[u]) /\ Made(thread'[v]) => u = v
    BY <1>4, <1>10 DEF OnlyThread
  <2>4. m \notin released /\ sp[m] = NoSavepoint
    BY <1>2, <1>7 DEF PyGood, PyCore, PyShape
  <2>5. \A i \in 1..n :
          /\ engine'.marks[i].id <= m /\ engine'.marks[i].id \notin released
          /\ sp[engine'.marks[i].id] # NoSavepoint =>
                engine'.marks[i].name = sp[engine'.marks[i].id].name
    <3>1. TAKE i \in 1..n
    <3>2. CASE i \in 1..Len(engine.marks) /\ engine'.marks[i] = engine.marks[i]
      <4>1. engine.marks[i].id <= engine.made /\ engine.marks[i].id \in Nat
        BY <3>2, MarkIs, SlotBounds DEF MarkIds
      <4>2. engine.marks[i].id <= m
        BY <1>1, <1>6, <4>1
      <4> QED
        BY <3>2, <4>2, MarkIs
    <3>3. CASE i = n /\ engine'.marks[i].id = m
      <4>1. m <= m
        BY <1>1, <1>6
      <4> QED
        BY <2>4, <3>3, <4>1
    <3> QED
      BY <1>12, <3>2, <3>3
  <2>6. \A i, j \in 1..n :
          engine'.marks[i].id = engine'.marks[j].id \/ engine'.marks[i].name = engine'.marks[j].name
             => i = j
    <3>1. \A i, j \in 1..Len(engine.marks) :
            engine.marks[i].id = engine.marks[j].id \/ engine.marks[i].name = engine.marks[j].name
               => i = j
      BY DEF PyGood, PyCore, PyMarks
    <3> QED
      BY <1>11, <1>12, <3>1
  <2> QED
    BY SMTT(30), <1>2, <1>4, <2>1, <2>2, <2>3, <2>5, <2>6 DEF PyMarks
<1> QED
  BY <1>8, <1>9, <1>13, RunSteps, RunDropped DEF PyGood, PyCore

\* Of the transaction that is open, the call that ends it is the only holder.
LEMMA OnlyMine ==
    ASSUME PyGood, Alive(engine), NEW t \in Threads, thread[t].op \in {"commit", "rollback"},
           Serves(thread[t]), thread[t].call # "none", thread[t] \in Handles
    PROVE  /\ object \subseteq finished
           /\ \A u \in Threads \ {t} :
                 /\ ~Holding(thread[u])
                 /\ thread[u].call = "db" => thread[u].op \notin {"commit", "rollback"}
<1>1. /\ began[engine.txn] = t /\ engine.txn \notin object \ finished
  <2>1. TxnClaim(t, thread[t]) /\ thread[t].call \in {"db", "undo", "tx_end"}
    BY DEF PyGood, PyCore, PyTransactions, Serves, Handles, Methods
  <2>2. CASE thread[t].call = "db"
    BY <2>1, <2>2 DEF TxnClaim, PyGood, PyCore, PyShape
  <2>3. CASE thread[t].call \in {"undo", "tx_end"}
    <3>1. Holding(thread[t]) /\ engine.txn = thread[t].of
      BY <2>1, <2>3 DEF TxnClaim, Holding
    <3> QED
      BY <2>1, <2>3, <3>1 DEF TxnClaim
  <2> QED
    BY <2>1, <2>2, <2>3
<1>2. object \subseteq finished
  BY <1>1 DEF PyGood, PyCore, PyTransactions
<1>3. ASSUME NEW u \in Threads \ {t}
      PROVE  /\ ~Holding(thread[u])
             /\ thread[u].call = "db" => thread[u].op \notin {"commit", "rollback"}
  <2>1. TxnClaim(u, thread[u]) /\ u # t
    BY DEF PyGood, PyCore, PyTransactions
  <2>2. Holding(thread[u]) => began[thread[u].of] = u /\ engine.txn = thread[u].of
    BY <2>1 DEF TxnClaim, Holding
  <2> QED
    BY <1>1, <2>1, <2>2 DEF TxnClaim
<1> QED
  BY <1>2, <1>3

LEMMA LessensTransactions ==
    ASSUME PyGood, NEW t \in Threads, Run(t),
           Lessens(engine, thread[t].op, thread[t].name, engine', thread'[t].result),
           Called(thread[t], thread'[t], thread[t].of, thread'[t].result),
           began' = began, direct' = direct
    PROVE  PyTransactions'
<1>1. PICK h, g : h = thread[t] /\ g = thread'[t]
  OBVIOUS
<1>2. /\ h \in Handles /\ Serves(h) /\ TxnClaim(t, h) /\ Called(h, g, h.of, g.result)
      /\ OnlyThread(t) /\ UNCHANGED <<object, finished>> /\ h.call # "none" /\ h.result = "none"
      /\ (Alive(engine') => Alive(engine))
  BY <1>1, RunIs, Steps DEF EngineStep, InProgress
<1>3. /\ engine'.begun = engine.begun
      /\ h.op \in {"begin", "savepoint"} => g.result # "Ok"
      /\ engine'.txn # engine.txn => engine'.txn = 0 /\ h.op \in {"commit", "rollback", "take"}
      /\ h.op \in {"commit", "rollback"} /\ Alive(engine') => engine'.txn = 0
      /\ h.op = "take" => ~Alive(engine')
  BY <1>1 DEF Lessens, Alive
<1>4. h.call = "transaction" => h.of = 0 /\ h.op = "begin"
  <2>1. h.call = "transaction" => h.op \in {"begin", "none"}
    BY <1>2 DEF Serves
  <2>2. h.op # "none"
    BY <1>1, RunIs, Steps
  <2> QED
    BY <1>2, <2>1, <2>2 DEF TxnClaim
<1>5. ~Holding(g)
  BY <1>2, <1>4 DEF Called, Holding
<1>6. TxnClaim(t, thread[t])'
  BY <1>1, <1>2, <1>3, <1>4, <1>5 DEF TxnClaim, Called
<1>7. Alive(engine') /\ engine'.txn # engine.txn =>
         /\ object \subseteq finished
         /\ \A u \in Threads \ {t} :
               /\ ~Holding(thread[u])
               /\ thread[u].call = "db" => thread[u].op \notin {"commit", "rollback"}
  BY <1>1, <1>2, <1>3, OnlyMine
<1>8. \A u \in Threads \ {t} : TxnClaim(u, thread[u])'
  <2>1. TAKE u \in Threads \ {t}
  <2>2. TxnClaim(u, thread[u]) /\ thread'[u] = thread[u]
    BY <1>2 DEF PyGood, PyCore, PyTransactions, OnlyThread
  <2> QED
    BY <1>2, <1>3, <1>7, <2>2 DEF TxnClaim
<1>9. Alive(engine') => \A x \in object' \ finished' : engine'.txn = x
  BY <1>2, <1>7 DEF PyGood, PyCore, PyTransactions
<1>10. ASSUME Alive(engine'), engine'.txn # 0
       PROVE  \/ engine'.txn \in direct'
              \/ engine'.txn \in object' \ finished'
              \/ \E u \in Threads : Holding(thread'[u]) /\ thread'[u].of = engine'.txn
  <2>1. Alive(engine) /\ engine'.txn = engine.txn /\ h.op \notin {"commit", "rollback"}
    BY <1>2, <1>3, <1>10
  <2>2. ~Holding(h)
    <3>1. /\ h.call = "undo" => h.op \in {"rollback", "none"}
          /\ h.call = "tx_end" => h.op \in {"commit", "rollback", "none"}
      BY <1>2 DEF Serves
    <3> QED
      BY <1>4, <2>1, <3>1 DEF Holding
  <2> QED
    BY <1>1, <1>2, <1>10, <2>1, <2>2 DEF PyGood, PyCore, PyTransactions, OnlyThread
<1> QED
  BY <1>6, <1>8, <1>9, <1>10 DEF PyTransactions

LEMMA LessensMarks ==
    ASSUME PyGood, NEW t \in Threads, Run(t),
           Lessens(engine, thread[t].op, thread[t].name, engine', thread'[t].result),
           Called(thread[t], thread'[t], thread[t].of, thread'[t].result)
    PROVE  PyMarks'
<1>1. PICK h, g : h = thread[t] /\ g = thread'[t]
  OBVIOUS
<1>2. /\ h \in Handles /\ Serves(h) /\ MarkClaim(t, h) /\ Called(h, g, h.of, g.result)
      /\ OnlyThread(t) /\ UNCHANGED <<sp, spFinished, released>> /\ h.op # "none"
  BY <1>1, RunIs, Steps
<1>3. /\ engine'.made = engine.made
      /\ h.op \in {"begin", "savepoint"} => g.result # "Ok"
      /\ g.result = "Ok" /\ h.op = "release" =>
            \E k \in 1..Len(engine.marks) : /\ engine.marks[k].name = h.name
                                           /\ Len(engine'.marks) = k - 1
  BY <1>1 DEF Lessens
<1>4. \A i \in 1..Len(engine'.marks) : i \in 1..Len(engine.marks) /\ engine'.marks[i] = engine.marks[i]
  <2>1. /\ Len(engine'.marks) <= Len(engine.marks)
        /\ \A i \in 1..Len(engine'.marks) : engine'.marks[i] = engine.marks[i]
    BY DEF Lessens, Cut
  <2>2. engine \in Engines /\ engine' \in Engines
    BY RunIs DEF PyGood, PyCore, PyShape, EngineStep
  <2>3. Len(engine.marks) \in Nat /\ Len(engine'.marks) \in Nat
    BY <2>2 DEF Engines
  <2> QED
    BY <2>1, <2>3
<1>5. ~Made(g)
  <2>1. h.call = "tx_savepoint" => h.op = "savepoint"
    BY <1>2 DEF Serves
  <2> QED
    BY <1>2, <1>3, <2>1 DEF Made, Called
<1>6. GaveBack(g) => \A i \in 1..Len(engine'.marks) : engine'.marks[i].id # g.of
  <2>1. SUFFICES ASSUME GaveBack(g), NEW i \in 1..Len(engine'.marks), engine'.marks[i].id = g.of
                 PROVE  FALSE
    OBVIOUS
  <2>2. h.call = "sp_end" /\ h.then = "none" /\ g.result = "Ok" /\ g.of = h.of
    BY <1>2, <2>1 DEF GaveBack, Called
  <2>3. h.op = "release"
    BY <1>2, <2>2 DEF Serves
  <2>4. sp[h.of] # NoSavepoint /\ h.name = sp[h.of].name
    BY <1>2, <2>2 DEF MarkClaim
  <2>5. PICK k \in 1..Len(engine.marks) : engine.marks[k].name = h.name /\ Len(engine'.marks) = k - 1
    BY <1>3, <2>2, <2>3
  <2>6. i # k
    <3>1. Len(engine.marks) \in Nat
      BY DEF PyGood, PyCore, PyShape, Engines
    <3>2. i \in 1..(k - 1) /\ k \in Int
      BY <2>1, <2>5, <3>1
    <3> QED
      BY <3>2
  <2>7. i \in 1..Len(engine.marks) /\ engine.marks[i].id = h.of
    BY <1>4, <2>1, <2>2
  <2>8. engine.marks[i].name = h.name
    BY <2>4, <2>7, MarkIs
  <2> QED
    BY <2>5, <2>6, <2>7, <2>8 DEF PyGood, PyCore, PyMarks
<1>7. MarkClaim(t, thread[t])'
  BY <1>1, <1>2, <1>5, <1>6 DEF MarkClaim, Called
<1>8. \A u \in Threads \ {t} : MarkClaim(u, thread[u])'
  <2>1. TAKE u \in Threads \ {t}
  <2>2. MarkClaim(u, thread[u]) /\ thread'[u] = thread[u]
    BY <1>2 DEF PyGood, PyCore, PyMarks, OnlyThread
  <2> QED
    BY <1>2, <1>3, <1>4, <2>2 DEF MarkClaim
<1>9. \A u, v \in Threads : Made(thread'[u]) /\ Made(thread'[v]) => u = v
  BY <1>1, <1>2, <1>5 DEF PyGood, PyCore, PyMarks, OnlyThread
<1>10. \A i \in 1..Len(engine'.marks) :
          /\ engine'.marks[i].id <= engine.made /\ engine'.marks[i].id \notin released
          /\ sp[engine'.marks[i].id] # NoSavepoint =>
                engine'.marks[i].name = sp[engine'.marks[i].id].name
  BY <1>4, MarkIs
<1>11. \A i, j \in 1..Len(engine'.marks) :
          engine'.marks[i].id = engine'.marks[j].id \/ engine'.marks[i].name = engine'.marks[j].name
             => i = j
  BY <1>4 DEF PyGood, PyCore, PyMarks
<1> QED
  BY <1>2, <1>3, <1>7, <1>8, <1>9, <1>10, <1>11 DEF PyMarks

LEMMA RunKeeps ==
    ASSUME PyGood, NEW t \in Threads, Run(t)
    PROVE  PyCore'
<1>1. CASE Begins(engine, thread[t].op, engine', thread'[t].result)
  BY <1>1, RunBegins
<1>2. CASE Marked(engine, thread[t].op, thread[t].name, engine', thread'[t].result)
  BY <1>2, RunMarked
<1>3. CASE Lessens(engine, thread[t].op, thread[t].name, engine', thread'[t].result)
  <2>1. ~Fresh
    BY <1>3 DEF Fresh, Lessens
  <2>2. /\ Called(thread[t], thread'[t], thread[t].of, thread'[t].result)
        /\ began' = began /\ direct' = direct /\ engine' \in Engines
        /\ thread' \in [Threads -> Handles]
        /\ UNCHANGED <<limit, flock, mutex, gil, object, finished, sp, spFinished, released>>
    BY <2>1, RunIs DEF EngineStep
  <2>3. /\ engine'.begun = engine.begun /\ engine'.made = engine.made
        /\ engine'.txn = engine.txn \/ engine'.txn = 0
    BY <1>3 DEF Lessens
  <2>4. engine'.txn <= engine'.begun
    <3>1. engine.txn \in Nat /\ engine.begun \in Nat /\ engine.txn <= engine.begun
      BY DEF PyGood, PyCore, PyShape, Engines
    <3> QED
      BY <2>3, <3>1
  <2>5. PyShape'
    BY <2>2, <2>3, <2>4 DEF PyGood, PyCore, PyShape
  <2> QED
    BY <1>3, <2>2, <2>5, LessensTransactions, LessensMarks, RunSteps, RunDropped DEF PyGood, PyCore
<1> QED
  BY <1>1, <1>2, <1>3, RunIs DEF EngineStep

LEMMA InCallKeeps ==
    ASSUME PyGood, NEW t \in Threads, InCall(t)
    PROVE  PyCore'
BY SMTT(30), DetachKeeps, LockKeeps, RunKeeps, DropKeeps, UnlockKeeps, AttachKeeps, RaiseKeeps,
   ContinueKeeps, ReturnOkKeeps, NewTransactionKeeps, NewTransactionFailsKeeps,
   NewSavepointKeeps DEF InCall

-----------------------------------------------------------------------------
(* All steps together.                                                      *)

LEMMA CoreBeginning ==
    Init => PyCore
<1> SUFFICES ASSUME Init PROVE PyCore
  OBVIOUS
<1>1. /\ limit \in Limits /\ engine = FreshEngine /\ flock = TRUE /\ mutex = None /\ gil = None
      /\ thread = [t \in Threads |-> Idle] /\ began = [x \in Transactions |-> None]
      /\ direct = {} /\ object = {} /\ finished = {}
      /\ sp = [s \in MarkIds |-> NoSavepoint] /\ spFinished = {} /\ released = {}
  BY DEF Init
<1>2. /\ FreshEngine \in Engines /\ FreshEngine.txn = 0 /\ FreshEngine.begun = 0
      /\ FreshEngine.made = 0 /\ FreshEngine.open
  <2>1. <<>> \in Seq(Marks) /\ {} \in SUBSET Writes
    OBVIOUS
  <2> QED
    BY <2>1 DEF FreshEngine, Engines
<1>3. 1..Len(FreshEngine.marks) = {}
  <2>1. Len(FreshEngine.marks) = 0
    BY DEF FreshEngine
  <2> QED
    BY <2>1
<1>4. \A t \in Threads : thread[t] = Idle
  BY <1>1
<1>5. PyShape
  BY <1>1, <1>2, IdleIs DEF PyShape
<1>6. PySteps
  BY <1>4, IdleIs DEF PySteps
<1>8. PyDropped
  BY <1>1, <1>2, <1>4, IdleIs DEF PyDropped
<1>9. PyTransactions
  <2>1. \A t \in Threads : TxnClaim(t, Idle)
    BY IdleIs DEF TxnClaim
  <2> QED
    BY <1>1, <1>2, <1>4, <2>1 DEF PyTransactions
<1>10. PyMarks
  <2>1. \A t \in Threads : MarkClaim(t, Idle)
    BY IdleIs DEF MarkClaim
  <2> QED
    BY <1>1, <1>3, <1>4, <2>1, IdleIs DEF PyMarks
<1> QED
  BY <1>5, <1>6, <1>8, <1>9, <1>10 DEF PyCore

LEMMA PyStutter ==
    ASSUME PyGood, UNCHANGED pyVars
    PROVE  PyCore'
<1>1. UNCHANGED <<limit, engine, flock, mutex, gil, thread, began, direct, object, finished,
                  sp, spFinished, released>>
  BY DEF pyVars
<1>2. PyShape' /\ PySteps' /\ PyDropped'
  BY <1>1 DEF PyGood, PyCore, PyShape, PySteps, PyDropped
<1>4. PyTransactions'
  BY SMTT(30), <1>1 DEF PyGood, PyCore, PyTransactions, TxnClaim
<1>5. PyMarks'
  BY <1>1 DEF PyGood, PyCore, PyMarks, MarkClaim
<1> QED
  BY <1>2, <1>4, <1>5 DEF PyGood, PyCore

LEMMA PyStep ==
    ASSUME PyGood, [Next]_pyVars
    PROVE  PyCore'
<1>1. limit.threads \subseteq Threads
  BY LimitsShape DEF PyGood, PyCore, PyShape
<1>2. CASE Next
  BY <1>1, <1>2, ClientKeeps, InCallKeeps DEF Next
<1>3. CASE UNCHANGED pyVars
  BY <1>3, PyStutter
<1> QED
  BY <1>2, <1>3

\* The step in which a write, savepoint, commit or rollback made through a
\* PyTransaction succeeds finds the engine in the transaction that object began.
OwnStep ==
    \A t \in Threads : thread[t].call \in {"tx_data", "tx_end", "tx_savepoint"} =>
        \A op \in {"write", "commit", "rollback", "savepoint"} :
            Ran(t, op) => engine.txn = thread[t].of

LEMMA ClientEnters ==
    ASSUME PyGood, NEW u \in Threads, Client(u)
    PROVE  /\ thread[u] = Idle /\ OnlyThread(u)
           /\ InBounds(thread'[u].op) /\ UNCHANGED <<limit, engine>>
<1>1. ASSUME NEW m, NEW x, NEW op, NEW name, NEW then, Enter(u, m, x, op, name, then)
      PROVE  /\ thread[u] = Idle /\ OnlyThread(u)
             /\ InBounds(thread'[u].op) /\ UNCHANGED <<limit, engine>>
  <2>1. PICK g : g = NewCall(m, x, name, op, then)
    BY Zenon
  <2>2. /\ thread[u] = Idle /\ thread' = [thread EXCEPT ![u] = g]
        /\ InBounds(op) /\ UNCHANGED <<limit, engine>>
    BY <1>1, <2>1 DEF Enter, NewCall
  <2>3. thread'[u] = g /\ OnlyThread(u)
    BY <2>2 DEF PyGood, PyCore, PyShape, OnlyThread
  <2>4. g.op = op
    BY <2>1 DEF NewCall
  <2> QED
    BY <2>2, <2>3, <2>4
<1>2. \E m, x, op, name, then : Enter(u, m, x, op, name, then)
  <2>1. CASE \/ close(u) \/ py_begin(u) \/ py_commit(u) \/ py_rollback(u)
             \/ py_data(u) \/ transaction(u)
    BY <2>1, Zenon DEF close, py_begin, py_commit, py_rollback, py_data, transaction, EnterDb
  <2>2. ASSUME NEW x, \/ tx_data(u, x) \/ tx_commit(u, x) \/ tx_rollback(u, x)
                      \/ \E raised \in BOOLEAN : tx_exit(u, x, raised)
                      \/ \E name \in limit.names : tx_savepoint(u, x, name)
        PROVE  \E m, y, op, name, then : Enter(u, m, y, op, name, then)
    BY <2>2, Zenon DEF tx_data, tx_commit, tx_rollback, tx_exit, tx_savepoint, EnterTx
  <2>3. ASSUME NEW s, \/ sp_release(u, s) \/ sp_rollback_to(u, s)
                      \/ \E raised \in BOOLEAN : sp_exit(u, s, raised)
        PROVE  \E m, x, op, name, then : Enter(u, m, x, op, name, then)
    BY <2>3, Zenon DEF sp_release, sp_rollback_to, sp_exit, EnterSp
  <2> QED
    BY <2>1, <2>2, <2>3 DEF Client
<1> QED
  BY <1>1, <1>2

LEMMA InCallMoves ==
    ASSUME PyGood, NEW u \in Threads, InCall(u)
    PROVE  /\ OnlyThread(u) /\ (Run(u) \/ thread[u].step # 3)
           /\ \/ Run(u)
              \/ /\ UNCHANGED <<limit, engine>>
                 /\ \A op \in {"begin", "savepoint"} : thread'[u].op = op => thread[u].op = op
<1>1. thread[u] \in Handles
  BY DEF PyGood, PyCore, PyShape
<1>2. /\ OnlyThread(u)
      /\ \/ Run(u)
         \/ /\ UNCHANGED <<limit, engine>>
            /\ \A op \in {"begin", "savepoint"} : thread'[u].op = op => thread[u].op = op
  <2>1. CASE Detach(u) \/ Lock(u) \/ Drop(u) \/ Unlock(u) \/ Attach(u)
    <3>1. Advance(u) /\ UNCHANGED <<limit, engine>>
      BY <2>1 DEF Detach, Lock, Drop, Unlock, Attach, Objects
    <3>2. thread' = [thread EXCEPT ![u] = [thread[u] EXCEPT !.step = thread[u].step + 1]]
      BY <3>1 DEF Advance, PyGood, PyCore, PyShape
    <3>3. OnlyThread(u) /\ thread'[u].op = thread[u].op
      BY <1>1, <3>2 DEF OnlyThread, PyGood, PyCore, PyShape, Handles
    <3> QED
      BY <3>1, <3>3
  <2>2. CASE Run(u)
    BY <2>2, RunIs
  <2>3. CASE Raise(u) \/ ReturnOk(u) \/ NewTransaction(u) \/ NewSavepoint(u)
    <3>1. thread' = [thread EXCEPT ![u] = Idle] /\ UNCHANGED <<limit, engine>>
      BY <2>3 DEF Raise, ReturnOk, NewTransaction, NewSavepoint, Return, Kept
    <3>2. OnlyThread(u) /\ thread'[u] = Idle
      BY <3>1 DEF OnlyThread, PyGood, PyCore, PyShape
    <3> QED
      BY <3>1, <3>2, IdleIs
  <2>4. CASE Continue(u)
    <3>1. /\ thread' = [thread EXCEPT ![u] = [thread[u] EXCEPT !.op = thread[u].then, !.then = "none",
                                                              !.step = 1, !.result = "none"]]
          /\ UNCHANGED <<limit, engine>>
      BY ZenonT(30), <2>4 DEF Continue, PyGood, PyCore, PyShape, Objects, Kept
    <3>2. OnlyThread(u) /\ thread'[u].op = thread[u].then
      BY <1>1, <3>1 DEF OnlyThread, PyGood, PyCore, PyShape, Handles
    <3>3. thread[u].then \in {"none", "release"}
      BY <1>1 DEF Handles
    <3> QED
      BY <3>1, <3>2, <3>3
  <2>5. CASE NewTransactionFails(u)
    <3>1. /\ thread' = [thread EXCEPT ![u] = [thread[u] EXCEPT !.call = "undo", !.op = "rollback",
                                                              !.step = 1, !.result = "none"]]
          /\ UNCHANGED <<limit, engine>>
      BY ZenonT(30), <2>5 DEF NewTransactionFails, PyGood, PyCore, PyShape, Objects, Kept
    <3>2. OnlyThread(u) /\ thread'[u].op = "rollback"
      BY <1>1, <3>1 DEF OnlyThread, PyGood, PyCore, PyShape, Handles
    <3> QED
      BY <3>1, <3>2
  <2> QED
    BY <2>1, <2>2, <2>3, <2>4, <2>5 DEF InCall
<1>3. \/ Run(u) \/ Returned(u) \/ Does(u, "detach") \/ Does(u, "lock") \/ Does(u, "drop")
      \/ Does(u, "unlock") \/ Does(u, "attach")
  BY DEF InCall, Detach, Lock, Drop, Unlock, Attach, Raise, Continue, ReturnOk, NewTransaction,
       NewTransactionFails, NewSavepoint, LastCall
<1>4. Run(u) \/ thread[u].step # 3
  BY <1>1, <1>3, DoesIs DEF After
<1> QED
  BY <1>2, <1>4

LEMMA RunsInOwn ==
    ASSUME PyGood, Next
    PROVE  OwnStep
<1> SUFFICES ASSUME NEW t \in Threads, thread[t].call \in {"tx_data", "tx_end", "tx_savepoint"},
                    NEW op \in {"write", "commit", "rollback", "savepoint"}, Ran(t, op)
             PROVE  engine.txn = thread[t].of
  BY DEF OwnStep
<1>1. /\ thread[t].step = 3 /\ thread[t].step # thread'[t].step /\ thread[t].op = op
      /\ thread'[t].result = "Ok" /\ TxnClaim(t, thread[t]) /\ thread[t] # Idle
  BY DoesIs DEF Ran, PyGood, PyCore, PyShape, PyTransactions
<1>2. Run(t)
  <2>1. PICK u \in Threads : Client(u) \/ InCall(u)
    BY LimitsShape DEF Next, PyGood, PyCore, PyShape
  <2>2. OnlyThread(u) /\ (Client(u) => thread[u] = Idle)
    BY <2>1, ClientEnters, InCallMoves
  <2>3. u = t
    BY <1>1, <2>2 DEF OnlyThread
  <2> QED
    BY <1>1, <2>1, <2>2, <2>3, InCallMoves
<1>3. Alive(engine)
  BY <1>1, <1>2, RunIs DEF EngineStep, Begins, Marked, Lessens
<1>4. CASE thread[t].call \in {"tx_data", "tx_savepoint"}
  BY <1>1, <1>3, <1>4 DEF TxnClaim, PyGood, PyCore, PyTransactions
<1>5. CASE thread[t].call = "tx_end"
  BY <1>1, <1>3, <1>5 DEF TxnClaim, Holding
<1> QED
  BY <1>4, <1>5

-----------------------------------------------------------------------------
(* The bounds, and the theorems.                                            *)

INSTANCE FiniteSetTheorems

\* What has begun and what is on its way in together stay within the limits.
Doing(op) == {t \in Threads : thread[t].op = op}
PyBounds ==
    /\ engine.begun + Cardinality(Doing("begin")) <= limit.txns
    /\ engine.made + Cardinality(Doing("savepoint")) <= limit.marks

PyInv == PyCore /\ PyBounds

LEMMA DoingIs ==
    ASSUME NEW op
    PROVE  /\ IsFiniteSet(Doing(op)) /\ Cardinality(Doing(op)) \in Nat
           /\ IsFiniteSet(Doing(op)') /\ Cardinality(Doing(op)') \in Nat
           /\ \A t \in Threads : thread[t].op = op => Cardinality(Doing(op)) >= 1
<1>1. Doing(op) \subseteq Threads /\ Doing(op)' \subseteq Threads
  BY DEF Doing
<1>2. /\ IsFiniteSet(Doing(op)) /\ Cardinality(Doing(op)) \in Nat
      /\ IsFiniteSet(Doing(op)') /\ Cardinality(Doing(op)') \in Nat
  BY <1>1, ThreadsAssumption, FS_Subset, FS_CardinalityType
<1>3. ASSUME NEW t \in Threads, thread[t].op = op
      PROVE  Cardinality(Doing(op)) >= 1
  <2>1. Doing(op) # {}
    BY <1>3 DEF Doing
  <2> QED
    BY <1>2, <2>1, FS_EmptySet
<1> QED
  BY <1>2, <1>3

LEMMA NumbersAre ==
    ASSUME PyCore
    PROVE  /\ engine.begun \in Nat /\ engine.made \in Nat
           /\ limit.txns \in Nat /\ limit.txns <= MaxTxn
           /\ limit.marks \in Nat /\ limit.marks <= MaxMarks
BY LimitsShape, SlotBounds DEF PyCore, PyShape, Engines

LEMMA RoomIs ==
    ASSUME PyInv
    PROVE  PyGood
<1>1. engine.begun <= MaxTxn /\ engine.made <= MaxMarks
  BY NumbersAre, DoingIs, SlotBounds DEF PyInv, PyBounds
<1>2. ASSUME NEW t \in Threads, thread[t].op = "begin"
      PROVE  engine.begun + 1 \in Transactions
  BY SMTT(30), <1>2, NumbersAre, DoingIs, SlotBounds DEF PyInv, PyBounds, Transactions
<1>3. ASSUME NEW t \in Threads, thread[t].op = "savepoint"
      PROVE  engine.made + 1 \in MarkIds
  BY SMTT(30), <1>3, NumbersAre, DoingIs, SlotBounds DEF PyInv, PyBounds, MarkIds
<1> QED
  BY <1>1, <1>2, <1>3 DEF PyInv, PyGood, Room

LEMMA DoingMoves ==
    ASSUME NEW op, NEW u \in Threads, OnlyThread(u)
    PROVE  /\ Cardinality(Doing(op)') <= Cardinality(Doing(op)) + 1
           /\ (thread'[u].op = op => thread[u].op = op) =>
                 Cardinality(Doing(op)') <= Cardinality(Doing(op))
           /\ thread'[u].op # op /\ thread[u].op = op =>
                 Cardinality(Doing(op)') = Cardinality(Doing(op)) - 1
<1>1. Doing(op)' \subseteq Doing(op) \union {u}
  BY DEF Doing, OnlyThread
<1>2. (thread'[u].op = op => thread[u].op = op) => Doing(op)' \subseteq Doing(op)
  BY DEF Doing, OnlyThread
<1>3. thread'[u].op # op /\ thread[u].op = op => Doing(op)' = Doing(op) \ {u} /\ u \in Doing(op)
  BY DEF Doing, OnlyThread
<1>4. /\ IsFiniteSet(Doing(op) \union {u})
      /\ Cardinality(Doing(op) \union {u}) \in Nat
      /\ Cardinality(Doing(op) \union {u}) <= Cardinality(Doing(op)) + 1
  <2>1. /\ IsFiniteSet(Doing(op) \union {u})
        /\ \/ Cardinality(Doing(op) \union {u}) = Cardinality(Doing(op))
           \/ Cardinality(Doing(op) \union {u}) = Cardinality(Doing(op)) + 1
    BY ZenonT(30), DoingIs, FS_AddElement
  <2> QED
    BY <2>1, DoingIs
<1>5. Cardinality(Doing(op)') <= Cardinality(Doing(op)) + 1
  <2>1. Cardinality(Doing(op)') <= Cardinality(Doing(op) \union {u})
    BY <1>1, <1>4, FS_Subset
  <2> QED
    BY <1>4, <2>1, DoingIs
<1>6. (thread'[u].op = op => thread[u].op = op) => Cardinality(Doing(op)') <= Cardinality(Doing(op))
  BY <1>2, DoingIs, FS_Subset
<1>7. thread'[u].op # op /\ thread[u].op = op => Cardinality(Doing(op)') = Cardinality(Doing(op)) - 1
  BY <1>3, DoingIs, FS_RemoveElement
<1> QED
  BY <1>5, <1>6, <1>7

LEMMA BoundsStep ==
    ASSUME PyInv, [Next]_pyVars
    PROVE  PyBounds'
<1>1. PyGood /\ PyCore
  BY RoomIs DEF PyInv
<1> DEFINE b == Cardinality(Doing("begin"))  m == Cardinality(Doing("savepoint"))
<1>2. b \in Nat /\ m \in Nat /\ b' \in Nat /\ m' \in Nat
  BY DoingIs
<1>3. engine.begun + b <= limit.txns /\ engine.made + m <= limit.marks
  BY DEF PyInv, PyBounds
<1>4. CASE UNCHANGED pyVars
  BY <1>3, <1>4 DEF pyVars, PyBounds, Doing
<1>5. ASSUME NEW u \in Threads, Client(u)
      PROVE  PyBounds'
  <2>1. /\ thread[u].op = "none" /\ OnlyThread(u) /\ InBounds(thread'[u].op)
        /\ limit' = limit /\ engine' = engine
    BY SMTT(30), <1>1, <1>5, ClientEnters, IdleIs
  <2>2. /\ b' <= b + 1 /\ (thread'[u].op # "begin" => b' <= b)
        /\ m' <= m + 1 /\ (thread'[u].op # "savepoint" => m' <= m)
    BY <2>1, DoingMoves
  <2>3. /\ thread'[u].op = "begin" => engine.begun + b < limit.txns
        /\ thread'[u].op = "savepoint" => engine.made + m < limit.marks
    BY ZenonT(30), <2>1 DEF InBounds, Doing
  <2> HIDE DEF b, m
  <2>4. engine'.begun + b' <= limit'.txns /\ engine'.made + m' <= limit'.marks
    BY SMTT(30), <1>1, <1>2, <1>3, <2>1, <2>2, <2>3, NumbersAre
  <2> QED
    BY <2>4 DEF PyBounds, b, m
<1>6. ASSUME NEW u \in Threads, InCall(u), ~Run(u)
      PROVE  PyBounds'
  <2>1. /\ OnlyThread(u) /\ limit' = limit /\ engine' = engine
        /\ \A op \in {"begin", "savepoint"} : thread'[u].op = op => thread[u].op = op
    BY <1>1, <1>6, InCallMoves
  <2>2. b' <= b /\ m' <= m
    BY <2>1, DoingMoves
  <2> HIDE DEF b, m
  <2>3. engine'.begun + b' <= limit'.txns /\ engine'.made + m' <= limit'.marks
    BY SMTT(30), <1>1, <1>2, <1>3, <2>1, <2>2, NumbersAre
  <2> QED
    BY <2>3 DEF PyBounds, b, m
<1>7. ASSUME NEW u \in Threads, Run(u)
      PROVE  PyBounds'
  <2>1. PICK op, name, r : /\ op = thread[u].op /\ EngineStep(engine, op, name, engine', r)
                           /\ limit' = limit /\ OnlyThread(u) /\ thread'[u].op = "none"
    BY <1>1, <1>7, RunIs DEF Called
  <2>2. /\ b' <= b /\ (op = "begin" => b' = b - 1)
        /\ m' <= m /\ (op = "savepoint" => m' = m - 1)
    BY <2>1, DoingMoves
  <2>3. /\ engine'.begun = engine.begun \/ (op = "begin" /\ engine'.begun = engine.begun + 1)
        /\ engine'.made = engine.made \/ (op = "savepoint" /\ engine'.made = engine.made + 1)
    BY <2>1 DEF EngineStep, Begins, Marked, Lessens
  <2> HIDE DEF b, m
  <2>4. engine'.begun + b' <= limit'.txns /\ engine'.made + m' <= limit'.marks
    BY SMTT(30), <1>1, <1>2, <1>3, <2>1, <2>2, <2>3, NumbersAre
  <2> QED
    BY <2>4 DEF PyBounds, b, m
<1>8. limit.threads \subseteq Threads
  BY <1>1, LimitsShape DEF PyCore, PyShape
<1> QED
  BY SMTT(30), <1>4, <1>5, <1>6, <1>7, <1>8 DEF Next

LEMMA PyBeginning == Init => PyInv
<1> SUFFICES ASSUME Init PROVE PyInv
  OBVIOUS
<1>1. PyCore
  BY CoreBeginning
<1>2. engine.begun = 0 /\ engine.made = 0
  BY DEF Init, FreshEngine
<1>3. Doing("begin") = {} /\ Doing("savepoint") = {}
  BY IdleIs DEF Init, Doing
<1> QED
  BY SMTT(30), <1>1, <1>2, <1>3, NumbersAre, FS_EmptySet DEF PyInv, PyBounds

\* The invariant of the Python binding: what each thread's call may rely on, with
\* any number of threads, transactions and savepoints.
THEOREM PyInvariant == Spec => []PyInv
<1>1. ASSUME PyInv, [Next]_pyVars
      PROVE  PyInv'
  <2>1. PyCore'
    BY <1>1, RoomIs, PyStep
  <2>2. PyBounds'
    BY <1>1, BoundsStep
  <2> QED
    BY <2>1, <2>2 DEF PyInv
<1> QED
  BY <1>1, PyBeginning, PTL DEF Spec

LEMMA PyTyped ==
    ASSUME PyInv
    PROVE  TypeOK
<1>1. IsEngine(engine)
  <2>1. engine \in Engines /\ engine.txn <= engine.begun /\ engine.marks \in Seq(Marks)
    BY DEF PyInv, PyCore, PyShape, Engines
  <2>3. engine.begun \in 0..MaxTxn /\ engine.made \in 0..MaxMarks
    BY RoomIs, NumbersAre, SlotBounds DEF PyInv, PyCore, PyGood, Room
  <2>4. engine.txn \in 0..engine.begun
    BY <2>1 DEF Engines
  <2>5. \A i \in DOMAIN engine.marks : engine.marks[i] \in Marks /\ engine.marks[i].id <= engine.made
    <3>1. DOMAIN engine.marks = 1..Len(engine.marks)
      BY <2>1
    <3> QED
      BY <3>1, RoomIs, MarkIs
  <2> QED
    BY SMTT(30), <2>1, <2>3, <2>4, <2>5 DEF IsEngine, Engines
<1>2. ASSUME NEW t \in Threads
      PROVE  /\ thread[t].call \in Methods
             /\ thread[t].of \in 0..(MaxTxn + MaxMarks)
             /\ thread[t].step \in 0..Len(locked(thread[t].call)) + 1
             /\ thread[t].result \in Results
             /\ thread[t].op \in Ops /\ thread[t].then \in {"none", "release"}
             /\ Does(t, "run") => mutex = t
  <2>1. PICK h : h = thread[t] /\ h \in Handles /\ InProgress(h) /\ TxnClaim(t, h) /\ MarkClaim(t, h)
    BY DEF PyInv, PyCore, PyShape, PySteps, PyTransactions, PyMarks
  <2>2. h.step \in 0..Len(locked(h.call)) + 1
    <3>1. h.call \in Methods /\ h.step \in 0..7
      BY <2>1 DEF Handles
    <3>2. PICK n : n = Len(locked(h.call))
      BY Zenon
    <3>3. n = 6 \/ (n = 5 /\ h.step <= 6)
      BY SMTT(30), <2>1, <3>1, <3>2, LockedIs DEF InProgress
    <3>4. h.step \in 0..n + 1
      BY <3>1, <3>3
    <3> QED
      BY <3>2, <3>4
  <2>3. Does(t, "run") => mutex = t
    BY <2>1, DoesIs DEF PyInv, PyCore, PySteps, Inside
  <2> QED
    BY SMTT(30), <2>1, <2>2, <2>3 DEF Handles, ObjectIds
<1> QED
  BY <1>1, <1>2 DEF TypeOK, PyInv, PyCore, PyShape

\* A transaction the engine has open always has somebody left to end it: the thread
\* that began it directly, an unfinished PyTransaction, or a call in flight, for any
\* number of threads whose calls interleave in any way (transaction, Py::new, __exit__).
THEOREM NeverOrphaned == Spec => []NoOrphanTransaction
<1>1. ASSUME PyInv
      PROVE  NoOrphanTransaction
  <2>1. TypeOK
    BY <1>1, PyTyped
  <2>2. \A h : Holding(h) => h.call \in {"transaction", "undo", "tx_end"}
    BY SMTT(30) DEF Holding
  <2> QED
    BY SMTT(30), <1>1, <2>1, <2>2 DEF PyInv, PyCore, PyTransactions, NoOrphanTransaction, Alive
<1> QED
  BY <1>1, PyInvariant, PTL

\* Once the release or __exit__ of a PySavepoint has returned without an error, its
\* mark is off the engine's stack, and stays off it.
THEOREM ScopesFreeNames == Spec => []ScopeFreesName
<1>1. ASSUME PyInv
      PROVE  ScopeFreesName
  <2>1. DOMAIN engine.marks = 1..Len(engine.marks)
    BY SMTT(30), <1>1 DEF PyInv, PyCore, PyShape, Engines
  <2> QED
    BY <1>1, <2>1 DEF PyInv, PyCore, PyMarks, ScopeFreesName
<1> QED
  BY <1>1, PyInvariant, PTL

\* A call that is told the handle is closed is told so after the file lock is gone:
\* close drops the engine before it lets go of the Mutex.
THEOREM ClosedAlwaysDropped == Spec => []ClosedIsDropped
<1>1. ASSUME PyInv
      PROVE  ClosedIsDropped
  BY <1>1 DEF PyInv, PyCore, PyDropped, ClosedIsDropped
<1> QED
  BY <1>1, PyInvariant, PTL

\* Work done through a PyTransaction lands in the transaction that object began, and
\* its commit or rollback ends that one, whatever other threads do on the handle.
THEOREM OwnTransactionOnly == Spec => OwnTransaction
<1>1. ASSUME PyInv, [Next]_pyVars
      PROVE  [OwnStep]_pyVars
  BY <1>1, RoomIs, RunsInOwn
<1>2. OwnTransaction <=> [][OwnStep]_pyVars
  BY DEF OwnTransaction, OwnStep
<1> QED
  BY <1>1, <1>2, PyInvariant, PTL DEF Spec
=============================================================================

----------------------------- MODULE PyBinding ------------------------------
(***************************************************************************)
(* The Python binding (src/python/src: db.rs, transaction.rs, savepoint.rs)*)
(* with several Python threads on one handle.  A method runs under the GIL *)
(* up to each engine call; the call itself runs detached, under the Mutex  *)
(* of the handle, and its result is looked at once the GIL is back.        *)
(*                                                                         *)
(* The client is disciplined: a Transaction and the Savepoints made from   *)
(* it are used by the thread that began it, and what begin() began         *)
(* directly is ended by commit() or rollback() of the same thread.  Every  *)
(* other call, close() included, may come from any thread at any time.     *)
(***************************************************************************)
EXTENDS EngineSlot, FiniteSets

CONSTANTS Threads, None,
          Limits    \* bounds: who calls, the names they use, how many transactions and marks

ASSUME LimitsShape ==
    Limits \subseteq [threads : SUBSET Threads, names : SUBSET Names, txns : 0..MaxTxn,
                       marks : 0..MaxMarks]

ASSUME ThreadsAssumption == IsFiniteSet(Threads) /\ None \notin Threads

VARIABLES limit,     \* the element of Limits the behaviour keeps to
          engine,    \* PyChisel.inner: the Option<Chisel> behind the Mutex
          flock,     \* whether the engine still holds the lock on the file
          mutex,     \* the thread that holds PyChisel.inner's Mutex
          gil,       \* the thread that runs Python code
          thread,    \* what each thread is doing
          began,     \* the thread that began each transaction
          direct,    \* the transactions begun by begin(), not transaction()
          object,    \* the transactions that have a PyTransaction
          finished,  \* PyTransaction.finished
          sp,        \* the PySavepoints, by the mark they were made for
          spFinished,\* PySavepoint.finished
          released   \* the PySavepoints whose release or __exit__ returned

pyVars == <<limit, engine, flock, mutex, gil, thread, began, direct, object, finished,
            sp, spFinished, released>>

NoSavepoint == [txn |-> 0, name |-> None]
\* call: the method, of: the object it was called on; op: the engine call it makes,
\* on the savepoint name, then: the one it makes next; step: the place in `locked'.
Idle == [call |-> "none", of |-> 0, name |-> None, op |-> "none", then |-> "none",
         step |-> 0, result |-> "none"]
Ops == {"begin", "commit", "rollback", "read", "write", "savepoint", "rollback_to", "release",
        "take", "none"}
Methods == {"none", "db", "transaction", "undo", "tx_end", "tx_data", "tx_savepoint",
            "sp_end", "sp_rollback_to", "close"}

Init ==
    /\ limit \in Limits
    /\ engine = FreshEngine /\ flock = TRUE
    /\ mutex = None /\ gil = None
    /\ thread = [t \in Threads |-> Idle]
    /\ began = [x \in Transactions |-> None]
    /\ direct = {} /\ object = {} /\ finished = {}
    /\ sp = [s \in MarkIds |-> NoSavepoint]
    /\ spFinished = {} /\ released = {}

(***************************************************************************)
(* PyChisel::locked                                                        *)
(***************************************************************************)
Closure(call) == IF call = "close" THEN <<"run", "drop">> ELSE <<"run">>
\* The taken engine is returned from the closure of close and dropped after it.
locked_drop_late(call) == <<"detach", "lock", "run", "unlock">> \o Tail(Closure(call))
                            \o <<"attach">>
\* The order in which a call lets go of the GIL, locks, runs the closure (whose
\* last act, for close, is the drop), unlocks and takes the GIL back.
locked(call) == <<"detach", "lock">> \o Closure(call) \o <<"unlock", "attach">>

Does(t, what) == LET steps == locked(thread[t].call) IN
                 thread[t].step \in DOMAIN steps /\ steps[thread[t].step] = what
Advance(t) == thread' = [thread EXCEPT ![t].step = @ + 1]
Objects == <<limit, began, direct, object, finished, sp, spFinished, released>>

Detach(t) == /\ Does(t, "detach") /\ gil = t
             /\ gil' = None /\ Advance(t)
             /\ UNCHANGED <<engine, flock, mutex, Objects>>
Lock(t) == /\ Does(t, "lock") /\ mutex = None
           /\ mutex' = t /\ Advance(t)
           /\ UNCHANGED <<engine, flock, gil, Objects>>
Unlock(t) == /\ Does(t, "unlock")
             /\ mutex' = None /\ Advance(t)
             /\ UNCHANGED <<engine, flock, gil, Objects>>
Attach(t) == /\ Does(t, "attach") /\ gil = None
             /\ gil' = t /\ Advance(t)
             /\ UNCHANGED <<engine, flock, mutex, Objects>>

\* with_inner_io / with_inner_mut_io and the closure of close.
EngineCall(e, op, name) ==
    CASE op = "begin" -> with_db(e, begin(e))
      [] op = "commit" -> with_db(e, commit(e))
      [] op = "rollback" -> with_db(e, rollback(e))
      [] op = "read" -> with_db(e, read(e))
      [] op = "write" -> with_db(e, write(e, {}))
      [] op = "savepoint" -> with_db(e, savepoint(e, name))
      [] op = "rollback_to" -> with_db(e, rollback_to(e, name))
      [] op = "release" -> with_db(e, release(e, name))
      [] op = "take" -> take(e)

\* The bounds: nothing begins or marks past them.
InBounds(op) ==
    LET ahead == Cardinality({u \in Threads : thread[u].op = op}) IN
    /\ op = "begin" => engine.begun + ahead < limit.txns
    /\ op = "savepoint" => engine.made + ahead < limit.marks

Run(t) ==
    /\ Does(t, "run")
    /\ \E out \in EngineCall(engine, thread[t].op, thread[t].name) :
         LET fresh == out.engine.txn # 0 /\ engine.txn = 0 IN
         /\ engine' = out.engine
         /\ thread' = [thread EXCEPT ![t].step = @ + 1, ![t].op = "none",
                                     ![t].result = out.result,
                                     ![t].of = IF fresh THEN out.engine.txn ELSE @]
         /\ began' = IF fresh THEN [began EXCEPT ![out.engine.txn] = t] ELSE began
         /\ direct' = IF fresh /\ thread[t].call = "db"
                      THEN direct \union {out.engine.txn} ELSE direct
    /\ UNCHANGED <<limit, flock, mutex, gil, object, finished, sp, spFinished, released>>

\* drop(slot.take()) releases the file lock.
Drop(t) == /\ Does(t, "drop")
           /\ flock' = FALSE
           /\ Advance(t)
           /\ UNCHANGED <<engine, mutex, gil, Objects>>

(***************************************************************************)
(* The methods, up to their first engine call                              *)
(***************************************************************************)
\* A thread takes the GIL for a method and lets go of it once the method has
\* returned: Python code in between touches nothing modelled here.
Enter(t, method, object_id, op, name, then) ==
    /\ gil = None /\ thread[t] = Idle
    /\ InBounds(op)
    /\ gil' = t
    /\ thread' = [thread EXCEPT ![t] = [call |-> method, of |-> object_id, name |-> name,
                     op |-> op, then |-> then, step |-> 1, result |-> "none"]]
    /\ UNCHANGED <<limit, engine, flock, mutex, began, direct, object, sp, released>>
EnterDb(t, method, op) == /\ Enter(t, method, 0, op, None, "none")
                          /\ UNCHANGED <<finished, spFinished>>

close(t) == EnterDb(t, "close", "take")
py_data(t) == EnterDb(t, "db", "read")
py_begin(t) == EnterDb(t, "db", "begin")
BeganDirectly(t) == engine.txn \in direct /\ began[engine.txn] = t
py_commit(t) == BeganDirectly(t) /\ EnterDb(t, "db", "commit")
py_rollback(t) == BeganDirectly(t) /\ EnterDb(t, "db", "rollback")
transaction(t) == EnterDb(t, "transaction", "begin")

\* PyTransaction.
Mine(t, x) == x \in object /\ began[x] = t
check_live_never(x) == TRUE
check_live(x) == x \notin finished

EnterTx(t, x, method, op, name) == Enter(t, method, x, op, name, "none")
Finish(x) == finished' = finished \union {x} /\ UNCHANGED spFinished

tx_data(t, x) == /\ Mine(t, x) /\ check_live(x)
                 /\ EnterTx(t, x, "tx_data", "write", None)
                 /\ UNCHANGED <<finished, spFinished>>
tx_commit(t, x) == /\ Mine(t, x) /\ check_live(x)
                   /\ Finish(x) /\ EnterTx(t, x, "tx_end", "commit", None)
tx_rollback(t, x) == /\ Mine(t, x) /\ check_live(x)
                     /\ Finish(x) /\ EnterTx(t, x, "tx_end", "rollback", None)
\* __exit__, on a finished object a no-op; raised: an exception ends the block.
tx_exit(t, x, raised) ==
    /\ Mine(t, x) /\ x \notin finished
    /\ Finish(x)
    /\ EnterTx(t, x, "tx_end", IF raised THEN "rollback" ELSE "commit", None)
tx_savepoint(t, x, name) ==
    /\ Mine(t, x) /\ check_live(x)
    /\ EnterTx(t, x, "tx_savepoint", "savepoint", name)
    /\ UNCHANGED <<finished, spFinished>>

\* PySavepoint: it knows its name, not its transaction.
MySavepoint(t, s) == sp[s] # NoSavepoint /\ began[sp[s].txn] = t /\ s \notin spFinished
EnterSp(t, s, method, op, then) == Enter(t, method, s, op, sp[s].name, then)
FinishSp(s) == spFinished' = spFinished \union {s} /\ UNCHANGED finished

sp_release(t, s) == /\ MySavepoint(t, s)
                    /\ FinishSp(s) /\ EnterSp(t, s, "sp_end", "release", "none")
sp_rollback_to(t, s) == /\ MySavepoint(t, s)
                        /\ EnterSp(t, s, "sp_rollback_to", "rollback_to", "none")
                        /\ UNCHANGED <<finished, spFinished>>
\* An exception leaves the mark on the stack.
sp_exit_keeping(t, s, raised) ==
    /\ MySavepoint(t, s)
    /\ FinishSp(s)
    /\ IF raised THEN EnterSp(t, s, "sp_end", "rollback_to", "none")
       ELSE EnterSp(t, s, "sp_end", "release", "none")
sp_exit(t, s, raised) ==
    /\ MySavepoint(t, s)
    /\ FinishSp(s)
    /\ IF raised THEN EnterSp(t, s, "sp_end", "rollback_to", "release")
       ELSE EnterSp(t, s, "sp_end", "release", "none")

(***************************************************************************)
(* The methods, once an engine call has returned and the GIL is back       *)
(***************************************************************************)
Returned(t) == thread[t].step = Len(locked(thread[t].call)) + 1
Return(t) == thread' = [thread EXCEPT ![t] = Idle] /\ gil' = None
Refused(t) == thread[t].result # "Ok"
Kept == <<limit, engine, flock, mutex, began, direct, finished, spFinished>>

RaiseRetry(t) == /\ Returned(t) /\ Refused(t)
                 /\ thread' = [thread EXCEPT ![t].op = "read", ![t].step = 1]
                 /\ UNCHANGED <<Kept, gil, object, sp, released>>
\* map_err(to_py_err)?: the error is raised and the rest of the method skipped.
Raise(t) == /\ Returned(t) /\ Refused(t)
            /\ Return(t) /\ UNCHANGED <<Kept, object, sp, released>>
\* The next engine call of the method (release after rollback_to).
Continue(t) == /\ Returned(t) /\ ~Refused(t) /\ thread[t].then # "none"
               /\ thread' = [thread EXCEPT ![t].op = thread[t].then, ![t].then = "none",
                                           ![t].step = 1, ![t].result = "none"]
               /\ UNCHANGED <<Kept, gil, object, sp, released>>
LastCall(t) == Returned(t) /\ ~Refused(t) /\ thread[t].then = "none"
\* Py::new of transaction(): the object, or an exception once the transaction
\* is rolled back.
NewTransaction(t) ==
    /\ LastCall(t) /\ thread[t].call = "transaction"
    /\ object' = object \union {thread[t].of} /\ Return(t)
    /\ UNCHANGED <<Kept, sp, released>>
NewTransactionFailsOpen(t) ==
    /\ LastCall(t) /\ thread[t].call = "transaction"
    /\ Return(t)
    /\ UNCHANGED <<Kept, object, sp, released>>
NewTransactionFails(t) ==
    /\ LastCall(t) /\ thread[t].call = "transaction"
    /\ thread' = [thread EXCEPT ![t].call = "undo", ![t].op = "rollback", ![t].step = 1,
                                ![t].result = "none"]
    /\ UNCHANGED <<Kept, gil, object, sp, released>>
\* Py::new of savepoint(): the object, or an exception and a mark without one.
NewSavepoint(t) ==
    /\ LastCall(t) /\ thread[t].call = "tx_savepoint"
    /\ Return(t)
    /\ \/ sp' = [sp EXCEPT ![engine.made] =
                   [txn |-> thread[t].of, name |-> thread[t].name]]
       \/ UNCHANGED sp
    /\ UNCHANGED <<Kept, object, released>>
ReturnOk(t) ==
    /\ LastCall(t) /\ thread[t].call \notin {"transaction", "tx_savepoint"}
    /\ Return(t)
    /\ released' = IF thread[t].call = "sp_end" THEN released \union {thread[t].of}
                   ELSE released
    /\ UNCHANGED <<Kept, object, sp>>

InCall(t) == \/ Detach(t) \/ Lock(t) \/ Run(t) \/ Drop(t) \/ Unlock(t) \/ Attach(t)
             \/ Raise(t) \/ Continue(t) \/ ReturnOk(t)
             \/ NewTransaction(t) \/ NewTransactionFails(t) \/ NewSavepoint(t)
Client(t) ==
    \/ close(t) \/ py_begin(t) \/ py_commit(t) \/ py_rollback(t)
    \/ py_data(t) \/ transaction(t)
    \/ \E x \in Transactions :
         \/ tx_data(t, x) \/ tx_commit(t, x) \/ tx_rollback(t, x)
         \/ \E raised \in BOOLEAN : tx_exit(t, x, raised)
         \/ \E name \in limit.names : tx_savepoint(t, x, name)
    \/ \E s \in MarkIds :
         \/ sp_release(t, s) \/ sp_rollback_to(t, s)
         \/ \E raised \in BOOLEAN : sp_exit(t, s, raised)
Next == \E t \in limit.threads : Client(t) \/ InCall(t)

\* Python hands the GIL to a thread that waits for it, the Mutex goes to a
\* thread that waits for it, and what a thread does by itself it goes on doing.
Fairness ==
    \A t \in Threads : /\ WF_pyVars(InCall(t))
                       /\ SF_pyVars(Lock(t))
                       /\ SF_pyVars(Attach(t))
Spec == Init /\ [][Next]_pyVars
FairSpec == Spec /\ Fairness
-----------------------------------------------------------------------------
TypeOK ==
    /\ limit \in Limits
    /\ IsEngine(engine)
    /\ flock \in BOOLEAN
    /\ mutex \in Threads \union {None}
    /\ gil \in Threads \union {None}
    /\ \A t \in Threads :
         /\ thread[t].call \in Methods
         /\ thread[t].of \in 0..(MaxTxn + MaxMarks)
         /\ thread[t].step \in 0..Len(locked(thread[t].call)) + 1
         /\ thread[t].result \in Results
         /\ thread[t].op \in Ops /\ thread[t].then \in {"none", "release"}
         /\ Does(t, "run") => mutex = t   \* a closure runs under the Mutex
    /\ began \in [Transactions -> Threads \union {None}]
    /\ direct \subseteq 1..engine.begun
    /\ object \subseteq 1..engine.begun \ direct
    /\ finished \subseteq object
    /\ spFinished \subseteq {s \in MarkIds : sp[s] # NoSavepoint}
    /\ released \subseteq spFinished
    /\ \A s \in MarkIds : sp[s] # NoSavepoint => sp[s].txn \in object /\ s <= engine.made

\* A transaction the engine has open has somebody left to end it: the thread that
\* began it directly, a PyTransaction that is not finished, or a call in flight
\* that was made to end it or is about to hand it over (transaction, Py::new).
NoOrphanTransaction ==
    /\ TypeOK
    /\ engine.open /\ ~engine.poisoned /\ engine.txn # 0 =>
          \/ engine.txn \in direct
          \/ engine.txn \in object \ finished
          \/ \E t \in Threads : /\ thread[t].of = engine.txn
                                /\ thread[t].call \in {"transaction", "undo", "tx_end"}

\* A with-block of a savepoint that ended without an error of its own, by either
\* route, has given the name back: its mark is off the engine's stack.
ScopeFreesName == \A i \in DOMAIN engine.marks : engine.marks[i].id \notin released

\* A call that finds the handle closed finds it dropped: the file lock is
\* released, so opening the path again cannot be refused by this handle.
ClosedIsDropped == \A t \in Threads : thread[t].result = "Closed" => ~flock

Ran(t, op) == /\ thread[t] # Idle /\ thread[t].step # thread'[t].step
              /\ Does(t, "run")
              /\ thread[t].op = op
              /\ thread'[t].result = "Ok"

\* Work done through a Transaction lands in the transaction that object began, and
\* its commit or rollback ends that one: a finished Transaction is dead.
OwnTransaction ==
    [][\A t \in Threads : thread[t].call \in {"tx_data", "tx_end", "tx_savepoint"} =>
         \A op \in {"write", "commit", "rollback", "savepoint"} :
             Ran(t, op) => engine.txn = thread[t].of]_pyVars

\* Every method returns: no two threads wait for the GIL and the Mutex of each
\* other, and a close waits only for the call in front of it.
CallsReturn == \A t \in Threads : thread[t] # Idle ~> thread[t] = Idle
=============================================================================

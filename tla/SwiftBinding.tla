---------------------------- MODULE SwiftBinding ----------------------------
(***************************************************************************)
(* The Swift binding (src/swift/Sources/Chisel): ChiselStore hops every    *)
(* call onto one serial queue, and a transaction is one closure that runs  *)
(* there from begin to commit.  Its body is the client's: it works through *)
(* any Transaction value it holds, an escaped one included, opens          *)
(* savepoint closures, calls back into the database, returns or throws.    *)
(***************************************************************************)
EXTENDS EngineSlot

CONSTANT MaxCalls   \* bound: calls made on the store

ASSUME CallBound == MaxCalls \in Nat /\ MaxCalls <= MaxTxn /\ Writes \subseteq Nat

VARIABLES engine,    \* NativeDatabase
          call,      \* each call of the store: what it is and how far it is
          next,      \* the call the serial queue runs or runs next
          frames,    \* the transaction and savepoint closures open on the queue
          throwing,  \* an error is on its way to the innermost of them
          finished,  \* TransactionState.finished, by transaction
          doomed     \* the work of closures that threw

swiftVars == <<engine, call, next, frames, throwing, finished, doomed>>

Calls == 1..MaxCalls
Kinds == {"transaction", "flat", "close"}
NotMade == [kind |-> "none", at |-> "unmade"]
Frames == [kind : {"transaction"}, txn : Transactions, wrote : SUBSET Writes]
          \union [kind : {"savepoint"}, name : Names, wrote : SUBSET Writes]

Init ==
    /\ engine = FreshEngine
    /\ call = [c \in Calls |-> NotMade]
    /\ next = 1
    /\ frames = <<>> /\ throwing = FALSE
    /\ finished = {} /\ doomed = {}

(***************************************************************************)
(* ChiselStore                                                             *)
(***************************************************************************)
\* run: the closure goes to the end of the queue, the caller awaits.
Submit(c, kind) ==
    /\ call[c] = NotMade
    /\ \A d \in Calls : d < c => call[d] # NotMade
    /\ call' = [call EXCEPT ![c] = [kind |-> kind, at |-> "queued"]]
    /\ UNCHANGED <<engine, next, frames, throwing, finished, doomed>>

\* cont.resume(with: Result { try body() }): with a value or with an error.
Resume == /\ call' = [call EXCEPT ![next].at = "resumed"]
          /\ next' = next + 1
\* The continuation is resumed with a value only.
ResumeOk(ok) == IF ok THEN Resume ELSE next' = next + 1 /\ UNCHANGED call

Queued(kind) == /\ next \in Calls
                /\ call[next] = [kind |-> kind, at |-> "queued"]
                /\ frames = <<>>

\* The flat mirror: one engine call.
Flat == /\ Queued("flat")
        /\ \E out \in with_db(engine, read(engine)) : engine' = out.engine
        /\ Resume
        /\ UNCHANGED <<frames, throwing, finished, doomed>>
native_close(e) == IF e.open THEN take(e) ELSE {Outcome(e, "Closed")}
Close == /\ Queued("close")
         /\ \E out \in native_close(engine) : engine' = out.engine
         /\ Resume
         /\ UNCHANGED <<frames, throwing, finished, doomed>>

(***************************************************************************)
(* ChiselDatabase.transaction                                              *)
(***************************************************************************)
Push(frame) == frames' = Append(frames, frame)
Top == frames[Len(frames)]
\* The scope ends, and what it wrote counts as written by the one around it.
Pop == LET outer == SubSeq(frames, 1, Len(frames) - 1) IN
       frames' = IF outer = <<>> THEN outer
                 ELSE [outer EXCEPT ![Len(outer)].wrote = @ \union Top.wrote]

Begin(out) == /\ engine' = out.engine
              /\ Push([kind |-> "transaction", txn |-> out.engine.txn, wrote |-> {}])

Transaction ==
    /\ Queued("transaction")
    /\ \E out \in with_db(engine, begin(engine)) :
         \/ /\ out.result = "Ok" /\ Begin(out)
            /\ call' = [call EXCEPT ![next].at = "running"]
            /\ UNCHANGED next
         \/ /\ out.result # "Ok" /\ engine' = out.engine
            /\ Resume /\ UNCHANGED frames
    /\ UNCHANGED <<throwing, finished, doomed>>

InBody == frames # <<>> /\ ~throwing

\* db.transaction { } from inside a body: begin is outside the do, so its error
\* reaches the body without touching the transaction around it.
NestedTransaction ==
    /\ InBody /\ engine.begun < MaxTxn
    /\ \E out \in with_db(engine, begin(engine)) :
         \/ out.result = "Ok" /\ Begin(out) /\ UNCHANGED throwing
         \/ out.result # "Ok" /\ engine' = out.engine /\ throwing' = TRUE /\ UNCHANGED frames
    /\ UNCHANGED <<call, next, finished, doomed>>

CloseInBody == /\ InBody
               /\ \E out \in native_close(engine) : engine' = out.engine
               /\ UNCHANGED <<call, next, frames, throwing, finished, doomed>>

\* The body returns, and the commit is inside the do.
CommitAtEnd ==
    /\ InBody /\ Top.kind = "transaction"
    /\ \E out \in with_db(engine, commit(engine)) :
         /\ engine' = out.engine
         /\ \/ /\ out.result = "Ok"
               /\ finished' = finished \union {Top.txn}
               /\ Pop /\ Resume /\ UNCHANGED throwing
            \/ /\ out.result # "Ok"
               /\ throwing' = TRUE
               /\ UNCHANGED <<call, next, frames, finished>>
    /\ UNCHANGED doomed

CatchTransactionLost ==
    /\ throwing /\ Top.kind = "transaction"
    /\ \E out \in with_db(engine, rollback(engine)) : engine' = out.engine
    /\ finished' = finished \union {Top.txn}
    /\ doomed' = doomed \union Top.wrote
    /\ throwing' = FALSE
    /\ Pop /\ ResumeOk(FALSE)
\* try? native.rollback(); throw error, with the defer that finishes the state.
CatchTransaction ==
    /\ throwing /\ Top.kind = "transaction"
    /\ \E out \in with_db(engine, rollback(engine)) : engine' = out.engine
    /\ finished' = finished \union {Top.txn}
    /\ doomed' = doomed \union Top.wrote
    /\ throwing' = FALSE
    /\ Pop /\ Resume

(***************************************************************************)
(* Transaction and Savepoint                                               *)
(***************************************************************************)
live_always(x) == TRUE
live(x) == x \notin finished

Unused == Writes \ (engine.work \union engine.durable \union doomed)
\* A forwarder of a Transaction value the body holds; an error it may ignore.
Forward(x, w) ==
    /\ InBody
    /\ live(x)
    /\ w \in Unused /\ \A f \in Unused : w <= f
    /\ \E out \in with_db(engine, write(engine, {w})) :
         /\ engine' = out.engine
         /\ frames' = IF out.result # "Ok" THEN frames
                      ELSE [frames EXCEPT ![Len(frames)].wrote = @ \union {w}]
    /\ UNCHANGED <<call, next, throwing, finished, doomed>>

OpenSavepoint(x, name) ==
    /\ InBody /\ engine.made < MaxMarks
    /\ live(x)
    /\ \E out \in with_db(engine, savepoint(engine, name)) :
         /\ engine' = out.engine
         /\ \/ /\ out.result = "Ok" /\ UNCHANGED throwing
               /\ Push([kind |-> "savepoint", name |-> name, wrote |-> {}])
            \/ out.result # "Ok" /\ throwing' = TRUE /\ UNCHANGED frames
    /\ UNCHANGED <<call, next, finished, doomed>>

\* The body of a savepoint returns, and the release is inside the do.
ReleaseAtEnd ==
    /\ InBody /\ Top.kind = "savepoint"
    /\ \E out \in with_db(engine, release(engine, Top.name)) :
         /\ engine' = out.engine
         /\ \/ out.result = "Ok" /\ Pop /\ UNCHANGED throwing
            \/ out.result # "Ok" /\ throwing' = TRUE /\ UNCHANGED frames
    /\ UNCHANGED <<call, next, finished, doomed>>

\* try? rollbackTo, then try? release, whatever the first one did.
CleanupNoRelease(e, name) ==
    {out.engine : out \in with_db(e, rollback_to(e, name))}
CleanupNoRollback(e, name) ==
    {out.engine : out \in with_db(e, release(e, name))}
Cleanup(e, name) ==
    {out.engine : out \in UNION {with_db(back.engine, release(back.engine, name)) :
                                 back \in with_db(e, rollback_to(e, name))}}

\* The error is rethrown: the body around it lets it through or catches it.
CatchSavepoint ==
    /\ throwing /\ Top.kind = "savepoint"
    /\ engine' \in Cleanup(engine, Top.name)
    /\ doomed' = doomed \union Top.wrote
    /\ Pop
    /\ throwing' \in BOOLEAN
    /\ UNCHANGED <<call, next, finished>>

Throw == /\ InBody /\ throwing' = TRUE
         /\ UNCHANGED <<engine, call, next, frames, finished, doomed>>

Queue == Flat \/ Close \/ Transaction
EndScope == CommitAtEnd \/ ReleaseAtEnd \/ CatchTransaction \/ CatchSavepoint
Body == \/ NestedTransaction \/ CloseInBody \/ Throw
        \/ \E x \in 1..engine.begun :
             \/ \E w \in Writes : Forward(x, w)
             \/ \E name \in Names : OpenSavepoint(x, name)
Next == \/ \E c \in Calls, kind \in Kinds : Submit(c, kind)
        \/ Queue \/ EndScope \/ Body

Spec == Init /\ [][Next]_swiftVars
\* The queue goes on, and a body returns or throws some day.
FairSpec == Spec /\ WF_swiftVars(Queue) /\ WF_swiftVars(EndScope)
-----------------------------------------------------------------------------
TypeOK ==
    /\ IsEngine(engine)
    /\ \A c \in Calls : \/ call[c] = NotMade
                        \/ call[c].kind \in Kinds /\ call[c].at \in {"queued", "running", "resumed"}
    /\ next \in 1..MaxCalls + 1
    /\ \A i \in DOMAIN frames : frames[i] \in Frames /\ (frames[i].kind = "transaction" <=> i = 1)
    /\ throwing \in BOOLEAN
    /\ throwing => frames # <<>>
    /\ finished \subseteq Transactions
    /\ doomed \subseteq Writes

Usable == engine.open /\ ~engine.poisoned

\* Unless the handle is poisoned or closed, the engine is in the transaction of the
\* closure on the queue, or in none, and its savepoints are the savepoint closures
\* that are open, in order: both ways out of transaction { } end what begin began,
\* both ways out of savepoint { } free the name (Transaction.savepoint, the catch).
ScopesMatchMarks ==
    /\ TypeOK
    /\ Usable =>
              /\ engine.txn = IF frames = <<>> THEN 0 ELSE frames[1].txn
              /\ Len(engine.marks) = IF frames = <<>> THEN 0 ELSE Len(frames) - 1
              /\ \A i \in DOMAIN engine.marks : engine.marks[i].name = frames[i + 1].name

\* What a closure that threw had written is never committed, even when the body
\* around it catches the error and goes on to commit.
ThrownWorkUndone == engine.durable \intersect doomed = {}

\* Work through a Transaction value lands in the transaction it was made for: a
\* copy that escaped its closure refuses to work in a later one.
EscapedRefused ==
    [][\A x \in 1..engine.begun, w \in Writes :
         Forward(x, w) /\ w \in engine'.work => engine.txn = x]_swiftVars

\* Every call the store was given is resumed, with a value or an error.
EveryCallResumed == \A c \in Calls : call[c].at = "queued" ~> call[c].at = "resumed"
=============================================================================

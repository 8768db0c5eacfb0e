----------------------------- MODULE EngineSlot -----------------------------
(***************************************************************************)
(* The engine as the bindings see it: the Option<Chisel> of a handle, with *)
(* what decides whether a call is let in (src/chisel-ffi/src/database.rs,  *)
(* src/src/transaction/lifecycle.rs, savepoints.rs).  An operation is the  *)
(* set of its outcomes: the engine after it and what the call returns.     *)
(***************************************************************************)
EXTENDS Integers, Sequences

CONSTANTS Names,    \* savepoint names
          Writes,   \* units of work
          MaxTxn,   \* bound: transactions begun
          MaxMarks  \* bound: savepoints made

ASSUME SlotBounds == MaxTxn \in Nat /\ MaxMarks \in Nat

Transactions == 1..MaxTxn
MarkIds == 1..MaxMarks
Marks == [name : Names, id : MarkIds, work : SUBSET Writes]

\* open: the Option is Some; txn: the number of the active transaction, or 0;
\* work: what it has written; marks: its savepoints, oldest first, each with the
\* work at the time; durable: what was committed.
IsEngine(e) ==
    /\ e.open \in BOOLEAN /\ e.poisoned \in BOOLEAN
    /\ e.begun \in 0..MaxTxn /\ e.txn \in 0..e.begun
    /\ e.made \in 0..MaxMarks
    /\ \A i \in DOMAIN e.marks : e.marks[i] \in Marks /\ e.marks[i].id <= e.made
    /\ e.work \subseteq Writes /\ e.durable \subseteq Writes
Results == {"none", "Ok", "Err", "Closed"}
FreshEngine == [open |-> TRUE, poisoned |-> FALSE, txn |-> 0, begun |-> 0,
                marks |-> <<>>, made |-> 0, work |-> {}, durable |-> {}]

Outcome(e, r) == [engine |-> e, result |-> r]
Ok(e) == Outcome(e, "Ok")
\* An operational error changes nothing, a fatal one poisons.
Err(e) == Outcome(e, "Err")
Fatal(e) == Outcome([e EXCEPT !.poisoned = TRUE], "Err")

\* with_db, then check_alive, let the call have its outcomes.
with_db(e, outcomes) ==
    IF ~e.open THEN {Outcome(e, "Closed")}
    ELSE IF e.poisoned THEN {Err(e)}
    ELSE outcomes

begin(e) ==
    IF e.txn # 0 THEN {Err(e)}
    ELSE {Ok([e EXCEPT !.txn = e.begun + 1, !.begun = e.begun + 1])}

Ended(e) == [e EXCEPT !.txn = 0, !.marks = <<>>, !.work = {}]
\* Whatever goes wrong in a commit is fatal.
commit(e) ==
    IF e.txn = 0 THEN {Err(e)}
    ELSE {Ok([Ended(e) EXCEPT !.durable = e.durable \union e.work]), Fatal(e)}

rollback(e) ==
    IF e.txn = 0 THEN {Err(e)}
    ELSE {Ok(Ended(e)), Fatal(e)}

\* Reads, counters, keys and configuration, which need none.
read(e) == {Ok(e), Err(e), Fatal(e)}
\* Every operation that needs a transaction: allocate, update, delete, ...
write(e, w) == IF e.txn = 0 THEN {Err(e)}
               ELSE {Ok([e EXCEPT !.work = @ \union w]), Err(e), Fatal(e)}

IsMark(e, name, i) == i \in DOMAIN e.marks /\ e.marks[i].name = name
HasMark(e, name) == \E i \in DOMAIN e.marks : IsMark(e, name, i)
MarkIndex(e, name) == CHOOSE i \in DOMAIN e.marks : IsMark(e, name, i)

savepoint(e, name) ==
    IF e.txn = 0 \/ HasMark(e, name) THEN {Err(e)}
    ELSE {Ok([e EXCEPT !.made = e.made + 1,
                       !.marks = Append(e.marks, [name |-> name, id |-> e.made + 1,
                                                  work |-> e.work])])}

\* The savepoint stays, the ones above it go.  The roots are put back before their
\* depths are read again, which can still fail for want of a cache page.
rollback_to(e, name) ==
    IF e.txn = 0 \/ ~HasMark(e, name) THEN {Err(e)}
    ELSE LET rewound == [e EXCEPT !.work = e.marks[MarkIndex(e, name)].work] IN
         {Ok([rewound EXCEPT !.marks = SubSeq(e.marks, 1, MarkIndex(e, name))]),
          Err(rewound), Fatal(e)}

release(e, name) ==
    IF e.txn = 0 \/ ~HasMark(e, name) THEN {Err(e)}
    ELSE {Ok([e EXCEPT !.marks = SubSeq(e.marks, 1, MarkIndex(e, name) - 1)])}

\* slot.take(): from here on every call is refused.
take(e) == {Ok([Ended(e) EXCEPT !.open = FALSE])}
=============================================================================

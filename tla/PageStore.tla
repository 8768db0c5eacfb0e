----------------------------- MODULE PageStore -----------------------------
(***************************************************************************)
(* What the page cache promises its users (src/src/page_cache.rs): pages   *)
(* are a memory over a file.  A page reads as what was last written to it, *)
(* the file changes only while a flush is under way, a flush returns when  *)
(* every page is in the file, a rollback brings the file's pages back, and *)
(* nothing else can be told from outside, however little fits in memory.   *)
(***************************************************************************)
EXTENDS Naturals

CONSTANTS PageCount,   \* page ids are below this bound
          Values,      \* what a caller writes to a page
          Blank,       \* bytes without a checksum: zeroed, or never written
          Absent       \* not a page

VARIABLES mem,    \* what a page reads as
          file,   \* what the file holds
          total,  \* pages of the committed snapshot
          mode    \* where the transaction is: "none", "open", the two flushes
                  \* of a commit and what is between them, or "dead"

storeVars == <<mem, file, total, mode>>

PageIds == 0..(PageCount - 1)
InUse == {p \in PageIds : mem[p] # Absent}

\* The first n pages of f.
Prefix(f, n) == [p \in PageIds |-> IF p < n THEN f[p] ELSE Absent]
Shortened(f, n) == [p \in PageIds |-> IF p < n THEN f[p] ELSE Blank]

Init ==
    /\ total \in 0..PageCount
    /\ file \in [PageIds -> Values \cup {Blank}]
    /\ mem = Prefix(file, total)
    /\ mode = "none"

Begin == mode = "none" /\ mode' = "open" /\ UNCHANGED <<mem, file, total>>

\* A page in use is overwritten, or a page is handed out blank.
Write(p, v) ==
    /\ mode \in {"open", "persist"}
    /\ p \in InUse \/ v = Blank
    /\ mem' = [mem EXCEPT ![p] = v]
    /\ UNCHANGED <<file, total, mode>>

StartFlush ==
    /\ \/ mode = "open" /\ mode' = "flush1"
       \/ mode = "persist" /\ mode' = "flush2"
    /\ UNCHANGED <<mem, file, total>>

WriteBack(p) ==
    /\ mode \in {"flush1", "flush2"} /\ p \in InUse
    /\ file' = [file EXCEPT ![p] = mem[p]]
    /\ UNCHANGED <<mem, total, mode>>

\* A flush returns once the file holds every page in use; the second one of a
\* commit makes it the committed snapshot.
EndFlush ==
    /\ \A p \in InUse : file[p] = mem[p]
    /\ \/ mode = "flush1" /\ mode' = "persist" /\ UNCHANGED total
       \/ /\ mode = "flush2" /\ mode' = "none"
          /\ total' \in 0..PageCount /\ \A p \in InUse : p < total'
    /\ UNCHANGED <<mem, file>>

\* The pages of the committed snapshot read as the file holds them again.
Rollback ==
    /\ mode = "open" /\ mode' = "none"
    /\ mem' = [p \in PageIds |-> IF p \in InUse /\ p < total
                                   THEN file[p] ELSE Absent]
    /\ file' = Shortened(file, total)
    /\ UNCHANGED total

\* The pages from n up are given back, the others read as before.
RollbackTo(n) ==
    /\ mode = "open"
    /\ mem' = Prefix(mem, n) /\ file' = Shortened(file, n)
    /\ UNCHANGED <<total, mode>>

Fail ==
    /\ mode' = "dead" /\ mem' = [p \in PageIds |-> Absent]
    /\ UNCHANGED <<file, total>>

\* The process ends and the file is opened again.
Reopen ==
    /\ mode' = "none" /\ mem' = Prefix(file, total)
    /\ UNCHANGED <<file, total>>

Next ==
    \/ Begin \/ StartFlush \/ EndFlush \/ Rollback \/ Fail \/ Reopen
    \/ \E p \in PageIds : \/ \E v \in Values \cup {Blank} : Write(p, v)
                          \/ WriteBack(p)
    \/ \E n \in 0..PageCount : RollbackTo(n)

Spec == Init /\ [][Next]_storeVars
=============================================================================

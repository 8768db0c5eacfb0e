------------------------------- MODULE Files --------------------------------
(***************************************************************************)
(* Processes that open, create and rekey the database at one path          *)
(* (src/src/lib.rs open, src/src/page_io.rs open and try_lock,             *)
(* src/src/rekey.rs).  The lock is on the open file, the name is in the    *)
(* directory, and every system call is a step of its own.                  *)
(*                                                                         *)
(* What a file holds is its size class and, once it is a database, the     *)
(* number of commits in it; CommitProtocol is the model of how a commit    *)
(* becomes durable, here it is one step.                                   *)
(***************************************************************************)
EXTENDS Integers

CONSTANTS Procs,    \* processes, or handles of one process
          Inodes,   \* files that can ever exist
          None,     \* no file, no process
          MaxData   \* bound: commits

ASSUME NoneAssumption == None \notin Procs \cup Inodes
ASSUME MaxDataAssumption == MaxData \in Nat

VARIABLES
    name,        \* the file the database path names, or None
    durableName, \* the one it names after a power loss
    scratch,     \* the file the path with TMP_SUFFIX names, or None
    content,     \* file -> what a read returns
    medium,      \* file -> what survives a power loss
    lock,        \* file -> the process that holds the flock, or None
    proc,        \* process -> its call or handle
    acked        \* commits acknowledged so far

files == <<name, durableName, scratch, content, medium>>
vars == <<name, durableName, scratch, content, medium, lock, proc, acked>>

-----------------------------------------------------------------------------
\* missing: no such file; short: bytes, fewer than a page; half: some of the
\* superblocks or pages; full: a database.
Sizes == {"missing", "empty", "short", "half", "full"}
Contents == [size : Sizes, data : 0..MaxData]
Missing == [size |-> "missing", data |-> 0]
Empty == [size |-> "empty", data |-> 0]
Short == [size |-> "short", data |-> 0]
Half == [size |-> "half", data |-> 0]
Full(d) == [size |-> "full", data |-> d]

OpenSteps == {"opening", "unlocked", "locked", "creating", "syncing"}
RekeySteps == {"scratching", "retrying", "building", "written", "renaming", "renamed"}
Handles == [at : {"idle", "live"} \cup OpenSteps \cup RekeySteps,
            ino : Inodes \cup {None}, tmp : Inodes \cup {None},
            create : BOOLEAN, readOnly : BOOLEAN, rekey : BOOLEAN]
Idle == [at |-> "idle", ino |-> None, tmp |-> None,
         create |-> FALSE, readOnly |-> FALSE, rekey |-> FALSE]

\* A lock belongs to a process that has the file open.
TypeOK ==
    /\ {name, durableName, scratch} \subseteq Inodes \cup {None}
    /\ content \in [Inodes -> Contents]
    /\ medium \in [Inodes -> Contents]
    /\ lock \in [Inodes -> Procs \cup {None}]
    /\ proc \in [Procs -> Handles]
    /\ acked \in 0..MaxData
    /\ \A i \in Inodes : lock[i] # None => proc[lock[i]].ino = i

\* At the path nothing, an empty file, or somebody's short file; at the scratch
\* path nothing, or an entry that is not a plain file of ours.
Init ==
    /\ name \in Inodes \cup {None}
    /\ scratch \in (Inodes \ {name}) \cup {None}
    /\ \E c \in {Empty, Short} :
          content = [i \in Inodes |-> IF i = name THEN c
                                     ELSE IF i = scratch THEN Short ELSE Missing]
    /\ durableName = name
    /\ medium = content
    /\ lock = [i \in Inodes |-> None]
    /\ proc = [p \in Procs |-> Idle]
    /\ acked = 0

\* p closes its descriptor, if it has one, and with it goes the lock.
Released(p) == [i \in Inodes |-> IF lock[i] = p THEN None ELSE lock[i]]

Return(p) ==
    /\ proc' = [proc EXCEPT ![p] = Idle]
    /\ lock' = Released(p)

Goes(p, at) == proc' = [proc EXCEPT ![p].at = at]

\* Some directory entry or descriptor leads to the file; the others are gone
\* and their number may be used again.
Referenced(i) ==
    \/ i \in {name, durableName, scratch}
    \/ \E p \in Procs : i \in {proc[p].ino, proc[p].tmp}

NewFile(i) ==
    /\ ~Referenced(i)
    /\ content' = [content EXCEPT ![i] = Empty]
    /\ medium' = [medium EXCEPT ![i] = Empty]

-----------------------------------------------------------------------------
(* Chisel::open.                                                           *)

\* The check before the lock: a file with bytes, or leave to create one.
Stat(p, create, readOnly, rekey) ==
    /\ proc[p].at = "idle"
    /\ rekey => ~create /\ ~readOnly
    /\ create \/ (name # None /\ content[name].size # "empty")
    /\ proc' = [proc EXCEPT ![p] = [Idle EXCEPT !.at = "opening", !.create = create,
                                       !.readOnly = readOnly, !.rekey = rekey]]
    /\ UNCHANGED <<files, lock, acked>>

\* open(2): read-only wants a file, read-write makes one.
OpenFile(p) ==
    /\ proc[p].at = "opening"
    /\ \/ /\ name # None
          /\ proc' = [proc EXCEPT ![p].at = "unlocked", ![p].ino = name]
          /\ UNCHANGED files
       \/ /\ name = None
          /\ proc[p].readOnly
          /\ proc' = [proc EXCEPT ![p] = Idle]
          /\ UNCHANGED files
       \/ /\ name = None
          /\ ~proc[p].readOnly
          /\ \E i \in Inodes :
                /\ NewFile(i)
                /\ name' = i
                /\ proc' = [proc EXCEPT ![p].at = "unlocked", ![p].ino = i]
          /\ UNCHANGED <<durableName, scratch>>
    /\ UNCHANGED <<lock, acked>>

\* (Mutant: a lock that does not exclude.)
TryLockShared(p) ==
    /\ proc[p].at = "unlocked"
    /\ lock' = [lock EXCEPT ![proc[p].ino] = p]
    /\ Goes(p, "locked")
    /\ UNCHANGED <<files, acked>>

\* flock(LOCK_EX | LOCK_NB), or LockFailed.
TryLock(p) ==
    /\ proc[p].at = "unlocked"
    /\ \/ /\ lock[proc[p].ino] = None
          /\ lock' = [lock EXCEPT ![proc[p].ino] = p]
          /\ Goes(p, "locked")
       \/ lock[proc[p].ino] # None /\ Return(p)
    /\ UNCHANGED <<files, acked>>

\* (Mutant: what to do is decided from the check before the lock.)
DecideUnlocked(p) ==
    /\ proc[p].at = "locked"
    /\ \/ content[proc[p].ino].size = "full" /\ ~proc[p].create /\ UNCHANGED lock
             /\ Goes(p, IF proc[p].rekey THEN "scratching" ELSE "live")
       \/ proc[p].create /\ ~proc[p].readOnly /\ Goes(p, "creating") /\ UNCHANGED lock
       \/ /\ \/ content[proc[p].ino].size \in {"short", "half"}
             \/ content[proc[p].ino].size = "empty" /\ ~proc[p].create
             \/ proc[p].readOnly
          /\ Return(p)
    /\ UNCHANGED <<files, acked>>

\* The length under the lock decides: a database is opened, an empty file
\* becomes one if the caller said so, anything else is refused.  A read-only
\* handle fails in create_new's first write.
Decide(p) ==
    /\ proc[p].at = "locked"
    /\ \/ content[proc[p].ino].size = "full" /\ UNCHANGED lock
             /\ Goes(p, IF proc[p].rekey THEN "scratching" ELSE "live")
       \/ content[proc[p].ino].size = "empty" /\ proc[p].create /\ ~proc[p].readOnly
             /\ Goes(p, "creating") /\ UNCHANGED lock
       \/ /\ \/ content[proc[p].ino].size \in {"short", "half"}
             \/ content[proc[p].ino].size = "empty" /\ (~proc[p].create \/ proc[p].readOnly)
          /\ Return(p)
    /\ UNCHANGED <<files, acked>>

\* create_new: superblock after superblock ...
CreateWrite(p) ==
    /\ proc[p].at = "creating"
    /\ content' = [content EXCEPT ![proc[p].ino] = Half]
    /\ Goes(p, "syncing")
    /\ UNCHANGED <<name, durableName, scratch, medium, lock, acked>>

\* ... then one fsync, which also makes the name of the new file durable.
CreateSync(p) ==
    /\ proc[p].at = "syncing"
    /\ content' = [content EXCEPT ![proc[p].ino] = Full(0)]
    /\ medium' = [medium EXCEPT ![proc[p].ino] = Full(0)]
    /\ durableName' = IF name = proc[p].ino THEN name ELSE durableName
    /\ Goes(p, "live")
    /\ UNCHANGED <<name, scratch, lock, acked>>

\* A handle commits: what it adds is durable when the call returns.
Commit(p) ==
    /\ proc[p].at = "live"
    /\ ~proc[p].readOnly
    /\ content[proc[p].ino].data < MaxData
    /\ content' = [content EXCEPT ![proc[p].ino].data = @ + 1]
    /\ medium' = [medium EXCEPT ![proc[p].ino] = content'[proc[p].ino]]
    /\ acked' = IF content'[proc[p].ino].data > acked THEN content'[proc[p].ino].data
                                                       ELSE acked
    /\ UNCHANGED <<name, durableName, scratch, lock, proc>>

-----------------------------------------------------------------------------
(* rekey, under the lock of the file it has opened.                        *)

\* The scratch file must be a new one.
CreateScratch(p) ==
    /\ proc[p].at \in {"scratching", "retrying"}
    /\ scratch = None
    /\ \E i \in Inodes :
          /\ NewFile(i)
          /\ scratch' = i
          /\ proc' = [proc EXCEPT ![p].at = "building", ![p].tmp = i]
    /\ UNCHANGED <<name, durableName, lock, acked>>

\* The debris of an earlier attempt is removed, once.
ReclaimScratch(p) ==
    /\ proc[p].at = "scratching"
    /\ scratch # None
    /\ content[scratch].size # "short"
    /\ scratch' = None
    /\ Goes(p, "retrying")
    /\ UNCHANGED <<name, durableName, content, medium, lock, acked>>

\* The committed pages are copied under the new data key.
Build(p) ==
    /\ proc[p].at = "building"
    /\ content' = [content EXCEPT ![proc[p].tmp] = content[proc[p].ino]]
    /\ Goes(p, "written")
    /\ UNCHANGED <<name, durableName, scratch, medium, lock, acked>>

\* (Mutant: the scratch file is not synced.)
SyncScratchSkipped(p) ==
    /\ proc[p].at = "written"
    /\ Goes(p, "renaming")
    /\ UNCHANGED <<files, lock, acked>>

SyncScratch(p) ==
    /\ proc[p].at = "written"
    /\ medium' = [medium EXCEPT ![proc[p].tmp] = content[proc[p].tmp]]
    /\ Goes(p, "renaming")
    /\ UNCHANGED <<name, durableName, scratch, content, lock, acked>>

\* Whatever fails in the build, the refusal to reclaim included, what is at the
\* scratch path is removed.
BuildFails(p) ==
    /\ proc[p].at \in {"scratching", "retrying", "building", "written"}
    /\ scratch' = None
    /\ Return(p)
    /\ UNCHANGED <<name, durableName, content, medium, acked>>

\* The path names the new file; durably so only after the directory's fsync.
Rename(p) ==
    /\ proc[p].at = "renaming"
    /\ scratch # None
    /\ name' = scratch
    /\ scratch' = None
    /\ Goes(p, "renamed")
    /\ UNCHANGED <<durableName, content, medium, lock, acked>>

\* The scratch file stays where it is.
RenameFails(p) ==
    /\ proc[p].at = "renaming"
    /\ Return(p)
    /\ UNCHANGED <<files, acked>>

\* The directory's fsync is best effort; the handle goes after it.
FinishRekey(p) ==
    /\ proc[p].at = "renamed"
    /\ durableName' \in {durableName, name}
    /\ Return(p)
    /\ UNCHANGED <<name, scratch, content, medium, acked>>

-----------------------------------------------------------------------------
\* The handle is dropped, or the process dies at any point.
Exit(p) ==
    /\ proc[p].at # "idle"
    /\ Return(p)
    /\ UNCHANGED <<files, acked>>

Pending == {i \in Inodes : content[i] # medium[i]}

\* Of the files with bytes no fsync has covered some are whole, some in part.
PowerLoss(whole, part, n) ==
    /\ name' = n
    /\ durableName' = n
    /\ content' = [i \in Inodes |-> IF i \in whole THEN content[i]
                                    ELSE IF i \in part THEN Half ELSE medium[i]]
    /\ medium' = content'
    /\ lock' = [i \in Inodes |-> None]
    /\ proc' = [p \in Procs |-> Idle]
    /\ UNCHANGED <<scratch, acked>>

OpenStep(p) ==
    \/ OpenFile(p)
    \/ TryLock(p)
    \/ Decide(p)
    \/ CreateWrite(p)
    \/ CreateSync(p)

RekeyStep(p) ==
    \/ CreateScratch(p)
    \/ ReclaimScratch(p)
    \/ Build(p)
    \/ SyncScratch(p)
    \/ BuildFails(p)
    \/ RenameFails(p)
    \/ FinishRekey(p)

Start(p) == \E create, readOnly, rekey \in BOOLEAN : Stat(p, create, readOnly, rekey)

Crash ==
    \E whole \in SUBSET Pending : \E part \in SUBSET (Pending \ whole) :
        \E n \in {name, durableName} : PowerLoss(whole, part, n)

\* What the runs assume of the users of a file, since the code does not ensure
\* it: no other process is on its way to the file that p replaces ...
NobodyOpening(p) == \A q \in Procs \ {p} : proc[q].at \notin {"opening", "unlocked"}
\* ... and none sets out before the new name is durable.
RenameDurable == name # durableName => content[name].size # "full"

Next ==
    \/ \E p \in Procs :
          \/ RenameDurable /\ Start(p)
          \/ Commit(p)
          \/ Exit(p)
          \/ OpenStep(p)
          \/ RekeyStep(p)
          \/ NobodyOpening(p) /\ Rename(p)
    \/ Crash

Spec == Init /\ [][Next]_vars

-----------------------------------------------------------------------------
(* Properties.                                                             *)

\* p works on the file it has open; a rekey is done with it at the rename.
Holds(p) == proc[p].at \in {"live"} \cup (RekeySteps \ {"renamed"})

\* At most one handle on the database (lib.rs: "at most one `Chisel` (in any
\* process, on the same host/filesystem) can hold a given database file at a
\* time").
OneHandle ==
    /\ TypeOK
    /\ \A p, q \in Procs : Holds(p) /\ Holds(q) => p = q

\* Once a commit is acknowledged, the path names a complete file with it,
\* now and after a power loss, whoever is opening, creating or rekeying
\* (rekey.rs: "the database path only ever names a complete file").
AckedUnderName ==
    acked > 0 =>
        \A n \in {name, durableName} :
            n # None /\ \A c \in {content[n], medium[n]} : c.size = "full" /\ c.data >= acked

\* Nobody creates over a database or over somebody's short file, and no
\* commit leaves a file that holds it (lib.rs, the length under the lock).
NothingOverwritten ==
    [][ \A i \in {name, durableName} \ {None} :
          /\ content[i].size = "short" => content'[i] = content[i]
          /\ medium[i].size = "full" =>
                content'[i].size = "full" /\ content'[i].data >= medium[i].data ]_vars
=============================================================================

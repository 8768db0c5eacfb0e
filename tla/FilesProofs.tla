---------------------------- MODULE FilesProofs -----------------------------
(***************************************************************************)
(* Machine-checked proofs about Files, for any number of processes and     *)
(* files and any number of commits: at most one handle, acknowledged       *)
(* commits stay under the name, and nobody's file is written over.         *)
(***************************************************************************)
EXTENDS Files, TLAPS

-----------------------------------------------------------------------------
(* The inductive invariant.                                                *)

\* The steps of a call that holds the lock of the file it has open.
LockedSteps == {"locked", "creating", "syncing", "live"} \cup RekeySteps
Locked(p) == proc[p].at \in LockedSteps
\* p works on the file under the name; a rekey does so until its rename.
OnFile(p) == proc[p].at = "unlocked" \/ (Locked(p) /\ proc[p].at # "renamed")

\* The locks are those of the processes in a locked part of their call.
LocksInv ==
    /\ \A p \in Procs : Locked(p) => proc[p].ino \in Inodes /\ lock[proc[p].ino] = p
    /\ \A i \in Inodes : lock[i] # None => Locked(lock[i])

\* Every process on its way to a file is on its way to the one under the name;
\* the scratch file is another; and while a complete file has a name that a
\* power loss takes back, nobody is at work.
NamesInv ==
    /\ \A p \in Procs : OnFile(p) => proc[p].ino = name /\ name # None
    /\ scratch # None => scratch \notin {name, durableName}
    /\ name # None /\ name # durableName /\ content[name].size = "full" =>
          \A p \in Procs : proc[p].at \in {"idle", "renamed"}

\* A file that is, or would be after a power loss, a database or somebody's
\* short file has no bytes in flight.
Settled(n) ==
    content[n].size \in {"full", "short"} \/ medium[n].size = "full" => content[n] = medium[n]
SettledInv == \A n \in {name, durableName} \ {None} : Settled(n)

\* What each step of a call knows of the files.
Progress(p) ==
    /\ proc[p].at = "creating" => content[name].size = "empty"
    /\ proc[p].at = "syncing" => content[name] = Half
    /\ Holds(p) => content[name].size = "full"
    /\ proc[p].at \in {"building", "written", "renaming"} =>
          proc[p].tmp \in Inodes /\ scratch = proc[p].tmp
    /\ proc[p].at \in {"written", "renaming"} => content[proc[p].tmp] = content[name]
    /\ proc[p].at = "renaming" => medium[proc[p].tmp] = content[name]
ProgressInv == \A p \in Procs : Progress(p)

FileInv == TypeOK /\ LocksInv /\ NamesInv /\ SettledInv /\ ProgressInv /\ AckedUnderName

-----------------------------------------------------------------------------
(* Locks.                                                                  *)

\* A call that returns, or a process that dies, gives back its lock and no other.
LEMMA ReturnLocks ==
    ASSUME TypeOK, LocksInv, NEW p \in Procs, Return(p)
    PROVE  /\ lock' \in [Inodes -> Procs \cup {None}] /\ proc' \in [Procs -> Handles]
           /\ \A i \in Inodes : lock'[i] # None => proc'[lock'[i]].ino = i
           /\ LocksInv'
<1>1. Idle \in Handles /\ Idle.at \notin LockedSteps
  BY DEF Idle, Handles, RekeySteps, LockedSteps
<1>2. proc' \in [Procs -> Handles] /\ proc'[p] = Idle /\ \A q \in Procs \ {p} : proc'[q] = proc[q]
  BY <1>1 DEF Return, TypeOK
<1>3. \A i \in Inodes : lock'[i] = IF lock[i] = p THEN None ELSE lock[i]
  BY DEF Return, Released
<1>4. lock' \in [Inodes -> Procs \cup {None}]
  BY DEF Return, Released, TypeOK
<1>5. \A i \in Inodes : lock'[i] # None => lock'[i] \in Procs \ {p} /\ lock'[i] = lock[i]
  BY <1>3 DEF TypeOK
<1>6. \A i \in Inodes : lock'[i] # None => proc'[lock'[i]].ino = i
  BY <1>2, <1>5 DEF TypeOK
<1>7. \A i \in Inodes : lock'[i] # None => proc'[lock'[i]].at \in LockedSteps
  BY <1>2, <1>5 DEF LocksInv, Locked
<1>8. \A q \in Procs : proc'[q].at \in LockedSteps => q # p /\ proc'[q] = proc[q]
  BY <1>1, <1>2
<1>9. \A q \in Procs : proc'[q].at \in LockedSteps =>
         proc'[q].ino \in Inodes /\ lock'[proc'[q].ino] = q
  BY <1>3, <1>8 DEF LocksInv, Locked
<1> QED
  BY <1>2, <1>4, <1>6, <1>7, <1>9 DEF LocksInv, Locked

\* A step of p inside its locked part, or before it, keeps every lock where it is.
LEMMA SameLocks ==
    ASSUME TypeOK, LocksInv, NEW p \in Procs, UNCHANGED lock,
           proc' \in [Procs -> Handles], \A q \in Procs \ {p} : proc'[q] = proc[q],
           proc'[p].at \in LockedSteps <=> proc[p].at \in LockedSteps,
           proc[p].at \in LockedSteps => proc'[p].ino = proc[p].ino
    PROVE  /\ lock' \in [Inodes -> Procs \cup {None}]
           /\ \A i \in Inodes : lock'[i] # None => proc'[lock'[i]].ino = i
           /\ LocksInv'
<1>1. \A i \in Inodes : lock[i] # None => lock[i] \in Procs
  BY DEF TypeOK
<1>2. \A i \in Inodes : lock[i] # None =>
         proc'[lock[i]].ino = i /\ proc'[lock[i]].at \in LockedSteps
  BY <1>1 DEF TypeOK, LocksInv, Locked
<1>3. \A q \in Procs : proc'[q].at \in LockedSteps =>
         proc'[q].ino \in Inodes /\ lock[proc'[q].ino] = q
  BY DEF LocksInv, Locked
<1> QED
  BY <1>2, <1>3 DEF LocksInv, Locked, TypeOK

-----------------------------------------------------------------------------
(* Steps that leave the files alone.                                       *)

\* A process that goes to another step keeps what it has open.
LEMMA GoesTo ==
    ASSUME TypeOK, NEW p \in Procs, NEW at \in {"idle", "live"} \cup OpenSteps \cup RekeySteps,
           Goes(p, at)
    PROVE  /\ proc' \in [Procs -> Handles]
           /\ \A q \in Procs \ {p} : proc'[q] = proc[q]
           /\ proc'[p].at = at /\ proc'[p].ino = proc[p].ino /\ proc'[p].tmp = proc[p].tmp
BY SMTT(30) DEF Goes, TypeOK, Handles

LEMMA ReturnsTo ==
    ASSUME TypeOK, NEW p \in Procs, Return(p)
    PROVE  \A q \in Procs : proc'[q] = IF q = p THEN Idle ELSE proc[q]
BY DEF Return, TypeOK

\* Only p moves, to a step whose knowledge of the files is right.
LEMMA OnlyProc ==
    ASSUME FileInv, NEW p \in Procs, UNCHANGED <<files, acked>>,
           \A q \in Procs \ {p} : proc'[q] = proc[q],
           OnFile(p)' => proc'[p].ino = name /\ name # None,
           name # None /\ name # durableName /\ content[name].size = "full" =>
               proc'[p].at \in {"idle", "renamed"},
           Progress(p)'
    PROVE  NamesInv' /\ SettledInv' /\ ProgressInv' /\ AckedUnderName'
<1>1. NamesInv'
  BY DEF FileInv, NamesInv, OnFile, Locked, files
<1>2. SettledInv' /\ AckedUnderName'
  BY DEF FileInv, SettledInv, Settled, AckedUnderName, files
<1>3. ASSUME NEW q \in Procs, q # p
      PROVE  Progress(q)'
  BY <1>3 DEF FileInv, ProgressInv, Progress, Holds, files
<1> QED
  BY <1>1, <1>2, <1>3 DEF ProgressInv

\* A call that returns without having touched the files.
LEMMA ReturnStep ==
    ASSUME FileInv, NEW p \in Procs, Return(p), UNCHANGED <<files, acked>>
    PROVE  FileInv'
<1>1. /\ proc'[p].at = "idle"
      /\ \A q \in Procs \ {p} : proc'[q] = proc[q]
  BY ReturnsTo DEF FileInv, Idle
<1>2. ~OnFile(p)' /\ Progress(p)'
  BY <1>1 DEF OnFile, Locked, LockedSteps, RekeySteps, Progress, Holds
<1>3. NamesInv' /\ SettledInv' /\ ProgressInv' /\ AckedUnderName'
  BY <1>1, <1>2, OnlyProc
<1>4. TypeOK' /\ LocksInv'
  BY ReturnLocks DEF FileInv, TypeOK, files
<1> QED
  BY <1>3, <1>4 DEF FileInv

LEMMA StatStep ==
    ASSUME FileInv, RenameDurable, NEW p \in Procs, Start(p)
    PROVE  FileInv'
<1>1. PICK create, readOnly, rekey \in BOOLEAN : Stat(p, create, readOnly, rekey)
  BY DEF Start
<1>2. /\ proc' \in [Procs -> Handles]
      /\ proc'[p].at = "opening" /\ proc[p].at = "idle"
      /\ \A q \in Procs \ {p} : proc'[q] = proc[q]
      /\ UNCHANGED <<files, lock, acked>>
  BY ZenonT(30), <1>1 DEF Stat, FileInv, TypeOK, Handles, Idle, OpenSteps
<1>3. {"idle", "opening"} \cap LockedSteps = {}
  BY DEF LockedSteps, RekeySteps
<1>4. TypeOK' /\ LocksInv'
  <2>1. /\ lock' \in [Inodes -> Procs \cup {None}]
        /\ \A i \in Inodes : lock'[i] # None => proc'[lock'[i]].ino = i
        /\ LocksInv'
    BY <1>2, <1>3, SameLocks DEF FileInv
  <2> QED
    BY <1>2, <2>1 DEF FileInv, TypeOK, files
<1>5. ~OnFile(p)' /\ Progress(p)'
  BY <1>2, <1>3 DEF OnFile, Locked, Progress, Holds, RekeySteps
<1>6. ~(name # None /\ name # durableName /\ content[name].size = "full")
  BY DEF RenameDurable
<1>7. NamesInv' /\ SettledInv' /\ ProgressInv' /\ AckedUnderName'
  BY <1>2, <1>5, <1>6, OnlyProc
<1> QED
  BY <1>4, <1>7 DEF FileInv

LEMMA TryLockStep ==
    ASSUME FileInv, NEW p \in Procs, TryLock(p)
    PROVE  FileInv'
<1>1. CASE Return(p)
  BY <1>1, ReturnStep DEF TryLock
<1>2. CASE /\ lock[proc[p].ino] = None
           /\ lock' = [lock EXCEPT ![proc[p].ino] = p]
           /\ Goes(p, "locked")
  <2>1. /\ proc[p].at = "unlocked" /\ proc[p].ino = name /\ name \in Inodes
        /\ UNCHANGED <<files, acked>>
    BY DEF TryLock, FileInv, NamesInv, OnFile, TypeOK
  <2>2. /\ proc' \in [Procs -> Handles]
        /\ \A q \in Procs \ {p} : proc'[q] = proc[q]
        /\ proc'[p].at = "locked" /\ proc'[p].ino = name
    BY <1>2, <2>1, GoesTo DEF FileInv, OpenSteps
  <2>3. /\ lock' \in [Inodes -> Procs \cup {None}] /\ lock'[name] = p
        /\ \A i \in Inodes \ {name} : lock'[i] = lock[i]
    BY <1>2, <2>1 DEF FileInv, TypeOK
  <2>4. "locked" \in LockedSteps /\ "unlocked" \notin LockedSteps
    BY DEF LockedSteps, RekeySteps
  <2>5. \A i \in Inodes \ {name} : lock[i] # None => lock[i] \in Procs \ {p}
    BY <2>1, <2>4 DEF FileInv, TypeOK, LocksInv, Locked
  <2>6. \A i \in Inodes : lock'[i] # None =>
           proc'[lock'[i]].ino = i /\ proc'[lock'[i]].at \in LockedSteps
    BY <2>2, <2>3, <2>4, <2>5 DEF FileInv, TypeOK, LocksInv, Locked
  <2>7. ASSUME NEW q \in Procs, proc'[q].at \in LockedSteps
        PROVE  proc'[q].ino \in Inodes /\ lock'[proc'[q].ino] = q
    BY <1>2, <2>1, <2>2, <2>3, <2>7, NoneAssumption DEF FileInv, LocksInv, Locked
  <2>8. TypeOK' /\ LocksInv'
    BY <2>1, <2>2, <2>3, <2>6, <2>7 DEF FileInv, TypeOK, LocksInv, Locked, files
  <2>9. Progress(p)'
    BY <2>2 DEF Progress, Holds, RekeySteps
  <2>10. ~(name # None /\ name # durableName /\ content[name].size = "full")
    BY <2>1 DEF FileInv, NamesInv
  <2>11. NamesInv' /\ SettledInv' /\ ProgressInv' /\ AckedUnderName'
    BY <2>1, <2>2, <2>9, <2>10, OnlyProc, NoneAssumption
  <2> QED
    BY <2>8, <2>11 DEF FileInv
<1> QED
  BY <1>1, <1>2 DEF TryLock

-----------------------------------------------------------------------------
(* Steps under the lock.                                                   *)

\* The lock excludes: while p works on the file under the name, no other does.
LEMMA OthersOff ==
    ASSUME FileInv, NEW p \in Procs, NEW q \in Procs, p # q,
           proc[p].at \in LockedSteps \ {"renamed"}
    PROVE  proc[q].at \notin LockedSteps \ {"renamed"}
BY DEF FileInv, LocksInv, NamesInv, OnFile, Locked

\* A process that does not work on the file knows nothing of it.
LEMMA OffKnowsNothing ==
    ASSUME NEW q \in Procs, proc'[q].at \notin LockedSteps \ {"renamed"}
    PROVE  Progress(q)'
BY DEF Progress, Holds, LockedSteps, RekeySteps

\* p goes from one step under the lock to another.
LEMMA LockedGoes ==
    ASSUME FileInv, NEW p \in Procs, NEW at \in LockedSteps, UNCHANGED lock,
           proc[p].at \in LockedSteps \ {"renamed"}, Goes(p, at)
    PROVE  /\ proc' \in [Procs -> Handles]
           /\ \A q \in Procs \ {p} :
                 proc'[q] = proc[q] /\ proc'[q].at \notin LockedSteps \ {"renamed"}
           /\ proc'[p].at = at /\ proc'[p].ino = proc[p].ino /\ proc'[p].tmp = proc[p].tmp
           /\ proc[p].ino = name /\ name \in Inodes
           /\ lock' \in [Inodes -> Procs \cup {None}]
           /\ \A i \in Inodes : lock'[i] # None => proc'[lock'[i]].ino = i
           /\ LocksInv'
<1>1. at \in {"idle", "live"} \cup OpenSteps \cup RekeySteps
  BY DEF LockedSteps, OpenSteps
<1>2. /\ proc' \in [Procs -> Handles]
      /\ \A q \in Procs \ {p} : proc'[q] = proc[q]
      /\ proc'[p].at = at /\ proc'[p].ino = proc[p].ino /\ proc'[p].tmp = proc[p].tmp
  BY <1>1, GoesTo DEF FileInv
<1>3. /\ lock' \in [Inodes -> Procs \cup {None}]
      /\ \A i \in Inodes : lock'[i] # None => proc'[lock'[i]].ino = i
      /\ LocksInv'
  BY <1>2, SameLocks DEF FileInv
<1>4. proc[p].ino = name /\ name \in Inodes
  BY DEF FileInv, NamesInv, TypeOK, OnFile, Locked
<1> QED
  BY <1>2, <1>3, <1>4, OthersOff

\* A step of p that leaves p under the lock, on the file under the name.
LEMMA UnderLock ==
    ASSUME FileInv, NEW p \in Procs, proc[p].at \in LockedSteps \ {"renamed"},
           proc' \in [Procs -> Handles], \A q \in Procs \ {p} : proc'[q] = proc[q],
           proc'[p].at \in LockedSteps \ {"renamed"}, proc'[p].ino = proc[p].ino,
           UNCHANGED <<name, lock>>,
           TypeOK', SettledInv', AckedUnderName', Progress(p)',
           scratch' \in {scratch, None} \/ scratch' \notin {name, durableName},
           durableName' \in {durableName, name},
           name = durableName' \/ content'[name].size # "full"
    PROVE  FileInv'
<1>1. /\ \A q \in Procs \ {p} :
            proc'[q] = proc[q] /\ proc'[q].at \notin LockedSteps \ {"renamed"}
      /\ proc'[p].ino = name /\ name \in Inodes
      /\ LocksInv'
  <2>1. proc[p].ino = name /\ name \in Inodes
    BY DEF FileInv, NamesInv, TypeOK, OnFile, Locked
  <2>2. LocksInv'
    BY SameLocks DEF FileInv
  <2> QED
    BY <2>1, <2>2, OthersOff
<1>2. ProgressInv'
  BY <1>1, OffKnowsNothing DEF ProgressInv
<1>3. NamesInv'
  <2>1. \A q \in Procs : OnFile(q)' => proc'[q].ino = name' /\ name' # None
    BY <1>1, NoneAssumption DEF FileInv, NamesInv, OnFile, Locked
  <2>2. scratch' # None => scratch' \notin {name', durableName'}
    BY DEF FileInv, NamesInv
  <2> QED
    BY <2>1, <2>2 DEF NamesInv
<1> QED
  BY <1>1, <1>2, <1>3 DEF FileInv

\* A complete file that somebody works on is under its name for good.
LEMMA NameDurable ==
    ASSUME FileInv, NEW p \in Procs, proc[p].at \in LockedSteps \ {"renamed"}
    PROVE  name = durableName \/ content[name].size # "full"
BY NoneAssumption DEF FileInv, NamesInv, OnFile, Locked, LockedSteps, RekeySteps

LEMMA DecideStep ==
    ASSUME FileInv, NEW p \in Procs, Decide(p)
    PROVE  FileInv'
<1>1. proc[p].at = "locked" /\ UNCHANGED <<files, acked>>
  BY DEF Decide
<1>2. "locked" \in LockedSteps \ {"renamed"}
  BY DEF LockedSteps
<1>3. CASE Return(p)
  BY <1>1, <1>3, ReturnStep
<1>4. ASSUME NEW to \in {"live", "scratching", "creating"}, Goes(p, to), UNCHANGED lock,
             to = "creating" => content[proc[p].ino].size = "empty",
             to # "creating" => content[proc[p].ino].size = "full"
      PROVE  FileInv'
  <2>1. to \in LockedSteps \ {"renamed"}
    BY DEF LockedSteps, RekeySteps
  <2>2. /\ proc' \in [Procs -> Handles] /\ proc'[p].at = to /\ proc[p].ino = name
        /\ \A q \in Procs \ {p} : proc'[q] = proc[q]
        /\ proc'[p].ino = name
        /\ lock' \in [Inodes -> Procs \cup {None}]
        /\ \A i \in Inodes : lock'[i] # None => proc'[lock'[i]].ino = i
    BY <1>1, <1>2, <1>4, <2>1, LockedGoes
  <2>3. TypeOK'
    BY <1>1, <2>2 DEF FileInv, TypeOK, files
  <2>4. Progress(p)'
    BY <1>1, <1>4, <2>2 DEF Progress, Holds, RekeySteps, files
  <2>5. SettledInv' /\ AckedUnderName'
    BY <1>1 DEF FileInv, SettledInv, Settled, AckedUnderName, files
  <2>6. name = durableName \/ content[name].size # "full"
    BY <1>1, <1>2, NameDurable
  <2> QED
    BY <1>1, <1>2, <1>4, <2>1, <2>2, <2>3, <2>4, <2>5, <2>6, UnderLock DEF files
<1> QED
  BY <1>3, <1>4 DEF Decide

LEMMA CreateWriteStep ==
    ASSUME FileInv, NEW p \in Procs, CreateWrite(p)
    PROVE  FileInv'
<1>1. "creating" \in LockedSteps \ {"renamed"} /\ "syncing" \in LockedSteps \ {"renamed"}
  BY DEF LockedSteps
<1>2. /\ proc' \in [Procs -> Handles] /\ proc'[p].at = "syncing" /\ proc'[p].ino = name
      /\ \A q \in Procs \ {p} : proc'[q] = proc[q]
      /\ proc[p].ino = name /\ name \in Inodes
      /\ lock' \in [Inodes -> Procs \cup {None}]
      /\ \A i \in Inodes : lock'[i] # None => proc'[lock'[i]].ino = i
  BY <1>1, LockedGoes DEF CreateWrite
<1>3. content[name].size = "empty"
  BY DEF CreateWrite, FileInv, ProgressInv, Progress
<1>4. Half \in Contents /\ Half.size = "half"
  BY MaxDataAssumption DEF Half, Contents, Sizes
<1>5. /\ content' \in [Inodes -> Contents] /\ content'[name] = Half
      /\ \A i \in Inodes \ {name} : content'[i] = content[i]
      /\ UNCHANGED <<name, durableName, scratch, medium, lock, acked>>
  BY <1>2, <1>4 DEF CreateWrite, FileInv, TypeOK
<1>6. TypeOK'
  BY <1>2, <1>5 DEF FileInv, TypeOK
<1>7. medium[name].size # "full"
  BY <1>2, <1>3, NoneAssumption DEF FileInv, SettledInv, Settled
<1>8. SettledInv'
  BY <1>4, <1>5, <1>7 DEF FileInv, TypeOK, SettledInv, Settled
<1>9. AckedUnderName'
  BY <1>3, <1>5 DEF FileInv, AckedUnderName
<1>10. Progress(p)'
  BY <1>2, <1>5 DEF Progress, Holds, RekeySteps
<1>11. proc[p].at \in LockedSteps \ {"renamed"} /\ content'[name].size # "full"
  BY <1>1, <1>4, <1>5 DEF CreateWrite
<1> QED
  BY <1>1, <1>2, <1>5, <1>6, <1>8, <1>9, <1>10, <1>11, UnderLock

LEMMA CreateSyncStep ==
    ASSUME FileInv, NEW p \in Procs, CreateSync(p)
    PROVE  FileInv'
<1>1. "syncing" \in LockedSteps \ {"renamed"} /\ "live" \in LockedSteps \ {"renamed"}
  BY DEF LockedSteps
<1>2. /\ proc' \in [Procs -> Handles] /\ proc'[p].at = "live" /\ proc'[p].ino = name
      /\ \A q \in Procs \ {p} : proc'[q] = proc[q]
      /\ proc[p].ino = name /\ name \in Inodes
      /\ lock' \in [Inodes -> Procs \cup {None}]
      /\ \A i \in Inodes : lock'[i] # None => proc'[lock'[i]].ino = i
  BY <1>1, LockedGoes DEF CreateSync
<1>3. content[name].size = "half"
  BY DEF CreateSync, FileInv, ProgressInv, Progress, Half
<1>4. Full(0) \in Contents /\ Full(0).size = "full"
  BY MaxDataAssumption DEF Full, Contents, Sizes
<1>5. /\ content' \in [Inodes -> Contents] /\ content'[name] = Full(0)
      /\ medium' \in [Inodes -> Contents] /\ medium'[name] = Full(0)
      /\ durableName' = name /\ UNCHANGED <<name, scratch, lock, acked>>
  BY <1>2, <1>4 DEF CreateSync, FileInv, TypeOK
<1>6. TypeOK'
  BY <1>2, <1>5 DEF FileInv, TypeOK
<1>7. SettledInv'
  BY <1>5 DEF SettledInv, Settled
<1>8. AckedUnderName'
  BY <1>3, <1>5 DEF FileInv, AckedUnderName
<1>9. Progress(p)'
  BY <1>2, <1>4, <1>5 DEF Progress, Holds, RekeySteps
<1>10. proc[p].at \in LockedSteps \ {"renamed"}
  BY <1>1 DEF CreateSync
<1> QED
  BY <1>1, <1>2, <1>5, <1>6, <1>7, <1>8, <1>9, <1>10, UnderLock

LEMMA CommitStep ==
    ASSUME FileInv, NEW p \in Procs, Commit(p)
    PROVE  FileInv'
<1>1. proc[p].at = "live" /\ proc[p].at \in LockedSteps \ {"renamed"}
  BY DEF LockedSteps, Commit
<1>2. proc[p].ino = name /\ name \in Inodes
  BY <1>1 DEF FileInv, NamesInv, TypeOK, OnFile, Locked
<1>3. content[name] \in Contents /\ content[name].size = "full"
  BY <1>1, <1>2 DEF FileInv, ProgressInv, Progress, Holds, TypeOK
<1>4. name = durableName
  BY <1>1, <1>3, NameDurable
<1> DEFINE new == [content[name] EXCEPT !.data = @ + 1]
<1>5. /\ new \in Contents /\ new.size = "full"
      /\ new.data = content[name].data + 1 /\ content[name].data \in Nat
  BY <1>2, <1>3, MaxDataAssumption DEF Commit, Contents
<1>6. content' = [content EXCEPT ![name] = new] /\ content'[name] = new
  BY <1>2 DEF Commit, FileInv, TypeOK
<1> HIDE DEF new
<1>7. /\ content' \in [Inodes -> Contents] /\ medium' \in [Inodes -> Contents]
      /\ medium'[name] = new
      /\ UNCHANGED <<name, durableName, scratch, lock, proc>>
  BY <1>2, <1>5, <1>6 DEF Commit, FileInv, TypeOK
<1>8. acked' = new.data /\ acked' \in 0..MaxData /\ new.data > 0
  <2>1. new.data > acked
    BY <1>2, <1>5 DEF FileInv, AckedUnderName, TypeOK
  <2>2. acked' = new.data
    BY ZenonT(30), <1>2, <1>6, <2>1 DEF Commit
  <2> QED
    BY <1>5, <2>2 DEF Contents
<1>9. TypeOK'
  BY <1>7, <1>8 DEF FileInv, TypeOK
<1>10. SettledInv'
  BY <1>4, <1>6, <1>7 DEF SettledInv, Settled
<1>11. AckedUnderName'
  BY <1>2, <1>4, <1>5, <1>6, <1>7, <1>8, NoneAssumption DEF AckedUnderName
<1>12. Progress(p)'
  BY <1>1, <1>5, <1>6, <1>7 DEF Progress, Holds
<1> QED
  BY <1>1, <1>4, <1>7, <1>9, <1>10, <1>11, <1>12, UnderLock DEF FileInv, TypeOK

\* A new file is none that a directory entry or a process leads to.
LEMMA NewFileElsewhere ==
    ASSUME TypeOK, NEW i \in Inodes, NewFile(i)
    PROVE  /\ i \notin {name, durableName, scratch}
           /\ \A q \in Procs : i \notin {proc[q].ino, proc[q].tmp}
           /\ content' \in [Inodes -> Contents] /\ medium' \in [Inodes -> Contents]
           /\ content'[i] = Empty /\ medium'[i] = Empty
           /\ \A j \in Inodes \ {i} : content'[j] = content[j] /\ medium'[j] = medium[j]
<1>1. Empty \in Contents
  BY MaxDataAssumption DEF Empty, Contents, Sizes
<1> QED
  BY <1>1 DEF NewFile, Referenced, TypeOK

LEMMA CreateScratchStep ==
    ASSUME FileInv, NEW p \in Procs, CreateScratch(p)
    PROVE  FileInv'
<1>1. PICK i \in Inodes : /\ NewFile(i) /\ scratch' = i
                          /\ proc' = [proc EXCEPT ![p].at = "building", ![p].tmp = i]
  BY ZenonT(30) DEF CreateScratch
<1>2. /\ proc[p].at \in {"scratching", "retrying"}
      /\ proc[p].at \in LockedSteps \ {"renamed"} /\ "building" \in LockedSteps \ {"renamed"}
      /\ UNCHANGED <<name, durableName, lock, acked>>
  BY SMTT(30) DEF CreateScratch, LockedSteps, RekeySteps
<1>3. proc[p].ino = name /\ name \in Inodes
  BY <1>2 DEF FileInv, NamesInv, TypeOK, OnFile, Locked
<1>4. /\ proc' \in [Procs -> Handles] /\ \A q \in Procs \ {p} : proc'[q] = proc[q]
      /\ proc'[p].at = "building" /\ proc'[p].ino = proc[p].ino /\ proc'[p].tmp = i
  <2> DEFINE h == [proc[p] EXCEPT !.at = "building", !.tmp = i]
  <2>1. proc' = [proc EXCEPT ![p] = h]
    BY ZenonT(30), <1>1 DEF FileInv, TypeOK
  <2>2. proc[p] \in Handles
    BY DEF FileInv, TypeOK
  <2>3. /\ h \in Handles
        /\ h.at = "building" /\ h.ino = proc[p].ino /\ h.tmp = i
    BY ZenonT(30), <2>2 DEF Handles, RekeySteps
  <2> HIDE DEF h
  <2> QED
    BY <2>1, <2>3 DEF FileInv, TypeOK
<1>5. /\ i \notin {name, durableName}
      /\ content' \in [Inodes -> Contents] /\ medium' \in [Inodes -> Contents]
      /\ \A j \in Inodes \ {i} : content'[j] = content[j] /\ medium'[j] = medium[j]
  BY SMTT(30), <1>1, NewFileElsewhere DEF FileInv
<1>6. content'[name] = content[name] /\ content[name].size = "full"
  BY <1>2, <1>3, <1>5 DEF FileInv, ProgressInv, Progress, Holds, RekeySteps
<1>7. TypeOK'
  <2>1. /\ lock' \in [Inodes -> Procs \cup {None}]
        /\ \A j \in Inodes : lock'[j] # None => proc'[lock'[j]].ino = j
    BY <1>2, <1>4, SameLocks DEF FileInv
  <2> QED
    BY <1>1, <1>2, <1>4, <1>5, <2>1 DEF FileInv, TypeOK
<1>8. SettledInv'
  BY <1>2, <1>5 DEF FileInv, TypeOK, SettledInv, Settled
<1>9. AckedUnderName'
  BY <1>2, <1>5 DEF FileInv, TypeOK, AckedUnderName
<1>10. Progress(p)'
  <2>1. content'[name'].size = "full" /\ scratch' = proc'[p].tmp /\ proc'[p].tmp \in Inodes
    BY <1>1, <1>2, <1>4, <1>6
  <2> QED
    BY <1>4, <2>1 DEF Progress, Holds
<1>11. name = durableName
  BY <1>2, <1>6, NameDurable
<1> QED
  BY <1>1, <1>2, <1>4, <1>5, <1>7, <1>8, <1>9, <1>10, <1>11, UnderLock

LEMMA ReclaimScratchStep ==
    ASSUME FileInv, NEW p \in Procs, ReclaimScratch(p)
    PROVE  FileInv'
<1>1. /\ proc[p].at = "scratching" /\ Goes(p, "retrying") /\ scratch' = None
      /\ proc[p].at \in LockedSteps \ {"renamed"} /\ "retrying" \in LockedSteps \ {"renamed"}
      /\ UNCHANGED <<name, durableName, content, medium, lock, acked>>
  BY DEF ReclaimScratch, LockedSteps, RekeySteps
<1>2. /\ proc' \in [Procs -> Handles] /\ \A q \in Procs \ {p} : proc'[q] = proc[q]
      /\ proc'[p].at = "retrying" /\ proc'[p].ino = proc[p].ino
      /\ lock' \in [Inodes -> Procs \cup {None}]
      /\ \A j \in Inodes : lock'[j] # None => proc'[lock'[j]].ino = j
  BY <1>1, LockedGoes
<1>3. content[name].size = "full"
  BY <1>1 DEF FileInv, ProgressInv, Progress, Holds, RekeySteps
<1>4. TypeOK'
  BY SMTT(30), <1>1, <1>2 DEF FileInv, TypeOK
<1>5. SettledInv' /\ AckedUnderName'
  BY SMTT(30), <1>1 DEF FileInv, SettledInv, Settled, AckedUnderName
<1>6. Progress(p)'
  BY <1>1, <1>2, <1>3 DEF Progress, Holds, RekeySteps
<1>7. name = durableName
  BY <1>1, <1>3, NameDurable
<1> QED
  BY <1>1, <1>2, <1>4, <1>5, <1>6, <1>7, UnderLock

\* The scratch file of a rekey is not under the name, nor would it be after a
\* power loss.
LEMMA ScratchElsewhere ==
    ASSUME FileInv, NEW p \in Procs, proc[p].at \in {"building", "written", "renaming"}
    PROVE  /\ proc[p].at \in LockedSteps \ {"renamed"}
           /\ proc[p].ino = name /\ name \in Inodes /\ content[name].size = "full"
           /\ name = durableName
           /\ proc[p].tmp \in Inodes \ {name} /\ scratch = proc[p].tmp
<1>1. proc[p].at \in LockedSteps \ {"renamed"}
  BY DEF LockedSteps, RekeySteps
<1>2. proc[p].ino = name /\ name \in Inodes
  BY <1>1 DEF FileInv, NamesInv, TypeOK, OnFile, Locked
<1>3. content[name].size = "full" /\ proc[p].tmp \in Inodes /\ scratch = proc[p].tmp
  BY DEF FileInv, ProgressInv, Progress, Holds, RekeySteps
<1>4. name = durableName
  BY <1>1, <1>3, NameDurable
<1>5. scratch \notin {name, durableName}
  BY <1>3, NoneAssumption DEF FileInv, NamesInv
<1> QED
  BY <1>1, <1>2, <1>3, <1>4, <1>5

LEMMA BuildStep ==
    ASSUME FileInv, NEW p \in Procs, Build(p)
    PROVE  FileInv'
<1>1. /\ proc[p].at = "building" /\ Goes(p, "written")
      /\ "written" \in LockedSteps \ {"renamed"}
      /\ UNCHANGED <<name, durableName, scratch, medium, lock, acked>>
  BY DEF Build, LockedSteps, RekeySteps
<1>2. /\ proc[p].at \in LockedSteps \ {"renamed"}
      /\ proc[p].ino = name /\ name \in Inodes /\ content[name].size = "full"
      /\ name = durableName
      /\ proc[p].tmp \in Inodes \ {name} /\ scratch = proc[p].tmp
  BY SMTT(30), <1>1, ScratchElsewhere
<1>3. /\ proc' \in [Procs -> Handles] /\ \A q \in Procs \ {p} : proc'[q] = proc[q]
      /\ proc'[p].at = "written" /\ proc'[p].ino = proc[p].ino /\ proc'[p].tmp = proc[p].tmp
      /\ lock' \in [Inodes -> Procs \cup {None}]
      /\ \A j \in Inodes : lock'[j] # None => proc'[lock'[j]].ino = j
  BY SMTT(30), <1>1, <1>2, LockedGoes
<1>4. /\ content' \in [Inodes -> Contents] /\ content'[proc[p].tmp] = content[name]
      /\ content'[name] = content[name]
  BY SMTT(30), <1>2 DEF Build, FileInv, TypeOK
<1>5. TypeOK'
  BY SMTT(30), <1>1, <1>3, <1>4 DEF FileInv, TypeOK
<1>6. SettledInv'
  BY SMTT(30), <1>1, <1>2, <1>4 DEF FileInv, SettledInv, Settled
<1>7. AckedUnderName'
  BY SMTT(30), <1>1, <1>2, <1>4 DEF FileInv, AckedUnderName
<1>8. Progress(p)'
  BY SMTT(30), <1>1, <1>2, <1>3, <1>4 DEF Progress
<1> QED
  BY <1>1, <1>2, <1>3, <1>5, <1>6, <1>7, <1>8, UnderLock

LEMMA SyncScratchStep ==
    ASSUME FileInv, NEW p \in Procs, SyncScratch(p)
    PROVE  FileInv'
<1>1. /\ proc[p].at = "written" /\ Goes(p, "renaming")
      /\ "renaming" \in LockedSteps \ {"renamed"}
      /\ UNCHANGED <<name, durableName, scratch, content, lock, acked>>
  BY DEF SyncScratch, LockedSteps, RekeySteps
<1>2. /\ proc[p].at \in LockedSteps \ {"renamed"}
      /\ proc[p].ino = name /\ name \in Inodes /\ content[name].size = "full"
      /\ name = durableName
      /\ proc[p].tmp \in Inodes \ {name} /\ scratch = proc[p].tmp
  BY SMTT(30), <1>1, ScratchElsewhere
<1>3. /\ proc' \in [Procs -> Handles] /\ \A q \in Procs \ {p} : proc'[q] = proc[q]
      /\ proc'[p].at = "renaming" /\ proc'[p].ino = proc[p].ino /\ proc'[p].tmp = proc[p].tmp
      /\ lock' \in [Inodes -> Procs \cup {None}]
      /\ \A j \in Inodes : lock'[j] # None => proc'[lock'[j]].ino = j
  BY SMTT(30), <1>1, <1>2, LockedGoes
<1>4. content[proc[p].tmp] = content[name]
  BY SMTT(30), <1>1 DEF FileInv, ProgressInv, Progress
<1>5. /\ medium' \in [Inodes -> Contents] /\ medium'[proc[p].tmp] = content[name]
      /\ medium'[name] = medium[name]
  BY SMTT(30), <1>2, <1>4 DEF SyncScratch, FileInv, TypeOK
<1>6. TypeOK'
  BY SMTT(30), <1>1, <1>3, <1>5 DEF FileInv, TypeOK
<1>7. SettledInv'
  BY <1>1, <1>2, <1>5 DEF FileInv, SettledInv, Settled
<1>8. AckedUnderName'
  BY SMTT(30), <1>1, <1>2, <1>5 DEF FileInv, AckedUnderName
<1>9. Progress(p)'
  BY <1>1, <1>2, <1>3, <1>4, <1>5 DEF Progress
<1> QED
  BY <1>1, <1>2, <1>3, <1>6, <1>7, <1>8, <1>9, UnderLock

LEMMA BuildFailsStep ==
    ASSUME FileInv, NEW p \in Procs, BuildFails(p)
    PROVE  FileInv'
<1>1. /\ proc[p].at \in LockedSteps \ {"renamed"} /\ Return(p) /\ scratch' = None
      /\ UNCHANGED <<name, durableName, content, medium, acked>>
  BY SMTT(30) DEF BuildFails, LockedSteps, RekeySteps
<1>2. \A q \in Procs : proc'[q] = IF q = p THEN Idle ELSE proc[q]
  BY <1>1, ReturnsTo DEF FileInv
<1>3. \A q \in Procs : proc'[q].at \notin LockedSteps \ {"renamed"}
  <2>1. Idle.at \notin LockedSteps
    BY DEF Idle, LockedSteps, RekeySteps
  <2> QED
    BY <1>1, <1>2, <2>1, OthersOff
<1>4. ProgressInv'
  BY SMTT(30), <1>3, OffKnowsNothing DEF ProgressInv
<1>5. TypeOK' /\ LocksInv'
  BY SMTT(30), <1>1, ReturnLocks DEF FileInv, TypeOK
<1>6. SettledInv' /\ AckedUnderName'
  BY <1>1 DEF FileInv, SettledInv, Settled, AckedUnderName
<1>7. NamesInv'
  <2>1. Idle.at = "idle"
    BY DEF Idle
  <2>2. \A q \in Procs : OnFile(q)' => q # p /\ OnFile(q) /\ proc'[q] = proc[q]
    BY SMTT(30), <1>2, <1>3, <2>1 DEF OnFile, Locked
  <2> QED
    BY <1>1, <1>2, <2>1, <2>2 DEF FileInv, NamesInv
<1> QED
  BY SMTT(30), <1>4, <1>5, <1>6, <1>7 DEF FileInv

LEMMA RenameStep ==
    ASSUME FileInv, NEW p \in Procs, NobodyOpening(p), Rename(p)
    PROVE  FileInv'
<1>1. /\ proc[p].at = "renaming" /\ Goes(p, "renamed") /\ "renamed" \in LockedSteps
      /\ name' = scratch /\ scratch' = None
      /\ UNCHANGED <<durableName, content, medium, lock, acked>>
  BY DEF Rename, LockedSteps, RekeySteps
<1>2. /\ proc[p].at \in LockedSteps \ {"renamed"}
      /\ proc[p].ino = name /\ name \in Inodes /\ content[name].size = "full"
      /\ name = durableName
      /\ proc[p].tmp \in Inodes \ {name} /\ scratch = proc[p].tmp
  BY SMTT(30), <1>1, ScratchElsewhere
<1>3. /\ proc' \in [Procs -> Handles] /\ proc'[p].at = "renamed"
      /\ \A q \in Procs \ {p} :
            proc'[q] = proc[q] /\ proc'[q].at \notin LockedSteps \ {"renamed"}
      /\ lock' \in [Inodes -> Procs \cup {None}]
      /\ \A j \in Inodes : lock'[j] # None => proc'[lock'[j]].ino = j
      /\ LocksInv'
  BY SMTT(30), <1>1, <1>2, LockedGoes
<1>4. content[scratch] = content[name] /\ medium[scratch] = content[name]
  BY <1>1, <1>2 DEF FileInv, ProgressInv, Progress
<1>5. \A q \in Procs : proc'[q].at \in {"idle", "renamed"}
  <2>1. \A q \in Procs \ {p} : proc[q].at \notin {"opening", "unlocked"}
    BY ZenonT(30) DEF NobodyOpening
  <2>2. \A q \in Procs : proc[q].at \in {"idle", "opening", "unlocked"} \cup LockedSteps
    BY SMTT(30) DEF FileInv, TypeOK, Handles, OpenSteps, LockedSteps
  <2> QED
    BY <1>3, <2>1, <2>2
<1>6. TypeOK'
  BY SMTT(30), <1>1, <1>3 DEF FileInv, TypeOK
<1>7. ProgressInv'
  BY <1>3, OffKnowsNothing DEF ProgressInv
<1>8. NamesInv'
  BY <1>1, <1>5 DEF NamesInv, OnFile, Locked, LockedSteps, RekeySteps
<1>9. SettledInv'
  BY SMTT(30), <1>1, <1>4 DEF FileInv, SettledInv, Settled
<1>10. AckedUnderName'
  BY <1>1, <1>2, <1>4, NoneAssumption DEF FileInv, AckedUnderName
<1> QED
  BY <1>3, <1>6, <1>7, <1>8, <1>9, <1>10 DEF FileInv

LEMMA FinishRekeyStep ==
    ASSUME FileInv, NEW p \in Procs, FinishRekey(p)
    PROVE  FileInv'
<1>1. /\ proc[p].at = "renamed" /\ Return(p) /\ durableName' \in {durableName, name}
      /\ UNCHANGED <<name, scratch, content, medium, acked>>
  BY SMTT(30) DEF FinishRekey
<1>2. proc'[p].at = "idle" /\ \A q \in Procs \ {p} : proc'[q] = proc[q]
  BY SMTT(30), <1>1, ReturnsTo DEF FileInv, Idle
<1>3. TypeOK' /\ LocksInv'
  BY SMTT(30), <1>1, ReturnLocks DEF FileInv, TypeOK
<1>4. ~OnFile(p)' /\ Progress(p)'
  BY SMTT(30), <1>2 DEF OnFile, Locked, LockedSteps, RekeySteps, Progress, Holds
<1>5. NamesInv'
  BY SMTT(30), <1>1, <1>2, <1>4 DEF FileInv, NamesInv, OnFile, Locked
<1>6. SettledInv' /\ AckedUnderName'
  BY SMTT(30), <1>1 DEF FileInv, SettledInv, Settled, AckedUnderName
<1>7. ASSUME NEW q \in Procs, q # p
      PROVE  Progress(q)'
  BY <1>1, <1>2, <1>7 DEF FileInv, ProgressInv, Progress, Holds
<1> QED
  BY <1>3, <1>4, <1>5, <1>6, <1>7 DEF FileInv, ProgressInv

LEMMA OpenFileStep ==
    ASSUME FileInv, NEW p \in Procs, OpenFile(p)
    PROVE  FileInv'
<1>1. proc[p].at = "opening" /\ UNCHANGED <<lock, acked>>
  BY DEF OpenFile
<1>2. {"opening", "unlocked", "idle"} \cap LockedSteps = {}
  BY DEF LockedSteps, RekeySteps
<1>3. ~(name # None /\ name # durableName /\ content[name].size = "full")
  BY SMTT(30), <1>1 DEF FileInv, NamesInv
<1>4. ASSUME NEW h \in Handles, proc' = [proc EXCEPT ![p] = h],
             h.at \in {"unlocked", "idle"}
      PROVE  /\ proc' \in [Procs -> Handles] /\ proc'[p] = h
             /\ \A q \in Procs \ {p} : proc'[q] = proc[q]
             /\ lock' \in [Inodes -> Procs \cup {None}]
             /\ \A i \in Inodes : lock'[i] # None => proc'[lock'[i]].ino = i
             /\ LocksInv'
             /\ Progress(p)'
  <2>1. /\ proc' \in [Procs -> Handles] /\ proc'[p] = h
        /\ \A q \in Procs \ {p} : proc'[q] = proc[q]
    BY <1>4 DEF FileInv, TypeOK
  <2>2. h.at \notin LockedSteps
    BY <1>2, <1>4
  <2> QED
    BY <1>1, <1>2, <2>1, <2>2, SameLocks, OffKnowsNothing DEF FileInv
<1>5. CASE /\ name # None
           /\ proc' = [proc EXCEPT ![p].at = "unlocked", ![p].ino = name]
           /\ UNCHANGED files
  <2> DEFINE h == [proc[p] EXCEPT !.at = "unlocked", !.ino = name]
  <2>1. proc' = [proc EXCEPT ![p] = h]
    BY ZenonT(30), <1>5 DEF FileInv, TypeOK
  <2>2. h \in Handles /\ h.at = "unlocked" /\ h.ino = name
    BY ZenonT(30) DEF FileInv, TypeOK, Handles, OpenSteps
  <2> HIDE DEF h
  <2>3. /\ TypeOK' /\ LocksInv' /\ Progress(p)' /\ proc'[p] = h
        /\ \A q \in Procs \ {p} : proc'[q] = proc[q]
    BY ZenonT(30), <1>1, <1>4, <1>5, <2>1, <2>2 DEF FileInv, TypeOK, files
  <2> QED
    BY ZenonT(30), <1>1, <1>3, <1>5, <2>2, <2>3, OnlyProc DEF FileInv
<1>6. CASE proc' = [proc EXCEPT ![p] = Idle] /\ UNCHANGED files
  <2>1. Idle \in Handles /\ Idle.at = "idle"
    BY DEF Idle, Handles
  <2>2. /\ TypeOK' /\ LocksInv' /\ Progress(p)' /\ proc'[p] = Idle
        /\ \A q \in Procs \ {p} : proc'[q] = proc[q]
    BY ZenonT(30), <1>1, <1>4, <1>6, <2>1 DEF FileInv, TypeOK, files
  <2>3. ~OnFile(p)'
    BY <1>2, <2>1, <2>2 DEF OnFile, Locked
  <2> QED
    BY <1>1, <1>3, <1>6, <2>2, <2>3, OnlyProc DEF FileInv
<1>7. ASSUME name = None, NEW i \in Inodes, NewFile(i), name' = i,
             proc' = [proc EXCEPT ![p].at = "unlocked", ![p].ino = i],
             UNCHANGED <<durableName, scratch>>
      PROVE  FileInv'
  <2> DEFINE h == [proc[p] EXCEPT !.at = "unlocked", !.ino = i]
  <2>1. proc' = [proc EXCEPT ![p] = h]
    BY ZenonT(30), <1>7 DEF FileInv, TypeOK
  <2>2. h \in Handles /\ h.at = "unlocked" /\ h.ino = i
    BY ZenonT(30) DEF FileInv, TypeOK, Handles, OpenSteps
  <2> HIDE DEF h
  <2>3. /\ i \notin {durableName, scratch} /\ content'[i] = Empty /\ medium'[i] = Empty
        /\ content' \in [Inodes -> Contents] /\ medium' \in [Inodes -> Contents]
        /\ \A j \in Inodes \ {i} : content'[j] = content[j] /\ medium'[j] = medium[j]
    BY <1>7, NewFileElsewhere DEF FileInv
  <2>4. /\ TypeOK' /\ LocksInv' /\ Progress(p)' /\ proc'[p] = h
        /\ \A q \in Procs \ {p} : proc'[q] = proc[q]
    <3>1. /\ proc' \in [Procs -> Handles] /\ proc'[p] = h
          /\ \A q \in Procs \ {p} : proc'[q] = proc[q]
          /\ lock' \in [Inodes -> Procs \cup {None}]
          /\ \A j \in Inodes : lock'[j] # None => proc'[lock'[j]].ino = j
          /\ LocksInv' /\ Progress(p)'
      BY ZenonT(30), <1>4, <2>1, <2>2
    <3>2. TypeOK'
      BY <1>1, <1>7, <2>3, <3>1 DEF FileInv, TypeOK
    <3> QED
      BY <3>1, <3>2
  <2>5. \A q \in Procs \ {p} :
           proc[q].at # "unlocked" /\ proc[q].at \notin LockedSteps \ {"renamed"}
    BY <1>7 DEF FileInv, NamesInv, OnFile, Locked
  <2>6. ProgressInv'
    BY <2>4, <2>5, OffKnowsNothing DEF ProgressInv
  <2>7. NamesInv'
    <3>1. \A q \in Procs \ {p} : ~OnFile(q)'
      BY <2>4, <2>5 DEF OnFile, Locked
    <3>2. proc'[p].ino = name' /\ name' # None
      BY <1>7, <2>2, <2>4, NoneAssumption
    <3>3. scratch' # None => scratch' \notin {name', durableName'}
      BY <1>7, <2>3 DEF FileInv, NamesInv
    <3>4. content'[name'].size # "full"
      BY <1>7, <2>3 DEF Empty
    <3> QED
      BY <3>1, <3>2, <3>3, <3>4 DEF NamesInv
  <2>8. SettledInv'
    BY <1>7, <2>3 DEF FileInv, TypeOK, SettledInv, Settled
  <2>9. AckedUnderName'
    BY <1>1, <1>7 DEF FileInv, AckedUnderName
  <2> QED
    BY <2>4, <2>6, <2>7, <2>8, <2>9 DEF FileInv
<1> QED
  BY <1>5, <1>6, <1>7 DEF OpenFile

-----------------------------------------------------------------------------
(* A power loss, the initial states, and the theorems.                     *)

LEMMA CrashStep ==
    ASSUME FileInv, Crash
    PROVE  FileInv'
<1>0. PICK whole \in SUBSET Pending : \E part \in SUBSET (Pending \ whole) :
         \E n \in {name, durableName} : PowerLoss(whole, part, n)
  BY DEF Crash
<1>1. PICK part \in SUBSET (Pending \ whole), n \in {name, durableName} :
         PowerLoss(whole, part, n)
  BY <1>0
<1>2. Idle \in Handles /\ Idle.at = "idle"
  BY DEF Idle, Handles
<1>3. Half \in Contents
  BY SMTT(30), MaxDataAssumption DEF Half, Contents, Sizes
<1>4. /\ name' = n /\ durableName' = n /\ UNCHANGED <<scratch, acked>>
      /\ lock' \in [Inodes -> Procs \cup {None}] /\ \A i \in Inodes : lock'[i] = None
      /\ proc' \in [Procs -> Handles] /\ \A p \in Procs : proc'[p] = Idle
      /\ content' \in [Inodes -> Contents] /\ medium' = content'
  BY <1>1, <1>2, <1>3 DEF PowerLoss, FileInv, TypeOK, Pending
<1>5. TypeOK'
  BY <1>4 DEF FileInv, TypeOK
<1>6. "idle" \notin LockedSteps
  BY SMTT(30) DEF LockedSteps, RekeySteps
<1>7. LocksInv' /\ NamesInv' /\ SettledInv'
  BY <1>2, <1>4, <1>6 DEF FileInv, LocksInv, NamesInv, OnFile, Locked, SettledInv, Settled
<1>8. ProgressInv'
  BY <1>2, <1>4, <1>6, OffKnowsNothing DEF ProgressInv
<1>9. AckedUnderName'
  <2>1. SUFFICES ASSUME acked > 0
                 PROVE  n # None /\ content'[n].size = "full" /\ content'[n].data >= acked
    BY <1>4 DEF AckedUnderName
  <2>2. n # None /\ content[n].size = "full" /\ content[n].data >= acked
    BY <2>1 DEF FileInv, AckedUnderName
  <2>3. n \in Inodes /\ content[n] = medium[n]
    BY <2>2 DEF FileInv, TypeOK, SettledInv, Settled
  <2>4. content'[n] = content[n]
    BY <1>1, <2>3 DEF PowerLoss, Pending
  <2> QED
    BY <2>2, <2>4
<1> QED
  BY <1>5, <1>7, <1>8, <1>9 DEF FileInv

LEMMA InitFiles == Init => FileInv
<1> SUFFICES ASSUME Init PROVE FileInv
  OBVIOUS
<1>1. Idle \in Handles /\ Idle.at = "idle" /\ "idle" \notin LockedSteps
  BY DEF Idle, Handles, LockedSteps, RekeySteps
<1>2. {Empty, Short, Missing} \subseteq Contents
  BY MaxDataAssumption DEF Empty, Short, Missing, Contents, Sizes
<1>3. \A c \in {Empty, Short, Missing} : c.size # "full"
  BY DEF Empty, Short, Missing
<1>4. content \in [Inodes -> {Empty, Short, Missing}]
  BY DEF Init
<1>5. TypeOK
  BY SMTT(30), <1>1, <1>2, <1>4, MaxDataAssumption DEF Init, TypeOK
<1>6. LocksInv /\ NamesInv /\ SettledInv
  BY <1>1, NoneAssumption DEF Init, LocksInv, NamesInv, OnFile, Locked, SettledInv, Settled
<1>7. ProgressInv /\ AckedUnderName
  BY <1>1 DEF Init, ProgressInv, Progress, Holds, RekeySteps, AckedUnderName
<1> QED
  BY <1>5, <1>6, <1>7 DEF FileInv

LEMMA NextFiles == FileInv /\ [Next]_vars => FileInv'
<1> SUFFICES ASSUME FileInv, [Next]_vars PROVE FileInv'
  OBVIOUS
<1>1. ASSUME NEW p \in Procs, RenameDurable /\ Start(p) PROVE FileInv'
  BY <1>1, StatStep
<1>2. ASSUME NEW p \in Procs, Commit(p) PROVE FileInv'
  BY <1>2, CommitStep
<1>3. ASSUME NEW p \in Procs, Exit(p) \/ RenameFails(p) PROVE FileInv'
  BY <1>3, ReturnStep DEF Exit, RenameFails
<1>4. ASSUME NEW p \in Procs, OpenStep(p) PROVE FileInv'
  BY <1>4, OpenFileStep, TryLockStep, DecideStep, CreateWriteStep, CreateSyncStep DEF OpenStep
<1>5. ASSUME NEW p \in Procs, RekeyStep(p) PROVE FileInv'
  BY <1>3, <1>5, CreateScratchStep, ReclaimScratchStep, BuildStep, SyncScratchStep,
     BuildFailsStep, FinishRekeyStep DEF RekeyStep
<1>6. ASSUME NEW p \in Procs, NobodyOpening(p) /\ Rename(p) PROVE FileInv'
  BY <1>6, RenameStep
<1>7. CASE Crash
  BY <1>7, CrashStep
<1>8. CASE UNCHANGED vars
  <2>1. TypeOK' /\ LocksInv' /\ NamesInv'
    BY SMTT(30), <1>8 DEF vars, FileInv, TypeOK, LocksInv, NamesInv, OnFile, Locked
  <2>2. SettledInv' /\ ProgressInv' /\ AckedUnderName'
    BY <1>8 DEF vars, FileInv, SettledInv, Settled, ProgressInv, Progress, Holds, AckedUnderName
  <2> QED
    BY SMTT(30), <2>1, <2>2 DEF FileInv
<1> QED
  BY <1>1, <1>2, <1>3, <1>4, <1>5, <1>6, <1>7, <1>8 DEF Next

\* Files and locks fit together, whoever opens, creates, commits, rekeys or
\* dies, and across power losses.
THEOREM FileInvariant == Spec => []FileInv
BY InitFiles, NextFiles, PTL DEF Spec

\* At most one handle works on the database (lib.rs open, page_io.rs try_lock):
\* whoever does has the lock of the file under the name, and there is one.
THEOREM AlwaysOneHandle == Spec => []OneHandle
<1>1. FileInv => OneHandle
  BY DEF FileInv, OneHandle, LocksInv, NamesInv, OnFile, Locked, LockedSteps, Holds
<1> QED
  BY <1>1, FileInvariant, PTL

\* An acknowledged commit is under the name now and after any power loss, also
\* while a rekey replaces the file (rekey.rs rotate).
THEOREM AckedStaysUnderName == Spec => []AckedUnderName
<1>1. FileInv => AckedUnderName
  BY DEF FileInv
<1> QED
  BY <1>1, FileInvariant, PTL

\* What one step does to a file that has the name, or had it durably.
LEMMA StepOverwritesNothing ==
    ASSUME FileInv, Next, NEW i \in {name, durableName} \ {None}
    PROVE  /\ content[i].size = "short" => content'[i] = content[i]
           /\ medium[i].size = "full" =>
                 content'[i].size = "full" /\ content'[i].data >= medium[i].data
<1> DEFINE Goal == /\ content[i].size = "short" => content'[i] = content[i]
                   /\ medium[i].size = "full" =>
                         content'[i].size = "full" /\ content'[i].data >= medium[i].data
<1>1. i \in Inodes /\ Settled(i)
  BY DEF FileInv, TypeOK, SettledInv
<1>2. content[i].data \in Nat
  BY <1>1 DEF FileInv, TypeOK, Contents
<1>3. ASSUME content'[i] = content[i] PROVE Goal
  BY <1>1, <1>2, <1>3 DEF Settled
<1> HIDE DEF Goal
<1>4. ASSUME UNCHANGED content PROVE Goal
  BY <1>3, <1>4
<1>5. ASSUME NEW j \in Inodes, NewFile(j) PROVE Goal
  <2>1. i # j /\ content'[i] = content[i]
    BY <1>1, <1>5, NewFileElsewhere DEF FileInv
  <2> QED
    BY <1>3, <2>1
<1>6. ASSUME NEW p \in Procs, CreateWrite(p) \/ CreateSync(p) PROVE Goal
  <2>1. proc[p].at \in LockedSteps \ {"renamed"}
    BY <1>6 DEF CreateWrite, CreateSync, LockedSteps
  <2>2. proc[p].ino = name
    BY SMTT(30), <2>1 DEF FileInv, NamesInv, OnFile, Locked
  <2>3. content[name].size \in {"empty", "half"}
    BY <1>6 DEF CreateWrite, CreateSync, FileInv, ProgressInv, Progress, Half
  <2>4. CASE i = name
    BY <1>1, <2>3, <2>4 DEF Goal, Settled
  <2>5. CASE i # name
    <3>1. content'[i] = content[i]
      BY <1>1, <1>6, <2>2, <2>5 DEF CreateWrite, CreateSync, FileInv, TypeOK
    <3> QED
      BY <1>3, <3>1
  <2> QED
    BY <2>4, <2>5
<1>7. ASSUME NEW p \in Procs, Commit(p) PROVE Goal
  <2>1. proc[p].at = "live" /\ proc[p].at \in LockedSteps \ {"renamed"}
    BY <1>7 DEF Commit, LockedSteps
  <2>2. proc[p].ino = name /\ content[name].size = "full"
    BY <2>1 DEF FileInv, NamesInv, OnFile, Locked, ProgressInv, Progress, Holds
  <2>3. CASE i = name
    <3>1. content[i] \in Contents
      BY <1>1 DEF FileInv, TypeOK
    <3>2. content'[i] = [content[i] EXCEPT !.data = @ + 1]
      BY <1>1, <1>7, <2>2, <2>3 DEF Commit, FileInv, TypeOK
    <3>3. content'[i].size = "full" /\ content'[i].data = content[i].data + 1
      BY <2>2, <2>3, <3>1, <3>2 DEF Contents
    <3> QED
      BY <1>1, <1>2, <2>2, <2>3, <3>3 DEF Goal, Settled
  <2>4. CASE i # name
    <3>1. content'[i] = content[i]
      BY <1>1, <1>7, <2>2, <2>4 DEF Commit, FileInv, TypeOK
    <3> QED
      BY <1>3, <3>1
  <2> QED
    BY <2>3, <2>4
<1>8. ASSUME NEW p \in Procs, Build(p) PROVE Goal
  <2>1. proc[p].tmp # i
    BY <1>8, ScratchElsewhere DEF Build
  <2>2. content'[i] = content[i]
    BY <1>1, <1>8, <2>1 DEF Build, FileInv, TypeOK
  <2> QED
    BY <1>3, <2>2
<1>9. ASSUME Crash PROVE Goal
  <2>1. PICK whole \in SUBSET Pending : \E part \in SUBSET (Pending \ whole) :
           \E n \in {name, durableName} : PowerLoss(whole, part, n)
    BY <1>9 DEF Crash
  <2>2. PICK part \in SUBSET (Pending \ whole), n \in {name, durableName} :
           PowerLoss(whole, part, n)
    BY <2>1
  <2>3. CASE content[i] = medium[i]
    <3>1. content'[i] = content[i]
      BY <1>1, <2>2, <2>3 DEF PowerLoss, Pending
    <3> QED
      BY <1>3, <3>1
  <2>4. CASE content[i] # medium[i]
    BY <1>1, <2>4 DEF Goal, Settled
  <2> QED
    BY <2>3, <2>4
<1>10. ASSUME NEW p \in Procs, OpenStep(p) PROVE Goal
  BY <1>4, <1>5, <1>6, <1>10 DEF OpenStep, OpenFile, TryLock, Decide, files
<1>11. ASSUME NEW p \in Procs, RekeyStep(p) PROVE Goal
  BY SMTT(30), <1>4, <1>5, <1>8, <1>11 DEF RekeyStep, CreateScratch, ReclaimScratch, SyncScratch,
     BuildFails, RenameFails, FinishRekey, files
<1>12. ASSUME NEW p \in Procs, Start(p) \/ Exit(p) \/ Rename(p) PROVE Goal
  BY ZenonT(30), <1>4, <1>12 DEF Start, Stat, Exit, Rename, files
<1>13. Goal
  BY <1>7, <1>9, <1>10, <1>11, <1>12 DEF Next
<1> QED
  BY <1>13 DEF Goal

\* Nobody creates over a database or over somebody's short file, and no power
\* loss takes a commit out of a file that has the name (lib.rs open).
THEOREM NothingEverOverwritten == Spec => NothingOverwritten
<1> DEFINE Step == \A i \in {name, durableName} \ {None} :
                      /\ content[i].size = "short" => content'[i] = content[i]
                      /\ medium[i].size = "full" =>
                            content'[i].size = "full" /\ content'[i].data >= medium[i].data
<1>1. FileInv /\ [Next]_vars => [Step]_vars
  BY StepOverwritesNothing
<1> QED
  BY <1>1, FileInvariant, PTL DEF Spec, NothingOverwritten
=============================================================================

----------------------------- MODULE FcntlLock -----------------------------
(***************************************************************************)
(* tools/lock on platforms with fcntl(2): lockFcntl and unlocker.Close.    *)
(* The directory entry of the lock file names an inode or nothing; open    *)
(* files keep an unlinked inode alive; the kernel's lock belongs to the    *)
(* inode.  The lock file is always empty, so the size check of lockFcntl   *)
(* passes.  Each process locks at most MaxRounds times.                    *)
(***************************************************************************)
EXTENDS ExclusiveLock, FiniteSets

CONSTANTS Inodes, None, MaxRounds

ASSUME EnoughInodes == Cardinality(Inodes) > Cardinality(Procs)
ASSUME NoneAssumption == None \notin Procs \cup Inodes
ASSUME RoundsAssumption == MaxRounds \in Nat

VARIABLES
  dirent,   \* the inode of the lock file, or None
  owner,    \* owner[n]: the process with the kernel lock on inode n, or None
  fd,       \* fd[p]: the inode p has open, or None
  locked,   \* locked[p]: p's in-process table says the path is locked
  removed,  \* observation only: whether a Close has removed the lock file
  rounds

counts == <<rounds, kills>>
fcntlVars == <<dirent, owner, fd, locked, pc, removed, rounds, kills>>

FcntlTypeOK ==
  /\ dirent \in Inodes \cup {None}
  /\ owner \in [Inodes -> Procs \cup {None}]
  /\ fd \in [Procs -> Inodes \cup {None}]
  /\ locked \in [Procs -> BOOLEAN]
  /\ pc \in [Procs -> {"idle", "create", "setlk", "held", "close"}]
  /\ removed \in {"yes", "no"}
  /\ rounds \in [Procs -> 0 .. MaxRounds]
  /\ kills \in 0 .. MaxKills

\* The lock file may have survived the process that made it.
FcntlInit ==
  /\ dirent \in Inodes \cup {None}
  /\ owner = [n \in Inodes |-> None]
  /\ fd = [p \in Procs |-> None]
  /\ locked = [p \in Procs |-> FALSE]
  /\ pc = [p \in Procs |-> "idle"]
  /\ removed = "no"
  /\ rounds = [p \in Procs |-> 0]
  /\ kills = 0

-----------------------------------------------------------------------------

InUse(n) == n = dirent \/ \E p \in Procs : fd[p] = n

\* Mistake: an existing lock file is replaced instead of opened.
CreateReplacing(p) ==
  /\ pc[p] = "create"
  /\ \E n \in Inodes :
       /\ ~InUse(n)
       /\ dirent' = n
       /\ fd' = [fd EXCEPT ![p] = n]
  /\ pc' = [pc EXCEPT ![p] = "setlk"]
  /\ UNCHANGED <<owner, locked, removed, counts>>

\* Mistake: the file is closed but its lock stays behind.
CloseLeaking(p) ==
  /\ pc[p] = "close"
  /\ fd' = [fd EXCEPT ![p] = None]
  /\ locked' = [locked EXCEPT ![p] = FALSE]
  /\ pc' = [pc EXCEPT ![p] = "idle"]
  /\ UNCHANGED <<dirent, owner, removed, counts>>

-----------------------------------------------------------------------------

\* Lock is called; a path the process already has in its table is refused,
\* which changes nothing.
Lock(p) ==
  /\ pc[p] = "idle"
  /\ rounds[p] < MaxRounds
  /\ ~locked[p]
  /\ locked' = [locked EXCEPT ![p] = TRUE]
  /\ rounds' = [rounds EXCEPT ![p] = @ + 1]
  /\ pc' = [pc EXCEPT ![p] = "create"]
  /\ UNCHANGED <<dirent, owner, fd, removed, kills>>

\* os.Create opens the file of that name, or makes one.
Create(p) ==
  /\ pc[p] = "create"
  /\ \E n \in Inodes :
       /\ IF dirent # None THEN n = dirent ELSE ~InUse(n)
       /\ dirent' = n
       /\ fd' = [fd EXCEPT ![p] = n]
  /\ pc' = [pc EXCEPT ![p] = "setlk"]
  /\ UNCHANGED <<owner, locked, removed, counts>>

\* F_SETLK does not wait.  On failure the file is closed; the path stays in
\* the process's table.
SetLk(p) ==
  /\ pc[p] = "setlk"
  /\ IF owner[fd[p]] = None
     THEN /\ owner' = [owner EXCEPT ![fd[p]] = p]
          /\ pc' = [pc EXCEPT ![p] = "held"]
          /\ UNCHANGED fd
     ELSE /\ fd' = [fd EXCEPT ![p] = None]
          /\ pc' = [pc EXCEPT ![p] = "idle"]
          /\ UNCHANGED owner
  /\ UNCHANGED <<dirent, locked, removed, counts>>

\* unlocker.Close: os.Remove of the path, whichever inode it names now ...
Remove(p) ==
  /\ pc[p] = "held"
  /\ dirent' = None
  /\ removed' = "yes"
  /\ pc' = [pc EXCEPT ![p] = "close"]
  /\ UNCHANGED <<owner, fd, locked, counts>>

\* ... then u.f.Close, which gives up the kernel lock.
Close(p) ==
  /\ pc[p] = "close"
  /\ owner' = [owner EXCEPT ![fd[p]] = None]
  /\ fd' = [fd EXCEPT ![p] = None]
  /\ locked' = [locked EXCEPT ![p] = FALSE]
  /\ pc' = [pc EXCEPT ![p] = "idle"]
  /\ UNCHANGED <<dirent, removed, counts>>

\* The process dies; the system closes its files.  Another starts.
KillClosing(p) ==
  /\ pc[p] # "idle"
  /\ kills < MaxKills
  /\ kills' = kills + 1
  /\ owner' = [n \in Inodes |-> IF owner[n] = p THEN None ELSE owner[n]]
  /\ fd' = [fd EXCEPT ![p] = None]
  /\ locked' = [locked EXCEPT ![p] = FALSE]
  /\ pc' = [pc EXCEPT ![p] = "idle"]
  /\ UNCHANGED <<dirent, removed, rounds>>

FcntlNext == \E p \in Procs :
  Lock(p) \/ Create(p) \/ SetLk(p) \/ Remove(p) \/ Close(p) \/ KillClosing(p)

FcntlSpec == FcntlInit /\ [][FcntlNext]_fcntlVars

-----------------------------------------------------------------------------

\* Until a Close removes the lock file, the lock is exclusive, whether the
\* holders return or are killed: all processes open the same inode, and a
\* process that dies gives its lock up but leaves the file.
ExclusiveUntilRemove == removed = "no" => Exclusive

\* A lock file left behind by a process that was killed, or is being given
\* up, never makes Lock fail once nobody else is using it.
NoStaleLock ==
  \A p \in Procs :
    (pc[p] = "setlk" /\ \A q \in Procs \ {p} : pc[q] = "idle")
      => owner[fd[p]] = None

-----------------------------------------------------------------------------
(* The inductive invariant behind both                                     *)

\* A process has a file open exactly from Create to Close.
OpenFiles ==
  \A p \in Procs : fd[p] # None <=> pc[p] \in {"setlk", "held", "close"}

\* The kernel's table: the owner of an inode is a process that holds the lock
\* through it, and every holder owns its inode.
OwnersHold ==
  /\ \A p \in Procs : pc[p] \in {"held", "close"} => owner[fd[p]] = p
  /\ \A n \in Inodes : owner[n] # None => pc[owner[n]] \in {"held", "close"} /\ fd[owner[n]] = n

\* As long as no Close has removed it, the file everybody has open is the one
\* in the directory.
OneInode ==
  removed = "no" => \A p \in Procs : pc[p] # "close" /\ (fd[p] # None => fd[p] = dirent)

LockInv == FcntlTypeOK /\ OpenFiles /\ OwnersHold /\ OneInode

=============================================================================

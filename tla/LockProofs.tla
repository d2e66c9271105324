----------------------------- MODULE LockProofs -----------------------------
(***************************************************************************)
(* Proofs about both implementations of tools/lock, for any number of      *)
(* processes and kills.                                                    *)
(***************************************************************************)
EXTENDS FcntlLock, PortableLock, TLAPS

-----------------------------------------------------------------------------
(* With fcntl: LockInv says who has which inode open and who owns it; from *)
(* it follow that the lock is exclusive until a Close removes the lock     *)
(* file, and that no lock outlives its holder, removed file or not.        *)

\* Nobody has a file open at first.
LEMMA InitEstablishes == FcntlInit => LockInv
BY NoneAssumption, RoundsAssumption, KillsAssumption
   DEF FcntlInit, LockInv, FcntlTypeOK, OpenFiles, OwnersHold, OneInode

\* Each operation of lockFcntl and unlocker.Close, and the death of a process,
\* keeps the table of owners in step with the open files.
LEMMA StepPreserves == LockInv /\ [FcntlNext]_fcntlVars => LockInv'
<1> SUFFICES ASSUME LockInv, [FcntlNext]_fcntlVars PROVE LockInv'
  OBVIOUS
<1> USE NoneAssumption, RoundsAssumption, KillsAssumption
    DEF LockInv, FcntlTypeOK, OpenFiles, OwnersHold, OneInode, counts
<1>1. ASSUME NEW p \in Procs, Lock(p) PROVE LockInv'
  BY <1>1 DEF Lock
<1>2. ASSUME NEW p \in Procs, Create(p) PROVE LockInv'
  <2> PICK n \in Inodes : /\ IF dirent # None THEN n = dirent ELSE ~InUse(n)
                          /\ dirent' = n
                          /\ fd' = [fd EXCEPT ![p] = n]
    BY <1>2 DEF Create
  <2>1. FcntlTypeOK' /\ OpenFiles'
    BY <1>2 DEF Create
  <2>2. OwnersHold'
    BY <1>2 DEF Create
  <2>3. OneInode'
    BY <1>2 DEF Create, InUse
  <2> QED BY <2>1, <2>2, <2>3
<1>3. ASSUME NEW p \in Procs, SetLk(p) PROVE LockInv'
  <2>1. CASE owner[fd[p]] = None
    BY <1>3, <2>1 DEF SetLk
  <2>2. CASE owner[fd[p]] # None
    BY <1>3, <2>2 DEF SetLk
  <2> QED BY <2>1, <2>2
<1>4. ASSUME NEW p \in Procs, Remove(p) PROVE LockInv'
  BY <1>4 DEF Remove
<1>5. ASSUME NEW p \in Procs, Close(p) PROVE LockInv'
  BY <1>5 DEF Close
<1>6. ASSUME NEW p \in Procs, KillClosing(p) PROVE LockInv'
  BY <1>6 DEF KillClosing
<1>7. CASE UNCHANGED fcntlVars
  BY <1>7 DEF fcntlVars
<1> QED BY <1>1, <1>2, <1>3, <1>4, <1>5, <1>6, <1>7 DEF FcntlNext

\* Whoever has opened, locked or been killed: the kernel's owners are the
\* processes that hold the lock, each through the inode it has open.
THEOREM LockInvariant == FcntlSpec => []LockInv
BY InitEstablishes, StepPreserves, PTL DEF FcntlSpec

\* lockFcntl is exclusive for any number of processes, killed or not, until
\* unlocker.Close removes the lock file for the first time.
THEOREM ExclusiveWhileLinked == FcntlSpec => []ExclusiveUntilRemove
<1>1. LockInv => ExclusiveUntilRemove
  BY NoneAssumption
     DEF LockInv, FcntlTypeOK, OpenFiles, OwnersHold, OneInode, ExclusiveUntilRemove, Exclusive
<1> QED BY <1>1, LockInvariant, PTL

\* A lock file that outlives its process, or is removed under a process that
\* has it open, never keeps lockFcntl from succeeding once all others are done.
THEOREM NeverStale == FcntlSpec => []NoStaleLock
<1>1. LockInv => NoStaleLock
  BY NoneAssumption DEF LockInv, FcntlTypeOK, OpenFiles, OwnersHold, NoStaleLock
<1> QED BY <1>1, LockInvariant, PTL

-----------------------------------------------------------------------------
(* Without it: the lock is exclusive, processes killed or not, until one   *)
(* of them removes another lock file than the one it found to be stale.    *)

USE NoFileAssumption, KillsAssumption

\* The lock file and the processes keep their types.
THEOREM LockTypeCorrect == PortableSpec => []PortableTypeOK
<1>1. PortableInit => PortableTypeOK
  <2> SUFFICES ASSUME PortableInit PROVE PortableTypeOK
    OBVIOUS
  <2>1. overtaken \in BOOLEAN
    BY DEF PortableInit
  <2>2. kills \in 0 .. MaxKills
    BY DEF PortableInit
  <2> QED
    BY <2>1, <2>2 DEF PortableInit, PortableTypeOK, PCs
<1>2. PortableTypeOK /\ [PortableNext]_portableVars => PortableTypeOK'
  <2> SUFFICES ASSUME PortableTypeOK, [PortableNext]_portableVars PROVE PortableTypeOK'
    OBVIOUS
  <2> USE DEF Goto, PortableTypeOK, PCs
  <2>1. ASSUME NEW p \in Procs, Stat(p) \/ Open(p) \/ Decode(p) \/ Probe(p)
        PROVE PortableTypeOK'
    BY <2>1 DEF Stat, Open, Decode, Probe
  <2>2. ASSUME NEW p \in Procs, RemoveStale(p) \/ CreateExclusive(p) PROVE PortableTypeOK'
    BY <2>2 DEF RemoveStale, CreateExclusive
  <2>3. ASSUME NEW p \in Procs, Encode(p) \/ Unlock(p) \/ Exit(p) PROVE PortableTypeOK'
    BY <2>3 DEF Encode, Unlock, Exit
  <2>4. ASSUME NEW p \in Procs, KillLeaving(p) PROVE PortableTypeOK'
    BY <2>4 DEF KillLeaving
  <2>5. CASE UNCHANGED portableVars
    BY <2>5 DEF portableVars
  <2> QED
    BY <2>1, <2>2, <2>3, <2>4, <2>5 DEF PortableNext
<1> QED
  BY <1>1, <1>2, PTL DEF PortableSpec

\* A file that is about to be removed as stale was left by a process that has
\* ended, and until a removal meets another file the path names the holder's.
THEOREM UntilOvertakenHolds == PortableSpec => []UntilOvertaken
<1>1. PortableInit => UntilOvertaken
  BY DEF PortableInit, UntilOvertaken
<1>2. PortableTypeOK /\ UntilOvertaken /\ [PortableNext]_portableVars => UntilOvertaken'
  <2> SUFFICES ASSUME PortableTypeOK, UntilOvertaken, [PortableNext]_portableVars
               PROVE UntilOvertaken'
    OBVIOUS
  <2> USE DEF PortableTypeOK, UntilOvertaken, Goto, PCs
  <2>1. ASSUME NEW p \in Procs, Stat(p) PROVE UntilOvertaken'
    BY <2>1 DEF Stat
  <2>2. ASSUME NEW p \in Procs, Open(p) PROVE UntilOvertaken'
    BY <2>2 DEF Open
  <2>3. ASSUME NEW p \in Procs, Decode(p) PROVE UntilOvertaken'
    BY <2>3 DEF Decode
  \* An ended process stays ended, so what Probe has seen is still true when
  \* the file is removed.
  <2>4. ASSUME NEW p \in Procs, Probe(p) PROVE UntilOvertaken'
    BY <2>4 DEF Probe
  \* The file removed is the one examined, whose owner neither writes nor holds.
  <2>5. ASSUME NEW p \in Procs, RemoveStale(p) PROVE UntilOvertaken'
    BY <2>5 DEF RemoveStale
  \* There was no file, so no other process writes or holds one.
  <2>6. ASSUME NEW p \in Procs, CreateExclusive(p) PROVE UntilOvertaken'
    BY <2>6 DEF CreateExclusive
  <2>7. ASSUME NEW p \in Procs, Encode(p) PROVE UntilOvertaken'
    BY <2>7 DEF Encode
  \* What the holder removes is its own file, nobody else's.
  <2>8. ASSUME NEW p \in Procs, Unlock(p) PROVE UntilOvertaken'
    BY <2>8 DEF Unlock
  <2>9. ASSUME NEW p \in Procs, Exit(p) PROVE UntilOvertaken'
    BY <2>9 DEF Exit
  <2>10. ASSUME NEW p \in Procs, KillLeaving(p) PROVE UntilOvertaken'
    BY <2>10 DEF KillLeaving
  <2>11. CASE UNCHANGED portableVars
    BY <2>11 DEF portableVars
  <2> QED
    BY <2>1, <2>2, <2>3, <2>4, <2>5, <2>6, <2>7, <2>8, <2>9, <2>10, <2>11 DEF PortableNext
<1> QED
  BY <1>1, <1>2, LockTypeCorrect, PTL DEF PortableSpec

\* Killed or not, no two processes hold the lock together before one of them
\* removes another file than the one it examined.
THEOREM MutualExclusion == PortableSpec => []ExclusiveUntilOvertaken
<1>1. UntilOvertaken => ExclusiveUntilOvertaken
  BY DEF UntilOvertaken, ExclusiveUntilOvertaken, Exclusive
<1> QED
  BY <1>1, UntilOvertakenHolds, PTL

\* Before such a removal, the lock file names the holder.
THEOREM HolderNamed == PortableSpec => []HolderIsNamed
<1>1. UntilOvertaken => HolderIsNamed
  BY DEF UntilOvertaken, HolderIsNamed
<1> QED
  BY <1>1, UntilOvertakenHolds, PTL

=============================================================================

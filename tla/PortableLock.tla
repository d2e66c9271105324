---------------------------- MODULE PortableLock ----------------------------
(***************************************************************************)
(* tools/lock where there is no fcntl variant (lockPortable, isStaleLock,  *)
(* lockCloser): the lock is a file created with O_EXCL that holds the      *)
(* owner's process id; a file whose owner is dead is removed first.  Each  *)
(* process of the model is one process id and takes the lock at most once, *)
(* so a lock file is known by its creator; at most MaxKills processes die  *)
(* without closing the lock.                                               *)
(***************************************************************************)
EXTENDS ExclusiveLock

CONSTANT NoFile

ASSUME NoFileAssumption == NoFile \notin Procs

VARIABLES
  file,       \* the file the path names: its creator, or NoFile
  written,    \* the processes whose id is in the file they created
  opened,     \* the file a process has opened to examine
  overtaken   \* observation only: a removal met another file than the one examined

portableVars == <<file, written, opened, overtaken, pc, kills>>

PCs == {"idle", "open", "decode", "probe", "remove", "create", "encode", "held",
        "closed", "ended"}

PortableTypeOK ==
  /\ file \in Procs \cup {NoFile}
  /\ written \in SUBSET Procs
  /\ opened \in [Procs -> Procs \cup {NoFile}]
  /\ overtaken \in BOOLEAN
  /\ pc \in [Procs -> PCs]
  /\ kills \in 0 .. MaxKills

PortableInit ==
  /\ file = NoFile
  /\ written = {}
  /\ opened = [p \in Procs |-> NoFile]
  /\ overtaken = FALSE
  /\ pc = [p \in Procs |-> "idle"]
  /\ kills = 0

-----------------------------------------------------------------------------

Goto(p, where) == pc' = [pc EXCEPT ![p] = where]

\* Mistake: a lock file with a process id in it is stale whoever wrote it.
ProbeNobody(p) ==
  /\ pc[p] = "probe"
  /\ Goto(p, "remove")
  /\ UNCHANGED <<file, written, opened, overtaken, kills>>

\* Mistake: the file that CreateExclusive found is removed on the way out.
CreateCleansUp(p) ==
  /\ pc[p] = "create"
  /\ IF file = NoFile
     THEN file' = p /\ Goto(p, "encode")
     ELSE file' = NoFile /\ Goto(p, "idle")
  /\ UNCHANGED <<written, opened, overtaken, kills>>

-----------------------------------------------------------------------------

\* os.Stat: a lock file of non-zero size is examined; otherwise Lock goes on
\* to create one.
Stat(p) ==
  /\ pc[p] = "idle"
  /\ Goto(p, IF file \in written THEN "open" ELSE "create")
  /\ UNCHANGED <<file, written, opened, overtaken, kills>>

\* isStaleLock opens what the path names by now.  A file that is gone is not
\* stale, and Lock returns the error.
Open(p) ==
  /\ pc[p] = "open"
  /\ opened' = [opened EXCEPT ![p] = file]
  /\ Goto(p, IF file = NoFile THEN "idle" ELSE "decode")
  /\ UNCHANGED <<file, written, overtaken, kills>>

\* The process id is read from the file that was opened, removed or not since
\* then; an empty file is not stale.
Decode(p) ==
  /\ pc[p] = "decode"
  /\ Goto(p, IF opened[p] \in written THEN "probe" ELSE "idle")
  /\ UNCHANGED <<file, written, opened, overtaken, kills>>

\* FindProcess and Signal(0): stale if the process named in that file has
\* ended by now.
Probe(p) ==
  /\ pc[p] = "probe"
  /\ Goto(p, IF pc[opened[p]] = "ended" THEN "remove" ELSE "idle")
  /\ UNCHANGED <<file, written, opened, overtaken, kills>>

\* os.Remove of the path, whatever it names now; its error is ignored.
RemoveStale(p) ==
  /\ pc[p] = "remove"
  /\ file' \in {NoFile, file}
  /\ overtaken' = (overtaken \/ (file' # file /\ file # opened[p]))
  /\ Goto(p, "create")
  /\ UNCHANGED <<written, opened, kills>>

\* O_CREATE|O_EXCL: an error if the file exists, empty or not.
CreateExclusive(p) ==
  /\ pc[p] = "create"
  /\ IF file = NoFile
     THEN file' = p /\ Goto(p, "encode")
     ELSE Goto(p, "idle") /\ UNCHANGED file
  /\ UNCHANGED <<written, opened, overtaken, kills>>

\* The process id goes into the file p created, which may not be the one
\* the path names any more.
Encode(p) ==
  /\ pc[p] = "encode"
  /\ written' = written \cup {p}
  /\ Goto(p, "held")
  /\ UNCHANGED <<file, opened, overtaken, kills>>

\* lockCloser.close: os.Remove of the path, whatever it names.  If that fails
\* the file stays and Close returns the error.
Unlock(p) ==
  /\ pc[p] = "held"
  /\ file' \in {NoFile, file}
  /\ Goto(p, "closed")
  /\ UNCHANGED <<written, opened, overtaken, kills>>

\* A process that has closed the lock ends.
Exit(p) ==
  /\ pc[p] = "closed"
  /\ Goto(p, "ended")
  /\ UNCHANGED <<file, written, opened, overtaken, kills>>

\* The process dies without unlocking.  At "encode" this also stands for a
\* failing write: Lock returns the error and leaves the empty file there.
KillLeaving(p) ==
  /\ pc[p] \notin {"idle", "closed", "ended"}
  /\ kills < MaxKills
  /\ kills' = kills + 1
  /\ Goto(p, "ended")
  /\ UNCHANGED <<file, written, opened, overtaken>>

PortableNext == \E p \in Procs :
  \/ Stat(p) \/ Open(p) \/ Decode(p) \/ Probe(p) \/ RemoveStale(p)
  \/ CreateExclusive(p) \/ Encode(p) \/ Unlock(p) \/ Exit(p) \/ KillLeaving(p)

PortableSpec == PortableInit /\ [][PortableNext]_portableVars

-----------------------------------------------------------------------------

\* Whoever is killed and whoever judges a lock file stale, the lock is
\* exclusive until a process removes another file than the one it examined:
\* what isStaleLock says stays true of the file it was said of, and what
\* lockPortable removes is whatever the path names by then.
ExclusiveUntilOvertaken == ~overtaken => Exclusive

\* Until such a removal the holder of the lock is the process named in the
\* lock file, the one a later isStaleLock probes.
HolderIsNamed ==
  ~overtaken => \A p \in Procs : pc[p] = "held" => file = p /\ p \in written

\* The inductive invariant behind both: what is about to be removed as stale
\* was left by a process that has ended; and until a removal met another
\* file, the path names the file of whoever writes it or holds the lock.
UntilOvertaken ==
  /\ \A p \in Procs : pc[p] \in {"decode", "probe", "remove"} => opened[p] \in Procs
  /\ \A p \in Procs : pc[p] = "remove" => pc[opened[p]] = "ended"
  /\ \A p \in Procs : pc[p] = "held" => p \in written
  /\ ~overtaken => \A p \in Procs : pc[p] \in {"encode", "held"} => file = p

=============================================================================

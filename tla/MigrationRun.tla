---------------------------- MODULE MigrationRun ----------------------------
(***************************************************************************)
(* What the migration programs 0-to-1 to 3-to-4 have in common: the        *)
(* version file and the directory of the repository, its two locks, and a  *)
(* process that runs one program after the other.  A process is either a   *)
(* program that was started by hand or the driver fs-repo-migrations with  *)
(* the program it waits for; "goal" is the version it is to arrive at.     *)
(*                                                                         *)
(* A program locks the repository, checks the version, does its work (the  *)
(* modules BlockTransfer, PinTransfer and KeyRewrite) and writes the new   *)
(* version.  It can be killed at any step, and any of its operations can   *)
(* fail.                                                                   *)
(***************************************************************************)
EXTENDS Integers

CONSTANTS
  Procs,
  NoProc,     \* the holder of a lock that is free
  MaxFaults   \* bound on kills and failing operations

ASSUME ProcAssumption == NoProc \notin Procs
ASSUME FaultAssumption == MaxFaults \in Nat

VARIABLES
  version,    \* the version file: NoVersion, Blank or 1 .. 4
  dir,        \* the repository's directory, ".go-ipfs" or another
  locks,      \* who holds daemon.lock and repo.lock
  run,        \* what each process is running
  \* observation only
  faults,
  broken      \* the runs <<program, operation>> that ended early

runVars == <<version, dir, locks, run, faults, broken>>

NoVersion == 0           \* there is no version file
Blank == -1              \* it has been truncated

Progs == 0 .. 3          \* the migration from n to n + 1
Ops == {"apply", "revert"}
LockFiles == {"daemon", "repo"}
Dirs == {".go-ipfs", ".ipfs"}

From(n, o) == IF o = "apply" THEN n ELSE n + 1
To(n, o) == IF o = "apply" THEN n + 1 ELSE n

\* daemon.lock is the lock of the versions 0 and 1, repo.lock that of the
\* later ones.
LockOf(v) == IF v <= 1 THEN "daemon" ELSE "repo"

\* The program a process runs and the step it is at, the version to arrive
\* at, and what the command line says: the path and --revert-ok.
Steps == {"idle", "prompt", "lock", "relock", "check", "truncate", "write",
          "sanity", "unsanity", "query", "put", "delete", "removeAll", "move",
          "flush", "cleanup", "load", "writeDirect", "indirect",
          "listBlocks", "rename", "rewriteBlocks", "clean", "listPks", "rewritePks",
          "listIpns", "rewriteIpns"}
Run == [pc: Steps, prog: Progs, op: Ops, goal: 0 .. 4, path: Dirs, revertOk: {"yes", "no"}]
Idle == [pc |-> "idle", prog |-> 0, op |-> "apply", goal |-> 1, path |-> ".ipfs", revertOk |-> "no"]

\* The programs that are doing their work.
Working(p) == run[p].pc \notin {"idle", "prompt", "lock", "relock", "check"}

RunInit ==
  /\ version \in 0 .. 4
  /\ dir \in Dirs
  /\ locks = [f \in LockFiles |-> NoProc]
  /\ run = [p \in Procs |-> Idle]
  /\ faults = 0
  /\ broken = {}

-----------------------------------------------------------------------------

Goto(p, where) ==
  /\ run' = [run EXCEPT ![p].pc = where]
  /\ UNCHANGED <<locks, broken>>

\* The deferred Close of whatever p has locked.
Unlock(p) == locks' = [f \in LockFiles |-> IF locks[f] = p THEN NoProc ELSE locks[f]]

\* The program ends early, with an error or by a kill, and with it the
\* driver.  It may have done part of its work.
Fail(p) ==
  /\ Unlock(p)
  /\ run' = [run EXCEPT ![p] = Idle]
  /\ broken' = IF Working(p) THEN broken \cup {<<run[p].prog, run[p].op>>} ELSE broken

\* The program succeeds; the driver goes on to the next one of its list.
Succeed(p) ==
  /\ Unlock(p)
  /\ run' = [run EXCEPT ![p] =
       IF To(run[p].prog, run[p].op) = run[p].goal THEN Idle
       ELSE [run[p] EXCEPT !.pc = "lock",
               !.prog = IF run[p].op = "apply" THEN run[p].prog + 1 ELSE run[p].prog - 1]]
  /\ broken' = broken \ {<<run[p].prog, run[p].op>>}

-----------------------------------------------------------------------------
(* Mistakes the properties must catch                                      *)

\* A lock that is waited for.
LockWaits(p) ==
  /\ run[p].pc \in {"lock", "relock"}
  /\ LET f == LockOf(From(run[p].prog, run[p].op))
     IN \/ /\ run[p].path = dir /\ locks[f] = NoProc
           /\ locks' = [locks EXCEPT ![f] = p]
           /\ run' = [run EXCEPT ![p].pc = IF run[p].prog = 0 /\ run[p].op = "revert" THEN "relock" ELSE "check"]
           /\ UNCHANGED broken
        \/ run[p].path # dir /\ Fail(p)
  /\ UNCHANGED <<version, dir, faults>>

\* A lock that is taken from its holder.
LockSteals(p) ==
  /\ run[p].pc \in {"lock", "relock"}
  /\ LET f == LockOf(From(run[p].prog, run[p].op))
     IN IF run[p].path = dir /\ locks[f] # p
        THEN locks' = [locks EXCEPT ![f] = p] /\ run' = [run EXCEPT ![p].pc = "check"] /\ UNCHANGED broken
        ELSE Fail(p)
  /\ UNCHANGED <<version, dir, faults>>

-----------------------------------------------------------------------------
(* Locking and the version file                                            *)

\* The lock is not waited for: a lock file that is taken, be it by the same
\* process, or a directory that is not there, ends the program.  Revert of
\* 0-to-1 locks a second time.
Lock(p) ==
  /\ run[p].pc \in {"lock", "relock"}
  /\ LET f == LockOf(From(run[p].prog, run[p].op))
     IN IF run[p].path = dir /\ locks[f] = NoProc
        THEN /\ locks' = [locks EXCEPT ![f] = p]
             /\ run' = [run EXCEPT ![p].pc = IF run[p].prog = 0 /\ run[p].op = "revert" THEN "relock" ELSE "check"]
             /\ UNCHANGED broken
        ELSE Fail(p)
  /\ UNCHANGED <<version, dir, faults>>

\* The first step of each program's work.
FirstStep(n, o) ==
  CASE n = 0 -> "truncate"
    [] n = 1 -> IF o = "apply" THEN "sanity" ELSE "move"
    [] n = 2 -> IF o = "apply" THEN "flush" ELSE "load"
    [] n = 3 -> "listBlocks"

\* CheckVersion, and the check of 0-to-1 that there is no version file.
CheckVersion(p) ==
  /\ run[p].pc = "check"
  /\ IF run[p].path = dir /\ version = From(run[p].prog, run[p].op)
     THEN Goto(p, FirstStep(run[p].prog, run[p].op))
     ELSE Fail(p)
  /\ UNCHANGED <<version, dir, faults>>

\* WriteVersion truncates and writes.
TruncateVersion(p) ==
  /\ run[p].pc = "truncate"
  /\ version' = Blank
  /\ Goto(p, "write")
  /\ UNCHANGED <<dir, faults>>

WriteVersion(p) ==
  /\ run[p].pc = "write"
  /\ version' = To(run[p].prog, run[p].op)
  /\ Succeed(p)
  /\ UNCHANGED <<dir, faults>>

-----------------------------------------------------------------------------
(* Faults                                                                  *)

Fault(p) ==
  /\ Working(p)
  /\ faults < MaxFaults
  /\ faults' = faults + 1

\* An operation fails and its error is returned, or the program is killed,
\* and the kernel drops the lock.
Interrupt(p) ==
  /\ Fault(p)
  /\ Fail(p)
  /\ UNCHANGED <<version, dir>>

=============================================================================

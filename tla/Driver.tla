------------------------------- MODULE Driver -------------------------------
(***************************************************************************)
(* The driver fs-repo-migrations: main looks at the repository, asks, and  *)
(* calls RunMigration of go-ipfs, which looks again, settles the list of   *)
(* programs from the version it finds to the target, and runs them one by  *)
(* one until one fails.  All of them are given the path that was found     *)
(* first.  A program can also be started by hand.                          *)
(*                                                                         *)
(* Finding and fetching the programs is left out.                          *)
(***************************************************************************)
EXTENDS MigrationRun

CONSTANTS
  Drivers,    \* the processes that run the driver; the others run a program
  Targets,    \* the versions that the driver is asked for
  ByHand      \* the runs <<program, operation>> that are started by hand

ASSUME DriverAssumption == Drivers \subseteq Procs /\ Targets \subseteq 1 .. 4 /\ ByHand \subseteq Progs \X Ops

\* RepoVersion fails without a version file, and on an empty one.
RepoVersionOk == version \notin {NoVersion, Blank}

\* The first program of the list is started.
Launch(p, n, o) ==
  /\ run' = [run EXCEPT ![p].pc = "lock", ![p].prog = n, ![p].op = o]
  /\ UNCHANGED <<locks, broken>>

-----------------------------------------------------------------------------
(* Mistakes the properties must catch                                      *)

\* RunMigration takes the answer main has got for granted.
RunMigrationUnchecked(p) ==
  /\ run[p].pc = "prompt"
  /\ IF run[p].path # dir \/ ~RepoVersionOk \/ version = run[p].goal
     THEN Fail(p)
     ELSE IF version < run[p].goal THEN Launch(p, version, "apply")
                                   ELSE Launch(p, version - 1, "revert")
  /\ UNCHANGED <<version, dir, faults>>

-----------------------------------------------------------------------------

\* main, up to the prompt.  What it refuses, and a target that is there
\* already, change nothing.
StartDriver(p, target, ok) ==
  /\ run[p].pc = "idle"
  /\ RepoVersionOk /\ version # target
  /\ version > target => ok = "yes"
  /\ run' = [run EXCEPT ![p] = [@ EXCEPT !.pc = "prompt", !.goal = target, !.path = dir,
                                        !.revertOk = ok]]
  /\ UNCHANGED <<version, dir, locks, faults, broken>>

\* RunMigration, once the prompt is answered with yes.
RunMigration(p) ==
  /\ run[p].pc = "prompt"
  /\ \/ /\ run[p].path = dir /\ RepoVersionOk
        /\ \/ version < run[p].goal /\ Launch(p, version, "apply")
           \/ /\ version > run[p].goal /\ run[p].revertOk = "yes"
              /\ Launch(p, version - 1, "revert")
     \/ /\ \/ run[p].path # dir \/ ~RepoVersionOk \/ version = run[p].goal
           \/ version > run[p].goal /\ run[p].revertOk = "no"
        /\ Fail(p)
  /\ UNCHANGED <<version, dir, faults>>

\* The prompt is answered with no.
Decline(p) ==
  /\ run[p].pc = "prompt"
  /\ Fail(p)
  /\ UNCHANGED <<version, dir, faults>>

\* A program that is run by hand; Run of the command line calls Apply or
\* Revert.
StartProgram(p, n, o) ==
  /\ run[p].pc = "idle"
  /\ run' = [run EXCEPT ![p] = [pc |-> "lock", prog |-> n, op |-> o, goal |-> To(n, o),
                                path |-> dir, revertOk |-> "yes"]]
  /\ UNCHANGED <<version, dir, locks, faults, broken>>

DriverStart(p) ==
  \/ p \in Drivers /\ \E target \in Targets, ok \in {"yes", "no"} : StartDriver(p, target, ok)
  \/ p \notin Drivers /\ \E r \in ByHand : StartProgram(p, r[1], r[2])

RunStep(p) ==
  Lock(p) \/ CheckVersion(p) \/ TruncateVersion(p) \/ WriteVersion(p)

=============================================================================

-------------------------- MODULE ConfigMigration --------------------------
(***************************************************************************)
(* The config migrations 12-to-13, 13-to-14, 14-to-15 and 15-to-16.  Their *)
(* Apply and Revert methods are the same program but for the version       *)
(* numbers and the function `convert', so one module, parameterised by the *)
(* range of versions, models all of them: "step i" is the migration        *)
(* i-to-(i+1).                                                             *)
(*                                                                         *)
(* A process runs one Apply or one Revert.  Every operation on a file that *)
(* another run could observe is an action of its own, so that the process  *)
(* may be killed between any two of them; every operation that the code    *)
(* checks for an error may fail.  Kills and failures are `faults', at most *)
(* MaxFaults of them, and edits of the config by its owner between two     *)
(* migrations are at most MaxEdits.                                        *)
(*                                                                         *)
(* The content of a config file is abstracted to its revision (the number  *)
(* of the owner's last edit in it) and, for each step, how many times the  *)
(* step's conversion has been applied to it.                               *)
(***************************************************************************)
EXTENDS Integers

CONSTANTS Procs,      \* migration processes (invocations of the tools)
          NoProc,     \* the lock is free
          First, Last,\* versions of the repository: First .. Last
          NoFile,     \* there is no such file
          MaxFaults,  \* bound on kills and I/O errors
          MaxEdits    \* bound on the owner's edits

Versions == First .. Last
Steps == First .. (Last - 1)

\* The version file after os.O_TRUNC and before the write; as no version is
\* 0, CheckVersion refuses it whatever version it expects.
Blank == 0

Content == [rev: Nat, conv: [Steps -> Nat]]

ASSUME VersionsAssumption == First \in Nat \ {0} /\ Last \in Nat /\ First < Last
ASSUME NoFileAssumption == NoFile \notin Content
ASSUME NoProcAssumption == NoProc \notin Procs
ASSUME BoundsAssumption == MaxFaults \in Nat /\ MaxEdits \in Nat

VARIABLES
  version,    \* the file "version"
  config,     \* the file "config"
  backup,     \* backup[i]: the file "config" + backupSuffix of step i
  orphans,    \* contents of temporary files no process will look at again
  lock,       \* the holder of "repo.lock"
  pc, op, step,     \* per process: position, "apply" or "revert", which step
  tmpOut, tmpBak,   \* per process: the temporary files of out and backup
  \* observation only: no guard reads them except the two bounds
  edits,      \* number of edits by the owner so far
  replaced,   \* replaced[i]: the config that step i's Apply last overwrote
  faults      \* number of kills and I/O errors so far

files == <<version, config, backup, orphans>>
procs == <<pc, op, step, tmpOut, tmpBak>>
vars == <<version, config, backup, orphans, lock, pc, op, step, tmpOut, tmpBak,
          edits, replaced, faults>>

PCs == {"idle", "check", "backup", "convert", "closeIn", "rename",
        "truncate", "write", "closeOut", "closeBackup", "unlock"}

TypeOK ==
  /\ version \in Versions \cup {Blank}
  /\ config \in Content
  /\ backup \in [Steps -> Content \cup {NoFile}]
  /\ orphans \subseteq Content
  /\ lock \in Procs \cup {NoProc}
  /\ pc \in [Procs -> PCs]
  /\ op \in [Procs -> {"apply", "revert"}]
  /\ step \in [Procs -> Steps]
  /\ tmpOut \in [Procs -> Content \cup {NoFile}]
  /\ tmpBak \in [Procs -> Content \cup {NoFile}]
  /\ edits \in Nat
  /\ replaced \in [Steps -> Content \cup {NoFile}]
  /\ faults \in Nat

\* A repository at any of the versions, with a config in that version's
\* format and nothing left by an earlier migration.
Init ==
  /\ version \in Versions
  /\ config = [rev |-> 0, conv |-> [i \in Steps |-> IF i < version THEN 1 ELSE 0]]
  /\ backup = [i \in Steps |-> NoFile]
  /\ orphans = {}
  /\ lock = NoProc
  /\ pc = [p \in Procs |-> "idle"]
  /\ op = [p \in Procs |-> "apply"]
  /\ step = [p \in Procs |-> First]
  /\ tmpOut = [p \in Procs |-> NoFile]
  /\ tmpBak = [p \in Procs |-> NoFile]
  /\ edits = 0
  /\ replaced = [i \in Steps |-> NoFile]
  /\ faults = 0

-----------------------------------------------------------------------------
(* Helpers                                                                 *)

\* The version a run must find, and the version it writes.
Expected(p) == IF op[p] = "apply" THEN step[p] ELSE step[p] + 1
Target(p) == IF op[p] = "apply" THEN step[p] + 1 ELSE step[p]

\* The conversion of step i: the user's settings stay, the format advances.
Convert(c, i) == [c EXCEPT !.conv[i] = @ + 1]

Goto(p, where) == pc' = [pc EXCEPT ![p] = where]

Temps(p) == {tmpOut[p], tmpBak[p]} \ {NoFile}

DropTemps(p) == /\ tmpOut' = [tmpOut EXCEPT ![p] = NoFile]
                /\ tmpBak' = [tmpBak EXCEPT ![p] = NoFile]

Fault == faults < MaxFaults /\ faults' = faults + 1

\* Mistake: an error return that forgets the deferred unlock.
GiveUpKeepingLock(p, left) ==
  /\ orphans' = orphans \cup left
  /\ DropTemps(p)
  /\ Goto(p, "idle")

\* A run gives up, with an error or a panic (the deferred unlock runs either
\* way), leaving behind the temporary files `left'.
GiveUp(p, left) ==
  /\ orphans' = orphans \cup left
  /\ DropTemps(p)
  /\ Goto(p, "unlock")

-----------------------------------------------------------------------------
(* Mistakes the properties must catch: variants of the actions below, used *)
(* only to test the properties                                             *)

\* A run that trusts its caller about the version.
CheckVersionSkipped(p) ==
  /\ pc[p] = "check"
  /\ Goto(p, IF op[p] = "apply" THEN "backup" ELSE "rename")
  /\ UNCHANGED <<files, lock, op, step, tmpOut, tmpBak, edits, replaced, faults>>

\* A backup discarded once the new config is in place.
CloseBackupAborts(p) ==
  /\ pc[p] = "closeBackup"
  /\ tmpBak' = [tmpBak EXCEPT ![p] = NoFile]
  /\ Goto(p, "unlock")
  /\ UNCHANGED <<version, config, backup, orphans, lock, op, step, tmpOut,
                 edits, replaced, faults>>

\* A backup taken of the converted config.
CloseBackupLate(p) ==
  /\ pc[p] = "closeBackup"
  /\ backup' = [backup EXCEPT ![step[p]] = config]
  /\ tmpBak' = [tmpBak EXCEPT ![p] = NoFile]
  /\ Goto(p, "unlock")
  /\ UNCHANGED <<version, config, orphans, lock, op, step, tmpOut, edits,
                 replaced, faults>>

\* A Revert that copies the backup and keeps it.
RenameBackupCopies(p) ==
  /\ pc[p] = "rename"
  /\ IF backup[step[p]] # NoFile
     THEN /\ config' = backup[step[p]]
          /\ Goto(p, "truncate")
     ELSE /\ Goto(p, "unlock")
          /\ UNCHANGED config
  /\ UNCHANGED <<version, backup, orphans, lock, op, step, tmpOut, tmpBak,
                 edits, replaced, faults>>

\* A Revert that carries on without a backup.
RenameBackupOptional(p) ==
  /\ pc[p] = "rename"
  /\ IF backup[step[p]] # NoFile
     THEN /\ config' = backup[step[p]]
          /\ backup' = [backup EXCEPT ![step[p]] = NoFile]
     ELSE UNCHANGED <<config, backup>>
  /\ Goto(p, "truncate")
  /\ UNCHANGED <<version, orphans, lock, op, step, tmpOut, tmpBak, edits,
                 replaced, faults>>

-----------------------------------------------------------------------------
(* Apply and Revert, operation by operation                                *)

\* Lock2 of a new run.  A run that finds the lock taken returns the error
\* and changes nothing.
Start(p, o, i) ==
  /\ pc[p] = "idle"
  /\ lock = NoProc
  /\ lock' = p
  /\ op' = [op EXCEPT ![p] = o]
  /\ step' = [step EXCEPT ![p] = i]
  /\ Goto(p, "check")
  /\ UNCHANGED <<files, tmpOut, tmpBak, edits, replaced, faults>>

CheckVersion(p) ==
  /\ pc[p] = "check"
  /\ IF version = Expected(p)
     THEN Goto(p, IF op[p] = "apply" THEN "backup" ELSE "rename")
     ELSE Goto(p, "unlock")
  /\ UNCHANGED <<files, lock, op, step, tmpOut, tmpBak, edits, replaced, faults>>

\* Open the config, copy it to a temporary file and seek back.
MakeBackup(p) ==
  /\ pc[p] = "backup"
  /\ tmpBak' = [tmpBak EXCEPT ![p] = config]
  /\ Goto(p, "convert")
  /\ UNCHANGED <<files, lock, op, step, tmpOut, edits, replaced, faults>>

\* Write the converted config to a second temporary file.
ConvertConfig(p) ==
  /\ pc[p] = "convert"
  /\ tmpOut' = [tmpOut EXCEPT ![p] = Convert(config, step[p])]
  /\ Goto(p, "closeIn")
  /\ UNCHANGED <<files, lock, op, step, tmpBak, edits, replaced, faults>>

CloseIn(p) ==
  /\ pc[p] = "closeIn"
  /\ Goto(p, "truncate")
  /\ UNCHANGED <<files, lock, op, step, tmpOut, tmpBak, edits, replaced, faults>>

\* When closing the input fails, both temporary files are aborted and the
\* run goes on to WriteVersion all the same.
CloseInFails(p) ==
  /\ pc[p] = "closeIn"
  /\ Fault
  /\ DropTemps(p)
  /\ Goto(p, "truncate")
  /\ UNCHANGED <<files, lock, op, step, edits, replaced>>

\* ioutil.WriteFile opens the version file with O_TRUNC, then writes it.
TruncateVersion(p) ==
  /\ pc[p] = "truncate"
  /\ version' = Blank
  /\ Goto(p, "write")
  /\ UNCHANGED <<config, backup, orphans, lock, op, step, tmpOut, tmpBak,
                 edits, replaced, faults>>

WriteVersion(p) ==
  /\ pc[p] = "write"
  /\ version' = Target(p)
  /\ Goto(p, IF op[p] = "apply" THEN "closeOut" ELSE "unlock")
  /\ UNCHANGED <<config, backup, orphans, lock, op, step, tmpOut, tmpBak,
                 edits, replaced, faults>>

\* out.Close renames the temporary file over the config.
CloseOut(p) ==
  /\ pc[p] = "closeOut"
  /\ tmpOut[p] # NoFile
  /\ config' = tmpOut[p]
  /\ replaced' = [replaced EXCEPT ![step[p]] = config]
  /\ tmpOut' = [tmpOut EXCEPT ![p] = NoFile]
  /\ Goto(p, "closeBackup")
  /\ UNCHANGED <<version, backup, orphans, lock, op, step, tmpBak, edits, faults>>

\* out was aborted by CloseInFails: closing it again is an error, and the
\* run panics.
CloseOutPanics(p) ==
  /\ pc[p] = "closeOut"
  /\ tmpOut[p] = NoFile
  /\ Goto(p, "unlock")
  /\ UNCHANGED <<files, lock, op, step, tmpOut, tmpBak, edits, replaced, faults>>

CloseBackup(p) ==
  /\ pc[p] = "closeBackup"
  /\ backup' = [backup EXCEPT ![step[p]] = tmpBak[p]]
  /\ tmpBak' = [tmpBak EXCEPT ![p] = NoFile]
  /\ Goto(p, "unlock")
  /\ UNCHANGED <<version, config, orphans, lock, op, step, tmpOut, edits,
                 replaced, faults>>

\* Revert renames the backup over the config; without a backup it returns
\* the error.
RenameBackup(p) ==
  /\ pc[p] = "rename"
  /\ IF backup[step[p]] # NoFile
     THEN /\ config' = backup[step[p]]
          /\ backup' = [backup EXCEPT ![step[p]] = NoFile]
          /\ Goto(p, "truncate")
     ELSE /\ Goto(p, "unlock")
          /\ UNCHANGED <<config, backup>>
  /\ UNCHANGED <<version, orphans, lock, op, step, tmpOut, tmpBak, edits,
                 replaced, faults>>

\* A checked file operation fails: MakeBackup and ConvertConfig (which also
\* fails on malformed JSON), either half of WriteVersion, the rename of
\* Revert.  out and then backup are aborted; an Abort that fails panics, and
\* leaves the backup's file, or both.
OperationFails(p) ==
  /\ pc[p] \in {"backup", "convert", "rename", "truncate", "write"}
  /\ Fault
  /\ \E left \in {{}, {tmpBak[p]} \ {NoFile}, Temps(p)} : GiveUp(p, left)
  /\ UNCHANGED <<version, config, backup, lock, op, step, edits, replaced>>

\* out.Close or backup.Close fails, and the run panics.  The file it closes
\* is removed (the close failed) or stays (the rename failed); the backup's
\* file stays when it is out that fails.
CloseFails(p) ==
  /\ \/ pc[p] = "closeOut" /\ tmpOut[p] # NoFile
     \/ pc[p] = "closeBackup"
  /\ Fault
  /\ \E left \in SUBSET Temps(p) :
       /\ pc[p] = "closeOut" => tmpBak[p] \in left
       /\ GiveUp(p, left)
  /\ UNCHANGED <<version, config, backup, lock, op, step, edits, replaced>>

\* The deferred lk.Close(), and the end of the process.
Unlock(p) ==
  /\ pc[p] = "unlock"
  /\ lock' = NoProc
  /\ Goto(p, "idle")
  /\ UNCHANGED <<files, op, step, tmpOut, tmpBak, edits, replaced, faults>>

\* The process is killed: the system releases its lock, its temporary files
\* stay behind under names no later run uses.
Kill(p) ==
  /\ pc[p] # "idle"
  /\ Fault
  /\ lock' = NoProc
  /\ orphans' = orphans \cup Temps(p)
  /\ DropTemps(p)
  /\ Goto(p, "idle")
  /\ UNCHANGED <<version, config, backup, op, step, edits, replaced>>

\* The owner, or the daemon, saves a changed config; it holds the same lock.
EditConfig ==
  /\ lock = NoProc
  /\ edits < MaxEdits
  /\ edits' = edits + 1
  /\ config' = [config EXCEPT !.rev = edits + 1]
  /\ UNCHANGED <<version, backup, orphans, lock, procs, replaced, faults>>

Run(p) ==
  \/ CheckVersion(p) \/ MakeBackup(p) \/ ConvertConfig(p)
  \/ CloseIn(p) \/ CloseInFails(p)
  \/ TruncateVersion(p) \/ WriteVersion(p)
  \/ CloseOut(p) \/ CloseOutPanics(p) \/ CloseBackup(p)
  \/ RenameBackup(p) \/ OperationFails(p) \/ CloseFails(p) \/ Unlock(p)

Next ==
  \/ \E p \in Procs : \/ \E o \in {"apply", "revert"}, i \in Steps : Start(p, o, i)
                      \/ Run(p)
                      \/ Kill(p)
  \/ EditConfig

Spec == Init /\ [][Next]_vars

\* The operating system keeps running a process that has started; nobody is
\* obliged to start one, to edit the config or to suffer a fault.
FairSpec == Spec /\ \A p \in Procs : WF_vars(Run(p))

-----------------------------------------------------------------------------
(* Properties that hold whatever fails and whenever a process is killed    *)

\* No conversion is ever applied twice to the same config: Apply checks the
\* version under the lock, and writes the version before it replaces the
\* config, so the config never runs ahead of the version.
NoDoubleConversion == \A i \in Steps : config.conv[i] <= 1

\* The config is never in a newer format than the version file announces.
ConfigNeverAhead ==
  version \in Versions => \A i \in Steps : i >= version => config.conv[i] = 0

\* A backup that exists is the very config the latest conversion of that
\* step replaced: Revert restores that one and never a stale one.
BackupIsPrior ==
  \A i \in Steps : backup[i] # NoFile => backup[i] = replaced[i]

\* Every run ends and gives the lock back, on success, error and panic.
LockIsReleased == \A p \in Procs : (lock = p) ~> (lock # p)

-----------------------------------------------------------------------------
(* Properties up to the first fault                                        *)

\* "Reversible returns true, as we keep old config around": between runs, up
\* to the first kill or error, a config that a step of this repository
\* converted has its backup.
KeepsOldConfig ==
  \A i \in Steps :
    (lock = NoProc /\ faults = 0 /\ replaced[i] # NoFile /\ config.conv[i] > 0)
      => backup[i] # NoFile

-----------------------------------------------------------------------------
(* The inductive invariant behind the first group                          *)

\* Contents that no step from v on has converted, and none has twice.
Before(c, v) == \A j \in Steps : j >= v => c.conv[j] = 0
Once(c) == \A j \in Steps : c.conv[j] <= 1

\* A run is under the lock.
RunsExclude == \A p \in Procs : pc[p] # "idle" => lock = p

\* The backup of step i is older than step i, and exists only above it.
BackupsInOrder ==
  /\ \A i \in Steps : backup[i] # NoFile => Before(backup[i], i) /\ Once(backup[i])
  /\ version \in Versions => \A i \in Steps : backup[i] # NoFile => i < version

\* What a run has established by the time it is at pc[p].
ApplyPCs == {"backup", "convert", "closeIn", "closeOut", "closeBackup"}
Writing == {"truncate", "write", "closeOut"}

RunInv(p) ==
  /\ pc[p] \in ApplyPCs => op[p] = "apply"
  /\ pc[p] \in {"backup", "convert", "closeIn"} => version = step[p]
  /\ pc[p] = "truncate" /\ op[p] = "apply" => version = step[p]
  /\ pc[p] = "rename" => op[p] = "revert" /\ version = step[p] + 1
  /\ pc[p] \in {"closeOut", "closeBackup"} => version = step[p] + 1
  /\ pc[p] \in Writing => Before(config, step[p])
  /\ pc[p] \in Writing \cup {"closeBackup"} =>
       \A i \in Steps : backup[i] # NoFile => i < step[p]
  /\ pc[p] \in {"closeIn", "truncate", "write", "closeOut"} /\ op[p] = "apply" =>
       /\ tmpOut[p] # NoFile => tmpOut[p] = Convert(config, step[p])
       /\ tmpBak[p] # NoFile => tmpBak[p] = config
  /\ pc[p] = "convert" => tmpBak[p] = config
  /\ pc[p] = "closeBackup" /\ tmpBak[p] # NoFile =>
       /\ tmpBak[p] = replaced[step[p]]
       /\ Before(tmpBak[p], step[p])
       /\ Once(tmpBak[p])

IInv ==
  /\ TypeOK
  /\ RunsExclude
  /\ NoDoubleConversion
  /\ ConfigNeverAhead
  /\ BackupIsPrior
  /\ BackupsInOrder
  /\ \A p \in Procs : RunInv(p)

=============================================================================

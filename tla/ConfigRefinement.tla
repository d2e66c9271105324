-------------------------- MODULE ConfigRefinement --------------------------
(***************************************************************************)
(* Up to the first kill or error, the config migrations do what            *)
(* VersionedConfig promises: the refinement mapping, and what holds until  *)
(* then besides the invariant of ConfigMigration.                          *)
(***************************************************************************)
EXTENDS ConfigMigration

\* From the moment the version file or the config is first changed until
\* both agree, the run counts as not having happened (Apply) or as already
\* done (Revert): in both cases the repository is at version step[p].
Midway == {p \in Procs : \/ pc[p] \in {"write", "closeOut"}
                         \/ pc[p] = "truncate" /\ op[p] = "revert"}

AbstractVersion ==
  IF Midway = {} THEN version ELSE step[CHOOSE p \in Midway : TRUE]

Abstract == INSTANCE VersionedConfig WITH
  ver <- AbstractVersion, cfg <- config, prior <- replaced, edit <- edits

\* Up to the first kill or error, Apply and Revert are the atomic Upgrade
\* and Downgrade of VersionedConfig, each at its one rename over the config.
MigrationIsAtomic ==
  Abstract!Init /\ [][faults' = 0 => Abstract!Next]_<<AbstractVersion, config, replaced, edits>>

-----------------------------------------------------------------------------
(* The inductive invariant behind MigrationIsAtomic and KeepsOldConfig     *)

\* Neither temporary file of an Apply is missing once it has been written.
TempsThere(p) ==
  /\ pc[p] \in {"closeIn", "truncate", "write", "closeOut"} /\ op[p] = "apply" =>
       tmpOut[p] # NoFile /\ tmpBak[p] # NoFile
  /\ pc[p] = "closeBackup" => tmpBak[p] # NoFile

\* The steps, but for those in S, that this repository has applied to c can
\* be reverted.
Revertible(c, S) ==
  \A j \in Steps \ S : replaced[j] # NoFile /\ c.conv[j] > 0 => backup[j] # NoFile

\* At closeBackup, p has converted the config and its backup is yet to come.
Converting == {p \in Procs : pc[p] = "closeBackup"}

UntilFault ==
  faults = 0 =>
    /\ \A p \in Procs : TempsThere(p)
    /\ \A i \in Steps : backup[i] # NoFile => Revertible(backup[i], {})
    /\ Converting = {} => Revertible(config, {})
    /\ \A p \in Converting : Revertible(tmpBak[p], {}) /\ Revertible(config, {step[p]})

=============================================================================

---------------------------- MODULE PhasedConfig ----------------------------
(***************************************************************************)
(* The config migrations 5-to-6 and 7-to-8.  Apply renames the config out  *)
(* of the way ("config-v5", "config-v7") and converts it back into place;  *)
(* Revert does the same in numbered phases, and notes the phase to resume  *)
(* at in the file "revert-phase", which the two migrations share.          *)
(*                                                                         *)
(* The runs are exclusive (tools/lock), so one run at a time is modelled.  *)
(* It may be killed between any two file operations, and any file          *)
(* operation may fail.  Migration 6-to-7 in between reads the config to    *)
(* open the repository, and copies the records of IpnsRecords.             *)
(*                                                                         *)
(* A config is abstracted to the format of its Datastore section (5 or 6)  *)
(* and what it describes, the format of its Bootstrap section (7 or 8),    *)
(* and whether the owner's settings are all in it.  The datastore is the   *)
(* usual one if the migration supports it: a Type of default or leveldb    *)
(* and a boolean NoSync (5), a Spec that equals datastoreSpec (6).  Any    *)
(* other, missing, unknown or different mounts among them, is the owner's  *)
(* own.                                                                    *)
(***************************************************************************)
EXTENDS IpnsRecords

CONSTANTS NoFile,     \* there is no such file
          Torn,       \* a file that is empty or cut short
          MaxKills, MaxErrors

Migs == {5, 7}
Versions == 5 .. 8
Blank == 0                         \* the version file, truncated

Stores == {"usual", "own"}
Config == [ds: {5, 6}, store: Stores, boot: {7, 8}, owner: {"all", "partly"}]
File == Config \cup {NoFile, Torn}

ASSUME SentinelAssumption == {NoFile, Torn} \cap (Config \cup 0 .. 4) = {} /\ NoFile # Torn
ASSUME BoundsAssumption == MaxKills \in Nat /\ MaxErrors \in Nat

VARIABLES
  version, config,
  aside,      \* aside[n]: the file "config-vn"
  spec,       \* the file "datastore_spec" exists
  phasefile,  \* "revert-phase": NoFile, Torn or the phase to resume at
  \* the run in progress
  pc, mig, phase,
  \* how the last run ended, and the faults so far
  outcome, kills, errors,
  refused     \* an Apply has met a datastore it does not support

repo == <<version, config, aside, spec, phasefile>>
run == <<pc, mig, phase>>
counts == <<kills, errors, refused>>
vars == <<repo, run, outcome, counts, recordVars>>

PCs == {"idle", "rename", "create", "convert", "restore", "spec", "truncate", "write",
        "readPhase", "phase", "convert2", "truncate2", "write2",
        "truncatePhase", "writePhase", "applyKeys", "revertKeys"}

TypeOK ==
  /\ version \in Versions \cup {Blank}
  /\ config \in File
  /\ aside \in [Versions -> File]
  /\ spec \in BOOLEAN
  /\ phasefile \in 0 .. 4 \cup {NoFile, Torn}
  /\ pc \in PCs
  /\ mig \in Migs \cup {6}
  /\ phase \in 0 .. 4
  /\ outcome \in {"none", "applied", "reverted", "error"}
  /\ kills \in 0 .. MaxKills
  /\ errors \in 0 .. MaxErrors
  /\ refused \in {"yes", "no"}
  /\ RecordsOK

\* The config a repository of version v has, over either kind of datastore.
ConfigAt(v, s) == [ds |-> IF v = 5 THEN 5 ELSE 6, store |-> s,
                   boot |-> IF v = 8 THEN 8 ELSE 7, owner |-> "all"]

Init ==
  /\ version \in Versions
  /\ \E s \in Stores : config = ConfigAt(version, s)
  /\ aside = [n \in Versions |-> NoFile]
  /\ spec = (version > 5)
  /\ phasefile = NoFile
  /\ pc = "idle" /\ mig = 5 /\ phase = 0
  /\ outcome = "none" /\ kills = 0 /\ errors = 0 /\ refused = "no"
  /\ RecordsInit(version)

-----------------------------------------------------------------------------
(* The conversions                                                         *)

\* Mistake: a conversion that does not look at NoSync.
Ver5to6Default(c) == [c EXCEPT !.ds = 6, !.store = "usual", !.owner = "partly"]

\* ver5to6 replaces whatever the Datastore section says by the default
\* specification, but for NoSync; of a section that has been converted
\* before, it finds no NoSync.
Ver5to6(c) == [ds |-> 6, store |-> "usual", boot |-> c.boot,
               owner |-> IF c.ds = 5 THEN c.owner ELSE "partly"]
Ver6to5(c) == [c EXCEPT !.ds = 5]
Ver7to8(c) == [c EXCEPT !.boot = 8]
Ver8to7(c) == [c EXCEPT !.boot = 7]

Up(c) == IF mig = 5 THEN Ver5to6(c) ELSE Ver7to8(c)
Down(c) == IF mig = 5 THEN Ver6to5(c) ELSE Ver8to7(c)

\* What convert refuses: text that is no JSON object; for ver5to6 another
\* Type or NoSync, neither of which is in a section converted before; for
\* ver6to5 a section without a Spec, and a Spec that is not the default one.
CanUp(f) == f \in Config /\ (mig = 5 /\ f.ds = 5 => f.store = "usual")
CanDown(f) == f \in Config /\ (mig = 5 => f.ds = 6 /\ f.store = "usual")

-----------------------------------------------------------------------------

Error == errors < MaxErrors /\ errors' = errors + 1 /\ UNCHANGED <<kills, refused>>

End(how) == pc' = "idle" /\ outcome' = how

-----------------------------------------------------------------------------
(* Mistakes the properties must catch                                      *)

\* A failed conversion that is cleaned up by removing config-vN.
RestoreRemoves ==
  /\ pc = "restore"
  /\ aside' = [aside EXCEPT ![mig] = NoFile]
  /\ End("error")
  /\ UNCHANGED <<version, config, spec, phasefile, mig, phase, counts>>

\* One phase too few.
EndRevertEarly ==
  /\ pc = "phase" /\ phase = 3
  /\ phasefile' = NoFile
  /\ End("reverted")
  /\ UNCHANGED <<version, config, aside, spec, mig, phase, counts>>

-----------------------------------------------------------------------------
(* Apply                                                                   *)

\* Lock2 and CheckVersion; a run that is refused changes nothing.
StartApply(m) ==
  /\ pc = "idle"
  /\ version = m
  /\ pc' = "rename" /\ mig' = m /\ outcome' = "none"
  /\ UNCHANGED <<repo, phase, counts>>

\* config -> config-vN.  No config is no error if config-vN is there.
RenameAside ==
  /\ pc = "rename"
  /\ \/ /\ config # NoFile
        /\ aside' = [aside EXCEPT ![mig] = config]
        /\ config' = NoFile
        /\ pc' = "create"
        /\ UNCHANGED outcome
     \/ /\ config = NoFile /\ aside[mig] # NoFile
        /\ pc' = "create"
        /\ UNCHANGED <<config, aside, outcome>>
     \/ /\ config = NoFile /\ aside[mig] = NoFile
        /\ End("error")
        /\ UNCHANGED <<config, aside>>
  /\ UNCHANGED <<version, spec, phasefile, mig, phase, counts>>

\* convertFile: os.Create of the target comes before the source is read ...
CreateConfig ==
  /\ pc = "create"
  /\ config' = Torn
  /\ pc' = "convert"
  /\ UNCHANGED <<version, aside, spec, phasefile, mig, phase, outcome, counts>>

\* ... then the source is decoded, converted and written.
ConvertUp ==
  /\ pc = "convert"
  /\ IF CanUp(aside[mig])
     THEN /\ config' = Up(aside[mig])
          /\ pc' = IF mig = 5 THEN "spec" ELSE "truncate"
          /\ UNCHANGED refused
     ELSE /\ pc' = "restore"
          /\ refused' = IF aside[mig] \in Config THEN "yes" ELSE refused
          /\ UNCHANGED config
  /\ UNCHANGED <<version, aside, spec, phasefile, mig, phase, outcome, kills, errors>>

\* A failing write: 7-to-8 sees it, 5-to-6 does not look.
ConvertUpFails ==
  /\ pc = "convert" /\ CanUp(aside[mig])
  /\ Error
  /\ pc' = IF mig = 5 THEN "spec" ELSE "restore"
  /\ UNCHANGED <<repo, mig, phase, outcome>>

\* The conversion failed: config-vN is renamed back.  5-to-6 returns the
\* error; 7-to-8 returns the error of the rename, of which there is none.
Restore ==
  /\ pc = "restore"
  /\ config' = aside[mig]
  /\ aside' = [aside EXCEPT ![mig] = NoFile]
  /\ End(IF mig = 5 THEN "error" ELSE "applied")
  /\ UNCHANGED <<version, spec, phasefile, mig, phase, counts>>

\* 5-to-6 writes datastore_spec; if that fails, the config is renamed back.
WriteSpec ==
  /\ pc = "spec"
  /\ spec' = TRUE
  /\ pc' = "truncate"
  /\ UNCHANGED <<version, config, aside, phasefile, mig, phase, outcome, counts>>

WriteSpecFails ==
  /\ pc = "spec"
  /\ Error
  /\ spec' \in {spec, TRUE}
  /\ pc' = "restore"
  /\ UNCHANGED <<version, config, aside, phasefile, mig, phase, outcome>>

\* WriteVersion truncates and writes.
TruncateVersion ==
  /\ pc \in {"truncate", "truncate2"}
  /\ version' = Blank
  /\ pc' = IF pc = "truncate" THEN "write" ELSE "write2"
  /\ UNCHANGED <<config, aside, spec, phasefile, mig, phase, outcome, counts>>

WriteVersion ==
  /\ pc = "write"
  /\ version' = mig + 1
  /\ End("applied")
  /\ UNCHANGED <<config, aside, spec, phasefile, mig, phase, counts>>

-----------------------------------------------------------------------------
(* Revert                                                                  *)

StartRevert(m) ==
  /\ pc = "idle"
  /\ version = m + 1
  /\ pc' = "readPhase" /\ mig' = m /\ outcome' = "none"
  /\ UNCHANGED <<repo, phase, counts>>

\* No file is phase 0; an empty one is an error.
ReadPhase ==
  /\ pc = "readPhase"
  /\ IF phasefile = Torn
     THEN End("error") /\ UNCHANGED phase
     ELSE /\ phase' = IF phasefile = NoFile THEN 0 ELSE phasefile
          /\ pc' = "phase"
          /\ UNCHANGED outcome
  /\ UNCHANGED <<repo, mig, counts>>

\* Phase 0: config -> config-vN.
Phase0 ==
  /\ pc = "phase" /\ phase = 0
  /\ IF config # NoFile
     THEN /\ aside' = [aside EXCEPT ![mig + 1] = config]
          /\ config' = NoFile
          /\ pc' = "truncatePhase"
          /\ UNCHANGED outcome
     ELSE End("error") /\ UNCHANGED <<config, aside>>
  /\ UNCHANGED <<version, spec, phasefile, mig, phase, counts>>

\* Phase 1: convertFile from config-vN; there is nothing to open without it.
Phase1 ==
  /\ pc = "phase" /\ phase = 1
  /\ IF aside[mig + 1] # NoFile
     THEN config' = Torn /\ pc' = "convert2" /\ UNCHANGED outcome
     ELSE End("error") /\ UNCHANGED config
  /\ UNCHANGED <<version, aside, spec, phasefile, mig, phase, counts>>

\* A refusal comes after the target has been truncated, and the next Revert
\* resumes here.
ConvertDown ==
  /\ pc = "convert2"
  /\ IF CanDown(aside[mig + 1])
     THEN /\ config' = Down(aside[mig + 1])
          /\ pc' = "truncatePhase"
          /\ UNCHANGED outcome
     ELSE End("error") /\ UNCHANGED config
  /\ UNCHANGED <<version, aside, spec, phasefile, mig, phase, counts>>

\* A failing write, which 5-to-6 again does not see.
ConvertDownFails ==
  /\ pc = "convert2" /\ CanDown(aside[mig + 1])
  /\ Error
  /\ IF mig = 5 THEN pc' = "truncatePhase" /\ UNCHANGED outcome ELSE End("error")
  /\ UNCHANGED <<repo, mig, phase>>

\* Phase 2 of 5-to-6: remove datastore_spec, which must be there.
Phase2 ==
  /\ pc = "phase" /\ phase = 2 /\ mig = 5
  /\ IF spec
     THEN spec' = FALSE /\ pc' = "truncatePhase" /\ UNCHANGED outcome
     ELSE End("error") /\ UNCHANGED spec
  /\ UNCHANGED <<version, config, aside, phasefile, mig, phase, counts>>

\* Phase 3 of 5-to-6, phase 2 of 7-to-8: lower the version.
PhaseVersion ==
  /\ pc = "phase" /\ phase = (IF mig = 5 THEN 3 ELSE 2)
  /\ pc' = "truncate2"
  /\ UNCHANGED <<repo, mig, phase, outcome, counts>>

LowerVersion ==
  /\ pc = "write2"
  /\ version' = mig
  /\ IF mig = 6 THEN End("reverted") ELSE pc' = "truncatePhase" /\ UNCHANGED outcome
  /\ UNCHANGED <<config, aside, spec, phasefile, mig, phase, counts>>

\* Phase 3 of 7-to-8 does nothing.
PhaseEmpty ==
  /\ pc = "phase" /\ phase = 3 /\ mig = 7
  /\ pc' = "truncatePhase"
  /\ UNCHANGED <<repo, mig, phase, outcome, counts>>

\* writePhase after each phase.
TruncatePhase ==
  /\ pc = "truncatePhase"
  /\ phasefile' = Torn
  /\ pc' = "writePhase"
  /\ UNCHANGED <<version, config, aside, spec, mig, phase, outcome, counts>>

WritePhase ==
  /\ pc = "writePhase"
  /\ phasefile' = phase + 1
  /\ phase' = phase + 1
  /\ pc' = "phase"
  /\ UNCHANGED <<version, config, aside, spec, mig, outcome, counts>>

\* All phases are done: os.Remove of the phase file, whose error is ignored.
EndRevert ==
  /\ pc = "phase" /\ phase = 4
  /\ \/ phasefile' = NoFile /\ UNCHANGED counts
     \/ Error /\ UNCHANGED phasefile
  /\ End("reverted")
  /\ UNCHANGED <<version, config, aside, spec, mig, phase>>

-----------------------------------------------------------------------------
(* 6-to-7                                                                  *)

\* fsrepo.Open, which checks the version and needs a config with a datastore
\* specification and datastore_spec; myKey and the list of the keystore.
OpenRepo ==
  /\ pc = "idle" /\ version \in {6, 7}
  /\ config \in Config /\ config.ds = 6 /\ spec
  /\ mig' = 6 /\ outcome' = "none"
  /\ pc' = IF version = 6 THEN "applyKeys" ELSE "revertKeys"
  /\ todo' = Keys
  /\ UNCHANGED <<repo, phase, counts, oldRec, newRec, published, swallowed>>

KeyStep(k) ==
  /\ \/ pc = "applyKeys" /\ ApplyForKey(k) /\ UNCHANGED counts
     \/ pc = "revertKeys" /\ RevertForKey(k) /\ UNCHANGED counts
     \/ pc = "revertKeys" /\ RevertForKeyFails(k) /\ Error
  /\ UNCHANGED <<repo, run, outcome>>

KeysDone ==
  /\ pc \in {"applyKeys", "revertKeys"} /\ todo = {}
  /\ pc' = IF pc = "applyKeys" THEN "truncate" ELSE "truncate2"
  /\ UNCHANGED <<repo, mig, phase, outcome, counts>>

-----------------------------------------------------------------------------
(* Faults, and the rest of the world                                       *)

\* A file operation fails, and the error is returned without cleaning up;
\* only the os.Create of Apply's conversion leads to Restore first.
OperationFails ==
  /\ pc \in {"rename", "create", "restore", "truncate", "write", "phase", "truncate2", "write2",
             "truncatePhase", "writePhase", "applyKeys", "revertKeys"}
  /\ pc = "phase" => phase \in {0, 1} \/ (phase = 2 /\ mig = 5)
  /\ Error
  /\ IF pc = "create" THEN pc' = "restore" /\ UNCHANGED outcome ELSE End("error")
  /\ UNCHANGED <<repo, mig, phase>>

Kill ==
  /\ pc # "idle"
  /\ kills < MaxKills
  /\ kills' = kills + 1
  /\ pc' = "idle"
  /\ outcome' = "none"
  /\ UNCHANGED <<repo, mig, phase, errors, refused>>

\* A daemon, which needs what OpenRepo needs.
DaemonPublish(k) ==
  /\ pc = "idle" /\ version \in {6, 7}
  /\ config \in Config /\ config.ds = 6 /\ spec
  /\ Publish(k, version)
  /\ UNCHANGED <<repo, run, outcome, counts>>

\* The owner moves to another datastore, and describes it in the config and
\* in datastore_spec.  Copies of older configs no longer have all settings.
EditStore(s) ==
  /\ pc = "idle" /\ version \in 6 .. 8
  /\ config \in Config /\ config.ds = 6 /\ config.store # s /\ spec
  /\ config' = [config EXCEPT !.store = s]
  /\ aside' = [n \in Versions |-> IF aside[n] \in Config
                                 THEN [aside[n] EXCEPT !.owner = "partly"] ELSE aside[n]]
  /\ UNCHANGED <<version, spec, phasefile, run, outcome, counts>>

ConfigStep ==
  \/ \E m \in Migs : StartApply(m) \/ StartRevert(m)
  \/ RenameAside \/ CreateConfig \/ ConvertUp \/ ConvertUpFails \/ Restore
  \/ WriteSpec \/ WriteSpecFails \/ TruncateVersion \/ WriteVersion
  \/ ReadPhase \/ Phase0 \/ Phase1 \/ ConvertDown \/ ConvertDownFails \/ Phase2
  \/ PhaseVersion \/ LowerVersion \/ PhaseEmpty \/ TruncatePhase \/ WritePhase
  \/ EndRevert \/ KeysDone \/ OperationFails \/ Kill
  \/ \E s \in Stores : EditStore(s)

Next ==
  \/ ConfigStep /\ UNCHANGED recordVars
  \/ OpenRepo \/ \E k \in Keys : KeyStep(k) \/ DaemonPublish(k)

Spec == Init /\ [][Next]_vars

-----------------------------------------------------------------------------

\* Between runs, the config has the format of the repository's version.
FormatMatchesVersion ==
  pc = "idle" =>
    /\ config \in Config
    /\ config = ConfigAt(version, config.store)

\* Between runs, a downgrade to version 5 has stopped because the owner has a
\* datastore of his own: config is cut short, but config-v6 has what it was.
DowngradeRefused ==
  pc = "idle" /\ version = 6 /\ config = Torn /\ aside[6] = ConfigAt(6, "own")

\* Some file has a config that can be read.
ConfigSurvives ==
  \E f \in {config} \cup {aside[n] : n \in Versions} : f \in Config

\* Some file has all of the owner's settings.
SettingsSurvive ==
  \E f \in {config} \cup {aside[n] : n \in Versions} :
    f \in Config /\ f.owner = "all"

\* A run that reports success has moved the version.
AppliedIsApplied == outcome = "applied" => version = mig + 1
RevertedIsReverted == outcome = "reverted" => version = mig

\* "No data lost. Ever.": in every state up to the first kill or error, the
\* one that a kill freezes included, some file has all the settings, those
\* of a datastore that a migration refuses included.
SettingsUntilFault == kills = 0 /\ errors = 0 => SettingsSurvive

\* A single failing file operation never costs the config, whatever is run
\* after it, unless it comes on top of an Apply that 5-to-6 refuses: where
\* the renaming back fails, the next Apply overwrites config-v5.
ConfigUntilKill == kills = 0 /\ errors <= 1 /\ refused = "no" => ConfigSurvives

\* Before the first kill or error, a run that reports success has done its
\* work, and the version and the config agree between any two runs, in
\* whatever order Apply and Revert of the three migrations run; only the
\* downgrade of a datastore of the owner's own, which is not supported, ends
\* at version 6 without its config in place, and then config-v6 has it whole.
SoundUntilFault ==
  kills = 0 /\ errors = 0 =>
    AppliedIsApplied /\ RevertedIsReverted /\ (FormatMatchesVersion \/ DowngradeRefused)

\* What the node has published last with a key is the record that the daemon
\* of the repository's version reads, whatever was upgraded, downgraded or
\* killed in between, unless Revert has passed over an error.
PublishedKept ==
  (swallowed = "no" /\ pc = "idle" /\ version # Blank) =>
    published = IF version <= 6 THEN oldRec ELSE newRec

=============================================================================

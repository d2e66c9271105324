------------------------ MODULE PhasedConfigProofs -------------------------
(***************************************************************************)
(* 5-to-6, 6-to-7 and 7-to-8 for any number of kills, failing operations   *)
(* and keys.                                                               *)
(***************************************************************************)
EXTENDS PhasedConfig, TLAPS

USE SentinelAssumption, BoundsAssumption, KeysAssumption, SeqAssumption

-----------------------------------------------------------------------------
(* The run and the version                                                 *)

\* The phases of Revert that are done.
Done == IF pc \in {"truncatePhase", "writePhase"} THEN phase + 1 ELSE phase

\* The phase of Revert that lowers the version.
Lowering == IF mig = 5 THEN 3 ELSE 2

\* Apply finds the version it starts from until it truncates it; Revert
\* finds the version above, until the phase that lowers it.
VersionRead ==
  /\ pc \in {"rename", "create", "convert", "restore", "spec", "truncate", "applyKeys"} => version = mig
  /\ pc \in {"write", "write2"} => version = Blank
  /\ pc \in {"readPhase", "convert2", "truncate2", "revertKeys"} => version = mig + 1
  /\ pc \in {"phase", "truncatePhase", "writePhase"} =>
       version = mig + 1 \/ (version = mig /\ Done > Lowering)

\* Which migration a step belongs to, and which phase.
Position ==
  /\ pc \in {"applyKeys", "revertKeys"} => mig = 6
  /\ mig = 6 => pc \in {"idle", "applyKeys", "revertKeys", "truncate", "write", "truncate2", "write2"}
  /\ pc = "spec" => mig = 5
  /\ pc = "convert2" => phase = 1
  /\ pc \in {"truncate2", "write2"} /\ mig # 6 => phase = Lowering
  /\ pc \in {"truncatePhase", "writePhase"} => phase <= 3

\* The phase file says the phase that is under way.
PhaseNoted ==
  /\ phasefile # 0
  /\ pc \in {"phase", "convert2", "truncatePhase"} \/ (pc \in {"truncate2", "write2"} /\ mig # 6)
       => phasefile = IF phase = 0 THEN NoFile ELSE phase
  /\ pc = "writePhase" => phasefile = Torn

RunInv == TypeOK /\ VersionRead /\ Position /\ PhaseNoted

-----------------------------------------------------------------------------
(* The records of 6-to-7                                                   *)

\* Where the daemons of version v look.
RecordsAt(v) == IF v <= 6 THEN oldRec ELSE newRec

RecordInv ==
  /\ \A k \in Keys : published[k] = 0 => oldRec[k] = 0 /\ newRec[k] = 0
  /\ swallowed = "no" =>
       /\ version # Blank => published = RecordsAt(version)
       /\ pc = "write" => published = RecordsAt(mig)
       /\ pc = "write2" => published = RecordsAt(mig + 1)
       /\ pc = "applyKeys" => \A k \in Keys \ todo : newRec[k] = published[k]
       /\ pc = "revertKeys" => \A k \in Keys \ todo : oldRec[k] = published[k]
       /\ mig = 6 /\ pc \in {"truncate", "write", "truncate2", "write2"} =>
            oldRec = published /\ newRec = published

-----------------------------------------------------------------------------
(* Before the first fault                                                  *)

\* The configs that a repository of version v has.
ConfigsAt(v) == {ConfigAt(v, s) : s \in Stores}

\* Version and config agree.
Agreed == version # Blank /\ config \in ConfigsAt(version) /\ (spec <=> version > 5)

\* A downgrade to version 5 was refused, and will be again.
Stuck == version = 6 /\ config = Torn /\ aside[6] = ConfigAt(6, "own") /\ spec /\ phasefile = 1

Converted ==
  /\ pc = "idle" => (Agreed /\ phasefile = NoFile) \/ Stuck
  /\ pc \in {"applyKeys", "revertKeys"} => Agreed
  /\ pc = "rename" => config \in ConfigsAt(mig) /\ (spec <=> mig > 5)
  /\ pc \in {"create", "convert", "restore"} => aside[mig] \in ConfigsAt(mig) /\ (spec <=> mig > 5)
  /\ pc = "restore" => mig = 5
  /\ pc = "spec" => config \in ConfigsAt(mig + 1)
  /\ pc \in {"truncate", "write"} => config \in ConfigsAt(mig + 1) /\ spec
  /\ pc = "readPhase" => (config \in ConfigsAt(mig + 1) /\ spec /\ phasefile = NoFile) \/ Stuck
  /\ pc = "convert2" => aside[mig + 1] \in ConfigsAt(mig + 1) /\ spec /\ config = Torn
  /\ pc \in {"truncate2", "write2"} => config \in ConfigsAt(mig) /\ (spec <=> mig > 5)
  /\ pc \in {"phase", "truncatePhase", "writePhase"} =>
       /\ Done = 0 => config \in ConfigsAt(mig + 1)
       /\ Done = 1 => aside[mig + 1] \in ConfigsAt(mig + 1)
       /\ Done >= 2 => config \in ConfigsAt(mig)
       /\ Done > Lowering => version = mig
       /\ (spec <=> mig > 5 \/ Done <= 2)

FaultFree ==
  kills = 0 /\ errors = 0 =>
    /\ Converted
    /\ pc \notin {"idle", "readPhase", "phase", "convert2", "truncatePhase", "writePhase", "truncate2",
                 "write2"} \/ (mig = 6 /\ pc \notin {"idle", "readPhase"})
         => phasefile = NoFile
    /\ outcome = "applied" => pc = "idle" /\ version = mig + 1
    /\ outcome = "reverted" => pc = "idle" /\ version = mig

-----------------------------------------------------------------------------
(* After one failing operation                                             *)

Good(f) == f \in Config

\* The config is in place.
InPlace == Good(config) /\ pc \notin {"create", "convert", "restore", "convert2"}
           /\ (pc = "spec" => Good(aside[mig]))

\* Apply has renamed the config, and has it back if it cannot convert it.
Renamed == pc \in {"create", "convert", "restore"} /\ Good(aside[mig])
           /\ (pc = "restore" => errors = 1)

\* Revert has renamed the config.  If it stops, the next one goes on, or is
\* refused; no other migration starts.
PutAside ==
  /\ version \in {6, 8} /\ Good(aside[version]) /\ ~Good(config)
  /\ \/ pc \in {"idle", "readPhase"} /\ (phasefile = NoFile => config = NoFile) /\ phasefile \in {NoFile, 1, Torn}
     \/ pc = "phase" /\ (phase = 1 \/ (phase = 0 /\ config = NoFile))
     \/ pc = "convert2" /\ config = Torn
     \/ pc \in {"truncatePhase", "writePhase"} /\ phase = 0 /\ config = NoFile

\* Apply of 5-to-6 did not see that its write failed: config-v5 is what is
\* left, and no Apply will start again to overwrite it.
LeftByApply ==
  /\ errors = 1 /\ Good(aside[5]) /\ ~Good(config)
  /\ \/ pc \in {"spec", "truncate", "write"} /\ mig = 5 /\ phasefile = NoFile
     \/ version = 6 /\ pc \in {"idle", "readPhase"} /\ (phasefile = NoFile \/ (phasefile = 1 /\ ~Good(aside[6])))
     \/ version = 6 /\ pc = "phase" /\ (phase = 0 \/ (phase = 1 /\ ~Good(aside[6])))
     \/ version = 6 /\ pc = "convert2" /\ ~Good(aside[6])
     \/ version = 6 /\ pc \in {"truncatePhase", "writePhase"} /\ phase = 0 /\ ~Good(aside[6])

\* Nor did Revert: config-v6 is what is left, and no Revert will start again.
LeftByRevert ==
  /\ errors = 1 /\ Good(aside[6])
  /\ config = Torn \/ (pc = "create" /\ config = NoFile)
  /\ \/ version = 6 /\ pc \in {"idle", "readPhase"} /\ phasefile \in {2, 3, Torn}
     \/ pc \in {"phase", "truncatePhase", "writePhase", "truncate2", "write2"} /\ mig = 5
        /\ Done >= 2 /\ (Done = 4 => version = 5)
     \/ version = 5 /\ pc \in {"idle", "rename"}
     \/ pc \in {"create", "convert", "restore"} /\ mig = 5 /\ aside[5] = Torn

ConfigInv ==
  kills = 0 /\ errors <= 1 /\ refused = "no" =>
    \/ /\ InPlace \/ Renamed \/ PutAside
       /\ \A n \in {6, 8} : aside[n] \in Config \cup {NoFile}
    \/ LeftByApply
    \/ LeftByRevert

-----------------------------------------------------------------------------
(* The conversions                                                      *)

\* A conversion turns a config of a version into one of the next, and back,
\* or refuses it; what is changed of a config leaves it one.
LEMMA Conversions ==
  /\ \A c \in Config : Up(c) \in Config /\ Down(c) \in Config
  /\ \A c \in Config : /\ [c EXCEPT !.owner = "partly"] \in Config
                      /\ \A s \in Stores : [c EXCEPT !.store = s] \in Config
  /\ \A v \in Versions : \A c \in ConfigsAt(v) : c \in Config /\ c.owner = "all"
  /\ \A v \in Versions, s \in Stores : \A c \in ConfigsAt(v) : [c EXCEPT !.store = s] \in ConfigsAt(v)
  /\ \A v \in Versions : \A c \in ConfigsAt(v) : c = ConfigAt(v, c.store)
  /\ mig \in Migs => /\ \A c \in ConfigsAt(mig) : IF CanUp(c) THEN Up(c) \in ConfigsAt(mig + 1) ELSE mig = 5
                     /\ \A c \in ConfigsAt(mig + 1) : IF CanDown(c) THEN Down(c) \in ConfigsAt(mig)
                                                      ELSE mig = 5 /\ c = ConfigAt(6, "own")
<1> USE DEF Stores, Versions
<1>1. \A c \in Config : Up(c) \in Config /\ Down(c) \in Config
  BY DEF Config, Up, Down, Ver5to6, Ver6to5, Ver7to8, Ver8to7
<1>2. \A c \in Config : /\ [c EXCEPT !.owner = "partly"] \in Config
                      /\ \A s \in Stores : [c EXCEPT !.store = s] \in Config
  BY DEF Config
<1>3. \A v \in Versions : \A c \in ConfigsAt(v) : c \in Config /\ c.owner = "all" /\ c = ConfigAt(v, c.store)
  BY DEF Config, ConfigAt, ConfigsAt
<1>4. \A v \in Versions, s \in Stores : \A c \in ConfigsAt(v) : [c EXCEPT !.store = s] \in ConfigsAt(v)
  <2> SUFFICES ASSUME NEW v \in Versions, NEW s \in Stores, NEW t \in Stores
               PROVE  [ConfigAt(v, t) EXCEPT !.store = s] = ConfigAt(v, s)
    BY DEF ConfigsAt
  <2> QED
    BY DEF ConfigAt
<1>5. ASSUME mig = 5, NEW s \in Stores
      PROVE  /\ CanUp(ConfigAt(5, s)) => Up(ConfigAt(5, s)) = ConfigAt(6, "usual")
             /\ IF CanDown(ConfigAt(6, s)) THEN Down(ConfigAt(6, s)) = ConfigAt(5, s) ELSE s = "own"
  <2>1. ConfigAt(6, s) \in Config /\ ConfigAt(6, s).ds = 6 /\ ConfigAt(6, s).store = s
    BY DEF Config, ConfigAt
  <2>2. Ver5to6(ConfigAt(5, s)) = ConfigAt(6, "usual") /\ Ver6to5(ConfigAt(6, s)) = ConfigAt(5, s)
    BY DEF ConfigAt, Ver5to6, Ver6to5
  <2> QED
    BY <1>5, <2>1, <2>2 DEF Up, Down, CanDown
<1>6. ASSUME mig = 7, NEW s \in Stores
      PROVE  /\ CanUp(ConfigAt(7, s)) /\ Up(ConfigAt(7, s)) = ConfigAt(8, s)
             /\ CanDown(ConfigAt(8, s)) /\ Down(ConfigAt(8, s)) = ConfigAt(7, s)
  <2>1. ConfigAt(7, s) \in Config /\ ConfigAt(8, s) \in Config
    BY DEF Config, ConfigAt
  <2>2. Ver7to8(ConfigAt(7, s)) = ConfigAt(8, s) /\ Ver8to7(ConfigAt(8, s)) = ConfigAt(7, s)
    BY DEF ConfigAt, Ver7to8, Ver8to7
  <2> QED
    BY <1>6, <2>1, <2>2 DEF Up, Down, CanUp, CanDown
<1>7. CASE mig = 5
  BY <1>1, <1>2, <1>3, <1>4, <1>5, <1>7 DEF ConfigsAt
<1>8. CASE mig = 7
  BY <1>1, <1>2, <1>3, <1>4, <1>6, <1>8 DEF ConfigsAt
<1> QED
  BY <1>1, <1>2, <1>3, <1>4, <1>7, <1>8 DEF Migs

-----------------------------------------------------------------------------
(* The run and the version                                                 *)

\* The invariant of the run holds at first.
LEMMA RunInit == Init => RunInv
<1> SUFFICES ASSUME Init PROVE RunInv
  OBVIOUS
<1>1. version \in Versions /\ config \in Config
  BY Conversions DEF Init, ConfigsAt
<1>2. RecordsOK
  BY DEF Init, RecordsInit, RecordsOK
<1>3. TypeOK
  BY <1>1, <1>2 DEF Init, TypeOK, File, Versions, PCs, Migs
<1> QED
  BY <1>3 DEF Init, RunInv, VersionRead, Position, PhaseNoted

\* Every step keeps the types.
LEMMA TypeStep ==
  ASSUME RunInv, [Next]_vars
  PROVE  TypeOK'
<1> USE DEF RunInv, TypeOK, File, PCs, Position, recordVars, RecordsOK, Migs, Versions, Blank, Error, End, repo, counts, run
<1>1. ASSUME NEW m \in Migs, StartApply(m), UNCHANGED recordVars PROVE TypeOK'
  BY <1>1 DEF StartApply
<1>2. ASSUME NEW m \in Migs, StartRevert(m), UNCHANGED recordVars PROVE TypeOK'
  BY <1>2 DEF StartRevert
<1>3. CASE RenameAside /\ UNCHANGED recordVars
  BY <1>3 DEF RenameAside
<1>4. CASE CreateConfig /\ UNCHANGED recordVars
  BY <1>4 DEF CreateConfig
<1>5. CASE ConvertUp /\ UNCHANGED recordVars
  BY <1>5, Conversions DEF ConvertUp, CanUp
<1>6. CASE ConvertUpFails /\ UNCHANGED recordVars
  BY <1>6 DEF ConvertUpFails
<1>7. CASE Restore /\ UNCHANGED recordVars
  BY <1>7 DEF Restore
<1>8. CASE WriteSpec /\ UNCHANGED recordVars
  BY <1>8 DEF WriteSpec
<1>9. CASE WriteSpecFails /\ UNCHANGED recordVars
  <2>1. spec' \in BOOLEAN
    BY <1>9 DEF WriteSpecFails
  <2> QED
    BY <1>9, <2>1 DEF WriteSpecFails
<1>10. CASE TruncateVersion /\ UNCHANGED recordVars
  BY <1>10 DEF TruncateVersion
<1>11. CASE WriteVersion /\ UNCHANGED recordVars
  BY <1>11 DEF WriteVersion
<1>12. CASE ReadPhase /\ UNCHANGED recordVars
  BY <1>12 DEF ReadPhase
<1>13. CASE Phase0 /\ UNCHANGED recordVars
  BY <1>13 DEF Phase0
<1>14. CASE Phase1 /\ UNCHANGED recordVars
  BY <1>14 DEF Phase1
<1>15. CASE ConvertDown /\ UNCHANGED recordVars
  BY <1>15, Conversions DEF ConvertDown, CanDown
<1>16. CASE ConvertDownFails /\ UNCHANGED recordVars
  BY <1>16 DEF ConvertDownFails
<1>17. CASE Phase2 /\ UNCHANGED recordVars
  BY <1>17 DEF Phase2
<1>18. CASE PhaseVersion /\ UNCHANGED recordVars
  BY <1>18 DEF PhaseVersion
<1>19. CASE LowerVersion /\ UNCHANGED recordVars
  BY <1>19 DEF LowerVersion
<1>20. CASE PhaseEmpty /\ UNCHANGED recordVars
  BY <1>20 DEF PhaseEmpty
<1>21. CASE TruncatePhase /\ UNCHANGED recordVars
  BY <1>21 DEF TruncatePhase
<1>22. CASE WritePhase /\ UNCHANGED recordVars
  BY <1>22 DEF WritePhase
<1>23. CASE EndRevert /\ UNCHANGED recordVars
  BY <1>23 DEF EndRevert
<1>24. CASE KeysDone /\ UNCHANGED recordVars
  BY <1>24 DEF KeysDone
<1>25. CASE OperationFails /\ UNCHANGED recordVars
  BY <1>25 DEF OperationFails
<1>26. CASE Kill /\ UNCHANGED recordVars
  BY <1>26 DEF Kill
<1>27. CASE OpenRepo
  BY <1>27 DEF OpenRepo
<1>31. ASSUME NEW s \in Stores, EditStore(s), UNCHANGED recordVars PROVE TypeOK'
  <2>1. config' \in Config
    BY <1>31, Conversions DEF EditStore
  <2>2. aside' \in [Versions -> File]
    BY <1>31, Conversions DEF EditStore
  <2> QED
    BY <1>31, <2>1, <2>2 DEF EditStore
<1>28. ASSUME NEW k \in Keys, KeyStep(k) PROVE TypeOK'
  <2>1. RecordsOK'
    BY <1>28 DEF KeyStep, ApplyForKey, RevertForKey, RevertForKeyFails
  <2> QED
    BY <1>28, <2>1 DEF KeyStep
<1>29. ASSUME NEW k \in Keys, DaemonPublish(k) PROVE TypeOK'
  <2>1. RecordsOK'
    BY <1>29 DEF DaemonPublish, Publish
  <2> QED
    BY <1>29, <2>1 DEF DaemonPublish
<1>30. CASE UNCHANGED vars
  BY <1>30 DEF vars
<1> QED
  BY <1>1, <1>2, <1>3, <1>4, <1>5, <1>6, <1>7, <1>8, <1>9, <1>10, <1>11, <1>12, <1>13, <1>14,
     <1>15, <1>16, <1>17, <1>18, <1>19, <1>20, <1>21, <1>22, <1>23, <1>24, <1>25, <1>26, <1>27,
     <1>28, <1>29, <1>30, <1>31 DEF Next, ConfigStep

\* Every step finds the version and the phase file as the run expects them.
LEMMA RunStep ==
  ASSUME RunInv, TypeOK', [Next]_vars
  PROVE  RunInv'
<1> USE DEF RunInv, VersionRead, Position, PhaseNoted, Done, Lowering, Migs, Versions, Blank, Error, End, repo, counts, run
<1>t. /\ version \in Versions \cup {Blank} /\ phase \in 0 .. 4 /\ mig \in {5, 6, 7}
      /\ phasefile \in 0 .. 4 \cup {NoFile, Torn}
  BY DEF TypeOK
<1>1. ASSUME NEW m \in Migs, StartApply(m), UNCHANGED recordVars PROVE RunInv'
  BY <1>t, <1>1 DEF StartApply
<1>2. ASSUME NEW m \in Migs, StartRevert(m), UNCHANGED recordVars PROVE RunInv'
  BY <1>t, <1>2 DEF StartRevert
<1>3. CASE RenameAside /\ UNCHANGED recordVars
  BY <1>t, <1>3 DEF RenameAside
<1>4. CASE CreateConfig /\ UNCHANGED recordVars
  BY <1>t, <1>4 DEF CreateConfig
<1>5. CASE ConvertUp /\ UNCHANGED recordVars
  BY <1>t, <1>5 DEF ConvertUp
<1>6. CASE ConvertUpFails /\ UNCHANGED recordVars
  BY <1>t, <1>6 DEF ConvertUpFails
<1>7. CASE Restore /\ UNCHANGED recordVars
  BY <1>t, <1>7 DEF Restore
<1>8. CASE WriteSpec /\ UNCHANGED recordVars
  BY <1>t, <1>8 DEF WriteSpec
<1>9. CASE WriteSpecFails /\ UNCHANGED recordVars
  BY <1>t, <1>9 DEF WriteSpecFails
<1>10. CASE TruncateVersion /\ UNCHANGED recordVars
  BY <1>t, <1>10 DEF TruncateVersion
<1>11. CASE WriteVersion /\ UNCHANGED recordVars
  BY <1>t, <1>11 DEF WriteVersion
<1>12. CASE ReadPhase /\ UNCHANGED recordVars
  BY <1>t, <1>12 DEF ReadPhase
<1>13. CASE Phase0 /\ UNCHANGED recordVars
  BY <1>t, <1>13 DEF Phase0
<1>14. CASE Phase1 /\ UNCHANGED recordVars
  BY <1>t, <1>14 DEF Phase1
<1>15. CASE ConvertDown /\ UNCHANGED recordVars
  BY <1>t, <1>15 DEF ConvertDown
<1>16. CASE ConvertDownFails /\ UNCHANGED recordVars
  BY <1>t, <1>16 DEF ConvertDownFails
<1>17. CASE Phase2 /\ UNCHANGED recordVars
  BY <1>t, <1>17 DEF Phase2
<1>18. CASE PhaseVersion /\ UNCHANGED recordVars
  BY <1>t, <1>18 DEF PhaseVersion
<1>19. CASE LowerVersion /\ UNCHANGED recordVars
  BY <1>t, <1>19 DEF LowerVersion
<1>20. CASE PhaseEmpty /\ UNCHANGED recordVars
  BY <1>t, <1>20 DEF PhaseEmpty
<1>21. CASE TruncatePhase /\ UNCHANGED recordVars
  BY <1>t, <1>21 DEF TruncatePhase
<1>22. CASE WritePhase /\ UNCHANGED recordVars
  BY <1>t, <1>22 DEF WritePhase
<1>23. CASE EndRevert /\ UNCHANGED recordVars
  BY <1>t, <1>23 DEF EndRevert
<1>24. CASE KeysDone /\ UNCHANGED recordVars
  BY <1>t, <1>24 DEF KeysDone
<1>25. CASE OperationFails /\ UNCHANGED recordVars
  BY <1>t, <1>25 DEF OperationFails
<1>26. CASE Kill /\ UNCHANGED recordVars
  BY <1>t, <1>26 DEF Kill
<1>27. CASE OpenRepo
  BY <1>t, <1>27 DEF OpenRepo
<1>31. ASSUME NEW s \in Stores, EditStore(s), UNCHANGED recordVars PROVE RunInv'
  BY <1>t, <1>31 DEF EditStore
<1>28. ASSUME NEW k \in Keys, KeyStep(k) PROVE RunInv'
  BY <1>t, <1>28 DEF KeyStep
<1>29. ASSUME NEW k \in Keys, DaemonPublish(k) PROVE RunInv'
  BY <1>t, <1>29 DEF DaemonPublish
<1>30. CASE UNCHANGED vars
  BY <1>t, <1>30 DEF vars
<1> QED
  BY <1>1, <1>2, <1>3, <1>4, <1>5, <1>6, <1>7, <1>8, <1>9, <1>10, <1>11, <1>12, <1>13, <1>14,
     <1>15, <1>16, <1>17, <1>18, <1>19, <1>20, <1>21, <1>22, <1>23, <1>24, <1>25, <1>26, <1>27,
     <1>28, <1>29, <1>30, <1>31 DEF Next, ConfigStep

\* The invariant of the run holds in every reachable state.
LEMMA RunHolds == Spec => []RunInv
<1>1. RunInv /\ [Next]_vars => RunInv'
  BY TypeStep, RunStep
<1> QED
  BY <1>1, RunInit, PTL DEF Spec

\* For any kills, failing operations and keys, every state is well typed.
THEOREM TypeCorrect == Spec => []TypeOK
<1>1. RunInv => TypeOK
  BY DEF RunInv
<1> QED
  BY <1>1, RunHolds, PTL

-----------------------------------------------------------------------------
(* The records of 6-to-7                                                   *)

\* At first the records are where the repository's version has them.
LEMMA RecordsHoldAtFirst == Init => RecordInv
<1> SUFFICES ASSUME Init PROVE RecordInv
  OBVIOUS
<1>1. /\ pc = "idle" /\ version \in Versions /\ published \in [Keys -> 0 .. 1]
      /\ oldRec = IF version <= 6 THEN published ELSE [k \in Keys |-> 0]
      /\ newRec = IF version > 6 THEN published ELSE [k \in Keys |-> 0]
  BY DEF Init, RecordsInit
<1>2. published = RecordsAt(version)
  BY <1>1 DEF RecordsAt, Versions
<1>3. \A k \in Keys : published[k] = 0 => oldRec[k] = 0 /\ newRec[k] = 0
  BY <1>1 DEF Versions
<1> QED
  BY <1>1, <1>2, <1>3 DEF RecordInv

\* Every step keeps what was published last where the daemon looks for it.
LEMMA RecordsStep ==
  ASSUME RunInv, RecordInv, [Next]_vars
  PROVE  RecordInv'
<1> USE DEF RunInv, RecordInv, VersionRead, Position, recordVars, Migs, Versions, Blank, Error, End, repo, counts, run
<1>t. version \in Versions \cup {Blank} /\ mig \in {5, 6, 7}
  BY DEF TypeOK
<1>1. ASSUME NEW m \in Migs, StartApply(m), UNCHANGED recordVars PROVE RecordInv'
  BY <1>t, <1>1 DEF StartApply, RecordsAt
<1>2. ASSUME NEW m \in Migs, StartRevert(m), UNCHANGED recordVars PROVE RecordInv'
  BY <1>t, <1>2 DEF StartRevert, RecordsAt
<1>3. CASE RenameAside /\ UNCHANGED recordVars
  BY <1>t, <1>3 DEF RenameAside, RecordsAt
<1>4. CASE CreateConfig /\ UNCHANGED recordVars
  BY <1>t, <1>4 DEF CreateConfig, RecordsAt
<1>5. CASE ConvertUp /\ UNCHANGED recordVars
  BY <1>t, <1>5 DEF ConvertUp, RecordsAt
<1>6. CASE ConvertUpFails /\ UNCHANGED recordVars
  BY <1>t, <1>6 DEF ConvertUpFails, RecordsAt
<1>7. CASE Restore /\ UNCHANGED recordVars
  BY <1>t, <1>7 DEF Restore, RecordsAt
<1>8. CASE WriteSpec /\ UNCHANGED recordVars
  BY <1>t, <1>8 DEF WriteSpec, RecordsAt
<1>9. CASE WriteSpecFails /\ UNCHANGED recordVars
  BY <1>t, <1>9 DEF WriteSpecFails, RecordsAt
<1>10. CASE TruncateVersion /\ UNCHANGED recordVars
  BY <1>t, <1>10 DEF TruncateVersion, RecordsAt
<1>11. CASE WriteVersion /\ UNCHANGED recordVars
  BY <1>t, <1>11 DEF WriteVersion, RecordsAt
<1>12. CASE ReadPhase /\ UNCHANGED recordVars
  BY <1>t, <1>12 DEF ReadPhase, RecordsAt
<1>13. CASE Phase0 /\ UNCHANGED recordVars
  BY <1>t, <1>13 DEF Phase0, RecordsAt
<1>14. CASE Phase1 /\ UNCHANGED recordVars
  BY <1>t, <1>14 DEF Phase1, RecordsAt
<1>15. CASE ConvertDown /\ UNCHANGED recordVars
  BY <1>t, <1>15 DEF ConvertDown, RecordsAt
<1>16. CASE ConvertDownFails /\ UNCHANGED recordVars
  BY <1>t, <1>16 DEF ConvertDownFails, RecordsAt
<1>17. CASE Phase2 /\ UNCHANGED recordVars
  BY <1>t, <1>17 DEF Phase2, RecordsAt
<1>18. CASE PhaseVersion /\ UNCHANGED recordVars
  BY <1>t, <1>18 DEF PhaseVersion, RecordsAt
<1>19. CASE LowerVersion /\ UNCHANGED recordVars
  BY <1>t, <1>19 DEF LowerVersion, RecordsAt
<1>20. CASE PhaseEmpty /\ UNCHANGED recordVars
  BY <1>t, <1>20 DEF PhaseEmpty, RecordsAt
<1>21. CASE TruncatePhase /\ UNCHANGED recordVars
  BY <1>t, <1>21 DEF TruncatePhase, RecordsAt
<1>22. CASE WritePhase /\ UNCHANGED recordVars
  BY <1>t, <1>22 DEF WritePhase, RecordsAt
<1>23. CASE EndRevert /\ UNCHANGED recordVars
  BY <1>t, <1>23 DEF EndRevert, RecordsAt
<1>24. CASE KeysDone /\ UNCHANGED recordVars
  <2>1. RecordsOK /\ todo = {}
    BY <1>24 DEF KeysDone, TypeOK
  <2>2. swallowed = "no" => oldRec = published /\ newRec = published
    <3>1. CASE pc = "applyKeys"
      BY <1>24, <2>1, <3>1 DEF RecordsOK, RecordsAt
    <3>2. CASE pc = "revertKeys"
      BY <1>24, <2>1, <3>2 DEF RecordsOK, RecordsAt
    <3> QED
      BY <1>24, <3>1, <3>2 DEF KeysDone, RecordsAt
  <2> QED
    BY <1>24, <2>1, <2>2 DEF KeysDone, RecordsAt
<1>25. CASE OperationFails /\ UNCHANGED recordVars
  BY <1>t, <1>25 DEF OperationFails, RecordsAt
<1>26. CASE Kill /\ UNCHANGED recordVars
  BY <1>t, <1>26 DEF Kill, RecordsAt
<1>27. CASE OpenRepo
  BY <1>t, <1>27 DEF OpenRepo, RecordsAt
<1>31. ASSUME NEW s \in Stores, EditStore(s), UNCHANGED recordVars PROVE RecordInv'
  BY <1>t, <1>31 DEF EditStore, RecordsAt
<1>28. ASSUME NEW k \in Keys, KeyStep(k) PROVE RecordInv'
  <2>0. /\ RecordsOK /\ Turn(k) /\ todo' = todo \ {k} /\ published' = published
        /\ UNCHANGED <<version, pc, mig>>
    BY <1>28 DEF KeyStep, ApplyForKey, RevertForKey, RevertForKeyFails, RunInv, TypeOK
  <2>1. CASE pc = "applyKeys" /\ ApplyForKey(k)
    <3>1. /\ oldRec' = oldRec /\ swallowed' = swallowed
          /\ newRec' = IF oldRec[k] = 0 THEN newRec ELSE [newRec EXCEPT ![k] = oldRec[k]]
      BY <2>1 DEF ApplyForKey
    <3>2. version = 6 /\ RecordsAt(version) = oldRec /\ RecordsAt(version)' = oldRec
      BY <2>0, <2>1, <3>1 DEF RecordsAt
    <3>3. swallowed = "no" => newRec'[k] = published[k]
      BY <2>0, <3>1, <3>2 DEF RecordsOK
    <3>4. \A x \in Keys \ {k} : newRec'[x] = newRec[x]
      BY <2>0, <3>1 DEF RecordsOK
    <3>5. \A x \in Keys : published[x] = 0 => oldRec'[x] = 0 /\ newRec'[x] = 0
      BY <2>0, <3>1, <3>4 DEF RecordsOK
    <3> QED
      BY <2>0, <2>1, <3>1, <3>2, <3>3, <3>4, <3>5
  <2>2. CASE pc = "revertKeys" /\ RevertForKey(k)
    <3>1. /\ newRec' = newRec /\ swallowed' = swallowed
          /\ oldRec' = IF newRec[k] = 0 THEN oldRec ELSE [oldRec EXCEPT ![k] = newRec[k]]
      BY <2>2 DEF RevertForKey
    <3>2. version = 7 /\ RecordsAt(version) = newRec /\ RecordsAt(version)' = newRec
      BY <2>0, <2>2, <3>1 DEF RecordsAt
    <3>3. swallowed = "no" => oldRec'[k] = published[k]
      BY <2>0, <3>1, <3>2 DEF RecordsOK
    <3>4. \A x \in Keys \ {k} : oldRec'[x] = oldRec[x]
      BY <2>0, <3>1 DEF RecordsOK
    <3>5. \A x \in Keys : published[x] = 0 => oldRec'[x] = 0 /\ newRec'[x] = 0
      BY <2>0, <3>1, <3>4 DEF RecordsOK
    <3> QED
      BY <2>0, <2>2, <3>1, <3>2, <3>3, <3>4, <3>5
  <2>3. CASE pc = "revertKeys" /\ RevertForKeyFails(k)
    BY <2>0, <2>3 DEF RevertForKeyFails
  <2> QED
    BY <1>28, <2>1, <2>2, <2>3 DEF KeyStep
<1>29. ASSUME NEW k \in Keys, DaemonPublish(k) PROVE RecordInv'
  <2>1. RecordsOK /\ version \in {6, 7} /\ pc = "idle" /\ UNCHANGED <<version, pc, mig, swallowed>>
    BY <1>29 DEF DaemonPublish, Publish, TypeOK
  <2>2. /\ published' = [published EXCEPT ![k] = published[k] + 1]
        /\ IF version <= 6 THEN oldRec' = [oldRec EXCEPT ![k] = published[k] + 1] /\ newRec' = newRec
                           ELSE newRec' = [newRec EXCEPT ![k] = published[k] + 1] /\ oldRec' = oldRec
    BY <1>29, <2>1 DEF DaemonPublish, Publish, RecordsOK
  <2>3. swallowed = "no" => published' = RecordsAt(version)'
    <3>1. swallowed = "no" => published = RecordsAt(version)
      BY <2>1
    <3>2. CASE version = 6
      BY <2>1, <2>2, <3>1, <3>2 DEF RecordsAt
    <3>3. CASE version = 7
      BY <2>1, <2>2, <3>1, <3>3 DEF RecordsAt
    <3> QED
      BY <2>1, <3>2, <3>3
  <2>4. \A x \in Keys : published'[x] = 0 => oldRec'[x] = 0 /\ newRec'[x] = 0
    BY <2>1, <2>2 DEF RecordsOK
  <2> QED
    BY <2>1, <2>3, <2>4
<1>30. CASE UNCHANGED vars
  BY <1>t, <1>30 DEF vars, RecordsAt
<1> QED
  BY <1>1, <1>2, <1>3, <1>4, <1>5, <1>6, <1>7, <1>8, <1>9, <1>10, <1>11, <1>12, <1>13, <1>14,
     <1>15, <1>16, <1>17, <1>18, <1>19, <1>20, <1>21, <1>22, <1>23, <1>24, <1>25, <1>26, <1>27,
     <1>28, <1>29, <1>30, <1>31 DEF Next, ConfigStep

\* For any keys, kills and failing operations: what the node published last
\* is what the daemon of the repository's version reads, unless Revert of
\* 6-to-7 has passed over an error.
THEOREM PublishedIsKept == Spec => []PublishedKept
<1>1. RecordInv => PublishedKept
  BY DEF RecordInv, PublishedKept, RecordsAt
<1> QED
  BY <1>1, RecordsHoldAtFirst, RecordsStep, RunHolds, PTL DEF Spec

-----------------------------------------------------------------------------
(* Before the first fault                                                  *)

\* At first the config is that of the repository's version.
LEMMA FaultFreeAtFirst == Init => FaultFree
<1> SUFFICES ASSUME Init PROVE FaultFree
  OBVIOUS
<1>1. spec = (version > 5)
  BY DEF Init
<1>2. spec <=> version > 5
  BY <1>1, Zenon
<1>3. config \in ConfigsAt(version)
  BY DEF Init, ConfigsAt
<1> QED
  BY <1>2, <1>3 DEF Init, FaultFree, Converted, Agreed, Versions, Blank

\* Every step keeps version and config in agreement until the first fault.
LEMMA FaultFreeStep ==
  ASSUME RunInv, FaultFree, [Next]_vars
  PROVE  FaultFree'
<1> USE DEF RunInv, FaultFree, Converted, Agreed, Stuck, Done, Lowering, VersionRead, Position, PhaseNoted, Migs, Versions, Blank, Error, End, repo, counts, run
<1>t. /\ version \in Versions \cup {Blank} /\ mig \in {5, 6, 7} /\ phase \in 0 .. 4
      /\ kills \in Nat /\ errors \in Nat /\ aside \in [Versions -> File] /\ spec \in BOOLEAN
  BY DEF TypeOK
<1>c. ConfigsAt(6) = ConfigsAt(7)
  BY DEF ConfigAt, ConfigsAt
<1>d. /\ mig # 6 => /\ \A c \in ConfigsAt(mig) : IF CanUp(c) THEN Up(c) \in ConfigsAt(mig + 1) ELSE mig = 5
                    /\ \A c \in ConfigsAt(mig + 1) : IF CanDown(c) THEN Down(c) \in ConfigsAt(mig)
                                                     ELSE mig = 5 /\ c = ConfigAt(6, "own")
      /\ \A v \in Versions : NoFile \notin ConfigsAt(v)
  BY <1>t, Conversions DEF Migs
<1>1. ASSUME NEW m \in Migs, StartApply(m), UNCHANGED recordVars PROVE FaultFree'
  BY <1>t, <1>c, <1>d, <1>1 DEF StartApply
<1>2. ASSUME NEW m \in Migs, StartRevert(m), UNCHANGED recordVars PROVE FaultFree'
  BY <1>t, <1>c, <1>d, <1>2 DEF StartRevert
<1>3. CASE RenameAside /\ UNCHANGED recordVars
  BY <1>t, <1>c, <1>d, <1>3 DEF RenameAside
<1>4. CASE CreateConfig /\ UNCHANGED recordVars
  BY <1>t, <1>c, <1>d, <1>4 DEF CreateConfig
<1>5. CASE ConvertUp /\ UNCHANGED recordVars
  BY <1>t, <1>c, <1>d, <1>5 DEF ConvertUp
<1>6. CASE ConvertUpFails /\ UNCHANGED recordVars
  BY <1>t, <1>c, <1>d, <1>6 DEF ConvertUpFails
<1>7. CASE Restore /\ UNCHANGED recordVars
  BY <1>t, <1>c, <1>d, <1>7 DEF Restore
<1>8. CASE WriteSpec /\ UNCHANGED recordVars
  BY <1>t, <1>c, <1>d, <1>8 DEF WriteSpec
<1>9. CASE WriteSpecFails /\ UNCHANGED recordVars
  BY <1>t, <1>c, <1>d, <1>9 DEF WriteSpecFails
<1>10. CASE TruncateVersion /\ UNCHANGED recordVars
  BY <1>t, <1>c, <1>d, <1>10 DEF TruncateVersion
<1>11. CASE WriteVersion /\ UNCHANGED recordVars
  BY <1>t, <1>c, <1>d, <1>11 DEF WriteVersion
<1>12. CASE ReadPhase /\ UNCHANGED recordVars
  <2>1. CASE Stuck
    <3>1. phase' = 1 /\ pc' = "phase" /\ mig = 5 /\ UNCHANGED <<repo, mig, counts, outcome>>
      BY <1>t, <1>12, <2>1 DEF ReadPhase
    <3>2. aside[6] \in ConfigsAt(6)
      BY <2>1 DEF ConfigsAt, Stores
    <3> QED
      BY <1>12, <2>1, <3>1, <3>2 DEF ReadPhase
  <2>2. CASE ~Stuck
    BY <1>t, <1>12, <2>2 DEF ReadPhase
  <2> QED
    BY <2>1, <2>2
<1>13. CASE Phase0 /\ UNCHANGED recordVars
  BY <1>t, <1>c, <1>d, <1>13 DEF Phase0
<1>14. CASE Phase1 /\ UNCHANGED recordVars
  BY <1>t, <1>c, <1>d, <1>14 DEF Phase1
<1>15. CASE ConvertDown /\ UNCHANGED recordVars
  BY <1>t, <1>c, <1>d, <1>15 DEF ConvertDown
<1>16. CASE ConvertDownFails /\ UNCHANGED recordVars
  BY <1>t, <1>c, <1>d, <1>16 DEF ConvertDownFails
<1>17. CASE Phase2 /\ UNCHANGED recordVars
  BY <1>t, <1>c, <1>d, <1>17 DEF Phase2
<1>18. CASE PhaseVersion /\ UNCHANGED recordVars
  BY <1>t, <1>c, <1>d, <1>18 DEF PhaseVersion
<1>19. CASE LowerVersion /\ UNCHANGED recordVars
  BY <1>t, <1>c, <1>d, <1>19 DEF LowerVersion
<1>20. CASE PhaseEmpty /\ UNCHANGED recordVars
  BY <1>t, <1>c, <1>d, <1>20 DEF PhaseEmpty
<1>21. CASE TruncatePhase /\ UNCHANGED recordVars
  BY <1>t, <1>c, <1>d, <1>21 DEF TruncatePhase
<1>22. CASE WritePhase /\ UNCHANGED recordVars
  BY <1>t, <1>c, <1>d, <1>22 DEF WritePhase
<1>23. CASE EndRevert /\ UNCHANGED recordVars
  BY <1>t, <1>c, <1>d, <1>23 DEF EndRevert
<1>24. CASE KeysDone /\ UNCHANGED recordVars
  BY <1>t, <1>c, <1>d, <1>24 DEF KeysDone
<1>25. CASE OperationFails /\ UNCHANGED recordVars
  BY <1>t, <1>c, <1>d, <1>25 DEF OperationFails
<1>26. CASE Kill /\ UNCHANGED recordVars
  BY <1>t, <1>c, <1>d, <1>26 DEF Kill
<1>27. CASE OpenRepo
  BY <1>t, <1>c, <1>d, <1>27 DEF OpenRepo
<1>31. ASSUME NEW s \in Stores, EditStore(s), UNCHANGED recordVars PROVE FaultFree'
  <2>1. config \in Config /\ config' = [config EXCEPT !.store = s]
        /\ UNCHANGED <<version, spec, phasefile, pc, mig, phase, outcome, kills, errors>>
        /\ pc = "idle" /\ version \in Versions
    BY <1>31 DEF EditStore
  <2>2. config \in ConfigsAt(version) => config' \in ConfigsAt(version)
    BY <2>1, Conversions
  <2> QED
    BY <1>t, <2>1, <2>2
<1>28. ASSUME NEW k \in Keys, KeyStep(k) PROVE FaultFree'
  BY <1>t, <1>c, <1>d, <1>28 DEF KeyStep
<1>29. ASSUME NEW k \in Keys, DaemonPublish(k) PROVE FaultFree'
  BY <1>t, <1>c, <1>d, <1>29 DEF DaemonPublish
<1>30. CASE UNCHANGED vars
  BY <1>t, <1>c, <1>d, <1>30 DEF vars
<1> QED
  BY <1>1, <1>2, <1>3, <1>4, <1>5, <1>6, <1>7, <1>8, <1>9, <1>10, <1>11, <1>12, <1>13, <1>14,
     <1>15, <1>16, <1>17, <1>18, <1>19, <1>20, <1>21, <1>22, <1>23, <1>24, <1>25, <1>26, <1>27,
     <1>28, <1>29, <1>30, <1>31 DEF Next, ConfigStep

\* Until the first fault, the config agrees with the version.
LEMMA FaultFreeHolds == Spec => []FaultFree
  BY FaultFreeAtFirst, FaultFreeStep, RunHolds, PTL DEF Spec

\* For any keys: before the first kill or error, a run that reports success
\* has done its work, and between runs the config has the format of the
\* version.
THEOREM SoundBeforeFaults == Spec => []SoundUntilFault
<1>1. ASSUME RunInv, FaultFree PROVE SoundUntilFault
  <2> SUFFICES ASSUME kills = 0, errors = 0 
               PROVE  AppliedIsApplied /\ RevertedIsReverted /\ (FormatMatchesVersion \/ DowngradeRefused)
    BY DEF SoundUntilFault
  <2>1. pc = "idle" => (config \in ConfigsAt(version) /\ version \in Versions) \/ Stuck
    BY <1>1 DEF FaultFree, Converted, Agreed, RunInv, TypeOK
  <2>2. FormatMatchesVersion \/ DowngradeRefused
    BY <2>1, Conversions DEF FormatMatchesVersion, DowngradeRefused, Stuck
  <2> QED
    BY <1>1, <2>2 DEF FaultFree, AppliedIsApplied, RevertedIsReverted
<1> QED
  BY <1>1, FaultFreeHolds, RunHolds, PTL

\* For any keys: in every state up to the first kill or error, some file has
\* all of the owner's settings.
THEOREM SettingsBeforeFaults == Spec => []SettingsUntilFault
<1>1. ASSUME RunInv, FaultFree PROVE SettingsUntilFault
  <2> SUFFICES ASSUME kills = 0, errors = 0 PROVE SettingsSurvive
    BY DEF SettingsUntilFault
  <2>0. /\ version \in Versions \cup {Blank} /\ mig \in {5, 6, 7} /\ phase \in 0 .. 4 /\ pc \in PCs
        /\ Position /\ Converted
    BY <1>1 DEF RunInv, TypeOK, FaultFree, Migs
  <2>1. \E v \in Versions : config \in ConfigsAt(v) \/ \E n \in Versions : aside[n] \in ConfigsAt(v)
    <3>0. CASE Stuck
      BY <3>0 DEF Stuck, ConfigsAt, Stores, Versions
    <3>1. CASE pc \in {"idle", "applyKeys", "revertKeys"}
      BY <2>0, <3>0, <3>1 DEF Converted, Agreed
    <3>2. CASE pc \in {"rename", "truncate2", "write2"}
      BY <2>0, <3>2 DEF Converted, Versions
    <3>3. CASE pc \in {"create", "convert", "restore"}
      BY <2>0, <3>3 DEF Converted, Versions
    <3>4. CASE pc \in {"spec", "truncate", "write", "readPhase"}
      BY <2>0, <3>0, <3>4 DEF Converted, Versions
    <3>5. CASE pc = "convert2"
      BY <2>0, <3>5 DEF Converted, Versions
    <3>6. CASE pc \in {"phase", "truncatePhase", "writePhase"}
      BY <2>0, <3>6 DEF Converted, Done, Versions
    <3> QED
      BY <2>0, <3>1, <3>2, <3>3, <3>4, <3>5, <3>6 DEF PCs, Converted
  <2> QED
    BY <2>1, Conversions DEF SettingsSurvive
<1> QED
  BY <1>1, FaultFreeHolds, RunHolds, PTL

-----------------------------------------------------------------------------
(* After one failing operation                                             *)

\* At first the config is in place.
LEMMA ConfigAtFirst == Init => ConfigInv
<1> SUFFICES ASSUME Init PROVE ConfigInv
  OBVIOUS
<1>1. Good(config) /\ pc = "idle" /\ \A n \in Versions : aside[n] = NoFile
  BY Conversions DEF Init, ConfigsAt, Good
<1> QED
  BY <1>1 DEF ConfigInv, InPlace, Versions

\* Every step keeps the config until the second failing operation.
LEMMA ConfigStepKeeps ==
  ASSUME RunInv, FaultFree, ConfigInv, [Next]_vars
  PROVE  ConfigInv'
<1> USE DEF RunInv, ConfigInv, InPlace, Renamed, PutAside, LeftByApply, LeftByRevert, Good, Done, Lowering,
       VersionRead, Position, PhaseNoted, Migs, Versions, Blank, Error, End, repo, counts, run
<1>t. /\ version \in Versions \cup {Blank} /\ mig \in {5, 6, 7} /\ phase \in 0 .. 4
      /\ kills \in Nat /\ errors \in Nat /\ aside \in [Versions -> File]
  BY DEF TypeOK
<1>d. \A c \in Config : Up(c) \in Config /\ Down(c) \in Config
  BY Conversions
<1>g. Good(NoFile) = FALSE /\ Good(Torn) = FALSE
  BY DEF Good
<1>1. ASSUME NEW m \in Migs, StartApply(m), UNCHANGED recordVars PROVE ConfigInv'
  BY <1>t, <1>d, <1>g, <1>1 DEF StartApply
<1>2. ASSUME NEW m \in Migs, StartRevert(m), UNCHANGED recordVars PROVE ConfigInv'
  BY <1>t, <1>d, <1>g, <1>2 DEF StartRevert
<1>3. CASE RenameAside /\ UNCHANGED recordVars
  BY <1>t, <1>d, <1>g, <1>3 DEF RenameAside
<1>4. CASE CreateConfig /\ UNCHANGED recordVars
  BY <1>t, <1>d, <1>g, <1>4 DEF CreateConfig
<1>5. CASE ConvertUp /\ UNCHANGED recordVars
  BY <1>t, <1>d, <1>g, <1>5 DEF ConvertUp, CanUp
<1>6. CASE ConvertUpFails /\ UNCHANGED recordVars
  <2>1. kills = 0 /\ errors = 0 => phasefile = NoFile
    BY <1>6 DEF ConvertUpFails, FaultFree
  <2>2. /\ pc = "convert" /\ Good(aside[mig]) /\ errors' = errors + 1 /\ kills' = kills /\ refused' = refused
        /\ pc' = IF mig = 5 THEN "spec" ELSE "restore"
        /\ UNCHANGED <<version, config, aside, phasefile, mig, phase>>
    BY <1>6 DEF ConvertUpFails, CanUp
  <2>3. CASE mig = 5
    BY <1>t, <1>g, <2>1, <2>2, <2>3
  <2>4. CASE mig # 5
    BY <1>t, <1>g, <2>2, <2>4
  <2> QED
    BY <2>3, <2>4
<1>7. CASE Restore /\ UNCHANGED recordVars
  BY <1>t, <1>d, <1>g, <1>7 DEF Restore
<1>8. CASE WriteSpec /\ UNCHANGED recordVars
  BY <1>t, <1>d, <1>g, <1>8 DEF WriteSpec
<1>9. CASE WriteSpecFails /\ UNCHANGED recordVars
  BY <1>t, <1>d, <1>g, <1>9 DEF WriteSpecFails
<1>10. CASE TruncateVersion /\ UNCHANGED recordVars
  BY <1>t, <1>d, <1>g, <1>10 DEF TruncateVersion
<1>11. CASE WriteVersion /\ UNCHANGED recordVars
  BY <1>t, <1>d, <1>g, <1>11 DEF WriteVersion
<1>12. CASE ReadPhase /\ UNCHANGED recordVars
  BY <1>t, <1>d, <1>g, <1>12 DEF ReadPhase
<1>13. CASE Phase0 /\ UNCHANGED recordVars
  BY <1>t, <1>d, <1>g, <1>13 DEF Phase0
<1>14. CASE Phase1 /\ UNCHANGED recordVars
  BY <1>t, <1>d, <1>g, <1>14 DEF Phase1
<1>15. CASE ConvertDown /\ UNCHANGED recordVars
  BY <1>t, <1>d, <1>g, <1>15 DEF ConvertDown, CanDown
<1>16. CASE ConvertDownFails /\ UNCHANGED recordVars
  BY <1>t, <1>d, <1>g, <1>16 DEF ConvertDownFails, CanDown
<1>17. CASE Phase2 /\ UNCHANGED recordVars
  BY <1>t, <1>d, <1>g, <1>17 DEF Phase2
<1>18. CASE PhaseVersion /\ UNCHANGED recordVars
  BY <1>t, <1>d, <1>g, <1>18 DEF PhaseVersion
<1>19. CASE LowerVersion /\ UNCHANGED recordVars
  BY <1>t, <1>d, <1>g, <1>19 DEF LowerVersion
<1>20. CASE PhaseEmpty /\ UNCHANGED recordVars
  BY <1>t, <1>d, <1>g, <1>20 DEF PhaseEmpty
<1>21. CASE TruncatePhase /\ UNCHANGED recordVars
  BY <1>t, <1>d, <1>g, <1>21 DEF TruncatePhase
<1>22. CASE WritePhase /\ UNCHANGED recordVars
  BY <1>t, <1>d, <1>g, <1>22 DEF WritePhase
<1>23. CASE EndRevert /\ UNCHANGED recordVars
  BY <1>t, <1>d, <1>g, <1>23 DEF EndRevert
<1>24. CASE KeysDone /\ UNCHANGED recordVars
  BY <1>t, <1>d, <1>g, <1>24 DEF KeysDone
<1>25. CASE OperationFails /\ UNCHANGED recordVars
  <2> SUFFICES ASSUME kills = 0, errors = 0, refused = "no" PROVE ConfigInv'
    BY <1>t, <1>25 DEF OperationFails
  <2>1. /\ errors' = 1 /\ kills' = 0 /\ UNCHANGED <<refused, version, config, aside, phasefile, mig, phase>>
        /\ pc' = IF pc = "create" THEN "restore" ELSE "idle"
        /\ pc \in {"rename", "create", "restore", "truncate", "write", "phase", "truncate2", "write2",
                  "truncatePhase", "writePhase", "applyKeys", "revertKeys"}
    BY <1>25 DEF OperationFails
  <2>2. CASE InPlace
    BY <2>1, <2>2
  <2>3. CASE Renamed
    BY <2>1, <2>3
  <2>4. CASE PutAside
    BY <1>t, <2>1, <2>4
  <2> QED
    BY <2>2, <2>3, <2>4
<1>26. CASE Kill /\ UNCHANGED recordVars
  BY <1>t, <1>d, <1>g, <1>26 DEF Kill
<1>27. CASE OpenRepo
  BY <1>t, <1>d, <1>g, <1>27 DEF OpenRepo
<1>31. ASSUME NEW s \in Stores, EditStore(s), UNCHANGED recordVars PROVE ConfigInv'
  <2>1. Good(config) /\ config' = [config EXCEPT !.store = s] /\ pc = "idle"
        /\ UNCHANGED <<version, spec, phasefile, pc, mig, phase, kills, errors, refused>>
        /\ aside' = [n \in Versions |-> IF aside[n] \in Config
                                       THEN [aside[n] EXCEPT !.owner = "partly"] ELSE aside[n]]
    BY <1>31 DEF EditStore
  <2>2. Good(config')
    BY <2>1, Conversions
  <2>3. \A n \in Versions : aside[n] \in Config \cup {NoFile} => aside'[n] \in Config \cup {NoFile}
    BY <2>1, Conversions
  <2> QED
    BY <1>g, <2>1, <2>2, <2>3
<1>28. ASSUME NEW k \in Keys, KeyStep(k) PROVE ConfigInv'
  BY <1>t, <1>d, <1>g, <1>28 DEF KeyStep
<1>29. ASSUME NEW k \in Keys, DaemonPublish(k) PROVE ConfigInv'
  BY <1>t, <1>d, <1>g, <1>29 DEF DaemonPublish
<1>30. CASE UNCHANGED vars
  BY <1>t, <1>d, <1>g, <1>30 DEF vars
<1> QED
  BY <1>1, <1>2, <1>3, <1>4, <1>5, <1>6, <1>7, <1>8, <1>9, <1>10, <1>11, <1>12, <1>13, <1>14,
     <1>15, <1>16, <1>17, <1>18, <1>19, <1>20, <1>21, <1>22, <1>23, <1>24, <1>25, <1>26, <1>27,
     <1>28, <1>29, <1>30, <1>31 DEF Next, ConfigStep

\* For any keys and any order of runs: until the first kill, a single failing
\* operation never costs the config.
THEOREM ConfigBeforeKills == Spec => []ConfigUntilKill
<1>1. ASSUME RunInv, ConfigInv PROVE ConfigUntilKill
  <2> SUFFICES ASSUME kills = 0, errors <= 1, refused = "no" PROVE ConfigSurvives
    BY DEF ConfigUntilKill
  <2>1. Good(config) \/ \E n \in Versions : Good(aside[n])
    <3>1. mig \in Versions /\ version \in Versions \cup {Blank} /\ {5, 6, 8} \subseteq Versions
      BY <1>1 DEF RunInv, TypeOK, Migs, Versions
    <3> QED
      BY <1>1, <3>1 DEF ConfigInv, InPlace, Renamed, PutAside, LeftByApply, LeftByRevert
  <2> QED
    BY <2>1 DEF ConfigSurvives, Good
<1>2. Spec => []ConfigInv
  BY ConfigAtFirst, ConfigStepKeeps, FaultFreeHolds, RunHolds, PTL DEF Spec
<1> QED
  BY <1>1, <1>2, RunHolds, PTL

=============================================================================

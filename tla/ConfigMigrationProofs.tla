----------------------- MODULE ConfigMigrationProofs -----------------------
(***************************************************************************)
(* ConfigMigration is type correct, its three fault-tolerant invariants    *)
(* hold, and up to the first fault it implements VersionedConfig, for      *)
(* every set of processes, every range of versions and every number of     *)
(* faults and edits.                                                       *)
(***************************************************************************)
EXTENDS ConfigRefinement, TLAPS

USE VersionsAssumption, NoFileAssumption, NoProcAssumption, BoundsAssumption

\* convert yields a config, and adds one conversion of its own step.
LEMMA ConvertLemma ==
  ASSUME NEW c \in Content, NEW i \in Steps
  PROVE  /\ Convert(c, i) \in Content
         /\ Convert(c, i).conv[i] = c.conv[i] + 1
         /\ \A j \in Steps \ {i} : Convert(c, i).conv[j] = c.conv[j]
  BY DEF Content, Convert

\* The initial states are well typed.
LEMMA InitTypeOK == Init => TypeOK
<1> SUFFICES ASSUME Init PROVE TypeOK
  OBVIOUS
<1>1. config \in Content
  BY DEF Init, Content, Steps, Versions
<1> QED
  BY <1>1 DEF Init, TypeOK, Steps, Versions, PCs

\* Every variable keeps its type, whatever fails.
THEOREM TypeCorrect == Spec => []TypeOK
<1>1. Init => TypeOK
  BY InitTypeOK
<1>2. TypeOK /\ [Next]_vars => TypeOK'
  <2> SUFFICES ASSUME TypeOK, [Next]_vars PROVE TypeOK'
    OBVIOUS
  <2> USE DEF TypeOK
  <2>1. ASSUME NEW p \in Procs, NEW o \in {"apply", "revert"}, NEW i \in Steps,
               Start(p, o, i)
        PROVE TypeOK'
    BY <2>1 DEF Start, Goto, files, PCs
  <2>2. ASSUME NEW p \in Procs, CheckVersion(p) PROVE TypeOK'
    BY <2>2 DEF CheckVersion, Goto, files, PCs
  <2>3. ASSUME NEW p \in Procs, MakeBackup(p) PROVE TypeOK'
    BY <2>3 DEF MakeBackup, Goto, files, PCs
  <2>4. ASSUME NEW p \in Procs, ConvertConfig(p) PROVE TypeOK'
    <3>1. Convert(config, step[p]) \in Content
      BY ConvertLemma
    <3> QED
      BY <2>4, <3>1 DEF ConvertConfig, Goto, files, PCs
  <2>5. ASSUME NEW p \in Procs, CloseIn(p) \/ CloseInFails(p) PROVE TypeOK'
    BY <2>5 DEF CloseIn, CloseInFails, Fault, DropTemps, Goto, files, PCs
  <2>6. ASSUME NEW p \in Procs, TruncateVersion(p) PROVE TypeOK'
    BY <2>6 DEF TruncateVersion, Goto, PCs
  <2>7. ASSUME NEW p \in Procs, WriteVersion(p) PROVE TypeOK'
    <3>1. Target(p) \in Versions
      BY DEF Target, Steps, Versions
    <3> QED
      BY <2>7, <3>1 DEF WriteVersion, Goto, PCs
  <2>8. ASSUME NEW p \in Procs, CloseOut(p) \/ CloseOutPanics(p) PROVE TypeOK'
    BY <2>8 DEF CloseOut, CloseOutPanics, Goto, files, PCs
  <2>9. ASSUME NEW p \in Procs, CloseBackup(p) PROVE TypeOK'
    BY <2>9 DEF CloseBackup, Goto, PCs
  <2>10. ASSUME NEW p \in Procs, RenameBackup(p) PROVE TypeOK'
    BY <2>10 DEF RenameBackup, Goto, PCs
  <2>11. ASSUME NEW p \in Procs, OperationFails(p) PROVE TypeOK'
    BY <2>11 DEF OperationFails, GiveUp, Fault, Temps, DropTemps, Goto, PCs
  <2>12. ASSUME NEW p \in Procs, CloseFails(p) PROVE TypeOK'
    BY <2>12 DEF CloseFails, GiveUp, Fault, Temps, DropTemps, Goto, PCs
  <2>13. ASSUME NEW p \in Procs, Unlock(p) PROVE TypeOK'
    BY <2>13 DEF Unlock, Goto, files, PCs
  <2>14. ASSUME NEW p \in Procs, Kill(p) PROVE TypeOK'
    BY <2>14 DEF Kill, Fault, Temps, DropTemps, Goto, PCs
  <2>15. CASE EditConfig
    BY <2>15 DEF EditConfig, procs, Content
  <2>16. CASE UNCHANGED vars
    BY <2>16 DEF vars
  <2> QED
    BY <2>1, <2>2, <2>3, <2>4, <2>5, <2>6, <2>7, <2>8, <2>9, <2>10, <2>11,
       <2>12, <2>13, <2>14, <2>15, <2>16 DEF Next, Run
<1> QED
  BY <1>1, <1>2, PTL DEF Spec

\* While one process runs, every other one is idle, so that a step of p
\* preserves the invariant if it preserves its shared part and p's own.
LEMMA OthersIdle ==
  ASSUME TypeOK, RunsExclude, NEW p \in Procs, pc[p] # "idle",
         NEW x, Goto(p, x)
  PROVE  \A q \in Procs \ {p} : pc[q] = "idle" /\ pc'[q] = "idle"
  BY DEF TypeOK, RunsExclude, Goto

\* The shared part of the invariant does not mention the temporary files,
\* the orphans or the counters.
SharedInv == NoDoubleConversion /\ ConfigNeverAhead /\ BackupIsPrior /\ BackupsInOrder

LEMMA SharedFrame ==
  ASSUME SharedInv, UNCHANGED <<version, config, backup, replaced>>
  PROVE  SharedInv'
  BY DEF SharedInv, NoDoubleConversion, ConfigNeverAhead, BackupIsPrior,
         BackupsInOrder, Before, Once

\* IInv is inductive.
LEMMA Inductive == IInv /\ TypeOK' /\ [Next]_vars => IInv'
<1> SUFFICES ASSUME IInv, TypeOK', [Next]_vars PROVE IInv'
  OBVIOUS
<1>0. SharedInv /\ TypeOK /\ RunsExclude /\ \A p \in Procs : RunInv(p)
  BY DEF IInv, SharedInv
<1> SUFFICES SharedInv' /\ RunsExclude' /\ \A p \in Procs : RunInv(p)'
  BY DEF IInv, SharedInv
<1>1. ASSUME NEW p \in Procs, NEW o \in {"apply", "revert"}, NEW i \in Steps,
             Start(p, o, i)
      PROVE SharedInv' /\ RunsExclude' /\ \A q \in Procs : RunInv(q)'
  <2>1. SharedInv'
    BY <1>0, <1>1, SharedFrame DEF Start, files
  <2>2. \A q \in Procs : pc'[q] = IF q = p THEN "check" ELSE "idle"
    BY <1>0, <1>1 DEF Start, Goto, TypeOK, RunsExclude
  <2>3. RunsExclude'
    BY <2>2, <1>1 DEF RunsExclude, Start
  <2>4. ASSUME NEW q \in Procs PROVE RunInv(q)'
    BY <2>2 DEF RunInv, ApplyPCs, Writing
  <2> QED
    BY <2>1, <2>3, <2>4
<1>2. ASSUME NEW p \in Procs, Run(p) \/ Kill(p),
             SharedInv', RunInv(p)'
      PROVE SharedInv' /\ RunsExclude' /\ \A q \in Procs : RunInv(q)'
  <2>1. pc[p] # "idle" /\ lock = p
    BY <1>0, <1>2 DEF RunsExclude, Run, Kill, CheckVersion, MakeBackup,
       ConvertConfig, CloseIn, CloseInFails, TruncateVersion, WriteVersion,
       CloseOut, CloseOutPanics, CloseBackup, RenameBackup, OperationFails,
       CloseFails, Unlock
  <2>2. /\ \E x : Goto(p, x)
        /\ lock' = lock \/ pc'[p] = "idle"
    BY <1>0, <1>2 DEF Run, Kill, CheckVersion, MakeBackup,
       ConvertConfig, CloseIn, CloseInFails, TruncateVersion, WriteVersion,
       CloseOut, CloseOutPanics, CloseBackup, RenameBackup, OperationFails,
       CloseFails, Unlock, GiveUp, Goto, TypeOK
  <2>3. \A q \in Procs \ {p} : pc'[q] = "idle"
    BY <1>0, <2>1, <2>2, OthersIdle
  <2>4. RunsExclude'
    BY <2>1, <2>2, <2>3 DEF RunsExclude
  <2>5. ASSUME NEW q \in Procs \ {p} PROVE RunInv(q)'
    BY <2>3 DEF RunInv, ApplyPCs, Writing
  <2> QED
    BY <1>2, <2>4, <2>5
<1>3. ASSUME NEW p \in Procs, CheckVersion(p) PROVE SharedInv' /\ RunInv(p)'
  <2>1. SharedInv'
    BY <1>0, <1>3, SharedFrame DEF CheckVersion, files
  <2>2. RunInv(p)'
    BY <1>0, <1>3 DEF CheckVersion, Expected, Goto, files, TypeOK, RunInv,
       ApplyPCs, Writing
  <2> QED
    BY <2>1, <2>2
<1>4. ASSUME NEW p \in Procs, MakeBackup(p) PROVE SharedInv' /\ RunInv(p)'
  <2>1. SharedInv'
    BY <1>0, <1>4, SharedFrame DEF MakeBackup, files
  <2>2. RunInv(p)'
    BY <1>0, <1>4 DEF MakeBackup, Goto, files, TypeOK, RunInv, ApplyPCs, Writing
  <2> QED
    BY <2>1, <2>2
<1>5. ASSUME NEW p \in Procs, ConvertConfig(p) PROVE SharedInv' /\ RunInv(p)'
  <2>1. SharedInv'
    BY <1>0, <1>5, SharedFrame DEF ConvertConfig, files
  <2>2. RunInv(p)'
    <3>1. /\ pc'[p] = "closeIn" /\ op'[p] = "apply" /\ version' = step'[p]
          /\ tmpBak'[p] = config'
      BY <1>0, <1>5 DEF ConvertConfig, Goto, files, TypeOK, RunInv, ApplyPCs
    <3>2. tmpOut'[p] = Convert(config', step'[p])
      BY <1>0, <1>5 DEF ConvertConfig, files, TypeOK
    <3> QED
      BY <3>1, <3>2 DEF RunInv, ApplyPCs, Writing, Convert
  <2> QED
    BY <2>1, <2>2
<1>6. ASSUME NEW p \in Procs, CloseIn(p) \/ CloseInFails(p)
      PROVE SharedInv' /\ RunInv(p)'
  <2>1. SharedInv'
    BY <1>0, <1>6, SharedFrame DEF CloseIn, CloseInFails, files
  <2>2. /\ pc'[p] = "truncate" /\ op'[p] = "apply" /\ step'[p] = step[p]
        /\ version = step[p] /\ UNCHANGED <<version, config, backup>>
        /\ \/ tmpOut'[p] = tmpOut[p] /\ tmpBak'[p] = tmpBak[p]
           \/ tmpOut'[p] = NoFile /\ tmpBak'[p] = NoFile
    BY <1>0, <1>6 DEF CloseIn, CloseInFails, DropTemps, Goto, files, TypeOK,
       RunInv, ApplyPCs
  <2>3. Before(config, step[p])
    BY <1>0, <2>2 DEF SharedInv, ConfigNeverAhead, Before, TypeOK, Versions, Steps
  <2>4. \A i \in Steps : backup[i] # NoFile => i < step[p]
    BY <1>0, <2>2 DEF SharedInv, BackupsInOrder, TypeOK, Versions, Steps
  <2>5. /\ tmpOut[p] # NoFile => tmpOut[p] = Convert(config, step[p])
        /\ tmpBak[p] # NoFile => tmpBak[p] = config
    BY <1>0, <1>6, <2>2 DEF RunInv, CloseIn, CloseInFails, ApplyPCs
  <2>6. Before(config', step'[p]) /\ Convert(config', step'[p]) = Convert(config, step[p])
    BY <2>2, <2>3 DEF Before, Convert
  <2> QED
    <3>1. RunInv(p)'
      BY <2>2, <2>4, <2>5, <2>6 DEF RunInv, ApplyPCs, Writing, Before, Convert
    <3> QED
      BY <3>1, <2>1
<1>7. ASSUME NEW p \in Procs, TruncateVersion(p) PROVE SharedInv' /\ RunInv(p)'
  <2>1. Blank \notin Versions
    BY DEF Blank, Versions
  <2>2. SharedInv'
    BY <1>0, <1>7, <2>1 DEF TruncateVersion, SharedInv, NoDoubleConversion,
       ConfigNeverAhead, BackupIsPrior, BackupsInOrder, Before, Once
  <2>3. /\ pc[p] = "truncate" /\ pc'[p] = "write" /\ op'[p] = op[p]
        /\ UNCHANGED <<config, backup, step, tmpOut, tmpBak, replaced>>
    BY <1>0, <1>7 DEF TruncateVersion, Goto, TypeOK
  <2>4. RunInv(p)'
    BY <1>0, <2>3 DEF RunInv, ApplyPCs, Writing, Before, Convert
  <2> QED
    BY <2>2, <2>4
<1>8. ASSUME NEW p \in Procs, WriteVersion(p) PROVE SharedInv' /\ RunInv(p)'
  <2>1. /\ pc[p] = "write" /\ op'[p] = op[p] /\ version' = Target(p)
        /\ pc'[p] = IF op[p] = "apply" THEN "closeOut" ELSE "unlock"
        /\ UNCHANGED <<config, backup, step, tmpOut, tmpBak, replaced>>
    BY <1>0, <1>8 DEF WriteVersion, Goto, TypeOK
  <2>2. /\ Before(config, step[p])
        /\ \A i \in Steps : backup[i] # NoFile => i < step[p]
    BY <1>0, <2>1 DEF RunInv, Writing
  <2>3. step[p] \in Steps /\ version' \in {step[p], step[p] + 1}
    BY <1>0, <2>1 DEF Target, TypeOK
  <2>4. ConfigNeverAhead'
    BY <2>1, <2>2, <2>3 DEF ConfigNeverAhead, Before, Steps, Versions
  <2>5. BackupsInOrder'
    BY <1>0, <2>1, <2>2, <2>3 DEF SharedInv, BackupsInOrder, Before, Once, Steps, Versions
  <2>6. NoDoubleConversion' /\ BackupIsPrior'
    BY <1>0, <2>1 DEF SharedInv, NoDoubleConversion, BackupIsPrior
  <2>7. RunInv(p)'
    BY <1>0, <2>1, <2>2 DEF RunInv, ApplyPCs, Writing, Before, Convert, Target, TypeOK
  <2> QED
    BY <2>4, <2>5, <2>6, <2>7 DEF SharedInv
<1>9. ASSUME NEW p \in Procs, CloseOut(p) PROVE SharedInv' /\ RunInv(p)'
  <2>1. /\ pc[p] = "closeOut" /\ pc'[p] = "closeBackup" /\ op[p] = "apply"
        /\ step[p] \in Steps /\ version = step[p] + 1
        /\ config' = Convert(config, step[p])
        /\ replaced' = [replaced EXCEPT ![step[p]] = config]
        /\ UNCHANGED <<version, backup, op, step, tmpBak>>
    BY <1>0, <1>9 DEF CloseOut, Goto, TypeOK, RunInv, ApplyPCs
  <2>2. /\ Before(config, step[p])
        /\ \A i \in Steps : backup[i] # NoFile => i < step[p]
        /\ tmpBak[p] # NoFile => tmpBak[p] = config
    BY <1>0, <2>1 DEF RunInv, Writing
  <2>3. /\ config'.conv[step[p]] = config.conv[step[p]] + 1
        /\ \A j \in Steps \ {step[p]} : config'.conv[j] = config.conv[j]
    BY <1>0, <2>1, ConvertLemma DEF TypeOK
  <2>4. config.conv[step[p]] = 0
    BY <2>1, <2>2 DEF Before, Steps
  <2>5. NoDoubleConversion'
    BY <1>0, <2>3, <2>4 DEF SharedInv, NoDoubleConversion
  <2>6. ConfigNeverAhead'
    BY <2>1, <2>2, <2>3 DEF ConfigNeverAhead, Before, Steps, Versions
  <2>7. BackupIsPrior'
    BY <1>0, <2>1, <2>2 DEF SharedInv, BackupIsPrior, TypeOK, Steps
  <2>8. BackupsInOrder'
    BY <1>0, <2>1 DEF SharedInv, BackupsInOrder, Before, Once
  <2>9. Once(config)
    BY <1>0 DEF SharedInv, NoDoubleConversion, Once
  <2>10. /\ tmpBak'[p] # NoFile => /\ tmpBak'[p] = replaced'[step'[p]]
                                   /\ Before(tmpBak'[p], step'[p])
                                   /\ Once(tmpBak'[p])
         /\ \A i \in Steps : backup'[i] # NoFile => i < step'[p]
         /\ version' = step'[p] + 1 /\ op'[p] = "apply"
    BY <1>0, <2>1, <2>2, <2>9 DEF TypeOK
  <2>11. RunInv(p)'
    BY <2>1, <2>10 DEF RunInv, ApplyPCs, Writing, Before, Once
  <2> QED
    BY <2>5, <2>6, <2>7, <2>8, <2>11 DEF SharedInv
<1>10. ASSUME NEW p \in Procs, CloseOutPanics(p) PROVE SharedInv' /\ RunInv(p)'
  <2>1. SharedInv'
    BY <1>0, <1>10, SharedFrame DEF CloseOutPanics, files
  <2>2. RunInv(p)'
    BY <1>0, <1>10 DEF CloseOutPanics, Goto, TypeOK, RunInv, ApplyPCs, Writing
  <2> QED
    BY <2>1, <2>2
<1>11. ASSUME NEW p \in Procs, CloseBackup(p) PROVE SharedInv' /\ RunInv(p)'
  <2>1. /\ pc[p] = "closeBackup" /\ pc'[p] = "unlock" /\ step[p] \in Steps
        /\ backup' = [backup EXCEPT ![step[p]] = tmpBak[p]]
        /\ UNCHANGED <<version, config, replaced>>
    BY <1>0, <1>11 DEF CloseBackup, Goto, TypeOK
  <2>2. /\ version = step[p] + 1
        /\ tmpBak[p] # NoFile => /\ tmpBak[p] = replaced[step[p]]
                                 /\ Before(tmpBak[p], step[p])
                                 /\ Once(tmpBak[p])
    BY <1>0, <2>1 DEF RunInv
  <2>3. NoDoubleConversion' /\ ConfigNeverAhead'
    BY <1>0, <2>1 DEF SharedInv, NoDoubleConversion, ConfigNeverAhead
  <2>4. \A i \in Steps : backup'[i] = IF i = step[p] THEN tmpBak[p] ELSE backup[i]
    BY <1>0, <2>1 DEF TypeOK
  <2>5. BackupIsPrior'
    BY <1>0, <2>1, <2>2, <2>4 DEF SharedInv, BackupIsPrior
  <2>6. BackupsInOrder'
    BY <1>0, <2>1, <2>2, <2>4 DEF SharedInv, BackupsInOrder, Before, Once, Steps
  <2>7. RunInv(p)'
    BY <2>1 DEF RunInv, ApplyPCs, Writing
  <2> QED
    BY <2>3, <2>5, <2>6, <2>7 DEF SharedInv
<1>12. ASSUME NEW p \in Procs, RenameBackup(p) PROVE SharedInv' /\ RunInv(p)'
  <2>1. /\ pc[p] = "rename" /\ op[p] = "revert" /\ op' = op /\ step' = step
        /\ version = step[p] + 1 /\ step[p] \in Steps
        /\ UNCHANGED <<version, replaced>>
    BY <1>0, <1>12 DEF RenameBackup, TypeOK, RunInv
  <2>2. CASE backup[step[p]] = NoFile
    <3>1. pc'[p] = "unlock" /\ UNCHANGED <<version, config, backup, replaced>>
      BY <1>0, <1>12, <2>2 DEF RenameBackup, Goto, TypeOK
    <3>2. SharedInv'
      BY <1>0, <3>1, SharedFrame
    <3>3. RunInv(p)'
      BY <3>1 DEF RunInv, ApplyPCs, Writing
    <3> QED
      BY <3>2, <3>3
  <2>3. CASE backup[step[p]] # NoFile
    <3>1. /\ pc'[p] = "truncate" /\ config' = backup[step[p]]
          /\ \A i \in Steps : backup'[i] = IF i = step[p] THEN NoFile ELSE backup[i]
      BY <1>0, <1>12, <2>3 DEF RenameBackup, Goto, TypeOK
    <3>2. Before(config', step[p]) /\ Once(config')
      BY <1>0, <2>1, <2>3, <3>1 DEF SharedInv, BackupsInOrder
    <3>3. \A i \in Steps : backup'[i] # NoFile => i < step[p]
      BY <1>0, <2>1, <3>1 DEF SharedInv, BackupsInOrder, Versions, Steps
    <3>4. NoDoubleConversion' /\ ConfigNeverAhead'
      BY <2>1, <3>2 DEF NoDoubleConversion, ConfigNeverAhead, Before, Once, Steps, Versions
    <3>5. BackupIsPrior' /\ BackupsInOrder'
      BY <1>0, <2>1, <3>1, <3>3 DEF SharedInv, BackupIsPrior, BackupsInOrder,
         Before, Once, Steps, Versions
    <3>6. RunInv(p)'
      BY <2>1, <3>1, <3>2, <3>3 DEF RunInv, ApplyPCs, Writing, Before
    <3> QED
      BY <3>4, <3>5, <3>6 DEF SharedInv
  <2> QED
    BY <2>2, <2>3
<1>13. ASSUME NEW p \in Procs,
              OperationFails(p) \/ CloseFails(p) \/ Unlock(p) \/ Kill(p)
       PROVE SharedInv' /\ RunInv(p)'
  <2>1. UNCHANGED <<version, config, backup, replaced>> /\ pc'[p] \in {"idle", "unlock"}
    BY <1>0, <1>13 DEF OperationFails, CloseFails, Unlock, Kill, GiveUp, Goto,
       files, TypeOK
  <2>2. SharedInv'
    BY <1>0, <2>1, SharedFrame
  <2>3. RunInv(p)'
    BY <2>1 DEF RunInv, ApplyPCs, Writing
  <2> QED
    BY <2>2, <2>3
<1>14. CASE EditConfig
  <2>1. /\ lock = NoProc /\ UNCHANGED <<version, backup, lock, pc, replaced>>
        /\ config'.conv = config.conv
    BY <1>0, <1>14 DEF EditConfig, procs, TypeOK, Content
  <2>2. \A q \in Procs : pc'[q] = "idle"
    BY <1>0, <2>1 DEF RunsExclude
  <2>3. SharedInv'
    BY <1>0, <2>1 DEF SharedInv, NoDoubleConversion, ConfigNeverAhead,
       BackupIsPrior, BackupsInOrder, Before, Once
  <2> QED
    BY <2>2, <2>3 DEF RunsExclude, RunInv, ApplyPCs, Writing
<1>15. CASE UNCHANGED vars
  <2>1. SharedInv' /\ RunsExclude'
    BY <1>0, <1>15, SharedFrame DEF vars, RunsExclude
  <2>2. \A p \in Procs : RunInv(p)'
    BY <1>0, <1>15 DEF vars, RunInv, ApplyPCs, Writing, Before, Once, Convert
  <2> QED
    BY <2>1, <2>2
<1> QED
  BY <1>1, <1>2, <1>3, <1>4, <1>5, <1>6, <1>7, <1>8, <1>9, <1>10, <1>11, <1>12,
     <1>13, <1>14, <1>15 DEF Next, Run

\* The initial states satisfy the invariant: there are no backups yet, and
\* the config has exactly the conversions of the versions below its own.
LEMMA InitIInv == Init => IInv
<1> SUFFICES ASSUME Init, TypeOK PROVE IInv
  BY InitTypeOK
<1>1. \A j \in Steps : config.conv[j] = IF j < version THEN 1 ELSE 0
  BY DEF Init
<1>2. NoDoubleConversion /\ ConfigNeverAhead
  BY <1>1 DEF NoDoubleConversion, ConfigNeverAhead, Steps, Versions
<1>3. BackupIsPrior /\ BackupsInOrder
  BY DEF Init, BackupIsPrior, BackupsInOrder
<1>4. RunsExclude /\ \A p \in Procs : RunInv(p)
  BY DEF Init, RunsExclude, RunInv, ApplyPCs, Writing
<1> QED
  BY <1>2, <1>3, <1>4 DEF IInv

\* The inductive invariant holds in every reachable state.
THEOREM InvariantHolds == Spec => []IInv
  BY InitIInv, Inductive, TypeCorrect, PTL DEF Spec

\* Whatever fails and whenever a process is killed, no conversion reaches
\* the same config twice.
THEOREM ConvertsOnce == Spec => []NoDoubleConversion
<1>1. IInv => NoDoubleConversion
  BY DEF IInv
<1> QED
  BY <1>1, InvariantHolds, PTL

\* Whatever fails and whenever a process is killed, a config in the format
\* of version v is never announced by a lower version.
THEOREM NeverAhead == Spec => []ConfigNeverAhead
<1>1. IInv => ConfigNeverAhead
  BY DEF IInv
<1> QED
  BY <1>1, InvariantHolds, PTL

\* Whatever fails and whenever a process is killed, what Revert finds to
\* restore is the config that the step's latest Apply replaced.
THEOREM RevertsToPrior == Spec => []BackupIsPrior
<1>1. IInv => BackupIsPrior
  BY DEF IInv
<1> QED
  BY <1>1, InvariantHolds, PTL

-----------------------------------------------------------------------------
(* Up to the first fault                                                   *)

Only(p) == \A q \in Procs \ {p} : pc[q] = "idle"

\* A run is alone: p is past Start and nobody else is, before its step and
\* after it.
LEMMA Alone ==
  ASSUME IInv, NEW p \in Procs, Run(p)
  PROVE  pc[p] # "idle" /\ Only(p) /\ Only(p)'
<1>1. pc[p] # "idle"
  BY DEF Run, CheckVersion, MakeBackup, ConvertConfig, CloseIn, CloseInFails,
     TruncateVersion, WriteVersion, CloseOut, CloseOutPanics, CloseBackup, RenameBackup,
     OperationFails, CloseFails, Unlock
<1>2. \E x : Goto(p, x)
  BY DEF Run, CheckVersion, MakeBackup, ConvertConfig, CloseIn, CloseInFails,
     TruncateVersion, WriteVersion, CloseOut, CloseOutPanics, CloseBackup, RenameBackup,
     OperationFails, CloseFails, Unlock, GiveUp, Goto
<1> QED
  BY <1>1, <1>2, OthersIdle DEF IInv, Only

\* The initial states satisfy UntilFault: nothing has been converted here.
LEMMA InitUntilFault == Init => UntilFault
  BY DEF Init, UntilFault, TempsThere, Revertible, Converting

\* What is revertible stays so when neither replaced nor backup changes.
LEMMA RevertibleFrame ==
  ASSUME NEW c, NEW S, UNCHANGED <<replaced, backup>>, Revertible(c, S)
  PROVE  Revertible(c, S)'
  BY DEF Revertible

\* No step undoes a fault, so a step that ends without one is not a fault.
LEMMA FaultFree ==
  ASSUME TypeOK, [Next]_vars, faults' = 0
  PROVE  /\ faults = 0
         /\ ~\E p \in Procs : CloseInFails(p) \/ OperationFails(p) \/ CloseFails(p) \/ Kill(p)
<1>1. faults \in Nat
  BY DEF TypeOK
<1>2. ASSUME NEW p \in Procs, CloseInFails(p) \/ OperationFails(p) \/ CloseFails(p) \/ Kill(p)
      PROVE  faults' = faults + 1
  BY <1>2 DEF CloseInFails, OperationFails, CloseFails, Kill, Fault
<1>3. ~\E p \in Procs : CloseInFails(p) \/ OperationFails(p) \/ CloseFails(p) \/ Kill(p)
  BY <1>1, <1>2
<1>4. ASSUME NEW p \in Procs, Run(p) PROVE faults' = faults
  BY <1>3, <1>4 DEF Run, CheckVersion, MakeBackup, ConvertConfig, CloseIn, TruncateVersion,
     WriteVersion, CloseOut, CloseOutPanics, CloseBackup, RenameBackup, Unlock
<1>5. ASSUME NEW p \in Procs, NEW o \in {"apply", "revert"}, NEW i \in Steps, Start(p, o, i)
      PROVE  faults' = faults
  BY <1>5 DEF Start
<1>6. CASE EditConfig
  BY <1>3, <1>6 DEF EditConfig
<1>7. CASE UNCHANGED vars
  BY <1>3, <1>7 DEF vars
<1> QED
  BY <1>3, <1>4, <1>5, <1>6, <1>7 DEF Next

\* Up to the first fault both temporary files of an Apply are there, and
\* what it has converted can be reverted.
LEMMA UntilFaultStep == IInv /\ UntilFault /\ [Next]_vars => UntilFault'
<1> SUFFICES ASSUME IInv, UntilFault, [Next]_vars, faults' = 0 PROVE UntilFault'
  BY DEF UntilFault
<1>0. /\ faults = 0
      /\ ~\E p \in Procs : CloseInFails(p) \/ OperationFails(p) \/ CloseFails(p) \/ Kill(p)
  BY FaultFree DEF IInv
<1> USE DEF IInv, TypeOK
<1>t. /\ \A q \in Procs : TempsThere(q)
      /\ \A i \in Steps : backup[i] # NoFile => Revertible(backup[i], {})
      /\ Converting = {} => Revertible(config, {})
      /\ \A q \in Converting : Revertible(tmpBak[q], {}) /\ Revertible(config, {step[q]})
  BY <1>0 DEF UntilFault
\* Steps that leave config, backups and what was replaced as they are.
<1>f. ASSUME UNCHANGED <<replaced, backup, config>>, Converting' = Converting,
             \A q \in Converting : tmpBak'[q] = tmpBak[q] /\ step'[q] = step[q],
             \A q \in Procs : TempsThere(q)'
      PROVE  UntilFault'
  <2>1. \A i \in Steps : backup'[i] # NoFile => Revertible(backup[i], {})'
    BY <1>f, <1>t, RevertibleFrame
  <2>2. Converting' = {} => Revertible(config, {})'
    BY <1>f, <1>t, RevertibleFrame
  <2>3. \A q \in Converting' : Revertible(tmpBak[q], {})' /\ Revertible(config, {step[q]})'
    BY <1>f, <1>t DEF Revertible
  <2> QED
    BY <1>f, <2>1, <2>2, <2>3 DEF UntilFault
<1>1. ASSUME NEW p \in Procs, NEW o \in {"apply", "revert"}, NEW i \in Steps, Start(p, o, i)
      PROVE  UntilFault'
  <2>1. \A q \in Procs : TempsThere(q)'
    BY <1>t, <1>1 DEF Start, Goto, files, TempsThere
  <2>2. Converting' = Converting /\ \A q \in Converting : tmpBak'[q] = tmpBak[q] /\ step'[q] = step[q]
    BY <1>1 DEF Start, Goto, files, Converting
  <2> QED
    BY <1>1, <1>f, <2>1, <2>2 DEF Start, files
<1>2. ASSUME NEW p \in Procs, Run(p) PROVE UntilFault'
  <2>0. pc[p] # "idle" /\ Only(p) /\ Only(p)'
    BY <1>2, Alone
  <2>1. ASSUME UNCHANGED <<replaced, backup, config>>, TempsThere(p)', pc[p] # "closeBackup",
               pc'[p] # "closeBackup"
        PROVE  UntilFault'
    <3>1. \A q \in Procs : TempsThere(q)'
      BY <2>0, <2>1 DEF Only, TempsThere
    <3>2. Converting = {} /\ Converting' = {}
      BY <2>0, <2>1 DEF Only, Converting
    <3> QED
      BY <2>1, <1>f, <3>1, <3>2
  <2>2. CASE \/ CheckVersion(p) \/ MakeBackup(p) \/ ConvertConfig(p) \/ CloseIn(p)
             \/ TruncateVersion(p) \/ WriteVersion(p) \/ Unlock(p)
    <3>1. UNCHANGED <<replaced, backup, config>> /\ pc[p] # "closeBackup" /\ pc'[p] # "closeBackup"
      BY <2>2 DEF CheckVersion, MakeBackup, ConvertConfig, CloseIn, TruncateVersion, WriteVersion,
                  Unlock, Goto, files
    <3>2. TempsThere(p)'
      <4>1. CASE CheckVersion(p) \/ MakeBackup(p) \/ Unlock(p)
        BY <4>1, <1>t DEF CheckVersion, MakeBackup, Unlock, Goto, files, TempsThere
      <4>2. CASE ConvertConfig(p)
        <5>1. tmpOut'[p] \in Content /\ tmpBak'[p] \in Content
          BY <4>2, ConvertLemma DEF ConvertConfig, RunInv
        <5> QED
          BY <4>2, <5>1 DEF ConvertConfig, Goto, TempsThere
      <4>3. CASE CloseIn(p) \/ TruncateVersion(p) \/ WriteVersion(p)
        BY <4>3, <1>t DEF CloseIn, TruncateVersion, WriteVersion, Goto, files, TempsThere, RunInv, ApplyPCs
      <4> QED
        BY <2>2, <4>1, <4>2, <4>3
    <3> QED
      BY <2>1, <3>1, <3>2
  <2>3. CASE CloseOut(p)
    <3>1. /\ Converting = {} /\ Converting' = {p} /\ step' = step /\ backup' = backup
          /\ step[p] \in Steps /\ op[p] = "apply"
          /\ tmpBak' = tmpBak /\ tmpBak[p] # NoFile
          /\ \A j \in Steps : replaced'[j] = IF j = step[p] THEN config ELSE replaced[j]
      BY <2>3, <2>0, <1>t DEF CloseOut, Goto, Only, Converting, TempsThere, RunInv, ApplyPCs
    <3>2. config' = Convert(config, step[p]) /\ tmpBak[p] = config
      BY <2>3, <3>1 DEF CloseOut, RunInv, Writing
    <3>3. \A j \in Steps \ {step[p]} : config'.conv[j] = config.conv[j]
      BY SMTT(30), <3>1, <3>2, ConvertLemma
    <3>4. /\ config.conv[step[p]] = 0
          /\ \A i \in Steps : backup[i] # NoFile => i < step[p] /\ backup[i].conv[step[p]] = 0
      BY <2>3, <3>1 DEF CloseOut, RunInv, Writing, Before, BackupsInOrder, Steps
    <3>5. \A i \in Steps : backup'[i] # NoFile => Revertible(backup[i], {})'
      BY <1>t, <3>1, <3>4 DEF Revertible
    <3>6. Revertible(tmpBak[p], {})' /\ Revertible(config, {step[p]})'
      BY <1>t, <3>1, <3>2, <3>3, <3>4 DEF Revertible
    <3>7. \A q \in Procs : TempsThere(q)'
      BY <2>3, <2>0, <3>1 DEF CloseOut, Goto, Only, TempsThere
    <3> QED
      BY <3>1, <3>5, <3>6, <3>7 DEF UntilFault
  <2>4. CASE CloseOutPanics(p)
    BY <2>4, <1>t DEF CloseOutPanics, TempsThere, RunInv, ApplyPCs
  <2>5. CASE CloseBackup(p)
    <3>1. /\ p \in Converting /\ Converting' = {} /\ step[p] \in Steps
          /\ \A j \in Steps : backup'[j] = IF j = step[p] THEN tmpBak[p] ELSE backup[j]
          /\ tmpBak[p] # NoFile /\ UNCHANGED <<replaced, config>>
      BY <2>5, <2>0, <1>t DEF CloseBackup, Goto, Only, Converting, TempsThere
    <3>2. \A i \in Steps : backup'[i] # NoFile => Revertible(backup[i], {})'
      BY <1>t, <3>1 DEF Revertible
    <3>3. Revertible(config, {})'
      BY <1>t, <3>1 DEF Revertible
    <3>4. \A q \in Procs : TempsThere(q)'
      BY <2>5, <2>0 DEF CloseBackup, Goto, Only, TempsThere
    <3> QED
      BY <3>1, <3>2, <3>3, <3>4 DEF UntilFault
  <2>6. CASE RenameBackup(p)
    <3>1. op[p] = "revert" /\ pc[p] = "rename" /\ pc'[p] \in {"truncate", "unlock"} /\ op' = op
          /\ step[p] \in Steps /\ version = step[p] + 1
      BY <2>6 DEF RenameBackup, Goto, RunInv
    <3>2. TempsThere(p)'
      BY <3>1 DEF TempsThere
    <3>3. CASE backup[step[p]] = NoFile
      BY <2>6, <2>1, <3>1, <3>2, <3>3 DEF RenameBackup
    <3>4. CASE backup[step[p]] # NoFile
      <4>1. /\ config' = backup[step[p]] /\ replaced' = replaced
            /\ \A j \in Steps : backup'[j] = IF j = step[p] THEN NoFile ELSE backup[j]
            /\ Converting' = {}
        BY <2>6, <2>0, <3>1, <3>4 DEF RenameBackup, Only, Converting
      <4>2. \A i \in Steps : backup[i] # NoFile => i <= step[p] /\ Before(backup[i], i)
        BY <3>1 DEF BackupsInOrder, Steps, Versions
      <4>3. ASSUME NEW i \in Steps, backup[i] # NoFile, NEW j \in Steps,
                   replaced[j] # NoFile, backup[i].conv[j] > 0
            PROVE  backup'[j] # NoFile
        <5>1. backup[j] # NoFile
          BY <1>t, <4>3 DEF Revertible
        <5>2. j # step[p]
          BY <3>1, <4>2, <4>3 DEF Before, Steps
        <5> QED
          BY <4>1, <5>1, <5>2
      <4>4. Revertible(config, {})'
        BY <3>1, <3>4, <4>1, <4>3 DEF Revertible
      <4>5. \A i \in Steps : backup'[i] # NoFile => Revertible(backup[i], {})'
        BY <4>1, <4>3 DEF Revertible
      <4>6. \A q \in Procs : TempsThere(q)'
        BY <2>0, <3>2 DEF Only, TempsThere
      <4> QED
        BY <4>1, <4>4, <4>5, <4>6 DEF UntilFault
    <3> QED
      BY <3>3, <3>4
  <2> QED
    BY <1>0, <1>2, <2>2, <2>3, <2>4, <2>5, <2>6 DEF Run
<1>3. CASE EditConfig
  <2>1. /\ config'.conv = config.conv /\ UNCHANGED <<backup, replaced, pc, step, op, tmpOut, tmpBak>>
    BY <1>3 DEF EditConfig, procs, Content
  <2>2. Converting' = Converting /\ \A q \in Procs : TempsThere(q)'
    BY <2>1, <1>t DEF Converting, TempsThere
  <2> QED
    BY <1>t, <2>1, <2>2 DEF UntilFault, Revertible
<1>4. CASE UNCHANGED vars
  <2>1. Converting' = Converting /\ \A q \in Procs : TempsThere(q)'
    BY <1>4, <1>t DEF vars, Converting, TempsThere
  <2> QED
    BY <1>4, <1>f, <2>1 DEF vars
<1> QED
  BY <1>0, <1>1, <1>2, <1>3, <1>4 DEF Next

\* The second invariant holds in every reachable state.
LEMMA UntilFaultHolds == Spec => []UntilFault
  BY InitUntilFault, UntilFaultStep, InvariantHolds, PTL DEF Spec

\* Between the runs of a repository that has met no fault, each conversion
\* that was made here can be reverted.
THEOREM OldConfigKept == Spec => []KeepsOldConfig
<1>1. IInv /\ UntilFault => KeepsOldConfig
  BY DEF IInv, RunsExclude, UntilFault, KeepsOldConfig, Converting, Revertible
<1> QED
  BY <1>1, UntilFaultHolds, InvariantHolds, PTL

\* Where the version file and the config of p's run do not agree yet.
MidwayAt(p) == \/ pc[p] \in {"write", "closeOut"}
               \/ pc[p] = "truncate" /\ op[p] = "revert"

\* The refinement mapping looks at the one run there is.
LEMMA MappedVersion ==
  \A p \in Procs : Only(p) => AbstractVersion = IF MidwayAt(p) THEN step[p] ELSE version
<1> SUFFICES ASSUME NEW p \in Procs, Only(p)
             PROVE  AbstractVersion = IF MidwayAt(p) THEN step[p] ELSE version
  OBVIOUS
<1>1. CASE MidwayAt(p)
  <2>1. Midway = {p}
    BY <1>1 DEF Only, Midway, MidwayAt
  <2>2. (CHOOSE q \in {p} : TRUE) = p
    OBVIOUS
  <2> QED
    BY <1>1, <2>1, <2>2 DEF AbstractVersion
<1>2. CASE ~MidwayAt(p)
  <2>1. Midway = {}
    BY <1>2 DEF Only, Midway, MidwayAt
  <2> QED
    BY <1>2, <2>1 DEF AbstractVersion
<1> QED
  BY <1>1, <1>2

\* An initial repository is one of VersionedConfig's.
LEMMA InitAbstract == Init => Abstract!Init
<1> SUFFICES ASSUME Init PROVE Abstract!Init
  OBVIOUS
<1>1. Midway = {}
  BY DEF Init, Midway
<1>2. AbstractVersion = version
  BY <1>1 DEF AbstractVersion
<1> QED
  BY <1>2 DEF Init, Abstract!Init, Abstract!Steps, Steps, Versions

abstractVars == <<AbstractVersion, config, replaced, edits>>

\* Up to the first fault, the rename over the config is one step of
\* VersionedConfig and no other operation of a run shows.
LEMMA StepAbstract ==
  IInv /\ UntilFault /\ [Next]_vars => [faults' = 0 => Abstract!Next]_abstractVars
<1> SUFFICES ASSUME IInv, UntilFault, [Next]_vars, faults' = 0
             PROVE  Abstract!Next \/ UNCHANGED abstractVars
  OBVIOUS
<1>0. /\ faults = 0
      /\ ~\E p \in Procs : CloseInFails(p) \/ OperationFails(p) \/ CloseFails(p) \/ Kill(p)
  BY FaultFree DEF IInv
<1>m. \A p \in Procs :
        /\ Only(p) => AbstractVersion = IF MidwayAt(p) THEN step[p] ELSE version
        /\ Only(p)' => AbstractVersion' = IF MidwayAt(p)' THEN step'[p] ELSE version'
  <2>1. (\A p \in Procs : Only(p) => AbstractVersion = IF MidwayAt(p) THEN step[p] ELSE version)'
    BY MappedVersion, PTL
  <2> QED
    BY <2>1, MappedVersion
<1> USE DEF IInv, TypeOK
<1>1. ASSUME NEW p \in Procs, NEW o \in {"apply", "revert"}, NEW i \in Steps, Start(p, o, i)
      PROVE  UNCHANGED abstractVars
  <2>1. Only(p) /\ Only(p)' /\ ~MidwayAt(p) /\ ~MidwayAt(p)'
    BY <1>1 DEF Start, Goto, Only, MidwayAt, RunsExclude
  <2> QED
    BY <1>1, <1>m, <2>1 DEF Start, files, abstractVars
<1>2. ASSUME NEW p \in Procs, Run(p) PROVE Abstract!Next \/ UNCHANGED abstractVars
  <2>0. Only(p) /\ Only(p)'
    BY <1>2, Alone
  <2>i. /\ RunInv(p) /\ step[p] \in Steps
        /\ AbstractVersion = IF MidwayAt(p) THEN step[p] ELSE version
        /\ AbstractVersion' = IF MidwayAt(p)' THEN step'[p] ELSE version'
    BY <1>m, <2>0
  <2>1. CASE \/ CheckVersion(p) \/ MakeBackup(p) \/ ConvertConfig(p) \/ CloseIn(p)
             \/ CloseBackup(p) \/ Unlock(p)
    <3>1. ~MidwayAt(p) /\ ~MidwayAt(p)' /\ UNCHANGED <<version, config, replaced, edits>>
      BY <2>1, <2>i DEF CheckVersion, MakeBackup, ConvertConfig, CloseIn, CloseBackup, Unlock,
         Goto, files, MidwayAt, RunInv, ApplyPCs
    <3> QED
      BY <2>i, <3>1 DEF abstractVars
  <2>2. CASE TruncateVersion(p) \/ WriteVersion(p)
    <3>1. /\ UNCHANGED <<step, config, replaced, edits>>
          /\ MidwayAt(p) \/ version = step[p]
          /\ MidwayAt(p)' \/ version' = step[p]
      BY <2>2, <2>i DEF TruncateVersion, WriteVersion, Target, Goto, MidwayAt, RunInv
    <3> QED
      BY <2>i, <3>1 DEF abstractVars
  <2>3. CASE CloseOut(p)
    <3>1. /\ MidwayAt(p) /\ ~MidwayAt(p)' /\ version' = step[p] + 1 /\ edits' = edits
          /\ config' = Convert(config, step[p])
          /\ replaced' = [replaced EXCEPT ![step[p]] = config]
      BY <2>3, <2>i DEF CloseOut, Goto, MidwayAt, RunInv, ApplyPCs
    <3>2. Abstract!Upgrade(step[p])
      BY <2>i, <3>1 DEF Abstract!Upgrade, Convert
    <3> QED
      BY <2>i, <3>2 DEF Abstract!Next, Abstract!Steps, Steps
  <2>4. CASE CloseOutPanics(p)
    BY <1>0, <2>4, <2>i DEF UntilFault, CloseOutPanics, TempsThere, RunInv, ApplyPCs
  <2>5. CASE RenameBackup(p)
    <3>1. /\ version = step[p] + 1 /\ UNCHANGED <<version, step, op, replaced, edits>>
          /\ op[p] = "revert" /\ ~MidwayAt(p)
      BY <2>5, <2>i DEF RenameBackup, MidwayAt, RunInv
    <3>2. CASE backup[step[p]] = NoFile
      <4>1. ~MidwayAt(p)' /\ config' = config
        BY <2>5, <3>2 DEF RenameBackup, Goto, MidwayAt
      <4> QED
        BY <2>i, <3>1, <4>1 DEF abstractVars
    <3>3. CASE backup[step[p]] # NoFile
      <4>1. MidwayAt(p)' /\ config' = backup[step[p]]
        BY <2>5, <3>1, <3>3 DEF RenameBackup, Goto, MidwayAt
      <4>2. backup[step[p]] = replaced[step[p]]
        BY <2>i, <3>3 DEF BackupIsPrior
      <4>3. Abstract!Downgrade(step[p])
        BY <2>i, <3>1, <3>3, <4>1, <4>2 DEF Abstract!Downgrade
      <4> QED
        BY <2>i, <4>3 DEF Abstract!Next, Abstract!Steps, Steps
    <3> QED
      BY <3>2, <3>3
  <2> QED
    BY <1>0, <1>2, <2>1, <2>2, <2>3, <2>4, <2>5 DEF Run
<1>3. CASE EditConfig
  <2>1. AbstractVersion' = AbstractVersion
    <3>1. Midway' = Midway /\ step' = step /\ version' = version
      BY <1>3 DEF EditConfig, procs, Midway
    <3> QED
      BY <3>1 DEF AbstractVersion
  <2>2. Abstract!Edit
    BY <1>3, <2>1 DEF EditConfig, Abstract!Edit
  <2> QED
    BY <2>2 DEF Abstract!Next
<1>4. CASE UNCHANGED vars
  <2>1. Midway' = Midway /\ UNCHANGED <<step, version, config, replaced, edits>>
    BY <1>4 DEF vars, Midway
  <2> QED
    BY <2>1 DEF AbstractVersion, abstractVars
<1> QED
  BY <1>0, <1>1, <1>2, <1>3, <1>4 DEF Next

\* Up to the first kill or error Apply and Revert are VersionedConfig's
\* atomic Upgrade and Downgrade: who looks between runs never sees a version
\* without the config that goes with it.
THEOREM ImplementsVersionedConfig == Spec => MigrationIsAtomic
<1>1. Spec => Abstract!Init
  BY InitAbstract DEF Spec
<1>2. Spec => [][faults' = 0 => Abstract!Next]_abstractVars
  BY UntilFaultHolds, StepAbstract, InvariantHolds, PTL DEF Spec
<1> QED
  BY <1>1, <1>2 DEF MigrationIsAtomic, abstractVars

=============================================================================

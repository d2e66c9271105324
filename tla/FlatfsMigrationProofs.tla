----------------------- MODULE FlatfsMigrationProofs -----------------------
(***************************************************************************)
(* Proofs about FlatfsMigration, for any files and any number of kills and *)
(* failing operations.  No file is lost because a directory is renamed     *)
(* only over an empty one or none, removed only when it is empty, and      *)
(* created only where there is none; DirsAt says at which steps the code   *)
(* may rely on that.  Forward adds what Apply has achieved on the way to   *)
(* success.  The second part is about runs without faults: what each phase *)
(* of Revert leaves for the next.  The third allows one failure: Apply on  *)
(* its way back always knows where the files are, since nothing can fail   *)
(* there any more, and a Revert that goes on after a failure either finds  *)
(* what its phase needs or fails again.                                    *)
(***************************************************************************)
EXTENDS FlatfsMigration, TLAPS

\* A repository that no run has touched yet.
LEMMA InitEstablishes == Init => IInv
BY SMTT(30), SentinelAssumption, BoundsAssumption
   DEF Init, IInv, TypeOK, FilesSurvive, NothingElse, DirsAt, Forward, InPhase,
       AppliedIsApplied, Sharding, Moving, Names, Dir, Shards, Blank, PCs, Format

\* Moving a file takes it out of one directory and puts it into another; no
\* directory appears, goes or changes its format.
LEMMA MoveOfFile ==
  ASSUME TypeOK, FilesSurvive, NothingElse, NEW f \in Files, f \in dirs[OldDS].files,
         dirs[OldDS] # NoDir, dirs[NewDS] # NoDir, dirs' = Moved(f), had' = had
  PROVE  /\ dirs' \in [Names -> Dir \cup {NoDir}] /\ FilesSurvive' /\ NothingElse'
         /\ \A n \in Names : /\ dirs'[n] = NoDir <=> dirs[n] = NoDir
                             /\ dirs[n] # NoDir => dirs'[n].shard = dirs[n].shard
<1> DEFINE old == [shard |-> dirs[OldDS].shard, files |-> dirs[OldDS].files \ {f}]
           new == [shard |-> dirs[NewDS].shard, files |-> dirs[NewDS].files \cup {f}]
<1>1. OldDS \in Names /\ NewDS \in Names /\ OldDS # NewDS
  BY DEF OldDS, NewDS, Names
<1>2. dirs[OldDS] \in Dir /\ dirs[NewDS] \in Dir
  BY <1>1 DEF TypeOK
<1>3. /\ old \in Dir /\ old # NoDir /\ old.shard = dirs[OldDS].shard
      /\ new \in Dir /\ new # NoDir /\ new.shard = dirs[NewDS].shard
  BY <1>2, SentinelAssumption DEF Dir
<1>4. [dirs[OldDS] EXCEPT !.files = @ \ {f}] = old /\ [dirs[NewDS] EXCEPT !.files = @ \cup {f}] = new
  BY <1>2 DEF Dir
<1>5. /\ dirs' \in [Names -> Dir \cup {NoDir}] /\ dirs'[OldDS] = old /\ dirs'[NewDS] = new
      /\ \A n \in Names \ {OldDS, NewDS} : dirs'[n] = dirs[n]
  BY <1>1, <1>3, <1>4 DEF Moved, TypeOK
<1> HIDE DEF old, new
<1>6. old.files = dirs[OldDS].files \ {f} /\ new.files = dirs[NewDS].files \cup {f}
  BY DEF old, new
<1>7. NothingElse'
  BY <1>1, <1>5, <1>6 DEF NothingElse
<1>8. FilesSurvive'
  <2> SUFFICES ASSUME NEW g \in had
               PROVE  \E n \in Names : /\ dirs'[n] # NoDir /\ g \in dirs'[n].files
                                       /\ \A m \in Names \ {n} : dirs'[m] # NoDir => g \notin dirs'[m].files
    BY DEF FilesSurvive
  <2>1. PICK n \in Names : /\ dirs[n] # NoDir /\ g \in dirs[n].files
                           /\ \A m \in Names \ {n} : dirs[m] # NoDir => g \notin dirs[m].files
    BY DEF FilesSurvive
  <2>2. CASE g = f
    <3>1. n = OldDS
      BY <1>1, <2>1, <2>2
    <3> QED BY <1>1, <1>3, <1>5, <1>6, <2>1, <2>2, <3>1
  <2>3. CASE g # f
    BY <1>1, <1>3, <1>5, <1>6, <2>1, <2>3
  <2> QED BY <2>2, <2>3
<1> QED BY <1>1, <1>3, <1>5, <1>7, <1>8

\* Every operation of Apply, of its undo steps and of Revert, a failing one
\* and a kill included, keeps the invariant.
LEMMA StepPreserves == IInv /\ [Next]_vars => IInv'
<1> SUFFICES ASSUME IInv, [Next]_vars PROVE IInv'
  OBVIOUS
<1> USE FilesAssumption, SentinelAssumption, BoundsAssumption
    DEF IInv, TypeOK, FilesSurvive, NothingElse, DirsAt, Forward, InPhase, AppliedIsApplied,
        NewInPlace, InPlace, Sharding, Moving, Names, Dir, Shards, Blank, PCs, Format, Empty,
        Goto, End, repo, run, seen, ShardDir, OldDS, NewDS
<1>1. ASSUME NEW n \in {"yes", "no"}, StartApply(n) PROVE IInv'
  BY <1>1 DEF StartApply
<1>2. CASE RenameAside
  BY <1>2 DEF RenameAside, CanRename, Renamed
<1>3. CASE Upgrade
  BY <1>3 DEF Upgrade, Revert1
<1>4. CASE Create
  BY <1>4 DEF Create
<1>5. CASE CreateShard
  BY <1>5 DEF CreateShard
<1>6. CASE WriteShard
  BY <1>6 DEF WriteShard, ShardFunc
<1>7. CASE Open
  BY SMTT(30), <1>7 DEF Open, CanOpen, MoveFailed, Revert3
<1>8. ASSUME NEW k \in Blocks, MoveKey(k) PROVE IInv'
  <2>1. /\ dirs' \in [Names -> Dir \cup {NoDir}] /\ FilesSurvive' /\ NothingElse'
        /\ \A n \in Names : /\ dirs'[n] = NoDir <=> dirs[n] = NoDir
                            /\ dirs[n] # NoDir => dirs'[n].shard = dirs[n].shard
    <3>1. k \in Files /\ k \in dirs[OldDS].files /\ dirs[OldDS] # NoDir /\ dirs[NewDS] # NoDir
          /\ dirs' = Moved(k) /\ had' = had
      BY <1>8 DEF MoveKey, Files
    <3> HIDE DEF OldDS, NewDS, Names, Dir, TypeOK, FilesSurvive, NothingElse
    <3> QED BY <3>1, MoveOfFile
  <2>2. pc = "keys" /\ UNCHANGED <<version, phasefile, run, seen, outcome, op, kills, errors>>
    BY <1>8 DEF MoveKey
  <2>3. TypeOK'
    BY <2>1, <2>2
  <2>4. DirsAt' /\ Forward' /\ InPhase' /\ AppliedIsApplied'
    <3>1. /\ dirs'["blocks"] = NoDir <=> dirs["blocks"] = NoDir
          /\ dirs'["v4"] = NoDir <=> dirs["v4"] = NoDir
          /\ dirs'["v5"] = NoDir <=> dirs["v5"] = NoDir
          /\ dirs["v5"] # NoDir => dirs'["v5"].shard = dirs["v5"].shard
      BY <2>1
    <3>2. UNCHANGED <<task, phase, outcome, op, pc>> /\ pc \in {"keys", "clean"}
      BY <2>2
    <3> HIDE DEF TypeOK, FilesSurvive, NothingElse
    <3>3. DirsAt'
      BY <3>1, <3>2
    <3>4. Forward'
      BY <3>1, <3>2
    <3>5. InPhase' /\ AppliedIsApplied'
      BY <3>2
    <3> QED BY <3>3, <3>4, <3>5
  <2> QED BY <2>1, <2>3, <2>4
<1>9. CASE KeysMoved
  BY <1>9 DEF KeysMoved
<1>10. CASE CleanUp
  <2>1. CASE /\ dirs[OldDS].shard # "none"
             /\ dirs' = [dirs EXCEPT ![OldDS].shard = "none"]
             /\ UNCHANGED <<pc, outcome>>
    BY <1>10, <2>1 DEF CleanUp
  <2>2. CASE /\ \E f \in dirs[OldDS].files \cap Extras : dirs' = Moved(f)
             /\ UNCHANGED <<pc, outcome>>
    <3> PICK f \in dirs[OldDS].files \cap Extras : dirs' = Moved(f)
      BY <2>2
    <3>1. /\ dirs' \in [Names -> Dir \cup {NoDir}] /\ FilesSurvive' /\ NothingElse'
          /\ \A n \in Names : /\ dirs'[n] = NoDir <=> dirs[n] = NoDir
                              /\ dirs[n] # NoDir => dirs'[n].shard = dirs[n].shard
      <4>1. f \in Files /\ f \in dirs[OldDS].files /\ dirs[OldDS] # NoDir /\ dirs[NewDS] # NoDir
            /\ had' = had
        BY <1>10 DEF CleanUp, Files
      <4> HIDE DEF OldDS, NewDS, Names, Dir, TypeOK, FilesSurvive, NothingElse
      <4> QED BY <4>1, MoveOfFile
    <3>2. /\ pc = "clean"
          /\ UNCHANGED <<version, phasefile, pc, outcome, task, norevert, phase, seen, op, kills, errors>>
      BY <1>10, <2>2 DEF CleanUp
    <3>3. TypeOK'
      BY <3>1, <3>2
    <3>4. DirsAt' /\ Forward' /\ InPhase' /\ AppliedIsApplied'
      <4>1. /\ dirs'["blocks"] = NoDir <=> dirs["blocks"] = NoDir
            /\ dirs'["v4"] = NoDir <=> dirs["v4"] = NoDir
            /\ dirs'["v5"] = NoDir <=> dirs["v5"] = NoDir
            /\ dirs["v5"] # NoDir => dirs'["v5"].shard = dirs["v5"].shard
        BY <3>1
      <4>2. UNCHANGED <<task, phase, outcome, op, pc>> /\ pc \in {"keys", "clean"}
        BY <3>2
      <4> HIDE DEF TypeOK, FilesSurvive, NothingElse
      <4>3. DirsAt'
        BY <4>1, <4>2
      <4>4. Forward'
        BY <4>1, <4>2
      <4>5. InPhase' /\ AppliedIsApplied'
        BY <4>2
      <4> QED BY <4>3, <4>4, <4>5
    <3> QED BY <3>1, <3>3, <3>4
  <2>3. CASE MoveFailed /\ UNCHANGED dirs
    BY <1>10, <2>3 DEF CleanUp, MoveFailed, Revert3
  <2>4. CASE /\ dirs[OldDS] = Empty
             /\ Goto(IF task = "move" THEN "remove"
                     ELSE IF task = "undo" THEN "removeTemp" ELSE "truncatePhase")
             /\ UNCHANGED dirs
    BY <1>10, <2>4 DEF CleanUp
  <2> QED BY <1>10, <2>1, <2>2, <2>3, <2>4 DEF CleanUp
<1>11. CASE RemoveOld
  BY <1>11 DEF RemoveOld, Removed, Revert3
<1>12. CASE Replace
  <2>1. dirs["v5"] = [shard |-> "nextToLast", files |-> had]
    <3>1. dirs["v5"] \in Dir /\ dirs["v5"].shard = "nextToLast"
      BY <1>12 DEF Replace
    <3>2. had \subseteq dirs["v5"].files
      BY <1>12 DEF Replace
    <3>3. dirs["v5"].files \subseteq had
      BY <1>12 DEF Replace
    <3> QED BY <3>1, <3>2, <3>3
  <2>2. dirs' = [dirs EXCEPT !["blocks"] = dirs["v5"], !["v5"] = NoDir] /\ Goto("truncate")
    BY <1>12, <2>1 DEF Replace, CanRename, Renamed
  <2>3. NewInPlace'
    BY <1>12, <2>1, <2>2 DEF Replace
  <2>4. TypeOK'
    BY <1>12, <2>1, <2>2 DEF Replace
  <2>5. FilesSurvive' /\ NothingElse'
    <3>1. had' = had
      BY <1>12 DEF Replace
    <3>2. dirs["blocks"]' # NoDir /\ dirs["blocks"]'.files = had
      BY <2>1, <2>3, <3>1
    <3>3. dirs["v4"]' = NoDir /\ dirs["v5"]' = NoDir
      BY <2>3
    <3> QED BY <3>1, <3>2, <3>3
  <2>6. DirsAt' /\ Forward' /\ InPhase' /\ AppliedIsApplied'
    BY <1>12, <2>1, <2>2, <2>3 DEF Replace
  <2> QED BY <2>4, <2>5, <2>6
<1>13. CASE TruncateVersion
  BY <1>13 DEF TruncateVersion
<1>14. CASE WriteVersion
  BY <1>14 DEF WriteVersion
<1>15. CASE Recreate
  BY <1>15 DEF Recreate
<1>16. CASE Undo
  BY <1>16 DEF Undo
<1>17. CASE RemoveTemp
  BY <1>17 DEF RemoveTemp, Removed
<1>18. CASE Downgrade
  BY <1>18 DEF Downgrade, Revert1
<1>19. CASE RenameBack
  BY <1>19 DEF RenameBack, CanRename, Renamed
<1>20. CASE StartRevert
  BY <1>20 DEF StartRevert
<1>21. CASE PhaseRename
  BY <1>21 DEF PhaseRename, CanRename, Renamed
<1>22. CASE PhaseCreate
  BY <1>22 DEF PhaseCreate
<1>23. CASE PhaseGo
  BY <1>23 DEF PhaseGo
<1>24. CASE PhaseDowngrade
  BY <1>24 DEF PhaseDowngrade
<1>25. CASE TruncatePhase
  BY <1>25 DEF TruncatePhase
<1>26. CASE WritePhase
  BY <1>26 DEF WritePhase
<1>27. CASE EndRevert
  BY <1>27 DEF EndRevert, Removed, Error
<1>28. CASE OperationFails
  BY <1>28 DEF OperationFails, Error, ShardFailed, MoveFailed, Revert1, Revert3
<1>29. CASE Kill
  BY <1>29 DEF Kill
<1>30. CASE UNCHANGED vars
  BY <1>30 DEF vars
<1> QED
  BY <1>1, <1>2, <1>3, <1>4, <1>5, <1>6, <1>7, <1>8, <1>9, <1>10, <1>11, <1>12, <1>13, <1>14,
     <1>15, <1>16, <1>17, <1>18, <1>19, <1>20, <1>21, <1>22, <1>23, <1>24, <1>25, <1>26,
     <1>27, <1>28, <1>29, <1>30
     DEF Next

\* What Apply and Revert rely on at each of their steps holds whatever has
\* failed or been killed before.
THEOREM InvariantHolds == Spec => []IInv
BY InitEstablishes, StepPreserves, PTL DEF Spec

\* Migration 4-to-5 loses no file and duplicates none, for any set of files,
\* wherever Apply, its undo steps and Revert fail or are killed.
THEOREM NoFileIsLost == Spec => []FilesSurvive
BY InvariantHolds, PTL DEF IInv

\* An Apply that returns nil has put all the files into a datastore of
\* version 5, whatever the runs before it have left behind.
THEOREM SuccessMeansApplied == Spec => []AppliedIsApplied
BY InvariantHolds, PTL DEF IInv

-----------------------------------------------------------------------------
(* Without faults                                                          *)

\* Both versions start without a phase file.
LEMMA InitFaultFree == Init => UntilFault
BY SMTT(30), SentinelAssumption
   DEF Init, UntilFault, FaultFree, Reverting, NewInPlace, InPlace, Names, Format

\* Until the first fault, each step of Revert finds what the phase before it
\* has left, and a run of Apply no phase file.
LEMMA FaultFreeStep == IInv /\ UntilFault /\ [Next]_vars => UntilFault'
<1> SUFFICES ASSUME IInv, UntilFault, [Next]_vars, (kills = 0 /\ errors = 0)' PROVE FaultFree'
  BY DEF UntilFault
<1>0. FaultFree /\ kills = 0 /\ errors = 0
  <2>1. kills \in Nat /\ errors \in Nat
    BY BoundsAssumption DEF IInv, TypeOK
  <2>2. kills' = kills \/ kills' = kills + 1
    BY DEF Next, StartApply, RenameAside, Upgrade, Create, CreateShard, WriteShard, Open, MoveKey,
           KeysMoved, CleanUp, RemoveOld, Replace, TruncateVersion, WriteVersion, Recreate, Undo,
           RemoveTemp, Downgrade, RenameBack, StartRevert, PhaseRename, PhaseCreate, PhaseGo,
           PhaseDowngrade, TruncatePhase, WritePhase, EndRevert, OperationFails, Kill, vars
  <2>3. errors' = errors \/ errors' = errors + 1
    BY DEF Next, StartApply, RenameAside, Upgrade, Create, CreateShard, WriteShard, Open, MoveKey,
           KeysMoved, CleanUp, RemoveOld, Replace, TruncateVersion, WriteVersion, Recreate, Undo,
           RemoveTemp, Downgrade, RenameBack, StartRevert, PhaseRename, PhaseCreate, PhaseGo,
           PhaseDowngrade, TruncatePhase, WritePhase, EndRevert, OperationFails, Kill, Error, vars
  <2> QED BY <2>1, <2>2, <2>3 DEF UntilFault
<1> USE <1>0, FilesAssumption, SentinelAssumption
    DEF IInv, TypeOK, FilesSurvive, NothingElse, DirsAt, Forward, InPhase, FaultFree, Reverting,
        RevertSteps, Reached, Noted, At, All, NewInPlace, InPlace, Sharding, Moving, Names, Dir,
        Shards, Blank, PCs, Format, Empty, Goto, End, repo, run, seen, ShardDir, OldDS, NewDS
<1>1. ASSUME NEW n \in {"yes", "no"}, StartApply(n) PROVE FaultFree'
  BY <1>1 DEF StartApply
<1>2. CASE RenameAside
  BY <1>2 DEF RenameAside, CanRename, Renamed
<1>3. CASE Upgrade
  BY <1>3 DEF Upgrade, Revert1
<1>4. CASE Create
  BY <1>4 DEF Create
<1>5. CASE CreateShard
  BY <1>5 DEF CreateShard
<1>6. CASE WriteShard
  BY <1>6 DEF WriteShard, ShardFunc
<1>7. CASE Open
  BY <1>7 DEF Open, CanOpen, MoveFailed, Revert3
<1>8. ASSUME NEW k \in Blocks, MoveKey(k) PROVE FaultFree'
  BY <1>8 DEF MoveKey, Moved
<1>9. CASE KeysMoved
  BY <1>9 DEF KeysMoved
<1>10. CASE CleanUp
  <2>1. CASE dirs[OldDS] = Empty /\ UNCHANGED dirs
    <3>1. CASE op = "revert"
      <4>1. dirs["v4"].files = had
        BY <1>10, <2>1, <3>1 DEF CleanUp
      <4>2. dirs["v4"] = All("prefix")
        BY <1>10, <3>1, <4>1 DEF CleanUp
      <4> QED BY <1>10, <2>1, <3>1, <4>2 DEF CleanUp, MoveFailed, Revert3
    <3>2. CASE op = "apply"
      BY <1>10, <2>1, <3>2 DEF CleanUp, MoveFailed, Revert3
    <3> QED BY <3>1, <3>2
  <2>2. CASE /\ dirs' = [dirs EXCEPT ![OldDS].shard = "none"]
             /\ UNCHANGED <<pc, outcome>>
    BY <1>10, <2>2 DEF CleanUp
  <2>3. CASE /\ \E f \in dirs[OldDS].files \cap Extras : dirs' = Moved(f)
             /\ UNCHANGED <<pc, outcome>>
    <3> PICK f \in dirs[OldDS].files \cap Extras : dirs' = Moved(f)
      BY <2>3
    <3>1. OldDS \in {"v4", "v5"} /\ NewDS \in {"v4", "v5"} /\ OldDS # NewDS
      OBVIOUS
    <3>2. dirs' = [dirs EXCEPT ![OldDS].files = @ \ {f}, ![NewDS].files = @ \cup {f}]
      BY DEF Moved
    <3>3. /\ dirs'["blocks"] = dirs["blocks"]
          /\ op = "revert" => dirs'["v4"] # NoDir /\ dirs'["v4"].shard = "prefix" /\ dirs'["v5"] # NoDir
      BY <1>10, <3>1, <3>2 DEF CleanUp
    <3> QED BY <1>10, <2>3, <3>3 DEF CleanUp
  <2>4. CASE MoveFailed /\ UNCHANGED dirs
    BY <1>10, <2>4 DEF CleanUp, MoveFailed, Revert3
  <2> QED BY <1>10, <2>1, <2>2, <2>3, <2>4 DEF CleanUp
<1>11. CASE RemoveOld
  BY <1>11 DEF RemoveOld, Removed, Revert3
<1>12. CASE Replace
  BY <1>12 DEF Replace, CanRename, Renamed
<1>13. CASE TruncateVersion
  BY <1>13 DEF TruncateVersion
<1>14. CASE WriteVersion
  BY <1>14 DEF WriteVersion
<1>15. CASE Recreate
  BY <1>15 DEF Recreate
<1>16. CASE Undo
  BY <1>16 DEF Undo
<1>17. CASE RemoveTemp
  BY <1>17 DEF RemoveTemp, Removed
<1>18. CASE Downgrade
  BY <1>18 DEF Downgrade, Revert1
<1>19. CASE RenameBack
  BY <1>19 DEF RenameBack, CanRename, Renamed
<1>20. CASE StartRevert
  BY <1>20 DEF StartRevert
<1>21. CASE PhaseRename
  BY <1>21 DEF PhaseRename, CanRename, Renamed
<1>22. CASE PhaseCreate
  BY <1>22 DEF PhaseCreate
<1>23. CASE PhaseGo
  BY <1>23 DEF PhaseGo
<1>24. CASE PhaseDowngrade
  BY <1>24 DEF PhaseDowngrade
<1>25. CASE TruncatePhase
  BY <1>25 DEF TruncatePhase
<1>26. CASE WritePhase
  BY <1>26 DEF WritePhase
<1>27. CASE EndRevert
  BY <1>27 DEF EndRevert, Removed, Error
<1>28. CASE OperationFails
  BY <1>28 DEF OperationFails, Error
<1>29. CASE Kill
  BY <1>29 DEF Kill
<1>30. CASE UNCHANGED vars
  BY <1>30 DEF vars
<1> QED
  BY <1>1, <1>2, <1>3, <1>4, <1>5, <1>6, <1>7, <1>8, <1>9, <1>10, <1>11, <1>12, <1>13, <1>14,
     <1>15, <1>16, <1>17, <1>18, <1>19, <1>20, <1>21, <1>22, <1>23, <1>24, <1>25, <1>26, <1>27, <1>28,
     <1>29, <1>30
     DEF Next

\* A Revert of 4-to-5 that returns nil has brought back the datastore of
\* version 4 with all its files, for any set of files and any sequence of
\* runs, until the first kill or failing operation.
THEOREM RevertsBeforeFaults == Spec => []RevertsUntilFault
<1>1. IInv /\ UntilFault => RevertsUntilFault
  BY DEF UntilFault, FaultFree, Reverting, RevertsUntilFault, RevertedIsReverted
<1> QED BY <1>1, InvariantHolds, InitFaultFree, FaultFreeStep, PTL DEF Spec

-----------------------------------------------------------------------------
(* With at most one failure                                                *)

\* At first all files are in place.
LEMMA InitUndone == Init => UntilSecond
<1> SUFFICES ASSUME Init PROVE Undone
  BY DEF UntilSecond
<1>1. /\ dirs["blocks"] = [shard |-> Format(version), files |-> had]
      /\ dirs["v4"] = NoDir /\ dirs["v5"] = NoDir
  BY DEF Init, Names
<1>2. dirs["blocks"] # NoDir
  BY SMTT(30), <1>1, SentinelAssumption DEF Init, Dir, Shards, Format
<1> QED BY <1>1, <1>2, SentinelAssumption
   DEF Init, UntilSecond, Undone, Upgrading, Undoing, Resuming, Resumable, Phase, NoPhase,
       Home, NoneMoved, Fresh, NotBegun, Sharding, Moving, Format

\* Every step of Apply, of its way back and of Revert knows where the files
\* are, as long as no second operation fails.
LEMMA UndoneStep == IInv /\ UntilSecond /\ [Next]_vars => UntilSecond'
<1> SUFFICES ASSUME IInv, UntilSecond, [Next]_vars, AtMostOne' PROVE Undone'
  BY DEF UntilSecond
<1>0. Undone /\ AtMostOne /\ (Spent => Spent') /\ had' = had /\ forced' = "no"
  <2>1. kills \in Nat /\ errors \in Nat
    BY BoundsAssumption DEF IInv, TypeOK
  <2>2. (kills' = kills \/ kills' = kills + 1) /\ had' = had /\ (forced = "yes" => forced' = "yes")
    BY DEF Next, StartApply, RenameAside, Upgrade, Create, CreateShard, WriteShard, Open, MoveKey,
           KeysMoved, CleanUp, RemoveOld, Replace, TruncateVersion, WriteVersion, Recreate, Undo,
           RemoveTemp, Downgrade, RenameBack, StartRevert, PhaseRename, PhaseCreate, PhaseGo,
           PhaseDowngrade, TruncatePhase, WritePhase, EndRevert, OperationFails, Kill, vars, seen
  <2>3. errors' = errors \/ errors' = errors + 1
    BY DEF Next, StartApply, RenameAside, Upgrade, Create, CreateShard, WriteShard, Open, MoveKey,
           KeysMoved, CleanUp, RemoveOld, Replace, TruncateVersion, WriteVersion, Recreate, Undo,
           RemoveTemp, Downgrade, RenameBack, StartRevert, PhaseRename, PhaseCreate, PhaseGo,
           PhaseDowngrade, TruncatePhase, WritePhase, EndRevert, OperationFails, Kill, Error, vars
  <2>4. Budget' = Budget /\ Budget \in {0, 1}
    BY <2>2 DEF Budget
  <2>5. forced \in {"yes", "no"} /\ (Spent => Spent')
    BY <2>1, <2>3, <2>4 DEF IInv, TypeOK, Spent, AtMostOne
  <2> QED BY <2>1, <2>2, <2>3, <2>4, <2>5 DEF UntilSecond, AtMostOne
<1> HIDE DEF AtMostOne, Spent
<1> USE <1>0, FilesAssumption, SentinelAssumption
    DEF IInv, TypeOK, FilesSurvive, NothingElse, DirsAt, Forward, InPhase, Undone, Upgrading,
        Undoing, Resuming, Resumable, Phase, NoPhase, Home, Aside, NoneMoved, Fresh, NotBegun,
        RevertSteps, NewInPlace, InPlace, Sharding, Moving, Names, Dir,
        Shards, Blank, PCs, Format, Empty, Goto, End, repo, run, seen, ShardDir, OldDS, NewDS
<1>1. ASSUME NEW n \in {"yes", "no"}, StartApply(n) PROVE Undone'
  BY <1>1 DEF StartApply
<1>2. CASE RenameAside
  BY <1>2 DEF RenameAside, CanRename, Renamed
<1>3. CASE Upgrade
  BY <1>3 DEF Upgrade, Revert1
<1>4. CASE Create
  BY <1>4 DEF Create
<1>5. CASE CreateShard
  BY <1>5 DEF CreateShard
<1>6. CASE WriteShard
  BY <1>6 DEF WriteShard, ShardFunc
<1>7. CASE Open
  BY SMTT(30), <1>7 DEF Open, CanOpen, MoveFailed, Revert3
<1>8. ASSUME NEW k \in Blocks, MoveKey(k) PROVE Undone'
  BY <1>8 DEF MoveKey, Moved
<1>9. CASE KeysMoved
  BY SMTT(30), <1>9 DEF KeysMoved
<1>10. CASE CleanUp
  <2>1. CASE /\ dirs[OldDS] = Empty /\ UNCHANGED dirs
             /\ Goto(IF task = "move" THEN "remove"
                     ELSE IF task = "undo" THEN "removeTemp" ELSE "truncatePhase")
    <3>0. /\ pc = "clean" /\ dirs' = dirs /\ outcome' = outcome /\ op' = op /\ task' = task
          /\ UNCHANGED <<version, phasefile, norevert, phase>>
      BY <1>10, <2>1 DEF CleanUp
    <3>1. CASE task = "move"
      BY <2>1, <3>0, <3>1
    <3>2. CASE task = "undo"
      BY <2>1, <3>0, <3>2
    <3>3. CASE task = "phase"
      BY <2>1, <3>0, <3>3
    <3> QED BY <3>0, <3>1, <3>2, <3>3
  <2>2. CASE /\ dirs' = [dirs EXCEPT ![OldDS].shard = "none"]
             /\ UNCHANGED <<pc, outcome>>
    BY <1>10, <2>2 DEF CleanUp
  <2>3. CASE /\ \E f \in dirs[OldDS].files \cap Extras : dirs' = Moved(f)
             /\ UNCHANGED <<pc, outcome>>
    <3> PICK f \in dirs[OldDS].files \cap Extras : dirs' = Moved(f)
      BY <2>3
    <3>1. /\ OldDS \in {"v4", "v5"} /\ NewDS \in {"v4", "v5"} /\ OldDS # NewDS
          /\ f \notin Strays
      OBVIOUS
    <3>2. dirs' = [dirs EXCEPT ![OldDS].files = @ \ {f}, ![NewDS].files = @ \cup {f}]
      BY SMTT(30) DEF Moved
    <3>3. /\ dirs'["blocks"] = dirs["blocks"]
          /\ dirs'["v4"] # NoDir /\ dirs'["v4"].shard = dirs["v4"].shard
          /\ dirs'["v5"] # NoDir /\ dirs'["v5"].shard = dirs["v5"].shard
          /\ dirs["v5"].files \cap Strays = {} => dirs'["v5"].files \cap Strays = {}
      BY <1>10, <3>1, <3>2 DEF CleanUp
    <3> QED BY <1>10, <2>3, <3>3 DEF CleanUp
  <2>4. CASE /\ dirs[OldDS].files \cap Strays # {}
             /\ MoveFailed /\ UNCHANGED dirs
    <3>1. Spent /\ Spent'
      <4>1. had \cap Strays # {}
        BY <1>10, <2>4 DEF CleanUp
      <4> QED BY <4>1 DEF Spent, Budget, AtMostOne
    <3> QED BY <1>10, <2>4, <3>1 DEF CleanUp, MoveFailed, Revert3
  <2> QED BY SMTT(30), <1>10, <2>1, <2>2, <2>3, <2>4 DEF CleanUp
<1>11. CASE RemoveOld
  BY <1>11 DEF RemoveOld, Removed, Revert3
<1>12. CASE Replace
  BY <1>12 DEF Replace, CanRename, Renamed
<1>13. CASE TruncateVersion
  BY <1>13 DEF TruncateVersion
<1>14. CASE WriteVersion
  BY <1>14 DEF WriteVersion
<1>15. CASE Recreate
  BY <1>15 DEF Recreate
<1>16. CASE Undo
  BY <1>16 DEF Undo
<1>17. CASE RemoveTemp
  BY <1>17 DEF RemoveTemp, Removed
<1>18. CASE Downgrade
  BY <1>18 DEF Downgrade, Revert1
<1>19. CASE RenameBack
  BY <1>19 DEF RenameBack, CanRename, Renamed
<1>20. CASE StartRevert
  BY SMTT(30), <1>20 DEF StartRevert
<1>21. CASE PhaseRename
  <2>1. CASE phase = 0
    BY SMTT(30), <1>21, <2>1 DEF PhaseRename, CanRename, Renamed
  <2>2. CASE phase = 4
    <3>1. CASE CanRename("v4", "blocks")
      <4>1. dirs["blocks"] = NoDir /\ dirs["v4"].shard = "none" /\ dirs["v5"] = Empty
        BY <1>21, <2>2, <3>1 DEF PhaseRename, CanRename
      <4>2. dirs["v4"] # NoDir /\ dirs["v4"].files = had
        BY <3>1, <4>1 DEF CanRename
      <4>3. dirs' = [dirs EXCEPT !["blocks"] = dirs["v4"], !["v4"] = NoDir] /\ pc' = "truncatePhase"
        BY <1>21, <2>2, <3>1 DEF PhaseRename, Renamed
      <4> QED BY SMTT(30), <1>21, <2>2, <4>1, <4>2, <4>3 DEF PhaseRename
    <3>2. CASE ~CanRename("v4", "blocks")
      BY <1>21, <2>2, <3>2 DEF PhaseRename
    <3> QED BY <3>1, <3>2
  <2> QED BY <1>21, <2>1, <2>2 DEF PhaseRename
<1>22. CASE PhaseCreate
  BY <1>22 DEF PhaseCreate
<1>23. CASE PhaseGo
  BY <1>23 DEF PhaseGo
<1>24. CASE PhaseDowngrade
  BY <1>24 DEF PhaseDowngrade
<1>25. CASE TruncatePhase
  BY <1>25 DEF TruncatePhase
<1>26. CASE WritePhase
  BY <1>26 DEF WritePhase
<1>27. CASE EndRevert
  <2>1. phasefile' = NoFile \/ (phasefile' = phasefile /\ Spent')
    BY <1>27 DEF EndRevert, Error, Spent, Budget, AtMostOne
  <2>2. Home /\ Fresh("blocks") /\ phasefile = 6 /\ op' = "revert" /\ pc' = "idle" /\ norevert' = "no"
    BY <1>27 DEF EndRevert
  <2>3. Home' /\ Fresh("blocks")'
    BY SMTT(30), <1>27, <2>2 DEF EndRevert, Removed
  <2> QED BY <2>1, <2>2, <2>3
<1>28. CASE OperationFails
  <2>1. ~Spent /\ Spent' /\ op' = op /\ task' = task
    BY <1>28 DEF OperationFails, Error, Spent, Budget, AtMostOne
  <2>2. CASE pc \in {"rename", "truncate", "write", "renameBack", "truncatePhase", "writePhase"}
    BY <1>28, <2>1, <2>2 DEF OperationFails, Error, ShardFailed, MoveFailed
  <2>3. CASE pc = "phase"
    BY <1>28, <2>1, <2>3 DEF OperationFails, Error, ShardFailed, MoveFailed
  <2>4. CASE pc = "create"
    BY <1>28, <2>1, <2>4 DEF OperationFails, Error
  <2>5. CASE Sharding
    BY <1>28, <2>1, <2>5 DEF OperationFails, Error, ShardFailed, Revert1
  <2>6. CASE Moving
    BY <1>28, <2>1, <2>6 DEF OperationFails, Error, MoveFailed, Revert3
  <2>7. CASE pc \in {"remove", "replace"}
    BY <1>28, <2>1, <2>7 DEF OperationFails, Error, Revert3
  <2>8. CASE pc \in {"recreate", "removeTemp", "downgrade"}
    BY <1>28, <2>1, <2>8 DEF OperationFails, Error, Revert1
  <2> QED BY <1>28, <2>2, <2>3, <2>4, <2>5, <2>6, <2>7, <2>8 DEF OperationFails
<1>29. CASE Kill
  BY <1>29 DEF Kill, AtMostOne
<1>30. CASE UNCHANGED vars
  BY <1>30 DEF vars
<1> QED
  BY <1>1, <1>2, <1>3, <1>4, <1>5, <1>6, <1>7, <1>8, <1>9, <1>10, <1>11, <1>12, <1>13, <1>14,
     <1>15, <1>16, <1>17, <1>18, <1>19, <1>20, <1>21, <1>22, <1>23, <1>24, <1>25, <1>26, <1>27, <1>28,
     <1>29, <1>30
     DEF Next

\* After one failing operation, or with a stray file in the datastore, Apply
\* puts all the files back where the daemon looks for them, for any set of
\* files and any sequence of runs without -no-revert and without a kill.
THEOREM ErrorsAreUndone == Spec => []ErrorIsUndone
<1>1. UntilSecond => ErrorIsUndone
  BY DEF UntilSecond, AtMostOne, Budget, Undone, Home, ErrorIsUndone
<1> QED BY <1>1, InvariantHolds, InitUndone, UndoneStep, PTL DEF Spec

=============================================================================

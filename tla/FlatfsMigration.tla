-------------------------- MODULE FlatfsMigration --------------------------
(***************************************************************************)
(* Migration 4-to-5: the block files are moved from a flatfs datastore     *)
(* sharded by prefix (version 4, with no SHARDING file) to one sharded by  *)
(* next-to-last characters.  Apply works in the directories blocks-v4 and  *)
(* blocks-v5 and undoes its steps when one fails, unless -no-revert was    *)
(* given; Revert goes through six phases and notes the phase to resume at  *)
(* in the file revert-phase.  The repository's lock makes runs exclusive.  *)
(*                                                                         *)
(* A datastore directory is its SHARDING file and its files.  Shard        *)
(* directories, the generated README and temporary "put-" files are left   *)
(* out.  A process may be killed between any two operations on the file    *)
(* system, and each operation may fail.                                    *)
(***************************************************************************)
EXTENDS Integers

CONSTANTS
  Blocks,     \* block files (*.data) in shard directories
  Strays,     \* files in shard directories that are not block files
  Extras,     \* unexpected files in the datastore's directory itself
  NoDir, NoFile, Torn,
  MaxKills, MaxErrors

Files == Blocks \cup Strays \cup Extras

\* The SHARDING file: none, cut short, or the name of the function in it.
Shards == {"none", "torn", "prefix", "nextToLast"}
Dir == [shard: Shards, files: SUBSET Files]

ASSUME FilesAssumption == Blocks \cap Strays = {} /\ Blocks \cap Extras = {} /\ Strays \cap Extras = {}
ASSUME SentinelAssumption ==
  NoDir \notin Dir /\ NoFile \notin 0 .. 6 /\ Torn \notin 0 .. 6 /\ NoFile # Torn
ASSUME BoundsAssumption == MaxKills \in Nat /\ MaxErrors \in Nat

VARIABLES
  version,
  dirs,       \* the directories "blocks", "blocks-v4" and "blocks-v5"
  phasefile,
  \* the run in progress
  pc,
  task,       \* what WriteShardFunc or Move is being done for
  norevert,   \* -no-revert was given
  phase,
  \* observation only
  had,        \* the files there were at first
  forced,     \* whether any Apply so far was given -no-revert
  outcome, op, kills, errors

repo == <<version, dirs, phasefile>>
run == <<pc, task, norevert, phase>>
seen == <<had, forced>>
vars == <<version, dirs, phasefile, pc, task, norevert, phase, had, forced, outcome, op, kills, errors>>

Blank == 0             \* the version file, truncated
Names == {"blocks", "v4", "v5"}
Empty == [shard |-> "none", files |-> {}]

PCs == {"idle", "rename", "upgrade", "create", "shard", "shardWrite", "open", "keys", "clean",
        "remove", "replace", "truncate", "write",
        "undo", "recreate", "removeTemp", "downgrade", "renameBack",
        "phase", "truncatePhase", "writePhase"}

TypeOK ==
  /\ version \in {4, 5, Blank}
  /\ dirs \in [Names -> Dir \cup {NoDir}]
  /\ phasefile \in 0 .. 6 \cup {NoFile, Torn}
  /\ pc \in PCs
  /\ task \in {"upgrade", "create", "move", "undo", "phase"}
  /\ norevert \in {"yes", "no"}
  /\ phase \in 0 .. 6
  /\ had \subseteq Files
  /\ forced \in {"yes", "no"}
  /\ outcome \in {"none", "applied", "reverted", "error"}
  /\ op \in {"apply", "revert"}
  /\ kills \in 0 .. MaxKills /\ errors \in 0 .. MaxErrors

Format(v) == IF v = 4 THEN "none" ELSE "nextToLast"

Init ==
  /\ version \in {4, 5}
  /\ had \in SUBSET Files
  /\ dirs = [n \in Names |-> IF n = "blocks" THEN [shard |-> Format(version), files |-> had]
                             ELSE NoDir]
  /\ phasefile = NoFile
  /\ pc = "idle" /\ task = "move" /\ norevert = "no" /\ phase = 0
  /\ forced = "no" /\ outcome = "none" /\ op = "apply" /\ kills = 0 /\ errors = 0

-----------------------------------------------------------------------------
(* Helpers                                                                 *)

End(how) == pc' = "idle" /\ outcome' = how
Goto(where) == pc' = where /\ UNCHANGED outcome

Error == errors < MaxErrors /\ errors' = errors + 1

\* os.Rename of one directory to another: the target may be an empty one.
CanRename(old, new) == dirs[old] # NoDir /\ dirs[new] \in {NoDir, Empty}
Renamed(old, new) == [dirs EXCEPT ![new] = dirs[old], ![old] = NoDir]

\* os.Remove of a directory, which must be empty.
Removed(n) == IF dirs[n] = Empty THEN [dirs EXCEPT ![n] = NoDir] ELSE dirs

\* Where WriteShardFunc writes, and what.
ShardDir == IF task = "create" THEN "v5" ELSE "v4"
ShardFunc == IF task = "create" THEN "nextToLast" ELSE "prefix"

\* Where Move moves from and to.
OldDS == IF task = "move" THEN "v4" ELSE "v5"
NewDS == IF task = "move" THEN "v5" ELSE "v4"

\* Open and ReadShardFunc.
CanOpen(n) == dirs[n] # NoDir /\ dirs[n].shard \in {"prefix", "nextToLast"}

Moved(f) == [dirs EXCEPT ![OldDS].files = @ \ {f}, ![NewDS].files = @ \cup {f}]

\* Apply's error paths: revert1 (and revertStep2 before it), revert3, and
\* the return of a Move in revert3 or in Revert.
Revert1 == IF norevert = "yes" THEN End("error") ELSE Goto("renameBack")
Revert3 == IF norevert = "yes" THEN End("error") ELSE Goto("undo")

\* Where an error in Move or in WriteShardFunc leads.
MoveFailed == IF task = "move" THEN Revert3 ELSE End("error")
ShardFailed == IF task = "upgrade" THEN Revert1
               ELSE IF task = "create" THEN Goto("downgrade")
               ELSE IF task = "undo" THEN Goto("open")
               ELSE End("error")

-----------------------------------------------------------------------------
(* Mistakes the properties must catch                                      *)

\* The old shard directories are removed with all that is in them.
CleanUpBlind ==
  /\ pc = "clean"
  /\ \/ /\ dirs[OldDS].shard # "none"
        /\ dirs' = [dirs EXCEPT ![OldDS].shard = "none"]
        /\ UNCHANGED <<pc, outcome>>
     \/ /\ dirs' = [dirs EXCEPT ![OldDS].files = @ \ Strays]
        /\ Goto(IF task = "move" THEN "remove"
                ELSE IF task = "undo" THEN "removeTemp" ELSE "truncatePhase")
  /\ UNCHANGED <<version, phasefile, task, norevert, phase, seen, op, kills, errors>>

\* The new datastore gets the old sharding function.
WriteShardPrefix ==
  /\ pc = "shardWrite"
  /\ dirs' = [dirs EXCEPT ![ShardDir].shard = "prefix"]
  /\ task' = IF task = "create" THEN "move" ELSE task
  /\ Goto(IF task = "upgrade" THEN "create" ELSE IF task = "phase" THEN "truncatePhase" ELSE "open")
  /\ UNCHANGED <<version, phasefile, norevert, phase, seen, op, kills, errors>>

\* revert4 does not recreate the old directory, and gives up.
RecreateForgotten ==
  /\ pc = "recreate"
  /\ End("error")
  /\ UNCHANGED <<repo, task, norevert, phase, seen, op, kills, errors>>

\* A phase file that outlives the Revert.
EndRevertLeaves ==
  /\ pc = "phase" /\ phase = 6
  /\ dirs' = Removed("v5")
  /\ End("reverted")
  /\ UNCHANGED <<version, phasefile, task, norevert, phase, seen, op, kills, errors>>

-----------------------------------------------------------------------------
(* Apply                                                                   *)

StartApply(n) ==
  /\ pc = "idle" /\ version = 4
  /\ pc' = "rename" /\ norevert' = n /\ op' = "apply" /\ outcome' = "none"
  /\ forced' = IF n = "yes" THEN "yes" ELSE forced
  /\ UNCHANGED <<repo, task, phase, had, kills, errors>>

\* blocks -> blocks-v4; that there is only blocks-v4 is no error.
RenameAside ==
  /\ pc = "rename"
  /\ IF CanRename("blocks", "v4")
     THEN dirs' = Renamed("blocks", "v4") /\ Goto("upgrade")
     ELSE /\ IF dirs["blocks"] = NoDir /\ dirs["v4"] # NoDir THEN Goto("upgrade") ELSE End("error")
          /\ UNCHANGED dirs
  /\ UNCHANGED <<version, phasefile, task, norevert, phase, seen, op, kills, errors>>

\* UpgradeV0toV1: an existing SHARDING file must have the right function.
Upgrade ==
  /\ pc = "upgrade"
  /\ task' = "upgrade"
  /\ IF dirs["v4"].shard = "none" THEN Goto("shard")
     ELSE IF dirs["v4"].shard = "prefix" THEN Goto("create") ELSE Revert1
  /\ UNCHANGED <<repo, norevert, phase, seen, op, kills, errors>>

\* flatfs.Create of blocks-v5: Mkdir, then the SHARDING file.  A datastore
\* with the same function may be there already.
Create ==
  /\ pc = "create"
  /\ IF dirs["v5"] \in {NoDir, Empty}
     THEN dirs' = [dirs EXCEPT !["v5"] = Empty] /\ task' = "create" /\ Goto("shard")
     ELSE /\ IF dirs["v5"].shard = "nextToLast"
             THEN task' = "move" /\ Goto("open")
             ELSE task' = "create" /\ Goto("downgrade")
          /\ UNCHANGED dirs
  /\ UNCHANGED <<version, phasefile, norevert, phase, seen, op, kills, errors>>

\* WriteShardFunc creates the SHARDING file, then writes it; the same for
\* all who call it.
CreateShard ==
  /\ pc = "shard"
  /\ dirs' = [dirs EXCEPT ![ShardDir].shard = "torn"]
  /\ Goto("shardWrite")
  /\ UNCHANGED <<version, phasefile, task, norevert, phase, seen, op, kills, errors>>

WriteShard ==
  /\ pc = "shardWrite"
  /\ dirs' = [dirs EXCEPT ![ShardDir].shard = ShardFunc]
  /\ task' = IF task = "create" THEN "move" ELSE task
  /\ Goto(IF task = "upgrade" THEN "create" ELSE IF task = "phase" THEN "truncatePhase" ELSE "open")
  /\ UNCHANGED <<version, phasefile, norevert, phase, seen, op, kills, errors>>

\* os.Remove of blocks-v4, "supposedly empty".
RemoveOld ==
  /\ pc = "remove"
  /\ IF dirs["v4"] = Empty THEN dirs' = Removed("v4") /\ Goto("replace")
     ELSE Revert3 /\ UNCHANGED dirs
  /\ UNCHANGED <<version, phasefile, task, norevert, phase, seen, op, kills, errors>>

\* blocks-v5 -> blocks
Replace ==
  /\ pc = "replace"
  /\ IF CanRename("v5", "blocks")
     THEN dirs' = Renamed("v5", "blocks") /\ Goto("truncate")
     ELSE Goto("recreate") /\ UNCHANGED dirs
  /\ UNCHANGED <<version, phasefile, task, norevert, phase, seen, op, kills, errors>>

TruncateVersion ==
  /\ pc = "truncate"
  /\ version' = Blank
  /\ Goto("write")
  /\ UNCHANGED <<dirs, phasefile, task, norevert, phase, seen, op, kills, errors>>

WriteVersion ==
  /\ pc = "write"
  /\ IF op = "apply" THEN version' = 5 /\ End("applied")
     ELSE version' = 4 /\ Goto("truncatePhase")
  /\ UNCHANGED <<dirs, phasefile, task, norevert, phase, seen, op, kills, errors>>

-----------------------------------------------------------------------------
(* flatfs.Move                                                             *)

Open ==
  /\ pc = "open"
  /\ IF CanOpen(OldDS) /\ CanOpen(NewDS) THEN Goto("keys") ELSE MoveFailed
  /\ UNCHANGED <<repo, task, norevert, phase, seen, op, kills, errors>>

\* moveKey: os.Rename, which replaces a file of that name.
MoveKey(k) ==
  /\ pc = "keys" /\ k \in dirs[OldDS].files
  /\ dirs' = Moved(k)
  /\ UNCHANGED <<version, phasefile, run, seen, outcome, op, kills, errors>>

KeysMoved ==
  /\ pc = "keys" /\ dirs[OldDS].files \cap Blocks = {}
  /\ Goto("clean")
  /\ UNCHANGED <<repo, task, norevert, phase, seen, op, kills, errors>>

\* "Cleaning up", in the order of the directory: the SHARDING file is
\* removed, an unexpected file moved, but a file in a shard directory that
\* is no block is an error.
CleanUp ==
  /\ pc = "clean"
  /\ LET old == dirs[OldDS] IN
       \/ /\ old.shard # "none"
          /\ dirs' = [dirs EXCEPT ![OldDS].shard = "none"]
          /\ UNCHANGED <<pc, outcome>>
       \/ /\ \E f \in old.files \cap Extras : dirs' = Moved(f)
          /\ UNCHANGED <<pc, outcome>>
       \/ /\ old.files \cap Strays # {}
          /\ MoveFailed
          /\ UNCHANGED dirs
       \/ /\ old = Empty
          /\ Goto(IF task = "move" THEN "remove"
                  ELSE IF task = "undo" THEN "removeTemp" ELSE "truncatePhase")
          /\ UNCHANGED dirs
  /\ UNCHANGED <<version, phasefile, task, norevert, phase, seen, op, kills, errors>>

-----------------------------------------------------------------------------
(* Apply's way back: revert4, revert3, revertStep2, revert1                *)

Recreate ==
  /\ pc = "recreate"
  /\ IF norevert = "yes" THEN End("error") /\ UNCHANGED dirs
     ELSE dirs' = [dirs EXCEPT !["v4"] = Empty] /\ Goto("undo")
  /\ UNCHANGED <<version, phasefile, task, norevert, phase, seen, op, kills, errors>>

Undo ==
  /\ pc = "undo"
  /\ task' = "undo"
  /\ Goto(IF dirs["v4"].shard = "none" THEN "shard" ELSE "open")
  /\ UNCHANGED <<repo, norevert, phase, seen, op, kills, errors>>

\* Errors of these three are logged only.
RemoveTemp ==
  /\ pc = "removeTemp"
  /\ dirs' = Removed("v5")
  /\ Goto("downgrade")
  /\ UNCHANGED <<version, phasefile, task, norevert, phase, seen, op, kills, errors>>

Downgrade ==
  /\ pc = "downgrade"
  /\ dirs' = IF dirs["v4"].shard = "prefix" THEN [dirs EXCEPT !["v4"].shard = "none"] ELSE dirs
  /\ Revert1
  /\ UNCHANGED <<version, phasefile, task, norevert, phase, seen, op, kills, errors>>

RenameBack ==
  /\ pc = "renameBack"
  /\ dirs' = IF CanRename("v4", "blocks") THEN Renamed("v4", "blocks") ELSE dirs
  /\ End("error")
  /\ UNCHANGED <<version, phasefile, task, norevert, phase, seen, op, kills, errors>>

-----------------------------------------------------------------------------
(* Revert                                                                  *)

\* CheckVersion and readPhase.
StartRevert ==
  /\ pc = "idle" /\ version = 5
  /\ op' = "revert" /\ task' = "phase"
  /\ IF phasefile = Torn
     THEN End("error") /\ UNCHANGED phase
     ELSE /\ phase' = IF phasefile = NoFile THEN 0 ELSE phasefile
          /\ pc' = "phase" /\ outcome' = "none"
  /\ UNCHANGED <<repo, norevert, seen, kills, errors>>

\* Phases 0 and 4: blocks -> blocks-v5, blocks-v4 -> blocks
PhaseRename ==
  /\ pc = "phase" /\ phase \in {0, 4}
  /\ LET old == IF phase = 0 THEN "blocks" ELSE "v4"
         new == IF phase = 0 THEN "v5" ELSE "blocks"
     IN IF CanRename(old, new)
        THEN dirs' = Renamed(old, new) /\ Goto("truncatePhase")
        ELSE End("error") /\ UNCHANGED dirs
  /\ UNCHANGED <<version, phasefile, task, norevert, phase, seen, op, kills, errors>>

\* Phase 1: flatfs.Create of blocks-v4; that it exists is an error here.
PhaseCreate ==
  /\ pc = "phase" /\ phase = 1
  /\ IF dirs["v4"] \in {NoDir, Empty}
     THEN dirs' = [dirs EXCEPT !["v4"] = Empty] /\ Goto("shard")
     ELSE End("error") /\ UNCHANGED dirs
  /\ UNCHANGED <<version, phasefile, task, norevert, phase, seen, op, kills, errors>>

\* Phases 2 and 5 are Move and WriteVersion.
PhaseGo ==
  /\ pc = "phase" /\ phase \in {2, 5}
  /\ Goto(IF phase = 2 THEN "open" ELSE "truncate")
  /\ UNCHANGED <<repo, task, norevert, phase, seen, op, kills, errors>>

\* Phase 3: DowngradeV1toV0
PhaseDowngrade ==
  /\ pc = "phase" /\ phase = 3
  /\ IF dirs["v4"] # NoDir /\ dirs["v4"].shard = "prefix"
     THEN dirs' = [dirs EXCEPT !["v4"].shard = "none"] /\ Goto("truncatePhase")
     ELSE End("error") /\ UNCHANGED dirs
  /\ UNCHANGED <<version, phasefile, task, norevert, phase, seen, op, kills, errors>>

TruncatePhase ==
  /\ pc = "truncatePhase"
  /\ phasefile' = Torn
  /\ Goto("writePhase")
  /\ UNCHANGED <<version, dirs, task, norevert, phase, seen, op, kills, errors>>

WritePhase ==
  /\ pc = "writePhase"
  /\ phasefile' = phase + 1
  /\ phase' = phase + 1
  /\ Goto("phase")
  /\ UNCHANGED <<version, dirs, task, norevert, seen, op, kills, errors>>

\* blocks-v5 and then the phase file are removed; errors are ignored.
EndRevert ==
  /\ pc = "phase" /\ phase = 6
  /\ dirs' = Removed("v5")
  /\ \/ phasefile' = NoFile /\ UNCHANGED errors
     \/ Error /\ UNCHANGED phasefile
  /\ End("reverted")
  /\ UNCHANGED <<version, task, norevert, phase, seen, op, kills>>

-----------------------------------------------------------------------------
(* Faults                                                                  *)

\* The operation at pc fails; where that leads is where the code goes.
OperationFails ==
  /\ Error
  /\ \/ pc \in {"rename", "truncate", "write", "renameBack", "truncatePhase", "writePhase"}
        /\ End("error")
     \/ pc = "phase" /\ phase \in {0, 1, 3, 4} /\ End("error")
     \/ pc = "create" /\ dirs["v5"] = NoDir /\ Goto("downgrade")
     \/ pc \in {"shard", "shardWrite"} /\ ShardFailed
     \/ pc \in {"open", "keys", "clean"} /\ MoveFailed
     \/ pc = "remove" /\ Revert3
     \/ pc = "replace" /\ Goto("recreate")
     \/ pc = "recreate" /\ norevert = "no" /\ End("error")
     \/ pc = "removeTemp" /\ Goto("downgrade")
     \/ pc = "downgrade" /\ Revert1
  /\ UNCHANGED <<repo, task, norevert, phase, seen, op, kills>>

Kill ==
  /\ pc # "idle"
  /\ kills < MaxKills /\ kills' = kills + 1
  /\ End("none")
  /\ UNCHANGED <<repo, task, norevert, phase, seen, op, errors>>

Next ==
  \/ \E n \in {"yes", "no"} : StartApply(n)
  \/ RenameAside \/ Upgrade \/ Create \/ CreateShard \/ WriteShard
  \/ Open \/ (\E k \in Blocks : MoveKey(k)) \/ KeysMoved \/ CleanUp
  \/ RemoveOld \/ Replace \/ TruncateVersion \/ WriteVersion
  \/ Recreate \/ Undo \/ RemoveTemp \/ Downgrade \/ RenameBack
  \/ StartRevert \/ PhaseRename \/ PhaseCreate \/ PhaseGo \/ PhaseDowngrade
  \/ TruncatePhase \/ WritePhase \/ EndRevert
  \/ OperationFails \/ Kill

Spec == Init /\ [][Next]_vars

-----------------------------------------------------------------------------

\* No file is ever lost: whatever fails and whenever the process is killed,
\* every file is in exactly one of the three directories.
FilesSurvive ==
  \A f \in had : \E n \in Names :
    /\ dirs[n] # NoDir /\ f \in dirs[n].files
    /\ \A m \in Names \ {n} : dirs[m] # NoDir => f \notin dirs[m].files

\* A complete datastore of version v is in place.
InPlace(v) == dirs["blocks"] = [shard |-> Format(v), files |-> had]

\* An Apply that reports success has done all its work, whatever runs have
\* failed or been killed before it.
AppliedIsApplied ==
  outcome = "applied" => version = 5 /\ InPlace(5) /\ dirs["v4"] = NoDir /\ dirs["v5"] = NoDir

\* A Revert that reports success has brought back the old datastore.
RevertedIsReverted ==
  outcome = "reverted" => version = 4 /\ InPlace(4)

\* The same until the first kill or error.
RevertsUntilFault == kills = 0 /\ errors = 0 => RevertedIsReverted

\* After one failing operation, and however many more runs, Apply leaves all
\* the files where the daemon looks for them: unless -no-revert was given,
\* the steps it has taken are undone.  A stray file is such a failure too.
ErrorIsUndone ==
  (/\ forced = "no" /\ kills = 0
   /\ errors <= (IF had \cap Strays = {} THEN 1 ELSE 0)
   /\ pc = "idle" /\ op = "apply")
    => dirs["blocks"] # NoDir /\ dirs["blocks"].files = had

-----------------------------------------------------------------------------
(* The inductive invariant behind FilesSurvive and AppliedIsApplied        *)

NothingElse == \A n \in Names : dirs[n] # NoDir => dirs[n].files \subseteq had

Sharding == pc \in {"shard", "shardWrite"}
Moving == pc \in {"open", "keys", "clean"}

\* The directories that a step relies on, or must not find.
DirsAt ==
  /\ pc \in {"upgrade", "create", "remove", "undo", "removeTemp", "downgrade"}
       => dirs["v4"] # NoDir
  /\ Sharding => task # "move" /\ dirs[ShardDir] # NoDir
  /\ Sharding /\ task = "create" => dirs["v4"] # NoDir
  /\ Moving => task \in {"move", "undo", "phase"}
  /\ Moving /\ task # "phase" => dirs["v4"] # NoDir
  /\ pc \in {"keys", "clean"} => dirs[OldDS] # NoDir /\ dirs[NewDS] # NoDir
  /\ pc \in {"replace", "recreate"} => dirs["v4"] = NoDir

\* On Apply's way to success, the blocks directory is out of the way, the new
\* one is sharded as it must be, and in the end the only one.
NewInPlace == InPlace(5) /\ dirs["v4"] = NoDir /\ dirs["v5"] = NoDir

Forward ==
  /\ (\/ pc \in {"upgrade", "create", "remove", "replace"}
      \/ Sharding /\ task \in {"upgrade", "create"}
      \/ Moving /\ task = "move")
       => dirs["blocks"] = NoDir /\ op = "apply"
  /\ pc = "rename" => op = "apply"
  /\ pc \in {"remove", "replace"} \/ (Moving /\ task = "move")
       => dirs["v5"] # NoDir /\ dirs["v5"].shard = "nextToLast"
  /\ pc \in {"truncate", "write"} /\ op = "apply" => NewInPlace
  /\ outcome = "applied" => pc = "idle"

\* A Revert is in one of its phases, the last of which is not noted down.
InPhase ==
  /\ pc = "phase" => op = "revert" /\ task = "phase"
  /\ (\/ pc \in {"truncatePhase", "writePhase"}
      \/ pc \in {"truncate", "write"} /\ op = "revert"
      \/ (Sharding \/ Moving) /\ task = "phase")
       => op = "revert" /\ task = "phase" /\ phase < 6

IInv ==
  TypeOK /\ FilesSurvive /\ NothingElse /\ DirsAt /\ Forward /\ InPhase /\ AppliedIsApplied

-----------------------------------------------------------------------------
(* The inductive invariant behind RevertsUntilFault                        *)

At(blocks, v4, v5) == dirs["blocks"] = blocks /\ dirs["v4"] = v4 /\ dirs["v5"] = v5
All(shard) == [shard |-> shard, files |-> had]

\* What Revert has brought about when it comes to phase n.  A stray file keeps
\* it in phase 2.
Reached(n) ==
  /\ n = 0 => NewInPlace
  /\ n = 1 => At(NoDir, NoDir, All("nextToLast"))
  /\ n = 2 => /\ dirs["blocks"] = NoDir /\ dirs["v5"] # NoDir
              /\ dirs["v4"] # NoDir /\ dirs["v4"].shard = "prefix"
  /\ n = 3 => At(NoDir, All("prefix"), Empty)
  /\ n = 4 => At(NoDir, All("none"), Empty)
  /\ n \in {5, 6} => At(All("none"), NoDir, Empty)

RevertSteps ==
  \/ pc \in {"idle", "phase", "truncatePhase", "writePhase", "truncate", "write"}
  \/ (Sharding \/ Moving) /\ task = "phase"

Noted == phasefile = (IF phase = 0 THEN NoFile ELSE phase)

\* Without faults, the version and the phase file tell how far Revert is.
Reverting ==
  op = "revert" =>
    /\ pc = "idle" =>
         \/ outcome = "reverted" /\ version = 4 /\ InPlace(4) /\ phasefile = NoFile
         \/ outcome = "error" /\ version = 5 /\ phasefile = 2 /\ Reached(2)
    /\ pc = "phase" => Reached(phase) /\ Noted /\ version = (IF phase = 6 THEN 4 ELSE 5)
    /\ pc \in {"truncatePhase", "writePhase"} =>
         Reached(phase + 1) /\ version = (IF phase = 5 THEN 4 ELSE 5)
    /\ Sharding =>
         /\ phase = 1 /\ version = 5 /\ Noted
         /\ dirs["blocks"] = NoDir /\ dirs["v5"] # NoDir
    /\ Moving => phase = 2 /\ version = 5 /\ Noted /\ Reached(2)
    /\ pc \in {"truncate", "write"} => phase = 5 /\ Reached(5)
    /\ RevertSteps

FaultFree ==
  /\ Reverting
  /\ op = "apply" => phasefile = NoFile /\ (version = 5 => NewInPlace /\ pc = "idle")
  /\ outcome = "reverted" => op = "revert" /\ pc = "idle"

UntilFault == kills = 0 /\ errors = 0 => FaultFree

-----------------------------------------------------------------------------
(* The inductive invariant behind ErrorIsUndone                            *)

\* No step fails any more: it would be the second failure.
Budget == IF had \cap Strays = {} THEN 1 ELSE 0
Spent == errors = Budget

\* All the files are in one directory, and at most an unfinished blocks-v5
\* without files is beside it.
NoneMoved == dirs["v5"] # NoDir => dirs["v5"].files = {}
Home == dirs["blocks"] # NoDir /\ dirs["blocks"].files = had /\ dirs["v4"] = NoDir /\ NoneMoved
Aside == dirs["blocks"] = NoDir /\ dirs["v4"] # NoDir /\ dirs["v4"].files = had /\ NoneMoved

\* What Apply finds when it starts: what could make it fail is the remains of
\* a failure.
NotBegun == dirs["v5"] \in {NoDir, Empty} \/ Spent
Fresh(n) == (dirs[n].shard = "none" \/ Spent) /\ NotBegun

\* Where Apply is on its way, and on its way back.
Upgrading ==
  /\ pc = "rename" => Home /\ Fresh("blocks")
  /\ pc = "upgrade" \/ (Sharding /\ task = "upgrade") =>
       /\ Aside /\ NotBegun
       /\ pc = "upgrade" => Fresh("v4")
  /\ pc = "create" => Aside /\ NotBegun /\ dirs["v4"].shard = "prefix"
  /\ Sharding /\ task = "create" => Aside /\ dirs["v4"].shard = "prefix"
  /\ Moving /\ task = "move" =>
       dirs["v4"].shard \in (IF pc = "clean" THEN {"prefix", "none"} ELSE {"prefix"})
  /\ pc = "remove" => dirs["v4"] = Empty
  /\ (\/ pc \in {"remove", "replace", "undo", "recreate"}
      \/ Moving
      \/ Sharding /\ task = "undo")
       => dirs["v5"] # NoDir /\ dirs["v5"].files \cap Strays = {}

Undoing ==
  /\ (\/ pc \in {"undo", "recreate", "removeTemp", "downgrade", "renameBack"}
      \/ (Sharding \/ Moving) /\ task = "undo")
       => Spent /\ dirs["blocks"] = NoDir
  /\ pc \in {"undo", "recreate"} \/ (Sharding /\ task = "undo")
       => dirs["v5"].shard = "nextToLast"
  /\ pc = "undo" => dirs["v4"].shard \in {"none", "prefix"}
  /\ Moving /\ task = "undo" =>
       /\ dirs["v4"].shard = "prefix"
       /\ pc # "clean" => dirs["v5"].shard = "nextToLast"
  /\ pc \in {"removeTemp", "downgrade", "renameBack"} => Aside

\* From where Revert can go on to success in phase n; elsewhere it fails.
Resumable(n) ==
  /\ n = 0 => dirs["blocks"] = NoDir \/ Home
  /\ n \in 1 .. 3 => dirs["blocks"] = NoDir
  /\ n \in {3, 4} => dirs["v5"] = Empty
  /\ n = 4 => \/ dirs["v4"] = NoDir
              \/ dirs["blocks"] = NoDir /\ dirs["v4"].shard = "none"
  /\ n \in {5, 6} => Home /\ Fresh("blocks")

Phase == IF phasefile = NoFile THEN 0 ELSE phasefile

\* There is no phase file, unless a failure at the end of Revert has left one.
NoPhase == phasefile = NoFile \/ (phasefile \in {5, 6, Torn} /\ Spent)

Resuming ==
  /\ pc = "idle" /\ phasefile # Torn => Resumable(Phase)
  /\ version = 4 => /\ pc = "idle" => Home /\ Fresh("blocks") /\ NoPhase
                    /\ op = "revert" => \/ pc = "idle"
                                        \/ pc \in {"truncatePhase", "writePhase"} /\ phase = 5
                                        \/ pc = "phase" /\ phase = 6
  /\ op = "revert" =>
       /\ pc = "phase" => Resumable(phase)
       /\ pc \in {"truncatePhase", "writePhase"} => Resumable(phase) /\ Resumable(phase + 1)
       /\ Sharding => phase = 1 /\ dirs["blocks"] = NoDir
       /\ Moving => phase = 2 /\ dirs["blocks"] = NoDir
       /\ pc \in {"truncate", "write"} => phase = 5 /\ Resumable(5)
       /\ pc \notin {"idle", "writePhase"} => Phase = phase
       /\ pc = "writePhase" => phasefile = Torn
       /\ RevertSteps

Undone ==
  /\ norevert = "no"
  /\ op = "apply" =>
       /\ Upgrading /\ Undoing
       /\ pc = "idle" => Home
       /\ NoPhase
  /\ Resuming

AtMostOne == forced = "no" /\ kills = 0 /\ errors <= Budget
UntilSecond == AtMostOne => Undone

=============================================================================

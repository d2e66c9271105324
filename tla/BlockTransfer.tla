--------------------------- MODULE BlockTransfer ----------------------------
(***************************************************************************)
(* Migration 1-to-2: the blocks move from leveldb to flatfs, and the       *)
(* directory .go-ipfs becomes .ipfs.                                       *)
(*                                                                         *)
(* Apply moves the blocks first and the directory then, Revert the other   *)
(* way around.  Both move a block by Get, Put and Delete.  The error of    *)
(* os.Rename for a target that is a directory, the source itself included, *)
(* is that of Go's library.                                                *)
(***************************************************************************)
EXTENDS Blockstore

VARIABLES
  stray,      \* an empty directory .ipfs is left beside .go-ipfs
  removed     \* observation only: RemoveAll(blocks) has run

transferVars == <<stray, removed>>

TransferInit == stray = "no" /\ removed = "no"

Source(o) == IF o = "apply" THEN "leveldb" ELSE "hex"
Target(o) == IF o = "apply" THEN "hex" ELSE "leveldb"

-----------------------------------------------------------------------------
(* Mistakes the properties must catch                                      *)

\* Delete comes before Put.
PutDeletes(p, b) ==
  /\ run[p].pc = "put" /\ b \in todo[p]
  /\ blocks' = Dropped(b, Source(run[p].op))
  /\ cur' = [cur EXCEPT ![p] = b]
  /\ Goto(p, "delete")
  /\ UNCHANGED <<version, dir, faults, temps, todo, transferVars>>

\* A query that leaves out what has a copy in the target.
QuerySkips(p) ==
  /\ run[p].pc = "query"
  /\ todo' = [todo EXCEPT ![p] = In(Source(run[p].op)) \ In(Target(run[p].op))]
  /\ Goto(p, "put")
  /\ UNCHANGED <<version, dir, faults, blocks, temps, cur, transferVars>>

-----------------------------------------------------------------------------

\* sanityChecks: a path with .go-ipfs in it must be free to become .ipfs,
\* which is tried with Mkdir ...
Sanity(p) ==
  /\ run[p].pc = "sanity"
  /\ \/ run[p].path # ".go-ipfs" /\ Goto(p, "query") /\ UNCHANGED stray
     \/ run[p].path = ".go-ipfs" /\ stray = "no" /\ stray' = "yes" /\ Goto(p, "unsanity")
     \/ run[p].path = ".go-ipfs" /\ stray = "yes" /\ Fail(p) /\ UNCHANGED stray
  /\ UNCHANGED <<version, dir, faults, blockVars, removed>>

\* ... and Remove.
Unsanity(p) ==
  /\ run[p].pc = "unsanity"
  /\ stray' = "no"
  /\ Goto(p, "query")
  /\ UNCHANGED <<version, dir, faults, blockVars, removed>>

\* transferBlocks: all keys are listed ...
QueryBlocks(p) ==
  /\ run[p].pc = "query"
  /\ \E s \in IF run[p].op = "apply" THEN {In("leveldb")} ELSE Listings :
       todo' = [todo EXCEPT ![p] = s]
  /\ Goto(p, "put")
  /\ UNCHANGED <<version, dir, faults, blocks, temps, cur, transferVars>>

\* ... and for each, the block is read, put ...
PutBlock(p, b) ==
  /\ run[p].pc = "put" /\ b \in todo[p]
  /\ blocks' = Added(b, Target(run[p].op))
  /\ cur' = [cur EXCEPT ![p] = b]
  /\ Goto(p, "delete")
  /\ UNCHANGED <<version, dir, faults, temps, todo, transferVars>>

\* ... and deleted.
DeleteBlock(p) ==
  /\ run[p].pc = "delete"
  /\ blocks' = Dropped(cur[p], Source(run[p].op))
  /\ todo' = [todo EXCEPT ![p] = @ \ {cur[p]}]
  /\ cur' = [cur EXCEPT ![p] = NoKey]
  /\ Goto(p, "put")
  /\ UNCHANGED <<version, dir, faults, temps, transferVars>>

EndTransfer(p) ==
  /\ run[p].pc = "put" /\ todo[p] = {}
  /\ Goto(p, IF run[p].op = "apply" THEN "move" ELSE "removeAll")
  /\ UNCHANGED <<version, dir, faults, blockVars, transferVars>>

\* transferBlocksFromFlatDB ends with os.RemoveAll of blocks/.
RemoveAll(p) ==
  /\ run[p].pc = "removeAll"
  /\ blocks' = [b \in Blocks |-> blocks[b] \ {"hex", "base32"}]
  /\ temps' = {}
  /\ removed' = "yes"
  /\ Goto(p, "truncate")
  /\ UNCHANGED <<version, dir, faults, todo, cur, stray>>

\* moveIpfsDir and reverseIpfsDir, whose path does not change if the name
\* they look for is not in it.
MoveDir(p) ==
  /\ run[p].pc = "move"
  /\ LET here == IF run[p].op = "apply" THEN ".go-ipfs" ELSE ".ipfs"
         there == IF run[p].op = "apply" THEN ".ipfs" ELSE ".go-ipfs"
     IN \/ /\ run[p].path = here /\ stray = "no"
           /\ dir' = there
           /\ Goto(p, IF run[p].op = "apply" THEN "truncate" ELSE "query")
        \/ (run[p].path # here \/ stray = "yes") /\ Fail(p) /\ UNCHANGED dir
  /\ UNCHANGED <<version, faults, blockVars, transferVars>>

TransferStep(p) ==
  \/ Sanity(p) \/ Unsanity(p) \/ QueryBlocks(p) \/ DeleteBlock(p) \/ EndTransfer(p)
  \/ RemoveAll(p) \/ MoveDir(p)
  \/ \E b \in Blocks : PutBlock(p, b)

=============================================================================

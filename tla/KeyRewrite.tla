----------------------------- MODULE KeyRewrite -----------------------------
(***************************************************************************)
(* Migration 3-to-4: the binary keys of blocks, public keys and IPNS       *)
(* records are rewritten in base32.  Apply renames the blocks' files;      *)
(* everything else, and all of Revert, goes through rewriteKeys: Get, Put  *)
(* under the other key, Delete.                                            *)
(*                                                                         *)
(* NewKey cleans a binary key as if it were a path.  A key that this       *)
(* changes is "mangled".  For blocks and public keys that does no harm,    *)
(* since the key is computed again from the data.                          *)
(***************************************************************************)
EXTENDS Blockstore

CONSTANTS
  Pks, Ipns,  \* the records: public keys, and IPNS entries
  Mangled,    \* the entries whose binary key is not 34 bytes long
  Published,  \* the entries that a daemon publishes again
  MaxValue    \* bound on the values published under one key

Records == Pks \cup Ipns
Forms == {"binary", "base32"}
None == 0                \* no record is stored under that key

ASSUME RecordAssumption ==
  /\ Mangled \subseteq Ipns /\ Published \subseteq Ipns
  /\ Pks \cap Ipns = {} /\ Records \cap Blocks = {} /\ NoKey \notin Records
ASSUME ValueAssumption == MaxValue \in Nat \ {0}

VARIABLES
  recs,       \* recs[r][f]: the value of record r under the key of form f
  swallowed,  \* observation only: an error was dropped
  latest      \* observation only: the value last published

keyVars == <<recs, swallowed, latest>>

Form(v) == IF v <= 3 THEN "binary" ELSE "base32"

KeyInit ==
  /\ latest \in [Records -> 1 .. 1]
  /\ recs = [r \in Records |-> [f \in Forms |-> IF f = Form(version) THEN 1 ELSE None]]
  /\ swallowed = "no"

OldForm(o) == IF o = "apply" THEN "binary" ELSE "base32"
NewForm(o) == IF o = "apply" THEN "base32" ELSE "binary"

\* The kinds of keys are rewritten in this order.
NextKind(where) ==
  CASE where = "rewriteBlocks" -> "clean" [] where = "rewritePks" -> "listIpns"
    [] where = "rewriteIpns" -> "truncate"

-----------------------------------------------------------------------------
(* Mistakes the properties must catch                                      *)

\* A record that has been rewritten before is not written again.
PutRecordOnce(p, r) ==
  /\ run[p].pc \in {"rewritePks", "rewriteIpns"} /\ cur[p] = NoKey /\ r \in todo[p]
  /\ IF (run[p].op = "apply" /\ r \in Mangled) \/ recs[r][NewForm(run[p].op)] # None
     THEN UNCHANGED recs
     ELSE recs' = [recs EXCEPT ![r][NewForm(run[p].op)] = recs[r][OldForm(run[p].op)]]
  /\ cur' = [cur EXCEPT ![p] = r]
  /\ UNCHANGED <<runVars, blocks, temps, todo, swallowed, latest>>

-----------------------------------------------------------------------------
(* The blocks                                                              *)

\* Apply walks blocks/ for names that are not base32 yet, Revert asks the
\* new flatfs for those that are.
ListBlocks(p) ==
  /\ run[p].pc = "listBlocks"
  /\ todo' = [todo EXCEPT ![p] = In(IF run[p].op = "apply" THEN "hex" ELSE "base32")]
  /\ Goto(p, IF run[p].op = "apply" THEN "rename" ELSE "rewriteBlocks")
  /\ UNCHANGED <<version, dir, faults, blocks, temps, cur, keyVars>>

\* The walk meets an error: Apply drops it, and the new flatfs logs it and
\* ends the list.
ListBlocksFails(p) ==
  /\ run[p].pc = "listBlocks"
  /\ faults < MaxFaults /\ faults' = faults + 1
  /\ \E s \in SUBSET In(IF run[p].op = "apply" THEN "hex" ELSE "base32") :
       todo' = [todo EXCEPT ![p] = s]
  /\ swallowed' = "yes"
  /\ Goto(p, IF run[p].op = "apply" THEN "rename" ELSE "rewriteBlocks")
  /\ UNCHANGED <<version, dir, blocks, temps, cur, recs, latest>>

\* transferBlocks renames a file.
RenameBlock(p, b) ==
  /\ run[p].pc = "rename" /\ b \in todo[p]
  /\ blocks' = Moved(b, "hex", "base32")
  /\ todo' = [todo EXCEPT ![p] = @ \ {b}]
  /\ UNCHANGED <<runVars, temps, cur, keyVars>>

\* transferBlock puts a block under its old name.
RewriteBlock(p, b) ==
  /\ run[p].pc = "rewriteBlocks" /\ cur[p] = NoKey /\ b \in todo[p]
  /\ blocks' = Added(b, "hex")
  /\ cur' = [cur EXCEPT ![p] = b]
  /\ UNCHANGED <<runVars, temps, todo, keyVars>>

UnlinkBlock(p) ==
  /\ run[p].pc = "rewriteBlocks" /\ cur[p] # NoKey
  /\ blocks' = Dropped(cur[p], "base32")
  /\ todo' = [todo EXCEPT ![p] = @ \ {cur[p]}]
  /\ cur' = [cur EXCEPT ![p] = NoKey]
  /\ UNCHANGED <<runVars, temps, keyVars>>

\* cleanEmptyDirs, of which Revert returns the error and Apply does not.
CleanEmptyDirs(p) ==
  /\ run[p].pc = "clean" \/ (run[p].pc = "rename" /\ todo[p] = {})
  /\ Goto(p, "listPks")
  /\ UNCHANGED <<version, dir, faults, blockVars, keyVars>>

-----------------------------------------------------------------------------
(* Public keys and IPNS records                                            *)

ListRecords(p) ==
  /\ run[p].pc \in {"listPks", "listIpns"}
  /\ todo' = [todo EXCEPT ![p] = {r \in IF run[p].pc = "listPks" THEN Pks ELSE Ipns :
                                    recs[r][OldForm(run[p].op)] # None}]
  /\ Goto(p, IF run[p].pc = "listPks" THEN "rewritePks" ELSE "rewriteIpns")
  /\ UNCHANGED <<version, dir, faults, blocks, temps, cur, keyVars>>

\* transferPubKey, transferIpnsEntries and revertIpnsEntries.  An IPNS key
\* that is mangled is skipped by Apply ...
PutRecord(p, r) ==
  /\ run[p].pc \in {"rewritePks", "rewriteIpns"} /\ cur[p] = NoKey /\ r \in todo[p]
  /\ IF run[p].op = "apply" /\ r \in Mangled
     THEN UNCHANGED recs
     ELSE recs' = [recs EXCEPT ![r][NewForm(run[p].op)] = recs[r][OldForm(run[p].op)]]
  /\ cur' = [cur EXCEPT ![p] = r]
  /\ UNCHANGED <<runVars, blocks, temps, todo, swallowed, latest>>

\* ... but deleted like the others.
DeleteRecord(p) ==
  /\ run[p].pc \in {"rewritePks", "rewriteIpns"} /\ cur[p] # NoKey
  /\ recs' = [recs EXCEPT ![cur[p]][OldForm(run[p].op)] = None]
  /\ todo' = [todo EXCEPT ![p] = @ \ {cur[p]}]
  /\ cur' = [cur EXCEPT ![p] = NoKey]
  /\ UNCHANGED <<runVars, blocks, temps, swallowed, latest>>

EndRewrite(p) ==
  /\ run[p].pc \in {"rewriteBlocks", "rewritePks", "rewriteIpns"} /\ todo[p] = {}
  /\ Goto(p, NextKind(run[p].pc))
  /\ UNCHANGED <<version, dir, faults, blockVars, keyVars>>

KeyStep(p) ==
  \/ ListBlocks(p) \/ ListBlocksFails(p) \/ UnlinkBlock(p) \/ CleanEmptyDirs(p)
  \/ ListRecords(p) \/ DeleteRecord(p) \/ EndRewrite(p)
  \/ \E b \in Blocks : RenameBlock(p, b) \/ RewriteBlock(p, b)
  \/ \E r \in Records : PutRecord(p, r)

-----------------------------------------------------------------------------

\* A daemon publishes an IPNS entry, which replaces the one before.
DaemonPublish(r) ==
  /\ version \in 1 .. 4 /\ locks[LockOf(version)] = NoProc
  /\ latest[r] < MaxValue
  /\ latest' = [latest EXCEPT ![r] = @ + 1]
  /\ recs' = [recs EXCEPT ![r][Form(version)] = latest[r] + 1]
  /\ UNCHANGED <<runVars, blockVars, swallowed>>

=============================================================================

---------------------------- MODULE PinTransfer -----------------------------
(***************************************************************************)
(* Migration 2-to-3: the pins move from three JSON lists in leveldb        *)
(* (recursive, direct and indirect) to objects of the block store, whose   *)
(* root is another key of leveldb.  Revert writes the lists again and      *)
(* leaves the objects.                                                     *)
(*                                                                         *)
(* The indirect pins are derived from the recursive ones, so they are left *)
(* out; what it takes to derive them is in WriteIndirect.  The pinner, its *)
(* Flush and LoadPinner, is vendored code.                                 *)
(***************************************************************************)
EXTENDS Blockstore

CONSTANTS
  NoPins,     \* the key of a pin list is not there
  Roots, Directs,   \* the blocks that may be pinned, by kind
  Reach       \* the blocks that a recursive pin of each root holds

PinSet == [rec: SUBSET Roots, direct: SUBSET Directs]

ASSUME ReachAssumption ==
  /\ Roots \subseteq Data /\ Directs \subseteq Data
  /\ Reach \in [Roots -> SUBSET Data] /\ \A b \in Roots : b \in Reach[b]
ASSUME PinAssumption ==
  /\ \A s \in SUBSET Roots \cup SUBSET Directs : NoPins # s
  /\ \A s \in PinSet : NoPins # s

VARIABLES
  oldPins,    \* the lists of version 2
  newPins,    \* the pins of version 3
  wanted      \* observation only: the pins the owner has set

pinVars == <<oldPins, newPins, wanted>>

PinInit ==
  /\ wanted \in PinSet
  /\ oldPins = IF version <= 2 THEN wanted ELSE [rec |-> NoPins, direct |-> NoPins]
  /\ newPins = IF version >= 3 THEN wanted ELSE NoPins

\* LoadPinner finds the root, and the objects under the names of version 3.
Loadable == newPins # NoPins /\ "hex" \in blocks[PinNode]

-----------------------------------------------------------------------------
(* Mistakes the properties must catch                                      *)

\* The old pins are cleaned up before the new ones are on disk.
FlushLast(p) ==
  /\ run[p].pc = "flush"
  /\ oldPins.rec # NoPins /\ oldPins.direct # NoPins
  /\ oldPins' = [oldPins EXCEPT !.rec = NoPins]
  /\ Goto(p, "cleanup")
  /\ UNCHANGED <<version, dir, faults, blockVars, newPins, wanted>>

-----------------------------------------------------------------------------
(* Apply                                                                   *)

\* transferPins: both lists are loaded, pinned in memory and flushed.
Flush(p) ==
  /\ run[p].pc = "flush"
  /\ IF oldPins.rec # NoPins /\ oldPins.direct # NoPins
     THEN /\ newPins' = oldPins
          /\ blocks' = Added(PinNode, "hex")
          /\ Goto(p, "cleanup")
     ELSE Fail(p) /\ UNCHANGED <<newPins, blocks>>
  /\ UNCHANGED <<version, dir, faults, temps, todo, cur, oldPins, wanted>>

\* cleanupOldPins: each cleanupKeyspace deletes the key of the recursive
\* pins, whatever key it is given.
CleanupOldPins(p) ==
  /\ run[p].pc = "cleanup"
  /\ oldPins' = [oldPins EXCEPT !.rec = NoPins]
  /\ Goto(p, "truncate")
  /\ UNCHANGED <<version, dir, faults, blockVars, newPins, wanted>>

-----------------------------------------------------------------------------
(* Revert                                                                  *)

\* revertPins: LoadPinner, then writeOldKeys for the recursive pins ...
WriteRecursive(p) ==
  /\ run[p].pc = "load"
  /\ IF Loadable
     THEN oldPins' = [oldPins EXCEPT !.rec = newPins.rec] /\ Goto(p, "writeDirect")
     ELSE Fail(p) /\ UNCHANGED oldPins
  /\ UNCHANGED <<version, dir, faults, blockVars, newPins, wanted>>

\* ... and the direct ones.
WriteDirect(p) ==
  /\ run[p].pc = "writeDirect"
  /\ oldPins' = [oldPins EXCEPT !.direct = newPins.direct]
  /\ Goto(p, "indirect")
  /\ UNCHANGED <<version, dir, faults, blockVars, newPins, wanted>>

\* indirectPins reads every block below a recursive pin.
WriteIndirect(p) ==
  /\ run[p].pc = "indirect"
  /\ IF UNION {Reach[b] : b \in newPins.rec} \subseteq In("hex")
     THEN Goto(p, "truncate")
     ELSE Fail(p)
  /\ UNCHANGED <<version, dir, faults, blockVars, pinVars>>

PinStep(p) ==
  \/ Flush(p) \/ CleanupOldPins(p)
  \/ WriteRecursive(p) \/ WriteDirect(p) \/ WriteIndirect(p)

-----------------------------------------------------------------------------

\* A daemon pins and unpins, while it holds the lock of its version.  It
\* needs the pins of that version to start.
DaemonPin ==
  /\ version \in 1 .. 4 /\ locks[LockOf(version)] = NoProc
  /\ wanted' \in PinSet \ {wanted}
  /\ \/ /\ version <= 2 /\ oldPins.rec # NoPins /\ oldPins.direct # NoPins
        /\ oldPins' = wanted'
        /\ UNCHANGED newPins
     \/ /\ version >= 3 /\ newPins # NoPins /\ Place(version) \in blocks[PinNode]
        /\ newPins' = wanted'
        /\ UNCHANGED oldPins
  /\ UNCHANGED <<runVars, blockVars>>

=============================================================================

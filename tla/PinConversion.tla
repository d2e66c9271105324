--------------------------- MODULE PinConversion ----------------------------
(***************************************************************************)
(* Migration 10-to-11: the pins move from objects below one root key to    *)
(* entries of their own in the datastore, and back.  The conversions are   *)
(* those of the vendored go-ipfs-pinner (pinconv): its datastore pinner    *)
(* writes each pin at once, its IPLD pinner keeps them in memory up to     *)
(* Flush.  Both report no error of a single pin.                           *)
(***************************************************************************)
EXTENDS Integers

CONSTANTS
  Pins,
  NoRoot,     \* the root key is not there
  MaxFaults   \* bound on kills and failing operations

ASSUME RootAssumption == \A s \in SUBSET Pins : NoRoot # s
ASSUME FaultAssumption == MaxFaults \in Nat

VARIABLES
  version,
  ipld,       \* the pins below the root key
  ds,         \* the pins in the datastore
  pc,         \* the step of the migration in progress
  rest,       \* the pins it still has to convert
  mem,        \* the pins that Revert's IPLD pinner has in memory
  \* observation only
  faults,
  wanted,     \* the pins the owner has set
  dropped     \* a Revert was ended early, or an error of a pin was not seen

pinVars == <<ipld, ds, pc, rest, mem, wanted, dropped>>

Root == IF ipld = NoRoot THEN {} ELSE ipld

PinInit ==
  /\ wanted \in SUBSET Pins
  /\ ipld = IF version <= 10 THEN wanted ELSE NoRoot
  /\ ds = IF version <= 10 THEN {} ELSE wanted
  /\ pc = "idle" /\ rest = {} /\ mem = {}
  /\ dropped = "no"

Fault == faults < MaxFaults /\ faults' = faults + 1

-----------------------------------------------------------------------------
(* Mistakes the properties must catch                                      *)

\* The root key is deleted before the pins are stored.
StartApplyUnlinking ==
  /\ pc = "idle" /\ version = 10
  /\ pc' = "convert" /\ rest' = Root
  /\ ipld' = NoRoot
  /\ UNCHANGED <<version, ds, mem, faults, wanted, dropped>>

-----------------------------------------------------------------------------
(* Apply                                                                   *)

\* RepoVersion, fsrepo.Open with its lock, and LoadKeys; there are no keys
\* without a root.
StartApply ==
  /\ pc = "idle" /\ version = 10
  /\ pc' = "convert" /\ rest' = Root
  /\ UNCHANGED <<version, ipld, ds, mem, faults, wanted, dropped>>

StorePin(x) ==
  /\ pc = "convert" /\ x \in rest
  /\ ds' = ds \cup {x}
  /\ rest' = rest \ {x}
  /\ UNCHANGED <<version, ipld, pc, mem, faults, wanted, dropped>>

\* PinWithMode returns no error.
StorePinFails(x) ==
  /\ pc = "convert" /\ x \in rest
  /\ Fault
  /\ rest' = rest \ {x}
  /\ dropped' = "yes"
  /\ UNCHANGED <<version, ipld, ds, pc, mem, wanted>>

\* Flush of what has been written, and the deletion of the root key.
Unlink ==
  /\ pc = "convert" /\ rest = {}
  /\ ipld' = NoRoot
  /\ pc' = "raise"
  /\ UNCHANGED <<version, ds, rest, mem, faults, wanted, dropped>>

-----------------------------------------------------------------------------
(* Revert                                                                  *)

StartRevert ==
  /\ pc = "idle" /\ version = 11
  /\ pc' = "unpin" /\ rest' = ds /\ mem' = {}
  /\ UNCHANGED <<version, ipld, ds, faults, wanted, dropped>>

\* Each pin is remembered, and removed from the datastore.
MovePin(x) ==
  /\ pc = "unpin" /\ x \in rest
  /\ mem' = mem \cup {x}
  /\ ds' = ds \ {x}
  /\ rest' = rest \ {x}
  /\ UNCHANGED <<version, ipld, pc, faults, wanted, dropped>>

FlushIpld ==
  /\ pc = "unpin" /\ rest = {}
  /\ ipld' = mem
  /\ pc' = "lower"
  /\ UNCHANGED <<version, ds, rest, mem, faults, wanted, dropped>>

-----------------------------------------------------------------------------

WriteRepoVersion ==
  /\ pc \in {"raise", "lower"}
  /\ version' = IF pc = "raise" THEN 11 ELSE 10
  /\ pc' = "idle" /\ mem' = {}
  /\ UNCHANGED <<ipld, ds, rest, faults, wanted, dropped>>

\* An error is returned, or the program is killed.
Interrupt ==
  /\ pc # "idle"
  /\ Fault
  /\ pc' = "idle" /\ rest' = {} /\ mem' = {}
  /\ dropped' = IF pc \in {"unpin", "lower"} THEN "yes" ELSE dropped
  /\ UNCHANGED <<version, ipld, ds, wanted>>

\* A daemon of the repository's version.  It starts from nothing where
\* there is no root.
DaemonPin(x) ==
  /\ pc = "idle" /\ x \notin wanted
  /\ wanted' = wanted \cup {x}
  /\ \/ version = 10 /\ ipld' = Root \cup {x} /\ UNCHANGED ds
     \/ version = 11 /\ ds' = ds \cup {x} /\ UNCHANGED ipld
  /\ UNCHANGED <<version, pc, rest, mem, faults, dropped>>

DaemonUnpin(x) ==
  /\ pc = "idle"
  /\ wanted' = wanted \ {x}
  /\ \/ version = 10 /\ x \in Root /\ ipld' = Root \ {x} /\ UNCHANGED ds
     \/ version = 11 /\ x \in ds /\ ds' = ds \ {x} /\ UNCHANGED ipld
  /\ UNCHANGED <<version, pc, rest, mem, faults, dropped>>

PinStep ==
  \/ StartApply \/ Unlink \/ StartRevert \/ FlushIpld \/ WriteRepoVersion \/ Interrupt
  \/ \E x \in Pins : StorePin(x) \/ StorePinFails(x) \/ MovePin(x) \/ DaemonPin(x) \/ DaemonUnpin(x)

\* The other migrations, which take the same lock: they move the version on
\* their side of 10 and 11, may fail, and leave the pins alone.
OthersRun ==
  /\ pc = "idle"
  /\ version' \in 9 .. 16
  /\ version <= 10 <=> version' <= 10
  /\ faults' \in {faults, faults + 1} /\ faults' <= MaxFaults
  /\ UNCHANGED pinVars

PinSpec ==
  /\ version \in 9 .. 16 /\ faults = 0 /\ PinInit
  /\ [][PinStep \/ OthersRun]_<<version, faults, pinVars>>

-----------------------------------------------------------------------------

\* Unless a Revert is ended early, or an error of a single pin is not seen,
\* no pin of the owner's is lost: the daemon of version 11 finds it in the
\* datastore or Revert has it in memory; below, it is under the root, or
\* Apply has put it in the datastore and the next Apply will find it there.
PinsKept ==
  dropped = "no" => wanted \subseteq (IF version >= 11 THEN ds \cup mem ELSE Root \cup ds)

=============================================================================

----------------------------- MODULE Blockstore -----------------------------
(***************************************************************************)
(* The places where a repository of the versions 1 to 4 keeps its blocks:  *)
(* the leveldb datastore (version 1), and the files below blocks/, named   *)
(* in hex (versions 2 and 3) or in base32 (version 4).  The hex names are  *)
(* those of the flatfs datastore, which groups them into prefix            *)
(* directories; its Put writes a file "put-..." and renames it.            *)
(***************************************************************************)
EXTENDS MigrationRun

CONSTANTS
  Blocks,
  PinNode,    \* the block in which the pins of version 3 are stored
  Prefix,     \* the prefix directory of each block's hex name
  NoKey       \* no key

Places == {"leveldb", "hex", "base32"}

ASSUME BlockAssumption == PinNode \in Blocks /\ NoKey \notin Blocks
ASSUME PrefixAssumption == DOMAIN Prefix = Blocks

VARIABLES
  blocks,     \* where each block has a copy
  temps,      \* the prefix directories in which a file "put-..." is left
  todo,       \* per process: the keys it has listed and still has to move
  cur         \* per process: the key that was copied and is to be deleted

blockVars == <<blocks, temps, todo, cur>>

Place(v) == CASE v <= 1 -> "leveldb" [] v \in {2, 3} -> "hex" [] v = 4 -> "base32"

\* The blocks of the owner.
Data == Blocks \ {PinNode}

In(place) == {b \in Blocks : place \in blocks[b]}

Added(b, place) == [blocks EXCEPT ![b] = @ \cup {place}]
Moved(b, from, to) == [blocks EXCEPT ![b] = (@ \ {from}) \cup {to}]
Dropped(b, place) == [blocks EXCEPT ![b] = @ \ {place}]

\* What Query of the flatfs datastore can return: enumerateKeys ends with the
\* first file of a directory that it cannot decode, and a directory is read
\* in any order.
Listings ==
  {s \in SUBSET In("hex") : \A b \in In("hex") \ s : Prefix[b] \in temps}

BlockInit ==
  /\ blocks = [b \in Blocks |-> IF b = PinNode /\ version < 3 THEN {} ELSE {Place(version)}]
  /\ temps = {}
  /\ todo = [p \in Procs |-> {}]
  /\ cur = [p \in Procs |-> NoKey]

\* A kill in the middle of a Put leaves its file behind.
LeavesTemp(S) == \E b \in S : temps' = temps \cup {Prefix[b]}

=============================================================================

-------------------------- MODULE ChainInvariants ---------------------------
(***************************************************************************)
(* The inductive invariants of the early chain, on which the proofs of     *)
(* MigrationChainProofs rest.  Each says of every process what holds at    *)
(* the step it is at, and of the repository what holds at its version:     *)
(*   IInv       the locks and the versions: a program at work is alone;    *)
(*   BlockInv   where the blocks are;                                      *)
(*   RecordInv  the IPNS records and public keys, in both forms;           *)
(*   PinInv     the old and the new lists of pins;                         *)
(*   RestInv    what an interrupted run leaves behind.                     *)
(***************************************************************************)
EXTENDS MigrationChain

-----------------------------------------------------------------------------
(* The locks and the versions                                              *)

RunTypes ==
  /\ version \in {NoVersion, Blank} \cup 1 .. 4
  /\ dir \in Dirs
  /\ locks \in [LockFiles -> Procs \cup {NoProc}]
  /\ run \in [Procs -> Run]

Started(p) == run[p].pc \notin {"idle", "prompt"}

\* The list of programs leads to the goal.
OnTheWay ==
  \A p \in Procs : Started(p) =>
    IF run[p].op = "apply" THEN To(run[p].prog, run[p].op) <= run[p].goal
                           ELSE To(run[p].prog, run[p].op) >= run[p].goal

\* Who has passed Lock holds the lock of the version it starts from ...
LockHeld ==
  \A p \in Procs : run[p].pc = "check" \/ Working(p) =>
    locks[LockOf(From(run[p].prog, run[p].op))] = p

\* ... and who has passed CheckVersion has found that version, which is
\* there until it is truncated.
VersionRead ==
  \A p \in Procs : Working(p) =>
    version = IF run[p].pc = "write" THEN Blank ELSE From(run[p].prog, run[p].op)

IInv == RunTypes /\ OnTheWay /\ LockHeld /\ VersionRead /\ OneWriter /\ NoUnaskedRevert

-----------------------------------------------------------------------------
(* The blocks                                                              *)

BlockTypes ==
  /\ blocks \in [Blocks -> SUBSET Places]
  /\ todo \in [Procs -> SUBSET (Blocks \cup Records)]
  /\ cur \in [Procs -> Blocks \cup Records \cup {NoKey}]
  /\ faults \in Nat

\* Which program each step belongs to.
Position(p) ==
  /\ run[p].pc \in {"sanity", "unsanity", "query", "put", "delete", "removeAll", "move"} =>
       run[p].prog = 1
  /\ run[p].pc \in {"flush", "cleanup", "load", "writeDirect", "indirect"} => run[p].prog = 2
  /\ run[p].pc \in {"listBlocks", "rename", "rewriteBlocks", "clean", "listPks", "rewritePks",
                    "listIpns", "rewriteIpns"} => run[p].prog = 3
  /\ run[p].pc = "rename" => run[p].op = "apply"
  /\ run[p].pc \in {"removeAll", "rewriteBlocks", "clean"} => run[p].op = "revert"

\* A key that is to be deleted is on the list, and its block has been copied.
Copied(p) ==
  /\ cur[p] # NoKey => /\ cur[p] \in todo[p]
                       /\ run[p].pc \in {"delete", "rewriteBlocks", "rewritePks", "rewriteIpns"}
  /\ run[p].pc \in {"put", "delete", "rename", "rewriteBlocks"} => todo[p] \subseteq Blocks
  /\ run[p].pc = "delete" => cur[p] \in Blocks /\ Target(run[p].op) \in blocks[cur[p]]
  /\ run[p].pc = "rewriteBlocks" /\ cur[p] # NoKey => "hex" \in blocks[cur[p]]

\* A block is where the versions before 4 find it.
Early(b) == "hex" \in blocks[b] \/ "leveldb" \in blocks[b]

\* Before the first fault: what each program has achieved at each step.
Achieved(p) ==
  /\ Working(p) /\ (run[p].prog # 3 \/ (run[p].op = "revert" /\ run[p].pc \notin {"listBlocks", "rewriteBlocks"}))
       => \A b \in Data : Early(b)
  /\ run[p].pc = "rewriteBlocks" => \A b \in Data : Early(b) \/ b \in todo[p]
  /\ run[p].pc \in {"put", "delete"} /\ run[p].op = "revert" =>
       \A b \in Data : "leveldb" \in blocks[b] \/ b \in todo[p]
  /\ run[p].pc = "removeAll" => \A b \in Data : "leveldb" \in blocks[b]

UntilFault ==
  faults = 0 =>
    /\ temps = {}
    /\ \A p \in Procs : Achieved(p)
    /\ version \in 0 .. 3 /\ (\A p \in Procs : Working(p) => run[p].prog # 3)
         => \A b \in Data : Early(b)

BlockInv ==
  /\ BlockTypes
  /\ \A p \in Procs : Position(p) /\ Copied(p)
  /\ BlocksSurvive
  /\ UntilFault

-----------------------------------------------------------------------------
(* The IPNS records and public keys                                        *)

RecordTypes ==
  /\ recs \in [Records -> [Forms -> Nat]]
  /\ latest \in [Records -> Nat \ {0}]

\* The operation that moves the records away from the form of version v.
Leaving(v) == IF v <= 3 THEN "apply" ELSE "revert"

\* What the operation o may find: the record as it was last published, or
\* none and the copy that an earlier run has made; only a mangled one may be
\* gone.  A mangled record has no base32 copy that Apply has not overwritten.
Sound(r, o) ==
  /\ \/ recs[r][OldForm(o)] = latest[r]
     \/ /\ recs[r][OldForm(o)] = None
        /\ recs[r][NewForm(o)] = latest[r] \/ (r \in Mangled /\ recs[r][NewForm(o)] = None)
  /\ o = "apply" /\ r \in Mangled => recs[r][NewForm(o)] = None

\* The records of K that are still to be moved.
Left(K, o) == {r \in K : recs[r][OldForm(o)] # None}

Rewriting(p) ==
  /\ run[p].pc = "write" =>
       \A r \in Records : Sound(r, Leaving(From(run[p].prog, run[p].op)))
  /\ run[p].pc = "rewritePks" => todo[p] = Left(Pks, run[p].op)
  /\ run[p].pc = "rewriteIpns" => todo[p] = Left(Ipns, run[p].op)
  /\ run[p].pc \in {"rewritePks", "rewriteIpns"} /\ cur[p] # NoKey /\ ~(run[p].op = "apply" /\ cur[p] \in Mangled)
       => recs[cur[p]][NewForm(run[p].op)] = latest[cur[p]]
  /\ run[p].pc \in {"listIpns", "rewriteIpns"} => Left(Pks, run[p].op) = {}
  /\ run[p].pc \in {"truncate", "write"} /\ run[p].prog = 3 => Left(Records, run[p].op) = {}

RecordInv ==
  /\ RecordTypes
  /\ version # Blank => \A r \in Records : Sound(r, Leaving(version))
  /\ \A p \in Procs : Rewriting(p)

-----------------------------------------------------------------------------
(* The pins                                                                *)

PinTypes ==
  /\ oldPins \in [rec: {NoPins} \cup SUBSET Roots, direct: {NoPins} \cup SUBSET Directs]
  /\ newPins \in {NoPins} \cup PinSet
  /\ wanted \in PinSet

\* p has stored the new pins and not yet written the version that has them.
Switching(p) ==
  run[p].prog = 2 /\ run[p].op = "apply" /\ run[p].pc \in {"cleanup", "truncate", "write"}

\* The versions up to 2: the old list, or the new one, which two faults and
\* the removal of blocks/ can destroy.
PinsLow ==
  OldPinsKnown \/ /\ oldPins.rec = NoPins /\ newPins = wanted
                  /\ removed = "no" \/ faults <= 1 => Early(PinNode)
                  /\ (\E p \in Procs : Switching(p)) \/ (faults = 1 /\ temps = {}) \/ faults > 1

PinsAt(v) == IF v <= 2 THEN PinsLow ELSE NewPinsKnown

Pinning(p) ==
  /\ run[p].pc = "write" => PinsAt(From(run[p].prog, run[p].op))
  /\ Switching(p) => newPins = wanted /\ "hex" \in blocks[PinNode]
  /\ run[p].pc \in {"flush", "cleanup"} => run[p].op = "apply"
  /\ run[p].pc \in {"load", "writeDirect", "indirect"} => run[p].op = "revert"
  /\ run[p].pc = "cleanup" => OldPinsKnown
  /\ run[p].pc = "writeDirect" => oldPins.rec = wanted.rec
  /\ \/ run[p].pc = "indirect"
     \/ run[p].prog = 2 /\ run[p].op = "revert" /\ run[p].pc \in {"truncate", "write"}
     => OldPinsKnown
  /\ run[p].pc \in {"put", "delete"} /\ run[p].op = "revert" /\ ~OldPinsKnown /\ faults <= 1 =>
       "leveldb" \in blocks[PinNode] \/ PinNode \in todo[p]
  /\ run[p].pc = "removeAll" /\ ~OldPinsKnown /\ faults <= 1 => "leveldb" \in blocks[PinNode]

PinInv ==
  /\ PinTypes
  /\ version # Blank => PinsAt(version)
  /\ version = Blank => PinsKnown
  /\ \A p \in Procs : Pinning(p)

-----------------------------------------------------------------------------
(* What an interrupted run leaves behind                                   *)

Pending(n, o) ==
  \/ <<n, o>> \in broken
  \/ \E p \in Procs : Working(p) /\ run[p].prog = n /\ run[p].op = o

Holds(place) == \E b \in Data : place \in blocks[b]
Gone(form) == \E r \in Records \ Mangled : recs[r][form] = None

\* At version v, what is not where the daemon looks for it was left by a run
\* that has not been repeated.
Residue(v) ==
  /\ v >= 2 /\ Holds("leveldb") => Pending(1, "revert")
  /\ v <= 1 /\ Holds("hex") => Pending(1, "apply")
  /\ v <= 3 /\ Holds("base32") => Pending(3, "apply") \/ swallowed # "no"
  /\ v = 4 /\ Holds("hex") => Pending(3, "revert") \/ swallowed # "no"
  /\ v <= 2 /\ ~OldPinsKnown => Pending(2, "apply")
  /\ v <= 3 /\ Gone("binary") => Pending(3, "apply")
  /\ v = 4 /\ Gone("base32") => Pending(3, "revert")

\* What a run has moved by the time it is at run[p].pc.
Moving(p) ==
  /\ run[p].pc = "write" => Residue(From(run[p].prog, run[p].op))
  /\ run[p].op = "apply" /\ run[p].pc \in {"put", "delete"} =>
       \A b \in Data : "leveldb" \in blocks[b] => b \in todo[p]
  /\ run[p].op = "apply" /\ run[p].prog = 1 /\ run[p].pc \in {"move", "truncate", "write"} =>
       ~Holds("leveldb")
  /\ run[p].op = "revert" /\ run[p].prog = 1 /\ run[p].pc \in {"truncate", "write"} =>
       ~Holds("hex") /\ ~Holds("base32")
  /\ run[p].pc = "rename" /\ swallowed = "no" => \A b \in Data : "hex" \in blocks[b] => b \in todo[p]
  /\ run[p].pc = "rewriteBlocks" /\ swallowed = "no" =>
       \A b \in Data : "base32" \in blocks[b] => b \in todo[p]
  /\ Working(p) /\ run[p].prog = 3 /\ run[p].pc \notin {"listBlocks", "rename", "rewriteBlocks"} /\ swallowed = "no" =>
       ~Holds(IF run[p].op = "apply" THEN "hex" ELSE "base32")

RestInv ==
  /\ version # Blank => Residue(version)
  /\ version = Blank => \E n \in Progs, o \in Ops : Pending(n, o)
  /\ \A p \in Procs : Moving(p)

=============================================================================

--------------------------- MODULE MigrationChain ---------------------------
(***************************************************************************)
(* The migrations 0-to-1 to 3-to-4 on one repository, run by drivers and   *)
(* by hand, by several processes at once, killed and failing anywhere,     *)
(* with daemons of every version in between.                               *)
(***************************************************************************)
EXTENDS BlockTransfer, PinTransfer, KeyRewrite, Driver

vars == <<runVars, blockVars, transferVars, pinVars, keyVars>>

Init == RunInit /\ BlockInit /\ TransferInit /\ PinInit /\ KeyInit

-----------------------------------------------------------------------------

\* A program that ends early forgets what it has listed.
Forget(p) == /\ todo' = [todo EXCEPT ![p] = {}]
             /\ cur' = [cur EXCEPT ![p] = NoKey]

\* The blocks whose Put a kill can interrupt.
PutBy(p) == CASE run[p].pc = "put" /\ run[p].op = "apply" -> todo[p] \cap Blocks
              [] run[p].pc = "rewriteBlocks" /\ cur[p] = NoKey -> todo[p]
              [] run[p].pc = "flush" -> {PinNode}
              [] OTHER -> {}

\* An error is returned, after the Put in which it happened has removed its
\* file.  That of the walk over the blocks is not (ListBlocksFails).
OperationFails(p) ==
  /\ run[p].pc # "listBlocks"
  /\ Interrupt(p)
  /\ Forget(p)
  /\ UNCHANGED <<blocks, temps, transferVars, pinVars, keyVars>>

Kill(p) ==
  /\ Interrupt(p)
  /\ Forget(p)
  /\ UNCHANGED temps \/ LeavesTemp(PutBy(p))
  /\ UNCHANGED <<blocks, transferVars, pinVars, keyVars>>

Step(p) ==
  \/ TransferStep(p) /\ UNCHANGED <<pinVars, keyVars>>
  \/ PinStep(p) /\ UNCHANGED <<transferVars, keyVars>>
  \/ KeyStep(p) /\ UNCHANGED <<transferVars, pinVars>>
  \/ RunStep(p) /\ UNCHANGED <<blockVars, transferVars, pinVars, keyVars>>
  \/ RunMigration(p) /\ UNCHANGED <<blockVars, transferVars, pinVars, keyVars>>

Environment ==
  \/ \E p \in Procs : \/ OperationFails(p) \/ Kill(p)
                      \/ /\ DriverStart(p) \/ Decline(p)
                         /\ UNCHANGED <<blockVars, transferVars, pinVars, keyVars>>
  \/ DaemonPin /\ UNCHANGED <<transferVars, keyVars>>
  \/ \E r \in Published : DaemonPublish(r) /\ UNCHANGED <<transferVars, pinVars>>

Next == Environment \/ \E p \in Procs : Step(p)

Spec == Init /\ [][Next]_vars

-----------------------------------------------------------------------------

TypeOK ==
  /\ version \in {NoVersion, Blank} \cup 1 .. 4
  /\ dir \in Dirs
  /\ locks \in [LockFiles -> Procs \cup {NoProc}]
  /\ run \in [Procs -> Run]
  /\ faults \in 0 .. MaxFaults
  /\ broken \subseteq Progs \X Ops
  /\ blocks \in [Blocks -> SUBSET Places]
  /\ todo \in [Procs -> SUBSET (Blocks \cup Records)]
  /\ oldPins \in [rec: {NoPins} \cup SUBSET Roots, direct: {NoPins} \cup SUBSET Directs]
  /\ newPins \in {NoPins} \cup PinSet
  /\ recs \in [Records -> [Forms -> None .. MaxValue]]

\* Different versions are locked by different files, and still no two
\* programs ever work on the repository at the same time.
OneWriter == \A p, q \in Procs : Working(p) /\ Working(q) => p = q

\* "No data lost. Ever.": each block of the owner has a copy.
NoBlockLost == \A b \in Data : blocks[b] # {}

\* Until the first Revert of 1-to-2 removes blocks/, no block is lost,
\* whatever is killed or fails; and without faults, none is ever.
BlocksSurvive == (faults = 0 \/ removed = "no") => NoBlockLost

\* Whatever is killed or fails, the owner's pins are where the daemon of the
\* repository's version looks for them, or else the old list is gone after
\* the new one is complete.  It takes two faults, and the removal of blocks/,
\* to lose the new one while the old one is gone.
OldPinsKnown == oldPins = wanted
NewPinsKnown == newPins = wanted /\ blocks[PinNode] # {}
PinsKnown ==
  LET before == \/ OldPinsKnown
                \/ /\ oldPins.rec = NoPins /\ newPins = wanted
                   /\ removed = "no" \/ faults <= 1 => blocks[PinNode] # {}
  IN /\ version \in 0 .. 2 => before
     /\ version \in 3 .. 4 => NewPinsKnown
     /\ version = Blank => before \/ newPins = wanted

\* A daemon never reads an IPNS record older than the one last published,
\* though an interrupted run leaves a copy of each form.
NeverStale ==
  \A r \in Records : version \in 1 .. 4 /\ (\A p \in Procs : ~Working(p)) =>
    recs[r][Form(version)] \in {None, latest[r]}

\* Once every run that ended early has been repeated with success, and if no
\* error was dropped, everything is where the daemon of the repository's
\* version looks for it, and in no other place.
CompleteAfterRerun ==
  broken = {} /\ swallowed = "no" /\ (\A p \in Procs : ~Working(p)) =>
    /\ \A b \in Data : blocks[b] \subseteq {Place(version)}
    /\ version \in 0 .. 2 => OldPinsKnown
    /\ version \in 3 .. 4 => NewPinsKnown
    /\ \A r \in Records \ Mangled : recs[r][Form(version)] = latest[r]

\* A driver never goes back without --revert-ok, although another run may
\* have raised the version while it was waiting for its answer.
NoUnaskedRevert ==
  \A p \in Procs : run[p].pc \notin {"idle", "prompt"} /\ run[p].op = "revert" => run[p].revertOk = "yes"

\* A run always has a step to take: no one waits for a lock, not even for
\* one's own.
NoOneWaits ==
  \A p \in Procs : run[p].pc \notin {"idle", "prompt"} => ENABLED Step(p)

=============================================================================

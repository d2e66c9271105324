------------------------ MODULE MigrationChainProofs ------------------------
(***************************************************************************)
(* The early chain for any number of processes, drivers, blocks, pins,     *)
(* records and faults: no two programs work on the repository at a time,   *)
(* no driver goes back unasked, no block is lost before blocks/ is removed *)
(* nor without a fault, the pins are known, no daemon reads a stale        *)
(* record, and what was interrupted is complete after it was repeated.     *)
(* The invariants are those of ChainInvariants, one part of this module    *)
(* for each.                                                               *)
(***************************************************************************)
EXTENDS ChainInvariants, TLAPS

USE ProcAssumption, FaultAssumption

-----------------------------------------------------------------------------
(* The locks and the versions                                              *)

\* The invariant holds at first.
LEMMA ChainInit == Init => IInv
  BY DEF Init, RunInit, IInv, RunTypes, OnTheWay, LockHeld, VersionRead, OneWriter,
         NoUnaskedRevert, Started, Working, Idle, Run, Steps, Progs, Ops, Dirs, NoVersion,
         LockFiles

\* A program that ends early gives back its locks and no others.
LEMMA FailStep ==
  ASSUME IInv, NEW p \in Procs, Fail(p), version' = version, dir' = dir
  PROVE  IInv'
<1> USE DEF Fail, Unlock, IInv, RunTypes, Started, Working
<1>1. RunTypes'
  BY DEF Run, Idle, Steps, Progs, Ops, Dirs
<1>2. \A q \in Procs : run'[q] = IF q = p THEN Idle ELSE run[q]
  OBVIOUS
<1>3. ~Started(p)' /\ ~Working(p)' /\ run'[p].pc # "check"
  BY <1>2 DEF Idle
<1>4. OnTheWay' /\ VersionRead' /\ OneWriter' /\ NoUnaskedRevert'
  BY <1>2, <1>3 DEF OnTheWay, VersionRead, OneWriter, NoUnaskedRevert
<1>5. LockHeld'
  BY <1>2, <1>3 DEF LockHeld, LockOf, LockFiles
<1> QED
  BY <1>1, <1>4, <1>5

\* A program goes on from one step of its work to the next.
LEMMA WorkStep ==
  ASSUME IInv, NEW p \in Procs, NEW where \in Steps, Goto(p, where),
         version' = version, dir' \in Dirs,
         Working(p), run[p].pc # "write",
         where \notin {"idle", "prompt", "lock", "relock", "check", "write"}
  PROVE  IInv'
<1> USE DEF Goto, IInv, RunTypes, Started, Working
<1>1. RunTypes'
  BY DEF Run
<1>2. \A q \in Procs : IF q = p THEN run'[q] = [run[q] EXCEPT !.pc = where]
                                ELSE run'[q] = run[q]
  OBVIOUS
<1>3. run'[p].pc = where /\ run'[p].prog = run[p].prog /\ run'[p].op = run[p].op
      /\ run'[p].goal = run[p].goal /\ run'[p].revertOk = run[p].revertOk
  BY <1>2 DEF Run
<1>4. OnTheWay' /\ VersionRead' /\ OneWriter' /\ NoUnaskedRevert' /\ LockHeld'
  BY <1>2, <1>3 DEF OnTheWay, VersionRead, OneWriter, NoUnaskedRevert, LockHeld
<1> QED
  BY <1>1, <1>4

\* Steps that leave the repository's versions, locks and runs alone.
LEMMA OtherStep ==
  ASSUME IInv, UNCHANGED <<version, dir, locks, run>>
  PROVE  IInv'
  BY DEF IInv, RunTypes, OnTheWay, LockHeld, VersionRead, OneWriter, NoUnaskedRevert,
         Started, Working

\* Locking, the version check and the version file.
LEMMA RunStepInv ==
  ASSUME IInv, NEW p \in Procs, RunStep(p)
  PROVE  IInv'
<1> USE DEF IInv, RunTypes, Started, Working
<1>0. run[p] \in Run
  OBVIOUS
<1>1. CASE Lock(p)
  <2>1. CASE Fail(p)
    BY <1>1, <2>1, FailStep DEF Lock
  <2>2. CASE ~Fail(p)
    <3> DEFINE f == LockOf(From(run[p].prog, run[p].op))
               where == IF run[p].prog = 0 /\ run[p].op = "revert" THEN "relock" ELSE "check"
    <3>1. /\ locks[f] = NoProc
          /\ locks' = [locks EXCEPT ![f] = p]
          /\ run' = [run EXCEPT ![p].pc = where]
          /\ version' = version /\ dir' = dir
          /\ run[p].pc \in {"lock", "relock"}
      BY <1>1, <2>2 DEF Lock
    <3>2. f \in LockFiles
      BY DEF LockOf, LockFiles
    <3>3. RunTypes'
      BY <1>0, <3>1, <3>2 DEF Run, Steps
    <3>4. /\ \A q \in Procs : q # p => run'[q] = run[q]
          /\ run'[p] = [run[p] EXCEPT !.pc = where]
      BY <3>1
    <3>5. OnTheWay' /\ VersionRead' /\ OneWriter' /\ NoUnaskedRevert'
      BY <1>0, <3>1, <3>4 DEF OnTheWay, VersionRead, OneWriter, NoUnaskedRevert, Run
    <3>6. LockHeld'
      <4> SUFFICES ASSUME NEW q \in Procs, (run[q].pc = "check" \/ Working(q))'
                   PROVE  (locks[LockOf(From(run[q].prog, run[q].op))] = q)'
        BY DEF LockHeld
      <4>1. CASE q = p
        BY <1>0, <3>1, <3>2, <3>4, <4>1 DEF Run
      <4>2. CASE q # p
        BY <3>1, <3>2, <3>4, <4>2 DEF LockHeld, LockFiles
      <4> QED
        BY <4>1, <4>2
    <3> QED
      BY <3>3, <3>5, <3>6
  <2> QED
    BY <2>1, <2>2
<1>2. CASE CheckVersion(p)
  <2>1. CASE Fail(p)
    BY <1>2, <2>1, FailStep DEF CheckVersion
  <2>2. CASE ~Fail(p)
    <3> DEFINE where == FirstStep(run[p].prog, run[p].op)
    <3>1. /\ run' = [run EXCEPT ![p].pc = where]
          /\ UNCHANGED <<version, dir, locks>>
          /\ version = From(run[p].prog, run[p].op)
          /\ run[p].pc = "check"
      BY <1>2, <2>2 DEF CheckVersion, Goto
    <3>2. where \in {"truncate", "sanity", "move", "flush", "load", "listBlocks"}
      BY <1>0 DEF FirstStep, Run, Progs
    <3>3. /\ \A q \in Procs : q # p => run'[q] = run[q]
          /\ run'[p] = [run[p] EXCEPT !.pc = where]
      BY <3>1
    <3>4. RunTypes'
      BY <1>0, <3>1, <3>2 DEF Run, Steps
    <3>5. OnTheWay' /\ VersionRead' /\ NoUnaskedRevert' /\ LockHeld'
      BY <1>0, <3>1, <3>2, <3>3 DEF OnTheWay, VersionRead, NoUnaskedRevert, LockHeld, Run
    <3>6. \A q \in Procs : Working(q) => q = p
      <4> SUFFICES ASSUME NEW q \in Procs, Working(q) PROVE q = p
        OBVIOUS
      <4>1. version # Blank
        BY <1>0, <3>1 DEF From, Blank, Run, Progs
      <4>2. From(run[q].prog, run[q].op) = From(run[p].prog, run[p].op)
        BY <3>1, <4>1 DEF VersionRead
      <4> QED
        BY <3>1, <4>2 DEF LockHeld
    <3>7. OneWriter'
      BY <3>3, <3>6 DEF OneWriter
    <3> QED
      BY <3>4, <3>5, <3>7
  <2> QED
    BY <2>1, <2>2
<1>3. CASE TruncateVersion(p)
  <2>1. /\ run' = [run EXCEPT ![p].pc = "write"]
        /\ version' = Blank /\ UNCHANGED <<dir, locks>>
        /\ run[p].pc = "truncate"
    BY <1>3 DEF TruncateVersion, Goto
  <2>2. /\ \A q \in Procs : q # p => run'[q] = run[q] /\ ~Working(q)
        /\ run'[p] = [run[p] EXCEPT !.pc = "write"]
    BY <2>1 DEF OneWriter
  <2>3. RunTypes'
    BY <1>0, <2>1 DEF Run, Steps
  <2>4. OnTheWay' /\ VersionRead' /\ NoUnaskedRevert' /\ LockHeld' /\ OneWriter'
    BY <1>0, <2>1, <2>2 DEF OnTheWay, VersionRead, NoUnaskedRevert, LockHeld, OneWriter, Run
  <2> QED
    BY <2>3, <2>4
<1>4. CASE WriteVersion(p)
  <2> DEFINE n == run[p].prog
             o == run[p].op
             next == [run[p] EXCEPT !.pc = "lock", !.prog = IF o = "apply" THEN n + 1 ELSE n - 1]
  <2>1. /\ version' = To(n, o) /\ dir' = dir
        /\ run[p].pc = "write"
        /\ run' = [run EXCEPT ![p] = IF To(n, o) = run[p].goal THEN Idle ELSE next]
        /\ locks' = [f \in LockFiles |-> IF locks[f] = p THEN NoProc ELSE locks[f]]
    <3>1. version' = To(n, o) /\ dir' = dir /\ run[p].pc = "write" /\ Succeed(p)
      BY <1>4 DEF WriteVersion
    <3>2. locks' = [f \in LockFiles |-> IF locks[f] = p THEN NoProc ELSE locks[f]]
      BY <3>1 DEF Succeed, Unlock
    <3>3. run' = [run EXCEPT ![p] = IF To(n, o) = run[p].goal THEN Idle ELSE next]
      BY <3>1 DEF Succeed
    <3> QED
      BY <3>1, <3>2, <3>3
  <2>2. To(n, o) \in {NoVersion, Blank} \cup 1 .. 4
    BY <1>0 DEF To, Run, Progs, NoVersion
  <2>3. To(n, o) # run[p].goal => /\ next \in Run
                                  /\ IF o = "apply" THEN To(next.prog, o) <= next.goal
                                                    ELSE To(next.prog, o) >= next.goal
    <3>1. IF o = "apply" THEN n + 1 <= run[p].goal ELSE n >= run[p].goal
      BY <2>1 DEF OnTheWay, To
    <3>2. n \in 0 .. 3 /\ o \in Ops /\ run[p].goal \in 0 .. 4
      BY <1>0 DEF Run, Progs
    <3>3. /\ next.prog = IF o = "apply" THEN n + 1 ELSE n - 1
          /\ next.goal = run[p].goal
      BY <1>0 DEF Run
    <3>4. To(n, o) # run[p].goal => (IF o = "apply" THEN n + 1 ELSE n - 1) \in 0 .. 3
      BY <3>1, <3>2 DEF To
    <3>5. To(n, o) # run[p].goal => next \in Run
      BY <1>0, <3>4 DEF Run, Progs, Steps
    <3> QED
      BY <3>1, <3>2, <3>3, <3>5 DEF To
  <2>4. RunTypes'
    BY <1>0, <2>1, <2>2, <2>3 DEF Run, Idle, Steps, Progs, Ops, Dirs
  <2>5. /\ \A q \in Procs : q # p => run'[q] = run[q] /\ ~Working(q)
        /\ run'[p] = IF To(n, o) = run[p].goal THEN Idle ELSE next
    BY <2>1 DEF OneWriter
  <2>6. run'[p].pc \in {"idle", "lock"}
    BY <1>0, <2>5 DEF Idle, Run
  <2>7. VersionRead' /\ OneWriter'
    BY <2>5, <2>6 DEF VersionRead, OneWriter
  <2>8. OnTheWay' /\ NoUnaskedRevert'
    <3>1. CASE To(n, o) = run[p].goal
      BY <2>5, <3>1 DEF OnTheWay, NoUnaskedRevert, Idle
    <3>2. CASE To(n, o) # run[p].goal
      <4>1. run'[p].op = o /\ run'[p].revertOk = run[p].revertOk /\ run'[p] = next
        BY <1>0, <2>5, <3>2 DEF Run
      <4> QED
        BY <2>1, <2>3, <2>5, <3>2, <4>1 DEF OnTheWay, NoUnaskedRevert
    <3> QED
      BY <3>1, <3>2
  <2>9. LockHeld'
    BY <2>1, <2>5, <2>6 DEF LockHeld, LockOf, LockFiles
  <2> QED
    BY <2>4, <2>7, <2>8, <2>9
<1> QED
  BY <1>1, <1>2, <1>3, <1>4 DEF RunStep

\* A process that is not at work is given a goal or its first program.
LEMMA StartStep ==
  ASSUME IInv, NEW p \in Procs, NEW r \in Run,
         run' = [run EXCEPT ![p] = r], UNCHANGED <<version, dir, locks>>,
         r.pc \in {"prompt", "lock"},
         r.pc = "lock" => /\ IF r.op = "apply" THEN To(r.prog, r.op) <= r.goal
                                               ELSE To(r.prog, r.op) >= r.goal
                          /\ r.op = "revert" => r.revertOk = "yes"
  PROVE  IInv'
<1> USE DEF IInv, RunTypes, Started, Working
<1>1. (\A q \in Procs : q # p => run'[q] = run[q]) /\ run'[p] = r
  OBVIOUS
<1>2. RunTypes'
  OBVIOUS
<1>3. OnTheWay' /\ VersionRead' /\ NoUnaskedRevert' /\ LockHeld' /\ OneWriter'
  BY <1>1 DEF OnTheWay, VersionRead, NoUnaskedRevert, LockHeld, OneWriter
<1> QED
  BY <1>2, <1>3

\* The driver and the programs that are started by hand.
LEMMA DriverStepInv ==
  ASSUME IInv, NEW p \in Procs, RunMigration(p) \/ DriverStart(p) \/ Decline(p)
  PROVE  IInv'
<1>0. run[p] \in Run /\ run \in [Procs -> Run] /\ dir \in Dirs
      /\ version \in {NoVersion, Blank} \cup 1 .. 4
  BY DEF IInv, RunTypes
<1>1. CASE RunMigration(p)
  <2>1. CASE Fail(p)
    BY <1>1, <2>1, FailStep DEF RunMigration
  <2>2. CASE ~Fail(p)
    <3>1. version \in 1 .. 4 /\ run[p].pc = "prompt" /\ UNCHANGED <<version, dir>>
      BY <1>0, <1>1, <2>2 DEF RunMigration, RepoVersionOk
    <3>2. CASE version < run[p].goal /\ Launch(p, version, "apply")
      <4> DEFINE r == [run[p] EXCEPT !.pc = "lock", !.prog = version, !.op = "apply"]
      <4>0. version \in 0 .. 3 /\ version + 1 <= run[p].goal
        BY <1>0, <3>1, <3>2 DEF Run
      <4>1. r \in Run /\ r.pc = "lock" /\ r.op = "apply" /\ To(r.prog, r.op) <= r.goal
        <5>1. r \in Run
          BY <1>0, <4>0 DEF Run, Progs, Ops, Steps
        <5>2. r.pc = "lock" /\ r.op = "apply" /\ r.prog = version /\ r.goal = run[p].goal
          BY <1>0 DEF Run
        <5> QED
          BY <4>0, <5>1, <5>2 DEF To
      <4>2. run' = [run EXCEPT ![p] = r] /\ UNCHANGED <<version, dir, locks>>
        BY <3>1, <3>2 DEF Launch
      <4> HIDE DEF r
      <4> QED
        BY StartStep, <3>1, <4>1, <4>2
    <3>3. CASE version > run[p].goal /\ run[p].revertOk = "yes" /\ Launch(p, version - 1, "revert")
      <4> DEFINE r == [run[p] EXCEPT !.pc = "lock", !.prog = version - 1, !.op = "revert"]
      <4>1. /\ r \in Run /\ r.pc = "lock" /\ r.op = "revert" /\ r.revertOk = "yes"
            /\ To(r.prog, r.op) >= r.goal
        <5>0. version - 1 \in 0 .. 3 /\ version - 1 >= run[p].goal
          BY <1>0, <3>1, <3>3 DEF Run
        <5>1. r \in Run
          BY <1>0, <5>0 DEF Run, Progs, Ops, Steps
        <5>2. /\ r.pc = "lock" /\ r.op = "revert" /\ r.prog = version - 1
              /\ r.goal = run[p].goal /\ r.revertOk = run[p].revertOk
          BY <1>0 DEF Run
        <5> QED
          BY <3>3, <5>0, <5>1, <5>2 DEF To
      <4>2. run' = [run EXCEPT ![p] = r] /\ UNCHANGED <<version, dir, locks>>
        BY <3>1, <3>3 DEF Launch
      <4> HIDE DEF r
      <4> QED
        BY StartStep, <3>1, <4>1, <4>2
    <3> QED
      BY <1>1, <2>2, <3>2, <3>3 DEF RunMigration
  <2> QED
    BY <2>1, <2>2
<1>2. CASE Decline(p)
  BY <1>2, FailStep DEF Decline
<1>3. ASSUME NEW target \in Targets, NEW ok \in {"yes", "no"}, StartDriver(p, target, ok)
      PROVE  IInv'
  <2> DEFINE r == [run[p] EXCEPT !.pc = "prompt", !.goal = target, !.path = dir, !.revertOk = ok]
  <2>0. target \in 0 .. 4
    BY DriverAssumption
  <2>1. r \in Run /\ r.pc = "prompt"
    BY <1>0, <2>0 DEF Run, Steps
  <2>2. run' = [run EXCEPT ![p] = r] /\ UNCHANGED <<version, dir, locks>>
    BY <1>3 DEF StartDriver
  <2> HIDE DEF r
  <2> QED
    BY StartStep, <2>1, <2>2
<1>4. ASSUME NEW h \in ByHand, StartProgram(p, h[1], h[2])
      PROVE  IInv'
  <2> DEFINE r == [pc |-> "lock", prog |-> h[1], op |-> h[2], goal |-> To(h[1], h[2]),
                   path |-> dir, revertOk |-> "yes"]
  <2>1. h[1] \in Progs /\ h[2] \in Ops
    BY DriverAssumption
  <2>2. To(h[1], h[2]) \in 0 .. 4
    BY <2>1 DEF To, Progs
  <2>3. r \in Run
    BY <1>0, <2>1, <2>2 DEF Run, Steps
  <2>4. run' = [run EXCEPT ![p] = r] /\ UNCHANGED <<version, dir, locks>>
    BY <1>4 DEF StartProgram
  <2>5. /\ r.pc = "lock" /\ r.op \in Ops /\ r.revertOk = "yes"
        /\ To(r.prog, r.op) <= r.goal /\ To(r.prog, r.op) >= r.goal
    BY <2>1, <2>2
  <2> HIDE DEF r
  <2> QED
    BY StartStep, <2>3, <2>4, <2>5
<1> QED
  BY <1>1, <1>2, <1>3, <1>4 DEF DriverStart

\* The work of the four migrations: each step goes on to another, or ends
\* the program, and leaves the version alone.
LEMMA MigrationStepInv ==
  ASSUME IInv, NEW p \in Procs, TransferStep(p) \/ PinStep(p) \/ KeyStep(p)
  PROVE  IInv'
<1> DEFINE Outside == {"idle", "prompt", "lock", "relock", "check", "write"}
<1>o. ASSUME UNCHANGED <<version, dir, locks, run>> PROVE IInv'
  BY <1>o, OtherStep
<1>f. ASSUME Fail(p), UNCHANGED <<version, dir>> PROVE IInv'
  BY <1>f, FailStep
<1>w. ASSUME NEW where \in Steps \ Outside, Goto(p, where), version' = version,
             dir' \in {dir} \cup Dirs, run[p].pc \notin Outside
      PROVE  IInv'
  <2>1. dir' \in Dirs
    BY <1>w DEF IInv, RunTypes
  <2> QED
    BY <1>w, <2>1, WorkStep DEF Working
<1> HIDE DEF IInv
<1> USE DEF Steps
<1>1. CASE TransferStep(p)
  <2>1. CASE Sanity(p)
    BY <1>f, <1>w, <2>1 DEF Sanity
  <2>2. CASE Unsanity(p)
    BY <1>w, <2>2 DEF Unsanity
  <2>3. CASE QueryBlocks(p)
    BY <1>w, <2>3 DEF QueryBlocks
  <2>4. CASE DeleteBlock(p)
    BY <1>w, <2>4 DEF DeleteBlock
  <2>5. CASE EndTransfer(p)
    BY <1>w, <2>5 DEF EndTransfer
  <2>6. CASE RemoveAll(p)
    BY <1>w, <2>6 DEF RemoveAll
  <2>7. CASE MoveDir(p)
    BY <1>f, <1>w, <2>7 DEF MoveDir, Dirs
  <2>8. ASSUME NEW b \in Blocks, PutBlock(p, b) PROVE IInv'
    BY <1>w, <2>8 DEF PutBlock
  <2> QED
    BY <1>1, <2>1, <2>2, <2>3, <2>4, <2>5, <2>6, <2>7, <2>8 DEF TransferStep
<1>2. CASE PinStep(p)
  <2>1. CASE Flush(p)
    BY <1>f, <1>w, <2>1 DEF Flush
  <2>2. CASE CleanupOldPins(p)
    BY <1>w, <2>2 DEF CleanupOldPins
  <2>3. CASE WriteRecursive(p)
    BY <1>f, <1>w, <2>3 DEF WriteRecursive
  <2>4. CASE WriteDirect(p)
    BY <1>w, <2>4 DEF WriteDirect
  <2>5. CASE WriteIndirect(p)
    BY <1>f, <1>w, <2>5 DEF WriteIndirect
  <2> QED
    BY <1>2, <2>1, <2>2, <2>3, <2>4, <2>5 DEF PinStep
<1>3. CASE KeyStep(p)
  <2>1. CASE ListBlocks(p)
    BY <1>w, <2>1 DEF ListBlocks
  <2>2. CASE ListBlocksFails(p)
    BY <1>w, <2>2 DEF ListBlocksFails
  <2>3. CASE UnlinkBlock(p)
    BY <1>o, <2>3 DEF UnlinkBlock, runVars
  <2>4. CASE CleanEmptyDirs(p)
    BY <1>w, <2>4 DEF CleanEmptyDirs
  <2>5. CASE ListRecords(p)
    BY <1>w, <2>5 DEF ListRecords
  <2>6. CASE DeleteRecord(p)
    BY <1>o, <2>6 DEF DeleteRecord, runVars
  <2>7. CASE EndRewrite(p)
    BY <1>w, <2>7 DEF EndRewrite, NextKind
  <2>8. ASSUME NEW b \in Blocks, RenameBlock(p, b) PROVE IInv'
    BY <1>o, <2>8 DEF RenameBlock, runVars
  <2>9. ASSUME NEW b \in Blocks, RewriteBlock(p, b) PROVE IInv'
    BY <1>o, <2>9 DEF RewriteBlock, runVars
  <2>10. ASSUME NEW r \in Records, PutRecord(p, r) PROVE IInv'
    BY <1>o, <2>10 DEF PutRecord, runVars
  <2> QED
    BY <1>3, <2>1, <2>2, <2>3, <2>4, <2>5, <2>6, <2>7, <2>8, <2>9, <2>10 DEF KeyStep
<1> QED
  BY <1>1, <1>2, <1>3

\* Every step of the chain preserves the invariant.
LEMMA ChainStep == IInv /\ [Next]_vars => IInv'
<1> SUFFICES ASSUME IInv, [Next]_vars PROVE IInv'
  OBVIOUS
<1>1. ASSUME NEW p \in Procs, OperationFails(p) \/ Kill(p) PROVE IInv'
  BY <1>1, FailStep DEF OperationFails, Kill, Interrupt
<1>2. ASSUME NEW p \in Procs, DriverStart(p) \/ Decline(p) PROVE IInv'
  BY <1>2, DriverStepInv
<1>3. ASSUME NEW p \in Procs, Step(p) PROVE IInv'
  BY <1>3, MigrationStepInv, RunStepInv, DriverStepInv DEF Step
<1>4. CASE DaemonPin \/ \E r \in Published : DaemonPublish(r)
  BY <1>4, OtherStep DEF DaemonPin, DaemonPublish, runVars
<1>5. CASE UNCHANGED vars
  BY <1>5, OtherStep DEF vars, runVars
<1> QED
  BY <1>1, <1>2, <1>3, <1>4, <1>5 DEF Next, Environment

\* For any processes, drivers, programs started by hand and faults: the
\* invariant of the early chain.
THEOREM InvariantHolds == Spec => []IInv
  BY ChainInit, ChainStep, PTL DEF Spec

\* No two programs ever work on the repository at the same time, though
\* versions 0 and 1 are locked by another file than the later ones.
THEOREM NoTwoWriters == Spec => []OneWriter
<1>1. IInv => OneWriter
  BY DEF IInv
<1> QED
  BY <1>1, InvariantHolds, PTL

\* No driver starts a downgrade that it was not asked for, whatever the
\* version became while it waited for its answer.
THEOREM RevertsAreAsked == Spec => []NoUnaskedRevert
<1>1. IInv => NoUnaskedRevert
  BY DEF IInv
<1> QED
  BY <1>1, InvariantHolds, PTL

-----------------------------------------------------------------------------
(* The blocks                                                              *)

\* The invariant of the blocks holds at first.
LEMMA BlocksInit == Init => BlockInv
<1> SUFFICES ASSUME Init PROVE BlockInv
  OBVIOUS
<1>1. BlockTypes
  BY BlockAssumption DEF Init, RunInit, BlockInit, BlockTypes, Place, Places
<1>2. \A p \in Procs : Position(p) /\ Copied(p) /\ Achieved(p) /\ ~Working(p)
  BY DEF Init, RunInit, BlockInit, Position, Copied, Achieved, Working, Idle
<1>3. \A b \in Data : blocks[b] = {Place(version)}
  BY DEF Init, BlockInit, Data
<1>4. BlocksSurvive
  BY <1>3 DEF BlocksSurvive, NoBlockLost
<1>5. UntilFault
  BY <1>2, <1>3 DEF Init, RunInit, BlockInit, UntilFault, Early, Place
<1> QED
  BY <1>1, <1>2, <1>4, <1>5 DEF BlockInv

\* A program goes on to another step and leaves the blocks alone.
LEMMA QuietStep ==
  ASSUME IInv, BlockInv, NEW p \in Procs, UNCHANGED <<blockVars, version, faults>>,
         removed' = removed, NEW where \in Steps, Goto(p, where), Working(p),
         Position(p)', cur[p] = NoKey,
         where \notin {"idle", "prompt", "lock", "relock", "check",
                       "put", "delete", "rename", "rewriteBlocks"},
         faults = 0 => Achieved(p)'
  PROVE  BlockInv'
<1> USE DEF Goto, IInv, RunTypes, BlockInv, blockVars
<1>1. \A q \in Procs : q # p => run'[q] = run[q]
  OBVIOUS
<1>2. run'[p].pc = where /\ run'[p].prog = run[p].prog
  BY DEF Run
<1>3. BlockTypes'
  BY DEF BlockTypes
<1>4. \A q \in Procs : Position(q)' /\ Copied(q)'
  BY <1>1, <1>2 DEF Position, Copied
<1>5. BlocksSurvive'
  BY DEF BlocksSurvive, NoBlockLost
<1>6. UntilFault'
  BY <1>1, <1>2 DEF UntilFault, Achieved, Early, Working
<1> QED
  BY <1>3, <1>4, <1>5, <1>6

\* A program ends early without a fault: it has found what it refuses.
LEMMA RefusedStep ==
  ASSUME IInv, BlockInv, NEW p \in Procs, UNCHANGED <<blockVars, version, faults>>,
         removed' = removed, Fail(p), cur[p] = NoKey, Working(p) => run[p].prog # 3
  PROVE  BlockInv'
<1> USE DEF Fail, IInv, RunTypes, BlockInv, blockVars
<1>1. \A q \in Procs : run'[q] = IF q = p THEN Idle ELSE run[q]
  OBVIOUS
<1>2. BlockTypes'
  BY DEF BlockTypes
<1>3. \A q \in Procs : Position(q)' /\ Copied(q)'
  BY <1>1 DEF Position, Copied, Idle
<1>4. BlocksSurvive'
  BY DEF BlocksSurvive, NoBlockLost
<1>5. UntilFault'
  BY <1>1 DEF UntilFault, Achieved, Early, Working, Idle
<1> QED
  BY <1>2, <1>3, <1>4, <1>5

\* A program is killed, or an operation of it fails.
LEMMA FaultStep ==
  ASSUME IInv, BlockInv, NEW p \in Procs, Interrupt(p), Forget(p), UNCHANGED <<blocks, removed>>
  PROVE  BlockInv'
<1> USE DEF Fail, IInv, RunTypes, BlockInv, Interrupt, Forget
<1>1. \A q \in Procs : run'[q] = IF q = p THEN Idle ELSE run[q]
  OBVIOUS
<1>2. faults' \in Nat /\ faults' # 0
  BY DEF Fault, BlockTypes
<1>3. BlockTypes'
  BY <1>2 DEF BlockTypes
<1>4. \A q \in Procs : Position(q)' /\ Copied(q)'
  BY <1>1 DEF Position, Copied, Idle, BlockTypes
<1>5. BlocksSurvive' /\ UntilFault'
  BY <1>2 DEF BlocksSurvive, NoBlockLost, UntilFault
<1> QED
  BY <1>3, <1>4, <1>5

\* A process that is not at work changes its program or goal.
LEMMA IdleStep ==
  ASSUME IInv, BlockInv, UNCHANGED <<blockVars, version, faults, removed>>, NEW p \in Procs,
         NEW r \in Run, run' = [run EXCEPT ![p] = r], ~Working(p), cur[p] = NoKey,
         r.pc \in {"idle", "prompt", "lock", "relock", "check"}
  PROVE  BlockInv'
<1> USE DEF IInv, RunTypes, BlockInv, blockVars
<1>1. \A q \in Procs : run'[q] = IF q = p THEN r ELSE run[q]
  OBVIOUS
<1>2. BlockTypes'
  BY DEF BlockTypes
<1>3. \A q \in Procs : Position(q)' /\ Copied(q)'
  BY <1>1 DEF Position, Copied
<1>4. BlocksSurvive'
  BY DEF BlocksSurvive, NoBlockLost
<1>5. UntilFault'
  BY <1>1 DEF UntilFault, Achieved, Early, Working
<1> QED
  BY <1>2, <1>3, <1>4, <1>5

\* Locking, the version check and the version file.
LEMMA BlocksRunStep ==
  ASSUME IInv, IInv', BlockInv, NEW p \in Procs, RunStep(p),
         UNCHANGED <<blockVars, removed>>
  PROVE  BlockInv'
<1>0. run[p] \in Run /\ run \in [Procs -> Run]
  BY DEF IInv, RunTypes
<1>c. run[p].pc \in {"lock", "relock", "check", "truncate", "write"} => cur[p] = NoKey
  BY DEF BlockInv, Copied
<1>1. CASE Lock(p)
  <2>1. CASE Fail(p)
    BY <1>1, <1>c, <2>1, RefusedStep DEF Lock, Working
  <2>2. CASE ~Fail(p)
    <3> DEFINE r == [run[p] EXCEPT !.pc = IF run[p].prog = 0 /\ run[p].op = "revert" THEN "relock" ELSE "check"]
    <3>1. r \in Run /\ r.pc \in {"relock", "check"}
      BY <1>0 DEF Run, Steps
    <3>2. run' = [run EXCEPT ![p] = r] /\ UNCHANGED <<version, faults>> /\ ~Working(p)
      BY <1>0, <1>1, <2>2 DEF Lock, Working
    <3> HIDE DEF r
    <3> QED
      BY <1>1, <1>c, <3>1, <3>2, IdleStep DEF Lock
  <2> QED
    BY <2>1, <2>2
<1>2. CASE CheckVersion(p)
  <2>1. CASE Fail(p)
    BY <1>2, <1>c, <2>1, RefusedStep DEF CheckVersion, Working
  <2>2. CASE ~Fail(p)
    <3> DEFINE where == FirstStep(run[p].prog, run[p].op)
    <3>1. /\ run' = [run EXCEPT ![p].pc = where]
          /\ UNCHANGED <<version, dir, locks, faults>>
          /\ version = From(run[p].prog, run[p].op)
          /\ run[p].pc = "check"
      BY <1>2, <2>2 DEF CheckVersion, Goto
    <3>2. where \in {"truncate", "sanity", "move", "flush", "load", "listBlocks"}
      BY <1>0 DEF FirstStep, Run, Progs
    <3>3. /\ \A q \in Procs : q # p => run'[q] = run[q]
          /\ run'[p].pc = where /\ run'[p].prog = run[p].prog /\ run'[p].op = run[p].op
      BY <1>0, <3>1 DEF Run
    <3>4. Position(p)'
      BY <1>0, <3>2, <3>3 DEF Position, FirstStep, Run, Progs
    <3>5. \A q \in Procs : Position(q)' /\ Copied(q)'
      BY <1>c, <3>1, <3>2, <3>3, <3>4 DEF BlockInv, Position, Copied, blockVars
    <3>6. \A q \in Procs : q # p => ~Working(q)
      BY <3>2, <3>3 DEF IInv, OneWriter, Working
    <3>7. run[p].prog # 3 => version \in 0 .. 3
      BY <1>0, <3>1 DEF From, Run, Progs
    <3>8. UntilFault'
      <4> SUFFICES ASSUME faults = 0 PROVE UntilFault'
        BY <3>1 DEF UntilFault
      <4>1. run[p].prog # 3 => \A b \in Data : Early(b)
        BY <3>1, <3>6, <3>7 DEF BlockInv, UntilFault, Working
      <4>2. run[p].prog = 3 => where = "listBlocks"
        BY DEF FirstStep
      <4>3. Achieved(p)'
        BY <3>2, <3>3, <4>1, <4>2 DEF Achieved, Early, Working, blockVars
      <4>4. \A q \in Procs : Achieved(q)'
        BY <3>3, <3>6, <4>3 DEF Achieved, Working
      <4> QED
        BY <3>1, <3>2, <3>3, <4>1, <4>4 DEF BlockInv, UntilFault, Early, Working, blockVars
    <3> QED
      BY <3>1, <3>5, <3>8 DEF BlockInv, BlockTypes, BlocksSurvive, NoBlockLost, blockVars
  <2> QED
    BY <2>1, <2>2
<1>3. CASE TruncateVersion(p)
  <2>1. /\ run' = [run EXCEPT ![p].pc = "write"]
        /\ version' = Blank /\ UNCHANGED <<dir, locks, faults>>
        /\ run[p].pc = "truncate"
    BY <1>3 DEF TruncateVersion, Goto
  <2>2. /\ \A q \in Procs : q # p => run'[q] = run[q] /\ ~Working(q)
        /\ run'[p].pc = "write" /\ run'[p].prog = run[p].prog /\ run'[p].op = run[p].op
    BY <1>0, <2>1 DEF IInv, OneWriter, Working, Run
  <2>3. \A q \in Procs : Position(q)' /\ Copied(q)'
    BY <1>c, <2>1, <2>2 DEF BlockInv, Position, Copied, blockVars
  <2>4. UntilFault'
    BY <2>1, <2>2 DEF BlockInv, UntilFault, Achieved, Early, Working, Blank, blockVars
  <2> QED
    BY <2>1, <2>3, <2>4 DEF BlockInv, BlockTypes, BlocksSurvive, NoBlockLost, blockVars
<1>4. CASE WriteVersion(p)
  <2>1. /\ version' = To(run[p].prog, run[p].op) /\ UNCHANGED <<dir, faults>>
        /\ run[p].pc = "write"
        /\ \A q \in Procs : q # p => run'[q] = run[q]
        /\ run'[p].pc \in {"idle", "lock"}
    BY <1>0, <1>4 DEF WriteVersion, Succeed, Idle, Run
  <2>2. \A q \in Procs : ~Working(q)'
    BY <2>1 DEF IInv, OneWriter, Working
  <2>3. \A q \in Procs : Position(q)' /\ Copied(q)' /\ Achieved(q)'
    BY <1>c, <2>1, <2>2 DEF BlockInv, Position, Copied, Achieved, Working, blockVars
  <2>4. version' \in 0 .. 3 => run[p].prog # 3 \/ run[p].op = "revert"
    BY <1>0, <2>1 DEF To, Run, Progs, Ops
  <2>5. UntilFault'
    BY <2>1, <2>2, <2>3, <2>4 DEF BlockInv, UntilFault, Achieved, Early, Working, blockVars
  <2> QED
    BY <2>1, <2>3, <2>5 DEF BlockInv, BlockTypes, BlocksSurvive, NoBlockLost, blockVars
<1> QED
  BY <1>1, <1>2, <1>3, <1>4 DEF RunStep

\* What a step of a program at work leaves of the invariant to be shown.
LEMMA WorkerStep ==
  ASSUME IInv, BlockInv, NEW p \in Procs, Working(p),
         \A q \in Procs : q # p => /\ run'[q] = run[q]
                                   /\ cur'[q] = cur[q]
                                   /\ todo'[q] = todo[q],
         run'[p].prog = run[p].prog, run'[p].op = run[p].op, Working(p)',
         version' = version, faults' = faults,
         BlockTypes', Position(p)', Copied(p)', BlocksSurvive',
         faults = 0 => temps' = {} /\ Achieved(p)'
  PROVE  BlockInv'
<1>1. \A q \in Procs : q # p => ~Working(q) /\ ~Working(q)'
  BY DEF IInv, OneWriter, Working
<1>2. \A q \in Procs : q # p => cur[q] = NoKey
  BY <1>1 DEF BlockInv, Copied, Working
<1>3. \A q \in Procs : Position(q)' /\ Copied(q)'
  BY <1>1, <1>2 DEF Position, Copied, Working
<1>4. \A q \in Procs : q # p => Achieved(q)'
  BY <1>1 DEF Achieved, Working
<1>5. UntilFault'
  <2> SUFFICES ASSUME faults = 0 PROVE UntilFault'
    BY DEF UntilFault
  <2>1. run[p].prog # 3 => \A b \in Data : Early(b)'
    BY DEF Achieved
  <2> QED
    BY <1>4, <2>1 DEF UntilFault
<1> QED
  BY <1>3, <1>5 DEF BlockInv

\* The steps of 1-to-2.
LEMMA BlocksTransferStep ==
  ASSUME IInv, BlockInv, NEW p \in Procs, TransferStep(p)
  PROVE  BlockInv'
<1>0. /\ run[p] \in Run /\ run \in [Procs -> Run]
      /\ Position(p) /\ Copied(p) /\ BlockTypes /\ NoKey \notin Blocks
      /\ faults = 0 => Achieved(p) /\ temps = {}
  BY BlockAssumption DEF IInv, RunTypes, BlockInv, UntilFault
<1>g. ASSUME NEW where \in Steps, Goto(p, where)
      PROVE  /\ run'[p].pc = where /\ run'[p].prog = run[p].prog /\ run'[p].op = run[p].op
             /\ \A q \in Procs : q # p => run'[q] = run[q]
  BY <1>0, <1>g DEF Goto, Run
<1>1. CASE Sanity(p)
  <2>1. run[p].pc = "sanity" /\ cur[p] = NoKey /\ run[p].prog = 1 /\ Working(p)
    BY <1>0, <1>1 DEF Sanity, Copied, Position, Working
  <2>2. CASE Fail(p)
    BY SMTT(30), <1>1, <2>1, <2>2, RefusedStep DEF Sanity
  <2>3. ASSUME NEW where \in {"query", "unsanity"}, Goto(p, where) PROVE BlockInv'
    BY SMTT(30), <1>0, <1>1, <1>g, <2>1, <2>3, QuietStep
       DEF Sanity, Steps, Position, Achieved, Early, Working, blockVars
  <2> QED
    BY <1>1, <2>2, <2>3 DEF Sanity
<1>2. CASE Unsanity(p)
  BY SMTT(30), <1>0, <1>2, <1>g, QuietStep
     DEF Unsanity, Copied, Steps, Position, Achieved, Early, Working, blockVars
<1>3. CASE EndTransfer(p)
  <2>1. run[p].pc = "put" /\ cur[p] = NoKey /\ run[p].prog = 1 /\ Working(p) /\ run[p].op \in Ops
    BY <1>0, <1>3 DEF EndTransfer, Copied, Position, Working, Run
  <2> QED
    BY <1>0, <1>3, <1>g, <2>1, QuietStep
       DEF EndTransfer, Steps, Position, Achieved, Early, Working, blockVars, transferVars, Ops
<1>4. CASE MoveDir(p)
  <2>1. run[p].pc = "move" /\ cur[p] = NoKey /\ run[p].prog = 1 /\ Working(p)
    BY <1>0, <1>4 DEF MoveDir, Copied, Position, Working
  <2>2. CASE Fail(p)
    BY SMTT(30), <1>4, <2>1, <2>2, RefusedStep DEF MoveDir, transferVars
  <2>3. ASSUME NEW where \in {"truncate", "query"}, Goto(p, where) PROVE BlockInv'
    BY <1>0, <1>4, <1>g, <2>1, <2>3, QuietStep
       DEF MoveDir, Steps, Position, Achieved, Early, Working, blockVars, transferVars
  <2> QED
    BY <1>4, <2>2, <2>3 DEF MoveDir
<1>5. CASE QueryBlocks(p)
  <2>1. /\ run[p].pc = "query" /\ cur[p] = NoKey /\ run[p].prog = 1 /\ Working(p)
        /\ Goto(p, "put") /\ "put" \in Steps
        /\ UNCHANGED <<version, faults, blocks, temps, cur, removed>>
    BY <1>0, <1>5 DEF QueryBlocks, Copied, Position, Working, transferVars, Steps
  <2>2. PICK s \in SUBSET Blocks : /\ todo' = [todo EXCEPT ![p] = s]
                                   /\ temps = {} /\ run[p].op = "revert" => s = In("hex")
    BY <1>5 DEF QueryBlocks, Listings, In
  <2>3. run'[p].pc = "put" /\ run'[p].prog = 1 /\ run'[p].op = run[p].op
        /\ todo'[p] = s /\ \A q \in Procs : q # p => run'[q] = run[q] /\ todo'[q] = todo[q]
    BY <1>0, <1>g, <2>1, <2>2 DEF BlockTypes
  <2>4. BlockTypes' /\ Position(p)' /\ Copied(p)' /\ BlocksSurvive' /\ Working(p)'
    BY <1>0, <2>1, <2>2, <2>3
       DEF BlockTypes, Position, Copied, BlocksSurvive, NoBlockLost, BlockInv, Working
  <2>5. faults = 0 => Achieved(p)'
    BY <1>0, <2>1, <2>2, <2>3 DEF Achieved, Early, Working, In, Data
  <2> QED
    BY <1>0, <2>1, <2>3, <2>4, <2>5, WorkerStep
<1>6. ASSUME NEW b \in Blocks, PutBlock(p, b) PROVE BlockInv'
  <2>1. /\ run[p].pc = "put" /\ b \in todo[p] /\ run[p].prog = 1 /\ Working(p)
        /\ Goto(p, "delete") /\ "delete" \in Steps
        /\ blocks' = [blocks EXCEPT ![b] = @ \cup {Target(run[p].op)}]
        /\ cur' = [cur EXCEPT ![p] = b]
        /\ UNCHANGED <<version, faults, todo, temps, removed>>
    BY <1>0, <1>6 DEF PutBlock, Added, Position, Working, transferVars, Steps
  <2>2. run'[p].pc = "delete" /\ run'[p].prog = 1 /\ run'[p].op = run[p].op
        /\ cur'[p] = b /\ \A q \in Procs : q # p => run'[q] = run[q] /\ cur'[q] = cur[q]
    BY <1>0, <1>g, <2>1 DEF BlockTypes
  <2>3. /\ Target(run[p].op) \in blocks'[b]
        /\ \A c \in Blocks : blocks[c] \subseteq blocks'[c]
    BY <1>0, <2>1 DEF BlockTypes
  <2>4. BlockTypes'
    BY <1>0, <2>1 DEF BlockTypes, Target, Places
  <2>5. Position(p)' /\ Copied(p)' /\ Working(p)'
    BY <1>0, <2>1, <2>2, <2>3 DEF Position, Copied, Working
  <2>6. BlocksSurvive'
    BY <2>1, <2>3 DEF BlocksSurvive, NoBlockLost, BlockInv, Data
  <2>7. faults = 0 => Achieved(p)'
    BY <1>0, <2>1, <2>2, <2>3 DEF Achieved, Early, Working, Data
  <2> QED
    BY <1>0, <2>1, <2>2, <2>4, <2>5, <2>6, <2>7, WorkerStep
<1>7. CASE DeleteBlock(p)
  <2>1. /\ run[p].pc = "delete" /\ run[p].prog = 1 /\ Working(p) /\ cur[p] \in Blocks
        /\ Goto(p, "put") /\ "put" \in Steps
        /\ blocks' = [blocks EXCEPT ![cur[p]] = @ \ {Source(run[p].op)}]
        /\ todo' = [todo EXCEPT ![p] = @ \ {cur[p]}]
        /\ cur' = [cur EXCEPT ![p] = NoKey]
        /\ UNCHANGED <<version, faults, temps, removed>>
    BY <1>0, <1>7 DEF DeleteBlock, Dropped, Position, Copied, Working, transferVars, Steps
  <2>2. /\ run'[p].pc = "put" /\ run'[p].prog = 1 /\ run'[p].op = run[p].op
        /\ cur'[p] = NoKey /\ todo'[p] = todo[p] \ {cur[p]}
        /\ \A q \in Procs : q # p => run'[q] = run[q] /\ cur'[q] = cur[q] /\ todo'[q] = todo[q]
    BY <1>0, <1>g, <2>1 DEF BlockTypes
  <2>3. /\ Target(run[p].op) \in blocks'[cur[p]]
        /\ \A c \in Blocks : c # cur[p] => blocks'[c] = blocks[c]
    BY <1>0, <2>1 DEF BlockTypes, Copied, Target, Source
  <2>4. BlockTypes'
    BY <1>0, <2>1 DEF BlockTypes
  <2>5. Position(p)' /\ Copied(p)' /\ Working(p)'
    BY <1>0, <2>1, <2>2 DEF Position, Copied, Working
  <2>6. BlocksSurvive'
    BY <2>1, <2>3 DEF BlocksSurvive, NoBlockLost, BlockInv, Data
  <2>7. faults = 0 => Achieved(p)'
    BY <1>0, <2>1, <2>2, <2>3 DEF Achieved, Early, Working, Data, Target
  <2> QED
    BY <1>0, <2>1, <2>2, <2>4, <2>5, <2>6, <2>7, WorkerStep
<1>8. CASE RemoveAll(p)
  <2>1. /\ run[p].pc = "removeAll" /\ run[p].prog = 1 /\ Working(p) /\ cur[p] = NoKey
        /\ Goto(p, "truncate") /\ "truncate" \in Steps
        /\ blocks' = [b \in Blocks |-> blocks[b] \ {"hex", "base32"}]
        /\ temps' = {} /\ removed' = "yes"
        /\ UNCHANGED <<version, faults, todo, cur>>
    BY <1>0, <1>8 DEF RemoveAll, Position, Copied, Working, Steps
  <2>2. /\ run'[p].pc = "truncate" /\ run'[p].prog = 1 /\ run'[p].op = run[p].op
        /\ \A q \in Procs : q # p => run'[q] = run[q]
    BY <1>0, <1>g, <2>1
  <2>3. faults = 0 => \A b \in Data : "leveldb" \in blocks'[b]
    BY <1>0, <2>1 DEF Achieved, Data
  <2>4. BlockTypes'
    BY <1>0, <2>1 DEF BlockTypes
  <2>5. Position(p)' /\ Copied(p)' /\ Working(p)'
    BY <1>0, <2>1, <2>2 DEF Position, Copied, Working
  <2>6. BlocksSurvive' /\ (faults = 0 => Achieved(p)')
    BY <2>1, <2>2, <2>3 DEF BlocksSurvive, NoBlockLost, Achieved, Early, Working
  <2> QED
    BY <1>0, <2>1, <2>2, <2>4, <2>5, <2>6, WorkerStep
<1> QED
  BY <1>1, <1>2, <1>3, <1>4, <1>5, <1>6, <1>7, <1>8 DEF TransferStep

\* The steps of 2-to-3.
LEMMA BlocksPinStep ==
  ASSUME IInv, BlockInv, NEW p \in Procs, PinStep(p), removed' = removed
  PROVE  BlockInv'
<1>0. /\ run[p] \in Run /\ run \in [Procs -> Run]
      /\ Position(p) /\ Copied(p) /\ BlockTypes /\ PinNode \in Blocks
      /\ faults = 0 => Achieved(p) /\ temps = {}
  BY BlockAssumption DEF IInv, RunTypes, BlockInv, UntilFault
<1>g. ASSUME NEW where \in Steps, Goto(p, where)
      PROVE  /\ run'[p].pc = where /\ run'[p].prog = run[p].prog /\ run'[p].op = run[p].op
             /\ \A q \in Procs : q # p => run'[q] = run[q]
  BY <1>0, <1>g DEF Goto, Run
<1>1. /\ run[p].pc \in {"flush", "cleanup", "load", "writeDirect", "indirect"}
      /\ cur[p] = NoKey /\ run[p].prog = 2 /\ Working(p)
  BY <1>0 DEF PinStep, Flush, CleanupOldPins, WriteRecursive, WriteDirect, WriteIndirect,
     Copied, Position, Working
<1>2. CASE Flush(p) /\ ~Fail(p)
  <2>1. /\ Goto(p, "cleanup") /\ "cleanup" \in Steps
        /\ blocks' = [blocks EXCEPT ![PinNode] = @ \cup {"hex"}]
        /\ UNCHANGED <<version, faults, temps, todo, cur>>
    BY <1>2 DEF Flush, Added, Steps
  <2>2. /\ run'[p].pc = "cleanup" /\ run'[p].prog = 2 /\ run'[p].op = run[p].op
        /\ \A q \in Procs : q # p => run'[q] = run[q]
    BY <1>1, <1>g, <2>1
  <2>3. \A b \in Data : blocks'[b] = blocks[b]
    BY <1>0, <2>1 DEF Data, BlockTypes
  <2>4. BlockTypes'
    BY <1>0, <2>1 DEF BlockTypes, Places
  <2>5. Position(p)' /\ Copied(p)' /\ Working(p)'
    BY <1>1, <2>1, <2>2 DEF Position, Copied, Working
  <2>6. BlocksSurvive' /\ (faults = 0 => Achieved(p)')
    BY <1>0, <1>1, <2>1, <2>2, <2>3
       DEF BlockInv, BlocksSurvive, NoBlockLost, Achieved, Early, Working
  <2> QED
    BY <1>0, <1>1, <2>1, <2>2, <2>4, <2>5, <2>6, WorkerStep
<1>3. ASSUME Fail(p), UNCHANGED <<blockVars, version, faults>>
      PROVE  BlockInv'
  BY SMTT(30), <1>1, <1>3, RefusedStep
<1>4. ASSUME NEW where \in {"truncate", "writeDirect", "indirect"}, Goto(p, where),
             UNCHANGED <<blockVars, version, faults>>
      PROVE  BlockInv'
  BY <1>0, <1>1, <1>4, <1>g, QuietStep DEF Steps, Position, Achieved, Early, Working, blockVars
<1>5. CASE Flush(p) /\ Fail(p)
  <2>1. CASE Goto(p, "cleanup")
    BY <1>0, <1>5, <2>1 DEF Goto, Fail, Idle, Run
  <2>2. CASE ~Goto(p, "cleanup")
    BY <1>3, <1>5, <2>2 DEF Flush, blockVars
  <2> QED
    BY <2>1, <2>2
<1> QED
  BY <1>2, <1>3, <1>4, <1>5
     DEF PinStep, Flush, CleanupOldPins, WriteRecursive, WriteDirect, WriteIndirect

\* The steps of 3-to-4.
LEMMA BlocksKeyStep ==
  ASSUME IInv, BlockInv, NEW p \in Procs, KeyStep(p), removed' = removed
  PROVE  BlockInv'
<1>0. /\ run[p] \in Run /\ run \in [Procs -> Run]
      /\ Position(p) /\ Copied(p) /\ BlockTypes /\ NoKey \notin Blocks /\ BlocksSurvive
      /\ faults = 0 => Achieved(p) /\ temps = {}
      /\ Records \cap Blocks = {} /\ NoKey \notin Records
  BY BlockAssumption, RecordAssumption DEF IInv, RunTypes, BlockInv, UntilFault
<1>g. ASSUME NEW where \in Steps, Goto(p, where)
      PROVE  /\ run'[p].pc = where /\ run'[p].prog = run[p].prog /\ run'[p].op = run[p].op
             /\ \A q \in Procs : q # p => run'[q] = run[q]
  BY <1>0, <1>g DEF Goto, Run
<1>s. "rename" \in Steps /\ "rewriteBlocks" \in Steps /\ "rewritePks" \in Steps
      /\ "rewriteIpns" \in Steps
  BY DEF Steps
<1>1. CASE ListBlocks(p)
  <2> DEFINE where == IF run[p].op = "apply" THEN "rename" ELSE "rewriteBlocks"
             s == In(IF run[p].op = "apply" THEN "hex" ELSE "base32")
  <2>1. /\ run[p].pc = "listBlocks" /\ cur[p] = NoKey /\ run[p].prog = 3 /\ Working(p)
        /\ run[p].op \in Ops
        /\ Goto(p, where) /\ todo' = [todo EXCEPT ![p] = s] /\ s \subseteq Blocks
        /\ UNCHANGED <<version, faults, blocks, temps, cur>>
    BY <1>0, <1>1 DEF ListBlocks, Copied, Position, Working, In, Run
  <2>2. /\ run'[p].pc = where /\ run'[p].prog = 3 /\ run'[p].op = run[p].op /\ todo'[p] = s
        /\ \A q \in Procs : q # p => run'[q] = run[q] /\ todo'[q] = todo[q]
    BY <1>0, <1>g, <1>s, <2>1 DEF BlockTypes
  <2>3. BlockTypes' /\ Position(p)' /\ Copied(p)' /\ BlocksSurvive' /\ Working(p)'
    BY <1>0, <2>1, <2>2
       DEF BlockTypes, Position, Copied, BlocksSurvive, NoBlockLost, Working, Ops
  <2>4. faults = 0 => Achieved(p)'
    <3> SUFFICES ASSUME faults = 0, run[p].op = "revert" PROVE Achieved(p)'
      BY <2>1, <2>2 DEF Achieved, Working, Ops
    <3>1. \A b \in Data : Early(b) \/ "base32" \in blocks[b]
      BY <1>0 DEF BlocksSurvive, NoBlockLost, BlockTypes, Places, Early, Data
    <3>2. \A b \in Data : Early(b)' \/ b \in s
      BY <2>1, <3>1 DEF Early, In, Data
    <3> QED
      BY <2>2, <3>2 DEF Achieved, Working
  <2> QED
    BY <1>0, <2>1, <2>2, <2>3, <2>4, WorkerStep
<1>2. CASE ListBlocksFails(p)
  <2> DEFINE where == IF run[p].op = "apply" THEN "rename" ELSE "rewriteBlocks"
  <2>1. /\ run[p].pc = "listBlocks" /\ cur[p] = NoKey /\ run[p].prog = 3 /\ Working(p)
        /\ run[p].op \in Ops /\ faults' = faults + 1
        /\ Goto(p, where) /\ UNCHANGED <<version, blocks, temps, cur>>
    BY <1>0, <1>2 DEF ListBlocksFails, Copied, Position, Working, Run
  <2>2. PICK s \in SUBSET Blocks : todo' = [todo EXCEPT ![p] = s]
    BY <1>2 DEF ListBlocksFails, In
  <2>3. /\ run'[p].pc = where /\ run'[p].prog = 3 /\ run'[p].op = run[p].op /\ todo'[p] = s
        /\ \A q \in Procs : q # p => run'[q] = run[q] /\ todo'[q] = todo[q]
    BY <1>0, <1>g, <1>s, <2>1, <2>2 DEF BlockTypes
  <2>4. faults' \in Nat /\ faults' # 0
    BY <1>0, <2>1 DEF BlockTypes
  <2>5. BlockTypes' /\ Position(p)' /\ Copied(p)'
    BY <1>0, <2>1, <2>2, <2>3, <2>4 DEF BlockTypes, Position, Copied, Ops
  <2>6. \A q \in Procs : q # p => Position(q)' /\ Copied(q)'
    BY <2>1, <2>3 DEF BlockInv, Position, Copied
  <2>7. BlocksSurvive' /\ UntilFault'
    BY <1>0, <2>1, <2>4 DEF BlocksSurvive, NoBlockLost, UntilFault
  <2> QED
    BY <2>5, <2>6, <2>7 DEF BlockInv
<1>3. ASSUME NEW b \in Blocks, RenameBlock(p, b) PROVE BlockInv'
  <2>1. /\ run[p].pc = "rename" /\ run[p].op = "apply" /\ run[p].prog = 3 /\ Working(p)
        /\ cur[p] = NoKey
        /\ blocks' = [blocks EXCEPT ![b] = (@ \ {"hex"}) \cup {"base32"}]
        /\ todo' = [todo EXCEPT ![p] = @ \ {b}]
        /\ UNCHANGED <<run, version, faults, temps, cur>>
    BY <1>0, <1>3 DEF RenameBlock, Moved, Position, Copied, Working, runVars
  <2>2. /\ \A c \in Blocks : c # b => blocks'[c] = blocks[c]
        /\ "base32" \in blocks'[b]
        /\ todo'[p] \subseteq todo[p] /\ \A q \in Procs : q # p => todo'[q] = todo[q]
    BY <1>0, <2>1 DEF BlockTypes
  <2>3. BlockTypes'
    BY <1>0, <2>1 DEF BlockTypes, Places
  <2>4. Position(p)' /\ Copied(p)' /\ Working(p)'
    BY <1>0, <2>1, <2>2 DEF Position, Copied, Working
  <2>5. BlocksSurvive' /\ (faults = 0 => Achieved(p)')
    BY <1>0, <2>1, <2>2 DEF BlocksSurvive, NoBlockLost, Data, Achieved
  <2> QED
    BY <1>0, <2>1, <2>2, <2>3, <2>4, <2>5, WorkerStep
<1>4. ASSUME NEW b \in Blocks, RewriteBlock(p, b) PROVE BlockInv'
  <2>1. /\ run[p].pc = "rewriteBlocks" /\ run[p].op = "revert" /\ run[p].prog = 3 /\ Working(p)
        /\ b \in todo[p]
        /\ blocks' = [blocks EXCEPT ![b] = @ \cup {"hex"}]
        /\ cur' = [cur EXCEPT ![p] = b]
        /\ UNCHANGED <<run, version, faults, temps, todo>>
    BY <1>0, <1>4 DEF RewriteBlock, Added, Position, Working, runVars
  <2>2. /\ \A c \in Blocks : blocks[c] \subseteq blocks'[c]
        /\ "hex" \in blocks'[b] /\ cur'[p] = b
        /\ \A q \in Procs : q # p => cur'[q] = cur[q]
    BY <1>0, <2>1 DEF BlockTypes
  <2>3. BlockTypes'
    BY <1>0, <2>1 DEF BlockTypes, Places
  <2>4. Position(p)' /\ Copied(p)' /\ Working(p)'
    BY <1>0, <2>1, <2>2 DEF Position, Copied, Working
  <2>5. BlocksSurvive'
    BY <1>0, <2>1, <2>2 DEF BlocksSurvive, NoBlockLost, Data
  <2>6. faults = 0 => Achieved(p)'
    BY <1>0, <2>1, <2>2 DEF Achieved, Early, Working, Data
  <2> QED
    BY <1>0, <2>1, <2>2, <2>3, <2>4, <2>5, <2>6, WorkerStep
<1>5. CASE UnlinkBlock(p)
  <2>1. /\ run[p].pc = "rewriteBlocks" /\ run[p].op = "revert" /\ run[p].prog = 3 /\ Working(p)
        /\ cur[p] \in Blocks /\ "hex" \in blocks[cur[p]]
        /\ blocks' = [blocks EXCEPT ![cur[p]] = @ \ {"base32"}]
        /\ todo' = [todo EXCEPT ![p] = @ \ {cur[p]}]
        /\ cur' = [cur EXCEPT ![p] = NoKey]
        /\ UNCHANGED <<run, version, faults, temps>>
    BY <1>0, <1>5 DEF UnlinkBlock, Dropped, Position, Copied, Working, runVars
  <2>2. /\ \A c \in Blocks : c # cur[p] => blocks'[c] = blocks[c]
        /\ "hex" \in blocks'[cur[p]]
        /\ cur'[p] = NoKey /\ todo'[p] = todo[p] \ {cur[p]}
        /\ \A q \in Procs : q # p => cur'[q] = cur[q] /\ todo'[q] = todo[q]
    BY <1>0, <2>1 DEF BlockTypes
  <2>3. BlockTypes'
    BY <1>0, <2>1 DEF BlockTypes
  <2>4. Position(p)' /\ Copied(p)' /\ Working(p)'
    BY <1>0, <2>1, <2>2 DEF Position, Copied, Working
  <2>5. BlocksSurvive'
    BY <1>0, <2>1, <2>2 DEF BlocksSurvive, NoBlockLost, Data
  <2>6. faults = 0 => Achieved(p)'
    BY <1>0, <2>1, <2>2 DEF Achieved, Early, Working, Data
  <2> QED
    BY <1>0, <2>1, <2>2, <2>3, <2>4, <2>5, <2>6, WorkerStep
<1>6. CASE CleanEmptyDirs(p)
  <2>1. /\ run[p].pc \in {"clean", "rename"} /\ run[p].prog = 3 /\ Working(p) /\ cur[p] = NoKey
        /\ Goto(p, "listPks") /\ "listPks" \in Steps /\ UNCHANGED <<blockVars, version, faults>>
    BY <1>0, <1>6 DEF CleanEmptyDirs, Position, Copied, Working, Steps
  <2>2. run'[p].pc = "listPks" /\ run'[p].prog = 3 /\ run'[p].op = run[p].op
    BY <1>g, <2>1
  <2>3. Position(p)' /\ (faults = 0 => Achieved(p)')
    BY <1>0, <2>1, <2>2 DEF Position, Achieved, Early, Working, blockVars
  <2> QED
    BY <2>1, <2>3, QuietStep
<1>7. CASE ListRecords(p)
  <2> DEFINE where == IF run[p].pc = "listPks" THEN "rewritePks" ELSE "rewriteIpns"
             s == {r \in IF run[p].pc = "listPks" THEN Pks ELSE Ipns : recs[r][OldForm(run[p].op)] # None}
  <2>1. /\ run[p].pc \in {"listPks", "listIpns"} /\ cur[p] = NoKey /\ run[p].prog = 3 /\ Working(p)
        /\ Goto(p, where) /\ todo' = [todo EXCEPT ![p] = s] /\ s \subseteq Records
        /\ UNCHANGED <<version, faults, blocks, temps, cur>>
    BY <1>0, <1>7 DEF ListRecords, Copied, Position, Working, Records
  <2> HIDE DEF s
  <2>2. /\ run'[p].pc \in {"rewritePks", "rewriteIpns"}
        /\ run'[p].prog = 3 /\ run'[p].op = run[p].op /\ todo'[p] = s
        /\ \A q \in Procs : q # p => run'[q] = run[q] /\ todo'[q] = todo[q]
    BY <1>0, <1>g, <1>s, <2>1 DEF BlockTypes
  <2>3. BlockTypes' /\ Position(p)' /\ Copied(p)' /\ BlocksSurvive' /\ Working(p)'
    BY <1>0, <2>1, <2>2
       DEF BlockTypes, Position, Copied, BlocksSurvive, NoBlockLost, Working
  <2>4. faults = 0 => Achieved(p)'
    BY <1>0, <2>1, <2>2 DEF Achieved, Early, Working
  <2> QED
    BY <1>0, <2>1, <2>2, <2>3, <2>4, WorkerStep
<1>8. ASSUME NEW r \in Records, PutRecord(p, r) PROVE BlockInv'
  <2>1. /\ run[p].pc \in {"rewritePks", "rewriteIpns"} /\ run[p].prog = 3 /\ Working(p)
        /\ r \in todo[p] /\ cur' = [cur EXCEPT ![p] = r]
        /\ UNCHANGED <<run, version, faults, blocks, temps, todo>>
    BY <1>0, <1>8 DEF PutRecord, Position, Working, runVars
  <2>2. cur'[p] = r /\ \A q \in Procs : q # p => cur'[q] = cur[q]
    BY <1>0, <2>1 DEF BlockTypes
  <2>3. BlockTypes' /\ Position(p)' /\ Copied(p)' /\ BlocksSurvive' /\ Working(p)'
    BY <1>0, <2>1, <2>2 DEF BlockTypes, Position, Copied, BlocksSurvive, NoBlockLost, Working
  <2>4. faults = 0 => Achieved(p)'
    BY <1>0, <2>1 DEF Achieved, Early, Working
  <2> QED
    BY <1>0, <2>1, <2>2, <2>3, <2>4, WorkerStep
<1>9. CASE DeleteRecord(p)
  <2>1. /\ run[p].pc \in {"rewritePks", "rewriteIpns"} /\ run[p].prog = 3 /\ Working(p)
        /\ todo' = [todo EXCEPT ![p] = @ \ {cur[p]}]
        /\ cur' = [cur EXCEPT ![p] = NoKey]
        /\ UNCHANGED <<run, version, faults, blocks, temps>>
    BY <1>0, <1>9 DEF DeleteRecord, Position, Working, runVars
  <2>2. /\ cur'[p] = NoKey
        /\ \A q \in Procs : q # p => cur'[q] = cur[q] /\ todo'[q] = todo[q]
    BY <1>0, <2>1 DEF BlockTypes
  <2>3. BlockTypes' /\ Position(p)' /\ Copied(p)' /\ BlocksSurvive' /\ Working(p)'
    BY <1>0, <2>1, <2>2 DEF BlockTypes, Position, Copied, BlocksSurvive, NoBlockLost, Working
  <2>4. faults = 0 => Achieved(p)'
    BY <1>0, <2>1 DEF Achieved, Early, Working
  <2> QED
    BY <1>0, <2>1, <2>2, <2>3, <2>4, WorkerStep
<1>10. CASE EndRewrite(p)
  <2>1. /\ run[p].pc \in {"rewriteBlocks", "rewritePks", "rewriteIpns"} /\ todo[p] = {}
        /\ run[p].prog = 3 /\ Working(p) /\ cur[p] = NoKey
        /\ UNCHANGED <<blockVars, version, faults>>
    BY <1>0, <1>10 DEF EndRewrite, Position, Copied, Working
  <2>2. ASSUME NEW where \in {"clean", "listIpns", "truncate"}, Goto(p, where),
               where = "clean" => run[p].pc = "rewriteBlocks",
               where # "clean" => run[p].pc # "rewriteBlocks"
        PROVE  BlockInv'
    <3>1. run'[p].pc = where /\ run'[p].prog = 3 /\ run'[p].op = run[p].op /\ where \in Steps
      BY <1>g, <2>1, <2>2 DEF Steps
    <3>2. Position(p)' /\ (faults = 0 => Achieved(p)')
      BY <1>0, <2>1, <2>2, <3>1 DEF Position, Achieved, Early, Working, blockVars
    <3> QED
      BY <2>1, <2>2, <3>1, <3>2, QuietStep
  <2> QED
    BY <1>10, <2>1, <2>2 DEF EndRewrite, NextKind
<1> QED
  BY <1>1, <1>2, <1>3, <1>4, <1>5, <1>6, <1>7, <1>8, <1>9, <1>10 DEF KeyStep

\* Every step of the chain preserves the invariant of the blocks.
LEMMA BlocksStep == IInv /\ IInv' /\ BlockInv /\ [Next]_vars => BlockInv'
<1> SUFFICES ASSUME IInv, IInv', BlockInv, [Next]_vars PROVE BlockInv'
  OBVIOUS
<1>1. ASSUME NEW p \in Procs, OperationFails(p) \/ Kill(p) PROVE BlockInv'
  BY <1>1, FaultStep DEF OperationFails, Kill, transferVars
<1>2. ASSUME NEW p \in Procs, DriverStart(p) \/ Decline(p) \/ RunMigration(p),
             UNCHANGED <<blockVars, removed>>
      PROVE  BlockInv'
  <2>1. cur[p] = NoKey /\ ~Working(p) /\ UNCHANGED <<version, faults>>
        /\ run \in [Procs -> Run] /\ run' \in [Procs -> Run]
    BY <1>2 DEF DriverStart, StartDriver, StartProgram, Decline, RunMigration, BlockInv, Copied,
       Working, IInv, RunTypes
  <2>2. CASE Fail(p)
    BY <1>2, <2>1, <2>2, RefusedStep
  <2>3. CASE ~Fail(p)
    <3>1. /\ \A q \in Procs : q # p => run'[q] = run[q]
          /\ run'[p].pc \in {"prompt", "lock"} /\ run'[p] \in Run
      <4>1. ASSUME NEW target, NEW ok, StartDriver(p, target, ok)
            PROVE  run'[p].pc = "prompt" /\ \A q \in Procs : q # p => run'[q] = run[q]
        BY <2>1, <4>1 DEF StartDriver, Run
      <4>2. ASSUME NEW n, NEW o, StartProgram(p, n, o) \/ Launch(p, n, o)
            PROVE  run'[p].pc = "lock" /\ \A q \in Procs : q # p => run'[q] = run[q]
        BY <2>1, <4>2 DEF StartProgram, Launch, Run
      <4> QED
        BY <1>2, <2>1, <2>3, <4>1, <4>2 DEF DriverStart, Decline, RunMigration
    <3>2. run' = [run EXCEPT ![p] = run'[p]]
      BY <2>1, <3>1
    <3> QED
      BY <1>2, <2>1, <3>1, <3>2, IdleStep
  <2> QED
    BY <2>2, <2>3
<1>3. ASSUME NEW p \in Procs, Step(p) PROVE BlockInv'
  BY <1>2, <1>3, BlocksTransferStep, BlocksPinStep, BlocksKeyStep, BlocksRunStep DEF Step, transferVars
<1>4. ASSUME UNCHANGED <<run, blockVars, version, faults, removed>> PROVE BlockInv'
  BY <1>4 DEF BlockInv, BlockTypes, Position, Copied, BlocksSurvive, NoBlockLost, UntilFault,
     Achieved, Early, Working, blockVars
<1>5. CASE (DaemonPin /\ UNCHANGED <<transferVars, keyVars>>)
           \/ \E r \in Published : DaemonPublish(r) /\ UNCHANGED <<transferVars, pinVars>>
  BY <1>4, <1>5 DEF DaemonPin, DaemonPublish, runVars, transferVars
<1>6. CASE UNCHANGED vars
  BY <1>4, <1>6 DEF vars, runVars, transferVars
<1> QED
  BY <1>1, <1>2, <1>3, <1>5, <1>6 DEF Next, Environment, transferVars

\* The invariant of the blocks holds in every reachable state.
LEMMA BlocksHold == Spec => []BlockInv
  BY BlocksInit, BlocksStep, InvariantHolds, PTL DEF Spec

\* "No data lost. Ever.", as far as it goes: for any blocks, processes and
\* faults, no block is lost until Revert of 1-to-2 removes blocks/, and none
\* is without a fault.
THEOREM NoBlockIsLost == Spec => []BlocksSurvive
<1>1. BlockInv => BlocksSurvive
  BY DEF BlockInv
<1> QED
  BY <1>1, BlocksHold, PTL

-----------------------------------------------------------------------------
(* The shapes of a step                                                    *)

Others(p) == \A q \in Procs \ {p} : run'[q] = run[q] /\ todo'[q] = todo[q] /\ cur'[q] = cur[q]

dataVars == <<blocks, temps, transferVars, pinVars, keyVars>>

\* A process that is not at work prepares itself, or gives up.
Aside(p) ==
  /\ Others(p)
  /\ ~Working(p) /\ ~Working(p)'
  /\ UNCHANGED <<version, faults, broken, dataVars>>

\* CheckVersion has found the version of the program.
Begin(p) ==
  /\ Others(p)
  /\ run[p].pc = "check" /\ version = From(run[p].prog, run[p].op)
  /\ run'[p].pc = FirstStep(run[p].prog, run[p].op)
  /\ run'[p].prog = run[p].prog /\ run'[p].op = run[p].op
  /\ UNCHANGED <<version, faults, broken, dataVars>>

Truncated(p) ==
  /\ Others(p)
  /\ run[p].pc = "truncate" /\ run'[p].pc = "write"
  /\ run'[p].prog = run[p].prog /\ run'[p].op = run[p].op
  /\ version' = Blank
  /\ UNCHANGED <<faults, broken, dataVars>>

Written(p) ==
  /\ Others(p)
  /\ run[p].pc = "write" /\ ~Working(p)'
  /\ version' = To(run[p].prog, run[p].op)
  /\ broken' = broken \ {<<run[p].prog, run[p].op>>}
  /\ UNCHANGED <<faults, dataVars>>

\* A program at work ends early: it refuses what it finds, or is interrupted.
Stopped(p) ==
  /\ Others(p)
  /\ Working(p) /\ ~Working(p)'
  /\ broken' = broken \cup {<<run[p].prog, run[p].op>>}
  /\ \/ UNCHANGED <<faults, temps>> /\ run[p].pc \notin {"cleanup", "truncate", "write"}
     \/ faults' = faults + 1 /\ (temps' = temps \/ PutBy(p) # {})
  /\ UNCHANGED <<version, blocks, transferVars, pinVars, keyVars>>

\* A program at work goes on.
Continue(p) ==
  /\ Others(p)
  /\ Working(p) /\ Working(p)'
  /\ run[p].pc \notin {"truncate", "write"} /\ run'[p].pc # "write"
  /\ run'[p].prog = run[p].prog /\ run'[p].op = run[p].op
  /\ UNCHANGED <<version, broken>>

Daemon == (DaemonPin /\ UNCHANGED <<transferVars, keyVars>>)
          \/ \E r \in Published : DaemonPublish(r) /\ UNCHANGED <<transferVars, pinVars>>

Migrate(p) == \/ TransferStep(p) /\ UNCHANGED <<pinVars, keyVars>>
              \/ PinStep(p) /\ UNCHANGED <<transferVars, keyVars>>
              \/ KeyStep(p) /\ UNCHANGED <<transferVars, pinVars>>

\* The parts of the invariants that every proof below uses.
LEMMA Basics ==
  ASSUME IInv, BlockInv
  PROVE  /\ run \in [Procs -> Run] /\ todo \in [Procs -> SUBSET (Blocks \cup Records)]
         /\ cur \in [Procs -> Blocks \cup Records \cup {NoKey}]
         /\ version \in {NoVersion, Blank} \cup 1 .. 4 /\ faults \in Nat
         /\ blocks \in [Blocks -> SUBSET Places]
         /\ \A p \in Procs : Position(p) /\ Copied(p)
         /\ \A p, q \in Procs : Working(p) /\ Working(q) => p = q
         /\ PinNode \in Blocks /\ NoKey \notin Blocks /\ NoKey \notin Records
         /\ Records \cap Blocks = {}
  BY BlockAssumption, RecordAssumption DEF IInv, RunTypes, OneWriter, BlockInv, BlockTypes

\* An end of the program, told from the changes it makes.
LEMMA FailShape ==
  ASSUME IInv, BlockInv, NEW p \in Procs, Fail(p)
  PROVE  /\ ~Working(p)' /\ \A q \in Procs \ {p} : run'[q] = run[q]
         /\ broken' = IF Working(p) THEN broken \cup {<<run[p].prog, run[p].op>>} ELSE broken
  BY Basics DEF Fail, Idle, Working

\* A step of the program, told from the changes it makes.
LEMMA GotoShape ==
  ASSUME IInv, BlockInv, NEW p \in Procs, NEW where, Goto(p, where)
  PROVE  /\ run'[p].pc = where /\ run'[p].prog = run[p].prog /\ run'[p].op = run[p].op
         /\ broken' = broken /\ \A q \in Procs \ {p} : run'[q] = run[q]
  BY Basics DEF Goto, Run

\* The locks and the version file.
LEMMA RunShape ==
  ASSUME IInv, BlockInv, NEW p \in Procs, RunStep(p),
         UNCHANGED <<blockVars, transferVars, pinVars, keyVars>>
  PROVE  Aside(p) \/ Begin(p) \/ Truncated(p) \/ Written(p)
<1>1. CASE Lock(p)
  <2>1. CASE Fail(p)
    BY <1>1, <2>1, FailShape DEF Lock, Aside, Others, Working, blockVars, dataVars
  <2>2. CASE ~Fail(p)
    BY <1>1, <2>2, Basics DEF Lock, Aside, Others, Working, Run, blockVars, dataVars
  <2> QED
    BY <2>1, <2>2
<1>2. CASE CheckVersion(p)
  <2>1. CASE Fail(p)
    BY <1>2, <2>1, FailShape DEF CheckVersion, Aside, Others, Working, blockVars, dataVars
  <2>2. CASE ~Fail(p)
    BY <1>2, <2>2, GotoShape DEF CheckVersion, Begin, Others, blockVars, dataVars
  <2> QED
    BY <2>1, <2>2
<1>3. CASE TruncateVersion(p)
  BY <1>3, GotoShape DEF TruncateVersion, Truncated, Others, blockVars, dataVars
<1>4. CASE WriteVersion(p)
  <2>1. run'[p].pc \in {"idle", "lock"} /\ \A q \in Procs \ {p} : run'[q] = run[q]
    BY <1>4, Basics DEF WriteVersion, Succeed, Idle, Run
  <2> QED
    BY <1>4, <2>1 DEF WriteVersion, Succeed, Written, Others, Working, blockVars, dataVars
<1> QED
  BY <1>1, <1>2, <1>3, <1>4 DEF RunStep

\* The driver.
LEMMA DriverShape ==
  ASSUME IInv, BlockInv, NEW p \in Procs, RunMigration(p) \/ DriverStart(p) \/ Decline(p),
         UNCHANGED <<blockVars, transferVars, pinVars, keyVars>>
  PROVE  Aside(p)
<1>1. ~Working(p) /\ UNCHANGED <<version, faults>>
  BY DEF RunMigration, DriverStart, StartDriver, StartProgram, Decline, Working
<1>2. CASE Fail(p)
  BY <1>1, <1>2, FailShape DEF Aside, Others, blockVars, dataVars
<1>3. ASSUME NEW target, NEW ok, StartDriver(p, target, ok) PROVE Aside(p)
  BY <1>1, <1>3, Basics DEF StartDriver, Aside, Others, Working, Run, blockVars, dataVars
<1>4. ASSUME NEW n, NEW o, StartProgram(p, n, o) \/ Launch(p, n, o) PROVE Aside(p)
  BY <1>1, <1>4, Basics DEF StartProgram, Launch, Aside, Others, Working, Run, blockVars, dataVars
<1> QED
  BY <1>2, <1>3, <1>4 DEF RunMigration, DriverStart, Decline

\* Kills and failing operations.
LEMMA InterruptShape ==
  ASSUME IInv, BlockInv, NEW p \in Procs, OperationFails(p) \/ Kill(p)
  PROVE  Stopped(p)
<1>1. Fail(p) /\ Working(p) /\ faults' = faults + 1 /\ Forget(p) /\ version' = version
      /\ UNCHANGED <<blocks, transferVars, pinVars, keyVars>>
  BY DEF OperationFails, Kill, Interrupt, Fault
<1>2. temps' = temps \/ PutBy(p) # {}
  BY DEF OperationFails, Kill, LeavesTemp
<1>3. \A q \in Procs \ {p} : todo'[q] = todo[q] /\ cur'[q] = cur[q]
  BY <1>1, Basics DEF Forget
<1> QED
  BY <1>1, <1>2, <1>3, FailShape DEF Stopped, Others

\* The work of the migrations.
LEMMA MigrateShape ==
  ASSUME IInv, BlockInv, NEW p \in Procs, Migrate(p)
  PROVE  Stopped(p) \/ Continue(p)
<1> USE DEF Migrate
<1>f. ASSUME Fail(p), UNCHANGED <<version, faults, blockVars, transferVars, pinVars, keyVars>>,
             run[p].pc \in {"sanity", "move", "flush", "load", "indirect"}
      PROVE  Stopped(p)
  BY <1>f, FailShape DEF Stopped, Others, Working, blockVars
<1>g. ASSUME NEW where, Goto(p, where), UNCHANGED version,
             where \notin {"idle", "prompt", "lock", "relock", "check", "write"},
             Working(p), run[p].pc \notin {"truncate", "write"},
             \A q \in Procs \ {p} : todo'[q] = todo[q] /\ cur'[q] = cur[q]
      PROVE  Continue(p)
  BY <1>g, GotoShape DEF Continue, Others, Working
<1>o. ASSUME UNCHANGED runVars, Working(p), run[p].pc \notin {"truncate", "write"},
             \A q \in Procs \ {p} : todo'[q] = todo[q] /\ cur'[q] = cur[q]
      PROVE  Continue(p)
  BY <1>o DEF Continue, Others, Working, runVars
<1>t. /\ todo \in [Procs -> SUBSET (Blocks \cup Records)]
      /\ cur \in [Procs -> Blocks \cup Records \cup {NoKey}]
  BY Basics
<1>1. CASE TransferStep(p) /\ UNCHANGED <<pinVars, keyVars>>
  <2>1. CASE Sanity(p)
    BY <1>1, <2>1, <1>f, <1>g DEF Sanity, Working, blockVars, transferVars
  <2>2. CASE Unsanity(p)
    BY <2>2, <1>g DEF Unsanity, Working, blockVars
  <2>3. CASE QueryBlocks(p)
    BY <2>3, <1>g, <1>t DEF QueryBlocks, Working
  <2>4. CASE DeleteBlock(p)
    BY <2>4, <1>g, <1>t DEF DeleteBlock, Working
  <2>5. CASE EndTransfer(p)
    BY <2>5, <1>g, <1>t DEF EndTransfer, Working, blockVars
  <2>6. CASE RemoveAll(p)
    BY <2>6, <1>g, <1>t DEF RemoveAll, Working
  <2>7. CASE MoveDir(p)
    BY <1>1, <2>7, <1>f, <1>g DEF MoveDir, Working, blockVars
  <2>8. ASSUME NEW b \in Blocks, PutBlock(p, b) PROVE Continue(p)
    BY <2>8, <1>g, <1>t DEF PutBlock, Working
  <2> QED
    BY <1>1, <2>1, <2>2, <2>3, <2>4, <2>5, <2>6, <2>7, <2>8 DEF TransferStep
<1>2. CASE PinStep(p) /\ UNCHANGED <<transferVars, keyVars>>
  <2>1. CASE Flush(p)
    BY <1>2, <2>1, <1>f, <1>g DEF Flush, Working, blockVars, pinVars
  <2>2. CASE CleanupOldPins(p)
    BY <2>2, <1>g DEF CleanupOldPins, Working, blockVars
  <2>3. CASE WriteRecursive(p)
    BY <1>2, <2>3, <1>f, <1>g DEF WriteRecursive, Working, blockVars, pinVars
  <2>4. CASE WriteDirect(p)
    BY <2>4, <1>g DEF WriteDirect, Working, blockVars
  <2>5. CASE WriteIndirect(p)
    BY <1>2, <2>5, <1>f, <1>g DEF WriteIndirect, Working, blockVars, pinVars
  <2> QED
    BY <1>2, <2>1, <2>2, <2>3, <2>4, <2>5 DEF PinStep
<1>3. CASE KeyStep(p)
  <2>1. CASE ListBlocks(p) \/ ListBlocksFails(p)
    BY <2>1, <1>g, <1>t DEF ListBlocks, ListBlocksFails, Working
  <2>2. CASE UnlinkBlock(p) \/ DeleteRecord(p)
    BY <2>2, <1>o, <1>t DEF UnlinkBlock, DeleteRecord, Working
  <2>3. CASE CleanEmptyDirs(p)
    BY <2>3, <1>g DEF CleanEmptyDirs, Working, blockVars
  <2>4. CASE ListRecords(p)
    BY <2>4, <1>g, <1>t DEF ListRecords, Working
  <2>5. CASE EndRewrite(p)
    BY <2>5, <1>g DEF EndRewrite, NextKind, Working, blockVars
  <2>6. ASSUME NEW b \in Blocks, RenameBlock(p, b) \/ RewriteBlock(p, b) PROVE Continue(p)
    BY <2>6, <1>o, <1>t DEF RenameBlock, RewriteBlock, Working
  <2>7. ASSUME NEW r \in Records, PutRecord(p, r) PROVE Continue(p)
    BY <2>7, <1>o, <1>t DEF PutRecord, Working
  <2> QED
    BY <1>3, <2>1, <2>2, <2>3, <2>4, <2>5, <2>6, <2>7 DEF KeyStep
<1> QED
  BY <1>1, <1>2, <1>3

\* Every step of the chain has one of these shapes.
LEMMA NextShape ==
  ASSUME IInv, BlockInv, [Next]_vars
  PROVE  \/ \E p \in Procs : \/ Aside(p) \/ Begin(p) \/ Truncated(p) \/ Written(p) \/ Stopped(p)
                             \/ Migrate(p)
         \/ Daemon
         \/ UNCHANGED vars
<1>1. ASSUME NEW p \in Procs, Step(p)
      PROVE  Aside(p) \/ Begin(p) \/ Truncated(p) \/ Written(p) \/ Migrate(p)
  BY <1>1, RunShape, DriverShape DEF Step, Migrate
<1>2. ASSUME NEW p \in Procs, OperationFails(p) \/ Kill(p) PROVE Stopped(p)
  BY <1>2, InterruptShape
<1>3. ASSUME NEW p \in Procs, DriverStart(p) \/ Decline(p),
             UNCHANGED <<blockVars, transferVars, pinVars, keyVars>>
      PROVE  Aside(p)
  BY <1>3, DriverShape
<1> QED
  BY <1>1, <1>2, <1>3 DEF Next, Environment, Daemon

-----------------------------------------------------------------------------
(* The records                                                             *)

\* At first every record has the form of the repository's version.
LEMMA RecordsInit == Init => RecordInv
<1> SUFFICES ASSUME Init PROVE RecordInv
  OBVIOUS
<1>1. /\ version \in 0 .. 4 /\ \A r \in Records : latest[r] = 1
      /\ recs = [r \in Records |-> [f \in Forms |-> IF f = Form(version) THEN 1 ELSE None]]
  BY DEF Init, RunInit, KeyInit
<1>2. RecordTypes
  BY <1>1 DEF Init, KeyInit, RecordTypes, None
<1>3. \A r \in Records : Sound(r, Leaving(version))
  BY <1>1 DEF Sound, Leaving, OldForm, NewForm, Form, Forms, None
<1>4. \A p \in Procs : Rewriting(p)
  BY DEF Init, RunInit, Idle, Rewriting
<1> QED
  BY <1>2, <1>3, <1>4 DEF RecordInv

\* Once its old form is gone, a record is ready for the way back.
LEMMA SoundTurns ==
  ASSUME RecordTypes, NEW r \in Records, NEW o \in Ops, Sound(r, o),
         recs[r][OldForm(o)] = None
  PROVE  Sound(r, IF o = "apply" THEN "revert" ELSE "apply")
<1>1. latest[r] # None
  BY DEF RecordTypes, None
<1>2. CASE o = "apply"
  BY <1>1, <1>2 DEF Sound, OldForm, NewForm
<1>3. CASE o = "revert"
  BY <1>1, <1>3 DEF Sound, OldForm, NewForm
<1> QED
  BY <1>2, <1>3 DEF Ops

\* What is said of the records depends on nothing else.
LEMMA RecordsFrame ==
  ASSUME RecordInv, UNCHANGED <<recs, latest>>
  PROVE  /\ RecordTypes'
         /\ \A o \in Ops : \A r \in Records : Sound(r, o)' <=> Sound(r, o)
         /\ \A o \in Ops : /\ Left(Pks, o)' = Left(Pks, o) /\ Left(Ipns, o)' = Left(Ipns, o)
                           /\ Left(Records, o)' = Left(Records, o)
  BY DEF RecordInv, RecordTypes, Sound, Left

\* The steps of 3-to-4.
LEMMA RecordsKeyStep ==
  ASSUME IInv, BlockInv, RecordInv, NEW p \in Procs, KeyStep(p), Continue(p)
  PROVE  RecordTypes' /\ Rewriting(p)' /\ \A r \in Records : Sound(r, Leaving(version))'
<1>0. /\ run[p] \in Run /\ Position(p) /\ Copied(p) /\ Working(p) /\ Rewriting(p) /\ RecordTypes
      /\ todo \in [Procs -> SUBSET (Blocks \cup Records)] /\ NoKey \notin Records
      /\ cur \in [Procs -> Blocks \cup Records \cup {NoKey}]
  BY Basics DEF Continue, RecordInv
<1>p. run[p].prog = 3 /\ run[p].op \in Ops
  BY <1>0 DEF KeyStep, Position, Run, ListBlocks, ListBlocksFails, UnlinkBlock, CleanEmptyDirs,
     ListRecords, DeleteRecord, EndRewrite, RenameBlock, RewriteBlock, PutRecord
<1>v. version # Blank /\ Leaving(version) = run[p].op /\ version' = version
      /\ \A r \in Records : Sound(r, run[p].op)
  <2>1. version = From(3, run[p].op) /\ version' = version
    BY <1>0, <1>p DEF IInv, VersionRead, Continue
  <2>2. version # Blank /\ Leaving(version) = run[p].op
    BY <1>p, <2>1 DEF From, Leaving, Blank, Ops
  <2> QED
    BY <2>1, <2>2 DEF RecordInv
<1>f. ASSUME UNCHANGED <<recs, latest>> PROVE RecordTypes' /\ \A r \in Records : Sound(r, Leaving(version))'
  BY <1>f, <1>p, <1>v, RecordsFrame
<1>l. Records = Pks \cup Ipns
  BY DEF Records
<1>1. CASE ListBlocks(p) \/ ListBlocksFails(p) \/ CleanEmptyDirs(p)
  <2>1. UNCHANGED <<recs, latest>> /\ run'[p].pc \in {"rename", "rewriteBlocks", "listPks"}
    BY <1>1, GotoShape DEF ListBlocks, ListBlocksFails, CleanEmptyDirs, keyVars
  <2> QED
    BY <1>f, <2>1 DEF Rewriting
<1>2. CASE UnlinkBlock(p) \/ \E b \in Blocks : RenameBlock(p, b) \/ RewriteBlock(p, b)
  <2>1. UNCHANGED <<recs, latest>> /\ run'[p].pc \in {"rename", "rewriteBlocks"}
    BY <1>2 DEF UnlinkBlock, RenameBlock, RewriteBlock, keyVars, runVars
  <2> QED
    BY <1>f, <2>1 DEF Rewriting
<1>3. CASE ListRecords(p)
  <2>1. /\ UNCHANGED <<recs, latest, cur>> /\ run'[p].op = run[p].op
        /\ cur[p] = NoKey /\ cur'[p] = NoKey
        /\ \/ run[p].pc = "listPks" /\ run'[p].pc = "rewritePks" /\ todo'[p] = Left(Pks, run[p].op)
           \/ run[p].pc = "listIpns" /\ run'[p].pc = "rewriteIpns" /\ todo'[p] = Left(Ipns, run[p].op)
    BY <1>0, <1>3, GotoShape DEF ListRecords, Left, Copied, keyVars
  <2>2. Rewriting(p)'
    BY <1>0, <1>p, <2>1, RecordsFrame DEF Rewriting
  <2> QED
    BY <1>f, <2>1, <2>2
<1>4. CASE EndRewrite(p)
  <2>1. /\ UNCHANGED <<recs, latest, cur>> /\ run'[p].op = run[p].op /\ todo[p] = {}
        /\ \/ run[p].pc = "rewriteBlocks" /\ run'[p].pc = "clean"
           \/ run[p].pc = "rewritePks" /\ run'[p].pc = "listIpns"
           \/ run[p].pc = "rewriteIpns" /\ run'[p].pc = "truncate"
    BY <1>4, GotoShape DEF EndRewrite, NextKind, keyVars, blockVars
  <2>2. run[p].pc = "rewriteIpns" => Left(Records, run[p].op) = {}
    BY <1>0, <1>l, <2>1 DEF Rewriting, Left
  <2>3. Rewriting(p)'
    BY <1>0, <1>p, <2>1, <2>2, RecordsFrame DEF Rewriting
  <2> QED
    BY <1>f, <2>1, <2>3
<1>5. ASSUME NEW r \in Records, PutRecord(p, r)
      PROVE  RecordTypes' /\ Rewriting(p)' /\ \A x \in Records : Sound(x, Leaving(version))'
  <2> DEFINE o == run[p].op
  <2>1. /\ run[p].pc \in {"rewritePks", "rewriteIpns"} /\ run' = run /\ todo' = todo /\ cur'[p] = r
        /\ r \in todo[p] /\ latest' = latest
        /\ IF o = "apply" /\ r \in Mangled THEN recs' = recs
           ELSE recs' = [recs EXCEPT ![r][NewForm(o)] = recs[r][OldForm(o)]]
    BY <1>0, <1>5 DEF PutRecord, runVars
  <2>2. recs[r][OldForm(o)] # None
    BY <1>0, <2>1 DEF Rewriting, Left
  <2>3. recs[r][OldForm(o)] = latest[r]
    BY <1>v, <2>2 DEF Sound
  <2>4. /\ OldForm(o) # NewForm(o) /\ OldForm(o) \in Forms /\ NewForm(o) \in Forms
    BY <1>p DEF OldForm, NewForm, Forms, Ops
  <2>5. /\ recs' \in [Records -> [Forms -> Nat]]
        /\ \A x \in Records \ {r} : recs'[x] = recs[x]
        /\ recs'[r][OldForm(o)] = latest[r]
        /\ recs'[r][NewForm(o)] = IF o = "apply" /\ r \in Mangled THEN recs[r][NewForm(o)] ELSE latest[r]
    BY <1>0, <2>1, <2>3, <2>4 DEF RecordTypes
  <2>6. \A x \in Records : Sound(x, o)'
    BY <1>v, <2>1, <2>5 DEF Sound
  <2>7. Left(Pks, o)' = Left(Pks, o) /\ Left(Ipns, o)' = Left(Ipns, o)
    BY <1>l, <2>1, <2>2, <2>3, <2>5 DEF Left
  <2>8. Rewriting(p)'
    BY <1>0, <2>1, <2>5, <2>7 DEF Rewriting
  <2> QED
    BY <1>0, <1>v, <2>1, <2>5, <2>6, <2>8 DEF RecordTypes
<1>6. CASE DeleteRecord(p)
  <2> DEFINE o == run[p].op
             c == cur[p]
  <2>1. /\ run[p].pc \in {"rewritePks", "rewriteIpns"} /\ run' = run /\ latest' = latest
        /\ todo'[p] = todo[p] \ {c} /\ cur'[p] = NoKey /\ c # NoKey /\ c \in todo[p]
        /\ recs' = [recs EXCEPT ![c][OldForm(o)] = None]
    BY <1>0, <1>6 DEF DeleteRecord, Copied, runVars
  <2>2. c \in Records
    BY <1>0, <1>l, <2>1 DEF Rewriting, Left
  <2>3. /\ OldForm(o) # NewForm(o) /\ OldForm(o) \in Forms /\ NewForm(o) \in Forms
    BY <1>p DEF OldForm, NewForm, Forms, Ops
  <2>4. /\ recs' \in [Records -> [Forms -> Nat]]
        /\ \A x \in Records \ {c} : recs'[x] = recs[x]
        /\ recs'[c][OldForm(o)] = None
        /\ recs'[c][NewForm(o)] = recs[c][NewForm(o)]
    BY <1>0, <2>1, <2>2, <2>3 DEF RecordTypes, None
  <2>5. IF o = "apply" /\ c \in Mangled THEN recs[c][NewForm(o)] = None
                                        ELSE recs[c][NewForm(o)] = latest[c]
    BY <1>0, <1>v, <2>1, <2>2 DEF Rewriting, Sound
  <2>6. \A x \in Records : Sound(x, o)'
    BY <1>v, <2>1, <2>4, <2>5 DEF Sound
  <2>7. Left(Pks, o)' = Left(Pks, o) \ {c} /\ Left(Ipns, o)' = Left(Ipns, o) \ {c}
    BY <1>l, <2>1, <2>4 DEF Left
  <2>8. Rewriting(p)'
    BY <1>0, <2>1, <2>7 DEF Rewriting
  <2> QED
    BY <1>0, <1>v, <2>1, <2>4, <2>6, <2>8 DEF RecordTypes
<1> QED
  BY <1>1, <1>2, <1>3, <1>4, <1>5, <1>6 DEF KeyStep

\* A daemon has the lock of its version, so no program is at work.
LEMMA DaemonAlone ==
  ASSUME IInv, Daemon
  PROVE  version \in 1 .. 4 /\ \A q \in Procs : ~Working(q)
<1>1. version \in 1 .. 4 /\ locks[LockOf(version)] = NoProc
  BY DEF Daemon, DaemonPin, DaemonPublish
<1>2. ASSUME NEW q \in Procs, Working(q) PROVE FALSE
  <2>1. version = From(run[q].prog, run[q].op)
    BY <1>1, <1>2 DEF IInv, VersionRead, Blank
  <2> QED
    BY <1>1, <1>2, <2>1, ProcAssumption DEF IInv, LockHeld
<1> QED
  BY <1>1, <1>2

\* A program that begins its work is alone, too.
LEMMA BeginAlone ==
  ASSUME IInv, BlockInv, NEW p \in Procs, Begin(p)
  PROVE  version # Blank /\ \A q \in Procs \ {p} : ~Working(q)
<1>1. version # Blank
  BY Basics DEF Begin, From, Blank, Run, Progs
<1>2. ASSUME NEW q \in Procs \ {p}, Working(q) PROVE FALSE
  <2>1. version = From(run[q].prog, run[q].op)
    BY <1>1, <1>2 DEF IInv, VersionRead
  <2> QED
    BY <1>2, <2>1 DEF IInv, LockHeld, Begin
<1> QED
  BY <1>1, <1>2

\* A program at work finds the version it started from, until it truncates it.
LEMMA WorkVersion ==
  ASSUME IInv, BlockInv, NEW p \in Procs, Working(p), run[p].pc # "write"
  PROVE  /\ version = From(run[p].prog, run[p].op) /\ version # Blank
         /\ run[p].prog \in 0 .. 3 /\ run[p].op \in Ops
<1>1. version = From(run[p].prog, run[p].op)
  BY DEF IInv, VersionRead
<1> QED
  BY <1>1, Basics DEF From, Blank, Run, Progs

\* Every step of the chain preserves the invariant of the records.
LEMMA RecordsStep ==
  ASSUME IInv, BlockInv, BlockInv', RecordInv, [Next]_vars
  PROVE  RecordInv'
<1>0. /\ run \in [Procs -> Run] /\ \A p, q \in Procs : Working(p) /\ Working(q) => p = q
      /\ \A p \in Procs : Rewriting(p) /\ Position(p)'
      /\ version # Blank => \A r \in Records : Sound(r, Leaving(version))
      /\ RecordTypes
  BY Basics DEF RecordInv, BlockInv
<1>o. \A v : Leaving(v) \in Ops
  BY DEF Leaving, Ops
<1>n. ASSUME NEW q \in Procs, ~Working(q)' PROVE Rewriting(q)'
  BY <1>n DEF Rewriting, Working
<1>w. ASSUME NEW p \in Procs, Others(p), Working(p) PROVE \A q \in Procs \ {p} : Rewriting(q)'
  <2>1. \A q \in Procs \ {p} : ~Working(q)'
    BY <1>0, <1>w DEF Others, Working
  <2> QED
    BY <1>n, <2>1
<1>1. ASSUME NEW p \in Procs, Aside(p) PROVE RecordInv'
  <2>1. UNCHANGED <<version, recs, latest>> /\ ~Working(p)'
    BY <1>1 DEF Aside, dataVars, keyVars
  <2>2. ASSUME NEW q \in Procs \ {p} PROVE Rewriting(q)'
    <3>1. run'[q] = run[q] /\ todo'[q] = todo[q] /\ cur'[q] = cur[q] /\ Rewriting(q) /\ run[q].op \in Ops
      BY <1>0, <1>1 DEF Aside, Others, Run
    <3> QED
      BY <1>o, <2>1, <3>1, RecordsFrame DEF Rewriting
  <2> QED
    BY <1>0, <1>n, <1>o, <2>1, <2>2, RecordsFrame DEF RecordInv
<1>2. ASSUME NEW p \in Procs, Begin(p) PROVE RecordInv'
  <2>1. UNCHANGED <<version, recs, latest>> /\ run[p].prog \in 0 .. 3
    BY <1>0, <1>2 DEF Begin, dataVars, keyVars, Run, Progs
  <2>2. /\ run'[p].pc \in {"truncate", "sanity", "move", "flush", "load", "listBlocks"}
        /\ run'[p].pc = "truncate" => run'[p].prog # 3
    BY <1>2, <2>1 DEF Begin, FirstStep
  <2>3. Rewriting(p)'
    BY <2>2 DEF Rewriting
  <2>4. \A q \in Procs \ {p} : ~Working(q)
    BY <1>2, BeginAlone
  <2>5. \A q \in Procs \ {p} : Rewriting(q)'
    BY <1>2, <1>n, <2>4 DEF Begin, Others, Working
  <2> QED
    BY <1>0, <1>o, <2>1, <2>3, <2>5, RecordsFrame DEF RecordInv
<1>3. ASSUME NEW p \in Procs, Truncated(p) PROVE RecordInv'
  <2>1. UNCHANGED <<recs, latest>> /\ Working(p) /\ run[p].op \in Ops /\ version' = Blank
    BY <1>0, <1>3 DEF Truncated, dataVars, keyVars, Working, Run
  <2>2. version = From(run[p].prog, run[p].op) /\ version # Blank
    BY <1>3, <2>1, WorkVersion DEF Truncated
  <2>3. Rewriting(p)'
    BY <1>0, <1>3, <1>o, <2>1, <2>2, RecordsFrame DEF Truncated, Rewriting
  <2> QED
    BY <1>3, <1>w, <2>1, <2>3, RecordsFrame DEF RecordInv, Truncated
<1>4. ASSUME NEW p \in Procs, Written(p) PROVE RecordInv'
  <2> DEFINE n == run[p].prog
             o == run[p].op
  <2>1. /\ UNCHANGED <<recs, latest>> /\ Working(p) /\ o \in Ops /\ n \in 0 .. 3
        /\ version' = To(n, o)
    BY <1>0, <1>4 DEF Written, dataVars, keyVars, Working, Run, Progs
  <2>2. \A r \in Records : Sound(r, Leaving(From(n, o)))
    BY <1>0, <1>4 DEF Written, Rewriting
  <2>3. \A r \in Records : Sound(r, Leaving(To(n, o)))
    <3>1. CASE n # 3
      <4>1. Leaving(From(n, o)) = "apply" /\ Leaving(To(n, o)) = "apply"
        BY <2>1, <3>1 DEF Leaving, From, To
      <4> QED
        BY <2>2, <4>1
    <3>2. CASE n = 3
      <4>1. /\ Leaving(From(n, o)) = o
            /\ Leaving(To(n, o)) = IF o = "apply" THEN "revert" ELSE "apply"
        BY <2>1, <3>2 DEF Leaving, From, To, Ops
      <4>2. \A r \in Records : recs[r][OldForm(o)] = None
        BY <1>0, <1>4, <3>2 DEF Written, Rewriting, Left
      <4> QED
        BY <1>0, <2>1, <2>2, <4>1, <4>2, SoundTurns
    <3> QED
      BY <3>1, <3>2
  <2>4. Rewriting(p)'
    BY <1>4, <1>n DEF Written
  <2> QED
    BY <1>4, <1>o, <1>w, <2>1, <2>3, <2>4, RecordsFrame DEF RecordInv, Written
<1>5. ASSUME NEW p \in Procs, Stopped(p) PROVE RecordInv'
  <2>1. UNCHANGED <<version, recs, latest>> /\ Working(p) /\ Others(p) /\ Rewriting(p)'
    BY <1>5, <1>n DEF Stopped, keyVars
  <2> QED
    BY <1>0, <1>o, <1>w, <2>1, RecordsFrame DEF RecordInv
<1>6. ASSUME NEW p \in Procs, Migrate(p), Continue(p) PROVE RecordInv'
  <2>1. Others(p) /\ Working(p) /\ version' = version
    BY <1>6 DEF Continue
  <2>2. CASE KeyStep(p)
    BY <1>6, <1>w, <2>1, <2>2, RecordsKeyStep DEF RecordInv
  <2>3. CASE ~KeyStep(p)
    <3>1. UNCHANGED <<recs, latest>>
      BY <1>6, <2>3 DEF Migrate, keyVars
    <3>2. run[p].prog # 3
      BY <1>6, <2>3, Basics DEF Migrate, Position, TransferStep, PinStep, Sanity, Unsanity,
         QueryBlocks, DeleteBlock, EndTransfer, RemoveAll, MoveDir, PutBlock, Flush,
         CleanupOldPins, WriteRecursive, WriteDirect, WriteIndirect
    <3>3. Rewriting(p)'
      BY <1>0, <1>6, <3>2 DEF Continue, Rewriting, Position
    <3> QED
      BY <1>0, <1>o, <1>w, <2>1, <3>1, <3>3, RecordsFrame DEF RecordInv
  <2> QED
    BY <2>2, <2>3
<1>7. CASE Daemon
  <2>1. version \in 1 .. 4 /\ \A q \in Procs : ~Working(q)
    BY <1>7, DaemonAlone
  <2>2. UNCHANGED <<version, run>>
    BY <1>7 DEF Daemon, DaemonPin, DaemonPublish, runVars
  <2>3. \A q \in Procs : Rewriting(q)'
    BY <1>n, <2>1, <2>2 DEF Working
  <2>4. CASE UNCHANGED <<recs, latest>>
    BY <1>0, <1>o, <2>2, <2>3, <2>4, RecordsFrame DEF RecordInv
  <2>5. ASSUME NEW r \in Published, DaemonPublish(r) PROVE RecordInv'
    <3>1. r \in Records /\ Form(version) \in Forms
      BY RecordAssumption DEF Records, Form, Forms
    <3>2. /\ latest' = [latest EXCEPT ![r] = latest[r] + 1]
          /\ recs' = [recs EXCEPT ![r][Form(version)] = latest[r] + 1]
      BY <2>5 DEF DaemonPublish
    <3>3. /\ RecordTypes'
          /\ \A x \in Records \ {r} : recs'[x] = recs[x] /\ latest'[x] = latest[x]
          /\ latest'[r] = latest[r] + 1 /\ recs'[r][Form(version)] = latest[r] + 1
          /\ \A f \in Forms \ {Form(version)} : recs'[r][f] = recs[r][f]
      BY <1>0, <3>1, <3>2 DEF RecordTypes
    <3>4. OldForm(Leaving(version)) = Form(version) /\ NewForm(Leaving(version)) \in Forms \ {Form(version)}
      BY <2>1 DEF OldForm, NewForm, Leaving, Form, Forms
    <3>5. \A x \in Records : Sound(x, Leaving(version))
      BY <1>0, <2>1 DEF Blank
    <3>6. \A x \in Records : Sound(x, Leaving(version))'
      BY <2>2, <3>3, <3>4, <3>5 DEF Sound
    <3> QED
      BY <2>3, <3>3, <3>6 DEF RecordInv
  <2> QED
    BY <1>7, <2>4, <2>5 DEF Daemon, keyVars
<1>8. CASE UNCHANGED vars
  <2>1. UNCHANGED <<version, recs, latest, run, todo, cur>>
    BY <1>8 DEF vars, runVars, keyVars, blockVars
  <2>2. ASSUME NEW q \in Procs PROVE Rewriting(q)'
    <3>1. run'[q] = run[q] /\ todo'[q] = todo[q] /\ cur'[q] = cur[q] /\ Rewriting(q) /\ run[q].op \in Ops
      BY <1>0, <2>1 DEF Run
    <3> QED
      BY <1>o, <2>1, <3>1, RecordsFrame DEF Rewriting
  <2> QED
    BY <1>0, <1>o, <2>1, <2>2, RecordsFrame DEF RecordInv
<1>9. ASSUME NEW p \in Procs, Migrate(p) PROVE RecordInv'
  BY <1>5, <1>6, <1>9, MigrateShape
<1> QED
  BY <1>1, <1>2, <1>3, <1>4, <1>5, <1>7, <1>8, <1>9, NextShape

\* The records are sound in every reachable state.
LEMMA RecordsHold == Spec => []RecordInv
  BY RecordsInit, RecordsStep, BlocksHold, InvariantHolds, PTL DEF Spec

\* For any records, processes and faults, no daemon reads an IPNS record
\* that is older than the one last published.
THEOREM NoStaleRecord == Spec => []NeverStale
<1>1. RecordInv => NeverStale
  <2> SUFFICES ASSUME RecordInv, NEW r \in Records, version \in 1 .. 4
               PROVE  recs[r][Form(version)] \in {None, latest[r]}
    BY DEF NeverStale
  <2>1. Sound(r, Leaving(version)) /\ OldForm(Leaving(version)) = Form(version)
    BY DEF RecordInv, Blank, Leaving, OldForm, Form
  <2> QED
    BY <2>1 DEF Sound
<1> QED
  BY <1>1, RecordsHold, PTL

-----------------------------------------------------------------------------
(* The pins                                                                *)

\* At first the pins are where the repository's version has them.
LEMMA PinsInit == Init => PinInv
<1> SUFFICES ASSUME Init PROVE PinInv
  OBVIOUS
<1>1. version \in 0 .. 4 /\ wanted \in PinSet
      /\ oldPins = (IF version <= 2 THEN wanted ELSE [rec |-> NoPins, direct |-> NoPins])
      /\ newPins = (IF version >= 3 THEN wanted ELSE NoPins)
  BY DEF Init, RunInit, PinInit
<1>2. PinTypes
  BY <1>1 DEF PinTypes, PinSet
<1>3. version >= 3 => blocks[PinNode] # {}
  BY <1>1, BlockAssumption DEF Init, BlockInit
<1>4. PinsAt(version) /\ version # Blank
  BY <1>1, <1>3 DEF PinsAt, PinsLow, OldPinsKnown, NewPinsKnown, Blank
<1>5. \A p \in Procs : Pinning(p)
  BY DEF Init, RunInit, Idle, Pinning, Switching
<1> QED
  BY <1>2, <1>4, <1>5 DEF PinInv

\* The old pins stay known, or the new ones do.
LEMMA PinsLowFrame ==
  ASSUME PinsLow, UNCHANGED <<pinVars, removed>>, faults \in Nat, faults' \in Nat, faults' >= faults,
         ~OldPinsKnown =>
           /\ (removed = "no" \/ faults <= 1) /\ Early(PinNode) => Early(PinNode)'
           /\ (\E p \in Procs : Switching(p)') \/ (faults' = 1 /\ temps' = {}) \/ faults' > 1
  PROVE  PinsLow'
<1>1. CASE OldPinsKnown
  BY <1>1 DEF PinsLow, OldPinsKnown, pinVars
<1>2. CASE ~OldPinsKnown
  BY <1>2 DEF PinsLow, OldPinsKnown, pinVars
<1> QED
  BY <1>1, <1>2

\* At a blank version, too, they depend on little.
LEMMA PinsKnownFrame ==
  ASSUME PinsKnown, UNCHANGED <<version, blocks, pinVars, removed>>,
         faults \in Nat, faults' \in Nat, faults' >= faults
  PROVE  PinsKnown'
  BY DEF PinsKnown, OldPinsKnown, NewPinsKnown, pinVars

\* The steps of 1-to-2.
LEMMA PinsTransferStep ==
  ASSUME IInv, BlockInv, BlockInv', PinInv, NEW p \in Procs, TransferStep(p), UNCHANGED <<pinVars, keyVars>>,
         Continue(p)
  PROVE  PinsLow' /\ Pinning(p)' /\ PinTypes'
<1>0. /\ run[p] \in Run /\ Position(p) /\ Copied(p) /\ Working(p) /\ Pinning(p) /\ PinTypes
      /\ todo \in [Procs -> SUBSET (Blocks \cup Records)] /\ faults \in Nat
      /\ cur \in [Procs -> Blocks \cup Records \cup {NoKey}]
      /\ blocks \in [Blocks -> SUBSET Places] /\ PinNode \in Blocks
      /\ \A q \in Procs \ {p} : ~Working(q) /\ ~Working(q)'
      /\ Position(p)' /\ run'[p].op = run[p].op /\ run'[p].prog = run[p].prog /\ run'[p].pc # "write"
  BY Basics DEF Continue, PinInv, BlockInv, Others, Working
<1>p. run[p].prog = 1 /\ run[p].op \in Ops /\ faults' = faults
  BY <1>0 DEF TransferStep, Position, Run, Sanity, Unsanity,
         QueryBlocks, DeleteBlock, EndTransfer, RemoveAll, MoveDir, PutBlock
<1>v. PinsLow
  <2>1. version = From(1, run[p].op) /\ version # Blank
    BY <1>0, <1>p, WorkVersion DEF Continue
  <2> QED
    BY <1>p, <2>1 DEF PinInv, PinsAt, From
<1>s. \A q \in Procs : ~Switching(q) /\ ~Switching(q)'
  BY <1>0, <1>p DEF Switching, Working
<1>t. PinTypes'
  BY <1>0 DEF PinTypes, pinVars
<1>b. ~OldPinsKnown => (faults = 1 /\ temps = {}) \/ faults > 1
  BY <1>s, <1>v DEF PinsLow
<1>r. ASSUME UNCHANGED <<removed, temps>>, Early(PinNode) => Early(PinNode)' PROVE PinsLow'
  BY <1>0, <1>p, <1>v, <1>b, <1>r, PinsLowFrame
<1>q. ASSUME run'[p].pc \notin {"put", "delete", "removeAll"} PROVE Pinning(p)'
  BY <1>0, <1>p, <1>q DEF Pinning, Switching, Position
<1>e. ASSUME blocks' = blocks PROVE Early(PinNode) => Early(PinNode)'
  BY <1>e DEF Early
<1>1. CASE Sanity(p) \/ Unsanity(p) \/ MoveDir(p)
  <2>1. UNCHANGED <<removed, temps, blocks>>
    BY <1>1 DEF Sanity, Unsanity, MoveDir, blockVars, transferVars
  <2>2. run'[p].pc \notin {"put", "delete", "removeAll"}
    <3>1. ~Fail(p)
      BY <1>0, FailShape DEF Continue
    <3> QED
      BY <1>1, <3>1, GotoShape DEF Sanity, Unsanity, MoveDir
  <2> QED
    BY <1>e, <1>q, <1>r, <1>t, <2>1, <2>2
<1>2. CASE QueryBlocks(p)
  <2>1. /\ run[p].pc = "query" /\ run'[p].pc = "put" /\ UNCHANGED <<removed, temps, blocks>>
    BY <1>2, GotoShape DEF QueryBlocks, transferVars
  <2>2. run[p].op = "revert" /\ temps = {} => todo'[p] = In("hex")
    <3>1. PICK s : /\ todo' = [todo EXCEPT ![p] = s]
                   /\ run[p].op = "revert" => s \in Listings
      BY <1>2 DEF QueryBlocks
    <3>2. temps = {} /\ s \in Listings => s = In("hex")
      BY DEF Listings
    <3> QED
      BY <1>0, <3>1, <3>2
  <2>3. ~OldPinsKnown /\ faults <= 1 => temps = {} /\ Early(PinNode)
    BY <1>0, <1>b, <1>v DEF PinsLow
  <2>4. UNCHANGED <<oldPins, newPins, wanted>>
    BY DEF pinVars
  <2>5. Pinning(p)'
    BY <1>0, <1>p, <2>1, <2>2, <2>3, <2>4 DEF Pinning, Switching, In, Early, OldPinsKnown, Position
  <2> QED
    BY <1>e, <1>r, <1>t, <2>1, <2>5
<1>3. ASSUME NEW b \in Blocks, PutBlock(p, b) PROVE PinsLow' /\ Pinning(p)'
  <2>1. /\ run[p].pc = "put" /\ run'[p].pc = "delete" /\ UNCHANGED <<removed, temps, todo>>
        /\ \A c \in Blocks : blocks[c] \subseteq blocks'[c]
    BY <1>0, <1>3, GotoShape DEF PutBlock, Added, transferVars
  <2>2. Early(PinNode) => Early(PinNode)'
    BY <1>0, <2>1 DEF Early
  <2>3. Pinning(p)'
    BY <1>0, <1>p, <2>1 DEF Pinning, Switching, OldPinsKnown, Position, pinVars
  <2> QED
    BY <1>r, <2>1, <2>2, <2>3
<1>4. CASE DeleteBlock(p)
  <2>1. /\ run[p].pc = "delete" /\ run'[p].pc = "put" /\ UNCHANGED <<removed, temps>>
        /\ cur[p] \in Blocks /\ Target(run[p].op) \in blocks[cur[p]]
        /\ blocks' = [blocks EXCEPT ![cur[p]] = @ \ {Source(run[p].op)}]
        /\ todo'[p] = todo[p] \ {cur[p]}
    BY <1>0, <1>4, GotoShape DEF DeleteBlock, Dropped, Copied, transferVars
  <2>2. Target(run[p].op) # Source(run[p].op) /\ {Target(run[p].op), Source(run[p].op)} = {"hex", "leveldb"}
    BY <1>p DEF Target, Source, Ops
  <2>3. /\ \A c \in Blocks \ {cur[p]} : blocks'[c] = blocks[c]
        /\ Target(run[p].op) \in blocks'[cur[p]]
    BY <1>0, <2>1, <2>2
  <2>4. Early(PinNode) => Early(PinNode)'
    BY <1>0, <2>1, <2>2, <2>3 DEF Early
  <2>5. run[p].op = "revert" => Target(run[p].op) = "leveldb"
    BY DEF Target
  <2>6. run[p].op = "revert" /\ ("leveldb" \in blocks[PinNode] \/ PinNode \in todo[p]) =>
          "leveldb" \in blocks'[PinNode] \/ PinNode \in todo'[p]
    BY <1>0, <2>1, <2>3, <2>5
  <2>7. Pinning(p)'
    BY <1>0, <1>p, <2>1, <2>6 DEF Pinning, Switching, OldPinsKnown, Position, pinVars
  <2> QED
    BY <1>r, <1>t, <2>1, <2>4, <2>7
<1>5. CASE EndTransfer(p)
  <2>1. /\ run[p].pc = "put" /\ todo[p] = {} /\ UNCHANGED <<removed, temps, blocks, todo>>
        /\ run'[p].pc = IF run[p].op = "apply" THEN "move" ELSE "removeAll"
    BY <1>5, GotoShape DEF EndTransfer, blockVars, transferVars
  <2>2. Pinning(p)'
    BY <1>0, <1>p, <2>1 DEF Pinning, Switching, OldPinsKnown, Position, pinVars, Ops
  <2> QED
    BY <1>e, <1>r, <1>t, <2>1, <2>2
<1>6. CASE RemoveAll(p)
  <2>1. /\ run[p].pc = "removeAll" /\ run'[p].pc = "truncate" /\ removed' = "yes" /\ temps' = {}
        /\ blocks' = [b \in Blocks |-> blocks[b] \ {"hex", "base32"}]
    BY <1>6, GotoShape DEF RemoveAll
  <2>2. ~OldPinsKnown /\ faults <= 1 => Early(PinNode)'
    BY <1>0, <2>1 DEF Pinning, Early
  <2>3. PinsLow'
    <3>1. CASE OldPinsKnown
      BY <3>1 DEF PinsLow, OldPinsKnown, pinVars
    <3>2. CASE ~OldPinsKnown
      <4>1. oldPins'.rec = NoPins /\ newPins' = wanted'
        BY <1>v, <3>2 DEF PinsLow, pinVars
      <4>2. (removed' = "no" \/ faults' <= 1) => Early(PinNode)'
        BY <1>p, <2>1, <2>2, <3>2
      <4>3. (faults' = 1 /\ temps' = {}) \/ faults' > 1
        BY <1>b, <1>p, <2>1, <3>2
      <4> QED
        BY <4>1, <4>2, <4>3 DEF PinsLow
    <3> QED
      BY <3>1, <3>2
  <2> QED
    BY <1>q, <1>t, <2>1, <2>3
<1> QED
  BY <1>1, <1>2, <1>3, <1>4, <1>5, <1>6, <1>t DEF TransferStep

\* The steps of 2-to-3.
LEMMA PinsPinStep ==
  ASSUME IInv, BlockInv, BlockInv', PinInv, NEW p \in Procs, PinStep(p),
         UNCHANGED <<transferVars, keyVars>>, Continue(p)
  PROVE  PinsAt(version)' /\ Pinning(p)' /\ PinTypes'
<1>0. /\ run[p] \in Run /\ Position(p) /\ Working(p) /\ Pinning(p) /\ PinTypes
      /\ blocks \in [Blocks -> SUBSET Places] /\ PinNode \in Blocks
      /\ run'[p].op = run[p].op /\ run'[p].prog = run[p].prog /\ version' = version
  BY Basics DEF Continue, PinInv
<1>g. ~Fail(p)
  BY <1>0, FailShape DEF Continue
<1>p. run[p].prog = 2 /\ faults' = faults /\ temps' = temps
  BY <1>0 DEF PinStep, Position, Flush, CleanupOldPins, WriteRecursive, WriteDirect, WriteIndirect,
     blockVars
<1>v. version = From(2, run[p].op) /\ PinsAt(version)
  BY <1>0, <1>p, WorkVersion DEF Continue, PinInv
<1>a. run[p].op = "apply" => version = 2 /\ PinsLow
  BY <1>v DEF From, PinsAt
<1>r. run[p].op = "revert" => version = 3 /\ NewPinsKnown
  BY <1>v DEF From, PinsAt
<1>1. CASE Flush(p)
  <2>1. /\ run[p].pc = "flush" /\ run'[p].pc = "cleanup" /\ run[p].op = "apply"
        /\ oldPins.rec # NoPins /\ newPins' = oldPins /\ UNCHANGED <<oldPins, wanted>>
        /\ blocks' = [blocks EXCEPT ![PinNode] = @ \cup {"hex"}]
    BY <1>0, <1>1, <1>g, GotoShape DEF Flush, Added, Pinning
  <2>2. OldPinsKnown
    BY <1>a, <2>1 DEF PinsLow
  <2>3. oldPins = wanted /\ wanted \in PinSet
    BY <1>0, <2>2 DEF OldPinsKnown, PinTypes
  <2>4. newPins' = wanted' /\ OldPinsKnown' /\ "hex" \in blocks'[PinNode] /\ PinTypes'
    BY <1>0, <2>1, <2>3 DEF OldPinsKnown, PinTypes
  <2> QED
    BY <1>0, <1>a, <2>1, <2>4 DEF PinsAt, PinsLow, Pinning, Switching
<1>2. CASE CleanupOldPins(p)
  <2>1. /\ run[p].pc = "cleanup" /\ run'[p].pc = "truncate" /\ run[p].op = "apply"
        /\ oldPins' = [oldPins EXCEPT !.rec = NoPins] /\ UNCHANGED <<newPins, wanted, blocks>>
    BY <1>0, <1>2, GotoShape DEF CleanupOldPins, Pinning, blockVars
  <2>2. newPins' = wanted' /\ "hex" \in blocks'[PinNode]
    BY <1>0, <1>p, <2>1 DEF Pinning, Switching
  <2>3. oldPins'.rec = NoPins /\ PinTypes'
    BY <1>0, <2>1 DEF PinTypes
  <2>4. Switching(p)'
    BY <1>0, <1>p, <2>1 DEF Switching
  <2>5. PinsLow'
    BY <2>2, <2>3, <2>4 DEF PinsLow, Early
  <2> QED
    BY <1>0, <1>a, <1>p, <2>1, <2>2, <2>3, <2>5 DEF PinsAt, Pinning
<1>3. CASE WriteRecursive(p)
  <2>1. /\ run[p].pc = "load" /\ run'[p].pc = "writeDirect" /\ run[p].op = "revert"
        /\ oldPins' = [oldPins EXCEPT !.rec = newPins.rec] /\ UNCHANGED <<newPins, wanted, blocks>>
    BY <1>0, <1>3, <1>g, GotoShape DEF WriteRecursive, Pinning, blockVars
  <2>2. newPins = wanted /\ wanted \in PinSet /\ blocks[PinNode] # {}
    BY <1>0, <1>r, <2>1 DEF NewPinsKnown, PinTypes
  <2>3. oldPins'.rec = wanted'.rec /\ PinTypes'
    BY <1>0, <2>1, <2>2 DEF PinTypes, PinSet
  <2>4. PinsAt(version)'
    BY <1>0, <1>r, <2>1, <2>2 DEF PinsAt, NewPinsKnown
  <2> QED
    BY <1>0, <1>p, <2>1, <2>3, <2>4 DEF Pinning, Switching
<1>4. CASE WriteDirect(p)
  <2>1. /\ run[p].pc = "writeDirect" /\ run'[p].pc = "indirect" /\ run[p].op = "revert"
        /\ oldPins' = [oldPins EXCEPT !.direct = newPins.direct] /\ UNCHANGED <<newPins, wanted, blocks>>
    BY <1>0, <1>4, GotoShape DEF WriteDirect, Pinning, blockVars
  <2>2. newPins = wanted /\ wanted \in PinSet /\ blocks[PinNode] # {} /\ oldPins.rec = wanted.rec
    BY <1>0, <1>r, <2>1 DEF NewPinsKnown, PinTypes, Pinning
  <2>3. oldPins' = wanted'
    BY <1>0, <2>1, <2>2 DEF PinTypes, PinSet
  <2>4. OldPinsKnown' /\ PinTypes'
    BY <1>0, <2>1, <2>2, <2>3 DEF PinTypes, PinSet, OldPinsKnown
  <2>5. PinsAt(version)'
    BY <1>0, <1>r, <2>1, <2>2 DEF PinsAt, NewPinsKnown
  <2> QED
    BY <1>0, <1>p, <2>1, <2>4, <2>5 DEF Pinning, Switching
<1>5. CASE WriteIndirect(p)
  <2>1. /\ run[p].pc = "indirect" /\ run'[p].pc = "truncate" /\ run[p].op = "revert"
        /\ UNCHANGED <<oldPins, newPins, wanted, blocks>>
    BY <1>0, <1>5, <1>g, GotoShape DEF WriteIndirect, Pinning, blockVars, pinVars
  <2>2. OldPinsKnown' /\ PinTypes'
    BY <1>0, <2>1 DEF Pinning, PinTypes, OldPinsKnown
  <2>3. PinsAt(version)'
    BY <1>0, <1>r, <2>1 DEF PinsAt, NewPinsKnown
  <2> QED
    BY <1>0, <1>p, <2>1, <2>2, <2>3 DEF Pinning, Switching
<1> QED
  BY <1>1, <1>2, <1>3, <1>4, <1>5 DEF PinStep

\* The steps of 3-to-4 move the block of the pins like any other.
LEMMA PinsKeyStep ==
  ASSUME IInv, BlockInv, BlockInv', PinInv, NEW p \in Procs, KeyStep(p),
         UNCHANGED <<transferVars, pinVars>>, Continue(p)
  PROVE  PinsAt(version)' /\ Pinning(p)' /\ PinTypes'
<1>0. /\ run[p] \in Run /\ Position(p) /\ Copied(p) /\ Working(p) /\ Pinning(p) /\ PinTypes
      /\ blocks \in [Blocks -> SUBSET Places] /\ PinNode \in Blocks
      /\ cur \in [Procs -> Blocks \cup Records \cup {NoKey}] /\ todo \in [Procs -> SUBSET (Blocks \cup Records)]
      /\ Position(p)'
      /\ run'[p].op = run[p].op /\ run'[p].prog = run[p].prog /\ version' = version /\ run'[p].pc # "write"
  BY Basics DEF Continue, PinInv, BlockInv
<1>p. run[p].prog = 3 /\ run[p].op \in Ops
  BY <1>0 DEF KeyStep, Position, Run, ListBlocks, ListBlocksFails, UnlinkBlock, CleanEmptyDirs,
     ListRecords, DeleteRecord, EndRewrite, RenameBlock, RewriteBlock, PutRecord
<1>v. version \in {3, 4} /\ NewPinsKnown
  <2>1. version = From(3, run[p].op) /\ PinsAt(version)
    BY <1>0, <1>p, WorkVersion DEF Continue, PinInv
  <2> QED
    BY <1>p, <2>1 DEF From, PinsAt, Ops
<1>1. PinTypes' /\ Pinning(p)'
  BY <1>0, <1>p DEF PinTypes, pinVars, Pinning, Switching, Position
<1>2. blocks'[PinNode] # {}
  <2>0. blocks[PinNode] # {}
    BY <1>v DEF NewPinsKnown
  <2>1. ASSUME NEW b \in Blocks, RenameBlock(p, b) PROVE blocks'[PinNode] # {}
    BY <1>0, <2>0, <2>1 DEF RenameBlock, Moved
  <2>2. ASSUME NEW b \in Blocks, RewriteBlock(p, b) PROVE blocks'[PinNode] # {}
    BY <1>0, <2>0, <2>2 DEF RewriteBlock, Added
  <2>3. CASE UnlinkBlock(p)
    <3>1. cur[p] \in Blocks /\ "hex" \in blocks[cur[p]] /\ blocks' = [blocks EXCEPT ![cur[p]] = @ \ {"base32"}]
      BY <1>0, <2>3 DEF UnlinkBlock, Copied, Dropped
    <3> QED
      BY <1>0, <2>0, <3>1
  <2>4. ASSUME blocks' = blocks PROVE blocks'[PinNode] # {}
    BY <2>0, <2>4
  <2> QED
    BY <2>1, <2>2, <2>3, <2>4 DEF KeyStep, ListBlocks, ListBlocksFails, CleanEmptyDirs,
       ListRecords, DeleteRecord, EndRewrite, PutRecord, blockVars
<1>3. PinsAt(version)'
  BY <1>0, <1>2, <1>v DEF PinsAt, NewPinsKnown, pinVars
<1> QED
  BY <1>1, <1>3

\* Steps that leave the pins and the blocks alone.
LEMMA PinsFrame ==
  ASSUME UNCHANGED <<pinVars, removed, blocks>>,
         faults \in Nat, faults' \in Nat, faults' >= faults,
         PinsLow /\ ~OldPinsKnown =>
           (\E p \in Procs : Switching(p)') \/ (faults' = 1 /\ temps' = {}) \/ faults' > 1
  PROVE  (PinsLow => PinsLow') /\ (NewPinsKnown => NewPinsKnown')
<1>1. Early(PinNode) => Early(PinNode)'
  BY DEF Early
<1>2. PinsLow => PinsLow'
  BY <1>1, PinsLowFrame
<1>3. NewPinsKnown => NewPinsKnown'
  BY DEF NewPinsKnown, pinVars
<1> QED
  BY <1>2, <1>3

\* Every step of the chain preserves the invariant of the pins.
LEMMA PinsStep ==
  ASSUME IInv, BlockInv, BlockInv', PinInv, [Next]_vars
  PROVE  PinInv'
<1>0. /\ run \in [Procs -> Run] /\ \A p, q \in Procs : Working(p) /\ Working(q) => p = q
      /\ \A p \in Procs : Pinning(p) /\ Position(p)'
      /\ PinTypes /\ faults \in Nat /\ version \in {NoVersion, Blank} \cup 1 .. 4
      /\ version # Blank => PinsAt(version)
      /\ version = Blank => PinsKnown
  BY Basics DEF PinInv, BlockInv
<1>n. ASSUME NEW q \in Procs, ~Working(q)' PROVE Pinning(q)' /\ ~Switching(q)'
  BY <1>n DEF Pinning, Switching, Working
<1>w. ASSUME NEW p \in Procs, Others(p), Working(p)
      PROVE  \A q \in Procs \ {p} : Pinning(q)' /\ ~Switching(q)' /\ ~Switching(q)
  <2>1. \A q \in Procs \ {p} : ~Working(q)' /\ ~Working(q)
    BY <1>0, <1>w DEF Others, Working
  <2> QED
    BY <1>n, <2>1 DEF Switching, Working
<1>t. ASSUME UNCHANGED pinVars PROVE PinTypes'
  BY <1>0, <1>t DEF PinTypes, pinVars
<1>1. ASSUME NEW p \in Procs, Aside(p) PROVE PinInv'
  <2>1. UNCHANGED <<version, faults, temps, pinVars, blocks, removed>> /\ ~Working(p)' /\ ~Switching(p)
    BY <1>1 DEF Aside, dataVars, transferVars, Switching, Working
  <2>2. \A q \in Procs \ {p} : run'[q] = run[q] /\ todo'[q] = todo[q]
    BY <1>1 DEF Aside, Others
  <2>3. \A q \in Procs : Switching(q)' <=> Switching(q)
    BY <1>n, <2>1, <2>2 DEF Switching
  <2>4. (PinsLow => PinsLow') /\ (NewPinsKnown => NewPinsKnown')
    <3>1. PinsLow /\ ~OldPinsKnown =>
            (\E q \in Procs : Switching(q)') \/ (faults' = 1 /\ temps' = {}) \/ faults' > 1
      BY <2>1, <2>3 DEF PinsLow
    <3> QED
      BY <1>0, <2>1, <3>1, PinsFrame
  <2>5. ASSUME NEW q \in Procs \ {p} PROVE Pinning(q)'
    BY <1>0, <2>1, <2>2, <2>3, <2>4 DEF Pinning, PinsAt, OldPinsKnown, pinVars
  <2>6. version' # Blank => PinsAt(version)'
    BY <1>0, <2>1, <2>4 DEF PinsAt
  <2>7. version' = Blank => PinsKnown'
    BY <1>0, <2>1, PinsKnownFrame
  <2> QED
    BY <1>n, <1>t, <2>1, <2>5, <2>6, <2>7 DEF PinInv
<1>2. ASSUME NEW p \in Procs, Begin(p) PROVE PinInv'
  <2>1. UNCHANGED <<version, faults, temps, pinVars, blocks, removed>>
        /\ run[p].prog \in 0 .. 3 /\ run[p].op \in Ops /\ ~Switching(p)
    BY <1>0, <1>2 DEF Begin, dataVars, transferVars, Switching, Run, Progs
  <2>2. version # Blank /\ \A q \in Procs \ {p} : ~Working(q) /\ ~Working(q)'
    BY <1>2, BeginAlone DEF Begin, Others, Working
  <2>3. Pinning(p)' /\ ~Switching(p)'
    BY <1>2, <2>1 DEF Begin, FirstStep, Pinning, Switching, Ops
  <2>4. \A q \in Procs : ~Switching(q)
    BY <2>1, <2>2 DEF Switching, Working
  <2>5. (PinsLow => PinsLow') /\ (NewPinsKnown => NewPinsKnown')
    <3>1. PinsLow /\ ~OldPinsKnown =>
            (\E q \in Procs : Switching(q)') \/ (faults' = 1 /\ temps' = {}) \/ faults' > 1
      BY <2>1, <2>4 DEF PinsLow
    <3> QED
      BY <1>0, <2>1, <3>1, PinsFrame
  <2>6. PinsAt(version)'
    BY <1>0, <2>1, <2>2, <2>5 DEF PinsAt
  <2> QED
    BY <1>n, <1>t, <2>1, <2>2, <2>3, <2>6 DEF PinInv
<1>3. ASSUME NEW p \in Procs, Truncated(p) PROVE PinInv'
  <2>1. /\ UNCHANGED <<faults, temps, pinVars, blocks, removed>> /\ Working(p) /\ version' = Blank
        /\ run[p].pc = "truncate" /\ run'[p].pc = "write" /\ Others(p)
        /\ run'[p].prog = run[p].prog /\ run'[p].op = run[p].op
    BY <1>3 DEF Truncated, dataVars, transferVars, Working
  <2>2. version = From(run[p].prog, run[p].op) /\ version # Blank
    BY <2>1, WorkVersion
  <2>3. Switching(p)' <=> Switching(p)
    BY <2>1 DEF Switching
  <2>4. (PinsLow => PinsLow') /\ (NewPinsKnown => NewPinsKnown')
    <3>1. PinsLow /\ ~OldPinsKnown =>
            (\E q \in Procs : Switching(q)') \/ (faults' = 1 /\ temps' = {}) \/ faults' > 1
      BY <1>w, <2>1, <2>3 DEF PinsLow
    <3> QED
      BY <1>0, <2>1, <3>1, PinsFrame
  <2>5. Pinning(p)'
    BY <1>0, <2>1, <2>2, <2>3, <2>4 DEF Pinning, PinsAt, OldPinsKnown, pinVars
  <2>6. PinsKnown'
    <3>1. PinsAt(version)
      BY <1>0, <2>2
    <3>2. \/ OldPinsKnown \/ newPins = wanted
      BY <3>1 DEF PinsAt, PinsLow, NewPinsKnown
    <3>3. (OldPinsKnown \/ newPins = wanted)'
      BY <2>1, <3>2 DEF OldPinsKnown, pinVars
    <3>4. version' \notin 0 .. 4
      BY <2>1 DEF Blank
    <3> QED
      BY <3>3, <3>4 DEF PinsKnown
  <2> QED
    BY <1>t, <1>w, <2>1, <2>5, <2>6 DEF PinInv
<1>4. ASSUME NEW p \in Procs, Written(p) PROVE PinInv'
  <2> DEFINE n == run[p].prog
             o == run[p].op
  <2>1. /\ UNCHANGED <<faults, temps, pinVars, blocks, removed>> /\ Working(p) /\ version' = To(n, o)
        /\ run[p].pc = "write" /\ Others(p) /\ ~Working(p)' /\ n \in 0 .. 3 /\ o \in Ops
    BY <1>0, <1>4 DEF Written, dataVars, transferVars, Working, Run, Progs
  <2>2. PinsAt(From(n, o))
    BY <1>0, <2>1 DEF Pinning
  <2>3. n # 2 \/ o # "apply" => \A q \in Procs : ~Switching(q)
    BY <1>w, <2>1 DEF Switching
  <2>4. n # 2 => (PinsLow => PinsLow') /\ (NewPinsKnown => NewPinsKnown')
    <3>1. n # 2 /\ PinsLow /\ ~OldPinsKnown =>
            (\E q \in Procs : Switching(q)') \/ (faults' = 1 /\ temps' = {}) \/ faults' > 1
      BY <2>1, <2>3 DEF PinsLow
    <3> QED
      BY <1>0, <2>1, <3>1, PinsFrame
  <2>5. version' # Blank /\ PinsAt(version)'
    <3>1. CASE n \in {0, 1}
      <4>1. From(n, o) <= 2 /\ version' \in 0 .. 2
        BY <2>1, <3>1 DEF From, To
      <4> QED
        BY <2>2, <2>4, <3>1, <4>1 DEF PinsAt, Blank
    <3>2. CASE n = 2 /\ o = "apply"
      <4>1. newPins = wanted /\ "hex" \in blocks[PinNode]
        BY <1>0, <2>1, <3>2 DEF Pinning, Switching
      <4>2. NewPinsKnown' /\ version' = 3
        BY <2>1, <3>2, <4>1 DEF NewPinsKnown, pinVars, To
      <4> QED
        BY <4>2 DEF PinsAt, Blank
    <3>3. CASE n = 2 /\ o = "revert"
      <4>1. OldPinsKnown' /\ version' = 2
        BY <1>0, <2>1, <3>3 DEF Pinning, OldPinsKnown, pinVars, To
      <4> QED
        BY <4>1 DEF PinsAt, PinsLow, Blank
    <3>4. CASE n = 3
      <4>1. From(n, o) \in 3 .. 4 /\ version' \in 3 .. 4
        BY <2>1, <3>4 DEF From, To
      <4> QED
        BY <2>2, <2>4, <3>4, <4>1 DEF PinsAt, Blank
    <3> QED
      BY <2>1, <3>1, <3>2, <3>3, <3>4 DEF Ops
  <2> QED
    BY <1>n, <1>t, <1>w, <2>1, <2>5 DEF PinInv
<1>5. ASSUME NEW p \in Procs, Stopped(p) PROVE PinInv'
  <2>1. /\ UNCHANGED <<version, pinVars, blocks, removed>> /\ Working(p) /\ ~Working(p)' /\ Others(p)
        /\ \/ UNCHANGED <<faults, temps>> /\ run[p].pc \notin {"cleanup", "truncate", "write"}
           \/ faults' = faults + 1 /\ (temps' = temps \/ PutBy(p) # {})
    BY <1>5 DEF Stopped, transferVars
  <2>2. Switching(p) => PutBy(p) = {} /\ run[p].pc \in {"cleanup", "truncate", "write"}
    BY DEF Switching, PutBy
  <2>3. faults = 0 => temps = {}
    BY DEF BlockInv, UntilFault
  <2>4. faults' \in Nat /\ faults' >= faults
    BY <1>0, <2>1
  <2>5. PinsLow /\ ~OldPinsKnown =>
          (\E q \in Procs : Switching(q)') \/ (faults' = 1 /\ temps' = {}) \/ faults' > 1
    <3> SUFFICES ASSUME PinsLow, ~OldPinsKnown
                 PROVE  (faults' = 1 /\ temps' = {}) \/ faults' > 1
      OBVIOUS
    <3>1. Switching(p) \/ (faults = 1 /\ temps = {}) \/ faults > 1
      BY <1>w, <2>1 DEF PinsLow
    <3>2. CASE Switching(p)
      BY <1>0, <2>1, <2>2, <2>3, <3>2
    <3>3. CASE ~Switching(p)
      BY <1>0, <2>1, <3>1, <3>3
    <3> QED
      BY <3>2, <3>3
  <2>6. (PinsLow => PinsLow') /\ (NewPinsKnown => NewPinsKnown')
    BY <1>0, <2>1, <2>4, <2>5, PinsFrame
  <2>7. version' # Blank => PinsAt(version)'
    BY <1>0, <2>1, <2>6 DEF PinsAt
  <2>8. version' = Blank => PinsKnown'
    BY <1>0, <2>1, <2>4, PinsKnownFrame
  <2> QED
    BY <1>n, <1>t, <1>w, <2>1, <2>7, <2>8 DEF PinInv
<1>6. ASSUME NEW p \in Procs, Migrate(p), Continue(p) PROVE PinInv'
  <2>1. Others(p) /\ Working(p) /\ version' = version /\ version # Blank
    BY <1>6, WorkVersion DEF Continue
  <2>2. PinsAt(version)' /\ Pinning(p)' /\ PinTypes'
    <3>1. CASE TransferStep(p) /\ UNCHANGED <<pinVars, keyVars>>
      <4>1. run[p].prog = 1
        BY <3>1, Basics DEF TransferStep, Position, Sanity, Unsanity, QueryBlocks, DeleteBlock,
           EndTransfer, RemoveAll, MoveDir, PutBlock
      <4>2. version <= 2
        BY <1>6, <2>1, <4>1, WorkVersion DEF From, Continue
      <4> QED
        BY <1>6, <2>1, <3>1, <4>2, PinsTransferStep DEF PinsAt
    <3> QED
      BY <1>6, <3>1, PinsPinStep, PinsKeyStep DEF Migrate
  <2> QED
    BY <1>w, <2>1, <2>2 DEF PinInv
<1>7. CASE Daemon
  <2>1. version \in 1 .. 4 /\ \A q \in Procs : ~Working(q)
    BY <1>7, DaemonAlone
  <2>2. UNCHANGED <<version, run, faults, temps, blocks, removed>>
    BY <1>7 DEF Daemon, DaemonPin, DaemonPublish, runVars, blockVars, transferVars
  <2>3. \A q \in Procs : Pinning(q)' /\ ~Switching(q) /\ ~Switching(q)'
    BY <1>n, <2>1, <2>2 DEF Working, Switching
  <2>4. PinTypes' /\ PinsAt(version)'
    <3>1. CASE UNCHANGED pinVars
      <4>1. PinsLow /\ ~OldPinsKnown =>
              (\E q \in Procs : Switching(q)') \/ (faults' = 1 /\ temps' = {}) \/ faults' > 1
        BY <2>2, <2>3 DEF PinsLow
      <4>2. (PinsLow => PinsLow') /\ (NewPinsKnown => NewPinsKnown')
        BY <1>0, <2>2, <3>1, <4>1, PinsFrame
      <4> QED
        BY <1>0, <1>t, <2>1, <2>2, <3>1, <4>2 DEF PinsAt, Blank
    <3>2. CASE DaemonPin /\ version <= 2
      <4>1. oldPins' = wanted' /\ newPins' = newPins /\ wanted' \in PinSet
        BY <2>1, <3>2 DEF DaemonPin
      <4>2. PinTypes' /\ OldPinsKnown'
        BY <1>0, <4>1 DEF PinTypes, PinSet, OldPinsKnown
      <4> QED
        BY <2>2, <3>2, <4>2 DEF PinsAt, PinsLow
    <3>3. CASE DaemonPin /\ ~(version <= 2)
      <4>1. newPins' = wanted' /\ oldPins' = oldPins /\ wanted' \in PinSet /\ blocks[PinNode] # {}
        BY <2>1, <3>3 DEF DaemonPin
      <4>2. PinTypes' /\ NewPinsKnown'
        BY <1>0, <2>2, <4>1 DEF PinTypes, NewPinsKnown
      <4> QED
        BY <2>2, <3>3, <4>2 DEF PinsAt
    <3> QED
      BY <1>7, <3>1, <3>2, <3>3 DEF Daemon
  <2> QED
    BY <2>1, <2>2, <2>3, <2>4 DEF PinInv, Blank
<1>8. CASE UNCHANGED vars
  <2>1. UNCHANGED <<version, run, faults, temps, blocks, todo, removed, pinVars>>
    BY <1>8 DEF vars, runVars, blockVars, transferVars
  <2> QED
    BY <2>1 DEF PinInv, PinTypes, PinsAt, PinsLow, PinsKnown, Pinning, Switching, OldPinsKnown,
       NewPinsKnown, Early, pinVars
<1>9. ASSUME NEW p \in Procs, Migrate(p) PROVE PinInv'
  BY <1>5, <1>6, <1>9, MigrateShape
<1> QED
  BY <1>1, <1>2, <1>3, <1>4, <1>5, <1>7, <1>8, <1>9, NextShape

\* The invariant of the pins holds in every reachable state.
LEMMA PinsHold == Spec => []PinInv
  BY PinsInit, PinsStep, BlocksHold, InvariantHolds, PTL DEF Spec

\* For any pins, blocks, processes and faults: the pins are where the daemon
\* looks for them, or the old list is gone and the new one complete.
THEOREM PinsAreKnown == Spec => []PinsKnown
<1>1. PinInv => PinsKnown
  <2> SUFFICES ASSUME PinInv, version # Blank PROVE PinsKnown
    BY DEF PinInv
  <2>1. PinsAt(version)
    BY DEF PinInv
  <2> QED
    BY <2>1 DEF PinsAt, PinsLow, PinsKnown, Early
<1> QED
  BY <1>1, PinsHold, PTL

-----------------------------------------------------------------------------
(* What is left behind                                                     *)

\* At first nothing is left behind.
LEMMA RestInit == Init => RestInv
<1> SUFFICES ASSUME Init PROVE RestInv
  OBVIOUS
<1>1. version \in 0 .. 4 /\ \A p \in Procs : run[p].pc = "idle"
  BY DEF Init, RunInit, Idle
<1>2. \A b \in Data : blocks[b] = {Place(version)}
  BY DEF Init, BlockInit, Data
<1>3. \A r \in Records : recs[r][Form(version)] = 1
  BY DEF Init, KeyInit, Form, Forms
<1>4. version <= 2 => OldPinsKnown
  BY DEF Init, PinInit, OldPinsKnown
<1>5. Residue(version)
  BY <1>1, <1>2, <1>3, <1>4 DEF Residue, Holds, Gone, Place, Form, None
<1>6. \A p \in Procs : Moving(p)
  BY <1>1 DEF Moving, Working
<1> QED
  BY <1>1, <1>5, <1>6 DEF RestInv, Blank

\* What is pending stays so, unless the run is repeated with success.
LEMMA PendingKept ==
  ASSUME IInv, BlockInv, NEW p \in Procs,
         Aside(p) \/ Begin(p) \/ Truncated(p) \/ Stopped(p) \/ Continue(p),
         NEW n, NEW o, Pending(n, o)
  PROVE  Pending(n, o)'
<1>1. Others(p)
  BY DEF Aside, Begin, Truncated, Stopped, Continue
<1>2. broken \subseteq broken'
  BY DEF Aside, Begin, Truncated, Stopped, Continue
<1>3. Working(p) /\ run[p].prog = n /\ run[p].op = o => Pending(n, o)'
  <2> SUFFICES ASSUME Working(p), run[p].prog = n, run[p].op = o PROVE Pending(n, o)'
    OBVIOUS
  <2>1. CASE Stopped(p)
    BY <2>1 DEF Stopped, Pending
  <2>2. CASE ~Stopped(p)
    <3>1. Working(p)' /\ run'[p].prog = n /\ run'[p].op = o
      BY <2>2 DEF Aside, Begin, Truncated, Continue, Working
    <3> QED
      BY <3>1 DEF Pending
  <2> QED
    BY <2>1, <2>2
<1>4. ASSUME NEW q \in Procs \ {p}, Working(q), run[q].prog = n, run[q].op = o PROVE Pending(n, o)'
  BY <1>1, <1>4 DEF Others, Working, Pending
<1> QED
  BY <1>2, <1>3, <1>4 DEF Pending

\* So a step that moves nothing leaves nothing behind.
LEMMA RestFrame ==
  ASSUME UNCHANGED <<blocks, pinVars, keyVars>>, NEW v, Residue(v),
         \A n \in Progs, o \in Ops : Pending(n, o) => Pending(n, o)'
  PROVE  Residue(v)'
<1>1. /\ \A place \in Places : Holds(place)' <=> Holds(place)
      /\ \A form \in Forms : Gone(form)' <=> Gone(form)
      /\ OldPinsKnown' <=> OldPinsKnown
      /\ swallowed' = swallowed
  BY DEF Holds, Gone, OldPinsKnown, pinVars, keyVars
<1>2. /\ Pending(1, "revert") => Pending(1, "revert")' 
      /\ Pending(1, "apply") => Pending(1, "apply")'
      /\ Pending(2, "apply") => Pending(2, "apply")'
      /\ Pending(3, "revert") => Pending(3, "revert")'
      /\ Pending(3, "apply") => Pending(3, "apply")'
  BY DEF Progs, Ops
<1> QED
  BY <1>1, <1>2 DEF Residue, Places, Forms

\* The steps of 1-to-2 leave behind only what belongs to 1-to-2.
LEMMA RestTransferStep ==
  ASSUME IInv, BlockInv, BlockInv', RestInv, NEW p \in Procs, TransferStep(p),
         UNCHANGED <<pinVars, keyVars>>, Continue(p)
  PROVE  Residue(version)' /\ Moving(p)'
<1>0. /\ run[p] \in Run /\ Position(p) /\ Copied(p) /\ Working(p) /\ Moving(p)
      /\ blocks \in [Blocks -> SUBSET Places] /\ Data \subseteq Blocks
      /\ cur \in [Procs -> Blocks \cup Records \cup {NoKey}] /\ todo \in [Procs -> SUBSET (Blocks \cup Records)]
      /\ run'[p].op = run[p].op /\ run'[p].prog = run[p].prog /\ version' = version /\ run'[p].pc # "write"
  BY Basics DEF Continue, RestInv, Data
<1>p. run[p].prog = 1 /\ run[p].op \in Ops
  BY <1>0 DEF TransferStep, Position, Run, Sanity, Unsanity, QueryBlocks, DeleteBlock,
     EndTransfer, RemoveAll, MoveDir, PutBlock
<1>v. version = From(1, run[p].op) /\ Residue(version)
  BY <1>0, <1>p, WorkVersion DEF Continue, RestInv
<1>m. ASSUME run'[p].op = "apply" /\ run'[p].pc \in {"put", "delete"} =>
               \A b \in Data : "leveldb" \in blocks'[b] => b \in todo'[p],
             run'[p].op = "apply" /\ run'[p].pc \in {"move", "truncate"} => ~Holds("leveldb")',
             run'[p].op = "revert" /\ run'[p].pc = "truncate" => ~Holds("hex")' /\ ~Holds("base32")'
      PROVE  Moving(p)'
  <2>1. Position(p)' /\ run'[p].prog = 1 /\ run'[p].pc # "write"
    BY <1>0, <1>p DEF BlockInv
  <2> QED
    BY <1>m, <2>1 DEF Moving, Position
<1>b. ASSUME \A b \in Data : "base32" \in blocks'[b] => "base32" \in blocks[b]
      PROVE  Residue(version)'
  <2>1. Holds("base32")' => Holds("base32")
    BY <1>b DEF Holds
  <2>2. /\ Pending(3, "apply") => Pending(3, "apply")'
        /\ Pending(2, "apply") => Pending(2, "apply")'
        /\ \A o \in Ops : run[p].op = o => Pending(1, o)'
    <3>1. \A o \in Ops : run[p].op = o => Pending(1, o)
      BY <1>0, <1>p DEF Pending
    <3>2. \A n \in Progs, o \in Ops : Pending(n, o) => Pending(n, o)'
      BY PendingKept
    <3> QED
      BY <3>1, <3>2 DEF Progs, Ops
  <2>3. (Gone("binary")' <=> Gone("binary")) /\ (OldPinsKnown' <=> OldPinsKnown) /\ swallowed' = swallowed
    BY DEF Gone, OldPinsKnown, pinVars, keyVars
  <2>4. CASE run[p].op = "apply"
    BY <1>0, <1>v, <2>1, <2>2, <2>3, <2>4 DEF From, Residue, Ops
  <2>5. CASE run[p].op = "revert"
    BY <1>0, <1>v, <2>1, <2>2, <2>3, <2>5 DEF From, Residue, Ops
  <2> QED
    BY <1>p, <2>4, <2>5 DEF Ops
<1>1. CASE Sanity(p) \/ Unsanity(p)
  <2>1. blocks' = blocks /\ run'[p].pc \in {"unsanity", "query"}
    BY <1>0, <1>1, FailShape, GotoShape DEF Sanity, Unsanity, blockVars, Continue
  <2> QED
    BY <1>b, <1>m, <2>1
<1>2. CASE QueryBlocks(p)
  <2>1. blocks' = blocks /\ run'[p].pc = "put"
    BY <1>2, GotoShape DEF QueryBlocks
  <2>2. run[p].op = "apply" => todo'[p] = In("leveldb")
    BY <1>0, <1>2 DEF QueryBlocks
  <2> QED
    BY <1>0, <1>b, <1>m, <2>1, <2>2 DEF In
<1>3. ASSUME NEW b \in Blocks, PutBlock(p, b) PROVE Residue(version)' /\ Moving(p)'
  <2>1. run[p].pc = "put" /\ run'[p].pc = "delete" /\ todo' = todo /\ blocks' = Added(b, Target(run[p].op))
    BY <1>3, GotoShape DEF PutBlock
  <2>2. \A x \in Data : "base32" \in blocks'[x] => "base32" \in blocks[x]
    BY <1>0, <2>1 DEF Added, Target
  <2>3. run[p].op = "apply" => \A x \in Data : "leveldb" \in blocks'[x] => "leveldb" \in blocks[x]
    BY <1>0, <2>1 DEF Added, Target
  <2>4. run[p].op = "apply" => \A x \in Data : "leveldb" \in blocks[x] => x \in todo[p]
    BY <1>0, <2>1 DEF Moving
  <2> QED
    BY <1>0, <1>b, <1>m, <2>1, <2>2, <2>3, <2>4
<1>4. CASE DeleteBlock(p)
  <2>1. /\ run[p].pc = "delete" /\ run'[p].pc = "put" /\ todo'[p] = todo[p] \ {cur[p]} /\ cur[p] \in Blocks
        /\ blocks' = [blocks EXCEPT ![cur[p]] = @ \ {Source(run[p].op)}]
    BY <1>0, <1>4, GotoShape DEF DeleteBlock, Copied, Dropped
  <2>2. \A x \in Data : "base32" \in blocks'[x] => "base32" \in blocks[x]
    BY <1>0, <2>1
  <2>3. run[p].op = "apply" => \A x \in Data : "leveldb" \in blocks'[x] => "leveldb" \in blocks[x] /\ x # cur[p]
    BY <1>0, <2>1 DEF Source
  <2>4. run[p].op = "apply" => \A x \in Data : "leveldb" \in blocks[x] => x \in todo[p]
    BY <1>0, <2>1 DEF Moving
  <2> QED
    BY <1>0, <1>b, <1>m, <2>1, <2>2, <2>3, <2>4
<1>5. CASE EndTransfer(p)
  <2>1. /\ run[p].pc = "put" /\ todo[p] = {} /\ blocks' = blocks
        /\ run'[p].pc = IF run[p].op = "apply" THEN "move" ELSE "removeAll"
    BY <1>5, GotoShape DEF EndTransfer, blockVars
  <2>2. run[p].op = "apply" => ~Holds("leveldb")'
    BY <1>0, <2>1 DEF Moving, Holds
  <2> QED
    BY <1>0, <1>b, <1>m, <2>1, <2>2
<1>6. CASE RemoveAll(p)
  <2>1. /\ run[p].pc = "removeAll" /\ run'[p].pc = "truncate"
        /\ blocks' = [b \in Blocks |-> blocks[b] \ {"hex", "base32"}]
    BY <1>6, GotoShape DEF RemoveAll
  <2>2. run[p].op = "revert"
    BY <1>0, <2>1 DEF Position
  <2>3. \A x \in Data : "base32" \notin blocks'[x] /\ "hex" \notin blocks'[x]
    BY <1>0, <2>1
  <2> QED
    BY <1>0, <1>b, <1>m, <2>1, <2>2, <2>3 DEF Holds
<1>7. CASE MoveDir(p)
  <2>1. /\ run[p].pc = "move" /\ blocks' = blocks
        /\ run'[p].pc = IF run[p].op = "apply" THEN "truncate" ELSE "query"
    BY <1>0, <1>7, FailShape, GotoShape DEF MoveDir, blockVars, Continue
  <2>2. run[p].op = "apply" => ~Holds("leveldb")'
    BY <1>0, <1>p, <2>1 DEF Moving, Holds
  <2> QED
    BY <1>0, <1>b, <1>m, <2>1, <2>2
<1> QED
  BY <1>1, <1>2, <1>3, <1>4, <1>5, <1>6, <1>7 DEF TransferStep

\* The steps of 2-to-3 leave behind only what belongs to 2-to-3.
LEMMA RestPinStep ==
  ASSUME IInv, BlockInv, BlockInv', RestInv, NEW p \in Procs, PinStep(p),
         UNCHANGED <<transferVars, keyVars>>, Continue(p)
  PROVE  Residue(version)' /\ Moving(p)'
<1>0. /\ run[p] \in Run /\ Position(p) /\ Working(p)
      /\ blocks \in [Blocks -> SUBSET Places] /\ Data \subseteq Blocks
      /\ run'[p].op = run[p].op /\ run'[p].prog = run[p].prog /\ version' = version /\ run'[p].pc # "write"
  BY Basics DEF Continue, Data
<1>p. run[p].prog = 2 /\ run[p].op \in Ops
  BY <1>0 DEF PinStep, Position, Run, Flush, CleanupOldPins, WriteRecursive, WriteDirect, WriteIndirect
<1>v. version = From(2, run[p].op) /\ Residue(version)
  BY <1>0, <1>p, WorkVersion DEF Continue, RestInv
<1>1. Moving(p)'
  <2>1. Position(p)' /\ run'[p].prog = 2 /\ run'[p].pc # "write"
    BY <1>0, <1>p DEF BlockInv
  <2> QED
    BY <2>1 DEF Moving, Position
<1>2. \A b \in Data : blocks'[b] = blocks[b]
  <2>1. blocks' = blocks \/ blocks' = Added(PinNode, "hex")
    BY DEF PinStep, Flush, CleanupOldPins, WriteRecursive, WriteDirect, WriteIndirect, blockVars
  <2> QED
    BY <1>0, <2>1 DEF Added, Data
<1>3. \A place \in Places : Holds(place)' <=> Holds(place)
  BY <1>2 DEF Holds
<1>4. (Gone("binary")' <=> Gone("binary")) /\ swallowed' = swallowed
  BY DEF Gone, keyVars
<1>5. /\ Pending(3, "apply") => Pending(3, "apply")'
      /\ Pending(1, "revert") => Pending(1, "revert")'
      /\ \A o \in Ops : run[p].op = o => Pending(2, o)'
  <2>1. \A o \in Ops : run[p].op = o => Pending(2, o)
    BY <1>0, <1>p DEF Pending
  <2>2. \A n \in Progs, o \in Ops : Pending(n, o) => Pending(n, o)'
    BY PendingKept
  <2> QED
    BY <2>1, <2>2 DEF Progs, Ops
<1>6. CASE run[p].op = "apply"
  BY <1>0, <1>v, <1>1, <1>3, <1>4, <1>5, <1>6 DEF From, Residue, Places, Ops
<1>7. CASE run[p].op = "revert"
  BY <1>0, <1>v, <1>1, <1>3, <1>4, <1>5, <1>7 DEF From, Residue, Places, Ops
<1> QED
  BY <1>p, <1>6, <1>7 DEF Ops

\* The steps of 3-to-4 leave behind only what belongs to 3-to-4.
LEMMA RestKeyStep ==
  ASSUME IInv, BlockInv, BlockInv', RestInv, NEW p \in Procs, KeyStep(p),
         UNCHANGED <<transferVars, pinVars>>, Continue(p)
  PROVE  Residue(version)' /\ Moving(p)'
<1>0. /\ run[p] \in Run /\ Position(p) /\ Copied(p) /\ Working(p) /\ Moving(p)
      /\ blocks \in [Blocks -> SUBSET Places] /\ Data \subseteq Blocks
      /\ cur \in [Procs -> Blocks \cup Records \cup {NoKey}] /\ todo \in [Procs -> SUBSET (Blocks \cup Records)]
      /\ run'[p].op = run[p].op /\ run'[p].prog = run[p].prog /\ version' = version /\ run'[p].pc # "write"
  BY Basics DEF Continue, RestInv, Data
<1>p. run[p].prog = 3 /\ run[p].op \in Ops
  BY <1>0 DEF KeyStep, Position, Run, ListBlocks, ListBlocksFails, UnlinkBlock, CleanEmptyDirs,
     ListRecords, DeleteRecord, EndRewrite, RenameBlock, RewriteBlock, PutRecord
<1>v. version = From(3, run[p].op) /\ Residue(version)
  BY <1>0, <1>p, WorkVersion DEF Continue, RestInv
<1>m. ASSUME run'[p].pc = "rename" /\ swallowed' = "no" => \A b \in Data : "hex" \in blocks'[b] => b \in todo'[p],
             run'[p].pc = "rewriteBlocks" /\ swallowed' = "no" =>
               \A b \in Data : "base32" \in blocks'[b] => b \in todo'[p],
             run'[p].pc \notin {"listBlocks", "rename", "rewriteBlocks"} /\ swallowed' = "no" =>
               (~Holds(IF run[p].op = "apply" THEN "hex" ELSE "base32"))'
      PROVE  Moving(p)'
  <2>1. Position(p)' /\ run'[p].prog = 3 /\ run'[p].pc # "write"
    BY <1>0, <1>p DEF BlockInv
  <2> QED
    BY <1>m, <2>1 DEF Moving, Position
<1>b. ASSUME \A b \in Data : "leveldb" \in blocks'[b] => "leveldb" \in blocks[b]
      PROVE  Residue(version)'
  <2>1. Holds("leveldb")' => Holds("leveldb")
    BY <1>b DEF Holds
  <2>2. /\ Pending(1, "revert") => Pending(1, "revert")'
        /\ \A o \in Ops : run[p].op = o => Pending(3, o)'
    <3>1. \A o \in Ops : run[p].op = o => Pending(3, o)
      BY <1>0, <1>p DEF Pending
    <3>2. \A n \in Progs, o \in Ops : Pending(n, o) => Pending(n, o)'
      BY PendingKept
    <3> QED
      BY <3>1, <3>2 DEF Progs, Ops
  <2>3. CASE run[p].op = "apply"
    BY <1>0, <1>v, <2>1, <2>2, <2>3 DEF From, Residue, Ops
  <2>4. CASE run[p].op = "revert"
    BY <1>0, <1>v, <2>1, <2>2, <2>4 DEF From, Residue, Ops
  <2> QED
    BY <1>p, <2>3, <2>4 DEF Ops
<1>1. CASE ListBlocks(p)
  <2>1. /\ blocks' = blocks /\ run'[p].pc = IF run[p].op = "apply" THEN "rename" ELSE "rewriteBlocks"
        /\ todo'[p] = In(IF run[p].op = "apply" THEN "hex" ELSE "base32")
    BY <1>0, <1>1, GotoShape DEF ListBlocks
  <2> QED
    BY <1>0, <1>b, <1>m, <2>1 DEF In
<1>2. CASE ListBlocksFails(p)
  <2>1. blocks' = blocks /\ swallowed' = "yes"
    BY <1>2 DEF ListBlocksFails
  <2> QED
    BY <1>b, <1>m, <2>1
<1>3. ASSUME NEW b \in Blocks, RenameBlock(p, b) PROVE Residue(version)' /\ Moving(p)'
  <2>1. /\ run[p].pc = "rename" /\ run' = run /\ todo'[p] = todo[p] \ {b} /\ swallowed' = swallowed
        /\ blocks' = [blocks EXCEPT ![b] = (@ \ {"hex"}) \cup {"base32"}]
    BY <1>0, <1>3 DEF RenameBlock, Moved, runVars, keyVars
  <2>2. \A x \in Data : "leveldb" \in blocks'[x] => "leveldb" \in blocks[x]
    BY <1>0, <2>1
  <2>3. \A x \in Data : "hex" \in blocks'[x] => "hex" \in blocks[x] /\ x # b
    BY <1>0, <2>1
  <2>4. swallowed = "no" => \A x \in Data : "hex" \in blocks[x] => x \in todo[p]
    BY <1>0, <2>1 DEF Moving
  <2> QED
    BY <1>b, <1>m, <2>1, <2>2, <2>3, <2>4
<1>4. ASSUME NEW b \in Blocks, RewriteBlock(p, b) PROVE Residue(version)' /\ Moving(p)'
  <2>1. /\ run[p].pc = "rewriteBlocks" /\ run' = run /\ todo' = todo /\ swallowed' = swallowed
        /\ blocks' = [blocks EXCEPT ![b] = @ \cup {"hex"}]
    BY <1>0, <1>4 DEF RewriteBlock, Added, runVars, keyVars
  <2>2. \A x \in Data : "leveldb" \in blocks'[x] => "leveldb" \in blocks[x]
    BY <1>0, <2>1
  <2>3. \A x \in Data : "base32" \in blocks'[x] => "base32" \in blocks[x]
    BY <1>0, <2>1
  <2>4. swallowed = "no" => \A x \in Data : "base32" \in blocks[x] => x \in todo[p]
    BY <1>0, <2>1 DEF Moving
  <2> QED
    BY <1>b, <1>m, <2>1, <2>2, <2>3, <2>4
<1>5. CASE UnlinkBlock(p)
  <2>1. /\ run[p].pc = "rewriteBlocks" /\ run' = run /\ todo'[p] = todo[p] \ {cur[p]} /\ cur[p] \in Blocks
        /\ blocks' = [blocks EXCEPT ![cur[p]] = @ \ {"base32"}] /\ swallowed' = swallowed
    BY <1>0, <1>5 DEF UnlinkBlock, Copied, Dropped, runVars, keyVars
  <2>2. \A x \in Data : "leveldb" \in blocks'[x] => "leveldb" \in blocks[x]
    BY <1>0, <2>1
  <2>3. \A x \in Data : "base32" \in blocks'[x] => "base32" \in blocks[x] /\ x # cur[p]
    BY <1>0, <2>1
  <2>4. swallowed = "no" => \A x \in Data : "base32" \in blocks[x] => x \in todo[p]
    BY <1>0, <2>1 DEF Moving
  <2> QED
    BY <1>b, <1>m, <2>1, <2>2, <2>3, <2>4
<1>6. CASE CleanEmptyDirs(p) \/ EndRewrite(p)
  <2>1. /\ blocks' = blocks /\ swallowed' = swallowed
        /\ run[p].pc \in {"rename", "rewriteBlocks"} => todo[p] = {}
        /\ run'[p].pc \in {"listPks", "clean", "listIpns", "truncate"}
        /\ run[p].pc \in {"clean", "rename", "rewriteBlocks", "rewritePks", "rewriteIpns"}
    BY <1>6, GotoShape DEF CleanEmptyDirs, EndRewrite, NextKind, blockVars, keyVars
  <2>2. swallowed = "no" => ~Holds(IF run[p].op = "apply" THEN "hex" ELSE "base32")
    <3>1. CASE run[p].pc = "rename"
      BY <1>0, <2>1, <3>1 DEF Moving, Holds, Position
    <3>2. CASE run[p].pc = "rewriteBlocks"
      BY <1>0, <2>1, <3>2 DEF Moving, Holds, Position
    <3>3. CASE run[p].pc \notin {"rename", "rewriteBlocks"}
      BY <1>0, <1>p, <2>1, <3>3 DEF Moving
    <3> QED
      BY <3>1, <3>2, <3>3
  <2>3. swallowed' = "no" => (~Holds(IF run[p].op = "apply" THEN "hex" ELSE "base32"))'
    BY <1>0, <2>1, <2>2 DEF Holds
  <2> QED
    BY <1>b, <1>m, <2>1, <2>3
<1>7. CASE ListRecords(p) \/ DeleteRecord(p) \/ \E r \in Records : PutRecord(p, r)
  <2>1. /\ blocks' = blocks /\ swallowed' = swallowed
        /\ run[p].pc \in {"listPks", "listIpns", "rewritePks", "rewriteIpns"}
        /\ run'[p].pc \in {"rewritePks", "rewriteIpns"}
    BY <1>7, GotoShape DEF ListRecords, DeleteRecord, PutRecord, runVars, keyVars
  <2>2. swallowed = "no" => ~Holds(IF run[p].op = "apply" THEN "hex" ELSE "base32")
    BY <1>0, <1>p, <2>1 DEF Moving
  <2>3. swallowed' = "no" => (~Holds(IF run[p].op = "apply" THEN "hex" ELSE "base32"))'
    BY <1>0, <2>1, <2>2 DEF Holds
  <2> QED
    BY <1>b, <1>m, <2>1, <2>3
<1> QED
  BY <1>1, <1>2, <1>3, <1>4, <1>5, <1>6, <1>7 DEF KeyStep

\* A program that succeeds has left nothing behind of its own.
LEMMA RestWritten ==
  ASSUME IInv, BlockInv, RecordInv, PinInv, RestInv, NEW p \in Procs, Written(p)
  PROVE  Residue(version)'
<1> DEFINE n == run[p].prog
           o == run[p].op
<1>0. /\ n \in 0 .. 3 /\ o \in Ops /\ run[p].pc = "write" /\ Working(p) /\ version' = To(n, o)
      /\ UNCHANGED <<blocks, pinVars, keyVars>> /\ Others(p) /\ broken' = broken \ {<<n, o>>}
      /\ Moving(p) /\ Rewriting(p) /\ Pinning(p) /\ RecordTypes
  BY Basics DEF Written, RestInv, RecordInv, PinInv, Run, Progs, Working, dataVars
<1>1. Residue(From(n, o))
  BY <1>0 DEF Moving
<1>2. ASSUME NEW m \in Progs, NEW q \in Ops, m # n \/ q # o, Pending(m, q) PROVE Pending(m, q)'
  <2>1. CASE <<m, q>> \in broken
    <3>1. <<m, q>> # <<n, o>>
      BY <1>2
    <3> QED
      BY <1>0, <2>1, <3>1 DEF Pending
  <2>2. ASSUME NEW w \in Procs, Working(w), run[w].prog = m, run[w].op = q PROVE Pending(m, q)'
    <3>1. w # p
      BY <1>2, <2>2
    <3> QED
      BY <1>0, <2>2, <3>1 DEF Others, Working, Pending
  <2> QED
    BY <1>2, <2>1, <2>2 DEF Pending
<1>3. /\ \A place \in Places : Holds(place)' <=> Holds(place)
      /\ \A form \in Forms : Gone(form)' <=> Gone(form)
      /\ OldPinsKnown' <=> OldPinsKnown
      /\ swallowed' = swallowed
  BY <1>0 DEF Holds, Gone, OldPinsKnown, pinVars, keyVars
<1>4. CASE n = 0
  <2>1. /\ Pending(1, "apply") => Pending(1, "apply")'
        /\ Pending(2, "apply") => Pending(2, "apply")'
        /\ Pending(3, "apply") => Pending(3, "apply")'
    BY <1>2, <1>4 DEF Progs, Ops
  <2>2. From(n, o) \in {0, 1} /\ To(n, o) \in {0, 1}
    BY <1>0, <1>4 DEF From, To
  <2> QED
    BY <1>0, <1>1, <1>3, <2>1, <2>2 DEF Residue, Places, Forms
<1>5. CASE n = 1
  <2>1. /\ Pending(2, "apply") => Pending(2, "apply")'
        /\ Pending(3, "apply") => Pending(3, "apply")'
    BY <1>2, <1>5 DEF Progs, Ops
  <2>2. CASE o = "apply"
    <3>1. ~Holds("leveldb") /\ From(n, o) = 1 /\ To(n, o) = 2
      BY <1>0, <1>5, <2>2 DEF Moving, From, To
    <3> QED
      BY <1>0, <1>1, <1>3, <2>1, <3>1 DEF Residue, Places, Forms
  <2>3. CASE o = "revert"
    <3>1. ~Holds("hex") /\ ~Holds("base32") /\ From(n, o) = 2 /\ To(n, o) = 1
      BY <1>0, <1>5, <2>3 DEF Moving, From, To
    <3> QED
      BY <1>0, <1>1, <1>3, <2>1, <3>1 DEF Residue, Places, Forms
  <2> QED
    BY <1>0, <2>2, <2>3 DEF Ops
<1>6. CASE n = 2
  <2>1. /\ Pending(1, "revert") => Pending(1, "revert")'
        /\ Pending(3, "apply") => Pending(3, "apply")'
    BY <1>2, <1>6 DEF Progs, Ops
  <2>2. CASE o = "apply"
    <3>1. From(n, o) = 2 /\ To(n, o) = 3
      BY <1>6, <2>2 DEF From, To
    <3> QED
      BY <1>0, <1>1, <1>3, <2>1, <3>1 DEF Residue, Places, Forms
  <2>3. CASE o = "revert"
    <3>1. OldPinsKnown /\ From(n, o) = 3 /\ To(n, o) = 2
      BY <1>0, <1>6, <2>3 DEF Pinning, From, To
    <3> QED
      BY <1>0, <1>1, <1>3, <2>1, <3>1 DEF Residue, Places, Forms
  <2> QED
    BY <1>0, <2>2, <2>3 DEF Ops
<1>7. CASE n = 3
  <2>1. Pending(1, "revert") => Pending(1, "revert")'
    BY <1>2, <1>7 DEF Progs, Ops
  <2>2. /\ \A r \in Records : Sound(r, o) /\ recs[r][OldForm(o)] = None
        /\ swallowed = "no" => ~Holds(IF o = "apply" THEN "hex" ELSE "base32")
    <3>1. Leaving(From(n, o)) = o
      BY <1>0, <1>7 DEF Leaving, From, Ops
    <3> QED
      BY <1>0, <1>7, <3>1 DEF Moving, Rewriting, Left
  <2>3. ~Gone(NewForm(o))
    BY <1>0, <2>2 DEF Gone, Sound, RecordTypes, None
  <2>4. CASE o = "apply"
    <3>1. NewForm(o) = "base32" /\ From(n, o) = 3 /\ To(n, o) = 4
      BY <1>7, <2>4 DEF From, To, NewForm
    <3> QED
      BY <1>0, <1>1, <1>3, <2>1, <2>2, <2>3, <2>4, <3>1 DEF Residue, Places, Forms
  <2>5. CASE o = "revert"
    <3>1. NewForm(o) = "binary" /\ From(n, o) = 4 /\ To(n, o) = 3
      BY <1>7, <2>5 DEF From, To, NewForm
    <3> QED
      BY <1>0, <1>1, <1>3, <2>1, <2>2, <2>3, <2>5, <3>1 DEF Residue, Places, Forms
  <2> QED
    BY <1>0, <2>4, <2>5 DEF Ops
<1> QED
  BY <1>0, <1>4, <1>5, <1>6, <1>7

\* Every step of the chain preserves the invariant of what is left behind.
LEMMA RestStep ==
  ASSUME IInv, BlockInv, BlockInv', RecordInv, PinInv, RestInv, [Next]_vars
  PROVE  RestInv'
<1>0. /\ run \in [Procs -> Run] /\ \A p, q \in Procs : Working(p) /\ Working(q) => p = q
      /\ \A p \in Procs : Moving(p) /\ Position(p)'
      /\ version # Blank => Residue(version)
      /\ version = Blank => \E n \in Progs, o \in Ops : Pending(n, o)
  BY Basics DEF RestInv, BlockInv
<1>n. ASSUME NEW q \in Procs, ~Working(q)' PROVE Moving(q)'
  BY <1>n DEF Moving, Working
<1>w. ASSUME NEW p \in Procs, Others(p), Working(p) PROVE \A q \in Procs \ {p} : Moving(q)'
  <2>1. \A q \in Procs \ {p} : ~Working(q)'
    BY <1>0, <1>w DEF Others, Working
  <2> QED
    BY <1>n, <2>1
<1>p. ASSUME NEW p \in Procs, Aside(p) \/ Begin(p) \/ Truncated(p) \/ Stopped(p) \/ Continue(p)
      PROVE  \A n \in Progs, o \in Ops : Pending(n, o) => Pending(n, o)'
  BY <1>p, PendingKept
<1>m. ASSUME UNCHANGED <<blocks, keyVars>>, NEW q \in Procs, run'[q] = run[q], todo'[q] = todo[q],
             \A v : Residue(v) => Residue(v)'
      PROVE  Moving(q)'
  <2>1. \A place : Holds(place)' <=> Holds(place)
    BY <1>m DEF Holds
  <2>2. swallowed' = swallowed /\ (Working(q)' <=> Working(q))
    BY <1>m DEF keyVars, Working
  <2> QED
    BY <1>0, <1>m, <2>1, <2>2 DEF Moving
<1>1. ASSUME NEW p \in Procs, Aside(p) PROVE RestInv'
  <2>1. UNCHANGED <<version, blocks, pinVars, keyVars>> /\ ~Working(p)' /\ Others(p)
    BY <1>1 DEF Aside, dataVars
  <2>2. \A v : Residue(v) => Residue(v)'
    BY <1>1, <1>p, <2>1, RestFrame
  <2>3. \A q \in Procs \ {p} : Moving(q)'
    BY <1>m, <2>1, <2>2 DEF Others
  <2>4. version' = Blank => \E n \in Progs, o \in Ops : Pending(n, o)'
    BY <1>0, <1>1, <1>p, <2>1
  <2>5. version' # Blank => Residue(version)'
    BY <1>0, <2>1, <2>2
  <2> QED
    BY <1>n, <2>1, <2>3, <2>4, <2>5 DEF RestInv
<1>2. ASSUME NEW p \in Procs, Begin(p) PROVE RestInv'
  <2>1. UNCHANGED <<version, blocks, pinVars, keyVars>> /\ Others(p) /\ run[p].prog \in 0 .. 3
    BY <1>0, <1>2 DEF Begin, dataVars, Run, Progs
  <2>2. version # Blank /\ \A q \in Procs \ {p} : ~Working(q)
    BY <1>2, BeginAlone
  <2>3. Residue(version)'
    BY <1>0, <1>2, <1>p, <2>1, <2>2, RestFrame
  <2>4. Moving(p)'
    BY <1>2, <2>1 DEF Begin, FirstStep, Moving
  <2>5. \A q \in Procs \ {p} : Moving(q)'
    BY <1>n, <2>1, <2>2 DEF Others, Working
  <2> QED
    BY <2>1, <2>2, <2>3, <2>4, <2>5 DEF RestInv
<1>3. ASSUME NEW p \in Procs, Truncated(p) PROVE RestInv'
  <2>1. /\ UNCHANGED <<blocks, pinVars, keyVars>> /\ Others(p) /\ Working(p) /\ version' = Blank
        /\ run[p].pc = "truncate" /\ run'[p].pc = "write"
        /\ run'[p].prog = run[p].prog /\ run'[p].op = run[p].op
    BY <1>3 DEF Truncated, dataVars, Working
  <2>2. version = From(run[p].prog, run[p].op) /\ version # Blank /\ run[p].prog \in Progs /\ run[p].op \in Ops
    BY <2>1, WorkVersion DEF Progs
  <2>3. \A v : Residue(v) => Residue(v)'
    BY <1>3, <1>p, <2>1, RestFrame
  <2>4. \A place : Holds(place)' <=> Holds(place)
    BY <2>1 DEF Holds
  <2>5. Residue(From(run[p].prog, run[p].op))'
    <3>1. Residue(version)
      BY <1>0, <2>2
    <3> QED
      BY <2>1, <2>2, <2>3, <3>1 DEF Residue
  <2>6. Moving(p)'
    BY <1>0, <2>1, <2>4, <2>5 DEF Moving, Working, keyVars
  <2>7. \E n \in Progs, o \in Ops : Pending(n, o)'
    <3>1. Working(p)'
      BY <2>1 DEF Working
    <3> QED
      BY <2>1, <2>2, <3>1 DEF Pending
  <2> QED
    BY <1>w, <2>1, <2>6, <2>7 DEF RestInv
<1>4. ASSUME NEW p \in Procs, Written(p) PROVE RestInv'
  <2>1. Others(p) /\ Working(p) /\ ~Working(p)' /\ version' \in 0 .. 4
    BY <1>0, <1>4 DEF Written, Working, Run, Progs, Ops, To
  <2>2. Residue(version)'
    BY <1>4, RestWritten
  <2> QED
    BY <1>n, <1>w, <2>1, <2>2 DEF RestInv, Blank
<1>5. ASSUME NEW p \in Procs, Stopped(p) PROVE RestInv'
  <2>1. UNCHANGED <<version, blocks, pinVars, keyVars>> /\ Working(p) /\ ~Working(p)' /\ Others(p)
    BY <1>5 DEF Stopped
  <2>2. version' # Blank => Residue(version)'
    BY <1>0, <1>5, <1>p, <2>1, RestFrame
  <2>3. version' = Blank => \E n \in Progs, o \in Ops : Pending(n, o)'
    BY <1>0, <1>5, <1>p, <2>1
  <2> QED
    BY <1>n, <1>w, <2>1, <2>2, <2>3 DEF RestInv
<1>6. ASSUME NEW p \in Procs, Migrate(p), Continue(p) PROVE RestInv'
  <2>1. Others(p) /\ Working(p) /\ version' = version /\ version # Blank
    BY <1>6, WorkVersion DEF Continue
  <2>2. Residue(version)' /\ Moving(p)'
    BY <1>6, RestTransferStep, RestPinStep, RestKeyStep DEF Migrate
  <2> QED
    BY <1>w, <2>1, <2>2 DEF RestInv
<1>7. CASE Daemon
  <2>1. version \in 1 .. 4 /\ \A q \in Procs : ~Working(q)
    BY <1>7, DaemonAlone
  <2>2. UNCHANGED <<version, run, broken, blocks, swallowed>>
    BY <1>7 DEF Daemon, DaemonPin, DaemonPublish, runVars, blockVars, keyVars
  <2>3. \A q \in Procs : Moving(q)'
    BY <1>n, <2>1, <2>2 DEF Working
  <2>4. /\ \A n \in Progs, o \in Ops : Pending(n, o)' <=> Pending(n, o)
        /\ \A place \in Places : Holds(place)' <=> Holds(place)
    BY <2>2 DEF Pending, Holds, Working
  <2>5. version <= 2 /\ ~OldPinsKnown' => ~OldPinsKnown
    BY <1>7, <2>1 DEF Daemon, DaemonPin, OldPinsKnown, pinVars
  <2>6. Gone(Form(version))' => Gone(Form(version))
    <3>1. CASE recs' = recs
      BY <2>2, <3>1 DEF Gone, Form
    <3>2. ASSUME NEW r \in Published, DaemonPublish(r) PROVE Gone(Form(version))' => Gone(Form(version))
      <4>1. /\ r \in Records /\ Form(version) \in Forms /\ latest[r] + 1 # None
            /\ recs \in [Records -> [Forms -> Nat]]
        BY RecordAssumption DEF Records, Form, Forms, None, RecordInv, RecordTypes
      <4>2. recs' = [recs EXCEPT ![r][Form(version)] = latest[r] + 1]
        BY <3>2 DEF DaemonPublish
      <4>3. recs'[r][Form(version)] # None /\ \A x \in Records \ {r} : recs'[x] = recs[x]
        BY <4>1, <4>2
      <4> QED
        BY <2>2, <4>3 DEF Gone
    <3> QED
      BY <1>7, <3>1, <3>2 DEF Daemon, keyVars
  <2>7. Residue(version)'
    <3>1. Residue(version)
      BY <1>0, <2>1 DEF Blank
    <3>2. /\ Pending(1, "revert")' <=> Pending(1, "revert")
          /\ Pending(1, "apply")' <=> Pending(1, "apply")
          /\ Pending(2, "apply")' <=> Pending(2, "apply")
          /\ Pending(3, "revert")' <=> Pending(3, "revert")
          /\ Pending(3, "apply")' <=> Pending(3, "apply")
      BY <2>4 DEF Progs, Ops
    <3>3. /\ version <= 3 /\ Gone("binary")' => Gone("binary")
          /\ version = 4 /\ Gone("base32")' => Gone("base32")
      BY <2>2, <2>6 DEF Form
    <3>4. /\ Holds("leveldb")' <=> Holds("leveldb")
          /\ Holds("hex")' <=> Holds("hex")
          /\ Holds("base32")' <=> Holds("base32")
      BY <2>4 DEF Places
    <3> QED
      BY <2>1, <2>2, <2>5, <3>1, <3>2, <3>3, <3>4 DEF Residue
  <2> QED
    BY <2>1, <2>2, <2>3, <2>7 DEF RestInv, Blank
<1>8. CASE UNCHANGED vars
  <2>1. UNCHANGED <<version, run, broken, blocks, todo, oldPins, wanted, recs, swallowed>>
    BY <1>8 DEF vars, runVars, blockVars, pinVars, keyVars
  <2> QED
    BY <2>1 DEF RestInv, Residue, Moving, Pending, Holds, Gone, OldPinsKnown, Working
<1>9. ASSUME NEW p \in Procs, Migrate(p) PROVE RestInv'
  BY <1>5, <1>6, <1>9, MigrateShape
<1> QED
  BY <1>1, <1>2, <1>3, <1>4, <1>5, <1>7, <1>8, <1>9, NextShape

\* The invariant of what is left behind holds in every reachable state.
LEMMA RestHolds == Spec => []RestInv
  BY RestInit, RestStep, RecordsHold, PinsHold, BlocksHold, InvariantHolds, PTL DEF Spec

\* For any blocks, pins, records, processes and faults: once every run that
\* ended early has been repeated with success, and if no error was dropped,
\* everything is where the daemon of the repository's version looks for it.
THEOREM RerunCompletes == Spec => []CompleteAfterRerun
<1>1. ASSUME IInv, BlockInv, RecordInv, PinInv, RestInv PROVE CompleteAfterRerun
  <2> SUFFICES ASSUME broken = {}, swallowed = "no", \A p \in Procs : ~Working(p)
               PROVE  /\ \A b \in Data : blocks[b] \subseteq {Place(version)}
                      /\ version \in 0 .. 2 => OldPinsKnown
                      /\ version \in 3 .. 4 => NewPinsKnown
                      /\ \A r \in Records \ Mangled : recs[r][Form(version)] = latest[r]
    BY <1>1 DEF CompleteAfterRerun
  <2>1. \A n \in Progs, o \in Ops : ~Pending(n, o)
    BY DEF Pending
  <2>2. version \in 0 .. 4 /\ Residue(version) /\ PinsAt(version) /\ \A r \in Records : Sound(r, Leaving(version))
    BY <1>1, <2>1, Basics DEF RestInv, PinInv, RecordInv, NoVersion, Blank
  <2>3. /\ ~Pending(1, "revert") /\ ~Pending(1, "apply") /\ ~Pending(2, "apply")
        /\ ~Pending(3, "revert") /\ ~Pending(3, "apply")
    BY <2>1 DEF Progs, Ops
  <2>4. \A b \in Data : blocks[b] \subseteq {Place(version)}
    <3>1. \A b \in Data : blocks[b] \subseteq Places
      BY <1>1, Basics DEF Data
    <3>2. CASE version \in {0, 1}
      <4>1. Place(version) = "leveldb" /\ ~Holds("hex") /\ ~Holds("base32")
        BY <2>2, <2>3, <3>2 DEF Residue, Place
      <4> QED
        BY <3>1, <4>1 DEF Holds, Places
    <3>3. CASE version \in {2, 3}
      <4>1. Place(version) = "hex" /\ ~Holds("leveldb") /\ ~Holds("base32")
        BY <2>2, <2>3, <3>3 DEF Residue, Place
      <4> QED
        BY <3>1, <4>1 DEF Holds, Places
    <3>4. CASE version = 4
      <4>1. Place(version) = "base32" /\ ~Holds("leveldb") /\ ~Holds("hex")
        BY <2>2, <2>3, <3>4 DEF Residue, Place
      <4> QED
        BY <3>1, <4>1 DEF Holds, Places
    <3> QED
      BY <2>2, <3>2, <3>3, <3>4
  <2>5. (version \in 0 .. 2 => OldPinsKnown) /\ (version \in 3 .. 4 => NewPinsKnown)
    BY <2>2, <2>3 DEF Residue, PinsAt
  <2>6. \A r \in Records \ Mangled : recs[r][Form(version)] = latest[r]
    <3>1. ~Gone(Form(version)) /\ OldForm(Leaving(version)) = Form(version)
      BY <2>2, <2>3 DEF Residue, Form, Leaving, OldForm
    <3> QED
      BY <2>2, <3>1 DEF Gone, Sound
  <2> QED
    BY <2>4, <2>5, <2>6
<1> QED
  BY <1>1, RestHolds, RecordsHold, PinsHold, BlocksHold, InvariantHolds, PTL

-----------------------------------------------------------------------------
(* Types                                                                   *)

\* What BlockInv, RecordInv and PinInv do not bound.
Bounds ==
  /\ faults \in 0 .. MaxFaults
  /\ broken \subseteq Progs \X Ops
  /\ \A r \in Records : latest[r] <= MaxValue /\ \A f \in Forms : recs[r][f] <= MaxValue

LEMMA FaultsCounted ==
  ASSUME [Next]_vars
  PROVE  faults' = faults \/ (faults < MaxFaults /\ faults' = faults + 1)
<1>1. ASSUME NEW p \in Procs, TransferStep(p) \/ PinStep(p) \/ RunStep(p) \/ RunMigration(p)
      PROVE  faults' = faults
  <2>1. CASE TransferStep(p)
    BY <2>1 DEF TransferStep, Sanity, Unsanity, QueryBlocks, PutBlock, DeleteBlock, EndTransfer,
       RemoveAll, MoveDir, runVars
  <2>2. CASE PinStep(p)
    BY <2>2 DEF PinStep, Flush, CleanupOldPins, WriteRecursive, WriteDirect, WriteIndirect, runVars
  <2>3. CASE RunStep(p) \/ RunMigration(p)
    BY <2>3 DEF RunStep, Lock, CheckVersion, TruncateVersion, WriteVersion, RunMigration
  <2> QED
    BY <1>1, <2>1, <2>2, <2>3
<1>2. ASSUME NEW p \in Procs, KeyStep(p)
      PROVE  faults' = faults \/ (faults < MaxFaults /\ faults' = faults + 1)
  BY <1>2 DEF KeyStep, ListBlocks, ListBlocksFails, UnlinkBlock, CleanEmptyDirs, ListRecords,
     DeleteRecord, EndRewrite, RenameBlock, RewriteBlock, PutRecord, runVars
<1>3. ASSUME NEW p \in Procs, OperationFails(p) \/ Kill(p)
      PROVE  faults < MaxFaults /\ faults' = faults + 1
  BY <1>3 DEF OperationFails, Kill, Interrupt, Fault
<1>4. CASE Environment
  <2>1. ASSUME NEW p \in Procs, DriverStart(p) \/ Decline(p) PROVE faults' = faults
    <3>1. ASSUME NEW target, NEW ok, StartDriver(p, target, ok) PROVE faults' = faults
      BY <3>1 DEF StartDriver
    <3>2. ASSUME NEW n, NEW o, StartProgram(p, n, o) PROVE faults' = faults
      BY <3>2 DEF StartProgram
    <3> QED
      BY <2>1, <3>1, <3>2 DEF DriverStart, Decline
  <2>2. CASE Daemon
    BY <2>2 DEF Daemon, DaemonPin, DaemonPublish, runVars
  <2> QED
    BY <1>3, <1>4, <2>1, <2>2 DEF Environment, Daemon
<1>5. CASE UNCHANGED vars
  BY <1>5 DEF vars, runVars
<1> QED
  BY <1>1, <1>2, <1>4, <1>5 DEF Next, Step

\* A record is copied, deleted or published.
LEMMA RecordsBounded ==
  ASSUME IInv, BlockInv, RecordInv, Bounds, RecordTypes',
         (\E p \in Procs : Migrate(p)) \/ Daemon
  PROVE  \A r \in Records : latest'[r] <= MaxValue /\ \A f \in Forms : recs'[r][f] <= MaxValue
<1>0. /\ recs \in [Records -> [Forms -> Nat]] /\ latest \in [Records -> Nat \ {0}]
      /\ \A o \in Ops : OldForm(o) \in Forms /\ NewForm(o) \in Forms
      /\ MaxValue \in Nat /\ None <= MaxValue
  BY ValueAssumption DEF RecordInv, RecordTypes, OldForm, NewForm, Forms, None
<1>1. CASE UNCHANGED <<recs, latest>>
  BY <1>1 DEF Bounds
<1>2. ASSUME NEW p \in Procs, NEW r \in Records, PutRecord(p, r), ~UNCHANGED <<recs, latest>>
      PROVE  \A x \in Records : latest'[x] <= MaxValue /\ \A f \in Forms : recs'[x][f] <= MaxValue
  <2>1. run[p].op \in Ops
    BY Basics DEF Run
  <2>2. recs' = [recs EXCEPT ![r][NewForm(run[p].op)] = recs[r][OldForm(run[p].op)]] /\ latest' = latest
    BY <1>2 DEF PutRecord
  <2> QED
    BY <1>0, <2>1, <2>2 DEF Bounds
<1>3. ASSUME NEW p \in Procs, DeleteRecord(p)
      PROVE  \A x \in Records : latest'[x] <= MaxValue /\ \A f \in Forms : recs'[x][f] <= MaxValue
  <2>1. recs' = [recs EXCEPT ![cur[p]][OldForm(run[p].op)] = None] /\ latest' = latest
    BY <1>3 DEF DeleteRecord
  <2> QED
    BY <1>0, <2>1 DEF Bounds
<1>4. ASSUME NEW r \in Published, DaemonPublish(r)
      PROVE  \A x \in Records : latest'[x] <= MaxValue /\ \A f \in Forms : recs'[x][f] <= MaxValue
  <2>1. /\ latest[r] < MaxValue /\ r \in Records
        /\ latest' = [latest EXCEPT ![r] = latest[r] + 1]
        /\ recs' = [recs EXCEPT ![r][Form(version)] = latest[r] + 1]
    BY <1>4, RecordAssumption DEF DaemonPublish, Records
  <2> QED
    BY <1>0, <2>1 DEF Bounds
<1> QED
  BY <1>1, <1>2, <1>3, <1>4 DEF Migrate, Daemon, DaemonPin, KeyStep, ListBlocks, ListBlocksFails,
     UnlinkBlock, CleanEmptyDirs, ListRecords, EndRewrite, RenameBlock, RewriteBlock, keyVars

LEMMA BoundsStep ==
  ASSUME IInv, BlockInv, RecordInv, RecordInv', Bounds, [Next]_vars
  PROVE  Bounds'
<1>1. faults' \in 0 .. MaxFaults
  BY FaultsCounted, FaultAssumption DEF Bounds
<1>2. \A p \in Procs : <<run[p].prog, run[p].op>> \in Progs \X Ops
  BY Basics DEF Run
<1>3. CASE Daemon
  BY <1>1, <1>3, RecordsBounded DEF Bounds, RecordInv, Daemon, DaemonPin, DaemonPublish, runVars
<1>4. CASE UNCHANGED vars
  BY <1>1, <1>4 DEF Bounds, vars, runVars, keyVars
<1>5. ASSUME NEW p \in Procs, Aside(p) \/ Begin(p) \/ Truncated(p) \/ Written(p) \/ Stopped(p)
      PROVE  Bounds'
  BY <1>1, <1>2, <1>5 DEF Aside, Begin, Truncated, Written, Stopped, dataVars, keyVars, Bounds
<1>6. ASSUME NEW p \in Procs, Migrate(p) PROVE Bounds'
  <2>1. broken' \subseteq Progs \X Ops
    BY <1>2, <1>6, MigrateShape DEF Stopped, Continue, Bounds
  <2> QED
    BY <1>1, <1>6, <2>1, RecordsBounded DEF Bounds, RecordInv
<1> QED
  BY <1>3, <1>4, <1>5, <1>6, NextShape

\* Every state of the early chain is well typed, for any processes and
\* whatever bounds on faults and publications.
THEOREM TypeCorrect == Spec => []TypeOK
<1>1. Init => Bounds
  <2> SUFFICES ASSUME Init PROVE Bounds
    OBVIOUS
  <2>1. /\ faults = 0 /\ broken = {} /\ latest \in [Records -> 1 .. 1]
        /\ recs = [r \in Records |-> [f \in Forms |-> IF f = Form(version) THEN 1 ELSE None]]
    BY DEF Init, RunInit, KeyInit
  <2> QED
    BY <2>1, FaultAssumption, ValueAssumption DEF Bounds, None
<1>2. IInv /\ BlockInv /\ RecordInv /\ PinInv /\ Bounds => TypeOK
  BY DEF IInv, RunTypes, BlockInv, BlockTypes, RecordInv, RecordTypes, PinInv, PinTypes, Bounds,
     TypeOK, None
<1> QED
  BY <1>1, <1>2, BoundsStep, InvariantHolds, BlocksHold, RecordsHold, PinsHold, PTL DEF Spec

=============================================================================

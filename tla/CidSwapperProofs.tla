-------------------------- MODULE CidSwapperProofs --------------------------
(***************************************************************************)
(* Theorems about CidSwapper, for any blocks and CIDs, any number of       *)
(* workers and any crashes, errors and uses.                               *)
(***************************************************************************)
EXTENDS CidSwapper, TLAPS

USE DEF Blank

-----------------------------------------------------------------------------
(* The backup file                                                         *)

Lines == Seq(Cids \cup {Torn})

\* g is the file f with lines at its end; an unended line stays Torn.
Continues(g, f) ==
  /\ g \in Files
  /\ Len(f.lines) <= Len(g.lines)
  /\ \A i \in 1 .. Len(f.lines) : g.lines[i] = f.lines[i]
  /\ g.tail = "open" => ~Whole(g)

LEMMA WriteContinues ==
  ASSUME NEW f \in Files, NEW s \in Seq(Cids), f.tail = "open" => ~Whole(f)
  PROVE  /\ Continues(WriteLines(f, s), f)
         /\ f.tail = "ended" => WriteLines(f, s).lines = f.lines \o s
<1>1. CASE s = <<>>
  <2>1. f.lines \o s = f.lines
    BY <1>1 DEF Files
  <2> QED BY <1>1, <2>1 DEF WriteLines, Continues, Files
<1>2. CASE s # <<>>
  <2>1. s \in Lines /\ Tail(s) \in Lines
    BY <1>2 DEF Lines
  <2> DEFINE t == IF f.tail = "open" THEN Tail(s) ELSE s
  <2>2. t \in Lines
    BY <2>1
  <2>3. WriteLines(f, s) = [lines |-> f.lines \o t, tail |-> "ended"]
    BY <1>2 DEF WriteLines
  <2> HIDE DEF t
  <2>4. /\ f.lines \o t \in Lines /\ Len(f.lines) <= Len(f.lines \o t)
        /\ \A i \in 1 .. Len(f.lines) : (f.lines \o t)[i] = f.lines[i]
    BY <2>2 DEF Lines, Files
  <2> QED BY <2>3, <2>4 DEF Continues, Files, Lines, t
<1> QED BY <1>1, <1>2

LEMMA CutContinues ==
  ASSUME NEW f \in Files, f.tail = "open" => ~Whole(f)
  PROVE  Continues(CutShort(f), f)
<1>1. CASE f.tail = "open"
  BY <1>1 DEF CutShort, Continues, Files
<1>2. CASE f.tail # "open"
  <2> DEFINE l == Append(f.lines, Torn)
  <2>1. /\ l \in Lines /\ Len(l) = Len(f.lines) + 1 /\ l[Len(l)] = Torn
        /\ \A i \in 1 .. Len(f.lines) : l[i] = f.lines[i]
    BY DEF Files, Lines
  <2>2. CutShort(f) = [lines |-> l, tail |-> "open"]
    BY <1>2 DEF CutShort
  <2>3. ~Whole(CutShort(f))
    BY SMTT(30), <2>1, <2>2, SentinelAssumption DEF Whole, Files, Lines
  <2> QED BY <2>1, <2>2, <2>3 DEF Continues, Files, Lines
<1> QED BY <1>1, <1>2

LEMMA PartlyContinues ==
  ASSUME NEW f \in Files, NEW s \in Seq(Cids), f.tail = "open" => ~Whole(f),
         NEW whole \in Nat, NEW g \in Partly(f, s, whole)
  PROVE  Continues(g, f)
<1>1. \A n \in 0 .. Len(s) : SubSeq(s, 1, n) \in Seq(Cids)
  OBVIOUS
<1>2. \A n \in 0 .. Len(s) : Continues(WriteLines(f, SubSeq(s, 1, n)), f)
  BY <1>1, WriteContinues
<1>3. CASE \E n \in 0 .. Len(s) : g = WriteLines(f, SubSeq(s, 1, n))
  BY <1>2, <1>3
<1>4. CASE \E n \in whole .. Len(s) - 1 : g = CutShort(WriteLines(f, SubSeq(s, 1, n)))
  <2> PICK n \in whole .. Len(s) - 1 : g = CutShort(WriteLines(f, SubSeq(s, 1, n)))
    BY <1>4
  <2> DEFINE h == WriteLines(f, SubSeq(s, 1, n))
  <2>1. Continues(h, f)
    BY <1>2
  <2> HIDE DEF h
  <2>2. Continues(CutShort(h), h)
    BY <2>1, CutContinues DEF Continues
  <2> QED BY <2>1, <2>2 DEF h, Continues, Files
<1> QED BY <1>3, <1>4 DEF Partly

-----------------------------------------------------------------------------
(* Type correctness                                                        *)

LEMMA WaitingTyped == Waiting \in [Workers -> [at: Ats, cid: Cids, toDelete: SUBSET Keys]]
<1>1. (CHOOSE c \in Cids : TRUE) \in Cids
  BY UniverseAssumption
<1> QED BY <1>1 DEF Waiting, Ats

LEMMA EndTyped ==
  ASSUME NEW how \in {"applied", "reverted", "error"}, TypeOK, End(how)
  PROVE  /\ pc' \in {"idle"} /\ fast' \in {"yes", "no"} /\ found' \subseteq Cids
         /\ buf' \in Seq(Cids) /\ line' \in Nat \ {0} /\ walk' \subseteq Cids
         /\ reader' \in {"reading", "closed"} /\ queue' \in Seq(Cids)
         /\ worker' \in [Workers -> [at: Ats, cid: Cids, toDelete: SUBSET Keys]]
         /\ errored' \in {"yes", "no"} /\ outcome' \in {"none", "applied", "reverted", "error"}
         /\ disk' \subseteq Keys
BY WaitingTyped DEF End, Forget, TypeOK

LEMMA MoveTyped ==
  ASSUME TypeOK, NEW w \in Workers, NEW where \in Ats, Move(w, where)
  PROVE  worker' \in [Workers -> [at: Ats, cid: Cids, toDelete: SUBSET Keys]]
BY DEF Move, TypeOK

LEMMA FailTyped ==
  ASSUME TypeOK, NEW what, Fail(what)
  PROVE  errors' \in 0 .. MaxErrors
BY BoundsAssumption DEF Fail, TypeOK

LEMMA WriteTyped ==
  ASSUME TypeOK, Control, backup # NoFile
  PROVE  /\ WriteLines(backup, buf) \in Files
         /\ \A whole \in Nat : Partly(backup, buf, whole) \subseteq Files
BY WriteContinues, PartlyContinues DEF TypeOK, Control, Continues

LEMMA TypeStep == TypeOK /\ Control /\ [Next]_vars => TypeOK'
<1> SUFFICES ASSUME TypeOK, Control, [Next]_vars PROVE TypeOK'
  OBVIOUS
<1> USE DEF data, feed, scan, run, counts
<1>1. ASSUME NEW how \in {"yes", "no"}, StartApply(how) PROVE TypeOK'
  BY <1>1 DEF StartApply, TypeOK, Files
<1>2. CASE StartRevert
  <2>1. CASE backup = NoFile
    BY <1>2, <2>1, EndTyped DEF StartRevert, TypeOK
  <2>2. CASE backup # NoFile
    BY <1>2, <2>2 DEF StartRevert, StartWorkers, TypeOK
  <2> QED BY <2>1, <2>2
<1>3. CASE \E c \in Cids : LogKey(c)
  BY <1>3 DEF LogKey, TypeOK
<1>4. CASE LogEnds
  BY <1>4 DEF LogEnds, TypeOK
<1>5. CASE LogFails
  BY <1>5, EndTyped, FailTyped, WriteTyped DEF LogFails, TypeOK, Control
<1>6. CASE Flush
  BY <1>6, WriteTyped DEF Flush, StartWorkers, TypeOK, Control
<1>7. CASE FlushFails
  BY <1>7, WriteTyped, FailTyped DEF FlushFails, StartWorkers, TypeOK, Control
<1>8. CASE Reader
  <2>1. ASSUME NEW c \in Cids, Send(c) PROVE queue' \in Seq(Cids)
    BY <2>1 DEF Send, TypeOK
  <2>2. CASE ReadLine
    <3>1. backup.lines[line] \in Cids \cup {Torn}
      BY <2>2 DEF ReadLine, Control, TypeOK, Files
    <3> QED BY <2>1, <2>2, <3>1 DEF ReadLine, TypeOK
  <2>3. ASSUME NEW c \in Cids, SendPin(c) PROVE TypeOK'
    BY <2>1, <2>3 DEF SendPin, TypeOK
  <2>4. CASE CloseChannel
    BY <2>4 DEF CloseChannel, TypeOK
  <2>5. CASE ReaderFails
    <3>1. \E what : Fail(what)
      BY <2>5 DEF ReaderFails
    <3> QED BY <2>5, <3>1, FailTyped DEF ReaderFails, TypeOK
  <2> QED BY <1>8, <2>2, <2>3, <2>4, <2>5 DEF Reader
<1>9. CASE EndSwap
  <2>1. CASE errored = "yes"
    BY <1>9, <2>1, EndTyped DEF EndSwap, TypeOK
  <2>2. CASE errored # "yes"
    BY <1>9, <2>2 DEF EndSwap, TypeOK
  <2> QED BY <2>1, <2>2
<1>10. CASE TruncateVersion
  BY <1>10 DEF TruncateVersion, TypeOK
<1>11. CASE WriteVersion
  <2>1. CASE op = "apply"
    BY <1>11, <2>1, EndTyped DEF WriteVersion, TypeOK
  <2>2. CASE op # "apply"
    BY <1>11, <2>2 DEF WriteVersion, TypeOK
  <2> QED BY <2>1, <2>2
<1>12. CASE RenameBackup
  BY <1>12, EndTyped DEF RenameBackup, TypeOK
<1>13. CASE EndFails
  BY <1>13, EndTyped, FailTyped DEF EndFails, TypeOK
<1>14. ASSUME NEW w \in Workers, Take(w) \/ WrapUp(w) PROVE TypeOK'
  <2>1. CASE Take(w)
    <3> DEFINE c == Head(queue)
    <3>1. c \in Cids /\ Tail(queue) \in Seq(Cids)
      BY <2>1 DEF Take, TypeOK
    <3>2. worker' = [worker EXCEPT ![w].cid = c,
                       ![w].at = IF fast = "yes" /\ c \in InBlocks THEN "stat" ELSE "get"]
      BY <2>1 DEF Take
    <3> HIDE DEF c
    <3>3. worker' \in [Workers -> [at: Ats, cid: Cids, toDelete: SUBSET Keys]]
      <4>1. worker \in [Workers -> [at: Ats, cid: Cids, toDelete: SUBSET Keys]]
        BY DEF TypeOK
      <4>2. PICK at \in Ats : at = IF fast = "yes" /\ c \in InBlocks THEN "stat" ELSE "get"
        BY DEF Ats
      <4>3. worker' = [worker EXCEPT ![w].cid = c, ![w].at = at]
        BY <3>2, <4>2
      <4> QED BY <3>1, <4>1, <4>3
    <3> QED BY <2>1, <3>1, <3>3 DEF Take, TypeOK
  <2>2. CASE WrapUp(w)
    <3>1. "lastSync" \in Ats
      BY DEF Ats
    <3>2. worker' \in [Workers -> [at: Ats, cid: Cids, toDelete: SUBSET Keys]]
      BY <2>2, <3>1, MoveTyped DEF WrapUp
    <3> QED BY <2>2, <3>2 DEF WrapUp, TypeOK
  <2> QED BY <1>14, <2>1, <2>2
<1>15. ASSUME NEW w \in Workers, Get(w) PROVE TypeOK'
  BY <1>15, MoveTyped DEF Get, TypeOK, Ats
<1>16. ASSUME NEW w \in Workers, Put(w) PROVE TypeOK'
  <2>1. worker[w].cid \in Cids /\ HashOf[worker[w].cid] \in Hashes
    BY KeysAssumption DEF TypeOK
  <2>2. From(worker[w].cid) \in Keys /\ To(worker[w].cid) \in Keys
    BY <2>1 DEF From, To, Keys
  <2>3. PICK next \in {"take", "sync"} :
          worker' = [worker EXCEPT ![w].at = next,
                       ![w].toDelete = IF op = "revert" THEN @ ELSE @ \cup {From(worker[w].cid)}]
    BY <1>16 DEF Put
  <2>4. worker' \in [Workers -> [at: Ats, cid: Cids, toDelete: SUBSET Keys]]
    <3>1. worker \in [Workers -> [at: Ats, cid: Cids, toDelete: SUBSET Keys]]
      BY DEF TypeOK
    <3>2. next \in Ats
      BY DEF Ats
    <3>3. PICK gone \in SUBSET Keys :
            gone = IF op = "revert" THEN worker[w].toDelete
                   ELSE worker[w].toDelete \cup {From(worker[w].cid)}
      BY <2>2, <3>1
    <3>4. worker' = [worker EXCEPT ![w].at = next, ![w].toDelete = gone]
      BY <2>3, <3>1, <3>3
    <3> QED BY <3>1, <3>2, <3>4
  <2> QED BY <1>16, <2>2, <2>4 DEF Put, TypeOK
<1>17. ASSUME NEW w \in Workers, Sync(w) PROVE TypeOK'
  BY <1>17, MoveTyped DEF Sync, TypeOK, Ats
<1>18. ASSUME NEW w \in Workers, Delete(w) PROVE TypeOK'
  <2>1. CASE worker[w].toDelete # {}
    <3>1. \E k \in worker[w].toDelete :
            store' = store \ {k} /\ worker' = [worker EXCEPT ![w].toDelete = @ \ {k}]
      BY <1>18, <2>1, Zenon DEF Delete
    <3>3. PICK k : store' = store \ {k} /\ worker' = [worker EXCEPT ![w].toDelete = @ \ {k}]
      BY <3>1, Zenon
    <3>2. worker' \in [Workers -> [at: Ats, cid: Cids, toDelete: SUBSET Keys]]
      BY <3>3 DEF TypeOK
    <3>4. store' \subseteq Keys
      BY <3>3 DEF TypeOK
    <3> QED BY <1>18, <3>2, <3>4 DEF Delete, TypeOK
  <2>2. CASE worker[w].toDelete = {}
    BY <1>18, <2>2, MoveTyped DEF Delete, TypeOK, Ats
  <2> QED BY <2>1, <2>2
<1>19. ASSUME NEW w \in Workers, SyncDeletes(w) PROVE TypeOK'
  BY <1>19, MoveTyped DEF SyncDeletes, TypeOK, Ats
<1>20. ASSUME NEW w \in Workers, WorkerFails(w) PROVE TypeOK'
  BY <1>20, MoveTyped, FailTyped DEF WorkerFails, TypeOK, Ats
<1>21. ASSUME NEW w \in Workers, Stat(w) PROVE TypeOK'
  BY <1>21, MoveTyped DEF Stat, TypeOK, Ats
<1>22. ASSUME NEW w \in Workers, StatFails(w) PROVE TypeOK'
  BY <1>22, MoveTyped, FailTyped DEF StatFails, TypeOK, Ats
<1>23. ASSUME NEW w \in Workers, Rename(w) PROVE TypeOK'
  <2>1. worker[w].cid \in Cids /\ HashOf[worker[w].cid] \in Hashes
    BY KeysAssumption DEF TypeOK
  <2> QED BY <1>23, <2>1, MoveTyped DEF Rename, Keys, TypeOK, Ats
<1>24. CASE Crash
  <2>1. backup' \in Files \cup {NoFile}
    BY <1>24, WriteTyped DEF Crash, TypeOK, Control
  <2> QED BY <1>24, <2>1, WaitingTyped, BoundsAssumption DEF Crash, Forget, TypeOK
<1>25. ASSUME NEW k \in Keys, AddBlock(k) PROVE TypeOK'
  BY <1>25, KeysAssumption, BoundsAssumption DEF AddBlock, TypeOK, Keys
<1>26. ASSUME NEW h \in Hashes, RemoveBlock(h) PROVE TypeOK'
  BY <1>26, BoundsAssumption DEF RemoveBlock, TypeOK
<1>27. CASE UNCHANGED vars
  BY <1>27 DEF vars, TypeOK
<1> QED
  BY <1>1, <1>2, <1>3, <1>4, <1>5, <1>6, <1>7, <1>8, <1>9, <1>10, <1>11, <1>12, <1>13, <1>14,
     <1>15, <1>16, <1>17, <1>18, <1>19, <1>20, <1>21, <1>22, <1>23, <1>24, <1>25, <1>26, <1>27
     DEF Next, Run, Step

-----------------------------------------------------------------------------
(* What the steps leave alone                                              *)

LEMMA StepFrame ==
  ASSUME NEW w \in Workers, Step(w), TypeOK
  PROVE  /\ pc = "swap"
         /\ UNCHANGED <<version, backup, pinned, pc, op, fast, found, buf, line, walk, reader,
                        owned, outcome, crashes, uses>>
         /\ Take(w) \/ UNCHANGED queue
         /\ worker' = [worker EXCEPT ![w] = worker'[w]]
         /\ \A v \in Workers \ {w} : worker'[v] = worker[v]
<1> USE DEF data, feed, scan, run, counts
<1>1. CASE Take(w) \/ WrapUp(w)
  BY <1>1 DEF Take, WrapUp, At, Move, TypeOK
<1>2. CASE Get(w) \/ Stat(w) \/ StatFails(w) \/ Rename(w)
  BY <1>2 DEF Get, Stat, StatFails, Rename, At, Move, TypeOK
<1>3. CASE Put(w)
  BY <1>3 DEF Put, At, TypeOK
<1>4. CASE Sync(w) \/ SyncDeletes(w)
  BY <1>4 DEF Sync, SyncDeletes, At, Move, TypeOK
<1>5. CASE Delete(w)
  BY <1>5 DEF Delete, At, Move, TypeOK
<1>6. CASE WorkerFails(w)
  BY <1>6 DEF WorkerFails, Move, TypeOK
<1> QED BY <1>1, <1>2, <1>3, <1>4, <1>5, <1>6 DEF Step

LEMMA ReaderFrame ==
  ASSUME Reader, TypeOK
  PROVE  /\ pc = "swap" /\ reader = "reading"
         /\ UNCHANGED <<version, store, disk, backup, pinned, pc, op, fast, found, buf, worker,
                        errored, owned, outcome, crashes, uses>>
         /\ walk' \subseteq walk
         /\ swallowed' \in {swallowed, "yes"}
BY DEF Reader, ReadLine, SendPin, CloseChannel, ReaderFails, data, counts

\* What is sent stands in the channel behind the others, ...
LEMMA Sent ==
  ASSUME TypeOK, NEW c \in Cids, Send(c)
  PROVE  /\ Len(queue) < Capacity /\ Len(queue') = Len(queue) + 1
         /\ queue'[Len(queue')] = c /\ Len(queue') \in DOMAIN queue'
         /\ \A i \in DOMAIN queue' : (i \in DOMAIN queue /\ queue'[i] = queue[i]) \/ queue'[i] = c
         /\ \A i \in DOMAIN queue : i \in DOMAIN queue' /\ queue'[i] = queue[i]
BY DEF Send, TypeOK

\* ... and what is received stood before them.
LEMMA Received ==
  ASSUME TypeOK, queue # <<>>, queue' = Tail(queue)
  PROVE  /\ Head(queue) \in Cids /\ Head(queue) = queue[1] /\ 1 \in DOMAIN queue
         /\ Len(queue') < Len(queue) /\ Len(queue) \in Nat /\ Len(queue') \in Nat
         /\ \A i \in DOMAIN queue' : i + 1 \in DOMAIN queue /\ queue'[i] = queue[i + 1]
         /\ \A i \in DOMAIN queue : i # 1 => i - 1 \in DOMAIN queue' /\ queue'[i - 1] = queue[i]
BY DEF TypeOK

\* The lines of the backup file are there to stay, until Revert is done.
LEMMA FileKept ==
  ASSUME TypeOK, Control, [Next]_vars, ~RenameBackup, backup # NoFile
  PROVE  Continues(backup', backup)
<1>1. CASE UNCHANGED backup
  BY <1>1 DEF Continues, Control, TypeOK
<1>2. CASE Flush
  BY <1>2, WriteContinues DEF Flush, Control, TypeOK
<1>3. CASE LogFails \/ FlushFails \/ Crash
  BY <1>1, <1>3, PartlyContinues DEF LogFails, FlushFails, Crash, Control, TypeOK
<1>4. ASSUME NEW w \in Workers, Step(w) PROVE UNCHANGED backup
  BY <1>4, StepFrame
<1>5. CASE \E how \in {"yes", "no"} : StartApply(how)
  BY <1>1, <1>5 DEF StartApply
<1>6. UNCHANGED backup \/ Flush \/ LogFails \/ FlushFails \/ Crash
      \/ \E how \in {"yes", "no"} : StartApply(how)
  BY <1>4 DEF Next, Run, Reader, ReadLine, SendPin, CloseChannel, ReaderFails, LogKey, LogEnds,
              EndSwap, TruncateVersion, WriteVersion,
              EndFails, StartRevert, AddBlock, RemoveBlock, vars, data
<1> QED BY <1>1, <1>2, <1>3, <1>5, <1>6

LEMMA ListedKept ==
  ASSUME TypeOK, Control, [Next]_vars, ~RenameBackup, NEW k, Listed(k)
  PROVE  Listed(k)'
<1>1. Continues(backup', backup) /\ backup' # NoFile
  BY FileKept, SentinelAssumption DEF Listed, Continues, Files
<1>2. PICK i \in DOMAIN backup.lines : backup.lines[i] = k
  BY DEF Listed
<1>3. backup.lines \in Lines /\ backup'.lines \in Lines
  BY <1>1 DEF Listed, Continues, Files, Lines, TypeOK
<1>4. i \in 1 .. Len(backup.lines) /\ i \in DOMAIN backup'.lines
  BY <1>1, <1>2, <1>3 DEF Continues, Lines
<1> QED BY <1>1, <1>2, <1>4 DEF Listed, Continues

-----------------------------------------------------------------------------
(* The invariant                                                           *)

LEMMA ControlStep == TypeOK /\ Control /\ [Next]_vars => Control'
<1> SUFFICES ASSUME TypeOK, Control, [Next]_vars PROVE Control'
  OBVIOUS
<1> USE DEF data, feed, scan, run, counts
<1>1. ASSUME NEW how \in {"yes", "no"}, StartApply(how) PROVE Control'
  <2>1. backup' # NoFile /\ (backup'.tail = "open" => ~Whole(backup'))
    <3>1. CASE backup = NoFile
      <4>1. backup' = [lines |-> <<>>, tail |-> "ended"]
        BY <1>1, <3>1 DEF StartApply
      <4>2. [lines |-> <<>>, tail |-> "ended"] \in Files
        BY DEF Files
      <4> QED BY <4>1, <4>2, SentinelAssumption DEF Files
    <3>2. CASE backup # NoFile
      BY <1>1, <3>2 DEF StartApply, Control
    <3> QED BY <3>1, <3>2
  <2> QED BY <1>1, <2>1 DEF StartApply, Control
<1>2. CASE StartRevert
  BY <1>2 DEF StartRevert, StartWorkers, End, Forget, Control
<1>3. CASE (\E c \in Cids : LogKey(c)) \/ LogEnds \/ Reader
  BY <1>3 DEF LogKey, LogEnds, Reader, ReadLine, SendPin, CloseChannel, ReaderFails, Control
<1>4. CASE LogFails \/ Flush \/ FlushFails
  <2>1. Continues(backup', backup) /\ backup' # NoFile
    BY <1>4, FileKept, SentinelAssumption
       DEF LogFails, Flush, FlushFails, RenameBackup, Control, Continues, Files
  <2> QED BY <1>4, <2>1 DEF LogFails, Flush, FlushFails, StartWorkers, End, Forget, Control,
                            Continues
<1>5. CASE EndSwap \/ TruncateVersion \/ WriteVersion \/ RenameBackup \/ EndFails
  <2>1. CASE EndSwap \/ TruncateVersion
    BY <2>1 DEF EndSwap, TruncateVersion, End, Forget, Control, TypeOK
  <2>2. CASE WriteVersion
    BY <2>2 DEF WriteVersion, End, Forget, Control, TypeOK
  <2>3. CASE RenameBackup
    BY <2>3 DEF RenameBackup, End, Forget, Control
  <2>4. CASE EndFails
    BY <2>4 DEF EndFails, End, Forget, Control
  <2> QED BY <1>5, <2>1, <2>2, <2>3, <2>4
<1>6. ASSUME NEW w \in Workers, Step(w) PROVE Control'
  BY <1>6, StepFrame DEF Control
<1>7. CASE Crash
  <2>1. Continues(backup', backup) /\ backup' # NoFile
    BY <1>7, FileKept, SentinelAssumption DEF Crash, RenameBackup, Control, Continues, Files
  <2> QED BY <1>7, <2>1 DEF Crash, Forget, Control, Continues
<1>8. CASE (\E k \in Keys : AddBlock(k)) \/ (\E h \in Hashes : RemoveBlock(h))
  BY <1>8 DEF AddBlock, RemoveBlock, Control
<1>9. CASE UNCHANGED vars
  BY <1>9 DEF vars, Control
<1> QED BY <1>1, <1>2, <1>3, <1>4, <1>5, <1>6, <1>7, <1>8, <1>9 DEF Next, Run

LEMMA RevertsStep == TypeOK /\ Control /\ Reverts /\ Workplace /\ [Next]_vars => Reverts'
<1> SUFFICES ASSUME TypeOK, Control, Reverts, Workplace, [Next]_vars PROVE Reverts'
  OBVIOUS
<1> USE DEF data, feed, scan, run, counts
<1>1. CASE (\E how \in {"yes", "no"} : StartApply(how)) \/ (\E c \in Cids : LogKey(c)) \/ LogEnds
           \/ LogFails \/ Flush \/ FlushFails
  BY <1>1 DEF StartApply, LogKey, LogEnds, LogFails, Flush, FlushFails, Reverts, Control
<1>2. CASE StartRevert
  BY <1>2 DEF StartRevert, Reverts, Control
<1>3. CASE Reader
  <2>1. errors = 0 \/ errors' # 0
    BY <1>3 DEF Reader, ReadLine, SendPin, CloseChannel, ReaderFails, Fail, TypeOK
  <2> QED BY <1>3, <2>1, ReaderFrame DEF Reverts
<1>4. CASE EndSwap \/ TruncateVersion \/ WriteVersion \/ RenameBackup
  BY <1>4 DEF EndSwap, TruncateVersion, WriteVersion, RenameBackup, End, Forget, Reverts, Control
<1>5. CASE EndFails
  BY <1>5 DEF EndFails, Fail, End, Forget, Reverts, TypeOK
<1>6. ASSUME NEW w \in Workers, Step(w) PROVE Reverts'
  <2>1. UNCHANGED <<op, fast, outcome>>
    BY <1>6, StepFrame
  <2>2. CASE WorkerFails(w) \/ StatFails(w)
    BY <2>1, <2>2 DEF WorkerFails, StatFails, Fail, Reverts, TypeOK, Control
  <2>3. CASE Rename(w)
    BY <2>1, <2>3 DEF Rename, At, Workplace, Reverts
  <2>4. CASE UNCHANGED <<errors, errored>>
    BY <2>1, <2>4 DEF Reverts
  <2> QED BY <1>6, <2>2, <2>3, <2>4 DEF Step, Take, WrapUp, Get, Put, Sync, Delete, SyncDeletes, Stat
<1>7. CASE Crash
  BY <1>7 DEF Crash, Forget, Reverts
<1>8. CASE (\E k \in Keys : AddBlock(k)) \/ (\E h \in Hashes : RemoveBlock(h))
  BY <1>8 DEF AddBlock, RemoveBlock, Reverts
<1>9. CASE UNCHANGED vars
  BY <1>9 DEF vars, Reverts
<1> QED BY <1>1, <1>2, <1>3, <1>4, <1>5, <1>6, <1>7, <1>8, <1>9 DEF Next, Run

LEMMA WorkplaceStep == TypeOK /\ Control /\ Workplace /\ [Next]_vars => Workplace'
<1> SUFFICES ASSUME TypeOK, Control, Workplace, [Next]_vars PROVE Workplace'
  OBVIOUS
<1> USE DEF data, feed, scan, run, counts
<1>e. <<>> \in Seq(Cids) /\ Len(<<>>) = 0 /\ Capacity \in Nat
  BY UniverseAssumption
<1>w. ASSUME worker' = Waiting, walk' = {}, queue' = <<>>, pc' = "swap" => reader' = "reading"
      PROVE  Workplace'
  BY <1>e, <1>w DEF Workplace, Waiting, Holding, Ended
<1>1. CASE (\E how \in {"yes", "no"} : StartApply(how)) \/ (\E c \in Cids : LogKey(c)) \/ LogEnds
           \/ Flush \/ FlushFails
  BY <1>1, <1>w DEF StartApply, LogKey, LogEnds, Flush, FlushFails, StartWorkers, Control
<1>2. CASE StartRevert
  <2>1. op' = "revert" /\ worker' = Waiting /\ queue' = <<>> /\ (pc' = "swap" => reader' = "reading")
    BY <1>2 DEF StartRevert, StartWorkers, End, Forget, Control
  <2> QED BY <1>e, <2>1 DEF Workplace, Waiting, Ended
<1>3. CASE Reader
  <2>f. /\ pc = "swap" /\ reader = "reading" /\ walk' \subseteq walk
        /\ UNCHANGED <<backup, op, fast, worker>>
        /\ backup \in Files /\ line \in Nat /\ queue \in Seq(Cids) /\ Len(queue) \in Nat
    BY <1>3, ReaderFrame DEF Control, TypeOK
  <2>w. \A w \in Workers :
          /\ worker'[w].at \in {"stat", "rename"} => fast' = "yes"
          /\ op' = "apply" /\ worker'[w].at \in Holding => Listed(worker[w].cid)'
          /\ worker'[w].at \notin Ended
    <3>1. ASSUME NEW w \in Workers
          PROVE  /\ worker[w].at \in {"stat", "rename"} => fast = "yes"
                 /\ op = "apply" /\ worker[w].at \in Holding => Listed(worker[w].cid)
                 /\ worker[w].at \notin Ended
      BY <2>f DEF Workplace
    <3> QED BY <2>f, <3>1 DEF Listed
  <2>l. \A k : Listed(k)' <=> Listed(k)
    BY <2>f DEF Listed
  <2>s. ASSUME NEW c \in Cids, Send(c), op = "apply" => Listed(c), UNCHANGED reader
        PROVE  Workplace'
    <3>1. Len(queue') <= Capacity
      BY <1>e, <2>f, <2>s, Sent
    <3>2. op' = "apply" => walk' = {} /\ \A i \in DOMAIN queue' : Listed(queue'[i])
      <4> SUFFICES ASSUME op' = "apply"
                   PROVE  walk' = {} /\ \A i \in DOMAIN queue' : Listed(queue'[i])
        OBVIOUS
      <4>1. walk = {} /\ Listed(c) /\ \A i \in DOMAIN queue : Listed(queue[i])
        BY <2>f, <2>s DEF Workplace
      <4>2. \A i \in DOMAIN queue' : (i \in DOMAIN queue /\ queue'[i] = queue[i]) \/ queue'[i] = c
        BY <2>s, Sent
      <4> QED BY <2>f, <4>1, <4>2
    <3>3. reader' # "closed" /\ \A w \in Workers : worker'[w].at \notin Ended
      BY <2>f, <2>s, <2>w
    <3> QED BY <2>f, <2>w, <3>1, <3>2, <3>3 DEF Workplace, Listed
  <2>u. ASSUME UNCHANGED queue,
               reader' = "closed" /\ swallowed' = "no" => line' > Len(backup'.lines) /\ walk' = {}
        PROVE  Workplace'
    BY <2>f, <2>l, <2>u, <2>w DEF Workplace
  <2>1. CASE ReadLine
    <3>1. backup.lines[line] \in Cids \cup {Torn} /\ line \in DOMAIN backup.lines
      BY <2>1, <2>f DEF ReadLine, TypeOK, Files
    <3>2. CASE backup.lines[line] = Torn
      BY <2>1, <2>f, <2>u, <3>2 DEF ReadLine
    <3>3. CASE backup.lines[line] # Torn
      <4>1. Listed(backup.lines[line])
        BY <2>f, <3>1 DEF Listed, Control
      <4> QED BY <2>1, <2>s, <3>1, <3>3, <4>1 DEF ReadLine
    <3> QED BY <3>2, <3>3
  <2>2. ASSUME NEW c \in Cids, SendPin(c) PROVE Workplace'
    <3>1. op # "apply"
      BY <2>2 DEF SendPin, Workplace
    <3> QED BY <2>2, <2>s, <3>1 DEF SendPin
  <2>3. CASE CloseChannel
    BY <2>3, <2>u DEF CloseChannel
  <2>4. CASE ReaderFails
    BY <2>4, <2>u DEF ReaderFails
  <2> QED BY <1>3, <2>1, <2>2, <2>3, <2>4 DEF Reader
<1>4. CASE LogFails \/ RenameBackup \/ EndFails \/ Crash
  BY <1>4, <1>w DEF LogFails, RenameBackup, EndFails, Crash, End, Forget
<1>5. CASE EndSwap \/ WriteVersion \/ TruncateVersion
  <2>1. \/ worker' = Waiting /\ walk' = {} /\ queue' = <<>> /\ pc' # "swap"
        \/ UNCHANGED <<backup, op, fast, line, walk, queue, reader, worker>> /\ pc' # "swap"
    BY <1>5 DEF EndSwap, WriteVersion, TruncateVersion, End, Forget
  <2> QED BY <2>1, <1>w DEF Workplace, Listed
<1>6. ASSUME NEW w \in Workers, Step(w) PROVE Workplace'
  <2>f. /\ UNCHANGED <<backup, op, fast, pc, line, walk, reader>> /\ pc = "swap"
        /\ \A v \in Workers \ {w} : worker'[v] = worker[v]
        /\ swallowed' = "no" => swallowed = "no"
    BY <1>6, StepFrame DEF Step, Take, WrapUp, Get, Put, Sync, Delete, SyncDeletes, WorkerFails,
                           Stat, StatFails, Rename
  <2>u. ASSUME UNCHANGED queue,
               worker'[w].at \in {"stat", "rename"} => fast = "yes",
               op = "apply" /\ worker'[w].at \in Holding => Listed(worker'[w].cid),
               worker'[w].at \in Ended => reader = "closed" /\ queue = <<>>
        PROVE  Workplace'
    BY <2>f, <2>u DEF Workplace, Listed
  <2>1. CASE Take(w) \/ WrapUp(w)
    <3>1. CASE Take(w)
      <4> DEFINE c == Head(queue)
      <4>1. queue # <<>> /\ queue' = Tail(queue)
        BY <3>1 DEF Take
      <4>2. /\ worker'[w].cid = c
            /\ worker'[w].at = IF fast = "yes" /\ c \in InBlocks THEN "stat" ELSE "get"
        BY <3>1 DEF Take, TypeOK
      <4>3. op = "apply" => Listed(c) /\ \A i \in DOMAIN queue' : Listed(queue'[i])
        BY <4>1, Received DEF Workplace
      <4>4. Len(queue') <= Capacity
        BY <1>e, <4>1, Received DEF Workplace
      <4>5. \A v \in Workers : worker[v].at \notin Ended
        BY <4>1 DEF Workplace
      <4> HIDE DEF c
      <4> QED BY <2>f, <4>2, <4>3, <4>4, <4>5 DEF Workplace, Listed, Ended
    <3>2. CASE WrapUp(w)
      BY <2>u, <3>2 DEF WrapUp, Move, Holding, TypeOK
    <3> QED BY <2>1, <3>1, <3>2
  <2>e. worker[w].at \in Ended => reader = "closed" /\ queue = <<>>
    BY DEF Workplace
  <2>2. CASE Get(w) \/ Stat(w) \/ Put(w)
    BY <2>2, <2>u, <2>e DEF Get, Stat, Put, At, Move, Holding, Ended, Workplace, TypeOK
  <2>3. CASE Sync(w) \/ SyncDeletes(w) \/ StatFails(w) \/ Rename(w)
    BY <2>3, <2>u, <2>e DEF Sync, SyncDeletes, StatFails, Rename, At, Move, Holding, Ended, TypeOK
  <2>4. CASE Delete(w)
    BY <2>4, <2>u, <2>e DEF Delete, At, Move, Holding, Ended, TypeOK
  <2>5. CASE WorkerFails(w)
    BY <2>5, <2>u, <2>e DEF WorkerFails, Move, Holding, Ended, TypeOK
  <2> QED BY <1>6, <2>1, <2>2, <2>3, <2>4, <2>5 DEF Step
<1>7. CASE (\E k \in Keys : AddBlock(k)) \/ (\E h \in Hashes : RemoveBlock(h))
  BY <1>7 DEF AddBlock, RemoveBlock, Workplace, Listed
<1>8. CASE UNCHANGED vars
  BY <1>8 DEF vars, Workplace, Listed
<1> QED BY <1>1, <1>2, <1>3, <1>4, <1>5, <1>6, <1>7, <1>8 DEF Next, Run

\* The workers take no block's last key away, wherever they are.
LEMMA HashesKept ==
  ASSUME TypeOK, Copied, NEW w \in Workers, Step(w), NEW h \in Hashes
  PROVE  /\ h \in store => h \in store'
         /\ h \in disk \cap store => h \in disk'
<1> USE DEF data, feed, scan, run, counts
<1>1. CASE UNCHANGED <<store, disk>>
  BY <1>1
<1>2. CASE Put(w)
  BY <1>2 DEF Put
<1>3. CASE Sync(w) \/ SyncDeletes(w)
  BY <1>3 DEF Sync, SyncDeletes
<1>4. CASE Delete(w)
  BY <1>4, KeysAssumption DEF Delete, Copied
<1>5. CASE Rename(w)
  <2>1. worker[w].cid \in Cids
    BY DEF TypeOK
  <2> QED BY <1>5, <2>1, KeysAssumption DEF Rename
<1> QED BY <1>1, <1>2, <1>3, <1>4, <1>5 DEF Step, Take, WrapUp, Get, WorkerFails, Stat, StatFails

LEMMA CopiedStep == TypeOK /\ Control /\ Workplace /\ Copied /\ [Next]_vars => Copied'
<1> SUFFICES ASSUME TypeOK, Control, Workplace, Copied, [Next]_vars PROVE Copied'
  OBVIOUS
<1> USE DEF data, feed, scan, run, counts
<1>w. ASSUME worker' = Waiting PROVE Copied'
  BY <1>w DEF Copied, Waiting
<1>1. CASE (\E how \in {"yes", "no"} : StartApply(how)) \/ (\E c \in Cids : LogKey(c)) \/ LogEnds
           \/ Flush \/ FlushFails \/ (\E k \in Keys : AddBlock(k)) \/ (\E h \in Hashes : RemoveBlock(h))
  BY <1>1, <1>w DEF StartApply, LogKey, LogEnds, Flush, FlushFails, AddBlock, RemoveBlock, Control
<1>2. CASE StartRevert \/ LogFails \/ RenameBackup \/ EndFails \/ Crash
  BY <1>2, <1>w DEF StartRevert, LogFails, RenameBackup, EndFails, Crash, End, Forget, Control
<1>3. CASE Reader \/ EndSwap \/ WriteVersion \/ TruncateVersion
  <2>1. worker' = Waiting \/ UNCHANGED <<op, backup, store, disk, worker>>
    BY <1>3, ReaderFrame DEF EndSwap, WriteVersion, TruncateVersion, End, Forget
  <2> QED BY <2>1, <1>w DEF Copied, Listed
<1>4. ASSUME NEW w \in Workers, Step(w) PROVE Copied'
  <2>f. /\ UNCHANGED <<backup, op>> /\ pc = "swap"
        /\ \A v \in Workers \ {w} : worker'[v] = worker[v]
        /\ \A k : Listed(k)' <=> Listed(k)
    BY <1>4, StepFrame DEF Listed
  <2>h. \A h \in Hashes : (h \in store => h \in store') /\ (h \in disk \cap store => h \in disk')
    BY <1>4, HashesKept
  <2>c. \A k \in Cids : HashOf[k] \in Hashes
    BY KeysAssumption
  <2>o. ASSUME NEW v \in Workers \ {w}, NEW k \in worker'[v].toDelete
        PROVE  /\ op' = "apply" /\ k \in Cids /\ Listed(k)' /\ HashOf[k] \in store'
               /\ worker'[v].at \in {"delete", "lastDelete"} => HashOf[k] \in disk'
    BY <2>f, <2>h, <2>c, <2>o DEF Copied
  <2>u. ASSUME worker'[w].toDelete \subseteq worker[w].toDelete,
               worker'[w].at \in {"delete", "lastDelete"} =>
                 worker[w].at \in {"delete", "lastDelete"} \/ disk' = store
        PROVE  Copied'
    <3> SUFFICES ASSUME NEW k \in worker'[w].toDelete
                 PROVE  /\ op' = "apply" /\ k \in Cids /\ Listed(k)' /\ HashOf[k] \in store'
                        /\ worker'[w].at \in {"delete", "lastDelete"} => HashOf[k] \in disk'
      BY <2>o DEF Copied
    <3>1. /\ op = "apply" /\ k \in Cids /\ Listed(k) /\ HashOf[k] \in store
          /\ worker[w].at \in {"delete", "lastDelete"} => HashOf[k] \in disk
      BY <2>u DEF Copied
    <3> QED BY <2>f, <2>h, <2>c, <2>u, <3>1
  <2>1. CASE Take(w) \/ WrapUp(w)
    <3>1. /\ worker'[w].toDelete = worker[w].toDelete
          /\ worker'[w].at \in {"lastSync", "stat", "get"}
      BY <2>1 DEF Take, WrapUp, Move, TypeOK
    <3> QED BY <2>u, <3>1
  <2>2. CASE Get(w) \/ Stat(w) \/ StatFails(w) \/ Rename(w) \/ SyncDeletes(w)
    BY <2>2, <2>u DEF Get, Stat, StatFails, Rename, SyncDeletes, Move, TypeOK
  <2>3. CASE Put(w)
    <3> DEFINE c == worker[w].cid
    <3>1. PICK next \in {"take", "sync"} :
            worker' = [worker EXCEPT ![w].at = next,
                         ![w].toDelete = IF op = "revert" THEN @ ELSE @ \cup {From(c)}]
      BY <2>3 DEF Put
    <3>2. worker'[w].at = next
          /\ worker'[w].toDelete = IF op = "revert" THEN worker[w].toDelete
                                   ELSE worker[w].toDelete \cup {From(c)}
      BY <3>1 DEF TypeOK
    <3>3. CASE op = "revert"
      BY <2>u, <3>2, <3>3
    <3>4. CASE op = "apply"
      <4>1. From(c) = c /\ c \in Cids /\ HashOf[c] \in store' /\ Listed(c)
        BY <2>3, <3>4 DEF Put, From, To, At, TypeOK, Workplace, Holding
      <4>2. \A k \in worker[w].toDelete :
              op = "apply" /\ k \in Cids /\ Listed(k) /\ HashOf[k] \in store
        BY DEF Copied
      <4>3. \A k \in worker'[w].toDelete : k \in Cids /\ Listed(k) /\ HashOf[k] \in store'
        BY <2>h, <2>c, <3>2, <3>4, <4>1, <4>2
      <4> QED BY <2>f, <2>o, <3>2, <3>4, <4>3 DEF Copied
    <3> QED BY <3>3, <3>4 DEF TypeOK
  <2>4. CASE Sync(w)
    BY <2>4, <2>u DEF Sync, Move, TypeOK
  <2>5. CASE Delete(w)
    BY <2>5, <2>u DEF Delete, Move, TypeOK
  <2>6. CASE WorkerFails(w)
    BY <2>6, <2>u DEF WorkerFails, Move, TypeOK
  <2> QED BY <1>4, <2>1, <2>2, <2>3, <2>4, <2>5, <2>6 DEF Step
<1>5. CASE UNCHANGED vars
  BY <1>5 DEF vars, Copied, Listed
<1> QED BY <1>1, <1>2, <1>3, <1>4, <1>5 DEF Next, Run

LEMMA RecordedStep ==
  TypeOK /\ Control /\ Reverts /\ Workplace /\ Copied /\ Recorded /\ Restoring /\ [Next]_vars
    => Recorded'
<1> SUFFICES ASSUME TypeOK, Control, Reverts, Workplace, Copied, Recorded, Restoring,
                    [Next]_vars
             PROVE  Recorded'
  OBVIOUS
<1> USE DEF data, feed, scan, run, counts
<1>c. owned \subseteq Keys /\ \A k \in Cids : HashOf[k] \in Hashes /\ k \notin Hashes
  BY KeysAssumption DEF TypeOK
<1>l. ASSUME ~RenameBackup, NEW k, Listed(k) PROVE Listed(k)'
  BY <1>l, ListedKept
<1>s. swallowed' = "no" => swallowed = "no"
  <2>1. ASSUME NEW w \in Workers, Step(w), swallowed' = "no" PROVE swallowed = "no"
    BY <2>1 DEF Step, Take, WrapUp, Get, Put, Sync, Delete, SyncDeletes, WorkerFails, Stat, StatFails,
                Rename
  <2>2. Reader => UNCHANGED swallowed \/ swallowed' = "yes"
    BY ReaderFrame
  <2> QED BY <2>1, <2>2 DEF Next, Run, StartApply, StartRevert, LogKey, LogEnds, LogFails, Flush,
          FlushFails, EndSwap, TruncateVersion, WriteVersion, RenameBackup, EndFails, Crash,
          AddBlock, RemoveBlock, vars
<1>k. ASSUME ~RenameBackup, disk \cap store \subseteq disk' \cap store', UNCHANGED <<owned, pinned>>
      PROVE  Recorded'
  BY <1>k, <1>l, <1>s DEF Recorded
<1>1. CASE (\E how \in {"yes", "no"} : StartApply(how)) \/ (\E c \in Cids : LogKey(c)) \/ LogEnds
           \/ LogFails \/ Flush \/ FlushFails \/ TruncateVersion
  BY <1>1, <1>k DEF StartApply, LogKey, LogEnds, LogFails, Flush, FlushFails,
                    TruncateVersion, RenameBackup, End
<1>2. CASE StartRevert \/ EndSwap \/ WriteVersion
  BY <1>2, <1>k DEF StartRevert, EndSwap, WriteVersion, RenameBackup, End
<1>3. CASE EndFails \/ Crash
  <2>1. ~RenameBackup
    BY <1>3, SentinelAssumption DEF EndFails, Crash, RenameBackup, End, Control
  <2> QED BY <1>3, <1>k, <2>1 DEF EndFails, Crash, End
<1>r. CASE Reader
  <2>1. ~RenameBackup
    BY <1>r, ReaderFrame DEF RenameBackup
  <2> QED BY <1>r, <1>k, <2>1, ReaderFrame
<1>4. CASE RenameBackup
  <2> SUFFICES ASSUME NEW k \in owned'
               PROVE  \/ k \in disk' \cap store'
                      \/ /\ k \in Cids /\ HashOf[k] \in disk' \cap store'
                         /\ swallowed' = "no" => k \in pinned'
    BY DEF Recorded
  <2>1. k \in owned /\ UNCHANGED <<store, pinned, swallowed>> /\ disk' = store
    BY <1>4 DEF RenameBackup, End
  <2>2. CASE k \in Cids /\ swallowed # "no"
    BY <2>1, <2>2 DEF Recorded
  <2>4. CASE k \in Cids /\ swallowed = "no"
    <3>1. k \in store \/ (HashOf[k] \in disk \cap store /\ Missed(k))
      BY <1>4, <2>1, <2>4 DEF RenameBackup, Control, Restoring
    <3> QED BY <2>1, <2>4, <3>1 DEF Missed
  <2>3. CASE k \notin Cids
    BY <2>1, <2>3 DEF Recorded
  <2> QED BY <2>2, <2>3, <2>4
<1>5. ASSUME NEW w \in Workers, Step(w) PROVE Recorded'
  <2>f. UNCHANGED <<owned, pinned, backup>> /\ pc = "swap"
    BY <1>5, StepFrame
  <2>r. ~RenameBackup
    BY <2>f DEF RenameBackup
  <2>1. CASE Delete(w) /\ worker[w].toDelete # {}
    <3>1. PICK x \in worker[w].toDelete : store' = store \ {x}
      BY <2>1 DEF Delete
    <3>2. /\ x \in Cids /\ Listed(x) /\ HashOf[x] \in store
          /\ HashOf[x] \in disk /\ UNCHANGED disk
      BY <2>1 DEF Delete, At, Copied
    <3> QED BY <1>c, <1>l, <1>s, <2>f, <2>r, <3>1, <3>2 DEF Recorded
  <2>2. CASE Rename(w) /\ worker[w].cid \in store
    <3> DEFINE c == worker[w].cid
    <3>1. /\ store' = (store \ {c}) \cup {HashOf[c]}
          /\ disk' = (disk \ {c}) \cup {HashOf[c]}
      BY <2>2 DEF Rename
    <3>2. fast = "yes" /\ worker[w].at \in Holding
      BY <2>2 DEF Rename, At, Workplace, Holding
    <3>3. c \in Cids /\ Listed(c)
      BY <3>2 DEF Workplace, Reverts, TypeOK
    <3> HIDE DEF c
    <3> QED BY <1>c, <1>l, <1>s, <2>f, <2>r, <3>1, <3>3 DEF Recorded
  <2>3. CASE ~(Delete(w) /\ worker[w].toDelete # {}) /\ ~(Rename(w) /\ worker[w].cid \in store)
    <3>1. disk \cap store \subseteq disk' \cap store'
      BY <1>5, <2>3 DEF Step, Take, WrapUp, Get, Put, Sync, Delete, SyncDeletes, WorkerFails, Stat,
                        StatFails, Rename
    <3> QED BY <1>k, <2>f, <2>r, <3>1
  <2> QED BY <2>1, <2>2, <2>3
<1>6. ASSUME NEW x \in Keys, AddBlock(x) PROVE Recorded'
  <2>r. ~RenameBackup
    BY <1>6 DEF RenameBackup, AddBlock
  <2>1. disk \cap store \subseteq disk' \cap store' /\ owned' = owned \cup {x}
        /\ pinned \subseteq pinned'
    BY <1>6 DEF AddBlock
  <2>2. \/ x \in disk' \cap store'
        \/ x \in Cids /\ HashOf[x] \in disk' \cap store' /\ x \in pinned'
    BY <1>6 DEF AddBlock
  <2> QED BY <1>l, <1>s, <2>r, <2>1, <2>2 DEF Recorded
<1>7. ASSUME NEW h \in Hashes, RemoveBlock(h) PROVE Recorded'
  <2>r. ~RenameBackup
    BY <1>7 DEF RenameBackup, RemoveBlock
  <2> SUFFICES ASSUME NEW k \in owned'
               PROVE  \/ k \in disk' \cap store'
                      \/ /\ k \in Cids /\ HashOf[k] \in disk' \cap store'
                         /\ swallowed' = "no" => Listed(k)' \/ k \in pinned'
    BY DEF Recorded
  <2>1. /\ k \in owned /\ k # h /\ (k \in Cids => HashOf[k] # h)
        /\ store' = store \ {h} /\ disk' = disk \ {h}
        /\ k \in pinned => k \in pinned'
    BY <1>7 DEF RemoveBlock
  <2> QED BY <1>l, <1>s, <2>r, <2>1 DEF Recorded
<1>8. CASE UNCHANGED vars
  BY <1>8 DEF vars, Recorded, Listed
<1> QED BY <1>1, <1>2, <1>3, <1>r, <1>4, <1>5, <1>6, <1>7, <1>8 DEF Next, Run

\* A CID stays ahead until the worker that has it puts it down.
LEMMA AheadKept ==
  ASSUME TypeOK, Control, NEW w \in Workers, Step(w), NEW k \in Cids, Ahead(k)
  PROVE  \/ Ahead(k)'
         \/ worker[w].cid = k /\ worker[w].at \in Holding /\ worker'[w].at \notin Holding
<1> USE DEF data, feed, scan, run, counts
<1>f. /\ UNCHANGED <<backup, line>> /\ (Take(w) \/ UNCHANGED queue)
      /\ \A v \in Workers \ {w} : worker'[v] = worker[v]
  BY StepFrame
<1>1. ASSUME NEW v \in Workers \ {w}, worker[v].at \in Holding, worker[v].cid = k
      PROVE  Ahead(k)'
  BY <1>f, <1>1 DEF Ahead
<1>2. CASE ~Take(w)
  <2>1. worker'[w].cid = worker[w].cid
    BY <1>2 DEF Step, WrapUp, Get, Put, Sync, Delete, SyncDeletes, WorkerFails, Stat, StatFails,
                Rename, Move, TypeOK
  <2> QED BY <1>f, <1>1, <1>2, <2>1 DEF Ahead
<1>3. CASE Take(w)
  <2>1. worker[w].at = "take" /\ queue # <<>> /\ queue' = Tail(queue)
    BY <1>3 DEF Take, At
  <2>2. worker'[w].cid = Head(queue) /\ worker'[w].at \in {"stat", "get"}
    BY <1>3 DEF Take, TypeOK
  <2>3. CASE \E i \in DOMAIN queue : queue[i] = k
    <3>1. PICK i \in DOMAIN queue : queue[i] = k
      BY <2>3
    <3>2. CASE i = 1
      BY <2>1, <2>2, <3>1, <3>2, Received DEF Ahead, Holding
    <3>3. CASE i # 1
      BY <2>1, <3>1, <3>3, Received DEF Ahead
    <3> QED BY <3>2, <3>3
  <2> QED BY <1>f, <1>1, <2>1, <2>3 DEF Ahead, Holding
<1> QED BY <1>2, <1>3

\* What the reader has still to read is in the channel when it has read it.
LEMMA AheadSent ==
  ASSUME TypeOK, Control, Reader, swallowed' = "no", NEW k \in Cids
  PROVE  Ahead(k) \/ k \in walk => Ahead(k)' \/ k \in walk'
<1> USE DEF data, feed, scan, run, counts
<1>f. /\ UNCHANGED <<backup, worker>> /\ backup \in Files /\ Len(backup.lines) \in Nat
      /\ line \in Nat
  BY ReaderFrame DEF Control, TypeOK, Files
<1>1. CASE ReadLine
  <2>1. backup.lines[line] \in Cids \cup {Torn} /\ line' = line + 1 /\ UNCHANGED walk
    BY <1>1, <1>f DEF ReadLine, TypeOK, Files
  <2>2. ASSUME NEW i \in DOMAIN queue, queue[i] = k PROVE Ahead(k)'
    BY <1>1, <2>1, <2>2, Sent DEF ReadLine, Ahead
  <2>3. ASSUME NEW i \in DOMAIN backup.lines, i >= line, backup.lines[i] = k PROVE Ahead(k)'
    <3>1. i \in Nat
      BY <1>f DEF Files
    <3>2. CASE i # line
      BY <1>f, <2>1, <2>3, <3>1, <3>2 DEF Ahead
    <3>3. CASE i = line
      <4>1. Send(k)
        BY <1>1, <2>3, <3>3, SentinelAssumption DEF ReadLine
      <4> QED BY <4>1, Sent DEF Ahead
    <3> QED BY <3>2, <3>3
  <2> QED BY <1>f, <2>1, <2>2, <2>3 DEF Ahead
<1>2. ASSUME NEW c \in Cids, SendPin(c) PROVE Ahead(k) \/ k \in walk => Ahead(k)' \/ k \in walk'
  <2>1. Send(c) /\ walk' = walk \ {c} /\ UNCHANGED line
    BY <1>2 DEF SendPin
  <2> QED BY <1>f, <2>1, Sent DEF Ahead
<1>3. CASE CloseChannel
  BY <1>3, <1>f DEF CloseChannel, Ahead
<1> QED BY <1>1, <1>2, <1>3 DEF Reader, ReaderFails

\* When all workers are done nothing is ahead.
LEMMA NothingAhead ==
  ASSUME TypeOK, Control, Workplace, pc = "swap", swallowed = "no",
         \A w \in Workers : worker[w].at = "done"
  PROVE  walk = {} /\ \A k : ~Ahead(k)
<1>1. PICK w \in Workers : worker[w].at = "done"
  BY UniverseAssumption
<1>2. line > Len(backup.lines) /\ walk = {} /\ queue = <<>>
  BY <1>1 DEF Workplace, Ended
<1>3. backup.lines \in Lines /\ line \in Nat
  BY DEF Control, TypeOK, Files, Lines
<1> QED BY <1>2, <1>3 DEF Ahead, Holding, Lines

LEMMA ApplyingStep ==
  TypeOK /\ Control /\ Workplace /\ Copied /\ Recorded /\ Applying /\ [Next]_vars => Applying'
<1> SUFFICES ASSUME TypeOK, Control, Workplace, Copied, Recorded, Applying, [Next]_vars,
                    op' = "apply", NEW k \in (owned \cap Cids)'
             PROVE  /\ pc' \in {"log", "flush"} =>
                         \/ HashOf[k] \in store'
                         \/ k \in store' /\ (k \in found' \/ \E i \in DOMAIN buf' : buf'[i] = k)
                    /\ errored' = "no" /\ swallowed' = "no" /\ Whole(backup') =>
                         /\ pc' = "swap" => HashOf[k] \in store' \/ (k \in store' /\ Ahead(k)')
                         /\ pc' \in {"truncate", "write"} \/ outcome' = "applied"
                              => HashOf[k] \in store'
  BY DEF Applying, Whole
<1> USE DEF data, feed, scan, run, counts
<1>c. k \in Cids /\ HashOf[k] \in Hashes /\ Cids \cap Hashes = {}
  BY KeysAssumption
<1>1. ASSUME NEW how \in {"yes", "no"}, StartApply(how) PROVE pc' = "log" /\ outcome' = "none"
                    /\ (HashOf[k] \in store' \/ (k \in store' /\ k \in found'))
  BY <1>1 DEF StartApply, Recorded
<1>2. CASE StartRevert
  BY <1>2 DEF StartRevert
<1>3. CASE \E c \in Cids : LogKey(c)
  <2>1. PICK c \in Cids : LogKey(c)
    BY <1>3
  <2>2. /\ UNCHANGED <<store, owned, pc, outcome, op>> /\ pc = "log" /\ outcome = "none"
        /\ found' = found \ {c} /\ buf' = Append(buf, c)
    BY <2>1 DEF LogKey, Control
  <2>3. DOMAIN buf \subseteq DOMAIN buf' /\ (\A i \in DOMAIN buf : buf'[i] = buf[i])
        /\ \E i \in DOMAIN buf' : buf'[i] = c
    <3>1. buf \in Seq(Cids)
      BY DEF TypeOK
    <3>2. /\ DOMAIN buf = 1 .. Len(buf) /\ DOMAIN buf' = 1 .. Len(buf) + 1 /\ Len(buf) \in Nat
          /\ buf'[Len(buf) + 1] = c
      BY <2>2, <3>1
    <3> QED BY <2>2, <3>1, <3>2
  <2>4. HashOf[k] \in store \/ (k \in store /\ (k \in found \/ \E i \in DOMAIN buf : buf[i] = k))
    BY <2>2 DEF Applying
  <2> QED BY <2>2, <2>3, <2>4
<1>4. CASE LogEnds
  BY <1>4 DEF LogEnds, Applying, Control
<1>5. CASE LogFails \/ RenameBackup \/ EndFails
  BY <1>5 DEF LogFails, RenameBackup, EndFails, End, Forget
<1>6. CASE Crash
  BY <1>6 DEF Crash, Forget
<1>7. CASE Flush
  <2>1. /\ UNCHANGED <<store, owned, outcome, op, worker>> /\ pc = "flush" /\ outcome = "none"
        /\ line' = 1 /\ found = {} /\ pc' = "swap" /\ backup' = WriteLines(backup, buf)
        /\ backup \in Files /\ buf \in Seq(Cids)
    BY <1>7 DEF Flush, StartWorkers, Control, TypeOK
  <2>2. HashOf[k] \in store \/ (k \in store /\ \E i \in DOMAIN buf : buf[i] = k)
    BY <2>1 DEF Applying
  <2>3. CASE ~Whole(backup)
    <3>1. Continues(backup', backup)
      BY <1>7, FileKept DEF Flush, RenameBackup, Control
    <3>2. backup.lines \in Lines /\ backup'.lines \in Lines
      BY <2>1, <3>1 DEF Continues, Files, Lines
    <3>3. PICK i \in DOMAIN backup.lines : backup.lines[i] = Torn
      BY <2>3 DEF Whole
    <3>4. backup' # NoFile
      BY <3>1, SentinelAssumption DEF Continues, Files
    <3>5. i \in DOMAIN backup'.lines /\ backup'.lines[i] = Torn
      BY <3>1, <3>2, <3>3 DEF Continues, Lines
    <3>6. ~Whole(backup')
      BY <3>4, <3>5 DEF Whole
    <3> QED BY <2>1, <3>6
  <2>4. CASE Whole(backup)
    <3>1. backup.tail = "ended"
      BY <2>1, <2>4 DEF Control, Files
    <3>2. backup'.lines = backup.lines \o buf
      BY <2>1, <3>1, WriteContinues
    <3>3. ASSUME NEW i \in DOMAIN buf, buf[i] = k PROVE Ahead(k)'
      <4>1. backup.lines \in Lines /\ buf \in Lines
        BY <2>1 DEF Files, Lines
      <4>2. /\ Len(backup.lines) + i \in DOMAIN backup'.lines
            /\ backup'.lines[Len(backup.lines) + i] = k /\ Len(backup.lines) + i >= 1
        BY <3>2, <3>3, <4>1 DEF Lines
      <4> QED BY <2>1, <4>2 DEF Ahead
    <3> QED BY <2>1, <2>2, <3>3
  <2> QED BY <2>3, <2>4
<1>8. CASE FlushFails
  BY <1>8 DEF FlushFails, StartWorkers, Control
<1>15. CASE Reader
  <2>1. /\ UNCHANGED <<store, backup, pc, op, errored, owned, outcome>> /\ pc = "swap"
        /\ swallowed' = "no" => swallowed = "no"
        /\ walk' \subseteq walk
    BY <1>15, ReaderFrame
  <2>2. walk = {} /\ outcome = "none"
    BY <2>1 DEF Workplace, Control
  <2> QED BY <1>15, <1>c, <2>1, <2>2, AheadSent DEF Applying
<1>9. CASE EndSwap
  <2>1. CASE errored = "yes"
    BY <1>9, <2>1 DEF EndSwap, End, Forget
  <2>2. CASE errored # "yes"
    <3>1. /\ UNCHANGED <<store, owned, op, backup, errored, swallowed, outcome>>
          /\ pc = "swap" /\ pc' = "truncate" /\ outcome = "none"
      BY <1>9, <2>2 DEF EndSwap, Control
    <3>2. swallowed = "no" => ~Ahead(k)
      BY <1>9, NothingAhead DEF EndSwap
    <3> QED BY <3>1, <3>2 DEF Applying
  <2> QED BY <2>1, <2>2
<1>10. CASE TruncateVersion \/ WriteVersion
  <2>1. /\ UNCHANGED <<store, owned, op, backup, swallowed>> /\ pc \in {"truncate", "write"}
        /\ errored = "no" /\ pc' \in {"write", "rename", "idle"}
    BY <1>10 DEF TruncateVersion, WriteVersion, End, Forget, Control
  <2> QED BY <2>1 DEF Applying
<1>11. ASSUME NEW w \in Workers, Step(w)
       PROVE  errored' = "no" /\ swallowed' = "no" /\ Whole(backup')
                => HashOf[k] \in store' \/ (k \in store' /\ Ahead(k)')
  <2> SUFFICES ASSUME errored' = "no", swallowed' = "no", Whole(backup')
               PROVE  HashOf[k] \in store' \/ (k \in store' /\ Ahead(k)')
    OBVIOUS
  <2>1. pc = "swap" /\ UNCHANGED <<owned, op, backup>>
    BY <1>11, StepFrame
  <2>2. errored = "no" /\ swallowed = "no"
    BY <1>11 DEF Step, Take, WrapUp, Get, Put, Sync, Delete, SyncDeletes, WorkerFails, Stat, StatFails,
                 Rename, TypeOK
  <2>3. HashOf[k] \in store \/ (k \in store /\ Ahead(k))
    BY <2>1, <2>2 DEF Applying
  <2>4. HashOf[k] \in store => HashOf[k] \in store'
    BY <1>11, <1>c, HashesKept
  <2>5. k \in store /\ HashOf[k] \notin store' => k \in store'
    <3>1. CASE Delete(w)
      BY <2>4, <3>1 DEF Delete, Copied
    <3>2. CASE Rename(w)
      BY <3>2 DEF Rename
    <3> QED BY <1>11, <3>1, <3>2 DEF Step, Take, WrapUp, Get, Put, Sync, SyncDeletes, WorkerFails, Stat,
                                     StatFails
  <2>6. ASSUME k \in store, worker[w].cid = k, worker[w].at \in Holding,
               worker'[w].at \notin Holding
        PROVE  HashOf[k] \in store'
    <3>1. CASE Get(w)
      BY <2>1, <2>6, <3>1 DEF Get, From, At, Move, Holding, TypeOK
    <3>2. CASE Put(w)
      BY <2>1, <2>6, <3>2 DEF Put, To
    <3>3. CASE Stat(w)
      BY <2>6, <3>3 DEF Stat, At, Move, Holding, TypeOK
    <3>4. CASE Rename(w)
      BY <2>6, <3>4 DEF Rename
    <3>5. CASE WorkerFails(w)
      BY <3>5 DEF WorkerFails
    <3>6. CASE StatFails(w)
      BY <3>6 DEF StatFails
    <3>7. CASE Take(w) \/ WrapUp(w) \/ Sync(w) \/ Delete(w) \/ SyncDeletes(w)
      BY <2>6, <3>7 DEF Take, WrapUp, Sync, Delete, SyncDeletes, At, Holding
    <3> QED BY <1>11, <3>1, <3>2, <3>3, <3>4, <3>5, <3>6, <3>7 DEF Step
  <2> QED BY <1>11, <1>c, <2>3, <2>4, <2>5, <2>6, AheadKept
<1>12. ASSUME NEW x \in Keys, AddBlock(x),
              errored' = "no", swallowed' = "no", Whole(backup'), outcome' = "applied"
       PROVE  HashOf[k] \in store'
  <2>1. k = x \/ k \in owned
    BY <1>12 DEF AddBlock
  <2>2. version = 12 /\ store \subseteq store' /\ (k = x => HashOf[k] \in store')
    BY <1>12, <1>c DEF AddBlock, Control
  <2>3. k \in owned => HashOf[k] \in store
    BY <1>12 DEF AddBlock, Applying
  <2> QED BY <2>1, <2>2, <2>3
<1>13. ASSUME NEW h \in Hashes, RemoveBlock(h),
              errored' = "no", swallowed' = "no", Whole(backup'), outcome' = "applied"
       PROVE  HashOf[k] \in store'
  <2>1. k \in owned /\ HashOf[k] # h /\ store' = store \ {h}
    BY <1>13, <1>c DEF RemoveBlock
  <2>2. HashOf[k] \in store
    BY <1>13, <2>1 DEF RemoveBlock, Applying
  <2> QED BY <2>1, <2>2
<1>14. CASE UNCHANGED vars
  BY <1>14 DEF vars, Applying, Ahead
<1> QED
  BY <1>1, <1>2, <1>3, <1>4, <1>5, <1>6, <1>7, <1>8, <1>9, <1>10, <1>11, <1>12, <1>13, <1>14,
     <1>15, StepFrame
     DEF Next, Run, StartApply, AddBlock, RemoveBlock, Control

LEMMA RestoringStep ==
  TypeOK /\ Control /\ Reverts /\ Workplace /\ Copied /\ Recorded /\ Restoring /\ [Next]_vars
    => Restoring'
<1> SUFFICES ASSUME TypeOK, Control, Reverts, Workplace, Copied, Recorded, Restoring, [Next]_vars,
                    op' = "revert", errored' = "no", swallowed' = "no", NEW k \in (owned \cap Cids)'
             PROVE  /\ pc' = "swap" =>
                         \/ k \in store'
                         \/ /\ HashOf[k] \in disk' \cap store'
                            /\ Ahead(k)' \/ k \in walk' \/ Missed(k)'
                    /\ pc' \in {"truncate", "write", "rename"} \/ outcome' = "reverted" =>
                         k \in store' \/ (HashOf[k] \in disk' \cap store' /\ Missed(k)')
  BY DEF Restoring
<1> USE DEF data, feed, scan, run, counts
<1>c. k \in Cids /\ HashOf[k] \in Hashes /\ Cids \cap Hashes = {}
  BY KeysAssumption
<1>1. CASE (\E how \in {"yes", "no"} : StartApply(how)) \/ (\E c \in Cids : LogKey(c)) \/ LogEnds
           \/ LogFails \/ Flush \/ FlushFails
  BY <1>1 DEF StartApply, LogKey, LogEnds, LogFails, Flush, FlushFails, Control
<1>2. CASE StartRevert
  <2>1. CASE backup = NoFile
    BY <1>2, <2>1 DEF StartRevert, End, Forget
  <2>2. CASE backup # NoFile
    <3>1. /\ UNCHANGED <<store, disk, owned, pinned, backup, line, worker>>
          /\ pc' = "swap" /\ outcome' = "none" /\ walk' = pinned \cap InBlocks /\ line = 1
      BY <1>2, <2>2 DEF StartRevert, StartWorkers, Control
    <3>2. ASSUME Listed(k) PROVE Ahead(k)'
      <4>1. backup.lines \in Lines
        BY <2>2 DEF TypeOK, Files, Lines
      <4> QED BY <3>1, <3>2, <4>1 DEF Listed, Ahead, Lines
    <3>3. ASSUME k \in pinned PROVE k \in walk' \/ Missed(k)'
      BY <3>1, <3>3 DEF Missed
    <3>4. swallowed = "no"
      BY <1>2 DEF StartRevert
    <3> QED BY <1>c, <3>1, <3>2, <3>3, <3>4 DEF Recorded
  <2> QED BY <2>1, <2>2
<1>3. CASE Reader
  <2>1. /\ UNCHANGED <<store, disk, owned, pinned, op, errored, pc, outcome>>
        /\ pc = "swap" /\ swallowed = "no" /\ outcome = "none"
    BY <1>3, ReaderFrame DEF Control
  <2> QED BY <1>3, <1>c, <2>1, AheadSent DEF Restoring, Missed
<1>4. CASE EndSwap
  <2>1. CASE errored = "yes"
    BY <1>4, <2>1 DEF EndSwap, End, Forget
  <2>2. CASE errored # "yes"
    <3>1. /\ UNCHANGED <<store, disk, owned, pinned, op, errored, swallowed, outcome>>
          /\ pc = "swap" /\ pc' = "truncate" /\ outcome = "none"
      BY <1>4, <2>2 DEF EndSwap, Control
    <3>2. ~Ahead(k) /\ walk = {}
      BY <1>4, NothingAhead DEF EndSwap
    <3> QED BY <3>1, <3>2 DEF Restoring, Missed
  <2> QED BY <2>1, <2>2
<1>5. CASE TruncateVersion \/ WriteVersion
  <2>1. /\ UNCHANGED <<store, disk, owned, pinned, op, swallowed>>
        /\ pc \in {"truncate", "write"} /\ errored = "no" /\ pc' \in {"write", "rename"}
    BY <1>5 DEF TruncateVersion, WriteVersion, Control
  <2> QED BY <2>1 DEF Restoring, Missed
<1>6. CASE RenameBackup
  <2>1. /\ UNCHANGED <<store, owned, pinned, op, swallowed>> /\ disk' = store
        /\ pc = "rename" /\ errored = "no" /\ pc' = "idle"
    BY <1>6 DEF RenameBackup, End, Forget, Control
  <2> QED BY <2>1 DEF Restoring, Missed
<1>7. CASE EndFails \/ Crash
  BY <1>7 DEF EndFails, Crash, End, Forget
<1>8. ASSUME NEW w \in Workers, Step(w)
      PROVE  \/ k \in store'
             \/ /\ HashOf[k] \in disk' \cap store'
                /\ Ahead(k)' \/ k \in walk' \/ Missed(k)'
  <2>1. pc = "swap" /\ UNCHANGED <<owned, pinned, op, backup>>
    BY <1>8, StepFrame
  <2>2. errored = "no" /\ swallowed = "no"
    BY <1>8 DEF Step, Take, WrapUp, Get, Put, Sync, Delete, SyncDeletes, WorkerFails, Stat, StatFails,
                Rename, TypeOK
  <2>3. worker[w].at \notin {"stat", "rename"} /\ worker[w].toDelete = {}
    BY <2>1 DEF Reverts, Workplace, Copied
  <2>4. store \subseteq store'
    BY <1>8, <2>3 DEF Step, Take, WrapUp, Get, Put, Sync, Delete, SyncDeletes, WorkerFails, Stat, StatFails,
                      Rename, At
  <2>5. HashOf[k] \in disk \cap store => HashOf[k] \in disk'
    BY <1>8, <1>c, HashesKept
  <2>6. Missed(k) => Missed(k)'
    BY <1>8, <2>1 DEF Missed, Step, Take, Get, Put, Sync, Delete, SyncDeletes, WorkerFails, Stat,
                      StatFails, Rename
  <2>7. k \in walk => k \in walk'
    BY <1>8, StepFrame
  <2>8. ASSUME k \notin store, HashOf[k] \in disk \cap store, worker[w].cid = k,
               worker[w].at \in Holding, worker'[w].at \notin Holding
        PROVE  k \in store'
    <3>1. worker[w].at \in {"get", "put"}
      BY <2>3, <2>8 DEF Holding
    <3>2. CASE Get(w)
      BY <2>1, <2>8, <3>2 DEF Get, From, At, Move, Holding, TypeOK
    <3>3. CASE Put(w)
      BY <2>1, <2>8, <3>3 DEF Put, To
    <3>4. CASE WorkerFails(w)
      BY <3>4 DEF WorkerFails
    <3> QED BY <1>8, <3>1, <3>2, <3>3, <3>4 DEF Step, Take, WrapUp, Sync, Delete, SyncDeletes, Stat,
                                                StatFails, Rename, At
  <2> QED BY <1>8, <1>c, <2>1, <2>2, <2>4, <2>5, <2>6, <2>7, <2>8, AheadKept DEF Restoring
<1>9. ASSUME NEW x \in Keys, AddBlock(x), outcome' = "reverted"
      PROVE  k \in store' \/ (HashOf[k] \in disk' \cap store' /\ Missed(k)')
  <2>1. /\ version = 11 /\ store' = store \cup {x} /\ owned' = owned \cup {x}
        /\ UNCHANGED <<pinned, swallowed, op, errored, outcome>> /\ disk \subseteq disk'
    BY <1>9 DEF AddBlock, Control
  <2> QED BY <1>9, <2>1 DEF Restoring, Missed
<1>10. ASSUME NEW h \in Hashes, RemoveBlock(h) PROVE outcome' # "reverted"
  BY <1>10 DEF RemoveBlock, Control
<1>11. CASE UNCHANGED vars
  BY <1>11 DEF vars, Restoring, Missed, Ahead
<1> QED
  BY <1>1, <1>2, <1>3, <1>4, <1>5, <1>6, <1>7, <1>8, <1>9, <1>10, <1>11, StepFrame
     DEF Next, Run, AddBlock, RemoveBlock, Control

\* What the workers and the backup file are at each step, and what Apply and
\* Revert have still to do.
THEOREM InvariantHolds == Spec => [](TypeOK /\ IInv)
<1>1. Init => TypeOK /\ IInv
  <2> SUFFICES ASSUME Init PROVE TypeOK /\ IInv
    OBVIOUS
  <2>1. TypeOK
    BY WaitingTyped, BoundsAssumption DEF Init, TypeOK
  <2>2. Control /\ Reverts
    BY DEF Init, Control, Reverts
  <2>3. Workplace /\ Copied
    <3>1. Len(<<>>) <= Capacity /\ DOMAIN <<>> = {}
      BY UniverseAssumption
    <3>2. \A w \in Workers : worker[w].at = "take" /\ worker[w].toDelete = {}
      BY DEF Init, Waiting
    <3>3. queue = <<>> /\ walk = {} /\ pc # "swap"
      BY DEF Init
    <3> QED BY <3>1, <3>2, <3>3 DEF Workplace, Copied, Holding, Ended
  <2>4. Recorded /\ Applying /\ Restoring
    BY DEF Init, Recorded, Applying, Restoring
  <2> QED BY <2>1, <2>2, <2>3, <2>4 DEF IInv
<1>2. TypeOK /\ IInv /\ [Next]_vars => (TypeOK /\ IInv)'
  BY TypeStep, ControlStep, RevertsStep, WorkplaceStep, CopiedStep, RecordedStep, ApplyingStep,
     RestoringStep DEF IInv
<1> QED BY <1>1, <1>2, PTL DEF Spec

\* The type invariant, of runs, workers and the backup file.
THEOREM TypeCorrect == Spec => []TypeOK
BY InvariantHolds, PTL

\* No block is lost, whatever the workers, an error or a crash may do to it
\* between the copy and the deletion, in Apply and in Revert.
THEOREM NoBlockIsLost == Spec => []BlocksSurvive
<1>1. TypeOK /\ IInv => BlocksSurvive
  <2> SUFFICES ASSUME TypeOK, IInv, NEW k \in owned
               PROVE  \E held \in disk \cap store :
                        (IF held \in Cids THEN HashOf[held] ELSE held)
                          = IF k \in Cids THEN HashOf[k] ELSE k
    BY DEF BlocksSurvive
  <2>1. \/ k \in disk \cap store
        \/ k \in Cids /\ HashOf[k] \in disk \cap store
    BY DEF IInv, Recorded
  <2>2. k \in Cids => HashOf[k] \notin Cids
    BY KeysAssumption
  <2> QED BY <2>1, <2>2
<1> QED BY <1>1, InvariantHolds, PTL

\* A run of Apply or Revert that reports success has moved or restored all
\* that the owner relies on, however many runs failed or crashed before it.
THEOREM SuccessIsTrue == Spec => []CompleteUnlessTorn
<1>1. TypeOK /\ IInv => CompleteUnlessTorn
  <2> SUFFICES ASSUME TypeOK, IInv, Whole(backup), swallowed = "no", pinned \subseteq InBlocks,
                      outcome \in {"applied", "reverted"}, NEW k \in owned
               PROVE  (IF k \in Cids /\ version = 12 THEN HashOf[k] ELSE k) \in store
    BY DEF CompleteUnlessTorn, SuccessIsComplete, Readable
  <2>1. CASE k \notin Cids
    BY <2>1 DEF IInv, Recorded
  <2>2. CASE k \in Cids /\ outcome = "applied"
    BY <2>2 DEF IInv, Control, Applying
  <2>3. CASE k \in Cids /\ outcome = "reverted"
    BY <2>3 DEF IInv, Control, Restoring, Missed
  <2> QED BY <2>1, <2>2, <2>3
<1> QED BY <1>1, InvariantHolds, PTL

\* Revert fails by errors only: what earlier runs left in the backup file and
\* what was removed since does not hold it up.
THEOREM RevertsEndWell == Spec => []RevertsSucceed
<1>1. TypeOK /\ IInv => RevertsSucceed
  BY DEF IInv, Reverts, RevertsSucceed, TypeOK
<1> QED BY <1>1, InvariantHolds, PTL

=============================================================================

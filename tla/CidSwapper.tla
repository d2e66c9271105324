----------------------------- MODULE CidSwapper -----------------------------
(***************************************************************************)
(* Migration 11-to-12: every block stored under a CIDv1 is moved to the    *)
(* key of its multihash.  Apply first logs the CIDv1 keys it finds to the  *)
(* backup file (the dry run), then moves what the file lists; Revert       *)
(* copies back what the file lists, and what the pins and MFS refer to.    *)
(* The moves are made by concurrent workers (runWorkers), to which a       *)
(* reader sends them through a bounded channel (scanAndSwap).              *)
(*                                                                         *)
(* A block is determined by its multihash, so the datastore is the set of  *)
(* its keys.  `store' is what the program sees, `disk' what has reached    *)
(* the disk: a crash may undo, key by key, whatever has not been synced.   *)
(* A line of the backup file is the CID in it, or Torn: a line cut short,  *)
(* and the line it was joined with by the next append (the key of such a   *)
(* line is below a directory that does not exist, so it is never found; a  *)
(* line that cannot be parsed is the last one, so stopping skips nothing). *)
(* The repository's lock makes the runs exclusive: there is one at a time. *)
(***************************************************************************)
EXTENDS Integers, Sequences

CONSTANTS
  Cids,       \* keys of CIDv1s
  Hashes,     \* keys of multihashes, which are the CIDv0s as well
  HashOf,     \* the multihash of a CIDv1
  InBlocks,   \* the CIDv1s below /blocks, the others are below /filestore
  Workers,    \* NWorkers of them
  Capacity,   \* of the channel; 1000 in the code
  NoFile, Torn,
  MayFail,    \* the operations that may fail
  MaxCrashes, MaxErrors,
  MaxUses     \* bound on the blocks the daemon adds and removes

Keys == Cids \cup Hashes

Operations == {"query", "flush", "get", "put", "sync", "delete", "stat", "rename",
               "read", "walk", "writeVersion", "renameBackup"}

ASSUME KeysAssumption ==
  /\ Cids \cap Hashes = {}
  /\ HashOf \in [Cids -> Hashes]
  /\ InBlocks \subseteq Cids
  /\ \A c, d \in Cids : HashOf[c] = HashOf[d] => (c \in InBlocks <=> d \in InBlocks)
ASSUME UniverseAssumption == Cids # {} /\ Workers # {} /\ Capacity \in Nat \ {0}
ASSUME SentinelAssumption ==
  Torn \notin Cids /\ NoFile \notin [lines: Seq(Cids \cup {Torn}), tail: {"ended", "open"}]
ASSUME BoundsAssumption ==
  /\ MayFail \subseteq Operations
  /\ MaxCrashes \in Nat /\ MaxErrors \in Nat /\ MaxUses \in Nat

VARIABLES
  version,
  store, disk,
  backup,     \* the backup file: [lines, tail], tail tells whether the last line has ended
  pinned,     \* the CIDv1s that pins and MFS refer to
  \* the run in progress
  pc, op,
  fast,       \* whether the blocks are moved by renaming their files
  found, buf, \* dry run: keys still to log, and lines written to the buffer
  line, walk, \* next line to read, and pinned CIDs still to send
  reader,     \* whether the reader is at work, or has closed the channel
  queue,      \* what is in the channel
  worker,     \* each worker's position, current CID and toDelete
  errored,    \* whether a worker has counted an error
  \* observation only
  owned,      \* the CIDs, of either version, whose blocks the owner relies on
  outcome,    \* how the last run ended
  swallowed,  \* whether an error has been logged and forgotten
  crashes, errors, uses

data == <<version, store, disk, backup, pinned>>
feed == <<line, walk, reader, queue>>
scan == <<found, buf, feed>>
run == <<pc, op, fast, scan, worker, errored>>
counts == <<swallowed, crashes, errors, uses>>
vars == <<version, store, disk, backup, pinned, pc, op, fast, found, buf, line, walk,
          reader, queue, worker, errored, owned, outcome, swallowed, crashes, errors, uses>>

Blank == 0                 \* the version file, truncated

Files == [lines: Seq(Cids \cup {Torn}), tail: {"ended", "open"}]

Ats == {"take", "get", "put", "sync", "delete", "stat", "rename",
        "lastSync", "lastDelete", "deleteSync", "done"}

Waiting == [w \in Workers |-> [at |-> "take", cid |-> CHOOSE c \in Cids : TRUE, toDelete |-> {}]]

TypeOK ==
  /\ version \in {11, 12, Blank}
  /\ store \subseteq Keys
  /\ disk \subseteq Keys
  /\ backup \in Files \cup {NoFile}
  /\ pinned \subseteq Cids
  /\ pc \in {"idle", "log", "flush", "swap", "truncate", "write", "rename"}
  /\ op \in {"apply", "revert"}
  /\ fast \in {"yes", "no"}
  /\ found \subseteq Cids
  /\ buf \in Seq(Cids)
  /\ line \in Nat \ {0}
  /\ walk \subseteq Cids
  /\ reader \in {"reading", "closed"}
  /\ queue \in Seq(Cids)
  /\ worker \in [Workers -> [at: Ats, cid: Cids, toDelete: SUBSET Keys]]
  /\ errored \in {"yes", "no"}
  /\ owned \subseteq Keys
  /\ outcome \in {"none", "applied", "reverted", "error"}
  /\ swallowed \in {"yes", "no"}
  /\ crashes \in 0 .. MaxCrashes /\ errors \in 0 .. MaxErrors /\ uses \in 0 .. MaxUses

\* A repository of version 11 with any blocks, under CIDs of both versions.
Init ==
  /\ version = 11
  /\ store \in SUBSET Keys
  /\ disk = store /\ owned = store
  /\ backup = NoFile
  /\ pinned = {}
  /\ pc = "idle" /\ op = "apply" /\ fast = "no"
  /\ found = {} /\ buf = <<>> /\ line = 1 /\ walk = {}
  /\ reader = "closed" /\ queue = <<>>
  /\ worker = Waiting
  /\ errored = "no"
  /\ outcome = "none"
  /\ swallowed = "no" /\ crashes = 0 /\ errors = 0 /\ uses = 0

-----------------------------------------------------------------------------
(* The backup file                                                         *)

\* The file after the lines s have been appended to it: the first of them
\* goes to the end of a line that was cut short.
WriteLines(f, s) ==
  IF s = <<>> THEN f
  ELSE [lines |-> f.lines \o (IF f.tail = "open" THEN Tail(s) ELSE s), tail |-> "ended"]

CutShort(f) ==
  IF f.tail = "open" THEN f ELSE [lines |-> Append(f.lines, Torn), tail |-> "open"]

\* What may have reached the file of the lines s: all the lines up to some
\* point, and perhaps, after at least `whole' of them, a part of the next.
Partly(f, s, whole) ==
  {WriteLines(f, SubSeq(s, 1, n)) : n \in 0 .. Len(s)}
    \cup {CutShort(WriteLines(f, SubSeq(s, 1, n))) : n \in whole .. Len(s) - 1}

-----------------------------------------------------------------------------
(* The workers                                                             *)

\* The keys that a swap of CID c moves between: Revert exchanges them.
From(c) == IF op = "apply" THEN c ELSE HashOf[c]
To(c) == IF op = "apply" THEN HashOf[c] ELSE c

At(w, where) == pc = "swap" /\ worker[w].at = where
Move(w, where) == worker' = [worker EXCEPT ![w].at = where]

Fail(what) == what \in MayFail /\ errors < MaxErrors /\ errors' = errors + 1

\* The process is gone, and with it its variables.
Forget == /\ pc' = "idle" /\ fast' = "no" /\ errored' = "no"
          /\ found' = {} /\ buf' = <<>> /\ line' = 1 /\ walk' = {}
          /\ reader' = "closed" /\ queue' = <<>>
          /\ worker' = Waiting

\* A run returns; the deferred m.dstore.Close() flushes the datastore.
End(how) == Forget /\ outcome' = how /\ disk' = store

-----------------------------------------------------------------------------
(* Mistakes the properties must catch                                      *)

\* Old keys deleted before the new ones are known to be on disk.
SyncForgotten(w) ==
  /\ At(w, "sync") \/ At(w, "lastSync")
  /\ Move(w, IF At(w, "sync") THEN "delete" ELSE "lastDelete")
  /\ UNCHANGED <<data, pc, op, fast, scan, errored, owned, outcome, counts>>

\* Revert deletes what it has copied.
PutMoving(w) ==
  /\ At(w, "put")
  /\ LET c == worker[w].cid IN
       /\ store' = store \cup {To(c)}
       /\ worker' = [worker EXCEPT ![w].toDelete = @ \cup {From(c)}, ![w].at = "take"]
  /\ UNCHANGED <<version, disk, backup, pinned, pc, op, fast, scan, errored, owned,
                 outcome, counts>>

\* A block that is not there is an error.
GetStrict(w) ==
  /\ At(w, "get")
  /\ IF From(worker[w].cid) \in store
     THEN Move(w, "put") /\ UNCHANGED errored
     ELSE Move(w, "take") /\ errored' = "yes"
  /\ UNCHANGED <<data, pc, op, fast, scan, owned, outcome, counts>>

\* A reader that ends early does not close the channel.
ReaderFailsOpen ==
  /\ pc = "swap" /\ reader = "reading"
  /\ Fail(IF line <= Len(backup.lines) THEN "read" ELSE "walk")
  /\ reader' = "gone"
  /\ walk' = {}
  /\ swallowed' = "yes"
  /\ UNCHANGED <<data, pc, op, fast, found, buf, line, queue, worker, errored, owned, outcome,
                 crashes, uses>>

\* Revert restores only what the backup file lists.
StartRevertBlind ==
  /\ pc = "idle" /\ version = 12 /\ backup # NoFile
  /\ op' = "revert" /\ pc' = "swap" /\ outcome' = "none" /\ reader' = "reading"
  /\ UNCHANGED <<data, fast, found, buf, line, walk, queue, worker, errored, owned, counts>>

-----------------------------------------------------------------------------
(* Apply                                                                   *)

\* Lock, CheckVersion, open the datastore and the backup file, and query the
\* CIDv1 keys.  A run that is refused changes nothing.
StartApply(how) ==
  /\ pc = "idle"
  /\ version = 11
  /\ backup' = IF backup = NoFile THEN [lines |-> <<>>, tail |-> "ended"] ELSE backup
  /\ pc' = "log" /\ op' = "apply" /\ fast' = how /\ outcome' = "none"
  /\ found' = store \cap Cids /\ buf' = <<>>
  /\ UNCHANGED <<version, store, disk, pinned, feed, worker, errored, owned, counts>>

\* prepareWorker: some worker hands the next key to the goroutine that
\* writes to the buffer, and that drains its channel before it is waited for.
LogKey(c) ==
  /\ pc = "log" /\ c \in found
  /\ found' = found \ {c}
  /\ buf' = Append(buf, c)
  /\ UNCHANGED <<data, pc, op, fast, feed, worker, errored, owned, outcome, counts>>

LogEnds ==
  /\ pc = "log" /\ found = {}
  /\ pc' = "flush"
  /\ UNCHANGED <<data, op, fast, scan, worker, errored, owned, outcome, counts>>

\* A query result is an error: Apply returns without flushing the buffer, of
\* which whole blocks, each of many lines, have been written.
LogFails ==
  /\ pc = "log"
  /\ Fail("query")
  /\ backup' \in Partly(backup, buf, 1)
  /\ End("error")
  /\ UNCHANGED <<version, store, pinned, op, owned, swallowed, crashes, uses>>

\* scanAndSwap starts the reader and the workers.
StartWorkers ==
  /\ pc' = "swap"
  /\ found' = {} /\ buf' = <<>>
  /\ reader' = "reading"

\* buf.Flush and f.Close, then scanAndSwap reads the file.
Flush ==
  /\ pc = "flush"
  /\ backup' = WriteLines(backup, buf)
  /\ StartWorkers
  /\ UNCHANGED <<version, store, disk, pinned, op, fast, line, walk, queue, worker, errored,
                 owned, outcome, counts>>

\* The error of buf.Flush is not looked at.
FlushFails ==
  /\ pc = "flush"
  /\ Fail("flush")
  /\ backup' \in Partly(backup, buf, 0)
  /\ StartWorkers
  /\ swallowed' = "yes"
  /\ UNCHANGED <<version, store, disk, pinned, op, fast, line, walk, queue, worker, errored,
                 owned, outcome, crashes, uses>>

-----------------------------------------------------------------------------
(* Revert                                                                  *)

\* Without a backup file there is nothing to read, and Revert returns.
\* walkPinsAndMFS looks for all it finds below /blocks.
StartRevert ==
  /\ pc = "idle"
  /\ version = 12
  /\ op' = "revert"
  /\ IF backup = NoFile
     THEN End("error")
     ELSE /\ StartWorkers
          /\ walk' = pinned \cap InBlocks
          /\ outcome' = "none"
          /\ UNCHANGED <<disk, fast, line, queue, worker, errored>>
  /\ UNCHANGED <<version, store, backup, pinned, owned, counts>>

-----------------------------------------------------------------------------
(* scanAndSwap: the reader and the workers                                 *)

\* A send into the channel, which waits while the channel is full.
Send(c) == Len(queue) < Capacity /\ queue' = Append(queue, c)

\* The next line of the backup file is sent.  A Torn line is logged or leads
\* nowhere, and no error is returned for it.
ReadLine ==
  /\ pc = "swap" /\ reader = "reading"
  /\ line <= Len(backup.lines)
  /\ IF backup.lines[line] = Torn THEN UNCHANGED queue ELSE Send(backup.lines[line])
  /\ line' = line + 1
  /\ UNCHANGED <<data, pc, op, fast, found, buf, walk, reader, worker, errored, owned, outcome,
                 counts>>

\* walkPinsAndMFS, after the file
SendPin(c) ==
  /\ pc = "swap" /\ reader = "reading"
  /\ line > Len(backup.lines) /\ c \in walk
  /\ Send(c)
  /\ walk' = walk \ {c}
  /\ UNCHANGED <<data, pc, op, fast, found, buf, line, reader, worker, errored, owned, outcome,
                 counts>>

\* The reader returns; the deferred close tells the workers.
CloseChannel ==
  /\ pc = "swap" /\ reader = "reading"
  /\ line > Len(backup.lines) /\ walk = {}
  /\ reader' = "closed"
  /\ UNCHANGED <<data, pc, op, fast, found, buf, line, walk, queue, worker, errored, owned,
                 outcome, counts>>

\* The file cannot be read, there is no MFS root, or the pins cannot be
\* walked: this is logged, and the reader returns all the same.
ReaderFails ==
  /\ pc = "swap" /\ reader = "reading"
  /\ IF line <= Len(backup.lines) THEN Fail("read") ELSE op = "revert" /\ Fail("walk")
  /\ reader' = "closed"
  /\ walk' = {}
  /\ swallowed' = "yes"
  /\ UNCHANGED <<data, pc, op, fast, found, buf, line, queue, worker, errored, owned, outcome,
                 crashes, uses>>

\* A worker receives the next swap; it waits while the channel is empty.
Take(w) ==
  /\ At(w, "take")
  /\ queue # <<>>
  /\ queue' = Tail(queue)
  /\ LET c == Head(queue) IN
       worker' = [worker EXCEPT ![w].cid = c,
                    ![w].at = IF fast = "yes" /\ c \in InBlocks THEN "stat" ELSE "get"]
  /\ UNCHANGED <<data, pc, op, fast, found, buf, line, walk, reader, errored, owned, outcome,
                 counts>>

\* The channel is closed and empty: the worker wraps up.
WrapUp(w) ==
  /\ At(w, "take")
  /\ queue = <<>> /\ reader = "closed"
  /\ Move(w, "lastSync")
  /\ UNCHANGED <<data, pc, op, fast, scan, errored, owned, outcome, counts>>

\* swap: a block that is not there is skipped, ...
Get(w) ==
  /\ At(w, "get")
  /\ Move(w, IF From(worker[w].cid) \in store THEN "put" ELSE "take")
  /\ UNCHANGED <<data, pc, op, fast, scan, errored, owned, outcome, counts>>

\* ... any other is stored under its new key, and the old key remembered for
\* deletion, but not by Revert.  Each SyncSize bytes there is a sync.
Put(w) ==
  /\ At(w, "put")
  /\ LET c == worker[w].cid IN
       /\ store' = store \cup {To(c)}
       /\ \E next \in {"take", "sync"} :
            worker' = [worker EXCEPT ![w].at = next,
                         ![w].toDelete = IF op = "revert" THEN @ ELSE @ \cup {From(c)}]
  /\ UNCHANGED <<version, disk, backup, pinned, pc, op, fast, scan, errored, owned,
                 outcome, counts>>

\* syncAndDelete, during the work and at its end
Sync(w) ==
  /\ At(w, "sync") \/ At(w, "lastSync")
  /\ disk' = store
  /\ Move(w, IF At(w, "sync") THEN "delete" ELSE "lastDelete")
  /\ UNCHANGED <<version, store, backup, pinned, pc, op, fast, scan, errored, owned,
                 outcome, counts>>

Delete(w) ==
  /\ At(w, "delete") \/ At(w, "lastDelete")
  /\ IF worker[w].toDelete # {}
     THEN \E k \in worker[w].toDelete :
            /\ store' = store \ {k}
            /\ worker' = [worker EXCEPT ![w].toDelete = @ \ {k}]
     ELSE /\ Move(w, IF At(w, "delete") THEN "take" ELSE "deleteSync")
          /\ UNCHANGED store
  /\ UNCHANGED <<version, disk, backup, pinned, pc, op, fast, scan, errored, owned,
                 outcome, counts>>

\* The last sync, for the deletions.
SyncDeletes(w) ==
  /\ At(w, "deleteSync")
  /\ disk' = store
  /\ Move(w, "done")
  /\ UNCHANGED <<version, store, backup, pinned, pc, op, fast, scan, errored, owned,
                 outcome, counts>>

\* An error of the datastore is counted, and the worker goes on.
WorkerFails(w) ==
  /\ pc = "swap"
  /\ \/ worker[w].at = "get" /\ Fail("get") /\ Move(w, "take")
     \/ worker[w].at = "put" /\ Fail("put") /\ Move(w, "take")
     \/ worker[w].at = "sync" /\ Fail("sync") /\ Move(w, "take")
     \/ worker[w].at = "delete" /\ Fail("delete") /\ Move(w, "take")
     \/ worker[w].at = "lastSync" /\ Fail("sync") /\ Move(w, "deleteSync")
     \/ worker[w].at = "lastDelete" /\ Fail("delete") /\ Move(w, "deleteSync")
     \/ worker[w].at = "deleteSync" /\ Fail("sync") /\ Move(w, "done")
     \/ worker[w].at = "rename" /\ Fail("rename") /\ Move(w, "take")
  /\ errored' = "yes"
  /\ UNCHANGED <<data, pc, op, fast, scan, owned, outcome, swallowed, crashes, uses>>

\* swapWorkerFlatFS: a file that is not there is skipped ...
Stat(w) ==
  /\ At(w, "stat")
  /\ Move(w, IF worker[w].cid \in store THEN "rename" ELSE "take")
  /\ UNCHANGED <<data, pc, op, fast, scan, errored, owned, outcome, counts>>

\* ... and so is one that os.Stat or os.Mkdir fails for: this is not counted.
StatFails(w) ==
  /\ At(w, "stat")
  /\ Fail("stat")
  /\ Move(w, "take")
  /\ swallowed' = "yes"
  /\ UNCHANGED <<data, pc, op, fast, scan, errored, owned, outcome, crashes, uses>>

\* os.Rename moves the block at once, on disk as well; it fails when another
\* worker has moved it in the meantime, and that is counted.
Rename(w) ==
  /\ At(w, "rename")
  /\ LET c == worker[w].cid
         moved(keys) == (keys \ {c}) \cup {HashOf[c]}
     IN IF c \in store
        THEN store' = moved(store) /\ disk' = moved(disk) /\ UNCHANGED errored
        ELSE errored' = "yes" /\ UNCHANGED <<store, disk>>
  /\ Move(w, "take")
  /\ UNCHANGED <<version, backup, pinned, pc, op, fast, scan, owned, outcome, counts>>

\* runWorkers: wg.Wait returns when all workers have; the reader is not
\* waited for.
EndSwap ==
  /\ pc = "swap"
  /\ \A w \in Workers : worker[w].at = "done"
  /\ IF errored = "yes" THEN End("error")
     ELSE pc' = "truncate" /\ UNCHANGED <<disk, outcome, fast, scan, worker, errored>>
  /\ UNCHANGED <<version, store, backup, pinned, op, owned, counts>>

-----------------------------------------------------------------------------
(* The end of Apply and Revert                                             *)

TruncateVersion ==
  /\ pc = "truncate"
  /\ version' = Blank
  /\ pc' = "write"
  /\ UNCHANGED <<store, disk, backup, pinned, op, fast, scan, worker, errored, owned,
                 outcome, counts>>

WriteVersion ==
  /\ pc = "write"
  /\ IF op = "apply"
     THEN version' = 12 /\ End("applied")
     ELSE /\ version' = 11 /\ pc' = "rename"
          /\ UNCHANGED <<disk, outcome, fast, scan, worker, errored>>
  /\ UNCHANGED <<store, backup, pinned, op, owned, counts>>

\* Revert moves the backup file out of the way.
RenameBackup ==
  /\ pc = "rename"
  /\ backup' = NoFile
  /\ End("reverted")
  /\ UNCHANGED <<version, store, pinned, op, owned, counts>>

EndFails ==
  /\ \/ pc \in {"truncate", "write"} /\ Fail("writeVersion")
     \/ pc = "rename" /\ Fail("renameBackup")
  /\ End("error")
  /\ UNCHANGED <<version, store, backup, pinned, op, owned, swallowed, crashes, uses>>

-----------------------------------------------------------------------------
(* The environment                                                         *)

\* The machine or the process dies.
Crash ==
  /\ pc # "idle"
  /\ crashes < MaxCrashes /\ crashes' = crashes + 1
  /\ store' \in {s \in SUBSET Keys : disk \cap store \subseteq s /\ s \subseteq disk \cup store}
  /\ disk' = store'
  /\ IF pc \in {"log", "flush"} THEN backup' \in Partly(backup, buf, 0) ELSE UNCHANGED backup
  /\ Forget /\ outcome' = "none"
  /\ UNCHANGED <<version, pinned, op, owned, swallowed, errors, uses>>

\* The daemon stores a block, under the keys of the repository's version.
\* At version 12 it is pinned, so that Revert can know of it.
AddBlock(k) ==
  /\ pc = "idle" /\ version \in {11, 12}
  /\ uses < MaxUses /\ uses' = uses + 1
  /\ LET key == IF k \in Cids /\ version = 12 THEN HashOf[k] ELSE k
     IN store' = store \cup {key} /\ disk' = disk \cup {key}
  /\ pinned' = IF k \in Cids /\ version = 12 THEN pinned \cup {k} ELSE pinned
  /\ owned' = owned \cup {k}
  /\ UNCHANGED <<version, backup, run, outcome, swallowed, crashes, errors>>

\* The owner removes a block at version 12, with all that refers to it.
RemoveBlock(h) ==
  /\ pc = "idle" /\ version = 12 /\ h \in store
  /\ uses < MaxUses /\ uses' = uses + 1
  /\ LET gone == {h} \cup {c \in Cids : HashOf[c] = h}
     IN pinned' = pinned \ gone /\ owned' = owned \ gone
  /\ store' = store \ {h} /\ disk' = disk \ {h}
  /\ UNCHANGED <<version, backup, run, outcome, swallowed, crashes, errors>>

Step(w) == \/ Take(w) \/ WrapUp(w) \/ Get(w) \/ Put(w) \/ Sync(w) \/ Delete(w) \/ SyncDeletes(w)
           \/ WorkerFails(w) \/ Stat(w) \/ StatFails(w) \/ Rename(w)

Reader == ReadLine \/ (\E c \in Cids : SendPin(c)) \/ CloseChannel \/ ReaderFails

Run == \/ \E c \in Cids : LogKey(c)
       \/ LogEnds \/ LogFails \/ Flush \/ FlushFails
       \/ EndSwap \/ TruncateVersion \/ WriteVersion \/ RenameBackup \/ EndFails

Next ==
  \/ \E how \in {"yes", "no"} : StartApply(how)
  \/ StartRevert
  \/ Run
  \/ Reader
  \/ \E w \in Workers : Step(w)
  \/ Crash
  \/ \E k \in Keys : AddBlock(k)
  \/ \E h \in Hashes : RemoveBlock(h)

Spec == Init /\ [][Next]_vars

\* The system keeps running a process that has started, and its goroutines.
FairSpec == Spec /\ WF_vars(Run) /\ WF_vars(Reader) /\ \A w \in Workers : WF_vars(Step(w))

-----------------------------------------------------------------------------

\* No block is ever lost, however the run fails and whatever a crash undoes:
\* each one is on disk, and not about to be deleted, under one of its keys.
BlocksSurvive ==
  \A k \in owned :
    \E held \in disk \cap store :
      LET hash(x) == IF x \in Cids THEN HashOf[x] ELSE x IN hash(held) = hash(k)

\* The owner's blocks are found under the keys of the repository's version.
Readable ==
  \A k \in owned : (IF k \in Cids /\ version = 12 THEN HashOf[k] ELSE k) \in store

\* A run that reports success leaves every block readable: all the CIDv1s
\* have been moved, or all that Revert must restore is back.
SuccessIsComplete == outcome \in {"applied", "reverted"} => Readable

Whole(file) == file # NoFile => \A i \in DOMAIN file.lines : file.lines[i] # Torn

\* The same as long as no line of the backup file was cut short, no error was
\* merely logged and nothing that is pinned is in the filestore, which the
\* walk of the pins does not know: however many runs fail or crash before one
\* succeeds.
CompleteUnlessTorn ==
  Whole(backup) /\ swallowed = "no" /\ pinned \subseteq InBlocks => SuccessIsComplete

\* Duplicate lines, left by runs that were cut short, and blocks removed
\* since Apply do not keep Revert from succeeding: it fails by errors only.
RevertsSucceed == outcome = "error" /\ op = "revert" => errors > 0

\* Every run ends: the workers are waited for, and they wait for the reader,
\* which waits for them while the channel is full; whatever ends the reader,
\* the workers learn of it.
RunsEnd == (pc # "idle") ~> (pc = "idle")

-----------------------------------------------------------------------------
(* Why: an inductive invariant                                             *)

Ended == {"lastSync", "lastDelete", "deleteSync", "done"}
Holding == {"get", "put", "stat", "rename"}

Listed(k) == backup # NoFile /\ \E i \in DOMAIN backup.lines : backup.lines[i] = k

\* What each part of a run finds, and what is left between runs.
Control ==
  /\ pc \in {"idle", "log", "flush"} => worker = Waiting /\ walk = {} /\ line = 1
                                     /\ queue = <<>> /\ reader = "closed"
  /\ pc = "idle" => fast = "no" /\ errored = "no"
  /\ pc = "flush" => found = {}
  /\ pc \in {"truncate", "write", "rename"} => errored = "no"
  /\ walk \subseteq pinned
  /\ pc # "idle" => backup # NoFile /\ outcome = "none"
  /\ pc \in {"log", "flush"} => op = "apply"
  /\ pc = "rename" => op = "revert" /\ version = 11
  /\ version = 12 => backup # NoFile
  /\ outcome = "applied" => version = 12 /\ op = "apply"
  /\ outcome = "reverted" => version = 11 /\ op = "revert"
  /\ backup # NoFile /\ backup.tail = "open" => ~Whole(backup)

\* Revert never takes the fast path, and fails by errors only.
Reverts == op = "revert" => fast = "no" /\ (errors = 0 => errored = "no" /\ outcome # "error")

\* Where reader and workers are: the channel is closed when all has been
\* sent, unless an error was only logged; the workers wrap up when it is
\* closed and empty; and Apply's work on what the file lists.
Workplace ==
  /\ pc = "swap" /\ reader = "closed" /\ swallowed = "no" => line > Len(backup.lines) /\ walk = {}
  /\ Len(queue) <= Capacity
  /\ op = "apply" => walk = {} /\ \A i \in DOMAIN queue : Listed(queue[i])
  /\ \A w \in Workers :
       /\ worker[w].at \in {"stat", "rename"} => fast = "yes"
       /\ op = "apply" /\ worker[w].at \in Holding => Listed(worker[w].cid)
       /\ worker[w].at \in Ended => reader = "closed" /\ queue = <<>>

\* What is to be deleted has a copy, which is on disk when it is deleted.
Copied ==
  \A w \in Workers : \A k \in worker[w].toDelete :
    /\ op = "apply" /\ k \in Cids /\ Listed(k)
    /\ HashOf[k] \in store
    /\ worker[w].at \in {"delete", "lastDelete"} => HashOf[k] \in disk

\* A block has been moved only if Revert can tell which CID it had: an error
\* that was only logged lets Revert give up the file it has not read to the end.
Recorded ==
  \A k \in owned :
    \/ k \in disk \cap store
    \/ /\ k \in Cids /\ HashOf[k] \in disk \cap store
       /\ swallowed = "no" => Listed(k) \/ k \in pinned

\* Still to be swapped: not yet read, in the channel, or in the hands of a
\* worker.
Ahead(k) ==
  \/ \E i \in DOMAIN queue : queue[i] = k
  \/ \E i \in DOMAIN backup.lines : i >= line /\ backup.lines[i] = k
  \/ \E w \in Workers : worker[w].at \in Holding /\ worker[w].cid = k

\* Apply's way to success.
Applying ==
  op = "apply" =>
    \A k \in owned \cap Cids :
      /\ pc \in {"log", "flush"} =>
           HashOf[k] \in store \/ (k \in store /\ (k \in found \/ \E i \in DOMAIN buf : buf[i] = k))
      /\ errored = "no" /\ swallowed = "no" /\ Whole(backup) =>
           /\ pc = "swap" => HashOf[k] \in store \/ (k \in store /\ Ahead(k))
           /\ pc \in {"truncate", "write"} \/ outcome = "applied" => HashOf[k] \in store

\* A pin that the walk does not come by.
Missed(k) == k \in pinned \ InBlocks

\* Revert's.
Restoring ==
  op = "revert" /\ errored = "no" /\ swallowed = "no" =>
    \A k \in owned \cap Cids :
      /\ pc = "swap" =>
           k \in store \/ (HashOf[k] \in disk \cap store /\ (Ahead(k) \/ k \in walk \/ Missed(k)))
      /\ pc \in {"truncate", "write", "rename"} \/ outcome = "reverted" =>
           k \in store \/ (HashOf[k] \in disk \cap store /\ Missed(k))

IInv == Control /\ Reverts /\ Workplace /\ Copied /\ Recorded /\ Applying /\ Restoring

=============================================================================

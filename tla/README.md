# A verification project for fs-repo-migrations

fs-repo-migrations upgrades (and downgrades) the on-disk repository of an IPFS node from one
version to the next. Each step is a small program, `fs-repo-N-to-N+1`, with two operations,
`Apply` and `Revert`, that edit the repository's files in place. What makes this code hard is not
concurrency inside a program (only 11-to-12 has any) but *interruption*: every step is a sequence
of file operations, each of which may fail and between any two of which the process may die, and
the next program starts from whatever is left. The project models those sequences operation by
operation, composes the ones that share a repository, checks with TLC what survives an
interruption at every point, and proves the most important of it with TLAPS for every number of
processes, files, versions and faults.

## 1. Inventory

All sixteen migrations and the driver are modelled.

| Component | Source | State | Operations | Hard behaviour | What makes it correct |
|---|---|---|---|---|---|
| Driver | `fs-repo-migrations/main.go` | what it found, was asked for and was allowed | look, prompt, `RunMigration` | the repository changes while it waits for an answer; programs started by hand; a chain stopped halfway | never a downgrade without `--revert-ok`; never two programs at work |
| Version 0-to-1 | `fs-repo-0-to-1/migration` | `version`, `daemon.lock` | `Apply`, `Revert` | `Revert` takes one lock twice | nobody waits, not even for oneself |
| Block transfer 1-to-2 | `fs-repo-1-to-2/migration` | blocks in leveldb and in `blocks/`, `.go-ipfs` or `.ipfs` | `Apply`, `Revert` | copy and delete block by block; `RemoveAll`; the directory is renamed; two lock files | no block is lost; repeating an interrupted run completes it |
| Pins 2-to-3 | `fs-repo-2-to-3/migration` | three pin lists, the pin objects | `Apply`, `Revert` | old list removed before the version is written | the pins are where the version's daemon looks |
| Keys 3-to-4 | `fs-repo-3-to-4/migration` | names of blocks, keys of records | `Apply`, `Revert` | errors of walks dropped; both forms of a key after a kill; mangled binary keys | no block is lost, no record older than the last published is read |
| Block sharding 4-to-5 | `fs-repo-4-to-5/migration`, `go-ds-flatfs` | directories `blocks`, `blocks-v4`, `blocks-v5`, their `SHARDING` files, `revert-phase` | `Apply` with its undo steps, `Revert` in six phases, `flatfs.Move` | failures of undo steps; `-no-revert`; kill between phases; stray files | no file is lost; success means done; a failure is undone |
| Config 5-to-6, 7-to-8 | `fs-repo-5-to-6/migration`, `fs-repo-7-to-8/migration` | `version`, `config`, `config-v5` … `config-v8`, `datastore_spec`, `revert-phase` | `Apply`, phased `Revert` | a shared phase file that outlives its run; unchecked writes; a shadowed error; datastores that a step refuses halfway | a readable config remains; format and version agree; success means done |
| IPNS records 6-to-7 | `fs-repo-6-to-7/migration` | a record per key, old and new place | `Apply`, `Revert` | `Revert` drops errors; a stale copy stays in the other place | the daemon of the version reads what was published last |
| Keystore 8-to-9 | `fs-repo-8-to-9/migration` | names of key files | `Apply`, `Revert` | no lock and no version check; kills among the renames; names that look encoded | no key is lost; a second run completes the first |
| Config 9-to-10 | `fs-repo-9-to-10/migration` | `config`, `version` | `Apply`, `Revert` | error of `out.Close` dropped; `Revert` keeps the config | listeners and bootstrappers are added once, in whichever spelling they are there |
| Pins 10-to-11 | `fs-repo-10-to-11/migration` | pins below a root, pins in the datastore | `Apply`, `Revert` | errors of single pins dropped; Revert has pins in memory only | no pin is lost |
| Block keys 11-to-12 | `fs-repo-11-to-12/migration` | datastore keys (seen and synced), backup file, pins | `Apply` (dry run, swap), `Revert`, workers | workers sharing a datastore, fed by a reader through a bounded channel; unsynced writes lost in a crash; errors that are only logged; duplicate and torn backup lines | no block is lost; success means that every block is found; runs end |
| Config 12-to-13 … 15-to-16 | `fs-repo-12-to-13/migration/migration.go` and the three like it, `atomicfile` | `version`, `config`, one backup per step, temporary files, `repo.lock` | `Apply`, `Revert`, `convert` | kill between any two renames; panics; overlapping runs; edits in between; rules applied after other rules | no config converted twice, or ahead of the version; the backup is the config that was replaced; the lock is given back; what the owner set is kept |
| Lock, fcntl | `tools/lock/lock_linux_amd64.go` (and its variants), `tools/lock/lock.go`, `tools/repolock` | directory entry, inodes, kernel locks | `lockFcntl`, `unlocker.Close` | the file is unlinked while others have it open; death of a holder | exclusion; a lock nobody holds keeps nobody out |
| Lock, portable | `tools/lock/lock.go` | the lock file and the process id in it | `lockPortable`, `isStaleLock`, `lockCloser` | the file may be replaced between any two of examining it, probing its owner and removing it; a file without its owner's id | exclusion, as long as what is removed is what was examined; the file names the holder |
| Version file | `tools/mfsr/mfsr.go` | `version` | `CheckVersion`, `WriteVersion` | truncated, then written | part of every migration's module |
| Command line | `tools/go-migrate` | — | `Run` | — | its start of a program and `-no-revert` are modelled |
| Logging, vendored code | `tools/stump`, `goleveldb`, `gx`, `vendor` … | — | — | — | not modelled |

Interactions. The driver runs one program per version step; a program locks the repository,
checks the version, edits files, writes the version and unlocks. Programs communicate only through
the repository: the version file, the lock, the files that `Apply` leaves for its `Revert`
(backups, `config-vN`), and `revert-phase`, a name that three of them share. The daemon and the
owner use the repository between runs, under the same lock. Versions 0 and 1 are locked by
`daemon.lock`, the later ones by `repo.lock`.

The hazards found during the survey, each at its line, are in `PROJECT.json` under `hazards`.

## 2. Modules

### The early chain: versions 0 to 4
Four migrations with one repository, one driver and two locks; one module for each concern, and
one that composes them.

- **MigrationRun**: the version file, the directory's name, the two locks, and for each process
  `run[p]`: the program, the operation, the step it is at, and what its driver was asked for. A
  program is `Lock`, `CheckVersion`, its work, `TruncateVersion`, `WriteVersion` (the two halves of
  `ioutil.WriteFile`). `Fail` is any early end (the deferred unlock, and the end of the driver's
  list), `Succeed` passes on to the next program. `broken` records which runs have ended early and
  have not been repeated with success. `Revert` of 0-to-1 is `Lock` twice, the second of which finds
  the lock taken.
- **Blockstore**: where each block has a copy (leveldb, a hex name, a base32 name); the files
  `put-…` which a kill in flatfs' `Put` leaves behind, and because of which `Query` returns only part
  of a directory (`Listings`).
- **BlockTransfer** (1-to-2): `sanityChecks` with its `Mkdir` and `Remove`, the transfer block by
  block in either direction, `RemoveAll`, and the rename of the directory, whose failure modes
  follow from what is in the path.
- **PinTransfer** (2-to-3): `Flush` and `CleanupOldPins` (which deletes the same key three times);
  Revert list by list. Indirect pins are derived, and stand as what it takes to derive them.
- **KeyRewrite** (3-to-4): renames of the blocks, `rewriteKeys` (Get, Put, Delete) for everything
  else; `ListBlocksFails` is the dropped error of the walk; *mangled* keys are the binary keys that
  `NewKey` changes.
- **Driver**: `main` up to the prompt, `RunMigration`, which reads the version *again*, and
  programs started by hand. RunMigration itself is a library's; it is modelled from its use.
- **MigrationChain**: all of it, with `OperationFails`, `Kill` and daemons that pin and publish.
  **ChainInvariants** has its inductive invariants, **MCMigrationChain** gives the instance.

### FlatfsMigration (4-to-5)
Three directories, each a `SHARDING` file and a set of files: blocks, stray files in shard
directories, unexpected files beside them. Apply's labels `revert1`, `revertStep2`, `revert3`,
`revert4` are the states `renameBack`, `downgrade`, `undo`/`removeTemp`, `recreate`. `flatfs.Move`
(`Open`, `MoveKey`, `KeysMoved`, `CleanUp`) is shared by Apply, by its undo and by phase 2 of
Revert; `task` says for whom it runs. `OperationFails` gives, for each position, where the code goes
when that operation fails.

### PhasedConfig (5-to-6, 6-to-7, 7-to-8) and IpnsRecords
5-to-6 and 7-to-8 are in one module because they share `revert-phase`, and 6-to-7 lies between them.
Configs are abstracted to the format of the two sections that are converted, the kind of datastore
they describe, and whether the owner's settings are all there; a file may also be `Torn`. `convert`'s
write is unchecked and may leave `Torn` behind a reported success. `store` is *usual* if the
migration supports the datastore and the owner's *own* otherwise (`CanUp`, `CanDown`: another `Type` or
`NoSync`, a `Spec` with missing, unknown or different mounts); `EditStore` is the owner who changes
it, and `refused` records that an Apply has met one it does not support. Apply finds out before it has
moved the version, and renames the config back; Revert finds out in phase 1, after `os.Create`. **IpnsRecords** has the records of 6-to-7, old and new, and the
copying of one key (`ApplyForKey`, `RevertForKey`, `RevertForKeyFails`); PhasedConfig has its
control: `OpenRepo` needs a config and a specification in the new format, Apply returns the first
error, Revert none.

### Keystore (8-to-9)
A file name is abstract; the constants `Enc` and `Dec` are the codec and `Decodable` the names that
`isEncoded` accepts, with the one law the code relies on (`Dec[Enc[n]] = n`). A file's content is the
name its owner gave to the key. `ReadDir` lists the directory once, `Rename` takes the names in any
order, and, as in the code, there is neither lock nor version check, so processes work from listings
that others have made stale. `AddKey` is a daemon. `alone` records whether a run was disturbed.
**MCKeystore** gives the codec of the instances. Directories in the keystore, which both operations
skip, are left out; a missing keystore directory is the failure of `ReadDir`.

### CidSwapper (11-to-12)
A block is determined by its multihash, so the datastore is a set of keys: `store` as the program
sees it, `disk` what is synced. `Crash` keeps an arbitrary part of the difference. The dry run
(`LogKey`, `LogEnds`, `LogFails`, `Flush`, `FlushFails`) fills the backup file through a buffer;
the file is a sequence of CIDs and of `Torn` lines. The reader goroutine (`ReadLine`, `SendPin`,
`CloseChannel`) sends through `queue`, a channel of `Capacity` swaps: it waits while that is full, and a
worker that is to `Take` waits while it is empty. `WrapUp` is a worker that finds it closed, and
`EndSwap` is `wg.Wait`, which waits for the workers and not for the reader; each worker goes through `Get`, `Put`, `Sync`, `Delete` (generic datastore) or `Stat`, `Rename`
(flatfs). `WorkerFails` are the errors that are counted; `StatFails`, `FlushFails` and
`ReaderFails` are those that are logged only (`swallowed` records that one happened). `AddBlock` and
`RemoveBlock` are the daemon's use of the repository between runs. **MCCidSwapper** gives the
instances: two CIDs of one block, or of two blocks, one of them in the filestore.

### ConfigMigration (12-to-13 … 15-to-16)
The `Apply` and `Revert` of the four programs are the same but for `convert`, so one module models
all of them: *step i* is the program i-to-(i+1). A process runs one Apply or Revert of one step.
`pc[p]` is its position in the method body; each file operation is an action: `CheckVersion`,
`MakeBackup` (copy the config to a temporary file), `ConvertConfig` (second temporary file),
`CloseIn`, `TruncateVersion`/`WriteVersion`, `CloseOut` (the rename over `config`), `CloseBackup`
(the rename to the backup's name), `RenameBackup` (all of Revert's own work), `Unlock` (the deferred
`lk.Close`). `OperationFails`, `CloseFails`, `CloseInFails` and `CloseOutPanics` are the error paths:
which temporary files are aborted, when the run returns and when it panics. `Kill` may strike
anywhere. `EditConfig` is the owner or the daemon saving a config between runs. A config's content is
its last edit and how often each step has converted it. `replaced`, `edits` and `faults` only observe.

**VersionedConfig** is the abstract specification: version and config change together, in one step.
**ConfigRefinement** has the refinement mapping. While a run is between
its first visible change and the moment version and config agree again, the repository counts as
being at version `step`; the abstract step of Apply is `CloseOut`, that of Revert is `RenameBackup`.

### The late chain: versions 9 to 16
- **AddressRules**: what each `convert` makes of a config. A multiaddr is the sequence of its
  protocols, an entry that is no string is `Junk`, a setting is absent, the old default or the
  owner's. The passes of the code (append, pattern replacement with a scan from the end, removal of
  duplicates) are operators of the same names. `Names` has the protocols; all that is assumed of it is
  that it has those the rules write (`NamesAssumption`). A bootstrapper is a name too, and may be spelled with
  `/ipfs` or with `/p2p` before its peer; `Respelled` takes it to the second spelling, as 9-to-10 does with
  every entry before it compares any (`P2p`). Nothing is assumed of it but that it is idempotent and
  leaves the new names alone (`SpellingAssumption`).
- **PinConversion** (10-to-11): pin by pin, Revert's pins in memory until `FlushIpld`. The two pinners
  are vendored code (external). `PinSpec` lets all the other migrations run in between (`OthersRun`).
- **LateChain** composes them. The run of a config migration is one step, as in VersionedConfig, or
  one step of what a kill leaves of it; `lost` records the conversions that did not reach the file.
  11-to-12 only moves the version. **MCLateChain** gives the configs.

### FcntlLock, PortableLock
The two implementations of `tools/lock`; **ExclusiveLock** is what they have in common. In FcntlLock the directory entry names an inode or nothing,
open files keep an unlinked inode alive, and the kernel's lock belongs to the inode; the actions are
the system calls of `lockFcntl` and of `unlocker.Close` (remove the name, then close the file). In
PortableLock the lock is the file: `Stat`, then isStaleLock's `Open`, `Decode` (the process id in the
file that was opened) and `Probe` (is there such a process *now*), `RemoveStale` (of whatever the path
names by then), `CreateExclusive` (`O_EXCL`), `Encode`, `Unlock`, and the end of the process, `Exit` or
`KillLeaving`. `overtaken` records that `RemoveStale` has removed another file than the one examined.
The other modules use the lock as exclusive; these two say how far
that is justified.

### Proof modules
`ConfigMigrationProofs`, `LockProofs`, `FlatfsMigrationProofs`, `KeystoreProofs`, `CidSwapperProofs`,
`PhasedConfigProofs`, `MigrationChainProofs`, `LateChainProofs`: section 5.

The modules have a block of *mistakes*: variants of their actions that a plausible bug would produce
(a dropped guard, a forgotten sync, a phase number off by one). No specification uses them; they
exist to be put in an action's place, to see that the property in question notices.

## 3. Runs

| Run | Instance | Shows |
|---|---|---|
| `early_chain` | versions 0–4, both directory names; a driver with targets 1 and 3 beside a process that starts 0-to-1, 2-to-3 or 3-to-4 by hand; 3 blocks, one of them of the pins; an ordinary and a mangled IPNS record; 1 fault; 1.5 million states | `OneWriter`, `BlocksSurvive`, `PinsKnown`, `NeverStale`, `CompleteAfterRerun`, `NoUnaskedRevert`, `NoOneWaits` |
| `flatfs_faults` | 2 blocks, 1 stray and 1 unexpected file, 2 kills, 2 errors | `FilesSurvive`, `AppliedIsApplied`, `RevertsUntilFault`, `ErrorIsUndone` |
| `phased_config` | versions 5–8, 2 keys published up to twice, datastores that the migration supports and others, edits between them, 1 kill, 1 error; 8.7 million states | `SoundUntilFault` (success, format and version agree, or a downgrade was refused), `SettingsUntilFault`, `ConfigUntilKill`, `PublishedKept` |
| `keystore` | 2 processes, 3 keys (one named like the bare prefix), 2 faults | `KeysSurviveIfPlain`, `AloneIsComplete` |
| `cids_faults` | 2 workers, a block and a filestore entry, a channel of 1, 1 crash, 1 counted error; 2.1 million states | `BlocksSurvive`, `CompleteUnlessTorn` |
| `cids_shared` | 2 workers, 2 CIDs of one block, a channel of 1, a block added or removed between the runs, 1 error of any kind; 930 000 states | `CompleteUnlessTorn`, `RevertsSucceed`, `RunsEnd` |
| `config_faults` | 2 processes, versions 12–14, 2 faults, 1 edit | wherever two faults strike `NoDoubleConversion`, `ConfigNeverAhead`, `BackupIsPrior`; up to the first one `KeepsOldConfig` and `MigrationIsAtomic` (the refinement of VersionedConfig); `LockIsReleased` |
| `late_chain` | versions 9–16, lists of up to 2 addresses, bootstrappers in either spelling, 2 pins, 2 faults, an edit at version 12; 897 000 states | `KeepsAddresses`, `NewListeners`, `NoDuplicates`, `SettingsKept`, `PathIndependent`, `PinsKept`, `DeniedStaysDenied` (an action property), `ChainImplementsPinSpec` |
| `fcntl_lock` | 3 processes, 4 inodes, 2 rounds, 2 kills | `ExclusiveUntilRemove`, `NoStaleLock` |
| `portable_lock` | 4 processes, 2 kills; 510 000 states | `ExclusiveUntilOvertaken`, `HolderIsNamed` |
| `early_loss`, `fcntl_unlinked` | smallest instance of each | a counterexample: section 4 |

Why these bounds.
- Two processes are enough for the config migrations since at most one is past the lock and the rest
  are alike. In the early chain, a driver and a hand-started program give every pair of programs that
  can meet over the two lock files.
- Two consecutive config steps let the backup of one step meet the Apply and Revert of its neighbour;
  two faults allow an interrupted run followed by an interrupted recovery, which is the pattern of
  most counterexamples found. The early chain has one fault, and as many undisturbed runs after it as
  there is room for: what an interrupted run leaves meets every other program.
- Three processes are what the race on an unlinked lock file needs. Two workers and two keys give
  every race on a key and on `toDelete`. A channel of one swap is full, empty or closed while the reader or
  a worker wants otherwise as often as a channel of a thousand is. The portable lock's race needs three
  processes: the holder, one that examines its file, and one that takes the lock in between; the fourth
  leaves enough of them after two kills.
- Two blocks of data in one prefix directory are what it takes for a stray `put-…` file to hide one
  of them while the other is moved. One stray file and one unexpected file make each branch of
  `CleanUp` happen before and after the `SHARDING` file is removed.
- The address rules look at one entry, at whether some entry ends in QUIC, and at whether an entry has
  occurred before: lists of two entries (and three after the edit, up to eight after the conversions)
  make each of these true and false.
- The runs start at every version of their range (`late_chain` at 9) and, where it matters, with every
  subset of blocks, files or pins. Where TLAPS proves a property (section 5) the bounds do not matter.

The type invariants (`TypeOK`) stay in the modules. All of them are proved, most as parts
of an inductive invariant, and so no run checks them.

Deadlock is checked in `config_faults`, `keystore` and `early_chain`, where a new run can always be
started. In the other runs the system may really stop: rounds are used up, all processes have ended,
a truncated version file is refused by every program, or (`late_chain`) a config with an entry that is
no string is refused by 9-to-10 and nothing else can run.

Fairness. `FairSpec` of ConfigMigration and CidSwapper assumes weak fairness of a process's own
steps (and of the reader and of each worker goroutine): the operating system and the Go scheduler keep running what
has been started. Nobody is obliged to start a run, edit, use the repository, fail or be killed.

## 4. Where the code and what is said of it disagree

Two runs are expected to be violated; the findings in `PROJECT.json` quote the lines.

- `fcntl_unlinked`: `Close` removes the lock file's name while another process has it open; with a
  third process two of them hold "an exclusive lock".
- `early_loss`: an Apply of 3-to-4 that ends early leaves blocks with names of version 4 in a
  repository of version 3. A downgrade to version 1 does not list them, moves the others, and then
  removes the directory ("No data lost. Ever.").

The passing properties whose names end in *UntilFault*, *UntilKill*, *UntilRemove*, *UntilOvertaken*,
*UnlessTorn* or *IfPlain*, and those with a condition on faults or dropped errors, mark further limits: without that
condition they are violated as well. Replacing the invariant in the run's configuration by its
unconditional part shows how:

- `ConfigSurvives` of PhasedConfig instead of `ConfigUntilKill`: a kill after `os.Create` and a
  second Apply rename the empty config over `config-v5`, the only good copy. Without `refused = "no"`: an
  Apply of 5-to-6 that refuses the datastore fails to rename the config back, and the next one renames
  the empty target over `config-v5` likewise.
- `FormatMatchesVersion` of PhasedConfig instead of `SoundUntilFault`, without any fault: a downgrade
  to version 5 from a datastore of the owner's own is refused after phase 0. `config` is then an empty file at
  version 6, `config-v6` is whole, no daemon opens the repository, and each further Revert resumes at
  phase 1 and fails (`DowngradeRefused`).
- `RevertedIsReverted` of PhasedConfig and of FlatfsMigration: a `revert-phase` file left by a kill
  makes a later Revert, even of another migration, skip its phases and report success.
- `AppliedIsApplied` of PhasedConfig: 7-to-8 shadows the conversion's error and reports success.
- `KeepsOldConfig` without `faults = 0`: a kill between `out.Close` and `backup.Close` leaves a
  converted config without its backup, so Revert is impossible although "we keep old config around".
- `KeysSurvive` of Keystore, with `Owners` and `Base` `{a, codeA}`, `Decodable` `{codeA, codeCodeA}`,
  `Enc <- ClashEnc`, `Dec <- ClashDec`: a key that is named like the encoding of another key's name
  is skipped as encoded, and its file is replaced by the other's. One Apply without faults is enough.
- `Exclusive` of PortableLock: A reads the process id of B, which holds the lock; B unlocks and ends; C
  creates the lock; the probe of B fails, and A removes C's file and creates its own. Nobody is killed
  (`kills = 0 => Exclusive` is violated as well). With a kill, two processes that judge a dead owner's file
  stale do the same.
- `SuccessIsComplete` of CidSwapper, with `Cids` and `InBlocks` `{c1, c3}`, `HashOf <- Separate`, one
  worker, no crash, `MaxUses = 1` and `MayFail = {"walk"}`: when the pins cannot be walked, Revert reports success
  without restoring the CIDv1s they need; with `{"query"}`: a failing dry run cuts a line of the
  backup file and the next Apply appends to it; with `{"flush"}`: the error of `buf.Flush` is
  ignored; with `InBlocks <- OnlyFirst` and no fault at all: a block of the filestore that is added and
  pinned at version 12 is not restored, since the walk of the pins looks below `/blocks` only. This
  last case is why `CompleteUnlessTorn` asks for `pinned \subseteq InBlocks`; the attempt to prove it
  without that condition found the case.
- `PinsKnown` without `removed = "no" \/ faults <= 1`: an Apply of 2-to-3 that ends
  after it has removed the old list, a kill that leaves a `put-…` file, and the `RemoveAll` of a Revert
  of 1-to-2 that does not list the block of the new pins because of it: both lists are gone.
- `PinsKept` without `dropped = "no"`: Revert of 10-to-11 deletes each pin from the datastore and has
  it in memory only until the final flush; an end in between loses it.
- `PublishedKept` without `swallowed = "no"`: Revert of 6-to-7 drops the errors of `revertForKey`.
- `NoDuplicates` without its conditions: 9-to-10 keeps what the owner has entered twice, and makes it twice
  where the owner has a bootstrapper in both spellings (`OnceEach` compares by `/p2p`); 14-to-15 writes its
  bootstrapper into a list that may have it. `NewListeners` for addresses that are not `Bare`: with a
  second part for QUIC the scans of 12-to-13 rewrite more than the end; and with a listener that ends in
  `/quic`, of the owner's at version 9 or from an edit at version 12 that a downgrade takes along, 9-to-10
  adds nothing (`QuicFree`, `NoQuicEdit`).

Facts about the code that the models contain and no property contradicts: Revert of 0-to-1 never
succeeds; an Apply of 1-to-2 on a path without `.go-ipfs` moves all blocks and then fails at the
rename, as does every repetition; a kill during `sanityChecks` leaves an empty `.ipfs` that makes every
later Apply fail; a chain that the driver starts in `.go-ipfs` ends after 1-to-2, since the next
program is given a path that is gone; Apply of 3-to-4 deletes IPNS records whose binary key is
mangled; 9-to-10 raises the version also if the converted config could not be put in place, and its
Revert keeps that config; an edit made after Apply is lost by a Revert of 12-to-13 and later, which
restore the backup; and a kill within `WriteVersion` leaves an empty version file that every later
program refuses.

## 5. Proofs

All theorems hold for arbitrary values of the constants; the assumptions are the named `ASSUME`s of
the modules (sentinels such as `NoFile` are not ordinary values, bounds are naturals, the first configs of
the late chain have lists where lists belong (an entry that is no string being `Junk`), `First < Last`,
`First > 0` because a blank version file is represented by 0, 11-to-12 has at least one worker because
the code panics on fewer). Temporal steps are by PTL. Hardly any of the properties is inductive; the
invariants that are stand at the end of each component's module, with the reason for each part.

### ConfigMigrationProofs (12-to-13 … 15-to-16)
`TypeCorrect`, `ConvertsOnce` (`NoDoubleConversion`), `NeverAhead` (`ConfigNeverAhead`),
`RevertsToPrior` (`BackupIsPrior`), for any processes, versions and faults. `IInv` adds `RunsExclude`
(only the lock's holder is past Start, so nobody disturbs what a run has read), `BackupsInOrder` (the
backup of step i is older than step i and exists only while the version is above i: this makes
Revert's rename safe even after a kill left the config one step behind), and `RunInv` (at each position
what version, config and temporary files must be; the heart is that from `truncate` to `closeOut` the
config is not yet converted, so that writing the version first is the safe order).

`OldConfigKept` (`KeepsOldConfig`) and `ImplementsVersionedConfig` (`MigrationIsAtomic`, the
refinement of VersionedConfig) hold up to the first fault. `UntilFault` says that until then no
temporary file has gone missing (`TempsThere`) and every conversion has its backup, or is about to get
it (`Revertible`). In the refinement proof, `MappedVersion` gives the value of the mapped version at
each position; each step then maps to the abstract action or to a stutter, one case per action.

### LockProofs
`ExclusiveWhileLinked`, `NeverStale` (fcntl). `LockInv` ties the kernel's owners to the open files of
the holders, and says that until the first removal all open files are one inode. `MutualExclusion`,
`HolderNamed` (portable), for any number of kills. `UntilOvertaken` has that what is about to be removed
was left by a process that has ended, however long ago it was examined, and that, until a removal met
another file, the path names the file of whoever writes it or holds the lock. The two together are the
exclusion: `RemoveStale` of the file that was examined removes one that nobody is using.

### FlatfsMigrationProofs (4-to-5)
`NoFileIsLost` (`FilesSurvive`), `SuccessMeansApplied` (`AppliedIsApplied`), for any files and any
number of kills and failures. `IInv` adds `DirsAt` (which directories exist, or do not, at each step:
the undo step that recreates `blocks-v4` would lose files if there were one), `Forward` (what Apply has
achieved on its way to success) and `InPhase` (Revert's phases).

`RevertsBeforeFaults` (`RevertsUntilFault`): `Reverting` says what has been brought about on coming to
each phase (`Reached`), and that the phase file notes exactly that. `ErrorsAreUndone`
(`ErrorIsUndone`): `UntilSecond` follows the files through the undo labels. Until the one failure that
is allowed, they are in `blocks` or in `blocks-v4` and nothing has been moved; after it, no step can
fail any more (`Spent`), so each label arrives where it must, and the next Apply may find the remains.

### KeystoreProofs (8-to-9)
`NoKeyIsLost` (`KeysSurviveIfPlain`), for any keys, any codec that obeys the law above and any number of
overlapping runs. `KeysInv` adds `OwnNames` (a file has one of the two names of the key in it), from
which a rename can only replace a file that holds the same key: encoded names decode to their owner, so
they are never shared. `RunningAloneIsComplete` (`AloneIsComplete`): `Progress` says of an undisturbed
run that every file that is not in its list has the form it wants (`Rest`); `RestIsFound` turns that, at
the end, into *every key is found*, by `OwnNames`.

### CidSwapperProofs (11-to-12)
`TypeCorrect`, `NoBlockIsLost` (`BlocksSurvive`), `SuccessIsTrue` (`CompleteUnlessTorn`),
`RevertsEndWell` (`RevertsSucceed`), for any number of workers, crashes, errors and uses.
- `Copied` and `Recorded`: what a worker is to delete has a copy, and a synced one when the deletion
  begins; what has been moved is in the file or pinned, so that Revert can tell which CID it had (as long as
  no error was only logged: Revert sets the file aside even if the reader ended early).
- `Control` and `Workplace`: where reader, channel, workers, file and walk are. That a worker wraps up only
  when the channel is closed and empty, and the reader closes it only when all has been sent or an error was
  logged, is what makes its deletions final; that an open last line means a torn line makes
  appending to what an earlier run left safe whenever `Whole` holds.
- `Applying` and `Restoring`: what has still to be swapped is in the rest of the file, in the walk, in
  the channel, or in a worker's hands (`Ahead`). At the end none of these is left, so everything has been swapped.
- `Reverts`: Revert never takes flatfs' fast path, and marks an error only when one has been counted.

The lemmas `WriteContinues`, `CutContinues` and `PartlyContinues` say that the backup file only grows
between Apply's start and its end, whatever part of the buffer a crash keeps.

### PhasedConfigProofs (5-to-6, 6-to-7, 7-to-8)
- `TypeCorrect`. `RunInv` has, besides types, which version and which phase each step is at
  (`VersionRead`, `Position`), and that the phase file notes the phase under way (`PhaseNoted`).
- `PublishedIsKept` (`PublishedKept`): `RecordInv` says that the records of the version's place are the
  published ones, also while the version file is blank, and that the keys already copied are right; the
  daemon writes to the place of its version only, hence the other may be stale, but is not read before
  it has been copied anew.
- `SoundBeforeFaults` (`SoundUntilFault`) and `SettingsBeforeFaults` (`SettingsUntilFault`): `Converted`
  says which of the two files has which format at every step and phase, for either kind of datastore;
  `Stuck` is the one other state between runs, after a refused downgrade, and the only way on from it is a
  Revert that resumes at phase 1 and is refused again.
- `ConfigBeforeKills` (`ConfigUntilKill`), for one failing operation among any number of runs, none of them
  refused by 5-to-6:
  `ConfigInv` distinguishes the five situations that can come about (the config in place, renamed by
  Apply, put aside by Revert, left by an Apply or by a Revert whose write failed unseen). The last two
  have only one good copy, and it survives because the version and the phase file keep every later run
  from overwriting it.

### MigrationChainProofs (0-to-1 … 3-to-4)
For any number of processes, drivers, programs started by hand, blocks, pins, records and faults. The
invariants are in ChainInvariants, and each rests on the ones before it.
- `NoTwoWriters` (`OneWriter`), `RevertsAreAsked` (`NoUnaskedRevert`). Since versions have different lock
  files, a lock alone excludes nobody: two programs that hold different locks are kept apart by the
  version check. `IInv` has `LockHeld` (who has passed `Lock` holds the lock of the version it starts
  from) and `VersionRead` (who is at work has found that version, which stands until it is truncated),
  so that a second program either fails to lock or reads a version that is not its own. `OnTheWay` is
  needed where the driver goes on to its next program.
- `NoBlockIsLost` (`BlocksSurvive`). `BlockInv` adds `Position` (which program each step belongs to),
  `Copied` (a key to be deleted has been copied), and for the half without faults `UntilFault`: no
  `put-…` files, hence complete listings, and what the program has achieved at each step (`Achieved`),
  up to *all blocks are in leveldb* when blocks/ is removed.
- `NoStaleRecord` (`NeverStale`). `RecordInv`: under the key that the version's daemon reads is the value
  last published, or nothing, and then the copy under the other key is that value (`Sound`). Each pass
  begins with a complete list (`Left`), so that when the version is written nothing is left under the
  old keys, and a stale copy of an earlier interrupted run has been overwritten.
- `PinsAreKnown` (`PinsKnown`). `PinInv`: at versions up to 2 the old list is complete, or `Flush` has
  stored the new one and only the version is missing (`PinsLow`); above, the new one is complete.
- `RerunCompletes` (`CompleteAfterRerun`). `RestInv`: whatever is not where the version's daemon looks for
  it was left by a run that is `Pending`, that is at work or has ended early and has not been repeated
  (`Residue`); `Moving` says what a run at work has cleared away. When nothing is pending, nothing is
  left.
- `TypeCorrect`, from these and the bounds on faults and publications (`Bounds`).

The step lemmas use the *shapes* of a step (`NextShape`): a process prepares itself (`Aside`), begins,
truncates, writes, stops or goes on. All but the last leave the data alone, so that the proof of each
invariant has one case per shape, and one per action only for the work it is about.

### LateChainProofs (9-to-10 … 15-to-16)
- `NoPinIsLost` (of `PinSpec`, 10-to-11 on its own). `Control` says at which version each step is, and
  that nothing is in memory between runs; `Underway` that, while Apply converts, what is not stored is
  still to come, and, while Revert does, what is stored is still to come, so the rest is in memory.
- `ImplementsPinSpec` (`ChainImplementsPinSpec`): every step of the chain is a step of `PinSpec` or leaves
  the pins alone, and no other migration starts while 10-to-11 is at work. Hence `ChainKeepsPins`
  (`PinsKept`): the invariant is proved of the small specification and carried over.
- `OwnersSettingsKept` (`SettingsKept`). `KeptIn` says what a config of each version has of the first
  one's settings, of the config and of every backup (`SettingsInv`). `LostForGood` is needed for the
  conversions that a kill has lost: without a backup the version never goes below them again, so that a
  later Apply of the same step cannot meet a config that has been converted past it.
- `ConfigFollowsVersion` (`PathIndependent`), for any configs. Revert of 9-to-10 keeps the config and the
  next Apply meets it again; that it then changes nothing is the lemma `Again`: the companions of a list
  with a listener over TCP end in `/quic`, and one such address is enough for `ver9to10Addresses` to leave
  all lists alone.
- `AddressesKept` (`KeepsAddresses`), `NoneEnteredTwice` (`NoDuplicates`), `ListenersAdded`
  (`NewListeners`) and `DeniedIsKept` (`DeniedStaysDenied`), for lists of any length of addresses of any
  length, over any `Names` of protocols. The argument has three layers.
  *Sequences.* The rules flatten sequences of sequences. `Flattened` gives each piece its place in the
  result; what the result contains, in which order, and that nothing is in it twice (`FlatRange`,
  `FlatAhead`, `FlatOnce`) follows, and with it what `Uniq` and `Subst` do.
  *Rules.* For each pass of each `convert` one lemma has what is in the list it returns (`AddQuicRule`,
  `ReplaceWebtransportRule`, `PatternAddRule`, `ReplaceQuicRule`, `AddWebrtcRule`). `Keeps` is what all of
  them preserve: the addresses without `/quic`, the order of those that no rule is about, and, of the
  rest, an address that 14-to-15 takes to the same successor. `Covers` says that they work element by
  element, from which `DeniedIsKept` follows. `ConvertQuicAddrsNew` is the hard one of the others: the
  three passes of 12-to-13 leave one for WebTransport beside each `Bare` address, because the third pass
  also reads what the second has added, and what the third adds is not `Bare`. Bootstrappers are compared as
  9-to-10 spells them: `BootstrapperAdded` says that what it adds was there in neither spelling, and from
  version 10 on all of them are spelled by `/p2p` (`NewIn`), so that 14-to-15, which knows only that
  spelling, finds what it looks for.
  *Chain.* `ListsIn` says what a config of version v has of the first one's lists when the migrations in
  `lost` have not left a converted config. `ListsInv` has it of the config at its version and of every
  backup at the backup's, for a Revert makes the backup the config. TLC finds it an invariant of the
  instance of `late_chain` as well. `HasLike` is needed because the
  successors themselves come and go between the versions; `Companions(f, c) \/ QuicFree(c)`, below version
  13, because 9-to-10 may run again on a config that it has converted.
- `TypeCorrect`.

### Only model-checked
- `LockIsReleased` and `RunsEnd`: liveness, which rests on fairness. (`RunsEnd` also needs that whatever ends
  the reader closes the channel; a reader that does not leaves the workers waiting.)
- `NoOneWaits`: it is about `ENABLED`.

The prover cannot instantiate the library's induction theorems, which take an operator. `LateChainProofs`
therefore does its inductions with sets: a set of naturals that has 0 and the successor of each of its
members is all of them, because otherwise there were a least number outside it (`LeastNumber`,
`Induction`, from `NatLessThanWellFounded` and `WFMin`).

## 6. Not modelled, and why

- goleveldb, go-datastore, go-ipfs-pinner and the other third-party code frozen beside the migrations
  (`gx`, `vendor`, `Godeps`): by far the most of the repository's lines, and none of its own logic.
  What the migrations use of it is modelled from the use and marked external.
- Fetching of migrations (`ipfsfetcher.go`) and the search for programs in `RunMigration`: network I/O
  and a vendored library.
- Put, Get and Delete of the flatfs in 4-to-5, which the migration does not call.
- Refusals of configs of the wrong shape. 13-to-14 and 14-to-15 return an error for a section of another type
  or, 14-to-15, for a `Bootstrap` that is null, and abort both temporary files. In ConfigMigration such a run
  is one whose conversion fails (`OperationFails`); in LateChain it would be a stutter. 7-to-8 panics on
  a bootstrapper that is no string, after its target has been truncated: in PhasedConfig this is what a kill
  in the same place leaves, but no action of its own.
- Reuse of a process id: in PortableLock each process has an id of its own.
- The in-process table of `tools/lock`: each program locks once in its life, except Revert of 0-to-1,
  where the table is why the second attempt fails.
- The text of JSON and of addresses, the encoding and signing of IPNS records, base32: abstracted to
  what the rules tell apart.
- Logging, prompts' wording and flags, which keep no state (`-no-revert` is an input of
  FlatfsMigration, `--revert-ok` of Driver).

## 7. Plan

Done: every migration, the driver, both locks, the two chains, and the proofs above; what is only
model-checked is out of the prover's reach.

Next: the safety halves of the liveness properties (that the lock's holder always has a step other than
waiting, as an invariant without `ENABLED`), and a chain that joins the versions 4 to 9 as the other two
are joined: what a `revert-phase` file left by one migration does to the next of another module
(4-to-5, 5-to-6, 7-to-8) is a fact about each module now, and would be a behaviour of that chain.

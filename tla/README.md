# resumable-batch: a TLA+ development

`resumable-batch` runs a list of work items with durable checkpoints: results are
committed one by one into a cache directory, transient failures are retried after a
delay, items that are too big are replaced by smaller ones, and a run that died is
started again and resumes. This directory holds TLA+ models of that code
(`src/src/resumable_batch/`), the TLC configurations that check them on small
instances, and TLAPS proofs. `PROJECT.json` maps every modelled definition to the
lines it stands for.

## 1. The system

| Component | State | Operations | Talks to |
|---|---|---|---|
| `run_checkpointed` (`engine.py`) | `live_map`, `ready`, `delayed`, `inflight`, `terminal_hash`, `transient_attempts`, counters | admit, dispatch/resume, wait, classify, split, retry, commit, abort, shut down, fold, clean up | store (`has`, `commit`, `load`, `cleanup`), thread pool, caller's callbacks, clock |
| `AtomicManifestStore` (`stores/base.py`) | cache directory (one payload file per key, one manifest), `_entries` in memory | open (load or wipe, sweep), `has`, `load`, `commit`, `cleanup` | file system through `durability.py`; the lock, by looking at `lock.held` once |
| JSONL / Parquet stores | none of their own | (de)serialise, canonical bytes, validate | called by the base class |
| durability primitives (`durability.py`) | none | fsync file, replace, fsync directory | file system |
| file-system gate (`durability.py`) | none | `resolve_fs_type`, `fs_cache_enabled` | called by the user before opening a store |
| run-scope lock (`locking.py`) | kernel lock on a lockfile, `held`, `_fd` | `acquire` with deadline, `release` | kernel; passed into every store |
| worker pool and contexts (`engine.py`) | threads, `created` contexts | start, run, cancel, shut down, tear down | coordinator, `execute` |
| classifiers, data model, errors | none | `default_is_oom`, `default_is_transient`, `RetryPolicy`, `SplitPolicy` | coordinator |

What is hard in it, and what makes each part right:

* **Store.** Two files change per commit and the process or the machine may stop
  between any two steps; on Windows no rename is made durable by a directory fsync.
  Right means: a hit is never wrong (`NeverWrong`), a commit that returned is found
  again (`AckedSurvives`), the session never vouches for more than the manifest on
  disk (`VouchedOnDisk`), no manifest names a commit of another fingerprint
  (`Vouching`), a torn write is a miss and no error (`TornWriteIsMiss`).
* **Coordinator.** One thread, but workers finish in any order, retries mature at any
  time, the splitter and the classifiers are foreign code, a fatal failure leaves work
  in every queue, and the next run may bring another item list to the same store.
  Right means: no item lost or duplicated (`NothingLost`), the output covers the input
  exactly (`ExactCoverage`), counters add up (`Accounting`), budget kept
  (`RetryBudget`), nothing committed is recomputed or overwritten
  (`CommittedForGood`), every run ends (`Termination`), a retry never waits for a hung
  execution (`RetryNotBlocked`).
* **Worker pool.** Contexts are made in the threads, by foreign code that may raise, and
  torn down by the coordinator. Right means: a context outlives the executions that may
  use it and is torn down once (`ContextsOutliveWork`), and a broken pool does not keep
  the run from ending (`Termination`).
* **Coordinator on the store.** Workers and the clock go on while the coordinator is
  inside a store call, and the process dies there. Right means: what the files amount to
  behaves like one atomic map (`ImplementsEngine`), and the store answers as that map
  would (`StoreAnswers`).
* **File-system gate.** Bytes from the operating system decide whether there is a cache,
  perhaps before its directory exists. Right means: never on a volume that does not
  replace files atomically (`FailClosed`). The code does this but on Windows, where it asks
  about the root of the drive (`FailClosedElsewhere`).
* **Lock.** Runs of several processes poll for it, die inside, give up. Right means:
  one run inside at a time (`MutualExclusion`), no run undoing another's commits
  (`NoLostUpdate`), `acquire` ends by its deadline (`AcquireEnds`).

Every hazard with its line and the property that covers it is in `PROJECT.json`.

## 2. The modules

| Module | Models | Checked by |
|---|---|---|
| `ManifestStore` | one cache directory through any number of sessions | `MCManifestStore` |
| `ManifestStoreProofs` | theorems about it | tlapm |
| `Engine` | `run_checkpointed`, killed and re-run on one store | `MCEngine` |
| `EngineQueues` | lemmas about the operators of its queues | tlapm |
| `EngineProofs` | its inductive invariant and the theorems that follow | tlapm |
| `EngineCoverageProofs` | proof that the output covers the input exactly | tlapm |
| `BatchJob` | abstract specification of a job | by refinement |
| `EngineRefinement` | the mapping under which `Engine` implements `BatchJob` | `MCEngineRefinement` |
| `EngineRefinementProofs` | proof of this refinement | tlapm |
| `EnginePool` | `Engine` with its worker threads and their contexts | `MCEnginePool` |
| `EnginePoolProofs` | proofs that it is `Engine`, and about the contexts | tlapm |
| `JsonlFile` | the lines of a JSONL payload and what they read back as | `MCJsonlStore` (as the results of `ManifestStore`) |
| `ParquetFile` | the columns of a frame on their way through Arrow, its schema fingerprint | `MCParquetStore` (likewise) |
| `FsGate` | `fs_cache_enabled` and the three platforms' answers | as part of `JobOnDisk` |
| `JobOnDisk` | `Engine` on `ManifestStore`, process after process, behind `FsGate` | `MCJobOnDisk` |
| `JobOnDiskProofs` | proofs that the gate fails closed, and that the files implement the map | tlapm |
| `RunLock` | lock objects on one lockfile | directly, and as part of `SharedCache` |
| `SharedCache` | runs in several processes, each opening the store under its `RunLock` | directly |
| `SharedCacheProofs` | theorems about it | tlapm |

Operators whose comment says "A mutant" are deliberately broken variants of a
definition; no specification uses them. They document what each property depends on.

### ManifestStore

`disk` is what the file system shows; `maybe[n]` is every content a power loss may
leave file `n` with. A rename or unlink (`Put`) adds to `maybe`, a directory fsync
(`FsyncDir`) shrinks it to what is shown, on POSIX only. `mem` is `_entries`, `pc` the
place in `__init__`, `commit` or `cleanup`. One commit is `WritePayload` (validation,
digest, generation id, temporary file written and fsynced), `ReplacePayload`
(`os.replace`), `SyncPayload` (directory fsync, entry put into `_entries`),
`PublishManifest`, `SyncManifest`; `CommitFails` may come at every point and rolls the
entry back. Opening is `OpenValid`, or `OpenInvalid` then `WipeOne` per file then the
empty manifest, and always `Sweep`. `ProcessEnds`, `PowerLoss` and `Damage` are the
environment. `issued` and `acked` are history variables.

`commit` is taken only for a key that `has` just reported missing: that is what the
only caller in `src/` does (`engine.py` 246-254 before 277).

Abstractions: digest, byte length and record count are one value, the canonical form
of a result (SHA-256 is taken as injective); a fingerprint stands for the pair of
fingerprint and schema version; temporary files show only through their effects.
The two formats differ by constants: what a result reads back as (`ReadBack`), which
schema is recorded with it (`SchemaOf`), whether the digest is of the raw or the
read-back form (`Normalizes`), what the validator refuses (`Refused`) and whether
`commit` asks it (`ChecksCommit`).

Assumptions about the environment: a power loss undoes unsynced directory changes of
each file independently of the others (weaker than ordered journalling, so the results
are stronger); file contents are durable once `_fsync_file` returned; the cache
directory itself stays; the manifest is damaged only between sessions.

### JsonlFile and ParquetFile

They say what the constants are for each format; the MC modules compute them from there.
`JsonlFile` writes a header line and one line per record, and reads them as `_read_file`
does: a torn line or no header spoils the file, empty lines are skipped, each record comes
back as `json.loads` makes it (`Reparsed`: integer keys become strings). The assumption
`EditsAreDamage` of `MCJsonlStore`, evaluated by TLC, justifies the `Damage` action of
`ManifestStore`: a line lost, torn, emptied, repeated or cut off gives an unreadable file or
the same identity with other records.

`ParquetFile` has frames as columns with a type. `_table_for` and `to_pandas` change
only one of the types modelled: integers with a missing value come back as floats. The
schema fingerprint is recorded from the raw frame and compared with the one of the frame
read. `store_posix` has frames that come back as they are, `store_kill` the odd ones. Two
frames are taken to have the same CSV text only if they are equal.

### Engine

One action per branch of the loop; `pc` says where the coordinator is. `inflight` maps
a key to its future, whose worker takes it from `queued` to `running` to `ok` or
`raised`; `batch` is what `wait()` returned; `delayed` is ordered by `ready_at` and
`due` counts the matured ones at its head, which `Tick` increases. A new retry is
inserted at any position behind the matured ones (its delay is not negative and its
sequence number is the largest). An exception is a record saying what the callbacks
answer (`is_oom`, `should_split`, `is_transient`, bad `Retry-After`). `Faults` lets the
caller's callbacks, the store and the pool raise: `SubmitRaises` and `QueueFails` are what
a broken pool looks like from the coordinator. The store is an atomic map; `JobOnDisk`
shows that the files behave like one. A commit that raises, or inside which the process is
killed (`HalfCommitted`), leaves the map with the result or without it. The "cleaning"
phase removes keys in any order. `Crash` kills the process; `PowerLoss` then leaves any
results of those keys, which is how a volume without directory fsync looks;
`Start` runs the job again with any of the item lists.

`BatchJob` is the job without queues: keys pending, settled, replaced, delivered, kept.
`EngineRefinement` maps `Outstanding` to what is pending and `terminal_hash` to the leaves.

### EnginePool

Threads are counted: `starting` is how many are inside `worker_setup`, `created` how many
contexts exist. `submit` may start a thread when there are fewer than `max_workers` (the
standard library starts none while one is idle; which one it finds idle is a race, so
the model allows both where both can happen). A `worker_setup` that raises fails all that
is queued and makes later submits raise. `Joined` is `shutdown(wait=True)`; then
`TearDown` visits the contexts one by one. Every other step is one of `Engine`'s, so that
`EnginePool` only restricts when a future starts, and adds when the pool may close.

### FsGate and JobOnDisk

`FsGate` is the decision of `fs_cache_enabled`, stateless: the walk to the nearest directory
that exists, the Linux magic table, the Windows drive types, the macOS name field read
character by character (`NameLen` characters; the field has 16), and the policies. Linux and
macOS are asked about that directory; on Windows the code goes on to the root of its drive
and asks about that (`Root`, `durability.py` 177-179), which is another volume if one is
mounted in a folder on the way (`FolderMounted`). A path is taken after `os.path.realpath`: a
folder that is a link to another drive is a path of that drive.
`ReallyDurable` is the truth about the volume the cache will lie on, stated independently of
what the code asks and of its parsing.

`JobOnDisk` puts `Engine` on `ManifestStore`. The coordinator's variables are `Engine`'s with
`stored` replaced by the state function `Held`, what the files amount to: the keys whose
payload and manifest entry on disk agree. A call of the store is a sequence of the store's
own steps, during which the coordinator stands still and workers and clock go on
(`Meanwhile`); `LeaveCommit` and `BreakOffCommit` are its two ends. `has()` compares hashes
before it looks at the payload, so it may raise a collision for work whose result a torn
rename has taken away (`Collides`); to `Engine` this is a fault of the store. The process may die at any
step (`ProcessDies`), and power may then fail (`PowerFails`) with directories not fsynced;
on a volume that is not durable, renames under way may also be torn. The caller asks the
gate first and opens no store unless it says yes.

Each run gets a store object of its own (`fresh`), as in the guides. This matters: a store
whose `commit` raised behind the manifest's rename has rolled its copy back, while the file
vouches for the result, so a second run with the same object computes the item again.
Results are their payloads here, digests are stable and no file is damaged from outside
(`OneJob`): these cases belong to the store's own runs. `EngineAssumptions` says that
`Engine`'s own assumptions hold of what it is given here.

### RunLock and SharedCache

`RunLock` has the attempt loop of `acquire` step by step; the clock is one bit
(`expired`). `SharedCache` adds, for every process, a store's copy of the manifest:
`commit` writes the whole copy back, so two open stores would undo each other's
commits. The discipline of the guides is assumed: a store is opened after `acquire`
and not used after `release`; the constructor's check of `held` is modelled, and its
mutant shows that it is needed.

## 3. The runs

| Run | Bounds | Shows |
|---|---|---|
| `store_posix` | Parquet frames that come back as they are; 2 keys, 1 hash, 2 fingerprints, 2 generations, 1 damage, power loss, directory fsync | `NeverWrong`, `AckedSurvives`, `Vouching` |
| `store_kill` | Parquet frames of which one changes its type and one lacks a column; as above with 2 hashes, no directory fsync, process death only | `TypeOK`, `VouchedOnDisk`, `TornWriteIsMiss` |
| `store_windows` | JSONL records; 1 key (it looks like a temporary file), 1 hash, 2 fingerprints, 2 generations, 3 results (one read back as another, one refused), no directory fsync, power loss, read faults, 1 damage | `NeverWrong` |
| `engine_rerun` | 2 runs, 6 payloads on 4 keys, 5 item lists (one names the same work twice), 2 workers, every exception, 4 splitter answers, faults, kills, power failure, cleanup | `TypeOK`, `NothingLost`, `ExactCoverage`, `Accounting`, `RetryBudget`, `CommittedForGood`, `ImplementsBatchJob` |
| `engine_ends` | 1 run, 2 item lists (one with the item that may hang, one without), 2 worker threads whose setup may raise, a splittable and a transient exception, a good splitter, faults, kills; the execution of one payload may hang; fairness | `ContextsOutliveWork`, `Termination`, `RetryNotBlocked` |
| `job_on_disk` | 3 processes, 2 keys, a payload that splits into another, other work under the first one's key, 1 worker, 2 item lists, a splittable exception, faults, kills inside every call, cleanup, power failure without directory fsync; every volume of each platform, with a name field of 5 characters over 7, mounted on the root or below it, directories that are missing, drives that are not ready | `StoreAnswers`, `FailClosedElsewhere`, `ImplementsEngine` |
| `shared_cache` | 3 runs, 2 keys, fairness | `MutualExclusion`, `NoLostUpdate`, `AcquireEnds` |

The bounds reach the cases that matter: two keys let the manifest lag behind one
payload while it vouches for the other; two fingerprints give a foreign cache and an
interrupted wipe; two generations give a recommit over a stale payload; one damage
suffices because the store keeps no copies. Two workers and two root items, one of
which splits in two, fill every queue of the coordinator at once; the item lists of a
second run contain a child of the first run's split (`a1`), a key with another hash
(`X`), and the same items in another order. A third lock object lets one give up while
two compete. On disk three processes are needed: one to commit, one to clean up or to die
half-way, one to resume on what is left; one worker suffices there, because what several
do to the coordinator is `engine_rerun`'s subject. Five characters hold "hfs", its NUL, and one
of padding that may be garbage.

`RetryBudget` is checked with a budget of 2; 0 and 1 are left to its theorem.

Named bounds: `MaxDamage`, `Generations`, `MaxRuns`, `NameLen`, `MaxAttempts`,
`MaxSplitDepth` (the last two are also parameters of the code).

Violations, each a real disagreement between a document or comment and the code:

| Run | What happens |
|---|---|
| `store_torn` | A stale payload of another fingerprint beside the new manifest: `_check` raises a collision because it compares the hash before fingerprint and generation; the design promises a miss. |
| `store_swept` | Keys may contain `.tmp.`; the sweep at the next open deletes such a committed payload. |
| `store_unstable` | JSONL digests the raw result; one that reads back differently is never a hit. |
| `job_folder_mount` | Windows: the gate reduces the cache's directory to the root of its drive. A removable or FAT32 volume mounted in a folder of a fixed NTFS drive passes for NTFS and gets a cache, although `resolve_fs_type` is to "classify the FS type of the REAL path". (`GetDriveTypeW` and the mount manager are modelled from their documentation.) |
| `lock_errors` | Every `OSError` of the locking call counts as "held by another process". |

More facts of this kind have no run of their own:

* A transient `OSError` while the manifest is read at open wipes the cache
  (`ReadFaults`), and JSONL commits a result that its own validator will refuse to read
  (`ChecksCommit` false, `Refused` not empty); with either setting `AckedSurvives` fails,
  which is why the theorem about it excludes them. `store_windows` has both on, for
  `NeverWrong` only: it shows that neither gives a wrong answer, not that no work is lost.
* A Parquet frame with a missing value among integers in an object column is committed
  under the schema "int" and read back as "float": `_validate_structure` never accepts it,
  and every run computes it again, although `_canonical_bytes` takes care to make the
  digest survive (`stores/parquet.py` 81-87). `AckedSurvives` fails with `OddFrames`; the
  theorem asks that the schema survive the way. (What pyarrow does is modelled from its
  documentation.)
* `record_validator` is called on records whose digest has not been compared yet. If it
  raises on damaged ones, the exception leaves `has()`, contrary to `stores/jsonl.py` 61-63.
* A store object used for a second run after a failed commit: see `JobOnDisk`.
* The same work listed twice, with the same key and hash, is refused (`engine.py` 109),
  although `concepts.md` 42 and `api.md` 222 say that only different work under one key is.
  `engine_rerun` has such a list, and the run fails before anything is submitted.
* Keys that differ in case only share a file on Windows and macOS.

`TornWriteIsMiss` passes when only the process can die. With power loss it fails on
POSIX as well as in `store_torn`: the empty manifest of an interrupted open may be lost
after a payload rename that followed it is not.

### Fairness

`EnginePool` (`PoolSpec`): the coordinator is an ordinary thread (weak fairness of
`PoolCoordinator`); the monotonic clock advances (`Tick`); a `worker_setup` comes to an end,
by returning or by raising (`Setup`); an idle thread takes something that is queued
(`ThreadTakes`); of the executions whose payload is not in `Hung` some one ends
(`ThreadEnds`). This is less than the pool's FIFO queue and separate threads give; it is
enough because every key has a budget.
`Termination` lets a run go on for ever only while such an execution is in flight. Nothing
is assumed of `PoolBegin` and `PoolCrash`. `RunLock`: a thread inside `acquire` or `release`
goes on, and the clock does (`SharedCache`'s `FairSpec`); nobody is assumed ever to release.

## 4. What is proved

All theorems hold for every value of the constants that satisfies the modules' named
assumptions.

`ManifestStoreProofs`
* `TypeCorrect`: `TypeOK` is inductive.
* `ManifestsVouchedFor`: `Vouching` is inductive relative to `TypeOK`. The point is
  that it speaks of `maybe[Manifest]`, every manifest a power loss may bring back, and
  of the roll-back entry; without these two it is not inductive.
* `NeverWrongHolds`: follows from `Vouching`. A hit agrees with the manifest entry in
  its digest, the entry is that of an issued commit, and equal digests mean equal
  records once read back. No assumption on fsync, damage or the format is needed: this
  is the claim of `durability.py` that correctness does not rest on directory fsync.
* `AckedSurvivesHolds`, under `Durable` (directories are fsynced or power does not
  fail; no key looks like a temporary file; no read faults; results have a stable
  digest and a stable schema; refused results are refused by `commit`). Each part of `Durable` is needed: without
  it TLC finds a lost commit. The strengthening `Survival` says, for every stage of a
  commit, what the two files may be after a power loss (`CommitStages`), that issued
  results are accepted on reading (`IssuedAccepted`), and that all possible contents of
  an acknowledged commit's payload and manifest still vouch for it (`AckedKept`).

* `VouchedOnDiskHolds`, on every platform and with every fault. The invariant is
  `MemIsDisk`: inside a live session an entry in memory is the one on disk, or is about to
  be published, or is dead, which is to say that no payload of its generation lies under
  it. The third case is why the property is about hits and not about entries: after a failed
  `PublishManifest` memory and disk differ. That a rolled-back entry is dead needs
  `PayloadInPlace` (from the rename to the end of the commit the new payload lies there) and
  `FreshGeneration` (the entry it replaced has another generation).
* `TornWriteIsMissHolds`, if power does not fail. A payload that lies under an entry, on disk
  or in memory, was committed under the manifest's own fingerprint (`DiskHashes`,
  `MemHashes`, `CurHash`); and a key has one hash under it. The hypothesis is needed: with power
  loss TLC finds the collision even where directories are fsynced. The process is killed
  between the rename of the empty manifest and its directory fsync, the next session finds
  this manifest valid and fsyncs nothing, puts a payload in place, and then the power loss
  brings back the old manifest over the new payload.

`EngineProofs`, with the lemmas of `EngineQueues`. Everything but types follows from one
invariant, `IInv` (theorem `Invariant`), inductive as a whole. Beyond what the properties say
it needs, for a run that has not failed (`Sound`):
* `TerminalIsLive` and `AllExpected`: what waits or runs is what its key is to be folded
  with. Without it a retry or a resumption could settle a key under another hash.
* `Apart` and `Covered`: a key is in one place, and one that is in none has its result.
* `Drained`: why nothing is left when the loop ends; and that admission, which may raise,
  comes before the first dispatch.
* `Balanced`: each attempt ended in one way, and each key to be folded was committed, was
  resumed, waits or runs. The second sum is kept by a split only because the parent's key
  leaves `terminal_hash` as the children's enter it.
* `PhaseErrors`, `StoreKeyed`, `FoldedFromStore`: which errors go with which phases, and
  that the store holds every result under its own key.

From `IInv`: `NothingLostHolds`, `AccountingHolds`, `RetryBudgetHolds`, and the action property
`CommittedForGoodHolds` (nothing committed is overwritten or computed again).

`EngineCoverageProofs`
* `CoverageHolds`: the output covers the units of the job exactly. Invariant: for each unit,
  the keys to be folded that hold it and the items not yet admitted are together as many as
  the items of the job that hold it (`Conserved`), and what is folded are those keys, once each
  (`FoldedRight`). Rests on `UnitsAssumption`: equal identities are equal work and the children
  the splitter returns partition their parent. The code cannot check this; it is what
  `docs/design/checkpoint-library-generalization.md` 330 asks of a splitter. TLC evaluates the
  assumption on the item lists of the runs, some of which share keys and hashes.

`EngineRefinementProofs`
* `EngineImplementsBatchJob`: initial states map to initial states, and each of the
  coordinator's actions is an action of `BatchJob` or invisible to it, under `IInv`.

`EnginePoolProofs`
* `PoolImplementsEngine`: `PoolSpec` implies `Engine`'s `Spec`. So all the above holds with
  threads and contexts, too.
* `PoolInvariant` and `ContextsHold`: starting threads and contexts are never more than
  `max_workers`, every execution has a context, none is torn down before the pool has joined,
  and each once. The invariant says for each phase of the coordinator what the pool may be
  doing (`PoolPhases`).

`JobOnDiskProofs`
* `FailClosedElsewhereHolds`: no session is open unless files are replaced atomically on the
  cache's volume, the caller allowed otherwise, or the volume is mounted in a folder of another
  Windows drive, for all paths and every `NameLen`. The exception is necessary: without it the
  property is `FailClosed`, which `job_folder_mount` refutes. The work is in `GateSound`: what
  resolves to a name of the allowlist is such a volume, or the volume asked about is not the
  cache's. For macOS this means that a field accepted by `_statfs_fstypename_macos` is the name
  and nothing but NULs behind it (`MacosGate`). Assumes what a path is (`PathsAssumption`: it
  stays on one system, and its root exists, unless it is a Windows drive that is not ready, of
  which no file system name is given).
* `FilesImplementEngine`: `JobSpec` implies `ImplementsEngine`, step by step. `Held` changes
  only where `Engine`'s map does: when a commit returns, raises or is killed (`CommitEnds`),
  in cleanup (`CleanUpStep`) and by a power failure (`PowerStep`). Opening, wiping and sweeping
  change nothing of it (`ConstructStep`). The invariant, `JobInv`, is `Engine`'s own
  (`EngineProofs`, instantiated with `Held` for `stored`) and `StoreInv`:
  `FromCommits` (every payload a power failure may leave was committed for its key),
  `PhasesMatch` (which phase of the store goes with which of the coordinator), `InStep` (where
  the session's copy of the entries is the manifest on disk), `CommitAhead` (how far a
  commit has come) and `InFlightMisses`. The two halves need each other: that a commit hides
  nothing when it begins is `Engine`'s invariant (a key in flight has no result), and that
  `has()` asked the files before the item was submitted is the store's.
* `StoreAnswersHolds`: `has()` and `load()` answer as the map would. At the fold this rests on
  `Engine`'s invariant, by which every result is there.
* `JobKeepsPromises`: so `NothingLost`, `ExactCoverage`, `Accounting`, `RetryBudget` and
  `CommittedForGood` hold of the coordinator on the files, across processes that die in the
  middle of any call and power failures, on every platform, with or without directory fsync.
  These assume `OneJob` (one fingerprint, results that read back as they are, no damage from
  outside, no read faults, keys that do not look like temporary files) and
  `EngineAssumptions`.

`SharedCacheProofs`
* `LockExcludes` and `CommitsKept`, from one invariant: the kernel's owner is exactly
  the object inside (`Ownership`), and only it has a store open, which knows every
  acknowledged key (`OpenUnderLock`).

TLC confirmed each invariant on the runs' instances before it was proved.

Only model-checked:
* `Termination`, `RetryNotBlocked` and `AcquireEnds`: liveness under fairness, and `ENABLED`,
  are beyond the prover.
* The codecs (`JsonlFile`, `ParquetFile`): their facts are evaluated by TLC as assumptions on
  the instances; in the proofs a format is the constants `ReadBack`, `SchemaOf`, `Refused`.
* The violation runs, by nature.

## 5. Not modelled

* The numbers of delays, jitter and the overflow of `_backoff_delay`: floats. Of a delay the
  coordinator uses only when it has passed; the overflow is one of the exceptions
  `RouteRaises` stands for.
* Regular expressions of the default classifiers, log messages, the holder text in the
  lockfile, argument validation of the combine modes and of `RetryPolicy`.
* The characters of content keys (`_is_safe_key`): keys that are refused never reach a
  file, and the others are values with distinct file names.
* Nested, list and decimal Arrow types; the bytes of Parquet files and of JSON text.
* `ctypes` calls and struct offsets: the operating system's answer is an input of `FsGate`.
* Interrupts (`KeyboardInterrupt`) between two bytecodes.
* Locals of a run that has failed (`live_map`, `transient_attempts`), which no later step
  reads, keep their last values where the code may still change them before it raises.

## 6. Plan

Done: all modules of section 2; every safety invariant and action property that a passing run
checks is proved, with the refinements `ImplementsBatchJob` and `ImplementsEngine`. What is
left, in this order:

1. `OneJob` without its single fingerprint: an open under another fingerprint is then a
   cleanup to `Engine`, and its map belongs to the job of the open session.
2. Lemmas about the codecs: that `JsonlReadBack` and `ParquetReadBack` meet
   `ReadBackAssumption`, and that edited lines are what `Damage` may leave (`EditsAreDamage`),
   for all records and frames; TLC evaluates both on the instances.
3. `SharedCache` on `ManifestStore`: the lock's discipline as the reason why one session is
   open at a time, which `ManifestStore` has built in.

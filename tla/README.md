# TLA+ verification of S.A.K. Utility

This directory holds TLA+ models of `src/sak_utiliy.py` (one file, about 1,100 lines of PySide6).
The models cover the file-tree processing core that `spec.md` specifies: the traversal, the
parallel verified backup, the permission normaliser, duplicate detection with its delete and
move actions, and the organise-by-extension tool. They also model
the GUI-thread protocol that chains a permission update with a queue of backups.

The project has:
- TLC configurations that model-check each module on small instances;
- a mutant for every checked property, showing that the property would catch a plausible bug;
- TLAPS proofs of:
  - the backup engine's type invariant and terminal-result invariant, and that it refines the
    abstract backup job of `BackupJob`;
  - the walker's type invariant and its at-most-once property;
  - the truthfulness of the permission worker's progress stream and of its success;
  - the order in which queued backups start;
  - the fact that the organise tool never overwrites a file, and where it leaves each file.

## 1. The system and how its parts interact

| Part (code) | What it does | Concurrency |
|---|---|---|
| `fast_scan` (77-106) | A generator with a LIFO stack and a `visited` set keyed by `realpath`. It classifies entries with `is_dir(follow_symlinks=False)` and skips directories whose listing raises. | none; consumed lazily by the callers |
| `chunked_file_hash` (69-74) | MD5 of a file, read in 1 MiB chunks. It raises for unreadable paths. | none |
| `PermissionUpdateWorker` (112-188) | A QThread. It enumerates all roots with `fast_scan`, then applies the mode policy. On POSIX it chmods every item (0o777 on `isdir` paths, 0o666 on the rest). On Windows it runs one `icacls /T` per root and then a progress-only loop. `_cancel` is polled per item. | worker thread + GUI thread (cancel) |
| `BackupWorker` (194-302) | A QThread. It plans from `fast_scan` with glob patterns, then runs `copy_one` over a `ThreadPoolExecutor`: a cancel check, `copy2`, an optional MD5 verify, and a locked counter update followed by progress emission after the lock. An `as_completed` loop counts errors and breaks on cancel. It emits one `finished`. As written, every task's destination is its own source (finding 1), so `copy2` always raises and the branch from the verify to the emission never runs. | pool threads + QThread + GUI thread |
| MainWindow backup flow (747-861) | `trigger_backup` fills `_backup_queue` (creating each destination and log file first, uncaught) and starts the permission worker. On success, `_start_next_backup` pops the queue one backup at a time. Any failure clears the queue. It owns the modal `QProgressDialog`s. | GUI thread, signals queued from workers |
| `find_duplicates` / `run_deduplication` (910-1026) | Hashes every file `fast_scan` lists and groups paths by digest, then deletes, moves or reports `paths[1:]` of each group. A move picks the first of `name`, `name_1`, `name_2`, ... that `os.path.exists` says is free in the target. | none |
| `organize_directory` (863-905) | Lists one directory and moves each file into the subfolder named by its extension (`makedirs(exist_ok=True)`), under the first free name of `file`, `file_1`, `file_2`, ... A failed move is logged and the loop goes on. | none |
| License scan, keep-awake, user selection, logging | Registry/plist reads, Win32 calls and dialogs; excluded by spec §1. | — |

Every surface operation consumes `fast_scan`. `BackupWorker` and `find_duplicates` also hash
with `chunked_file_hash`. The GUI thread runs one slot at a time. Workers talk to it only
through queued signals, which are delivered in emission order.

## 2. Modules

| Module | Models | State | Actions |
|---|---|---|---|
| `TreeWalker` | `fast_scan` | `stack` (real paths), `visited`, `yielded` (the triples, in order) | `Begin(base)`, `Walk(U)`: one `while stack:` iteration with `U` the directories whose listing raises, `Step == Walk(Unreadable)` |
| `CopyEngine` | `BackupWorker.run`, `copy_one`, `cancel` | `phase`, `plan`, per-task `pc`, `outcome`, `cancelled`, `collected`, `errors`, `result`; `files_copied` is the constant 0 | `Plan`, `Start(f)` (the FIFO pool takes the next task when a thread is free, or returns "cancelled"), `CopyFile(f)` (`copy2` raises: outcome error), `Collect(f)` (as_completed), `Finish` (after the pool join), `Cancel` |
| `BackupJob` | what a backup run promises (spec.md, `copyTree`): the abstract job `CopyEngine` refines | `phase` (plan, run, finished), `plan`, `copied`, `cancelled`, `result` | `MakePlan`, `CopyOne(f)`, `RequestCancel`, `Report` |
| `CopyEngineProofs` | theorems about `CopyEngine` | — | — |
| `TreeWalkerProofs` | theorems about `TreeWalker` | — | — |
| `DuplicateDetector` | `find_duplicates` and the Delete and Move branches, over an `INSTANCE` of `TreeWalker` | walker state, `pending` files of the current triple, `hashes`, `duplicates`, `order` (dict insertion order), `todo`, `removed`, `total_deleted`; for Move, the target directory `tdir` (name → object), `relocated`, `moved` | `NextTriple`, `HashFile`, `EndScan`, `Choose` (Delete or Move), `DeletePath`, `EndDelete`, `MovePath` (the free-name loop and `shutil.move`, or a logged failure), `EndMove` |
| `Organize` | `organize_directory` | `fs` (path → directory or file), `phase`, `listing` (the `os.listdir` snapshot), `next`, `moved_count`, `snapshot` | `Begin` (the `_logs` makedirs, the confirmation, the listdir), `OrganizeItem` (one loop iteration), `Finish` |
| `OrganizeProofs` | theorems about `Organize` | — | — |
| `PermissionUpdateProofs` | theorems about `PermissionUpdate` | — | — |
| `BackupOrchestrationProofs` | theorems about `BackupOrchestration` | — | — |
| `PermissionUpdate` | `PermissionUpdateWorker`, over an `INSTANCE` of `TreeWalker` whose unreadable set is the directories currently at mode 0000 | walker state, `mode` (the file system's modes), `all_items`, `processed`, `granted`, `cancel`, `result` | `BeginRoot`, `Enumerate`, `EndEnumeration`, `GrantRoot`, `ApplyItem`, `Finish`, `Cancel` |
| `BackupOrchestration` | MainWindow's backup slots | `triggers`, `queue`, the workers in flight, which permission bars are full, dialog visibility, `started` | `TriggerBackup(n)` (all sources queued and the permission worker started, or a `makedirs`/`new_log_file` raising at the k-th source), `PermProgressFull`, `PermissionUpdateFinished`, `BackupFinished`, `CancelPermissionUpdate`, `CancelBackup` |

Each `MC_*` module gives the constants concrete values for TLC.

### Modelling choices

- **Data is abstracted, control is kept.** Paths are model values. An entry has a kind
  (`dir`, `junction`, `link`, `file`, `unstatable`), a parent and, for directories, a target.
  A `junction` stands for a directory reparse point or a mount that `is_dir` reports as a
  directory and `realpath` resolves elsewhere. A stack element is the real directory its path
  lists.
- **Listing order.** `scandir`'s order is the OS's, so every permutation is explored
  (`SetToSeqs`).
- **The copy always fails.** `fast_scan` lists files by full path (`entry.path`, line 98), so
  `os.path.join(dst_folder, fname)` (line 238) returns the source path and `shutil.copy2`
  raises `SameFileError`. `CopyFile` therefore has the one outcome the code can produce, an
  error, and the locked counter update and `progress_update` (267-274) are not steps of the
  model: no run of the program reaches them.
- **Pool scheduling.** `Start` takes the smallest queued task, the executor's FIFO queue, only
  while fewer than `MaxWorkers` tasks are busy.
- **File names** (`Organize`, `DuplicateDetector`'s move). A name is a record of a stem, the
  `_k` suffixes appended to it and what `os.path.splitext` takes as the extension: none, a bare
  trailing dot, or a word. That keeps every case the code's string operations tell apart
  without building strings. `os.path.exists` follows links, so a dangling link in the target
  counts as free, and `os.rename` replaces it.
- **The free-name loop** `while os.path.exists(dest)` is unbounded in the code. The model
  takes the least free counter up to `MaxCounter` and has no step when none is free. The
  instances give it enough room: the least free counter is at most the number of names
  already there.
- **Hashing.** A file's digest is a constant (collisions are identity, as spec §3 allows). A
  `link` resolves through `LinkTo` to a regular file, a directory or nothing, exactly as
  `open`, `getsize`, `os.chmod` and `os.path.isdir` follow it.
- **Platform.** `sys.platform` is fixed for the process, so `Windows` is chosen at `Init` and
  never changes. One run then covers both strategies.
- **Windows grant.** In `PermissionUpdate` the `icacls` grant's effect on ACLs is the external
  tool's. The model keeps its place in the control flow (per root, cancel not polled, failure
  logged).
- **The orchestration's workers.** They are abstracted to the signals the GUI thread sees. A
  permission worker sends a progress event that can fill the bar (Qt's default
  `autoReset`/`autoClose` then hide the dialog) and one `finished` with any outcome; one whose
  bar filled has finished its loop, so it reports success. A backup worker sends no progress
  (it never copies) and its `finished` always reports failure, which clears the queue. `QProgressDialog.cancel()` hides the dialog, which ends its
  modality. `CopyEngine` and `PermissionUpdate` model the workers themselves.

## 3. Runs

`expect` says whether TLC must pass or must find the property violated. A violation run states
what the spec says and shows the code disagreeing (see *Findings*).

| Run (cfg) | expect | Properties | What it shows |
|---|---|---|---|
| `copy_engine` (`MC_CopyEngine.cfg`) | pass | `ResultAccurate`, `Termination`, `BackupJobRefined` | 4 files, 3 matching, 2 pool threads, cancel at any moment. The terminal signal comes only after the pool join, reports the true count and claims success only if every planned file was copied and no cancel came. The run always ends. `BackupWorker` implements the abstract `BackupJob` (below). |
| `copy_engine_scenario` (`MC_CopyEngine_scenario.cfg`) | violation | `CopiesEveryPlannedFile` | Spec §8's copyTree scenario: with no cancel, three matching files should all be copied and the run succeed. The worker reports 0 copied and failure. |
| `tree_walker` (`MC_TreeWalker.cfg`) | pass | `NoDirTwice`, `WalkExact`, `Termination` | A junction cycle to the root, two routes to one directory, a link, an unreadable directory hiding another, an unstatable entry and two extra files. In every listing order, each real directory is yielded once, exactly the listable reachable ones are yielded, and the walk ends. |
| `duplicate_groups` | pass | `GroupsExact`, `MovedKept` | At the end of the scan, each group holds, once each, exactly the scanned paths with its digest, and every shared digest has a group (spec §8). Moving the duplicates into a target that already holds `a.txt` and a dangling link `a_1.txt` never overwrites a file, and the reported count is the number moved. |
| `duplicate_delete_symlink` | violation | `NoContentLost` | Delete Duplicates removes both regular copies and keeps a link to one of them. |
| `permission_update` | pass | `ProgressStream`, `NormalizedOnSuccess` | Two overlapping roots, a locked directory, links to an outside directory and file, an unowned file, either platform (the per-item chmod or the root grant) and a cancel at any moment. The terminal signal is truthful: success iff every item was counted, failure only after a cancel. A success leaves every enumerated item at the policy mode, with links followed. |
| `permission_locked_subdir` | violation | `TreeNormalized` | A locked subdirectory stays at 0000 after a successful run. |
| `permission_through_links` | violation | `ChmodConfined` | Directory X and file 7, both outside the roots, are chmodded. |
| `organize` (`MC_Organize.cfg`) | pass | `FilesKept`, `OrganizedOnDone`, `Termination` | `a.pdf` and `a_1.pdf` collide with each other and with `pdf/a.pdf`; a file that cannot be moved; a file named `a.`. In every listing order: no file is ever overwritten; when the summary shows, every movable file is in its extension's folder under its own stem and `moved_count` is exact; the slot returns. |
| `organize_extension_clash` | violation | `OrganizeCompletes` | A file `pdf` beside `a.pdf`: when `a.pdf` is listed first, `os.makedirs(path/pdf)` raises out of the slot. |
| `backup_orchestration` | pass | `QueueDiscipline` | Two presses, the `Documents` button with two users' folders and `Photos` with one, cancels, bars auto-closing, any permission outcome and `trigger_backup` raising at either source. Each press's backups start in source order, each at most once, even when a stale worker's slot pops a queue. |
| `backup_orchestration_overlap` | violation | `OneOperationAtATime` | Press, Cancel, press: two permission workers are in flight. |

**Bounds.**
- Each instance has just enough shape for the interesting case to occur: a cycle, two routes
  to one directory, an unreadable directory, links inside and outside, and a file the user does
  not own.
- `CopyEngine`: three planned tasks on two threads give contention for the pool, a queued task
  at cancel time, and out-of-order completion.
- `Organize`: two colliding names and a third already in the folder make the free-name loop
  go past `_1`; `MaxCounter = 3` is one more than it needs. `DuplicateDetector`'s target holds
  a file and a dangling link under the first two candidate names.
- `BackupOrchestration`: two presses (`MaxTriggers`) are the fewest that can overlap, and a
  two-element queue is the fewest that can be popped out of order.
- There is no unbounded counter: the walk, the item loops and the task list are finite by
  construction.

**Deadlock.** All cfgs say `CHECK_DEADLOCK FALSE`, because each system really stops:
- a worker's `run()` returns;
- the generator is exhausted;
- the GUI sits idle waiting for a click.

The liveness properties (`Termination`) state the progress that matters.

**Fairness.**
- Weak fairness on each worker's own steps: pool threads (`Worker(f)`), the as_completed loop
  (`Collect(f)`), the generator (`Step`), the QThread's `Run`, and delivery of each `finished`
  signal.
- Once a Python thread or QThread is started, the OS scheduler runs it. A queued signal is
  delivered by the event loop.
- User actions (`Cancel`, `TriggerBackup`, the Delete choice) get no fairness: the user may
  never click.

**Mutants.** Each property of each passing run has a mutant in `PROJECT.json`: an operator
defined before the action it replaces that turns the action into a plausible bug. TLC finds
the property violated under the run's own cfg.

| Mutant | Property it breaks |
|---|---|
| Finish without the pool join | `ResultAccurate` |
| The loop `return`s on cancel, never emitting `finished` | `Termination` (CopyEngine) |
| The loop does not count a failed result | `BackupJobRefined` |
| No visited check | `NoDirTwice` |
| `return` for `continue` on an unreadable directory | `WalkExact` |
| Pop only after a successful listing | `Termination` (TreeWalker) |
| The first path appended on every repeat | `GroupsExact` |
| A chmod error made fatal | `ProgressStream` |
| `isdir` without following links | `NormalizedOnSuccess` |
| The free-name loop dropped in the move (`TargetName` as the bare name) | `MovedKept` |
| `dest_file_path` used without the exists loop | `FilesKept` |
| `moved_count` incremented before the move is tried | `OrganizedOnDone` |
| The loop's new name never assigned | `Termination` (Organize) |
| `pop()` for `pop(0)` | `QueueDiscipline` |

## 4. Findings

1. **The backup never copies anything** (`src/sak_utiliy.py:238`).
   - `fast_scan` puts full paths in `files` (`entry.path`, `:98`).
   - `os.path.join` drops its first argument when the second is absolute. So `src` and `dst`
     (`:237-238`) are the same path.
   - `shutil.copy2` raises `SameFileError` for every task. The worker reports 0 files copied
     and failure with `Errors: n`.
   - Spec §8's copyTree scenario expects `filesCopied=3, success=true` (run
     `copy_engine_scenario`). As a consequence `backup_finished` always clears the queue, so a
     press's second source is never backed up.
2. **Delete Duplicates can delete the last copy** (`:963`).
   - A symbolic link hashes like its target.
   - Groups read `[second, first, ...]` and `paths[1:]` is deleted.
   - So the regular files can be removed while a dangling link is kept.
3. **Locked subdirectories are never normalised** (`:155`, `fast_scan` `:104-106`).
   - They are not enumerated, so they are never chmodded.
   - Nothing is logged for them, and the run reports success.
   - Spec §4.3 says locked-down trees are made traversable, and its scenario says the item is
     logged.
4. **chmod escapes the roots through symbolic links** (`:181`, `:129`). `os.chmod` and
   `os.path.isdir` follow links that `fast_scan` lists as files.
5. **Cancel re-enables the GUI while the worker runs** (`:796`, `:848`).
   - The modal dialog hides on Cancel but the worker runs on.
   - A second press starts a second operation beside the first.
   - The stale worker's `finished` then acts on the new dialog and the new queue.

6. **Organise stops half way on a file named like an extension** (`:892`).
   - `os.makedirs(path/pdf, exist_ok=True)` raises `FileExistsError` when `path/pdf` is a
     regular file.
   - Nothing catches it. The files listed before it are already moved, and no summary is shown.
   - Whether it happens depends on the listing order.

7. **A failing destination strands the queue** (`:759-760`).
   - `os.makedirs(destination_root)` and `new_log_file` run for each source inside
     `trigger_backup`, with nothing to catch them.
   - When one raises at the k-th source, the first k-1 sources are already queued and
     `_start_permission_update` is never called.
   - No worker is in flight to pop or clear that queue. It stays until the next press empties
     it, or until a worker left over from an earlier press pops it (the model has both traces).
   - `QueueDiscipline` still holds for such pops. No run checks the liveness failure itself.

A further hazard has no run. A name ending in a bare dot (`:890`), such as `a.`, has the
extension `""`, and `os.path.join(path, "")` is `path` itself. The exists loop then finds the
file itself and renames it in place to `a_1.`, counted as moved. `organize` includes such a file
and its properties accept this outcome. It is listed as a hazard in `PROJECT.json`.

## 5. Proofs (TLAPS)

`CopyEngineProofs.tla` proves, for every finite set of files, extensions, patterns and pool
size `MaxWorkers >= 1`:

- `IInvHolds`: `Spec => []IInv`.
- `TypeCorrect`: `Spec => []TypeOK`.
- `ResultAccurateHolds`: `Spec => []ResultAccurate`, the invariant the `copy_engine` run
  checks.

The assumptions are those `CopyEngine` declares and TLC evaluates on every run:
- `Files` is a finite set of naturals;
- `MaxWorkers ∈ Nat \ {0}`;
- the sentinel is not a real value (`NoResult ∉ Result`).

**The argument.** `ResultAccurate` is not inductive on its own: a step of `Finish` needs to
know what the other threads have done. `IInv` strengthens it with what the code maintains:

- **`OutcomeMatchesPc`:** a task has an outcome exactly once it is done, and no outcome is
  ok, since `copy2` onto the source raises.
- **`PlanShape`:** the planned/collected sets and the phase agree.
- **`ErrorsCounted`:** without a cancel, `errors` counts exactly the collected failures.
- **`LoopExit`:** without a cancel, the loop is left only once every task was collected.
- **`ResultShape`:** a result exists exactly in phase finished, after the pool drained; it
  carries `files_copied` (0), and success implies a non-empty plan, no cancel and no error.

The proof of `IInv /\ [Next]_vars => IInv'` has one step per action, and one sub-step per
conjunct the action disturbs. The two cardinality facts it rests on are stated as lemmas
(`TaskSetFinite`, `CardinalityAddNew`), and `NothingCopied` derives `Copied = {}` from
`OutcomeMatchesPc`. `IInv` was first checked by TLC as an invariant of the `copy_engine`
instance and of variants (one or three threads, patterns `*` and none).

It also proves `BackupJobRefinedHolds`: `Spec => BackupJobRefined`, the refinement the
`copy_engine` run checks as a `PROPERTY`. `BackupJob` is what spec.md promises of a backup run:
a plan of the matching files, each copied at most once while the run is on, a cancel request
at any time before the end, and one report that counts the copies and claims success exactly
when no cancel came and every planned file was copied. The refinement mapping is:
- the concrete `drain` phase (after the `as_completed` loop, before the pool join) is the
  abstract `run`; the other phases map to themselves;
- the abstract `copied` is `Copied`, the tasks whose outcome is ok (none, in this code);
- `Planned` is the set of files that `Matches`.

The initial state maps to the abstract one. `NextRefines` shows, from `IInv`, that `Plan` is
`MakePlan`, `Finish` is `Report`, `Cancel` is `RequestCancel`, and every other step (`Start`,
`CopyFile`, `Collect`) leaves the mapped state alone (`WorkerStutters`). The lemma it needs
besides `NothingCopied`: off a cancel, `errors = 0` exactly when every planned file was copied
(`NoErrorsIffAllCopied`, from `LoopExit`, `ErrorsCounted` and the finiteness of task sets).
Since nothing is ever copied, the refinement says that the report's success is false for every
non-empty plan, as the abstract job demands when no file was copied; the mutant that stops the
loop counting failures breaks it.

`TreeWalkerProofs.tla` proves, for every finite set of entries, every root directory and every
set of unreadable directories:

- `WalkTypeCorrect`: `Spec => []TypeOK` for `fast_scan`.
- `NoDirTwiceHolds`: `Spec => []NoDirTwice`, the invariant the `tree_walker` run checks.

The invariant it is proved from adds `YieldedVisited`: every yielded directory is in
`visited`. That fact is what makes a new yield distinct, since a directory is yielded only when
its real path was not yet visited. `WalkIInv` proves the step for every set `U` of directories
whose listing raises, so it also covers the walks that `DuplicateDetector` and
`PermissionUpdate` instantiate. Two lemmas give the types of a listing order (`ListingIsSeq`,
a member of `SetToSeqs` of a finite set is a sequence over it) and of the pushed targets
(`PushedAreDirs`).

`OrganizeProofs.tla` proves `FilesKeptHolds`: `Spec => []FilesKept`. It holds for every tree,
listing order, set of unmovable files and `MaxCounter ∈ Nat`. `FilesKept` is inductive on its
own, and the proof rests on three lemmas:
- `DestPathFree`: the name the free-name loop picks is not taken. When some counter up to the
  bound is free, a least free one exists by `WFMin` over `<` on `Nat`, from
  WellFoundedInduction. The `CHOOSE` then picks a free one.
- `MakeDirsKeeps`: `makedirs` only adds a directory.
- `MoveToKeeps`: a move onto a free path keeps the tree's range.

It also proves `OrganizedOnDoneHolds`: `Spec => []OrganizedOnDone`, the second invariant of
the `organize` run. When the summary is shown, each file of the listing that could be moved
is in its extension's folder, keeps its stem and extends its suffixes; one that could not stays
where it was; and `moved_count` is the number of files moved. It holds for every tree, listing
order, set of unmovable files and counter bound. The tree assumption `InitFSAssumption` states
what the file system gives the code: the tree is finite, its paths are sequences of names, and
each file is at one path. The inductive invariant `OInv` adds:
- **`OneHolder`:** no file is at two paths. `makedirs` and a move onto a free path keep it
  (`MakeDirsOneHolder`, `MoveToOneHolder`). It is what makes the file's `Holder` the path the
  move chose.
- **`LoopState`:** the listing is an injective sequence of names; every entry not yet handled
  still holds its file (or is a directory); every handled file is at a path that places it
  (`PlacedAt`); and `moved_count` is the number of handled files that were not busy.

Its step lemmas are `BeginOInv` (the listing covers every file of the snapshot:
`SetToSeqsOnto`), `ItemOInv` (a skipped entry, an aborted `makedirs`, a failed move and a move)
and `NextOInv`. `DestPathShape` gives the shape of the destination path, through
`FrontLastOfPair` (the front and last of a two-name path). TLC checked `OInv` on the `organize`
and clash instances and on variants with no and two unmovable files.

`PermissionUpdateProofs.tla` proves `ProgressStreamHolds`: `Spec => []ProgressStream`, the
invariant the `permission_update` run checks. It holds for every tree, root list, platform
and interleaving with cancel. Three assumptions are used, and TLC evaluates them on every
permission run:
- `WalkerAssumption`: the walker's assumptions hold for the instanced tree.
- `RootsAssumption`: `Roots` is a non-empty sequence of directories.
- `NoResultAssumption`: `NoResult ∉ Result`.

The inductive invariant `PInv` adds three facts:
- `TreeWalkerProofs`' `IInv`, instanced for the run's walk. The lemma `EnumWalk` carries it over
  an enumeration step through `WalkIInv`. It is needed only to know that `all_items` stays a
  sequence, so that `processed < Len(all_items)` rules out `processed = Len(all_items)`.
- The phase's range and the counters' types.
- `result = NoResult` exactly until the phase is `finished`.

It also proves `NormalizedOnSuccessHolds`: `Spec => []NormalizedOnSuccess`, the second invariant
of the `permission_update` run. On POSIX, a success leaves every enumerated item, except a
denied one or a dangling link, at the policy mode. For this, `PInv` has two more conjuncts:
- **`NormalizedPrefix`:** on POSIX, every item among the first `processed` is at the policy
  mode. A later `chmod` never undoes an earlier one, because each writes only the policy's
  mode of its own object. The lemma `SetPermsPolicy` states this.
- **`YieldedFiles`:** every file of a yielded triple is an entry of that directory. It is
  proved in `TreeWalkerProofs` as `WalkYieldedFiles`. It gives `all_items` its type, so that
  `Obj` of an item is an object (`ObjType`).

`BackupOrchestrationProofs.tla` proves `QueueDisciplineHolds`: `Spec => []QueueDiscipline`,
the safety invariant of the two orchestration runs. It holds for every number of presses and
every selection `Sources`. The `started` list records the backups in the order
`_start_next_backup` started them. The i-th backup started, if it is the k-th of its press
`t`, is `t`'s k-th source.

`QueueDiscipline` is stated by counting positions (`StartedBy`, a `Cardinality` of a set of
indices) rather than by `SelectSeq`, whose definition is recursive and beyond the provers.
TLC checked the two forms equal on every reachable state of both orchestration runs.

The inductive invariant `QInv` adds:
- **`TypeOK`:** the tags of `started` are presses that happened.
- **`QueueRest`:** a non-empty queue is a prefix of the rest of the current press's sources,
  after the ones already started: all of the rest, or the part before the source whose
  `makedirs`/`new_log_file` raised.

`QueueRest` is what makes a `pop(0)` start the next source in order, whichever stale or
current finished slot calls `_start_next_backup`. A new press restarts the count, since no
backup is tagged with it yet. The step lemmas are:
- `QInvTrigger` for a press;
- `QInvStart` for a start;
- `QInvClear` for a failure that clears the queue;
- `QInvUnchanged` for the slots that touch neither the queue nor `started`.

They rest on counting lemmas over `CountSet`:
- `CountExtend`: appending one element adds one to its tag's count and nothing to the others.
- `CountNone`: a tag that does not occur has count 0.

**Only model-checked.**
- Liveness (`Termination`): TLAPS does not check liveness under fairness or ENABLED here.
- `WalkExact`, which is about reachability in a graph (`Descendants`) and would need induction
  over paths.
- `DuplicateDetector`'s `GroupsExact` and `MovedKept`. Both are about `todo`, the
  concatenation of the duplicate groups (`FlattenSeq`), whose definition is a recursive
  function the provers cannot unfold for every input. `MovedKept`'s count (`moved` equals the
  number of relocated files) would need `todo` to be injective, which is induction over data.
  Proving them would mean rewriting the nested loops as an index over the groups.

## 6. Not modelled, and why

- **The JSON report of de-duplication** (`:993-998`). It only writes a file, and no property
  depends on its wording.
- **`keep_screen_on`** (`:616-659`). A Windows-only fallback thread outside the specified core.
  It depends on whether `SetThreadExecutionState` raises, which on Windows it does not, so its
  fallback branch is effectively unreachable.
- **`LicenseScanWorker` and the license UI, user selection, and button enabling.** Registry,
  plist and dialog I/O, excluded by spec §1. `BackupOrchestration` takes the selection as the
  constant `Sources` and relies on the buttons being enabled only with a backup location set.
- **Logging.** It is best-effort and swallows its own failures, and no property depends on it.
- **`BackupWorker`'s and `PermissionUpdateWorker`'s top-level `except Exception`.** Every call
  inside them that can raise is caught first.

## 7. Plan for further work

1. `DuplicateDetector` with the nested loops over groups as an explicit cursor, so that
   `MovedKept` and `GroupsExact` can be proved.
2. A liveness property for `BackupOrchestration`: a non-empty queue is eventually emptied or
   popped. It fails through finding 7, and once the destination join (finding 1) is fixed it
   would also need `backup_finished`'s success branch modelled again.

# A formal model of comicrust

comicrust is a native Linux port of ComicRack: a comic library manager and reader in Rust
(`src/crates`, 9 crates, about 130,000 lines with tests). This directory holds TLA+ modules
that model the parts of it where a test hardly reaches: the durable transactions that move
comic files and catalog records together, their recovery after a crash, and the threads that
share the database while the program runs, the queues and caches between a reader and its
pages, the library file and its watcher, the Comic Vine cache, and the organizer with its Undo.
TLC checks small instances; TLAPS proves the main safety properties of the journals, the
coordinator, the library session, the reader's page requests, the thumbnail views, the Comic Vine cache
and the organizer for every value of the constants.

In this text `incoming_transaction.rs` is `crates/cr-engine/src/incoming_transaction.rs`,
`library.rs` is `crates/cr-ui/src/library.rs` unless it says *engine*, and `shell.rs` is
`crates/cr-ui/src/browser/shell.rs`. ADRs are in `docs/decisions.md`.

## 1. Inventory

| Component | State | Operations | Interacts with | What makes it correct |
|---|---|---|---|---|
| Replacement transactions (`incoming_transaction.rs`, `library.rs:2862-3023`) | journal stage, two after-images, staging file, trash | begin, commit, roll forward in 8 stages, finish, recover | catalogs, file system, desktop trash, open session | no comic lost, catalogs name valid files, every journal rolls forward |
| Incoming transactions (`incoming_transaction.rs`, `shell.rs`, `library.rs:2712-2860`) | journal with pending actions, content-addressed sidecars, catalogs, undo log | begin, update, commit, abort, recover, reconcile; adoption, undo, discard | organizer mover (hooks), trash, session | no record lost, catalogs follow the files, recovery deletes nothing |
| Mutation coordinator and scan queue (`incoming_transaction.rs:15-196`, `library.rs:2195-2610`) | operation flag, mutation mutex, database epoch, close barrier, queued scans | begin/end operation, acquire guard, commit if the epoch holds, scan worker and its pump, close | every writer of a catalog | stale snapshots never reach the disk, no deadlock, queued scans run in order |
| Incoming catalog (`cr-engine/src/incoming.rs`) | `IncomingDb.xml` records | load, save, folder actions | transactions, scanner | disjoint from the Library |
| Database container (`cr-core/src/database/comic_database.rs`, `durable.rs`) | `ComicDb.xml`, `.bak`, `.restore` | save, open with fallback, durable replace and remove | session, backup | a crash leaves one readable copy |
| Library session (engine `library.rs`) | database, dirty flag, generation, watcher | mark dirty, snapshots, mark saved, install persisted | saves, scans, transactions | dirty is cleared only for what was saved |
| Book scanner (`scanner.rs`, `library.rs:188-260`) | clone of the books, batches, side effects of the main thread | scan, batch, landing merge | session | edits made during a scan survive |
| Watcher (`watch.rs`, engine `library.rs:54-69, 272-420`) | pending events, suppressed paths, build generation | debounce, rebuild, install, suppress | scan queue | an outside change is scanned, an own one is not |
| Processing queues (`queue.rs`, `queue_manager.rs`) | ordered queue, entries, running flags, callbacks | add, remove, trim, claim, finish, stop | image pool, metadata writers | one worker per item, nothing waits for ever |
| Image pool and caches (`image_pool.rs`, `cr-image/src/disk.rs`, `memory.rs`) | memory pools, cache directory | read, write, prune | queues, reader | a reader gets the page it asked for, budgets hold |
| Organizer (`cr-organize`) | planned moves, `undo.dat` | plan, move, overwrite, undo | transactions through effect hooks | undo restores what the run moved |
| Comic Vine cache (`cr-scrape/src/cache`) | SQLite tables, watermarks, request budget | sweep, update, import, refresh | network, scraper | an interrupted update loses no window |
| Matcher, smart lists, grouping, duplicates | none beyond the database | evaluate, rank | browser | sequential functions |
| Archives, images, XML, settings | none | read, write, convert | everything | round trips |
| GTK user interface, CLI, cache scripts | widgets | handlers | everything | outside the model |

What is hard in this code:

* **Crashes.** Both transactions write a journal around every file operation, and the next
  start finishes what it finds. Each durable write is a place where the program can stop.
* **Partial failure.** A write or a trash may fail in the middle of a run, and the session
  goes on with the catalogs it has in memory.
* **Stale snapshots.** Scans, operations and saves run on worker threads over clones, and are
  compared with a global epoch before they write.
* **Waiting.** A flag and a mutex serialise the workers; the main-thread pumps land their
  results and must not wait for each other.
* **Other programs** move the same files between two runs.

`PROJECT.json` lists every hazard at its line, with the properties that would catch it.

## 2. Plan

| Order | Module | What | State |
|---|---|---|---|
| 1 | `ReplacementPromise`, `ReplacementJournal`, `ReplacementJournalProofs` | replacement transactions, their abstract promise, proofs of the invariants and of the refinement | done |
| 2 | `CatalogTransfer`, `CatalogJournal`, `CatalogJournalProofs` | adoption, undo, discard and their recovery, the abstract transfer they implement, proofs of both | done |
| 3 | `Coordinator`, `CoordinatorProofs` | operation flag, guard, epoch, scans and queue, background and close saves, proofs | done |
| 4 | `LibrarySession`, `LibrarySessionProofs` | `ComicDb.xml` with `.bak` and `.restore`, the scan on a clone and its landing merge, the watcher and its builds, proofs | done |
| 5 | `ProcessingQueue`, `MemoryPool`, `ReaderPages`, `ReaderPagesProofs` | work queues, memory tier, the reader that waits for its pages, proofs that it shows the right ones and where a request is lost | done |
| 6 | `ThumbnailViews` | two views on one pool, the disk cache call by call, proofs in `ReaderPagesProofs` | done |
| 7 | `Organizer`, `OrganizerProofs` | runs, duplicates, `undo.dat`, Undo, proofs that no file is lost, that landings agree with the files and that an Undo brings back | done |
| 8 | `CvCache`, `CvCacheProofs` | windows and pages of the update, resume, the manager's queue, freshness, proofs of the queue, of what is served and of the watermark | done |
| 9 | `Folding`, `FoldTheorems` | what the provers need to know of the folds in 5, 7 and 8 | done |
| 10 | pure algorithms | duplicate rank as a preorder, base-list cycles | planned |

Runs are few: one or two for each module, safety and liveness together where the state
space allows it. One run is a violated one, of the disagreement with the source's own words that
costs a user most; the others are in section 6, each as a change to a run.

Abstract specifications: the replacement's promise (`ReplacementPromise`), and a book's move between
the catalogs as a record that follows its file (`CatalogTransfer`). Every invariant and every action property that a
passing run checks is proved, some under an assumption that section 5 names.

## 3. Modules

### ReplacementJournal

"Replace Library Copy" (ADR-052, ADR-054, ADR-055). State and code:

| Variable | Code |
|---|---|
| `file`, `linked` | the contents of source, staging, old Library path and destination, and whether staging and destination are one inode (the hard link) |
| `trash` | what `trash_file` moved away |
| `comicDb`, `incomingDb` | the catalogs on disk, before or after the replacement |
| `images` | the two sidecar after-images of ADR-055 |
| `journal` | the stage in `current.json` |
| `stage`, `pc` | the worker's `transaction.stage` and where it is between two durable steps |
| `session` | the database the open session holds |
| `stranded` | history: `begin_replacement` took the after-images away from a journal that was there nevertheless |

There is one action per durable step: `BeginCleanup`, `WriteImages`, `WritePrepared` for
`begin_replacement`; `StartCommit` for `commit_replacement`; one or more for each stage block
of `roll_replacement_forward`, with `SaveStage` as the journal write that ends each; `FinishImages`
and `FinishJournal` for `finish_replacement`; `Startup` for `recover`. A read (`exists`, length
and SHA-1) belongs to the step that acts on it. Contents are abstracted to five: the Incoming
comic, the Library comic, a cut copy, anything else, nothing. `Conflict` is any check that
refuses. `durable_replace` and `durable_remove` sync the parent directory last (`durable.rs:28`, `:45`), so that each
of their calls may fail in two ways: `IoError` before it changed anything, `LateError` when its change is
already there. At the first journal write the second is `PreparedReportsError`: `begin_replacement` answers
the error by removing the after-images of the journal it has just installed, and `StartupRefused` is what every
later start makes of that. After an error the session goes on in `pc = "failed"`. `Crash` may come anywhere; `Interfere` is another program
between two runs. `EpochChanged` is the check of `library.rs:2976`; the operation flag makes it
nearly unreachable in practice, but the code handles it and so does the model.

`ReplacementPromise` is the abstract specification: an obligation becomes durable, effects reach
the disk one at a time in a given order, none is undone, and the obligation ends when all are
there. `PromiseKeptInOrder` is the refinement: `Promised == INSTANCE ReplacementPromise WITH`
the journal as the obligation and the trashed file, the installed file, the two catalogs and the
removed source as effects.

### CatalogJournal

Adoption, its undo, and discard. A book has one file, in Incoming or in the Library, and a
Library path may hold another copy which an adoption deletes first.

| Variable | Code |
|---|---|
| `at`, `copies` | the files |
| `incomingDb`, `comicDb`, `undoLog` | `IncomingDb.xml`, `ComicDb.xml`, `undo.dat` |
| `sidecars`, `journal` | the content-addressed blobs and `current.json` |
| `tx`, `previous`, `last`, `report` | the worker's transaction, the images `mark_last(false)` goes back to, the last action, the operations the organizer reported as done |
| `session`, `open` | the open session's catalogs |
| `pc`, `then`, `stale` | the step, the step after the journal write, the blobs of the journal being replaced |

`StoreBlobs`, `ReplaceJournal`, `DropStale` are `write_journal`; every other action hands its
transaction to them with `Write(t, next)`. `PrepareRename`/`PrepareDelete` are
`before_rename`/`before_delete` (and the first half of the discard loop), `Rename`/`Delete` the
file operation, `MarkApplied`/`MarkFailed` `mark_last`. `Commit` to `Land` are `commit` and
`install_after_images`. `Startup` and the `Reconcile` actions are `recover` and
`reconcile_external`.

Abstracted: the order in which `apply_external_actions` visits the list (any pending book), and
its journal rewrites of actions that are already `Applied`.

`CatalogTransfer` is the abstract specification, of files and catalogs alone, without journal, images or session: a
file moves while only the catalog it leaves lists it, a catalog that is written takes the records of files that have
come and drops those of files that have gone and are listed elsewhere. `RecordsMoveInOrder` is the refinement:
`Transfer == INSTANCE CatalogTransfer WITH` `at` as the files and `incomingDb` and `comicDb` as the catalogs.

Left out: the organizer's branch for
a source inside the library, the deletion in an undo that overwrites, the `Scan` and
`FolderConversion` kinds, the snapshot of the config file.

### Coordinator

Who may change the catalogs, and when they are written. The GTK main thread runs handlers and
pumps one at a time, each to its end, so a handler is one action; four kinds of worker thread
(a run, a scan, the background save, the close save) meet it at three shared words.

| Variable | Code |
|---|---|
| `live`, `dirty`, `generation` | the session's `ComicDatabase`, `Library.dirty`, `mutation_generation` |
| `disk` | `ComicDb.xml` |
| `epoch`, `operation`, `guard` | `DATABASE_EPOCH`, `ACTIVE_OPERATIONS` with the name of its owner, `MUTATION_LOCK` with the name of its holder |
| `run` | the worker of an adoption, undo or replacement (kind `catalog`), a discard (`incoming`) or an organizer run (`organizer`), with the database and the epoch it was given |
| `scan`, `queue` | the Book Scanner thread with its stop flag and pump, `SCAN_QUEUE` |
| `saver` | the background and the close save: snapshot, generation, epoch |
| `abandoned` | history: changes that a run wrote to `ComicDb.xml` before it failed |
| `closing` | how far the `close-request` handler has come: polling, flushing the lists, saving, checkpointing the cache |
| `main` | the main thread: its loop, the inner loop of `library::save`, blocked on the guard, recursing, closed |

A database is the set of the changes made to it, each named by the event that made it: what
matters is whether a later database has the changes an earlier one had. A write of the
catalogs is one step here; how it survives a crash is the business of the two journals.
A run may fail before its write or after it (`RunFails`): `ComicDb.xml` is installed before the transaction is at its end, and
an error in between reaches the landing without a committed epoch. So may a save (`SaverFails`).
The branches the code has for a changed epoch are kept in `RunStarts`, `Install` and
`FinishWalk`, although `EpochHeldUntilLanding` says that a run never takes its own.
`StartNext` has no branch for an Incoming request that is refused the flag: the landing that
calls it has just found or left the flag free.

Left out: `save_incoming_catalog_async` (a worker that takes the flag, waits for the guard and commits under the epoch it was
asked at, as a run of kind `incoming` does, and writes `IncomingDb.xml` only), previews and simulations, the deferral of
watcher rescans, a close without a Comic Vine cache (no checkpoint, so no time for a late edit),
and a failed save at restart (the program quits all the same). Removing a book is an edit like any other;
what the landing of a scan does with it is in `LibrarySession`.

### LibrarySession

One session of the library and its file. The watched folder holds files that differ by extension
only, so that each may be another one renamed; what a file holds is a version, which stands for its
size and time.

| Variable | Code |
|---|---|
| `files` | the folder |
| `disk` | `ComicDb.xml`, `.bak` and `.restore`, each absent, cut or whole |
| `live`, `lastId` | the session's database with its dirty flag; the ids given |
| `watcher`, `build`, `suppressed` | `Library.watcher`, the build thread with `watcher_rx`, `suppressed_watch_paths` |
| `scan`, `side` | the scan worker with its clone and batches, `SCAN_REMOVED_IDS` and `SCAN_TOUCHED_IDS` |
| `saver` | the background save, step by step: cut `.bak`, fill it, cut the main file, fill it |
| `transaction` | a replacement that writes one of the files, and its landing |
| `kept`, `strays` | history: the databases a start may come up with, the books that a scan found renamed or missed |

`Poll` is the one-second timer: it installs a finished build, takes what has settled out of the
debounce window, drops the suppressed paths and starts a scan. `ProcessFile` is `process_file`
with the refresh, the rename and the new book; `LandBatch`, which may come during the walk with any number of new books, and
`LandScan` are the pump with `merge_scan_storage`. `AbortScan` sets the stop flag, which the worker looks at before each file.
`OpenBook` is the main thread's `open_book`, which with the setting AddToLibraryOnOpen adds a book while a scan works on its
copy. The other function that adds one, `insert_new_book` (`library.rs:4302`), is left out: its callers (`shell.rs:4401`,
`:4428`, `:4535`) give it books without a file. So is the pass of the scanner that removes the books of missing files: every
`ScanItem` the program makes has `remove_missing: false` (`library.rs:2136`, `:2213`). `Start` is `open_with_fallback`. The epoch appears as a `stale` flag on each
snapshot. The operation flag, the close and the queue of scans are in `Coordinator`.

### ProcessingQueue, MemoryPool, ReaderPages

`ProcessingQueue` (`queue.rs`) and `MemoryPool` (`memory.rs`) are operators, one per critical
section; the modules that own a queue or a pool hold their state.

| `ReaderPages` | Code |
|---|---|
| `view` | `ViewState` of `page_view.rs`: book, page, layout, rotations, what is loaded, queued, wanted, and whether the page is composed |
| `channel`, `pump` | `page_tx`/`page_rx`, a 10 ms pump of `start_pump` |
| `fast`, `slow`, `worker` | the two page queues and their threads |
| `memory`, `disk` | `ImagePool.pages`, the raw pages of slow providers |

A handler of the main thread (`Open`, `GoToPage`, `Scroll`, `SetPageLayout`, `RotatePage`) runs
`queue_for` and `dispatch_wanted` to the end. A worker's steps are `claim_next`, the look into the
memory pool, the rendering, the insert, the send and `finish`. A book's display order is the
reverse of its provider's, so that an index taken for a position shows. All pages are portrait;
zoom and scrolling inside a page are left out.

### ThumbnailViews

Two kinds of view on one pool: the item views, which count the loads in flight, and the pages
panel, which has two pumps. Every comic has one page.

| Variable | Code |
|---|---|
| `view`, `channel` | `ItemViewState` and `PagesState` with `thumb_tx`/`thumb_rx` and the pumps that run |
| `onDemand` | `generate_thumbnails_on_demand` |
| `fast`, `slow`, `covers`, `worker` | the thumbnail queues, `covers` being the unlimited one, and their threads |
| `memory` | `ImagePool.thumbs` |
| `disk` | the cache directory: inodes, the one temporary name, the age order, the write counter that starts a prune |

`DiskCache::write` is one step per call on the directory (`WorkerProduces` opens and cuts,
`WorkerFills`, `WorkerRenames`, `WorkerPrunes`), `read` two.

### CvCache

What the Comic Vine cache knows of one volume, and the three things that write it.

| Variable | Code |
|---|---|
| `day`, `vine`, `volumeDay` | the date, and Comic Vine's issues in the order of `date_last_updated` (external) |
| `row`, `skeleton`, `detail` | the tables `volume`, `issue_skeleton`, `issue_detail`; a version for a row's contents |
| `pending`, `sync` | `pending_issue_detail`, and `sync_state` with watermark and resume offset |
| `job` | the update (`update.rs`) or the manager's job (`manage.rs`) in the shell's one slot |
| `asked` | `issues_of_volume` (`freshness.rs`), in the slot and from the Missing Issues dialog |
| `excused`, `hollow`, `answer`, `snapshot` | history |

A request and the commit of its rows are two steps; a transaction of SQLite is one. `UpdateStore` is the one exception: the row and the issues
of a page of the update are two transactions, one after the other (`update.rs:403-415`), and one step here, which takes the count of the volume as it is then. `JobFails`,
`AskFails`, `UpdateCancelled` and `Crash` stop a worker between two of them.

### Organizer

A Move run, and its Undo. A file is the book it belongs to.

| Variable | Code |
|---|---|
| `files`, `bin` | the file system and the trash |
| `library`, `saved` | the session's paths, and those last saved |
| `undo` | `undo.dat` |
| `job` | the run or Undo: its copy of the library, the plan, the two loops of `mover.rs`, the duplicates held for the user, the answer that holds for all, `UndoCollection`, and what the landing applies |
| `touched`, `crashed`, `before`, `undone` | history |

`PlanBook` and `RenameInPlace` are the calculation of targets (any name; `Twin` differs from
path 1 by its case only), `ProcessBook` and `MoveBook` the first loop, `ProcessDuplicate` and the
three `Answer` actions the second, `WriteUndo` the end of the run, `Land` the landing of `organize.rs`.
`UndoItem`, `RestoreBook` and `UndoDuplicate` are the Undo. `Record` is
`UndoCollection::append`, which merges a move that begins where another ended.

## 4. Runs

| Run | Question | Result |
|---|---|---|
| `ReplacementCrash` | three crashes or I/O errors anywhere, extensions differ: safety, the refinement, and every journal is rolled forward, unless its first write stranded it | holds, 519 states |
| `ReplacementInterference` | the destination is the old path, failed sessions save at close, and other programs touch the files between runs: a journal has its images, and no last copy goes | holds, 6,405 states |
| `CatalogAdoption` | two adoption or undo runs with overwrites, failing file operations and two crashes: safety, and the refinement | holds, 459,918 states |
| `CatalogFailures` | two adoptions or discards, any two failing writes or crashes: the journal can be read, and goes whenever it can | holds, 2,094,866 states |
| `CoordinatorSafety` | edits, every kind of run and scan, saves and a close in every order, with failures | holds, 674,043 states |
| `CoordinatorProgress` | operations end, a close ends with everything saved, queued scans run, edits reach the disk | holds, 108,216 states |
| `ReaderPages` | a reader opens, pages, scrolls, rotates: does every slot get its page, and every page that is wanted come? | holds, 383,488 states |
| `ThumbnailViews` | two views ask for the same covers: does each come, and do the pumps outlive the answers? | holds, 89,983 states |
| `LibrarySession` | files, edits, opened books, scans and their stop, transactions, saves and crashes: one book per file, what a start opens, which notices are lost | holds, 1,135,169 states |
| `CvCache` | interrupted updates and other writers, while Comic Vine changes: is what the watermark covers current, and what is served whole? | holds, 683,885 states |
| `Organizer` | runs and Undos with every answer, failures and crashes: no file lost, landings and Undos agree with the files | holds, 348,038 states |
| `OrganizerUndoChain` | the same Undo after a run in which one book took another's place | **violated**, see section 6 |

**Bounds.** `MaxFaults` bounds crashes, failed writes and interferences together; two or three let a
recovery be interrupted and fail again; the theorems of section 5 cover any number, which matters: `OpensWhatWasSaved` names a case that takes two faults. Two books are the
least for which one succeeds and another fails in one run, and for which a run after a failed
one meets its journal. `MaxRuns = 2` lets a run meet what another one left: an undo after an adoption in
`CatalogAdoption`, an adoption and a discard in either order in `CatalogFailures`. The replacement has
one comic: its code holds one journal for one pair of files. `MaxEvents` of `Coordinator` bounds edits, runs, scans
and failures together: with four, a run, an edit, a queued scan and a failed save can meet in
one behaviour. Three constants of the coordinator are switches, off in a run only for a
reason section 6 gives: `TimerBeforeLanding` (the timer in the short time between a commit and the
landing of the run), `BusyClose` (the user goes on while the window waits to close; on in
`CoordinatorSafety`), `Restarts` (on in `CoordinatorProgress`). `CoordinatorProgress` has no Library
scans, since they deadlock with runs and closes.

`ReaderPages` has two books (one fast with a page that does not decode, one slow), two pages, three
workers, and room for one item in each queue and one page in memory, so that every request competes;
three moves let the reader leave a page, come back and find the first answer late. `ThumbnailViews`
has room for one item in every tier, a prune every second write and two events. `LibrarySession`
has two paths, three events (a file, an edit of its book, and one more; or a file, a scan, and what the user does meanwhile: open it, stop the scan)
and one crash or failed save.
`CvCache` has pages of one row and one page a run, so that a window of two issues takes two runs; one
edit, one new issue by it, one stop, two other writers, two days; three other writers reach a case more
(section 6), which takes TLC four times as many states and which the theorem covers. `Organizer` has two books,
three names of which two differ by case only, two runs or Undos, one change by another program and
two faults; without other programs it also holds with three books and four names.
`UndoRestores` expects nothing of an Undo (`before = Forgotten`) when undo.dat is not the record of what
was done since the library it should bring back: after a run whose undo.dat could not be written, after a crash
amid a run, after a run that began with a library that a crash had left behind its files, and once a file was renamed
in place: such a rename has no entry, and in a sequence of three runs, a crash and an Undo, found while proving the
property, a rename back leaves two books' records at each other's files. With three runs it holds too, and section 5 proves it
for any number.

The runs do not check for TLC's deadlock: a process ends when its window has closed, the bounds
stop users, and a thread that waits for ever is what the liveness properties find.

**Fairness.** For the two journals `FairSpec` is weak fairness of `Progress`: a worker thread runs until it returns,
a session is closed some day and the program is started again. Crashes, errors, new requests and
other programs are not fair. Nothing in the code retries a failed operation within a session, and
none is assumed. For the coordinator it is weak fairness of every step of a thread and of every timer (glib
runs a source that is due, the pumps poll each 50 or 100 ms, the operating system schedules
a runnable thread, a scan's walk is finite and each file has a deadline). Weak fairness is enough for the guard: the waiting
saver and the waiting run are the only ones that ask for it, and each asks at most once
per snapshot. `ReaderPages` and `ThumbnailViews` assume the same of queue workers and pumps, and
`LibrarySession` of the scan, the save, the poll and the landing. `CvCache` assumes that a worker that has
begun goes on, and that the user runs the update again (there is no timer for it). `Organizer` assumes that the
worker goes on and that a question is answered in the end. Users are otherwise not fair, and failures
never.

## 5. Proofs

`ReplacementJournalProofs` proves, for every value of the four constants (in particular any
`MaxFaults`):

* `TypeCorrect`, and `JournalInvariant`: `JournalInv` is inductive. `ControlInv` ties the worker's
  stage to the journal (at most one step behind: `StageSteps`). `FilesInv` says which files each
  stage guarantees; it is needed because `StagedBeforeTrash` alone does not survive a crash
  between the trash and the journal write. `CatalogsInv` does the same for the catalogs and the
  session; it holds only when no failed session saves over the catalogs.
* `ImagesAreThere` (`ImagesForJournal`, which excepts a `stranded` journal and nothing else) and, about that exception, `StrandedLosesNothing`
  (`StrandedIsUntouched`, assuming `~CloseAfterFailure`): a journal that no start can read has changed no file and no catalog.
* `LibraryComicIsKept` (`LibraryComicKept`),
  `OldFileLeavesLast` (`StagedBeforeTrash`), and `CatalogsAreConsistent`
  (`CatalogsNameValidFiles`, assuming `~CloseAfterFailure`; section 6 says what happens otherwise).
* `LastCopyStays` (`NeverDropsLastCopy`), for all constants, other
  programs included. The second conjunct of `CopyInv` is what makes it inductive: which files hold the Incoming
  comic is settled by the journal's own copy, link and rename alone, and the source is removed only when a copy of it
  has been found valid in the same step.
* `JournalImplementsPromise` (`PromiseKeptInOrder`, assuming `~Interference` and `~CloseAfterFailure`): every
  step maps to a step of `ReplacementPromise` or to a stutter. `EffectInv` says that an effect on the files
  belongs to a stage of the journal, so that none is seen before its promise.

`CatalogJournalProofs` proves `JournalIsLoadable` (`JournalLoadable`) for any set of books and any
failures, from `SidecarInv`: the blobs are stored before the journal names them, and a blob is
removed only when the journal on disk does not name it; all other actions leave both alone.
`RecoveryDeletesNothing` (`RecoveryTakesNothing`) follows from `DeletionInv`: the steps that delete
files are steps of an open session, and a crash leaves them. `TypeCorrect` holds for all constants too.

The rest of that module is about the records. `JournalInvariant` says that `JournalInv` is inductive when the commit's own
writes (`commit` and `cleanup` in `Failures`) do not fail, whatever else fails or crashes. `LinkInv` ties the transaction
to the journal on disk; `RunInv` says at every step of the worker and of the recovery that the actions of the
transaction fit the files (`ActionsInv`), that its images list what the actions have moved (`ImagesInv`) and that what the
organizer reported is what was done (`DoneInv`); `RecordsInv` that, of the catalogs on disk, an image of the journal
and one of the worker, each that may be all there is lists every file (`Sound`). `RecordIsNeverLost` (`RecordNeverLost`) and `RecordsFollow` (`RecordsFollowFiles`) follow.
`JournalImplementsTransfer` (`RecordsMoveInOrder`, under the same assumption, discards included) maps every step of the worker and of the recovery to a step
of `CatalogTransfer` or to a stutter. A Pending action belongs to a transaction of which nothing is installed, so a file moves only while the before-images are
on disk (`PendingIsPrepared`); an installed catalog is an after-image without Pending actions, and the source is written when the destination is
there (`InstallTransfers`); a close writes what is on disk (`ControlInv`). `TransferKeepsRecords` is the other half: whatever implements
the transfer keeps `RecordNeverLost`.
The assumption is needed: section 6 has the run that loses a record when a failed commit's journal is replaced by the next
adoption. `CatalogsMatch` (`CatalogsMatchFiles`) asks for more, that the catalogs say where each file is, and needs more: adoptions and
their undo only, and no failures, with any number of crashes. `MatchInv` holds the exact content of the images at each step
(`Exact`, `Matches`) and of what `reconcile_external` leaves (`Undone`). With discards or with a failing action it is false, as
section 6 shows.

`CoordinatorProofs` proves, for any set of run kinds and scan targets, any of the three switches and any
`MaxEvents`: `TypeCorrect`; `OperationInvariant`, the inductive invariant; and from it `EpochIsHeld`
(`EpochHeldUntilLanding`) and `SessionForgetsNothing` (`LiveNeverForgets`). The properties are not
inductive by themselves. `FlagInv` says that a run, an Incoming scan and a close save each own the
flag from their start to their landing, so no two are there at once; `HeldInv` adds that the database a run was given
contains the session's: the landing installs it whole (`install_persisted_database`), and only
the flag keeps edits and other landings out in between. `NamesInv` says that an event names one change, so
that what a failed run left on disk is nothing the session has or will get from a scan. The theorems do not need the switches to be off: what
an early timer and a restart break is the disk, not the session.

The second half of the module is about the disk, assuming `~Restarts` and `~TimerBeforeLanding` (section 6 says
what happens otherwise): `DiskInvariant`, and from it `DiskForgetsNothing` (`DiskNeverForgets`) and `CleanIsSaved`
(`CleanMeansSaved`). Both leave out what is `abandoned`: the change of a run that failed after its write is on disk and in no
session, and the next save takes it away (section 6). No other change is lost that way, whoever fails. `GuardInv` ties the guard to the thread at work, and `SourceInv` says that the disk has what the
session holds or what a committed run will install. `SaverInv` is the heart: a snapshot whose epoch is still the
session's has all of the session but the book a Library scan has shown and not marked (`Batch`), and a saver
that got past the comparison of the epochs has all that is on disk. That book is why the guard matters
as well: a scan holds it from the first batch to the landing that marks it.

The close comes last: `CloseInvariant`, and from it `CloseSaves` (`CloseSavesEverything`), assuming only `~BusyClose`, so
with restarts, early timers and any number of failures. Once the poll has seen both flag and guard free, nobody edits and no
run is left, so the session stands still (`Frozen`). `FreshInv` says that a snapshot of the current epoch has what the session
has, and `SavedInv` that whoever may still write the file (`MayWrite`) has all of it. The hard case is a Library scan whose
thread was started and has yet to take the guard: `ClosingInv` says that it was told to stop before it looked at a file.

`LibrarySessionProofs` proves, for any number of paths, events and faults:

* `TypeCorrect`, and `LibraryInvariant`: `SessionInv` is inductive. `OneBookPerFile` alone is not: a batch or the storage
  of a scan brings books from a clone that the worker has changed. `ScanInv` says what the clone has in common with the
  live library as long as the scan may land: it has every live book but those opened into the library since it began, at the same path
  unless the scan found it renamed; both kinds are the `strays`. A batch has books of the clone.
  `TransactionInv` says the same of a transaction's database, and that no scan walks beside it (the guard);
  `ClosedInv` that nothing lands in a closed library; `SoundInv` that whatever a start may open or a landing may install has one book
  per path, with ids already given. `NoTwoBooks` (`OneBookPerFile`) follows, with its two exceptions, which the code needs (section 6).
* `StartsWithWhatWasSaved` (`OpensWhatWasSaved`): `DiskInv` says which of the two files a start would take at every step of a
  save, and that the history admits it. The case of two faults in the property's comment was found by this proof.
* `NoticesStay` (`NoticeLostOnly`): a change on disk that was noticed goes from the watcher's window to a build, to a scan that waits or walks, and
  to what that scan is to store (`Noticed`). `NoticeKept` follows it through every step: a scan that is
  stopped drops what it has not looked at, which the property names; of what a landing drops, a book the user
  touched or removed is the only one whose change is not in the library then, since `merge_scan_storage` lays all others over the live ones.

`CvCacheProofs` proves, for any number of issues, days, pages and stops, `QueueInvariant` and from it `QueueIsHonoured` (`QueueOwesNothing`). `VineInv` says that
Comic Vine lists each issue once and edits only move entries to the end, so that the listed version only grows; `SnapshotInv` that what was
queued is no newer than what is listed. A detail that is fetched later is then at least as new as the queue.

`AnswerInvariant` and `ServedWhole` (`ServedIsWhole`) are about what is served without a request, again for all
constants. `AnswerInv` says that a stamp is never of tomorrow and a stored count never exceeds the issues that are out
(`ShapeInv`, `CountInv`), that the list a writer has read contains what was out when it read the volume (`IdsInv`), and
that, unless the history variable `hollow` excuses the row, its stamp and its count, and the count the Missing Issues dialog
read before its probe, say what the stored list has (`WholeInv`). One of the excuses, a list that the manager replaces by one it read
earlier (`Loses`), was found by this proof: it takes three other writers, and the run has two (section 6).

`WatermarkInvariant` and `WatermarkIsCurrent` (`BelowWatermarkIsCurrent`) are about the update. A window is a piece of Comic Vine's list, which is in
the order of the days (`SortedInv`), so that a watermark is a position in it (`Cut`) and an offset a distance from there
(`WindowFacts`). A reader `Stands` where it has read to if everything before is held or excused, and something is left behind it or it
has read nothing. That is an invariant of the stored watermark and offset (`SyncInv`) and of the run between two pages (`SlotInv`); between a
request and its commit `Took` takes its place, for which an entry may also be in the page or, if the window is read to its
end, behind the window. An edit takes one entry out of the list and puts it at the end: `VineReads` follows what that moves across
an offset, and it is one entry, the one `SteppedOver` excuses. The other writers keep what is held since nothing they know is
ahead of Comic Vine (`KnownInv`, `WriteHolds`).

`OrganizerProofs` proves, for any number of books, paths, runs, faults and changes by other programs, three things.

* `FilesAreKept` (`KeptOrBinned`), from `KeptInvariant`. `FreeInv` is what makes it inductive: between the look at a destination
  and the move nothing but another program can put a file there, and no program puts a book's file there. No assumption on the
  answers, the failing calls or the crashes is made.
* `LandedAgree` (`LandedBooksHaveTheirFiles`), from `SettledInvariant`. The property speaks of the library when no job is under way; `Located`
  says the same of the library a landing now would give, at every step of a run or an Undo. To stay so, the moves that are left must start
  from where their books are and from one path each (`TodoInv`, `ApartInv`); that in turn needs, when an Undo begins, that what `undo.dat` lists has
  no chains once it is loaded and recorded again, and so that no run logged two moves to one path, nor a move from where
  an earlier one ended (`LogInv`, `Unwound`): `UndoCollection::append` changes nothing of such a log (`UnwoundStays`) and gives one without chains
  from its reverse (`BackwardIsFree`).
* `UndoBringsBack` (`UndoRestores`), from `UndoInvariant`. The property speaks of the moment after an Undo that left no entry; the invariant says at
  every moment that each book is where it is to be or has an entry that leads there (`Accounted`), in `undo.dat` while no Undo is under way and
  in the Undo's residue while one is (`Residue`). An entry's present path is no book's old one (`Backs`), so a restored file is the right one and leaves
  nobody else's entry open. For `undo.dat` to start so, a run's log must say of each book that it stayed, or where it went (`RunLogged`), which a rename in
  place breaks. After a crash the library is the one to bring back and the Undo has no results (the `crashed` part of `UndoKept`); without one,
  `Located` of `SettledInvariant` gives the library.

`ReaderPagesProofs` proves, for any books, display positions, rotations, workers, sizes and moves, with `NoBook` not a book:

* `TypeCorrect` (`TypeOK`), which says more than types: the order and the table of a queue hold the same items, each once,
  and queues and memory keep their sizes. One lemma for each operator of `ProcessingQueue` and `MemoryPool`
  (`AddItemKeeps`, `TrimToKeeps`, `ClaimKeeps`, `EvictKeeps`, ...) says so of the operator.
* `LoadedIsRight` (`LoadedIsItsPage`), from `ShownInvariant`. The property speaks of the view alone; the invariant says of every place a page
  passes through what it is there. The callback of a queue's item has the book and the position of the key (`Fits`), so a worker that takes the
  key and later sends under the callback's name sends the right page; its image is the page of its key, or the error page exactly when the page
  does not decode (`WorkerInv`); so are the results in the channel (`Results`). The memory holds no page that does not decode
  (`Sizes`), since a reader that finds its page there does not wait for a worker. `on_page_loaded` compares the books: that is all
  that keeps a late result of another comic out, and without it the invariant is not inductive.
* `HandedOutIsHeld` and `RequestsStay` (`LostOnlyToTrimOrFinish`). `HandedInv` says that an item marked as running is with a worker of its queue: without
  it, a request could be dropped as the duplicate of an item that nobody runs. A request is then followed from the queue to a worker, to the
  channel and to the view, each of which answers for the same page of the same book (`ShownInvariant`).

The last part of the module is about `ThumbnailViews`, through an instance, `Thumbs`. Its theorems are stated under `Thumbs!ConstantsAssumption`: finite
sets of books and workers, since the property counts them, threads of one kind each, and `NoBook` and `NoView` not among books and views.

* `PendingCovers` (`PendingCoversAnswers`), from `CoverInv`. A view's count is not less than the results in its channel, the workers that will answer
  it and the items of either queue that will (`CountsFor`). Each step moves an answer from one of these to the next, so a lemma for each queue operator says by how much
  the number of those to come changes; a request adds one to the count before it adds one to a queue. A count goes down
  with a result, and the last pump ends only in a tick that found nothing and a count of 0.
* `CoversStay` (`CoverLostOnlyInQueue`), from `LossInv`. The property says which cover stops being answered, by what. An earlier form of it overlooked that a
  full queue may trim a view's request and take the book anew, for another view, in one step; this proof found it.

Three of these modules fold over sequences, and `FoldLeft` is defined by a recursive function on the subsets of a sequence's domain.
`FoldTheorems` gives what is needed of it: the function exists (`FoldExists`, with the step of the fold given as a function, since the
provers cannot instantiate an operator), a fold goes through one value per element (`FoldValues`), and induction along a sequence is a
set of numbers that has 0 and goes on (`Induction`, from the well-foundedness of the numbers). `Chosen` of `Folding` stands for `retain` and
`filter`, since the provers know nothing of `SelectSeq` (`ChosenIn`).

TLAPS does not reach liveness under fairness (`StartupRollsForward`, `StartupRecovers`, the coordinator's four, `WantedIsServed`,
`CoverIsServed`, `NoticedIsScanned`, `WindowIsFinished`, `RunEnds`). These, and the
violated run, are only model-checked. A type invariant is proved for `ReplacementJournal`, `CatalogJournal`, `Coordinator`, `LibrarySession` and
`ReaderPages`; those of the others hold when `TypeOK` is added to their cfgs.

## 6. Disagreements with the documentation

`OrganizerUndoChain` shows the one finding. A run moved book 2 from path 2 to path 3 and then book 1 from path 1
to path 2. `run_organize_undo` puts the loaded entries through `UndoCollection::append` once more
(`shell.rs:6008`), in their reversed order, in which the entry 1 to 2 comes before the entry 2 to 3. `append`
takes the second for a further move of the same file and keeps one entry, 3 back to 1. Book 2's
file goes to book 1's old place, and book 1 stays where it is. The loader says "reversed so multi-move
runs unwind in order" (`mover.rs:248`).

The models show more, each by one change to a run above:

* `ReplacementCrash` with `SameExtension = TRUE`, `StartupRollsForward`: with equal extensions the destination
  *is* the old path. A crash after the hard link, before the journal says `Installed`, makes every later
  start refuse the journal ("old file reappeared"), although "Startup rolls an interrupted replacement
  forward" (`docs/decisions.md:490`).
* `ReplacementCrash` with `ImagesForJournal` or `StartupRollsForward` without the exception for a `stranded` journal: the parent's sync fails
  after the rename of the first journal write (`durable.rs:27-28`), `begin_replacement` removes the after-images and not the
  journal (`incoming_transaction.rs:649-655`), and every later start refuses it, against the same sentence. The same late error at the
  removal of the journal, when all is done, leaves the session with the database of before the replacement and no
  journal, which is the case `CloseAfterFailure` below.
* `ReplacementCrash` with `CloseAfterFailure = TRUE`, `CatalogsNameValidFiles`: a replacement that fails
  after `ComicDb.xml` is written leaves the old database in the session under an unchanged epoch. The
  close save writes it back (`decisions.md:487`).
* `CatalogFailures` with `Kinds = {"Discard"}`, `Failures = {}`, `IncomingFilesExist`: a crash after a discard
  deleted a file and before `update` leaves an after-image that still lists it; recovery installs that
  image (`decisions.md:534`).
* `CatalogFailures` with `Kinds = {"Adoption"}`, `Failures = {"commit"}`, `MovedBooksHaveRecords`: with a journal
  left by a failed commit, the next adoption's first write is an `update` that replaces it; the first
  run's moved file never gets its record (`decisions.md:467`).
* `CatalogFailures` with `Kinds = {"Adoption"}`, `Failures = {"action"}`, `IncomingFilesExist`: `before_rename`
  pushes its action before it writes the journal. If the write fails, the book is reported as failed, but
  `commit` moves its file.
* `CoordinatorProgress` with `Targets = {"Library"}`, `OperationEnds`: a Library scan does not take the operation flag, so
  an adoption or discard may begin while it runs. Its pump does nothing while an operation is active; the
  scan worker keeps the guard until the pump lands it; the run's worker waits for the guard. (ADR-054
  refuses Compare actions during a scan; adoption and discard have no such check.)
* The same with `Kinds = {}`, `CloseEnds`: the deadlock with the close save as the operation. The close
  polls flag and guard once, and a scan thread that has been started takes the guard after that.
* `CoordinatorSafety` with `Restarts = TRUE`, `DiskNeverForgets`: `library::save` blocks the main thread on the
  guard. When a run commits meanwhile its landing cannot run, and `save` writes the database of before
  the run.
* `CoordinatorSafety` with `TimerBeforeLanding = TRUE`, `DiskNeverForgets`: between a commit and its
  landing the epoch is already the new one and the session's database still the old one, so a
  snapshot taken then passes the comparison.
* `CoordinatorSafety` with `CloseFindsIdle`: a command given while the close flushes the Incoming
  lists takes the flag; `save_for_close_async` then answers `Ok(false)` before it returns, and
  `save_and_finish_close` calls it again from within the answer, for ever.
* `CoordinatorSafety` with `DiskNeverForgets` without its exception (`abandoned`): a run whose commit fails after `ComicDb.xml` was
  written (`library.rs:2990-3003`; `shell.rs:1124-1130`, `:1170`) does not advance the epoch, so that the session's older
  database passes the comparison at the next save and overwrites it. The journal that stays behind writes the run's image once
  more at the next start, over what was edited in between.
* `CoordinatorProgress` with `BusyClose = TRUE`, `CloseSavesEverything`: an edit made during the
  cache checkpoint comes after the save.
* `CoordinatorSafety` with `ScansRunInArrivalOrder`: the queue is a stack. The code says so itself
  at `library.rs:2545`.
* `ReaderPages` with `BlankOnlyWhileDecoding`: a page turned back to a rotation that is still in memory
  is loaded and not composed, so the reader shows a blank page until it is moved. The same comes of a late result
  of an earlier rotation. `WantedIsServed` excepts requests that a full queue trimmed: nothing asks
  for them again until the reader moves.
* `ThumbnailViews` with `StaleCompletionsDropped`: the panel's later pump (`pages_view.rs:800`) does not look
  for which comic a thumbnail was asked, as its first one does (`pages_view.rs:379`).
* `ThumbnailViews` with `Damaged = {}` and `ReadsItsOwn`: two threads that write the disk cache share one temporary
  name (`disk.rs:131`); one may rename what the other is writing, and a reader that opened the file gets another
  book's thumbnail.
* `AbortCovers` clears the unlimited cover queue through `set_size(0)` (Tasks, Abort). The size stays 0, so
  nothing added later is generated until the program is started again.
* `LibrarySession` with `PagesFollowFile`: `refresh_stored_book` takes the new size and time before it asks
  whether the file changed, so the pages of a changed file are counted only when the count was 0
  (`scanner.rs:148`).
* `LibrarySession` with `RebuildLosesNothing`: what the old watcher holds in its debounce window goes when the
  new one is installed (engine `library.rs:348`). A failed build drops the watcher altogether.
* `LibrarySession` with `MaxFaults = 2`, `NeverNewEmpty`: a failed copy removes the `.bak` it should fall back
  to; a crash at the next save's copy leaves nothing to open (`docs/data-safety.md:25`).
* The same by the second case in the comment of `OpensWhatWasSaved`: a crash in the copy leaves only the `.bak`; the next start opens it, the
  next save cuts it first, and a crash there leaves nothing.
* `LibrarySession` with `MaxEvents = 4` and `OneBookPerFile` without its exception: a scan finds a file renamed; before it
  lands, a new file is written at the old path and scanned into a second book. If the user touched the first book during the scan, `merge_scan_storage`
  keeps its old path, and two books name one file.
* `LibrarySession` with `OneBookPerFile` without its exception for an opened book: with AddToLibraryOnOpen a file is opened while a scan
  has it before itself (`library.rs:2047-2059`). The scan's copy lacks the new book, so the scan adds its own, and
  `merge_scan_storage` keeps both (`library.rs:198`, `:218-232`).
* `NoticeLostOnly` names, in `LibrarySession`, the ways in which a change on disk is seen and forgotten: a refused scan,
  a suppressed path, a rebuild, an edit of the book during the scan, an aborted scan (`library.rs:359`; `scanner.rs:533`, `:551`, `:570`),
  whose notices were taken when it began and whose files nobody looks at afterwards. A refused scan also leaves its
  side effects for the next one, and a `.restore` file is consumed before its database is saved.
* `CvCache` with `CaughtUp`: the watermark passes issues that changed while their window was read by offset, and
  rows the manager wrote over (`update.rs:7`). A stored offset is used with a window whose end has moved.
* `CvCache` with `ServedAsComplete`: a row is stamped before its issues are stored, by `repage` and by the
  update, and a stop in between leaves it fresh (`freshness.rs:92`).
* `CvCache` with `MaxOthers = 3` and `ServedIsWhole` without its excuse for the manager (`Loses`): the Missing Issues dialog reads the row and
  probes; meanwhile the manager replaces the list by one it had read earlier, which is shorter. The probe agrees with
  the row that was read, and the shortened list is stamped and served as unchanged (`freshness.rs:165`).
* The Missing Issues dialog has a client without the request budget, though `budget.rs` says that every
  request passes it; `acquire` compares and logs in two steps. `sweep.rs` has no caller in the program.
* `Organizer` with `MaxRuns = 1`, `MaxFaults = 0`, `OverwriteTakesOne`: when two books get one target, or two swap places, with
  Overwrite, the record to be removed is looked up in the copy from the start of the run (`mover.rs:1391`).
* In `Organizer` also: a rename that changes the case only looks at nothing in its way and has no undo entry;
  a crash during a run leaves no `undo.dat`; a successful Undo keeps it (`shell.rs:5911` says it is
  deleted); the copy of the library is taken before the profile dialog is answered; an Undo asks about a
  duplicate without a second look, and removes record and file when the rename after it fails.

## 7. Not modelled

See `PROJECT.json` for the reason for each component. In short: text and pixel computations,
archive formats, XML and the GTK widgets are pure functions or I/O; SQLite, the desktop trash and
the file system are external, and enter as atomic steps that may fail.

Of the modelled components these parts are left out: the stop of a queue and its callback keys; the
decoding of images and the caches of custom thumbnails; the folder options and blacklist of the scanner; the
request budget, the import and the sweep of the Comic Vine cache; Copy and Simulate profiles of the organizer, fileless
covers, the rollback when fields are missing, empty folders, and all but the first of its numbered
names; the contents of the Incoming catalog beyond which books it lists.

----------------------------- MODULE LibrarySession ----------------------------
(***************************************************************************)
(* One session of the library and the file it lives in: ComicDb.xml with   *)
(* its .bak and .restore siblings (cr-core/database/comic_database.rs),    *)
(* the watcher of the library's folders (cr-engine/library.rs, watch.rs),  *)
(* the book scanner (cr-engine/scanner.rs) and the landing of a scan       *)
(* (cr-ui/library.rs).                                                     *)
(*                                                                         *)
(* The watched root holds files of one name that differ by extension, so   *)
(* that any of them may be another one renamed.  What a file holds is its  *)
(* version, which stands for its size and time; 0 is no file.  A handler   *)
(* of the main thread is one action; a worker's steps are one action per   *)
(* file it looks at or per call on the database's directory.               *)
(***************************************************************************)
EXTENDS Integers

CONSTANTS
    LastPath,      \* the paths are 1..LastPath, in the order of the walk
    MaxEvents,     \* bound on what the user and other programs do
    MaxFaults,     \* bound on the crashes and the saves that fail
    RestoreFiles   \* may a .restore file be put beside the database?

ASSUME ConstantsAssumption ==
    /\ LastPath \in Nat \ {0}
    /\ MaxEvents \in Nat
    /\ MaxFaults \in Nat
    /\ RestoreFiles \in BOOLEAN

VARIABLES
    files,        \* what each path holds
    disk,         \* ComicDb.xml, .bak and .restore
    live,         \* Library: the database in memory and its dirty flag
    lastId,       \* the last id given to a book
    watcher,      \* Library.watcher
    build,        \* the watcher build under way, Library.watcher_rx
    suppressed,   \* Library.suppressed_watch_paths
    scan,         \* the scan worker and its pump
    side,         \* SCAN_REMOVED_IDS and SCAN_TOUCHED_IDS
    saver,        \* the background save
    transaction,  \* a replacement that changes a file of the library
    events, faults,
    kept,         \* history: the databases a start may come up with
    strays        \* history: the books a scan found renamed or missed

vars == <<files, disk, live, lastId, watcher, build, suppressed, scan, side, saver,
          transaction, events, faults, kept, strays>>

Paths == 1..LastPath
Versions == 0..MaxEvents
NoFile == 0
NoPath == 0
Ids == Nat \ {0}
NoBooks == [id \in {} |-> {}]

\* file_path, the size and time last seen, and the version whose pages were
\* counted, 0 for a page_count of 0.
BookRecords == [path : Paths, seen : Versions, pages : Versions]
IsCatalog(c) == /\ DOMAIN c \subseteq Ids
                /\ \A id \in DOMAIN c : c[id] \in BookRecords

Absent == [state |-> "absent", books |-> NoBooks]
Cut == [state |-> "cut", books |-> NoBooks]
Whole(c) == [state |-> "whole", books |-> c]
IsFile(f) == f.state \in {"absent", "cut", "whole"} /\ IsCatalog(f.books)

IdleScan == [pc |-> "idle", store |-> NoBooks, left |-> {}, new |-> NoBooks,
             stale |-> FALSE, changed |-> FALSE, stop |-> FALSE]
IdleSaver == [pc |-> "idle", books |-> NoBooks, stale |-> FALSE]
NoTransaction == [path |-> NoPath, stale |-> FALSE, books |-> NoBooks]
NoWatcher == [on |-> FALSE, pending |-> {}]
NoBuild == [pc |-> "none", pending |-> {}]
StartedBuild == [pc |-> "walking", pending |-> {}]

TypeOK ==
    /\ files \in [Paths -> Versions]
    /\ IsFile(disk.main) /\ IsFile(disk.bak) /\ IsFile(disk.restore)
    /\ live.open \in BOOLEAN /\ live.dirty \in BOOLEAN /\ IsCatalog(live.books)
    /\ lastId \in Nat
    /\ watcher.on \in BOOLEAN /\ watcher.pending \subseteq Paths
    /\ build.pc \in {"none", "walking", "ready", "failed"} /\ build.pending \subseteq Paths
    /\ suppressed \subseteq Paths
    /\ scan.pc \in {"idle", "waiting", "walk", "batch", "done", "failed"}
    /\ IsCatalog(scan.store) /\ scan.left \subseteq Paths
    /\ IsCatalog(scan.new) /\ DOMAIN scan.new \subseteq DOMAIN scan.store
    /\ scan.stale \in BOOLEAN /\ scan.changed \in BOOLEAN /\ scan.stop \in BOOLEAN
    /\ side.removed \subseteq Ids /\ side.touched \subseteq Ids
    /\ saver.pc \in {"idle", "waiting", "bak", "open", "copy", "land"}
    /\ IsCatalog(saver.books) /\ saver.stale \in BOOLEAN
    /\ transaction.path \in Paths \cup {NoPath} /\ transaction.stale \in BOOLEAN
    /\ IsCatalog(transaction.books)
    /\ events \in 0..MaxEvents /\ faults \in 0..MaxFaults
    /\ strays \subseteq Ids

Init ==
    /\ files = [p \in Paths |-> NoFile]
    /\ disk = [main |-> Absent, bak |-> Absent, restore |-> Absent]
    /\ live = [open |-> TRUE, dirty |-> FALSE, books |-> NoBooks]
    /\ lastId = 0
    /\ watcher = NoWatcher
    /\ build = StartedBuild
    /\ suppressed = {}
    /\ scan = IdleScan
    /\ side = [removed |-> {}, touched |-> {}]
    /\ saver = IdleSaver
    /\ transaction = NoTransaction
    /\ events = 0
    /\ faults = 0
    /\ kept = {NoBooks}
    /\ strays = {}

Event ==
    /\ events < MaxEvents
    /\ events' = events + 1

\* Who holds the mutation guard.
GuardFree ==
    /\ scan.pc \notin {"walk", "batch", "done"}
    /\ saver.pc \notin {"bak", "open", "copy"}
    /\ transaction.path = NoPath

IsScanning == scan.pc # "idle"

\* The changes of mark_dirty that others see: the epoch and the generation.
ScanLate == [scan EXCEPT !.stale = @ \/ scan.pc = "waiting"]
SaverLate == [saver EXCEPT !.stale = @ \/ saver.pc # "idle"]
TransactionLate == [transaction EXCEPT !.stale = @ \/ transaction.path # NoPath]

Overlay(f, g) == [x \in DOMAIN f \cup DOMAIN g |-> IF x \in DOMAIN g THEN g[x] ELSE f[x]]
Without(f, S) == [x \in DOMAIN f \ S |-> f[x]]

--------------------------------------------------------------------------------
(* Other programs change the files, and the watchers hear of it.           *)

\* A path that is gone is forwarded only when the event says it was removed.
Notice(p) ==
    /\ watcher' = [watcher EXCEPT !.pending = IF watcher.on THEN @ \cup {p} ELSE @]
    /\ build' = [build EXCEPT !.pending = IF build.pc = "ready" THEN @ \cup {p} ELSE @]

Unheard == <<disk, live, lastId, suppressed, scan, side, saver, transaction, faults, kept,
             strays>>

FileWritten(p) ==
    /\ Event
    /\ files' = [files EXCEPT ![p] = events + 1]
    /\ Notice(p)
    /\ UNCHANGED Unheard

FileRemoved(p) ==
    /\ Event
    /\ files[p] # NoFile
    /\ files' = [files EXCEPT ![p] = NoFile]
    /\ Notice(p)
    /\ UNCHANGED Unheard

FileRenamed(p, q) ==
    /\ Event
    /\ p # q
    /\ files[p] # NoFile
    /\ files' = [files EXCEPT ![p] = NoFile, ![q] = files[p]]
    /\ Notice(q)
    /\ UNCHANGED Unheard

--------------------------------------------------------------------------------
(* The user works on the library.                                          *)

Quiet == <<files, disk, lastId, suppressed, faults, kept, strays>>

\* An edit, a reading position, a written-back sidecar.
Edit(id) ==
    /\ Event
    /\ live.open
    /\ id \in DOMAIN live.books
    /\ live' = [live EXCEPT !.dirty = TRUE]
    /\ side' = [side EXCEPT !.touched = IF IsScanning THEN @ \cup {id} ELSE @]
    /\ scan' = ScanLate /\ saver' = SaverLate /\ transaction' = TransactionLate
    /\ UNCHANGED <<Quiet, watcher, build>>

Remove(id) ==
    /\ Event
    /\ live.open
    /\ id \in DOMAIN live.books
    /\ live' = [live EXCEPT !.dirty = TRUE, !.books = Without(@, {id})]
    /\ side' = [side EXCEPT !.removed = IF IsScanning THEN @ \cup {id} ELSE @]
    /\ scan' = ScanLate /\ saver' = SaverLate /\ transaction' = TransactionLate
    /\ UNCHANGED <<Quiet, watcher, build>>

\* open_book, once the reader has opened the file: the book is refreshed from
\* it, or the setting AddToLibraryOnOpen adds a new one.  A scan that is under
\* way has its own copy of the library and misses the new book.
OpenBook(p) ==
    LET here == {id \in DOMAIN live.books : live.books[id].path = p}
        now(book) == [path |-> p, seen |-> files[p],
                      pages |-> IF book.pages = 0 \/ book.seen # files[p]
                                THEN files[p] ELSE book.pages]
        opened(id, book) == [live EXCEPT !.dirty = TRUE,
                                         !.books = Overlay(@, [k \in {id} |-> book])]
    IN  /\ Event
        /\ live.open
        /\ transaction.path = NoPath
        /\ files[p] # NoFile
        /\ \/ \E id \in here :
                 /\ live' = opened(id, now(live.books[id]))
                 /\ side' = [side EXCEPT !.touched = IF IsScanning THEN @ \cup {id} ELSE @]
                 /\ UNCHANGED <<lastId, strays>>
           \/ /\ here = {}
              /\ lastId' = lastId + 1
              /\ live' = opened(lastId', [path |-> p, seen |-> files[p], pages |-> files[p]])
              /\ strays' = IF scan.pc \in {"walk", "batch", "done"}
                           THEN strays \cup {lastId'} ELSE strays
              /\ UNCHANGED side
        /\ scan' = ScanLate /\ saver' = SaverLate
        /\ UNCHANGED <<files, disk, suppressed, faults, kept, transaction, watcher, build>>

\* set_watch_folders, the OK of the preferences.  A build under way loses its
\* receiver; the watcher that is installed stays.
Rebuild ==
    /\ Event
    /\ live.open
    /\ live' = [live EXCEPT !.dirty = TRUE]
    /\ build' = StartedBuild
    /\ scan' = ScanLate /\ saver' = SaverLate /\ transaction' = TransactionLate
    /\ UNCHANGED <<Quiet, side, watcher>>

StartedScan == [IdleScan EXCEPT !.pc = "waiting", !.store = live.books]

UserScans ==
    /\ Event
    /\ live.open
    /\ ~IsScanning
    /\ scan' = StartedScan
    /\ UNCHANGED <<Quiet, live, side, saver, transaction, watcher, build>>

\* abort_scan sets the flag that the worker reads between two files; after the
\* walk nobody reads it.
AbortScan ==
    /\ Event
    /\ live.open
    /\ scan.pc \in {"waiting", "walk"}
    /\ ~scan.stop
    /\ scan' = [scan EXCEPT !.stop = TRUE]
    /\ UNCHANGED <<Quiet, live, side, saver, transaction, watcher, build>>

\* A replacement writes a file of the library and the database with it, both
\* in one durable step here, under the guard.
TransactionWrites(p) ==
    LET after == [id \in DOMAIN live.books |->
                     IF live.books[id].path = p
                     THEN [path |-> p, seen |-> events + 1, pages |-> events + 1]
                     ELSE live.books[id]]
    IN  /\ Event
        /\ live.open
        /\ GuardFree
        /\ \E id \in DOMAIN live.books : live.books[id].path = p
        /\ files' = [files EXCEPT ![p] = events + 1]
        /\ disk' = [disk EXCEPT !.main = Whole(after)]
        /\ kept' = {after}
        /\ transaction' = [path |-> p, stale |-> FALSE, books |-> after]
        /\ Notice(p)
        /\ scan' = ScanLate /\ saver' = SaverLate
        /\ UNCHANGED <<live, lastId, suppressed, side, faults, strays>>

\* Its landing: suppress_watch_paths, then install_persisted_database, unless
\* the live library has changed since.
TransactionLands ==
    /\ transaction.path # NoPath
    /\ transaction' = NoTransaction
    /\ IF transaction.stale
       THEN UNCHANGED <<live, suppressed, build, saver>>
       ELSE /\ suppressed' = suppressed \cup {transaction.path}
            /\ live' = [live EXCEPT !.books = transaction.books, !.dirty = FALSE]
            /\ build' = StartedBuild
            /\ saver' = SaverLate
    /\ UNCHANGED <<files, disk, lastId, watcher, scan, side, events, faults, kept, strays>>

--------------------------------------------------------------------------------
(* The watcher is built on a thread and installed by the poll.             *)

Session == <<files, disk, live, lastId, scan, side, saver, transaction, events, faults, kept,
             strays>>

BuildEnds(result) ==
    /\ build.pc = "walking"
    /\ build' = [build EXCEPT !.pc = result]
    /\ UNCHANGED <<Session, watcher, suppressed>>

\* install_pending_watcher: the new watcher takes the old one's place.
Installed ==
    CASE build.pc = "ready" -> [on |-> TRUE, pending |-> build.pending]
      [] build.pc = "failed" -> NoWatcher
      [] OTHER -> watcher

\* A mutant of Poll: the install leaves the tick to the watcher.
PollForgets ==
    /\ live.open
    /\ ~IsScanning
    /\ transaction.path = NoPath
    /\ watcher' = [Installed EXCEPT !.pending = {}]
    /\ build' = IF build.pc = "walking" THEN build ELSE NoBuild
    /\ suppressed' = suppressed \ Installed.pending
    /\ scan' = scan
    /\ UNCHANGED <<files, disk, live, lastId, side, saver, transaction, events, faults, kept,
                   strays>>

\* A mutant of Poll: it installs and takes nothing.
PollStuck ==
    /\ live.open
    /\ ~IsScanning
    /\ transaction.path = NoPath
    /\ build.pc \in {"ready", "failed"}
    /\ build' = NoBuild
    /\ watcher' = Installed
    /\ UNCHANGED <<Session, suppressed>>

\* The one-second timer: take_watch_folder_rescans.  Inside the debounce
\* window take_pending gives nothing.
Poll ==
    /\ live.open
    /\ ~IsScanning
    /\ transaction.path = NoPath
    /\ build' = IF build.pc = "walking" THEN build ELSE NoBuild
    /\ \E taken \in {{}, Installed.pending} :
          /\ watcher' = [Installed EXCEPT !.pending = @ \ taken]
          /\ suppressed' = suppressed \ taken
          /\ scan' = IF taken \subseteq suppressed THEN scan ELSE StartedScan
    /\ UNCHANGED <<files, disk, live, lastId, side, saver, transaction, events, faults, kept,
                   strays>>

--------------------------------------------------------------------------------
(* The scan.                                                               *)

Outside == <<files, disk, watcher, build, suppressed, events, faults, kept>>

\* The worker has the guard; what marked the library dirty since the request
\* has moved the epoch.
ScanStarts ==
    /\ scan.pc = "waiting"
    /\ GuardFree
    /\ scan' = [scan EXCEPT !.pc = IF scan.stale THEN "failed" ELSE "walk",
                            !.left = {p \in Paths : files[p] # NoFile}]
    /\ UNCHANGED <<Outside, live, lastId, side, saver, transaction, strays>>

StoredAt(p) == {id \in DOMAIN scan.store : scan.store[id].path = p}

\* The book whose file has gone and whose size the new file has.
RenamedTo(p) == {id \in DOMAIN scan.store : /\ scan.store[id].seen = files[p]
                                            /\ files[scan.store[id].path] = NoFile}

\* refresh_stored_book.  The size and time are taken over before the call that
\* would count the pages of a changed file, which then sees no change.
Refreshed(book, p, reads) ==
    [path |-> p, seen |-> files[p],
     pages |-> IF book.pages = 0 /\ reads THEN files[p] ELSE book.pages]

\* create_book: the one book of a file that is new.
Created(p, reads) ==
    [id \in {lastId + 1} |->
        [path |-> p, seen |-> files[p], pages |-> IF reads THEN files[p] ELSE 0]]

\* A mutant of ProcessFile: a stored path is not looked up.
ProcessAsNew(p, reads) ==
    /\ scan' = [scan EXCEPT !.left = @ \ {p}, !.changed = TRUE,
                            !.new = Overlay(@, Created(p, reads)),
                            !.store = Overlay(@, Created(p, reads))]
    /\ lastId' = lastId + 1
    /\ UNCHANGED strays

\* process_file: a stored book is refreshed, a renamed one follows its file, or
\* a new one comes in.  A file abandoned at its deadline, or skipped or
\* stopped by the user, is not read.
ProcessFile(p, reads) ==
    LET update(id) == [scan EXCEPT !.left = @ \ {p}, !.changed = TRUE,
                                   !.store[id] = Refreshed(@, p, reads)]
    IN  IF StoredAt(p) # {}
        THEN \E id \in StoredAt(p) : scan' = update(id) /\ UNCHANGED <<lastId, strays>>
        ELSE IF RenamedTo(p) # {}
        THEN \E id \in RenamedTo(p) : /\ scan' = update(id)
                                       /\ strays' = strays \cup {id}
                                       /\ UNCHANGED lastId
        ELSE /\ lastId' = lastId + 1
             /\ UNCHANGED strays
             /\ scan' = [scan EXCEPT !.left = @ \ {p}, !.changed = TRUE,
                                     !.new = Overlay(@, Created(p, reads)),
                                     !.store = Overlay(@, Created(p, reads))]

\* The walk has listed the folder; a path that has gone since is no file.
ScanLooks ==
    /\ scan.pc = "walk"
    /\ ~scan.stop
    /\ \E p \in scan.left :
          /\ \A q \in scan.left : p <= q
          /\ IF files[p] = NoFile
             THEN scan' = [scan EXCEPT !.left = @ \ {p}] /\ UNCHANGED <<lastId, strays>>
             ELSE \E reads \in BOOLEAN : ProcessFile(p, reads)
    /\ UNCHANGED <<Outside, live, side, saver, transaction>>

\* The walk is over or was stopped, which leaves out the paths not yet looked
\* at; the last batch of new books is sent, then the storage.
ScanWalked ==
    /\ scan.pc = "walk"
    /\ scan.left = {} \/ scan.stop
    /\ scan' = [scan EXCEPT !.pc = "batch", !.left = {}]
    /\ UNCHANGED <<Outside, live, lastId, side, saver, transaction, strays>>

ScanSendsStorage ==
    /\ scan.pc = "batch"
    /\ scan' = [scan EXCEPT !.pc = "done"]
    /\ UNCHANGED <<Outside, live, lastId, side, saver, transaction, strays>>

\* A tick of the pump that finds batches, of any size here, and no storage yet.
\* A batch has the books as they were when they were created.
LandBatch ==
    /\ scan.pc \in {"walk", "batch"}
    /\ scan.new # NoBooks
    /\ live' = [live EXCEPT !.books = Overlay(@, scan.new)]
    /\ scan' = [scan EXCEPT !.new = NoBooks]
    /\ UNCHANGED <<Outside, lastId, side, saver, transaction, strays>>

\* merge_scan_storage: the worker's books, but for those removed; the
\* database's copy of those touched; and what only the database has.
Merge(store, books) ==
    LET touched == {id \in DOMAIN store \cap DOMAIN books : id \in side.touched}
    IN  Without(Overlay(books, Without(store, touched)), side.removed)

LandScan ==
    /\ scan.pc = "done"
    /\ live' = [live EXCEPT !.books = Merge(scan.store, @), !.dirty = @ \/ scan.changed]
    /\ side' = [removed |-> {}, touched |-> {}]
    /\ saver' = IF scan.changed THEN SaverLate ELSE saver
    /\ transaction' = IF scan.changed THEN TransactionLate ELSE transaction
    /\ scan' = IdleScan
    /\ UNCHANGED <<Outside, lastId, strays>>

\* A refused scan lands as an error; what was recorded for its merge stays.
LandRefusal ==
    /\ scan.pc = "failed"
    /\ scan' = IdleScan
    /\ UNCHANGED <<Outside, live, lastId, side, saver, transaction, strays>>

--------------------------------------------------------------------------------
(* The database is saved.                                                  *)

Unsaved == <<files, lastId, watcher, build, suppressed, scan, side, transaction, events,
             strays>>

SaveRequested ==
    /\ live.open
    /\ live.dirty
    /\ saver.pc = "idle"
    /\ saver' = [pc |-> "waiting", books |-> live.books, stale |-> FALSE]
    /\ UNCHANGED <<Unsaved, faults, disk, live, kept>>

\* The save gives up when the library has changed, or cuts the old .bak, which
\* may have been the only file that was whole.
SaveStarts ==
    /\ saver.pc = "waiting"
    /\ GuardFree
    /\ IF saver.stale
       THEN saver' = IdleSaver /\ UNCHANGED <<disk, kept>>
       ELSE /\ saver' = [saver EXCEPT !.pc = "bak"]
            /\ disk' = [disk EXCEPT !.bak = Cut]
            /\ kept' = kept \cup {saver.books}
                       \cup {c \in {NoBooks} : disk.main.state # "whole"}
    /\ UNCHANGED <<Unsaved, faults, live>>

WriteBak ==
    /\ saver.pc = "bak"
    /\ disk' = [disk EXCEPT !.bak = Whole(saver.books)]
    /\ saver' = [saver EXCEPT !.pc = "open"]
    /\ UNCHANGED <<Unsaved, faults, live, kept>>

\* A mutant of OpenMain: the copy goes the other way about, .bak first cut.
OpenMainAndBak ==
    /\ saver.pc = "open"
    /\ disk' = [disk EXCEPT !.main = Cut, !.bak = Cut]
    /\ saver' = [saver EXCEPT !.pc = "copy"]
    /\ UNCHANGED <<Unsaved, faults, live, kept>>

\* std::fs::copy cuts the file it copies to, then fills it.
OpenMain ==
    /\ saver.pc = "open"
    /\ disk' = [disk EXCEPT !.main = Cut]
    /\ saver' = [saver EXCEPT !.pc = "copy"]
    /\ UNCHANGED <<Unsaved, faults, live, kept>>

FillMain ==
    /\ saver.pc = "copy"
    /\ disk' = [disk EXCEPT !.main = Whole(saver.books)]
    /\ saver' = [saver EXCEPT !.pc = "land"]
    /\ kept' = {saver.books}
    /\ UNCHANGED <<Unsaved, faults, live>>

\* An error before the copy leaves the .bak as it is; one of the copy removes
\* it, whatever has become of the main file.
SaveFails ==
    /\ faults < MaxFaults
    /\ faults' = faults + 1
    /\ saver.pc \in {"bak", "open", "copy"}
    /\ disk' = [disk EXCEPT !.bak = IF saver.pc = "bak" THEN @ ELSE Absent]
    /\ saver' = IdleSaver
    /\ kept' = IF saver.pc = "copy" THEN kept \cup {NoBooks} ELSE kept
    /\ UNCHANGED <<Unsaved, live>>

LandSave ==
    /\ saver.pc = "land"
    /\ live' = [live EXCEPT !.dirty = @ /\ saver.stale]
    /\ saver' = IdleSaver
    /\ UNCHANGED <<Unsaved, faults, disk, kept>>

--------------------------------------------------------------------------------
(* The program stops and starts.                                           *)

\* A backup is restored by hand: its database becomes the .restore file.
PutRestore ==
    /\ Event
    /\ RestoreFiles
    /\ \E f \in {Cut, Whole(NoBooks)} : disk' = [disk EXCEPT !.restore = f]
    /\ UNCHANGED <<files, live, lastId, watcher, build, suppressed, scan, side, saver,
                   transaction, faults, kept, strays>>

Crash ==
    /\ live.open
    /\ faults < MaxFaults
    /\ faults' = faults + 1
    /\ live' = [open |-> FALSE, dirty |-> FALSE, books |-> NoBooks]
    /\ watcher' = NoWatcher /\ build' = NoBuild /\ suppressed' = {}
    /\ scan' = IdleScan /\ side' = [removed |-> {}, touched |-> {}]
    /\ saver' = IdleSaver /\ transaction' = NoTransaction
    /\ UNCHANGED <<files, disk, lastId, events, kept, strays>>

\* open_with_fallback.
Opened ==
    CASE disk.restore.state = "whole" -> disk.restore.books
      [] disk.restore.state # "whole" /\ disk.main.state = "whole" -> disk.main.books
      [] disk.restore.state # "whole" /\ disk.main.state # "whole" /\ disk.bak.state = "whole"
            -> disk.bak.books
      [] OTHER -> NoBooks

Start ==
    /\ ~live.open
    /\ live' = [open |-> TRUE, dirty |-> FALSE, books |-> Opened]
    /\ disk' = [disk EXCEPT !.restore = Absent]
    /\ build' = StartedBuild
    /\ UNCHANGED <<files, lastId, watcher, suppressed, scan, side, saver, transaction, events,
                   faults, kept, strays>>

--------------------------------------------------------------------------------
User ==
    \/ \E p \in Paths : FileWritten(p) \/ FileRemoved(p)
    \/ \E p \in Paths : OpenBook(p) \/ TransactionWrites(p)
    \/ \E p, q \in Paths : FileRenamed(p, q)
    \/ \E id \in DOMAIN live.books : Edit(id) \/ Remove(id)
    \/ Rebuild \/ UserScans \/ AbortScan \/ PutRestore

Scanning ==
    \/ ScanStarts \/ ScanLooks \/ ScanWalked \/ ScanSendsStorage
    \/ LandBatch \/ LandScan \/ LandRefusal

Saving ==
    \/ SaveStarts \/ WriteBak \/ OpenMain \/ FillMain \/ LandSave

Next ==
    \/ User
    \/ \E result \in {"ready", "failed"} : BuildEnds(result)
    \/ Poll \/ TransactionLands
    \/ Scanning
    \/ SaveRequested \/ Saving \/ SaveFails
    \/ Crash \/ Start

Spec == Init /\ [][Next]_vars

\* Threads run and timers fire.
FairSpec ==
    /\ Spec
    /\ WF_vars(Scanning)
    /\ WF_vars(Saving)
    /\ WF_vars(Poll)
    /\ WF_vars(TransactionLands)
--------------------------------------------------------------------------------
(* Properties.                                                             *)

\* Books of one path, of which no scan found one renamed or missed it.
Unique(books) ==
    \A a, b \in DOMAIN books \ strays : books[a].path = books[b].path => a = b

\* The library never holds two books for one file, whatever the batches, the
\* merge and the transactions put into it, and whatever a start comes up with.
\* Only a book whose file a scan found renamed may meet another one at its old
\* path, where a new file came up before the scan landed; and a book that the
\* user opened into the library while a scan walked may meet the scan's own.
OneBookPerFile == Unique(live.books)

\* A start comes up with the last database saved, or with the one that was
\* being saved when the program stopped, or with a restored one.  It comes up
\* with nothing only after a failed copy, or when a save was cut short that had
\* begun while no main file was whole: such a save first cuts the .bak that the
\* last start came up with.
OpensWhatWasSaved ==
    [][~live.open /\ live'.open =>
          \/ live'.books \in kept
          \/ disk.restore.state = "whole" /\ live'.books = disk.restore.books]_vars

\* The library does not show what path p holds ...
Stale(p) ==
    /\ files[p] # NoFile
    /\ \A id \in DOMAIN live.books : live.books[id].path = p => live.books[id].seen # files[p]

\* ... but somebody has been told and has not looked yet.
Noticed(p) ==
    \/ p \in Installed.pending
    \/ scan.pc = "waiting"
    \/ scan.pc = "walk" /\ p \in scan.left
    \/ \E id \in DOMAIN scan.store : /\ scan.pc \in {"walk", "batch", "done"}
                                     /\ scan.store[id].path = p
                                     /\ scan.store[id].seen = files[p]

\* A change the watcher saw reaches the library, unless the notice is lost.
NoticedIsScanned ==
    \A p \in Paths : (Stale(p) /\ Noticed(p)) ~> (~Stale(p) \/ ~Noticed(p))

\* A notice is lost only when a new build takes the watcher's place or is
\* begun over, when its path is suppressed, when the scan is refused, when it is
\* stopped before it came to the path, when the user worked on its book since
\* the last scan that landed, or in a crash.
NoticeLostOnly ==
    [][\A p \in Paths : Stale(p) /\ Noticed(p) /\ Stale(p)' /\ files'[p] = files[p] =>
          \/ Noticed(p)'
          \/ build'.pc \notin {build.pc, "none"}
          \/ p \in suppressed \ suppressed'
          \/ scan.pc = "waiting" /\ scan.stale
          \/ scan.pc = "walk" /\ scan.stop /\ p \in scan.left
          \/ \E id \in StoredAt(p) : scan.pc = "done" /\ id \in side.removed \cup side.touched
          \/ ~live'.open]_vars

\* scanner.rs:148: the page count is refreshed when it is unknown or the file
\* changed.
PagesFollowFile ==
    \A id \in DOMAIN live.books : live.books[id].pages \in {0, live.books[id].seen}

\* library.rs:348: the previous watcher stays live until the new one lands, so
\* a rebuild loses no events.
RebuildLosesNothing ==
    [][build.pc = "ready" /\ build'.pc = "none" /\ live'.open
          => watcher.pending \subseteq build.pending]_vars

\* data-safety.md:25: database writes are atomic.  A database that was written
\* once is there at every start.
NeverNewEmpty ==
    [][~live.open /\ live'.open /\ disk.main.state = "cut" => disk.bak.state = "whole"]_vars
================================================================================

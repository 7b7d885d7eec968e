-------------------------- MODULE LibrarySessionProofs --------------------------
(***************************************************************************)
(* Theorems about LibrarySession, for any number of paths, events and      *)
(* faults.  The argument is about what a scan's clone has in common with   *)
(* the live library: every live book is in it, but for those opened while  *)
(* the scan walked, at the same path unless the scan found it renamed.  A  *)
(* batch or the storage that lands can then not give the path of another   *)
(* live book to a book.                                                    *)
(***************************************************************************)
EXTENDS LibrarySession, TLAPS

--------------------------------------------------------------------------------
(* Sets of states, for TypeOK speaks of fields.                            *)

Catalogs == UNION {[S -> BookRecords] : S \in SUBSET Ids}
DiskFiles == [state : {"absent", "cut", "whole"}, books : Catalogs]
Scans == [pc : {"idle", "waiting", "walk", "batch", "done", "failed"}, store : Catalogs,
          left : SUBSET Paths, new : Catalogs, stale : BOOLEAN, changed : BOOLEAN,
          stop : BOOLEAN]
Savers == [pc : {"idle", "waiting", "bak", "open", "copy", "land"}, books : Catalogs,
           stale : BOOLEAN]
Transactions == [path : Paths \cup {NoPath}, stale : BOOLEAN, books : Catalogs]
Builds == [pc : {"none", "walking", "ready", "failed"}, pending : SUBSET Paths]
Watchers == [on : BOOLEAN, pending : SUBSET Paths]

FilesTyped ==
    /\ files \in [Paths -> Versions]
    /\ events \in 0..MaxEvents /\ faults \in 0..MaxFaults
WatchTyped ==
    /\ watcher \in Watchers
    /\ build \in Builds
    /\ suppressed \subseteq Paths
BooksTyped ==
    /\ disk \in [main : DiskFiles, bak : DiskFiles, restore : DiskFiles]
    /\ live \in [open : BOOLEAN, dirty : BOOLEAN, books : Catalogs]
    /\ lastId \in Nat
    /\ scan \in Scans
    /\ side \in [removed : SUBSET Ids, touched : SUBSET Ids]
    /\ saver \in Savers
    /\ transaction \in Transactions
    /\ strays \subseteq Ids

Types == FilesTyped /\ WatchTyped /\ BooksTyped

--------------------------------------------------------------------------------
(* The inductive invariant.                                                *)

\* A catalog whose ids have been given, and which has no two books of one path.
Sound(books) == DOMAIN books \subseteq 1..lastId /\ Unique(books)

\* Two catalogs have a book they share at one path.
Agree(c, d) == \A id \in (DOMAIN c \cap DOMAIN d) \ strays : c[id].path = d[id].path

\* Wherever books are kept, they are sound.
SoundInv ==
    /\ Sound(live.books) /\ Sound(scan.store) /\ Sound(saver.books)
    /\ Sound(transaction.books)
    /\ Sound(disk.main.books) /\ Sound(disk.bak.books) /\ Sound(disk.restore.books)

\* A scan that may still land has every live book in its clone, but for those
\* it missed, and its batches have books of the clone.
ScanLands ==
    \/ scan.pc \in {"walk", "batch", "done"}
    \/ scan.pc = "waiting" /\ ~scan.stale
ScanInv ==
    /\ DOMAIN scan.new \subseteq DOMAIN scan.store /\ Agree(scan.new, scan.store)
    /\ ScanLands => /\ DOMAIN live.books \ strays \subseteq DOMAIN scan.store
                    /\ Agree(live.books, scan.store)

\* A transaction that may still be installed has the live books and no other,
\* and no scan walks beside it.
TransactionInv ==
    transaction.path # NoPath =>
        /\ scan.pc \notin {"walk", "batch", "done"}
        /\ ~transaction.stale => /\ DOMAIN transaction.books = DOMAIN live.books
                                 /\ Agree(transaction.books, live.books)

\* Nothing runs between a crash and the next start.
ClosedInv == ~live.open => scan.pc = "idle" /\ transaction.path = NoPath

SessionInv == Types /\ SoundInv /\ ScanInv /\ TransactionInv /\ ClosedInv

--------------------------------------------------------------------------------
(* Catalogs.                                                               *)

\* What a catalog is, and what makes one.
LEMMA CatalogFacts ==
    ASSUME NEW c \in Catalogs
    PROVE  /\ DOMAIN c \subseteq Ids
           /\ \A id \in DOMAIN c : c[id] \in BookRecords
           /\ c = [id \in DOMAIN c |-> c[id]]
BY DEF Catalogs

LEMMA CatalogIntro ==
    ASSUME NEW S \in SUBSET Ids, NEW c \in [S -> BookRecords]
    PROVE  c \in Catalogs
BY DEF Catalogs

LEMMA NoBooksCatalog == NoBooks \in Catalogs /\ DOMAIN NoBooks = {}
<1>1. NoBooks \in [{} -> BookRecords]
  BY DEF NoBooks
<1> QED BY <1>1, CatalogIntro

LEMMA OverlayCatalog ==
    ASSUME NEW c \in Catalogs, NEW d \in Catalogs
    PROVE  /\ Overlay(c, d) \in Catalogs
           /\ DOMAIN Overlay(c, d) = DOMAIN c \cup DOMAIN d
           /\ \A id \in DOMAIN d : Overlay(c, d)[id] = d[id]
           /\ \A id \in DOMAIN c \ DOMAIN d : Overlay(c, d)[id] = c[id]
<1>1. Overlay(c, d) \in [DOMAIN c \cup DOMAIN d -> BookRecords]
  BY CatalogFacts DEF Overlay
<1>2. DOMAIN c \cup DOMAIN d \in SUBSET Ids
  BY CatalogFacts
<1>3. Overlay(c, d) \in Catalogs
  BY <1>1, <1>2, CatalogIntro
<1> QED BY <1>1, <1>3 DEF Overlay

LEMMA WithoutCatalog ==
    ASSUME NEW c \in Catalogs, NEW S
    PROVE  /\ Without(c, S) \in Catalogs
           /\ DOMAIN Without(c, S) = DOMAIN c \ S
           /\ \A id \in DOMAIN c \ S : Without(c, S)[id] = c[id]
<1>1. Without(c, S) \in [DOMAIN c \ S -> BookRecords]
  BY CatalogFacts DEF Without
<1>2. DOMAIN c \ S \in SUBSET Ids
  BY CatalogFacts
<1>3. Without(c, S) \in Catalogs
  BY <1>1, <1>2, CatalogIntro
<1> QED BY <1>1, <1>3 DEF Without

\* A catalog keeps being sound while ids are given and renames are found.
LEMMA SoundStays ==
    ASSUME NEW c, Sound(c), lastId \in Nat, lastId' \in Nat, lastId <= lastId',
           strays \subseteq strays'
    PROVE  /\ DOMAIN c \subseteq 1..lastId'
           /\ \A a, b \in DOMAIN c \ strays' : c[a].path = c[b].path => a = b
BY DEF Sound, Unique

LEMMA SoundNoBooks == Sound(NoBooks)
BY NoBooksCatalog DEF Sound, Unique

--------------------------------------------------------------------------------
(* The parts of the invariant along a step.                                *)

\* A book's record after the scan looked at it.
LEMMA RecordTypes ==
    ASSUME Types, NEW p \in Paths, NEW reads \in BOOLEAN, NEW book \in BookRecords
    PROVE  /\ Refreshed(book, p, reads) \in BookRecords
           /\ Refreshed(book, p, reads).path = p
<1>1. files[p] \in Versions /\ 0 \in Versions
  BY ConstantsAssumption DEF ConstantsAssumption, Types, FilesTyped, Versions
<1> QED BY <1>1 DEF Refreshed, BookRecords

\* The record of a book just created, which has an id of its own.
LEMMA CreatedType ==
    ASSUME Types, NEW p \in Paths, NEW reads \in BOOLEAN
    PROVE  /\ Created(p, reads) \in Catalogs
           /\ DOMAIN Created(p, reads) = {lastId + 1}
           /\ Created(p, reads)[lastId + 1].path = p
           /\ Created(p, reads)[lastId + 1].seen = files[p]
<1> DEFINE new == [path |-> p, seen |-> files[p], pages |-> IF reads THEN files[p] ELSE 0]
<1>1. files[p] \in Versions /\ 0 \in Versions /\ lastId \in Nat
  BY ConstantsAssumption DEF ConstantsAssumption, Types, FilesTyped, BooksTyped, Versions
<1>2. new \in BookRecords /\ new.path = p /\ new.seen = files[p]
  BY <1>1 DEF BookRecords
<1>3. Created(p, reads) = [id \in {lastId + 1} |-> new]
  BY DEF Created
<1> HIDE DEF new
<1>4. {lastId + 1} \in SUBSET Ids
  BY <1>1 DEF Ids
<1>5. Created(p, reads) \in [{lastId + 1} -> BookRecords]
  BY <1>2, <1>3
<1>6. Created(p, reads) \in Catalogs
  BY <1>4, <1>5, CatalogIntro
<1> QED BY <1>2, <1>3, <1>6

\* process_file keeps the clone sound: a book stays at its path unless it is
\* found renamed, and a new one comes only where no book is.
LEMMA ProcessStep ==
    ASSUME SessionInv, scan.pc = "walk", NEW p \in scan.left, NEW reads \in BOOLEAN,
           ProcessFile(p, reads)
    PROVE  /\ scan' \in Scans /\ scan'.pc = "walk"
           /\ lastId' \in Nat /\ lastId <= lastId'
           /\ strays \subseteq strays' /\ strays' \subseteq Ids
           /\ Sound(scan.store)'
           /\ DOMAIN scan'.new \subseteq DOMAIN scan'.store
           /\ Agree(scan.new, scan.store)'
           /\ DOMAIN scan.store \subseteq DOMAIN scan'.store
           /\ \A id \in DOMAIN scan.store \ strays' : scan'.store[id].path = scan.store[id].path
<1>0. /\ scan \in Scans /\ scan.store \in Catalogs /\ p \in Paths /\ Sound(scan.store)
      /\ DOMAIN scan.new \subseteq DOMAIN scan.store /\ Agree(scan.new, scan.store)
      /\ scan.new \in Catalogs /\ lastId \in Nat /\ strays \subseteq Ids
  BY DEF SessionInv, Types, BooksTyped, SoundInv, ScanInv, Scans
<1> DEFINE store == scan.store
           update(id) == [scan EXCEPT !.left = @ \ {p}, !.changed = TRUE,
                                      !.store[id] = Refreshed(@, p, reads)]
<1>1. \A id \in DOMAIN store : id \in Ids /\ store[id] \in BookRecords
  BY <1>0, CatalogFacts
<1>2. ASSUME NEW id \in DOMAIN store, scan' = update(id),
             lastId' = lastId, strays \subseteq strays', strays' \subseteq Ids,
             id \in strays' \/ store[id].path = p
      PROVE  /\ scan' \in Scans /\ scan'.pc = "walk" /\ Sound(scan.store)'
             /\ scan'.new = scan.new /\ DOMAIN scan'.store = DOMAIN store
             /\ \A k \in DOMAIN store \ strays' : scan'.store[k].path = store[k].path
  <2> DEFINE now == Refreshed(store[id], p, reads)
  <2>1. now \in BookRecords /\ now.path = p
    <3>1. Types /\ store[id] \in BookRecords /\ p \in Paths
      BY <1>0, <1>1 DEF SessionInv
    <3> QED BY <3>1, RecordTypes, Zenon
  <2> DEFINE after == [store EXCEPT ![id] = now]
  <2>2. after \in [DOMAIN store -> BookRecords]
    <3> HIDE DEF now
    <3> QED BY <1>0, <1>1, <2>1, CatalogFacts
  <2>3. after \in Catalogs
    <3> HIDE DEF after
    <3> QED BY <1>0, <2>2, CatalogFacts, CatalogIntro
  <2>4. scan' = [scan EXCEPT !.left = scan.left \ {p}, !.changed = TRUE, !.new = scan.new,
                             !.store = after]
    BY <1>0, <1>2 DEF Scans
  <2>5. scan' \in Scans /\ scan'.pc = "walk" /\ scan'.new = scan.new /\ scan'.store = after
    <3> DEFINE left == scan.left \ {p}
               new == scan.new
    <3>1. left \in SUBSET Paths /\ new \in Catalogs
      BY <1>0 DEF Scans
    <3>2. scan' = [scan EXCEPT !.left = left, !.changed = TRUE, !.new = new, !.store = after]
      BY <2>4
    <3> HIDE DEF after, left, new
    <3>3. scan' \in Scans /\ scan'.pc = scan.pc /\ scan'.new = new /\ scan'.store = after
      BY <1>0, <2>3, <3>1, <3>2 DEF Scans
    <3> QED BY <3>3 DEF new
  <2>6. \A k \in DOMAIN store \ strays' : after[k].path = store[k].path
    <3> HIDE DEF now
    <3> QED BY <1>0, <1>2, <2>1, CatalogFacts
  <2>7. Sound(scan.store)'
    <3> HIDE DEF after
    <3> QED BY <1>0, <1>2, <2>2, <2>5, <2>6 DEF Sound, Unique
  <2> HIDE DEF after
  <2> QED BY <2>2, <2>5, <2>6, <2>7
<1> HIDE DEF update
<1>6. ASSUME scan'.new = scan.new, DOMAIN scan'.store = DOMAIN store, strays \subseteq strays',
             \A k \in DOMAIN store \ strays' : scan'.store[k].path = store[k].path
      PROVE  DOMAIN scan'.new \subseteq DOMAIN scan'.store /\ Agree(scan.new, scan.store)'
  BY <1>0, <1>6 DEF Agree
<1>3. CASE StoredAt(p) # {}
  <2>1. PICK id \in StoredAt(p) : scan' = update(id) /\ lastId' = lastId /\ strays' = strays
    BY <1>3 DEF ProcessFile, update
  <2>2. id \in DOMAIN store /\ store[id].path = p
    BY DEF StoredAt
  <2> QED BY <1>0, <1>2, <1>6, <2>1, <2>2
<1>4. CASE StoredAt(p) = {} /\ RenamedTo(p) # {}
  <2>1. PICK id \in RenamedTo(p) :
            scan' = update(id) /\ lastId' = lastId /\ strays' = strays \cup {id}
    BY <1>4 DEF ProcessFile, update
  <2>2. id \in DOMAIN store
    BY DEF RenamedTo
  <2>3. strays \subseteq strays' /\ strays' \subseteq Ids /\ id \in strays'
    BY <1>0, <1>1, <2>1, <2>2
  <2> QED BY <1>0, <1>2, <1>6, <2>1, <2>2, <2>3
<1>5. CASE StoredAt(p) = {} /\ RenamedTo(p) = {}
  <2> DEFINE one == Created(p, reads)
             stored == Overlay(store, one)
             created == Overlay(scan.new, one)
  <2>1. lastId' = lastId + 1 /\ strays' = strays
    BY <1>5 DEF ProcessFile
  <2>2. scan' = [scan EXCEPT !.left = @ \ {p}, !.changed = TRUE, !.new = created,
                             !.store = stored]
    BY <1>5, <2>1 DEF ProcessFile
  <2>3. one \in Catalogs /\ DOMAIN one = {lastId + 1} /\ one[lastId + 1].path = p
    <3>1. Types /\ p \in Paths
      BY <1>0 DEF SessionInv
    <3> QED BY <3>1, CreatedType, Zenon
  <2> HIDE DEF one
  <2>4. /\ stored \in Catalogs
        /\ DOMAIN stored = DOMAIN store \cup {lastId + 1}
        /\ stored[lastId + 1] = one[lastId + 1]
        /\ \A id \in DOMAIN store \ {lastId + 1} : stored[id] = store[id]
    <3>1. store \in Catalogs
      BY <1>0
    <3> HIDE DEF store
    <3> QED BY <2>3, <3>1, OverlayCatalog
  <2>5. /\ created \in Catalogs
        /\ DOMAIN created = DOMAIN scan.new \cup {lastId + 1}
        /\ created[lastId + 1] = one[lastId + 1]
        /\ \A id \in DOMAIN scan.new \ {lastId + 1} : created[id] = scan.new[id]
    <3>1. scan.new \in Catalogs
      BY <1>0
    <3> QED BY <2>3, <3>1, OverlayCatalog
  <2> HIDE DEF stored, created
  <2>6. scan'.store = stored /\ scan'.new = created /\ scan'.pc = "walk" /\ scan' \in Scans
    BY <1>0, <2>2, <2>4, <2>5 DEF Scans
  <2>7. lastId + 1 \notin DOMAIN store
    BY <1>0 DEF Sound
  <2>8. \A id \in DOMAIN store : store[id].path # p
    BY <1>5 DEF StoredAt
  <2>9. Sound(scan.store)'
    BY <1>0, <2>1, <2>3, <2>4, <2>6, <2>7, <2>8 DEF Sound, Unique
  <2>10. DOMAIN scan'.new \subseteq DOMAIN scan'.store /\ Agree(scan.new, scan.store)'
    BY <1>0, <2>1, <2>4, <2>5, <2>6, <2>7 DEF Agree
  <2> QED BY <1>0, <2>1, <2>10, <2>4, <2>6, <2>7, <2>9
<1> QED BY <1>3, <1>4, <1>5, <1>0, <1>2

\* A step that leaves every catalog and the scan alone.
LEMMA BooksAlone ==
    ASSUME SessionInv, FilesTyped', WatchTyped',
           UNCHANGED <<disk, live, lastId, scan, side, saver, transaction, strays>>
    PROVE  SessionInv'
BY DEF SessionInv, Types, BooksTyped, SoundInv, Sound, Unique, ScanInv, ScanLands, Agree,
       TransactionInv, ClosedInv

\* A step that gives no id, finds no rename and leaves each catalog what it
\* was, but for the live one, which may lose books; then a scan that waits
\* and a transaction are told.
LEMMA SessionWorks ==
    ASSUME SessionInv, Types', UNCHANGED <<disk, lastId, strays>>,
           live'.open = live.open,
           saver'.books = saver.books,
           scan'.pc = scan.pc, scan'.store = scan.store, scan'.new = scan.new,
           transaction'.path = transaction.path, transaction'.books = transaction.books,
           scan.pc = "waiting" => scan'.stale,
           transaction.path # NoPath => transaction'.stale,
           DOMAIN live'.books \subseteq DOMAIN live.books,
           \A id \in DOMAIN live'.books : live'.books[id] = live.books[id]
    PROVE  SessionInv'
<1>1. SoundInv'
  BY DEF SessionInv, SoundInv, Sound, Unique
<1>2. ScanInv'
  BY DEF SessionInv, ScanInv, ScanLands, Agree
<1>3. TransactionInv'
  BY DEF SessionInv, TransactionInv
<1>4. ClosedInv'
  BY DEF SessionInv, ClosedInv
<1> QED BY <1>1, <1>2, <1>3, <1>4 DEF SessionInv

\* What mark_dirty does to the snapshots that are out.
LEMMA LateScan ==
    ASSUME scan \in Scans, scan' = ScanLate
    PROVE  /\ scan' \in Scans /\ scan'.pc = scan.pc /\ scan'.store = scan.store
           /\ scan'.new = scan.new /\ (scan.pc = "waiting" => scan'.stale)
BY DEF Scans, ScanLate

LEMMA LateSaver ==
    ASSUME saver \in Savers, saver' = SaverLate
    PROVE  saver' \in Savers /\ saver'.books = saver.books
BY DEF Savers, SaverLate

LEMMA LateTransaction ==
    ASSUME transaction \in Transactions, transaction' = TransactionLate
    PROVE  /\ transaction' \in Transactions /\ transaction'.path = transaction.path
           /\ transaction'.books = transaction.books
           /\ (transaction.path # NoPath => transaction'.stale)
BY DEF Transactions, TransactionLate

\* An event has a version of its own, within the bound.
LEMMA EventStep ==
    ASSUME Types, Event
    PROVE  events' \in 0..MaxEvents /\ events + 1 \in Versions
BY ConstantsAssumption DEF ConstantsAssumption, Types, FilesTyped, Event, Versions

LEMMA NoticeStep ==
    ASSUME Types, NEW p \in Paths, Notice(p)
    PROVE  watcher' \in Watchers /\ build' \in Builds
<1>1. watcher' \in Watchers
  BY DEF Types, WatchTyped, Watchers, Notice
<1>2. build' \in Builds
  BY DEF Types, WatchTyped, Builds, Notice
<1> QED BY <1>1, <1>2

\* Other programs touch no book.
LEMMA FilesStep ==
    ASSUME SessionInv, NEW p \in Paths, NEW q \in Paths,
           FileWritten(p) \/ FileRemoved(p) \/ FileRenamed(p, q)
    PROVE  SessionInv'
<1>1. Types
  BY DEF SessionInv
<1>2. Event
  BY DEF FileWritten, FileRemoved, FileRenamed
<1>3. /\ UNCHANGED <<disk, live, lastId, scan, side, saver, transaction, strays>>
      /\ UNCHANGED <<suppressed, faults>>
  BY DEF FileWritten, FileRemoved, FileRenamed, Unheard
<1>4. events' \in 0..MaxEvents /\ events + 1 \in Versions /\ NoFile \in Versions
  BY <1>1, <1>2, EventStep, ConstantsAssumption DEF ConstantsAssumption, Versions, NoFile
<1>5. files' \in [Paths -> Versions]
  BY <1>1, <1>4 DEF Types, FilesTyped, FileWritten, FileRemoved, FileRenamed
<1>6. watcher' \in Watchers /\ build' \in Builds
  BY <1>1, NoticeStep DEF FileWritten, FileRemoved, FileRenamed
<1>7. FilesTyped' /\ WatchTyped'
  BY <1>1, <1>3, <1>4, <1>5, <1>6 DEF Types, FilesTyped, WatchTyped
<1> QED BY <1>3, <1>7, BooksAlone

\* Edit, Remove and the preferences mark the library dirty.
LEMMA UserStep ==
    ASSUME SessionInv, NEW id \in DOMAIN live.books, Edit(id) \/ Remove(id)
    PROVE  SessionInv'
<1>1. Types /\ live \in [open : BOOLEAN, dirty : BOOLEAN, books : Catalogs] /\ id \in Ids
      /\ scan \in Scans /\ saver \in Savers /\ transaction \in Transactions
  BY CatalogFacts DEF SessionInv, Types, BooksTyped
<1>2. /\ scan' = ScanLate /\ saver' = SaverLate /\ transaction' = TransactionLate /\ Event
      /\ UNCHANGED <<files, disk, lastId, suppressed, faults, strays, watcher, build>>
  BY DEF Edit, Remove, Quiet
<1>3. /\ live' \in [open : BOOLEAN, dirty : BOOLEAN, books : Catalogs]
      /\ live'.open = live.open
      /\ DOMAIN live'.books \subseteq DOMAIN live.books
      /\ \A k \in DOMAIN live'.books : live'.books[k] = live.books[k]
  <2>1. CASE live' = [live EXCEPT !.dirty = TRUE]
    BY <1>1, <2>1
  <2>2. CASE live' = [live EXCEPT !.dirty = TRUE, !.books = Without(live.books, {id})]
    <3> DEFINE left == Without(live.books, {id})
    <3>1. /\ left \in Catalogs /\ DOMAIN left \subseteq DOMAIN live.books
          /\ \A k \in DOMAIN left : left[k] = live.books[k]
      BY <1>1, WithoutCatalog
    <3> HIDE DEF left
    <3>2. live' = [live EXCEPT !.dirty = TRUE, !.books = left]
      BY <2>2 DEF left
    <3> QED BY <1>1, <3>1, <3>2
  <2>3. \/ live' = [live EXCEPT !.dirty = TRUE]
        \/ live' = [live EXCEPT !.dirty = TRUE, !.books = Without(live.books, {id})]
    BY DEF Edit, Remove
  <2> QED BY <2>1, <2>2, <2>3
<1>4. side' \in [removed : SUBSET Ids, touched : SUBSET Ids]
  BY <1>1 DEF Edit, Remove, Types, BooksTyped
<1>5. FilesTyped' /\ WatchTyped'
  BY <1>1, <1>2, EventStep DEF Types, FilesTyped, WatchTyped
<1>6. Types'
  BY <1>1, <1>2, <1>3, <1>4, <1>5, LateScan, LateSaver, LateTransaction DEF Types, BooksTyped
<1> QED BY <1>1, <1>2, <1>3, <1>6, LateScan, LateSaver, LateTransaction, SessionWorks

LEMMA RebuildStep ==
    ASSUME SessionInv, Rebuild
    PROVE  SessionInv'
<1>1. Types /\ live \in [open : BOOLEAN, dirty : BOOLEAN, books : Catalogs]
      /\ scan \in Scans /\ saver \in Savers /\ transaction \in Transactions
  BY DEF SessionInv, Types, BooksTyped
<1>2. /\ scan' = ScanLate /\ saver' = SaverLate /\ transaction' = TransactionLate /\ Event
      /\ UNCHANGED <<files, disk, lastId, suppressed, faults, strays, watcher, side>>
      /\ live' = [live EXCEPT !.dirty = TRUE] /\ build' = StartedBuild
  BY DEF Rebuild, Quiet
<1>3. /\ live' \in [open : BOOLEAN, dirty : BOOLEAN, books : Catalogs]
      /\ live'.open = live.open /\ live'.books = live.books
  BY <1>1, <1>2
<1>4. FilesTyped' /\ WatchTyped'
  BY <1>1, <1>2, EventStep DEF Types, FilesTyped, WatchTyped, StartedBuild, Builds
<1>5. Types'
  BY <1>1, <1>2, <1>3, <1>4, LateScan, LateSaver, LateTransaction DEF Types, BooksTyped
<1> QED BY <1>1, <1>2, <1>3, <1>5, LateScan, LateSaver, LateTransaction, SessionWorks

\* A scan is given the live library.
LEMMA ScanBegins ==
    ASSUME SessionInv, FilesTyped', WatchTyped', live.open, scan' = StartedScan,
           UNCHANGED <<disk, live, lastId, side, saver, transaction, strays>>
    PROVE  SessionInv'
<1>1. live.books \in Catalogs /\ Sound(live.books)
  BY DEF SessionInv, Types, BooksTyped, SoundInv
<1>2. /\ scan' \in Scans /\ scan'.pc = "waiting" /\ scan'.store = live.books
      /\ scan'.new = NoBooks /\ DOMAIN NoBooks = {}
  BY <1>1, NoBooksCatalog DEF StartedScan, IdleScan, Scans
<1>3. Types'
  BY <1>2 DEF SessionInv, Types, BooksTyped
<1>4. SoundInv' /\ ScanInv'
  BY <1>1, <1>2 DEF SessionInv, SoundInv, Sound, Unique, ScanInv, Agree
<1>5. TransactionInv' /\ ClosedInv'
  BY <1>2 DEF SessionInv, TransactionInv, ClosedInv, Agree
<1> QED BY <1>3, <1>4, <1>5 DEF SessionInv

LEMMA UserScansStep ==
    ASSUME SessionInv, UserScans
    PROVE  SessionInv'
<1>1. Types /\ Event /\ live.open /\ scan' = StartedScan
      /\ UNCHANGED <<files, disk, lastId, suppressed, faults, strays, watcher, build, live, side,
                     saver, transaction>>
  BY DEF SessionInv, UserScans, Quiet
<1>2. FilesTyped' /\ WatchTyped'
  BY <1>1, EventStep DEF Types, FilesTyped, WatchTyped
<1> QED BY <1>1, <1>2, ScanBegins

\* A stopped scan keeps its clone.
LEMMA AbortScanStep ==
    ASSUME SessionInv, AbortScan
    PROVE  SessionInv'
<1>1. Types /\ Event /\ live.open /\ scan' = [scan EXCEPT !.stop = TRUE] /\ scan \in Scans
      /\ UNCHANGED <<files, disk, lastId, suppressed, faults, strays, watcher, build, live, side,
                     saver, transaction>>
  BY DEF SessionInv, Types, BooksTyped, AbortScan, Quiet
<1>2. /\ scan' \in Scans /\ scan'.pc = scan.pc /\ scan'.store = scan.store
      /\ scan'.new = scan.new /\ scan'.stale = scan.stale
  BY <1>1 DEF Scans
<1>3. Types'
  BY <1>1, <1>2, EventStep DEF Types, FilesTyped, WatchTyped, BooksTyped
<1>4. SoundInv'
  BY <1>1, <1>2 DEF SessionInv, SoundInv, Sound, Unique
<1>5. ScanInv'
  BY <1>1, <1>2 DEF SessionInv, ScanInv, ScanLands, Agree
<1>6. TransactionInv' /\ ClosedInv'
  BY <1>1, <1>2 DEF SessionInv, TransactionInv, ClosedInv, Agree
<1> QED BY <1>3, <1>4, <1>5, <1>6 DEF SessionInv

LEMMA OneBookCatalog ==
    ASSUME NEW id \in Ids, NEW book \in BookRecords
    PROVE  /\ [k \in {id} |-> book] \in Catalogs
           /\ DOMAIN [k \in {id} |-> book] = {id}
           /\ [k \in {id} |-> book][id] = book
<1>1. [k \in {id} |-> book] \in [{id} -> BookRecords]
  OBVIOUS
<1>2. {id} \in SUBSET Ids
  OBVIOUS
<1>3. [k \in {id} |-> book] \in Catalogs
  BY <1>1, <1>2, CatalogIntro
<1> QED BY <1>3

\* An opened book stays at its path, or is a new one where no book is; a scan
\* that walks has then missed it, and one that waits is refused.
LEMMA OpenBookStep ==
    ASSUME SessionInv, NEW p \in Paths, OpenBook(p)
    PROVE  SessionInv'
<1>1. /\ Types /\ SoundInv /\ ScanInv /\ Event /\ live.open /\ transaction.path = NoPath
      /\ live \in [open : BOOLEAN, dirty : BOOLEAN, books : Catalogs]
      /\ live.books \in Catalogs /\ scan \in Scans /\ saver \in Savers
      /\ lastId \in Nat /\ strays \subseteq Ids
      /\ scan' = ScanLate /\ saver' = SaverLate
      /\ UNCHANGED <<files, disk, suppressed, faults, transaction, watcher, build>>
  BY DEF SessionInv, Types, BooksTyped, OpenBook
<1>2. files[p] \in Versions /\ 0 \in Versions /\ lastId + 1 \in Ids
  BY <1>1, ConstantsAssumption
     DEF ConstantsAssumption, Types, FilesTyped, Versions, Ids
<1>3. /\ scan' \in Scans /\ scan'.pc = scan.pc /\ scan'.store = scan.store
      /\ scan'.new = scan.new /\ (scan.pc = "waiting" => scan'.stale)
      /\ saver' \in Savers /\ saver'.books = saver.books
  BY <1>1, LateScan, LateSaver
<1> DEFINE here == {id \in DOMAIN live.books : live.books[id].path = p}
           now(book) == [path |-> p, seen |-> files[p],
                         pages |-> IF book.pages = 0 \/ book.seen # files[p]
                                   THEN files[p] ELSE book.pages]
           new == [path |-> p, seen |-> files[p], pages |-> files[p]]
           opened(id, book) == [live EXCEPT !.dirty = TRUE,
                                            !.books = Overlay(@, [k \in {id} |-> book])]
<1>4. ASSUME NEW id \in Ids, NEW book \in BookRecords, live' = opened(id, book)
      PROVE  /\ live' \in [open : BOOLEAN, dirty : BOOLEAN, books : Catalogs]
             /\ live'.open = live.open
             /\ DOMAIN live'.books = DOMAIN live.books \cup {id}
             /\ live'.books[id] = book
             /\ \A k \in DOMAIN live.books \ {id} : live'.books[k] = live.books[k]
  <2> DEFINE one == [k \in {id} |-> book]
             books == Overlay(live.books, one)
  <2>1. one \in Catalogs /\ DOMAIN one = {id} /\ one[id] = book
    BY OneBookCatalog, Zenon
  <2> HIDE DEF one
  <2>2. /\ books \in Catalogs /\ DOMAIN books = DOMAIN live.books \cup {id}
        /\ books[id] = book
        /\ \A k \in DOMAIN live.books \ {id} : books[k] = live.books[k]
    <3>1. /\ books \in Catalogs /\ DOMAIN books = DOMAIN live.books \cup DOMAIN one
          /\ \A k \in DOMAIN one : books[k] = one[k]
          /\ \A k \in DOMAIN live.books \ DOMAIN one : books[k] = live.books[k]
      BY <1>1, <2>1, OverlayCatalog, Zenon
    <3> HIDE DEF books
    <3> QED BY <2>1, <3>1
  <2>3. live' = [live EXCEPT !.dirty = TRUE, !.books = books]
    BY <1>4 DEF one
  <2> HIDE DEF books
  <2> QED BY <1>1, <2>2, <2>3
<1>5. /\ live' \in [open : BOOLEAN, dirty : BOOLEAN, books : Catalogs]
      /\ live'.open = live.open
      /\ side' \in [removed : SUBSET Ids, touched : SUBSET Ids]
      /\ lastId' \in Nat /\ lastId <= lastId' /\ strays \subseteq strays' /\ strays' \subseteq Ids
      /\ DOMAIN live.books \subseteq DOMAIN live'.books
      /\ \A k \in DOMAIN live.books : live'.books[k].path = live.books[k].path
      /\ \/ DOMAIN live'.books = DOMAIN live.books
         \/ /\ DOMAIN live'.books = DOMAIN live.books \cup {lastId + 1}
            /\ lastId' = lastId + 1 /\ live'.books[lastId + 1].path = p
            /\ \A k \in DOMAIN live.books : live.books[k].path # p
            /\ scan.pc \in {"walk", "batch", "done"} => lastId + 1 \in strays'
  <2>1. side \in [removed : SUBSET Ids, touched : SUBSET Ids]
    BY <1>1 DEF Types, BooksTyped
  <2>2. CASE here # {} /\ UNCHANGED <<lastId, strays>>
    <3>1. PICK id \in here : /\ live' = opened(id, now(live.books[id]))
                             /\ side' = [side EXCEPT !.touched = IF IsScanning THEN @ \cup {id}
                                                                 ELSE @]
      BY <2>2 DEF OpenBook
    <3> DEFINE book == now(live.books[id])
    <3>2. id \in Ids /\ live.books[id] \in BookRecords /\ live.books[id].path = p
          /\ id \in DOMAIN live.books
      BY <1>1, CatalogFacts
    <3>3. book \in BookRecords /\ book.path = p
      BY <1>2, <3>2 DEF BookRecords
    <3>4. live' = opened(id, book)
      BY <3>1
    <3> HIDE DEF book, opened, now
    <3>5. /\ live' \in [open : BOOLEAN, dirty : BOOLEAN, books : Catalogs]
          /\ live'.open = live.open
          /\ DOMAIN live'.books = DOMAIN live.books \cup {id}
          /\ live'.books[id] = book
          /\ \A k \in DOMAIN live.books \ {id} : live'.books[k] = live.books[k]
      BY <1>4, <3>2, <3>3, <3>4
    <3>6. side' \in [removed : SUBSET Ids, touched : SUBSET Ids]
      BY <2>1, <3>1, <3>2
    <3> HIDE DEF here
    <3> QED BY <1>1, <2>2, <3>2, <3>3, <3>5, <3>6
  <2>3. CASE here = {} /\ lastId' = lastId + 1
    <3>1. /\ live' = opened(lastId + 1, new) /\ side' = side
          /\ strays' = IF scan.pc \in {"walk", "batch", "done"}
                       THEN strays \cup {lastId'} ELSE strays
      BY <2>3 DEF OpenBook
    <3>2. new \in BookRecords /\ new.path = p
      BY <1>2 DEF BookRecords
    <3> HIDE DEF new, opened
    <3>3. /\ live' \in [open : BOOLEAN, dirty : BOOLEAN, books : Catalogs]
          /\ live'.open = live.open
          /\ DOMAIN live'.books = DOMAIN live.books \cup {lastId + 1}
          /\ live'.books[lastId + 1] = new
          /\ \A k \in DOMAIN live.books \ {lastId + 1} : live'.books[k] = live.books[k]
      BY <1>2, <1>4, <3>1, <3>2
    <3>4. lastId + 1 \notin DOMAIN live.books
      BY <1>1 DEF SoundInv, Sound
    <3>5. \A k \in DOMAIN live.books : live.books[k].path # p
      BY <2>3
    <3>6. /\ strays \subseteq strays' /\ strays' \subseteq Ids
          /\ scan.pc \in {"walk", "batch", "done"} => lastId + 1 \in strays'
      BY <1>1, <1>2, <2>3, <3>1
    <3>7. lastId' \in Nat /\ lastId <= lastId'
      BY <1>1, <2>3
    <3>8. /\ DOMAIN live.books \subseteq DOMAIN live'.books
          /\ \A k \in DOMAIN live.books : live'.books[k].path = live.books[k].path
          /\ live'.books[lastId + 1].path = p
      BY <3>2, <3>3, <3>4
    <3> HIDE DEF here
    <3> QED BY <2>1, <2>3, <3>1, <3>3, <3>5, <3>6, <3>7, <3>8
  <2>4. \/ here # {} /\ UNCHANGED <<lastId, strays>>
        \/ here = {} /\ lastId' = lastId + 1
    BY DEF OpenBook
  <2> QED BY <2>2, <2>3, <2>4
<1> HIDE DEF here, now, new, opened
<1>6. Types'
  BY <1>1, <1>3, <1>5, EventStep DEF Types, FilesTyped, WatchTyped, BooksTyped
<1>7. Sound(live.books)'
  BY <1>1, <1>5 DEF SoundInv, Sound, Unique
<1>8. SoundInv'
  <2>1. UNCHANGED <<disk, transaction>>
    BY <1>1
  <2> QED BY <1>1, <1>3, <1>5, <1>7, <2>1, SoundStays DEF SoundInv, Sound, Unique
<1>9. ScanInv'
  BY <1>1, <1>3, <1>5 DEF ScanInv, ScanLands, Agree
<1>10. TransactionInv' /\ ClosedInv'
  BY <1>1, <1>5 DEF TransactionInv, ClosedInv
<1> QED BY <1>6, <1>8, <1>9, <1>10 DEF SessionInv

\* What a poll installs is a watcher.
LEMMA InstalledType ==
    ASSUME Types
    PROVE  Installed \in Watchers
<1>1. build \in Builds /\ watcher \in Watchers
  BY DEF Types, WatchTyped
<1>2. CASE build.pc = "ready"
  BY <1>1, <1>2 DEF Installed, Builds, Watchers
<1>3. CASE build.pc = "failed"
  BY <1>1, <1>3 DEF Installed, Watchers, NoWatcher
<1>4. CASE build.pc \notin {"ready", "failed"}
  BY <1>1, <1>4 DEF Installed
<1> QED BY <1>2, <1>3, <1>4

LEMMA PollStep ==
    ASSUME SessionInv, Poll
    PROVE  SessionInv'
<1>1. \E taken :
          /\ watcher' = [Installed EXCEPT !.pending = @ \ taken]
          /\ suppressed' = suppressed \ taken
          /\ scan' = IF taken \subseteq suppressed THEN scan ELSE StartedScan
  BY DEF Poll
<1>2. /\ Types /\ Installed \in Watchers /\ live.open
      /\ build' = IF build.pc = "walking" THEN build ELSE NoBuild
      /\ UNCHANGED <<files, disk, live, lastId, side, saver, transaction, events, faults, strays>>
  BY InstalledType DEF SessionInv, Poll
<1>3. watcher' \in Watchers
  BY <1>1, <1>2 DEF Watchers
<1>4. build' \in Builds /\ suppressed' \subseteq Paths
  BY <1>1, <1>2 DEF Types, WatchTyped, NoBuild, Builds
<1>5. FilesTyped' /\ WatchTyped'
  BY <1>2, <1>3, <1>4 DEF Types, FilesTyped, WatchTyped
<1>6. CASE scan' = scan
  BY <1>2, <1>5, <1>6, BooksAlone
<1>7. CASE scan' = StartedScan
  BY <1>2, <1>5, <1>7, ScanBegins
<1> QED BY <1>1, <1>6, <1>7

LEMMA BuildEndsStep ==
    ASSUME SessionInv, NEW result \in {"ready", "failed"}, BuildEnds(result)
    PROVE  SessionInv'
<1>1. Types /\ build' = [build EXCEPT !.pc = result]
      /\ UNCHANGED <<files, disk, live, lastId, scan, side, saver, transaction, events, faults,
                     strays, watcher, suppressed>>
  BY DEF SessionInv, BuildEnds, Session
<1>2. build' \in Builds
  BY <1>1 DEF Types, WatchTyped, Builds
<1>3. FilesTyped' /\ WatchTyped'
  BY <1>1, <1>2 DEF Types, FilesTyped, WatchTyped
<1> QED BY <1>1, <1>3, BooksAlone

\* A save touches neither the books nor the scan.
LEMMA SavingKeeps ==
    ASSUME SessionInv, Types', UNCHANGED <<lastId, scan, transaction, strays>>,
           live'.open = live.open, live'.books = live.books,
           Sound(saver'.books), Sound(disk'.main.books), Sound(disk'.bak.books),
           Sound(disk'.restore.books)
    PROVE  SessionInv'
<1>1. SoundInv'
  BY DEF SessionInv, SoundInv, Sound, Unique
<1>2. ScanInv' /\ TransactionInv' /\ ClosedInv'
  BY DEF SessionInv, ScanInv, ScanLands, Agree, TransactionInv, ClosedInv
<1> QED BY <1>1, <1>2 DEF SessionInv

LEMMA FileTypes ==
    /\ Absent \in DiskFiles /\ Cut \in DiskFiles
    /\ Absent.books = NoBooks /\ Cut.books = NoBooks
    /\ \A c \in Catalogs : Whole(c) \in DiskFiles /\ Whole(c).books = c
BY NoBooksCatalog DEF Absent, Cut, Whole, DiskFiles

LEMMA SaveStep ==
    ASSUME SessionInv, SaveRequested \/ Saving \/ SaveFails
    PROVE  SessionInv'
<1>1. /\ Types /\ FilesTyped /\ WatchTyped /\ saver \in Savers
      /\ live \in [open : BOOLEAN, dirty : BOOLEAN, books : Catalogs]
      /\ disk \in [main : DiskFiles, bak : DiskFiles, restore : DiskFiles]
      /\ saver.books \in Catalogs /\ Sound(saver.books) /\ Sound(live.books)
      /\ Sound(disk.main.books) /\ Sound(disk.bak.books) /\ Sound(disk.restore.books)
  BY DEF SessionInv, Types, BooksTyped, SoundInv, Savers
<1> DEFINE Alone == UNCHANGED <<files, lastId, watcher, build, suppressed, scan, side,
                                transaction, events, strays>>
<1>2. Alone
  BY DEF SaveRequested, Saving, SaveStarts, WriteBak, OpenMain, FillMain, LandSave, SaveFails,
         Unsaved
<1>3. faults' \in 0..MaxFaults
  BY <1>1, ConstantsAssumption DEF ConstantsAssumption, FilesTyped, SaveRequested, Saving,
     SaveStarts, WriteBak, OpenMain, FillMain, LandSave, SaveFails
<1>4. /\ live' \in [open : BOOLEAN, dirty : BOOLEAN, books : Catalogs]
      /\ live'.open = live.open /\ live'.books = live.books
  <2>1. CASE live' = live
    BY <1>1, <2>1
  <2>2. CASE live' = [live EXCEPT !.dirty = live.dirty /\ saver.stale]
    BY <1>1, <2>2 DEF Savers
  <2> QED BY <2>1, <2>2 DEF SaveRequested, Saving, SaveStarts, WriteBak, OpenMain, FillMain,
                            LandSave, SaveFails
<1>5. saver' \in Savers /\ Sound(saver'.books)
  <2>1. IdleSaver \in Savers /\ Sound(IdleSaver.books)
    BY NoBooksCatalog, SoundNoBooks DEF IdleSaver, Savers
  <2>2. CASE SaveRequested
    BY <1>1, <2>2 DEF SaveRequested, Savers
  <2>3. CASE \E step \in {"bak", "open", "copy", "land"} : saver' = [saver EXCEPT !.pc = step]
    BY <1>1, <2>3 DEF Savers
  <2> QED BY <2>1, <2>2, <2>3 DEF Saving, SaveStarts, WriteBak, OpenMain, FillMain, LandSave,
                                  SaveFails
<1>6. /\ disk' \in [main : DiskFiles, bak : DiskFiles, restore : DiskFiles]
      /\ Sound(disk'.main.books) /\ Sound(disk'.bak.books) /\ Sound(disk'.restore.books)
  <2>1. \A f \in {Absent, Cut, Whole(saver.books)} : f \in DiskFiles /\ Sound(f.books)
    BY <1>1, FileTypes, SoundNoBooks
  <2>2. \/ disk' = disk
        \/ \E f \in {Absent, Cut, Whole(saver.books)} :
              disk' = [disk EXCEPT !.main = f] \/ disk' = [disk EXCEPT !.bak = f]
    <3>1. CASE SaveFails
      <4>1. CASE saver.pc = "bak"
        BY <1>1, <3>1, <4>1 DEF SaveFails
      <4>2. CASE saver.pc # "bak"
        BY <3>1, <4>2 DEF SaveFails
      <4> QED BY <4>1, <4>2
    <3>2. CASE SaveRequested \/ Saving
      BY <3>2 DEF SaveRequested, Saving, SaveStarts, WriteBak, OpenMain, FillMain, LandSave
    <3> QED BY <3>1, <3>2
  <2>3. CASE disk' = disk
    BY <1>1, <2>3
  <2>4. CASE disk' # disk
    <3>1. PICK f \in {Absent, Cut, Whole(saver.books)} :
              disk' = [disk EXCEPT !.main = f] \/ disk' = [disk EXCEPT !.bak = f]
      BY <2>2, <2>4
    <3>2. f \in DiskFiles /\ Sound(f.books)
      BY <2>1
    <3>3. CASE disk' = [disk EXCEPT !.main = f]
      BY <1>1, <3>2, <3>3
    <3>4. CASE disk' = [disk EXCEPT !.bak = f]
      BY <1>1, <3>2, <3>4
    <3> QED BY <3>1, <3>3, <3>4
  <2> QED BY <2>3, <2>4
<1>7. Types'
  BY <1>1, <1>2, <1>3, <1>4, <1>5, <1>6 DEF Types, FilesTyped, WatchTyped, BooksTyped
<1> QED BY <1>2, <1>4, <1>5, <1>6, <1>7, SavingKeeps

LEMMA PutRestoreStep ==
    ASSUME SessionInv, PutRestore
    PROVE  SessionInv'
<1>1. PICK f \in {Cut, Whole(NoBooks)} : disk' = [disk EXCEPT !.restore = f]
  BY DEF PutRestore
<1>2. /\ Types /\ FilesTyped /\ WatchTyped /\ Event
      /\ disk \in [main : DiskFiles, bak : DiskFiles, restore : DiskFiles]
      /\ Sound(disk.main.books) /\ Sound(disk.bak.books) /\ Sound(saver.books)
      /\ UNCHANGED <<files, live, lastId, watcher, build, suppressed, scan, side, saver,
                     transaction, faults, strays>>
  BY DEF SessionInv, Types, BooksTyped, SoundInv, PutRestore
<1>3. f \in DiskFiles /\ Sound(f.books)
  BY FileTypes, NoBooksCatalog, SoundNoBooks
<1>4. /\ disk' \in [main : DiskFiles, bak : DiskFiles, restore : DiskFiles]
      /\ Sound(disk'.main.books) /\ Sound(disk'.bak.books) /\ Sound(disk'.restore.books)
  BY <1>1, <1>2, <1>3
<1>5. Types'
  BY <1>2, <1>4, EventStep DEF Types, FilesTyped, WatchTyped, BooksTyped
<1> QED BY <1>2, <1>4, <1>5, SavingKeeps

\* A crash leaves what is on disk; the ids are never given again.
LEMMA CrashStep ==
    ASSUME SessionInv, Crash
    PROVE  SessionInv'
<1>1. /\ FilesTyped /\ BooksTyped /\ SoundInv
      /\ live' = [open |-> FALSE, dirty |-> FALSE, books |-> NoBooks]
      /\ watcher' = NoWatcher /\ build' = NoBuild /\ suppressed' = {}
      /\ scan' = IdleScan /\ side' = [removed |-> {}, touched |-> {}]
      /\ saver' = IdleSaver /\ transaction' = NoTransaction
      /\ UNCHANGED <<files, disk, lastId, events, strays>>
  BY DEF SessionInv, Types, Crash
<1>2. faults' \in 0..MaxFaults
  BY <1>1, ConstantsAssumption DEF ConstantsAssumption, FilesTyped, Crash
<1>3. FilesTyped'
  BY <1>1, <1>2 DEF FilesTyped
<1>4. WatchTyped'
  BY <1>1 DEF WatchTyped, NoWatcher, NoBuild, Watchers, Builds
<1>5. IdleScan \in Scans /\ IdleSaver \in Savers /\ NoTransaction \in Transactions
  BY NoBooksCatalog DEF IdleScan, Scans, IdleSaver, Savers, NoTransaction, Transactions
<1>6. BooksTyped'
  BY <1>1, <1>5, NoBooksCatalog DEF BooksTyped
<1>7. SoundInv'
  <2>1. IdleScan.store = NoBooks /\ IdleSaver.books = NoBooks /\ NoTransaction.books = NoBooks
    BY DEF IdleScan, IdleSaver, NoTransaction
  <2> QED BY <1>1, <2>1, SoundNoBooks DEF SoundInv, Sound, Unique
<1>8. ScanInv' /\ TransactionInv' /\ ClosedInv'
  BY <1>1, NoBooksCatalog DEF ScanInv, ScanLands, Agree, TransactionInv, ClosedInv, IdleScan,
                              NoTransaction
<1> QED BY <1>3, <1>4, <1>6, <1>7, <1>8 DEF SessionInv, Types

LEMMA StartStep ==
    ASSUME SessionInv, Start
    PROVE  SessionInv'
<1>1. /\ Types /\ FilesTyped /\ WatchTyped /\ BooksTyped /\ SoundInv
      /\ live' = [open |-> TRUE, dirty |-> FALSE, books |-> Opened]
      /\ disk' = [disk EXCEPT !.restore = Absent]
      /\ build' = StartedBuild
      /\ scan.pc = "idle" /\ transaction.path = NoPath
      /\ UNCHANGED <<files, lastId, watcher, suppressed, scan, side, saver, transaction, events,
                     faults, strays>>
  BY DEF SessionInv, Types, ClosedInv, Start
<1>2. Opened \in Catalogs /\ Sound(Opened)
  <2>1. /\ disk.main.books \in Catalogs /\ disk.bak.books \in Catalogs
        /\ disk.restore.books \in Catalogs
    BY <1>1 DEF BooksTyped, DiskFiles
  <2>2. Opened \in {disk.main.books, disk.bak.books, disk.restore.books, NoBooks}
    BY DEF Opened
  <2> QED BY <1>1, <2>1, <2>2, NoBooksCatalog, SoundNoBooks DEF SoundInv
<1>3. /\ disk' \in [main : DiskFiles, bak : DiskFiles, restore : DiskFiles]
      /\ disk'.main = disk.main /\ disk'.bak = disk.bak /\ disk'.restore.books = NoBooks
  BY <1>1, FileTypes DEF BooksTyped
<1>4. Types'
  BY <1>1, <1>2, <1>3 DEF Types, FilesTyped, WatchTyped, BooksTyped, StartedBuild, Builds
<1>5. SoundInv'
  BY <1>1, <1>2, <1>3, SoundNoBooks DEF SoundInv, Sound, Unique
<1>6. ScanInv'
  BY <1>1 DEF SessionInv, ScanInv, ScanLands, Agree
<1>7. TransactionInv' /\ ClosedInv'
  BY <1>1 DEF TransactionInv, ClosedInv
<1> QED BY <1>4, <1>5, <1>6, <1>7 DEF SessionInv

\* A replacement writes a book where it is, while no scan walks.
LEMMA TransactionWritesStep ==
    ASSUME SessionInv, NEW p \in Paths, TransactionWrites(p)
    PROVE  SessionInv'
<1> DEFINE after == [id \in DOMAIN live.books |->
                       IF live.books[id].path = p
                       THEN [path |-> p, seen |-> events + 1, pages |-> events + 1]
                       ELSE live.books[id]]
<1>1. /\ Types /\ FilesTyped /\ WatchTyped /\ BooksTyped /\ SoundInv /\ Event /\ live.open
      /\ live.books \in Catalogs /\ Sound(live.books) /\ scan \in Scans /\ saver \in Savers
  BY DEF SessionInv, Types, BooksTyped, SoundInv, TransactionWrites
<1>2. events' \in 0..MaxEvents /\ events + 1 \in Versions
  BY <1>1, EventStep
<1>3. after \in [DOMAIN live.books -> BookRecords]
  <2>1. [path |-> p, seen |-> events + 1, pages |-> events + 1] \in BookRecords
    BY <1>2 DEF BookRecords
  <2> QED BY <1>1, <2>1, CatalogFacts
<1>4. /\ after \in Catalogs /\ DOMAIN after = DOMAIN live.books
      /\ \A id \in DOMAIN live.books : after[id].path = live.books[id].path
  BY <1>1, <1>3, CatalogFacts, CatalogIntro
<1>5. Sound(after)
  <2> HIDE DEF after
  <2> QED BY <1>1, <1>4 DEF Sound, Unique
<1>6. /\ files' = [files EXCEPT ![p] = events + 1]
      /\ disk' = [disk EXCEPT !.main = Whole(after)]
      /\ transaction' = [path |-> p, stale |-> FALSE, books |-> after]
      /\ scan' = ScanLate /\ saver' = SaverLate /\ Notice(p) /\ GuardFree
      /\ UNCHANGED <<live, lastId, suppressed, side, faults, strays>>
  BY DEF TransactionWrites
<1> HIDE DEF after
<1>7. /\ disk' \in [main : DiskFiles, bak : DiskFiles, restore : DiskFiles]
      /\ disk'.main.books = after /\ disk'.bak = disk.bak /\ disk'.restore = disk.restore
  BY <1>1, <1>4, <1>6, FileTypes DEF BooksTyped
<1>8. transaction' \in Transactions
  BY <1>4, <1>6 DEF Transactions
<1>9. /\ scan' \in Scans /\ scan'.pc = scan.pc /\ scan'.store = scan.store
      /\ scan'.new = scan.new /\ (scan.pc = "waiting" => scan'.stale)
      /\ saver' \in Savers /\ saver'.books = saver.books
  BY <1>1, <1>6, LateScan, LateSaver
<1>10. files' \in [Paths -> Versions]
  BY <1>1, <1>2, <1>6 DEF FilesTyped
<1>11. watcher' \in Watchers /\ build' \in Builds
  BY <1>1, <1>6, NoticeStep
<1>12. Types'
  BY <1>1, <1>2, <1>6, <1>7, <1>8, <1>9, <1>10, <1>11
     DEF Types, FilesTyped, WatchTyped, BooksTyped
<1>13. SoundInv'
  BY <1>1, <1>5, <1>6, <1>7, <1>9 DEF SoundInv, Sound, Unique
<1>14. scan.pc \notin {"walk", "batch", "done"}
  BY <1>6 DEF GuardFree
<1>15. ScanInv'
  BY <1>6, <1>9, <1>14 DEF SessionInv, ScanInv, ScanLands, Agree
<1>16. TransactionInv'
  BY <1>4, <1>6, <1>9, <1>14 DEF TransactionInv, Agree
<1>17. ClosedInv'
  BY <1>1, <1>6 DEF ClosedInv
<1> QED BY <1>12, <1>13, <1>15, <1>16, <1>17 DEF SessionInv

\* Its landing puts in its books, which are the live ones at their paths.
LEMMA TransactionLandsStep ==
    ASSUME SessionInv, TransactionLands
    PROVE  SessionInv'
<1>1. /\ Types /\ FilesTyped /\ WatchTyped /\ BooksTyped /\ SoundInv /\ ScanInv
      /\ TransactionInv /\ transaction.path # NoPath /\ transaction' = NoTransaction
      /\ scan.pc \notin {"walk", "batch", "done"}
      /\ transaction \in Transactions /\ saver \in Savers /\ transaction.books \in Catalogs
      /\ UNCHANGED <<files, disk, lastId, watcher, scan, side, events, faults, strays>>
  BY DEF SessionInv, Types, BooksTyped, TransactionInv, TransactionLands, Transactions
<1>2. NoTransaction \in Transactions /\ NoTransaction.books = NoBooks
      /\ NoTransaction.path = NoPath
  BY NoBooksCatalog DEF NoTransaction, Transactions
<1>3. CASE transaction.stale
  <2>1. UNCHANGED <<live, suppressed, build, saver>>
    BY <1>3 DEF TransactionLands
  <2>2. Types'
    BY <1>1, <1>2, <2>1 DEF Types, FilesTyped, WatchTyped, BooksTyped
  <2>3. SoundInv'
    BY <1>1, <1>2, <2>1, SoundNoBooks DEF SoundInv, Sound, Unique
  <2>4. ScanInv' /\ TransactionInv' /\ ClosedInv'
    BY <1>1, <1>2, <2>1 DEF SessionInv, ScanInv, ScanLands, Agree, TransactionInv, ClosedInv
  <2> QED BY <2>2, <2>3, <2>4 DEF SessionInv
<1>4. CASE ~transaction.stale
  <2>1. /\ suppressed' = suppressed \cup {transaction.path}
        /\ live' = [live EXCEPT !.books = transaction.books, !.dirty = FALSE]
        /\ build' = StartedBuild /\ saver' = SaverLate
    BY <1>4 DEF TransactionLands
  <2>2. /\ live' \in [open : BOOLEAN, dirty : BOOLEAN, books : Catalogs]
        /\ live'.open = live.open /\ live'.books = transaction.books
    BY <1>1, <2>1 DEF BooksTyped
  <2>3. saver' \in Savers /\ saver'.books = saver.books
    BY <1>1, <2>1, LateSaver
  <2>4. suppressed' \subseteq Paths /\ build' \in Builds
    BY <1>1, <2>1 DEF WatchTyped, StartedBuild, Builds, Transactions
  <2>5. Types'
    BY <1>1, <1>2, <2>2, <2>3, <2>4 DEF Types, FilesTyped, WatchTyped, BooksTyped
  <2>6. SoundInv'
    BY <1>1, <1>2, <2>2, <2>3, SoundNoBooks DEF SoundInv, Sound, Unique
  <2>7. /\ DOMAIN transaction.books = DOMAIN live.books
        /\ Agree(transaction.books, live.books)
    BY <1>1, <1>4 DEF TransactionInv
  <2>8. ScanInv'
    BY <1>1, <2>2, <2>7 DEF ScanInv, ScanLands, Agree
  <2>9. TransactionInv' /\ ClosedInv'
    BY <1>1, <1>2, <2>2 DEF SessionInv, TransactionInv, ClosedInv
  <2> QED BY <2>5, <2>6, <2>8, <2>9 DEF SessionInv
<1> QED BY <1>3, <1>4

LEMMA ScanStartsStep ==
    ASSUME SessionInv, ScanStarts
    PROVE  SessionInv'
<1>1. /\ Types /\ SoundInv /\ ScanInv /\ TransactionInv /\ ClosedInv /\ scan \in Scans
      /\ scan.pc = "waiting" /\ GuardFree
      /\ UNCHANGED <<files, disk, watcher, build, suppressed, events, faults, live, lastId, side,
                     saver, transaction, strays>>
  BY DEF SessionInv, Types, BooksTyped, ScanStarts, Outside
<1>2. /\ scan' \in Scans /\ scan'.store = scan.store /\ scan'.new = scan.new
      /\ scan'.pc = IF scan.stale THEN "failed" ELSE "walk"
  BY <1>1 DEF Scans, ScanStarts
<1>3. transaction.path = NoPath /\ live.open
  BY <1>1 DEF GuardFree, ClosedInv
<1>4. Types'
  BY <1>1, <1>2 DEF Types, FilesTyped, WatchTyped, BooksTyped
<1>5. SoundInv'
  BY <1>1, <1>2 DEF SoundInv, Sound, Unique
<1>6. ScanInv' /\ TransactionInv' /\ ClosedInv'
  BY <1>1, <1>2, <1>3 DEF ScanInv, ScanLands, Agree, TransactionInv, ClosedInv
<1> QED BY <1>4, <1>5, <1>6 DEF SessionInv

LEMMA ScanLooksStep ==
    ASSUME SessionInv, ScanLooks
    PROVE  SessionInv'
<1>1. /\ Types /\ SoundInv /\ ScanInv /\ TransactionInv /\ ClosedInv /\ scan \in Scans
      /\ scan.pc = "walk" /\ live.open /\ transaction.path = NoPath
      /\ lastId \in Nat /\ strays \subseteq Ids
      /\ UNCHANGED <<files, disk, watcher, build, suppressed, events, faults, live, side,
                     saver, transaction>>
  BY DEF SessionInv, Types, BooksTyped, ScanLooks, Outside, ClosedInv, TransactionInv
<1>2. PICK p \in scan.left :
          IF files[p] = NoFile
          THEN scan' = [scan EXCEPT !.left = @ \ {p}] /\ UNCHANGED <<lastId, strays>>
          ELSE \E reads \in BOOLEAN : ProcessFile(p, reads)
  BY DEF ScanLooks
<1>3. /\ scan' \in Scans /\ scan'.pc = "walk"
      /\ lastId' \in Nat /\ lastId <= lastId'
      /\ strays \subseteq strays' /\ strays' \subseteq Ids
      /\ Sound(scan.store)'
      /\ DOMAIN scan'.new \subseteq DOMAIN scan'.store
      /\ Agree(scan.new, scan.store)'
      /\ DOMAIN scan.store \subseteq DOMAIN scan'.store
      /\ \A id \in DOMAIN scan.store \ strays' : scan'.store[id].path = scan.store[id].path
  <2>1. CASE files[p] = NoFile
    <3>1. scan' = [scan EXCEPT !.left = @ \ {p}] /\ lastId' = lastId /\ strays' = strays
      BY <1>2, <2>1
    <3>2. /\ scan' \in Scans /\ scan'.pc = "walk"
          /\ scan'.store = scan.store /\ scan'.new = scan.new
      BY <1>1, <3>1 DEF Scans
    <3> QED BY <1>1, <3>1, <3>2 DEF SoundInv, Sound, Unique, ScanInv, Agree
  <2>2. CASE files[p] # NoFile
    <3>1. PICK reads \in BOOLEAN : ProcessFile(p, reads)
      BY <1>2, <2>2
    <3> QED BY <1>1, <3>1, ProcessStep, Zenon
  <2> QED BY <2>1, <2>2
<1>4. Types'
  BY <1>1, <1>3 DEF Types, FilesTyped, WatchTyped, BooksTyped
<1>5. SoundInv'
  <2>1. UNCHANGED <<live, saver, transaction, disk>>
    BY <1>1
  <2> QED BY <1>1, <1>3, <2>1, SoundStays DEF SoundInv, Sound, Unique
<1>6. ScanInv'
  <2>1. ScanLands
    BY <1>1 DEF ScanLands
  <2> QED BY <1>1, <1>3, <2>1 DEF ScanInv, Agree
<1>7. TransactionInv' /\ ClosedInv'
  BY <1>1 DEF TransactionInv, ClosedInv
<1> QED BY <1>4, <1>5, <1>6, <1>7 DEF SessionInv

LEMMA ScanSendsStep ==
    ASSUME SessionInv, ScanWalked \/ ScanSendsStorage
    PROVE  SessionInv'
<1>1. /\ Types /\ SoundInv /\ ScanInv /\ TransactionInv /\ ClosedInv /\ scan \in Scans
      /\ scan.pc \in {"walk", "batch"}
      /\ UNCHANGED <<files, disk, watcher, build, suppressed, events, faults, live, lastId, side,
                     saver, transaction, strays>>
  BY DEF SessionInv, Types, BooksTyped, ScanWalked, ScanSendsStorage, Outside
<1>2. /\ scan' \in Scans /\ scan'.store = scan.store /\ scan'.new = scan.new
      /\ scan'.pc \in {"batch", "done"}
  BY <1>1 DEF Scans, ScanWalked, ScanSendsStorage
<1>3. Types'
  BY <1>1, <1>2 DEF Types, FilesTyped, WatchTyped, BooksTyped
<1>4. SoundInv'
  BY <1>1, <1>2 DEF SoundInv, Sound, Unique
<1>5. ScanInv' /\ TransactionInv' /\ ClosedInv'
  BY <1>1, <1>2 DEF ScanInv, ScanLands, Agree, TransactionInv, ClosedInv
<1> QED BY <1>3, <1>4, <1>5 DEF SessionInv

\* The batch brings books of the clone; no live book has a path of theirs.
LEMMA LandBatchStep ==
    ASSUME SessionInv, LandBatch
    PROVE  SessionInv'
<1>1. /\ Types /\ SoundInv /\ ScanInv /\ TransactionInv /\ ClosedInv /\ scan \in Scans
      /\ scan.pc \in {"walk", "batch"} /\ live.open /\ transaction.path = NoPath
      /\ live \in [open : BOOLEAN, dirty : BOOLEAN, books : Catalogs]
      /\ live.books \in Catalogs /\ scan.store \in Catalogs /\ scan.new \in Catalogs
      /\ DOMAIN scan.new \subseteq DOMAIN scan.store /\ Agree(scan.new, scan.store)
      /\ UNCHANGED <<files, disk, watcher, build, suppressed, events, faults, lastId, side,
                     saver, transaction, strays>>
  BY DEF SessionInv, Types, BooksTyped, Scans, LandBatch, Outside, ClosedInv, TransactionInv,
         ScanInv
<1> DEFINE books == Overlay(live.books, scan.new)
<1>2. /\ books \in Catalogs /\ DOMAIN books = DOMAIN live.books \cup DOMAIN scan.new
      /\ \A id \in DOMAIN scan.new : books[id] = scan.new[id]
      /\ \A id \in DOMAIN live.books \ DOMAIN scan.new : books[id] = live.books[id]
  BY <1>1, OverlayCatalog, Zenon
<1>3. live' = [live EXCEPT !.books = books] /\ scan' = [scan EXCEPT !.new = NoBooks]
  BY DEF LandBatch
<1> HIDE DEF books
<1>4. /\ live' \in [open : BOOLEAN, dirty : BOOLEAN, books : Catalogs]
      /\ live'.books = books /\ live'.open = live.open
  BY <1>1, <1>2, <1>3
<1>5. /\ scan' \in Scans /\ scan'.pc = scan.pc /\ scan'.store = scan.store
      /\ scan'.new = NoBooks /\ DOMAIN NoBooks = {}
  BY <1>1, <1>3, NoBooksCatalog DEF Scans
<1>6. Types'
  BY <1>1, <1>4, <1>5 DEF Types, FilesTyped, WatchTyped, BooksTyped
<1>7. DOMAIN live.books \ strays \subseteq DOMAIN scan.store /\ Agree(live.books, scan.store)
  BY <1>1 DEF ScanInv, ScanLands
<1>8. DOMAIN books \ strays \subseteq DOMAIN scan.store /\ Agree(books, scan.store)
  BY <1>1, <1>2, <1>7 DEF Agree
<1>9. Sound(books)
  BY <1>1, <1>2, <1>8 DEF SoundInv, Sound, Unique, Agree
<1>10. SoundInv'
  BY <1>1, <1>4, <1>5, <1>9 DEF SoundInv, Sound, Unique
<1>11. ScanInv'
  BY <1>1, <1>4, <1>5, <1>8 DEF ScanInv, Agree
<1>12. TransactionInv' /\ ClosedInv'
  BY <1>1, <1>4, <1>5 DEF TransactionInv, ClosedInv
<1> QED BY <1>6, <1>10, <1>11, <1>12 DEF SessionInv

\* The landing puts in the clone's books, at its paths or at the live ones,
\* which are the same but for the books found renamed.
LEMMA LandScanStep ==
    ASSUME SessionInv, LandScan
    PROVE  SessionInv'
<1>1. /\ Types /\ SoundInv /\ ScanInv /\ TransactionInv /\ ClosedInv /\ scan \in Scans
      /\ scan.pc = "done" /\ live.open /\ transaction.path = NoPath
      /\ live \in [open : BOOLEAN, dirty : BOOLEAN, books : Catalogs]
      /\ saver \in Savers /\ transaction \in Transactions
      /\ live.books \in Catalogs /\ scan.store \in Catalogs /\ scan.changed \in BOOLEAN
      /\ side' = [removed |-> {}, touched |-> {}] /\ scan' = IdleScan
      /\ UNCHANGED <<files, disk, watcher, build, suppressed, events, faults, lastId, strays>>
  BY DEF SessionInv, Types, BooksTyped, Scans, LandScan, Outside, ClosedInv, TransactionInv
<1> DEFINE touched == {id \in DOMAIN scan.store \cap DOMAIN live.books : id \in side.touched}
           store == Without(scan.store, touched)
           both == Overlay(live.books, store)
           books == Without(both, side.removed)
<1>2. /\ store \in Catalogs /\ DOMAIN store = DOMAIN scan.store \ touched
      /\ \A id \in DOMAIN store : store[id] = scan.store[id]
  <2> HIDE DEF touched
  <2>1. /\ store \in Catalogs /\ DOMAIN store = DOMAIN scan.store \ touched
        /\ \A id \in DOMAIN scan.store \ touched : store[id] = scan.store[id]
    BY <1>1, WithoutCatalog, Zenon
  <2> HIDE DEF store
  <2> QED BY <2>1
<1> HIDE DEF store
<1>3. /\ both \in Catalogs /\ DOMAIN both = DOMAIN live.books \cup DOMAIN store
      /\ \A id \in DOMAIN store : both[id] = store[id]
      /\ \A id \in DOMAIN live.books \ DOMAIN store : both[id] = live.books[id]
  BY <1>1, <1>2, OverlayCatalog
<1> HIDE DEF both
<1>4. /\ books \in Catalogs /\ DOMAIN books \subseteq DOMAIN both
      /\ \A id \in DOMAIN books : books[id] = both[id]
  <2>1. /\ books \in Catalogs /\ DOMAIN books = DOMAIN both \ side.removed
        /\ \A id \in DOMAIN both \ side.removed : books[id] = both[id]
    BY <1>3, WithoutCatalog, Zenon
  <2> HIDE DEF books
  <2> QED BY <2>1
<1>5. live' = [live EXCEPT !.books = books, !.dirty = live.dirty \/ scan.changed]
  BY DEF LandScan, Merge, books, both, store, touched
<1> HIDE DEF books, touched
<1>6. /\ live' \in [open : BOOLEAN, dirty : BOOLEAN, books : Catalogs]
      /\ live'.books = books /\ live'.open = live.open
  BY <1>1, <1>4, <1>5
<1>7. /\ saver' \in Savers /\ saver'.books = saver.books
      /\ transaction' \in Transactions /\ transaction'.path = transaction.path
      /\ transaction'.books = transaction.books
  <2>1. CASE scan.changed
    BY <1>1, <2>1, LateSaver, LateTransaction DEF LandScan
  <2>2. CASE ~scan.changed
    BY <1>1, <2>2 DEF LandScan
  <2> QED BY <2>1, <2>2
<1>8. /\ IdleScan \in Scans /\ IdleScan.store = NoBooks /\ IdleScan.pc = "idle"
      /\ IdleScan.new = NoBooks /\ DOMAIN NoBooks = {}
  BY NoBooksCatalog DEF IdleScan, Scans
<1>9. Types'
  BY <1>1, <1>6, <1>7, <1>8 DEF Types, FilesTyped, WatchTyped, BooksTyped
<1>10. DOMAIN live.books \ strays \subseteq DOMAIN scan.store /\ Agree(live.books, scan.store)
  BY <1>1 DEF ScanInv, ScanLands
<1>11. DOMAIN books \ strays \subseteq DOMAIN scan.store /\ Agree(books, scan.store)
  BY <1>2, <1>3, <1>4, <1>10 DEF Agree
<1>12. Sound(books)
  BY <1>1, <1>2, <1>3, <1>4, <1>11 DEF SoundInv, Sound, Unique, Agree
<1>13. SoundInv'
  BY <1>1, <1>6, <1>7, <1>8, <1>12, SoundNoBooks DEF SoundInv, Sound, Unique
<1>14. ScanInv' /\ TransactionInv' /\ ClosedInv'
  BY <1>1, <1>6, <1>7, <1>8 DEF ScanInv, ScanLands, Agree, TransactionInv, ClosedInv
<1> QED BY <1>9, <1>13, <1>14 DEF SessionInv

LEMMA LandRefusalStep ==
    ASSUME SessionInv, LandRefusal
    PROVE  SessionInv'
<1>1. /\ Types /\ SoundInv /\ TransactionInv /\ ClosedInv /\ scan' = IdleScan
      /\ UNCHANGED <<files, disk, watcher, build, suppressed, events, faults, live, lastId, side,
                     saver, transaction, strays>>
  BY DEF SessionInv, LandRefusal, Outside
<1>2. /\ IdleScan \in Scans /\ IdleScan.store = NoBooks /\ IdleScan.pc = "idle"
      /\ IdleScan.new = NoBooks /\ DOMAIN NoBooks = {}
  BY NoBooksCatalog DEF IdleScan, Scans
<1>3. Types'
  BY <1>1, <1>2 DEF Types, FilesTyped, WatchTyped, BooksTyped
<1>4. SoundInv'
  BY <1>1, <1>2, SoundNoBooks DEF SoundInv, Sound, Unique
<1>5. ScanInv' /\ TransactionInv' /\ ClosedInv'
  BY <1>1, <1>2 DEF ScanInv, ScanLands, TransactionInv, ClosedInv, Agree
<1> QED BY <1>3, <1>4, <1>5 DEF SessionInv

--------------------------------------------------------------------------------
(* The theorems.                                                           *)

LEMMA InitInv == Init => SessionInv
<1> SUFFICES ASSUME Init PROVE SessionInv
  OBVIOUS
<1>1. /\ IdleScan \in Scans /\ IdleSaver \in Savers /\ NoTransaction \in Transactions
      /\ IdleScan.store = NoBooks /\ IdleSaver.books = NoBooks /\ NoTransaction.books = NoBooks
      /\ IdleScan.pc = "idle" /\ IdleScan.new = NoBooks /\ NoTransaction.path = NoPath
  BY NoBooksCatalog DEF IdleScan, Scans, IdleSaver, Savers, NoTransaction, Transactions
<1>2. FilesTyped
  BY ConstantsAssumption DEF ConstantsAssumption, Init, FilesTyped, Versions, NoFile
<1>3. WatchTyped
  BY DEF Init, WatchTyped, NoWatcher, StartedBuild, Watchers, Builds
<1>4. BooksTyped
  BY <1>1, FileTypes, NoBooksCatalog DEF Init, BooksTyped
<1>5. SoundInv
  BY <1>1, FileTypes, SoundNoBooks DEF Init, SoundInv
<1>6. ScanInv /\ TransactionInv /\ ClosedInv
  BY <1>1, NoBooksCatalog DEF Init, ScanInv, ScanLands, Agree, TransactionInv, ClosedInv
<1> QED BY <1>2, <1>3, <1>4, <1>5, <1>6 DEF SessionInv, Types

LEMMA StepInv == SessionInv /\ [Next]_vars => SessionInv'
<1> SUFFICES ASSUME SessionInv, [Next]_vars PROVE SessionInv'
  OBVIOUS
<1>1. CASE User
  <2>1. ASSUME NEW p \in Paths, FileWritten(p) \/ FileRemoved(p) PROVE SessionInv'
    BY <2>1, FilesStep
  <2>2. ASSUME NEW p \in Paths, NEW q \in Paths, FileRenamed(p, q) PROVE SessionInv'
    BY <2>2, FilesStep
  <2>3. ASSUME NEW p \in Paths, TransactionWrites(p) PROVE SessionInv'
    BY <2>3, TransactionWritesStep
  <2>4. ASSUME NEW id \in DOMAIN live.books, Edit(id) \/ Remove(id) PROVE SessionInv'
    BY <2>4, UserStep
  <2>5. ASSUME NEW p \in Paths, OpenBook(p) PROVE SessionInv'
    BY <2>5, OpenBookStep
  <2> QED BY <1>1, <2>1, <2>2, <2>3, <2>4, <2>5, RebuildStep, UserScansStep, AbortScanStep,
             PutRestoreStep DEF User
<1>2. CASE \E result \in {"ready", "failed"} : BuildEnds(result)
  BY <1>2, BuildEndsStep
<1>3. CASE Poll \/ TransactionLands
  BY <1>3, PollStep, TransactionLandsStep
<1>4. CASE Scanning
  BY <1>4, ScanStartsStep, ScanLooksStep, ScanSendsStep, LandBatchStep, LandScanStep,
     LandRefusalStep DEF Scanning
<1>5. CASE SaveRequested \/ Saving \/ SaveFails
  BY <1>5, SaveStep
<1>6. CASE Crash \/ Start
  BY <1>6, CrashStep, StartStep
<1>7. CASE UNCHANGED vars
  BY <1>7, BooksAlone DEF vars, SessionInv, Types, FilesTyped, WatchTyped
<1> QED BY <1>1, <1>2, <1>3, <1>4, <1>5, <1>6, <1>7 DEF Next

\* The session's invariant holds for every number of paths, events and faults.
THEOREM LibraryInvariant == Spec => []SessionInv
<1>1. Init => SessionInv
  BY InitInv
<1>2. SessionInv /\ [Next]_vars => SessionInv'
  BY StepInv
<1> QED BY <1>1, <1>2, PTL DEF Spec

\* The library never holds two books for one file, unless a scan found one of
\* them renamed or the user opened one of them into the library while a scan
\* walked: batches, stopped scans, merges, transactions and starts bring none.
THEOREM NoTwoBooks == Spec => []OneBookPerFile
<1>1. SessionInv => OneBookPerFile
  BY DEF SessionInv, SoundInv, Sound, OneBookPerFile
<1> QED BY <1>1, LibraryInvariant, PTL

\* Every variable has its type, whatever the bounds.
THEOREM TypeCorrect == Spec => []TypeOK
<1>1. ASSUME NEW c \in Catalogs PROVE IsCatalog(c)
  BY CatalogFacts DEF IsCatalog
<1>2. SessionInv => TypeOK
  <2> SUFFICES ASSUME SessionInv PROVE TypeOK
    OBVIOUS
  <2>1. FilesTyped /\ WatchTyped /\ BooksTyped /\ ScanInv
    BY DEF SessionInv, Types
  <2>2. IsFile(disk.main) /\ IsFile(disk.bak) /\ IsFile(disk.restore)
    <3>1. ASSUME NEW f \in DiskFiles PROVE IsFile(f)
      <4>1. f.books \in Catalogs /\ f.state \in {"absent", "cut", "whole"}
        BY DEF DiskFiles
      <4> QED BY <1>1, <4>1 DEF IsFile
    <3> QED BY <2>1, <3>1 DEF BooksTyped
  <2>3. live.open \in BOOLEAN /\ live.dirty \in BOOLEAN /\ IsCatalog(live.books)
    BY <1>1, <2>1 DEF BooksTyped
  <2>4. watcher.on \in BOOLEAN /\ watcher.pending \subseteq Paths
        /\ build.pc \in {"none", "walking", "ready", "failed"} /\ build.pending \subseteq Paths
    BY <2>1 DEF WatchTyped, Watchers, Builds
  <2>5. /\ scan.pc \in {"idle", "waiting", "walk", "batch", "done", "failed"}
        /\ IsCatalog(scan.store) /\ scan.left \subseteq Paths
        /\ scan.stale \in BOOLEAN /\ scan.changed \in BOOLEAN /\ scan.stop \in BOOLEAN
        /\ IsCatalog(scan.new) /\ DOMAIN scan.new \subseteq DOMAIN scan.store
    BY <1>1, <2>1 DEF BooksTyped, Scans, ScanInv
  <2>6. /\ saver.pc \in {"idle", "waiting", "bak", "open", "copy", "land"}
        /\ IsCatalog(saver.books) /\ saver.stale \in BOOLEAN
        /\ transaction.path \in Paths \cup {NoPath} /\ transaction.stale \in BOOLEAN
        /\ IsCatalog(transaction.books)
        /\ side.removed \subseteq Ids /\ side.touched \subseteq Ids
    BY <1>1, <2>1 DEF BooksTyped, Savers, Transactions
  <2> QED BY <2>1, <2>2, <2>3, <2>4, <2>5, <2>6 DEF TypeOK, FilesTyped, WatchTyped, BooksTyped
<1> QED BY <1>2, LibraryInvariant, PTL

--------------------------------------------------------------------------------
(* The database's file and its .bak.                                       *)

DiskTyped ==
    /\ disk \in [main : DiskFiles, bak : DiskFiles, restore : DiskFiles]
    /\ saver \in Savers

\* What a start would come up with, but for a restored database, is admitted
\* by the history.
Admitted ==
    /\ disk.main.state = "whole" => disk.main.books \in kept
    /\ disk.main.state # "whole" /\ disk.bak.state = "whole" => disk.bak.books \in kept
    /\ disk.main.state # "whole" /\ disk.bak.state # "whole" => NoBooks \in kept

\* While a save writes, the history admits its books, and nothing if the .bak
\* it cuts may be missed; once the .bak is written it holds the save's books.
SaverInv ==
    /\ saver.pc \in {"bak", "open", "copy"} => saver.books \in kept
    /\ saver.pc \in {"bak", "open"} /\ disk.main.state # "whole" => NoBooks \in kept
    /\ saver.pc \in {"open", "copy"} => disk.bak = Whole(saver.books)
    /\ ~live.open => saver.pc = "idle"

DiskInv == DiskTyped /\ Admitted /\ SaverInv

\* Steps that leave the directory, the history and the save's phase alone.
LEMMA DirectoryAlone ==
    ASSUME DiskInv, DiskTyped', disk'.main = disk.main, disk'.bak = disk.bak, kept' = kept,
           \/ saver'.pc = saver.pc /\ saver'.books = saver.books
           \/ saver'.pc \in {"idle", "waiting", "land"},
           live'.open \/ (live'.open = live.open /\ saver' = saver)
           \/ saver'.pc = "idle"
    PROVE  DiskInv'
<1>1. Admitted'
  BY DEF DiskInv, Admitted
<1>2. SaverInv'
  BY DEF DiskInv, SaverInv
<1> QED BY <1>1, <1>2 DEF DiskInv

LEMMA SavePhases ==
    ASSUME DiskInv, Types', SaveStarts \/ WriteBak \/ OpenMain \/ FillMain \/ SaveFails
    PROVE  DiskInv'
<1>1. /\ disk \in [main : DiskFiles, bak : DiskFiles, restore : DiskFiles]
      /\ saver \in Savers /\ saver.books \in Catalogs /\ Admitted /\ SaverInv
  BY DEF DiskInv, DiskTyped, Savers
<1>2. DiskTyped'
  BY DEF Types, BooksTyped, DiskTyped
<1>3. /\ Cut.state # "whole" /\ Absent.state # "whole" /\ IdleSaver.pc = "idle"
      /\ \A c \in Catalogs : Whole(c).state = "whole" /\ Whole(c).books = c
  BY DEF Cut, Absent, Whole, IdleSaver
<1>4. CASE SaveStarts
  <2>1. CASE saver.stale
    <3>1. disk' = disk /\ kept' = kept /\ saver' = IdleSaver
      BY <1>4, <2>1 DEF SaveStarts
    <3> QED BY <1>2, <1>3, <3>1, DirectoryAlone
  <2>2. CASE ~saver.stale
    <3>1. /\ disk' = [disk EXCEPT !.bak = Cut] /\ saver' = [saver EXCEPT !.pc = "bak"]
          /\ live' = live /\ saver.pc = "waiting"
          /\ kept' = kept \cup {saver.books} \cup {c \in {NoBooks} : disk.main.state # "whole"}
      BY <1>4, <2>2 DEF SaveStarts, Unsaved
    <3>2. /\ disk'.main = disk.main /\ disk'.bak = Cut
          /\ saver'.pc = "bak" /\ saver'.books = saver.books
      BY <1>1, <3>1 DEF Savers
    <3>3. /\ saver.books \in kept' /\ kept \subseteq kept'
          /\ disk.main.state # "whole" => NoBooks \in kept'
      BY <3>1
    <3>4. live.open
      BY <1>1, <3>1 DEF SaverInv
    <3>5. Admitted' /\ SaverInv'
      BY <1>1, <1>3, <3>1, <3>2, <3>3, <3>4 DEF Admitted, SaverInv
    <3> QED BY <1>2, <3>5 DEF DiskInv
  <2> QED BY <2>1, <2>2
<1>5. CASE WriteBak
  <2>1. /\ disk' = [disk EXCEPT !.bak = Whole(saver.books)] /\ saver.pc = "bak"
        /\ saver' = [saver EXCEPT !.pc = "open"] /\ live' = live /\ kept' = kept
    BY <1>5 DEF WriteBak, Unsaved
  <2>2. /\ disk'.main = disk.main /\ disk'.bak = Whole(saver.books)
        /\ saver'.pc = "open" /\ saver'.books = saver.books
    BY <1>1, <2>1 DEF Savers
  <2>3. Admitted' /\ SaverInv'
    BY <1>1, <1>3, <2>1, <2>2 DEF Admitted, SaverInv
  <2> QED BY <1>2, <2>3 DEF DiskInv
<1>6. CASE OpenMain
  <2>1. /\ disk' = [disk EXCEPT !.main = Cut] /\ saver.pc = "open"
        /\ saver' = [saver EXCEPT !.pc = "copy"] /\ live' = live /\ kept' = kept
    BY <1>6 DEF OpenMain, Unsaved
  <2>2. /\ disk'.main = Cut /\ disk'.bak = disk.bak
        /\ saver'.pc = "copy" /\ saver'.books = saver.books
    BY <1>1, <2>1 DEF Savers
  <2>3. Admitted' /\ SaverInv'
    BY <1>1, <1>3, <2>1, <2>2 DEF Admitted, SaverInv
  <2> QED BY <1>2, <2>3 DEF DiskInv
<1>7. CASE FillMain
  <2>1. /\ disk' = [disk EXCEPT !.main = Whole(saver.books)] /\ saver.pc = "copy"
        /\ saver' = [saver EXCEPT !.pc = "land"] /\ live' = live /\ kept' = {saver.books}
    BY <1>7 DEF FillMain, Unsaved
  <2>2. disk'.main = Whole(saver.books) /\ saver'.pc = "land" /\ live.open
    BY <1>1, <2>1 DEF Savers, SaverInv
  <2>3. Admitted' /\ SaverInv'
    BY <1>1, <1>3, <2>1, <2>2 DEF Admitted, SaverInv
  <2> QED BY <1>2, <2>3 DEF DiskInv
<1>8. CASE SaveFails
  <2>1. /\ saver' = IdleSaver /\ live' = live /\ saver.pc \in {"bak", "open", "copy"}
        /\ disk'.main = disk.main
        /\ saver.pc = "bak" => disk'.bak = disk.bak /\ kept' = kept
        /\ saver.pc = "open" => disk'.bak = Absent /\ kept' = kept
        /\ saver.pc = "copy" => disk'.bak = Absent /\ kept' = kept \cup {NoBooks}
    BY <1>1, <1>8 DEF SaveFails, Unsaved
  <2>2. Admitted'
    BY <1>1, <1>3, <2>1 DEF Admitted, SaverInv
  <2>3. SaverInv'
    BY <1>3, <2>1 DEF SaverInv
  <2> QED BY <1>2, <2>2, <2>3 DEF DiskInv
<1> QED BY <1>4, <1>5, <1>6, <1>7, <1>8

LEMMA SaverLateFacts ==
    ASSUME saver \in Savers
    PROVE  SaverLate.pc = saver.pc /\ SaverLate.books = saver.books
BY DEF SaverLate, Savers

LEMMA TransactionSaves ==
    ASSUME DiskInv, Types, Types', NEW p \in Paths, TransactionWrites(p)
    PROVE  DiskInv'
<1> DEFINE after == [id \in DOMAIN live.books |->
                        IF live.books[id].path = p
                        THEN [path |-> p, seen |-> events + 1, pages |-> events + 1]
                        ELSE live.books[id]]
<1>1. /\ disk' = [disk EXCEPT !.main = Whole(after)] /\ kept' = {after}
      /\ saver' = SaverLate /\ live' = live /\ live.open
      /\ saver.pc \notin {"bak", "open", "copy"}
  BY DEF TransactionWrites, GuardFree
<1>2. /\ Whole(after).state = "whole" /\ Whole(after).books = after
      /\ disk'.main = Whole(after)
  BY <1>1 DEF DiskInv, DiskTyped, Whole
<1>3. saver'.pc = saver.pc
  BY <1>1, SaverLateFacts DEF DiskInv, DiskTyped
<1> HIDE DEF after
<1>4. Admitted' /\ SaverInv'
  BY <1>1, <1>2, <1>3 DEF Admitted, SaverInv
<1> QED BY <1>4 DEF DiskInv, DiskTyped, Types, BooksTyped

LEMMA DiskStep == SessionInv /\ SessionInv' /\ DiskInv /\ [Next]_vars => DiskInv'
<1> SUFFICES ASSUME SessionInv, SessionInv', DiskInv, [Next]_vars PROVE DiskInv'
  OBVIOUS
<1>1. Types /\ Types' /\ DiskTyped' /\ ClosedInv /\ saver \in Savers
      /\ disk \in [main : DiskFiles, bak : DiskFiles, restore : DiskFiles]
      /\ live \in [open : BOOLEAN, dirty : BOOLEAN, books : Catalogs]
  BY DEF SessionInv, Types, BooksTyped, DiskTyped
<1>2. /\ SaverLate.pc = saver.pc /\ SaverLate.books = saver.books
      /\ IdleSaver.pc = "idle"
  BY <1>1, SaverLateFacts DEF IdleSaver
<1>3. ASSUME UNCHANGED <<disk, kept>>, saver' \in {saver, SaverLate},
             live.open => live'.open, saver' = saver \/ live.open,
             ~live.open => live'.open = live.open \/ live'.open
      PROVE  DiskInv'
  BY <1>1, <1>2, <1>3, DirectoryAlone
<1>4. CASE User
  <2>1. ASSUME NEW p \in Paths, FileWritten(p) \/ FileRemoved(p) PROVE DiskInv'
    BY <1>3, <2>1 DEF FileWritten, FileRemoved, Unheard
  <2>2. ASSUME NEW p \in Paths, NEW q \in Paths, FileRenamed(p, q) PROVE DiskInv'
    BY <1>3, <2>2 DEF FileRenamed, Unheard
  <2>3. ASSUME NEW p \in Paths, TransactionWrites(p) PROVE DiskInv'
    BY <1>1, <2>3, TransactionSaves
  <2>4. ASSUME NEW id \in DOMAIN live.books, Edit(id) PROVE DiskInv'
    BY <1>1, <1>3, <2>4 DEF Edit, Quiet
  <2>5. ASSUME NEW id \in DOMAIN live.books, Remove(id) PROVE DiskInv'
    BY <1>1, <1>3, <2>5 DEF Remove, Quiet
  <2>6. CASE Rebuild
    BY <1>1, <1>3, <2>6 DEF Rebuild, Quiet
  <2>7. CASE UserScans
    BY <1>3, <2>7 DEF UserScans, Quiet
  <2>8. CASE PutRestore
    <3>1. PICK f \in {Cut, Whole(NoBooks)} : disk' = [disk EXCEPT !.restore = f]
      BY <2>8 DEF PutRestore
    <3>2. disk'.main = disk.main /\ disk'.bak = disk.bak /\ UNCHANGED <<live, saver, kept>>
      BY <1>1, <2>8, <3>1 DEF PutRestore
    <3> QED BY <1>1, <3>2, DirectoryAlone
  <2>9. ASSUME NEW p \in Paths, OpenBook(p) PROVE DiskInv'
    <3>1. live'.open = live.open
      BY <1>1, <2>9 DEF OpenBook
    <3> QED BY <1>3, <2>9, <3>1 DEF OpenBook
  <2>10. CASE AbortScan
    BY <1>3, <2>10 DEF AbortScan, Quiet
  <2> QED BY <1>4, <2>1, <2>2, <2>3, <2>4, <2>5, <2>6, <2>7, <2>8, <2>9, <2>10 DEF User
<1>5. CASE \E result \in {"ready", "failed"} : BuildEnds(result)
  BY <1>3, <1>5 DEF BuildEnds, Session
<1>6. CASE Poll
  BY <1>3, <1>6 DEF Poll
<1>7. CASE TransactionLands
  <2>1. live.open
    BY <1>1, <1>7 DEF ClosedInv, TransactionLands
  <2>2. live'.open
    BY <1>1, <1>7, <2>1 DEF TransactionLands
  <2>3. UNCHANGED <<disk, kept>> /\ saver' \in {saver, SaverLate}
    BY <1>7 DEF TransactionLands
  <2> QED BY <1>3, <2>1, <2>2, <2>3
<1>8. CASE Scanning
  <2>1. live.open
    BY <1>1, <1>8 DEF ClosedInv, Scanning, ScanStarts, ScanLooks, ScanWalked, ScanSendsStorage,
                      LandBatch, LandScan, LandRefusal
  <2>2. live'.open
    <3>1. CASE LandBatch
      BY <1>1, <2>1, <3>1 DEF LandBatch
    <3>2. CASE LandScan
      BY <1>1, <2>1, <3>2 DEF LandScan
    <3> QED BY <1>8, <2>1, <3>1, <3>2 DEF Scanning, ScanStarts, ScanLooks, ScanWalked,
                                          ScanSendsStorage, LandRefusal
  <2>3. UNCHANGED <<disk, kept>> /\ saver' \in {saver, SaverLate}
    BY <1>8 DEF Scanning, ScanStarts, ScanLooks, ScanWalked, ScanSendsStorage, LandBatch,
                LandScan, LandRefusal, Outside
  <2> QED BY <1>3, <2>1, <2>2, <2>3
<1>9. CASE SaveRequested \/ LandSave
  <2>1. /\ UNCHANGED <<disk, kept>> /\ saver'.pc \in {"waiting", "idle"}
        /\ live'.open \/ saver'.pc = "idle"
    BY <1>2, <1>9 DEF SaveRequested, LandSave, Unsaved
  <2> QED BY <1>1, <2>1, DirectoryAlone
<1>10. CASE SaveStarts \/ WriteBak \/ OpenMain \/ FillMain \/ SaveFails
  BY <1>1, <1>10, SavePhases
<1>11. CASE Crash
  BY <1>1, <1>2, <1>11, DirectoryAlone DEF Crash
<1>12. CASE Start
  <2>1. /\ disk'.main = disk.main /\ disk'.bak = disk.bak /\ UNCHANGED <<saver, kept>>
        /\ live'.open
    BY <1>1, <1>12 DEF Start
  <2> QED BY <1>1, <2>1, DirectoryAlone
<1>13. CASE UNCHANGED vars
  BY <1>3, <1>13 DEF vars
<1> QED BY <1>4, <1>5, <1>6, <1>7, <1>8, <1>9, <1>10, <1>11, <1>12, <1>13 DEF Next, Saving

\* No other step opens a database.
LEMMA OnlyStartOpens ==
    ASSUME SessionInv, [Next]_vars, ~live.open, live'.open
    PROVE  Start
<1>1. /\ scan.pc = "idle" /\ transaction.path = NoPath
      /\ live \in [open : BOOLEAN, dirty : BOOLEAN, books : Catalogs]
  BY DEF SessionInv, Types, BooksTyped, ClosedInv
<1>2. ~User
  BY <1>1 DEF User, FileWritten, FileRemoved, FileRenamed, TransactionWrites, Edit, Remove,
              OpenBook, Rebuild, UserScans, AbortScan, PutRestore, Unheard, Quiet
<1>3. ~Scanning
  BY <1>1 DEF Scanning, ScanStarts, ScanLooks, ScanWalked, ScanSendsStorage, LandBatch,
              LandScan, LandRefusal
<1>4. ~(Poll \/ TransactionLands \/ Crash \/ SaveRequested \/ SaveFails)
      /\ ~(\E result \in {"ready", "failed"} : BuildEnds(result))
  BY <1>1 DEF Poll, TransactionLands, Crash, SaveRequested, SaveFails, BuildEnds, Session,
              Unsaved
<1>5. ~Saving
  BY <1>1 DEF Saving, SaveStarts, WriteBak, OpenMain, FillMain, LandSave, Unsaved
<1> QED BY <1>2, <1>3, <1>4, <1>5 DEF Next, vars

\* Whatever the faults and wherever they strike, a start comes up with a
\* database the history admits, or with a restored one.
THEOREM StartsWithWhatWasSaved == Spec => OpensWhatWasSaved
<1>1. Init => DiskInv
  <2> SUFFICES ASSUME Init PROVE DiskInv
    OBVIOUS
  <2>1. DiskTyped
    BY InitInv DEF SessionInv, Types, BooksTyped, DiskTyped
  <2>2. Admitted /\ SaverInv
    BY DEF Init, Admitted, SaverInv, Absent, IdleSaver
  <2> QED BY <2>1, <2>2 DEF DiskInv
<1>2. SessionInv /\ DiskInv /\ [Next]_vars
      => (~live.open /\ live'.open =>
             \/ live'.books \in kept
             \/ disk.restore.state = "whole" /\ live'.books = disk.restore.books)
  <2> SUFFICES ASSUME SessionInv, DiskInv, [Next]_vars, ~live.open, live'.open
               PROVE  \/ live'.books \in kept
                      \/ disk.restore.state = "whole" /\ live'.books = disk.restore.books
    OBVIOUS
  <2>1. live'.books = Opened
    BY OnlyStartOpens DEF Start
  <2> QED BY <2>1 DEF Opened, DiskInv, Admitted
<1>3. SessionInv /\ SessionInv' /\ DiskInv /\ [Next]_vars => DiskInv'
  BY DiskStep
<1> QED BY <1>1, <1>2, <1>3, LibraryInvariant, PTL DEF Spec, OpensWhatWasSaved
--------------------------------------------------------------------------------
(* What becomes of a notice.                                               *)

\* How a notice for the path p may be lost, besides a crash.
LostNotice(p) ==
    \/ build'.pc \notin {build.pc, "none"}
    \/ p \in suppressed \ suppressed'
    \/ scan.pc = "waiting" /\ scan.stale
    \/ scan.pc = "walk" /\ scan.stop /\ p \in scan.left
    \/ \E id \in StoredAt(p) : scan.pc = "done" /\ id \in side.removed \cup side.touched
    \/ ~live'.open

\* A step that leaves the scan's clone alone and takes no notice from what a
\* poll would install keeps a notice.
LEMMA NoticeHeld ==
    ASSUME NEW p, Noticed(p), files'[p] = files[p],
           Installed.pending \subseteq Installed'.pending,
           scan'.pc = scan.pc, scan'.left = scan.left, scan'.store = scan.store
    PROVE  Noticed(p)'
BY DEF Noticed

\* What the poll would install hears all that comes.
LEMMA InstalledHears ==
    ASSUME Types, NEW q \in Paths, Notice(q)
    PROVE  Installed.pending \subseteq Installed'.pending
<1>1. build \in Builds /\ watcher \in Watchers
  BY DEF Types, WatchTyped
<1>2. /\ build'.pc = build.pc
      /\ build.pc = "ready" => build'.pending = build.pending \cup {q}
      /\ watcher.pending \subseteq watcher'.pending
  BY <1>1 DEF Notice, Builds, Watchers
<1>3. CASE build.pc = "ready"
  BY <1>2, <1>3 DEF Installed
<1>4. CASE build.pc # "ready"
  BY <1>2, <1>4 DEF Installed
<1> QED BY <1>3, <1>4

\* The user, the other programs and the transactions.
LEMMA UserNotice ==
    ASSUME SessionInv, NEW p \in Paths, Noticed(p), files'[p] = files[p], User
    PROVE  Noticed(p)' \/ LostNotice(p)
<1>1. Types /\ scan \in Scans /\ saver \in Savers /\ transaction \in Transactions
  BY DEF SessionInv, Types, BooksTyped
<1>2. ASSUME NEW q \in Paths, Notice(q), scan' \in {scan, ScanLate} PROVE Noticed(p)'
  BY <1>1, <1>2, InstalledHears, LateScan, NoticeHeld DEF Scans, ScanLate
<1>3. ASSUME watcher' = watcher, build' = build, scan' \in {scan, ScanLate} PROVE Noticed(p)'
  <2>1. Installed' = Installed
    BY <1>3 DEF Installed
  <2> QED BY <1>1, <1>3, <2>1, NoticeHeld DEF Scans, ScanLate
<1>4. ASSUME NEW q \in Paths, FileWritten(q) \/ FileRemoved(q) \/ TransactionWrites(q)
      PROVE  Noticed(p)'
  <2>1. Notice(q) /\ scan' \in {scan, ScanLate}
    BY <1>4 DEF FileWritten, FileRemoved, TransactionWrites, Unheard
  <2> QED BY <1>2, <2>1
<1>5. ASSUME NEW q \in Paths, NEW r \in Paths, FileRenamed(q, r) PROVE Noticed(p)'
  BY <1>2, <1>5 DEF FileRenamed, Unheard
<1>6. ASSUME NEW id \in DOMAIN live.books, Edit(id) \/ Remove(id) PROVE Noticed(p)'
  BY <1>3, <1>6 DEF Edit, Remove
<1>7. CASE Rebuild
  <2>1. build' = StartedBuild /\ watcher' = watcher /\ scan' = ScanLate
    BY <1>7 DEF Rebuild
  <2>2. CASE build.pc = "walking"
    <3>1. Installed' = Installed
      BY <2>1, <2>2 DEF Installed, StartedBuild
    <3> QED BY <1>1, <2>1, <3>1, NoticeHeld DEF Scans, ScanLate
  <2>3. CASE build.pc # "walking"
    BY <2>1, <2>3 DEF StartedBuild, LostNotice
  <2> QED BY <2>2, <2>3
<1>8. CASE UserScans
  BY <1>8 DEF UserScans, StartedScan, IdleScan, Noticed
<1>9. CASE PutRestore
  BY <1>3, <1>9 DEF PutRestore
<1>10. ASSUME NEW q \in Paths, OpenBook(q) PROVE Noticed(p)'
  BY <1>3, <1>10 DEF OpenBook
<1>11. CASE AbortScan
  <2>1. scan' = [scan EXCEPT !.stop = TRUE] /\ watcher' = watcher /\ build' = build
    BY <1>11 DEF AbortScan
  <2>2. Installed' = Installed
    BY <2>1 DEF Installed
  <2>3. scan'.pc = scan.pc /\ scan'.left = scan.left /\ scan'.store = scan.store
    BY <1>1, <2>1 DEF Scans
  <2> QED BY <2>2, <2>3, NoticeHeld
<1> QED BY <1>4, <1>5, <1>6, <1>7, <1>8, <1>9, <1>10, <1>11 DEF User

\* The poll starts a scan of what it takes, or takes a path that is suppressed.
LEMMA PollNotice ==
    ASSUME SessionInv, NEW p \in Paths, Noticed(p), files'[p] = files[p], Poll
    PROVE  Noticed(p)' \/ LostNotice(p)
<1>1. Installed \in Watchers /\ build \in Builds /\ scan.pc = "idle"
      /\ build'.pc \in {"walking", "none"}
  BY InstalledType DEF SessionInv, Types, WatchTyped, Poll, IsScanning, NoBuild, Builds
<1>2. p \in Installed.pending
  BY <1>1 DEF Noticed
<1>3. PICK taken \in {{}, Installed.pending} :
          /\ watcher' = [Installed EXCEPT !.pending = @ \ taken]
          /\ suppressed' = suppressed \ taken
          /\ scan' = IF taken \subseteq suppressed THEN scan ELSE StartedScan
  BY DEF Poll
<1>4. Installed' = watcher'
  BY <1>1 DEF Installed
<1>5. CASE taken = {}
  <2>1. watcher'.pending = Installed.pending
    BY <1>1, <1>3, <1>5 DEF Watchers
  <2> QED BY <1>2, <1>4, <2>1 DEF Noticed
<1>6. CASE taken = Installed.pending /\ taken \subseteq suppressed
  BY <1>2, <1>3, <1>6 DEF LostNotice
<1>7. CASE ~(taken \subseteq suppressed)
  BY <1>3, <1>7 DEF Noticed, StartedScan, IdleScan
<1> QED BY <1>3, <1>5, <1>6, <1>7

\* The scan looks at each path it has not looked at, and forgets none it read.
LEMMA LookNotice ==
    ASSUME SessionInv, NEW p \in Paths, Noticed(p), files' = files, files[p] # NoFile,
           scan.pc = "walk", NEW q \in scan.left, NEW reads \in BOOLEAN, ProcessFile(q, reads),
           watcher' = watcher, build' = build
    PROVE  Noticed(p)'
<1>1. scan \in Scans /\ scan.store \in Catalogs /\ Sound(scan.store) /\ lastId \in Nat
      /\ q \in Paths
  BY DEF SessionInv, Types, BooksTyped, SoundInv, Scans
<1>2. Installed' = Installed
  BY DEF Installed
<1> DEFINE store == scan.store
           update(id) == [scan EXCEPT !.left = @ \ {q}, !.changed = TRUE,
                                      !.store[id] = Refreshed(@, q, reads)]
<1>3. ASSUME NEW id \in DOMAIN store, scan' = update(id)
      PROVE  /\ scan'.pc = "walk" /\ scan'.left = scan.left \ {q}
             /\ DOMAIN scan'.store = DOMAIN store
             /\ scan'.store[id].path = q /\ scan'.store[id].seen = files[q]
             /\ \A k \in DOMAIN store \ {id} : scan'.store[k] = store[k]
  <2> DEFINE now == Refreshed(store[id], q, reads)
             after == [store EXCEPT ![id] = now]
  <2>1. now.path = q /\ now.seen = files[q]
    BY DEF Refreshed
  <2> HIDE DEF now
  <2>2. /\ DOMAIN after = DOMAIN store /\ after[id] = now
        /\ \A k \in DOMAIN store \ {id} : after[k] = store[k]
    BY <1>3
  <2>3. scan' = [scan EXCEPT !.left = scan.left \ {q}, !.changed = TRUE, !.store = after]
    BY <1>1, <1>3 DEF Scans, now
  <2> HIDE DEF after
  <2>4. scan'.pc = scan.pc /\ scan'.left = scan.left \ {q} /\ scan'.store = after
    BY <1>1, <2>3 DEF Scans
  <2> QED BY <2>1, <2>2, <2>4
<1> HIDE DEF update
<1>4. ASSUME NEW id \in DOMAIN store, scan' = update(id), store[id].path = q \/ store[id].path # p
      PROVE  Noticed(p)'
  <2>1. CASE p = q
    BY <1>3, <1>4, <2>1 DEF Noticed
  <2>2. CASE p # q
    BY <1>2, <1>3, <1>4, <2>2 DEF Noticed
  <2> QED BY <2>1, <2>2
<1>5. CASE StoredAt(q) # {}
  <2>1. PICK id \in StoredAt(q) : scan' = update(id)
    BY <1>5 DEF ProcessFile, update
  <2> QED BY <1>4, <2>1 DEF StoredAt
<1>6. CASE StoredAt(q) = {} /\ RenamedTo(q) # {}
  <2>1. PICK id \in RenamedTo(q) : scan' = update(id)
    BY <1>6 DEF ProcessFile, update
  <2>2. id \in DOMAIN store /\ files[store[id].path] = NoFile
    BY DEF RenamedTo
  <2> QED BY <1>4, <2>1, <2>2
<1>7. CASE StoredAt(q) = {} /\ RenamedTo(q) = {}
  <2> DEFINE one == Created(q, reads)
             after == Overlay(store, one)
  <2>1. lastId' = lastId + 1
    BY <1>7 DEF ProcessFile
  <2>2. scan' = [scan EXCEPT !.left = @ \ {q}, !.changed = TRUE, !.new = Overlay(@, one),
                             !.store = after]
    BY <1>7, <2>1 DEF ProcessFile
  <2>3. lastId + 1 \notin DOMAIN store
    BY <1>1 DEF Sound
  <2>4. DOMAIN one = {lastId + 1} /\ one[lastId + 1].path = q /\ one[lastId + 1].seen = files[q]
    <3>1. Types
      BY DEF SessionInv
    <3> QED BY <1>1, <3>1, CreatedType, Zenon
  <2> HIDE DEF one
  <2>5. /\ DOMAIN after = DOMAIN store \cup {lastId + 1}
        /\ after[lastId + 1] = one[lastId + 1]
        /\ \A k \in DOMAIN store : after[k] = store[k]
    BY <2>3, <2>4 DEF Overlay
  <2> HIDE DEF after
  <2>6. scan'.pc = "walk" /\ scan'.left = scan.left \ {q} /\ scan'.store = after
    BY <1>1, <2>2 DEF Scans
  <2>7. CASE p = q
    BY <2>4, <2>5, <2>6, <2>7 DEF Noticed
  <2>8. CASE p # q
    BY <1>2, <2>5, <2>6, <2>8 DEF Noticed
  <2> QED BY <2>7, <2>8
<1> QED BY <1>5, <1>6, <1>7

\* What a scan read and lands is in the library, unless the user worked on it.
LEMMA LandNotice ==
    ASSUME SessionInv, NEW p \in Paths, Noticed(p), Stale(p)', files' = files, LandScan
    PROVE  Noticed(p)' \/ LostNotice(p)
<1>1. /\ scan \in Scans /\ scan.pc = "done" /\ scan.store \in Catalogs
      /\ live \in [open : BOOLEAN, dirty : BOOLEAN, books : Catalogs]
      /\ live.books \in Catalogs
      /\ watcher' = watcher /\ build' = build
  BY DEF SessionInv, Types, BooksTyped, Scans, LandScan, Outside
<1>2. Installed' = Installed
  BY <1>1 DEF Installed
<1>3. CASE p \in Installed.pending
  BY <1>2, <1>3 DEF Noticed
<1>4. CASE p \notin Installed.pending
  <2>1. PICK id \in DOMAIN scan.store : scan.store[id].path = p /\ scan.store[id].seen = files[p]
    BY <1>1, <1>4 DEF Noticed
  <2>2. CASE id \in side.removed \cup side.touched
    BY <1>1, <2>1, <2>2 DEF LostNotice, StoredAt
  <2>3. CASE id \notin side.removed \cup side.touched
    <3> DEFINE touched == {k \in DOMAIN scan.store \cap DOMAIN live.books : k \in side.touched}
               store == Without(scan.store, touched)
               both == Overlay(live.books, store)
               books == Without(both, side.removed)
    <3>1. id \in DOMAIN scan.store \ touched
      BY <2>3
    <3> HIDE DEF touched
    <3>2. store \in Catalogs /\ id \in DOMAIN store /\ store[id] = scan.store[id]
      <4>1. /\ store \in Catalogs /\ DOMAIN store = DOMAIN scan.store \ touched
            /\ \A k \in DOMAIN scan.store \ touched : store[k] = scan.store[k]
        BY <1>1, WithoutCatalog, Zenon
      <4> HIDE DEF store
      <4> QED BY <3>1, <4>1
    <3> HIDE DEF store
    <3>3. both \in Catalogs /\ id \in DOMAIN both /\ both[id] = store[id]
      <4>1. /\ both \in Catalogs /\ DOMAIN both = DOMAIN live.books \cup DOMAIN store
            /\ \A k \in DOMAIN store : both[k] = store[k]
        BY <1>1, <3>2, OverlayCatalog, Zenon
      <4> HIDE DEF both
      <4> QED BY <3>2, <4>1
    <3> HIDE DEF both
    <3>4. id \in DOMAIN books /\ books[id] = both[id]
      <4>1. /\ DOMAIN books = DOMAIN both \ side.removed
            /\ \A k \in DOMAIN both \ side.removed : books[k] = both[k]
        BY <3>3, WithoutCatalog, Zenon
      <4> HIDE DEF books
      <4> QED BY <2>3, <3>3, <4>1
    <3>5. live' = [live EXCEPT !.books = books, !.dirty = live.dirty \/ scan.changed]
      BY DEF LandScan, Merge, books, both, store, touched
    <3> HIDE DEF books
    <3>6. live'.books = books
      BY <1>1, <3>5
    <3> QED BY <2>1, <3>2, <3>3, <3>4, <3>6 DEF Stale
  <2> QED BY <2>2, <2>3
<1> QED BY <1>3, <1>4

\* The scan's steps.
LEMMA ScanNotice ==
    ASSUME SessionInv, NEW p \in Paths, Stale(p), Noticed(p), Stale(p)', Scanning
    PROVE  Noticed(p)' \/ LostNotice(p)
<1>1. /\ scan \in Scans /\ files' = files /\ watcher' = watcher /\ build' = build
  BY DEF SessionInv, Types, BooksTyped, Scanning, ScanStarts, ScanLooks, ScanWalked,
         ScanSendsStorage, LandBatch, LandScan, LandRefusal, Outside
<1>2. Installed' = Installed /\ files[p] # NoFile
  BY <1>1 DEF Installed, Stale
<1>3. CASE ScanStarts
  <2>1. CASE scan.stale
    BY <1>3, <2>1 DEF ScanStarts, LostNotice
  <2>2. CASE ~scan.stale
    <3>1. scan'.pc = "walk" /\ p \in scan'.left
      BY <1>1, <1>2, <1>3, <2>2 DEF ScanStarts, Scans
    <3> QED BY <3>1 DEF Noticed
  <2> QED BY <2>1, <2>2
<1>4. CASE ScanLooks
  <2>1. PICK q \in scan.left :
            IF files[q] = NoFile
            THEN scan' = [scan EXCEPT !.left = @ \ {q}] /\ UNCHANGED <<lastId, strays>>
            ELSE \E reads \in BOOLEAN : ProcessFile(q, reads)
    BY <1>4 DEF ScanLooks
  <2>2. CASE files[q] = NoFile
    <3>1. scan' = [scan EXCEPT !.left = @ \ {q}] /\ p # q
      BY <1>2, <2>1, <2>2
    <3>2. scan'.pc = scan.pc /\ scan'.store = scan.store /\ scan'.left = scan.left \ {q}
      BY <1>1, <3>1 DEF Scans
    <3> QED BY <1>1, <1>2, <3>1, <3>2 DEF Noticed
  <2>3. CASE files[q] # NoFile
    <3>1. PICK reads \in BOOLEAN : ProcessFile(q, reads)
      BY <2>1, <2>3
    <3>2. scan.pc = "walk"
      BY <1>4 DEF ScanLooks
    <3> QED BY <1>1, <1>2, <3>1, <3>2, LookNotice
  <2> QED BY <2>2, <2>3
<1>5. CASE ScanWalked \/ ScanSendsStorage
  <2>1. /\ scan'.store = scan.store /\ scan'.pc \in {"batch", "done"}
        /\ scan.pc \in {"walk", "batch"}
        /\ scan.pc = "walk" => scan.left = {} \/ scan.stop
    BY <1>1, <1>5 DEF ScanWalked, ScanSendsStorage, Scans
  <2>2. CASE scan.pc = "walk" /\ p \in scan.left
    BY <2>1, <2>2 DEF LostNotice
  <2>3. CASE ~(scan.pc = "walk" /\ p \in scan.left)
    BY <1>1, <1>2, <2>1, <2>3 DEF Noticed
  <2> QED BY <2>2, <2>3
<1>6. CASE LandBatch
  <2>1. scan'.pc = scan.pc /\ scan'.store = scan.store /\ scan'.left = scan.left
    BY <1>1, <1>6 DEF LandBatch, Scans
  <2> QED BY <1>1, <1>2, <2>1, NoticeHeld
<1>7. CASE LandScan
  BY <1>1, <1>7, LandNotice
<1>8. CASE LandRefusal
  BY <1>1, <1>2, <1>8 DEF LandRefusal, Noticed
<1> QED BY <1>3, <1>4, <1>5, <1>6, <1>7, <1>8 DEF Scanning

\* No step loses a notice otherwise.
LEMMA NoticeKept ==
    ASSUME SessionInv, [Next]_vars, NEW p \in Paths, Stale(p), Noticed(p), Stale(p)',
           files'[p] = files[p]
    PROVE  Noticed(p)' \/ LostNotice(p)
<1>1. ASSUME watcher' = watcher, build' = build, scan' = scan PROVE Noticed(p)'
  <2>1. Installed' = Installed
    BY <1>1 DEF Installed
  <2> QED BY <1>1, <2>1, NoticeHeld
<1>2. ASSUME build' = StartedBuild, watcher' = watcher, scan' = scan
      PROVE  Noticed(p)' \/ LostNotice(p)
  <2>1. CASE build.pc = "walking"
    <3>1. Installed' = Installed
      BY <1>2, <2>1 DEF Installed, StartedBuild
    <3> QED BY <1>2, <3>1, NoticeHeld
  <2>2. CASE build.pc # "walking"
    BY <1>2, <2>2 DEF StartedBuild, LostNotice
  <2> QED BY <2>1, <2>2
<1>3. CASE \E result \in {"ready", "failed"} : BuildEnds(result)
  <2>1. build \in Builds
    BY DEF SessionInv, Types, WatchTyped
  <2> QED BY <1>3, <2>1 DEF BuildEnds, Builds, LostNotice
<1>4. CASE TransactionLands
  <2>1. CASE transaction.stale
    BY <1>1, <1>4, <2>1 DEF TransactionLands
  <2>2. CASE ~transaction.stale
    BY <1>2, <1>4, <2>2 DEF TransactionLands
  <2> QED BY <2>1, <2>2
<1>5. CASE SaveRequested \/ Saving \/ SaveFails
  BY <1>1, <1>5 DEF SaveRequested, Saving, SaveStarts, WriteBak, OpenMain, FillMain, LandSave,
                    SaveFails, Unsaved
<1>6. CASE Crash
  BY <1>6 DEF Crash, LostNotice
<1>7. CASE Start
  BY <1>2, <1>7 DEF Start
<1>8. CASE UNCHANGED vars
  BY <1>1, <1>8 DEF vars
<1> QED BY <1>3, <1>4, <1>5, <1>6, <1>7, <1>8, UserNotice, PollNotice, ScanNotice DEF Next

\* A change that the watcher saw and the library does not show yet stays
\* noticed, at whatever stage of the watcher, its build and the scan it is,
\* until one of the named losses takes it.
THEOREM NoticesStay == Spec => NoticeLostOnly
<1>1. SessionInv /\ [Next]_vars =>
          (\A p \in Paths : Stale(p) /\ Noticed(p) /\ Stale(p)' /\ files'[p] = files[p] =>
              \/ Noticed(p)'
              \/ build'.pc \notin {build.pc, "none"}
              \/ p \in suppressed \ suppressed'
              \/ scan.pc = "waiting" /\ scan.stale
              \/ scan.pc = "walk" /\ scan.stop /\ p \in scan.left
              \/ \E id \in StoredAt(p) : scan.pc = "done" /\ id \in side.removed \cup side.touched
              \/ ~live'.open)
  BY NoticeKept, Zenon DEF LostNotice
<1> QED BY <1>1, LibraryInvariant, PTL DEF Spec, NoticeLostOnly
================================================================================

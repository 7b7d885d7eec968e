---------------------------- MODULE CatalogJournal ----------------------------
(***************************************************************************)
(* cr-engine/src/incoming_transaction.rs, the IncomingTransaction half,    *)
(* and the callers that drive it: adoption and its undo                    *)
(* (cr-ui/src/browser/shell.rs, IncomingOrganizerEffects) and discard      *)
(* (cr-ui/src/library.rs, discard_incoming_async).                         *)
(*                                                                         *)
(* A run moves or deletes book files one at a time.  Around every file     *)
(* operation it rewrites a journal holding the planned actions and the     *)
(* after-images of the catalogs; at the end the images are installed.  The *)
(* images live in content-addressed sidecars that the journal names.       *)
(*                                                                         *)
(* A book has one file, at its Incoming path ("source") or at its Library  *)
(* path ("destination").  A record in IncomingDb.xml names the first, one  *)
(* in ComicDb.xml the second.  The Library path may hold another copy with *)
(* a record of its own, which an adoption that overwrites deletes first.   *)
(***************************************************************************)
EXTENDS Naturals, FiniteSets

CONSTANTS
    Books,
    NoJournal,      \* no current.json on disk
    Kinds,          \* the transaction kinds the runs may have
    Failures,       \* the phases whose durable writes may fail (see Fails)
    MaxRuns,        \* bound on the runs of a behaviour
    MaxFaults       \* bound on crashes and failed writes together

Places == {"source", "destination", "gone"}

\* ComicDb.xml: the books it lists, and the other copies it lists, each named by
\* the book whose Library path it occupies.
Databases == [books : SUBSET Books, copies : SUBSET Books]

\* The catalogs and the undo log that a transaction's snapshots hold.
Images == [incoming : SUBSET Books, database : Databases, log : SUBSET Books]

\* An action that failed was popped from the list.
Statuses == {"None", "Pending", "Applied", "Failed"}
Stages == {"Prepared", "ExternalApplied", "DestinationSaved", "SourceSaved",
           "AuxiliarySaved", "Committed"}

\* external_actions, as the status of each book's deletion and renaming.
Transactions == [run : 1..MaxRuns, kind : {"Adoption", "Undo", "Discard"},
                 stage : Stages,
                 deletes : [Books -> Statuses], renames : [Books -> Statuses],
                 before : Images, after : Images]

Blobs == [catalog : {"incoming"}, content : SUBSET Books]
            \cup [catalog : {"database"}, content : Databases]
            \cup [catalog : {"log"}, content : SUBSET Books]

ASSUME ConstantsAssumption ==
    /\ Kinds \subseteq {"Adoption", "Undo", "Discard"}
    /\ Failures \subseteq {"action", "commit", "cleanup"}
    /\ MaxRuns \in Nat \ {0} /\ MaxFaults \in Nat
    /\ NoJournal \notin Transactions

VARIABLES
    at,             \* [Books -> Places]: where a book's file is
    copies,         \* other copies on disk, at the Library path of a book
    incomingDb,     \* books listed by IncomingDb.xml
    comicDb,        \* ComicDb.xml
    undoLog,        \* adopted books undo.dat can move back
    sidecars,       \* blobs on disk
    journal,        \* the transaction in current.json, or NoJournal
    session,        \* the open session's catalogs
    open,           \* a session is open
    tx,             \* the worker's transaction
    previous,       \* after-images to return to when a file operation fails
    report,         \* books whose renaming and whose deletion succeeded
    last,           \* the book of the last action
    pc, then,       \* the worker's step, and the one after the journal write
    stale,          \* blobs of the journal that is being replaced or removed
    runs, faults

files == <<at, copies>>
catalogs == <<incomingDb, comicDb, undoLog>>
disk == <<files, catalogs, sidecars, journal>>
ui == <<session, open>>
run == <<tx, previous, report, last>>
bounds == <<runs, faults>>
vars == <<disk, ui, run, pc, then, stale, bounds>>

(***************************************************************************)
(* Snapshots                                                               *)
(***************************************************************************)

BlobsOf(image, kind) ==
    {[catalog |-> "incoming", content |-> image.incoming]}
        \cup IF kind = "Discard" THEN {}
             ELSE {[catalog |-> "database", content |-> image.database],
                   [catalog |-> "log", content |-> image.log]}

\* referenced_snapshot_digests
References(t) == BlobsOf(t.before, t.kind) \cup BlobsOf(t.after, t.kind)
JournalReferences == IF journal = NoJournal THEN {} ELSE References(journal)

(***************************************************************************)
(* write_journal: store the blobs, replace current.json, then remove what  *)
(* only the replaced journal referenced.                                   *)
(***************************************************************************)

Write(t, next) == tx' = t /\ then' = next /\ pc' = "store"

StoreBlobs ==
    /\ pc = "store"
    /\ stale' = JournalReferences
    /\ sidecars' = sidecars \cup References(tx)
    /\ pc' = "replace"
    /\ UNCHANGED <<files, catalogs, journal, ui, run, then, bounds>>

ReplaceJournal ==
    /\ pc = "replace"
    /\ journal' = tx
    /\ pc' = "drop"
    /\ UNCHANGED <<files, catalogs, sidecars, ui, run, then, stale, bounds>>

\* Mutant of DropStale: blobs that the new journal shares are removed as well.
DropShared ==
    /\ pc = "drop"
    /\ sidecars' = sidecars \ stale
    /\ pc' = then
    /\ UNCHANGED <<files, catalogs, journal, ui, run, then, stale, bounds>>

DropStale ==
    /\ pc = "drop"
    /\ sidecars' = sidecars \ (stale \ JournalReferences)
    /\ pc' = then
    /\ UNCHANGED <<files, catalogs, journal, ui, run, then, stale, bounds>>

(***************************************************************************)
(* A run                                                                   *)
(***************************************************************************)

Live == [incoming |-> session.incoming, database |-> session.database, log |-> undoLog]

NewTransaction(kind) ==
    [run |-> runs + 1, kind |-> kind, stage |-> "Prepared",
     deletes |-> [b \in Books |-> "None"], renames |-> [b \in Books |-> "None"],
     before |-> Live, after |-> Live]

\* The run copies the session's catalogs.  Discard writes its journal at once,
\* where begin refuses an existing one; adoption and undo write theirs with their
\* first action and take over a journal that is there.
Begin(kind) ==
    /\ pc = "idle"
    /\ runs < MaxRuns
    /\ kind = "Discard" => journal = NoJournal
    /\ kind = "Undo" => undoLog # {}
    /\ IF kind = "Discard" THEN Write(NewTransaction(kind), "ready")
       ELSE tx' = NewTransaction(kind) /\ pc' = "ready" /\ UNCHANGED then
    /\ report' = [renamed |-> {}, deleted |-> {}]
    /\ runs' = runs + 1
    /\ UNCHANGED <<disk, ui, previous, last, stale, faults>>

\* before_rename moves the record between the images and before_delete drops the
\* copy's; discard keeps the record in its image until the file is gone.
MoveRecords(image, kind, moved) ==
    CASE kind = "Adoption" ->
            [image EXCEPT !.incoming = @ \ moved, !.database.books = @ \cup moved]
      [] kind = "Undo" ->
            [image EXCEPT !.incoming = @ \cup moved, !.database.books = @ \ moved]
      [] kind = "Discard" -> image

\* Mutant of DropCopies: before_delete keeps the record of the overwritten copy.
KeepCopies(image, kind, dropped) == image

DropCopies(image, kind, dropped) ==
    IF kind = "Discard" THEN image
    ELSE [image EXCEPT !.database.copies = @ \ dropped]

\* A rename of the kind's direction, and whether its two paths hold a file.
From(kind) == IF kind = "Undo" THEN "destination" ELSE "source"
To(kind) == IF kind = "Undo" THEN "source" ELSE "destination"
PathExists(b, place) == at[b] = place \/ (place = "destination" /\ b \in copies)
FromExists(b) == PathExists(b, From(tx.kind))
ToExists(b) == PathExists(b, To(tx.kind))
CanRename(b) == FromExists(b) /\ ~ToExists(b)
Renamed(b) == [at EXCEPT ![b] = To(tx.kind)]

\* The file a deletion is for: the Incoming file, or the copy to overwrite.
DeletedExists(b) == IF tx.kind = "Discard" THEN at[b] = "source" ELSE b \in copies
DeleteFile(b) ==
    IF tx.kind = "Discard"
    THEN at' = [at EXCEPT ![b] = IF @ = "source" THEN "gone" ELSE @] /\ UNCHANGED copies
    ELSE copies' = copies \ {b} /\ UNCHANGED at

RenamePending(b) == tx.renames[b] = "Pending"
DeletePending(b) == tx.deletes[b] = "Pending"
SomePending == \E b \in Books : RenamePending(b) \/ DeletePending(b)

\* before_rename / before_delete, and the first half of discard's loop body.
PrepareRename(b) ==
    /\ pc = "ready"
    /\ tx.renames[b] = "None"
    /\ \/ tx.kind = "Adoption" /\ b \in tx.before.incoming \ tx.before.database.books
       \/ tx.kind = "Undo" /\ b \in undoLog \cap tx.before.database.books
    /\ tx.deletes[b] = "None" \/ b \in report.deleted
    /\ CanRename(b)
    /\ previous' = tx.after
    /\ last' = b
    /\ Write([tx EXCEPT !.renames[b] = "Pending",
                        !.after = MoveRecords(@, tx.kind, {b})], "act")
    /\ UNCHANGED <<disk, ui, report, stale, bounds>>

PrepareDelete(b) ==
    /\ pc = "ready"
    /\ tx.kind # "Undo"
    /\ tx.deletes[b] = "None"
    /\ b \in tx.before.incoming
    /\ DeletedExists(b)
    /\ previous' = tx.after
    /\ last' = b
    /\ Write([tx EXCEPT !.deletes[b] = "Pending",
                        !.after = DropCopies(@, tx.kind, {b})], "act")
    /\ UNCHANGED <<disk, ui, report, stale, bounds>>

\* fs::rename, and trash_file or a permanent deletion.
Rename ==
    /\ pc = "act"
    /\ RenamePending(last)
    /\ CanRename(last)
    /\ at' = Renamed(last)
    /\ pc' = "acted"
    /\ UNCHANGED <<copies, catalogs, sidecars, journal, ui, run, then, stale, bounds>>

Delete ==
    /\ pc = "act"
    /\ ~RenamePending(last)
    /\ DeleteFile(last)
    /\ pc' = "acted"
    /\ UNCHANGED <<catalogs, sidecars, journal, ui, run, then, stale, bounds>>

LastBecomes(status) ==
    IF RenamePending(last) THEN [tx EXCEPT !.renames[last] = status]
                           ELSE [tx EXCEPT !.deletes[last] = status]

\* mark_last(true), and the operation is reported; discard takes the book out of
\* its image only now.
MarkApplied ==
    /\ pc = "acted"
    /\ report' = IF RenamePending(last) THEN [report EXCEPT !.renamed = @ \cup {last}]
                                        ELSE [report EXCEPT !.deleted = @ \cup {last}]
    /\ Write([LastBecomes("Applied") EXCEPT
                !.after.incoming = IF tx.kind = "Discard" THEN @ \ {last} ELSE @], "ready")
    /\ UNCHANGED <<disk, ui, previous, last, stale, bounds>>

\* The operation failed.  mark_last(false): the action is popped and the images
\* are put back.
MarkFailed ==
    /\ pc = "act"
    /\ Write([LastBecomes("Failed") EXCEPT !.after = previous], "ready")
    /\ UNCHANGED <<disk, ui, previous, report, last, stale, bounds>>

\* The images of IncomingOrganizerEffects::finish, from the run's report; discard
\* commits with the images it has.
Reported ==
    LET image == DropCopies(MoveRecords(tx.before, tx.kind, report.renamed),
                            tx.kind, report.deleted)
    IN  CASE tx.kind = "Adoption" /\ report.renamed # {} ->
                [image EXCEPT !.log = report.renamed]
          [] tx.kind = "Undo" -> [image EXCEPT !.log = @ \ report.renamed]
          [] OTHER -> image

FinishLoop ==
    /\ pc = "ready"
    /\ IF tx.kind = "Discard" THEN pc' = "commit" /\ UNCHANGED <<tx, then>>
       ELSE Write([tx EXCEPT !.after = Reported], "commit")
    /\ UNCHANGED <<disk, ui, previous, report, last, stale, bounds>>

(***************************************************************************)
(* commit and install_after_images                                         *)
(***************************************************************************)

Commit ==
    /\ pc = "commit"
    /\ Write(tx, "apply")
    /\ UNCHANGED <<disk, ui, previous, report, last, stale, bounds>>

\* apply_external_actions carries out whatever is still Pending.  Its conflict, when
\* the paths changed since before_rename, needs another program.
ApplyRename(b) ==
    /\ pc = "apply"
    /\ RenamePending(b)
    /\ CanRename(b)
    /\ at' = Renamed(b)
    /\ Write([tx EXCEPT !.renames[b] = "Applied"], "apply")
    /\ UNCHANGED <<copies, catalogs, sidecars, journal, ui, previous, report, last,
                   stale, bounds>>

ApplyDelete(b) ==
    /\ pc = "apply"
    /\ DeletePending(b)
    /\ DeleteFile(b)
    /\ Write([tx EXCEPT !.deletes[b] = "Applied"], "apply")
    /\ UNCHANGED <<catalogs, sidecars, journal, ui, previous, report, last, stale, bounds>>

AllApplied ==
    /\ pc = "apply"
    /\ ~SomePending
    /\ Write([tx EXCEPT !.stage = "ExternalApplied"], "install")
    /\ UNCHANGED <<disk, ui, previous, report, last, stale, bounds>>

\* Mutant of LibraryFirst: the source catalog is saved before the destination.
SourceFirst == tx.kind # "Adoption"

\* catalog_order: adoption saves the library first, the others Incoming first.
LibraryFirst == tx.kind = "Adoption"
SaveIncoming == incomingDb' = tx.after.incoming /\ UNCHANGED comicDb
SaveLibrary ==
    /\ comicDb' = IF tx.kind = "Discard" THEN comicDb ELSE tx.after.database
    /\ UNCHANGED incomingDb

\* install_after_images installs all of it whatever stage it starts from.
InstallDestination ==
    /\ pc = "install" /\ tx.stage = "ExternalApplied"
    /\ IF LibraryFirst THEN SaveLibrary ELSE SaveIncoming
    /\ Write([tx EXCEPT !.stage = "DestinationSaved"], "install")
    /\ UNCHANGED <<files, undoLog, sidecars, journal, ui, previous, report, last,
                   stale, bounds>>

InstallSource ==
    /\ pc = "install" /\ tx.stage = "DestinationSaved"
    /\ IF LibraryFirst THEN SaveIncoming ELSE SaveLibrary
    /\ Write([tx EXCEPT !.stage = "SourceSaved"], "install")
    /\ UNCHANGED <<files, undoLog, sidecars, journal, ui, previous, report, last,
                   stale, bounds>>

InstallAuxiliary ==
    /\ pc = "install" /\ tx.stage = "SourceSaved"
    /\ undoLog' = IF tx.kind = "Discard" THEN undoLog ELSE tx.after.log
    /\ Write([tx EXCEPT !.stage = "AuxiliarySaved"], "install")
    /\ UNCHANGED <<files, incomingDb, comicDb, sidecars, journal, ui, previous, report,
                   last, stale, bounds>>

WriteCommitted ==
    /\ pc = "install" /\ tx.stage = "AuxiliarySaved"
    /\ Write([tx EXCEPT !.stage = "Committed"], "remove")
    /\ UNCHANGED <<disk, ui, previous, report, last, stale, bounds>>

\* remove_journal_and_sidecars: the journal first, then what it referenced.
RemoveJournal ==
    /\ pc = "remove"
    /\ stale' = JournalReferences
    /\ journal' = NoJournal
    /\ pc' = "sweep"
    /\ UNCHANGED <<files, catalogs, sidecars, ui, run, then, bounds>>

SweepSidecars ==
    /\ pc = "sweep"
    /\ sidecars' = sidecars \ stale
    /\ pc' = "land"
    /\ UNCHANGED <<files, catalogs, journal, ui, run, then, stale, bounds>>

\* Landing on the main thread: the run's catalogs become the session's.  A
\* startup loads the catalogs from disk.
Land ==
    /\ pc = "land"
    /\ session' = IF ~open THEN [incoming |-> incomingDb, database |-> comicDb]
                  ELSE [incoming |-> tx.after.incoming,
                        database |-> IF tx.kind = "Discard" THEN session.database
                                     ELSE tx.after.database]
    /\ open' = TRUE
    /\ pc' = "idle"
    /\ UNCHANGED <<disk, run, then, stale, bounds>>
(***************************************************************************)
(* Startup: recover                                                        *)
(***************************************************************************)

\* load_bootstrap; a journal whose sidecars are missing cannot be read.
Startup ==
    /\ pc = "down"
    /\ JournalReferences \subseteq sidecars
    /\ tx' = IF journal = NoJournal THEN tx ELSE journal
    /\ pc' = IF journal = NoJournal THEN "land"
             ELSE IF journal.stage = "Committed" THEN "remove" ELSE "reconcile"
    /\ UNCHANGED <<disk, ui, previous, report, last, then, stale, bounds>>

\* Mutants of ReconcileRename: the rename is taken for done; a rename that was done
\* is refused.
AssumeRenamed(b) ==
    /\ pc = "reconcile"
    /\ RenamePending(b)
    /\ tx' = [tx EXCEPT !.renames[b] = "Applied"]
    /\ UNCHANGED <<disk, ui, previous, report, last, pc, then, stale, bounds>>
RefuseRenamed(b) ==
    /\ pc = "reconcile"
    /\ RenamePending(b)
    /\ IF CanRename(b)
       THEN at' = Renamed(b) /\ tx' = [tx EXCEPT !.renames[b] = "Applied"] /\ pc' = pc
       ELSE pc' = "down" /\ UNCHANGED <<at, tx>>
    /\ UNCHANGED <<copies, catalogs, sidecars, journal, ui, previous, report, last,
                   then, stale, bounds>>

\* reconcile_external_actions: a pending rename is completed, or found done; a
\* pending delete is never repeated.
ReconcileRename(b) ==
    /\ pc = "reconcile"
    /\ RenamePending(b)
    /\ FromExists(b) # ToExists(b)
    /\ at' = IF CanRename(b) THEN Renamed(b) ELSE at
    /\ tx' = [tx EXCEPT !.renames[b] = "Applied"]
    /\ UNCHANGED <<copies, catalogs, sidecars, journal, ui, previous, report, last,
                   pc, then, stale, bounds>>

\* Mutant of ReconcileDelete: the deletion is carried out again.
RepeatDelete(b) ==
    /\ pc = "reconcile"
    /\ DeletePending(b)
    /\ DeleteFile(b)
    /\ tx' = [tx EXCEPT !.deletes[b] = "Applied"]
    /\ UNCHANGED <<catalogs, sidecars, journal, ui, previous, report, last, pc, then,
                   stale, bounds>>

ReconcileDelete(b) ==
    /\ pc = "reconcile"
    /\ DeletePending(b)
    /\ ~DeletedExists(b)
    /\ tx' = [tx EXCEPT !.deletes[b] = "Applied"]
    /\ UNCHANGED <<disk, ui, previous, report, last, pc, then, stale, bounds>>

\* Both paths of a rename or neither exist, or the file to delete is still there:
\* the startup fails and the journal stays.
ReconcileConflict ==
    /\ pc = "reconcile"
    /\ \E b \in Books : \/ RenamePending(b) /\ FromExists(b) = ToExists(b)
                        \/ DeletePending(b) /\ DeletedExists(b)
    /\ pc' = "down"
    /\ UNCHANGED <<disk, ui, run, then, stale, bounds>>

Reconciled ==
    /\ pc = "reconcile"
    /\ ~SomePending
    /\ Write(tx, "reconciled")
    /\ UNCHANGED <<disk, ui, previous, report, last, stale, bounds>>

RecordReconciled ==
    /\ pc = "reconciled"
    /\ Write([tx EXCEPT !.stage = "ExternalApplied"], "install")
    /\ UNCHANGED <<disk, ui, previous, report, last, stale, bounds>>

(***************************************************************************)
(* Failed writes, the end of a session, crashes                            *)
(***************************************************************************)

Writing == {"store", "replace", "drop"}
Toward(steps) == pc \in steps \/ (pc \in Writing /\ then \in steps)

\* A journal write around a file operation of the organizer fails: before_* or
\* after_* returns the error, the organizer reports the book as failed and goes
\* on; the action stays in the list.
ActionWriteFails ==
    /\ "action" \in Failures
    /\ faults < MaxFaults
    /\ pc \in Writing /\ then \in {"act", "ready"} /\ tx.kind # "Discard"
    /\ report' = IF then = "act" THEN report
                 ELSE IF last \in report.renamed THEN [report EXCEPT !.renamed = @ \ {last}]
                 ELSE [report EXCEPT !.deleted = @ \ {last}]
    /\ pc' = "ready"
    /\ faults' = faults + 1
    /\ UNCHANGED <<disk, ui, tx, previous, last, then, stale, runs>>

\* Any other durable write fails: the worker returns the error with the journal
\* as it is, the session goes on with the catalogs it has, a startup fails.
CommitFails ==
    /\ faults < MaxFaults
    /\ \/ /\ "commit" \in Failures
          /\ \/ Toward({"commit", "apply", "install", "reconciled"})
             \/ pc \in Writing /\ then \in {"act", "ready"} /\ tx.kind = "Discard"
       \/ /\ "cleanup" \in Failures
          /\ Toward({"remove", "sweep"})
    /\ pc' = IF open THEN "idle" ELSE "down"
    /\ faults' = faults + 1
    /\ UNCHANGED <<disk, ui, run, then, stale, runs>>

\* save_for_close_async writes the session's database, whatever is on disk.
Close ==
    /\ pc = "idle"
    /\ comicDb' = session.database
    /\ open' = FALSE
    /\ pc' = "down"
    /\ UNCHANGED <<files, incomingDb, undoLog, sidecars, journal, session, run, then,
                   stale, bounds>>

Crash ==
    /\ pc # "down"
    /\ faults < MaxFaults
    /\ pc' = "down"
    /\ open' = FALSE
    /\ faults' = faults + 1
    /\ UNCHANGED <<disk, session, run, then, stale, runs>>

(***************************************************************************)
(* Specification                                                           *)
(***************************************************************************)

\* Some books wait in Incoming, the others were adopted and can be undone; some
\* that wait have a copy at their Library path.
Init ==
    /\ \E waiting \in SUBSET Books :
          /\ at = [b \in Books |-> IF b \in waiting THEN "source" ELSE "destination"]
          /\ incomingDb = waiting
          /\ undoLog = Books \ waiting
          /\ copies \in SUBSET waiting
    /\ comicDb = [books |-> Books \ incomingDb, copies |-> copies]
    /\ sidecars = {} /\ journal = NoJournal
    /\ session = [incoming |-> incomingDb, database |-> comicDb]
    /\ open = TRUE
    /\ runs = 0 /\ faults = 0
    /\ tx = NewTransaction("Adoption")
    /\ previous = Live
    /\ report = [renamed |-> {}, deleted |-> {}]
    /\ last \in Books
    /\ pc = "idle" /\ then = "idle"
    /\ stale = {}

RunStep ==
    \/ StoreBlobs \/ ReplaceJournal \/ DropStale
    \/ \E b \in Books : PrepareRename(b) \/ PrepareDelete(b)
    \/ Rename \/ Delete \/ MarkApplied \/ MarkFailed
    \/ FinishLoop \/ Commit
    \/ \E b \in Books : ApplyRename(b) \/ ApplyDelete(b)
    \/ AllApplied
    \/ InstallDestination \/ InstallSource \/ InstallAuxiliary \/ WriteCommitted
    \/ RemoveJournal \/ SweepSidecars \/ Land

Recovery ==
    \/ Startup
    \/ \E b \in Books : ReconcileRename(b) \/ ReconcileDelete(b)
    \/ ReconcileConflict \/ Reconciled \/ RecordReconciled

Progress == RunStep \/ Recovery \/ Close

Next ==
    \/ \E kind \in Kinds : Begin(kind)
    \/ Progress
    \/ ActionWriteFails \/ CommitFails \/ Crash

Spec == Init /\ [][Next]_vars

\* A worker runs to its end; sessions end and the program is started again.
FairSpec == Spec /\ WF_vars(Progress)

(***************************************************************************)
(* Properties                                                              *)
(***************************************************************************)

Steps == Writing \cup
    {"idle", "ready", "act", "acted", "commit", "apply", "install", "remove", "sweep",
     "land", "down", "reconcile", "reconciled"}

\* The types, and the control of the action list: without failed writes an action
\* is Pending only from its journal write to the outcome's, and no transaction
\* whose catalogs are being installed has a Pending action.
TypeOK ==
    /\ at \in [Books -> Places] /\ copies \subseteq Books
    /\ incomingDb \subseteq Books /\ comicDb \in Databases /\ undoLog \subseteq Books
    /\ session \in [incoming : SUBSET Books, database : Databases]
    /\ sidecars \subseteq Blobs /\ stale \subseteq Blobs
    /\ tx \in Transactions /\ previous \in Images /\ last \in Books
    /\ report \in [renamed : SUBSET Books, deleted : SUBSET Books]
    /\ journal = NoJournal \/ journal \in Transactions
    /\ pc \in Steps /\ then \in Steps \ Writing
    /\ open \in BOOLEAN
    /\ runs \in 0..MaxRuns /\ faults \in 0..MaxFaults
    /\ Toward({"install", "remove"}) => ~SomePending
    /\ pc = "ready" /\ "action" \notin Failures => ~SomePending

\* Whatever the journal on disk is, every sidecar it names is on disk: a crash or
\* a failure between any two steps of write_journal or remove_journal_and_sidecars
\* leaves a journal that the startup can read, though blobs are shared between the
\* images of one journal and between successive journals, also of two runs.
JournalLoadable == JournalReferences \subseteq sidecars

\* No order of catalog installations and crashes loses a record: at every moment
\* a book whose file exists is listed by one of the two catalogs on disk, and a
\* Library copy by ComicDb.xml (catalog_order: the destination catalog first).
RecordNeverLost ==
    /\ \A b \in Books : at[b] # "gone" => b \in incomingDb \cup comicDb.books
    /\ copies \subseteq comicDb.copies

Settled == pc = "idle" /\ journal = NoJournal

\* When a run has ended and left no journal, the catalogs on disk list exactly the
\* files there are, each at its path, and the session shows what is on disk:
\* failed operations, crashes and recoveries in between do not matter.
CatalogsMatchFiles ==
    Settled => /\ incomingDb = {b \in Books : at[b] = "source"}
               /\ comicDb.books = {b \in Books : at[b] = "destination"}
               /\ comicDb.copies = copies
               /\ session = [incoming |-> incomingDb, database |-> comicDb]

\* A catalog on disk gains a record only when the file it names is at its path:
\* the after-images are installed after the files have moved.
RecordsFollowFiles ==
    [][/\ \A b \in incomingDb' \ incomingDb : at[b] = "source"
       /\ \A b \in comicDb'.books \ comicDb.books : at[b] = "destination"]_vars

\* A run implements the transfer: whatever crashes and recoveries come between, each
\* file moves while only the catalog it leaves lists it, each catalog written takes
\* the records of files that have come and drops those of files that have gone.
Transfer == INSTANCE CatalogTransfer
                WITH file <- at, incoming <- incomingDb, library <- comicDb
RecordsMoveInOrder == Transfer!TransferSpec

\* Recovery never removes a file: while no session is open no file and no copy
\* disappears, so a deletion interrupted by a crash is not repeated.
RecoveryTakesNothing ==
    [][~open => /\ \A b \in Books : at[b] # "gone" => at'[b] # "gone"
                /\ copies \subseteq copies']_vars

\* "Failed and skipped books remain Incoming", and a failed deletion keeps the
\* record: a settled IncomingDb.xml lists no book whose file is not there.
IncomingFilesExist == Settled => \A b \in incomingDb : at[b] = "source"

\* "A successful move transfers the same complete record and ID into the main
\* library": the file of a settled book is not in the Library without a record.
MovedBooksHaveRecords ==
    Settled => \A b \in Books : at[b] = "destination" => b \in comicDb.books

\* A crash is recovered from: a program that is started again gets rid of the
\* journal, unless that waits for a file whose deletion was never carried out.
Unfinished == \E b \in Books : journal.deletes[b] = "Pending" /\
                 IF journal.kind = "Discard" THEN at[b] = "source" ELSE b \in copies
StartupRecovers ==
    (pc = "down" /\ journal # NoJournal /\ ~Unfinished) ~> (journal = NoJournal)

(***************************************************************************)
(* Inductive invariants                                                    *)
(***************************************************************************)

\* A journal write returns to a step that does not depend on what it wrote.
AfterWrite == Steps \ (Writing \cup {"sweep", "down", "idle", "acted", "land", "reconcile"})

\* What makes a journal loadable: the blobs are there before the journal names
\* them, and are removed only when no journal does.
SidecarInv ==
    /\ JournalLoadable
    /\ pc = "replace" => References(tx) \subseteq sidecars
    /\ pc = "sweep" => journal = NoJournal
    /\ pc \in Writing => then \in AfterWrite

===============================================================================

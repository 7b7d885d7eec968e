------------------------- MODULE CatalogJournalProofs -------------------------
(***************************************************************************)
(* Proofs about CatalogJournal, for any set of books, any mix of runs and  *)
(* any number of crashes and failed writes.                                *)
(***************************************************************************)
EXTENDS CatalogJournal, TLAPS

\* The order of write_journal and remove_journal_and_sidecars is what the
\* invariant rests on: every other step leaves the journal and sidecars alone.
LEMMA SidecarStep == SidecarInv /\ [Next]_vars => SidecarInv'
<1> SUFFICES ASSUME SidecarInv, [Next]_vars PROVE SidecarInv'
  OBVIOUS
<1> USE DEF SidecarInv, JournalLoadable, Writing, AfterWrite, Steps
<1>1. ASSUME StoreBlobs PROVE SidecarInv'
  BY <1>1 DEF StoreBlobs, JournalReferences, References, run
<1>2. ASSUME ReplaceJournal PROVE SidecarInv'
  BY <1>2 DEF ReplaceJournal, JournalReferences
<1>3. ASSUME DropStale PROVE SidecarInv'
  BY <1>3 DEF DropStale, JournalReferences
<1>4. ASSUME SweepSidecars PROVE SidecarInv'
  BY <1>4 DEF SweepSidecars, JournalReferences
<1>5. ASSUME RemoveJournal PROVE SidecarInv'
  BY <1>5 DEF RemoveJournal, JournalReferences
<1>6. ASSUME UNCHANGED <<sidecars, journal>>,
             \/ pc' \notin {"replace", "sweep", "drop", "store"}
             \/ pc' = "store" /\ then' \in AfterWrite
             \/ UNCHANGED <<pc, then, tx>>
      PROVE  SidecarInv'
  BY <1>6 DEF JournalReferences
<1>7. ASSUME NEW kind \in Kinds, Begin(kind) PROVE SidecarInv'
  BY <1>7, <1>6 DEF Begin, Write, disk
<1>8. ASSUME NEW b \in Books,
             PrepareRename(b) \/ PrepareDelete(b) \/ ApplyRename(b) \/ ApplyDelete(b)
      PROVE  SidecarInv'
  BY <1>8, <1>6 DEF PrepareRename, PrepareDelete, ApplyRename, ApplyDelete, Write, disk
<1>9. ASSUME \/ Rename \/ Delete \/ MarkApplied \/ MarkFailed
             \/ FinishLoop \/ Commit \/ AllApplied
      PROVE  SidecarInv'
  BY <1>9, <1>6 DEF Rename, Delete, MarkApplied, MarkFailed, FinishLoop, Commit,
                    AllApplied, Write, disk
<1>10. ASSUME \/ InstallDestination \/ InstallSource \/ InstallAuxiliary
              \/ WriteCommitted \/ Land
       PROVE  SidecarInv'
  BY <1>10, <1>6 DEF InstallDestination, InstallSource, InstallAuxiliary,
                     WriteCommitted, Land, Write, disk
<1>11. ASSUME NEW b \in Books, ReconcileRename(b) \/ ReconcileDelete(b)
       PROVE  SidecarInv'
  BY <1>11, <1>6 DEF ReconcileRename, ReconcileDelete, disk
<1>12. ASSUME Startup \/ ReconcileConflict \/ Reconciled \/ RecordReconciled
       PROVE  SidecarInv'
  BY <1>12, <1>6 DEF Startup, ReconcileConflict, Reconciled, RecordReconciled, Write, disk
<1>13. ASSUME ActionWriteFails \/ CommitFails \/ Close \/ Crash PROVE SidecarInv'
  BY <1>13, <1>6 DEF ActionWriteFails, CommitFails, Close, Crash, disk
<1>14. ASSUME UNCHANGED vars PROVE SidecarInv'
  BY <1>14, <1>6 DEF vars, disk, run
<1> QED
  BY <1>1, <1>2, <1>3, <1>4, <1>5, <1>7, <1>8, <1>9, <1>10, <1>11, <1>12, <1>13, <1>14
     DEF Next, Progress, RunStep, Recovery

\* Every sidecar the journal on disk names is on disk, whatever crashes and fails
\* (write_journal, remove_journal_and_sidecars).
THEOREM JournalIsLoadable == Spec => []JournalLoadable
<1>1. Init => SidecarInv
  BY DEF Init, SidecarInv, JournalLoadable, JournalReferences, Writing
<1>2. SidecarInv => JournalLoadable
  BY DEF SidecarInv
<1> QED
  BY <1>1, <1>2, SidecarStep, PTL DEF Spec

\* The steps that delete files belong to an open session, and so does the step
\* from which a run begins.
SessionSteps == {"idle", "ready", "act", "acted", "commit", "apply"}
DeletionInv ==
    /\ at \in [Books -> Places]
    /\ ~open => pc \notin SessionSteps
    /\ ~open /\ pc \in Writing => then \notin SessionSteps

LEMMA RenamedType ==
    ASSUME NEW b, at \in [Books -> Places]
    PROVE  /\ Renamed(b) \in [Books -> Places]
           /\ \A c \in Books : Renamed(b)[c] # "gone" \/ Renamed(b)[c] = at[c]
BY DEF Renamed, To, Places

LEMMA DeletionStep == SidecarInv /\ DeletionInv /\ [Next]_vars => DeletionInv'
<1> SUFFICES ASSUME SidecarInv, DeletionInv, [Next]_vars PROVE DeletionInv'
  OBVIOUS
<1>0. at \in [Books -> Places] /\ (pc \in Writing => then \in AfterWrite)
  BY DEF DeletionInv, SidecarInv
<1> USE DEF DeletionInv, Writing, SessionSteps
<1>1. CASE at' = at
  <2>1. ASSUME open, open' PROVE DeletionInv'
    BY <1>1, <2>1
  <2>2. CASE StoreBlobs \/ ReplaceJournal
    BY <1>1, <2>2 DEF StoreBlobs, ReplaceJournal, ui, run
  <2>3. CASE DropStale \/ RemoveJournal \/ SweepSidecars \/ Land
    BY <1>0, <1>1, <2>3 DEF DropStale, RemoveJournal, SweepSidecars, Land, ui, run, AfterWrite
  <2>4. CASE \E kind \in Kinds : Begin(kind)
    BY <2>1, <2>4 DEF Begin, ui
  <2>5. CASE \E b \in Books : PrepareRename(b) \/ PrepareDelete(b) \/ ApplyRename(b)
                              \/ ApplyDelete(b)
    BY <2>1, <2>5 DEF PrepareRename, PrepareDelete, ApplyRename, ApplyDelete, ui
  <2>6. CASE Rename \/ Delete \/ MarkApplied \/ MarkFailed \/ FinishLoop \/ Commit \/ AllApplied
    BY <2>1, <2>6 DEF Rename, Delete, MarkApplied, MarkFailed, FinishLoop, Commit, AllApplied, ui
  <2>7. CASE InstallDestination \/ InstallSource \/ InstallAuxiliary \/ WriteCommitted
    BY <1>1, <2>7 DEF InstallDestination, InstallSource, InstallAuxiliary, WriteCommitted,
                      Write, ui
  <2>8. CASE Startup \/ ReconcileConflict \/ Reconciled \/ RecordReconciled
    BY <1>1, <2>8 DEF Startup, ReconcileConflict, Reconciled, RecordReconciled, Write, ui, run
  <2>9. CASE \E b \in Books : ReconcileRename(b) \/ ReconcileDelete(b)
    BY <1>1, <2>9 DEF ReconcileRename, ReconcileDelete, ui
  <2>10. CASE ActionWriteFails \/ CommitFails \/ Close \/ Crash
    BY <1>1, <2>10 DEF ActionWriteFails, CommitFails, Close, Crash, ui, run
  <2>11. CASE UNCHANGED vars
    BY <1>1, <2>11 DEF vars, ui, run
  <2> QED BY <2>2, <2>3, <2>4, <2>5, <2>6, <2>7, <2>8, <2>9, <2>10, <2>11
             DEF Next, Progress, RunStep, Recovery
<1>2. CASE at' # at
  <2>1. CASE \E b \in Books : ReconcileRename(b)
    <3>1. PICK b \in Books : ReconcileRename(b)
      BY <2>1
    <3>2. at' \in [Books -> Places]
      BY <1>0, <3>1, RenamedType DEF ReconcileRename
    <3> QED BY <3>1, <3>2 DEF ReconcileRename, ui
  <2>2. CASE open /\ open' /\ at' \in [Books -> Places]
    BY <2>2
  <2>3. ASSUME NEW b, DeleteFile(b) PROVE at' \in [Books -> Places]
    BY <1>0, <2>3 DEF DeleteFile, Places
  <2>4. CASE \E b \in Books : ApplyRename(b) \/ ApplyDelete(b)
    BY <1>0, <2>2, <2>3, <2>4, RenamedType DEF ApplyRename, ApplyDelete, ui
  <2>5. CASE Rename \/ Delete
    BY <1>0, <2>2, <2>3, <2>5, RenamedType DEF Rename, Delete, ui
  <2> QED BY <1>2, <2>1, <2>4, <2>5
          DEF Next, Progress, RunStep, Recovery, vars, disk, files, Begin, StoreBlobs,
              ReplaceJournal, DropStale, PrepareRename, PrepareDelete, MarkApplied, MarkFailed,
              FinishLoop, Commit, AllApplied, InstallDestination, InstallSource,
              InstallAuxiliary, WriteCommitted, RemoveJournal, SweepSidecars, Land, Startup,
              ReconcileDelete, ReconcileConflict, Reconciled, RecordReconciled,
              ActionWriteFails, CommitFails, Close, Crash
<1> QED BY <1>1, <1>2

\* While no session is open no step removes a book's file or a copy: an
\* interrupted deletion is not repeated.
THEOREM RecoveryDeletesNothing == Spec => RecoveryTakesNothing
<1>1. Init => SidecarInv /\ DeletionInv
  BY DEF Init, SidecarInv, JournalLoadable, JournalReferences, Writing, DeletionInv, Places,
         SessionSteps
<1>2. SidecarInv /\ [Next]_vars => SidecarInv'
  BY SidecarStep
<1>3. SidecarInv /\ DeletionInv /\ [Next]_vars => DeletionInv'
  BY DeletionStep
<1>4. SidecarInv /\ DeletionInv /\ [Next]_vars
      => (~open => /\ \A b \in Books : at[b] # "gone" => at'[b] # "gone"
                   /\ copies \subseteq copies')
  <2> SUFFICES ASSUME SidecarInv, DeletionInv, [Next]_vars, ~open
               PROVE  /\ \A b \in Books : at[b] # "gone" => at'[b] # "gone"
                      /\ copies \subseteq copies'
    OBVIOUS
  <2>1. at \in [Books -> Places] /\ pc \notin {"ready", "act", "acted", "commit", "apply"}
    BY DEF DeletionInv, SessionSteps
  <2>2. CASE \E b \in Books : ReconcileRename(b)
    BY <2>1, <2>2, RenamedType DEF ReconcileRename
  <2>3. CASE ~\E b \in Books : ReconcileRename(b)
    <3>1. UNCHANGED <<at, copies>>
      BY <2>1, <2>3
         DEF Next, Progress, RunStep, Recovery, vars, disk, files, Begin, StoreBlobs,
             ReplaceJournal, DropStale, PrepareRename, PrepareDelete, Rename, Delete, MarkApplied,
             MarkFailed, FinishLoop, Commit, ApplyRename, ApplyDelete, AllApplied,
             InstallDestination, InstallSource, InstallAuxiliary, WriteCommitted, RemoveJournal,
             SweepSidecars, Land, Startup, ReconcileDelete, ReconcileConflict, Reconciled,
             RecordReconciled, ActionWriteFails, CommitFails, Close, Crash
    <3> QED BY <3>1
  <2> QED BY <2>2, <2>3
<1> QED BY <1>1, <1>2, <1>3, <1>4, PTL DEF Spec, RecoveryTakesNothing

(***************************************************************************)
(* Types, and the control of the action list.                              *)
(***************************************************************************)

\* An action that was settled is not Pending any more.
NoPending(t) == \A b \in Books : t.renames[b] # "Pending" /\ t.deletes[b] # "Pending"

\* No action but the given book's is Pending, and of that book at most one is.
OnlyPending(t, book) ==
    /\ \A b \in Books \ {book} : t.renames[b] # "Pending" /\ t.deletes[b] # "Pending"
    /\ t.renames[book] # "Pending" \/ t.deletes[book] # "Pending"

Typed ==
    /\ at \in [Books -> Places] /\ copies \subseteq Books
    /\ incomingDb \subseteq Books /\ comicDb \in Databases /\ undoLog \subseteq Books
    /\ session \in [incoming : SUBSET Books, database : Databases]
    /\ sidecars \subseteq Blobs /\ stale \subseteq Blobs
    /\ tx \in Transactions /\ previous \in Images /\ last \in Books
    /\ report \in [renamed : SUBSET Books, deleted : SUBSET Books]
    /\ journal = NoJournal \/ journal \in Transactions
    /\ pc \in Steps /\ then \in Steps \ Writing
    /\ open \in BOOLEAN
    /\ runs \in 0..MaxRuns /\ faults \in 0..MaxFaults

\* A stage past Prepared has no Pending action, in the worker and on disk; without
\* failed writes only the action at hand is Pending.
StageInv ==
    /\ journal # NoJournal /\ journal.stage # "Prepared" => NoPending(journal)
    /\ pc = "reconcile" /\ tx.stage # "Prepared" => NoPending(tx)
    /\ Toward({"install", "remove", "reconciled"}) => NoPending(tx)
    /\ Toward({"ready", "act", "acted", "commit", "apply"}) => tx.stage = "Prepared"
    /\ "action" \notin Failures =>
          /\ Toward({"act", "acted"}) => OnlyPending(tx, last)
          /\ Toward({"ready"}) => NoPending(tx)

\* What a transaction is made of.
LEMMA TransactionParts ==
    ASSUME NEW t \in Transactions
    PROVE  /\ t.run \in 1..MaxRuns /\ t.kind \in {"Adoption", "Undo", "Discard"}
           /\ t.stage \in Stages
           /\ t.renames \in [Books -> Statuses] /\ t.deletes \in [Books -> Statuses]
           /\ t.before \in Images /\ t.after \in Images
BY DEF Transactions

LEMMA ImageParts ==
    ASSUME NEW image \in Images
    PROVE  /\ image.incoming \subseteq Books /\ image.log \subseteq Books
           /\ image.database \in Databases
           /\ image.database.books \subseteq Books /\ image.database.copies \subseteq Books
BY DEF Images, Databases

\* The image without the records of some books and copies is an image.
LEMMA MoveType ==
    ASSUME NEW image \in Images, NEW kind \in {"Adoption", "Undo", "Discard"},
           NEW moved \in SUBSET Books
    PROVE  /\ MoveRecords(image, kind, moved) \in Images
           /\ DropCopies(image, kind, moved) \in Images
<1>1. MoveRecords(image, "Adoption", moved) \in Images
  BY DEF MoveRecords, Images, Databases
<1>2. MoveRecords(image, "Undo", moved) \in Images
  BY DEF MoveRecords, Images, Databases
<1>3. MoveRecords(image, "Discard", moved) \in Images
  BY DEF MoveRecords
<1>4. DropCopies(image, kind, moved) \in Images
  BY DEF DropCopies, Images, Databases
<1> QED BY <1>1, <1>2, <1>3, <1>4

LEMMA ReportedType ==
    ASSUME tx \in Transactions, report \in [renamed : SUBSET Books, deleted : SUBSET Books]
    PROVE  Reported \in Images
<1> DEFINE image == DropCopies(MoveRecords(tx.before, tx.kind, report.renamed),
                               tx.kind, report.deleted)
<1>1. image \in Images
  BY TransactionParts, MoveType
<1>2. [image EXCEPT !.log = report.renamed] \in Images
      /\ [image EXCEPT !.log = @ \ report.renamed] \in Images
  BY <1>1 DEF Images
<1>3. Reported \in {image, [image EXCEPT !.log = report.renamed],
                    [image EXCEPT !.log = @ \ report.renamed]}
  <2> HIDE DEF image
  <2>1. Reported = CASE tx.kind = "Adoption" /\ report.renamed # {} ->
                          [image EXCEPT !.log = report.renamed]
                     [] tx.kind = "Undo" -> [image EXCEPT !.log = @ \ report.renamed]
                     [] OTHER -> image
    BY DEF Reported, image
  <2> QED BY <2>1
<1> QED BY <1>1, <1>2, <1>3

LEMMA ReferencesType ==
    ASSUME NEW t \in Transactions
    PROVE  References(t) \subseteq Blobs
<1>1. ASSUME NEW image \in Images PROVE BlobsOf(image, t.kind) \subseteq Blobs
  BY <1>1, ImageParts DEF BlobsOf, Blobs
<1> QED BY <1>1, TransactionParts DEF References

\* The new values an action writes into the transaction.
LEMMA SettledType ==
    ASSUME tx \in Transactions, last \in Books, NEW status \in Statuses
    PROVE  /\ LastBecomes(status) \in Transactions
           /\ LastBecomes(status).before = tx.before /\ LastBecomes(status).after = tx.after
           /\ LastBecomes(status).kind = tx.kind /\ LastBecomes(status).stage = tx.stage
           /\ RenamePending(last) =>
                 /\ LastBecomes(status).renames = [tx.renames EXCEPT ![last] = status]
                 /\ LastBecomes(status).deletes = tx.deletes
           /\ ~RenamePending(last) =>
                 /\ LastBecomes(status).deletes = [tx.deletes EXCEPT ![last] = status]
                 /\ LastBecomes(status).renames = tx.renames
<1>1. CASE RenamePending(last)
  BY <1>1 DEF LastBecomes, Transactions
<1>2. CASE ~RenamePending(last)
  BY <1>2 DEF LastBecomes, Transactions
<1> QED BY <1>1, <1>2

LEMMA DeletedType ==
    ASSUME NEW b \in Books, at \in [Books -> Places], copies \subseteq Books, DeleteFile(b)
    PROVE  at' \in [Books -> Places] /\ copies' \subseteq Books
BY DEF DeleteFile, Places

\* Every step keeps every variable in its set.
LEMMA TypedStep == Typed /\ SidecarInv /\ [Next]_vars => Typed'
<1> SUFFICES ASSUME Typed, SidecarInv, [Next]_vars PROVE Typed'
  OBVIOUS
<1> USE ConstantsAssumption DEF ConstantsAssumption, files, catalogs, disk, ui, run, bounds
<1>0. /\ tx \in Transactions /\ Live \in Images /\ last \in Books
      /\ report \in [renamed : SUBSET Books, deleted : SUBSET Books]
      /\ journal = NoJournal \/ journal \in Transactions
  BY DEF Typed, Live, Images
<1>a. JournalReferences \subseteq Blobs
  BY <1>0, ReferencesType DEF JournalReferences
<1>b. ASSUME NEW kind \in Kinds, runs < MaxRuns PROVE NewTransaction(kind) \in Transactions
  BY <1>0, <1>b DEF NewTransaction, Transactions, Stages, Statuses, Typed
<1>c. "store" \in Steps /\ {"ready", "act", "commit", "apply", "install", "remove", "reconciled"}
                             \subseteq Steps \ Writing
  BY DEF Steps, Writing
<1>1. CASE StoreBlobs \/ ReplaceJournal \/ DropStale \/ RemoveJournal \/ SweepSidecars
  <2>1. References(tx) \subseteq Blobs
    BY <1>0, ReferencesType
  <2>2. pc \in Writing => then \in Steps
    BY DEF SidecarInv, AfterWrite
  <2>3. {"replace", "drop", "sweep", "land"} \subseteq Steps
    BY DEF Steps, Writing
  <2>4. UNCHANGED <<at, copies, incomingDb, comicDb, undoLog, session, tx, previous, last,
                    report, then, open, runs, faults>>
    BY <1>1 DEF StoreBlobs, ReplaceJournal, DropStale, RemoveJournal, SweepSidecars
  <2>5. sidecars' \subseteq Blobs /\ stale' \subseteq Blobs
    BY <1>1, <1>a, <2>1
       DEF StoreBlobs, ReplaceJournal, DropStale, RemoveJournal, SweepSidecars, Typed
  <2>6. (journal' = NoJournal \/ journal' \in Transactions) /\ pc' \in Steps
    BY <1>0, <1>1, <2>2, <2>3
       DEF StoreBlobs, ReplaceJournal, DropStale, RemoveJournal, SweepSidecars, Writing
  <2> QED BY <2>4, <2>5, <2>6 DEF Typed
<1>2. ASSUME NEW kind \in Kinds, Begin(kind) PROVE Typed'
  <2>1. tx' \in Transactions
    BY <1>2, <1>b DEF Begin, Write
  <2>2. pc' \in Steps /\ then' \in Steps \ Writing
    BY <1>2, <1>c DEF Begin, Write, Typed
  <2>3. runs' \in 0..MaxRuns /\ report' \in [renamed : SUBSET Books, deleted : SUBSET Books]
    BY <1>2 DEF Begin, Typed
  <2> QED BY <1>2, <2>1, <2>2, <2>3 DEF Begin, Typed
<1>3. ASSUME NEW b \in Books, PrepareRename(b) \/ PrepareDelete(b) PROVE Typed'
  <2>1. CASE PrepareRename(b)
    <3>1. MoveRecords(tx.after, tx.kind, {b}) \in Images /\ tx.after \in Images
      BY <1>0, TransactionParts, MoveType
    <3>2. tx' \in Transactions
      BY <1>0, <2>1, <3>1 DEF PrepareRename, Write, Transactions, Statuses
    <3> QED BY <1>c, <2>1, <3>1, <3>2 DEF PrepareRename, Write, Typed
  <2>2. CASE PrepareDelete(b)
    <3>1. DropCopies(tx.after, tx.kind, {b}) \in Images /\ tx.after \in Images
      BY <1>0, TransactionParts, MoveType
    <3>2. tx' \in Transactions
      BY <1>0, <2>2, <3>1 DEF PrepareDelete, Write, Transactions, Statuses
    <3> QED BY <1>c, <2>2, <3>1, <3>2 DEF PrepareDelete, Write, Typed
  <2> QED BY <1>3, <2>1, <2>2
<1>4. CASE Rename \/ Delete
  <2>1. at' \in [Books -> Places] /\ copies' \subseteq Books
    BY <1>0, <1>4, RenamedType, DeletedType DEF Rename, Delete, Typed
  <2>2. "acted" \in Steps
    BY DEF Steps
  <2> QED BY <1>4, <2>1, <2>2 DEF Rename, Delete, Typed
<1>5. CASE MarkApplied \/ MarkFailed
  <2>1. \A s \in {"Applied", "Failed"} : LastBecomes(s) \in Transactions
    BY <1>0, SettledType DEF Statuses
  <2>2. tx' \in Transactions
    <3>1. CASE MarkApplied
      <4> DEFINE settled == LastBecomes("Applied")
                 rest == IF tx.kind = "Discard" THEN settled.after.incoming \ {last}
                                                ELSE settled.after.incoming
      <4>1. tx' = [settled EXCEPT !.after.incoming = rest]
        BY <3>1 DEF MarkApplied, Write
      <4>2. settled \in Transactions /\ settled.after \in Images /\ rest \subseteq Books
        BY <2>1, TransactionParts, ImageParts
      <4> HIDE DEF settled, rest
      <4> QED BY <4>1, <4>2 DEF Transactions, Images
    <3>2. CASE MarkFailed
      <4>1. LastBecomes("Failed") \in Transactions /\ previous \in Images
        BY <2>1 DEF Typed
      <4>2. tx' = [LastBecomes("Failed") EXCEPT !.after = previous]
        BY <3>2 DEF MarkFailed, Write
      <4> QED BY <4>1, <4>2 DEF Transactions
    <3> QED BY <1>5, <3>1, <3>2
  <2>3. report' \in [renamed : SUBSET Books, deleted : SUBSET Books]
    BY <1>0, <1>5 DEF MarkApplied, MarkFailed
  <2> QED BY <1>c, <1>5, <2>2, <2>3 DEF MarkApplied, MarkFailed, Write, Typed
<1>6. CASE FinishLoop
  <2>1. Reported \in Images
    BY <1>0, ReportedType
  <2>2. tx' \in Transactions
    BY <1>0, <1>6, <2>1 DEF FinishLoop, Write, Transactions
  <2>3. pc' \in Steps /\ then' \in Steps \ Writing
    BY <1>c, <1>6 DEF FinishLoop, Write, Typed
  <2> QED BY <1>6, <2>2, <2>3 DEF FinishLoop, Typed
<1>7. ASSUME NEW b \in Books, ApplyRename(b) \/ ApplyDelete(b) PROVE Typed'
  <2>1. at' \in [Books -> Places] /\ copies' \subseteq Books
    BY <1>7, RenamedType, DeletedType DEF ApplyRename, ApplyDelete, Typed
  <2>2. tx' \in Transactions
    BY <1>0, <1>7 DEF ApplyRename, ApplyDelete, Write, Transactions, Statuses
  <2> QED BY <1>c, <1>7, <2>1, <2>2 DEF ApplyRename, ApplyDelete, Write, Typed
<1>8. CASE Commit \/ AllApplied \/ InstallDestination \/ InstallSource \/ InstallAuxiliary
           \/ WriteCommitted \/ Reconciled \/ RecordReconciled
  <2>1. \A s \in Stages : [tx EXCEPT !.stage = s] \in Transactions
    BY <1>0 DEF Transactions
  <2>2. tx' \in Transactions
    BY <1>0, <1>8, <2>1 DEF Commit, AllApplied, InstallDestination, InstallSource,
       InstallAuxiliary, WriteCommitted, Reconciled, RecordReconciled, Write, Stages
  <2>3. tx.after \in Images /\ tx.after.incoming \subseteq Books /\ tx.after.log \subseteq Books
        /\ tx.after.database \in Databases
    BY <1>0, TransactionParts, ImageParts
  <2>4. incomingDb' \subseteq Books /\ comicDb' \in Databases /\ undoLog' \subseteq Books
    BY <1>8, <2>3 DEF Commit, AllApplied, InstallDestination, InstallSource, InstallAuxiliary,
       WriteCommitted, Reconciled, RecordReconciled, SaveIncoming, SaveLibrary, Typed
  <2>5. /\ UNCHANGED <<at, copies, session, sidecars, stale, previous, last, report, journal,
                       open, runs, faults>>
        /\ pc' = "store" /\ then' \in Steps \ Writing
    BY <1>c, <1>8 DEF Commit, AllApplied, InstallDestination, InstallSource,
       InstallAuxiliary, WriteCommitted, Reconciled, RecordReconciled, Write
  <2> QED BY <1>c, <2>2, <2>4, <2>5 DEF Typed
<1>9. CASE Land
  <2>1. tx.after.incoming \subseteq Books /\ tx.after.database \in Databases
    BY <1>0, TransactionParts, ImageParts
  <2>2. session' \in [incoming : SUBSET Books, database : Databases]
    BY <1>9, <2>1 DEF Land, Typed
  <2> QED BY <1>9, <2>2 DEF Land, Typed, Steps
<1>10. CASE Startup
  <2>1. tx' \in Transactions
    BY <1>0, <1>10 DEF Startup
  <2>2. pc' \in Steps
    BY <1>10 DEF Startup, Steps
  <2> QED BY <1>10, <2>1, <2>2 DEF Startup, Typed
<1>11. ASSUME NEW b \in Books, ReconcileRename(b) \/ ReconcileDelete(b) PROVE Typed'
  <2>1. at' \in [Books -> Places]
    BY <1>11, RenamedType DEF ReconcileRename, ReconcileDelete, Typed
  <2>2. tx' \in Transactions
    BY <1>0, <1>11 DEF ReconcileRename, ReconcileDelete, Transactions, Statuses
  <2> QED BY <1>11, <2>1, <2>2 DEF ReconcileRename, ReconcileDelete, Typed
<1>12. CASE ReconcileConflict \/ CommitFails \/ Close \/ Crash \/ ActionWriteFails
  <2>1. pc' \in Steps
    BY <1>12 DEF ReconcileConflict, CommitFails, Close, Crash, ActionWriteFails, Steps
  <2>2. faults' \in 0..MaxFaults /\ comicDb' \in Databases
    BY <1>12 DEF ReconcileConflict, CommitFails, Close, Crash, ActionWriteFails, Typed
  <2>3. report' \in [renamed : SUBSET Books, deleted : SUBSET Books]
    BY <1>0, <1>12 DEF ReconcileConflict, CommitFails, Close, Crash, ActionWriteFails
  <2>4. /\ UNCHANGED <<at, copies, incomingDb, undoLog, session, sidecars, stale, tx, previous,
                       last, journal, then, runs>>
        /\ open' \in {open, FALSE}
    BY <1>12 DEF ReconcileConflict, CommitFails, Close, Crash, ActionWriteFails
  <2> QED BY <2>1, <2>2, <2>3, <2>4 DEF Typed
<1>13. CASE UNCHANGED vars
  BY <1>13 DEF Typed, vars
<1> QED
  BY <1>1, <1>2, <1>3, <1>4, <1>5, <1>6, <1>7, <1>8, <1>9, <1>10, <1>11, <1>12, <1>13
     DEF Next, Progress, RunStep, Recovery

\* Every step keeps the control of the action list: only the writes that follow an
\* action's outcome go on to the next action, and only an empty list to the catalogs.
LEMMA StageStep == Typed /\ SidecarInv /\ StageInv /\ [Next]_vars => StageInv'
<1> SUFFICES ASSUME Typed, SidecarInv, StageInv, [Next]_vars PROVE StageInv'
  OBVIOUS
<1>0. /\ tx \in Transactions /\ last \in Books
      /\ tx.renames \in [Books -> Statuses] /\ tx.deletes \in [Books -> Statuses]
      /\ pc \in Writing => then \in AfterWrite
      /\ pc \in Steps
  BY TransactionParts DEF Typed, SidecarInv
<1> USE DEF StageInv, Toward, Writing, run, disk, NoPending
<1>1. CASE StoreBlobs
  BY <1>1 DEF StoreBlobs
<1>2. CASE ReplaceJournal
  <2>1. tx.stage # "Prepared" => NoPending(tx)
    BY <1>0, <1>2 DEF ReplaceJournal, AfterWrite, Steps
  <2> QED BY <1>2, <2>1 DEF ReplaceJournal
<1>3. CASE DropStale
  BY <1>0, <1>3 DEF DropStale, AfterWrite, Steps
<1>4. CASE RemoveJournal \/ SweepSidecars \/ Land
  BY <1>4 DEF RemoveJournal, SweepSidecars, Land
<1>5. ASSUME NEW kind \in Kinds, Begin(kind) PROVE StageInv'
  BY <1>5 DEF Begin, Write, NewTransaction
<1>6. ASSUME NEW b \in Books, PrepareRename(b) \/ PrepareDelete(b) PROVE StageInv'
  <2>1. pc = "ready" /\ tx.stage = "Prepared" /\ ("action" \notin Failures => NoPending(tx))
    BY <1>6 DEF PrepareRename, PrepareDelete
  <2>2. tx'.stage = tx.stage /\ pc' = "store" /\ then' = "act" /\ last' = b
        /\ UNCHANGED journal
    BY <1>0, <1>6 DEF PrepareRename, PrepareDelete, Write, Transactions
  <2>3. \/ tx'.renames = [tx.renames EXCEPT ![b] = "Pending"] /\ tx'.deletes = tx.deletes
        \/ tx'.deletes = [tx.deletes EXCEPT ![b] = "Pending"] /\ tx'.renames = tx.renames
    BY <1>0, <1>6 DEF PrepareRename, PrepareDelete, Write, Transactions
  <2>4. "action" \notin Failures => OnlyPending(tx', b)
    BY <1>0, <2>1, <2>3 DEF OnlyPending
  <2> QED BY <2>1, <2>2, <2>4 DEF OnlyPending
<1>7. CASE Rename \/ Delete
  BY <1>7 DEF Rename, Delete, OnlyPending
<1>8. CASE MarkApplied \/ MarkFailed
  <2>1. pc \in {"act", "acted"} /\ tx.stage = "Prepared" /\ pc' = "store" /\ then' = "ready"
        /\ UNCHANGED journal
    BY <1>8 DEF MarkApplied, MarkFailed, Write
  <2>2. PICK status \in {"Applied", "Failed"} :
           /\ tx'.renames = LastBecomes(status).renames
           /\ tx'.deletes = LastBecomes(status).deletes
           /\ tx'.stage = LastBecomes(status).stage
    <3>1. \A s \in {"Applied", "Failed"} : LastBecomes(s) \in Transactions
      BY <1>0, SettledType DEF Statuses
    <3> QED BY <1>8, <3>1 DEF MarkApplied, MarkFailed, Write, Transactions
  <2>3. tx'.stage = "Prepared"
    BY <1>0, <2>1, <2>2, SettledType DEF Statuses
  <2>4. "action" \notin Failures => NoPending(tx')
    <3>1. \/ RenamePending(last) /\ tx'.renames = [tx.renames EXCEPT ![last] = status]
             /\ tx'.deletes = tx.deletes
          \/ ~RenamePending(last) /\ tx'.deletes = [tx.deletes EXCEPT ![last] = status]
             /\ tx'.renames = tx.renames
      BY <1>0, <2>2, SettledType DEF Statuses
    <3>2. "action" \notin Failures => OnlyPending(tx, last)
      BY <2>1
    <3> QED BY <1>0, <3>1, <3>2 DEF OnlyPending, RenamePending
  <2> QED BY <2>1, <2>3, <2>4
<1>9. CASE FinishLoop
  <2>1. tx'.stage = tx.stage /\ UNCHANGED journal
        /\ (pc' = "commit" \/ (pc' = "store" /\ then' = "commit"))
    <3>1. [tx EXCEPT !.after = Reported].stage = tx.stage
      BY <1>0 DEF Transactions
    <3>2. (tx' = tx \/ tx' = [tx EXCEPT !.after = Reported]) /\ UNCHANGED journal
          /\ (pc' = "commit" \/ (pc' = "store" /\ then' = "commit"))
      BY <1>9 DEF FinishLoop, Write
    <3> QED BY <3>1, <3>2
  <2> QED BY <1>9, <2>1 DEF FinishLoop
<1>10. CASE Commit
  BY <1>10 DEF Commit, Write
<1>11. ASSUME NEW b \in Books, ApplyRename(b) \/ ApplyDelete(b) PROVE StageInv'
  <2>1. tx'.stage = tx.stage /\ UNCHANGED journal /\ pc' = "store" /\ then' = "apply"
    BY <1>0, <1>11 DEF ApplyRename, ApplyDelete, Write, Transactions
  <2> QED BY <1>11, <2>1 DEF ApplyRename, ApplyDelete
<1>12. CASE AllApplied \/ InstallDestination \/ InstallSource \/ InstallAuxiliary
            \/ WriteCommitted \/ Reconciled \/ RecordReconciled
  <2>1. NoPending(tx)
    BY <1>12 DEF AllApplied, InstallDestination, InstallSource, InstallAuxiliary,
       WriteCommitted, Reconciled, RecordReconciled, SomePending, RenamePending, DeletePending
  <2>2. tx'.renames = tx.renames /\ tx'.deletes = tx.deletes /\ UNCHANGED journal /\ pc' = "store"
        /\ then' \in {"install", "remove", "reconciled"}
    BY <1>0, <1>12 DEF AllApplied, InstallDestination, InstallSource, InstallAuxiliary,
       WriteCommitted, Reconciled, RecordReconciled, Write, Transactions
  <2> QED BY <2>1, <2>2
<1>13. CASE Startup
  BY <1>13 DEF Startup
<1>14. ASSUME NEW b \in Books, ReconcileRename(b) \/ ReconcileDelete(b) PROVE StageInv'
  <2>1. pc = "reconcile" /\ UNCHANGED <<pc, journal>> /\ tx'.stage = tx.stage
        /\ ~NoPending(tx)
    BY <1>0, <1>14 DEF ReconcileRename, ReconcileDelete, Transactions, RenamePending, DeletePending
  <2> QED BY <2>1
<1>15. CASE ReconcileConflict \/ CommitFails \/ Close \/ Crash
  BY <1>15 DEF ReconcileConflict, CommitFails, Close, Crash
<1>16. CASE ActionWriteFails
  BY <1>16 DEF ActionWriteFails
<1>17. CASE UNCHANGED vars
  BY <1>17 DEF vars, OnlyPending
<1> QED
  BY <1>1, <1>2, <1>3, <1>4, <1>5, <1>6, <1>7, <1>8, <1>9, <1>10, <1>11, <1>12, <1>13, <1>14,
     <1>15, <1>16, <1>17 DEF Next, Progress, RunStep, Recovery

TypeInv == Typed /\ SidecarInv /\ StageInv

LEMMA TypeStep == TypeInv /\ [Next]_vars => TypeInv'
BY TypedStep, SidecarStep, StageStep DEF TypeInv

LEMMA TypeInit == Init => TypeInv
<1> SUFFICES ASSUME Init PROVE TypeInv
  OBVIOUS
<1> USE ConstantsAssumption DEF ConstantsAssumption, Init
<1>1. PICK waiting \in SUBSET Books :
         /\ at = [b \in Books |-> IF b \in waiting THEN "source" ELSE "destination"]
         /\ incomingDb = waiting
         /\ undoLog = Books \ waiting
         /\ copies \in SUBSET waiting
  OBVIOUS
<1>2. at \in [Books -> Places] /\ comicDb \in Databases
  BY <1>1 DEF Places, Databases
<1>3. Live \in Images
  BY <1>1, <1>2 DEF Live, Images
<1>4. tx \in Transactions
  BY <1>3 DEF NewTransaction, Transactions, Stages, Statuses
<1>5. Typed
  BY <1>1, <1>2, <1>3, <1>4 DEF Typed, Steps, Writing
<1>6. SidecarInv /\ StageInv
  BY DEF SidecarInv, JournalLoadable, JournalReferences, Writing, StageInv, Toward
<1> QED BY <1>5, <1>6 DEF TypeInv

THEOREM TypeInvariant == Spec => []TypeInv
BY TypeInit, TypeStep, PTL DEF Spec

\* Every variable stays in its set, and no catalog is installed beside a Pending
\* action: a failed write leaves an action in the list only when actions may fail.
THEOREM TypeCorrect == Spec => []TypeOK
<1>1. TypeInv => TypeOK
  <2> SUFFICES ASSUME TypeInv PROVE TypeOK
    OBVIOUS
  <2>1. NoPending(tx) => ~SomePending
    BY DEF NoPending, SomePending, RenamePending, DeletePending
  <2> QED BY <2>1 DEF TypeInv, Typed, StageInv, Toward, TypeOK
<1> QED BY <1>1, TypeInvariant, PTL

(***************************************************************************)
(* Records and files.  What an image may claim is stated about any places  *)
(* of the books and any other copies, so that it can be compared with the  *)
(* files before and after a step.                                          *)
(***************************************************************************)

\* The books an image lists.
Listed(image) == image.incoming \cup image.database.books

\* An image that may be all there is: it lists each book that has a file, no book twice,
\* no Library book without a file, and every copy.
Sound(image, place, others) ==
    /\ \A b \in Books : place[b] # "gone" => b \in Listed(image)
    /\ image.incoming \cap image.database.books = {}
    /\ \A b \in image.database.books : place[b] # "gone"
    /\ others \subseteq image.database.copies

\* Only listed books are acted on, in the direction of the kind; a stage past Prepared
\* has settled them.
ActionsInv(t, place, others) ==
    /\ \A b \in Books : t.renames[b] # "None" =>
          \/ t.kind = "Adoption" /\ b \in t.before.incoming /\ b \notin others
          \/ t.kind = "Undo" /\ b \in t.before.database.books
    /\ \A b \in Books : t.deletes[b] # "None" =>
          /\ b \in t.before.incoming
          /\ t.kind = "Discard" => place[b] # "destination"
    /\ t.stage # "Prepared" => NoPending(t)

\* After-images only move records towards the destination catalog, and drop those of
\* copies and of books that are gone.
ImagesInv(t, image, place) ==
    /\ \A b \in Listed(t.before) \ Listed(image) : place[b] = "gone"
    /\ Listed(image) \subseteq Listed(t.before)
    /\ image.incoming \cap image.database.books = {}
    /\ \A b \in image.database.books : place[b] # "gone"
    /\ image.database.copies \subseteq t.before.database.copies
    /\ t.kind = "Adoption" => /\ t.before.database.books \subseteq image.database.books
                              /\ image.incoming \subseteq t.before.incoming
    /\ t.kind = "Undo" => /\ t.before.incoming \subseteq image.incoming
                          /\ image.database.books \subseteq t.before.database.books
    /\ t.kind = "Discard" => /\ image.incoming \subseteq t.before.incoming
                             /\ image.database = t.before.database

\* What an after-image has moved or dropped is moved or dropped on disk, or Pending.
DoneInv(t, image, place, others) ==
    /\ t.kind = "Adoption" => \A b \in image.database.books \ t.before.database.books :
                                 t.renames[b] = "Pending" \/ place[b] = "destination"
    /\ t.kind = "Undo" => \A b \in image.incoming \ t.before.incoming :
                             t.renames[b] = "Pending" \/ place[b] = "source"
    /\ \A b \in t.before.database.copies \ image.database.copies :
          t.deletes[b] = "Pending" \/ b \notin others

TransactionInv(t, place, others) ==
    /\ Sound(t.before, place, others)
    /\ ActionsInv(t, place, others)
    /\ ImagesInv(t, t.after, place)
    /\ DoneInv(t, t.after, place, others)

\* The catalogs on disk as the images of a transaction: the destination catalog is not
\* older than the source catalog, and nothing is installed before the stage says so.
DestinationIn(t) == IF t.kind = "Adoption" THEN comicDb = t.after.database
                                           ELSE incomingDb = t.after.incoming
SourceIn(t) == IF t.kind = "Adoption" THEN incomingDb = t.after.incoming
                                      ELSE comicDb = t.after.database
SourceUntouched(t) == IF t.kind = "Adoption" THEN incomingDb = t.before.incoming
                                             ELSE comicDb = t.before.database
InstallInv(t) ==
    /\ t.stage = "Prepared" => /\ incomingDb = t.before.incoming
                               /\ comicDb = t.before.database
    /\ incomingDb \in {t.before.incoming, t.after.incoming}
    /\ comicDb \in {t.before.database, t.after.database}
    /\ SourceUntouched(t) \/ DestinationIn(t)
    /\ t.stage \in {"DestinationSaved", "SourceSaved", "AuxiliarySaved", "Committed"} =>
          DestinationIn(t)
    /\ t.stage \in {"SourceSaved", "AuxiliarySaved", "Committed"} => SourceIn(t)

\* The worker has a transaction.
Active == pc \notin {"idle", "down", "sweep", "land"}
Catalogs == [incoming |-> incomingDb, database |-> comicDb]

\* What the worker's step says of the journal, the stage and the session.
ControlInv ==
    /\ pc = "idle" => open /\ session = Catalogs
    /\ pc \in {"down", "reconcile"} => ~open
    /\ pc \in {"idle", "sweep", "land"} => journal = NoJournal
    /\ pc \in {"drop", "act", "acted", "apply", "install", "remove", "reconciled"} => journal = tx
    /\ pc = "reconcile" => journal # NoJournal
    /\ Toward({"install"}) => tx.stage # "Prepared"
    /\ Toward({"remove"}) => tx.stage = "Committed"
    /\ open /\ pc # "idle" /\ tx.kind = "Discard" => session.database = tx.before.database
    /\ open /\ pc \in {"sweep", "land"} =>
          /\ incomingDb = tx.after.incoming
          /\ comicDb = IF tx.kind = "Discard" THEN session.database ELSE tx.after.database

\* The journal on disk is of the worker's transaction, and has its images once it is
\* past Prepared.
LinkInv ==
    Active => /\ journal # NoJournal => journal.before = tx.before /\ journal.kind = tx.kind
              /\ tx.stage # "Prepared" => journal # NoJournal /\ journal.after = tx.after

\* The transaction as mark_last(false) would leave it.
Undone == [LastBecomes("Failed") EXCEPT !.after = previous]

\* What the run knows of its actions is true of the files.
RunInv ==
    /\ Toward({"ready", "act", "acted"}) /\ tx.kind # "Discard" =>
          /\ \A b \in report.renamed : at[b] = To(tx.kind) /\ b \in Listed(tx.before)
          /\ report.deleted \cap copies = {}
    /\ tx.kind = "Adoption" /\ Toward({"ready", "act", "acted"}) =>
          report.renamed \subseteq tx.before.incoming
    /\ tx.kind = "Undo" /\ Toward({"ready", "act", "acted"}) =>
          report.renamed \subseteq tx.before.database.books
    /\ Toward({"act"}) \/ pc = "acted" => RenamePending(last) \/ DeletePending(last)
    /\ Toward({"act"}) => TransactionInv(Undone, at, copies)
    /\ pc = "acted" => IF RenamePending(last) THEN at[last] = To(tx.kind)
                       ELSE IF tx.kind = "Discard" THEN at[last] = "gone"
                       ELSE last \notin copies

RecordsInv ==
    /\ Active => TransactionInv(tx, at, copies) /\ InstallInv(tx)
    /\ journal # NoJournal => TransactionInv(journal, at, copies) /\ InstallInv(journal)
    /\ ~Active /\ journal = NoJournal => Sound(Catalogs, at, copies)

JournalInv == TypeInv /\ ControlInv /\ LinkInv /\ RunInv /\ RecordsInv

\* A book is not moved unless it is there, and deleted only by the discard it was
\* listed for; copies only disappear.
FilesChange(t, place, place2, others, others2) ==
    /\ others2 \subseteq others
    /\ \A b \in Books :
          \/ place2[b] = place[b]
          \/ t.kind # "Discard" /\ place[b] # "gone" /\ place2[b] = To(t.kind)
          \/ t.kind = "Discard" /\ b \in t.before.incoming
                /\ place[b] = "source" /\ place2[b] = "gone"

LEMMA FilesStep ==
    ASSUME NEW t \in Transactions, NEW place, NEW place2, NEW others, NEW others2,
           TransactionInv(t, place, others), FilesChange(t, place, place2, others, others2)
    PROVE  TransactionInv(t, place2, others2)
<1> USE DEF FilesChange, To
<1>0. /\ t.before.incoming \subseteq Books /\ t.before.database.books \subseteq Books
      /\ t.after.incoming \subseteq Books /\ t.after.database.books \subseteq Books
      /\ t.before.database.copies \subseteq Books
      /\ t.kind \in {"Adoption", "Undo", "Discard"}
  BY TransactionParts, ImageParts
<1>1. Sound(t.before, place2, others2)
  BY <1>0 DEF TransactionInv, Sound, Listed
<1>2. ActionsInv(t, place2, others2)
  BY <1>0 DEF TransactionInv, ActionsInv
<1>3. ImagesInv(t, t.after, place2)
  <2>1. \A b \in Listed(t.before) \ Listed(t.after) : place2[b] = "gone"
    BY <1>0 DEF TransactionInv, ImagesInv, Listed
  <2>2. \A b \in t.after.database.books : place2[b] # "gone"
    <3>1. \A b \in t.after.database.books : place[b] # "gone"
      BY DEF TransactionInv, ImagesInv
    <3>2. t.kind = "Discard" => t.before.incoming \cap t.after.database.books = {}
      BY DEF TransactionInv, ImagesInv, Sound
    <3> QED BY <1>0, <3>1, <3>2
  <2> QED BY <2>1, <2>2 DEF TransactionInv, ImagesInv
<1>4. DoneInv(t, t.after, place2, others2)
  BY <1>0 DEF TransactionInv, DoneInv
<1> QED BY <1>1, <1>2, <1>3, <1>4 DEF TransactionInv

\* The actions of a transaction do not matter to its images, nor the stage to either.
LEMMA SettleRename ==
    ASSUME NEW t \in Transactions, NEW u \in Transactions, NEW b \in Books,
           NEW place, NEW others, TransactionInv(t, place, others),
           t.renames[b] = "Pending", place[b] = To(t.kind), NEW status \in Statuses,
           u.kind = t.kind, u.before = t.before, u.after = t.after, u.stage = t.stage,
           u.renames = [t.renames EXCEPT ![b] = status], u.deletes = t.deletes
    PROVE  TransactionInv(u, place, others)
<1>0. t.renames \in [Books -> Statuses]
  BY TransactionParts
<1>1. ActionsInv(u, place, others)
  BY <1>0 DEF TransactionInv, ActionsInv, NoPending
<1>2. DoneInv(u, u.after, place, others)
  <2>1. \A c \in Books : u.renames[c] = "Pending" \/ u.renames[c] = t.renames[c]
                            \/ place[c] = To(t.kind)
    BY <1>0
  <2>2. t.after.database.books \subseteq Books /\ t.after.incoming \subseteq Books
    BY TransactionParts, ImageParts
  <2> QED BY <2>1, <2>2 DEF TransactionInv, DoneInv, To
<1>3. Sound(u.before, place, others) /\ ImagesInv(u, u.after, place)
  BY DEF TransactionInv, ImagesInv
<1> QED BY <1>1, <1>2, <1>3 DEF TransactionInv

LEMMA SettleDelete ==
    ASSUME NEW t \in Transactions, NEW u \in Transactions, NEW b \in Books,
           NEW place, NEW others, TransactionInv(t, place, others),
           t.deletes[b] = "Pending", t.kind = "Discard" \/ b \notin others,
           NEW status \in Statuses,
           u.kind = t.kind, u.before = t.before, u.after = t.after, u.stage = t.stage,
           u.deletes = [t.deletes EXCEPT ![b] = status], u.renames = t.renames
    PROVE  TransactionInv(u, place, others)
<1>0. t.deletes \in [Books -> Statuses]
  BY TransactionParts
<1>1. ActionsInv(u, place, others)
  BY <1>0 DEF TransactionInv, ActionsInv, NoPending
<1>2. DoneInv(u, u.after, place, others)
  <2>1. t.before.database.copies \subseteq Books
    BY TransactionParts, ImageParts
  <2>2. t.kind = "Discard" => t.before.database.copies \ t.after.database.copies = {}
    BY DEF TransactionInv, ImagesInv
  <2> QED BY <1>0, <2>1, <2>2 DEF TransactionInv, DoneInv
<1>3. Sound(u.before, place, others) /\ ImagesInv(u, u.after, place)
  BY DEF TransactionInv, ImagesInv
<1> QED BY <1>1, <1>2, <1>3 DEF TransactionInv

LEMMA SameActions ==
    ASSUME NEW t, NEW u, NEW place, NEW others, TransactionInv(t, place, others),
           u.kind = t.kind, u.before = t.before, u.after = t.after,
           u.deletes = t.deletes, u.renames = t.renames,
           u.stage # "Prepared" => NoPending(u)
    PROVE  TransactionInv(u, place, others)
<1>1. ActionsInv(u, place, others)
  BY DEF TransactionInv, ActionsInv
<1>2. Sound(u.before, place, others) /\ ImagesInv(u, u.after, place)
      /\ DoneInv(u, u.after, place, others)
  BY DEF TransactionInv, ImagesInv, DoneInv
<1> QED BY <1>1, <1>2 DEF TransactionInv

\* The after-images of a transaction without Pending actions may be all there is.
LEMMA SoundAfter ==
    ASSUME NEW t \in Transactions, NEW place, NEW others,
           TransactionInv(t, place, others), NoPending(t), others \subseteq Books
    PROVE  Sound(t.after, place, others)
<1>1. t.before.database.copies \subseteq Books
  BY TransactionParts, ImageParts
<1>2. \A b \in Books : place[b] # "gone" => b \in Listed(t.after)
  BY DEF TransactionInv, Sound, ImagesInv
<1>3. others \subseteq t.after.database.copies
  BY <1>1 DEF TransactionInv, Sound, DoneInv, NoPending
<1> QED BY <1>2, <1>3 DEF TransactionInv, ImagesInv, Sound

\* Whatever part of the after-images is installed, the catalogs on disk list every
\* file.
LEMMA InstalledLists ==
    ASSUME NEW t \in Transactions, TransactionInv(t, at, copies), InstallInv(t),
           copies \subseteq Books
    PROVE  RecordNeverLost
<1>0. Sound(t.before, at, copies)
  BY DEF TransactionInv
<1>1. CASE t.stage = "Prepared"
  BY <1>0, <1>1 DEF InstallInv, Sound, Listed, RecordNeverLost
<1>2. CASE t.stage # "Prepared"
  <2>1. Sound(t.after, at, copies)
    BY <1>2, SoundAfter DEF TransactionInv, ActionsInv
  <2>2. t.kind \in {"Adoption", "Undo", "Discard"}
    BY TransactionParts
  <2>3. ImagesInv(t, t.after, at)
    BY DEF TransactionInv
  <2> QED BY <1>0, <2>1, <2>2, <2>3 DEF InstallInv, Sound, Listed, RecordNeverLost,
                                       SourceUntouched, DestinationIn, ImagesInv
<1> QED BY <1>1, <1>2

(***************************************************************************)
(* Steps.  The durable writes at the end of a run succeed or the program   *)
(* crashes: a session that goes on after such a failure begins its next    *)
(* run with catalogs that are not those on disk (README, section 6).       *)
(***************************************************************************)

CommitsSucceed == "commit" \notin Failures /\ "cleanup" \notin Failures

\* What the steps assume, and what the transaction of the worker is made of.
LEMMA WorkerParts ==
    ASSUME TypeInv
    PROVE  /\ tx \in Transactions /\ last \in Books /\ copies \subseteq Books
           /\ at \in [Books -> Places]
           /\ tx.kind \in {"Adoption", "Undo", "Discard"} /\ tx.stage \in Stages
           /\ tx.renames \in [Books -> Statuses] /\ tx.deletes \in [Books -> Statuses]
           /\ tx.before \in Images /\ tx.after \in Images
           /\ journal # NoJournal => journal \in Transactions
           /\ pc \in Steps /\ then \in Steps \ Writing
           /\ pc \in Writing => then \in AfterWrite
           /\ NoJournal \notin Transactions
BY TransactionParts, ConstantsAssumption DEF TypeInv, Typed, SidecarInv, ConstantsAssumption

LEMMA ControlStep ==
    ASSUME CommitsSucceed
    PROVE  TypeInv /\ ControlInv /\ LinkInv /\ RecordsInv /\ [Next]_vars => ControlInv'
<1> SUFFICES ASSUME TypeInv, ControlInv, LinkInv, RecordsInv, [Next]_vars PROVE ControlInv'
  OBVIOUS
<1> USE DEF ControlInv, Catalogs, Toward, Writing, disk, files, catalogs, ui, run, bounds
<1>0. /\ tx \in Transactions /\ tx.kind \in {"Adoption", "Undo", "Discard"}
      /\ pc \in Steps /\ then \in Steps \ Writing /\ (pc \in Writing => then \in AfterWrite)
      /\ NoJournal # tx
  BY WorkerParts
<1>1. CASE StoreBlobs \/ ReplaceJournal
  BY <1>1 DEF StoreBlobs, ReplaceJournal
<1>2. CASE DropStale
  BY <1>0, <1>2 DEF DropStale, AfterWrite, Steps
<1>3. CASE RemoveJournal
  <2>1. pc = "remove" /\ tx.stage = "Committed" /\ InstallInv(tx) /\ ImagesInv(tx, tx.after, at)
    BY <1>3 DEF RemoveJournal, RecordsInv, Active, TransactionInv
  <2>2. incomingDb = tx.after.incoming /\ comicDb = tx.after.database
    BY <2>1 DEF InstallInv, SourceIn, DestinationIn
  <2>3. tx.kind = "Discard" => tx.after.database = tx.before.database
    BY <2>1 DEF ImagesInv
  <2> QED BY <1>3, <2>1, <2>2, <2>3 DEF RemoveJournal
<1>4. CASE SweepSidecars
  BY <1>4 DEF SweepSidecars
<1>5. CASE Land
  BY <1>5 DEF Land
<1>6. ASSUME NEW kind \in Kinds, Begin(kind) PROVE ControlInv'
  BY <1>6 DEF Begin, Write, NewTransaction, Live
<1>7. ASSUME NEW b \in Books, PrepareRename(b) \/ PrepareDelete(b) PROVE ControlInv'
  <2>1. tx'.kind = tx.kind /\ tx'.before = tx.before
    BY <1>0, <1>7 DEF PrepareRename, PrepareDelete, Write, Transactions
  <2> QED BY <1>7, <2>1 DEF PrepareRename, PrepareDelete, Write
<1>8. CASE Rename \/ Delete
  BY <1>8 DEF Rename, Delete
<1>9. CASE MarkApplied \/ MarkFailed
  <2>1. tx'.kind = tx.kind /\ tx'.before = tx.before
    <3>1. \A s \in {"Applied", "Failed"} :
             LastBecomes(s) \in Transactions /\ LastBecomes(s).kind = tx.kind
             /\ LastBecomes(s).before = tx.before
      BY WorkerParts, SettledType DEF Statuses
    <3> QED BY <1>9, <3>1 DEF MarkApplied, MarkFailed, Write, Transactions
  <2> QED BY <1>9, <2>1 DEF MarkApplied, MarkFailed, Write
<1>10. CASE FinishLoop \/ Commit
  <2>1. tx'.kind = tx.kind /\ tx'.before = tx.before
    BY <1>0, <1>10 DEF FinishLoop, Commit, Write, Transactions
  <2> QED BY <1>10, <2>1 DEF FinishLoop, Commit, Write
<1>11. ASSUME NEW b \in Books, ApplyRename(b) \/ ApplyDelete(b) PROVE ControlInv'
  <2>1. tx'.kind = tx.kind /\ tx'.before = tx.before
    BY <1>0, <1>11 DEF ApplyRename, ApplyDelete, Write, Transactions
  <2> QED BY <1>11, <2>1 DEF ApplyRename, ApplyDelete, Write
<1>12. CASE \/ AllApplied \/ InstallDestination \/ InstallSource \/ InstallAuxiliary
            \/ WriteCommitted \/ Reconciled \/ RecordReconciled
  <2>1. tx'.kind = tx.kind /\ tx'.before = tx.before
        /\ (then' = "install" => tx'.stage # "Prepared")
        /\ (then' = "remove" => tx'.stage = "Committed")
    BY <1>0, <1>12 DEF AllApplied, InstallDestination, InstallSource, InstallAuxiliary,
       WriteCommitted, Reconciled, RecordReconciled, Write, Transactions
  <2>2. pc \notin {"idle", "down"} /\ pc' = "store"
        /\ then' \in {"install", "remove", "reconciled"} /\ UNCHANGED <<session, open>>
    BY <1>12 DEF AllApplied, InstallDestination, InstallSource, InstallAuxiliary,
       WriteCommitted, Reconciled, RecordReconciled, Write
  <2> QED BY <2>1, <2>2
<1>13. CASE Startup
  BY <1>13 DEF Startup
<1>14. ASSUME NEW b \in Books, ReconcileRename(b) \/ ReconcileDelete(b) PROVE ControlInv'
  <2>1. tx'.kind = tx.kind /\ tx'.before = tx.before /\ tx'.stage = tx.stage
    BY <1>0, <1>14 DEF ReconcileRename, ReconcileDelete, Transactions
  <2> QED BY <1>14, <2>1 DEF ReconcileRename, ReconcileDelete
<1>15. CASE ReconcileConflict \/ Crash
  <2>1. pc' = "down" /\ ~open'
    BY <1>15 DEF ReconcileConflict, Crash
  <2> QED BY <2>1
<1>16. CASE ActionWriteFails \/ CommitFails \/ Close
  BY <1>16 DEF ActionWriteFails, CommitFails, Close, CommitsSucceed
<1>17. CASE UNCHANGED vars
  BY <1>17 DEF vars
<1> QED
  BY <1>1, <1>2, <1>3, <1>4, <1>5, <1>6, <1>7, <1>8, <1>9, <1>10, <1>11, <1>12, <1>13, <1>14,
     <1>15, <1>16, <1>17 DEF Next, Progress, RunStep, Recovery

\* Every write of the worker is of the transaction it began or found on disk.
LEMMA LinkStep ==
    ASSUME CommitsSucceed
    PROVE  TypeInv /\ ControlInv /\ LinkInv /\ [Next]_vars => LinkInv'
<1> SUFFICES ASSUME TypeInv, ControlInv, LinkInv, [Next]_vars PROVE LinkInv'
  OBVIOUS
<1> USE DEF LinkInv, Active, disk, files, catalogs, ui, run, bounds
<1>0. /\ tx \in Transactions /\ tx.kind \in {"Adoption", "Undo", "Discard"}
      /\ (pc \in Writing => then \in AfterWrite) /\ NoJournal # tx
  BY WorkerParts
<1>1. CASE StoreBlobs
  BY <1>1 DEF StoreBlobs
<1>2. CASE ReplaceJournal
  BY <1>0, <1>2 DEF ReplaceJournal
<1>3. CASE DropStale
  BY <1>3 DEF DropStale
<1>4. CASE RemoveJournal \/ SweepSidecars \/ Land
  BY <1>4 DEF RemoveJournal, SweepSidecars, Land
<1>5. ASSUME NEW kind \in Kinds, Begin(kind) PROVE LinkInv'
  BY <1>5 DEF Begin, Write, NewTransaction, ControlInv
<1>6. ASSUME pc \in {"ready", "act", "acted", "commit", "apply"}, UNCHANGED journal,
             tx'.kind = tx.kind, tx'.before = tx.before,
             tx'.stage = "Prepared" \/ (journal = tx /\ tx'.after = tx.after)
      PROVE  LinkInv'
  BY <1>0, <1>6
<1>7. pc \in {"ready", "act", "acted", "commit", "apply"} => tx.stage = "Prepared"
  BY DEF TypeInv, StageInv, Toward
<1>8. ASSUME NEW b \in Books, PrepareRename(b) \/ PrepareDelete(b) PROVE LinkInv'
  <2>1. tx'.kind = tx.kind /\ tx'.before = tx.before /\ tx'.stage = tx.stage
    BY <1>0, <1>8 DEF PrepareRename, PrepareDelete, Write, Transactions
  <2>2. pc = "ready" /\ UNCHANGED journal
    BY <1>8 DEF PrepareRename, PrepareDelete
  <2> QED BY <1>6, <1>7, <2>1, <2>2
<1>9. CASE Rename \/ Delete
  BY <1>9, <1>6, <1>7 DEF Rename, Delete
<1>10. CASE MarkApplied \/ MarkFailed
  <2>1. tx'.kind = tx.kind /\ tx'.before = tx.before /\ tx'.stage = tx.stage
    <3>1. \A s \in {"Applied", "Failed"} :
             LastBecomes(s) \in Transactions /\ LastBecomes(s).kind = tx.kind
             /\ LastBecomes(s).before = tx.before /\ LastBecomes(s).stage = tx.stage
      BY WorkerParts, SettledType DEF Statuses
    <3> QED BY <1>10, <3>1 DEF MarkApplied, MarkFailed, Write, Transactions
  <2>2. pc \in {"act", "acted"} /\ UNCHANGED journal
    BY <1>10 DEF MarkApplied, MarkFailed
  <2> QED BY <1>6, <1>7, <2>1, <2>2
<1>11. CASE FinishLoop \/ Commit
  <2>1. tx'.kind = tx.kind /\ tx'.before = tx.before /\ tx'.stage = tx.stage
    BY <1>0, <1>11 DEF FinishLoop, Commit, Write, Transactions
  <2>2. pc \in {"ready", "commit"} /\ UNCHANGED journal
    BY <1>11 DEF FinishLoop, Commit
  <2> QED BY <1>6, <1>7, <2>1, <2>2
<1>12. ASSUME NEW b \in Books, ApplyRename(b) \/ ApplyDelete(b) PROVE LinkInv'
  <2>1. tx'.kind = tx.kind /\ tx'.before = tx.before /\ tx'.stage = tx.stage
    BY <1>0, <1>12 DEF ApplyRename, ApplyDelete, Write, Transactions
  <2>2. pc = "apply" /\ UNCHANGED journal
    BY <1>12 DEF ApplyRename, ApplyDelete
  <2> QED BY <1>6, <1>7, <2>1, <2>2
<1>13. CASE \/ AllApplied \/ InstallDestination \/ InstallSource \/ InstallAuxiliary
            \/ WriteCommitted \/ RecordReconciled
  <2>1. tx'.kind = tx.kind /\ tx'.before = tx.before /\ tx'.after = tx.after
    BY <1>0, <1>13 DEF AllApplied, InstallDestination, InstallSource, InstallAuxiliary,
       WriteCommitted, RecordReconciled, Write, Transactions
  <2>2. pc \in {"apply", "install", "reconciled"} /\ UNCHANGED journal
    BY <1>13 DEF AllApplied, InstallDestination, InstallSource, InstallAuxiliary,
       WriteCommitted, RecordReconciled
  <2> QED BY <1>0, <2>1, <2>2 DEF ControlInv
<1>14. CASE Startup
  BY <1>14 DEF Startup
<1>15. ASSUME NEW b \in Books, ReconcileRename(b) \/ ReconcileDelete(b) PROVE LinkInv'
  <2>1. tx'.kind = tx.kind /\ tx'.before = tx.before /\ tx'.stage = tx.stage
        /\ tx'.after = tx.after
    BY <1>0, <1>15 DEF ReconcileRename, ReconcileDelete, Transactions
  <2> QED BY <1>15, <2>1 DEF ReconcileRename, ReconcileDelete
<1>16. CASE Reconciled \/ ReconcileConflict \/ ActionWriteFails \/ CommitFails \/ Close \/ Crash
  BY <1>16 DEF Reconciled, ReconcileConflict, ActionWriteFails, CommitFails, Close, Crash,
     Write, CommitsSucceed, Writing
<1>17. CASE UNCHANGED vars
  BY <1>17 DEF vars
<1> QED
  BY <1>1, <1>2, <1>3, <1>4, <1>5, <1>8, <1>9, <1>10, <1>11, <1>12, <1>13, <1>14, <1>15,
     <1>16, <1>17 DEF Next, Progress, RunStep, Recovery

(***************************************************************************)
(* The actions of a run.                                                   *)
(***************************************************************************)

LEMMA MoveParts ==
    ASSUME NEW image \in Images, NEW moved \in SUBSET Books
    PROVE  /\ MoveRecords(image, "Adoption", moved).incoming = image.incoming \ moved
           /\ MoveRecords(image, "Adoption", moved).database.books
                 = image.database.books \cup moved
           /\ MoveRecords(image, "Undo", moved).incoming = image.incoming \cup moved
           /\ MoveRecords(image, "Undo", moved).database.books
                 = image.database.books \ moved
           /\ \A kind \in {"Adoption", "Undo"} :
                 MoveRecords(image, kind, moved).database.copies = image.database.copies
           /\ MoveRecords(image, "Discard", moved) = image
BY DEF MoveRecords, Images, Databases

\* before_rename: the record moves in the image while the file is still where the
\* transaction found it; mark_last(false) puts the image back.
LEMMA PrepareRenameImage ==
    ASSUME NEW t \in Transactions, NEW u \in Transactions, NEW b \in Books,
           NEW place, NEW others, TransactionInv(t, place, others),
           \/ t.kind = "Adoption" /\ b \in t.before.incoming /\ b \notin others
           \/ t.kind = "Undo" /\ b \in t.before.database.books,
           place[b] # "gone", t.renames[b] # "Pending",
           u.kind = t.kind, u.before = t.before, u.stage = "Prepared", u.deletes = t.deletes,
           \/ u.after = MoveRecords(t.after, t.kind, {b})
              /\ u.renames = [t.renames EXCEPT ![b] = "Pending"]
           \/ u.after = t.after /\ u.renames = [t.renames EXCEPT ![b] = "Failed"]
    PROVE  TransactionInv(u, place, others)
<1>0. /\ t.renames \in [Books -> Statuses] /\ t.after \in Images /\ t.before \in Images
      /\ t.after.database \in Databases
      /\ t.after.incoming \subseteq Books /\ t.after.database.books \subseteq Books
      /\ t.before.incoming \subseteq Books /\ t.before.database.books \subseteq Books
  BY TransactionParts, ImageParts
<1>1. ActionsInv(u, place, others)
  BY <1>0 DEF TransactionInv, ActionsInv
<1>2. CASE u.after = t.after /\ u.renames = [t.renames EXCEPT ![b] = "Failed"]
  <2>1. DoneInv(u, u.after, place, others)
    BY <1>0, <1>2 DEF TransactionInv, DoneInv
  <2> QED BY <1>1, <1>2, <2>1 DEF TransactionInv, ImagesInv
<1>3. CASE /\ u.after = MoveRecords(t.after, t.kind, {b})
           /\ u.renames = [t.renames EXCEPT ![b] = "Pending"]
  <2>a. {b} \in SUBSET Books
    OBVIOUS
  <2>0. \A c \in Books : u.renames[c] = IF c = b THEN "Pending" ELSE t.renames[c]
    BY <1>0, <1>3
  <2>1. CASE t.kind = "Adoption"
    <3>1. /\ u.after.incoming = t.after.incoming \ {b}
          /\ u.after.database.books = t.after.database.books \cup {b}
          /\ u.after.database.copies = t.after.database.copies
      BY <1>0, <1>3, <2>a, <2>1, MoveParts
    <3>2. ImagesInv(u, u.after, place)
      BY <1>0, <2>1, <3>1 DEF TransactionInv, ImagesInv, Listed
    <3>3. DoneInv(u, u.after, place, others)
      BY <1>0, <2>0, <2>1, <3>1 DEF TransactionInv, DoneInv
    <3> QED BY <1>1, <3>2, <3>3 DEF TransactionInv
  <2>2. CASE t.kind = "Undo"
    <3>1. /\ u.after.incoming = t.after.incoming \cup {b}
          /\ u.after.database.books = t.after.database.books \ {b}
          /\ u.after.database.copies = t.after.database.copies
      BY <1>0, <1>3, <2>a, <2>2, MoveParts
    <3>2. ImagesInv(u, u.after, place)
      BY <1>0, <2>2, <3>1 DEF TransactionInv, ImagesInv, Listed
    <3>3. DoneInv(u, u.after, place, others)
      BY <1>0, <2>0, <2>2, <3>1 DEF TransactionInv, DoneInv
    <3> QED BY <1>1, <3>2, <3>3 DEF TransactionInv
  <2> QED BY <2>1, <2>2
<1> QED BY <1>2, <1>3

LEMMA PrepareDeleteImage ==
    ASSUME NEW t \in Transactions, NEW u \in Transactions, NEW b \in Books,
           NEW place, NEW others, TransactionInv(t, place, others),
           b \in t.before.incoming, t.kind = "Discard" => place[b] # "destination",
           t.deletes[b] # "Pending",
           u.kind = t.kind, u.before = t.before, u.stage = "Prepared", u.renames = t.renames,
           \/ u.after = DropCopies(t.after, t.kind, {b})
              /\ u.deletes = [t.deletes EXCEPT ![b] = "Pending"]
           \/ u.after = t.after /\ u.deletes = [t.deletes EXCEPT ![b] = "Failed"]
    PROVE  TransactionInv(u, place, others)
<1>0. /\ t.deletes \in [Books -> Statuses] /\ t.after \in Images
      /\ t.after.database \in Databases /\ t.before.database.copies \subseteq Books
  BY TransactionParts, ImageParts
<1>1. ActionsInv(u, place, others)
  BY <1>0 DEF TransactionInv, ActionsInv
<1>2. /\ u.after.incoming = t.after.incoming
      /\ u.after.database.books = t.after.database.books
      /\ u.after.database.copies \subseteq t.after.database.copies
      /\ t.kind = "Discard" => u.after = t.after
      /\ \A c \in t.after.database.copies \ u.after.database.copies : u.deletes[c] = "Pending"
  BY <1>0 DEF DropCopies, Images, Databases
<1>3. ImagesInv(u, u.after, place)
  BY <1>2 DEF TransactionInv, ImagesInv, Listed
<1>4. DoneInv(u, u.after, place, others)
  <2>1. \A c \in Books : t.deletes[c] = "Pending" => u.deletes[c] = "Pending"
    BY <1>0
  <2>2. \A c \in t.before.database.copies \ u.after.database.copies :
           u.deletes[c] = "Pending" \/ c \notin others
    BY <1>0, <1>2, <2>1 DEF TransactionInv, DoneInv
  <2> QED BY <1>2, <2>2 DEF TransactionInv, DoneInv
<1> QED BY <1>1, <1>3, <1>4 DEF TransactionInv

\* A rename moves a book that is there to the kind's other path.
LEMMA RenameMoves ==
    ASSUME TypeInv, RecordsInv, Active, NEW b \in Books, RenamePending(b), CanRename(b),
           at' = Renamed(b), UNCHANGED copies,
           NEW t \in Transactions, t.kind = tx.kind, t.before = tx.before
    PROVE  /\ FilesChange(t, at, at', copies, copies')
           /\ at'[b] = To(tx.kind) /\ \A c \in Books \ {b} : at'[c] = at[c]
<1>0. at \in [Books -> Places] /\ ActionsInv(tx, at, copies) /\ Sound(tx.before, at, copies)
  BY WorkerParts DEF RecordsInv, TransactionInv
<1>1. tx.kind \in {"Adoption", "Undo"} /\ at[b] # "gone"
  BY <1>0 DEF ActionsInv, Sound, RenamePending, CanRename, FromExists, PathExists, From
<1> QED BY <1>0, <1>1 DEF FilesChange, Renamed

LEMMA DeleteDeletes ==
    ASSUME TypeInv, RecordsInv, Active, NEW b \in Books, DeletePending(b), DeleteFile(b),
           NEW t \in Transactions, t.kind = tx.kind, t.before = tx.before
    PROVE  /\ FilesChange(t, at, at', copies, copies')
           /\ tx.kind = "Discard" => at'[b] = "gone"
           /\ tx.kind # "Discard" => UNCHANGED at /\ b \notin copies'
<1>0. at \in [Books -> Places] /\ ActionsInv(tx, at, copies)
  BY WorkerParts DEF RecordsInv, TransactionInv
<1>1. b \in tx.before.incoming /\ (tx.kind = "Discard" => at[b] # "destination")
  BY <1>0 DEF ActionsInv, DeletePending
<1> QED BY <1>0, <1>1 DEF FilesChange, DeleteFile, Places

LEMMA RunStepInv ==
    ASSUME CommitsSucceed
    PROVE  TypeInv /\ RecordsInv /\ RunInv /\ [Next]_vars => RunInv'
<1> SUFFICES ASSUME TypeInv, RecordsInv, RunInv, [Next]_vars PROVE RunInv'
  OBVIOUS
<1>0. /\ tx \in Transactions /\ last \in Books /\ at \in [Books -> Places]
      /\ tx.kind \in {"Adoption", "Undo", "Discard"} /\ tx.before \in Images
      /\ tx.renames \in [Books -> Statuses] /\ tx.deletes \in [Books -> Statuses]
      /\ (pc \in Writing => then \in AfterWrite)
      /\ Active => TransactionInv(tx, at, copies)
  BY WorkerParts DEF RecordsInv
<1> USE DEF disk, files, catalogs, ui, run, bounds
<1>1. ASSUME UNCHANGED <<at, copies, tx, last, previous, report>>, pc' # "acted",
             Toward({"ready", "act", "acted"})' => Toward({"ready", "act", "acted"}),
             Toward({"act"})' => Toward({"act"})
      PROVE  RunInv'
  <2>1. Undone' = Undone
    BY <1>1 DEF Undone, LastBecomes, RenamePending
  <2>2. TransactionInv(Undone, at, copies)' = TransactionInv(Undone', at, copies)
    BY <1>1 DEF TransactionInv, Sound, ActionsInv, ImagesInv, DoneInv
  <2>3. /\ RenamePending(last)' = RenamePending(last) /\ DeletePending(last)' = DeletePending(last)
        /\ To(tx.kind)' = To(tx.kind)
    BY <1>1 DEF RenamePending, DeletePending, To
  <2> QED BY <1>1, <2>1, <2>2, <2>3 DEF RunInv
<1>2. ASSUME ~Toward({"ready", "act", "acted"})' PROVE RunInv'
  BY <1>2 DEF RunInv, Toward
<1>3. CASE StoreBlobs \/ ReplaceJournal \/ DropStale
  <2>1. UNCHANGED <<at, copies, tx, last, previous, report>> /\ pc' # "acted"
    BY <1>0, <1>3 DEF StoreBlobs, ReplaceJournal, DropStale, AfterWrite, Steps, Writing
  <2>2. /\ Toward({"ready", "act", "acted"})' => Toward({"ready", "act", "acted"})
        /\ Toward({"act"})' => Toward({"act"})
    BY <1>3 DEF StoreBlobs, ReplaceJournal, DropStale, Toward, Writing
  <2> QED BY <1>1, <2>1, <2>2
<1>4. CASE RemoveJournal \/ SweepSidecars \/ Land \/ Startup \/ ReconcileConflict \/ Close \/ Crash
  BY <1>2, <1>4 DEF RemoveJournal, SweepSidecars, Land, Startup, ReconcileConflict, Close,
     Crash, Toward, Writing
<1>5. CASE \/ FinishLoop \/ Commit \/ AllApplied \/ InstallDestination \/ InstallSource
           \/ InstallAuxiliary \/ WriteCommitted \/ Reconciled \/ RecordReconciled
  <2>1. pc' = "commit" \/ (pc' = "store" /\ then' \notin {"ready", "act", "acted"})
    BY <1>5 DEF FinishLoop, Commit, AllApplied, InstallDestination, InstallSource,
       InstallAuxiliary, WriteCommitted, Reconciled, RecordReconciled, Write
  <2> QED BY <1>2, <2>1 DEF Toward, Writing
<1>6. CASE \E b \in Books : \/ ApplyRename(b) \/ ApplyDelete(b)
                            \/ ReconcileRename(b) \/ ReconcileDelete(b)
  <2>1. pc' = "reconcile" \/ (pc' = "store" /\ then' = "apply")
    BY <1>6 DEF ApplyRename, ApplyDelete, ReconcileRename, ReconcileDelete, Write
  <2> QED BY <1>2, <2>1 DEF Toward, Writing
<1>7. ASSUME NEW kind \in Kinds, Begin(kind) PROVE RunInv'
  <2>1. report' = [renamed |-> {}, deleted |-> {}] /\ ~Toward({"act"})' /\ pc' # "acted"
    BY <1>7 DEF Begin, Write, Toward, Writing
  <2> QED BY <2>1 DEF RunInv
<1>8. ASSUME NEW b \in Books, PrepareRename(b) \/ PrepareDelete(b) PROVE RunInv'
  <2>1. /\ tx'.kind = tx.kind /\ tx'.before = tx.before /\ pc' = "store" /\ last' = b
        /\ previous' = tx.after /\ pc = "ready" /\ Active
        /\ UNCHANGED <<at, copies, report>>
    BY <1>0, <1>8 DEF PrepareRename, PrepareDelete, Write, Transactions, Active
  <2>2. /\ tx' \in Transactions /\ tx.after \in Images /\ tx.stage = "Prepared"
        /\ ActionsInv(tx, at, copies) /\ Sound(tx.before, at, copies)
    BY <1>0, <2>1, TypeStep, TransactionParts
       DEF TypeInv, Typed, StageInv, Toward, TransactionInv
  <2>3. /\ Undone' \in Transactions /\ Undone'.kind = tx.kind /\ Undone'.before = tx.before
        /\ Undone'.stage = tx'.stage /\ Undone'.after = tx.after
        /\ tx'.renames[b] = "Pending" =>
              /\ Undone'.renames = [tx'.renames EXCEPT ![b] = "Failed"]
              /\ Undone'.deletes = tx'.deletes
        /\ tx'.renames[b] # "Pending" =>
              /\ Undone'.deletes = [tx'.deletes EXCEPT ![b] = "Failed"]
              /\ Undone'.renames = tx'.renames
    <3>1. Undone' = [IF tx'.renames[b] = "Pending" THEN [tx' EXCEPT !.renames[b] = "Failed"]
                                                   ELSE [tx' EXCEPT !.deletes[b] = "Failed"]
                     EXCEPT !.after = tx.after]
      BY <2>1 DEF Undone, LastBecomes, RenamePending
    <3>2. CASE tx'.renames[b] = "Pending"
      <4> DEFINE popped == [tx' EXCEPT !.renames[b] = "Failed"]
      <4>1. /\ popped \in Transactions /\ popped.deletes = tx'.deletes /\ popped.stage = tx'.stage
            /\ popped.renames = [tx'.renames EXCEPT ![b] = "Failed"]
            /\ popped.kind = tx'.kind /\ popped.before = tx'.before
        BY <2>2 DEF Transactions, Statuses
      <4>2. Undone' = [popped EXCEPT !.after = tx.after]
        BY <3>1, <3>2
      <4> HIDE DEF popped
      <4> QED BY <2>1, <2>2, <3>2, <4>1, <4>2 DEF Transactions
    <3>3. CASE tx'.renames[b] # "Pending"
      <4> DEFINE popped == [tx' EXCEPT !.deletes[b] = "Failed"]
      <4>1. /\ popped \in Transactions /\ popped.renames = tx'.renames /\ popped.stage = tx'.stage
            /\ popped.deletes = [tx'.deletes EXCEPT ![b] = "Failed"]
            /\ popped.kind = tx'.kind /\ popped.before = tx'.before
        BY <2>2 DEF Transactions, Statuses
      <4>2. Undone' = [popped EXCEPT !.after = tx.after]
        BY <3>1, <3>3
      <4> HIDE DEF popped
      <4> QED BY <2>1, <2>2, <3>3, <4>1, <4>2 DEF Transactions
    <3> QED BY <3>2, <3>3
  <2>4. TransactionInv(Undone', at, copies) /\ (tx'.renames[b] = "Pending" \/ tx'.deletes[b] = "Pending")
    <3>1. CASE PrepareRename(b)
      <4>1. /\ tx'.renames = [tx.renames EXCEPT ![b] = "Pending"] /\ tx'.deletes = tx.deletes
            /\ tx'.stage = tx.stage /\ tx.renames[b] = "None"
        BY <1>0, <3>1 DEF PrepareRename, Write, Transactions
      <4>2. /\ \/ tx.kind = "Adoption" /\ b \in tx.before.incoming /\ b \notin copies
               \/ tx.kind = "Undo" /\ b \in tx.before.database.books
            /\ at[b] # "gone"
        BY <2>2, <3>1 DEF PrepareRename, CanRename, FromExists, ToExists, PathExists, From, To,
           Sound
      <4>3. Undone'.renames = [tx.renames EXCEPT ![b] = "Failed"] /\ Undone'.deletes = tx.deletes
            /\ tx'.renames[b] = "Pending"
        BY <1>0, <2>3, <4>1
      <4> QED BY <1>0, <2>1, <2>2, <2>3, <4>1, <4>2, <4>3, PrepareRenameImage
    <3>2. CASE PrepareDelete(b)
      <4>1. /\ tx'.deletes = [tx.deletes EXCEPT ![b] = "Pending"] /\ tx'.renames = tx.renames
            /\ tx'.stage = tx.stage /\ tx.deletes[b] = "None"
        BY <1>0, <3>2 DEF PrepareDelete, Write, Transactions
      <4>2. /\ b \in tx.before.incoming /\ (tx.kind = "Discard" => at[b] # "destination")
            /\ tx.renames[b] # "Pending"
        BY <1>0, <2>2, <3>2 DEF PrepareDelete, DeletedExists, ActionsInv
      <4>3. Undone'.deletes = [tx.deletes EXCEPT ![b] = "Failed"] /\ Undone'.renames = tx.renames
            /\ tx'.deletes[b] = "Pending"
        BY <1>0, <2>3, <4>1, <4>2
      <4> QED BY <1>0, <2>1, <2>2, <2>3, <4>1, <4>2, <4>3, PrepareDeleteImage
    <3> QED BY <1>8, <3>1, <3>2
  <2>5. TransactionInv(Undone, at, copies)' = TransactionInv(Undone', at, copies)
    BY <2>1 DEF TransactionInv, Sound, ActionsInv, ImagesInv, DoneInv
  <2>6. Toward({"ready"}) /\ Toward({"ready", "act", "acted"})
    BY <2>1 DEF Toward
  <2> QED BY <2>1, <2>4, <2>5, <2>6 DEF RunInv, RenamePending, DeletePending, To
<1>9. CASE Rename \/ Delete
  <2>1. /\ pc = "act" /\ pc' = "acted" /\ Active /\ UNCHANGED <<tx, last, report>>
        /\ Toward({"act"}) /\ Toward({"ready", "act", "acted"}) /\ ~Toward({"act"})'
    BY <1>9 DEF Rename, Delete, Active, Toward, Writing
  <2>2. RenamePending(last)' = RenamePending(last) /\ DeletePending(last)' = DeletePending(last)
        /\ To(tx.kind)' = To(tx.kind)
    BY <2>1 DEF RenamePending, DeletePending, To
  <2>3. CASE Rename
    <3>1. RenamePending(last) /\ CanRename(last) /\ at' = Renamed(last) /\ UNCHANGED copies
      BY <2>3 DEF Rename
    <3>2. at'[last] = To(tx.kind) /\ \A c \in Books \ {last} : at'[c] = at[c]
      BY <1>0, <2>1, <3>1, RenameMoves
    <3>3. tx.kind # "Discard" => report.renamed \subseteq Books
      BY <1>0, <2>1, ImageParts DEF RunInv
    <3> QED BY <2>1, <2>2, <3>1, <3>2, <3>3 DEF RunInv
  <2>4. CASE Delete
    <3>1. ~RenamePending(last) /\ DeleteFile(last) /\ DeletePending(last)
      BY <2>1, <2>4 DEF Delete, RunInv
    <3>2. /\ tx.kind = "Discard" => at'[last] = "gone"
          /\ tx.kind # "Discard" => UNCHANGED at /\ last \notin copies' /\ copies' \subseteq copies
      BY <1>0, <2>1, <3>1, DeleteDeletes DEF FilesChange
    <3> QED BY <2>1, <2>2, <3>1, <3>2 DEF RunInv
  <2> QED BY <1>9, <2>3, <2>4
<1>10. CASE MarkApplied \/ MarkFailed
  <2>1. /\ pc \in {"act", "acted"} /\ pc' = "store" /\ then' = "ready" /\ Active
        /\ UNCHANGED <<at, copies, last>> /\ tx'.kind = tx.kind /\ tx'.before = tx.before
    <3>1. \A s \in {"Applied", "Failed"} :
             LastBecomes(s) \in Transactions /\ LastBecomes(s).kind = tx.kind
             /\ LastBecomes(s).before = tx.before
      BY <1>0, SettledType DEF Statuses
    <3> QED BY <1>10, <3>1 DEF MarkApplied, MarkFailed, Write, Transactions, Active
  <2>2. ~Toward({"act"})' /\ pc' # "acted" /\ Toward({"ready", "act", "acted"})
        /\ To(tx.kind)' = To(tx.kind)
    BY <2>1 DEF Toward, To
  <2>3. CASE MarkFailed
    BY <2>1, <2>2, <2>3 DEF RunInv, MarkFailed
  <2>4. CASE MarkApplied
    <3>1. pc = "acted" /\ (RenamePending(last) \/ DeletePending(last))
      BY <2>4 DEF MarkApplied, RunInv
    <3>2. CASE RenamePending(last)
      <4>1. report' = [report EXCEPT !.renamed = @ \cup {last}] /\ at[last] = To(tx.kind)
        BY <2>4, <3>1, <3>2 DEF MarkApplied, RunInv
      <4>2. /\ tx.kind = "Adoption" => last \in tx.before.incoming
            /\ tx.kind = "Undo" => last \in tx.before.database.books
        BY <1>0, <2>1, <3>2 DEF TransactionInv, ActionsInv, RenamePending
      <4>3. report'.renamed = report.renamed \cup {last} /\ report'.deleted = report.deleted
        BY <4>1 DEF TypeInv, Typed
      <4> QED BY <1>0, <2>1, <2>2, <4>1, <4>2, <4>3 DEF RunInv, Listed
    <3>3. CASE ~RenamePending(last)
      <4>1. report'.renamed = report.renamed /\ report'.deleted = report.deleted \cup {last}
        BY <2>4, <3>3 DEF MarkApplied, TypeInv, Typed
      <4>2. tx.kind # "Discard" => last \notin copies
        BY <3>1, <3>3 DEF RunInv
      <4> QED BY <2>1, <2>2, <4>1, <4>2 DEF RunInv
    <3> QED BY <3>2, <3>3
  <2> QED BY <1>10, <2>3, <2>4
<1>11. CASE ActionWriteFails
  <2>1. /\ UNCHANGED <<at, copies, tx>> /\ pc' = "ready" /\ Toward({"ready", "act", "acted"})
        /\ report'.renamed \subseteq report.renamed /\ report'.deleted \subseteq report.deleted
    BY <1>11 DEF ActionWriteFails, Toward, TypeInv, Typed
  <2>2. ~Toward({"act"})' /\ To(tx.kind)' = To(tx.kind)
    BY <2>1 DEF Toward, To, Writing
  <2> QED BY <2>1, <2>2 DEF RunInv
<1>12. CASE CommitFails
  BY <1>12 DEF CommitFails, CommitsSucceed
<1>13. CASE UNCHANGED vars
  <2>1. UNCHANGED <<at, copies, tx, last, previous, report, pc, then>>
    BY <1>13 DEF vars
  <2>2. \A steps : Toward(steps)' = Toward(steps)
    BY <2>1 DEF Toward
  <2>3. Undone' = Undone /\ RenamePending(last)' = RenamePending(last)
        /\ DeletePending(last)' = DeletePending(last) /\ To(tx.kind)' = To(tx.kind)
    BY <2>1 DEF Undone, LastBecomes, RenamePending, DeletePending, To
  <2>4. TransactionInv(Undone, at, copies)' = TransactionInv(Undone', at, copies)
    BY <2>1 DEF TransactionInv, Sound, ActionsInv, ImagesInv, DoneInv
  <2> QED BY <2>1, <2>2, <2>3, <2>4 DEF RunInv
<1> QED
  BY <1>3, <1>4, <1>5, <1>6, <1>7, <1>8, <1>9, <1>10, <1>11, <1>12, <1>13
     DEF Next, Progress, RunStep, Recovery

\* A transaction that has not left Prepared may change its after-images.
LEMMA StillPrepared ==
    ASSUME InstallInv(tx), tx.stage = "Prepared", tx'.stage = "Prepared",
           tx'.before = tx.before, UNCHANGED <<incomingDb, comicDb>>
    PROVE  InstallInv(tx)'
BY DEF InstallInv, SourceUntouched, DestinationIn, SourceIn

\* A journal that was written before stays as true of the catalogs as it was.
LEMMA SameInstall ==
    ASSUME NEW t, InstallInv(t), UNCHANGED <<incomingDb, comicDb>>
    PROVE  InstallInv(t)'
BY DEF InstallInv, SourceUntouched, DestinationIn, SourceIn

\* The settled images and the actions that were carried out.
LEMMA AppliedLast ==
    ASSUME CommitsSucceed, TypeInv, RecordsInv, RunInv, MarkApplied
    PROVE  TransactionInv(tx', at, copies) /\ tx'.before = tx.before /\ tx'.stage = "Prepared"
<1>0. /\ tx \in Transactions /\ last \in Books /\ at \in [Books -> Places]
      /\ tx.kind \in {"Adoption", "Undo", "Discard"}
      /\ tx.renames \in [Books -> Statuses] /\ tx.deletes \in [Books -> Statuses]
      /\ tx.before \in Images /\ tx.after \in Images /\ tx.stage = "Prepared"
      /\ pc = "acted" /\ (RenamePending(last) \/ DeletePending(last))
      /\ TransactionInv(tx, at, copies) /\ copies \subseteq Books
  BY WorkerParts DEF RecordsInv, Active, TypeInv, StageInv, Toward, MarkApplied, RunInv
<1> DEFINE settled == LastBecomes("Applied")
           rest == IF tx.kind = "Discard" THEN settled.after.incoming \ {last}
                                          ELSE settled.after.incoming
<1>1. /\ settled \in Transactions /\ settled.before = tx.before /\ settled.after = tx.after
      /\ settled.kind = tx.kind /\ settled.stage = "Prepared"
      /\ RenamePending(last) => /\ settled.renames = [tx.renames EXCEPT ![last] = "Applied"]
                                /\ settled.deletes = tx.deletes
      /\ ~RenamePending(last) => /\ settled.deletes = [tx.deletes EXCEPT ![last] = "Applied"]
                                 /\ settled.renames = tx.renames
  BY <1>0, SettledType DEF Statuses
<1>2. tx' = [settled EXCEPT !.after.incoming = rest]
  BY DEF MarkApplied, Write
<1>3. TransactionInv(settled, at, copies)
  <2>1. CASE RenamePending(last)
    <3>1. at[last] = To(tx.kind)
      BY <1>0, <2>1 DEF RunInv
    <3> HIDE DEF settled
    <3> QED BY <1>0, <1>1, <2>1, <3>1, SettleRename DEF RenamePending, Statuses
  <2>2. CASE ~RenamePending(last)
    <3>1. tx.kind = "Discard" \/ last \notin copies
      BY <1>0, <2>2 DEF RunInv
    <3> HIDE DEF settled
    <3> QED BY <1>0, <1>1, <2>2, <3>1, SettleDelete DEF DeletePending, Statuses
  <2> QED BY <2>1, <2>2
<1>4. tx.kind = "Discard" => at[last] = "gone"
  <2>1. tx.kind = "Discard" => ~RenamePending(last)
    BY <1>0 DEF TransactionInv, ActionsInv, RenamePending
  <2> QED BY <1>0, <2>1 DEF RunInv
<1> HIDE DEF settled
<1>5. /\ tx'.kind = settled.kind /\ tx'.before = settled.before /\ tx'.stage = settled.stage
      /\ tx'.renames = settled.renames /\ tx'.deletes = settled.deletes
      /\ tx'.after.incoming = rest /\ tx'.after.database = settled.after.database
  BY <1>0, <1>1, <1>2 DEF Transactions, Images
<1>6. CASE tx.kind # "Discard"
  <2>1. tx'.after.incoming = settled.after.incoming
    BY <1>5, <1>6
  <2> QED BY <1>1, <1>3, <1>5, <2>1 DEF TransactionInv, ActionsInv, ImagesInv, DoneInv, Listed
<1>7. CASE tx.kind = "Discard"
  <2>1. tx'.after.incoming = settled.after.incoming \ {last}
    BY <1>5, <1>7
  <2>2. ImagesInv(tx', tx'.after, at)
    BY <1>1, <1>3, <1>4, <1>5, <1>7, <2>1 DEF TransactionInv, ImagesInv, Listed
  <2>3. ActionsInv(tx', at, copies) /\ Sound(tx'.before, at, copies)
    BY <1>1, <1>3, <1>5 DEF TransactionInv, ActionsInv
  <2>4. DoneInv(tx', tx'.after, at, copies)
    BY <1>1, <1>3, <1>5, <1>7 DEF TransactionInv, DoneInv
  <2> QED BY <1>1, <1>5, <2>2, <2>3, <2>4 DEF TransactionInv
<1> QED BY <1>1, <1>5, <1>6, <1>7

\* The images the organizer's finish makes from the run's report.
LEMMA ReportedParts ==
    ASSUME tx \in Transactions, tx.kind \in {"Adoption", "Undo"},
           report.renamed \in SUBSET Books, report.deleted \in SUBSET Books
    PROVE  /\ tx.kind = "Adoption" =>
                 /\ Reported.incoming = tx.before.incoming \ report.renamed
                 /\ Reported.database.books = tx.before.database.books \cup report.renamed
           /\ tx.kind = "Undo" =>
                 /\ Reported.incoming = tx.before.incoming \cup report.renamed
                 /\ Reported.database.books = tx.before.database.books \ report.renamed
           /\ Reported.database.copies = tx.before.database.copies \ report.deleted
<1>0. tx.before \in Images
  BY TransactionParts
<1> DEFINE moved == MoveRecords(tx.before, tx.kind, report.renamed)
           image == DropCopies(moved, tx.kind, report.deleted)
<1>1. moved \in Images /\ image \in Images
  BY <1>0, MoveType
<1>2. /\ image.incoming = moved.incoming /\ image.database.books = moved.database.books
      /\ image.database.copies = moved.database.copies \ report.deleted
  <2>1. moved.database \in Databases
    BY <1>1, ImageParts
  <2> HIDE DEF moved
  <2> QED BY <1>0, <1>1, <2>1 DEF DropCopies, Images, Databases
<1>3. Reported.incoming = image.incoming /\ Reported.database = image.database
  <2> HIDE DEF image
  <2>1. Reported = CASE tx.kind = "Adoption" /\ report.renamed # {} ->
                          [image EXCEPT !.log = report.renamed]
                     [] tx.kind = "Undo" -> [image EXCEPT !.log = @ \ report.renamed]
                     [] OTHER -> image
    BY DEF Reported, image
  <2>2. Reported \in {image, [image EXCEPT !.log = report.renamed],
                      [image EXCEPT !.log = @ \ report.renamed]}
    BY <2>1
  <2> QED BY <1>1, <2>2 DEF Images
<1>4. /\ tx.kind = "Adoption" =>
            /\ moved.incoming = tx.before.incoming \ report.renamed
            /\ moved.database.books = tx.before.database.books \cup report.renamed
      /\ tx.kind = "Undo" =>
            /\ moved.incoming = tx.before.incoming \cup report.renamed
            /\ moved.database.books = tx.before.database.books \ report.renamed
      /\ moved.database.copies = tx.before.database.copies
  BY <1>0, MoveParts
<1> HIDE DEF moved, image
<1> QED BY <1>2, <1>3, <1>4

LEMMA ReportedImages ==
    ASSUME TypeInv, RecordsInv, RunInv, FinishLoop, tx.kind # "Discard"
    PROVE  TransactionInv(tx', at, copies) /\ tx'.before = tx.before /\ tx'.stage = "Prepared"
<1>0. /\ tx \in Transactions /\ at \in [Books -> Places] /\ copies \subseteq Books
      /\ tx.kind \in {"Adoption", "Undo"} /\ tx.before \in Images /\ tx.after \in Images
      /\ pc = "ready" /\ tx.stage = "Prepared" /\ TransactionInv(tx, at, copies)
      /\ report.renamed \in SUBSET Books /\ report.deleted \in SUBSET Books
  BY WorkerParts DEF RecordsInv, Active, TypeInv, Typed, StageInv, Toward, FinishLoop
<1>1. /\ \A b \in report.renamed : at[b] = To(tx.kind) /\ b \in Listed(tx.before)
      /\ report.deleted \cap copies = {}
      /\ tx.kind = "Adoption" => report.renamed \subseteq tx.before.incoming
      /\ tx.kind = "Undo" => report.renamed \subseteq tx.before.database.books
  BY <1>0 DEF RunInv, Toward
<1>5. /\ tx'.kind = tx.kind /\ tx'.before = tx.before /\ tx'.stage = "Prepared"
      /\ tx'.renames = tx.renames /\ tx'.deletes = tx.deletes /\ tx'.after = Reported
  BY <1>0 DEF FinishLoop, Write, Transactions
<1>6. /\ tx.kind = "Adoption" =>
            /\ tx'.after.incoming = tx.before.incoming \ report.renamed
            /\ tx'.after.database.books = tx.before.database.books \cup report.renamed
      /\ tx.kind = "Undo" =>
            /\ tx'.after.incoming = tx.before.incoming \cup report.renamed
            /\ tx'.after.database.books = tx.before.database.books \ report.renamed
      /\ tx'.after.database.copies = tx.before.database.copies \ report.deleted
  BY <1>0, <1>5, ReportedParts
<1>8. Sound(tx'.before, at, copies) /\ ActionsInv(tx', at, copies)
  BY <1>0, <1>5 DEF TransactionInv, ActionsInv
<1>9. ImagesInv(tx', tx'.after, at)
  <2>1. Listed(tx'.after) = Listed(tx.before)
    BY <1>0, <1>1, <1>6 DEF Listed
  <2>2. Sound(tx.before, at, copies)
    BY <1>0 DEF TransactionInv
  <2>3. \A b \in tx'.after.database.books : at[b] # "gone"
    BY <1>0, <1>1, <1>6, <2>2 DEF Sound, To
  <2>4. tx'.after.incoming \cap tx'.after.database.books = {}
    BY <1>0, <1>1, <1>6, <2>2 DEF Sound
  <2> QED BY <1>0, <1>5, <1>6, <2>1, <2>3, <2>4 DEF ImagesInv
<1>10. DoneInv(tx', tx'.after, at, copies)
  BY <1>0, <1>1, <1>5, <1>6 DEF DoneInv, To
<1> QED BY <1>5, <1>8, <1>9, <1>10 DEF TransactionInv

LEMMA RecordsStep ==
    ASSUME CommitsSucceed
    PROVE  TypeInv /\ ControlInv /\ LinkInv /\ RunInv /\ RecordsInv /\ [Next]_vars
              => RecordsInv'
<1> SUFFICES ASSUME TypeInv, ControlInv, LinkInv, RunInv, RecordsInv, [Next]_vars
             PROVE  RecordsInv'
  OBVIOUS
<1>0. /\ tx \in Transactions /\ last \in Books /\ at \in [Books -> Places]
      /\ tx.kind \in {"Adoption", "Undo", "Discard"} /\ tx.before \in Images
      /\ tx.after \in Images /\ copies \subseteq Books
      /\ tx.renames \in [Books -> Statuses] /\ tx.deletes \in [Books -> Statuses]
      /\ (pc \in Writing => then \in AfterWrite)
      /\ (journal # NoJournal => journal \in Transactions) /\ NoJournal # tx
      /\ tx' \in Transactions
  BY WorkerParts, TypeStep DEF TypeInv, Typed
<1> USE DEF disk, files, catalogs, ui, run, bounds
<1>a. Active => TransactionInv(tx, at, copies) /\ InstallInv(tx)
  BY DEF RecordsInv
<1>b. journal # NoJournal => TransactionInv(journal, at, copies) /\ InstallInv(journal)
  BY DEF RecordsInv
<1>c. Active /\ journal # NoJournal => journal.before = tx.before /\ journal.kind = tx.kind
  BY DEF LinkInv
\* Nothing that the records are about changes, and the worker keeps its transaction
\* or leaves a journal.
<1>1. ASSUME UNCHANGED <<at, copies, incomingDb, comicDb, journal, tx>>, Active,
             Active' \/ journal # NoJournal
      PROVE  RecordsInv'
  <2>1. \A t : InstallInv(t) => InstallInv(t)'
    BY <1>1, SameInstall
  <2>2. InstallInv(tx)' = InstallInv(tx)
    BY <1>1 DEF InstallInv, SourceUntouched, DestinationIn, SourceIn
  <2>3. journal # NoJournal => InstallInv(journal)'
    BY <1>1, <1>b DEF InstallInv, SourceUntouched, DestinationIn, SourceIn
  <2> QED BY <1>1, <1>a, <1>b, <2>2, <2>3 DEF RecordsInv
\* The worker's transaction changes.
<1>2. ASSUME UNCHANGED <<at, copies, incomingDb, comicDb, journal>>, Active, Active',
             TransactionInv(tx', at, copies), InstallInv(tx)'
      PROVE  RecordsInv'
  <2>1. journal # NoJournal => InstallInv(journal)'
    BY <1>2, <1>b DEF InstallInv, SourceUntouched, DestinationIn, SourceIn
  <2> QED BY <1>2, <1>b, <2>1 DEF RecordsInv
\* A file changes, and the transaction with it or not.
<1>3. ASSUME UNCHANGED <<incomingDb, comicDb, journal>>, Active, Active',
             TransactionInv(tx', at', copies'), InstallInv(tx)',
             \A t \in Transactions : t.kind = tx.kind /\ t.before = tx.before
                => FilesChange(t, at, at', copies, copies')
      PROVE  RecordsInv'
  <2>1. journal # NoJournal => InstallInv(journal)'
    BY <1>3, <1>b DEF InstallInv, SourceUntouched, DestinationIn, SourceIn
  <2>2. journal # NoJournal => TransactionInv(journal, at', copies')
    BY <1>0, <1>3, <1>b, <1>c, FilesStep
  <2> QED BY <1>3, <2>1, <2>2 DEF RecordsInv
<1>4. CASE StoreBlobs \/ DropStale
  <2>1. UNCHANGED <<at, copies, incomingDb, comicDb, journal, tx>> /\ Active /\ Active'
    BY <1>0, <1>4 DEF StoreBlobs, DropStale, Active, AfterWrite, Writing, Steps
  <2> QED BY <1>1, <2>1
<1>5. CASE ReplaceJournal
  <2>1. UNCHANGED <<at, copies, incomingDb, comicDb, tx>> /\ Active /\ journal' = tx /\ Active'
    BY <1>5 DEF ReplaceJournal, Active
  <2>2. InstallInv(tx)' /\ InstallInv(journal)'
    BY <1>a, <2>1 DEF InstallInv, SourceUntouched, DestinationIn, SourceIn
  <2> QED BY <1>a, <2>1, <2>2 DEF RecordsInv
<1>6. CASE RemoveJournal
  <2>1. pc = "remove" /\ tx.stage = "Committed" /\ NoPending(tx) /\ Active /\ ~Active'
        /\ journal' = NoJournal /\ UNCHANGED <<at, copies, incomingDb, comicDb>>
    BY <1>6 DEF RemoveJournal, Active, ControlInv, Toward, TypeInv, StageInv
  <2>2. Sound(tx.after, at, copies)
    BY <1>0, <1>a, <2>1, SoundAfter
  <2>3. incomingDb = tx.after.incoming /\ comicDb = tx.after.database
    BY <1>a, <2>1 DEF InstallInv, SourceIn, DestinationIn
  <2> QED BY <2>1, <2>2, <2>3 DEF RecordsInv, Sound, Listed, Catalogs
<1>7. CASE SweepSidecars \/ Land
  <2>1. ~Active /\ ~Active' /\ journal = NoJournal
        /\ UNCHANGED <<at, copies, incomingDb, comicDb, journal>>
    BY <1>7 DEF SweepSidecars, Land, Active, ControlInv
  <2> QED BY <2>1 DEF RecordsInv, Sound, Listed, Catalogs
<1>8. ASSUME NEW kind \in Kinds, Begin(kind) PROVE RecordsInv'
  <2>1. /\ pc = "idle" /\ journal = NoJournal /\ ~Active /\ session = Catalogs
        /\ Sound(Catalogs, at, copies) /\ UNCHANGED <<at, copies, incomingDb, comicDb, journal>>
        /\ tx' = NewTransaction(kind)
    BY <1>8 DEF Begin, Write, Active, ControlInv, RecordsInv
  <2>2. /\ tx'.before.incoming = incomingDb /\ tx'.before.database = comicDb
        /\ tx'.after = tx'.before /\ tx'.stage = "Prepared"
        /\ tx'.renames = [b \in Books |-> "None"] /\ tx'.deletes = [b \in Books |-> "None"]
    BY <2>1 DEF NewTransaction, Live, Catalogs
  <2>3. Sound(tx'.before, at, copies)
    BY <2>1, <2>2 DEF Sound, Listed, Catalogs
  <2>4. TransactionInv(tx', at, copies)
    BY <2>2, <2>3 DEF TransactionInv, ActionsInv, ImagesInv, DoneInv, Listed, Sound
  <2>5. InstallInv(tx)'
    BY <2>1, <2>2 DEF InstallInv, SourceUntouched
  <2>6. Active'
    BY <1>8 DEF Begin, Write, Active
  <2> QED BY <2>1, <2>4, <2>5, <2>6 DEF RecordsInv
<1>9. ASSUME NEW b \in Books, PrepareRename(b) \/ PrepareDelete(b) PROVE RecordsInv'
  <2>1. /\ tx'.kind = tx.kind /\ tx'.before = tx.before /\ tx'.stage = tx.stage
        /\ pc = "ready" /\ Active /\ Active'
        /\ UNCHANGED <<at, copies, incomingDb, comicDb, journal>>
    BY <1>0, <1>9 DEF PrepareRename, PrepareDelete, Write, Transactions, Active
  <2>2. tx.stage = "Prepared" /\ ActionsInv(tx, at, copies) /\ Sound(tx.before, at, copies)
    BY <1>a, <2>1 DEF TypeInv, StageInv, Toward, TransactionInv
  <2>3. InstallInv(tx)'
    BY <1>a, <2>1, <2>2, StillPrepared
  <2>4. TransactionInv(tx', at, copies)
    <3>1. CASE PrepareRename(b)
      <4>1. /\ tx'.renames = [tx.renames EXCEPT ![b] = "Pending"] /\ tx'.deletes = tx.deletes
            /\ tx'.after = MoveRecords(tx.after, tx.kind, {b}) /\ tx.renames[b] = "None"
        BY <1>0, <3>1 DEF PrepareRename, Write, Transactions
      <4>2. /\ \/ tx.kind = "Adoption" /\ b \in tx.before.incoming /\ b \notin copies
               \/ tx.kind = "Undo" /\ b \in tx.before.database.books
            /\ at[b] # "gone"
        BY <2>2, <3>1 DEF PrepareRename, CanRename, FromExists, ToExists, PathExists, From, To,
           Sound
      <4> QED BY <1>0, <1>a, <2>1, <2>2, <4>1, <4>2, PrepareRenameImage
    <3>2. CASE PrepareDelete(b)
      <4>1. /\ tx'.deletes = [tx.deletes EXCEPT ![b] = "Pending"] /\ tx'.renames = tx.renames
            /\ tx'.after = DropCopies(tx.after, tx.kind, {b}) /\ tx.deletes[b] = "None"
        BY <1>0, <3>2 DEF PrepareDelete, Write, Transactions
      <4>2. b \in tx.before.incoming /\ (tx.kind = "Discard" => at[b] # "destination")
        BY <3>2 DEF PrepareDelete, DeletedExists
      <4> QED BY <1>0, <1>a, <2>1, <2>2, <4>1, <4>2, PrepareDeleteImage
    <3> QED BY <1>9, <3>1, <3>2
  <2> QED BY <1>2, <2>1, <2>3, <2>4
<1>10. CASE Rename \/ Delete
  <2>1. /\ pc = "act" /\ Active /\ Active' /\ UNCHANGED <<tx, incomingDb, comicDb, journal>>
    BY <1>10 DEF Rename, Delete, Active
  <2>2. \A t \in Transactions : t.kind = tx.kind /\ t.before = tx.before
           => FilesChange(t, at, at', copies, copies')
    <3>1. CASE Rename
      BY <1>0, <2>1, <3>1, RenameMoves DEF Rename
    <3>2. CASE Delete
      <4>1. DeletePending(last)
        BY <2>1, <3>2 DEF Delete, RunInv, Toward
      <4> QED BY <1>0, <2>1, <3>2, <4>1, DeleteDeletes DEF Delete
    <3> QED BY <1>10, <3>1, <3>2
  <2>3. InstallInv(tx)'
    BY <1>a, <2>1 DEF InstallInv, SourceUntouched, DestinationIn, SourceIn
  <2>4. TransactionInv(tx, at', copies')
    BY <1>0, <1>a, <2>1, <2>2, FilesStep
  <2> QED BY <1>3, <2>1, <2>2, <2>3, <2>4
<1>11. CASE MarkApplied \/ MarkFailed
  <2>1. /\ pc \in {"act", "acted"} /\ Active /\ Active'
        /\ UNCHANGED <<at, copies, incomingDb, comicDb, journal>>
    BY <1>11 DEF MarkApplied, MarkFailed, Write, Active
  <2>2. tx.stage = "Prepared"
    BY <2>1 DEF TypeInv, StageInv, Toward
  <2>3. TransactionInv(tx', at, copies) /\ tx'.before = tx.before /\ tx'.stage = "Prepared"
    <3>1. CASE MarkApplied
      BY <3>1, AppliedLast
    <3>2. CASE MarkFailed
      <4>1. tx' = Undone /\ TransactionInv(Undone, at, copies)
        BY <3>2 DEF MarkFailed, Write, Undone, RunInv, Toward
      <4>2. LastBecomes("Failed") \in Transactions /\ LastBecomes("Failed").before = tx.before
            /\ LastBecomes("Failed").stage = "Prepared"
        BY <1>0, <2>2, SettledType DEF Statuses
      <4>3. Undone.before = tx.before /\ Undone.stage = "Prepared"
        BY <4>2 DEF Undone, Transactions
      <4> QED BY <4>1, <4>3
    <3> QED BY <1>11, <3>1, <3>2
  <2>4. InstallInv(tx)'
    BY <1>a, <2>1, <2>2, <2>3, StillPrepared
  <2> QED BY <1>2, <2>1, <2>3, <2>4
<1>12. CASE FinishLoop
  <2>1. pc = "ready" /\ Active /\ Active' /\ UNCHANGED <<at, copies, incomingDb, comicDb, journal>>
    BY <1>12 DEF FinishLoop, Write, Active
  <2>2. CASE tx.kind = "Discard"
    BY <1>1, <1>12, <2>1, <2>2 DEF FinishLoop
  <2>3. CASE tx.kind # "Discard"
    <3>1. TransactionInv(tx', at, copies) /\ tx'.before = tx.before /\ tx'.stage = "Prepared"
      BY <1>12, <2>3, ReportedImages
    <3>2. tx.stage = "Prepared"
      BY <2>1 DEF TypeInv, StageInv, Toward
    <3>3. InstallInv(tx)'
      BY <1>a, <2>1, <3>1, <3>2, StillPrepared
    <3> QED BY <1>2, <2>1, <3>1, <3>3
  <2> QED BY <2>2, <2>3
<1>13. CASE Commit \/ Reconciled
  <2>1. UNCHANGED <<at, copies, incomingDb, comicDb, journal, tx>> /\ Active /\ Active'
    BY <1>13 DEF Commit, Reconciled, Write, Active
  <2> QED BY <1>1, <2>1
<1>14. ASSUME NEW b \in Books,
              \/ ApplyRename(b) \/ ApplyDelete(b) \/ ReconcileRename(b) \/ ReconcileDelete(b)
       PROVE  RecordsInv'
  <2>1. /\ tx'.kind = tx.kind /\ tx'.before = tx.before /\ tx'.after = tx.after
        /\ tx'.stage = tx.stage
        /\ Active /\ Active' /\ UNCHANGED <<incomingDb, comicDb, journal>>
    BY <1>0, <1>14 DEF ApplyRename, ApplyDelete, ReconcileRename, ReconcileDelete, Write,
       Transactions, Active
  <2>2. InstallInv(tx)'
    BY <1>a, <2>1 DEF InstallInv, SourceUntouched, DestinationIn, SourceIn
  <2>3. CASE ApplyRename(b) \/ ReconcileRename(b)
    <3>1. /\ RenamePending(b) /\ UNCHANGED copies
          /\ tx'.renames = [tx.renames EXCEPT ![b] = "Applied"] /\ tx'.deletes = tx.deletes
      BY <1>0, <2>3 DEF ApplyRename, ReconcileRename, Write, Transactions
    <3>2. /\ at'[b] = To(tx.kind)
          /\ \A t \in Transactions : t.kind = tx.kind /\ t.before = tx.before
                => FilesChange(t, at, at', copies, copies')
      <4>1. CASE CanRename(b)
        <5>1. at' = Renamed(b)
          BY <2>3, <4>1 DEF ApplyRename, ReconcileRename
        <5> QED BY <1>0, <2>1, <3>1, <4>1, <5>1, RenameMoves
      <4>2. CASE ~CanRename(b)
        <5>1. at' = at /\ ToExists(b) /\ ~FromExists(b)
          BY <2>3, <4>2 DEF ApplyRename, ReconcileRename, CanRename, FromExists, ToExists,
             PathExists
        <5>2. tx.kind = "Adoption" => b \notin copies
          BY <1>a, <2>1, <3>1 DEF TransactionInv, ActionsInv, RenamePending
        <5>3. tx.kind # "Discard"
          BY <1>a, <2>1, <3>1 DEF TransactionInv, ActionsInv, RenamePending
        <5>4. at[b] = To(tx.kind)
          BY <1>0, <5>1, <5>2, <5>3 DEF ToExists, PathExists, To
        <5> QED BY <3>1, <5>1, <5>4 DEF FilesChange
      <4> QED BY <4>1, <4>2
    <3>3. TransactionInv(tx, at', copies')
      BY <1>0, <1>a, <2>1, <3>2, FilesStep
    <3>4. TransactionInv(tx', at', copies')
      BY <1>0, <2>1, <3>1, <3>2, <3>3, SettleRename DEF RenamePending, Statuses
    <3> QED BY <1>3, <2>1, <2>2, <3>2, <3>4
  <2>4. CASE ApplyDelete(b) \/ ReconcileDelete(b)
    <3>1. /\ DeletePending(b)
          /\ tx'.deletes = [tx.deletes EXCEPT ![b] = "Applied"] /\ tx'.renames = tx.renames
      BY <1>0, <2>4 DEF ApplyDelete, ReconcileDelete, Write, Transactions
    <3>2. /\ tx.kind = "Discard" \/ b \notin copies'
          /\ \A t \in Transactions : t.kind = tx.kind /\ t.before = tx.before
                => FilesChange(t, at, at', copies, copies')
      <4>1. CASE ApplyDelete(b)
        BY <1>0, <2>1, <3>1, <4>1, DeleteDeletes DEF ApplyDelete
      <4>2. CASE ReconcileDelete(b)
        BY <4>2 DEF ReconcileDelete, DeletedExists, FilesChange
      <4> QED BY <2>4, <4>1, <4>2
    <3>3. TransactionInv(tx, at', copies')
      BY <1>0, <1>a, <2>1, <3>2, FilesStep
    <3>4. TransactionInv(tx', at', copies')
      BY <1>0, <2>1, <3>1, <3>2, <3>3, SettleDelete DEF DeletePending, Statuses
    <3> QED BY <1>3, <2>1, <2>2, <3>2, <3>4
  <2> QED BY <1>14, <2>3, <2>4
<1>15. CASE AllApplied \/ InstallAuxiliary \/ WriteCommitted \/ RecordReconciled
  <2>1. /\ tx'.kind = tx.kind /\ tx'.before = tx.before /\ tx'.after = tx.after
        /\ tx'.renames = tx.renames /\ tx'.deletes = tx.deletes
        /\ \/ tx'.stage = "ExternalApplied"
           \/ tx.stage = "SourceSaved" /\ tx'.stage = "AuxiliarySaved"
           \/ tx.stage = "AuxiliarySaved" /\ tx'.stage = "Committed"
    BY <1>0, <1>15 DEF AllApplied, InstallAuxiliary, WriteCommitted, RecordReconciled, Write,
       Transactions
  <2>2. Active /\ Active' /\ UNCHANGED <<at, copies, incomingDb, comicDb, journal>>
    BY <1>15 DEF AllApplied, InstallAuxiliary, WriteCommitted, RecordReconciled, Write, Active
  <2>3. NoPending(tx)
    BY <1>15 DEF AllApplied, InstallAuxiliary, WriteCommitted, RecordReconciled, SomePending,
       RenamePending, DeletePending, NoPending, TypeInv, StageInv, Toward
  <2>4. TransactionInv(tx', at, copies)
    BY <1>a, <2>1, <2>2, <2>3, SameActions DEF NoPending
  <2>5. InstallInv(tx)'
    BY <1>a, <2>1, <2>2 DEF InstallInv, SourceUntouched, DestinationIn, SourceIn
  <2> QED BY <1>2, <2>2, <2>4, <2>5
<1>16. CASE InstallDestination \/ InstallSource
  <2>1. /\ pc = "install" /\ journal = tx /\ Active /\ Active' /\ NoPending(tx)
        /\ UNCHANGED <<at, copies, journal>>
    BY <1>16 DEF InstallDestination, InstallSource, Write, Active, ControlInv, TypeInv, StageInv,
       Toward
  <2>2. /\ tx'.kind = tx.kind /\ tx'.before = tx.before /\ tx'.after = tx.after
        /\ tx'.renames = tx.renames /\ tx'.deletes = tx.deletes
    BY <1>0, <1>16 DEF InstallDestination, InstallSource, Write, Transactions
  <2>3. TransactionInv(tx', at, copies)
    BY <1>a, <2>1, <2>2, SameActions DEF NoPending
  <2>4. tx.kind = "Discard" => tx.before.database = tx.after.database
    BY <1>a, <2>1 DEF TransactionInv, ImagesInv
  <2>5. CASE InstallDestination
    <3>1. tx.stage = "ExternalApplied" /\ tx'.stage = "DestinationSaved"
      BY <1>0, <2>5 DEF InstallDestination, Write, Transactions
    <3>2. IF tx.kind = "Adoption" THEN comicDb' = tx.after.database /\ UNCHANGED incomingDb
                                  ELSE incomingDb' = tx.after.incoming /\ UNCHANGED comicDb
      BY <2>5 DEF InstallDestination, LibraryFirst, SaveIncoming, SaveLibrary
    <3>3. InstallInv(tx)' /\ InstallInv(journal)'
      BY <1>0, <1>a, <2>1, <2>2, <3>1, <3>2
         DEF InstallInv, SourceUntouched, DestinationIn, SourceIn
    <3> QED BY <1>a, <2>1, <2>3, <3>3 DEF RecordsInv
  <2>6. CASE InstallSource
    <3>1. tx.stage = "DestinationSaved" /\ tx'.stage = "SourceSaved"
      BY <1>0, <2>6 DEF InstallSource, Write, Transactions
    <3>2. CASE tx.kind = "Adoption"
      <4>1. incomingDb' = tx.after.incoming /\ UNCHANGED comicDb
        BY <2>6, <3>2 DEF InstallSource, LibraryFirst, SaveIncoming
      <4>2. InstallInv(tx)' /\ InstallInv(journal)'
        BY <1>0, <1>a, <2>1, <2>2, <3>1, <3>2, <4>1
           DEF InstallInv, SourceUntouched, DestinationIn, SourceIn
      <4> QED BY <1>a, <2>1, <2>3, <4>2 DEF RecordsInv
    <3>3. CASE tx.kind # "Adoption"
      <4>1. comicDb' = tx.after.database /\ UNCHANGED incomingDb
        <5>1. tx.kind = "Discard" => comicDb = tx.after.database
          BY <1>a, <2>1, <2>4 DEF InstallInv
        <5> QED BY <2>6, <3>3, <5>1 DEF InstallSource, LibraryFirst, SaveLibrary
      <4>2. InstallInv(tx)' /\ InstallInv(journal)'
        BY <1>0, <1>a, <2>1, <2>2, <3>1, <3>3, <4>1
           DEF InstallInv, SourceUntouched, DestinationIn, SourceIn
      <4> QED BY <1>a, <2>1, <2>3, <4>2 DEF RecordsInv
    <3> QED BY <3>2, <3>3
  <2> QED BY <1>16, <2>5, <2>6
<1>17. CASE Startup
  <2>1. ~Active /\ UNCHANGED <<at, copies, incomingDb, comicDb, journal>>
    BY <1>17 DEF Startup, Active
  <2>2. CASE journal = NoJournal
    <3>1. ~Active'
      BY <1>17, <2>2 DEF Startup, Active
    <3> QED BY <2>1, <2>2, <3>1 DEF RecordsInv, Sound, Listed, Catalogs
  <2>3. CASE journal # NoJournal
    <3>1. tx' = journal /\ journal' = journal
      BY <1>17, <2>3 DEF Startup
    <3>2. InstallInv(tx)' /\ InstallInv(journal)'
      BY <1>b, <2>1, <2>3, <3>1 DEF InstallInv, SourceUntouched, DestinationIn, SourceIn
    <3> QED BY <1>b, <2>1, <2>3, <3>1, <3>2 DEF RecordsInv
  <2> QED BY <2>2, <2>3
<1>18. CASE ReconcileConflict \/ ActionWriteFails
  <2>1. /\ UNCHANGED <<at, copies, incomingDb, comicDb, journal, tx>> /\ Active
        /\ Active' \/ journal # NoJournal
    BY <1>18 DEF ReconcileConflict, ActionWriteFails, Active, Writing, ControlInv
  <2> QED BY <1>1, <2>1
<1>19. CASE Close
  <2>1. /\ ~Active /\ ~Active' /\ journal = NoJournal
        /\ UNCHANGED <<at, copies, incomingDb, comicDb, journal>>
    BY <1>19 DEF Close, Active, ControlInv, Catalogs
  <2> QED BY <2>1 DEF RecordsInv, Sound, Listed, Catalogs
<1>20. CASE Crash
  <2>1. UNCHANGED <<at, copies, incomingDb, comicDb, journal, tx>> /\ ~Active'
    BY <1>20 DEF Crash, Active
  <2>2. CASE journal # NoJournal
    <3>1. InstallInv(journal)'
      BY <1>b, <2>1, <2>2 DEF InstallInv, SourceUntouched, DestinationIn, SourceIn
    <3> QED BY <1>b, <2>1, <2>2, <3>1 DEF RecordsInv
  <2>3. CASE journal = NoJournal
    <3>1. Sound(Catalogs, at, copies)
      <4>1. CASE Active
        <5>1. tx.stage = "Prepared"
          BY <2>3, <4>1 DEF LinkInv
        <5> QED BY <1>a, <4>1, <5>1 DEF InstallInv, TransactionInv, Sound, Listed, Catalogs
      <4>2. CASE ~Active
        BY <2>3, <4>2 DEF RecordsInv
      <4> QED BY <4>1, <4>2
    <3> QED BY <2>1, <2>3, <3>1 DEF RecordsInv, Sound, Listed, Catalogs
  <2> QED BY <2>2, <2>3
<1>21. CASE CommitFails
  BY <1>21 DEF CommitFails, CommitsSucceed
<1>22. CASE UNCHANGED vars
  <2>1. UNCHANGED <<at, copies, incomingDb, comicDb, journal, tx, pc>>
    BY <1>22 DEF vars
  <2> QED BY <2>1 DEF RecordsInv, InstallInv, SourceUntouched, DestinationIn, SourceIn, Active,
                      Sound, Listed, Catalogs
<1> QED
  BY <1>4, <1>5, <1>6, <1>7, <1>8, <1>9, <1>10, <1>11, <1>12, <1>13, <1>14, <1>15, <1>16,
     <1>17, <1>18, <1>19, <1>20, <1>21, <1>22 DEF Next, Progress, RunStep, Recovery

LEMMA JournalInit == Init => JournalInv
<1> SUFFICES ASSUME Init PROVE JournalInv
  OBVIOUS
<1>1. ControlInv /\ LinkInv /\ RunInv /\ ~Active /\ journal = NoJournal
  BY DEF Init, ControlInv, LinkInv, RunInv, Active, Toward, Writing, Catalogs
<1>2. Sound(Catalogs, at, copies)
  BY DEF Init, Sound, Listed, Catalogs
<1> QED BY <1>1, <1>2, TypeInit DEF JournalInv, RecordsInv

\* What a run claims about files and catalogs is kept by every step of the worker, by
\* crashes and recoveries, and by failed writes around a file operation.
LEMMA JournalStep ==
    ASSUME CommitsSucceed
    PROVE  JournalInv /\ [Next]_vars => JournalInv'
BY TypeStep, ControlStep, LinkStep, RunStepInv, RecordsStep DEF JournalInv

THEOREM JournalInvariant == ASSUME CommitsSucceed PROVE Spec => []JournalInv
BY JournalInit, JournalStep, PTL DEF Spec

\* No order of files, images, catalogs and crashes loses a record: a book whose file
\* exists is listed by a catalog on disk at every moment (catalog_order, mark_last).
THEOREM RecordIsNeverLost == ASSUME CommitsSucceed PROVE Spec => []RecordNeverLost
<1>1. JournalInv => RecordNeverLost
  <2> SUFFICES ASSUME JournalInv PROVE RecordNeverLost
    OBVIOUS
  <2>0. copies \subseteq Books /\ tx \in Transactions
        /\ (journal # NoJournal => journal \in Transactions)
    BY WorkerParts DEF JournalInv
  <2>1. CASE Active
    BY <2>0, <2>1, InstalledLists DEF JournalInv, RecordsInv
  <2>2. CASE journal # NoJournal
    BY <2>0, <2>2, InstalledLists DEF JournalInv, RecordsInv
  <2>3. CASE ~Active /\ journal = NoJournal
    BY <2>3 DEF JournalInv, RecordsInv, Sound, Listed, Catalogs, RecordNeverLost
  <2> QED BY <2>1, <2>2, <2>3
<1> QED BY <1>1, JournalInvariant, PTL

\* A catalog gains a record only when the file it names is at its path: only an
\* installation gives it one, and by then no action is Pending.
THEOREM RecordsFollow == ASSUME CommitsSucceed PROVE Spec => RecordsFollowFiles
<1>1. JournalInv /\ [Next]_vars
      => [/\ \A b \in incomingDb' \ incomingDb : at[b] = "source"
          /\ \A b \in comicDb'.books \ comicDb.books : at[b] = "destination"]_vars
  <2> SUFFICES ASSUME JournalInv, [Next]_vars
               PROVE  /\ \A b \in incomingDb' \ incomingDb : at[b] = "source"
                      /\ \A b \in comicDb'.books \ comicDb.books : at[b] = "destination"
    OBVIOUS
  <2>0. /\ tx \in Transactions /\ tx.kind \in {"Adoption", "Undo", "Discard"}
        /\ Active => TransactionInv(tx, at, copies) /\ InstallInv(tx)
        /\ tx.after.incoming \subseteq Books /\ tx.after.database.books \subseteq Books
    BY WorkerParts, ImageParts DEF JournalInv, RecordsInv
  <2>1. CASE InstallDestination \/ InstallSource
    <3>1. Active /\ NoPending(tx)
      BY <2>1 DEF InstallDestination, InstallSource, Active, JournalInv, TypeInv, StageInv, Toward
    <3>2. /\ incomingDb' \in {incomingDb, tx.after.incoming}
          /\ comicDb' \in {comicDb, tx.after.database}
      BY <2>1 DEF InstallDestination, InstallSource, SaveIncoming, SaveLibrary
    <3>3. /\ incomingDb \in {tx.before.incoming, tx.after.incoming}
          /\ comicDb \in {tx.before.database, tx.after.database}
      BY <2>0, <3>1 DEF InstallInv
    <3>4. \A b \in tx.after.incoming \ tx.before.incoming : at[b] = "source"
      BY <2>0, <3>1 DEF TransactionInv, ImagesInv, DoneInv, NoPending
    <3>5. \A b \in tx.after.database.books \ tx.before.database.books : at[b] = "destination"
      BY <2>0, <3>1 DEF TransactionInv, ImagesInv, DoneInv, NoPending
    <3> QED BY <3>2, <3>3, <3>4, <3>5
  <2>2. CASE Close
    BY <2>2 DEF Close, JournalInv, ControlInv, Catalogs, catalogs
  <2>3. CASE ~(InstallDestination \/ InstallSource \/ Close)
    <3>1. UNCHANGED <<incomingDb, comicDb>>
      BY <2>3 DEF Next, Progress, RunStep, Recovery, vars, disk, catalogs, Begin, StoreBlobs,
         ReplaceJournal, DropStale, PrepareRename, PrepareDelete, Rename, Delete, MarkApplied,
         MarkFailed, FinishLoop, Commit, ApplyRename, ApplyDelete, AllApplied, InstallAuxiliary,
         WriteCommitted, RemoveJournal, SweepSidecars, Land, Startup, ReconcileRename,
         ReconcileDelete, ReconcileConflict, Reconciled, RecordReconciled, ActionWriteFails,
         CommitFails, Crash
    <3> QED BY <3>1
  <2> QED BY <2>1, <2>2, <2>3
<1> QED BY <1>1, JournalInvariant, PTL DEF RecordsFollowFiles, Spec

(***************************************************************************)
(* The transfer.  Each step of a run is a step of CatalogTransfer or one   *)
(* that it does not see.                                                   *)
(***************************************************************************)

\* A pending action belongs to a transaction that has installed nothing.
LEMMA PendingIsPrepared ==
    ASSUME JournalInv, Active, NEW b \in Books, RenamePending(b) \/ DeletePending(b)
    PROVE  /\ incomingDb = tx.before.incoming /\ comicDb = tx.before.database
           /\ incomingDb \cap comicDb.books = {}
<1>1. TransactionInv(tx, at, copies) /\ InstallInv(tx) /\ tx.stage \in Stages
  BY WorkerParts DEF JournalInv, RecordsInv
<1>2. tx.stage = "Prepared"
  BY <1>1 DEF TransactionInv, ActionsInv, NoPending, RenamePending, DeletePending
<1> QED BY <1>1, <1>2 DEF InstallInv, TransactionInv, Sound

\* A rename that can be carried out takes a file from the one catalog that lists it.
LEMMA RenameTransfers ==
    ASSUME JournalInv, Active, NEW b \in Books, RenamePending(b), CanRename(b),
           at' = Renamed(b), UNCHANGED <<copies, incomingDb, comicDb>>
    PROVE  Transfer!TransferNext
<1>0. /\ incomingDb = tx.before.incoming /\ comicDb = tx.before.database
      /\ incomingDb \cap comicDb.books = {}
  BY PendingIsPrepared
<1>1. ActionsInv(tx, at, copies)
  BY DEF JournalInv, RecordsInv, TransactionInv
<1>2. CASE tx.kind = "Adoption"
  <2>1. at[b] = "source" /\ b \notin copies /\ at' = [at EXCEPT ![b] = "destination"]
    BY <1>2 DEF CanRename, FromExists, ToExists, PathExists, From, To, Renamed
  <2>2. b \in incomingDb
    BY <1>0, <1>1, <1>2 DEF ActionsInv, RenamePending
  <2> QED BY <1>0, <2>1, <2>2
          DEF Transfer!TransferNext, Transfer!Adopt, Transfer!Goes, Transfer!OnlyIncoming
<1>3. CASE tx.kind = "Undo"
  <2>1. (at[b] = "destination" \/ b \in copies) /\ at[b] # "source"
        /\ at' = [at EXCEPT ![b] = "source"]
    BY <1>3 DEF CanRename, FromExists, ToExists, PathExists, From, To, Renamed
  <2>2. b \in comicDb.books
    BY <1>0, <1>1, <1>3 DEF ActionsInv, RenamePending
  <2>3. at[b] = "destination"
    BY <1>0, <2>1, <2>2, WorkerParts
       DEF JournalInv, RecordsInv, TransactionInv, Sound, Places
  <2> QED BY <1>0, <2>2, <2>3, <2>1
          DEF Transfer!TransferNext, Transfer!Return, Transfer!Goes, Transfer!OnlyLibrary
<1>4. tx.kind # "Discard"
  BY <1>1 DEF ActionsInv, RenamePending
<1> QED BY <1>2, <1>3, <1>4, WorkerParts DEF JournalInv

\* So does a deletion: the book's file goes, or the copy that the book overwrites.
LEMMA DeleteTransfers ==
    ASSUME JournalInv, Active, NEW b \in Books, DeletePending(b), DeleteFile(b),
           UNCHANGED <<incomingDb, comicDb>>
    PROVE  Transfer!TransferNext \/ UNCHANGED Transfer!tvars
<1>0. /\ incomingDb = tx.before.incoming /\ incomingDb \cap comicDb.books = {}
      /\ at \in [Books -> Places] /\ copies \subseteq Books
  BY PendingIsPrepared, WorkerParts DEF JournalInv
<1>1. ActionsInv(tx, at, copies)
  BY DEF JournalInv, RecordsInv, TransactionInv
<1>2. b \in incomingDb /\ b \notin comicDb.books
  BY <1>0, <1>1 DEF ActionsInv, DeletePending
<1>3. CASE tx.kind = "Discard"
  <2>1. CASE at[b] = "source"
    <3>1. at' = [at EXCEPT ![b] = "gone"] /\ UNCHANGED copies
      BY <1>0, <1>3, <2>1 DEF DeleteFile
    <3> QED BY <1>2, <2>1, <3>1
            DEF Transfer!TransferNext, Transfer!Discard, Transfer!Goes, Transfer!OnlyIncoming
  <2>2. CASE at[b] # "source"
    <3>1. at' = at /\ UNCHANGED copies
      BY <1>0, <1>3, <2>2 DEF DeleteFile
    <3> QED BY <3>1 DEF Transfer!tvars
  <2> QED BY <2>1, <2>2
<1>4. CASE tx.kind # "Discard"
  <2>1. copies' = copies \ {b} /\ UNCHANGED at
    BY <1>4 DEF DeleteFile
  <2>2. CASE b \in copies
    BY <1>2, <2>1, <2>2 DEF Transfer!TransferNext, Transfer!Overwrite, Transfer!OnlyIncoming
  <2>3. CASE b \notin copies
    BY <2>1, <2>3 DEF Transfer!tvars
  <2> QED BY <2>2, <2>3
<1> QED BY <1>3, <1>4

\* An installed catalog takes what has come and drops what has gone and is listed by the
\* other one: the destination catalog is written first (catalog_order).
LEMMA InstallTransfers ==
    ASSUME JournalInv, InstallDestination \/ InstallSource
    PROVE  Transfer!TransferNext \/ UNCHANGED Transfer!tvars
<1> DEFINE before == tx.before
           after == tx.after
<1>0. /\ Active /\ NoPending(tx) /\ UNCHANGED <<at, copies>>
      /\ InstallDestination => tx.stage = "ExternalApplied"
      /\ InstallSource => tx.stage = "DestinationSaved"
  BY DEF InstallDestination, InstallSource, Active, JournalInv, TypeInv, StageInv, Toward, files
<1>1. /\ TransactionInv(tx, at, copies) /\ InstallInv(tx)
      /\ tx \in Transactions /\ tx.kind \in {"Adoption", "Undo", "Discard"}
      /\ at \in [Books -> Places] /\ copies \subseteq Books
      /\ before.incoming \subseteq Books /\ before.database.books \subseteq Books
      /\ after.incoming \subseteq Books /\ after.database.books \subseteq Books
  BY <1>0, WorkerParts, ImageParts DEF JournalInv, RecordsInv
<1>2. Sound(after, at, copies) /\ Sound(before, at, copies)
  BY <1>0, <1>1, SoundAfter DEF TransactionInv
<1>3. /\ incomingDb \in {before.incoming, after.incoming}
      /\ comicDb \in {before.database, after.database}
      /\ SourceUntouched(tx) \/ DestinationIn(tx)
      /\ InstallSource => DestinationIn(tx)
  BY <1>0, <1>1 DEF InstallInv
<1>4. /\ copies \subseteq after.database.copies
      /\ after.database.copies \subseteq before.database.copies
      /\ tx.kind = "Adoption" => \A b \in after.database.books \ before.database.books :
                                    at[b] = "destination" /\ b \in before.incoming
      /\ tx.kind = "Adoption" => before.database.books \subseteq after.database.books
      /\ tx.kind = "Undo" => \A b \in after.incoming \ before.incoming :
                                at[b] = "source" /\ b \in before.database.books
      /\ tx.kind = "Undo" => before.incoming \subseteq after.incoming
      /\ tx.kind = "Adoption" => after.incoming \subseteq before.incoming
      /\ tx.kind = "Undo" => after.database.books \subseteq before.database.books
      /\ tx.kind = "Discard" => /\ after.incoming \subseteq before.incoming
                                /\ after.database = before.database
      /\ \A b \in (before.incoming \cup before.database.books)
                     \ (after.incoming \cup after.database.books) : at[b] = "gone"
  BY <1>0, <1>1, <1>2 DEF TransactionInv, ImagesInv, DoneInv, NoPending, Sound, Listed
<1>5. /\ before.incoming \cap before.database.books = {}
      /\ \A b \in before.database.books : at[b] # "gone"
  BY <1>2 DEF Sound
<1> HIDE DEF before, after
<1>6. CASE UNCHANGED <<incomingDb, comicDb>>
  BY <1>0, <1>6 DEF Transfer!tvars
<1>7. CASE tx.kind = "Adoption" /\ InstallDestination /\ ~UNCHANGED <<incomingDb, comicDb>>
  <2>1. comicDb' = after.database /\ UNCHANGED incomingDb
    BY <1>7 DEF InstallDestination, LibraryFirst, SaveLibrary, after
  <2>2. comicDb = before.database /\ incomingDb = before.incoming
    BY <1>3, <1>7, <2>1 DEF SourceUntouched, DestinationIn, before, after
  <2> QED BY <1>0, <1>4, <1>7, <2>1, <2>2 DEF Transfer!TransferNext, Transfer!WriteLibrary
<1>8. CASE tx.kind = "Adoption" /\ InstallSource /\ ~UNCHANGED <<incomingDb, comicDb>>
  <2>1. incomingDb' = after.incoming /\ UNCHANGED comicDb
    BY <1>8 DEF InstallSource, LibraryFirst, SaveIncoming, after
  <2>2. comicDb = after.database /\ incomingDb = before.incoming
    BY <1>3, <1>8, <2>1 DEF DestinationIn, before, after
  <2>3. \A b \in before.incoming \ after.incoming :
           at[b] = "gone" \/ (at[b] = "destination" /\ b \in comicDb.books)
    BY <1>4, <1>5, <1>8, <2>2
  <2> QED BY <1>0, <1>4, <1>8, <2>1, <2>2, <2>3
          DEF Transfer!TransferNext, Transfer!WriteIncoming
<1>9. CASE tx.kind = "Undo" /\ InstallDestination /\ ~UNCHANGED <<incomingDb, comicDb>>
  <2>1. incomingDb' = after.incoming /\ UNCHANGED comicDb
    BY <1>9 DEF InstallDestination, LibraryFirst, SaveIncoming, after
  <2>2. comicDb = before.database /\ incomingDb = before.incoming
    BY <1>3, <1>9, <2>1 DEF SourceUntouched, DestinationIn, before, after
  <2> QED BY <1>0, <1>4, <1>9, <2>1, <2>2 DEF Transfer!TransferNext, Transfer!WriteIncoming
<1>10. CASE tx.kind = "Undo" /\ InstallSource /\ ~UNCHANGED <<incomingDb, comicDb>>
  <2>1. comicDb' = after.database /\ UNCHANGED incomingDb
    BY <1>10 DEF InstallSource, LibraryFirst, SaveLibrary, after
  <2>2. incomingDb = after.incoming /\ comicDb = before.database
    BY <1>3, <1>10, <2>1 DEF DestinationIn, before, after
  <2>3. \A b \in before.database.books \ after.database.books :
           at[b] = "source" /\ b \in incomingDb
    BY <1>4, <1>5, <1>10, <2>2
  <2> QED BY <1>0, <1>4, <1>10, <2>1, <2>2, <2>3
          DEF Transfer!TransferNext, Transfer!WriteLibrary
<1>11. CASE tx.kind = "Discard" /\ InstallDestination /\ ~UNCHANGED <<incomingDb, comicDb>>
  <2>1. incomingDb' = after.incoming /\ UNCHANGED comicDb
    BY <1>11 DEF InstallDestination, LibraryFirst, SaveIncoming, after
  <2>2. incomingDb = before.incoming
    BY <1>3, <1>11, <2>1
  <2>3. \A b \in before.incoming \ after.incoming : at[b] = "gone"
    BY <1>4, <1>5, <1>11
  <2> QED BY <1>0, <1>4, <1>11, <2>1, <2>2, <2>3
          DEF Transfer!TransferNext, Transfer!WriteIncoming
<1>12. CASE tx.kind = "Discard" /\ InstallSource
  BY <1>6, <1>12 DEF InstallSource, LibraryFirst, SaveLibrary
<1> QED BY <1>1, <1>6, <1>7, <1>8, <1>9, <1>10, <1>11, <1>12

LEMMA TransferStep ==
    ASSUME JournalInv, [Next]_vars
    PROVE  [Transfer!TransferNext]_(Transfer!tvars)
<1>1. CASE InstallDestination \/ InstallSource
  BY <1>1, InstallTransfers
<1>2. CASE Close
  BY <1>2 DEF Close, JournalInv, ControlInv, Catalogs, Transfer!tvars, files
<1>3. CASE Rename
  <2>1. Active /\ last \in Books
    BY <1>3, WorkerParts DEF Rename, Active, JournalInv
  <2> QED BY <1>3, <2>1, RenameTransfers DEF Rename, catalogs
<1>4. CASE Delete
  <2>1. Active /\ last \in Books /\ DeletePending(last)
    BY <1>4, WorkerParts DEF Delete, Active, JournalInv, RunInv, Toward
  <2> QED BY <1>4, <2>1, DeleteTransfers DEF Delete, catalogs
<1>5. ASSUME NEW b \in Books, ApplyRename(b) PROVE [Transfer!TransferNext]_(Transfer!tvars)
  BY <1>5, RenameTransfers DEF ApplyRename, Active, catalogs
<1>6. ASSUME NEW b \in Books, ApplyDelete(b) PROVE [Transfer!TransferNext]_(Transfer!tvars)
  BY <1>6, DeleteTransfers DEF ApplyDelete, Active, catalogs
<1>7. ASSUME NEW b \in Books, ReconcileRename(b) PROVE [Transfer!TransferNext]_(Transfer!tvars)
  <2>1. Active /\ RenamePending(b) /\ UNCHANGED <<copies, incomingDb, comicDb>>
    BY <1>7 DEF ReconcileRename, Active, catalogs
  <2>2. CASE CanRename(b)
    BY <1>7, <2>1, <2>2, RenameTransfers DEF ReconcileRename
  <2>3. CASE ~CanRename(b)
    BY <1>7, <2>1, <2>3 DEF ReconcileRename, Transfer!tvars
  <2> QED BY <2>2, <2>3
<1>8. CASE ~ \/ InstallDestination \/ InstallSource \/ Close \/ Rename \/ Delete
             \/ \E b \in Books : ApplyRename(b) \/ ApplyDelete(b) \/ ReconcileRename(b)
  <2>1. UNCHANGED <<at, copies, incomingDb, comicDb>>
    BY <1>8, Zenon DEF Next, Progress, RunStep, Recovery, vars, disk, files, catalogs, Begin,
       StoreBlobs, ReplaceJournal, DropStale, PrepareRename, PrepareDelete, MarkApplied,
       MarkFailed, FinishLoop, Commit, AllApplied, InstallAuxiliary, WriteCommitted,
       RemoveJournal, SweepSidecars, Land, Startup, ReconcileDelete, ReconcileConflict,
       Reconciled, RecordReconciled, ActionWriteFails, CommitFails, Crash
  <2> QED BY <2>1 DEF Transfer!tvars
<1> QED BY <1>1, <1>2, <1>3, <1>4, <1>5, <1>6, <1>7, <1>8

\* Adoption, its undo and discard implement the transfer, recovery included: no order of
\* file moves, catalog writes and crashes shows more than a record that follows its file.
THEOREM JournalImplementsTransfer == ASSUME CommitsSucceed PROVE Spec => RecordsMoveInOrder
<1>1. Init => Transfer!TransferInit
  BY DEF Init, Transfer!TransferInit, Transfer!OnlyIncoming, Transfer!OnlyLibrary
<1>2. JournalInv /\ [Next]_vars => [Transfer!TransferNext]_(Transfer!tvars)
  BY TransferStep
<1> QED BY <1>1, <1>2, JournalInvariant, PTL
        DEF Spec, RecordsMoveInOrder, Transfer!TransferSpec

\* What a transfer is for: no order of its steps loses a record, so that whoever
\* implements it keeps RecordNeverLost without a look at journals and images.
THEOREM TransferKeepsRecords == RecordsMoveInOrder => []RecordNeverLost
<1>1. Transfer!TransferInit => RecordNeverLost
  BY DEF Transfer!TransferInit, Transfer!OnlyIncoming, Transfer!OnlyLibrary, RecordNeverLost
<1>2. RecordNeverLost /\ [Transfer!TransferNext]_(Transfer!tvars) => RecordNeverLost'
  <2> SUFFICES ASSUME RecordNeverLost, [Transfer!TransferNext]_(Transfer!tvars)
               PROVE  RecordNeverLost'
    OBVIOUS
  <2> USE DEF RecordNeverLost
  <2>1. ASSUME NEW b \in Books, NEW place, Transfer!Goes(b, place), at[b] # "gone"
        PROVE  RecordNeverLost'
    BY <2>1 DEF Transfer!Goes
  <2>2. ASSUME NEW b \in Books,
               Transfer!Adopt(b) \/ Transfer!Return(b) \/ Transfer!Discard(b)
        PROVE  RecordNeverLost'
    BY <2>1, <2>2 DEF Transfer!Adopt, Transfer!Return, Transfer!Discard
  <2>3. ASSUME NEW b \in Books, Transfer!Overwrite(b) PROVE RecordNeverLost'
    BY <2>3 DEF Transfer!Overwrite
  <2>4. CASE Transfer!WriteLibrary
    BY <2>4 DEF Transfer!WriteLibrary
  <2>5. CASE Transfer!WriteIncoming
    BY <2>5 DEF Transfer!WriteIncoming
  <2>6. CASE UNCHANGED Transfer!tvars
    BY <2>6 DEF Transfer!tvars
  <2> QED BY <2>2, <2>3, <2>4, <2>5, <2>6 DEF Transfer!TransferNext
<1> QED BY <1>1, <1>2, PTL DEF RecordsMoveInOrder, Transfer!TransferSpec

(***************************************************************************)
(* Catalogs and files.  Runs that move files, with journal writes that     *)
(* succeed or crash: the images then say exactly where every file is.      *)
(***************************************************************************)

OrganizerOnly == Failures = {} /\ "Discard" \notin Kinds

\* The image lists exactly the files there are, each at its path.
Matches(image, place, others) ==
    /\ image.incoming = {b \in Books : place[b] = "source"}
    /\ image.database.books = {b \in Books : place[b] = "destination"}
    /\ image.database.copies = others

\* The after-images of a transaction match the files but for the Pending actions, which
\* they take for done.
Exact(t, place, others) ==
    /\ \A b \in t.after.incoming : place[b] = "source" \/ t.renames[b] = "Pending"
    /\ \A b \in t.after.database.books : place[b] = "destination" \/ t.renames[b] = "Pending"
    /\ \A b \in Books : t.renames[b] = "Pending" =>
          b \in IF t.kind = "Adoption" THEN t.after.database.books ELSE t.after.incoming
    /\ t.after.database.copies \subseteq others
    /\ \A b \in Books : t.deletes[b] = "Pending" => b \notin t.after.database.copies

\* Where a book was when the run began.
Was(b) == IF b \in tx.before.incoming THEN "source" ELSE "destination"

\* The run reports every file it moved and every copy it deleted, the last ones when it
\* has marked them.
ReportInv ==
    Toward({"ready", "act", "acted"}) =>
        /\ \A b \in Books \ report.renamed :
              at[b] = Was(b) \/ (pc = "acted" /\ b = last /\ RenamePending(last))
        /\ \A b \in tx.before.database.copies \ copies :
              b \in report.deleted \/ (pc = "acted" /\ b = last /\ ~RenamePending(last))

MatchInv ==
    /\ \A b \in Books : at[b] # "gone"
    /\ tx.kind # "Discard" /\ (journal # NoJournal => journal.kind # "Discard")
    /\ journal = NoJournal => Matches(Catalogs, at, copies)
    /\ Active => Exact(tx, at, copies)
    /\ journal # NoJournal => Exact(journal, at, copies)
    /\ Toward({"act"}) => Exact(Undone, at, copies)
    /\ pc = "reconcile" => /\ journal.after = tx.after
                           /\ \A b \in Books : /\ RenamePending(b) => journal.renames[b] = "Pending"
                                               /\ DeletePending(b) => journal.deletes[b] = "Pending"
    /\ ReportInv

LEMMA SettledExact ==
    ASSUME NEW t \in Transactions, NEW u \in Transactions, NEW place, NEW others,
           Exact(t, place, others), t.after.incoming \cap t.after.database.books = {},
           t.kind \in {"Adoption", "Undo"}, u.kind = t.kind, u.after = t.after,
           NEW b \in Books, NEW status \in {"Applied", "Failed"},
           \/ /\ u.renames = [t.renames EXCEPT ![b] = status] /\ u.deletes = t.deletes
              /\ t.renames[b] = "Pending" => place[b] = To(t.kind)
           \/ /\ u.deletes = [t.deletes EXCEPT ![b] = status] /\ u.renames = t.renames
    PROVE  Exact(u, place, others)
<1>0. /\ t.renames \in [Books -> Statuses] /\ t.deletes \in [Books -> Statuses]
      /\ t.after.incoming \subseteq Books /\ t.after.database.books \subseteq Books
  BY TransactionParts, ImageParts
<1>1. CASE /\ u.renames = [t.renames EXCEPT ![b] = status] /\ u.deletes = t.deletes
           /\ t.renames[b] = "Pending" => place[b] = To(t.kind)
  <2>1. \A c \in Books : u.renames[c] = IF c = b THEN status ELSE t.renames[c]
    BY <1>0, <1>1
  <2> QED BY <1>0, <1>1, <2>1 DEF Exact, To
<1>2. CASE u.deletes = [t.deletes EXCEPT ![b] = status] /\ u.renames = t.renames
  <2>1. \A c \in Books : u.deletes[c] = IF c = b THEN status ELSE t.deletes[c]
    BY <1>0, <1>2
  <2> QED BY <1>0, <1>2, <2>1 DEF Exact
<1> QED BY <1>1, <1>2

\* A file changes only where a transaction has a Pending action for it.
LEMMA ExactFiles ==
    ASSUME NEW t \in Transactions, NEW place, NEW place2, NEW others, NEW others2,
           Exact(t, place, others), NEW b \in Books,
           \/ t.renames[b] = "Pending" /\ others2 = others
              /\ \A c \in Books \ {b} : place2[c] = place[c]
           \/ t.deletes[b] = "Pending" /\ others2 = others \ {b} /\ place2 = place
    PROVE  Exact(t, place2, others2)
<1>0. t.after.incoming \subseteq Books /\ t.after.database.books \subseteq Books
  BY TransactionParts, ImageParts
<1> QED BY <1>0 DEF Exact

\* Images without Pending actions match.
LEMMA ExactMatches ==
    ASSUME NEW t \in Transactions, NEW place \in [Books -> Places], NEW others \in SUBSET Books,
           Exact(t, place, others), TransactionInv(t, place, others), NoPending(t),
           \A b \in Books : place[b] # "gone"
    PROVE  Matches(t.after, place, others)
<1>0. t.after.incoming \subseteq Books /\ t.after.database.books \subseteq Books
  BY TransactionParts, ImageParts
<1>1. Sound(t.after, place, others)
  BY SoundAfter
<1>2. /\ \A b \in t.after.incoming : place[b] = "source"
      /\ \A b \in t.after.database.books : place[b] = "destination"
      /\ t.after.database.copies \subseteq others
  BY <1>0 DEF Exact, NoPending
<1>3. \A b \in Books : b \in t.after.incoming \/ b \in t.after.database.books
  BY <1>1 DEF Sound, Listed
<1> QED BY <1>0, <1>1, <1>2, <1>3 DEF Matches, Sound, Places

LEMMA MatchStep ==
    ASSUME OrganizerOnly
    PROVE  JournalInv /\ MatchInv /\ [Next]_vars => MatchInv'
<1> SUFFICES ASSUME JournalInv, MatchInv, [Next]_vars PROVE MatchInv'
  OBVIOUS
<1>0. /\ tx \in Transactions /\ last \in Books /\ at \in [Books -> Places]
      /\ tx.kind \in {"Adoption", "Undo"} /\ tx.before \in Images
      /\ tx.after \in Images /\ copies \in SUBSET Books
      /\ tx.renames \in [Books -> Statuses] /\ tx.deletes \in [Books -> Statuses]
      /\ (pc \in Writing => then \in AfterWrite)
      /\ (journal # NoJournal => journal \in Transactions) /\ NoJournal # tx
      /\ tx' \in Transactions
      /\ report.renamed \in SUBSET Books /\ report.deleted \in SUBSET Books
  BY WorkerParts, TypeStep DEF JournalInv, TypeInv, Typed, MatchInv
<1>a. /\ Active => /\ TransactionInv(tx, at, copies) /\ InstallInv(tx) /\ Exact(tx, at, copies)
                   /\ tx.after.incoming \cap tx.after.database.books = {}
      /\ \A b \in Books : at[b] # "gone"
      /\ journal # NoJournal => Exact(journal, at, copies) /\ journal.kind # "Discard"
  BY DEF JournalInv, RecordsInv, TransactionInv, ImagesInv, MatchInv
<1> USE DEF disk, files, catalogs, ui, run, bounds
\* No action is at hand before the step or after it, and files and catalogs stay.
<1>1. ASSUME UNCHANGED <<at, copies, incomingDb, comicDb, journal>>,
             ~Toward({"ready", "act", "acted"})', pc' # "reconcile",
             tx'.kind # "Discard", Active' => Exact(tx', at, copies)
      PROVE  MatchInv'
  BY <1>1 DEF MatchInv, ReportInv, Matches, Catalogs, Toward
<1>2. CASE StoreBlobs \/ ReplaceJournal \/ DropStale
  <2>1. /\ UNCHANGED <<at, copies, incomingDb, comicDb, tx, last, previous, report>>
        /\ pc' \notin {"acted", "reconcile"} /\ Active /\ journal' \in {journal, tx}
    BY <1>0, <1>2 DEF StoreBlobs, ReplaceJournal, DropStale, AfterWrite, Steps, Writing, Active
  <2>2. /\ Toward({"ready", "act", "acted"})' => Toward({"ready", "act", "acted"})
        /\ Toward({"act"})' => Toward({"act"})
    BY <1>2 DEF StoreBlobs, ReplaceJournal, DropStale, Toward, Writing
  <2>3. Undone' = Undone /\ pc # "acted"
    BY <1>2, <2>1 DEF Undone, LastBecomes, RenamePending, StoreBlobs, ReplaceJournal, DropStale
  <2>4. ReportInv'
    BY <2>1, <2>2, <2>3 DEF MatchInv, ReportInv, Was
  <2>5. journal' = NoJournal => journal = NoJournal
    BY <1>0, <2>1
  <2>6. Exact(Undone, at, copies)' = Exact(Undone, at, copies)
    BY <2>1, <2>3 DEF Exact
  <2> QED BY <1>0, <1>a, <2>1, <2>2, <2>4, <2>5, <2>6 DEF MatchInv, Matches, Catalogs
<1>3. CASE RemoveJournal
  <2>1. /\ pc = "remove" /\ tx.stage = "Committed" /\ NoPending(tx) /\ Active /\ ~Active'
        /\ journal' = NoJournal /\ UNCHANGED <<at, copies, incomingDb, comicDb, tx>>
        /\ pc' = "sweep"
    BY <1>3 DEF RemoveJournal, Active, JournalInv, ControlInv, Toward, TypeInv, StageInv
  <2>2. incomingDb = tx.after.incoming /\ comicDb = tx.after.database
    BY <1>a, <2>1 DEF InstallInv, SourceIn, DestinationIn
  <2>3. Matches(tx.after, at, copies)
    BY <1>0, <1>a, <2>1, ExactMatches
  <2>4. Matches(Catalogs, at, copies)'
    BY <2>1, <2>2, <2>3 DEF Matches, Catalogs
  <2>5. ~Toward({"ready", "act", "acted"})' /\ ~Toward({"act"})'
    BY <2>1 DEF Toward, Writing
  <2> QED BY <1>0, <1>a, <2>1, <2>4, <2>5 DEF MatchInv, ReportInv
<1>4. CASE SweepSidecars \/ Land \/ Close \/ Crash
  <2>1. /\ UNCHANGED <<at, copies, incomingDb, comicDb, journal, tx>> /\ ~Active'
        /\ pc' \in {"land", "idle", "down"}
    BY <1>4 DEF SweepSidecars, Land, Close, Crash, Active, JournalInv, ControlInv, Catalogs
  <2>2. ~Toward({"ready", "act", "acted"})' /\ pc' # "reconcile"
    BY <2>1 DEF Toward, Writing
  <2> QED BY <1>0, <1>1, <2>1, <2>2
<1>5. ASSUME NEW kind \in Kinds, Begin(kind) PROVE MatchInv'
  <2>1. /\ journal = NoJournal /\ session = Catalogs /\ kind # "Discard"
        /\ UNCHANGED <<at, copies, incomingDb, comicDb, journal>>
        /\ tx' = NewTransaction(kind) /\ report' = [renamed |-> {}, deleted |-> {}]
        /\ pc' = "ready"
    BY <1>5 DEF Begin, Write, JournalInv, ControlInv, OrganizerOnly
  <2>2. /\ tx'.before.incoming = incomingDb /\ tx'.before.database = comicDb
        /\ tx'.after = tx'.before /\ tx'.kind = kind
        /\ tx'.renames = [b \in Books |-> "None"] /\ tx'.deletes = [b \in Books |-> "None"]
    BY <2>1 DEF NewTransaction, Live, Catalogs
  <2>3. Matches(Catalogs, at, copies)
    BY <2>1 DEF MatchInv
  <2>4. Exact(tx', at, copies)
    BY <2>2, <2>3 DEF Exact, Matches, Catalogs
  <2>5. ReportInv'
    <3>1. \A b \in Books : at[b] = IF b \in tx'.before.incoming THEN "source" ELSE "destination"
      BY <1>0, <1>a, <2>2, <2>3 DEF Matches, Catalogs, Places
    <3>2. tx'.before.database.copies = copies
      BY <2>2, <2>3 DEF Matches, Catalogs
    <3> QED BY <2>1, <3>1, <3>2 DEF ReportInv, Was
  <2>6. ~Toward({"act"})'
    BY <2>1 DEF Toward, Writing
  <2> QED BY <1>a, <2>1, <2>2, <2>3, <2>4, <2>5, <2>6 DEF MatchInv, Matches, Catalogs
<1>6. ASSUME NEW b \in Books, PrepareRename(b) \/ PrepareDelete(b) PROVE MatchInv'
  <2>1. /\ tx'.kind = tx.kind /\ tx'.before = tx.before /\ tx'.stage = tx.stage
        /\ pc = "ready" /\ Active /\ Active' /\ pc' = "store" /\ last' = b
        /\ previous' = tx.after /\ Toward({"ready", "act", "acted"})
        /\ UNCHANGED <<at, copies, incomingDb, comicDb, journal, report>>
    BY <1>0, <1>6 DEF PrepareRename, PrepareDelete, Write, Transactions, Active, Toward
  <2>2. NoPending(tx) /\ ActionsInv(tx, at, copies)
    BY <1>a, <2>1 DEF OrganizerOnly, JournalInv, TypeInv, StageInv, Toward, TransactionInv
  <2>3. ReportInv'
    BY <2>1 DEF MatchInv, ReportInv, Was
  <2>4. CASE PrepareRename(b)
    <3>1. /\ tx'.renames = [tx.renames EXCEPT ![b] = "Pending"] /\ tx'.deletes = tx.deletes
          /\ tx'.after = MoveRecords(tx.after, tx.kind, {b}) /\ {b} \in SUBSET Books
      BY <1>0, <2>4 DEF PrepareRename, Write, Transactions
    <3>2. Exact(tx', at, copies)
      <4>1. \A c \in Books : tx'.renames[c] = IF c = b THEN "Pending" ELSE tx.renames[c]
        BY <1>0, <3>1
      <4>2. tx'.after.database.copies = tx.after.database.copies
        BY <1>0, <3>1, MoveParts
      <4>3. CASE tx.kind = "Adoption"
        <5>1. /\ tx'.after.incoming = tx.after.incoming \ {b}
              /\ tx'.after.database.books = tx.after.database.books \cup {b}
          BY <1>0, <3>1, <4>3, MoveParts
        <5> QED BY <1>a, <2>1, <2>2, <3>1, <4>1, <4>2, <4>3, <5>1, ImageParts, <1>0
                DEF Exact, NoPending
      <4>4. CASE tx.kind = "Undo"
        <5>1. /\ tx'.after.incoming = tx.after.incoming \cup {b}
              /\ tx'.after.database.books = tx.after.database.books \ {b}
          BY <1>0, <3>1, <4>4, MoveParts
        <5> QED BY <1>a, <2>1, <2>2, <3>1, <4>1, <4>2, <4>4, <5>1, ImageParts, <1>0
                DEF Exact, NoPending
      <4> QED BY <1>0, <4>3, <4>4
    <3>3. /\ Undone'.kind = tx.kind /\ Undone'.after = tx.after
          /\ Undone'.renames = [tx.renames EXCEPT ![b] = "Failed"] /\ Undone'.deletes = tx.deletes
      <4> DEFINE popped == [tx' EXCEPT !.renames[b] = "Failed"]
      <4>1. /\ popped \in Transactions /\ popped.deletes = tx'.deletes /\ popped.kind = tx'.kind
            /\ popped.renames = [tx'.renames EXCEPT ![b] = "Failed"]
        BY <1>0 DEF Transactions, Statuses
      <4>2. Undone' = [popped EXCEPT !.after = tx.after]
        BY <1>0, <2>1, <3>1 DEF Undone, LastBecomes, RenamePending
      <4> HIDE DEF popped
      <4> QED BY <1>0, <2>1, <3>1, <4>1, <4>2 DEF Transactions
    <3>4. Exact(Undone', at, copies)
      <4>1. \A c \in Books : Undone'.renames[c] # "Pending" /\ Undone'.deletes[c] # "Pending"
        BY <1>0, <2>2, <3>3 DEF NoPending
      <4>2. tx.after.incoming \subseteq Books /\ tx.after.database.books \subseteq Books
        BY <1>0, ImageParts
      <4> QED BY <1>a, <2>1, <2>2, <3>3, <4>1, <4>2 DEF Exact, NoPending
    <3>5. Exact(Undone, at, copies)' = Exact(Undone', at, copies)
      BY <2>1 DEF Exact
    <3> QED BY <1>0, <1>a, <2>1, <2>3, <3>2, <3>4, <3>5 DEF MatchInv, Matches, Catalogs
  <2>5. CASE PrepareDelete(b)
    <3>1. /\ tx'.deletes = [tx.deletes EXCEPT ![b] = "Pending"] /\ tx'.renames = tx.renames
          /\ tx'.after = DropCopies(tx.after, tx.kind, {b})
      BY <1>0, <2>5 DEF PrepareDelete, Write, Transactions
    <3>2. /\ tx'.after.incoming = tx.after.incoming
          /\ tx'.after.database.books = tx.after.database.books
          /\ tx'.after.database.copies = tx.after.database.copies \ {b}
      <4>1. tx.after.database \in Databases
        BY <1>0, ImageParts
      <4> QED BY <1>0, <3>1, <4>1 DEF DropCopies, Images, Databases
    <3>3. Exact(tx', at, copies)
      <4>1. \A c \in Books : tx'.deletes[c] = IF c = b THEN "Pending" ELSE tx.deletes[c]
        BY <1>0, <3>1
      <4> QED BY <1>a, <2>1, <2>2, <3>1, <3>2, <4>1 DEF Exact, NoPending
    <3>4. /\ Undone'.kind = tx.kind /\ Undone'.after = tx.after
          /\ Undone'.deletes = [tx.deletes EXCEPT ![b] = "Failed"] /\ Undone'.renames = tx.renames
      <4> DEFINE popped == [tx' EXCEPT !.deletes[b] = "Failed"]
      <4>1. /\ popped \in Transactions /\ popped.renames = tx'.renames /\ popped.kind = tx'.kind
            /\ popped.deletes = [tx'.deletes EXCEPT ![b] = "Failed"]
        BY <1>0 DEF Transactions, Statuses
      <4>2. Undone' = [popped EXCEPT !.after = tx.after]
        BY <1>0, <2>1, <2>2, <3>1 DEF Undone, LastBecomes, RenamePending, NoPending
      <4> HIDE DEF popped
      <4> QED BY <1>0, <2>1, <3>1, <4>1, <4>2 DEF Transactions
    <3>5. Exact(Undone', at, copies)
      <4>1. \A c \in Books : Undone'.renames[c] # "Pending" /\ Undone'.deletes[c] # "Pending"
        BY <1>0, <2>2, <3>4 DEF NoPending
      <4>2. tx.after.incoming \subseteq Books /\ tx.after.database.books \subseteq Books
        BY <1>0, ImageParts
      <4> QED BY <1>a, <2>1, <2>2, <3>4, <4>1, <4>2 DEF Exact, NoPending
    <3>6. Exact(Undone, at, copies)' = Exact(Undone', at, copies)
      BY <2>1 DEF Exact
    <3> QED BY <1>0, <1>a, <2>1, <2>3, <3>3, <3>5, <3>6 DEF MatchInv, Matches, Catalogs
  <2> QED BY <1>6, <2>4, <2>5
<1>7. CASE Rename \/ Delete
  <2>1. /\ pc = "act" /\ pc' = "acted" /\ Active /\ Active' /\ journal = tx
        /\ UNCHANGED <<tx, last, report, incomingDb, comicDb, journal>>
        /\ Toward({"ready", "act", "acted"}) /\ ~Toward({"act"})'
        /\ (RenamePending(last) \/ DeletePending(last))
    BY <1>7 DEF Rename, Delete, Active, Toward, Writing, JournalInv, ControlInv, RunInv
  <2>2. RenamePending(last)' = RenamePending(last)
    BY <2>1 DEF RenamePending
  <2>3. CASE Rename
    <3>1. /\ RenamePending(last) /\ copies' = copies /\ at'[last] # "gone"
          /\ \A c \in Books \ {last} : at'[c] = at[c]
      BY <1>0, <2>3 DEF Rename, Renamed, To
    <3>2. Exact(tx, at', copies')
      BY <1>0, <1>a, <2>1, <3>1, ExactFiles DEF RenamePending
    <3>3. ReportInv'
      BY <2>1, <2>2, <3>1 DEF MatchInv, ReportInv, Was
    <3> QED BY <1>0, <1>a, <2>1, <3>1, <3>2, <3>3 DEF MatchInv
  <2>4. CASE Delete
    <3>1. /\ ~RenamePending(last) /\ DeletePending(last) /\ at' = at /\ copies' = copies \ {last}
      BY <1>0, <2>1, <2>4 DEF Delete, DeleteFile
    <3>2. Exact(tx, at', copies')
      BY <1>0, <1>a, <2>1, <3>1, ExactFiles DEF DeletePending
    <3>3. ReportInv'
      <4>1. \A c \in Books \ report.renamed : at[c] = Was(c)
        BY <2>1, <3>1 DEF MatchInv, ReportInv
      <4> QED BY <2>1, <2>2, <3>1, <4>1 DEF MatchInv, ReportInv, Was
    <3> QED BY <1>0, <1>a, <2>1, <3>1, <3>2, <3>3 DEF MatchInv
  <2> QED BY <1>7, <2>3, <2>4
<1>8. CASE MarkApplied \/ MarkFailed
  <2>1. /\ pc \in {"act", "acted"} /\ pc' = "store" /\ then' = "ready" /\ Active /\ Active'
        /\ UNCHANGED <<at, copies, incomingDb, comicDb, journal, last>>
        /\ ~Toward({"act"})' /\ Toward({"ready", "act", "acted"})
    BY <1>8 DEF MarkApplied, MarkFailed, Write, Active, Toward
  <2>2. \A s \in {"Applied", "Failed"} :
           LastBecomes(s) \in Transactions /\ LastBecomes(s).kind = tx.kind
           /\ LastBecomes(s).before = tx.before /\ LastBecomes(s).after = tx.after
    BY <1>0, SettledType DEF Statuses
  <2>3. CASE MarkFailed
    <3>1. tx' = Undone /\ pc = "act" /\ report' = report
      BY <2>3 DEF MarkFailed, Write, Undone
    <3>2. Exact(tx', at, copies)
      BY <2>1, <3>1 DEF MatchInv, Toward
    <3>3. tx'.kind = tx.kind /\ tx'.before = tx.before
      BY <2>2, <3>1 DEF Undone, Transactions
    <3>4. ReportInv'
      BY <2>1, <3>1, <3>3 DEF MatchInv, ReportInv, Was
    <3> QED BY <1>0, <1>a, <2>1, <3>2, <3>3, <3>4 DEF MatchInv, Matches, Catalogs
  <2>4. CASE MarkApplied
    <3>1. pc = "acted" /\ tx' = LastBecomes("Applied")
      <4>1. LastBecomes("Applied").after = tx.after /\ tx.kind # "Discard"
        BY <1>0, <2>2
      <4>2. tx' = [LastBecomes("Applied") EXCEPT !.after.incoming = @]
        BY <2>4, <4>1 DEF MarkApplied, Write
      <4> QED BY <1>0, <2>2, <2>4, <4>2 DEF MarkApplied, Transactions, Images
    <3>2. /\ RenamePending(last) => tx'.renames = [tx.renames EXCEPT ![last] = "Applied"]
                                    /\ tx'.deletes = tx.deletes
          /\ ~RenamePending(last) => tx'.deletes = [tx.deletes EXCEPT ![last] = "Applied"]
                                     /\ tx'.renames = tx.renames
      BY <1>0, <3>1, SettledType DEF Statuses
    <3>3. /\ RenamePending(last) => at[last] = To(tx.kind)
          /\ tx'.kind = tx.kind /\ tx'.before = tx.before /\ tx'.after = tx.after
      BY <2>2, <3>1 DEF JournalInv, RunInv
    <3>4. Exact(tx', at, copies)
      BY <1>0, <1>a, <2>1, <3>2, <3>3, SettledExact
    <3>5. /\ RenamePending(last) => report'.renamed = report.renamed \cup {last}
                                    /\ report'.deleted = report.deleted
          /\ ~RenamePending(last) => report'.deleted = report.deleted \cup {last}
                                     /\ report'.renamed = report.renamed
      BY <2>4 DEF MarkApplied, JournalInv, TypeInv, Typed
    <3>6. ReportInv'
      BY <2>1, <3>1, <3>3, <3>5 DEF MatchInv, ReportInv, Was
    <3> QED BY <1>0, <1>a, <2>1, <3>3, <3>4, <3>6 DEF MatchInv, Matches, Catalogs
  <2> QED BY <1>8, <2>3, <2>4
<1>9. CASE FinishLoop
  <2>1. /\ pc = "ready" /\ pc' = "store" /\ then' = "commit" /\ Active /\ tx.stage = "Prepared"
        /\ UNCHANGED <<at, copies, incomingDb, comicDb, journal>>
        /\ tx' = [tx EXCEPT !.after = Reported]
    BY <1>0, <1>9 DEF FinishLoop, Write, Active, JournalInv, TypeInv, StageInv, Toward
  <2>2. /\ tx'.kind = tx.kind /\ tx'.renames = tx.renames /\ tx'.deletes = tx.deletes
        /\ tx'.after = Reported /\ NoPending(tx)
    BY <1>0, <2>1 DEF Transactions, OrganizerOnly, JournalInv, TypeInv, StageInv, Toward
  <2>3. /\ \A b \in Books \ report.renamed : at[b] = Was(b)
        /\ \A b \in tx.before.database.copies \ copies : b \in report.deleted
        /\ \A b \in report.renamed : at[b] = To(tx.kind)
    BY <1>0, <2>1 DEF MatchInv, ReportInv, JournalInv, RunInv, Toward
  <2>4. Sound(tx.before, at, copies) /\ tx.before.incoming \subseteq Books
        /\ tx.before.database.books \subseteq Books
    BY <1>0, <1>a, <2>1, ImageParts DEF TransactionInv
  <2>5. /\ tx.kind = "Adoption" =>
              /\ Reported.incoming = tx.before.incoming \ report.renamed
              /\ Reported.database.books = tx.before.database.books \cup report.renamed
        /\ tx.kind = "Undo" =>
              /\ Reported.incoming = tx.before.incoming \cup report.renamed
              /\ Reported.database.books = tx.before.database.books \ report.renamed
        /\ Reported.database.copies = tx.before.database.copies \ report.deleted
    BY <1>0, ReportedParts
  <2>6. Exact(tx', at, copies)
    <3>1. /\ \A b \in tx'.after.incoming : at[b] = "source"
          /\ \A b \in tx'.after.database.books : at[b] = "destination"
      BY <1>0, <2>2, <2>3, <2>4, <2>5 DEF Sound, Was, To
    <3> QED BY <1>0, <2>2, <2>3, <2>5, <3>1 DEF Exact, NoPending
  <2>7. ~Toward({"ready", "act", "acted"})' /\ tx'.kind # "Discard"
    BY <1>0, <2>1, <2>2 DEF Toward
  <2> QED BY <1>1, <2>1, <2>6, <2>7
<1>10. CASE Commit \/ Reconciled
  <2>1. /\ UNCHANGED <<at, copies, incomingDb, comicDb, journal, tx>> /\ Active
        /\ pc' = "store" /\ then' \in {"apply", "reconciled"}
    BY <1>10 DEF Commit, Reconciled, Write, Active
  <2>2. ~Toward({"ready", "act", "acted"})'
    BY <2>1 DEF Toward
  <2> QED BY <1>0, <1>1, <1>a, <2>1, <2>2
<1>11. ASSUME NEW b \in Books,
              \/ ApplyRename(b) \/ ApplyDelete(b) \/ ReconcileRename(b) \/ ReconcileDelete(b)
       PROVE  MatchInv'
  <2>1. /\ tx'.kind = tx.kind /\ tx'.after = tx.after /\ Active /\ journal # NoJournal
        /\ UNCHANGED <<incomingDb, comicDb, journal>> /\ journal \in Transactions
        /\ \/ pc = "apply" /\ pc' = "store" /\ then' = "apply" /\ journal = tx
           \/ pc = "reconcile" /\ pc' = "reconcile"
    BY <1>0, <1>11 DEF ApplyRename, ApplyDelete, ReconcileRename, ReconcileDelete, Write,
       Transactions, Active, JournalInv, ControlInv
  <2>2. ~Toward({"ready", "act", "acted"})' /\ ~Toward({"act"})'
    BY <2>1 DEF Toward, Writing
  <2>3. CASE ApplyRename(b) \/ ReconcileRename(b)
    <3>1. /\ RenamePending(b) /\ UNCHANGED copies
          /\ tx'.renames = [tx.renames EXCEPT ![b] = "Applied"] /\ tx'.deletes = tx.deletes
      BY <1>0, <2>3 DEF ApplyRename, ReconcileRename, Write, Transactions
    <3>2. /\ at'[b] = To(tx.kind) /\ at'[b] # "gone"
          /\ \A c \in Books \ {b} : at'[c] = at[c]
      <4>1. CASE CanRename(b)
        <5>1. at' = Renamed(b)
          BY <2>3, <4>1 DEF ApplyRename, ReconcileRename
        <5> QED BY <1>0, <5>1 DEF Renamed, To
      <4>2. CASE ~CanRename(b)
        <5>1. at' = at /\ ToExists(b) /\ ~FromExists(b)
          BY <2>3, <4>2 DEF ApplyRename, ReconcileRename, CanRename, FromExists, ToExists,
             PathExists
        <5>2. tx.kind = "Adoption" => b \notin copies
          BY <1>a, <2>1, <3>1 DEF TransactionInv, ActionsInv, RenamePending
        <5> QED BY <1>0, <5>1, <5>2 DEF ToExists, PathExists, To
      <4> QED BY <4>1, <4>2
    <3>3. journal.renames[b] = "Pending"
      BY <2>1, <3>1 DEF MatchInv, RenamePending
    <3>4. Exact(tx, at', copies') /\ Exact(journal, at', copies')
      BY <1>0, <1>a, <2>1, <3>1, <3>2, <3>3, ExactFiles DEF RenamePending
    <3>5. Exact(tx', at', copies')
      BY <1>0, <1>a, <2>1, <3>1, <3>2, <3>4, SettledExact
    <3>6. \A c \in Books : /\ RenamePending(c)' => RenamePending(c)
                           /\ DeletePending(c)' => DeletePending(c)
      BY <1>0, <3>1 DEF RenamePending, DeletePending
    <3> QED BY <1>0, <1>a, <2>1, <2>2, <3>2, <3>4, <3>5, <3>6 DEF MatchInv, ReportInv
  <2>4. CASE ApplyDelete(b) \/ ReconcileDelete(b)
    <3>1. /\ DeletePending(b) /\ UNCHANGED at /\ copies' = copies \ {b}
          /\ tx'.deletes = [tx.deletes EXCEPT ![b] = "Applied"] /\ tx'.renames = tx.renames
      BY <1>0, <2>4 DEF ApplyDelete, ReconcileDelete, DeletedExists, DeleteFile, Write, Transactions
    <3>3. journal.deletes[b] = "Pending"
      BY <2>1, <3>1 DEF MatchInv, DeletePending
    <3>4. Exact(tx, at', copies') /\ Exact(journal, at', copies')
      BY <1>0, <1>a, <2>1, <3>1, <3>3, ExactFiles DEF DeletePending
    <3>5. Exact(tx', at', copies')
      BY <1>0, <1>a, <2>1, <3>1, <3>4, SettledExact
    <3>6. \A c \in Books : /\ RenamePending(c)' => RenamePending(c)
                           /\ DeletePending(c)' => DeletePending(c)
      BY <1>0, <3>1 DEF RenamePending, DeletePending
    <3> QED BY <1>0, <1>a, <2>1, <2>2, <3>1, <3>4, <3>5, <3>6 DEF MatchInv, ReportInv
  <2> QED BY <1>11, <2>3, <2>4
<1>12. CASE \/ AllApplied \/ InstallDestination \/ InstallSource \/ InstallAuxiliary
            \/ WriteCommitted \/ RecordReconciled
  <2>1. /\ tx'.kind = tx.kind /\ tx'.after = tx.after
        /\ tx'.renames = tx.renames /\ tx'.deletes = tx.deletes
    BY <1>0, <1>12 DEF AllApplied, InstallDestination, InstallSource, InstallAuxiliary,
       WriteCommitted, RecordReconciled, Write, Transactions
  <2>2. /\ pc \in {"apply", "install", "reconciled"} /\ Active
        /\ pc' = "store" /\ then' \in {"install", "remove"} /\ UNCHANGED <<at, copies, journal>>
    BY <1>12 DEF AllApplied, InstallDestination, InstallSource, InstallAuxiliary,
       WriteCommitted, RecordReconciled, Write, Active
  <2>3. journal = tx /\ journal # NoJournal
    BY <1>0, <2>2 DEF JournalInv, ControlInv
  <2>4. ~Toward({"ready", "act", "acted"})' /\ ~Toward({"act"})'
    BY <2>2 DEF Toward
  <2>5. Exact(tx', at, copies)
    BY <1>a, <2>1, <2>2 DEF Exact
  <2> QED BY <1>0, <1>a, <2>1, <2>2, <2>3, <2>4, <2>5 DEF MatchInv, ReportInv
<1>13. CASE Startup
  <2>1. /\ UNCHANGED <<at, copies, incomingDb, comicDb, journal>>
        /\ tx' = (IF journal = NoJournal THEN tx ELSE journal)
        /\ pc' = (IF journal = NoJournal THEN "land"
                  ELSE IF journal.stage = "Committed" THEN "remove" ELSE "reconcile")
    BY <1>13 DEF Startup
  <2>2. ~Toward({"ready", "act", "acted"})' /\ ~Toward({"act"})'
    BY <2>1 DEF Toward, Writing
  <2>3. Active' => journal # NoJournal
    BY <2>1 DEF Active
  <2> QED BY <1>0, <1>a, <2>1, <2>2, <2>3
          DEF MatchInv, ReportInv, Matches, Catalogs, RenamePending, DeletePending
<1>14. CASE ReconcileConflict
  <2>1. /\ UNCHANGED <<at, copies, incomingDb, comicDb, journal, tx>> /\ pc' = "down"
    BY <1>14 DEF ReconcileConflict
  <2>2. ~Toward({"ready", "act", "acted"})' /\ ~Active'
    BY <2>1 DEF Toward, Writing, Active
  <2> QED BY <1>0, <1>1, <2>1, <2>2
<1>15. CASE ActionWriteFails \/ CommitFails
  BY <1>15 DEF ActionWriteFails, CommitFails, OrganizerOnly
<1>16. CASE UNCHANGED vars
  <2>1. UNCHANGED <<at, copies, incomingDb, comicDb, journal, tx, last, previous, report, pc, then>>
    BY <1>16 DEF vars
  <2>2. Undone' = Undone /\ \A c \in Books : RenamePending(c)' = RenamePending(c)
                                             /\ DeletePending(c)' = DeletePending(c)
    BY <2>1 DEF Undone, LastBecomes, RenamePending, DeletePending
  <2>3. /\ Toward({"ready", "act", "acted"})' = Toward({"ready", "act", "acted"})
        /\ Toward({"act"})' = Toward({"act"})
    BY <2>1 DEF Toward
  <2>4. ReportInv'
    BY <1>0, <2>1, <2>2, <2>3 DEF MatchInv, ReportInv, Was
  <2>5. Exact(Undone, at, copies)' = Exact(Undone, at, copies)
    BY <2>1, <2>2 DEF Exact
  <2>6. Active' = Active
    BY <2>1 DEF Active
  <2> QED BY <1>0, <1>a, <2>1, <2>2, <2>3, <2>4, <2>5, <2>6 DEF MatchInv, Matches, Catalogs
<1> QED
  BY <1>2, <1>3, <1>4, <1>5, <1>6, <1>7, <1>8, <1>9, <1>10, <1>11, <1>12, <1>13, <1>14,
     <1>15, <1>16 DEF Next, Progress, RunStep, Recovery

LEMMA MatchInit == Init => MatchInv
<1> SUFFICES ASSUME Init PROVE MatchInv
  OBVIOUS
<1>1. tx.kind = "Adoption"
  BY DEF Init, NewTransaction
<1>2. /\ \A b \in Books : at[b] # "gone" /\ (at[b] = "source" <=> b \in incomingDb)
      /\ incomingDb \subseteq Books /\ comicDb.books = Books \ incomingDb
      /\ comicDb.copies = copies
  BY DEF Init
<1>3. \A b \in Books : at[b] = "destination" <=> b \notin incomingDb
  BY DEF Init
<1>4. Matches(Catalogs, at, copies)
  BY <1>2, <1>3 DEF Matches, Catalogs
<1>5. journal = NoJournal /\ ~Active /\ ~Toward({"act"}) /\ ~Toward({"ready", "act", "acted"})
      /\ pc = "idle"
  BY DEF Init, Active, Toward, Writing
<1> QED BY <1>1, <1>2, <1>4, <1>5 DEF MatchInv, ReportInv

\* Whatever files could be moved and wherever it crashed, a run of the organizer that has
\* ended leaves catalogs that list exactly the files there are, and a session that shows
\* them (mark_last, finish, recover).
THEOREM CatalogsMatch == ASSUME OrganizerOnly PROVE Spec => []CatalogsMatchFiles
<1>1. CommitsSucceed
  BY DEF OrganizerOnly, CommitsSucceed
<1>2. Spec => []JournalInv
  BY <1>1, JournalInvariant
<1>3. JournalInv /\ MatchInv /\ [Next]_vars => MatchInv'
  BY MatchStep
<1>4. JournalInv /\ MatchInv => CatalogsMatchFiles
  BY DEF JournalInv, ControlInv, MatchInv, Matches, Catalogs, CatalogsMatchFiles, Settled
<1> QED BY <1>2, <1>3, <1>4, MatchInit, PTL DEF Spec

===============================================================================

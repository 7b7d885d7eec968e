------------------------------- MODULE Organizer -------------------------------
(***************************************************************************)
(* The library organizer: a run that moves the files of the chosen books   *)
(* to their calculated paths, and the Undo that moves them back            *)
(* (cr-organize/mover.rs, cr-ui/dialogs/organize.rs, and the two commands  *)
(* of cr-ui/browser/shell.rs).                                             *)
(*                                                                         *)
(* A run works on a copy of the library taken when it starts, moves files  *)
(* on its own thread, writes undo.dat at its end and only then has its     *)
(* results applied to the library, which is saved some time later.  A      *)
(* file is what it holds: the book it belongs to, or something that        *)
(* belongs to none.                                                        *)
(***************************************************************************)
EXTENDS Integers, FiniteSets, Folding

CONSTANTS
    LastBook,      \* the books are 1..LastBook; book b's file lies at path b first
    LastName,      \* the paths a template can give are 1..LastName
    Twin,          \* the path that differs from path 1 by its case only, 0 for none
    Offered,       \* the answers the user gives to a duplicate
    MaxRuns,       \* bound on the runs and Undos together
    MaxOthers,     \* bound on what other programs do to the files
    MaxFaults      \* bound on the calls that fail and the crashes

ASSUME ConstantsAssumption ==
    /\ LastBook \in Nat \ {0} /\ LastName \in Nat /\ LastBook <= LastName
    /\ Twin \in 0..LastName
    /\ Offered \subseteq {"Cancel", "Rename", "Overwrite"} /\ Offered # {}
    /\ MaxRuns \in Nat /\ MaxOthers \in Nat /\ MaxFaults \in Nat

VARIABLES
    files,        \* what each path holds
    bin,          \* the files in the trash
    library,      \* Library: the path of each book, NoPath for a book removed
    saved,        \* the library as last saved
    undo,         \* undo.dat
    job,          \* the run or the Undo under way, up to its landing
    runs, others, faults,
    touched,      \* history: the paths other programs changed
    crashed,      \* history: the program went down with something unsaved
    before,       \* history: the library an Undo of undo.dat is to bring back
    undone        \* history: the last thing done was an Undo of every entry

vars == <<files, bin, library, saved, undo, job, runs, others, faults, touched, crashed,
          before, undone>>

Books == 1..LastBook
NoBook == 0
\* Path p + LastName is path p with " (1)" before its extension.
Paths == 1..(2 * LastName)
NoPath == 0
NoFile == 0
Foreign == LastBook + 1
Contents == 0..Foreign

Moves == [book : 0..LastBook, from : Paths, to : Paths]
NoMove == [book |-> NoBook, from |-> 1, to |-> 1]
Entries == [from : Paths, to : Paths]
Home == [b \in Books |-> b]
\* What an Undo is to bring back when no Undo can.
Forgotten == [b \in Books |-> NoPath]

Idle == [pc |-> "idle", undoing |-> FALSE, books |-> Home, left |-> <<>>, plan |-> <<>>,
         held |-> <<>>, at |-> NoMove, sticky |-> FALSE, answer |-> "Cancel",
         applies |-> <<>>, log |-> <<>>]

IsSeqOf(S, s) == DOMAIN s = 1..Len(s) /\ \A i \in DOMAIN s : s[i] \in S

TypeOK ==
    /\ files \in [Paths -> Contents]
    /\ bin \subseteq Contents \ {NoFile}
    /\ library \in [Books -> 0..(2 * LastName)] /\ saved \in [Books -> 0..(2 * LastName)]
    /\ IsSeqOf(Entries, undo)
    /\ job.pc \in {"idle", "plan", "item", "move", "held", "ask", "write", "land"}
    /\ job.undoing \in BOOLEAN /\ job.books \in [Books -> 0..(2 * LastName)]
    /\ IsSeqOf(Moves, job.left) /\ IsSeqOf(Moves, job.plan) /\ IsSeqOf(Moves, job.held)
    /\ job.at \in Moves
    /\ job.sticky \in BOOLEAN /\ job.answer \in {"Cancel", "Rename", "Overwrite"}
    /\ IsSeqOf([book : Books, path : 0..(2 * LastName)], job.applies)
    /\ IsSeqOf(Entries, job.log)
    /\ runs \in 0..MaxRuns /\ others \in 0..MaxOthers /\ faults \in 0..MaxFaults
    /\ touched \subseteq Paths /\ crashed \in BOOLEAN /\ undone \in BOOLEAN
    /\ before \in [Books -> 0..(2 * LastName)]

Init ==
    /\ files = [p \in Paths |-> IF p \in Books THEN p ELSE NoFile]
    /\ bin = {}
    /\ library = Home /\ saved = Home
    /\ undo = <<>>
    /\ job = Idle
    /\ runs = 0 /\ others = 0 /\ faults = 0
    /\ touched = {} /\ crashed = FALSE
    /\ before = Home /\ undone = FALSE

Exists(p) == files[p] # NoFile

\* UndoCollection::append: what was moved before keeps where it came from.
Record(log, from, to) ==
    LET earlier == {i \in DOMAIN log : log[i].to = from}
    IN IF earlier = {}
         THEN Append(log, [from |-> from, to |-> to])
         ELSE [log EXCEPT ![Min(earlier)].to = to]

RecordAll(entries) == FoldLeft(LAMBDA log, e : Record(log, e.from, e.to), <<>>, entries)

\* UndoCollection::load.
Load(entries) == Reverse(RecordAll(entries))

\* Undo sorts the entries into those it may run and those it may not, one
\* append each; without an Incoming root none is blocked.
Runnable(entries) == RecordAll(Load(entries))

\* undo_path and remove_current: the first entry for a current path.
EntryOf(log, current) == Min({i \in DOMAIN log : log[i].to = current})

\* The book that a library, or the copy of it, has at a path.
OwnerIn(books, p) ==
    LET owners == {b \in Books : books[b] = p} IN IF owners = {} THEN NoBook ELSE Min(owners)
OwnerOf(p) == OwnerIn(job.books, p)

--------------------------------------------------------------------------------
(* Other programs, saving and crashes.                                     *)

OtherChanges(p) ==
    /\ others < MaxOthers
    /\ others' = others + 1
    /\ files' = [files EXCEPT ![p] = IF @ = NoFile THEN Foreign ELSE NoFile]
    /\ touched' = touched \cup {p}
    /\ UNCHANGED <<bin, library, saved, undo, job, runs, faults, crashed, before, undone>>

\* A worker holds the mutation guard from its start to its end.
Working == job.pc \notin {"idle", "land"}

SaveLibrary ==
    /\ ~Working
    /\ saved # library
    /\ saved' = library
    /\ UNCHANGED <<files, bin, library, undo, job, runs, others, faults, touched, crashed,
                   before, undone>>

\* The library a crash goes back to is the one the run found, and no job is
\* half-way: undo.dat still tells all that was done since.
Undoable == before = saved /\ ~Working

Crash ==
    /\ faults < MaxFaults
    /\ job.pc # "idle" \/ saved # library
    /\ faults' = faults + 1
    /\ library' = saved
    /\ job' = Idle
    /\ crashed' = TRUE
    /\ undone' = FALSE
    /\ before' = IF Undoable THEN before ELSE Forgotten
    /\ UNCHANGED <<files, bin, saved, undo, runs, others, touched>>

Fault == faults < MaxFaults /\ faults' = faults + 1
NoFault == UNCHANGED faults

\* What no step of a job changes.
Aside == <<library, saved, runs, others, touched, crashed>>

--------------------------------------------------------------------------------
(* The run.                                                                *)

\* run_organize and show_run_dialog: the books, and where the templates put
\* them; a target of NoPath is a book that no profile moves.
Organize(target) ==
    /\ job.pc = "idle"
    /\ runs < MaxRuns
    /\ \E b \in Books : library[b] # NoPath /\ target[b] # NoPath
    /\ runs' = runs + 1
    /\ undone' = FALSE
    /\ job' = [Idle EXCEPT
         !.pc = "plan", !.books = library,
         !.left = Chosen([b \in Books |-> [book |-> b, from |-> library[b], to |-> target[b]]],
                         Moves)]
    /\ UNCHANGED <<files, bin, library, saved, undo, others, faults, touched, crashed, before>>

DiffersByCase(p, q) == Twin # NoPath /\ p # q /\ {p, q} = {1, Twin}

\* create_book_paths and check_path_problems: a book that is where it should
\* be is skipped, one that differs by case is renamed here and now.
Planning == job.pc = "plan" /\ job.left # <<>>

PlanBook ==
    /\ Planning
    /\ LET m == Head(job.left)
       IN /\ ~DiffersByCase(m.from, m.to)
          /\ job' = [job EXCEPT !.left = Tail(@),
                                !.plan = IF m.from = m.to THEN @ ELSE Append(@, m)]
    /\ UNCHANGED <<files, bin, undo, before, undone, faults, Aside>>

\* fs::rename: what lay at the destination is gone.
Renamed(from, to) == [files EXCEPT ![to] = files[from], ![from] = NoFile]

\* rename_file_in_place.  No entry of an undo.dat tells of it.
RenameInPlace ==
    /\ Planning
    /\ LET m == Head(job.left)
       IN /\ DiffersByCase(m.from, m.to)
          /\ \/ /\ Exists(m.from)
                /\ files' = Renamed(m.from, m.to)
                /\ job' = [job EXCEPT !.left = Tail(@),
                             !.applies = Append(@, [book |-> m.book, path |-> m.to])]
                /\ before' = Forgotten
                /\ NoFault
             \/ /\ IF Exists(m.from) THEN Fault ELSE NoFault
                /\ UNCHANGED <<files, before>>
                /\ job' = [job EXCEPT !.left = Tail(@)]
    /\ UNCHANGED <<bin, undo, undone, Aside>>

Planned ==
    /\ job.pc = "plan"
    /\ job.left = <<>>
    /\ job' = [job EXCEPT !.pc = "item", !.left = job.plan, !.plan = <<>>]
    /\ UNCHANGED <<files, bin, undo, before, undone, faults, Aside>>

\* Mutant: a file at the destination is not looked for.
ProcessUnchecked ==
    /\ job.pc = "item" /\ ~job.undoing
    /\ job.left # <<>>
    /\ job' = [job EXCEPT !.left = Tail(@), !.pc = "move", !.at = Head(job.left)]
    /\ UNCHANGED <<files, bin, undo, before, undone, faults, Aside>>

\* The first loop of process_books: what has a file in its way waits for the
\* end of the run.
ProcessBook ==
    /\ job.pc = "item" /\ ~job.undoing
    /\ job.left # <<>>
    /\ LET m == Head(job.left)
       IN job' = IF Exists(m.to)
                   THEN [job EXCEPT !.left = Tail(@), !.held = Append(@, m)]
                   ELSE [job EXCEPT !.left = Tail(@), !.pc = "move", !.at = m]
    /\ UNCHANGED <<files, bin, undo, before, undone, faults, Aside>>

\* The loop goes on with the next book, or with those it held.
Onward == IF job.left # <<>> THEN "item" ELSE "held"

\* move_book, and the renames of the Undo.
MoveBook ==
    /\ job.pc = "move" /\ ~job.undoing
    /\ Exists(job.at.from)
    /\ files' = Renamed(job.at.from, job.at.to)
    /\ job' = [job EXCEPT
         !.pc = Onward, !.at = NoMove,
         !.log = Record(@, job.at.from, job.at.to),
         !.applies = Append(@, [book |-> job.at.book, path |-> job.at.to])]
    /\ UNCHANGED <<bin, undo, before, undone, faults, Aside>>

MoveFails ==
    /\ job.pc = "move"
    /\ IF Exists(job.at.from) THEN Fault ELSE NoFault
    /\ job' = [job EXCEPT !.pc = Onward, !.at = NoMove]
    /\ UNCHANGED <<files, bin, undo, before, undone, Aside>>

FirstLoopDone ==
    /\ job.pc = "item"
    /\ job.left = <<>>
    /\ job' = [job EXCEPT !.pc = "held"]
    /\ UNCHANGED <<files, bin, undo, before, undone, faults, Aside>>

--------------------------------------------------------------------------------
(* The duplicates of a run.                                                *)

\* create_rename_path; one of its hundred names.
RenamePath(p) == LET q == IF p > LastName THEN p ELSE p + LastName
                 IN IF Exists(q) THEN NoPath ELSE q

\* Mutant: a duplicate that was asked about stays among those held.
ProcessDuplicateAgain ==
    /\ job.pc = "held" /\ ~job.undoing
    /\ job.held # <<>>
    /\ LET m == Head(job.held)
       IN job' = [job EXCEPT !.at = m, !.pc = IF Exists(m.to) THEN "ask" ELSE "move"]
    /\ UNCHANGED <<files, bin, undo, before, undone, faults, Aside>>

\* process_duplicate_book looks again, and asks when there still is a file.
\* A sticky answer is one the user gave "for all".
ProcessDuplicate ==
    /\ job.pc = "held" /\ ~job.undoing
    /\ job.held # <<>>
    /\ LET m == Head(job.held)
       IN job' = [job EXCEPT !.held = Tail(@), !.at = m,
                             !.pc = IF Exists(m.to) THEN "ask" ELSE "move"]
    /\ UNCHANGED <<files, bin, undo, before, undone, faults, Aside>>

Answers == IF job.sticky THEN {job.answer} ELSE Offered

Answered(a, always) == [job EXCEPT !.answer = a, !.sticky = @ \/ always]

AnswerCancel(always) ==
    /\ job.pc = "ask" /\ ~job.undoing
    /\ "Cancel" \in Answers
    /\ job' = [Answered("Cancel", always) EXCEPT !.pc = "held", !.at = NoMove]
    /\ UNCHANGED <<files, bin, undo, before, undone, faults, Aside>>

\* The name offered was free when the question was put, and is looked at
\* again: it may be a duplicate in its turn.
AnswerRename(always) ==
    /\ job.pc = "ask" /\ ~job.undoing
    /\ "Rename" \in Answers
    /\ LET q == RenamePath(job.at.to)
       IN job' = IF q = NoPath
                   THEN [Answered("Rename", always) EXCEPT !.pc = "held", !.at = NoMove]
                   ELSE [Answered("Rename", always) EXCEPT
                           !.pc = "held", !.at = NoMove,
                           !.held = <<[job.at EXCEPT !.to = q]>> \o @]
    /\ UNCHANGED <<files, bin, undo, before, undone, faults, Aside>>

\* The file in the way is trashed, and the book that the copy of the library
\* has at that path is to be removed.
Trashed(p) ==
    /\ Exists(p)
    /\ bin' = bin \cup {files[p]}
    /\ files' = [files EXCEPT ![p] = NoFile]

AnswerOverwrite(always) ==
    /\ job.pc = "ask" /\ ~job.undoing
    /\ "Overwrite" \in Answers
    /\ \/ /\ Trashed(job.at.to)
          /\ NoFault
          /\ LET old == OwnerOf(job.at.to)
             IN job' = [Answered("Overwrite", always) EXCEPT
                  !.pc = "held", !.at = NoMove, !.held = <<job.at>> \o @,
                  !.applies = IF old = NoBook THEN @
                              ELSE Append(@, [book |-> old, path |-> NoPath])]
       \/ /\ IF Exists(job.at.to) THEN Fault ELSE NoFault
          /\ job' = [Answered("Overwrite", always) EXCEPT !.pc = "held", !.at = NoMove]
          /\ UNCHANGED <<files, bin>>
    /\ UNCHANGED <<undo, before, undone, Aside>>

\* Mutant: a run that was cancelled has no results.
RunCancelledForgets ==
    /\ \/ job.pc = "item" /\ job.left # <<>>
       \/ job.pc = "held" /\ job.held # <<>>
    /\ job' = [Idle EXCEPT !.pc = "land"]
    /\ UNCHANGED <<files, bin, undo, before, undone, faults, Aside>>

\* The Cancel button and closing the window are seen between two books.
RunCancelled ==
    /\ \/ job.pc = "item" /\ job.left # <<>>
       \/ job.pc = "held" /\ job.held # <<>>
    /\ job' = [job EXCEPT !.pc = IF job.undoing THEN "land" ELSE "write",
                          !.left = <<>>, !.held = <<>>]
    /\ UNCHANGED <<files, bin, undo, before, undone, faults, Aside>>

SecondLoopDone ==
    /\ job.pc = "held"
    /\ job.held = <<>>
    /\ job' = [job EXCEPT !.pc = IF job.undoing THEN "land" ELSE "write"]
    /\ UNCHANGED <<files, bin, undo, before, undone, faults, Aside>>

\* A file was renamed in place since the run began.
Recased == \E b \in Books, p \in Paths : files[p] = b /\ DiffersByCase(p, job.books[b])

\* The end of run(): a run that moved nothing leaves the last undo.dat.
WriteUndo ==
    /\ job.pc = "write"
    /\ \/ job.log = <<>> /\ NoFault /\ UNCHANGED <<undo, before>>
       \/ /\ job.log # <<>>
          /\ undo' = job.log
          /\ before' = IF crashed \/ Recased THEN Forgotten ELSE job.books
          /\ NoFault
       \/ job.log # <<>> /\ Fault /\ undo' = undo /\ before' = Forgotten
    /\ job' = [job EXCEPT !.pc = "land"]
    /\ UNCHANGED <<files, bin, undone, Aside>>

\* apply_to_library: a book that is gone takes no update.
Landed == FoldLeft(LAMBDA l, a : IF l[a.book] = NoPath THEN l ELSE [l EXCEPT ![a.book] = a.path],
                   library, job.applies)

Land ==
    /\ job.pc = "land"
    /\ library' = Landed
    /\ undone' = (job.undoing /\ job.log = <<>>)
    /\ job' = Idle
    /\ UNCHANGED <<files, bin, saved, undo, before, faults, runs, others, touched, crashed>>

--------------------------------------------------------------------------------
(* The Undo.  Its log is the residual: the entries it has yet to restore.  *)

\* undo_path is asked for the first entry with that current path.
RestoreOf(todo, i) == [book |-> OwnerIn(library, todo[i].to), from |-> todo[i].to,
                       to |-> todo[EntryOf(todo, todo[i].to)].from]

\* UndoMover.process_books: the books of the library come first, then the
\* paths no book has.
Restores(todo) ==
    LET moves == [i \in DOMAIN todo |-> RestoreOf(todo, i)]
        ours == {m \in Moves : m.book # NoBook}
    IN Chosen(moves, ours) \o Chosen(moves, Moves \ ours)

\* run_organize_undo.
Undo ==
    /\ job.pc = "idle"
    /\ runs < MaxRuns
    /\ undo # <<>>
    /\ runs' = runs + 1
    /\ undone' = FALSE
    /\ job' = [Idle EXCEPT !.pc = "item", !.undoing = TRUE, !.books = library,
                          !.log = Runnable(undo), !.left = Restores(Runnable(undo))]
    /\ UNCHANGED <<files, bin, library, saved, undo, others, faults, touched, crashed, before>>

\* process_item: skipped, held, or restored.
UndoItem ==
    /\ job.pc = "item" /\ job.undoing
    /\ job.left # <<>>
    /\ LET m == Head(job.left)
       IN job' = IF ~Exists(m.from) \/ m.from = m.to
                   THEN [job EXCEPT !.left = Tail(@)]
                   ELSE IF Exists(m.to)
                   THEN [job EXCEPT !.left = Tail(@), !.held = Append(@, m)]
                   ELSE [job EXCEPT !.left = Tail(@), !.pc = "move", !.at = m]
    /\ UNCHANGED <<files, bin, undo, before, undone, faults, Aside>>

\* Mutant: the book's record is not told where its file went.
RestoreFileOnly ==
    /\ job.pc = "move" /\ job.undoing
    /\ Exists(job.at.from)
    /\ files' = Renamed(job.at.from, job.at.to)
    /\ job' = [job EXCEPT !.pc = Onward, !.at = NoMove,
                          !.log = RemoveAt(@, EntryOf(@, job.at.from))]
    /\ UNCHANGED <<bin, undo, before, undone, faults, Aside>>

RestoreBook ==
    /\ job.pc = "move" /\ job.undoing
    /\ Exists(job.at.from)
    /\ files' = Renamed(job.at.from, job.at.to)
    /\ job' = [job EXCEPT
         !.pc = Onward, !.at = NoMove,
         !.log = RemoveAt(@, EntryOf(@, job.at.from)),
         !.applies = IF job.at.book = NoBook THEN @
                     ELSE Append(@, [book |-> job.at.book, path |-> job.at.to])]
    /\ UNCHANGED <<bin, undo, before, undone, faults, Aside>>

\* process_duplicate of the Undo: it asks for what it held without a second
\* look, and declines a rename.
UndoDuplicate ==
    /\ job.pc = "held" /\ job.undoing
    /\ job.held # <<>>
    /\ \/ /\ Offered \cap {"Cancel", "Rename"} # {}
          /\ job' = [job EXCEPT !.held = Tail(@)]
          /\ UNCHANGED <<files, bin, faults>>
       \/ /\ "Overwrite" \in Offered
          /\ LET m == Head(job.held)
             IN \/ /\ Trashed(m.to)
                   /\ NoFault
                   /\ LET old == OwnerOf(m.to)
                      IN job' = [job EXCEPT !.held = Tail(@), !.pc = "move", !.at = m,
                           !.applies = IF m.book = NoBook \/ old = NoBook THEN @
                                       ELSE Append(@, [book |-> old, path |-> NoPath])]
                \/ /\ IF Exists(m.to) THEN Fault ELSE NoFault
                   /\ job' = [job EXCEPT !.held = Tail(@)]
                   /\ UNCHANGED <<files, bin>>
    /\ UNCHANGED <<undo, before, undone, Aside>>

--------------------------------------------------------------------------------
Worker ==
    \/ PlanBook \/ RenameInPlace \/ Planned
    \/ ProcessBook \/ MoveBook \/ MoveFails \/ FirstLoopDone
    \/ ProcessDuplicate \/ SecondLoopDone \/ WriteUndo
    \/ UndoItem \/ RestoreBook

User ==
    \/ \E always \in BOOLEAN :
         AnswerCancel(always) \/ AnswerRename(always) \/ AnswerOverwrite(always)
    \/ UndoDuplicate

Targets == [Books -> 0..LastName]

Next ==
    \/ \E target \in Targets : Organize(target)
    \/ Undo
    \/ Worker \/ User \/ RunCancelled \/ Land
    \/ SaveLibrary \/ Crash
    \/ \E p \in Paths : OtherChanges(p)

Spec == Init /\ [][Next]_vars

\* The worker runs on, and a question is answered in the end.
FairSpec == Spec /\ WF_vars(Worker) /\ WF_vars(User) /\ WF_vars(Land)

--------------------------------------------------------------------------------
InReach(b) == b \in bin \/ \E p \in Paths : files[p] = b

\* A run or an Undo never loses a book's file: it is at some path or in the
\* trash, whatever the answers and wherever a call fails.  Only a rename that
\* changes the case alone does not look at what it replaces
\* (check_path_problems, rename_file_in_place).
KeptOrBinned ==
    [][\A b \in Books : InReach(b) /\ ~InReach(b)' => others' # others \/ Planning]_vars

\* Nothing was overwritten, by an answer or in place, and no other program
\* was about.
Peaceful == bin = {} /\ touched = {} /\ \A b \in Books : InReach(b)

\* With nothing overwritten a landing leaves every book of the library at
\* the path where its own file is, in spite of the copy the run worked on,
\* cancelled runs and moves that failed.
LandedBooksHaveTheirFiles ==
    job.pc = "idle" /\ ~crashed /\ Peaceful
    => \A b \in Books : library[b] # NoPath /\ files[library[b]] = b

Restored == \A b \in Books : library[b] = before[b] /\ files[library[b]] = b

\* The last thing done was an Undo that restored all it had to.
CleanlyUndone == undone /\ before # Forgotten /\ Peaceful

\* An entry's old path is another entry's new one: a book took the place
\* that another one left in the same run.
Chained == \E i, j \in DOMAIN undo : undo[i].from = undo[j].to

\* An Undo that restored all it had to leaves every book and its file where
\* the run found them, also when the program went down before the library
\* the run left was saved.
UndoRestores == CleanlyUndone /\ ~Chained => Restored

\* "Loads the line file, reversed so multi-move runs unwind in order"
\* (mover.rs): the same for a run in which one book took another's place.
UndoUnwinds == CleanlyUndone => Restored

\* An Overwrite costs the library the book whose file it trashed and no
\* other, and no two books are left at one path.
OverwriteTakesOne ==
    job.pc = "idle" /\ ~crashed /\ touched = {}
    => \A b \in Books :
         /\ library[b] = NoPath => b \in bin
         /\ \A c \in Books \ {b} : library[b] # NoPath => library[b] # library[c]

\* Every run and every Undo comes to its landing once its questions are
\* answered: a duplicate that is asked about again is not asked for ever.
RunEnds == job.pc # "idle" ~> job.pc = "idle"
================================================================================

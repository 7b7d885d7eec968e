------------------------------ MODULE Coordinator ------------------------------
(***************************************************************************)
(* Who may change the catalogs, and when they are written: the operation   *)
(* flag, the mutation guard and the epoch of incoming_transaction.rs; the  *)
(* scan worker with its queue, the background save, the save at close and  *)
(* the restart command of cr-ui/src/library.rs and browser/shell.rs.       *)
(*                                                                         *)
(* Three kinds of thread take part.  The GTK main thread runs handlers and *)
(* pumps, one at a time, each to its end: such a handler is one action.    *)
(* Worker threads (one run, one scan, two savers) meet it only at the      *)
(* guard, the flag and the epoch.  The comic database is the set of the    *)
(* changes made to it; what a change says does not matter here.  How a     *)
(* worker writes two catalogs durably is CatalogJournal's and              *)
(* ReplacementJournal's business; here it is one write.                    *)
(***************************************************************************)
EXTENDS Integers, Sequences

CONSTANTS
    Kinds,                 \* the kinds of run the user asks for
    Targets,               \* the catalogs a scan is asked for
    Restarts,              \* the user may use the Restart command
    TimerBeforeLanding,    \* the background timer may fire between the commit
                           \* of a run and its landing
    BusyClose,             \* edits, runs and scans may be asked for while the
                           \* window waits to close
    MaxEvents              \* bound on edits, runs, scans and I/O errors

ASSUME ConstantsAssumption ==
    /\ Kinds \subseteq {"catalog", "incoming", "organizer"}
    /\ Targets \subseteq {"Library", "Incoming"}
    /\ Restarts \in BOOLEAN
    /\ TimerBeforeLanding \in BOOLEAN
    /\ BusyClose \in BOOLEAN
    /\ MaxEvents \in Nat

\* A change is named by the event that made it.
Changes == 1..MaxEvents

VARIABLES
    live,         \* the comic database of the session
    disk,         \* ComicDb.xml
    dirty,        \* Library.dirty
    generation,   \* Library.mutation_generation
    epoch,        \* DATABASE_EPOCH
    operation,    \* who owns ACTIVE_OPERATIONS, which is 0 or 1
    guard,        \* the thread that holds MUTATION_LOCK
    run,          \* the worker of an adoption, discard, replacement, organizer
    scan,         \* the Book Scanner thread and its pump
    queue,        \* SCAN_QUEUE
    saver,        \* the background save and the close save
    closing,      \* how far a close request has come
    main,         \* the main thread: its loop, or what it is stuck in
    events,       \* events so far
    abandoned     \* history: changes that a run wrote to ComicDb.xml and then failed

vars == <<live, disk, dirty, generation, epoch, operation, guard, run, scan,
          queue, saver, closing, main, events, abandoned>>

database == <<live, dirty, generation>>
store == <<disk, abandoned>>
control == <<queue, closing, main>>

Savers == {"background", "close"}
NoRun == [pc |-> "idle", kind |-> "incoming", change |-> 0, database |-> {}, epoch |-> 0]
NoScan == [pc |-> "idle", target |-> "Library", change |-> 0, database |-> {}, epoch |-> 0,
           stop |-> "clear"]
NoSave == [pc |-> "idle", database |-> {}, generation |-> 0, epoch |-> 0]
Request == [target : {"Library", "Incoming"}, change : Changes]

Runs == [pc : {"idle", "waiting", "working", "saved", "committed", "failed"},
         kind : {"catalog", "incoming", "organizer"},
         change : Changes \cup {0}, database : SUBSET Changes, epoch : Nat]
Scans == [pc : {"idle", "waiting", "walking", "done", "failed"},
          target : {"Library", "Incoming"},
          change : Changes \cup {0}, database : SUBSET Changes, epoch : Nat,
          stop : {"clear", "set"}]
Saves == [pc : {"idle", "waiting", "writing", "saved", "skipped", "failed"},
          database : SUBSET Changes, generation : Nat, epoch : Nat]

TypeOK ==
    /\ live \subseteq Changes
    /\ disk \subseteq Changes
    /\ abandoned \subseteq Changes
    /\ dirty \in BOOLEAN
    /\ generation \in Nat
    /\ epoch \in Nat
    /\ operation \in {"none", "run", "scan", "close"}
    /\ guard \in {"none", "run", "scan", "landed"} \cup Savers
    /\ run \in Runs
    /\ run.pc # "idle" => run.change \in Changes
    /\ scan \in Scans
    /\ scan.pc # "idle" => scan.change \in Changes
    /\ queue \in Seq(Request)
    /\ saver \in [Savers -> Saves]
    /\ closing \in {"open", "polling", "flushing", "saving", "checkpoint"}
    /\ main \in {"loop", "restart", "blocked", "recursing", "closed"}
    /\ events \in 0..MaxEvents

Init ==
    /\ live = {}
    /\ disk = {}
    /\ abandoned = {}
    /\ dirty = FALSE
    /\ generation = 0
    /\ epoch = 0
    /\ operation = "none"
    /\ guard = "none"
    /\ run = NoRun
    /\ scan = NoScan
    /\ queue = <<>>
    /\ saver = [s \in Savers |-> NoSave]
    /\ closing = "open"
    /\ main = "loop"
    /\ events = 0

\* The process is there, and not about to overflow its stack.
Running == main \notin {"recursing", "closed"}

\* The main loop turns, perhaps the inner one of library::save.
Handler == main \in {"loop", "restart"}

Event ==
    /\ events < MaxEvents
    /\ events' = events + 1

UserEvent ==
    /\ Handler
    /\ BusyClose \/ closing = "open"
    /\ Event

MarkDirty ==
    /\ dirty' = TRUE
    /\ generation' = generation + 1
    /\ epoch' = epoch + 1

\* Mutant of MarkSaved: a save clears the flag for whatever came meanwhile.
SavedAnyway(g) == dirty' = (dirty /\ generation < g)

\* Library::mark_saved
MarkSaved(g) == dirty' = (dirty /\ generation # g)

(***************************************************************************)
(* Edits.  Every command that changes the database asks operation_active.  *)
(***************************************************************************)

Edit ==
    /\ UserEvent
    /\ operation = "none"
    /\ live' = live \cup {events'}
    /\ MarkDirty
    /\ UNCHANGED <<store, operation, guard, run, scan, saver, control>>

(***************************************************************************)
(* Runs.  The main thread copies the database, notes the epoch and takes   *)
(* the flag; the worker waits for the guard.  An adoption, undo or         *)
(* replacement ("catalog") writes ComicDb.xml, a discard ("incoming") only *)
(* IncomingDb.xml, an ordinary organizer run ("organizer") neither.        *)
(***************************************************************************)

RequestRun(kind) ==
    /\ UserEvent
    /\ operation = "none"
    /\ operation' = "run"
    /\ run' = [pc |-> "waiting", kind |-> kind, change |-> events',
               database |-> live, epoch |-> epoch]
    /\ UNCHANGED <<database, store, epoch, guard, scan, saver, control>>

\* acquire_mutation_guard and the comparison of the epochs.
RunStarts ==
    /\ Running
    /\ run.pc = "waiting"
    /\ guard = "none"
    /\ IF run.kind # "organizer" /\ run.epoch # epoch
       THEN run' = [run EXCEPT !.pc = "failed"] /\ UNCHANGED guard
       ELSE run' = [run EXCEPT !.pc = "working"] /\ guard' = "run"
    /\ UNCHANGED <<database, store, epoch, operation, scan, saver, control, events>>

\* The catalogs are written; for the organizer, the files are moved.
RunSaves ==
    /\ Running
    /\ run.pc = "working"
    /\ run' = [run EXCEPT !.pc = "saved", !.database = @ \cup {run.change}]
    /\ disk' = IF run.kind = "catalog" THEN run.database \cup {run.change} ELSE disk
    /\ UNCHANGED <<database, abandoned, epoch, operation, guard, scan, saver, control, events>>

\* commit_database_epoch; the worker sends its result and drops the guard.
RunCommits ==
    /\ Running
    /\ run.pc = "saved"
    /\ epoch' = IF run.kind = "organizer" THEN epoch ELSE epoch + 1
    /\ run' = [run EXCEPT !.pc = "committed", !.epoch = epoch']
    /\ guard' = "none"
    /\ UNCHANGED <<database, store, operation, scan, saver, control, events>>

\* A step of the run fails.  The transaction installs ComicDb.xml first, so what
\* fails may come after: then the run's change is on disk (and in the journal), the
\* epoch is not committed, and the session knows nothing of it.
RunFails ==
    /\ Running
    /\ \/ run.pc = "working"
       \/ run.pc = "saved" /\ run.kind # "organizer"
    /\ Event
    /\ run' = [run EXCEPT !.pc = "failed"]
    /\ abandoned' = IF run.pc = "saved" /\ run.kind = "catalog"
                    THEN abandoned \cup {run.change}
                    ELSE abandoned
    /\ guard' = "none"
    /\ UNCHANGED <<database, disk, epoch, operation, scan, saver, control>>

\* What a run that committed does to the session: a catalog run installs the
\* database it saved, the organizer applies its changes as edits.
Install ==
    IF run.kind = "organizer"
    THEN /\ live' = live \cup {run.change}
         /\ MarkDirty
    ELSE IF run.epoch # epoch
    THEN UNCHANGED <<database, epoch>>
    ELSE /\ epoch' = epoch + 1
         /\ IF run.kind = "catalog"
            THEN /\ live' = run.database
                 /\ dirty' = FALSE
                 /\ generation' = generation + 1
            ELSE UNCHANGED database

\* Mutant of LandRun: the answer of a failed worker does not end the operation.
LandKeepsFlag ==
    /\ Handler
    /\ run.pc \in {"committed", "failed"}
    /\ IF run.pc = "committed" THEN Install ELSE UNCHANGED <<database, epoch>>
    /\ operation' = IF run.pc = "committed" THEN "none" ELSE operation
    /\ run' = NoRun
    /\ UNCHANGED <<store, guard, scan, saver, control, events>>

LandRun ==
    /\ Handler
    /\ run.pc \in {"committed", "failed"}
    /\ IF run.pc = "committed" THEN Install ELSE UNCHANGED <<database, epoch>>
    /\ operation' = "none"
    /\ run' = NoRun
    /\ UNCHANGED <<store, guard, scan, saver, control, events>>

(***************************************************************************)
(* Scans.  One at a time; a request that arrives during a scan is queued,  *)
(* and the landing starts the request at the end of the queue.             *)
(***************************************************************************)

Started(request, books, e) ==
    [pc |-> "waiting", target |-> request.target, change |-> request.change,
     database |-> books, epoch |-> e, stop |-> "clear"]

\* queue_scan and start_scan_worker: an Incoming scan needs the flag, and is
\* dropped when it does not get it.
RequestScan(target) ==
    LET request == [target |-> target, change |-> events + 1]
        needsFlag == target = "Incoming"
    IN  /\ UserEvent
        /\ IF scan.pc # "idle"
           THEN queue' = Append(queue, request) /\ UNCHANGED <<scan, operation>>
           ELSE IF needsFlag /\ operation # "none"
           THEN UNCHANGED <<queue, scan, operation>>
           ELSE /\ scan' = Started(request, live, epoch)
                /\ operation' = IF needsFlag THEN "scan" ELSE operation
                /\ UNCHANGED queue
        /\ UNCHANGED <<database, store, epoch, guard, run, saver, closing, main>>

ScanStarts ==
    /\ Running
    /\ scan.pc = "waiting"
    /\ guard = "none"
    /\ IF scan.epoch # epoch
       THEN scan' = [scan EXCEPT !.pc = "failed"] /\ UNCHANGED guard
       ELSE scan' = [scan EXCEPT !.pc = "walking"] /\ guard' = "scan"
    /\ UNCHANGED <<database, store, epoch, operation, run, saver, control, events>>

\* The walk of a Library scan meets a file that is new or has changed.  It
\* asks the stop flag before every file.
FindBook ==
    /\ Running
    /\ scan.pc = "walking"
    /\ scan.target = "Library"
    /\ scan.stop = "clear"
    /\ scan.change \notin scan.database
    /\ scan' = [scan EXCEPT !.database = @ \cup {scan.change}]
    /\ UNCHANGED <<database, store, epoch, operation, guard, run, saver, control, events>>

\* The walk ends, by itself or because of abort_scan.  An Incoming scan also
\* commits IncomingDb.xml, and with it the epoch.
FinishWalk ==
    /\ Running
    /\ scan.pc = "walking"
    /\ IF scan.target = "Library"
       THEN scan' = [scan EXCEPT !.pc = "done"] /\ UNCHANGED <<epoch, guard>>
       ELSE IF scan.epoch # epoch
       THEN scan' = [scan EXCEPT !.pc = "failed"] /\ guard' = "none" /\ UNCHANGED epoch
       ELSE scan' = [scan EXCEPT !.pc = "done"] /\ epoch' = epoch + 1 /\ UNCHANGED guard
    /\ UNCHANGED <<database, store, operation, run, saver, control, events>>

\* Mutant of ScanFails: the error path leaks the guard.
FailHoldingGuard ==
    /\ Running
    /\ scan.pc = "walking"
    /\ scan.target = "Incoming"
    /\ Event
    /\ scan' = [scan EXCEPT !.pc = "failed"]
    /\ UNCHANGED <<database, store, epoch, operation, guard, run, saver, control>>

\* IncomingDb.xml cannot be written.
ScanFails ==
    /\ Running
    /\ scan.pc = "walking"
    /\ scan.target = "Incoming"
    /\ Event
    /\ scan' = [scan EXCEPT !.pc = "failed"]
    /\ guard' = "none"
    /\ UNCHANGED <<database, store, epoch, operation, run, saver, control>>

\* Mutant of PumpMayLand: the pump does not look at the flag.
PumpAlwaysLands == TRUE

\* The pump of a Library scan does nothing while an operation is active.
PumpMayLand == scan.target = "Library" => operation = "none"

\* A batch of new books shows up while the walk goes on; nothing is marked.
LandBatch ==
    /\ Handler
    /\ scan.pc = "walking"
    /\ scan.target = "Library"
    /\ PumpMayLand
    /\ scan.change \in scan.database \ live
    /\ live' = live \cup {scan.change}
    /\ UNCHANGED <<store, dirty, generation, epoch, operation, guard, run, scan, saver,
                   control, events>>

\* Mutant of Merge: the storage of the scan is installed as it is.
TakeScanned(scanned) == scanned

\* merge_scan_storage: the worker's books, and what the session has besides.
Merge(scanned) == scanned \cup live

LandStorage ==
    IF scan.target = "Incoming"
    THEN epoch' = epoch + 1 /\ UNCHANGED database
    ELSE /\ live' = Merge(scan.database)
         /\ IF scan.change \in scan.database
            THEN MarkDirty
            ELSE UNCHANGED <<dirty, generation, epoch>>

\* Mutant of StartNext: a scan that failed does not start the next one.
StartAfterSuccess ==
    IF queue = <<>> \/ scan.pc = "failed"
    THEN /\ scan' = NoScan
         /\ operation' = "none"
         /\ UNCHANGED queue
    ELSE LET next == queue[Len(queue)]
         IN  /\ scan' = Started(next, live', epoch')
             /\ operation' = IF next.target = "Incoming" THEN "scan" ELSE "none"
             /\ queue' = SubSeq(queue, 1, Len(queue) - 1)

\* SCAN_QUEUE.pop takes the last request.  The landing has just found, or left,
\* no operation active, so an Incoming request gets the flag.
StartNext ==
    IF queue = <<>>
    THEN /\ scan' = NoScan
         /\ operation' = "none"
         /\ UNCHANGED queue
    ELSE LET next == queue[Len(queue)]
         IN  /\ scan' = Started(next, live', epoch')
             /\ operation' = IF next.target = "Incoming" THEN "scan" ELSE "none"
             /\ queue' = SubSeq(queue, 1, Len(queue) - 1)

\* The worker of a finished scan keeps the guard until it hears of the landing.
LandScan ==
    /\ Handler
    /\ scan.pc \in {"done", "failed"}
    /\ PumpMayLand
    /\ IF scan.pc = "done"
       THEN LandStorage /\ guard' = "landed"
       ELSE UNCHANGED <<database, epoch, guard>>
    /\ StartNext
    /\ UNCHANGED <<store, run, saver, closing, main, events>>

ReleaseLanded ==
    /\ Running
    /\ guard = "landed"
    /\ guard' = "none"
    /\ UNCHANGED <<database, store, epoch, operation, run, scan, saver, control, events>>

(***************************************************************************)
(* Saves.  Both savers copy the database on the main thread and compare    *)
(* the epoch once they hold the guard.                                     *)
(***************************************************************************)

Snapshot == [pc |-> "waiting", database |-> live, generation |-> generation, epoch |-> epoch]

\* save_if_dirty_async, from the timer.
StartBackgroundSave ==
    /\ Handler
    /\ saver["background"].pc = "idle"
    /\ dirty
    /\ TimerBeforeLanding \/ run.pc # "committed"
    /\ saver' = [saver EXCEPT !["background"] = Snapshot]
    /\ UNCHANGED <<database, store, epoch, operation, guard, run, scan, control, events>>

\* Mutant of SaverStarts: the worker does not compare the epochs.
SaveUnchecked(s) ==
    /\ Running
    /\ saver[s].pc = "waiting"
    /\ guard = "none"
    /\ saver' = [saver EXCEPT ![s].pc = "writing"]
    /\ guard' = s
    /\ UNCHANGED <<database, store, epoch, operation, run, scan, control, events>>

SaverStarts(s) ==
    /\ Running
    /\ saver[s].pc = "waiting"
    /\ guard = "none"
    /\ IF saver[s].epoch # epoch
       THEN saver' = [saver EXCEPT ![s].pc = "skipped"] /\ UNCHANGED guard
       ELSE saver' = [saver EXCEPT ![s].pc = "writing"] /\ guard' = s
    /\ UNCHANGED <<database, store, epoch, operation, run, scan, control, events>>

SaverWrites(s) ==
    /\ Running
    /\ saver[s].pc = "writing"
    /\ disk' = saver[s].database
    /\ saver' = [saver EXCEPT ![s].pc = "saved"]
    /\ guard' = "none"
    /\ UNCHANGED <<database, abandoned, epoch, operation, run, scan, control, events>>

\* The save reports an error, before or after it replaced ComicDb.xml.
SaverFails(s) ==
    /\ Running
    /\ saver[s].pc = "writing"
    /\ Event
    /\ disk' \in {disk, saver[s].database}
    /\ saver' = [saver EXCEPT ![s].pc = "failed"]
    /\ guard' = "none"
    /\ UNCHANGED <<database, abandoned, epoch, operation, run, scan, control>>

\* Mutant of LandBackgroundSave: a save that was given up counts as done.
SkippedIsSaved ==
    LET save == saver["background"]
    IN  /\ Handler
        /\ save.pc \in {"saved", "skipped", "failed"}
        /\ IF save.pc # "failed" THEN MarkSaved(save.generation) ELSE UNCHANGED dirty
        /\ saver' = [saver EXCEPT !["background"] = NoSave]
        /\ UNCHANGED <<live, store, generation, epoch, operation, guard, run, scan,
                       control, events>>

LandBackgroundSave ==
    LET save == saver["background"]
    IN  /\ Handler
        /\ save.pc \in {"saved", "skipped", "failed"}
        /\ IF save.pc = "saved" THEN MarkSaved(save.generation) ELSE UNCHANGED dirty
        /\ saver' = [saver EXCEPT !["background"] = NoSave]
        /\ UNCHANGED <<live, store, generation, epoch, operation, guard, run, scan,
                       control, events>>

(***************************************************************************)
(* Closing: wait for the coordinator, flush the Incoming lists, save, and  *)
(* checkpoint the Comic Vine cache.  Each wait lets the main loop turn.    *)
(***************************************************************************)

\* abort_scan drops the queued requests and raises the stop flag.
AbortScan ==
    /\ queue' = <<>>
    /\ scan' = [scan EXCEPT !.stop = IF scan.pc = "idle" THEN "clear" ELSE "set"]

RequestClose ==
    /\ Handler
    /\ closing = "open"
    /\ AbortScan
    /\ closing' = "polling"
    /\ UNCHANGED <<database, store, epoch, operation, guard, run, saver, main, events>>

PollClose ==
    /\ Handler
    /\ closing = "polling"
    /\ operation = "none"
    /\ guard = "none"
    /\ closing' = "flushing"
    /\ UNCHANGED <<database, store, epoch, operation, guard, run, scan, saver, queue,
                   main, events>>

\* flush_incoming_lists_for_close is done, and save_for_close_async wants the
\* flag.  Refused, it answers at once, and its caller calls it again.
StartCloseSave ==
    /\ Handler
    /\ closing = "flushing"
    /\ IF operation = "none"
       THEN /\ saver' = [saver EXCEPT !["close"] = Snapshot]
            /\ operation' = "close"
            /\ closing' = "saving"
            /\ UNCHANGED main
       ELSE main' = "recursing" /\ UNCHANGED <<saver, operation, closing>>
    /\ UNCHANGED <<database, store, epoch, guard, run, scan, queue, events>>

\* The lists cannot be written: the window stays open.
FlushFails ==
    /\ Handler
    /\ closing = "flushing"
    /\ Event
    /\ closing' = "open"
    /\ UNCHANGED <<database, store, epoch, operation, guard, run, scan, saver, queue, main>>

\* Mutant of LandCloseSave: the window closes after a save that failed.
CloseUnsaved ==
    LET save == saver["close"]
    IN  /\ Handler
        /\ save.pc \in {"saved", "skipped", "failed"}
        /\ IF save.pc = "saved" THEN MarkSaved(save.generation) ELSE UNCHANGED dirty
        /\ saver' = [saver EXCEPT !["close"] = NoSave]
        /\ operation' = "none"
        /\ closing' = "checkpoint"
        /\ UNCHANGED <<live, store, generation, epoch, guard, run, scan, queue, main, events>>

LandCloseSave ==
    LET save == saver["close"]
        clean == save.pc = "saved" /\ save.epoch = epoch
    IN  /\ Handler
        /\ save.pc \in {"saved", "skipped", "failed"}
        /\ IF save.pc = "saved" THEN MarkSaved(save.generation) ELSE UNCHANGED dirty
        /\ IF save.pc # "failed" /\ ~(clean /\ ~dirty')
           THEN /\ saver' = [saver EXCEPT !["close"] = Snapshot]
                /\ UNCHANGED <<operation, closing>>
           ELSE /\ saver' = [saver EXCEPT !["close"] = NoSave]
                /\ operation' = "none"
                /\ closing' = IF save.pc = "failed" THEN "open" ELSE "checkpoint"
        /\ UNCHANGED <<live, store, generation, epoch, guard, run, scan, queue, main, events>>

Checkpointed ==
    /\ Handler
    /\ closing = "checkpoint"
    /\ main' = "closed"
    /\ UNCHANGED <<database, store, epoch, operation, guard, run, scan, saver, queue,
                   closing, events>>

(***************************************************************************)
(* The Restart command: library::save on the main thread, then quit.  It   *)
(* stops a scan and turns the loop until it has landed, then blocks on the *)
(* guard, and writes whatever the session holds.                           *)
(***************************************************************************)

RequestRestart ==
    /\ Restarts
    /\ main = "loop"
    /\ IF scan.pc = "idle" THEN UNCHANGED <<queue, scan>> ELSE AbortScan
    /\ main' = "restart"
    /\ UNCHANGED <<database, store, epoch, operation, guard, run, saver, closing, events>>

RestartStopsLoop ==
    /\ main = "restart"
    /\ scan.pc = "idle"
    /\ main' = "blocked"
    /\ UNCHANGED <<database, store, epoch, operation, guard, run, scan, saver, queue,
                   closing, events>>

RestartSaves ==
    /\ main = "blocked"
    /\ guard = "none"
    /\ disk' = live
    /\ dirty' = FALSE
    /\ main' = "closed"
    /\ UNCHANGED <<live, abandoned, generation, epoch, operation, guard, run, scan, saver, queue,
                   closing, events>>

Worker ==
    \/ RunStarts \/ RunSaves \/ RunCommits
    \/ ScanStarts \/ FindBook \/ FinishWalk \/ ReleaseLanded
    \/ \E s \in Savers : SaverStarts(s) \/ SaverWrites(s)

Errors ==
    \/ RunFails
    \/ ScanFails
    \/ FlushFails
    \/ \E s \in Savers : SaverFails(s)

User ==
    \/ Edit
    \/ \E kind \in Kinds : RequestRun(kind)
    \/ \E target \in Targets : RequestScan(target)
    \/ RequestClose
    \/ RequestRestart

Main ==
    \/ LandRun
    \/ LandBatch
    \/ LandScan
    \/ StartBackgroundSave
    \/ LandBackgroundSave
    \/ PollClose
    \/ StartCloseSave
    \/ LandCloseSave
    \/ Checkpointed
    \/ RestartStopsLoop
    \/ RestartSaves

Next == Worker \/ Errors \/ User \/ Main

Spec == Init /\ [][Next]_vars

\* Every thread goes on, every walk ends (a file has a deadline), a timer that
\* is due fires.  Nothing is asked of the user, and no error need happen.
Fairness ==
    /\ WF_vars(RunStarts) /\ WF_vars(RunSaves) /\ WF_vars(RunCommits)
    /\ WF_vars(ScanStarts) /\ WF_vars(FinishWalk) /\ WF_vars(ReleaseLanded)
    /\ \A s \in Savers : WF_vars(SaverStarts(s)) /\ WF_vars(SaverWrites(s))
    /\ WF_vars(LandRun) /\ WF_vars(LandScan)
    /\ WF_vars(StartBackgroundSave) /\ WF_vars(LandBackgroundSave)
    /\ WF_vars(PollClose) /\ WF_vars(StartCloseSave)
    /\ WF_vars(LandCloseSave) /\ WF_vars(Checkpointed)
    /\ WF_vars(RestartStopsLoop) /\ WF_vars(RestartSaves)

FairSpec == Spec /\ Fairness

--------------------------------------------------------------------------------

\* Between the request of a run and its landing nothing else changes the epoch,
\* so the "library changed" answers of its worker and landing never come: each
\* command, pump and scan that would change it respects the flag.
EpochHeldUntilLanding == run.pc # "idle" => run.epoch = epoch

\* No writer puts an older database over a change that is on disk: a saver that
\* waited through a run or an edit finds another epoch, and gives up.  Only the
\* change of a run that failed after it wrote ComicDb.xml is overwritten, by the
\* session that was never told of it.
DiskNeverForgets == [][disk \ abandoned \subseteq disk']_vars

\* No landing throws away what the session holds: the database a run installs
\* has every edit, and the storage of a scan is merged, not installed.
LiveNeverForgets == [][live \subseteq live']_vars

\* A database that is not dirty is on disk.  The books of a Library scan that
\* has not landed are the exception.
CleanMeansSaved == ~dirty /\ scan.pc = "idle" => live \subseteq disk

\* A window that has closed left nothing behind in memory.
CloseSavesEverything == main = "closed" => live \subseteq disk

\* The save at close never finds the flag taken: the coordinator is idle.
CloseFindsIdle == main # "recursing"

\* A queued scan that starts was asked for before the ones still in the queue.
ScansRunInArrivalOrder ==
    [][\A i \in DOMAIN queue' :
          scan'.pc = "waiting" => scan'.change < queue'[i].change]_vars

\* An operation comes to its end, and the flag is free again.
OperationEnds == operation # "none" ~> operation = "none" \/ ~Running

\* A close request closes the window or gives it back to the user.
CloseEnds == closing # "open" ~> closing = "open" \/ main = "closed"

\* A queued scan leaves the queue, to run or because the scans were aborted.
QueuedScansRun == queue # <<>> ~> queue = <<>> \/ ~Running

\* What the session holds is written in the end, without a close.
EditsReachDisk == \A c \in Changes : c \in live ~> c \in disk \/ ~Running

================================================================================

--------------------------- MODULE CoordinatorProofs ---------------------------
(***************************************************************************)
(* Theorems about Coordinator, for every bound and every choice of its     *)
(* constants.  The argument is the flag's: whoever needs it holds it, so   *)
(* two owners are the same owner, and while a run holds it nothing else    *)
(* moves the epoch or the session's database.                              *)
(***************************************************************************)
EXTENDS Coordinator, TLAPS

\* The flag belongs to the worker that was started with it until it is landed.
FlagInv ==
    /\ run.pc # "idle" => operation = "run"
    /\ scan.pc # "idle" /\ scan.target = "Incoming" => operation = "scan"
    /\ saver["close"].pc # "idle" => operation = "close"

\* What a run was given is still what the session is.
HeldInv ==
    /\ EpochHeldUntilLanding
    /\ run.pc # "idle" => /\ live \subseteq run.database
                          /\ run.database \subseteq live \cup {run.change}

\* The changes that scans were asked for and that may still enter the session.
Pending ==
    {queue[i].change : i \in DOMAIN queue}
        \cup (IF scan.pc = "idle" THEN {} ELSE {scan.change})

\* An event names one change: what a failed run left on disk is nothing that the
\* session holds, or that a run or a scan will still bring to it.
NamesInv ==
    /\ live \cup abandoned \cup Pending \subseteq 1..events
    /\ abandoned \cap (live \cup Pending) = {}
    /\ run.pc \notin {"idle", "failed"} =>
          run.change \in (1..events) \ (live \cup abandoned \cup Pending)
    /\ scan.pc # "idle" /\ scan.target = "Library" =>
          scan.database \subseteq live \cup {scan.change}

OperationInv == TypeOK /\ FlagInv /\ HeldInv /\ NamesInv

\* An event gets a name of its own, within the bound.
LEMMA EventStep ==
    ASSUME TypeOK, Event
    PROVE  events' \in Changes /\ events' \in 0..MaxEvents
BY ConstantsAssumption DEF ConstantsAssumption, TypeOK, Event, Changes

\* What SCAN_QUEUE.pop takes and leaves.
LEMMA QueueStep ==
    ASSUME NEW S, NEW q \in Seq(S), q # <<>>
    PROVE  /\ q[Len(q)] \in S
           /\ SubSeq(q, 1, Len(q) - 1) \in Seq(S)
OBVIOUS

\* The session's database has its type after every landing.
LEMMA SessionStep ==
    ASSUME TypeOK, \/ run.pc # "idle" /\ Install
                   \/ scan.pc # "idle" /\ LandStorage
    PROVE  live' \subseteq Changes /\ dirty' \in BOOLEAN /\ generation' \in Nat /\ epoch' \in Nat
<1>0. run.database \subseteq Changes /\ scan.database \subseteq Changes
  BY DEF TypeOK, Runs, Scans
<1>1. CASE run.pc # "idle" /\ Install
  <2>1. run.change \in Changes
    BY <1>1 DEF TypeOK
  <2>2. CASE run.kind = "organizer"
    BY <1>1, <2>1, <2>2 DEF TypeOK, Install, MarkDirty
  <2>3. CASE run.kind # "organizer" /\ run.epoch # epoch
    BY <1>1, <2>3 DEF TypeOK, Install, database
  <2>4. CASE run.kind = "catalog" /\ run.epoch = epoch
    <3>1. dirty' \in BOOLEAN
      BY <1>1, <2>4, Zenon DEF Install
    <3>2. live' = run.database /\ generation' = generation + 1 /\ epoch' = epoch + 1
      BY <1>1, <2>4, Zenon DEF Install
    <3> QED BY <1>0, <3>1, <3>2 DEF TypeOK
  <2>5. CASE run.kind = "incoming" /\ run.epoch = epoch
    BY <1>1, <2>5 DEF TypeOK, Install, database
  <2>6. run.kind \in {"catalog", "incoming", "organizer"}
    BY DEF TypeOK, Runs
  <2> QED BY <2>2, <2>3, <2>4, <2>5, <2>6
<1>2. CASE scan.pc # "idle" /\ LandStorage
  <2>1. CASE scan.target = "Incoming"
    BY <1>2, <2>1 DEF TypeOK, LandStorage, database
  <2>2. CASE scan.target # "Incoming" /\ scan.change \in scan.database
    BY <1>0, <1>2, <2>2 DEF TypeOK, LandStorage, Merge, MarkDirty
  <2>3. CASE scan.target # "Incoming" /\ scan.change \notin scan.database
    BY <1>0, <1>2, <2>3 DEF TypeOK, LandStorage, Merge
  <2> QED BY <2>1, <2>2, <2>3
<1> QED BY <1>1, <1>2

\* A scan that starts, from a request or from the queue, is well formed.
LEMMA StartedType ==
    ASSUME NEW request \in Request, NEW books \in SUBSET Changes, NEW e \in Nat
    PROVE  /\ Started(request, books, e) \in Scans
           /\ Started(request, books, e).change \in Changes
BY DEF Started, Request, Scans

\* What a saver is given is well formed.
LEMMA SnapshotType == TypeOK => Snapshot \in Saves /\ NoSave \in Saves
BY DEF TypeOK, Snapshot, NoSave, Saves

\* Starting the next request keeps the queue and the scan well formed.
LEMMA NextScanStep ==
    ASSUME TypeOK, StartNext, live' \subseteq Changes, epoch' \in Nat
    PROVE  /\ queue' \in Seq(Request)
           /\ operation' \in {"none", "scan"}
           /\ scan' \in Scans
           /\ scan'.pc # "idle" => scan'.change \in Changes
<1>1. CASE queue = <<>>
  BY <1>1 DEF TypeOK, StartNext, NoScan, Scans
<1>2. CASE queue # <<>>
  <2> DEFINE next == queue[Len(queue)]
  <2>1. next \in Request /\ SubSeq(queue, 1, Len(queue) - 1) \in Seq(Request)
    BY <1>2, QueueStep DEF TypeOK
  <2>2. scan' = Started(next, live', epoch')
    BY <1>2 DEF StartNext
  <2>3. scan' \in Scans /\ scan'.change \in Changes
    BY <2>1, <2>2, StartedType
  <2> QED BY <1>2, <2>1, <2>3 DEF StartNext
<1> QED BY <1>1, <1>2

\* Every action keeps every variable in its set.
LEMMA TypeStep == TypeOK /\ [Next]_vars => TypeOK'
<1> SUFFICES ASSUME TypeOK, [Next]_vars PROVE TypeOK'
  OBVIOUS
<1> USE ConstantsAssumption DEF ConstantsAssumption, database, store, control, Savers
<1>1. ASSUME Edit PROVE TypeOK'
  BY <1>1, EventStep DEF TypeOK, Edit, UserEvent, MarkDirty
<1>2. ASSUME NEW kind \in Kinds, RequestRun(kind) PROVE TypeOK'
  <2>1. run' \in Runs /\ run'.change \in Changes /\ events' \in 0..MaxEvents
    BY <1>2, EventStep DEF TypeOK, RequestRun, UserEvent, Runs
  <2> QED BY <1>2, <2>1 DEF TypeOK, RequestRun
<1>3. ASSUME RunStarts PROVE TypeOK'
  <2>1. run' \in Runs /\ run'.change = run.change /\ run.pc # "idle"
    BY <1>3 DEF TypeOK, RunStarts, Runs
  <2> QED BY <1>3, <2>1 DEF TypeOK, RunStarts
<1>4. ASSUME RunSaves PROVE TypeOK'
  <2>1. run' \in Runs /\ run'.change = run.change /\ run.pc # "idle"
    BY <1>4 DEF TypeOK, RunSaves, Runs
  <2>2. run.database \cup {run.change} \subseteq Changes
    BY <1>4 DEF TypeOK, RunSaves, Runs
  <2>3. disk' \subseteq Changes
    BY <1>4, <2>2 DEF TypeOK, RunSaves
  <2> QED BY <1>4, <2>1, <2>3 DEF TypeOK, RunSaves
<1>5. ASSUME RunCommits PROVE TypeOK'
  <2>1. epoch' \in Nat
    BY <1>5 DEF TypeOK, RunCommits
  <2>2. run' \in Runs /\ run'.change = run.change /\ run.pc # "idle"
    BY <1>5, <2>1 DEF TypeOK, RunCommits, Runs
  <2> QED BY <1>5, <2>1, <2>2 DEF TypeOK, RunCommits
<1>6. ASSUME RunFails PROVE TypeOK'
  <2>1. run' \in Runs /\ run'.change = run.change /\ run.pc # "idle"
    BY <1>6 DEF TypeOK, RunFails, Runs
  <2>2. abandoned' \subseteq Changes
    BY <1>6, <2>1 DEF TypeOK, RunFails
  <2> QED BY <1>6, <2>1, <2>2, EventStep DEF TypeOK, RunFails
<1>7. ASSUME LandRun PROVE TypeOK'
  <2>1. live' \subseteq Changes /\ dirty' \in BOOLEAN /\ generation' \in Nat /\ epoch' \in Nat
    <3>1. CASE run.pc = "committed"
      BY <1>7, <3>1, SessionStep DEF LandRun
    <3>2. CASE run.pc # "committed"
      BY <1>7, <3>2 DEF LandRun, TypeOK
    <3> QED BY <3>1, <3>2
  <2>2. run' \in Runs /\ run'.pc = "idle"
    BY <1>7 DEF LandRun, NoRun, Runs
  <2> QED BY <1>7, <2>1, <2>2 DEF TypeOK, LandRun
<1>8. ASSUME NEW target \in Targets, RequestScan(target) PROVE TypeOK'
  <2> DEFINE request == [target |-> target, change |-> events + 1]
  <2>1. events' = events + 1 /\ events' \in Changes /\ events' \in 0..MaxEvents
    BY <1>8, EventStep DEF RequestScan, UserEvent, Event
  <2>2. request \in Request
    BY <2>1 DEF Request
  <2>3. CASE scan.pc # "idle"
    <3>1. queue' = Append(queue, request) /\ UNCHANGED <<scan, operation>>
      BY <1>8, <2>3 DEF RequestScan
    <3>2. queue' \in Seq(Request)
      BY <2>2, <3>1 DEF TypeOK
    <3> QED BY <1>8, <2>1, <3>1, <3>2 DEF TypeOK, RequestScan
  <2>4. CASE scan.pc = "idle" /\ target = "Incoming" /\ operation # "none"
    <3>1. UNCHANGED <<queue, scan, operation>>
      BY <1>8, <2>4 DEF RequestScan
    <3> QED BY <1>8, <2>1, <3>1 DEF TypeOK, RequestScan
  <2>5. CASE scan.pc = "idle" /\ ~(target = "Incoming" /\ operation # "none")
    <3>1. /\ scan' = Started(request, live, epoch)
          /\ operation' \in {"scan", operation}
          /\ UNCHANGED queue
      BY <1>8, <2>5 DEF RequestScan
    <3>2. scan' \in Scans /\ scan'.change \in Changes
      BY <2>2, <3>1, StartedType DEF TypeOK
    <3> QED BY <1>8, <2>1, <3>1, <3>2 DEF TypeOK, RequestScan
  <2> QED BY <2>3, <2>4, <2>5
<1>9. ASSUME ScanStarts PROVE TypeOK'
  <2>1. scan' \in Scans /\ scan'.change = scan.change /\ scan.pc # "idle"
    BY <1>9 DEF TypeOK, ScanStarts, Scans
  <2> QED BY <1>9, <2>1 DEF TypeOK, ScanStarts
<1>10. ASSUME FindBook PROVE TypeOK'
  <2>1. scan' \in Scans /\ scan'.change = scan.change /\ scan.pc # "idle"
    BY <1>10 DEF TypeOK, FindBook, Scans
  <2> QED BY <1>10, <2>1 DEF TypeOK, FindBook
<1>11. ASSUME FinishWalk PROVE TypeOK'
  <2>1. scan' \in Scans /\ scan'.change = scan.change /\ scan.pc # "idle"
    BY <1>11 DEF TypeOK, FinishWalk, Scans
  <2> QED BY <1>11, <2>1 DEF TypeOK, FinishWalk
<1>12. ASSUME ScanFails PROVE TypeOK'
  <2>1. scan' \in Scans /\ scan'.change = scan.change /\ scan.pc # "idle"
    BY <1>12 DEF TypeOK, ScanFails, Scans
  <2> QED BY <1>12, <2>1, EventStep DEF TypeOK, ScanFails
<1>13. ASSUME LandBatch PROVE TypeOK'
  BY <1>13 DEF TypeOK, LandBatch
<1>14. ASSUME LandScan PROVE TypeOK'
  <2>1. live' \subseteq Changes /\ dirty' \in BOOLEAN /\ generation' \in Nat /\ epoch' \in Nat
    <3>1. CASE scan.pc = "done"
      BY <1>14, <3>1, SessionStep DEF LandScan
    <3>2. CASE scan.pc # "done"
      BY <1>14, <3>2 DEF LandScan, TypeOK
    <3> QED BY <3>1, <3>2
  <2>2. guard' \in {guard, "landed"}
    BY <1>14 DEF LandScan
  <2> QED BY <1>14, <2>1, <2>2, NextScanStep DEF TypeOK, LandScan
<1>15. ASSUME ReleaseLanded PROVE TypeOK'
  BY <1>15 DEF TypeOK, ReleaseLanded
<1>16. ASSUME StartBackgroundSave PROVE TypeOK'
  <2>1. saver' \in [Savers -> Saves]
    BY <1>16, SnapshotType DEF TypeOK, StartBackgroundSave
  <2> QED BY <1>16, <2>1 DEF TypeOK, StartBackgroundSave
<1>17. ASSUME NEW s \in Savers, SaverStarts(s) PROVE TypeOK'
  <2>1. saver' \in [Savers -> Saves]
    BY <1>17 DEF TypeOK, SaverStarts, Saves
  <2> QED BY <1>17, <2>1 DEF TypeOK, SaverStarts
<1>18. ASSUME NEW s \in Savers, SaverWrites(s) PROVE TypeOK'
  <2>1. saver' \in [Savers -> Saves]
    BY <1>18 DEF TypeOK, SaverWrites, Saves
  <2>2. disk' \subseteq Changes
    BY <1>18 DEF TypeOK, SaverWrites, Saves
  <2> QED BY <1>18, <2>1, <2>2 DEF TypeOK, SaverWrites
<1>19. ASSUME NEW s \in Savers, SaverFails(s) PROVE TypeOK'
  <2>1. saver' \in [Savers -> Saves]
    BY <1>19 DEF TypeOK, SaverFails, Saves
  <2>2. disk' \subseteq Changes
    BY <1>19 DEF TypeOK, SaverFails, Saves
  <2> QED BY <1>19, <2>1, <2>2, EventStep DEF TypeOK, SaverFails
<1>20. ASSUME LandBackgroundSave PROVE TypeOK'
  <2>1. saver' \in [Savers -> Saves]
    BY <1>20, SnapshotType DEF TypeOK, LandBackgroundSave
  <2>2. dirty' \in BOOLEAN
    BY <1>20 DEF TypeOK, LandBackgroundSave, MarkSaved
  <2> QED BY <1>20, <2>1, <2>2 DEF TypeOK, LandBackgroundSave
<1>21. ASSUME RequestClose PROVE TypeOK'
  <2>1. scan' \in Scans /\ scan'.change = scan.change /\ scan'.pc = scan.pc
    BY <1>21 DEF TypeOK, RequestClose, AbortScan, Scans
  <2> QED BY <1>21, <2>1 DEF TypeOK, RequestClose, AbortScan
<1>22. ASSUME PollClose PROVE TypeOK'
  BY <1>22 DEF TypeOK, PollClose
<1>23. ASSUME StartCloseSave PROVE TypeOK'
  <2>1. saver' \in [Savers -> Saves]
    BY <1>23, SnapshotType DEF TypeOK, StartCloseSave
  <2> QED BY <1>23, <2>1 DEF TypeOK, StartCloseSave
<1>24. ASSUME FlushFails PROVE TypeOK'
  BY <1>24, EventStep DEF TypeOK, FlushFails
<1>25. ASSUME LandCloseSave PROVE TypeOK'
  <2>1. saver' \in [Savers -> Saves]
    BY <1>25, SnapshotType DEF TypeOK, LandCloseSave
  <2>2. dirty' \in BOOLEAN
    BY <1>25 DEF TypeOK, LandCloseSave, MarkSaved
  <2>3. operation' \in {operation, "none"} /\ closing' \in {closing, "open", "checkpoint"}
    BY <1>25 DEF LandCloseSave
  <2> QED BY <1>25, <2>1, <2>2, <2>3 DEF TypeOK, LandCloseSave
<1>26. ASSUME Checkpointed PROVE TypeOK'
  BY <1>26 DEF TypeOK, Checkpointed
<1>27. ASSUME RequestRestart PROVE TypeOK'
  <2>1. /\ scan' \in Scans /\ scan'.change = scan.change /\ scan'.pc = scan.pc
        /\ queue' \in Seq(Request)
    <3>1. CASE scan.pc = "idle"
      BY <1>27, <3>1 DEF TypeOK, RequestRestart
    <3>2. CASE scan.pc # "idle"
      BY <1>27, <3>2 DEF TypeOK, RequestRestart, AbortScan, Scans
    <3> QED BY <3>1, <3>2
  <2> QED BY <1>27, <2>1 DEF TypeOK, RequestRestart
<1>28. ASSUME RestartStopsLoop PROVE TypeOK'
  BY <1>28 DEF TypeOK, RestartStopsLoop
<1>29. ASSUME RestartSaves PROVE TypeOK'
  <2>1. dirty' \in BOOLEAN
    BY <1>29, Zenon DEF RestartSaves
  <2> QED BY <1>29, <2>1 DEF TypeOK, RestartSaves
<1>30. ASSUME UNCHANGED vars PROVE TypeOK'
  BY <1>30 DEF TypeOK, vars
<1> QED
  BY <1>1, <1>2, <1>3, <1>4, <1>5, <1>6, <1>7, <1>8, <1>9, <1>10, <1>11, <1>12, <1>13,
     <1>14, <1>15, <1>16, <1>17, <1>18, <1>19, <1>20, <1>21, <1>22, <1>23, <1>24, <1>25,
     <1>26, <1>27, <1>28, <1>29, <1>30
     DEF Next, Worker, Errors, User, Main

\* Every variable of the coordinator stays in its set: the flag has one owner of
\* four, the queue holds requests, each worker is at a step of its own thread.
THEOREM TypeCorrect == Spec => []TypeOK
<1>1. Init => TypeOK
  <2> SUFFICES ASSUME Init PROVE TypeOK
    OBVIOUS
  <2>1. run \in Runs /\ scan \in Scans /\ saver \in [Savers -> Saves]
    BY DEF Init, NoRun, NoScan, NoSave, Runs, Scans, Saves
  <2>2. dirty \in BOOLEAN
    BY Zenon DEF Init
  <2> QED BY <2>1, <2>2, ConstantsAssumption DEF Init, TypeOK, NoRun, NoScan, ConstantsAssumption
<1> QED BY <1>1, TypeStep, PTL DEF Spec

\* Every action keeps the flag with the one thread that has work pending: who takes
\* it found it free, and only the landing of its owner gives it back.
LEMMA FlagStep == TypeOK /\ FlagInv /\ [Next]_vars => FlagInv'
<1> SUFFICES ASSUME TypeOK, FlagInv, [Next]_vars PROVE FlagInv'
  OBVIOUS
<1> USE DEF FlagInv, control
<1>1. ASSUME Edit \/ LandBatch \/ ReleaseLanded \/ PollClose \/ FlushFails \/ Checkpointed
             \/ RestartStopsLoop \/ RestartSaves \/ UNCHANGED vars
      PROVE  FlagInv'
  BY <1>1 DEF Edit, LandBatch, ReleaseLanded, PollClose, FlushFails, Checkpointed,
              RestartStopsLoop, RestartSaves, vars
<1>2. ASSUME NEW kind \in Kinds, RequestRun(kind) PROVE FlagInv'
  BY <1>2 DEF RequestRun
<1>3. ASSUME RunStarts \/ RunSaves \/ RunCommits \/ RunFails PROVE FlagInv'
  <2>1. run.pc # "idle" /\ UNCHANGED <<operation, scan, saver>>
    BY <1>3 DEF RunStarts, RunSaves, RunCommits, RunFails
  <2> QED BY <2>1
<1>4. ASSUME LandRun PROVE FlagInv'
  BY <1>4 DEF LandRun, NoRun
<1>5. ASSUME NEW target \in Targets, RequestScan(target) PROVE FlagInv'
  BY <1>5 DEF RequestScan, Started
<1>6. ASSUME ScanStarts \/ FindBook \/ FinishWalk \/ ScanFails PROVE FlagInv'
  <2>1. scan.pc # "idle" /\ scan'.target = scan.target /\ UNCHANGED <<operation, run, saver>>
    BY <1>6 DEF TypeOK, Scans, ScanStarts, FindBook, FinishWalk, ScanFails
  <2> QED BY <2>1
<1>7. ASSUME LandScan PROVE FlagInv'
  <2>1. run.pc = "idle" /\ saver["close"].pc = "idle"
    BY <1>7 DEF TypeOK, Scans, LandScan, PumpMayLand
  <2>2. UNCHANGED <<run, saver>>
    BY <1>7 DEF LandScan
  <2>3. scan'.pc # "idle" /\ scan'.target = "Incoming" => operation' = "scan"
    BY <1>7 DEF LandScan, StartNext, NoScan, Started
  <2> QED BY <2>1, <2>2, <2>3
<1>8. ASSUME NEW s \in Savers, SaverStarts(s) \/ SaverWrites(s) \/ SaverFails(s) PROVE FlagInv'
  <2>1. saver'["close"].pc # "idle" => saver["close"].pc # "idle"
    BY <1>8 DEF TypeOK, Savers, SaverStarts, SaverWrites, SaverFails
  <2>2. UNCHANGED <<operation, run, scan>>
    BY <1>8 DEF SaverStarts, SaverWrites, SaverFails
  <2> QED BY <2>1, <2>2
<1>9. ASSUME StartBackgroundSave \/ LandBackgroundSave PROVE FlagInv'
  BY <1>9 DEF TypeOK, Savers, StartBackgroundSave, LandBackgroundSave
<1>10. ASSUME StartCloseSave \/ LandCloseSave PROVE FlagInv'
  BY <1>10 DEF TypeOK, Savers, StartCloseSave, LandCloseSave, NoSave
<1>11. ASSUME RequestClose \/ RequestRestart PROVE FlagInv'
  <2>1. /\ scan'.pc = scan.pc /\ scan'.target = scan.target
        /\ UNCHANGED <<operation, run, saver>>
    BY <1>11 DEF TypeOK, Scans, RequestClose, RequestRestart, AbortScan
  <2> QED BY <2>1
<1> QED
  BY <1>1, <1>2, <1>3, <1>4, <1>5, <1>6, <1>7, <1>8, <1>9, <1>10, <1>11
     DEF Next, Worker, Errors, User, Main

\* What a run was given stays what the session is: an edit, a pump and a scan that
\* would change it find the flag taken, or hold it themselves.
LEMMA HeldStep == TypeOK /\ FlagInv /\ HeldInv /\ [Next]_vars => HeldInv'
<1> SUFFICES ASSUME TypeOK, FlagInv, HeldInv, [Next]_vars PROVE HeldInv'
  OBVIOUS
<1> USE DEF HeldInv, EpochHeldUntilLanding, database, control
<1>1. ASSUME UNCHANGED <<live, epoch, run>> PROVE HeldInv'
  BY <1>1
<1>2. ASSUME operation # "run", UNCHANGED run PROVE HeldInv'
  BY <1>2 DEF FlagInv
<1>3. ASSUME Edit PROVE HeldInv'
  BY <1>2, <1>3 DEF Edit
<1>4. ASSUME LandBatch PROVE HeldInv'
  BY <1>2, <1>4 DEF LandBatch, PumpMayLand
<1>5. ASSUME FinishWalk PROVE HeldInv'
  <2>1. CASE scan.target = "Library"
    BY <1>1, <1>5, <2>1 DEF FinishWalk
  <2>2. CASE scan.target # "Library"
    <3>1. operation = "scan"
      BY <1>5, <2>2 DEF FinishWalk, FlagInv, TypeOK, Scans
    <3> QED BY <1>2, <1>5, <3>1 DEF FinishWalk
  <2> QED BY <2>1, <2>2
<1>6. ASSUME LandScan PROVE HeldInv'
  <2>1. operation \in {"none", "scan"}
    BY <1>6 DEF LandScan, PumpMayLand, FlagInv, TypeOK, Scans
  <2> QED BY <1>2, <1>6, <2>1 DEF LandScan
<1>7. ASSUME NEW kind \in Kinds, RequestRun(kind) PROVE HeldInv'
  BY <1>7 DEF RequestRun
<1>8. ASSUME RunStarts \/ RunFails PROVE HeldInv'
  BY <1>8 DEF TypeOK, Runs, RunStarts, RunFails
<1>9. ASSUME RunSaves PROVE HeldInv'
  BY <1>9 DEF TypeOK, Runs, RunSaves
<1>10. ASSUME RunCommits PROVE HeldInv'
  BY <1>10 DEF TypeOK, Runs, RunCommits
<1>11. ASSUME LandRun PROVE HeldInv'
  BY <1>11 DEF LandRun, NoRun
<1>12. ASSUME \/ \E target \in Targets : RequestScan(target)
              \/ ScanStarts \/ FindBook \/ ScanFails \/ ReleaseLanded
              \/ \E s \in Savers : SaverStarts(s) \/ SaverWrites(s) \/ SaverFails(s)
              \/ StartBackgroundSave \/ LandBackgroundSave
       PROVE  HeldInv'
  BY <1>1, <1>12 DEF RequestScan, ScanStarts, FindBook, ScanFails, ReleaseLanded, SaverStarts,
                     SaverWrites, SaverFails, StartBackgroundSave, LandBackgroundSave
<1>13. ASSUME \/ RequestClose \/ PollClose \/ StartCloseSave \/ FlushFails \/ LandCloseSave
              \/ Checkpointed \/ RequestRestart \/ RestartStopsLoop \/ RestartSaves
              \/ UNCHANGED vars
       PROVE  HeldInv'
  BY <1>1, <1>13 DEF RequestClose, PollClose, StartCloseSave, FlushFails, LandCloseSave,
                     Checkpointed, RequestRestart, RestartStopsLoop, RestartSaves, vars
<1> QED
  BY <1>3, <1>4, <1>5, <1>6, <1>7, <1>8, <1>9, <1>10, <1>11, <1>12, <1>13
     DEF Next, Worker, Errors, User, Main

\* Every event is a new name, and a change keeps the name of its event until it lands.
LEMMA NamesStep == TypeOK /\ HeldInv /\ NamesInv /\ [Next]_vars => NamesInv'
<1> SUFFICES ASSUME TypeOK, HeldInv, NamesInv, [Next]_vars PROVE NamesInv'
  OBVIOUS
<1> USE DEF database, store, control
<1>0. events \in Nat /\ MaxEvents \in Nat
  BY ConstantsAssumption DEF TypeOK, ConstantsAssumption
<1> DEFINE Names == /\ live \cup abandoned \cup Pending \subseteq 1..events
                    /\ abandoned \cap (live \cup Pending) = {}
                    /\ run.pc \notin {"idle", "failed"} =>
                          run.change \in (1..events) \ (live \cup abandoned \cup Pending)
           Found == scan.pc # "idle" /\ scan.target = "Library" =>
                       scan.database \subseteq live \cup {scan.change}
<1>1. Names /\ Found /\ (NamesInv' <=> Names' /\ Found')
  BY DEF NamesInv
<1>2. ASSUME events' \in {events, events + 1}, abandoned' = abandoned,
             live' \subseteq live \cup Pending, Pending' \subseteq Pending,
             \/ run'.pc \in {"idle", "failed"}
             \/ run.pc \notin {"idle", "failed"} /\ run'.change = run.change
      PROVE  Names'
  BY <1>0, <1>1, <1>2
<1>3. ASSUME UNCHANGED <<queue, scan>> PROVE Pending' = Pending
  BY <1>3 DEF Pending
<1>4. ASSUME UNCHANGED scan, live \subseteq live' PROVE Found'
  BY <1>1, <1>4
<1> HIDE DEF Found
<1>5. ASSUME \/ PollClose \/ FlushFails \/ Checkpointed \/ RestartStopsLoop \/ RestartSaves
             \/ ReleaseLanded \/ StartBackgroundSave \/ LandBackgroundSave
             \/ StartCloseSave \/ LandCloseSave
             \/ \E s \in Savers : SaverStarts(s) \/ SaverWrites(s) \/ SaverFails(s)
             \/ UNCHANGED vars
      PROVE  NamesInv'
  <2>1. UNCHANGED <<live, abandoned, run, scan, queue>> /\ events' \in {events, events + 1}
    BY <1>5 DEF PollClose, FlushFails, Checkpointed, RestartStopsLoop, RestartSaves, ReleaseLanded,
                StartBackgroundSave, LandBackgroundSave, StartCloseSave, LandCloseSave,
                SaverStarts, SaverWrites, SaverFails, Event, vars
  <2> QED BY <1>1, <1>2, <1>3, <1>4, <2>1
<1>6. ASSUME Edit PROVE NamesInv'
  <2>1. /\ UNCHANGED <<abandoned, run, scan, queue>>
        /\ events' = events + 1 /\ live' = live \cup {events + 1}
    BY <1>6 DEF Edit, UserEvent, Event
  <2>2. Pending' = Pending
    BY <1>3, <2>1
  <2>3. Names'
    BY <1>0, <1>1, <2>1, <2>2
  <2> QED BY <1>1, <1>4, <2>1, <2>3
<1>7. ASSUME NEW kind \in Kinds, RequestRun(kind) PROVE NamesInv'
  <2>1. /\ UNCHANGED <<live, abandoned, scan, queue>>
        /\ events' = events + 1 /\ run'.change = events + 1
    BY <1>7 DEF RequestRun, UserEvent, Event
  <2>2. Pending' = Pending
    BY <1>3, <2>1
  <2>3. Names'
    BY <1>0, <1>1, <2>1, <2>2
  <2> QED BY <1>1, <1>4, <2>1, <2>3
<1>8. ASSUME RunStarts \/ RunSaves \/ RunCommits PROVE NamesInv'
  <2>1. /\ UNCHANGED <<live, abandoned, scan, queue, events>>
        /\ run.pc \in {"waiting", "working", "saved"} /\ run'.change = run.change
    BY <1>8 DEF RunStarts, RunSaves, RunCommits, TypeOK, Runs
  <2> QED BY <1>1, <1>2, <1>3, <1>4, <2>1
<1>9. ASSUME RunFails PROVE NamesInv'
  <2>1. /\ UNCHANGED <<live, scan, queue>> /\ events' = events + 1
        /\ run.pc \in {"working", "saved"} /\ run'.pc = "failed"
        /\ abandoned' \subseteq abandoned \cup {run.change}
        /\ abandoned \subseteq abandoned'
    BY <1>9 DEF RunFails, Event, TypeOK, Runs
  <2>2. Pending' = Pending
    BY <1>3, <2>1
  <2>3. Names'
    BY <1>0, <1>1, <2>1, <2>2
  <2> QED BY <1>1, <1>4, <2>1, <2>3
<1>10. ASSUME LandRun PROVE NamesInv'
  <2>1. /\ UNCHANGED <<abandoned, scan, queue, events>> /\ run'.pc = "idle"
        /\ run.pc \in {"committed", "failed"}
    BY <1>10 DEF LandRun, NoRun
  <2>2. Pending' = Pending
    BY <1>3, <2>1
  <2>3. live \subseteq live'
    BY <1>10 DEF LandRun, Install, HeldInv
  <2>4. CASE run.pc = "failed"
    <3>1. live' = live
      BY <1>10, <2>4 DEF LandRun
    <3> QED BY <1>1, <1>2, <1>4, <2>1, <2>2, <3>1
  <2>5. CASE run.pc = "committed"
    <3>1. live' \subseteq live \cup {run.change}
      BY <1>10, <2>5 DEF LandRun, Install, HeldInv
    <3>2. Names'
      BY <1>0, <1>1, <2>1, <2>2, <2>5, <3>1
    <3> QED BY <1>1, <1>4, <2>1, <2>3, <3>2
  <2> QED BY <2>1, <2>4, <2>5
<1>11. ASSUME NEW target \in Targets, RequestScan(target) PROVE NamesInv'
  <2>1. UNCHANGED <<live, abandoned, run>> /\ events' = events + 1
    BY <1>11 DEF RequestScan, UserEvent, Event
  <2>2. Pending' \subseteq Pending \cup {events + 1}
    <3>1. CASE scan.pc # "idle"
      <4>1. UNCHANGED scan /\ queue' = Append(queue, [target |-> target, change |-> events + 1])
        BY <1>11, <3>1 DEF RequestScan
      <4>2. \A i \in DOMAIN queue' : queue'[i].change \in Pending \cup {events + 1}
        BY <4>1 DEF TypeOK, Pending
      <4> QED BY <4>1, <4>2 DEF Pending
    <3>2. CASE scan.pc = "idle"
      <4>1. UNCHANGED queue /\ (UNCHANGED scan \/ scan'.change = events + 1)
        BY <1>11, <3>2 DEF RequestScan, Started
      <4> QED BY <4>1 DEF Pending
    <3> QED BY <3>1, <3>2
  <2>3. Names'
    BY <1>0, <1>1, <2>1, <2>2
  <2>4. UNCHANGED scan \/ scan'.database = live
    BY <1>11 DEF RequestScan, Started
  <2> QED BY <1>1, <1>4, <2>1, <2>3, <2>4 DEF Found
<1>12. ASSUME ScanStarts \/ FindBook \/ FinishWalk \/ ScanFails \/ RequestClose \/ RequestRestart
       PROVE  NamesInv'
  <2>1. UNCHANGED <<live, abandoned, run>> /\ events' \in {events, events + 1}
    BY <1>12 DEF ScanStarts, FindBook, FinishWalk, ScanFails, RequestClose, RequestRestart, Event
  <2>2. /\ scan'.pc # "idle" => scan.pc # "idle"
        /\ scan'.target = scan.target /\ scan'.change = scan.change
        /\ scan'.database \subseteq scan.database \cup {scan.change}
        /\ queue' \in {queue, <<>>}
    BY <1>12 DEF ScanStarts, FindBook, FinishWalk, ScanFails, RequestClose, RequestRestart,
                 AbortScan, TypeOK, Scans
  <2>3. Pending' \subseteq Pending
    BY <2>2 DEF Pending
  <2>4. Found'
    BY <1>1, <2>1, <2>2 DEF Found
  <2> QED BY <1>1, <1>2, <2>1, <2>3, <2>4
<1>13. ASSUME LandBatch PROVE NamesInv'
  <2>1. /\ live' = live \cup {scan.change} /\ scan.pc = "walking"
        /\ UNCHANGED <<abandoned, run, scan, queue, events>>
    BY <1>13 DEF LandBatch
  <2>2. scan.change \in Pending
    BY <2>1 DEF Pending
  <2> QED BY <1>1, <1>2, <1>3, <1>4, <2>1, <2>2
<1>14. ASSUME LandScan PROVE NamesInv'
  <2>1. UNCHANGED <<abandoned, run, events>> /\ scan.pc \in {"done", "failed"} /\ StartNext
    BY <1>14 DEF LandScan
  <2>2. scan.change \in Pending
    BY <2>1 DEF Pending
  <2>3. live' \subseteq live \cup Pending
    BY <1>1, <1>14, <2>2 DEF LandScan, LandStorage, Merge, Found, TypeOK, Scans
  <2>4. Pending' \subseteq Pending
    <3>1. CASE queue = <<>>
      BY <2>1, <3>1 DEF StartNext, NoScan, Pending
    <3>2. CASE queue # <<>>
      <4>1. /\ scan'.change = queue[Len(queue)].change
            /\ queue' = SubSeq(queue, 1, Len(queue) - 1)
        BY <2>1, <3>2 DEF StartNext, Started
      <4>2. Len(queue) \in DOMAIN queue /\ \A i \in DOMAIN queue' : i \in DOMAIN queue /\ queue'[i] = queue[i]
        BY <3>2, <4>1 DEF TypeOK
      <4> QED BY <4>1, <4>2 DEF Pending
    <3> QED BY <3>1, <3>2
  <2>5. scan'.pc = "idle" \/ scan'.database = live'
    BY <2>1 DEF StartNext, NoScan, Started
  <2>6. Found'
    BY <2>5 DEF Found
  <2> QED BY <1>1, <1>2, <2>1, <2>3, <2>4, <2>6
<1> QED
  BY <1>5, <1>6, <1>7, <1>8, <1>9, <1>10, <1>11, <1>12, <1>13, <1>14
     DEF Next, Worker, Errors, User, Main

\* The inductive invariant: one owner of the flag, what that owner was given, and a name
\* of its own for every change.
THEOREM OperationInvariant == Spec => []OperationInv
<1>1. Init => FlagInv /\ HeldInv /\ NamesInv
  BY DEF Init, FlagInv, HeldInv, NamesInv, Pending, EpochHeldUntilLanding, NoRun, NoScan, NoSave,
         Savers
<1> QED
  BY <1>1, TypeCorrect, TypeStep, FlagStep, HeldStep, NamesStep, PTL DEF Spec, OperationInv

\* The epoch a run noted holds until its landing (the checks of library.rs and
\* shell.rs that answer "The library changed" never have to).
THEOREM EpochIsHeld == Spec => []EpochHeldUntilLanding
<1>1. OperationInv => EpochHeldUntilLanding
  BY DEF OperationInv, HeldInv
<1> QED BY <1>1, OperationInvariant, PTL

\* No step takes a change out of the session: an edit and a batch add one, a run brings
\* a database that has all of them, and a scan's storage is merged.
LEMMA SessionGrows == OperationInv /\ [Next]_vars => live \subseteq live'
<1> SUFFICES ASSUME OperationInv, [Next]_vars PROVE live \subseteq live'
  OBVIOUS
<1> USE DEF database, store, control
<1>1. ASSUME LandRun PROVE live \subseteq live'
  BY <1>1 DEF LandRun, Install, OperationInv, HeldInv
<1>2. ASSUME LandScan PROVE live \subseteq live'
  BY <1>2 DEF LandScan, LandStorage, Merge
<1>3. ASSUME Edit \/ LandBatch PROVE live \subseteq live'
  BY <1>3 DEF Edit, LandBatch
<1>4. ASSUME Worker \/ Errors PROVE live' = live
  BY <1>4 DEF Worker, Errors, RunStarts, RunSaves, RunCommits, ScanStarts, FindBook,
              FinishWalk, ReleaseLanded, SaverStarts, SaverWrites, RunFails, ScanFails,
              FlushFails, SaverFails
<1>5. ASSUME \/ \E kind \in Kinds : RequestRun(kind)
             \/ \E target \in Targets : RequestScan(target)
             \/ RequestClose \/ RequestRestart
             \/ StartBackgroundSave \/ LandBackgroundSave \/ PollClose \/ StartCloseSave
             \/ LandCloseSave \/ Checkpointed \/ RestartStopsLoop \/ RestartSaves
             \/ UNCHANGED vars
      PROVE  live' = live
  BY <1>5 DEF RequestRun, RequestScan, RequestClose, RequestRestart, StartBackgroundSave,
              LandBackgroundSave, PollClose, StartCloseSave, LandCloseSave, Checkpointed,
              RestartStopsLoop, RestartSaves, vars
<1> QED BY <1>1, <1>2, <1>3, <1>4, <1>5 DEF Next, User, Main

\* No landing throws away what the session holds, although a run installs its whole
\* database (install_persisted_database) and a scan its storage (merge_scan_storage).
THEOREM SessionForgetsNothing == Spec => LiveNeverForgets
<1>1. OperationInv /\ [Next]_vars => [live \subseteq live']_vars
  BY SessionGrows
<1> QED BY <1>1, OperationInvariant, PTL DEF Spec, LiveNeverForgets

--------------------------------------------------------------------------------
(***************************************************************************)
(* ComicDb.xml: what is on disk, when no restart and no early timer writes *)
(* beside the flag, and what a close leaves there, when nothing is asked   *)
(* while it waits.  The argument is the guard's and the epoch's: who       *)
(* writes holds the guard, and who waited for it through a change of the   *)
(* session finds another epoch.                                            *)
(***************************************************************************)

\* The guard belongs to the thread that is at work.
GuardInv ==
    /\ run.pc \in {"working", "saved"} => guard = "run"
    /\ scan.pc \in {"walking", "done"} => guard = "scan"
    /\ \A s \in Savers : saver[s].pc = "writing" => guard = s
    /\ ~Restarts => main \notin {"restart", "blocked"}

\* The book a Library scan has found and not marked yet.
Batch ==
    IF scan.pc \in {"walking", "done"} /\ scan.target = "Library"
    THEN scan.database \cap {scan.change}
    ELSE {}

\* A catalog run has written its database, and the session does not have it yet.
Ahead == run.kind = "catalog" /\ run.pc \in {"saved", "committed"}

\* What is on disk is what the session holds, or what the run will install, or what
\* a run left there that failed.
SourceInv ==
    /\ ~Ahead => disk \ abandoned \subseteq live
    /\ Ahead => disk = run.database
    /\ scan.pc # "idle" /\ scan.target = "Library" =>
          scan.database \subseteq live \cup {scan.change}

\* A snapshot is of the session's past, and one that may be written is not older
\* than the disk.
SaverInv(s) ==
    LET save == saver[s]
    IN  /\ save.pc # "idle" => /\ save.database \subseteq live
                               /\ save.epoch \leq epoch
                               /\ save.generation \leq generation
        /\ save.pc = "waiting" /\ save.epoch = epoch =>
              /\ live \subseteq save.database \cup Batch
              /\ ~(Ahead /\ run.pc = "committed")
        /\ save.pc = "writing" => disk \ abandoned \subseteq save.database
        /\ save.pc \in {"waiting", "writing"} /\ save.generation = generation =>
              live \subseteq save.database \cup Batch
        /\ save.pc = "saved" /\ save.generation = generation =>
              live \subseteq disk \cup Batch

CleanInv == ~dirty => live \subseteq disk \cup Batch

DiskInv == GuardInv /\ SourceInv /\ (\A s \in Savers : SaverInv(s)) /\ CleanInv

\* What every step but a saver's does to the session and the disk: both grow, but for
\* what a failed run left, the disk not under a writer, and the session not unmarked
\* but for the batch.
Grows ==
    /\ live \subseteq live'
    /\ disk \ abandoned \subseteq disk'
    /\ abandoned \subseteq abandoned'
    /\ epoch \leq epoch'
    /\ generation \leq generation'
    /\ (\E s \in Savers : saver[s].pc = "writing") => disk' = disk
    /\ epoch' = epoch /\ (Ahead /\ run.pc = "committed")' => Ahead /\ run.pc = "committed"
    /\ epoch' = epoch \/ generation' = generation =>
          live' \subseteq live \cup Batch' /\ Batch \subseteq Batch'
    /\ \/ dirty'
       \/ dirty' = dirty /\ generation' = generation
       \/ live' \subseteq disk'

Alone == ~Restarts /\ ~TimerBeforeLanding

\* The guard is taken when it is free, and given back by the thread that has it.
LEMMA GuardStep == TypeOK /\ GuardInv /\ [Next]_vars => GuardInv'
<1> SUFFICES ASSUME TypeOK, GuardInv, [Next]_vars PROVE GuardInv'
  OBVIOUS
<1> USE DEF GuardInv, control
<1>1. ASSUME \/ Edit \/ LandBatch \/ PollClose \/ FlushFails \/ Checkpointed
             \/ RestartStopsLoop \/ RestartSaves \/ UNCHANGED vars
      PROVE  GuardInv'
  BY <1>1 DEF Edit, LandBatch, PollClose, FlushFails, Checkpointed, RestartStopsLoop,
              RestartSaves, vars
<1>2. ASSUME NEW kind \in Kinds, RequestRun(kind) PROVE GuardInv'
  BY <1>2 DEF RequestRun
<1>3. ASSUME RunStarts \/ RunSaves \/ RunCommits \/ RunFails PROVE GuardInv'
  BY <1>3 DEF RunStarts, RunSaves, RunCommits, RunFails, TypeOK, Runs, Savers
<1>4. ASSUME LandRun PROVE GuardInv'
  BY <1>4 DEF LandRun, NoRun
<1>5. ASSUME NEW target \in Targets, RequestScan(target) PROVE GuardInv'
  BY <1>5 DEF RequestScan, Started
<1>6. ASSUME ScanStarts \/ FindBook \/ FinishWalk \/ ScanFails PROVE GuardInv'
  BY <1>6 DEF ScanStarts, FindBook, FinishWalk, ScanFails, TypeOK, Scans, Savers
<1>7. ASSUME LandScan PROVE GuardInv'
  <2>1. scan'.pc \in {"idle", "waiting"}
    BY <1>7 DEF LandScan, StartNext, NoScan, Started
  <2>2. scan.pc = "done" => guard = "scan"
    OBVIOUS
  <2> QED BY <1>7, <2>1, <2>2 DEF LandScan, Savers
<1>8. ASSUME ReleaseLanded PROVE GuardInv'
  BY <1>8 DEF ReleaseLanded, Savers
<1>9. ASSUME NEW s \in Savers, SaverStarts(s) \/ SaverWrites(s) \/ SaverFails(s)
      PROVE  GuardInv'
  <2>1. UNCHANGED <<run, scan, main>>
    BY <1>9 DEF SaverStarts, SaverWrites, SaverFails
  <2>2. \A t \in Savers \ {s} : saver'[t] = saver[t]
    BY <1>9 DEF SaverStarts, SaverWrites, SaverFails, TypeOK
  <2>3. CASE SaverStarts(s)
    <3>1. guard = "none" /\ guard' \in {"none", s} /\ (saver'[s].pc = "writing" => guard' = s)
      BY <2>3 DEF SaverStarts, TypeOK, Saves
    <3> QED BY <2>1, <2>2, <3>1 DEF Savers
  <2>4. CASE SaverWrites(s) \/ SaverFails(s)
    <3>1. guard = s /\ guard' = "none" /\ saver'[s].pc # "writing"
      BY <2>4 DEF SaverWrites, SaverFails, TypeOK, Saves
    <3> QED BY <2>1, <2>2, <3>1 DEF Savers
  <2> QED BY <1>9, <2>3, <2>4
<1>10. ASSUME StartBackgroundSave \/ LandBackgroundSave \/ StartCloseSave \/ LandCloseSave
       PROVE  GuardInv'
  BY <1>10 DEF StartBackgroundSave, LandBackgroundSave, StartCloseSave, LandCloseSave,
               Snapshot, NoSave, TypeOK, Savers
<1>11. ASSUME RequestClose \/ RequestRestart PROVE GuardInv'
  BY <1>11 DEF RequestClose, RequestRestart, AbortScan, TypeOK, Scans
<1> QED
  BY <1>1, <1>2, <1>3, <1>4, <1>5, <1>6, <1>7, <1>8, <1>9, <1>10, <1>11
     DEF Next, Worker, Errors, User, Main

\* The steps of a saver: of its own thread, and of the main thread about it.
SaverSteps ==
    \/ \E s \in Savers : SaverStarts(s) \/ SaverWrites(s) \/ SaverFails(s)
    \/ StartBackgroundSave \/ LandBackgroundSave \/ StartCloseSave \/ LandCloseSave

\* Every other step only adds to the session and the disk, and marks what it adds.
LEMMA OtherStep ==
    ASSUME OperationInv, DiskInv, Alone, [Next]_vars, ~SaverSteps
    PROVE  Grows /\ UNCHANGED saver
<1> USE DEF database, store, control
<1>0. TypeOK /\ HeldInv /\ GuardInv /\ SourceInv
  BY DEF OperationInv, DiskInv
<1>1. ASSUME UNCHANGED <<live, disk, epoch, generation, dirty, saver>>, Batch \subseteq Batch',
             abandoned \subseteq abandoned',
             (Ahead /\ run.pc = "committed")' => Ahead /\ run.pc = "committed"
      PROVE  Grows /\ UNCHANGED saver
  BY <1>0, <1>1 DEF Grows, TypeOK
<1>2. ASSUME UNCHANGED scan PROVE Batch' = Batch
  BY <1>2 DEF Batch
<1>3. ASSUME UNCHANGED run PROVE (Ahead /\ run.pc = "committed")' = (Ahead /\ run.pc = "committed")
  BY <1>3 DEF Ahead
<1>4. ASSUME \/ PollClose \/ FlushFails \/ Checkpointed \/ RestartStopsLoop \/ ReleaseLanded
             \/ UNCHANGED vars
      PROVE  Grows /\ UNCHANGED saver
  <2>1. UNCHANGED <<live, store, epoch, generation, dirty, saver, scan, run>>
    BY <1>4 DEF PollClose, FlushFails, Checkpointed, RestartStopsLoop, ReleaseLanded, vars
  <2> QED BY <1>1, <1>2, <1>3, <2>1
<1>5. ASSUME Edit PROVE Grows /\ UNCHANGED saver
  <2>1. /\ live \subseteq live' /\ UNCHANGED <<store, run, scan, saver>>
        /\ dirty' /\ epoch' = epoch + 1 /\ generation' = generation + 1
    BY <1>5 DEF Edit, MarkDirty
  <2> QED BY <1>0, <2>1 DEF Grows, TypeOK
<1>6. ASSUME NEW kind \in Kinds, RequestRun(kind) PROVE Grows /\ UNCHANGED saver
  <2>1. UNCHANGED <<live, store, epoch, generation, dirty, saver, scan>> /\ run'.pc = "waiting"
    BY <1>6 DEF RequestRun
  <2> QED BY <1>1, <1>2, <2>1
<1>7. ASSUME RunStarts \/ RunFails PROVE Grows /\ UNCHANGED saver
  <2>1. UNCHANGED <<live, disk, epoch, generation, dirty, saver, scan>>
        /\ abandoned \subseteq abandoned'
    BY <1>7 DEF RunStarts, RunFails
  <2>2. run'.pc \in {"working", "failed"}
    BY <1>0, <1>7 DEF RunStarts, RunFails, TypeOK, Runs
  <2> QED BY <1>1, <1>2, <2>1, <2>2
<1>8. ASSUME RunSaves PROVE Grows /\ UNCHANGED saver
  <2>1. UNCHANGED <<live, abandoned, epoch, generation, dirty, saver, scan>> /\ run'.pc = "saved"
    BY <1>0, <1>8 DEF RunSaves, TypeOK, Runs
  <2>2. guard = "run" /\ ~Ahead
    BY <1>0, <1>8 DEF RunSaves, GuardInv, Ahead
  <2>3. \A s \in Savers : saver[s].pc # "writing"
    BY <1>0, <2>2 DEF GuardInv, Savers
  <2>4. live \subseteq run.database /\ disk \ abandoned \subseteq live
    BY <1>0, <1>8, <2>2 DEF RunSaves, HeldInv, SourceInv
  <2>5. disk \ abandoned \subseteq disk'
    BY <1>8, <2>4 DEF RunSaves
  <2> QED BY <1>0, <1>2, <2>1, <2>3, <2>5 DEF Grows, TypeOK
<1>9. ASSUME RunCommits PROVE Grows /\ UNCHANGED saver
  <2>1. UNCHANGED <<live, store, generation, dirty, saver, scan>>
    BY <1>9 DEF RunCommits
  <2>2. epoch \leq epoch' /\ (epoch' = epoch => run.kind = "organizer")
    BY <1>0, <1>9 DEF RunCommits, TypeOK
  <2>3. run'.kind = run.kind
    BY <1>0, <1>9 DEF RunCommits, TypeOK, Runs
  <2> QED BY <1>0, <1>2, <2>1, <2>2, <2>3 DEF Grows, TypeOK, Ahead
<1>10. ASSUME LandRun PROVE Grows /\ UNCHANGED saver
  <2>1. UNCHANGED <<store, saver, scan>> /\ run'.pc = "idle"
    BY <1>10 DEF LandRun, NoRun
  <2>2. run.pc = "failed" => UNCHANGED <<live, dirty, generation, epoch>>
    BY <1>10 DEF LandRun
  <2>3. run.pc = "committed" => Install
    BY <1>10 DEF LandRun
  <2>4. run.epoch = epoch /\ live \subseteq run.database /\ run.pc \in {"committed", "failed"}
    BY <1>0, <1>10 DEF LandRun, HeldInv, EpochHeldUntilLanding
  <2>5. CASE run.pc = "failed"
    BY <1>1, <1>2, <2>1, <2>2, <2>5
  <2>6. CASE run.pc = "committed" /\ run.kind = "organizer"
    <3>1. live \subseteq live' /\ dirty' /\ epoch' = epoch + 1 /\ generation' = generation + 1
      BY <2>3, <2>6 DEF Install, MarkDirty
    <3> QED BY <1>0, <2>1, <3>1 DEF Grows, TypeOK
  <2>7. CASE run.pc = "committed" /\ run.kind = "catalog"
    <3>1. live' = run.database /\ epoch' = epoch + 1 /\ generation' = generation + 1
      BY <2>3, <2>4, <2>7, Zenon DEF Install
    <3>2. disk = run.database
      BY <1>0, <2>7 DEF SourceInv, Ahead
    <3> QED BY <1>0, <2>1, <2>4, <3>1, <3>2 DEF Grows, TypeOK
  <2>8. CASE run.pc = "committed" /\ run.kind = "incoming"
    <3>1. UNCHANGED <<live, dirty, generation>> /\ epoch' = epoch + 1
      BY <2>3, <2>4, <2>8 DEF Install
    <3> QED BY <1>0, <1>2, <2>1, <3>1 DEF Grows, TypeOK
  <2>9. run.kind \in {"catalog", "incoming", "organizer"}
    BY <1>0 DEF TypeOK, Runs
  <2> QED BY <2>4, <2>5, <2>6, <2>7, <2>8, <2>9
<1>11. ASSUME \/ \E target \in Targets : RequestScan(target)
              \/ ScanStarts \/ FindBook \/ ScanFails \/ RequestClose \/ RequestRestart
       PROVE  Grows /\ UNCHANGED saver
  <2>1. UNCHANGED <<live, store, epoch, generation, dirty, saver, run>>
    BY <1>11 DEF RequestScan, ScanStarts, FindBook, ScanFails, RequestClose, RequestRestart
  <2>2. ASSUME NEW target \in Targets, RequestScan(target) PROVE Batch \subseteq Batch'
    <3>1. scan.pc = "idle" \/ UNCHANGED scan
      BY <2>2 DEF RequestScan
    <3> QED BY <1>2, <3>1 DEF Batch
  <2>3. ASSUME ScanStarts \/ FindBook PROVE Batch \subseteq Batch'
    <3>1. scan.pc = "waiting" \/ /\ scan'.pc = scan.pc /\ scan'.target = scan.target
                                 /\ scan'.change = scan.change
                                 /\ scan.database \subseteq scan'.database
      BY <1>0, <2>3 DEF ScanStarts, FindBook, TypeOK, Scans
    <3> QED BY <3>1 DEF Batch
  <2>4. ASSUME ScanFails PROVE Batch \subseteq Batch'
    BY <2>4 DEF ScanFails, Batch
  <2>5. ASSUME RequestClose \/ RequestRestart PROVE Batch \subseteq Batch'
    <3>1. /\ scan'.pc = scan.pc /\ scan'.target = scan.target
          /\ scan'.change = scan.change /\ scan'.database = scan.database
      BY <1>0, <2>5 DEF RequestClose, RequestRestart, AbortScan, TypeOK, Scans
    <3> QED BY <3>1 DEF Batch
  <2> QED BY <1>1, <1>3, <1>11, <2>1, <2>2, <2>3, <2>4, <2>5
<1>12. ASSUME FinishWalk PROVE Grows /\ UNCHANGED saver
  <2>1. UNCHANGED <<live, store, generation, dirty, saver, run>>
    BY <1>12 DEF FinishWalk
  <2>2. /\ scan'.target = scan.target /\ scan'.change = scan.change
        /\ scan'.database = scan.database
        /\ scan.target = "Library" => scan'.pc = "done" /\ scan.pc = "walking"
    BY <1>0, <1>12 DEF FinishWalk, TypeOK, Scans
  <2>3. Batch' = Batch
    BY <2>2 DEF Batch
  <2>4. epoch \leq epoch'
    BY <1>0, <1>12 DEF FinishWalk, TypeOK
  <2> QED BY <1>0, <1>3, <2>1, <2>3, <2>4 DEF Grows, TypeOK
<1>13. ASSUME LandBatch PROVE Grows /\ UNCHANGED saver
  <2>1. /\ live' = live \cup {scan.change}
        /\ UNCHANGED <<store, dirty, generation, epoch, run, scan, saver>>
    BY <1>13 DEF LandBatch
  <2>2. scan.change \in Batch /\ Batch' = Batch
    BY <1>2, <1>13, <2>1 DEF LandBatch, Batch
  <2> QED BY <1>0, <1>3, <2>1, <2>2 DEF Grows, TypeOK
<1>14. ASSUME LandScan PROVE Grows /\ UNCHANGED saver
  <2>1. UNCHANGED <<store, run, saver>>
    BY <1>14 DEF LandScan
  <2>2. CASE scan.pc = "done" /\ scan.target = "Incoming"
    <3>1. UNCHANGED <<live, dirty, generation>> /\ epoch' = epoch + 1
      BY <1>14, <2>2 DEF LandScan, LandStorage
    <3>2. Batch = {}
      BY <2>2 DEF Batch
    <3> QED BY <1>0, <2>1, <3>1, <3>2 DEF Grows, TypeOK
  <2>3. CASE scan.pc = "done" /\ scan.target = "Library" /\ scan.change \in scan.database
    <3>1. live \subseteq live' /\ dirty' /\ epoch' = epoch + 1 /\ generation' = generation + 1
      BY <1>14, <2>3 DEF LandScan, LandStorage, Merge, MarkDirty
    <3> QED BY <1>0, <2>1, <3>1 DEF Grows, TypeOK
  <2>4. CASE scan.pc = "done" /\ scan.target = "Library" /\ scan.change \notin scan.database
    <3>1. scan.database \subseteq live
      BY <1>0, <2>4 DEF SourceInv
    <3>2. UNCHANGED <<live, dirty, generation, epoch>>
      BY <1>14, <2>4, <3>1 DEF LandScan, LandStorage, Merge
    <3>3. Batch = {}
      BY <2>4 DEF Batch
    <3> QED BY <1>1, <1>3, <2>1, <3>2, <3>3
  <2>5. CASE scan.pc = "failed"
    <3>1. UNCHANGED <<live, dirty, generation, epoch>>
      BY <1>14, <2>5 DEF LandScan
    <3>2. Batch = {}
      BY <2>5 DEF Batch
    <3> QED BY <1>1, <1>3, <2>1, <3>1, <3>2
  <2>6. scan.pc \in {"done", "failed"} /\ scan.target \in {"Library", "Incoming"}
    BY <1>0, <1>14 DEF LandScan, TypeOK, Scans
  <2> QED BY <2>2, <2>3, <2>4, <2>5, <2>6
<1>15. ~RestartSaves
  BY <1>0 DEF RestartSaves, GuardInv, Alone
<1> QED
  BY <1>4, <1>5, <1>6, <1>7, <1>8, <1>9, <1>10, <1>11, <1>12, <1>13, <1>14, <1>15
     DEF Next, Worker, Errors, User, Main, SaverSteps

\* A saver that does nothing stays right while the others add and mark.
LEMMA SaverFrame ==
    ASSUME TypeOK, TypeOK', NamesInv, NEW s \in Savers, SaverInv(s), Grows,
           saver'[s] = saver[s]
    PROVE  SaverInv(s)'
<1>0. /\ saver[s].epoch \in Nat /\ saver[s].generation \in Nat
      /\ epoch \in Nat /\ generation \in Nat /\ epoch' \in Nat /\ generation' \in Nat
  BY DEF TypeOK, Saves
<1>1. saver[s].pc # "idle" => /\ saver[s].database \subseteq live'
                              /\ saver[s].epoch \leq epoch'
                              /\ saver[s].generation \leq generation'
  BY <1>0 DEF SaverInv, Grows
<1>2. ASSUME saver[s].pc = "waiting", saver[s].epoch = epoch'
      PROVE  live' \subseteq saver[s].database \cup Batch' /\ ~(Ahead /\ run.pc = "committed")'
  <2>1. epoch' = epoch
    BY <1>0, <1>2 DEF SaverInv, Grows
  <2> QED BY <1>2, <2>1 DEF SaverInv, Grows
<1>3. saver[s].pc = "writing" => disk' \ abandoned' \subseteq saver[s].database
  BY DEF SaverInv, Grows
<1>4. ASSUME saver[s].pc \in {"waiting", "writing"}, saver[s].generation = generation'
      PROVE  live' \subseteq saver[s].database \cup Batch'
  <2>1. generation' = generation
    BY <1>0, <1>4 DEF SaverInv, Grows
  <2> QED BY <1>4, <2>1 DEF SaverInv, Grows
<1>5. ASSUME saver[s].pc = "saved", saver[s].generation = generation'
      PROVE  live' \subseteq disk' \cup Batch'
  <2>1. generation' = generation
    BY <1>0, <1>5 DEF SaverInv, Grows
  <2> QED BY <1>5, <2>1 DEF SaverInv, Grows, NamesInv
<1> QED BY <1>1, <1>2, <1>3, <1>4, <1>5 DEF SaverInv

\* A database that is not dirty stays on disk while the others add and mark.
LEMMA CleanFrame == ASSUME TypeOK, NamesInv, CleanInv, Grows PROVE CleanInv'
<1> SUFFICES ASSUME ~dirty' PROVE live' \subseteq disk' \cup Batch'
  BY Zenon DEF CleanInv
<1>1. disk \cap live \subseteq disk'
  <2>1. disk \ abandoned \subseteq disk'
    BY Zenon DEF Grows
  <2> QED BY <2>1 DEF NamesInv
<1>2. CASE live' \subseteq disk'
  BY <1>2
<1>3. CASE dirty' = dirty /\ generation' = generation
  <2>1. live \subseteq disk \cup Batch
    BY <1>3, Zenon DEF CleanInv
  <2>2. live' \subseteq live \cup Batch' /\ Batch \subseteq Batch'
    BY <1>3, Zenon DEF Grows
  <2> QED BY <1>1, <2>1, <2>2
<1> QED BY <1>2, <1>3, Zenon DEF Grows

\* What is on disk stays what the session holds, or what the run will install.
LEMMA SourceStep ==
    ASSUME OperationInv, DiskInv, Alone, Grows, [Next]_vars, ~SaverSteps
    PROVE  SourceInv'
<1> USE DEF database, store, control
<1>0. TypeOK /\ HeldInv /\ FlagInv /\ GuardInv /\ SourceInv
  BY DEF OperationInv, DiskInv
<1>1. live \subseteq live' /\ abandoned \subseteq abandoned'
  BY DEF Grows
<1> DEFINE Source == /\ ~Ahead => disk \ abandoned \subseteq live
                     /\ Ahead => disk = run.database
           Found == scan.pc # "idle" /\ scan.target = "Library" =>
                       scan.database \subseteq live \cup {scan.change}
<1>2. SourceInv' <=> Source' /\ Found'
  BY DEF SourceInv
<1>3. ASSUME UNCHANGED <<disk, run>> PROVE Source'
  BY <1>0, <1>1, <1>3 DEF SourceInv, Ahead
<1>4. ASSUME UNCHANGED scan PROVE Found'
  BY <1>0, <1>1, <1>4 DEF SourceInv
<1>5. ASSUME UNCHANGED disk, ~Ahead, ~Ahead' PROVE Source'
  BY <1>0, <1>1, <1>5 DEF SourceInv
<1> HIDE DEF Source, Found
<1>6. ASSUME \/ Edit \/ LandBatch \/ PollClose \/ FlushFails \/ Checkpointed
             \/ RestartStopsLoop \/ ReleaseLanded \/ UNCHANGED vars
      PROVE  SourceInv'
  <2>1. UNCHANGED <<disk, run, scan>>
    BY <1>6 DEF Edit, LandBatch, PollClose, FlushFails, Checkpointed, RestartStopsLoop,
                ReleaseLanded, vars
  <2> QED BY <1>2, <1>3, <1>4, <2>1
<1>7. ASSUME NEW kind \in Kinds, RequestRun(kind) PROVE SourceInv'
  <2>1. UNCHANGED <<disk, scan>> /\ run'.pc = "waiting" /\ operation = "none"
    BY <1>7 DEF RequestRun
  <2>2. ~Ahead /\ ~Ahead'
    BY <1>0, <2>1 DEF FlagInv, Ahead
  <2> QED BY <1>2, <1>4, <1>5, <2>1, <2>2
<1>8. ASSUME RunStarts \/ RunFails PROVE SourceInv'
  <2>1. UNCHANGED <<live, disk, scan>> /\ run.pc \in {"waiting", "working", "saved"}
    BY <1>8 DEF RunStarts, RunFails
  <2>2. run'.pc \in {"working", "failed"}
    BY <1>0, <1>8 DEF RunStarts, RunFails, TypeOK, Runs
  <2>3. ~Ahead'
    BY <2>2 DEF Ahead
  <2>4. CASE Ahead
    <3>1. disk = run.database /\ run.change \in abandoned'
      BY <1>0, <1>8, <2>4 DEF RunStarts, RunFails, SourceInv, Ahead
    <3>2. run.database \subseteq live \cup {run.change}
      BY <1>0, <2>1 DEF HeldInv
    <3>3. Source'
      BY <2>1, <2>3, <3>1, <3>2 DEF Source
    <3> QED BY <1>2, <1>4, <2>1, <3>3
  <2> QED BY <1>2, <1>4, <1>5, <2>1, <2>3, <2>4
<1>9. ASSUME RunSaves PROVE SourceInv'
  <2>1. UNCHANGED scan /\ run.pc = "working"
    BY <1>9 DEF RunSaves
  <2>2. /\ run'.pc = "saved" /\ run'.kind = run.kind
        /\ run'.database = run.database \cup {run.change}
    BY <1>0, <1>9 DEF RunSaves, TypeOK, Runs
  <2>3. CASE run.kind = "catalog"
    <3>1. Ahead' /\ disk' = run'.database
      BY <1>9, <2>2, <2>3 DEF RunSaves, Ahead
    <3> QED BY <1>2, <1>4, <2>1, <3>1 DEF Source
  <2>4. CASE run.kind # "catalog"
    <3>1. UNCHANGED disk /\ ~Ahead /\ ~Ahead'
      BY <1>9, <2>2, <2>4 DEF RunSaves, Ahead
    <3> QED BY <1>2, <1>4, <1>5, <2>1, <3>1
  <2> QED BY <2>3, <2>4
<1>10. ASSUME RunCommits PROVE SourceInv'
  <2>1. UNCHANGED <<live, store, scan>> /\ run.pc = "saved"
    BY <1>10 DEF RunCommits
  <2>2. run'.pc = "committed" /\ run'.kind = run.kind /\ run'.database = run.database
    BY <1>0, <1>10 DEF RunCommits, TypeOK, Runs
  <2>3. Source'
    BY <1>0, <2>1, <2>2 DEF Source, SourceInv, Ahead
  <2> QED BY <1>2, <1>4, <2>1, <2>3
<1>11. ASSUME LandRun PROVE SourceInv'
  <2>1. UNCHANGED <<disk, scan>> /\ run'.pc = "idle" /\ ~Ahead'
    BY <1>11 DEF LandRun, NoRun, Ahead
  <2>2. CASE Ahead
    <3>1. run.epoch = epoch /\ run.pc = "committed" /\ Install
      BY <1>0, <1>11, <2>2 DEF LandRun, Ahead, HeldInv, EpochHeldUntilLanding
    <3>2. live' = run.database
      BY <2>2, <3>1, Zenon DEF Install, Ahead
    <3> QED BY <1>0, <1>2, <1>4, <2>1, <2>2, <3>2 DEF Source, SourceInv
  <2> QED BY <1>2, <1>4, <1>5, <2>1, <2>2
<1>12. ASSUME NEW target \in Targets, RequestScan(target) PROVE SourceInv'
  <2>1. UNCHANGED <<live, disk, run>>
    BY <1>12 DEF RequestScan
  <2>2. UNCHANGED scan \/ scan'.database = live
    BY <1>12 DEF RequestScan, Started
  <2> QED BY <1>2, <1>3, <1>4, <2>1, <2>2 DEF Found
<1>13. ASSUME ScanStarts \/ FindBook \/ FinishWalk \/ ScanFails \/ RequestClose \/ RequestRestart
       PROVE  SourceInv'
  <2>1. UNCHANGED <<live, disk, run>>
    BY <1>13 DEF ScanStarts, FindBook, FinishWalk, ScanFails, RequestClose, RequestRestart
  <2>2. /\ scan'.pc # "idle" => scan.pc # "idle"
        /\ scan'.target = scan.target /\ scan'.change = scan.change
        /\ scan'.database \subseteq scan.database \cup {scan.change}
    BY <1>0, <1>13 DEF ScanStarts, FindBook, FinishWalk, ScanFails, RequestClose, RequestRestart,
                       AbortScan, TypeOK, Scans
  <2>3. Found'
    BY <1>0, <2>1, <2>2 DEF Found, SourceInv
  <2> QED BY <1>2, <1>3, <2>1, <2>3
<1>14. ASSUME LandScan PROVE SourceInv'
  <2>1. UNCHANGED <<disk, run>>
    BY <1>14 DEF LandScan
  <2>2. scan'.pc = "idle" \/ scan'.database = live'
    BY <1>14 DEF LandScan, StartNext, NoScan, Started
  <2> QED BY <1>2, <1>3, <2>1, <2>2 DEF Found
<1>15. ~RestartSaves
  BY <1>0 DEF RestartSaves, GuardInv, Alone
<1> QED
  BY <1>6, <1>7, <1>8, <1>9, <1>10, <1>11, <1>12, <1>13, <1>14, <1>15
     DEF Next, Worker, Errors, User, Main, SaverSteps

\* A saver writes a snapshot that has what is on disk: only a fresh one gets that far.
LEMMA SaverStep ==
    ASSUME OperationInv, DiskInv, Alone, SaverSteps
    PROVE  /\ disk \ abandoned \subseteq disk'
           /\ SourceInv' /\ (\A s \in Savers : SaverInv(s)') /\ CleanInv'
<1> USE DEF database, store, control
<1>0. TypeOK /\ HeldInv /\ NamesInv /\ FlagInv /\ GuardInv /\ SourceInv /\ CleanInv
      /\ \A s \in Savers : SaverInv(s)
  BY DEF OperationInv, DiskInv
<1>1. UNCHANGED <<live, abandoned, epoch, generation, run, scan>>
  BY DEF SaverSteps, SaverStarts, SaverWrites, SaverFails, StartBackgroundSave,
         LandBackgroundSave, StartCloseSave, LandCloseSave
<1>2. Batch' = Batch /\ Ahead' = Ahead
  BY <1>1 DEF Batch, Ahead
<1>3. ASSUME UNCHANGED disk PROVE disk \ abandoned \subseteq disk' /\ SourceInv'
  BY <1>0, <1>1, <1>2, <1>3 DEF SourceInv
<1>4. ASSUME UNCHANGED <<disk, dirty>> PROVE CleanInv'
  BY <1>0, <1>1, <1>2, <1>4 DEF CleanInv
<1>5. ASSUME NEW s \in Savers, UNCHANGED disk,
             saver'[s] = saver[s] \/ saver'[s] = NoSave
      PROVE  SaverInv(s)'
  BY <1>0, <1>1, <1>2, <1>5 DEF SaverInv, NoSave
<1>6. ASSUME NEW s \in Savers, UNCHANGED disk, saver'[s] = Snapshot,
             ~(Ahead /\ run.pc = "committed")
      PROVE  SaverInv(s)'
  BY <1>0, <1>1, <1>2, <1>6 DEF SaverInv, Snapshot, TypeOK
<1>7. ASSUME NEW s \in Savers, SaverStarts(s)
      PROVE  /\ disk \ abandoned \subseteq disk'
             /\ SourceInv' /\ (\A t \in Savers : SaverInv(t)') /\ CleanInv'
  <2>1. UNCHANGED <<disk, dirty>> /\ saver[s].pc = "waiting" /\ guard = "none"
    BY <1>7 DEF SaverStarts
  <2>2. \A t \in Savers \ {s} : saver'[t] = saver[t]
    BY <1>0, <1>7 DEF SaverStarts, TypeOK
  <2>3. /\ saver'[s].pc \in {"skipped", "writing"}
        /\ saver'[s].database = saver[s].database /\ saver'[s].epoch = saver[s].epoch
        /\ saver'[s].generation = saver[s].generation
        /\ saver'[s].pc = "writing" => saver[s].epoch = epoch
    BY <1>0, <1>7 DEF SaverStarts, TypeOK, Saves
  <2>4. Batch = {} /\ run.pc # "saved"
    BY <1>0, <2>1 DEF GuardInv, Batch
  <2>5. saver[s].epoch = epoch => disk \ abandoned \subseteq saver[s].database
    BY <1>0, <2>1, <2>4 DEF SaverInv, SourceInv, Ahead
  <2>6. SaverInv(s)'
    BY <1>0, <1>1, <1>2, <2>1, <2>3, <2>5 DEF SaverInv
  <2> QED BY <1>3, <1>4, <1>5, <2>1, <2>2, <2>6
<1>8. ASSUME NEW s \in Savers, SaverWrites(s) \/ SaverFails(s), disk' = saver[s].database
      PROVE  /\ disk \ abandoned \subseteq disk'
             /\ SourceInv' /\ (\A t \in Savers : SaverInv(t)') /\ CleanInv'
  <2>1. UNCHANGED dirty /\ saver[s].pc = "writing"
    BY <1>8 DEF SaverWrites, SaverFails
  <2>2. \A t \in Savers \ {s} : saver'[t] = saver[t]
    BY <1>0, <1>8 DEF SaverWrites, SaverFails, TypeOK
  <2>3. /\ saver'[s].pc \in {"saved", "failed"}
        /\ saver'[s].database = saver[s].database /\ saver'[s].epoch = saver[s].epoch
        /\ saver'[s].generation = saver[s].generation
    BY <1>0, <1>8 DEF SaverWrites, SaverFails, TypeOK, Saves
  <2>4. disk \ abandoned \subseteq disk' /\ disk \cap live \subseteq disk' /\ disk' \subseteq live
    BY <1>0, <1>8, <2>1 DEF SaverInv, NamesInv
  <2>5. SourceInv'
    <3>1. ASSUME Ahead PROVE disk' = run.database
      <4>1. /\ live \subseteq run.database /\ run.database \subseteq live \cup {run.change}
            /\ disk = run.database
        BY <1>0, <3>1 DEF HeldInv, SourceInv, Ahead
      <4>2. run.database \cap abandoned = {}
        BY <1>0, <3>1, <4>1 DEF NamesInv, Ahead
      <4> QED BY <2>4, <4>1, <4>2
    <3> QED BY <1>0, <1>1, <1>2, <2>4, <3>1 DEF SourceInv
  <2>6. SaverInv(s)'
    BY <1>0, <1>1, <1>2, <1>8, <2>1, <2>3 DEF SaverInv
  <2>7. \A t \in Savers \ {s} : saver[t].pc # "writing"
    BY <1>0, <2>1 DEF GuardInv
  <2>8. \A t \in Savers \ {s} : SaverInv(t)'
    BY <1>0, <1>1, <1>2, <2>2, <2>4, <2>7 DEF SaverInv
  <2>9. CleanInv'
    BY <1>0, <1>1, <1>2, <2>1, <2>4 DEF CleanInv
  <2> QED BY <2>4, <2>5, <2>6, <2>8, <2>9
<1>9. ASSUME NEW s \in Savers, SaverFails(s), UNCHANGED disk
      PROVE  /\ disk \ abandoned \subseteq disk'
             /\ SourceInv' /\ (\A t \in Savers : SaverInv(t)') /\ CleanInv'
  <2>1. UNCHANGED <<disk, dirty>> /\ saver[s].pc = "writing"
    BY <1>9 DEF SaverFails
  <2>2. \A t \in Savers \ {s} : saver'[t] = saver[t]
    BY <1>0, <1>9 DEF SaverFails, TypeOK
  <2>3. /\ saver'[s].pc = "failed"
        /\ saver'[s].database = saver[s].database /\ saver'[s].epoch = saver[s].epoch
        /\ saver'[s].generation = saver[s].generation
    BY <1>0, <1>9 DEF SaverFails, TypeOK, Saves
  <2>4. SaverInv(s)'
    BY <1>0, <1>1, <1>2, <2>1, <2>3 DEF SaverInv
  <2> QED BY <1>3, <1>4, <1>5, <2>1, <2>2, <2>4
<1>10. ASSUME StartBackgroundSave \/ StartCloseSave
       PROVE  /\ disk \ abandoned \subseteq disk'
              /\ SourceInv' /\ (\A t \in Savers : SaverInv(t)') /\ CleanInv'
  <2>1. UNCHANGED <<disk, dirty>>
    BY <1>10 DEF StartBackgroundSave, StartCloseSave
  <2>2. \A t \in Savers : saver'[t] \in {saver[t], Snapshot}
    BY <1>0, <1>10 DEF StartBackgroundSave, StartCloseSave, TypeOK
  <2>3. UNCHANGED saver \/ run.pc # "committed"
    BY <1>0, <1>10 DEF StartBackgroundSave, StartCloseSave, FlagInv, Alone
  <2>4. \A t \in Savers : SaverInv(t)'
    BY <1>5, <1>6, <2>1, <2>2, <2>3
  <2> QED BY <1>3, <1>4, <2>1, <2>4
<1>11. ASSUME LandBackgroundSave \/ LandCloseSave
       PROVE  /\ disk \ abandoned \subseteq disk'
              /\ SourceInv' /\ (\A t \in Savers : SaverInv(t)') /\ CleanInv'
  <2>1. UNCHANGED disk
    BY <1>11 DEF LandBackgroundSave, LandCloseSave
  <2>2. \A t \in Savers : saver'[t] \in {saver[t], NoSave, Snapshot}
    BY <1>0, <1>11 DEF LandBackgroundSave, LandCloseSave, TypeOK
  <2>3. (\A t \in Savers : saver'[t] \in {saver[t], NoSave}) \/ run.pc # "committed"
    BY <1>0, <1>11 DEF LandBackgroundSave, LandCloseSave, FlagInv, TypeOK
  <2>4. \A t \in Savers : SaverInv(t)'
    BY <1>5, <1>6, <2>1, <2>2, <2>3
  <2>5. UNCHANGED dirty \/ \E s \in Savers : /\ saver[s].pc = "saved"
                                            /\ dirty' = (dirty /\ generation # saver[s].generation)
    BY <1>11, Zenon DEF LandBackgroundSave, LandCloseSave, MarkSaved, Savers
  <2>6. CleanInv'
    BY <1>0, <1>1, <1>2, <2>1, <2>5 DEF CleanInv, SaverInv
  <2> QED BY <1>3, <2>1, <2>4, <2>6
<1>12. \A s \in Savers : /\ SaverWrites(s) => disk' = saver[s].database
                         /\ SaverFails(s) => disk' = saver[s].database \/ UNCHANGED disk
  BY DEF SaverWrites, SaverFails
<1> QED BY <1>7, <1>8, <1>9, <1>10, <1>11, <1>12 DEF SaverSteps

\* Every step keeps the disk and the session together.
LEMMA DiskStep ==
    OperationInv /\ OperationInv' /\ DiskInv /\ Alone /\ [Next]_vars =>
        DiskInv' /\ disk \ abandoned \subseteq disk'
<1> SUFFICES ASSUME OperationInv, OperationInv', DiskInv, Alone, [Next]_vars
             PROVE  DiskInv' /\ disk \ abandoned \subseteq disk'
  OBVIOUS
<1>1. TypeOK /\ TypeOK' /\ NamesInv /\ GuardInv'
  BY GuardStep DEF OperationInv, DiskInv
<1>2. CASE SaverSteps
  BY <1>1, <1>2, SaverStep DEF DiskInv
<1>3. CASE ~SaverSteps
  <2>1. Grows /\ UNCHANGED saver
    BY <1>3, OtherStep
  <2>2. SourceInv'
    BY <1>3, <2>1, SourceStep
  <2>3. \A s \in Savers : SaverInv(s)'
    BY <1>1, <2>1, SaverFrame DEF DiskInv
  <2>4. CleanInv'
    BY <1>1, <2>1, CleanFrame DEF DiskInv
  <2>5. disk \ abandoned \subseteq disk'
    BY <2>1 DEF Grows
  <2> QED BY <1>1, <2>2, <2>3, <2>4, <2>5 DEF DiskInv
<1> QED BY <1>2, <1>3

\* The inductive invariant of the catalog on disk.
THEOREM DiskInvariant ==
    ASSUME ~Restarts, ~TimerBeforeLanding
    PROVE  Spec => []DiskInv
<1>1. Init => DiskInv
  BY DEF Init, DiskInv, GuardInv, SourceInv, SaverInv, CleanInv, Ahead, Batch, NoRun, NoScan,
         NoSave, Savers
<1>2. OperationInv /\ OperationInv' /\ DiskInv /\ [Next]_vars => DiskInv'
  BY DiskStep DEF Alone
<1> QED BY <1>1, <1>2, OperationInvariant, PTL DEF Spec

\* No save writes an older database over a change that is on disk: a saver that waited
\* through a run or an edit finds another epoch (the checks after acquire_mutation_guard
\* in save_if_dirty_async and save_for_close_async).
THEOREM DiskForgetsNothing ==
    ASSUME ~Restarts, ~TimerBeforeLanding
    PROVE  Spec => DiskNeverForgets
<1>1. OperationInv /\ OperationInv' /\ DiskInv /\ [Next]_vars =>
        [disk \ abandoned \subseteq disk']_vars
  BY DiskStep DEF Alone
<1> QED BY <1>1, DiskInvariant, OperationInvariant, PTL DEF Spec, DiskNeverForgets

\* A database that is not dirty is on disk: mark_saved clears the flag only for the
\* generation that was written.
THEOREM CleanIsSaved ==
    ASSUME ~Restarts, ~TimerBeforeLanding
    PROVE  Spec => []CleanMeansSaved
<1>1. DiskInv => CleanMeansSaved
  BY DEF DiskInv, CleanInv, CleanMeansSaved, Batch
<1> QED BY <1>1, DiskInvariant, PTL

--------------------------------------------------------------------------------

(***************************************************************************)
(* The window that closes, whatever else the user may ask for, as long as  *)
(* nothing is asked while it waits.  Once the coordinator has been seen    *)
(* idle the session stands still, and what waits to write it has all of it.*)
(***************************************************************************)

\* What a Library scan has and the session has not, it has found itself.
ScanInv ==
    scan.pc # "idle" /\ scan.target = "Library" =>
        /\ scan.database \subseteq live \cup {scan.change}
        /\ scan.pc \in {"waiting", "failed"} => scan.database \subseteq live

\* A snapshot of this epoch has what the session has.
FreshInv ==
    \A s \in Savers :
        /\ saver[s].pc # "idle" => saver[s].epoch \leq epoch
        /\ saver[s].pc = "waiting" /\ saver[s].epoch = epoch =>
              live \subseteq saver[s].database \cup Batch

\* The coordinator has been idle, and the close goes on.
Frozen == closing \in {"flushing", "saving", "checkpoint"}

\* No worker is left that could change the session, but a Library scan that was told
\* to stop before it looked at a file.
ClosingInv ==
    /\ closing # "open" => queue = <<>> /\ (scan.pc # "idle" => scan.stop = "set")
    /\ Frozen => /\ run.pc = "idle"
                 /\ scan.pc # "idle" => scan.target = "Library" /\ scan.database \subseteq live
    /\ saver["close"].pc # "idle" => closing = "saving"

\* A saver that may write the catalog.
MayWrite(s) ==
    \/ saver[s].pc = "writing"
    \/ saver[s].pc = "waiting" /\ saver[s].epoch = epoch

\* Who may write has all of the session, and the close save has written it.
SavedInv ==
    /\ Frozen => \A s \in Savers : MayWrite(s) => live \subseteq saver[s].database
    /\ saver["close"].pc = "saved" \/ closing = "checkpoint" => live \subseteq disk
    /\ CloseSavesEverything

CloseInv == GuardInv /\ ScanInv /\ FreshInv /\ ClosingInv /\ SavedInv

\* The batch is what FindBook found, until the landing marks it; the rest of what
\* enters the session comes with another epoch.
Unmarked ==
    /\ epoch \leq epoch'
    /\ epoch' = epoch => live' \subseteq live \cup Batch' /\ Batch \subseteq Batch'

LEMMA UnmarkedStep == OperationInv /\ ScanInv /\ [Next]_vars => Unmarked
<1> SUFFICES ASSUME OperationInv, ScanInv, [Next]_vars PROVE Unmarked
  OBVIOUS
<1> USE DEF database, store, control
<1>0. TypeOK /\ HeldInv /\ epoch \in Nat
  BY DEF OperationInv, TypeOK
<1>1. ASSUME UNCHANGED <<live, epoch>>, Batch \subseteq Batch' PROVE Unmarked
  BY <1>0, <1>1 DEF Unmarked
<1>2. ASSUME UNCHANGED scan PROVE Batch' = Batch
  BY <1>2 DEF Batch
<1>3. ASSUME epoch' = epoch + 1 PROVE Unmarked
  BY <1>0, <1>3 DEF Unmarked
<1>4. ASSUME UNCHANGED live, UNCHANGED scan, epoch' \in {epoch, epoch + 1} PROVE Unmarked
  BY <1>1, <1>2, <1>3, <1>4
<1>5. ASSUME \/ \E kind \in Kinds : RequestRun(kind)
             \/ RunStarts \/ RunSaves \/ RunFails \/ ReleaseLanded
             \/ \E s \in Savers : SaverStarts(s) \/ SaverWrites(s) \/ SaverFails(s)
             \/ StartBackgroundSave \/ LandBackgroundSave \/ StartCloseSave \/ LandCloseSave
             \/ PollClose \/ FlushFails \/ Checkpointed \/ RestartStopsLoop \/ RestartSaves
             \/ UNCHANGED vars
      PROVE  Unmarked
  <2>1. UNCHANGED <<live, epoch, scan>>
    BY <1>5 DEF RequestRun, RunStarts, RunSaves, RunFails, ReleaseLanded, SaverStarts,
                SaverWrites, SaverFails, StartBackgroundSave, LandBackgroundSave,
                StartCloseSave, LandCloseSave, PollClose, FlushFails, Checkpointed,
                RestartStopsLoop, RestartSaves, vars
  <2> QED BY <1>4, <2>1
<1>6. ASSUME Edit PROVE Unmarked
  BY <1>3, <1>6 DEF Edit, MarkDirty
<1>7. ASSUME RunCommits PROVE Unmarked
  BY <1>4, <1>7 DEF RunCommits
<1>8. ASSUME LandRun PROVE Unmarked
  <2>1. UNCHANGED scan /\ run.epoch = epoch /\ run.pc \in {"committed", "failed"}
    BY <1>0, <1>8 DEF LandRun, HeldInv, EpochHeldUntilLanding
  <2>2. CASE run.pc = "failed"
    BY <1>4, <1>8, <2>1, <2>2 DEF LandRun
  <2>3. CASE run.pc = "committed"
    <3>1. Install
      BY <1>8, <2>3 DEF LandRun
    <3>2. epoch' = epoch + 1
      BY <2>1, <3>1 DEF Install, MarkDirty
    <3> QED BY <1>3, <3>2
  <2> QED BY <2>1, <2>2, <2>3
<1>9. ASSUME NEW target \in Targets, RequestScan(target) PROVE Unmarked
  <2>1. scan.pc = "idle" \/ UNCHANGED scan
    BY <1>9 DEF RequestScan
  <2>2. Batch \subseteq Batch'
    BY <1>2, <2>1 DEF Batch
  <2> QED BY <1>1, <1>9, <2>2 DEF RequestScan
<1>10. ASSUME ScanStarts \/ FindBook \/ ScanFails \/ RequestClose \/ RequestRestart
       PROVE  Unmarked
  <2>1. UNCHANGED <<live, epoch>>
    BY <1>10 DEF ScanStarts, FindBook, ScanFails, RequestClose, RequestRestart
  <2>2. ASSUME ScanStarts \/ FindBook PROVE Batch \subseteq Batch'
    <3>1. scan.pc = "waiting" \/ /\ scan'.pc = scan.pc /\ scan'.target = scan.target
                                 /\ scan'.change = scan.change
                                 /\ scan.database \subseteq scan'.database
      BY <1>0, <2>2 DEF ScanStarts, FindBook, TypeOK, Scans
    <3> QED BY <3>1 DEF Batch
  <2>3. ASSUME ScanFails PROVE Batch \subseteq Batch'
    BY <2>3 DEF ScanFails, Batch
  <2>4. ASSUME RequestClose \/ RequestRestart PROVE Batch \subseteq Batch'
    <3>1. /\ scan'.pc = scan.pc /\ scan'.target = scan.target
          /\ scan'.change = scan.change /\ scan'.database = scan.database
      BY <1>0, <2>4 DEF RequestClose, RequestRestart, AbortScan, TypeOK, Scans
    <3> QED BY <3>1 DEF Batch
  <2> QED BY <1>1, <1>10, <2>1, <2>2, <2>3, <2>4
<1>11. ASSUME FinishWalk PROVE Unmarked
  <2>1. /\ scan'.target = scan.target /\ scan'.change = scan.change
        /\ scan'.database = scan.database /\ scan.pc = "walking"
        /\ scan.target = "Library" => scan'.pc = "done" /\ epoch' = epoch
        /\ epoch' \in {epoch, epoch + 1} /\ live' = live
    BY <1>0, <1>11 DEF FinishWalk, TypeOK, Scans
  <2>2. Batch' = Batch
    BY <2>1 DEF Batch
  <2> QED BY <1>1, <1>3, <2>1, <2>2
<1>12. ASSUME LandBatch PROVE Unmarked
  <2>1. live' = live \cup {scan.change} /\ UNCHANGED <<epoch, scan>>
    BY <1>12 DEF LandBatch
  <2>2. scan.change \in Batch /\ Batch' = Batch
    BY <1>2, <1>12, <2>1 DEF LandBatch, Batch
  <2> QED BY <1>0, <2>1, <2>2 DEF Unmarked
<1>13. ASSUME LandScan PROVE Unmarked
  <2>1. scan.pc \in {"done", "failed"} /\ scan.target \in {"Library", "Incoming"}
    BY <1>0, <1>13 DEF LandScan, TypeOK, Scans
  <2>2. CASE scan.pc = "failed"
    BY <1>1, <1>13, <2>2 DEF LandScan, Batch
  <2>3. CASE scan.pc = "done" /\ scan.target = "Incoming"
    BY <1>3, <1>13, <2>3 DEF LandScan, LandStorage
  <2>4. CASE scan.pc = "done" /\ scan.target = "Library" /\ scan.change \in scan.database
    BY <1>3, <1>13, <2>4 DEF LandScan, LandStorage, MarkDirty
  <2>5. CASE scan.pc = "done" /\ scan.target = "Library" /\ scan.change \notin scan.database
    <3>1. scan.database \subseteq live
      BY <2>5 DEF ScanInv
    <3>2. UNCHANGED <<live, epoch>>
      BY <1>13, <2>5, <3>1 DEF LandScan, LandStorage, Merge
    <3>3. Batch = {}
      BY <2>5 DEF Batch
    <3> QED BY <1>1, <3>2, <3>3
  <2> QED BY <2>1, <2>2, <2>3, <2>4, <2>5
<1> QED
  BY <1>5, <1>6, <1>7, <1>8, <1>9, <1>10, <1>11, <1>12, <1>13
     DEF Next, Worker, Errors, User, Main

\* Only FindBook adds to what a scan has, one book, and while the scan walks.
LEMMA ScanStep == OperationInv /\ ScanInv /\ [Next]_vars => ScanInv'
<1> SUFFICES ASSUME OperationInv, ScanInv, [Next]_vars PROVE ScanInv'
  OBVIOUS
<1> USE DEF database, store, control
<1>0. TypeOK /\ live \subseteq live'
  BY SessionGrows DEF OperationInv
<1>1. ASSUME /\ scan'.pc # "idle" => scan.pc # "idle"
             /\ scan'.target = scan.target /\ scan'.change = scan.change
             /\ scan'.database = scan.database
             /\ scan'.target = "Library" /\ scan'.pc \in {"waiting", "failed"} =>
                   scan.pc \in {"waiting", "failed"}
      PROVE  ScanInv'
  BY <1>0, <1>1 DEF ScanInv
<1>2. ASSUME UNCHANGED scan PROVE ScanInv'
  BY <1>1, <1>2
<1>3. ASSUME \/ Edit \/ LandRun \/ LandBatch
             \/ \E kind \in Kinds : RequestRun(kind)
             \/ RunStarts \/ RunSaves \/ RunCommits \/ RunFails \/ ReleaseLanded
             \/ \E s \in Savers : SaverStarts(s) \/ SaverWrites(s) \/ SaverFails(s)
             \/ StartBackgroundSave \/ LandBackgroundSave \/ StartCloseSave \/ LandCloseSave
             \/ PollClose \/ FlushFails \/ Checkpointed \/ RestartStopsLoop \/ RestartSaves
             \/ UNCHANGED vars
      PROVE  ScanInv'
  <2>1. UNCHANGED scan
    BY <1>3 DEF Edit, LandRun, LandBatch, RequestRun, RunStarts, RunSaves, RunCommits, RunFails,
                ReleaseLanded, SaverStarts, SaverWrites, SaverFails, StartBackgroundSave,
                LandBackgroundSave, StartCloseSave, LandCloseSave, PollClose, FlushFails,
                Checkpointed, RestartStopsLoop, RestartSaves, vars
  <2> QED BY <1>2, <2>1
<1>4. ASSUME NEW target \in Targets, RequestScan(target) PROVE ScanInv'
  <2>1. UNCHANGED live /\ (UNCHANGED scan \/ scan'.database = live)
    BY <1>4 DEF RequestScan, Started
  <2> QED BY <1>2, <2>1 DEF ScanInv
<1>5. ASSUME ScanStarts \/ FinishWalk \/ ScanFails \/ RequestClose \/ RequestRestart
      PROVE  ScanInv'
  <2>1. /\ scan'.pc # "idle" => scan.pc # "idle"
        /\ scan'.target = scan.target /\ scan'.change = scan.change
        /\ scan'.database = scan.database
    BY <1>0, <1>5 DEF ScanStarts, FinishWalk, ScanFails, RequestClose, RequestRestart, AbortScan,
                      TypeOK, Scans
  <2>2. scan'.target = "Library" /\ scan'.pc \in {"waiting", "failed"} =>
           scan.pc \in {"waiting", "failed"}
    BY <1>0, <1>5 DEF ScanStarts, FinishWalk, ScanFails, RequestClose, RequestRestart, AbortScan,
                      TypeOK, Scans
  <2> QED BY <1>1, <2>1, <2>2
<1>6. ASSUME FindBook PROVE ScanInv'
  <2>1. /\ scan.pc = "walking" /\ scan'.pc = "walking"
        /\ scan'.target = scan.target /\ scan'.change = scan.change
        /\ scan'.database = scan.database \cup {scan.change}
    BY <1>0, <1>6 DEF FindBook, TypeOK, Scans
  <2> QED BY <1>0, <2>1 DEF ScanInv
<1>7. ASSUME LandScan PROVE ScanInv'
  <2>1. scan'.pc = "idle" \/ scan'.database = live'
    BY <1>7 DEF LandScan, StartNext, NoScan, Started
  <2> QED BY <2>1 DEF ScanInv
<1> QED
  BY <1>3, <1>4, <1>5, <1>6, <1>7 DEF Next, Worker, Errors, User, Main

\* A saver's record is a copy of the session, or goes on to its next step, or is dropped.
LEMMA SaverRecords ==
    ASSUME TypeOK, [Next]_vars, NEW s \in Savers
    PROVE  \/ saver'[s] = saver[s]
           \/ saver'[s] = NoSave
           \/ saver'[s] = Snapshot /\ UNCHANGED <<live, epoch, run, scan>>
           \/ /\ saver[s].pc = "waiting" /\ saver'[s].pc \in {"writing", "skipped"}
              /\ saver'[s].database = saver[s].database /\ saver'[s].epoch = saver[s].epoch
              /\ saver'[s].pc = "writing" => saver[s].epoch = epoch
           \/ /\ saver[s].pc = "writing" /\ saver'[s].pc \in {"saved", "failed"}
              /\ saver'[s].database = saver[s].database /\ saver'[s].epoch = saver[s].epoch
              /\ saver'[s].pc = "saved" => disk' = saver[s].database
<1> USE DEF database, store, control
<1>1. ASSUME \/ Edit \/ LandRun \/ LandBatch \/ LandScan
             \/ \E kind \in Kinds : RequestRun(kind)
             \/ \E target \in Targets : RequestScan(target)
             \/ RunStarts \/ RunSaves \/ RunCommits \/ RunFails \/ ReleaseLanded
             \/ ScanStarts \/ FindBook \/ FinishWalk \/ ScanFails
             \/ RequestClose \/ RequestRestart
             \/ PollClose \/ FlushFails \/ Checkpointed \/ RestartStopsLoop \/ RestartSaves
             \/ UNCHANGED vars
      PROVE  saver' = saver
  BY <1>1 DEF Edit, LandRun, LandBatch, LandScan, RequestRun, RequestScan, RunStarts, RunSaves,
              RunCommits, RunFails, ReleaseLanded, ScanStarts, FindBook, FinishWalk, ScanFails,
              RequestClose, RequestRestart, PollClose, FlushFails, Checkpointed,
              RestartStopsLoop, RestartSaves, vars
<1>2. ASSUME NEW t \in Savers, SaverStarts(t)
      PROVE  \/ saver'[s] = saver[s]
             \/ /\ saver[s].pc = "waiting" /\ saver'[s].pc \in {"writing", "skipped"}
                /\ saver'[s].database = saver[s].database /\ saver'[s].epoch = saver[s].epoch
                /\ saver'[s].pc = "writing" => saver[s].epoch = epoch
  BY <1>2 DEF SaverStarts, TypeOK, Saves
<1>3. ASSUME NEW t \in Savers, SaverWrites(t) \/ SaverFails(t)
      PROVE  \/ saver'[s] = saver[s]
             \/ /\ saver[s].pc = "writing" /\ saver'[s].pc \in {"saved", "failed"}
                /\ saver'[s].database = saver[s].database /\ saver'[s].epoch = saver[s].epoch
                /\ saver'[s].pc = "saved" => disk' = saver[s].database
  BY <1>3 DEF SaverWrites, SaverFails, TypeOK, Saves
<1>4. ASSUME StartBackgroundSave \/ LandBackgroundSave \/ StartCloseSave \/ LandCloseSave
      PROVE  \/ saver'[s] = saver[s]
             \/ saver'[s] = NoSave
             \/ saver'[s] = Snapshot /\ UNCHANGED <<live, epoch, run, scan>>
  <2>1. saver'[s] \in {saver[s], NoSave, Snapshot}
    BY <1>4 DEF StartBackgroundSave, LandBackgroundSave, StartCloseSave, LandCloseSave, TypeOK
  <2>2. UNCHANGED <<live, epoch, run, scan>>
    BY <1>4 DEF StartBackgroundSave, LandBackgroundSave, StartCloseSave, LandCloseSave
  <2> QED BY <2>1, <2>2
<1> QED
  BY <1>1, <1>2, <1>3, <1>4 DEF Next, Worker, Errors, User, Main

\* A snapshot goes stale with the epoch, never within it.
LEMMA FreshStep == OperationInv /\ ScanInv /\ FreshInv /\ [Next]_vars => FreshInv'
<1> SUFFICES ASSUME OperationInv, ScanInv, FreshInv, [Next]_vars, NEW s \in Savers
             PROVE  /\ saver'[s].pc # "idle" => saver'[s].epoch \leq epoch'
                    /\ saver'[s].pc = "waiting" /\ saver'[s].epoch = epoch' =>
                          live' \subseteq saver'[s].database \cup Batch'
  BY DEF FreshInv
<1>0. TypeOK /\ TypeOK' /\ Unmarked
  BY UnmarkedStep, TypeStep DEF OperationInv
<1>1. /\ epoch \in Nat /\ epoch' \in Nat /\ saver[s].epoch \in Nat /\ epoch \leq epoch'
      /\ saver[s].pc # "idle" => saver[s].epoch \leq epoch
      /\ saver[s].pc = "waiting" /\ saver[s].epoch = epoch =>
            live \subseteq saver[s].database \cup Batch
  BY <1>0 DEF FreshInv, Unmarked, TypeOK, Saves
<1>2. CASE saver'[s] = saver[s]
  <2>1. ASSUME saver[s].pc = "waiting", saver[s].epoch = epoch'
        PROVE  live' \subseteq saver[s].database \cup Batch'
    <3>1. epoch' = epoch
      BY <1>1, <2>1
    <3>2. live' \subseteq live \cup Batch' /\ Batch \subseteq Batch'
      BY <1>0, <3>1 DEF Unmarked
    <3> QED BY <1>1, <2>1, <3>1, <3>2
  <2>2. saver[s].pc # "idle" => saver[s].epoch \leq epoch'
    BY <1>1
  <2> QED BY <1>2, <2>1, <2>2
<1>3. CASE saver'[s] = NoSave
  BY <1>3 DEF NoSave
<1>4. CASE saver'[s] = Snapshot /\ UNCHANGED <<live, epoch, run, scan>>
  BY <1>1, <1>4 DEF Snapshot
<1>5. CASE saver[s].pc # "idle" /\ saver'[s].pc # "waiting" /\ saver'[s].epoch = saver[s].epoch
  BY <1>1, <1>5
<1> QED BY <1>0, <1>2, <1>3, <1>4, <1>5, SaverRecords

\* Nothing is asked while the window waits, so what was queued or walking at the close
\* only comes to its end.
LEMMA ClosingStep ==
    ASSUME OperationInv, GuardInv, ScanInv, ClosingInv, ~BusyClose, [Next]_vars
    PROVE  ClosingInv'
<1> USE DEF database, store, control
<1>0. TypeOK /\ FlagInv /\ live \subseteq live'
  BY SessionGrows DEF OperationInv
<1> DEFINE Quiet == closing # "open" =>
                       queue = <<>> /\ (scan.pc # "idle" => scan.stop = "set")
           Idle == Frozen => /\ run.pc = "idle"
                             /\ scan.pc # "idle" => /\ scan.target = "Library"
                                                    /\ scan.database \subseteq live
           Saving == saver["close"].pc # "idle" => closing = "saving"
<1>1. (ClosingInv <=> Quiet /\ Idle /\ Saving) /\ (ClosingInv' <=> Quiet' /\ Idle' /\ Saving')
  BY DEF ClosingInv
<1>2. Quiet /\ Idle /\ Saving
  BY <1>1
<1>3. ASSUME UNCHANGED <<closing, queue>>,
             \/ closing = "open"
             \/ scan'.pc = "idle"
             \/ scan.pc # "idle" /\ scan'.stop = scan.stop
      PROVE  Quiet'
  BY <1>2, <1>3
<1>4. ASSUME UNCHANGED closing, run'.pc = "idle" \/ run.pc # "idle" \/ closing = "open",
             \/ closing = "open"
             \/ scan'.pc = "idle"
             \/ /\ scan.pc # "idle" /\ scan'.target = scan.target
                /\ scan'.database \subseteq scan.database
      PROVE  Idle'
  BY <1>0, <1>2, <1>4 DEF Frozen
<1>5. ASSUME UNCHANGED closing, saver'["close"].pc # "idle" => saver["close"].pc # "idle"
      PROVE  Saving'
  BY <1>2, <1>5
<1> HIDE DEF Quiet, Idle, Saving
<1>6. ASSUME UNCHANGED <<closing, queue, scan, saver>>,
             run'.pc = "idle" \/ run.pc # "idle" \/ closing = "open"
      PROVE  ClosingInv'
  <2>1. Quiet'
    BY <1>3, <1>6 DEF Quiet
  <2>2. Idle'
    BY <1>4, <1>6 DEF Idle
  <2>3. Saving'
    BY <1>5, <1>6
  <2> QED BY <1>1, <2>1, <2>2, <2>3
<1>7. ASSUME \/ Edit \/ LandBatch \/ LandRun \/ Checkpointed \/ RestartStopsLoop \/ RestartSaves
             \/ RunStarts \/ RunSaves \/ RunCommits \/ RunFails \/ ReleaseLanded
             \/ \E kind \in Kinds : RequestRun(kind)
             \/ UNCHANGED vars
      PROVE  ClosingInv'
  <2>1. UNCHANGED <<closing, queue, scan, saver>>
    BY <1>7 DEF Edit, LandBatch, LandRun, Checkpointed, RestartStopsLoop, RestartSaves, RunStarts,
                RunSaves, RunCommits, RunFails, ReleaseLanded, RequestRun, vars
  <2>2. run'.pc = "idle" \/ run.pc # "idle" \/ closing = "open" \/ UNCHANGED run
    BY <1>7 DEF Edit, LandBatch, LandRun, Checkpointed, RestartStopsLoop, RestartSaves, RunStarts,
                RunSaves, RunCommits, RunFails, ReleaseLanded, RequestRun, UserEvent, NoRun, vars
  <2> QED BY <1>6, <2>1, <2>2
<1>8. ASSUME NEW target \in Targets, RequestScan(target) PROVE ClosingInv'
  <2>1. closing = "open" /\ UNCHANGED <<closing, run, saver>>
    BY <1>8 DEF RequestScan, UserEvent
  <2> QED BY <1>2, <2>1 DEF ClosingInv, Saving, Frozen
<1>9. ASSUME ScanStarts \/ FindBook \/ FinishWalk \/ ScanFails PROVE ClosingInv'
  <2>1. UNCHANGED <<closing, queue, run, saver>>
    BY <1>9 DEF ScanStarts, FindBook, FinishWalk, ScanFails
  <2>2. scan.pc # "idle" /\ scan'.stop = scan.stop /\ scan'.target = scan.target
    BY <1>0, <1>9 DEF ScanStarts, FindBook, FinishWalk, ScanFails, TypeOK, Scans
  <2>3. scan'.database = scan.database \/ closing = "open"
    <3>1. FindBook => closing = "open"
      BY <1>2 DEF FindBook, Quiet
    <3> QED BY <1>0, <1>9, <3>1 DEF ScanStarts, FinishWalk, ScanFails, TypeOK, Scans
  <2>4. Quiet'
    BY <1>3, <2>1, <2>2
  <2>5. Idle'
    BY <1>4, <2>1, <2>2, <2>3
  <2>6. Saving'
    BY <1>5, <2>1
  <2> QED BY <1>1, <2>4, <2>5, <2>6
<1>10. ASSUME LandScan PROVE ClosingInv'
  <2>1. UNCHANGED <<closing, run, saver>>
    BY <1>10 DEF LandScan
  <2>2. closing # "open" => scan'.pc = "idle" /\ UNCHANGED queue
    BY <1>2, <1>10 DEF LandScan, StartNext, NoScan, Quiet
  <2>3. Quiet'
    BY <2>1, <2>2, <1>2 DEF Quiet
  <2>4. Idle'
    BY <1>4, <2>1, <2>2
  <2>5. Saving'
    BY <1>5, <2>1
  <2> QED BY <1>1, <2>3, <2>4, <2>5
<1>11. ASSUME \/ \E s \in Savers : SaverStarts(s) \/ SaverWrites(s) \/ SaverFails(s)
              \/ StartBackgroundSave \/ LandBackgroundSave
       PROVE  ClosingInv'
  <2>1. UNCHANGED <<closing, queue, run, scan, live>>
    BY <1>11 DEF SaverStarts, SaverWrites, SaverFails, StartBackgroundSave, LandBackgroundSave
  <2>2. saver'["close"].pc # "idle" => saver["close"].pc # "idle"
    BY <1>0, <1>11 DEF SaverStarts, SaverWrites, SaverFails, StartBackgroundSave,
                       LandBackgroundSave, TypeOK, Saves, Savers
  <2>3. Saving'
    BY <1>5, <2>1, <2>2
  <2> QED BY <1>1, <1>2, <2>1, <2>3 DEF Quiet, Idle, Frozen
<1>12. ASSUME RequestClose \/ RequestRestart PROVE ClosingInv'
  <2>1. UNCHANGED <<run, saver, live>>
    BY <1>12 DEF RequestClose, RequestRestart
  <2>2. /\ scan'.pc = scan.pc /\ scan'.target = scan.target /\ scan'.database = scan.database
        /\ scan.pc # "idle" => scan'.stop = "set" /\ queue' = <<>>
        /\ queue' \in {queue, <<>>}
    BY <1>0, <1>12 DEF RequestClose, RequestRestart, AbortScan, TypeOK, Scans
  <2>3. CASE RequestRestart
    <3>1. UNCHANGED closing
      BY <2>3 DEF RequestRestart
    <3>2. Quiet'
      BY <1>2, <2>2, <3>1 DEF Quiet
    <3>3. Idle'
      BY <1>2, <2>1, <2>2, <3>1 DEF Idle, Frozen
    <3>4. Saving'
      BY <1>5, <2>1, <3>1
    <3> QED BY <1>1, <3>2, <3>3, <3>4
  <2>4. CASE RequestClose
    <3>1. closing = "open" /\ closing' = "polling" /\ queue' = <<>>
      BY <2>4 DEF RequestClose, AbortScan
    <3>2. Quiet' /\ Idle'
      BY <2>2, <3>1 DEF Quiet, Idle, Frozen
    <3>3. Saving'
      BY <1>2, <2>1, <3>1 DEF Saving
    <3> QED BY <1>1, <3>2, <3>3
  <2> QED BY <1>12, <2>3, <2>4
<1>13. ASSUME PollClose PROVE ClosingInv'
  <2>1. /\ UNCHANGED <<live, run, scan, saver, queue>> /\ closing = "polling"
        /\ operation = "none" /\ guard = "none" /\ closing' = "flushing"
    BY <1>13 DEF PollClose
  <2>2. run.pc = "idle" /\ (scan.pc # "idle" => scan.target # "Incoming")
        /\ saver["close"].pc = "idle"
    BY <1>0, <2>1 DEF FlagInv
  <2>3. scan.pc \notin {"walking", "done"}
    BY <2>1 DEF GuardInv
  <2>4. scan.pc # "idle" => scan.target = "Library" /\ scan.database \subseteq live
    BY <1>0, <2>2, <2>3 DEF TypeOK, Scans, ScanInv
  <2>5. Quiet' /\ Idle' /\ Saving'
    BY <1>2, <2>1, <2>2, <2>4 DEF Quiet, Idle, Saving, Frozen
  <2> QED BY <1>1, <2>5
<1>14. ASSUME StartCloseSave \/ FlushFails \/ LandCloseSave PROVE ClosingInv'
  <2>1. UNCHANGED <<live, run, scan, queue>> /\ Frozen
    BY <1>0, <1>2, <1>14 DEF StartCloseSave, FlushFails, LandCloseSave, Frozen, Saving
  <2>2. closing # "open"
    BY <2>1 DEF Frozen
  <2>3. Quiet' /\ Idle'
    BY <1>2, <2>1, <2>2 DEF Quiet, Idle, Frozen
  <2>4. Saving'
    BY <1>0, <1>2, <1>14 DEF StartCloseSave, FlushFails, LandCloseSave, NoSave, TypeOK, Savers,
                             Saving
  <2> QED BY <1>1, <2>3, <2>4
<1> QED
  BY <1>7, <1>8, <1>9, <1>10, <1>11, <1>12, <1>13, <1>14 DEF Next, Worker, Errors, User, Main

\* Behind a window that waits the session stands still.
LEMMA FrozenSession ==
    ASSUME OperationInv, ScanInv, ClosingInv, ~BusyClose, Frozen, [Next]_vars
    PROVE  live' = live
<1> USE DEF database, store, control
<1>0. /\ run.pc = "idle" /\ closing # "open"
      /\ scan.pc # "idle" => scan.target = "Library" /\ scan.database \subseteq live
  BY DEF ClosingInv, Frozen
<1>1. ~Edit /\ ~LandRun
  BY <1>0 DEF Edit, UserEvent, LandRun
<1>2. ~LandBatch
  BY <1>0 DEF LandBatch
<1>3. ASSUME LandScan PROVE live' = live
  <2>1. scan.pc \in {"done", "failed"} /\ scan.target = "Library"
    BY <1>0, <1>3 DEF LandScan
  <2> QED BY <1>0, <1>3, <2>1 DEF LandScan, LandStorage, Merge
<1>4. ASSUME Worker \/ Errors PROVE live' = live
  BY <1>4 DEF Worker, Errors, RunStarts, RunSaves, RunCommits, ScanStarts, FindBook,
              FinishWalk, ReleaseLanded, SaverStarts, SaverWrites, RunFails, ScanFails,
              FlushFails, SaverFails
<1>5. ASSUME \/ \E kind \in Kinds : RequestRun(kind)
             \/ \E target \in Targets : RequestScan(target)
             \/ RequestClose \/ RequestRestart
             \/ StartBackgroundSave \/ LandBackgroundSave \/ PollClose \/ StartCloseSave
             \/ LandCloseSave \/ Checkpointed \/ RestartStopsLoop \/ RestartSaves
             \/ UNCHANGED vars
      PROVE  live' = live
  BY <1>5 DEF RequestRun, RequestScan, RequestClose, RequestRestart, StartBackgroundSave,
              LandBackgroundSave, PollClose, StartCloseSave, LandCloseSave, Checkpointed,
              RestartStopsLoop, RestartSaves, vars
<1> QED BY <1>1, <1>2, <1>3, <1>4, <1>5 DEF Next, User, Main

\* Who writes the catalog.
LEMMA DiskWriters ==
    ASSUME [Next]_vars
    PROVE  \/ disk' = disk
           \/ run.pc # "idle"
           \/ disk' = live
           \/ \E s \in Savers : saver[s].pc = "writing" /\ disk' = saver[s].database
<1> USE DEF database, store, control
<1>1. ASSUME RunSaves \/ RestartSaves \/ \E s \in Savers : SaverWrites(s) \/ SaverFails(s)
      PROVE  \/ disk' = disk
             \/ run.pc # "idle"
             \/ disk' = live
             \/ \E s \in Savers : saver[s].pc = "writing" /\ disk' = saver[s].database
  BY <1>1 DEF RunSaves, RestartSaves, SaverWrites, SaverFails
<1>2. ASSUME Next, ~RunSaves, ~RestartSaves,
             ~\E s \in Savers : SaverWrites(s) \/ SaverFails(s)
      PROVE  disk' = disk
  BY <1>2 DEF Next, Worker, Errors, User, Main, Edit, LandRun, LandBatch, LandScan, RequestRun,
              RequestScan, RunStarts, RunCommits, RunFails, ReleaseLanded, ScanStarts, FindBook,
              FinishWalk, ScanFails, SaverStarts, StartBackgroundSave, LandBackgroundSave,
              StartCloseSave, LandCloseSave, RequestClose, PollClose,
              FlushFails, Checkpointed, RequestRestart, RestartStopsLoop
<1>3. ASSUME UNCHANGED vars PROVE disk' = disk
  BY <1>3 DEF vars
<1> QED BY <1>1, <1>2, <1>3

\* How a close gets on.
LEMMA ClosingMoves ==
    ASSUME ClosingInv, [Next]_vars
    PROVE  /\ Frozen' => \/ Frozen
                         \/ PollClose
           /\ closing' = "checkpoint" => \/ closing = "checkpoint"
                                         \/ saver["close"].pc = "saved" /\ UNCHANGED <<live, disk>>
           /\ main' = "closed" => \/ main = "closed" /\ UNCHANGED vars
                                  \/ closing = "checkpoint" /\ UNCHANGED <<live, disk>>
                                  \/ disk' = live /\ live' = live
<1> USE DEF database, store, control, Frozen
<1>1. ASSUME PollClose \/ StartCloseSave \/ FlushFails \/ RequestClose
      PROVE  /\ Frozen' => Frozen \/ PollClose
             /\ closing' # "checkpoint" \/ closing = "checkpoint"
             /\ main' # "closed"
  BY <1>1 DEF PollClose, StartCloseSave, FlushFails, RequestClose, Handler
<1>2. ASSUME LandCloseSave
      PROVE  /\ Frozen
             /\ closing' = "checkpoint" => \/ closing = "checkpoint"
                                           \/ saver["close"].pc = "saved" /\ UNCHANGED <<live, disk>>
             /\ main' # "closed"
  BY <1>2 DEF LandCloseSave, Handler, ClosingInv
<1>3. ASSUME Checkpointed \/ RestartSaves
      PROVE  /\ closing' = closing
             /\ \/ closing = "checkpoint" /\ UNCHANGED <<live, disk>>
                \/ disk' = live /\ live' = live
  BY <1>3 DEF Checkpointed, RestartSaves
<1>4. ASSUME Next, ~PollClose, ~StartCloseSave, ~FlushFails, ~RequestClose, ~LandCloseSave,
             ~Checkpointed, ~RestartSaves
      PROVE  closing' = closing /\ main' # "closed"
  BY <1>4 DEF Next, Worker, Errors, User, Main, Edit, UserEvent, LandRun, LandBatch, LandScan,
              RequestRun, RequestScan, RunStarts, RunSaves, RunCommits, RunFails, ReleaseLanded,
              ScanStarts, FindBook, FinishWalk, ScanFails, SaverStarts, SaverWrites, SaverFails,
              StartBackgroundSave, LandBackgroundSave, RequestRestart, RestartStopsLoop,
              Running, Handler
<1> QED BY <1>1, <1>2, <1>3, <1>4 DEF vars

\* Who may write has all of the session, from the moment it stands still.
LEMMA SavedStep ==
    ASSUME OperationInv, CloseInv, ClosingInv', ~BusyClose, [Next]_vars
    PROVE  SavedInv'
<1>0. TypeOK /\ GuardInv /\ ScanInv /\ FreshInv /\ ClosingInv /\ SavedInv /\ Unmarked
  BY UnmarkedStep DEF OperationInv, CloseInv
<1>1. ASSUME Frozen', NEW s \in Savers, MayWrite(s)' PROVE live' \subseteq saver'[s].database
  <2>1. CASE Frozen
    <3>1. live' = live
      BY <1>0, <2>1, FrozenSession
    <3>2. /\ epoch \in Nat /\ epoch' \in Nat /\ saver[s].epoch \in Nat /\ epoch \leq epoch'
          /\ saver[s].pc # "idle" => saver[s].epoch \leq epoch
      BY <1>0, TypeStep DEF FreshInv, Unmarked, TypeOK, Saves
    <3>3. MayWrite(s) => live \subseteq saver[s].database
      BY <1>0, <2>1 DEF SavedInv
    <3>4. CASE saver'[s] = saver[s]
      <4>1. MayWrite(s)
        BY <1>1, <3>2, <3>4 DEF MayWrite
      <4> QED BY <3>1, <3>3, <3>4, <4>1
    <3>5. CASE saver'[s] = Snapshot
      BY <3>1, <3>5 DEF Snapshot
    <3>6. CASE /\ saver[s].pc = "waiting" /\ saver'[s].pc \in {"writing", "skipped"}
               /\ saver'[s].database = saver[s].database
               /\ saver'[s].pc = "writing" => saver[s].epoch = epoch
      <4>1. MayWrite(s)
        BY <1>1, <3>6 DEF MayWrite
      <4> QED BY <3>1, <3>3, <3>6, <4>1
    <3>7. saver'[s].pc \in {"writing", "waiting"}
      BY <1>1 DEF MayWrite
    <3>8. saver'[s] # NoSave
      BY <3>7 DEF NoSave
    <3> QED BY <1>0, <3>4, <3>5, <3>6, <3>7, <3>8, SaverRecords
  <2>2. CASE PollClose
    <3>1. guard = "none" /\ UNCHANGED <<live, saver, epoch, scan>>
      BY <2>2 DEF PollClose, database
    <3>2. Batch = {} /\ saver[s].pc # "writing"
      BY <1>0, <3>1 DEF GuardInv, Batch, Savers
    <3> QED BY <1>0, <1>1, <3>1, <3>2 DEF MayWrite, FreshInv
  <2> QED BY <1>0, <1>1, <2>1, <2>2, ClosingMoves
<1>2. ASSUME saver'["close"].pc = "saved" \/ closing' = "checkpoint" PROVE live' \subseteq disk'
  <2>1. Frozen'
    BY <1>2 DEF ClosingInv, Frozen
  <2>2. CASE PollClose
    BY <1>0, <1>2, <2>2 DEF PollClose, ClosingInv
  <2>3. CASE Frozen
    <3>1. live' = live
      BY <1>0, <2>3, FrozenSession
    <3>2. ASSUME live \subseteq disk PROVE live' \subseteq disk'
      <4>1. run.pc = "idle"
        BY <1>0, <2>3 DEF ClosingInv
      <4>2. ASSUME NEW s \in Savers, saver[s].pc = "writing" PROVE live \subseteq saver[s].database
        BY <1>0, <2>3, <4>2 DEF SavedInv, MayWrite
      <4> QED BY <3>1, <3>2, <4>1, <4>2, DiskWriters
    <3>3. CASE saver'["close"].pc = "saved"
      <4>1. \/ saver["close"].pc = "saved"
            \/ saver["close"].pc = "writing" /\ disk' = saver["close"].database
        BY <1>0, <3>3, SaverRecords DEF Savers, NoSave, Snapshot
      <4>2. saver["close"].pc = "writing" => live \subseteq saver["close"].database
        BY <1>0, <2>3 DEF SavedInv, MayWrite, Savers
      <4> QED BY <1>0, <3>1, <3>2, <4>1, <4>2 DEF SavedInv
    <3>4. CASE closing' = "checkpoint"
      BY <1>0, <3>2, <3>4, ClosingMoves DEF SavedInv
    <3> QED BY <1>2, <3>3, <3>4
  <2> QED BY <1>0, <2>1, <2>2, <2>3, ClosingMoves
<1>3. ASSUME main' = "closed" PROVE live' \subseteq disk'
  BY <1>0, <1>3, ClosingMoves DEF SavedInv, CloseSavesEverything, vars
<1> QED BY <1>1, <1>2, <1>3 DEF SavedInv, CloseSavesEverything

\* The inductive invariant of the close: every step keeps its five parts.
THEOREM CloseInvariant ==
    ASSUME ~BusyClose
    PROVE  Spec => []CloseInv
<1>1. Init => CloseInv
  BY DEF Init, CloseInv, GuardInv, ScanInv, FreshInv, ClosingInv, SavedInv, Frozen, MayWrite,
         CloseSavesEverything, NoRun, NoScan, NoSave, Savers
<1>2. OperationInv /\ CloseInv /\ [Next]_vars => CloseInv'
  <2> SUFFICES ASSUME OperationInv, CloseInv, [Next]_vars PROVE CloseInv'
    OBVIOUS
  <2>1. TypeOK /\ GuardInv /\ ScanInv /\ FreshInv /\ ClosingInv
    BY DEF OperationInv, CloseInv
  <2>2. ClosingInv'
    BY <2>1, ClosingStep
  <2>3. SavedInv'
    BY <2>2, SavedStep
  <2> QED BY <2>1, <2>2, <2>3, GuardStep, ScanStep, FreshStep DEF CloseInv
<1> QED BY <1>1, <1>2, OperationInvariant, PTL DEF Spec

\* A window that has closed left nothing behind in memory, by the close button
\* (save_for_close_async) or by the Restart command (library::save), whichever runs,
\* scans and background saves were under way when it was asked to close.
THEOREM CloseSaves ==
    ASSUME ~BusyClose
    PROVE  Spec => []CloseSavesEverything
<1>1. CloseInv => CloseSavesEverything
  BY DEF CloseInv, SavedInv
<1> QED BY <1>1, CloseInvariant, PTL

================================================================================

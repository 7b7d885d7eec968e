----------------------- MODULE ReplacementJournalProofs -----------------------
(***************************************************************************)
(* Proofs about the replacement journal, for every value of its constants. *)
(***************************************************************************)
EXTENDS ReplacementJournal, TLAPS

\* The steps of Progress change these variables and keep them typed; splitting
\* Next once here keeps the later proofs to one case per action.
LEMMA PathFacts == /\ Destination \in Paths
                   /\ {"source", "staging", "old"} \subseteq Paths
                   /\ Destination # "source" /\ Destination # "staging"
                   /\ ~SameExtension => Destination # "old"
  BY DEF Paths, Destination

\* Type correctness: every variable stays in its set, whatever the extension
\* of the comic, whoever touches the files and however many faults happen.
THEOREM TypeCorrect == Spec => []TypeOK
<1>1. Init => TypeOK
  <2> SUFFICES ASSUME Init PROVE TypeOK
    OBVIOUS
  <2>1. faults \in 0..MaxFaults
    BY ConstantsAssumption DEF Init, ConstantsAssumption
  <2>2. /\ linked \in BOOLEAN
        /\ trash \subseteq Contents
        /\ images \subseteq Images
    BY DEF Init
  <2>3. /\ file \in [Paths -> Contents]
        /\ comicDb \in Versions /\ incomingDb \in Versions
        /\ journal \in Stages \cup {"none"} /\ stage \in Stages
        /\ session \in Versions \cup {"none"}
        /\ pc \in Working \cup {"idle", "failed", "down"}
        /\ session # "none"
        /\ stranded \in BOOLEAN
    BY DEF Init, Stages, Versions
  <2> QED BY <2>1, <2>2, <2>3 DEF TypeOK
<1>2. TypeOK /\ [Next]_vars => TypeOK'
  <2> SUFFICES ASSUME TypeOK, [Next]_vars PROVE TypeOK'
    OBVIOUS
  <2> USE PathFacts, ConstantsAssumption
      DEF TypeOK, durable, files, catalogs, bounds, Stages, Working, Goto, Stop, Fault, LateError,
          Advance, ConstantsAssumption
  <2>1. CASE Request
    BY <2>1 DEF Request
  <2>2. CASE BeginCleanup
    BY <2>2 DEF BeginCleanup, FewerImages
  <2>3. CASE WriteImages
    BY <2>3 DEF WriteImages, Images
  <2>4. CASE WritePrepared
    BY <2>4 DEF WritePrepared
  <2>5. CASE StartCommit
    BY <2>5 DEF StartCommit
  <2>6. CASE SaveStage
    BY <2>6 DEF SaveStage
  <2>7. CASE ReuseStaging
    BY <2>7 DEF ReuseStaging
  <2>8. CASE DiscardStaging
    <3>1. file' \in [Paths -> Contents] /\ linked' \in BOOLEAN /\ trash' \subseteq Contents
      BY <2>8 DEF DiscardStaging, Contents
    <3>2. UNCHANGED <<catalogs, images, journal, session>>
      BY <2>8 DEF DiscardStaging
    <3>3. /\ pc' \in Working \cup {"idle", "failed", "down"} /\ stage' \in Stages
          /\ faults' \in 0..MaxFaults /\ stranded' \in BOOLEAN
          /\ pc' \in {"idle", "failed"} => session # "none"
      BY <2>8 DEF DiscardStaging
    <3> QED BY <3>1, <3>2, <3>3
  <2>9. CASE StartCopy
    BY <2>9 DEF StartCopy, Contents
  <2>10. CASE FinishCopy
    BY <2>10 DEF FinishCopy, Contents
  <2>11. CASE CheckStaged
    BY <2>11 DEF CheckStaged
  <2>12. CASE TrashOld
    <3>1. file' \in [Paths -> Contents] /\ linked' \in BOOLEAN /\ trash' \subseteq Contents
      BY <2>12 DEF TrashOld, Contents
    <3>2. UNCHANGED <<catalogs, images, journal, session>>
      BY <2>12 DEF TrashOld
    <3>3. /\ pc' \in Working \cup {"idle", "failed", "down"} /\ stage' \in Stages
          /\ faults' \in 0..MaxFaults /\ stranded' \in BOOLEAN
          /\ pc' \in {"idle", "failed"} => session # "none"
      BY <2>12 DEF TrashOld
    <3> QED BY <3>1, <3>2, <3>3
  <2>13. CASE OldIsTrashed
    BY <2>13 DEF OldIsTrashed
  <2>14. CASE LinkDestination
    BY <2>14 DEF LinkDestination, Contents
  <2>15. CASE AlreadyLinked
    BY <2>15 DEF AlreadyLinked
  <2>16. CASE RemoveStaging
    <3>1. file' \in [Paths -> Contents] /\ linked' \in BOOLEAN /\ trash' \subseteq Contents
      BY <2>16 DEF RemoveStaging, Contents
    <3>2. UNCHANGED <<catalogs, images, journal, session>>
      BY <2>16 DEF RemoveStaging
    <3>3. /\ pc' \in Working \cup {"idle", "failed", "down"} /\ stage' \in Stages
          /\ faults' \in 0..MaxFaults /\ stranded' \in BOOLEAN
          /\ pc' \in {"idle", "failed"} => session # "none"
      BY <2>16 DEF RemoveStaging
    <3> QED BY <3>1, <3>2, <3>3
  <2>17. CASE AlreadyInstalled
    BY <2>17 DEF AlreadyInstalled
  <2>18. CASE SaveDatabase
    BY <2>18 DEF SaveDatabase, Versions
  <2>19. CASE SaveIncoming
    BY <2>19 DEF SaveIncoming, Versions
  <2>20. CASE RemoveSource
    BY <2>20 DEF RemoveSource, Contents
  <2>21. CASE CheckCommitted
    BY <2>21 DEF CheckCommitted
  <2>22. CASE FinishImages
    BY <2>22 DEF FinishImages, FewerImages
  <2>23. CASE FinishJournal
    BY <2>23 DEF FinishJournal
  <2>24. CASE Land
    BY <2>24 DEF Land, Versions
  <2>25. CASE Conflict
    BY <2>25 DEF Conflict
  <2>26. CASE EpochChanged
    BY <2>26 DEF EpochChanged
  <2>27. CASE Startup
    BY <2>27 DEF Startup
  <2>28. CASE Close
    BY <2>28 DEF Close, Versions
  <2>29. CASE IoError
    <3>1. file' \in [Paths -> Contents]
      BY <2>29 DEF IoError, Contents
    <3>2. images' \subseteq Images
      BY <2>29 DEF IoError, AfterCleanup
    <3> QED BY <2>29, <3>1, <3>2 DEF IoError
  <2>30. CASE Crash
    BY <2>30 DEF Crash
  <2>31. CASE Interfere
    BY <2>31 DEF Interfere, Contents
  <2>32. CASE UNCHANGED vars
    BY <2>32 DEF vars
  <2>33. CASE PreparedReportsError
    BY <2>33 DEF PreparedReportsError, AfterCleanup, Images
  <2>34. CASE StartupRefused
    BY <2>34 DEF StartupRefused, vars
  <2> QED
    BY <2>1, <2>2, <2>3, <2>4, <2>5, <2>6, <2>7, <2>8, <2>9, <2>10, <2>11, <2>12, <2>13, <2>14, <2>15, <2>16, <2>17, <2>18, <2>19, <2>20, <2>21, <2>22, <2>23, <2>24, <2>25, <2>26, <2>27, <2>28, <2>29, <2>30, <2>31, <2>32, <2>33, <2>34
    DEF Next, Progress, Begin, Roll
<1> QED BY <1>1, <1>2, PTL DEF Spec

\* The journal, the stage in memory and the sidecars stay in step.
LEMMA ControlStep ==
  ASSUME TypeOK, ControlInv, [Next]_vars
  PROVE  ControlInv'
<1> USE DEF TypeOK, ControlInv, ImagesForJournal, durable, files, catalogs, bounds, At, Advance,
        Goto, Stop, Fault, LateError, StageSteps, Stages, Images, Working
<1>1. CASE Request
  BY <1>1 DEF Request
<1>2. CASE BeginCleanup
  BY <1>2 DEF BeginCleanup, FewerImages
<1>3. CASE WriteImages
  BY <1>3 DEF WriteImages
<1>4. CASE WritePrepared
  BY <1>4 DEF WritePrepared
<1>5. CASE StartCommit
  BY <1>5 DEF StartCommit
<1>6. CASE SaveStage
  BY <1>6 DEF SaveStage
<1>7. CASE ReuseStaging
  BY <1>7 DEF ReuseStaging
<1>8. CASE DiscardStaging
  BY <1>8 DEF DiscardStaging
<1>9. CASE StartCopy
  BY <1>9 DEF StartCopy
<1>10. CASE FinishCopy
  BY <1>10 DEF FinishCopy
<1>11. CASE CheckStaged
  BY <1>11 DEF CheckStaged
<1>12. CASE TrashOld
  BY <1>12 DEF TrashOld
<1>13. CASE OldIsTrashed
  BY <1>13 DEF OldIsTrashed
<1>14. CASE LinkDestination
  BY <1>14 DEF LinkDestination
<1>15. CASE AlreadyLinked
  BY <1>15 DEF AlreadyLinked
<1>16. CASE RemoveStaging
  BY <1>16 DEF RemoveStaging
<1>17. CASE AlreadyInstalled
  BY <1>17 DEF AlreadyInstalled
<1>18. CASE SaveDatabase
  BY <1>18 DEF SaveDatabase
<1>19. CASE SaveIncoming
  BY <1>19 DEF SaveIncoming
<1>20. CASE RemoveSource
  BY <1>20 DEF RemoveSource
<1>21. CASE CheckCommitted
  BY <1>21 DEF CheckCommitted
<1>22. CASE FinishImages
  BY <1>22 DEF FinishImages, FewerImages
<1>23. CASE FinishJournal
  BY <1>23 DEF FinishJournal
<1>24. CASE Land
  BY <1>24 DEF Land
<1>25. CASE Conflict
  BY <1>25 DEF Conflict, Refused
<1>26. CASE EpochChanged
  BY <1>26 DEF EpochChanged
<1>27. CASE Startup
  BY <1>27 DEF Startup
<1>28. CASE Close
  BY <1>28 DEF Close
<1>29. CASE IoError
  BY <1>29 DEF IoError, AfterCleanup
<1>30. CASE Crash
  BY <1>30 DEF Crash
<1>31. CASE Interfere
  BY <1>31 DEF Interfere, Quiet
<1>32. CASE UNCHANGED vars
  BY <1>32 DEF vars
<1>33. CASE PreparedReportsError
  BY <1>33 DEF PreparedReportsError, AfterCleanup
<1>34. CASE StartupRefused
  BY <1>34 DEF StartupRefused, vars
<1> QED
  BY <1>1, <1>2, <1>3, <1>4, <1>5, <1>6, <1>7, <1>8, <1>9, <1>10, <1>11, <1>12,
     <1>13, <1>14, <1>15, <1>16, <1>17, <1>18, <1>19, <1>20, <1>21, <1>22, <1>23, <1>24,
     <1>25, <1>26, <1>27, <1>28, <1>29, <1>30, <1>31, <1>32, <1>33, <1>34
  DEF Next, Progress, Begin, Roll

\* While nobody interferes, the journal says which files are in place.
LEMMA FilesStep ==
  ASSUME TypeOK, ControlInv, FilesInv, ~Interference, [Next]_vars
  PROVE  FilesInv'
<1> USE PathFacts
    DEF TypeOK, ControlInv, FilesInv, durable, files, catalogs, At, Advance, Goto, Stop,
        LateError, StageSteps, Done, Exists, Valid, FromTrashed, FromInstalled, FromDatabaseSaved,
        FromIncomingSaved, DestinationTaken, OldReappeared
<1>1. CASE Request
  BY <1>1 DEF Request
<1>2. CASE BeginCleanup
  BY <1>2 DEF BeginCleanup
<1>3. CASE WriteImages
  BY <1>3 DEF WriteImages
<1>4. CASE WritePrepared
  BY <1>4 DEF WritePrepared
<1>5. CASE StartCommit
  BY <1>5 DEF StartCommit
<1>6. CASE SaveStage
  BY <1>6 DEF SaveStage
<1>7. CASE ReuseStaging
  BY <1>7 DEF ReuseStaging
<1>8. CASE DiscardStaging
  BY <1>8 DEF DiscardStaging
<1>9. CASE StartCopy
  BY <1>9 DEF StartCopy
<1>10. CASE FinishCopy
  BY <1>10 DEF FinishCopy
<1>11. CASE CheckStaged
  BY <1>11 DEF CheckStaged
<1>12. CASE TrashOld
  BY <1>12 DEF TrashOld
<1>13. CASE OldIsTrashed
  BY <1>13 DEF OldIsTrashed
<1>14. CASE LinkDestination
  BY <1>14 DEF LinkDestination
<1>15. CASE AlreadyLinked
  BY <1>15 DEF AlreadyLinked
<1>16. CASE RemoveStaging
  BY <1>16 DEF RemoveStaging
<1>17. CASE AlreadyInstalled
  BY <1>17 DEF AlreadyInstalled
<1>18. CASE SaveDatabase
  BY <1>18 DEF SaveDatabase
<1>19. CASE SaveIncoming
  BY <1>19 DEF SaveIncoming
<1>20. CASE RemoveSource
  BY <1>20 DEF RemoveSource
<1>21. CASE CheckCommitted
  BY <1>21 DEF CheckCommitted
<1>22. CASE FinishImages
  BY <1>22 DEF FinishImages
<1>23. CASE FinishJournal
  BY <1>23 DEF FinishJournal
<1>24. CASE Land
  BY <1>24 DEF Land
<1>25. CASE Conflict
  BY <1>25 DEF Conflict
<1>26. CASE EpochChanged
  BY <1>26 DEF EpochChanged
<1>27. CASE Startup
  BY <1>27 DEF Startup
<1>28. CASE Close
  BY <1>28 DEF Close
<1>29. CASE IoError
  BY <1>29 DEF IoError
<1>30. CASE Crash
  BY <1>30 DEF Crash
<1>31. CASE Interfere
  BY <1>31 DEF Interfere
<1>32. CASE UNCHANGED vars
  BY <1>32 DEF vars
<1>33. CASE PreparedReportsError
  BY <1>33 DEF PreparedReportsError
<1>34. CASE StartupRefused
  BY <1>34 DEF StartupRefused, vars
<1> QED
  BY <1>1, <1>2, <1>3, <1>4, <1>5, <1>6, <1>7, <1>8, <1>9, <1>10, <1>11, <1>12,
     <1>13, <1>14, <1>15, <1>16, <1>17, <1>18, <1>19, <1>20, <1>21, <1>22, <1>23, <1>24,
     <1>25, <1>26, <1>27, <1>28, <1>29, <1>30, <1>31, <1>32, <1>33, <1>34
  DEF Next, Progress, Begin, Roll

\* While nobody interferes and no stale session is saved, it also says what the
\* catalogs hold.
LEMMA CatalogsStep ==
  ASSUME TypeOK, ControlInv, FilesInv, CatalogsInv, ~Interference, ~CloseAfterFailure, [Next]_vars
  PROVE  CatalogsInv'
<1> USE PathFacts
    DEF TypeOK, Stages, ControlInv, FilesInv, CatalogsInv, durable, files, catalogs, At, Advance,
        Goto, Stop, LateError, StageSteps, Done, Exists, FromInstalled, FromDatabaseSaved,
        FromIncomingSaved
<1>1. CASE Request
  BY <1>1 DEF Request
<1>2. CASE BeginCleanup
  BY <1>2 DEF BeginCleanup
<1>3. CASE WriteImages
  BY <1>3 DEF WriteImages
<1>4. CASE WritePrepared
  BY <1>4 DEF WritePrepared
<1>5. CASE StartCommit
  BY <1>5 DEF StartCommit
<1>6. CASE SaveStage
  BY <1>6 DEF SaveStage
<1>7. CASE ReuseStaging
  BY <1>7 DEF ReuseStaging
<1>8. CASE DiscardStaging
  BY <1>8 DEF DiscardStaging
<1>9. CASE StartCopy
  BY <1>9 DEF StartCopy
<1>10. CASE FinishCopy
  BY <1>10 DEF FinishCopy
<1>11. CASE CheckStaged
  BY <1>11 DEF CheckStaged
<1>12. CASE TrashOld
  BY <1>12 DEF TrashOld
<1>13. CASE OldIsTrashed
  BY <1>13 DEF OldIsTrashed
<1>14. CASE LinkDestination
  BY <1>14 DEF LinkDestination
<1>15. CASE AlreadyLinked
  BY <1>15 DEF AlreadyLinked
<1>16. CASE RemoveStaging
  BY <1>16 DEF RemoveStaging
<1>17. CASE AlreadyInstalled
  BY <1>17 DEF AlreadyInstalled
<1>18. CASE SaveDatabase
  BY <1>18 DEF SaveDatabase
<1>19. CASE SaveIncoming
  BY <1>19 DEF SaveIncoming
<1>20. CASE RemoveSource
  BY <1>20 DEF RemoveSource
<1>21. CASE CheckCommitted
  BY <1>21 DEF CheckCommitted
<1>22. CASE FinishImages
  BY <1>22 DEF FinishImages
<1>23. CASE FinishJournal
  BY <1>23 DEF FinishJournal
<1>24. CASE Land
  BY <1>24 DEF Land
<1>25. CASE Conflict
  BY <1>25 DEF Conflict, Refused
<1>26. CASE EpochChanged
  BY <1>26 DEF EpochChanged
<1>27. CASE Startup
  BY <1>27 DEF Startup
<1>28. CASE Close
  BY <1>28 DEF Close
<1>29. CASE IoError
  BY <1>29 DEF IoError
<1>30. CASE Crash
  BY <1>30 DEF Crash
<1>31. CASE Interfere
  BY <1>31 DEF Interfere
<1>32. CASE UNCHANGED vars
  BY <1>32 DEF vars
<1>33. CASE PreparedReportsError
  BY <1>33 DEF PreparedReportsError
<1>34. CASE StartupRefused
  BY <1>34 DEF StartupRefused, vars
<1> QED
  BY <1>1, <1>2, <1>3, <1>4, <1>5, <1>6, <1>7, <1>8, <1>9, <1>10, <1>11, <1>12,
     <1>13, <1>14, <1>15, <1>16, <1>17, <1>18, <1>19, <1>20, <1>21, <1>22, <1>23, <1>24,
     <1>25, <1>26, <1>27, <1>28, <1>29, <1>30, <1>31, <1>32, <1>33, <1>34
  DEF Next, Progress, Begin, Roll

\* The inductive invariant holds in every reachable state.
THEOREM JournalInvariant == Spec => []JournalInv
<1>1. Init => JournalInv
  BY PathFacts DEF Init, JournalInv, ControlInv, ImagesForJournal, FilesInv, CatalogsInv,
        Done, Exists, Valid, FromTrashed, FromInstalled, FromDatabaseSaved,
        FromIncomingSaved
<1>2. TypeOK /\ JournalInv /\ [Next]_vars => JournalInv'
  BY ControlStep, FilesStep, CatalogsStep DEF JournalInv
<1> QED BY <1>1, <1>2, TypeCorrect, PTL DEF Spec

\* A journal that recovery must roll forward always finds both after-images, whatever
\* write, crash, error or interference came before, unless its own first write reported
\* an error after it was installed and begin_replacement took them away.
THEOREM ImagesAreThere == Spec => []ImagesForJournal
<1>1. JournalInv => ImagesForJournal
  BY DEF JournalInv, ControlInv
<1> QED BY <1>1, JournalInvariant, PTL

\* The journal that is stranded that way, and which every startup refuses, changed no
\* file and no catalog: both comics and their records are where they were.
THEOREM StrandedLosesNothing ==
  ASSUME ~CloseAfterFailure
  PROVE  Spec => []StrandedIsUntouched
<1>1. TypeOK /\ JournalInv => StrandedIsUntouched
  BY DEF TypeOK, JournalInv, ControlInv, FilesInv, CatalogsInv, StrandedIsUntouched, Versions,
         Done, FromInstalled, FromDatabaseSaved, FromIncomingSaved
<1> QED BY <1>1, TypeCorrect, JournalInvariant, PTL

\* The replaced comic is in its place or in the trash.
THEOREM LibraryComicIsKept == Spec => []LibraryComicKept
<1>1. TypeOK /\ JournalInv => LibraryComicKept
  BY DEF TypeOK, JournalInv, FilesInv, LibraryComicKept, Stages, FromTrashed,
         FromInstalled, FromDatabaseSaved, FromIncomingSaved
<1> QED BY <1>1, TypeCorrect, JournalInvariant, PTL

\* The old file leaves its place only after a complete copy was staged.
THEOREM OldFileLeavesLast == Spec => []StagedBeforeTrash
<1>1. TypeOK /\ JournalInv => StagedBeforeTrash
  BY DEF TypeOK, JournalInv, FilesInv, StagedBeforeTrash, Stages, FromTrashed,
         FromInstalled, FromDatabaseSaved, FromIncomingSaved
<1> QED BY <1>1, TypeCorrect, JournalInvariant, PTL

\* An open session without a journal has a record that names a valid file, as
\* long as no session saves its stale database after a failed replacement.
THEOREM CatalogsAreConsistent ==
  ASSUME ~CloseAfterFailure
  PROVE  Spec => []CatalogsNameValidFiles
<1>1. TypeOK /\ JournalInv => CatalogsNameValidFiles
  BY DEF TypeOK, JournalInv, FilesInv, CatalogsInv, CatalogsNameValidFiles, Versions,
         FromInstalled, FromDatabaseSaved, FromIncomingSaved
<1> QED BY <1>1, TypeCorrect, JournalInvariant, PTL

--------------------------------------------------------------------------------
(* The journal implements the promise.                                     *)

\* An effect on the files belongs to a stage of the journal, or is followed by
\* all the others: none precedes its journal.
EffectInv ==
    /\ "old" \in trash => journal \in FromTrashed \cup {"TrashPending"} \/ Done
    /\ Valid(Destination) => journal \in FromTrashed \/ Done

LEMMA EffectStep ==
  ASSUME TypeOK, ControlInv, FilesInv, EffectInv, ~Interference, [Next]_vars
  PROVE  EffectInv'
<1> USE PathFacts DEF TypeOK, durable, files, catalogs, At, Exists, Valid, Done, EffectInv,
                      FromTrashed, FromInstalled, FromDatabaseSaved
<1>1. CASE Request \/ BeginCleanup \/ WriteImages \/ StartCommit
  BY <1>1 DEF Request, BeginCleanup, WriteImages, StartCommit
<1>2. CASE WritePrepared \/ PreparedReportsError
  BY <1>2 DEF WritePrepared, PreparedReportsError, ControlInv
<1>3. CASE SaveStage
  BY <1>3 DEF SaveStage, ControlInv, StageSteps
<1>4. CASE ReuseStaging \/ CheckStaged \/ OldIsTrashed \/ AlreadyLinked \/ AlreadyInstalled
           \/ CheckCommitted
  BY <1>4 DEF ReuseStaging, CheckStaged, OldIsTrashed, AlreadyLinked, AlreadyInstalled,
              CheckCommitted
<1>5. CASE DiscardStaging \/ StartCopy
  BY <1>5 DEF DiscardStaging, StartCopy
<1>6. CASE FinishCopy \/ RemoveStaging
  BY <1>6 DEF FinishCopy, RemoveStaging
<1>7. CASE TrashOld
  BY <1>7 DEF TrashOld, ControlInv
<1>8. CASE LinkDestination
  BY <1>8 DEF LinkDestination, ControlInv
<1>9. CASE SaveDatabase \/ SaveIncoming
  BY <1>9 DEF SaveDatabase, SaveIncoming
<1>10. CASE RemoveSource
  BY <1>10 DEF RemoveSource
<1>11. CASE FinishImages
  BY <1>11 DEF FinishImages
<1>12. CASE FinishJournal
  BY <1>12 DEF FinishJournal, ControlInv, FilesInv
<1>13. CASE Land \/ Conflict \/ EpochChanged \/ Startup \/ StartupRefused \/ Close \/ Crash
  BY <1>13 DEF Land, Conflict, EpochChanged, Startup, StartupRefused, vars, Close, Crash
<1>14. CASE IoError
  BY <1>14 DEF IoError
<1>15. CASE Interfere
  BY <1>15 DEF Interfere
<1>16. CASE UNCHANGED vars
  BY <1>16 DEF vars
<1> QED
  BY <1>1, <1>2, <1>3, <1>4, <1>5, <1>6, <1>7, <1>8, <1>9, <1>10, <1>11, <1>12, <1>13, <1>14,
     <1>15, <1>16 DEF Next, Progress, Begin, Roll

\* EffectsOnDisk, effect by effect.
LEMMA EffectFacts ==
  /\ EffectsOnDisk \subseteq DOMAIN EffectOrder
  /\ DOMAIN EffectOrder =
        {"trashed", "installed", "databaseSaved", "incomingSaved", "sourceRemoved"}
  /\ "trashed" \in EffectsOnDisk <=> "old" \in trash
  /\ "installed" \in EffectsOnDisk <=> Valid(Destination)
  /\ "databaseSaved" \in EffectsOnDisk <=> comicDb = "after"
  /\ "incomingSaved" \in EffectsOnDisk <=> incomingDb = "after"
  /\ "sourceRemoved" \in EffectsOnDisk <=> Done
  BY DEF EffectsOnDisk, EffectOrder, Done

LEMMA OrderFacts ==
  /\ EffectOrder["trashed"] = {}
  /\ EffectOrder["installed"] = {"trashed"}
  /\ EffectOrder["databaseSaved"] = {"installed"}
  /\ EffectOrder["incomingSaved"] = {"databaseSaved"}
  /\ EffectOrder["sourceRemoved"] = {"incomingSaved"}
  BY DEF EffectOrder

PrimedEffects ==
  /\ EffectsOnDisk' \subseteq DOMAIN EffectOrder
  /\ "trashed" \in EffectsOnDisk' <=> "old" \in trash'
  /\ "installed" \in EffectsOnDisk' <=> Valid(Destination)'
  /\ "databaseSaved" \in EffectsOnDisk' <=> comicDb' = "after"
  /\ "incomingSaved" \in EffectsOnDisk' <=> incomingDb' = "after"
  /\ "sourceRemoved" \in EffectsOnDisk' <=> Done'

LEMMA PrimedEffectFacts == PrimedEffects
  BY DEF PrimedEffects, EffectsOnDisk, EffectOrder, Done, Valid

\* A step that leaves the five facts alone is a stutter of the effects, and one
\* that makes a fact true applies its effect.
LEMMA NoEffect ==
  ASSUME "old" \in trash' <=> "old" \in trash, Valid(Destination)' <=> Valid(Destination),
         UNCHANGED catalogs, Done' <=> Done
  PROVE  EffectsOnDisk' = EffectsOnDisk
  BY EffectFacts, PrimedEffectFacts DEF PrimedEffects, catalogs

LEMMA OneEffect ==
  ASSUME NEW e \in DOMAIN EffectOrder,
         "old" \in trash' <=> "old" \in trash \/ e = "trashed",
         Valid(Destination)' <=> Valid(Destination) \/ e = "installed",
         comicDb' = "after" <=> comicDb = "after" \/ e = "databaseSaved",
         incomingDb' = "after" <=> incomingDb = "after" \/ e = "incomingSaved",
         Done' <=> Done \/ e = "sourceRemoved"
  PROVE  EffectsOnDisk' = EffectsOnDisk \cup {e}
  BY EffectFacts, PrimedEffectFacts DEF PrimedEffects

LEMMA AppliesEffect ==
  ASSUME NEW e \in DOMAIN EffectOrder, EffectsOnDisk' = EffectsOnDisk \cup {e},
         EffectOrder[e] \subseteq EffectsOnDisk, journal # "none", journal' = journal
  PROVE  [Promised!PromiseNext]_(Promised!pvars)
  BY DEF Promised!PromiseNext, Promised!Apply, Promised!pvars, Promised!Effects

LEMMA PromiseStep ==
  ASSUME TypeOK, ControlInv, FilesInv, CatalogsInv, EffectInv,
         ~Interference, ~CloseAfterFailure, [Next]_vars
  PROVE  [Promised!PromiseNext]_(Promised!pvars)
<1> USE PathFacts DEF TypeOK, durable, files, catalogs, At, Exists, Valid, Done
<1>1. ASSUME EffectsOnDisk' = EffectsOnDisk, journal' # "none" <=> journal # "none"
      PROVE  [Promised!PromiseNext]_(Promised!pvars)
  BY <1>1 DEF Promised!pvars
<1>2. CASE Request \/ BeginCleanup \/ WriteImages \/ StartCommit
  BY <1>1, <1>2, NoEffect DEF Request, BeginCleanup, WriteImages, StartCommit
<1>3. CASE WritePrepared \/ PreparedReportsError
  <2>1. journal = "none" /\ journal' # "none" /\ ~Done
    BY <1>3 DEF WritePrepared, PreparedReportsError, ControlInv, FilesInv
  <2>2. EffectsOnDisk = {}
    <3>1. /\ "old" \notin trash /\ ~Valid(Destination)
          /\ comicDb # "after" /\ incomingDb # "after"
      BY <2>1 DEF EffectInv, CatalogsInv, FromTrashed, FromInstalled, FromDatabaseSaved
    <3> QED BY <2>1, <3>1, EffectFacts
  <2>3. EffectsOnDisk' = EffectsOnDisk
    BY <1>3, NoEffect DEF WritePrepared, PreparedReportsError
  <2> QED BY <2>1, <2>2, <2>3 DEF Promised!PromiseNext, Promised!Promise
<1>4. CASE SaveStage
  BY <1>1, <1>4, NoEffect DEF SaveStage, ControlInv, StageSteps
<1>5. CASE ReuseStaging \/ CheckStaged \/ OldIsTrashed \/ AlreadyLinked \/ AlreadyInstalled
           \/ CheckCommitted
  BY <1>1, <1>5, NoEffect DEF ReuseStaging, CheckStaged, OldIsTrashed, AlreadyLinked,
                              AlreadyInstalled, CheckCommitted
<1>6. CASE DiscardStaging \/ StartCopy
  BY <1>1, <1>6, NoEffect DEF DiscardStaging, StartCopy
<1>7. CASE FinishCopy \/ RemoveStaging
  BY <1>1, <1>7, NoEffect DEF FinishCopy, RemoveStaging
<1>8. CASE TrashOld
  <2>1. journal = "TrashPending" /\ journal' = journal
    BY <1>8 DEF TrashOld, ControlInv
  <2>2. ~Valid(Destination) /\ ~Valid(Destination)' /\ ~Done /\ ~Done'
    BY <1>8, <2>1 DEF TrashOld, EffectInv, FilesInv, FromTrashed, FromInstalled,
                      FromDatabaseSaved, FromIncomingSaved
  <2>3. "old" \in trash'
    BY <1>8, <2>1 DEF TrashOld, FilesInv
  <2>4. EffectsOnDisk' = EffectsOnDisk \cup {"trashed"}
    BY <1>8, <2>2, <2>3, OneEffect, EffectFacts DEF TrashOld
  <2> QED BY <2>1, <2>4, AppliesEffect, EffectFacts, OrderFacts
<1>9. CASE LinkDestination
  <2>1. journal = "OldLibraryTrashed" /\ journal' = journal /\ "old" \in trash
    BY <1>9 DEF LinkDestination, ControlInv, FilesInv, FromTrashed
  <2>2. EffectsOnDisk' = EffectsOnDisk \cup {"installed"}
    BY <1>9, OneEffect, EffectFacts DEF LinkDestination
  <2> QED BY <2>1, <2>2, AppliesEffect, EffectFacts, OrderFacts
<1>10. CASE SaveDatabase
  <2>1. journal = "Installed" /\ journal' = journal /\ Valid(Destination)
    BY <1>10 DEF SaveDatabase, ControlInv
  <2>2. EffectsOnDisk' = EffectsOnDisk \cup {"databaseSaved"}
    BY <1>10, OneEffect, EffectFacts DEF SaveDatabase
  <2> QED BY <2>1, <2>2, AppliesEffect, EffectFacts, OrderFacts
<1>11. CASE SaveIncoming
  <2>1. journal = "DatabaseSaved" /\ journal' = journal /\ comicDb = "after"
    BY <1>11 DEF SaveIncoming, ControlInv, CatalogsInv, FromDatabaseSaved
  <2>2. EffectsOnDisk' = EffectsOnDisk \cup {"incomingSaved"}
    BY <1>11, OneEffect, EffectFacts DEF SaveIncoming
  <2> QED BY <2>1, <2>2, AppliesEffect, EffectFacts, OrderFacts
<1>12. CASE RemoveSource
  <2>1. journal = "IncomingSaved" /\ journal' = journal /\ incomingDb = "after"
    BY <1>12 DEF RemoveSource, ControlInv, CatalogsInv, FromIncomingSaved, FromDatabaseSaved
  <2>2. EffectsOnDisk' = EffectsOnDisk \cup {"sourceRemoved"}
    BY <1>12, OneEffect, EffectFacts DEF RemoveSource
  <2> QED BY <2>1, <2>2, AppliesEffect, EffectFacts, OrderFacts
<1>13. CASE FinishImages
  BY <1>1, <1>13, NoEffect DEF FinishImages
<1>14. CASE FinishJournal
  <2>1. EffectsOnDisk' = EffectsOnDisk /\ journal' = "none"
    BY <1>14, NoEffect DEF FinishJournal
  <2>2. CASE journal = "none"
    BY <1>1, <2>1, <2>2
  <2>3. CASE journal # "none"
    <3>1. journal = "Committed" /\ Done
      BY <1>14, <2>3 DEF FinishJournal, ControlInv, FilesInv
    <3>2. EffectsOnDisk = DOMAIN EffectOrder
      BY <3>1, EffectFacts DEF FilesInv, CatalogsInv
    <3> QED BY <2>1, <2>3, <3>2
            DEF Promised!PromiseNext, Promised!Release, Promised!Effects
  <2> QED BY <2>2, <2>3
<1>15. CASE Land \/ Conflict \/ EpochChanged \/ Startup \/ StartupRefused \/ Crash
  BY <1>1, <1>15, NoEffect DEF Land, Conflict, EpochChanged, Startup, StartupRefused, vars, Crash
<1>16. CASE Close
  <2>1. comicDb' = comicDb
    BY <1>16 DEF Close, CatalogsInv
  <2> QED BY <1>1, <1>16, <2>1, NoEffect DEF Close
<1>17. CASE IoError
  BY <1>1, <1>17, NoEffect DEF IoError
<1>18. CASE Interfere
  BY <1>18 DEF Interfere
<1>19. CASE UNCHANGED vars
  BY <1>1, <1>19, NoEffect DEF vars
<1> QED
  BY <1>2, <1>3, <1>4, <1>5, <1>6, <1>7, <1>8, <1>9, <1>10, <1>11, <1>12, <1>13, <1>14,
     <1>15, <1>16, <1>17, <1>18, <1>19 DEF Next, Progress, Begin, Roll

\* Whatever crashes and fails, and wherever, the journal implements the promise
\* of ADR-052: one effect at a time, in its order, none before the journal is
\* durable, none undone, and the journal goes when all are there.
THEOREM JournalImplementsPromise ==
  ASSUME ~Interference, ~CloseAfterFailure
  PROVE  Spec => PromiseKeptInOrder
<1>1. Init => EffectInv
  BY PathFacts DEF Init, EffectInv, Valid
<1>2. TypeOK /\ JournalInv /\ EffectInv /\ [Next]_vars => EffectInv'
  BY EffectStep DEF JournalInv
<1>3. Init => Promised!PromiseInit
  <2> SUFFICES ASSUME Init PROVE Promised!PromiseInit
    OBVIOUS
  <2>1. /\ "old" \notin trash /\ ~Valid(Destination) /\ comicDb # "after"
        /\ incomingDb # "after" /\ ~Done /\ journal = "none"
    BY PathFacts DEF Init, Valid, Done, Exists
  <2>2. EffectsOnDisk = {}
    BY <2>1, EffectFacts
  <2> QED BY <2>1, <2>2 DEF Promised!PromiseInit
<1>4. TypeOK /\ JournalInv /\ EffectInv /\ [Next]_vars => [Promised!PromiseNext]_(Promised!pvars)
  BY PromiseStep DEF JournalInv
<1> QED BY <1>1, <1>2, <1>3, <1>4, TypeCorrect, JournalInvariant, PTL
        DEF Spec, PromiseKeptInOrder, Promised!PromiseSpec
--------------------------------------------------------------------------------
(* What the program does to files that others touch between two runs.      *)

\* Nobody but the journal's own copy and link makes a file that holds the Incoming
\* comic, so a destination that holds it belongs to the journal, or to one that ended.
CopyInv ==
    /\ pc \in {"clean", "images", "prepare"} => Valid("source")
    /\ pc = "copying" => file["staging"] = "partial"
    /\ pc = "unlink" => Valid(Destination)
    /\ ~SameExtension => ~Valid("old")
    /\ Valid(Destination) => \/ journal \in FromTrashed
                             \/ journal = "none" /\ ~Valid("source")
    /\ journal \in {"SourceRemoved", "Committed"} => ~Valid("source")
    /\ journal = "IncomingSaved" /\ pc = "save" => ~Valid("source")
    /\ journal \in FromIncomingSaved => incomingDb = "after"
    /\ journal = "DatabaseSaved" /\ pc = "save" => incomingDb = "after"

LEMMA CopyStep ==
  ASSUME TypeOK, ControlInv, CopyInv, [Next]_vars
  PROVE  CopyInv'
<1> USE PathFacts
    DEF TypeOK, ControlInv, CopyInv, durable, files, catalogs, At, Advance, Goto, Stop,
        LateError, Quiet, StageSteps, Exists, Valid, FromTrashed, FromInstalled, FromDatabaseSaved,
        FromIncomingSaved, DestinationTaken
<1>1. CASE Request
  BY <1>1 DEF Request
<1>2. CASE BeginCleanup
  BY <1>2 DEF BeginCleanup
<1>3. CASE WriteImages
  BY <1>3 DEF WriteImages
<1>4. CASE WritePrepared
  BY <1>4 DEF WritePrepared
<1>5. CASE StartCommit
  BY <1>5 DEF StartCommit
<1>6. CASE SaveStage
  BY <1>6 DEF SaveStage
<1>7. CASE ReuseStaging
  BY <1>7 DEF ReuseStaging
<1>8. CASE DiscardStaging
  BY <1>8 DEF DiscardStaging
<1>9. CASE StartCopy
  BY <1>9 DEF StartCopy
<1>10. CASE FinishCopy
  BY <1>10 DEF FinishCopy
<1>11. CASE CheckStaged
  BY <1>11 DEF CheckStaged
<1>12. CASE TrashOld
  BY <1>12 DEF TrashOld
<1>13. CASE OldIsTrashed
  BY <1>13 DEF OldIsTrashed
<1>14. CASE LinkDestination
  BY <1>14 DEF LinkDestination
<1>15. CASE AlreadyLinked
  BY <1>15 DEF AlreadyLinked
<1>16. CASE RemoveStaging
  BY <1>16 DEF RemoveStaging
<1>17. CASE AlreadyInstalled
  BY <1>17 DEF AlreadyInstalled
<1>18. CASE SaveDatabase
  BY <1>18 DEF SaveDatabase
<1>19. CASE SaveIncoming
  BY <1>19 DEF SaveIncoming
<1>20. CASE RemoveSource
  BY <1>20 DEF RemoveSource
<1>21. CASE CheckCommitted
  BY <1>21 DEF CheckCommitted
<1>22. CASE FinishImages
  BY <1>22 DEF FinishImages
<1>23. CASE FinishJournal
  BY <1>23 DEF FinishJournal
<1>24. CASE Land
  BY <1>24 DEF Land
<1>25. CASE Conflict
  BY <1>25 DEF Conflict
<1>26. CASE EpochChanged
  BY <1>26 DEF EpochChanged
<1>27. CASE Startup
  BY <1>27 DEF Startup
<1>28. CASE Close
  BY <1>28 DEF Close
<1>29. CASE IoError
  BY <1>29 DEF IoError
<1>30. CASE Crash
  BY <1>30 DEF Crash
<1>31. CASE Interfere
  BY <1>31 DEF Interfere
<1>32. CASE UNCHANGED vars
  BY <1>32 DEF vars
<1>33. CASE PreparedReportsError
  BY <1>33 DEF PreparedReportsError
<1>34. CASE StartupRefused
  BY <1>34 DEF StartupRefused, vars
<1> QED
  BY <1>1, <1>2, <1>3, <1>4, <1>5, <1>6, <1>7, <1>8, <1>9, <1>10, <1>11, <1>12, <1>13, <1>14, <1>15, <1>16, <1>17, <1>18, <1>19, <1>20, <1>21, <1>22, <1>23, <1>24, <1>25, <1>26, <1>27, <1>28, <1>29, <1>30, <1>31, <1>32, <1>33, <1>34
  DEF Next, Progress, Begin, Roll

\* A file of the Library or the user that the program takes away is in the trash, or
\* is the Incoming comic that is at the destination as well; a complete copy stays.
LEMMA TakeStep ==
  ASSUME TypeOK, ControlInv, CopyInv, Next, ~Quiet
  PROVE  (HasIncomingComic => HasIncomingComic') /\ TakesOnlyValidated
<1> USE PathFacts DEF TypeOK, durable, files, At, Exists, Valid
<1>1. ASSUME UNCHANGED file
      PROVE  (HasIncomingComic => HasIncomingComic') /\ TakesOnlyValidated
  BY <1>1 DEF HasIncomingComic, TakesOnlyValidated
<1>2. ASSUME NEW c \in Contents, file' = [file EXCEPT !["staging"] = c],
             file["staging"] = "new" => Valid(Destination)
      PROVE  (HasIncomingComic => HasIncomingComic') /\ TakesOnlyValidated
  <2>1. \A p \in Paths \ {"staging"} : file'[p] = file[p]
    BY <1>2
  <2>2. HasIncomingComic => \E p \in Paths \ {"staging"} : Valid(p)
    BY <1>2 DEF HasIncomingComic
  <2> QED BY <2>1, <2>2 DEF HasIncomingComic, TakesOnlyValidated
<1>3. CASE \/ Request \/ Begin \/ SaveStage \/ ReuseStaging \/ CheckStaged \/ OldIsTrashed
           \/ AlreadyLinked \/ AlreadyInstalled \/ SaveDatabase \/ SaveIncoming \/ CheckCommitted
           \/ FinishImages \/ FinishJournal \/ Land \/ Conflict \/ EpochChanged \/ Startup
           \/ StartupRefused \/ Close \/ Crash
  BY <1>1, <1>3 DEF Request, Begin, BeginCleanup, WriteImages, WritePrepared, PreparedReportsError, StartCommit,
              SaveStage, ReuseStaging, CheckStaged, OldIsTrashed, AlreadyLinked, AlreadyInstalled, SaveDatabase,
              SaveIncoming, CheckCommitted, FinishImages, FinishJournal, Land, Conflict, EpochChanged,
              Startup, StartupRefused, vars, Close, Crash
<1>4. CASE DiscardStaging
  BY <1>2, <1>4 DEF DiscardStaging, Contents
<1>5. CASE StartCopy
  BY <1>2, <1>5 DEF StartCopy, Contents
<1>6. CASE FinishCopy
  BY <1>2, <1>6 DEF FinishCopy, CopyInv
<1>7. CASE RemoveStaging
  BY <1>2, <1>7 DEF RemoveStaging, CopyInv, Contents
<1>8. CASE IoError
  <2>1. CASE pc = "copying"
    BY <1>2, <1>8, <2>1 DEF IoError, CopyInv, Contents
  <2>2. CASE pc # "copying"
    BY <1>1, <1>8, <2>2 DEF IoError
  <2> QED BY <2>1, <2>2
<1>9. CASE TrashOld
  <2>1. /\ file' = [file EXCEPT !["old"] = "absent"] /\ file["old"] \in trash'
        /\ journal = "TrashPending"
    BY <1>9 DEF TrashOld, ControlInv
  <2>2. ~Valid("old")
    BY <2>1 DEF CopyInv, FromTrashed, FromInstalled, FromDatabaseSaved, Destination
  <2>3. \A p \in Paths \ {"old"} : file'[p] = file[p]
    BY <2>1
  <2> QED BY <2>1, <2>2, <2>3 DEF HasIncomingComic, TakesOnlyValidated
<1>10. CASE LinkDestination
  <2>1. ~Exists(Destination) /\ \A p \in Paths \ {Destination} : file'[p] = file[p]
    BY <1>10 DEF LinkDestination
  <2> QED BY <2>1 DEF HasIncomingComic, TakesOnlyValidated
<1>11. CASE RemoveSource
  <2>1. /\ Valid(Destination)
        /\ Exists("source") => Valid("source")
        /\ journal = "IncomingSaved"
        /\ \A p \in Paths \ {"source"} : file'[p] = file[p]
    BY <1>11 DEF RemoveSource, ControlInv
  <2>2. incomingDb = "after"
    BY <2>1 DEF CopyInv, FromIncomingSaved, FromDatabaseSaved
  <2> QED BY <2>1, <2>2 DEF HasIncomingComic, TakesOnlyValidated
<1>12. ~Interfere
  BY DEF Interfere, Quiet
<1> QED
  BY <1>3, <1>4, <1>5, <1>6, <1>7, <1>8, <1>9, <1>10, <1>11, <1>12
     DEF Next, Progress, Roll

\* Where a file with the Incoming comic can be, in every reachable state.
THEOREM CopyInvariant == Spec => []CopyInv
<1>1. Init => CopyInv
  BY PathFacts DEF Init, CopyInv, Valid, Destination, FromIncomingSaved, FromDatabaseSaved
<1>2. TypeOK /\ JournalInv /\ CopyInv /\ [Next]_vars => CopyInv'
  BY CopyStep DEF JournalInv
<1> QED BY <1>1, <1>2, TypeCorrect, JournalInvariant, PTL DEF Spec

\* A roll-forward never destroys the last complete copy of the Incoming comic, nor a
\* file it did not validate, whatever other programs did to the files between two runs
\* (the validations of roll_replacement_forward before each unlink and trash).
THEOREM LastCopyStays == Spec => NeverDropsLastCopy
<1>1. /\ TypeOK /\ JournalInv /\ CopyInv /\ [Next]_vars
      => [~Quiet => (HasIncomingComic => HasIncomingComic') /\ TakesOnlyValidated]_vars
  BY TakeStep DEF JournalInv
<1> QED BY <1>1, TypeCorrect, JournalInvariant, CopyInvariant, PTL DEF Spec, NeverDropsLastCopy

===============================================================================

-------------------------- MODULE ReplacementJournal --------------------------
(***************************************************************************)
(* cr-engine/src/incoming_transaction.rs, the ReplacementTransaction half: *)
(* "Replace Library Copy" puts an Incoming comic in the place of a Library *)
(* comic.  One worker, holding the mutation guard, walks the stages below; *)
(* every stage is written to a durable journal, and the next startup rolls *)
(* a journal it finds forward before it loads the catalogs.                *)
(*                                                                         *)
(* Each durable write, unlink, link or trash is a step of its own, so that *)
(* the program can stop between any two of them.  Reads (exists, the       *)
(* length-and-SHA-1 validation) belong to the step that acts on them.      *)
(* A write may fail before it changed anything (IoError), or, since        *)
(* durable_replace and durable_remove sync the parent directory last,      *)
(* report an error when its change is already there (LateError).           *)
(***************************************************************************)
EXTENDS Integers

CONSTANTS
    SameExtension,      \* the Incoming comic has the Library file's extension
    Interference,       \* other programs touch the files between two runs
    CloseAfterFailure,  \* a session whose replacement failed closes normally;
                        \* otherwise it is killed, as if the machine stopped
    MaxFaults           \* bound on crashes, I/O errors and interferences

ASSUME ConstantsAssumption ==
    /\ SameExtension \in BOOLEAN
    /\ Interference \in BOOLEAN
    /\ CloseAfterFailure \in BOOLEAN
    /\ MaxFaults \in Nat

\* destination = old_library.with_extension(source.extension())
Destination == IF SameExtension THEN "old" ELSE "destination"
Paths == {"source", "staging", "old", Destination}

\* A file's content: the Incoming comic (the journal's length and SHA-1), the
\* Library comic, a copy cut short, or anything else.
Contents == {"absent", "new", "old", "partial", "foreign"}

Stages == {"Prepared", "Staged", "TrashPending", "OldLibraryTrashed", "Installed",
           "DatabaseSaved", "IncomingSaved", "SourceRemoved", "Committed"}

\* The after-images of ComicDb.xml and IncomingDb.xml beside the journal.
Images == {"database", "incoming"}
Versions == {"before", "after"}

VARIABLES
    file,           \* [Paths -> Contents]
    linked,         \* staging and destination are one inode
    trash,          \* contents moved to the desktop trash
    comicDb,        \* ComicDb.xml: its record names old_library or destination
    incomingDb,     \* IncomingDb.xml: it lists the Incoming comic or not
    images,         \* sidecar after-images on disk
    journal,        \* the stage in current.json, or "none"
    stage,          \* transaction.stage of the running worker
    session,        \* the database the open session holds, or "none"
    pc,             \* where the worker is; without one, "idle", "failed" (the
                    \* session goes on after an error) or "down"
    faults,         \* faults so far
    stranded        \* history: begin_replacement failed and took after-images
                    \* away from a journal that was installed nevertheless

vars == <<file, linked, trash, comicDb, incomingDb, images, journal, stage,
          session, pc, faults, stranded>>

Working == {"clean", "images", "prepare", "begun", "roll", "copying", "unlink",
            "save", "finish", "landed"}

TypeOK ==
    /\ file \in [Paths -> Contents]
    /\ linked \in BOOLEAN
    /\ trash \subseteq Contents
    /\ comicDb \in Versions
    /\ incomingDb \in Versions
    /\ images \subseteq Images
    /\ journal \in Stages \cup {"none"}
    /\ stage \in Stages
    /\ session \in Versions \cup {"none"}
    /\ pc \in Working \cup {"idle", "failed", "down"}
    /\ faults \in 0..MaxFaults
    /\ stranded \in BOOLEAN
    /\ pc \in {"idle", "failed"} => session # "none"

\* A session is open on an Incoming comic and a Library comic; something may
\* already be in the way of the two paths the replacement will create.
Init ==
    /\ file \in [Paths -> Contents]
    /\ file["source"] = "new"
    /\ file["old"] = "old"
    /\ \A p \in Paths \ {"source", "old"} : file[p] \in {"absent", "foreign"}
    /\ linked = FALSE
    /\ trash = {}
    /\ comicDb = "before"
    /\ incomingDb = "before"
    /\ images = {}
    /\ journal = "none"
    /\ stage = "Prepared"
    /\ session = "before"
    /\ pc = "idle"
    /\ faults = 0
    /\ stranded = FALSE

Exists(p) == file[p] # "absent"
Valid(p) == file[p] = "new"

\* A different file at a destination that is not the old Library path.
DestinationTaken == ~SameExtension /\ Exists(Destination)
OldReappeared == ~SameExtension /\ Exists("old")

files == <<file, linked, trash>>
catalogs == <<comicDb, incomingDb>>
durable == <<files, catalogs, images, journal>>
bounds == <<faults, stranded>>

\* An error ends the call.  A live session goes on; a startup that fails shows
\* an error window, which the user can only close.
Stop == pc' = IF session = "none" THEN "down" ELSE "failed"

Fault ==
    /\ faults < MaxFaults
    /\ faults' = faults + 1

\* Where the worker goes after a durable step: on, or out, when the step made its
\* change and then reported an error.
LateError == Fault /\ Stop /\ UNCHANGED <<stage, stranded>>
Goto(next) == pc' = next /\ UNCHANGED <<stage, bounds>>

(***************************************************************************)
(* prepare and begin_replacement: nothing but sidecars is written before   *)
(* the journal.                                                            *)
(***************************************************************************)

\* The request passes every check of prepare and begin_replacement.
Request ==
    /\ pc \in {"idle", "failed"}
    /\ journal = "none"
    /\ Valid("source")
    /\ ~Exists("staging")
    /\ ~DestinationTaken
    /\ Exists("old")
    /\ stage' = "Prepared"
    /\ pc' = "clean"
    /\ UNCHANGED <<durable, session, bounds>>

\* cleanup_replacement_sidecars removes the database image, then the other.
FewerImages == IF "database" \in images THEN images \ {"database"} ELSE {}

BeginCleanup ==
    /\ pc = "clean"
    /\ images' = FewerImages
    /\ Goto(IF FewerImages = {} THEN "images" ELSE "clean") \/ LateError
    /\ UNCHANGED <<files, catalogs, journal, session>>

\* write_replacement_after_images
WriteImages ==
    /\ pc = "images"
    /\ images' = IF images = {} THEN {"database"} ELSE Images
    /\ Goto(IF images = {} THEN "images" ELSE "prepare") \/ LateError
    /\ UNCHANGED <<files, catalogs, journal, session>>

WritePrepared ==
    /\ pc = "prepare"
    /\ journal' = stage
    /\ Goto("begun")
    /\ UNCHANGED <<files, catalogs, images, session>>

\* What cleanup_replacement_sidecars may leave when its own errors are ignored.
AfterCleanup == {Images, Images \ {"database"}, {}}

\* The journal is installed, but its write reports an error: begin_replacement
\* removes the after-images, as far as it can, and leaves the journal.
PreparedReportsError ==
    /\ pc = "prepare"
    /\ journal' = stage
    /\ images' \in AfterCleanup
    /\ stranded' = (images' # Images)
    /\ Fault
    /\ Stop
    /\ UNCHANGED <<files, catalogs, stage, session>>

\* commit_replacement rewrites the same journal and starts to roll.
StartCommit ==
    /\ pc = "begun"
    /\ Goto("roll")
    /\ UNCHANGED <<durable, session>>

(***************************************************************************)
(* roll_replacement_forward.  pc = "roll" enters the block of the current  *)
(* stage; a block ends in Advance, which the journal write follows.        *)
(***************************************************************************)

At(s) == pc = "roll" /\ stage = s
Advance(s) == stage' = s /\ pc' = "save" /\ UNCHANGED bounds

\* write_replacement_journal: missing after-images are written again first.
SaveStage ==
    /\ pc = "save"
    /\ journal' = stage
    /\ images' = IF stage = "Committed" THEN images ELSE Images
    /\ Goto(IF stage = "Committed" THEN "finish" ELSE "roll") \/ LateError
    /\ UNCHANGED <<files, catalogs, session>>

\* A staging file left by an interrupted copy is used when it is complete.
ReuseStaging ==
    /\ At("Prepared")
    /\ ~DestinationTaken
    /\ Valid("staging")
    /\ Advance("Staged")
    /\ UNCHANGED <<durable, session>>

DiscardStaging ==
    /\ At("Prepared")
    /\ ~DestinationTaken
    /\ Exists("staging") /\ ~Valid("staging")
    /\ file' = [file EXCEPT !["staging"] = "absent"]
    /\ linked' = FALSE
    /\ Goto("roll") \/ LateError
    /\ UNCHANGED <<trash, catalogs, images, journal, session>>

\* copy_to_staging creates the file, then fills it and validates it.
StartCopy ==
    /\ At("Prepared")
    /\ ~DestinationTaken
    /\ ~Exists("staging")
    /\ Valid("source")
    /\ file' = [file EXCEPT !["staging"] = "partial"]
    /\ Goto("copying")
    /\ UNCHANGED <<linked, trash, catalogs, images, journal, session>>

FinishCopy ==
    /\ pc = "copying"
    /\ file' = [file EXCEPT !["staging"] = file["source"]]
    /\ Advance("Staged")
    /\ UNCHANGED <<linked, trash, catalogs, images, journal, session>>

CheckStaged ==
    /\ At("Staged")
    /\ Valid("staging")
    /\ ~DestinationTaken
    /\ Advance("TrashPending")
    /\ UNCHANGED <<durable, session>>

\* Mutant of TrashOld: the old Library file is unlinked, not trashed.
DeleteOld ==
    /\ At("TrashPending")
    /\ Exists("old")
    /\ file' = [file EXCEPT !["old"] = "absent"]
    /\ linked' = (linked /\ ~SameExtension)
    /\ Goto("roll")
    /\ UNCHANGED <<trash, catalogs, images, journal, session>>

TrashOld ==
    /\ At("TrashPending")
    /\ Exists("old")
    /\ trash' = trash \cup {file["old"]}
    /\ file' = [file EXCEPT !["old"] = "absent"]
    /\ linked' = (linked /\ ~SameExtension)
    /\ Goto("roll") \/ LateError
    /\ UNCHANGED <<catalogs, images, journal, session>>

OldIsTrashed ==
    /\ At("TrashPending")
    /\ ~Exists("old")
    /\ Advance("OldLibraryTrashed")
    /\ UNCHANGED <<durable, session>>

\* (staging, destination) = (true, false): hard_link, then remove staging.
LinkDestination ==
    /\ At("OldLibraryTrashed")
    /\ ~Exists("old")
    /\ Valid("staging")
    /\ ~Exists(Destination)
    /\ file' = [file EXCEPT ![Destination] = file["staging"]]
    /\ linked' = TRUE
    /\ Goto("unlink") \/ LateError
    /\ UNCHANGED <<trash, catalogs, images, journal, session>>

\* Mutant of AlreadyLinked: both files present is taken for a collision.
LinkedIsCollision ==
    /\ At("OldLibraryTrashed")
    /\ Exists("staging") /\ Exists(Destination)
    /\ Stop
    /\ UNCHANGED <<durable, stage, session, bounds>>

\* (true, true): an earlier run linked the file and stopped.
AlreadyLinked ==
    /\ At("OldLibraryTrashed")
    /\ ~Exists("old")
    /\ Exists("staging") /\ Exists(Destination)
    /\ linked
    /\ Valid("staging") /\ Valid(Destination)
    /\ Goto("unlink")
    /\ UNCHANGED <<durable, session>>

RemoveStaging ==
    /\ pc = "unlink"
    /\ file' = [file EXCEPT !["staging"] = "absent"]
    /\ linked' = FALSE
    /\ Advance("Installed") \/ LateError
    /\ UNCHANGED <<trash, catalogs, images, journal, session>>

\* (false, true): an earlier run removed staging and stopped.
AlreadyInstalled ==
    /\ At("OldLibraryTrashed")
    /\ ~Exists("old")
    /\ ~Exists("staging")
    /\ Valid(Destination)
    /\ Advance("Installed")
    /\ UNCHANGED <<durable, session>>

\* Mutant of SaveDatabase: the Incoming catalog is written first.
SaveIncomingFirst ==
    /\ At("Installed")
    /\ ~OldReappeared
    /\ Valid(Destination)
    /\ incomingDb' = "after"
    /\ Advance("DatabaseSaved")
    /\ UNCHANGED <<files, comicDb, images, journal, session>>

SaveDatabase ==
    /\ At("Installed")
    /\ ~OldReappeared
    /\ Valid(Destination)
    /\ comicDb' = "after"
    /\ Advance("DatabaseSaved") \/ LateError
    /\ UNCHANGED <<files, incomingDb, images, journal, session>>

SaveIncoming ==
    /\ At("DatabaseSaved")
    /\ ~OldReappeared
    /\ Valid(Destination)
    /\ incomingDb' = "after"
    /\ Advance("IncomingSaved") \/ LateError
    /\ UNCHANGED <<files, comicDb, images, journal, session>>

\* Mutants of RemoveSource: the destination, or the source, is not validated.
RemoveUnchecked ==
    /\ At("IncomingSaved")
    /\ ~OldReappeared
    /\ Exists("source") => Valid("source")
    /\ file' = [file EXCEPT !["source"] = "absent"]
    /\ Advance("SourceRemoved")
    /\ UNCHANGED <<linked, trash, catalogs, images, journal, session>>

RemoveSource ==
    /\ At("IncomingSaved")
    /\ ~OldReappeared
    /\ Valid(Destination)
    /\ Exists("source") => Valid("source")
    /\ file' = [file EXCEPT !["source"] = "absent"]
    /\ Advance("SourceRemoved") \/ LateError
    /\ UNCHANGED <<linked, trash, catalogs, images, journal, session>>

\* Mutant of CheckCommitted: the sidecars go before the journal says Committed.
FinishEarly ==
    /\ At("SourceRemoved")
    /\ ~OldReappeared
    /\ ~Exists("source")
    /\ Valid(Destination)
    /\ Goto("finish")
    /\ UNCHANGED <<durable, session>>

CheckCommitted ==
    /\ At("SourceRemoved")
    /\ ~OldReappeared
    /\ ~Exists("source")
    /\ Valid(Destination)
    /\ Advance("Committed")
    /\ UNCHANGED <<durable, session>>

\* finish_replacement: the sidecars first, then the journal.
FinishImages ==
    /\ pc = "finish"
    /\ images # {}
    /\ images' = FewerImages
    /\ Goto("finish") \/ LateError
    /\ UNCHANGED <<files, catalogs, journal, session>>

FinishJournal ==
    /\ pc = "finish"
    /\ images = {}
    /\ journal' = "none"
    /\ Goto("landed") \/ LateError
    /\ UNCHANGED <<files, catalogs, images, session>>

\* Mutant of Land: the live session keeps the database it had.
KeepSession ==
    /\ pc = "landed"
    /\ session' = IF session = "none" THEN comicDb ELSE session
    /\ Goto("idle")
    /\ UNCHANGED durable

\* A live session installs the database it committed; startup loads the file.
Land ==
    /\ pc = "landed"
    /\ session' = IF session = "none" THEN comicDb ELSE "after"
    /\ Goto("idle")
    /\ UNCHANGED durable

(***************************************************************************)
(* Startup, errors and crashes                                             *)
(***************************************************************************)

\* load_bootstrap: recover, then load both catalogs.  A journal that is not
\* Committed must find both after-images.
Startup ==
    /\ pc = "down"
    /\ journal \notin {"none", "Committed"} => images = Images
    /\ stage' = IF journal = "none" THEN stage ELSE journal
    /\ pc' = IF journal \in {"none", "Committed"} THEN "finish" ELSE "roll"
    /\ UNCHANGED <<durable, session, bounds>>

\* load_replacement cannot read an after-image: the user sees the error and closes.
StartupRefused ==
    /\ pc = "down"
    /\ journal \notin {"none", "Committed"} /\ images # Images
    /\ UNCHANGED vars

\* A check of roll_replacement_forward refuses the files it finds.
Refused ==
    \/ /\ At("Prepared")
       /\ \/ DestinationTaken
          \/ ~Exists("staging") /\ ~Valid("source")
    \/ At("Staged") /\ (~Valid("staging") \/ DestinationTaken)
    \/ /\ At("OldLibraryTrashed")
       /\ \/ Exists("old")
          \/ ~Exists("staging") /\ ~Valid(Destination)
          \/ Exists("staging") /\ ~Exists(Destination) /\ ~Valid("staging")
          \/ Exists("staging") /\ Exists(Destination)
                /\ ~(linked /\ Valid("staging") /\ Valid(Destination))
    \/ /\ pc = "roll"
       /\ stage \in {"Installed", "DatabaseSaved", "IncomingSaved", "SourceRemoved"}
       /\ OldReappeared \/ ~Valid(Destination)
    \/ At("IncomingSaved") /\ Exists("source") /\ ~Valid("source")
    \/ At("SourceRemoved") /\ Exists("source")

Conflict ==
    /\ Refused
    /\ Stop
    /\ UNCHANGED <<durable, stage, session, bounds>>

\* replace_library_copy_async: the library changed while the journal was
\* written, so the worker gives up and leaves the journal to the next startup.
\* The operation flag keeps others from it (Coordinator, EpochHeldUntilLanding);
\* the path is here because the code has it.
EpochChanged ==
    /\ pc = "begun"
    /\ Stop
    /\ UNCHANGED <<durable, stage, session, bounds>>

\* Any write, link, unlink or trash may fail with an I/O error before it changed
\* anything.  A failed copy removes its staging file, if it can; a failed first
\* journal write removes the images, if it can.
IoError ==
    /\ pc \in Working \ {"landed"}
    /\ Fault
    /\ Stop
    /\ IF pc = "copying"
       THEN \E c \in {"absent", "partial", file["source"]} :
               file' = [file EXCEPT !["staging"] = c]
       ELSE UNCHANGED file
    /\ IF pc = "prepare" THEN images' \in AfterCleanup ELSE UNCHANGED images
    /\ UNCHANGED <<linked, trash, catalogs, journal, stage, session, stranded>>

Crash ==
    /\ pc # "down"
    /\ Fault
    /\ pc' = "down"
    /\ session' = "none"
    /\ UNCHANGED <<durable, stage, stranded>>

\* The session ends: save_for_close_async writes its database, dirty or not.
Close ==
    /\ pc \in {"idle", "failed"}
    /\ comicDb' = IF pc = "failed" /\ ~CloseAfterFailure THEN comicDb ELSE session
    /\ session' = "none"
    /\ pc' = "down"
    /\ UNCHANGED <<files, incomingDb, images, journal, stage, bounds>>

Quiet == pc \in {"idle", "failed", "down"}

\* Between two runs another program replaces, removes or restores a file.
Interfere ==
    /\ Interference
    /\ Quiet
    /\ Fault
    /\ \E p \in Paths, c \in {"absent", "foreign", "old"} :
          /\ file[p] # c
          /\ file' = [file EXCEPT ![p] = c]
          /\ linked' = (linked /\ p \notin {"staging", Destination})
    /\ UNCHANGED <<trash, catalogs, images, journal, stage, session, pc, stranded>>

Begin == BeginCleanup \/ WriteImages \/ WritePrepared \/ PreparedReportsError \/ StartCommit

Roll ==
    \/ SaveStage
    \/ ReuseStaging \/ DiscardStaging \/ StartCopy \/ FinishCopy
    \/ CheckStaged
    \/ TrashOld \/ OldIsTrashed
    \/ LinkDestination \/ AlreadyLinked \/ RemoveStaging \/ AlreadyInstalled
    \/ SaveDatabase \/ SaveIncoming \/ RemoveSource \/ CheckCommitted
    \/ FinishImages \/ FinishJournal \/ Land

Progress == Begin \/ Roll \/ Conflict \/ Startup \/ Close

Next == \/ Request \/ Progress
        \/ StartupRefused \/ EpochChanged \/ IoError \/ Crash \/ Interfere

Spec == Init /\ [][Next]_vars

\* A worker runs until it returns; a session is closed and the program started
\* again some day, also after a startup that failed.
FairSpec == Spec /\ WF_vars(Progress)

(***************************************************************************)
(* Properties                                                              *)
(***************************************************************************)

HasIncomingComic == \E p \in Paths : Valid(p)

\* A journal that recovery has to roll forward always finds both after-images,
\* whichever write, crash, error or interference came before (ADR-055): otherwise
\* load_replacement fails and every later startup with it.  Only a first journal
\* write that reports an error after it installed the journal breaks this.
ImagesForJournal ==
    journal \notin {"none", "Committed"} /\ ~stranded => images = Images

\* That exception costs no file and no record: the journal which every startup
\* refuses has done nothing yet (the path is in begin_replacement's error branch).
StrandedIsUntouched ==
    stranded /\ ~Interference =>
        /\ Valid("source") /\ file["old"] = "old"
        /\ comicDb = "before" /\ incomingDb = "before"

\* While nobody else touches the files, the Library comic is in its place, or in
\* the trash, from which the user can restore it.
LibraryComicKept == ~Interference => file["old"] = "old" \/ "old" \in trash

\* The old file leaves the Library only when a complete, validated copy is
\* already on the Library's filesystem.
StagedBeforeTrash ==
    ~Interference /\ file["old"] # "old" => Valid("staging") \/ Valid(Destination)

\* "An interrupted replacement must not leave the catalogs without a valid
\* Library file" (ADR-052): once the program is open with no journal left, the
\* record in ComicDb.xml names a file that is there, and a comic taken out of
\* IncomingDb.xml is the one in the Library.
CatalogsNameValidFiles ==
    ~Interference /\ pc \in {"idle", "failed"} /\ journal = "none" =>
        /\ comicDb = "before" => file["old"] = "old"
        /\ comicDb = "after" => Valid(Destination)
        /\ incomingDb = comicDb

\* What the program takes away from a path other than staging went to the
\* trash, or is the Incoming comic, validated, at the destination as well and
\* in both catalogs.
TakesOnlyValidated ==
    \A p \in Paths \ {"staging"} :
        file'[p] # file[p] /\ Exists(p) =>
            \/ file[p] \in trash'
            \/ /\ p = "source" /\ Valid(p)
               /\ Valid(Destination)
               /\ incomingDb = "after"

\* The program itself never destroys the last complete copy of the Incoming
\* comic, nor a file it did not validate, whatever other programs did to the
\* files between two runs.
NeverDropsLastCopy ==
    [][~Quiet => (HasIncomingComic => HasIncomingComic') /\ TakesOnlyValidated]_vars

(***************************************************************************)
(* The inductive invariant behind the safety properties.  The journal is   *)
(* at most one stage behind the disk, so each stage says which files and   *)
(* catalogs are in place.  A missing source marks the replacement as done. *)
(***************************************************************************)

StageSteps == {<<"Prepared", "Staged">>, <<"Staged", "TrashPending">>,
               <<"TrashPending", "OldLibraryTrashed">>,
               <<"OldLibraryTrashed", "Installed">>,
               <<"Installed", "DatabaseSaved">>,
               <<"DatabaseSaved", "IncomingSaved">>,
               <<"IncomingSaved", "SourceRemoved">>,
               <<"SourceRemoved", "Committed">>}

FromDatabaseSaved == {"DatabaseSaved", "IncomingSaved", "SourceRemoved", "Committed"}
FromIncomingSaved == FromDatabaseSaved \ {"DatabaseSaved"}
FromInstalled == FromDatabaseSaved \cup {"Installed"}
FromTrashed == FromInstalled \cup {"OldLibraryTrashed"}

\* The journal, the in-memory stage and the sidecars.
ControlInv ==
    /\ pc \in {"clean", "images", "prepare"} => journal = "none" /\ stage = "Prepared"
    /\ pc = "prepare" => images = Images
    /\ pc = "begun" => journal = "Prepared" /\ stage = "Prepared"
    /\ pc = "idle" => journal = "none"
    /\ stranded => journal = "Prepared" /\ pc \in {"failed", "down"} /\ images # Images
    /\ pc \in {"roll", "copying", "unlink"} => journal = stage /\ stage # "Committed"
    /\ pc = "copying" => stage = "Prepared"
    /\ pc = "unlink" => stage = "OldLibraryTrashed"
    /\ pc = "save" => <<journal, stage>> \in StageSteps
    /\ pc = "finish" => journal \in {"none", "Committed"}
    /\ pc = "landed" => journal = "none"
    /\ pc = "down" => session = "none"
    /\ ImagesForJournal

Done == ~Exists("source")

\* The files.
FilesInv ==
    /\ Exists("source") => Valid("source")
    /\ pc \in {"clean", "images", "prepare"} => ~Done
    /\ Done => journal \in FromIncomingSaved \cup {"none"}
    /\ journal \in {"SourceRemoved", "Committed"} => Done
    /\ journal = "IncomingSaved" /\ pc = "save" => Done
    /\ journal \in {"Prepared", "Staged"} => file["old"] = "old"
    /\ journal = "none" /\ ~Done => file["old"] = "old"
    /\ journal = "TrashPending" => file["old"] = "old" \/ "old" \in trash
    /\ journal = "TrashPending" /\ pc = "save" => ~Exists("old")
    /\ journal = "TrashPending" /\ ~SameExtension => file["old"] \in {"old", "absent"}
    /\ journal \in FromTrashed \/ Done =>
          /\ "old" \in trash
          /\ ~SameExtension => ~Exists("old")
    /\ journal \in {"Staged", "TrashPending"} => Valid("staging")
    /\ journal = "Prepared" /\ pc = "save" => Valid("staging")
    /\ journal = "OldLibraryTrashed" => Valid("staging") \/ Valid(Destination)
    /\ journal = "OldLibraryTrashed" /\ pc \in {"save", "unlink"} => Valid(Destination)
    /\ journal \in FromInstalled \/ Done => Valid(Destination)

\* The catalogs, as long as no stale session overwrites them.
CatalogsInv ==
    /\ comicDb = "after" => journal \in FromInstalled \/ Done
    /\ incomingDb = "after" => journal \in FromDatabaseSaved \/ Done
    /\ journal \in FromDatabaseSaved \/ Done => comicDb = "after"
    /\ journal \in FromIncomingSaved \/ Done => incomingDb = "after"
    /\ journal = "Installed" /\ pc = "save" => comicDb = "after"
    /\ journal = "DatabaseSaved" /\ pc = "save" => incomingDb = "after"
    /\ pc = "idle" => session = comicDb
    /\ session # "none" /\ journal = "none" /\ ~Done => session = comicDb
    /\ session # "none" /\ pc \in {"finish", "landed"} => comicDb = "after"

JournalInv ==
    /\ ControlInv
    /\ ~Interference => FilesInv
    /\ ~Interference /\ ~CloseAfterFailure => CatalogsInv

(***************************************************************************)
(* The promise of ADR-052, and this journal as its implementation.         *)
(***************************************************************************)

EffectOrder ==
    [e \in {"trashed", "installed", "databaseSaved", "incomingSaved", "sourceRemoved"} |->
        CASE e = "trashed" -> {}
          [] e = "installed" -> {"trashed"}
          [] e = "databaseSaved" -> {"installed"}
          [] e = "incomingSaved" -> {"databaseSaved"}
          [] e = "sourceRemoved" -> {"incomingSaved"}]

EffectsOnDisk ==
    {e \in DOMAIN EffectOrder :
        CASE e = "trashed" -> "old" \in trash
          [] e = "installed" -> Valid(Destination)
          [] e = "databaseSaved" -> comicDb = "after"
          [] e = "incomingSaved" -> incomingDb = "after"
          [] e = "sourceRemoved" -> ~Exists("source")}

Promised == INSTANCE ReplacementPromise
    WITH Order <- EffectOrder, promised <- journal # "none", effects <- EffectsOnDisk

\* Whatever stops it, the journal implements the promise: one effect at a time,
\* in the order of ADR-052, none before the journal and none undone.
PromiseKeptInOrder == Promised!PromiseSpec

\* "Startup rolls an interrupted replacement forward" (ADR-052): whatever crashed
\* or reported an error, and wherever, a journal is followed by a state in which
\* every effect is done and it is gone, unless its first write stranded it.
StartupRollsForward == ([]~stranded) => Promised!Kept
===============================================================================

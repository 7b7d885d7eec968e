-------------------------------- MODULE CvCache --------------------------------
(***************************************************************************)
(* What the Comic Vine cache (cr-scrape/src/cache) knows of one volume,    *)
(* and the three things that write it: the update of every endpoint over   *)
(* the window since its watermark (update.rs), the cache manager's forced  *)
(* update with its durable queue of issue details (manage.rs), and the     *)
(* freshness rule that answers a request for the volume's issues           *)
(* (freshness.rs).                                                         *)
(*                                                                         *)
(* The jobs of the shell share one slot (browser/shell.rs, run_cv_job);    *)
(* the Missing Issues dialog asks beside them, on a thread of its own.     *)
(* Comic Vine changes while all of them page through it.  A request and    *)
(* the commit of what it brought are steps of their own; a transaction of  *)
(* the cache database is one step.  A failed request is one whose retry    *)
(* failed too.                                                             *)
(***************************************************************************)
EXTENDS Integers, Sequences, FiniteSets, Folding, FiniteSetsExt

CONSTANTS
    LastIssue,     \* the issues are 1..LastIssue, in the order of their ids
    FirstIssues,   \* the first FirstIssues of them are out at the start
    PageSize,      \* rows of one answer
    MaxPages,      \* the user's cap on the pages of an endpoint in one run
    MaxDay,        \* bound on the date
    MaxEdits,      \* bound on the changes on Comic Vine
    MaxStops,      \* bound on cancels, failed requests and crashes
    MaxOthers,     \* bound on manager updates and requests for the issues
    Refreshes      \* FreshnessPolicy.refresh: Auto or Manual

ASSUME ConstantsAssumption ==
    /\ LastIssue \in Nat \ {0} /\ FirstIssues \in 1..LastIssue
    /\ PageSize \in Nat \ {0} /\ MaxPages \in Nat \ {0}
    /\ MaxDay \in Nat \ {0}
    /\ MaxEdits \in Nat /\ MaxStops \in Nat /\ MaxOthers \in Nat
    /\ Refreshes \in BOOLEAN

VARIABLES
    day,       \* today
    vine,      \* Comic Vine's issues, the one changed longest ago first
    volumeDay, \* the day Comic Vine last changed the volume itself
    row,       \* the cache's row of the volume
    skeleton,  \* issue_skeleton: the version of each issue it holds
    detail,    \* issue_detail: the version of each detail, 0 for none
    pending,   \* pending_issue_detail
    sync,      \* sync_state: each endpoint's watermark and resume offset
    job,       \* the update or manager job in the slot
    asked,     \* issues_of_volume, in the slot and in the dialog
    edits, stops, others,
    excused,   \* history: issues whose change was stepped over or written over
    hollow,    \* history: the row was stamped while the list was not whole, or
               \* a slower writer has taken an issue out of it
    answer,    \* history: how the last answer from the cache alone compares
    snapshot   \* history: what the queue of details was made for

vine_vars == <<day, vine, volumeDay>>
cache_vars == <<row, skeleton, detail, pending, sync>>
vars == <<day, vine, volumeDay, row, skeleton, detail, pending, sync, job, asked,
          edits, stops, others, excused, hollow, answer, snapshot>>

Issues == 1..LastIssue
Versions == 1..(MaxEdits + 1)
Absent == -1         \* no skeleton
NumberOnly == 0      \* a skeleton without cover date and name
Days == 0..MaxDay    \* 0 is FLOOR_DATE, and a fetched_at that was never set
Unknown == -1        \* a count_of_issues the cache does not have

\* update.rs ENDPOINTS, the two that write the volume and its issues.
Endpoints == <<"volumes", "issues">>
Callers == {"slot", "dialog"}

Idle == [pc |-> "idle", ep |-> 1, since |-> 0, now |-> 0, off |-> 0, pages |-> 0,
         page |-> <<>>, total |-> 0, mode |-> "none", old |-> [i \in Issues |-> Absent],
         count |-> 0, cover |-> "none", ids |-> {}]
NotAsked == [pc |-> "idle", was |-> "none", stored |-> Unknown, count |-> 0,
             list |-> [i \in Issues |-> Absent]]

IsVine(v) == \A n \in DOMAIN v : v[n] \in [id : Issues, ver : Versions, day : Days, out : Days]
IsSkeleton(s) == s \in [Issues -> {Absent, NumberOnly} \cup Versions]
Counts == {Unknown} \cup 0..LastIssue

TypeOK ==
    /\ day \in Days /\ IsVine(vine) /\ volumeDay \in Days
    /\ row \in [count : Counts, cover : {"none", "old", "recent"}, fetched : Days]
    /\ IsSkeleton(skeleton)
    /\ detail \in [Issues -> {0} \cup Versions]
    /\ pending \subseteq Issues
    /\ sync \in [{"volumes", "issues"} -> [last : Days, off : 0..LastIssue]]
    /\ job.pc \in {"idle", "page", "store", "save", "volume", "list", "replace", "queue",
                   "details", "cover"}
    /\ job.ep \in DOMAIN Endpoints /\ job.since \in Days /\ job.now \in Days
    /\ job.off \in 0..LastIssue /\ job.pages \in 0..MaxPages /\ IsVine(job.page)
    /\ job.total \in 0..LastIssue /\ job.mode \in {"none", "Summary", "Complete"}
    /\ IsSkeleton(job.old) /\ job.ids \subseteq Issues
    /\ \A c \in Callers :
           /\ asked[c].pc \in {"idle", "probe", "list", "row", "issues"}
           /\ asked[c].was \in {"none", "Fetch", "Revalidate"}
           /\ asked[c].stored \in Counts /\ asked[c].count \in Counts
           /\ IsSkeleton(asked[c].list)
    /\ edits \in 0..MaxEdits /\ stops \in 0..MaxStops /\ others \in 0..MaxOthers
    /\ excused \subseteq Issues /\ hollow \in BOOLEAN
    /\ answer \in {"none", "whole", "hollow", "short"}
    /\ snapshot \in [Issues -> {0} \cup Versions]

--------------------------------------------------------------------------------
(* Comic Vine.                                                             *)

\* The issues of a volume, as the list resource answers them.
Listed == [i \in Issues |->
              IF \E n \in DOMAIN vine : vine[n].id = i
              THEN (CHOOSE e \in ToSet(vine) : e.id = i).ver ELSE Absent]
Out == {i \in Issues : Listed[i] # Absent}

\* filter=date_last_updated:since|now with sort=date_last_updated:asc.
Window(ep, since, now) ==
    IF ep = "issues"
    THEN Chosen(vine, {e \in ToSet(vine) : since <= e.day /\ e.day <= now})
    ELSE IF since <= volumeDay /\ volumeDay <= now
         THEN <<[id |-> 1, ver |-> 1, day |-> volumeDay, out |-> volumeDay]>> ELSE <<>>

\* How far into the window of the issues a paging run has read, by the stored
\* resume offset and by the run itself.
Updating == job.pc \in {"page", "store", "save"} /\ Endpoints[job.ep] = "issues"
Reached == {sync["issues"].off}
           \cup IF Updating THEN {job.off + IF job.pc = "store" THEN Len(job.page) ELSE 0}
                ELSE {}
WindowStart == IF Updating THEN job.since ELSE sync["issues"].last

\* The entries that a change of entry p of the window moves from behind a
\* reader's offset to before it.
SteppedOver(p) ==
    LET window == Window("issues", WindowStart, MaxDay)
        at == {n \in DOMAIN window : window[n].id = p}
    IN  {window[r + 1].id : r \in {r \in Reached : /\ r + 1 \in DOMAIN window
                                                   /\ \E n \in at : n <= r}}

Tick ==
    /\ day < MaxDay
    /\ day' = day + 1
    /\ UNCHANGED <<vine, volumeDay, cache_vars, job, asked, edits, stops, others,
                   excused, hollow, answer, snapshot>>

\* An issue changes and becomes the one changed last.
EditIssue(i) ==
    /\ edits < MaxEdits
    /\ \E n \in DOMAIN vine :
          /\ vine[n].id = i
          /\ vine' = Append(RemoveAt(vine, n),
                            [vine[n] EXCEPT !.ver = @ + 1, !.day = day])
    /\ edits' = edits + 1
    /\ excused' = (excused \cup SteppedOver(i)) \ {i}
    /\ UNCHANGED <<day, volumeDay, cache_vars, job, asked, stops, others, hollow,
                   answer, snapshot>>

\* An issue comes out; the volume's count and date change with it.
Publish(i) ==
    /\ edits < MaxEdits
    /\ i = Len(vine) + 1 /\ i \in Issues
    /\ vine' = Append(vine, [id |-> i, ver |-> 1, day |-> day, out |-> day])
    /\ volumeDay' = day
    /\ edits' = edits + 1
    /\ UNCHANGED <<day, cache_vars, job, asked, stops, others, excused, hollow, answer,
                   snapshot>>

--------------------------------------------------------------------------------
(* The cache database (sqlite.rs), and what the history makes of a write.  *)

\* put_volumes: a value the new row has not keeps the stored one.
PutVolume(count, cover) ==
    [count |-> IF count = Unknown THEN row.count ELSE count,
     cover |-> IF cover = "none" THEN row.cover ELSE cover,
     fetched |-> day]

\* put_issues.
PutIssues(list) == [i \in Issues |-> IF list[i] = Absent THEN skeleton[i] ELSE list[i]]

\* An excuse ends when the cache holds the issue as it is, and begins when a
\* write takes a version back.
Excused(new) == {i \in Issues : \/ i \in excused /\ new[i] # Listed[i]
                                \/ new[i] < skeleton[i]}
Lacks(new) == \E i \in Out : new[i] = Absent
Loses(new) == \E i \in Issues : skeleton[i] # Absent /\ new[i] = Absent

Writes(new) == skeleton' = new /\ excused' = Excused(new)

\* The cover date of the last issue, of those the cache has a date of: the
\* issues of the start are past the horizon, a later one is not.
CoverOf(list) ==
    IF \E i \in Issues : list[i] \in Versions /\ i > FirstIssues THEN "recent"
    ELSE IF \E i \in Issues : list[i] \in Versions THEN "old" ELSE "none"

--------------------------------------------------------------------------------
(* The update, update.rs.                                                  *)

SlotIdle == job.pc = "idle" /\ asked["slot"].pc = "idle"

\* Mutant: the resume offset is not read.
EndpointFromStart(n, now) ==
    [Idle EXCEPT !.pc = "page", !.ep = n, !.now = now, !.since = sync[Endpoints[n]].last]

\* update_endpoint reads the watermark of its endpoint.
Endpoint(n, now) ==
    [Idle EXCEPT !.pc = "page", !.ep = n, !.now = now,
                 !.since = sync[Endpoints[n]].last, !.off = sync[Endpoints[n]].off]
SaveWatermark(last, off) == [sync EXCEPT ![Endpoints[job.ep]] = [last |-> last, off |-> off]]

UpdateBegin ==
    /\ SlotIdle
    /\ job' = Endpoint(1, day)
    /\ UNCHANGED <<vine_vars, cache_vars, asked, edits, stops, others, excused, hollow,
                   answer, snapshot>>

\* The next endpoint of the run, if there is one.
EndpointDone(newSync) ==
    /\ sync' = newSync
    /\ job' = IF job.ep = Len(Endpoints) THEN Idle ELSE Endpoint(job.ep + 1, job.now)

UpdatePage ==
    /\ job.pc = "page" /\ job.pages < MaxPages
    /\ LET window == Window(Endpoints[job.ep], job.since, job.now)
       IN  job' = [job EXCEPT !.pc = "store", !.pages = @ + 1, !.total = Len(window),
                              !.page = SubSeq(window, job.off + 1,
                                              Min({job.off + PageSize, Len(window)}))]
    /\ UNCHANGED <<vine_vars, cache_vars, asked, edits, stops, others, excused, hollow,
                   answer, snapshot>>

\* store_page.  The rows of the volume are stamped with the time of the store,
\* those that come with an issue too.  The row and the issues of a page go in with two
\* transactions, one right after the other; here they are one step, and the count
\* of a volume, which Comic Vine gave with the page, is the one at the store.
UpdateStore ==
    /\ job.pc = "store"
    /\ LET got == [i \in Issues |->
                      IF Endpoints[job.ep] = "issues" /\ \E n \in DOMAIN job.page : job.page[n].id = i
                      THEN (CHOOSE e \in ToSet(job.page) : e.id = i).ver ELSE Absent]
           new == PutIssues(got)
       IN  /\ Writes(new)
           /\ IF job.page = <<>> THEN UNCHANGED <<row, hollow>>
              ELSE /\ row' = PutVolume(IF Endpoints[job.ep] = "volumes" THEN Len(vine)
                                       ELSE Unknown, "none")
                   /\ hollow' = Lacks(new)
    /\ job' = [job EXCEPT !.pc = "save", !.off = @ + Len(job.page)]
    /\ UNCHANGED <<vine_vars, detail, pending, sync, asked, edits, stops, others, answer,
                   snapshot>>

\* The window is read: the watermark advances.  Otherwise the offset is saved.
UpdateSave ==
    /\ job.pc = "save"
    /\ IF Len(job.page) < PageSize \/ job.off >= job.total
       THEN EndpointDone(SaveWatermark(job.now, 0))
       ELSE /\ sync' = SaveWatermark(job.since, job.off)
            /\ job' = [job EXCEPT !.pc = "page", !.page = <<>>, !.total = 0]
    /\ UNCHANGED <<vine_vars, row, skeleton, detail, pending, asked, edits, stops, others,
                   excused, hollow, answer, snapshot>>

\* Mutant: the page cap advances the watermark.
UpdateCappedAdvances ==
    /\ job.pc = "page" /\ job.pages >= MaxPages
    /\ EndpointDone(SaveWatermark(job.now, job.off))
    /\ UNCHANGED <<vine_vars, row, skeleton, detail, pending, asked, edits, stops, others,
                   excused, hollow, answer, snapshot>>

\* The page cap stops the endpoint.
UpdateCapped ==
    /\ job.pc = "page" /\ job.pages >= MaxPages
    /\ EndpointDone(SaveWatermark(job.since, job.off))
    /\ UNCHANGED <<vine_vars, row, skeleton, detail, pending, asked, edits, stops, others,
                   excused, hollow, answer, snapshot>>

\* A cancel saves the offset and ends the run.
UpdateCancelled ==
    /\ job.pc = "page" /\ stops < MaxStops
    /\ sync' = SaveWatermark(job.since, job.off)
    /\ job' = Idle
    /\ stops' = stops + 1
    /\ UNCHANGED <<vine_vars, row, skeleton, detail, pending, asked, edits, others,
                   excused, hollow, answer, snapshot>>

--------------------------------------------------------------------------------
(* The cache manager, manage.rs update_volume.                             *)

ManageBegin(mode) ==
    /\ SlotIdle /\ others < MaxOthers
    /\ others' = others + 1
    /\ job' = IF mode = "Complete" /\ pending # {}
              THEN [Idle EXCEPT !.pc = "details", !.mode = mode, !.ids = pending]
              ELSE [Idle EXCEPT !.pc = "volume", !.mode = mode]
    /\ UNCHANGED <<vine_vars, cache_vars, asked, edits, stops, excused, hollow, answer,
                   snapshot>>

\* fetch_volume, and the reads of what the cache keeps of the old rows.
ManageVolume ==
    /\ job.pc = "volume"
    /\ job' = [job EXCEPT !.pc = "list", !.now = day, !.count = Len(vine),
                          !.cover = row.cover, !.old = skeleton]
    /\ UNCHANGED <<vine_vars, cache_vars, asked, edits, stops, others, excused, hollow,
                   answer, snapshot>>

\* fetch_issue_list, in the order of the ids, to which a new issue only adds.
ManageList ==
    /\ job.pc = "list"
    /\ job' = [job EXCEPT !.pc = "replace", !.ids = Out]
    /\ UNCHANGED <<vine_vars, cache_vars, asked, edits, stops, others, excused, hollow,
                   answer, snapshot>>

\* replace_volume_snapshot: the rows are replaced, not merged.  The list has
\* the numbers only, so that the dates and names are those read before.
ManageReplace ==
    /\ job.pc = "replace"
    /\ LET new == [i \in Issues |-> IF i \notin job.ids THEN Absent
                                    ELSE IF job.old[i] = Absent THEN NumberOnly ELSE job.old[i]]
       IN  /\ Writes(new)
           /\ hollow' = (Lacks(new) /\ (hollow \/ Loses(new)))
    /\ row' = [count |-> job.count, cover |-> job.cover, fetched |-> job.now]
    /\ job' = [job EXCEPT !.pc = "queue"]
    /\ UNCHANGED <<vine_vars, detail, pending, sync, asked, edits, stops, others, answer,
                   snapshot>>

\* set_pending_issue_details.
ManageQueue ==
    /\ job.pc = "queue"
    /\ IF job.mode = "Complete"
       THEN /\ pending' = job.ids
            /\ snapshot' = [i \in Issues |-> IF i \in job.ids THEN Listed[i] ELSE 0]
            /\ job' = [Idle EXCEPT !.pc = "details", !.mode = job.mode, !.ids = job.ids]
       ELSE /\ pending' = {}
            /\ snapshot' = [i \in Issues |-> 0]
            /\ job' = Idle
    /\ UNCHANGED <<vine_vars, row, skeleton, detail, sync, asked, edits, stops, others,
                   excused, hollow, answer>>

\* Mutant: the first detail takes the whole queue off.
ManageDetailClears ==
    /\ job.pc = "details" /\ job.ids # {}
    /\ LET i == CHOOSE m \in job.ids : \A k \in job.ids : m <= k
       IN  /\ detail' = [detail EXCEPT ![i] = Listed[i]]
           /\ Writes([skeleton EXCEPT ![i] = IF @ = Absent THEN Absent ELSE Listed[i]])
           /\ pending' = pending \ job.ids
           /\ job' = [job EXCEPT !.ids = @ \ {i},
                                 !.pc = IF job.ids = {i} THEN "cover" ELSE "details"]
    /\ UNCHANGED <<vine_vars, row, sync, asked, edits, stops, others, hollow, answer, snapshot>>

\* fetch_details: complete_issue_detail stores one and takes it off the queue.
ManageDetail ==
    /\ job.pc = "details" /\ job.ids # {}
    /\ LET i == CHOOSE m \in job.ids : \A k \in job.ids : m <= k
       IN  /\ detail' = [detail EXCEPT ![i] = Listed[i]]
           /\ Writes([skeleton EXCEPT ![i] = IF @ = Absent THEN Absent ELSE Listed[i]])
           /\ pending' = pending \ {i}
           /\ job' = [job EXCEPT !.ids = @ \ {i},
                                 !.pc = IF job.ids = {i} THEN "cover" ELSE "details"]
    /\ UNCHANGED <<vine_vars, row, sync, asked, edits, stops, others, hollow, answer, snapshot>>

\* update_last_cover_date.
ManageCover ==
    /\ job.pc = "cover"
    /\ row' = [row EXCEPT !.cover = CoverOf(skeleton)]
    /\ job' = Idle
    /\ UNCHANGED <<vine_vars, skeleton, detail, pending, sync, asked, edits, stops, others,
                   excused, hollow, answer, snapshot>>

--------------------------------------------------------------------------------
(* The freshness rule, freshness.rs.                                       *)

CachedIssues == {i \in Issues : skeleton[i] # Absent}

\* is_closed: the cache holds every issue counted, the last one is past the
\* horizon.
IsClosed == row.count = Cardinality(CachedIssues) /\ row.cover = "old"

Verdict ==
    IF row.fetched = 0 \/ CachedIssues = {} THEN "Fetch"
    ELSE IF IsClosed \/ day = row.fetched \/ ~Refreshes THEN "Fresh"
    ELSE "Revalidate"

\* How the cached list compares with Comic Vine on the day of the stamp.
Answer(stamp) ==
    IF stamp = 0 THEN "short"
    ELSE IF \A n \in DOMAIN vine : vine[n].out < stamp => skeleton[vine[n].id] # Absent
         THEN "whole"
    ELSE IF hollow THEN "hollow" ELSE "short"

\* issues_of_volume begins: warm, the refresh of an incoming folder, or the
\* dialog.  Fresh answers from the cache.
Ask(c) ==
    /\ asked[c].pc = "idle" /\ others < MaxOthers
    /\ c = "slot" => SlotIdle
    /\ others' = others + 1
    /\ IF Verdict = "Fresh" THEN answer' = Answer(row.fetched) /\ UNCHANGED asked
       ELSE /\ asked' = [asked EXCEPT ![c] = [NotAsked EXCEPT !.pc = "probe", !.was = Verdict,
                                                              !.stored = row.count]]
            /\ UNCHANGED answer
    /\ UNCHANGED <<vine_vars, cache_vars, job, edits, stops, excused, hollow, snapshot>>

\* Mutant: the probe is compared with the row it was just stored in.
ChangedSinceStored(c) == Len(vine) # PutVolume(Len(vine), "none").count

\* Did the volume change since its row was read?
Changed(c) == asked[c].stored # Len(vine)

\* probe_volume.  Revalidate stores it, and answers when nothing changed.
Probe(c) ==
    /\ asked[c].pc = "probe"
    /\ IF asked[c].was = "Revalidate"
       THEN row' = PutVolume(Len(vine), "none") ELSE UNCHANGED row
    /\ IF asked[c].was = "Revalidate" /\ ~Changed(c)
       THEN /\ answer' = Answer(day)
            /\ asked' = [asked EXCEPT ![c] = NotAsked]
            /\ UNCHANGED hollow
       ELSE /\ hollow' = IF asked[c].was = "Revalidate" THEN Lacks(skeleton) ELSE hollow
            /\ asked' = [asked EXCEPT ![c].pc = "list", ![c].count = Len(vine)]
            /\ UNCHANGED answer
    /\ UNCHANGED <<vine_vars, skeleton, detail, pending, sync, job, edits, stops, others,
                   excused, snapshot>>

\* repage reads the list ...
RepageList(c) ==
    /\ asked[c].pc = "list"
    /\ asked' = [asked EXCEPT ![c].pc = "row", ![c].list = Listed]
    /\ UNCHANGED <<vine_vars, cache_vars, job, edits, stops, others, excused, hollow,
                   answer, snapshot>>

\* ... and stores the row, ...
RepageRow(c) ==
    /\ asked[c].pc = "row"
    /\ row' = PutVolume(asked[c].count, CoverOf(asked[c].list))
    /\ hollow' = Lacks(skeleton)
    /\ asked' = [asked EXCEPT ![c].pc = "issues"]
    /\ UNCHANGED <<vine_vars, skeleton, detail, pending, sync, job, edits, stops, others,
                   excused, answer, snapshot>>

\* ... then the issues.
RepageIssues(c) ==
    /\ asked[c].pc = "issues"
    /\ LET new == PutIssues(asked[c].list)
       IN  Writes(new) /\ hollow' = (hollow /\ Lacks(new))
    /\ asked' = [asked EXCEPT ![c] = NotAsked]
    /\ UNCHANGED <<vine_vars, row, detail, pending, sync, job, edits, stops, others, answer,
                   snapshot>>

--------------------------------------------------------------------------------
(* What stops a worker.                                                    *)

\* A request fails, or the manager's job sees its cancel flag before one: the
\* error ends the run where it stands.
JobFails ==
    /\ stops < MaxStops
    /\ job.pc \in {"page", "volume", "list", "details"}
    /\ job' = Idle
    /\ stops' = stops + 1
    /\ UNCHANGED <<vine_vars, cache_vars, asked, edits, others, excused, hollow, answer,
                   snapshot>>

AskFails(c) ==
    /\ stops < MaxStops
    /\ asked[c].pc \in {"probe", "list"}
    /\ asked' = [asked EXCEPT ![c] = NotAsked]
    /\ stops' = stops + 1
    /\ UNCHANGED <<vine_vars, cache_vars, job, edits, others, excused, hollow, answer,
                   snapshot>>

\* The program stops; the cache database stays.
Crash ==
    /\ stops < MaxStops
    /\ job # Idle \/ \E c \in Callers : asked[c] # NotAsked
    /\ job' = Idle /\ asked' = [c \in Callers |-> NotAsked]
    /\ stops' = stops + 1
    /\ UNCHANGED <<vine_vars, cache_vars, edits, others, excused, hollow, answer, snapshot>>

--------------------------------------------------------------------------------
\* The cache is empty, or an MCL import gave it the first issue's number.
Init ==
    /\ day = 1
    /\ vine = [n \in 1..FirstIssues |-> [id |-> n, ver |-> 1, day |-> 0, out |-> 0]]
    /\ volumeDay = 0
    /\ row = [count |-> Unknown, cover |-> "none", fetched |-> 0]
    /\ skeleton \in {[i \in Issues |-> Absent],
                     [i \in Issues |-> IF i = 1 THEN NumberOnly ELSE Absent]}
    /\ detail = [i \in Issues |-> 0]
    /\ pending = {}
    /\ sync = [ep \in {"volumes", "issues"} |-> [last |-> 0, off |-> 0]]
    /\ job = Idle
    /\ asked = [c \in Callers |-> NotAsked]
    /\ edits = 0 /\ stops = 0 /\ others = 0
    /\ excused = {} /\ hollow = FALSE /\ answer = "none"
    /\ snapshot = [i \in Issues |-> 0]

Updates == \/ UpdatePage \/ UpdateStore \/ UpdateSave \/ UpdateCapped
Manages == \/ ManageVolume \/ ManageList \/ ManageReplace \/ ManageQueue
           \/ ManageDetail \/ ManageCover
Answers(c) == \/ Probe(c) \/ RepageList(c) \/ RepageRow(c) \/ RepageIssues(c)

Next ==
    \/ Tick
    \/ \E i \in Issues : EditIssue(i) \/ Publish(i)
    \/ UpdateBegin \/ UpdatePage \/ UpdateStore \/ UpdateSave
    \/ UpdateCapped \/ UpdateCancelled
    \/ \E mode \in {"Summary", "Complete"} : ManageBegin(mode)
    \/ ManageVolume \/ ManageList \/ ManageReplace \/ ManageQueue
    \/ ManageDetail \/ ManageCover
    \/ \E c \in Callers : \/ Ask(c) \/ Probe(c) \/ RepageList(c)
                          \/ RepageRow(c) \/ RepageIssues(c)
                          \/ AskFails(c)
    \/ JobFails \/ Crash

Spec == Init /\ [][Next]_vars

\* A worker runs until it ends; the user runs the update again and again.
FairSpec ==
    /\ Spec
    /\ WF_vars(UpdateBegin)
    /\ WF_vars(Updates)
    /\ WF_vars(Manages)
    /\ \A c \in Callers : WF_vars(Answers(c))

--------------------------------------------------------------------------------
(* Properties.                                                             *)

\* Every issue changed before the watermark is in the cache as it is, unless a
\* change moved it before the offset of a window half read, or a slower writer
\* wrote over it.
BelowWatermarkIsCurrent ==
    \A n \in DOMAIN vine :
        vine[n].day < sync["issues"].last =>
            skeleton[vine[n].id] = vine[n].ver \/ vine[n].id \in excused

\* An answer from the cache alone has every issue that was out when the row
\* was stamped, unless the row was stamped while the list was not whole, or the
\* manager wrote a list over it that it had read before.
ServedIsWhole == answer # "short"

\* Every issue a complete update queued has a detail as new as the queue, or
\* is still on it, whatever stopped the update and however often it resumed.
QueueOwesNothing ==
    \A i \in Issues : snapshot[i] > 0 => i \in pending \/ detail[i] >= snapshot[i]

\* A window half read is read to its end by the runs that follow.
WindowIsFinished == (sync["issues"].off > 0) ~> (sync["issues"].off = 0)

\* update.rs:7: the watermark is the date the endpoint is caught up through.
CaughtUp ==
    \A n \in DOMAIN vine :
        vine[n].day < sync["issues"].last => skeleton[vine[n].id] = vine[n].ver

\* freshness.rs:92: the detail must come from the API before anything is served
\* as complete.
ServedAsComplete == answer \notin {"short", "hollow"}
================================================================================

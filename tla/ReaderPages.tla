------------------------------ MODULE ReaderPages ------------------------------
(***************************************************************************)
(* How a page comes onto the screen: the reader of                         *)
(* cr-ui/src/reader/page_view.rs asks the image pool of                    *)
(* cr-engine/src/image_pool.rs for the pages it wants, the workers of the  *)
(* fast and the slow page queue render them, and a 10 ms pump on the main  *)
(* thread collects what comes back through a channel.                      *)
(*                                                                         *)
(* The handlers of the main thread run one at a time, each to its end:     *)
(* each is one action.  A worker meets them at the lock of its queue, the  *)
(* lock of the memory pool, the disk cache and the channel, so its steps   *)
(* are those.  Pixels, zoom and scrolling inside a page are left out; all  *)
(* pages are portrait.                                                     *)
(***************************************************************************)
EXTENDS ProcessingQueue, MemoryPool, FiniteSets, Folding

CONSTANTS
    Books,          \* the comics the reader may open
    LastPage,       \* the last display position of each
    Rotations,      \* the page rotations the user may choose, "none" first
    Damaged,        \* the books whose first page does not decode
    SlowBooks,      \* the books whose provider is slow: all but folders
    FastWorkers, SlowWorkers,
    QueueSize,      \* page_cap
    MemoryItems,    \* page_memory_count
    Window,         \* PAGE_WINDOW
    MaxMoves        \* bound on what the user does

NoBook == "no book"

ASSUME ConstantsAssumption ==
    /\ NoBook \notin Books
    /\ LastPage \in Nat
    /\ "none" \in Rotations
    /\ Damaged \subseteq Books
    /\ SlowBooks \subseteq Books
    /\ FastWorkers \cap SlowWorkers = {}
    /\ {QueueSize, MemoryItems} \subseteq Nat \ {0}
    /\ Window \in Nat
    /\ MaxMoves \in Nat

VARIABLES
    view,       \* ViewState
    channel,    \* page_tx .. page_rx
    pump,       \* a pump of start_pump is alive
    fast, slow, \* fast_page_queue, slow_page_queue
    worker,     \* what each queue worker does
    memory,     \* ImagePool.pages
    disk,       \* the raw pages in ImagePool.page_disk
    moves       \* what the user has done so far

vars == <<view, channel, pump, fast, slow, worker, memory, disk, moves>>
pool == <<fast, slow, worker, memory, disk>>

Pages == 0..LastPage
Unreadable == Damaged \X {0}
Layouts == {"single", "double", "continuous"}
Workers == FastWorkers \cup SlowWorkers

\* PageKey and the part of it that names the raw page on disk.
Keys == [book : Books, index : Pages, rotation : Rotations]
Raw(k) == <<k.book, k.index>>

\* What a page callback captured, and PageDone.
Callbacks == [book : Books, page : Pages, rotation : Rotations]
ErrorPage == [book |-> NoBook, index |-> 0, rotation |-> "none"]
Images == Keys \cup {ErrorPage}
Dones == [book : Books, page : Pages, rotation : Rotations, image : Images]
Wants == Pages \X Rotations

\* The display sequence of a book: its pages in reverse.  The reader must not
\* take a display position for a provider index.
PageIndex(p) == LastPage - p

\* The types, and the two queues and the pool in themselves: an item is in the
\* order of its queue once and in its table, and no budget is exceeded.
TypeOK ==
    /\ view.book \in Books \cup {NoBook}
    /\ view.page \in Pages
    /\ view.layout \in Layouts
    /\ view.rotations \in [Pages -> Rotations]
    /\ DOMAIN view.loaded \subseteq Pages
    /\ \A p \in DOMAIN view.loaded : view.loaded[p] \in Images
    /\ view.queued \in SUBSET Wants
    /\ view.wanted \in Seq(Wants)
    /\ view.composed \in BOOLEAN
    /\ channel \in Seq(Dones)
    /\ pump \in BOOLEAN
    /\ IsQueue(fast, Keys, Callbacks) /\ Consistent(fast)
    /\ IsQueue(slow, Keys, Callbacks) /\ Consistent(slow)
    /\ \A w \in Workers :
          /\ worker[w].pc \in {"idle", "look", "render", "store", "send", "finish"}
          /\ worker[w].pc # "idle" => /\ worker[w].key \in Keys
                                      /\ worker[w].callback \in Callbacks
                                      /\ worker[w].image \in Images
    /\ IsPool(memory, Keys) /\ WithinBudget(memory, MemoryItems, 0)
    /\ disk \subseteq Books \X Pages
    /\ moves \in 0..MaxMoves

Idle == [pc |-> "idle"]

Init ==
    /\ view = [book |-> NoBook, page |-> 0, layout |-> "single",
               rotations |-> [p \in Pages |-> "none"],
               loaded |-> [p \in {} |-> ErrorPage], queued |-> {}, wanted |-> <<>>,
               composed |-> FALSE]
    /\ channel = <<>>
    /\ pump = FALSE
    /\ fast = NewQueue(QueueSize)
    /\ slow = NewQueue(QueueSize)
    /\ worker = [w \in Workers |-> Idle]
    /\ memory = NewPool
    /\ disk \in {{}, SlowBooks \X Pages}    \* an earlier session's cache
    /\ moves = 0

--------------------------------------------------------------------------------
(* The reader asks.                                                        *)

KeyOf(v, p, r) == [book |-> v.book, index |-> PageIndex(p), rotation |-> r]

Load(loaded, p, image) ==
    [x \in DOMAIN loaded \cup {p} |-> IF x = p THEN image ELSE loaded[x]]

\* One round of dispatch_wanted.  s is the view, the two queues and the pool.
DispatchOne(s, want) ==
    LET p == want[1]
        key == KeyOf(s.view, p, want[2])
        callback == [book |-> s.view.book, page |-> p, rotation |-> want[2]]
        mode == IF p < s.view.page THEN "AddToBottom" ELSE "AddToTop"
        asked == [s EXCEPT !.view.queued = @ \cup {want}]
    IN  IF p \in DOMAIN s.view.loaded
        THEN s
        ELSE IF InPool(s.memory, key)
        THEN [s EXCEPT !.view.loaded = Load(@, p, key), !.memory = Touch(@, key)]
        ELSE IF want \in s.view.queued
        THEN s
        ELSE IF Raw(key) \in disk    \* add_page_to_queue: needs_slow_path
        THEN [asked EXCEPT !.fast = AddItem(@, key, callback, mode)]
        ELSE [asked EXCEPT !.slow = AddItem(@, key, callback, mode)]

DispatchWanted(s) ==
    LET done == FoldLeft(DispatchOne, s, s.view.wanted)
        loaded == DOMAIN done.view.loaded
    IN  [done EXCEPT !.view.wanted = Chosen(@, (Pages \ loaded) \X Rotations)]

\* queue_for: the page itself, then the neighbours its layout shows or will.
Neighbours(v, p) ==
    CASE v.layout = "single" -> <<>>
      [] v.layout = "double" -> <<p + 1>>
      [] v.layout = "continuous" -> [i \in 1..Window |-> p + i] \o <<p - 1>>

QueueFor(s, p) ==
    LET near == <<p>> \o Neighbours(s.view, p)
        missing == Chosen(near, Pages \ DOMAIN s.view.loaded)
        kept == {n \in DOMAIN s.view.loaded : n - p \in (-Window)..Window}
    IN  DispatchWanted(
            [s EXCEPT !.view.wanted =
                          [i \in DOMAIN missing |->
                              <<missing[i], s.view.rotations[missing[i]]>>],
                      !.view.loaded = [n \in kept |-> @[n]]])

Here(v) == [view |-> v, fast |-> fast, slow |-> slow, memory |-> memory]

\* The strip of the continuous layout has no composition.
Recompose(v) ==
    [v EXCEPT !.composed = v.layout # "continuous" /\ v.page \in DOMAIN v.loaded]

\* queue_for(p) for the view v, and the pump when something has to be waited
\* for; "composes" says whether the handler composes the page when nothing has.
Ask(v, p, composes) ==
    LET s == QueueFor(Here(v), p)
        waits == s.view.wanted # <<>>
    IN  /\ view' = IF composes /\ ~waits THEN Recompose(s.view) ELSE s.view
        /\ pump' = (pump \/ waits)
        /\ fast' = s.fast
        /\ slow' = s.slow
        /\ memory' = s.memory
        /\ UNCHANGED <<channel, worker, disk>>

Move ==
    /\ moves < MaxMoves
    /\ moves' = moves + 1

\* request_and_go; open_with_sequence and goto_page end in it.
RequestAndGo(v, p) == Ask([v EXCEPT !.page = p, !.composed = FALSE], p, TRUE)

Open(b, p) ==
    /\ Move
    /\ RequestAndGo([view EXCEPT !.book = b, !.page = p,
                                 !.rotations = [n \in Pages |-> "none"],
                                 !.loaded = [n \in {} |-> ErrorPage],
                                 !.queued = {}, !.wanted = <<>>], p)

GoToPage(p) ==
    /\ Move
    /\ view.book # NoBook
    /\ ~(view.page = p /\ view.composed)
    /\ RequestAndGo(view, p)

\* display_part, the wheel and the draw of the strip: the logical page follows
\* the viewport.
Scroll(p) ==
    /\ Move
    /\ view.book # NoBook
    /\ view.layout = "continuous"
    /\ p # view.page
    /\ Ask([view EXCEPT !.page = p], p, FALSE)

SetPageLayout(layout) ==
    /\ Move
    /\ view.book # NoBook
    /\ layout # view.layout
    /\ Ask(Recompose([view EXCEPT !.layout = layout]), view.page, FALSE)

\* apply_page_rotation on the page shown.
RotatePage(r) ==
    LET p == view.page
        others == DOMAIN view.loaded \ {p}
    IN  /\ Move
        /\ view.book # NoBook
        /\ r # view.rotations[p]
        /\ Ask([view EXCEPT !.rotations[p] = r,
                            !.loaded = [n \in others |-> @[n]],
                            !.composed = FALSE], p, FALSE)
--------------------------------------------------------------------------------
(* The workers render.                                                     *)

\* The queue a worker serves becomes q.
QueueOf(w) == IF w \in FastWorkers THEN fast ELSE slow
SetQueue(w, q) ==
    /\ fast' = IF w \in FastWorkers THEN q ELSE fast
    /\ slow' = IF w \in FastWorkers THEN slow ELSE q

WorkerStarts(w) ==
    /\ worker[w].pc = "idle"
    /\ Waiting(QueueOf(w)) # {}
    /\ LET k == NextItem(QueueOf(w))
       IN  worker' = [worker EXCEPT ![w] =
                         [pc |-> "look", key |-> k, image |-> ErrorPage,
                          callback |-> QueueOf(w).entries[k].callback]]
    /\ SetQueue(w, Claim(QueueOf(w)))
    /\ UNCHANGED <<view, channel, pump, memory, disk, moves>>

\* render_page: the memory pool first.
WorkerLooks(w) ==
    LET k == worker[w].key
    IN  /\ worker[w].pc = "look"
        /\ worker' = [worker EXCEPT ![w] =
                         IF InPool(memory, k)
                         THEN [@ EXCEPT !.pc = "send", !.image = k]
                         ELSE [@ EXCEPT !.pc = "render"]]
        /\ memory' = Touch(memory, k)
        /\ UNCHANGED <<view, channel, pump, fast, slow, disk, moves>>

\* A mutant of WorkerRenders: a page that does not decode sends nothing.
RenderQuietly(w) ==
    LET k == worker[w].key
    IN  /\ worker[w].pc = "render"
        /\ worker' = [worker EXCEPT ![w].pc = IF Raw(k) \in Unreadable THEN "finish" ELSE "store",
                                   ![w].image = k]
        /\ disk' = IF k.book \in SlowBooks THEN disk \cup {Raw(k)} ELSE disk
        /\ UNCHANGED <<view, channel, pump, fast, slow, memory, moves>>

\* Open, read, decode, and keep the raw page of a slow provider.  The disk
\* tiers that render_page reads are keyed by a longer text than the one it
\* writes, so no read of them hits.
WorkerRenders(w) ==
    LET k == worker[w].key
    IN  /\ worker[w].pc = "render"
        /\ IF Raw(k) \in Unreadable
           THEN /\ worker' = [worker EXCEPT ![w].pc = "send", ![w].image = ErrorPage]
                /\ UNCHANGED disk
           ELSE /\ worker' = [worker EXCEPT ![w].pc = "store", ![w].image = k]
                /\ disk' = IF k.book \in SlowBooks THEN disk \cup {Raw(k)} ELSE disk
        /\ UNCHANGED <<view, channel, pump, fast, slow, memory, moves>>

WorkerStores(w) ==
    /\ worker[w].pc = "store"
    /\ memory' = LockItem(memory, worker[w].key, 1, MemoryItems, 0)
    /\ worker' = [worker EXCEPT ![w].pc = "send"]
    /\ UNCHANGED <<view, channel, pump, fast, slow, disk, moves>>

WorkerSends(w) ==
    /\ worker[w].pc = "send"
    /\ channel' = Append(channel, [book |-> worker[w].callback.book,
                                   page |-> worker[w].callback.page,
                                   rotation |-> worker[w].key.rotation,
                                   image |-> worker[w].image])
    /\ worker' = [worker EXCEPT ![w].pc = "finish"]
    /\ UNCHANGED <<view, pump, fast, slow, memory, disk, moves>>

WorkerFinishes(w) ==
    /\ worker[w].pc = "finish"
    /\ SetQueue(w, RemoveItem(QueueOf(w), worker[w].key))
    /\ worker' = [worker EXCEPT ![w] = Idle]
    /\ UNCHANGED <<view, channel, pump, memory, disk, moves>>

WorkerStep(w) ==
    \/ WorkerStarts(w)
    \/ WorkerLooks(w)
    \/ WorkerRenders(w)
    \/ WorkerStores(w)
    \/ WorkerSends(w)
    \/ WorkerFinishes(w)
--------------------------------------------------------------------------------
(* The pump collects.                                                      *)

\* Mutants of OnPageLoaded: without the check of the source, and with the page
\* still wanted when it did not decode.
LoadAnyBook(v, done) ==
    Recompose([v EXCEPT !.queued = @ \ {<<done.page, done.rotation>>},
                        !.loaded = Load(@, done.page, done.image),
                        !.wanted = Chosen(@, (Pages \ {done.page}) \X Rotations)])

KeepWantedOnError(v, done) ==
    IF done.book # v.book
    THEN v
    ELSE Recompose(
            [v EXCEPT !.queued = @ \ {<<done.page, done.rotation>>},
                      !.loaded = Load(@, done.page, done.image),
                      !.wanted = SelectSeq(@, LAMBDA w : w[1] # done.page \/ done.image = ErrorPage)])

\* on_page_loaded, with the recompose of finish_page_setup.
OnPageLoaded(v, done) ==
    IF done.book # v.book
    THEN v
    ELSE Recompose(
            [v EXCEPT !.queued = @ \ {<<done.page, done.rotation>>},
                      !.loaded = Load(@, done.page, done.image),
                      !.wanted = Chosen(@, (Pages \ {done.page}) \X Rotations)])

\* A tick drains the channel; the pump ends when it found it empty and nothing
\* is wanted.
PumpTicks ==
    /\ pump
    /\ IF channel # <<>>
       THEN /\ view' = FoldLeft(OnPageLoaded, view, channel)
            /\ channel' = <<>>
            /\ UNCHANGED pump
       ELSE /\ pump' = (view.wanted # <<>>)
            /\ UNCHANGED <<view, channel>>
    /\ UNCHANGED <<pool, moves>>

Reader ==
    \/ \E b \in Books, p \in Pages : Open(b, p)
    \/ \E p \in Pages : GoToPage(p) \/ Scroll(p)
    \/ \E layout \in Layouts : SetPageLayout(layout)
    \/ \E r \in Rotations : RotatePage(r)

Next ==
    \/ Reader
    \/ \E w \in Workers : WorkerStep(w)
    \/ PumpTicks

\* The threads of the queues run, and the main loop turns; nobody has to read.
Fairness ==
    /\ \A w \in Workers : WF_vars(WorkerStep(w))
    /\ WF_vars(PumpTicks)

Spec == Init /\ [][Next]_vars /\ Fairness
--------------------------------------------------------------------------------
(* Properties.                                                             *)

\* What will still answer the request for page p under rotation r: a waiting
\* item, a worker that has not sent yet, or a result in the channel.
Answers(p, r) ==
    LET asks(c) == c.book = view.book /\ c.page = p /\ c.rotation = r
    IN  \/ \E q \in {fast, slow} : \E k \in Waiting(q) : asks(q.entries[k].callback)
        \/ \E w \in Workers :
              worker[w].pc \notin {"idle", "finish"} /\ asks(worker[w].callback)
        \/ \E i \in DOMAIN channel : asks(channel[i])

\* Requests the reader waits for and nothing will answer.
Stranded == {r \in view.queued : ~Answers(r[1], r[2])}

Full(q) == Len(q.order) = q.size

\* The slot of a display position holds the page of the open book that belongs
\* there, or the error page if that page does not decode: results of another
\* book, and provider indexes taken for positions, never get in.
LoadedIsItsPage ==
    \A p \in DOMAIN view.loaded :
        /\ view.book # NoBook
        /\ IF <<view.book, PageIndex(p)>> \in Unreadable
           THEN view.loaded[p] = ErrorPage
           ELSE /\ view.loaded[p] # ErrorPage
                /\ view.loaded[p].book = view.book
                /\ view.loaded[p].index = PageIndex(p)

\* While a page is wanted a pump runs: no result is left in the channel with
\* nobody to collect it.
WantedIsPolled == view.wanted # <<>> => pump

\* A request is lost only to a queue at its size, which drops from the back,
\* or to a worker that has sent its result and not yet removed the item.
LostOnlyToTrimOrFinish ==
    [][\A r \in Stranded' \ Stranded :
          \/ \E q \in {fast', slow'} : Full(q) /\ KeyOf(view', r[1], r[2]) \notin Queued(q)
          \/ \E w \in Workers : /\ worker[w].pc = "finish"
                                /\ worker[w].key = KeyOf(view', r[1], r[2])]_vars

\* A wanted page is loaded, or no longer wanted, or its request was lost.
WantedIsServed ==
    \A p \in Pages, r \in Rotations :
        (<<p, r>> \in ToSet(view.wanted))
            ~> (<<p, r>> \notin ToSet(view.wanted) \/ <<p, r>> \in Stranded)

\* page_view.rs:637, "`None` while the needed pages are still decoding": a page
\* that is loaded, with nothing more to come, is composed.
BlankOnlyWhileDecoding ==
    view.page \in DOMAIN view.loaded /\ view.layout # "continuous" /\ view.wanted = <<>>
        => view.composed
================================================================================

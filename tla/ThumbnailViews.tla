---------------------------- MODULE ThumbnailViews -----------------------------
(***************************************************************************)
(* How covers and page thumbnails come onto the screen: the item views     *)
(* (browser/item_view.rs) and the pages panel (browser/pages_view.rs) ask  *)
(* the image pool, the workers of three thumbnail queues render, and the   *)
(* thumbnail memory pool and disk cache (cr-image/src/disk.rs) keep what   *)
(* was rendered.                                                           *)
(*                                                                         *)
(* Every comic has one page here, so that a thumbnail is named by its      *)
(* book: an item view has a slot for each book, the panel one slot for the *)
(* page of the comic it is bound to.  A handler of the main thread is one  *)
(* action.  A worker's steps are those another thread can see: the locks,  *)
(* and every call on the cache directory.                                  *)
(***************************************************************************)
EXTENDS ProcessingQueue, MemoryPool, FiniteSets

CONSTANTS
    Books,
    Damaged,          \* the books whose page gives no thumbnail in time
    ItemViews, Panels,
    FastWorkers, SlowWorkers, CoverWorkers,
    QueueSize,        \* of the fast and the slow thumbnail queue
    MemoryItems,      \* what the memory pool holds
    DiskItems,        \* what the budget of the disk cache holds
    PruneStride,
    MaxEvents         \* bound on what the user does, drawing apart

NoBook == "no book"
NoView == "no view"

ASSUME ConstantsAssumption ==
    /\ IsFiniteSet(Books) /\ NoBook \notin Books
    /\ Damaged \subseteq Books
    /\ ItemViews \cap Panels = {} /\ NoView \notin ItemViews \cup Panels
    /\ IsFiniteSet(FastWorkers \cup SlowWorkers \cup CoverWorkers)
    /\ FastWorkers \cap SlowWorkers = {}
    /\ (FastWorkers \cup SlowWorkers) \cap CoverWorkers = {}
    /\ {QueueSize, MemoryItems, DiskItems, PruneStride} \subseteq Nat \ {0}
    /\ MaxEvents \in Nat

VARIABLES
    view,                 \* ItemViewState and PagesState
    channel,              \* thumb_tx .. thumb_rx of each view
    onDemand,             \* Settings.generate_thumbnails_on_demand
    fast, slow, covers,   \* the thumbnail queues; covers is the unlimited one
    worker,
    memory,               \* ImagePool.thumbs
    disk,                 \* the directory of ImagePool.thumb_disk
    events

vars == <<view, channel, onDemand, fast, slow, covers, worker, memory, disk, events>>
queues == <<fast, slow, covers>>

Views == ItemViews \cup Panels
Workers == FastWorkers \cup SlowWorkers \cup CoverWorkers
NoImage == "no image"
NoInode == 0

\* Two writers never need more than one inode each beside the named ones.
Inodes == 1..(Cardinality(Books) + Cardinality(Workers) + 1)

\* The slot of a book in a view, and the books a view shows.
PageSlot == "page 1"
Slots == Books \cup {PageSlot}
SlotOf(v, b) == IF v \in Panels THEN PageSlot ELSE b
Shown(v) == IF v \in Panels THEN {view[v].bound} \ {NoBook} ELSE Books

Dones == [book : Books, image : Books \cup {NoImage}]
Unlimited == Cardinality(Books) + 1

TypeOK ==
    /\ \A v \in Views :
          /\ view[v].bound \in Books \cup {NoBook}
          /\ view[v].queued \subseteq Slots
          /\ view[v].pending \in Nat
          /\ DOMAIN view[v].thumbs \subseteq Slots
          /\ \A s \in DOMAIN view[v].thumbs : view[v].thumbs[s] \in Books \cup {NoImage}
          /\ view[v].active \in BOOLEAN
          /\ view[v].pumps \subseteq {"first", "later"}
          /\ channel[v] \in Seq(Dones)
    /\ onDemand \in BOOLEAN
    /\ \A q \in {fast, slow, covers} : IsQueue(q, Books, Views \cup {NoView}) /\ Consistent(q)
    /\ \A w \in Workers :
          worker[w].pc \in {"idle", "look", "open", "body", "produce", "fill", "rename",
                            "prune", "store", "send", "finish"}
    /\ IsPool(memory, Books)
    /\ WithinBudget(memory, MemoryItems, 0)
    /\ disk.tmp \in Inodes \cup {NoInode}
    /\ disk.file \in [Books -> Inodes \cup {NoInode}]
    /\ disk.data \in [Inodes -> Books \cup {NoBook}]
    /\ disk.age \in Seq(Books)
    /\ disk.writes \in 0..(PruneStride - 1)
    /\ events \in 0..MaxEvents

Idle == [pc |-> "idle", key |-> NoBook, for |-> NoView, image |-> NoImage, fd |-> NoInode]

Init ==
    /\ view = [v \in Views |->
                  [bound |-> NoBook, queued |-> {}, pending |-> 0,
                   thumbs |-> [s \in {} |-> NoImage], active |-> FALSE,
                   pumps |-> IF v \in Panels THEN {"first"} ELSE {}]]
    /\ channel = [v \in Views |-> <<>>]
    /\ onDemand = TRUE
    /\ fast = NewQueue(QueueSize)
    /\ slow = NewQueue(QueueSize)
    /\ covers = NewQueue(Unlimited)
    /\ worker = [w \in Workers |-> Idle]
    /\ memory = NewPool
    /\ disk = [tmp |-> NoInode, file |-> [b \in Books |-> NoInode],
               data |-> [i \in Inodes |-> NoBook], age |-> <<>>, writes |-> 0]
    /\ events = 0

--------------------------------------------------------------------------------
(* The views ask.                                                          *)

\* DiskCache::is_available reads the header: the entry is there and is b's.
IsAvailable(b) ==
    /\ disk.file[b] # NoInode
    /\ disk.data[disk.file[b]] = b

\* thumbnail_cached, which touches the memory pool it looks into.
ThumbnailCached(m, b) == InPool(m, b) \/ IsAvailable(b)

\* One book of queue_visible_thumbs, or one cell of the panel's draw_frame.
\* s is the view, the two queues and the memory pool.
QueueThumb(s, v, b) ==
    LET slot == SlotOf(v, b)
        gated == v \in ItemViews /\ ~onDemand
        asked == [s EXCEPT !.view.queued = @ \cup {slot}, !.view.pending = @ + 1,
                           !.memory = IF gated THEN Touch(@, b) ELSE @]
    IN  IF slot \in s.view.queued
        THEN s
        ELSE IF gated /\ ~ThumbnailCached(s.memory, b)
        THEN s
        ELSE IF IsAvailable(b)    \* add_thumb_to_queue
        THEN [asked EXCEPT !.fast = AddItem(@, b, v, "AddToTop")]
        ELSE [asked EXCEPT !.slow = AddItem(@, b, v, "AddToTop")]

\* draw_frame, and start_thumb_pump after it: an item view starts its pump
\* while loads are in flight, the panel when it queued one.
Draw(v) ==
    LET s0 == [view |-> view[v], fast |-> fast, slow |-> slow, memory |-> memory]
        s == FoldLeft(LAMBDA t, b : QueueThumb(t, v, b), s0, SetToSeq(Shown(v)))
        starts == IF v \in Panels THEN s.view.queued # view[v].queued
                                  ELSE s.view.pending > 0
    IN  /\ view' = [view EXCEPT ![v] =
                       IF starts /\ ~view[v].active
                       THEN [s.view EXCEPT !.active = TRUE, !.pumps = @ \cup {"later"}]
                       ELSE s.view]
        /\ fast' = s.fast
        /\ slow' = s.slow
        /\ memory' = s.memory
        /\ UNCHANGED <<channel, onDemand, covers, worker, disk, events>>

Event ==
    /\ events < MaxEvents
    /\ events' = events + 1

\* A mutant of SetBooks: the count goes with the caches, as in the panel.
SetBooksResets(v) ==
    /\ Event
    /\ v \in ItemViews
    /\ view' = [view EXCEPT ![v].thumbs = [s \in {} |-> NoImage], ![v].queued = {},
                            ![v].pending = 0]
    /\ UNCHANGED <<channel, onDemand, queues, worker, memory, disk>>

\* set_books: the caches of the view go; the loads in flight stay counted.
SetBooks(v) ==
    /\ Event
    /\ v \in ItemViews
    /\ view' = [view EXCEPT ![v].thumbs = [s \in {} |-> NoImage], ![v].queued = {}]
    /\ UNCHANGED <<channel, onDemand, queues, worker, memory, disk>>

\* set_book and clear_book of the panel.
Bind(v, b) ==
    /\ Event
    /\ v \in Panels
    /\ view' = [view EXCEPT ![v].bound = b, ![v].thumbs = [s \in {} |-> NoImage],
                            ![v].queued = {}, ![v].pending = 0]
    /\ UNCHANGED <<channel, onDemand, queues, worker, memory, disk>>

ToggleOnDemand ==
    /\ Event
    /\ onDemand' = ~onDemand
    /\ UNCHANGED <<view, channel, queues, worker, memory, disk>>

\* One round of the loop of cache_thumbnails, on a thread of its own.
WarmUp(b) ==
    /\ Event
    /\ covers' = AddItem(covers, b, NoView, "AddToTop")
    /\ UNCHANGED <<view, channel, onDemand, fast, slow, worker, memory, disk>>

\* Abort of the tasks dialog.
AbortCovers ==
    /\ Event
    /\ covers' = ClearQueue(covers)
    /\ UNCHANGED <<view, channel, onDemand, fast, slow, worker, memory, disk>>

--------------------------------------------------------------------------------
(* The workers render.                                                     *)

QueueOf(w) ==
    IF w \in FastWorkers THEN fast ELSE IF w \in SlowWorkers THEN slow ELSE covers

SetQueue(w, q) ==
    /\ fast' = IF w \in FastWorkers THEN q ELSE fast
    /\ slow' = IF w \in SlowWorkers THEN q ELSE slow
    /\ covers' = IF w \in CoverWorkers THEN q ELSE covers

At(w, pc) == worker[w].pc = pc
GoTo(w, pc) == worker' = [worker EXCEPT ![w].pc = pc]
Returns(w, image) == worker' = [worker EXCEPT ![w].pc = "send", ![w].image = image]
Own == <<view, channel, onDemand, events>>

WorkerStarts(w) ==
    /\ At(w, "idle")
    /\ Waiting(QueueOf(w)) # {}
    /\ LET b == NextItem(QueueOf(w))
       IN  worker' = [worker EXCEPT ![w] =
                         [Idle EXCEPT !.pc = "look", !.key = b,
                                      !.for = QueueOf(w).entries[b].callback]]
    /\ SetQueue(w, Claim(QueueOf(w)))
    /\ UNCHANGED <<Own, memory, disk>>

\* render_thumbnail: memory, then disk, then produce.
WorkerLooks(w) ==
    LET b == worker[w].key
    IN  /\ At(w, "look")
        /\ memory' = Touch(memory, b)
        /\ IF InPool(memory, b) THEN Returns(w, b) ELSE GoTo(w, "open")
        /\ UNCHANGED <<Own, queues, disk>>

\* DiskCache::read: open the file and read the header, which names the key.
WorkerOpens(w) ==
    LET b == worker[w].key
    IN  /\ At(w, "open")
        /\ IF IsAvailable(b)
           THEN worker' = [worker EXCEPT ![w].pc = "body", ![w].fd = disk.file[b]]
           ELSE GoTo(w, "produce")
        /\ UNCHANGED <<Own, queues, memory, disk>>

\* The body comes from what the opened file holds by now; a cut file is a miss.
WorkerReadsBody(w) ==
    LET found == disk.data[worker[w].fd]
    IN  /\ At(w, "body")
        /\ worker' = [worker EXCEPT ![w].pc = IF found = NoBook THEN "produce" ELSE "send",
                                    ![w].image = IF found = NoBook THEN NoImage ELSE found,
                                    ![w].fd = NoInode]
        /\ UNCHANGED <<Own, queues, memory, disk>>

InUse == {disk.file[b] : b \in Books} \cup {disk.tmp} \cup {worker[w].fd : w \in Workers}
FreeInode == CHOOSE i \in Inodes : i \notin InUse

\* A mutant of WorkerProduces: a cover that does not come sends nothing.
ProduceQuietly(w) ==
    LET b == worker[w].key
        i == IF disk.tmp = NoInode THEN FreeInode ELSE disk.tmp
    IN  /\ At(w, "produce")
        /\ IF b \in Damaged
           THEN GoTo(w, "finish") /\ UNCHANGED disk
           ELSE /\ disk' = [disk EXCEPT !.tmp = i, !.data[i] = NoBook]
                /\ worker' = [worker EXCEPT ![w].pc = "fill", ![w].image = b, ![w].fd = i]
        /\ UNCHANGED <<Own, queues, memory>>

\* bounded_produce, with its deadline, which no other thread sees; then the
\* first call of DiskCache::write.  Every thread of the process uses one
\* temporary name: opening it cuts the file another writer has open.
WorkerProduces(w) ==
    LET b == worker[w].key
        i == IF disk.tmp = NoInode THEN FreeInode ELSE disk.tmp
    IN  /\ At(w, "produce")
        /\ IF b \in Damaged
           THEN Returns(w, NoImage) /\ UNCHANGED disk
           ELSE /\ disk' = [disk EXCEPT !.tmp = i, !.data[i] = NoBook]
                /\ worker' = [worker EXCEPT ![w].pc = "fill", ![w].image = b, ![w].fd = i]
        /\ UNCHANGED <<Own, queues, memory>>

WorkerFills(w) ==
    /\ At(w, "fill")
    /\ disk' = [disk EXCEPT !.data[worker[w].fd] = worker[w].key]
    /\ worker' = [worker EXCEPT ![w].pc = "rename", ![w].fd = NoInode]
    /\ UNCHANGED <<Own, queues, memory>>

\* The rename fails when another writer has renamed the name away.
WorkerRenames(w) ==
    LET b == worker[w].key
        prunes == disk.writes = 0
    IN  /\ At(w, "rename")
        /\ IF disk.tmp = NoInode
           THEN GoTo(w, "store") /\ UNCHANGED disk
           ELSE /\ disk' = [disk EXCEPT !.file[b] = disk.tmp, !.tmp = NoInode,
                                        !.age = Append(SelectSeq(@, LAMBDA x : x # b), b),
                                        !.writes = (@ + 1) % PruneStride]
                /\ GoTo(w, IF prunes THEN "prune" ELSE "store")
        /\ UNCHANGED <<Own, queues, memory>>

\* prune_with: the oldest go until the rest is within the budget.
WorkerPrunes(w) ==
    LET n == Len(disk.age) - DiskItems
        dropped == {disk.age[i] : i \in 1..n}
    IN  /\ At(w, "prune")
        /\ disk' = [disk EXCEPT !.file = [b \in Books |-> IF b \in dropped THEN NoInode ELSE @[b]],
                                !.age = SelectSeq(@, LAMBDA b : b \notin dropped)]
        /\ GoTo(w, "store")
        /\ UNCHANGED <<Own, queues, memory>>

WorkerStores(w) ==
    /\ At(w, "store")
    /\ memory' = LockItem(memory, worker[w].key, 1, MemoryItems, 0)
    /\ GoTo(w, "send")
    /\ UNCHANGED <<Own, queues, disk>>

WorkerSends(w) ==
    LET v == worker[w].for
    IN  /\ At(w, "send")
        /\ channel' = IF v = NoView
                      THEN channel
                      ELSE [channel EXCEPT ![v] =
                               Append(@, [book |-> worker[w].key, image |-> worker[w].image])]
        /\ GoTo(w, "finish")
        /\ UNCHANGED <<view, onDemand, events, queues, memory, disk>>

WorkerFinishes(w) ==
    /\ At(w, "finish")
    /\ SetQueue(w, RemoveItem(QueueOf(w), worker[w].key))
    /\ worker' = [worker EXCEPT ![w] = Idle]
    /\ UNCHANGED <<Own, memory, disk>>

WorkerStep(w) ==
    \/ WorkerStarts(w)   \/ WorkerLooks(w)   \/ WorkerOpens(w)  \/ WorkerReadsBody(w)
    \/ WorkerProduces(w) \/ WorkerFills(w)   \/ WorkerRenames(w) \/ WorkerPrunes(w)
    \/ WorkerStores(w)   \/ WorkerSends(w)   \/ WorkerFinishes(w)
--------------------------------------------------------------------------------
(* The pumps collect.                                                      *)

\* One result.  An item view keeps a failure too; only the panel's first pump,
\* the one its constructor starts, looks whose page it is.
Collect(v, pump, s, done) ==
    LET slot == SlotOf(v, done.book)
        takes == IF v \in ItemViews
                 THEN TRUE
                 ELSE done.image # NoImage /\ (pump = "first" => done.book = s.bound)
    IN  [s EXCEPT !.pending = IF @ = 0 THEN 0 ELSE @ - 1,
                  !.thumbs = IF takes
                             THEN [x \in DOMAIN @ \cup {slot} |->
                                      IF x = slot THEN done.image ELSE @[x]]
                             ELSE @]

\* A mutant of PumpTicks: an empty channel ends the pump.
PumpStopsIdle(v, pump) ==
    /\ pump \in view[v].pumps
    /\ view' = [view EXCEPT ![v] =
                   [FoldLeft(LAMBDA s, d : Collect(v, pump, s, d), @, channel[v]) EXCEPT
                       !.active = channel[v] # <<>>,
                       !.pumps = IF channel[v] # <<>> THEN @ ELSE @ \ {pump}]]
    /\ channel' = [channel EXCEPT ![v] = <<>>]
    /\ UNCHANGED <<onDemand, queues, worker, memory, disk, events>>

\* A tick drains the channel; a pump that found nothing and waits for nothing
\* ends.
PumpTicks(v, pump) ==
    LET got == channel[v] # <<>>
        after == FoldLeft(LAMBDA s, d : Collect(v, pump, s, d), view[v], channel[v])
        more == after.pending > 0
    IN  /\ pump \in view[v].pumps
        /\ view' = [view EXCEPT ![v] =
                       [after EXCEPT !.active = @ /\ more,
                                     !.pumps = IF got \/ more THEN @ ELSE @ \ {pump}]]
        /\ channel' = [channel EXCEPT ![v] = <<>>]
        /\ UNCHANGED <<onDemand, queues, worker, memory, disk, events>>

User ==
    \/ \E v \in ItemViews : SetBooks(v)
    \/ \E v \in Panels, b \in Books \cup {NoBook} : Bind(v, b)
    \/ ToggleOnDemand
    \/ \E b \in Books : WarmUp(b)
    \/ AbortCovers

Next ==
    \/ User
    \/ \E v \in Views : Draw(v) \/ \E pump \in {"first", "later"} : PumpTicks(v, pump)
    \/ \E w \in Workers : WorkerStep(w)

\* The threads run and timers fire; nobody has to scroll or draw.
Fairness ==
    /\ \A w \in Workers : WF_vars(WorkerStep(w))
    /\ \A v \in ItemViews : WF_vars(PumpTicks(v, "later"))

Spec == Init /\ [][Next]_vars /\ Fairness
--------------------------------------------------------------------------------
(* Properties.                                                             *)

\* What will still be counted off in view v.
InFlight(v) ==
    Len(channel[v])
    + Cardinality({w \in Workers : worker[w].for = v /\ ~At(w, "finish")})
    + Cardinality({b \in Waiting(fast) : fast.entries[b].callback = v})
    + Cardinality({b \in Waiting(slow) : slow.entries[b].callback = v})

\* An item view counts at least the answers that are on their way, so that its
\* count never runs out while one is, and a pump runs while one lies in the
\* channel: whatever books the view has been given since.
PendingCoversAnswers ==
    \A v \in ItemViews :
        /\ view[v].pending >= InFlight(v)
        /\ channel[v] # <<>> => view[v].pumps # {}

\* Will a cover asked for be answered?
Answered(v, b) ==
    \/ \E q \in {fast, slow} : b \in Waiting(q) /\ q.entries[b].callback = v
    \/ \E w \in Workers : worker[w].key = b /\ worker[w].for = v /\ ~At(w, "finish")
    \/ \E i \in DOMAIN channel[v] : channel[v][i].book = b

\* A cover an item view waits for comes, or shows as failed, or nothing will
\* answer: another view's request for it was there first, or the queue was at
\* its size.
CoverIsServed ==
    \A v \in ItemViews, b \in Books :
        (b \in view[v].queued \ DOMAIN view[v].thumbs)
            ~> (b \notin view[v].queued \ DOMAIN view[v].thumbs \/ ~Answered(v, b))

Unanswered == {vb \in ItemViews \X Books :
                  /\ vb[2] \in view[vb[1]].queued \ DOMAIN view[vb[1]].thumbs
                  /\ ~Answered(vb[1], vb[2])}

\* What a step leaves without an answer was lost in a queue: the request came
\* when another view's was there and dropped its callback, or a full queue
\* trimmed it, maybe to take it anew for another view, or an older run of the
\* same cover finished and took the entry with it.
LosesInQueue ==
    \A vb \in Unanswered' \ Unanswered :
        LET v == vb[1]
            b == vb[2]
            asks == b \notin view[v].queued
        IN  \/ asks /\ b \in Queued(fast) \cup Queued(slow)
            \/ \E i \in {1, 2} : /\ asks \/ queues'[i] # queues[i]
                                 /\ Len(queues'[i].order) = QueueSize
                                 /\ b \in Queued(queues'[i])
                                       => queues'[i].entries[b].callback # v
            \/ \E w \in Workers : At(w, "finish") /\ At(w, "idle")' /\ worker[w].key = b

\* A cover an item view waits for is lost only in a queue.
CoverLostOnlyInQueue == [][LosesInQueue]_vars

\* pages_view.rs:379: a load queued for the previous comic must not land in the
\* current map.
StaleCompletionsDropped ==
    \A v \in Panels : \A s \in DOMAIN view[v].thumbs : view[v].thumbs[s] = view[v].bound

\* disk.rs:125, "atomic": what a worker hands out under a key is that key's.
ReadsItsOwn == \A w \in Workers : worker[w].image \in {worker[w].key, NoImage}
================================================================================

---------------------------- MODULE ProcessingQueue ----------------------------
(***************************************************************************)
(* The work queue of cr-engine/src/queue.rs as operators on its state, the *)
(* record that State<K> is behind its mutex.  Every operator is one        *)
(* critical section; the modules that own a queue say who calls it.        *)
(*                                                                         *)
(* An item is named by its key.  A callback is whatever the caller wants   *)
(* back; a queue never looks inside one.  "disposed" is left out: nothing  *)
(* in the source sets it; so are the callback keys: every caller outside   *)
(* the tests passes None, which registers nothing on an item that is       *)
(* there, so that an item has one callback; and stop, which only tests and *)
(* the exit of the program call.                                           *)
(***************************************************************************)
EXTENDS Integers, Sequences, SequencesExt

Modes == {"AddToBottom", "AddToTop"}

\* Entry<K>: the callback of an item, and whether a worker has taken it.
IsQueue(q, Keys, Callbacks) ==
    /\ DOMAIN q = {"order", "entries", "size"}
    /\ q.order \in Seq(Keys)
    /\ DOMAIN q.entries \subseteq Keys
    /\ \A k \in DOMAIN q.entries :
          q.entries[k] \in [callback : Callbacks, running : BOOLEAN]
    /\ q.size \in Nat

NewQueue(size) ==
    [order |-> <<>>, entries |-> [k \in {} |-> {}], size |-> size]

Queued(q) == DOMAIN q.entries
Waiting(q) == {k \in DOMAIN q.entries : ~q.entries[k].running}

\* State::remove_item, and State::finish, which is the same by its effect:
\* both go by the key, whoever runs the item or has queued it again since.
RemoveItem(q, k) ==
    [q EXCEPT !.order = RemoveFirst(@, k),
              !.entries = [x \in DOMAIN @ \ {k} |-> @[x]]]

\* A mutant of TrimTo: the table keeps what the order dropped.
TrimOrderOnly(q, n) == [q EXCEPT !.order = IF Len(@) > n THEN SubSeq(@, 1, n) ELSE @]

\* State::trim drops from the back, what runs included.
TrimTo(q, n) ==
    LET kept == IF Len(q.order) > n THEN SubSeq(q.order, 1, n) ELSE q.order
    IN  [q EXCEPT !.order = kept,
                  !.entries = [x \in DOMAIN @ \cap ToSet(kept) |-> @[x]]]

\* set_size, and so trim and clear, which call it: the size stays.
SetSize(q, n) == TrimTo([q EXCEPT !.size = n], n)
ClearQueue(q) == SetSize(q, 0)

\* add_item_with_key without a callback key.  An item that is there keeps the
\* callback it has, and the new one is lost; AddToTop moves it to the front.
AddItem(q, k, callback, mode) ==
    IF k \in Queued(q)
    THEN IF mode = "AddToTop"
         THEN [q EXCEPT !.order = <<k>> \o RemoveFirst(@, k)]
         ELSE q
    ELSE TrimTo([q EXCEPT !.order = IF mode = "AddToTop" THEN <<k>> \o @ ELSE Append(@, k),
                          !.entries = [x \in DOMAIN @ \cup {k} |->
                                          IF x = k
                                          THEN [callback |-> callback, running |-> FALSE]
                                          ELSE @[x]]],
                q.size)

\* claim_next takes the first waiting item.
NextItem(q) ==
    q.order[CHOOSE i \in DOMAIN q.order :
                /\ q.order[i] \in Waiting(q)
                /\ \A j \in 1..(i - 1) : q.order[j] \notin Waiting(q)]

Claim(q) == [q EXCEPT !.entries[NextItem(q)].running = TRUE]

\* The order and the table name the same items, each once.
Consistent(q) ==
    /\ ToSet(q.order) = Queued(q)
    /\ Len(q.order) <= q.size
    /\ \A i, j \in DOMAIN q.order : q.order[i] = q.order[j] => i = j
================================================================================

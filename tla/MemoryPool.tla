------------------------------ MODULE MemoryPool -------------------------------
(***************************************************************************)
(* The memory cache of cr-image/src/memory.rs as operators on its state.   *)
(* The clock and the last use of each entry are kept as an order: the      *)
(* least recently used key first.  Keys stand for their 64-bit hashes.     *)
(***************************************************************************)
EXTENDS Integers, Sequences, SequencesExt

IsPool(m, Keys) ==
    /\ DOMAIN m = {"recency", "sizes", "bytes"}
    /\ m.recency \in Seq(Keys)
    /\ DOMAIN m.sizes \subseteq Keys
    /\ \A k \in DOMAIN m.sizes : m.sizes[k] \in Nat
    /\ m.bytes \in Nat

NewPool == [recency |-> <<>>, sizes |-> [k \in {} |-> 0], bytes |-> 0]

InPool(m, k) == k \in DOMAIN m.sizes

\* get: a hit moves the key to the end of the order.
Touch(m, k) ==
    IF InPool(m, k)
    THEN [m EXCEPT !.recency = Append(RemoveFirst(@, k), k)]
    ELSE m

\* MemoryPool::remove
RemoveKey(m, k) ==
    [recency |-> RemoveFirst(m.recency, k),
     sizes |-> [x \in DOMAIN m.sizes \ {k} |-> m.sizes[x]],
     bytes |-> m.bytes - m.sizes[k]]

\* The eviction loop of insert, with its condition before each round.
TooFull(m, size, maxItems, maxBytes) ==
    \/ Len(m.recency) >= maxItems
    \/ maxBytes > 0 /\ m.bytes + size > maxBytes /\ m.recency # <<>>

EvictOne(m, size, maxItems, maxBytes) ==
    IF m.recency # <<>> /\ TooFull(m, size, maxItems, maxBytes)
    THEN RemoveKey(m, Head(m.recency))
    ELSE m

Evict(m, size, maxItems, maxBytes) ==
    FoldLeft(LAMBDA p, k : EvictOne(p, size, maxItems, maxBytes), m, m.recency)

\* lock_item: what is there is kept, what is new evicts and goes in.
LockItem(m, k, size, maxItems, maxBytes) ==
    IF InPool(m, k)
    THEN Touch(m, k)
    ELSE LET room == Evict(m, size, maxItems, maxBytes)
         IN  [recency |-> Append(room.recency, k),
              sizes |-> [x \in DOMAIN room.sizes \cup {k} |->
                            IF x = k THEN size ELSE room.sizes[x]],
              bytes |-> room.bytes + size]

SizeOf(m) == FoldLeft(LAMBDA n, k : n + m.sizes[k], 0, m.recency)

\* The budgets hold, but for one entry that alone exceeds the byte budget, and
\* the byte count is that of the entries.
WithinBudget(m, maxItems, maxBytes) ==
    /\ m.bytes = SizeOf(m)
    /\ Len(m.recency) <= maxItems
    /\ maxBytes = 0 \/ m.bytes <= maxBytes \/ Len(m.recency) = 1
================================================================================

--------------------------- MODULE ReaderPagesProofs ---------------------------
(***************************************************************************)
(* What a page that comes onto the screen is.                              *)
(*                                                                         *)
(* The invariant follows a page from the request to the view: a queue's    *)
(* item has a callback for the page of its key, a worker's image is that   *)
(* page or the error page, so is what waits in the channel, and the memory *)
(* pool holds no page that does not decode.  The queues come first, then   *)
(* the memory pool with the two folds of its bookkeeping, the request      *)
(* with the fold over the pages that are wanted, the pump with the fold    *)
(* over the results that wait, and the steps.  With the invariant, what    *)
(* becomes of a request is followed through the same folds.                *)
(*                                                                         *)
(* The last part is about the thumbnails, whose views use the same queues  *)
(* with other items (ThumbnailViews, as an instance): what is on its way   *)
(* to a view is counted, and where a cover that is waited for is lost.     *)
(***************************************************************************)
EXTENDS ReaderPages, FoldTheorems, FiniteSetTheorems

\* No element comes twice.
Once(s) == \A i, j \in DOMAIN s : s[i] = s[j] => i = j

\* Sequences without their first k.
LEMMA RemoveFirstFacts ==
    ASSUME NEW C, NEW s \in Seq(C), Once(s), NEW k
    PROVE  /\ RemoveFirst(s, k) \in Seq(C) /\ Once(RemoveFirst(s, k))
           /\ ToSet(RemoveFirst(s, k)) = ToSet(s) \ {k}
           /\ Len(RemoveFirst(s, k)) = IF k \in ToSet(s) THEN Len(s) - 1 ELSE Len(s)
<1> DEFINE I == {i \in 1..Len(s) : s[i] = k}
           m == Min(I)
           t == RemoveAt(s, m)
<1>1. RemoveFirst(s, k) = IF \E i \in 1..Len(s) : s[i] = k
                          THEN RemoveAt(s, IF I # {} THEN Min(I) ELSE 0) ELSE s
  BY Zenon DEF RemoveFirst, SelectInSeq
<1>2. DOMAIN s = 1..Len(s) /\ Len(s) \in Nat /\ \A i \in 1..Len(s) : s[i] \in C
  OBVIOUS
<1>3. CASE I = {}
  <2>1. RemoveFirst(s, k) = s
    BY <1>1, <1>3
  <2>2. k \notin ToSet(s)
    BY <1>2, <1>3 DEF ToSet
  <2> QED BY <2>1, <2>2
<1>4. CASE I # {}
  <2>1. RemoveFirst(s, k) = t
    BY <1>1, <1>4
  <2>2. m \in I
    <3>1. I \subseteq Nat
      OBVIOUS
    <3> HIDE DEF I
    <3> QED BY <1>4, <3>1, MinIsOneOfThem
  <2>3. m \in 1..Len(s) /\ s[m] = k
    BY <2>2
  <2> HIDE DEF m, I
  <2> DEFINE a == SubSeq(s, 1, m - 1)
             b == SubSeq(s, m + 1, Len(s))
  <2>4. /\ a \in Seq(C) /\ Len(a) = m - 1 /\ \A i \in 1..(m - 1) : a[i] = s[i]
    BY <1>2, <2>3
  <2>5. /\ b \in Seq(C) /\ Len(b) = Len(s) - m
        /\ \A i \in 1..(Len(s) - m) : b[i] = s[m + i]
    <3>1. m \in Nat /\ Len(s) \in Nat /\ m + 1 \in 1..(Len(s) + 1)
      BY <1>2, <2>3
    <3>2. b \in Seq(C) /\ Len(b) = IF m + 1 <= Len(s) THEN Len(s) - (m + 1) + 1 ELSE 0
      BY <1>2, <3>1
    <3>3. Len(b) = Len(s) - m
      BY <2>3, <3>1, <3>2
    <3>4. ASSUME NEW i \in 1..(Len(s) - m) PROVE b[i] = s[m + i]
      <4> DEFINE x == m + 1
      <4>1. x \in Nat /\ Len(b) = Len(s) - x + 1 /\ i \in 1..Len(b)
        BY <3>1, <3>3
      <4>2. b = SubSeq(s, x, Len(s))
        OBVIOUS
      <4> HIDE DEF b, x
      <4>3. b[i] = s[x + i - 1]
        BY <1>2, <4>1, <4>2
      <4>4. x + i - 1 = m + i
        BY <3>1 DEF x
      <4> QED BY <4>3, <4>4
    <3> QED BY <3>2, <3>3, <3>4
  <2>6. t = a \o b
    BY Zenon DEF RemoveAt
  <2> HIDE DEF a, b, t
  <2>7. t \in Seq(C) /\ Len(t) = Len(s) - 1 /\ DOMAIN t = 1..(Len(s) - 1)
    <3>1. t \in Seq(C) /\ Len(t) = Len(a) + Len(b) /\ DOMAIN t = 1..Len(t)
      BY <2>4, <2>5, <2>6
    <3>2. Len(a) + Len(b) = Len(s) - 1
      BY <1>2, <2>3, <2>4, <2>5
    <3> QED BY <3>1, <3>2
  <2>8. \A i \in 1..(m - 1) : t[i] = s[i]
    BY <1>2, <2>3, <2>4, <2>5, <2>6
  <2>9. \A i \in m..(Len(s) - 1) : t[i] = s[i + 1]
    <3> SUFFICES ASSUME NEW i \in m..(Len(s) - 1) PROVE t[i] = s[i + 1]
      OBVIOUS
    <3>1. /\ i - (m - 1) \in 1..(Len(s) - m) /\ m + (i - (m - 1)) = i + 1
          /\ i \in 1..(Len(a) + Len(b)) /\ ~(i <= Len(a))
      BY <1>2, <2>3, <2>4, <2>5
    <3>2. t[i] = b[i - Len(a)]
      BY <2>4, <2>5, <2>6, <3>1
    <3> QED BY <2>4, <2>5, <3>1, <3>2
  <2>10. ASSUME NEW i \in DOMAIN t
         PROVE  \E x \in DOMAIN s : x # m /\ t[i] = s[x] /\ x = IF i < m THEN i ELSE i + 1
    <3>1. CASE i < m
      BY <1>2, <2>3, <2>7, <2>8, <3>1
    <3>2. CASE ~(i < m)
      BY <1>2, <2>3, <2>7, <2>9, <3>2
    <3> QED BY <3>1, <3>2
  <2>11. ASSUME NEW x \in DOMAIN s, x # m PROVE \E i \in DOMAIN t : t[i] = s[x]
    <3>1. CASE x < m
      BY <1>2, <2>3, <2>7, <2>8, <3>1
    <3>2. CASE ~(x < m)
      <4>1. x - 1 \in m..(Len(s) - 1) /\ x - 1 \in DOMAIN t /\ (x - 1) + 1 = x
        BY <1>2, <2>3, <2>7, <2>11, <3>2
      <4> QED BY <2>9, <4>1
    <3> QED BY <3>1, <3>2
  <2>12. ToSet(t) = ToSet(s) \ {k}
    <3>1. \A i \in DOMAIN t : t[i] \in ToSet(s) \ {k}
      <4> SUFFICES ASSUME NEW i \in DOMAIN t PROVE t[i] \in ToSet(s) \ {k}
        OBVIOUS
      <4>1. PICK x \in DOMAIN s : x # m /\ t[i] = s[x]
        BY <2>10
      <4>2. s[x] # k
        BY <1>2, <2>3, <4>1 DEF Once
      <4> QED BY <4>1, <4>2 DEF ToSet
    <3>2. ASSUME NEW y \in ToSet(s) \ {k} PROVE y \in ToSet(t)
      <4>1. PICK x \in DOMAIN s : y = s[x]
        BY <3>2 DEF ToSet
      <4>2. x # m
        BY <2>3, <3>2, <4>1
      <4> QED BY <2>11, <4>1, <4>2 DEF ToSet
    <3> QED BY <3>1, <3>2 DEF ToSet
  <2>13. Once(t)
    <3> SUFFICES ASSUME NEW i \in DOMAIN t, NEW j \in DOMAIN t, t[i] = t[j] PROVE i = j
      BY DEF Once
    <3>1. PICK x \in DOMAIN s : t[i] = s[x] /\ x = IF i < m THEN i ELSE i + 1
      BY <2>10
    <3>2. PICK y \in DOMAIN s : t[j] = s[y] /\ y = IF j < m THEN j ELSE j + 1
      BY <2>10
    <3>3. x = y
      BY <3>1, <3>2 DEF Once
    <3> QED BY <2>3, <2>7, <3>1, <3>2, <3>3
  <2>14. k \in ToSet(s)
    BY <1>2, <2>3 DEF ToSet
  <2> QED BY <2>1, <2>7, <2>12, <2>13, <2>14
<1> QED BY <1>3, <1>4

\* A callback that was captured for the page of the key k.
Fits(c, k) == c.book = k.book /\ PageIndex(c.page) = k.index /\ c.rotation = k.rotation

\* The tables of a queue, and the queues.
Tables == UNION {[S -> [callback : Callbacks, running : BOOLEAN]] : S \in SUBSET Keys}
Queues == [order : Seq(Keys), entries : Tables, size : {QueueSize}]

\* The table of a queue is a set of entries for each of its keys.
LEMMA TablesAre ==
    ASSUME NEW f
    PROVE  f \in Tables <=> /\ f = [x \in DOMAIN f |-> f[x]]
                            /\ \A k \in DOMAIN f : /\ f[k] \in [callback : Callbacks, running : BOOLEAN]
                                                   /\ k \in Keys
  BY DEF Tables

\* A queue whose callbacks are for the page of their item's key.
QueueInv(q) ==
    /\ q \in Queues
    /\ IsQueue(q, Keys, Callbacks) /\ Consistent(q) /\ q.size = QueueSize
    /\ \A k \in Queued(q) : Fits(q.entries[k].callback, k)

\* The order of a queue holds each item of its table once.
LEMMA QueueOnce ==
    ASSUME NEW q
    PROVE  Consistent(q) <=> ToSet(q.order) = Queued(q) /\ Len(q.order) <= q.size /\ Once(q.order)
  BY DEF Consistent, Once

\* An item that is removed.
LEMMA RemoveItemKeeps ==
    ASSUME NEW q, QueueInv(q), NEW k
    PROVE  QueueInv(RemoveItem(q, k))
<1> DEFINE order == RemoveFirst(q.order, k)
           entries == [x \in DOMAIN q.entries \ {k} |-> q.entries[x]]
           r == RemoveItem(q, k)
<1>1. /\ DOMAIN q = {"order", "entries", "size"} /\ q.order \in Seq(Keys) /\ Once(q.order)
      /\ ToSet(q.order) = Queued(q) /\ Len(q.order) <= q.size /\ q.size \in Nat
      /\ q.size = QueueSize
  BY QueueOnce DEF QueueInv, IsQueue
<1>2. /\ order \in Seq(Keys) /\ Once(order) /\ ToSet(order) = ToSet(q.order) \ {k}
      /\ Len(order) <= q.size
  BY <1>1, RemoveFirstFacts
<1>3. /\ DOMAIN r = {"order", "entries", "size"} /\ r.size = q.size
      /\ r.order = order /\ r.entries = entries
      /\ r = [q EXCEPT !.order = order, !.entries = entries]
  BY <1>1 DEF RemoveItem
<1>6. entries \in Tables
  <2>1. q.entries \in Tables
    BY DEF QueueInv, Queues
  <2> QED BY <2>1, TablesAre
<1> HIDE DEF r, order
<1>7. r \in Queues
  <2> HIDE DEF entries
  <2> QED BY <1>2, <1>3, <1>6 DEF QueueInv, Queues
<1>4. IsQueue(r, Keys, Callbacks) /\ \A x \in Queued(r) : Fits(r.entries[x].callback, x)
  BY <1>1, <1>2, <1>3 DEF QueueInv, IsQueue, Queued
<1>5. Consistent(r)
  BY <1>1, <1>2, <1>3, QueueOnce DEF Queued
<1> QED BY <1>1, <1>3, <1>4, <1>5, <1>7 DEF QueueInv, r

\* One put first; one put last; and what a trim leaves of a sequence.
LEMMA PrependedFacts ==
    ASSUME NEW C, NEW s \in Seq(C), Once(s), NEW k \in C, k \notin ToSet(s)
    PROVE  /\ <<k>> \o s \in Seq(C) /\ Once(<<k>> \o s)
           /\ ToSet(<<k>> \o s) = ToSet(s) \cup {k} /\ Len(<<k>> \o s) = Len(s) + 1
<1> DEFINE t == <<k>> \o s
<1>1. /\ t \in Seq(C) /\ Len(t) = Len(s) + 1 /\ Len(s) \in Nat /\ t[1] = k
      /\ DOMAIN s = 1..Len(s) /\ DOMAIN t = 1..(Len(s) + 1)
      /\ \A i \in 1..Len(s) : t[i + 1] = s[i]
  OBVIOUS
<1> HIDE DEF t
<1>2. ASSUME NEW i \in DOMAIN t PROVE (i = 1 /\ t[i] = k) \/ (i - 1 \in DOMAIN s /\ t[i] = s[i - 1])
  <2>1. CASE i = 1
    BY <1>1, <2>1
  <2>2. CASE i # 1
    <3>1. i - 1 \in 1..Len(s) /\ (i - 1) + 1 = i
      BY <1>1, <2>2
    <3> QED BY <1>1, <3>1
  <2> QED BY <2>1, <2>2
<1>3. ASSUME NEW i \in DOMAIN s PROVE i + 1 \in DOMAIN t /\ t[i + 1] = s[i]
  BY <1>1
<1>4. 1 \in DOMAIN t
  BY <1>1
<1>5. ToSet(t) = ToSet(s) \cup {k}
  <2>1. \A i \in DOMAIN t : t[i] \in ToSet(s) \cup {k}
    BY <1>2 DEF ToSet
  <2>2. \A i \in DOMAIN s : s[i] \in ToSet(t)
    BY <1>3 DEF ToSet
  <2>3. k \in ToSet(t)
    BY <1>1, <1>4 DEF ToSet
  <2> QED BY <2>1, <2>2, <2>3 DEF ToSet
<1>6. Once(t)
  <2> SUFFICES ASSUME NEW i \in DOMAIN t, NEW j \in DOMAIN t, t[i] = t[j] PROVE i = j
    BY DEF Once
  <2>1. \A x \in DOMAIN s : s[x] # k
    BY DEF ToSet
  <2>2. i \in Int /\ j \in Int
    BY <1>1
  <2>3. CASE i = 1 \/ j = 1
    BY <1>2, <2>1, <2>3
  <2>4. CASE i # 1 /\ j # 1
    <3>1. i - 1 = j - 1
      BY <1>2, <2>4 DEF Once
    <3> QED BY <2>2, <3>1
  <2> QED BY <2>3, <2>4
<1> QED BY <1>1, <1>5, <1>6 DEF t

\* One put last.
LEMMA AppendedFacts ==
    ASSUME NEW C, NEW s \in Seq(C), Once(s), NEW k \in C, k \notin ToSet(s)
    PROVE  /\ Append(s, k) \in Seq(C) /\ Once(Append(s, k))
           /\ ToSet(Append(s, k)) = ToSet(s) \cup {k} /\ Len(Append(s, k)) = Len(s) + 1
<1> DEFINE t == Append(s, k)
<1>1. /\ t \in Seq(C) /\ Len(t) = Len(s) + 1 /\ Len(s) \in Nat
      /\ DOMAIN s = 1..Len(s) /\ DOMAIN t = 1..(Len(s) + 1)
      /\ t[Len(s) + 1] = k /\ \A i \in DOMAIN s : t[i] = s[i]
  OBVIOUS
<1> HIDE DEF t
<1>2. /\ \A i \in DOMAIN t : i \in DOMAIN s \/ i = Len(s) + 1
      /\ Len(s) + 1 \in DOMAIN t /\ \A i \in DOMAIN s : i \in DOMAIN t
  BY <1>1
<1>3. ToSet(t) = ToSet(s) \cup {k}
  BY <1>1, <1>2 DEF ToSet
<1>4. Once(t)
  BY <1>1, <1>2 DEF ToSet, Once
<1> QED BY <1>1, <1>3, <1>4 DEF t

\* The first n of a sequence, and what they leave.
LEMMA TrimmedFacts ==
    ASSUME NEW C, NEW s \in Seq(C), Once(s), NEW n \in Nat,
           NEW t, t = IF Len(s) > n THEN SubSeq(s, 1, n) ELSE s
    PROVE  t \in Seq(C) /\ Once(t) /\ ToSet(t) \subseteq ToSet(s) /\ Len(t) <= n
<1>1. CASE Len(s) > n
  <2>1. /\ t \in Seq(C) /\ Len(t) = n /\ DOMAIN t = 1..n /\ DOMAIN s = 1..Len(s)
        /\ \A i \in DOMAIN t : i \in DOMAIN s /\ t[i] = s[i]
    BY <1>1
  <2>2. Once(t) /\ Len(t) <= n
    <3>1. ASSUME NEW i \in DOMAIN t, NEW j \in DOMAIN t, t[i] = t[j] PROVE i = j
      <4>1. i \in DOMAIN s /\ j \in DOMAIN s /\ s[i] = s[j]
        BY <2>1, <3>1
      <4> QED BY <4>1 DEF Once
    <3>2. Once(t)
      BY <3>1, Zenon DEF Once
    <3>3. Len(t) <= n
      <4>1. Len(t) = n
        BY <2>1, Zenon
      <4>2. \A x \in Nat : x <= x
        OBVIOUS
      <4> QED BY <4>1, <4>2, Zenon
    <3> QED BY <3>2, <3>3, Zenon
  <2>3. ToSet(t) \subseteq ToSet(s)
    BY <2>1 DEF ToSet
  <2> QED BY <2>1, <2>2, <2>3
<1>2. CASE ~(Len(s) > n)
  BY <1>2
<1> QED BY <1>1, <1>2

\* A queue before its trim: one item more than it may hold.
Untrimmed(q) ==
    /\ q \in Queues
    /\ IsQueue(q, Keys, Callbacks) /\ q.size = QueueSize
    /\ Once(q.order) /\ ToSet(q.order) = Queued(q)
    /\ \A k \in Queued(q) : Fits(q.entries[k].callback, k)

\* A trim takes the same items out of the order and out of the table.
LEMMA TrimToKeeps ==
    ASSUME NEW q, Untrimmed(q)
    PROVE  QueueInv(TrimTo(q, q.size))
<1> DEFINE n == q.size
           kept == IF Len(q.order) > n THEN SubSeq(q.order, 1, n) ELSE q.order
           entries == [x \in DOMAIN q.entries \cap ToSet(kept) |-> q.entries[x]]
           r == TrimTo(q, n)
<1>1. /\ DOMAIN q = {"order", "entries", "size"} /\ q.order \in Seq(Keys) /\ Once(q.order)
      /\ ToSet(q.order) = DOMAIN q.entries /\ n \in Nat /\ n = QueueSize
  BY DEF Untrimmed, IsQueue, Queued
<1>2. /\ kept \in Seq(Keys) /\ Once(kept) /\ ToSet(kept) \subseteq ToSet(q.order)
      /\ Len(kept) <= n
  <2> HIDE DEF n
  <2>1. kept = IF Len(q.order) > n THEN SubSeq(q.order, 1, n) ELSE q.order
    OBVIOUS
  <2> HIDE DEF kept
  <2> QED BY <1>1, <2>1, TrimmedFacts
<1>3. /\ DOMAIN r = {"order", "entries", "size"} /\ r.size = n
      /\ r.order = kept /\ r.entries = entries
      /\ r = [q EXCEPT !.order = kept, !.entries = entries]
  <2> HIDE DEF kept
  <2>1. r = [q EXCEPT !.order = kept, !.entries = entries]
    BY DEF TrimTo, kept
  <2> HIDE DEF r, entries
  <2> QED BY <1>1, <2>1
<1> HIDE DEF r, kept
<1>6. entries \in Tables
  <2>1. q.entries \in Tables
    BY DEF Untrimmed, Queues
  <2> QED BY <2>1, TablesAre
<1>7. r \in Queues
  <2> HIDE DEF entries
  <2> QED BY <1>2, <1>3, <1>6 DEF Untrimmed, Queues
<1>4. IsQueue(r, Keys, Callbacks) /\ \A x \in Queued(r) : Fits(r.entries[x].callback, x)
  BY <1>1, <1>2, <1>3 DEF Untrimmed, IsQueue, Queued
<1>5. Consistent(r)
  <2>1. ToSet(r.order) = Queued(r)
    BY <1>1, <1>2, <1>3 DEF Queued
  <2> QED BY <1>2, <1>3, <2>1, QueueOnce
<1> HIDE DEF n
<1> QED BY <1>1, <1>3, <1>4, <1>5, <1>7 DEF QueueInv, r, n

\* An item that is asked for, new or there already.
LEMMA AddItemKeeps ==
    ASSUME NEW q, QueueInv(q), NEW k \in Keys, NEW c \in Callbacks, Fits(c, k),
           NEW mode \in Modes
    PROVE  QueueInv(AddItem(q, k, c, mode))
<1>1. /\ DOMAIN q = {"order", "entries", "size"} /\ q.order \in Seq(Keys) /\ Once(q.order)
      /\ ToSet(q.order) = DOMAIN q.entries /\ Len(q.order) <= q.size /\ q.size \in Nat
      /\ q.size = QueueSize /\ IsQueue(q, Keys, Callbacks)
  BY QueueOnce DEF QueueInv, IsQueue, Queued
<1>2. CASE k \in Queued(q) /\ mode = "AddToTop"
  <2> DEFINE rest == RemoveFirst(q.order, k)
             order == <<k>> \o rest
             r == [q EXCEPT !.order = order]
  <2>1. AddItem(q, k, c, mode) = r
    BY <1>2 DEF AddItem
  <2>2. /\ rest \in Seq(Keys) /\ Once(rest) /\ ToSet(rest) = ToSet(q.order) \ {k}
        /\ Len(rest) = Len(q.order) - 1
    BY <1>1, <1>2, RemoveFirstFacts DEF Queued
  <2> HIDE DEF rest
  <2>3. /\ order \in Seq(Keys) /\ Once(order) /\ ToSet(order) = ToSet(rest) \cup {k}
        /\ Len(order) = Len(rest) + 1
    BY <2>2, PrependedFacts
  <2>4. ToSet(order) = DOMAIN q.entries /\ Len(order) <= q.size
    <3> HIDE DEF order
    <3> QED BY <1>1, <1>2, <2>2, <2>3 DEF Queued
  <2> HIDE DEF order
  <2>5. /\ DOMAIN r = {"order", "entries", "size"} /\ r.size = q.size
        /\ r.order = order /\ r.entries = q.entries
    BY <1>1
  <2>8. r \in Queues
    BY <2>3 DEF QueueInv, Queues
  <2> HIDE DEF r
  <2>6. IsQueue(r, Keys, Callbacks) /\ \A x \in Queued(r) : Fits(r.entries[x].callback, x)
    BY <1>1, <2>3, <2>5 DEF QueueInv, IsQueue, Queued
  <2>7. Consistent(r)
    BY <2>3, <2>4, <2>5, QueueOnce DEF Queued
  <2> QED BY <1>1, <2>1, <2>5, <2>6, <2>7, <2>8 DEF QueueInv
<1>3. CASE k \in Queued(q) /\ mode # "AddToTop"
  BY <1>3 DEF AddItem
<1>4. CASE k \notin Queued(q)
  <2> DEFINE order == IF mode = "AddToTop" THEN <<k>> \o q.order ELSE Append(q.order, k)
             entries == [x \in DOMAIN q.entries \cup {k} |->
                            IF x = k THEN [callback |-> c, running |-> FALSE] ELSE q.entries[x]]
             r == [q EXCEPT !.order = order, !.entries = entries]
  <2>1. AddItem(q, k, c, mode) = TrimTo(r, q.size)
    BY <1>4, Zenon DEF AddItem
  <2>2. k \notin ToSet(q.order)
    BY <1>1, <1>4 DEF Queued
  <2>3. order \in Seq(Keys) /\ Once(order) /\ ToSet(order) = ToSet(q.order) \cup {k}
    BY <1>1, <2>2, PrependedFacts, AppendedFacts
  <2> HIDE DEF order
  <2>4. /\ DOMAIN entries = DOMAIN q.entries \cup {k}
        /\ entries[k] = [callback |-> c, running |-> FALSE]
        /\ \A x \in DOMAIN q.entries : x # k /\ entries[x] = q.entries[x]
        /\ entries = [x \in DOMAIN entries |-> entries[x]]
    BY <1>4 DEF Queued
  <2> HIDE DEF entries
  <2>5. /\ DOMAIN r = {"order", "entries", "size"} /\ r.size = q.size
        /\ r.order = order /\ r.entries = entries
    BY <1>1
  <2>6. \A x \in DOMAIN entries :
           /\ entries[x] \in [callback : Callbacks, running : BOOLEAN]
           /\ Fits(entries[x].callback, x)
    <3> SUFFICES ASSUME NEW x \in DOMAIN entries
                 PROVE  /\ entries[x] \in [callback : Callbacks, running : BOOLEAN]
                        /\ Fits(entries[x].callback, x)
      OBVIOUS
    <3>1. CASE x = k
      <4>1. entries[x] = [callback |-> c, running |-> FALSE]
        BY <2>4, <3>1
      <4> QED BY <3>1, <4>1
    <3>2. CASE x # k
      <4>1. x \in DOMAIN q.entries /\ entries[x] = q.entries[x]
        BY <2>4, <3>2
      <4> QED BY <1>1, <4>1 DEF QueueInv, IsQueue, Queued
    <3> QED BY <3>1, <3>2
  <2>7. DOMAIN q.entries \subseteq Keys
    BY <1>1 DEF IsQueue
  <2>9. entries \in Tables
    BY <2>4, <2>6, <2>7, TablesAre
  <2>10. r \in Queues
    BY <2>3, <2>9 DEF QueueInv, Queues
  <2> HIDE DEF r
  <2>8. Untrimmed(r)
    BY <2>10, <1>1, <2>3, <2>4, <2>5, <2>6, <2>7 DEF Untrimmed, IsQueue, Queued
  <2> QED BY <2>1, <2>5, <2>8, TrimToKeeps
<1> QED BY <1>2, <1>3, <1>4

\* The item that a worker takes.
LEMMA ClaimKeeps ==
    ASSUME NEW q, QueueInv(q), Waiting(q) # {}
    PROVE  NextItem(q) \in Waiting(q) /\ QueueInv(Claim(q))
<1>1. /\ DOMAIN q = {"order", "entries", "size"} /\ q.order \in Seq(Keys) /\ Once(q.order)
      /\ ToSet(q.order) = DOMAIN q.entries /\ Len(q.order) <= q.size /\ q.size \in Nat
      /\ q.size = QueueSize /\ IsQueue(q, Keys, Callbacks)
  BY QueueOnce DEF QueueInv, IsQueue, Queued
<1> DEFINE W == {i \in DOMAIN q.order : q.order[i] \in Waiting(q)}
           P(i) == /\ i \in DOMAIN q.order /\ q.order[i] \in Waiting(q)
                   /\ \A j \in 1..(i - 1) : q.order[j] \notin Waiting(q)
<1>2. \E i : P(i)
  <2>1. PICK k \in Waiting(q) : TRUE
    OBVIOUS
  <2>2. k \in ToSet(q.order)
    BY <1>1 DEF Waiting
  <2>3. W # {} /\ W \subseteq Nat
    BY <1>1, <2>2 DEF ToSet
  <2>4. PICK i \in W : \A j \in W : i <= j
    BY <2>3, LeastElement
  <2>5. ASSUME NEW j \in 1..(i - 1) PROVE q.order[j] \notin Waiting(q)
    <3>1. j \in DOMAIN q.order /\ ~(i <= j)
      BY <1>1, <2>4, <2>5
    <3> QED BY <2>4, <3>1
  <2> QED BY <2>4, <2>5
<1> DEFINE k == NextItem(q)
<1>3. k \in Waiting(q)
  <2>1. k = q.order[CHOOSE i \in DOMAIN q.order :
                       /\ q.order[i] \in Waiting(q)
                       /\ \A j \in 1..(i - 1) : q.order[j] \notin Waiting(q)]
    BY DEF NextItem
  <2> QED BY <1>2, <2>1, Zenon
<1> HIDE DEF k
<1> DEFINE r == Claim(q)
           one == [q.entries[k] EXCEPT !.running = TRUE]
           entries == [q.entries EXCEPT ![k] = one]
<1>4. r = [q EXCEPT !.entries = entries]
  BY Zenon DEF Claim, k
<1>5. q.entries[k] \in [callback : Callbacks, running : BOOLEAN] /\ k \in DOMAIN q.entries
  BY <1>1, <1>3 DEF IsQueue, Waiting
<1>6. one \in [callback : Callbacks, running : BOOLEAN] /\ one.callback = q.entries[k].callback
  BY <1>5
<1> HIDE DEF one, r
<1>7. DOMAIN entries = DOMAIN q.entries /\ entries[k] = one
      /\ \A x \in DOMAIN q.entries : x # k => entries[x] = q.entries[x]
  BY <1>5
<1>11. entries \in Tables
  <2>1. q.entries \in Tables
    BY DEF QueueInv, Queues
  <2> QED BY <1>5, <1>6, <2>1, TablesAre
<1> HIDE DEF entries
<1>12. r \in Queues
  BY <1>4, <1>11 DEF QueueInv, Queues
<1>8. /\ DOMAIN r = {"order", "entries", "size"} /\ r.size = q.size
      /\ r.order = q.order /\ r.entries = entries
  BY <1>1, <1>4
<1>9. IsQueue(r, Keys, Callbacks) /\ \A x \in Queued(r) : Fits(r.entries[x].callback, x)
  BY <1>1, <1>6, <1>7, <1>8 DEF QueueInv, IsQueue, Queued
<1>10. Consistent(r)
  BY <1>1, <1>7, <1>8, QueueOnce DEF Queued
<1> QED BY <1>1, <1>3, <1>8, <1>9, <1>10, <1>12 DEF QueueInv, k, r

--------------------------------------------------------------------------------
(* The memory pool: every page in it counts one, and none of them is one   *)
(* that does not decode.                                                   *)

\* The sizes of a pool, and the pools; a pool that adds up and is in its budget.
Sizes == UNION {[S -> {1}] : S \in SUBSET {k \in Keys : Raw(k) \notin Unreadable}}

Pools == [recency : Seq(Keys), sizes : Sizes, bytes : Nat]

MemoryInv(m) ==
    /\ m \in Pools
    /\ Once(m.recency) /\ ToSet(m.recency) = DOMAIN m.sizes
    /\ m.bytes = Len(m.recency) /\ Len(m.recency) <= MemoryItems

\* Every entry of the pool counts one; none is for a page that does not decode.
LEMMA SizesAre ==
    ASSUME NEW f
    PROVE  f \in Sizes <=> /\ f = [x \in DOMAIN f |-> f[x]]
                           /\ \A k \in DOMAIN f : f[k] = 1 /\ k \in Keys /\ Raw(k) \notin Unreadable
  BY DEF Sizes

\* The values that SizeOf goes through.
AddsUp(it, m, s) ==
    /\ it[0] = 0
    /\ \A k \in Nat : k < Len(s) => it[k + 1] = it[k] + m.sizes[s[k + 1]]
    /\ SizeOf(m) = it[Len(s)]

\* Adding up the sizes, entry by entry.
LEMMA SizeSteps ==
    ASSUME NEW m, NEW s \in Seq(DOMAIN m.sizes), m.sizes \in Sizes, s = m.recency
    PROVE  \E it : AddsUp(it, m, s)
<1> DEFINE V == Nat
           C == DOMAIN m.sizes
           F == [p \in V \X C |-> p[1] + m.sizes[p[2]]]
           n == Len(s)
           G(h) == h = [t \in SUBSET DOMAIN s |->
                          IF t = {} THEN 0
                          ELSE h[t \ {Max(t)}] + m.sizes[s[Max(t)]]]
           g == CHOOSE h : G(h)
<1>1. n \in Nat /\ DOMAIN s = 1..n /\ (\A i \in 1..n : s[i] \in C) /\ 0 \in V
  OBVIOUS
<1>2. F \in [V \X C -> V]
  BY SizesAre
<1>3. SizeOf(m) = g[DOMAIN s]
  BY Zenon DEF SizeOf, FoldLeft, MapThenFoldSet
<1>4. G(g)
  <2>1. PICK h : FoldsBy(h, V, F, 0, s, n)
    <3> HIDE DEF V, C, F, n
    <3> QED BY <1>1, <1>2, FoldExists
  <2>2. ASSUME NEW t \in SUBSET (1..n), t # {}, Max(t) \in t
        PROVE  h[t] = h[t \ {Max(t)}] + m.sizes[s[Max(t)]]
    <3>1. h[t \ {Max(t)}] \in V /\ s[Max(t)] \in C
      BY <1>1, <2>1, <2>2 DEF FoldsBy
    <3>2. h[t] = F[<<h[t \ {Max(t)}], s[Max(t)]>>]
      <4> HIDE DEF V, C, F
      <4> QED BY <2>1, <2>2 DEF FoldsBy
    <3> HIDE DEF V, C
    <3> QED BY <3>1, <3>2
  <2>3. ASSUME NEW t \in SUBSET (1..n), t # {} PROVE Max(t) \in t
    BY <1>1, <2>3, LargestElement
  <2>4. G(h)
    BY <1>1, <2>1, <2>2, <2>3 DEF FoldsBy
  <2> QED BY <2>4, Zenon
<1>5. ASSUME NEW t \in SUBSET (1..n), t # {}
      PROVE  g[t] = g[t \ {Max(t)}] + m.sizes[s[Max(t)]]
  <2> HIDE DEF g
  <2> QED BY <1>1, <1>4, <1>5
<1>6. g[{}] = 0
  <2> HIDE DEF g
  <2> QED BY <1>1, <1>4
<1> HIDE DEF G, F, g, V, C, n
<1> DEFINE it == [k \in Nat |-> g[1..k]]
<1>7. ASSUME NEW k \in Nat, k < n
      PROVE  it[k + 1] = it[k] + m.sizes[s[k + 1]]
  <2>1. 1..(k + 1) \in SUBSET (1..n) /\ k + 1 \in 1..(k + 1) /\ 1..(k + 1) # {}
    <3>1. n \in Nat
      BY <1>1
    <3>2. k + 1 \in 1..(k + 1) /\ \A i \in 1..(k + 1) : i \in 1..n
      BY <1>7, <3>1
    <3> QED BY <3>2
  <2>2. Max(1..(k + 1)) = k + 1 /\ (1..(k + 1)) \ {k + 1} = 1..k
    BY <2>1, LastOf
  <2>3. g[1..(k + 1)] = g[1..k] + m.sizes[s[k + 1]]
    BY <1>5, <2>1, <2>2
  <2> QED BY <2>3
<1>8. it[0] = 0 /\ SizeOf(m) = it[n]
  BY <1>1, <1>3, <1>6
<1> HIDE DEF it
<1> QED BY <1>7, <1>8 DEF AddsUp, n

\* The bytes of a pool whose entries count one are its entries.
LEMMA SizeIsLength ==
    ASSUME NEW m, MemoryInv(m)
    PROVE  SizeOf(m) = Len(m.recency)
<1> DEFINE s == m.recency
<1>1. s \in Seq(Keys) /\ m.sizes \in Sizes /\ ToSet(s) = DOMAIN m.sizes
  BY DEF MemoryInv, Pools
<1>2. /\ Len(s) \in Nat /\ DOMAIN s = 1..Len(s) /\ \A i \in 1..Len(s) : s[i] \in DOMAIN m.sizes
      /\ s \in Seq(DOMAIN m.sizes)
  <2>1. \A i \in DOMAIN s : s[i] \in DOMAIN m.sizes
    BY <1>1 DEF ToSet
  <2> HIDE DEF s
  <2> QED BY <1>1, <2>1
<1>3. PICK it : AddsUp(it, m, s)
  BY <1>1, <1>2, SizeSteps
<1> HIDE DEF s
<1> DEFINE D == {k \in Nat : k <= Len(s) => it[k] = k}
<1>4. 0 \in D
  BY <1>3 DEF AddsUp
<1>5. ASSUME NEW k \in Nat, k \in D PROVE k + 1 \in D
  <2> SUFFICES ASSUME k + 1 <= Len(s) PROVE it[k + 1] = k + 1
    OBVIOUS
  <2>1. k < Len(s) /\ k <= Len(s) /\ k + 1 \in 1..Len(s)
    BY <1>2
  <2>2. it[k + 1] = it[k] + m.sizes[s[k + 1]] /\ it[k] = k
    BY <1>3, <1>5, <2>1 DEF AddsUp
  <2>3. m.sizes[s[k + 1]] = 1
    BY <1>1, <1>2, <2>1, SizesAre
  <2> QED BY <2>2, <2>3
<1> HIDE DEF D
<1>6. Len(s) \in D
  BY <1>2, <1>4, <1>5, Induction
<1> QED BY <1>2, <1>3, <1>6 DEF AddsUp, D, s

\* A hit moves the page to the front.
LEMMA TouchKeeps ==
    ASSUME NEW m, MemoryInv(m), NEW k \in Keys
    PROVE  MemoryInv(Touch(m, k)) /\ DOMAIN Touch(m, k).sizes = DOMAIN m.sizes
<1> DEFINE rest == RemoveFirst(m.recency, k)
           s == Append(rest, k)
           r == [m EXCEPT !.recency = s]
<1>1. /\ m \in Pools /\ m.recency \in Seq(Keys) /\ Once(m.recency)
      /\ ToSet(m.recency) = DOMAIN m.sizes /\ Len(m.recency) \in Nat
  BY DEF MemoryInv, Pools
<1>2. CASE k \in DOMAIN m.sizes
  <2>1. Touch(m, k) = r
    BY <1>2 DEF Touch, InPool
  <2>2. /\ rest \in Seq(Keys) /\ Once(rest) /\ ToSet(rest) = ToSet(m.recency) \ {k}
        /\ Len(rest) = Len(m.recency) - 1
    BY <1>1, <1>2, RemoveFirstFacts
  <2> HIDE DEF rest
  <2>3. s \in Seq(Keys) /\ Once(s) /\ ToSet(s) = ToSet(rest) \cup {k} /\ Len(s) = Len(rest) + 1
    BY <2>2, AppendedFacts
  <2> HIDE DEF s
  <2>4. r \in Pools /\ r.recency = s /\ r.sizes = m.sizes /\ r.bytes = m.bytes
    BY <1>1, <2>3 DEF Pools
  <2> HIDE DEF r
  <2>5. ToSet(s) = DOMAIN m.sizes /\ Len(s) = Len(m.recency)
    BY <1>1, <1>2, <2>2, <2>3
  <2> QED BY <1>1, <2>1, <2>3, <2>4, <2>5 DEF MemoryInv
<1>3. CASE k \notin DOMAIN m.sizes
  BY <1>3 DEF Touch, InPool
<1> QED BY <1>2, <1>3

\* The page that was used least recently goes out.
LEMMA RemoveKeyKeeps ==
    ASSUME NEW m, MemoryInv(m), m.recency # <<>>
    PROVE  /\ MemoryInv(RemoveKey(m, Head(m.recency)))
           /\ Len(RemoveKey(m, Head(m.recency)).recency) = Len(m.recency) - 1
           /\ DOMAIN RemoveKey(m, Head(m.recency)).sizes \subseteq DOMAIN m.sizes
<1> DEFINE k == Head(m.recency)
           s == RemoveFirst(m.recency, k)
           sizes == [x \in DOMAIN m.sizes \ {k} |-> m.sizes[x]]
           r == RemoveKey(m, k)
<1>1. /\ m \in Pools /\ m.recency \in Seq(Keys) /\ Once(m.recency) /\ m.sizes \in Sizes
      /\ ToSet(m.recency) = DOMAIN m.sizes /\ Len(m.recency) \in Nat /\ Len(m.recency) > 0
      /\ m.bytes = Len(m.recency) /\ Len(m.recency) <= MemoryItems
  BY DEF MemoryInv, Pools
<1>2. k \in DOMAIN m.sizes /\ k \in Keys
  <2>1. 1 \in DOMAIN m.recency /\ k = m.recency[1]
    BY <1>1
  <2> QED BY <1>1, <2>1 DEF ToSet
<1> HIDE DEF k
<1>3. /\ s \in Seq(Keys) /\ Once(s) /\ ToSet(s) = DOMAIN m.sizes \ {k}
      /\ Len(s) = Len(m.recency) - 1
  BY <1>1, <1>2, RemoveFirstFacts
<1>4. sizes \in Sizes /\ DOMAIN sizes = DOMAIN m.sizes \ {k}
  <2>1. DOMAIN sizes = DOMAIN m.sizes \ {k}
    OBVIOUS
  <2>2. \A x \in DOMAIN sizes : sizes[x] = 1 /\ x \in Keys /\ Raw(x) \notin Unreadable
    BY <1>1, SizesAre
  <2>3. sizes = [x \in DOMAIN sizes |-> sizes[x]]
    OBVIOUS
  <2> HIDE DEF sizes
  <2> QED BY <2>1, <2>2, <2>3, SizesAre
<1>5. m.bytes - m.sizes[k] = Len(m.recency) - 1
  <2>1. m.sizes[k] = 1
    BY <1>1, <1>2, SizesAre
  <2> QED BY <1>1, <2>1
<1>6. r = [recency |-> s, sizes |-> sizes, bytes |-> m.bytes - m.sizes[k]]
  BY DEF RemoveKey
<1> HIDE DEF s, sizes, r
<1>7. /\ r.recency = s /\ r.sizes = sizes /\ r.bytes = Len(m.recency) - 1
      /\ r \in Pools
  BY <1>1, <1>3, <1>4, <1>5, <1>6 DEF Pools
<1>8. MemoryItems \in Nat
  BY ConstantsAssumption
<1>9. MemoryInv(r)
  BY <1>1, <1>3, <1>4, <1>7, <1>8 DEF MemoryInv
<1> QED BY <1>3, <1>4, <1>7, <1>9 DEF r, k

\* One round of the eviction, which is enough.
LEMMA EvictOneKeeps ==
    ASSUME NEW m, MemoryInv(m)
    PROVE  /\ MemoryInv(EvictOne(m, 1, MemoryItems, 0))
           /\ Len(EvictOne(m, 1, MemoryItems, 0).recency) < MemoryItems
           /\ DOMAIN EvictOne(m, 1, MemoryItems, 0).sizes \subseteq DOMAIN m.sizes
<1>1. /\ m.recency \in Seq(Keys) /\ Len(m.recency) \in Nat /\ Len(m.recency) <= MemoryItems
      /\ MemoryItems \in Nat /\ MemoryItems > 0
      /\ m.recency = <<>> => Len(m.recency) = 0
  BY ConstantsAssumption DEF MemoryInv, Pools
<1>2. TooFull(m, 1, MemoryItems, 0) <=> Len(m.recency) >= MemoryItems
  BY DEF TooFull
<1>3. CASE m.recency # <<>> /\ Len(m.recency) >= MemoryItems
  <2>1. EvictOne(m, 1, MemoryItems, 0) = RemoveKey(m, Head(m.recency))
    BY <1>2, <1>3 DEF EvictOne
  <2> QED BY <1>1, <1>3, <2>1, RemoveKeyKeeps
<1>4. CASE ~(m.recency # <<>> /\ Len(m.recency) >= MemoryItems)
  <2>1. EvictOne(m, 1, MemoryItems, 0) = m
    BY <1>2, <1>4 DEF EvictOne
  <2> QED BY <1>1, <1>4, <2>1
<1> QED BY <1>3, <1>4

\* The pools that an eviction goes through.
Evicts(it, m, s) ==
    /\ it[0] = m
    /\ \A k \in Nat : k < Len(s) => it[k + 1] = EvictOne(it[k], 1, MemoryItems, 0)
    /\ Evict(m, 1, MemoryItems, 0) = it[Len(s)]

\* The rounds of the eviction, one by one.
LEMMA EvictSteps ==
    ASSUME NEW m, MemoryInv(m), NEW s \in Seq(Keys), s = m.recency
    PROVE  \E it : Evicts(it, m, s)
<1> DEFINE V == {p \in Pools : MemoryInv(p)}
           C == Keys
           F == [p \in V \X C |-> EvictOne(p[1], 1, MemoryItems, 0)]
           n == Len(s)
           G(h) == h = [t \in SUBSET DOMAIN s |->
                          IF t = {} THEN m
                          ELSE EvictOne(h[t \ {Max(t)}], 1, MemoryItems, 0)]
           g == CHOOSE h : G(h)
<1>1. n \in Nat /\ DOMAIN s = 1..n /\ (\A i \in 1..n : s[i] \in C) /\ m \in V
  BY DEF MemoryInv
<1>2. F \in [V \X C -> V]
  <2>1. \A p \in V : EvictOne(p, 1, MemoryItems, 0) \in V
    BY EvictOneKeeps DEF MemoryInv
  <2> HIDE DEF V, C
  <2> QED BY <2>1
<1>3. Evict(m, 1, MemoryItems, 0) = g[DOMAIN s]
  BY Zenon DEF Evict, FoldLeft, MapThenFoldSet
<1>4. G(g)
  <2>1. PICK h : FoldsBy(h, V, F, m, s, n)
    <3> HIDE DEF V, C, F, n
    <3> QED BY <1>1, <1>2, FoldExists
  <2>2. ASSUME NEW t \in SUBSET (1..n), t # {}, Max(t) \in t
        PROVE  h[t] = EvictOne(h[t \ {Max(t)}], 1, MemoryItems, 0)
    <3>1. h[t \ {Max(t)}] \in V /\ s[Max(t)] \in C
      BY <1>1, <2>1, <2>2 DEF FoldsBy
    <3>2. h[t] = F[<<h[t \ {Max(t)}], s[Max(t)]>>]
      <4> HIDE DEF V, C, F
      <4> QED BY <2>1, <2>2 DEF FoldsBy
    <3> HIDE DEF V, C
    <3> QED BY <3>1, <3>2
  <2>3. ASSUME NEW t \in SUBSET (1..n), t # {} PROVE Max(t) \in t
    BY <1>1, <2>3, LargestElement
  <2>4. G(h)
    BY <1>1, <2>1, <2>2, <2>3 DEF FoldsBy
  <2> QED BY <2>4, Zenon
<1>5. ASSUME NEW t \in SUBSET (1..n), t # {}
      PROVE  g[t] = EvictOne(g[t \ {Max(t)}], 1, MemoryItems, 0)
  <2> HIDE DEF g
  <2> QED BY <1>1, <1>4, <1>5
<1>6. g[{}] = m
  <2> HIDE DEF g
  <2> QED BY <1>1, <1>4
<1> HIDE DEF G, F, g, V, C, n
<1> DEFINE it == [k \in Nat |-> g[1..k]]
<1>7. ASSUME NEW k \in Nat, k < n
      PROVE  it[k + 1] = EvictOne(it[k], 1, MemoryItems, 0)
  <2>1. 1..(k + 1) \in SUBSET (1..n) /\ k + 1 \in 1..(k + 1) /\ 1..(k + 1) # {}
    <3>1. n \in Nat
      BY <1>1
    <3>2. k + 1 \in 1..(k + 1) /\ \A i \in 1..(k + 1) : i \in 1..n
      BY <1>7, <3>1
    <3> QED BY <3>2
  <2>2. Max(1..(k + 1)) = k + 1 /\ (1..(k + 1)) \ {k + 1} = 1..k
    BY <2>1, LastOf
  <2>3. g[1..(k + 1)] = EvictOne(g[1..k], 1, MemoryItems, 0)
    BY <1>5, <2>1, <2>2
  <2> QED BY <2>3
<1>8. it[0] = m /\ Evict(m, 1, MemoryItems, 0) = it[n]
  BY <1>1, <1>3, <1>6
<1> HIDE DEF it
<1> QED BY <1>7, <1>8 DEF Evicts, n

\* After the eviction there is room for one more page.
LEMMA EvictKeeps ==
    ASSUME NEW m, MemoryInv(m)
    PROVE  /\ MemoryInv(Evict(m, 1, MemoryItems, 0))
           /\ Len(Evict(m, 1, MemoryItems, 0).recency) < MemoryItems
           /\ DOMAIN Evict(m, 1, MemoryItems, 0).sizes \subseteq DOMAIN m.sizes
<1> DEFINE s == m.recency
<1>1. s \in Seq(Keys) /\ Len(s) \in Nat /\ MemoryItems \in Nat /\ MemoryItems > 0
  BY ConstantsAssumption DEF MemoryInv, Pools
<1>2. PICK it : Evicts(it, m, s)
  BY <1>1, EvictSteps
<1> HIDE DEF s
<1> DEFINE D == {k \in Nat : k <= Len(s) =>
                    /\ MemoryInv(it[k]) /\ DOMAIN it[k].sizes \subseteq DOMAIN m.sizes
                    /\ k > 0 => Len(it[k].recency) < MemoryItems}
<1>3. 0 \in D
  BY <1>2 DEF Evicts
<1>4. ASSUME NEW k \in Nat, k \in D PROVE k + 1 \in D
  <2> SUFFICES ASSUME k + 1 <= Len(s)
               PROVE  /\ MemoryInv(it[k + 1]) /\ DOMAIN it[k + 1].sizes \subseteq DOMAIN m.sizes
                      /\ Len(it[k + 1].recency) < MemoryItems
    OBVIOUS
  <2>1. k < Len(s) /\ k <= Len(s)
    BY <1>1
  <2>2. /\ it[k + 1] = EvictOne(it[k], 1, MemoryItems, 0) /\ MemoryInv(it[k])
        /\ DOMAIN it[k].sizes \subseteq DOMAIN m.sizes
    BY <1>2, <1>4, <2>1 DEF Evicts
  <2> QED BY <2>2, EvictOneKeeps
<1> HIDE DEF D
<1>5. Len(s) \in D
  BY <1>1, <1>3, <1>4, Induction
<1>6. Evict(m, 1, MemoryItems, 0) = it[Len(s)]
  BY <1>2 DEF Evicts
<1>7. Len(s) = 0 => it[Len(s)] = m
  BY <1>2 DEF Evicts
<1> QED BY <1>1, <1>5, <1>6, <1>7 DEF D, s

\* A page that decodes goes in.
LEMMA LockItemKeeps ==
    ASSUME NEW m, MemoryInv(m), NEW k \in Keys, Raw(k) \notin Unreadable
    PROVE  MemoryInv(LockItem(m, k, 1, MemoryItems, 0))
<1>1. CASE k \in DOMAIN m.sizes
  <2>1. LockItem(m, k, 1, MemoryItems, 0) = Touch(m, k)
    BY <1>1 DEF LockItem, InPool
  <2> QED BY <2>1, TouchKeeps
<1>2. CASE k \notin DOMAIN m.sizes
  <2> DEFINE room == Evict(m, 1, MemoryItems, 0)
             s == Append(room.recency, k)
             sizes == [x \in DOMAIN room.sizes \cup {k} |->
                          IF x = k THEN 1 ELSE room.sizes[x]]
             r == [recency |-> s, sizes |-> sizes, bytes |-> room.bytes + 1]
  <2>1. LockItem(m, k, 1, MemoryItems, 0) = r
    BY <1>2, Zenon DEF LockItem, InPool
  <2>2. /\ MemoryInv(room) /\ Len(room.recency) < MemoryItems
        /\ DOMAIN room.sizes \subseteq DOMAIN m.sizes
    BY EvictKeeps
  <2> HIDE DEF room
  <2>3. /\ room.recency \in Seq(Keys) /\ Once(room.recency) /\ room.sizes \in Sizes
        /\ ToSet(room.recency) = DOMAIN room.sizes /\ room.bytes = Len(room.recency)
        /\ Len(room.recency) \in Nat /\ MemoryItems \in Nat /\ k \notin DOMAIN room.sizes
    BY <1>2, <2>2, ConstantsAssumption DEF MemoryInv, Pools
  <2>4. /\ s \in Seq(Keys) /\ Once(s) /\ ToSet(s) = DOMAIN room.sizes \cup {k}
        /\ Len(s) = Len(room.recency) + 1
    BY <2>3, AppendedFacts
  <2>5. sizes \in Sizes /\ DOMAIN sizes = DOMAIN room.sizes \cup {k}
    <3>1. DOMAIN sizes = DOMAIN room.sizes \cup {k}
      OBVIOUS
    <3>2. \A x \in DOMAIN sizes : sizes[x] = 1 /\ x \in Keys /\ Raw(x) \notin Unreadable
      BY <2>3, SizesAre
    <3>3. sizes = [x \in DOMAIN sizes |-> sizes[x]]
      OBVIOUS
    <3> HIDE DEF sizes
    <3> QED BY <3>1, <3>2, <3>3, SizesAre
  <2> HIDE DEF s, sizes
  <2>6. r.recency = s /\ r.sizes = sizes /\ r.bytes = Len(s) /\ r \in Pools
    BY <2>3, <2>4, <2>5 DEF Pools
  <2> HIDE DEF r
  <2>7. MemoryInv(r)
    BY <2>2, <2>3, <2>4, <2>5, <2>6 DEF MemoryInv
  <2> QED BY <2>1, <2>7
<1> QED BY <1>1, <1>2

--------------------------------------------------------------------------------
(* The view and what it asks for.                                          *)

\* An image is the page of a book with that index, or says that it does not decode.
Belongs(image, b, i) ==
    IF <<b, i>> \in Unreadable
    THEN image = ErrorPage
    ELSE image # ErrorPage /\ image.book = b /\ image.index = i

\* What may be loaded for some display positions.
Loads == UNION {[S -> Images] : S \in SUBSET Pages}

\* The states of the view, and those that show the right pages.
Views == [book : Books \cup {NoBook}, page : Pages, layout : Layouts,
          rotations : [Pages -> Rotations], loaded : Loads, queued : SUBSET Wants,
          wanted : Seq(Wants), composed : BOOLEAN]

\* What is loaded for the book b is its pages.
Shows(loaded, b) ==
    \A p \in DOMAIN loaded : b # NoBook /\ Belongs(loaded[p], b, PageIndex(p))

ViewInv(v) == v \in Views /\ Shows(v.loaded, v.book)

Askings == [view : Views, fast : Queues, slow : Queues, memory : Pools]

\* What a request starts from and ends with: a view of a book, the queues, the pool.
AskInv(s) ==
    /\ s \in Askings
    /\ ViewInv(s.view) /\ s.view.book \in Books
    /\ QueueInv(s.fast) /\ QueueInv(s.slow) /\ MemoryInv(s.memory)

\* The pages that are loaded are a function on display positions.
LEMMA LoadsAre ==
    ASSUME NEW f
    PROVE  f \in Loads <=> /\ f = [x \in DOMAIN f |-> f[x]]
                           /\ \A p \in DOMAIN f : f[p] \in Images /\ p \in Pages
  BY DEF Loads

\* Display positions and provider indices are the same numbers.
LEMMA IndexType ==
    ASSUME NEW p \in Pages
    PROVE  PageIndex(p) \in Pages
  BY ConstantsAssumption DEF Pages, PageIndex

\* One more page.
LEMMA LoadKeeps ==
    ASSUME NEW f \in Loads, NEW b, Shows(f, b), b # NoBook, NEW p \in Pages,
           NEW image \in Images, Belongs(image, b, PageIndex(p))
    PROVE  Load(f, p, image) \in Loads /\ Shows(Load(f, p, image), b)
<1> DEFINE g == Load(f, p, image)
<1>1. /\ DOMAIN g = DOMAIN f \cup {p}
      /\ \A x \in DOMAIN g : g[x] = IF x = p THEN image ELSE f[x]
      /\ g = [x \in DOMAIN g |-> g[x]]
  BY DEF Load
<1> HIDE DEF g
<1>2. \A x \in DOMAIN g : g[x] \in Images /\ x \in Pages
  BY <1>1, LoadsAre
<1>3. Shows(g, b)
  BY <1>1 DEF Shows
<1> QED BY <1>1, <1>2, <1>3, LoadsAre DEF g

\* Fewer pages.
LEMMA UnloadKeeps ==
    ASSUME NEW f \in Loads, NEW b, Shows(f, b), NEW S, S \subseteq DOMAIN f
    PROVE  [n \in S |-> f[n]] \in Loads /\ Shows([n \in S |-> f[n]], b)
<1> DEFINE g == [n \in S |-> f[n]]
<1>1. DOMAIN g = S /\ (\A x \in S : g[x] = f[x]) /\ g = [x \in DOMAIN g |-> g[x]]
  OBVIOUS
<1> HIDE DEF g
<1>2. \A x \in DOMAIN g : g[x] \in Images /\ x \in Pages
  BY <1>1, LoadsAre
<1>3. Shows(g, b)
  BY <1>1 DEF Shows
<1> QED BY <1>1, <1>2, <1>3, LoadsAre DEF g

\* The key that is asked for is one of the page at that position.
LEMMA KeyBelongs ==
    ASSUME NEW k \in Keys, Raw(k) \notin Unreadable
    PROVE  k \in Images /\ Belongs(k, k.book, k.index)
<1>1. k.book \in Books /\ k # ErrorPage
  BY ConstantsAssumption DEF Keys, ErrorPage
<1> QED BY <1>1 DEF Belongs, Images, Raw

\* One page that is wanted: there, in the memory, on its way, or asked for.
LEMMA DispatchOneKeeps ==
    ASSUME NEW s, AskInv(s), NEW want \in Wants
    PROVE  AskInv(DispatchOne(s, want))
<1> DEFINE p == want[1]
           r == want[2]
           key == KeyOf(s.view, p, r)
           callback == [book |-> s.view.book, page |-> p, rotation |-> r]
           mode == IF p < s.view.page THEN "AddToBottom" ELSE "AddToTop"
           asks == [s.view EXCEPT !.queued = @ \cup {want}]
           asked == [s EXCEPT !.view = asks]
<1>1. /\ s \in Askings /\ s.view \in Views /\ s.view.loaded \in Loads
      /\ Shows(s.view.loaded, s.view.book)
      /\ s.view.book \in Books /\ s.view.book # NoBook
      /\ QueueInv(s.fast) /\ QueueInv(s.slow) /\ MemoryInv(s.memory)
      /\ s.fast \in Queues /\ s.slow \in Queues /\ s.memory \in Pools
  BY ConstantsAssumption DEF AskInv, Askings, ViewInv, Views
<1>2. p \in Pages /\ r \in Rotations
  BY DEF Wants
<1>3. /\ key \in Keys /\ callback \in Callbacks /\ Fits(callback, key) /\ mode \in Modes
      /\ key.book = s.view.book /\ key.index = PageIndex(p)
  BY <1>1, <1>2, IndexType DEF KeyOf, Keys, Callbacks, Fits, Modes
<1>4. /\ asks \in Views /\ asks.loaded = s.view.loaded /\ asks.book = s.view.book
  BY <1>1 DEF Views
<1> HIDE DEF asks
<1>5. /\ asked \in Askings /\ asked.view = asks /\ asked.fast = s.fast
      /\ asked.slow = s.slow /\ asked.memory = s.memory
  BY <1>1, <1>4 DEF Askings
<1>6. DispatchOne(s, want) =
         IF p \in DOMAIN s.view.loaded
         THEN s
         ELSE IF InPool(s.memory, key)
         THEN [s EXCEPT !.view.loaded = Load(@, p, key), !.memory = Touch(@, key)]
         ELSE IF want \in s.view.queued
         THEN s
         ELSE IF Raw(key) \in disk
         THEN [asked EXCEPT !.fast = AddItem(@, key, callback, mode)]
         ELSE [asked EXCEPT !.slow = AddItem(@, key, callback, mode)]
  BY Zenon DEF DispatchOne, asks
<1> HIDE DEF asked, key, callback, mode, p, r
<1>7. CASE DispatchOne(s, want) = s
  BY <1>7
<1>8. CASE /\ DispatchOne(s, want) =
                [s EXCEPT !.view.loaded = Load(@, p, key), !.memory = Touch(@, key)]
           /\ InPool(s.memory, key)
  <2> DEFINE f == Load(s.view.loaded, p, key)
             v == [s.view EXCEPT !.loaded = f]
             m == Touch(s.memory, key)
             t == [s EXCEPT !.view = v, !.memory = m]
  <2>1. DispatchOne(s, want) = t
    BY <1>8
  <2>2. Raw(key) \notin Unreadable
    BY <1>1, <1>8, SizesAre DEF InPool, Pools
  <2>3. key \in Images /\ Belongs(key, s.view.book, PageIndex(p))
    BY <1>3, <2>2, KeyBelongs
  <2>4. f \in Loads /\ Shows(f, s.view.book)
    BY <1>1, <1>2, <2>3, LoadKeeps
  <2> HIDE DEF f
  <2>5. v \in Views /\ v.loaded = f /\ v.book = s.view.book
    BY <1>1, <2>4 DEF Views
  <2> HIDE DEF v
  <2>6. MemoryInv(m) /\ m \in Pools
    BY <1>1, <1>3, TouchKeeps DEF MemoryInv
  <2> HIDE DEF m
  <2>7. /\ t \in Askings /\ t.view = v /\ t.fast = s.fast /\ t.slow = s.slow /\ t.memory = m
    BY <1>1, <2>5, <2>6 DEF Askings
  <2> HIDE DEF t
  <2> QED BY <1>1, <2>1, <2>4, <2>5, <2>6, <2>7 DEF AskInv, ViewInv
<1>9. CASE DispatchOne(s, want) = [asked EXCEPT !.fast = AddItem(@, key, callback, mode)]
  <2> DEFINE q == AddItem(s.fast, key, callback, mode)
             t == [asked EXCEPT !.fast = q]
  <2>1. DispatchOne(s, want) = t
    BY <1>5, <1>9
  <2>2. QueueInv(q) /\ q \in Queues
    BY <1>1, <1>3, AddItemKeeps DEF QueueInv
  <2> HIDE DEF q
  <2>3. t \in Askings /\ t.view = asks /\ t.fast = q /\ t.slow = s.slow /\ t.memory = s.memory
    BY <1>5, <2>2 DEF Askings
  <2> HIDE DEF t
  <2> QED BY <1>1, <1>4, <2>1, <2>2, <2>3 DEF AskInv, ViewInv
<1>10. CASE DispatchOne(s, want) = [asked EXCEPT !.slow = AddItem(@, key, callback, mode)]
  <2> DEFINE q == AddItem(s.slow, key, callback, mode)
             t == [asked EXCEPT !.slow = q]
  <2>1. DispatchOne(s, want) = t
    BY <1>5, <1>10
  <2>2. QueueInv(q) /\ q \in Queues
    BY <1>1, <1>3, AddItemKeeps DEF QueueInv
  <2> HIDE DEF q
  <2>3. t \in Askings /\ t.view = asks /\ t.fast = s.fast /\ t.slow = q /\ t.memory = s.memory
    BY <1>5, <2>2 DEF Askings
  <2> HIDE DEF t
  <2> QED BY <1>1, <1>4, <2>1, <2>2, <2>3 DEF AskInv, ViewInv
<1> QED BY <1>6, <1>7, <1>8, <1>9, <1>10

\* The states that dispatch_wanted goes through.
Dispatches(it, s, w) ==
    /\ it[0] = s
    /\ \A k \in Nat : k < Len(w) => it[k + 1] = DispatchOne(it[k], w[k + 1])
    /\ FoldLeft(DispatchOne, s, w) = it[Len(w)]

\* The rounds of dispatch_wanted, one by one.
LEMMA DispatchSteps ==
    ASSUME NEW s, AskInv(s), NEW w \in Seq(Wants)
    PROVE  \E it : Dispatches(it, s, w)
<1> DEFINE V == {p \in Askings : AskInv(p)}
           C == Wants
           F == [p \in V \X C |-> DispatchOne(p[1], p[2])]
           n == Len(w)
           G(h) == h = [t \in SUBSET DOMAIN w |->
                          IF t = {} THEN s
                          ELSE DispatchOne(h[t \ {Max(t)}], w[Max(t)])]
           g == CHOOSE h : G(h)
<1>1. n \in Nat /\ DOMAIN w = 1..n /\ (\A i \in 1..n : w[i] \in C) /\ s \in V
  BY DEF AskInv
<1>2. F \in [V \X C -> V]
  <2>1. \A p \in V, c \in C : DispatchOne(p, c) \in V
    BY DispatchOneKeeps DEF AskInv
  <2> HIDE DEF V, C
  <2> QED BY <2>1
<1>3. FoldLeft(DispatchOne, s, w) = g[DOMAIN w]
  BY Zenon DEF FoldLeft, MapThenFoldSet
<1>4. G(g)
  <2>1. PICK h : FoldsBy(h, V, F, s, w, n)
    <3> HIDE DEF V, C, F, n
    <3> QED BY <1>1, <1>2, FoldExists
  <2>2. ASSUME NEW t \in SUBSET (1..n), t # {}, Max(t) \in t
        PROVE  h[t] = DispatchOne(h[t \ {Max(t)}], w[Max(t)])
    <3>1. h[t \ {Max(t)}] \in V /\ w[Max(t)] \in C
      BY <1>1, <2>1, <2>2 DEF FoldsBy
    <3>2. h[t] = F[<<h[t \ {Max(t)}], w[Max(t)]>>]
      <4> HIDE DEF V, C, F
      <4> QED BY <2>1, <2>2 DEF FoldsBy
    <3> HIDE DEF V, C
    <3> QED BY <3>1, <3>2
  <2>3. ASSUME NEW t \in SUBSET (1..n), t # {} PROVE Max(t) \in t
    BY <1>1, <2>3, LargestElement
  <2>4. G(h)
    BY <1>1, <2>1, <2>2, <2>3 DEF FoldsBy
  <2> QED BY <2>4, Zenon
<1>5. ASSUME NEW t \in SUBSET (1..n), t # {}
      PROVE  g[t] = DispatchOne(g[t \ {Max(t)}], w[Max(t)])
  <2> HIDE DEF g
  <2> QED BY <1>1, <1>4, <1>5
<1>6. g[{}] = s
  <2> HIDE DEF g
  <2> QED BY <1>1, <1>4
<1> HIDE DEF G, F, g, V, C, n
<1> DEFINE it == [k \in Nat |-> g[1..k]]
<1>7. ASSUME NEW k \in Nat, k < n
      PROVE  it[k + 1] = DispatchOne(it[k], w[k + 1])
  <2>1. 1..(k + 1) \in SUBSET (1..n) /\ k + 1 \in 1..(k + 1) /\ 1..(k + 1) # {}
    <3>1. n \in Nat
      BY <1>1
    <3>2. k + 1 \in 1..(k + 1) /\ \A i \in 1..(k + 1) : i \in 1..n
      BY <1>7, <3>1
    <3> QED BY <3>2
  <2>2. Max(1..(k + 1)) = k + 1 /\ (1..(k + 1)) \ {k + 1} = 1..k
    BY <2>1, LastOf
  <2>3. g[1..(k + 1)] = DispatchOne(g[1..k], w[k + 1])
    BY <1>5, <2>1, <2>2
  <2> QED BY <2>3
<1>8. it[0] = s /\ FoldLeft(DispatchOne, s, w) = it[n]
  BY <1>1, <1>3, <1>6
<1> HIDE DEF it
<1> QED BY <1>7, <1>8 DEF Dispatches, n

\* All pages that are wanted; what is loaded leaves the list.
LEMMA DispatchKeeps ==
    ASSUME NEW s, AskInv(s)
    PROVE  AskInv(DispatchWanted(s))
<1> DEFINE w == s.view.wanted
           done == FoldLeft(DispatchOne, s, w)
<1>1. w \in Seq(Wants) /\ Len(w) \in Nat
  BY DEF AskInv, ViewInv, Views
<1>2. PICK it : Dispatches(it, s, w)
  <2> HIDE DEF w
  <2> QED BY <1>1, DispatchSteps
<1> HIDE DEF w
<1>3. AskInv(done)
  <2> DEFINE D == {k \in Nat : k <= Len(w) => AskInv(it[k])}
  <2>1. 0 \in D
    BY <1>2 DEF Dispatches
  <2>2. ASSUME NEW k \in Nat, k \in D PROVE k + 1 \in D
    <3> SUFFICES ASSUME k + 1 <= Len(w) PROVE AskInv(it[k + 1])
      OBVIOUS
    <3>1. k < Len(w) /\ k <= Len(w) /\ w[k + 1] \in Wants
      BY <1>1
    <3>2. it[k + 1] = DispatchOne(it[k], w[k + 1]) /\ AskInv(it[k])
      BY <1>2, <2>2, <3>1 DEF Dispatches
    <3> QED BY <3>1, <3>2, DispatchOneKeeps
  <2> HIDE DEF D
  <2>3. Len(w) \in D
    BY <1>1, <2>1, <2>2, Induction
  <2> QED BY <1>1, <1>2, <2>3 DEF D, Dispatches
<1> DEFINE S == (Pages \ DOMAIN done.view.loaded) \X Rotations
           left == Chosen(done.view.wanted, S)
           v == [done.view EXCEPT !.wanted = left]
           t == [done EXCEPT !.view = v]
<1>4. DispatchWanted(s) = t
  BY Zenon DEF DispatchWanted, w
<1> HIDE DEF done
<1>5. /\ done \in Askings /\ done.view \in Views /\ done.view.wanted \in Seq(Wants)
      /\ Shows(done.view.loaded, done.view.book) /\ done.view.book \in Books
      /\ QueueInv(done.fast) /\ QueueInv(done.slow) /\ MemoryInv(done.memory)
  BY <1>3 DEF AskInv, ViewInv, Views
<1>6. left \in Seq(Wants)
  <2>1. left \in Seq(Wants \cap S)
    <3> HIDE DEF S
    <3> QED BY <1>5, ChosenIn
  <2> HIDE DEF S, left
  <2> QED BY <2>1
<1> HIDE DEF left
<1>7. v \in Views /\ v.loaded = done.view.loaded /\ v.book = done.view.book
  BY <1>5, <1>6 DEF Views
<1> HIDE DEF v
<1>8. /\ t \in Askings /\ t.view = v /\ t.fast = done.fast /\ t.slow = done.slow
      /\ t.memory = done.memory
  BY <1>5, <1>7 DEF Askings
<1> HIDE DEF t
<1> QED BY <1>4, <1>5, <1>7, <1>8 DEF AskInv, ViewInv

\* queue_for makes the list of the wanted pages anew and unloads what is far; then
\* it dispatches.
LEMMA QueueForSteps ==
    ASSUME NEW s, AskInv(s), NEW p \in Pages
    PROVE  \E t : /\ AskInv(t) /\ QueueFor(s, p) = DispatchWanted(t)
                  /\ t.fast = s.fast /\ t.slow = s.slow
                  /\ t.view.book = s.view.book /\ t.view.queued = s.view.queued
<1> DEFINE near == <<p>> \o Neighbours(s.view, p)
           S == Pages \ DOMAIN s.view.loaded
           missing == Chosen(near, S)
           kept == {n \in DOMAIN s.view.loaded : n - p \in (-Window)..Window}
           wanted == [i \in DOMAIN missing |-> <<missing[i], s.view.rotations[missing[i]]>>]
           f == [n \in kept |-> s.view.loaded[n]]
           v == [s.view EXCEPT !.wanted = wanted, !.loaded = f]
           t == [s EXCEPT !.view = v]
<1>1. /\ s \in Askings /\ s.view \in Views /\ s.view.loaded \in Loads
      /\ Shows(s.view.loaded, s.view.book) /\ s.view.rotations \in [Pages -> Rotations]
      /\ s.view.layout \in Layouts
  BY DEF AskInv, Askings, ViewInv, Views
<1>2. p \in Int /\ Window \in Nat
  BY ConstantsAssumption DEF Pages
<1>3. near \in Seq(Int)
  <2>1. Neighbours(s.view, p) \in Seq(Int)
    <3>1. CASE s.view.layout = "single"
      BY <3>1 DEF Neighbours
    <3>2. CASE s.view.layout = "double"
      BY <1>2, <3>2 DEF Neighbours
    <3>3. CASE s.view.layout = "continuous"
      <4> DEFINE ahead == [i \in 1..Window |-> p + i]
      <4>1. ahead \in Seq(Int)
        <5>1. \A i \in 1..Window : p + i \in Int
          BY <1>2
        <5> QED BY <1>2, <5>1
      <4>2. <<p - 1>> \in Seq(Int)
        BY <1>2
      <4>3. Neighbours(s.view, p) = ahead \o <<p - 1>>
        BY <3>3 DEF Neighbours
      <4> HIDE DEF ahead
      <4> QED BY <4>1, <4>2, <4>3
    <3> QED BY <1>1, <3>1, <3>2, <3>3 DEF Layouts
  <2>2. <<p>> \in Seq(Int)
    BY <1>2
  <2> QED BY <2>1, <2>2
<1> HIDE DEF near
<1>4. missing \in Seq(Pages)
  <2>1. missing \in Seq(Int \cap S)
    <3> HIDE DEF S
    <3> QED BY <1>3, ChosenIn
  <2> HIDE DEF missing
  <2> QED BY <2>1
<1> HIDE DEF missing
<1>5. wanted \in Seq(Wants)
  <2>1. DOMAIN missing = 1..Len(missing) /\ Len(missing) \in Nat
    BY <1>4
  <2>2. \A i \in 1..Len(missing) : <<missing[i], s.view.rotations[missing[i]]>> \in Wants
    BY <1>1, <1>4 DEF Wants
  <2> QED BY <2>1, <2>2
<1>6. f \in Loads /\ Shows(f, s.view.book)
  <2>1. kept \subseteq DOMAIN s.view.loaded
    OBVIOUS
  <2> HIDE DEF kept
  <2> QED BY <1>1, <2>1, UnloadKeeps
<1> HIDE DEF wanted, f
<1>7. v \in Views /\ v.loaded = f /\ v.book = s.view.book /\ v.queued = s.view.queued
  BY <1>1, <1>5, <1>6 DEF Views
<1>8. QueueFor(s, p) = DispatchWanted(t)
  <2>1. QueueFor(s, p) =
            DispatchWanted([s EXCEPT !.view.wanted = wanted, !.view.loaded = [n \in kept |-> @[n]]])
    BY Zenon DEF QueueFor, wanted, missing, near
  <2>2. [s EXCEPT !.view.wanted = wanted, !.view.loaded = [n \in kept |-> @[n]]] = t
    BY <1>1 DEF f, Askings, Views
  <2> QED BY <2>1, <2>2
<1> HIDE DEF v
<1>9. /\ t \in Askings /\ t.view = v /\ t.fast = s.fast /\ t.slow = s.slow /\ t.memory = s.memory
  BY <1>1, <1>7 DEF Askings
<1> HIDE DEF t
<1>10. AskInv(t)
  BY <1>6, <1>7, <1>9 DEF AskInv, ViewInv
<1> QED BY <1>7, <1>8, <1>9, <1>10

\* The page and its neighbours.
LEMMA QueueForKeeps ==
    ASSUME NEW s, AskInv(s), NEW p \in Pages
    PROVE  AskInv(QueueFor(s, p))
  BY QueueForSteps, DispatchKeeps

\* The composition touches nothing else.
LEMMA RecomposeKeeps ==
    ASSUME NEW v, ViewInv(v)
    PROVE  /\ ViewInv(Recompose(v)) /\ Recompose(v).book = v.book
           /\ Recompose(v).queued = v.queued
<1> DEFINE c == v.layout # "continuous" /\ v.page \in DOMAIN v.loaded
<1>1. c \in BOOLEAN
  OBVIOUS
<1>2. Recompose(v) = [v EXCEPT !.composed = c]
  BY DEF Recompose
<1> HIDE DEF c
<1> QED BY <1>1, <1>2 DEF ViewInv, Views

\* What the handler of a page's result makes of the view.
LEMMA LoadedKeeps ==
    ASSUME NEW v, ViewInv(v), NEW done \in Dones,
           Belongs(done.image, done.book, PageIndex(done.page))
    PROVE  ViewInv(OnPageLoaded(v, done))
<1>1. CASE done.book # v.book
  BY <1>1 DEF OnPageLoaded
<1>2. CASE done.book = v.book
  <2> DEFINE S == (Pages \ {done.page}) \X Rotations
             queued == v.queued \ {<<done.page, done.rotation>>}
             f == Load(v.loaded, done.page, done.image)
             wanted == Chosen(v.wanted, S)
             u == [v EXCEPT !.queued = queued, !.loaded = f, !.wanted = wanted]
  <2>1. /\ v \in Views /\ v.loaded \in Loads /\ Shows(v.loaded, v.book)
        /\ v.queued \in SUBSET Wants /\ v.wanted \in Seq(Wants)
        /\ done.page \in Pages /\ done.image \in Images /\ v.book # NoBook
    BY <1>2, ConstantsAssumption DEF ViewInv, Views, Dones
  <2>2. f \in Loads /\ Shows(f, v.book)
    BY <1>2, <2>1, LoadKeeps
  <2>3. wanted \in Seq(Wants)
    <3>1. wanted \in Seq(Wants \cap S)
      <4> HIDE DEF S
      <4> QED BY <2>1, ChosenIn
    <3> HIDE DEF S, wanted
    <3> QED BY <3>1
  <2>4. OnPageLoaded(v, done) = Recompose(u)
    BY <1>2, Zenon DEF OnPageLoaded
  <2>5. queued \in SUBSET Wants
    BY <2>1
  <2> HIDE DEF f, wanted, queued
  <2>6. u \in Views /\ u.loaded = f /\ u.book = v.book
    BY <2>1, <2>2, <2>3, <2>5 DEF Views
  <2> HIDE DEF u
  <2>7. ViewInv(u)
    BY <2>2, <2>6 DEF ViewInv
  <2> QED BY <2>4, <2>7, RecomposeKeeps
<1> QED BY <1>1, <1>2

\* The results that are the page they name.
Results == {d \in Dones : Belongs(d.image, d.book, PageIndex(d.page))}

\* The views that the pump goes through.
Drains(it, v, w) ==
    /\ it[0] = v
    /\ \A k \in Nat : k < Len(w) => it[k + 1] = OnPageLoaded(it[k], w[k + 1])
    /\ FoldLeft(OnPageLoaded, v, w) = it[Len(w)]

\* The rounds of the pump, one by one.
LEMMA DrainSteps ==
    ASSUME NEW v, ViewInv(v), NEW w \in Seq(Results)
    PROVE  \E it : Drains(it, v, w)
<1> DEFINE V == {u \in Views : ViewInv(u)}
           C == Results
           F == [p \in V \X C |-> OnPageLoaded(p[1], p[2])]
           n == Len(w)
           G(h) == h = [t \in SUBSET DOMAIN w |->
                          IF t = {} THEN v
                          ELSE OnPageLoaded(h[t \ {Max(t)}], w[Max(t)])]
           g == CHOOSE h : G(h)
<1>1. n \in Nat /\ DOMAIN w = 1..n /\ (\A i \in 1..n : w[i] \in C) /\ v \in V
  BY DEF ViewInv
<1>2. F \in [V \X C -> V]
  <2>1. \A p \in V, c \in C : OnPageLoaded(p, c) \in V
    BY LoadedKeeps DEF ViewInv, Results
  <2> HIDE DEF V, C
  <2> QED BY <2>1
<1>3. FoldLeft(OnPageLoaded, v, w) = g[DOMAIN w]
  BY Zenon DEF FoldLeft, MapThenFoldSet
<1>4. G(g)
  <2>1. PICK h : FoldsBy(h, V, F, v, w, n)
    <3> HIDE DEF V, C, F, n
    <3> QED BY <1>1, <1>2, FoldExists
  <2>2. ASSUME NEW t \in SUBSET (1..n), t # {}, Max(t) \in t
        PROVE  h[t] = OnPageLoaded(h[t \ {Max(t)}], w[Max(t)])
    <3>1. h[t \ {Max(t)}] \in V /\ w[Max(t)] \in C
      BY <1>1, <2>1, <2>2 DEF FoldsBy
    <3>2. h[t] = F[<<h[t \ {Max(t)}], w[Max(t)]>>]
      <4> HIDE DEF V, C, F
      <4> QED BY <2>1, <2>2 DEF FoldsBy
    <3> HIDE DEF V, C
    <3> QED BY <3>1, <3>2
  <2>3. ASSUME NEW t \in SUBSET (1..n), t # {} PROVE Max(t) \in t
    BY <1>1, <2>3, LargestElement
  <2>4. G(h)
    BY <1>1, <2>1, <2>2, <2>3 DEF FoldsBy
  <2> QED BY <2>4, Zenon
<1>5. ASSUME NEW t \in SUBSET (1..n), t # {}
      PROVE  g[t] = OnPageLoaded(g[t \ {Max(t)}], w[Max(t)])
  <2> HIDE DEF g
  <2> QED BY <1>1, <1>4, <1>5
<1>6. g[{}] = v
  <2> HIDE DEF g
  <2> QED BY <1>1, <1>4
<1> HIDE DEF G, F, g, V, C, n
<1> DEFINE it == [k \in Nat |-> g[1..k]]
<1>7. ASSUME NEW k \in Nat, k < n
      PROVE  it[k + 1] = OnPageLoaded(it[k], w[k + 1])
  <2>1. 1..(k + 1) \in SUBSET (1..n) /\ k + 1 \in 1..(k + 1) /\ 1..(k + 1) # {}
    <3>1. n \in Nat
      BY <1>1
    <3>2. k + 1 \in 1..(k + 1) /\ \A i \in 1..(k + 1) : i \in 1..n
      BY <1>7, <3>1
    <3> QED BY <3>2
  <2>2. Max(1..(k + 1)) = k + 1 /\ (1..(k + 1)) \ {k + 1} = 1..k
    BY <2>1, LastOf
  <2>3. g[1..(k + 1)] = OnPageLoaded(g[1..k], w[k + 1])
    BY <1>5, <2>1, <2>2
  <2> QED BY <2>3
<1>8. it[0] = v /\ FoldLeft(OnPageLoaded, v, w) = it[n]
  BY <1>1, <1>3, <1>6
<1> HIDE DEF it
<1> QED BY <1>7, <1>8 DEF Drains, n

\* All results that wait in the channel.
LEMMA DrainKeeps ==
    ASSUME NEW v, ViewInv(v), NEW w \in Seq(Results)
    PROVE  ViewInv(FoldLeft(OnPageLoaded, v, w))
<1>1. PICK it : Drains(it, v, w)
  BY DrainSteps
<1> DEFINE D == {k \in Nat : k <= Len(w) => ViewInv(it[k])}
<1>2. 0 \in D
  BY <1>1 DEF Drains
<1>3. ASSUME NEW k \in Nat, k \in D PROVE k + 1 \in D
  <2> SUFFICES ASSUME k + 1 <= Len(w) PROVE ViewInv(it[k + 1])
    OBVIOUS
  <2>1. k < Len(w) /\ k <= Len(w) /\ w[k + 1] \in Results
    OBVIOUS
  <2>2. it[k + 1] = OnPageLoaded(it[k], w[k + 1]) /\ ViewInv(it[k])
    BY <1>1, <1>3, <2>1 DEF Drains
  <2> QED BY <2>1, <2>2, LoadedKeeps DEF Results
<1> HIDE DEF D
<1>4. Len(w) \in D
  BY <1>2, <1>3, Induction
<1> QED BY <1>1, <1>4 DEF D, Drains
--------------------------------------------------------------------------------
(* The invariant.                                                          *)

Jobs == [pc : {"look", "render", "store", "send", "finish"}, key : Keys,
         callback : Callbacks, image : Images]

\* A worker's callback fits its key, and its image is the page of its key.
WorkerInv(job) ==
    \/ job = Idle
    \/ /\ job \in Jobs
       /\ Fits(job.callback, job.key)
       /\ job.pc = "store" => job.image = job.key /\ Raw(job.key) \notin Unreadable
       /\ job.pc \in {"send", "finish"} => Belongs(job.image, job.key.book, job.key.index)

WorkersInv == DOMAIN worker = Workers /\ \A w \in Workers : WorkerInv(worker[w])

PoolInv == QueueInv(fast) /\ QueueInv(slow) /\ MemoryInv(memory)

\* Every place a page passes through holds it as what it is.
ShownInv ==
    /\ ViewInv(view)
    /\ channel \in Seq(Results)
    /\ pump \in BOOLEAN
    /\ PoolInv
    /\ WorkersInv
    /\ disk \subseteq Books \X Pages
    /\ moves \in 0..MaxMoves

\* Nothing is loaded, asked for or on its way.
LEMMA ShownInit == Init => ShownInv
<1> SUFFICES ASSUME Init PROVE ShownInv
  OBVIOUS
<1>1. 0 \in Pages /\ "none" \in Rotations /\ QueueSize \in Nat /\ MemoryItems \in Nat
  BY ConstantsAssumption DEF Pages
<1>2. ViewInv(view)
  <2> DEFINE f == [p \in {} |-> ErrorPage]
  <2>1. f \in Loads /\ DOMAIN f = {}
    <3>1. DOMAIN f = {} /\ f = [x \in DOMAIN f |-> f[x]]
      OBVIOUS
    <3> HIDE DEF f
    <3> QED BY <3>1, LoadsAre
  <2> HIDE DEF f
  <2>2. view = [book |-> NoBook, page |-> 0, layout |-> "single",
                rotations |-> [p \in Pages |-> "none"],
                loaded |-> f, queued |-> {}, wanted |-> <<>>, composed |-> FALSE]
    BY DEF Init, f
  <2>3. view \in Views /\ view.loaded = f
    BY <1>1, <2>1, <2>2 DEF Views, Layouts
  <2> QED BY <2>1, <2>3 DEF ViewInv, Shows
<1>3. QueueInv(NewQueue(QueueSize))
  <2> DEFINE q == NewQueue(QueueSize)
             f == [k \in {} |-> {}]
  <2>1. f \in Tables /\ DOMAIN f = {}
    <3>1. DOMAIN f = {} /\ f = [x \in DOMAIN f |-> f[x]]
      OBVIOUS
    <3> HIDE DEF f
    <3> QED BY <3>1, TablesAre
  <2> HIDE DEF f
  <2>2. q = [order |-> <<>>, entries |-> f, size |-> QueueSize]
    BY DEF NewQueue, f
  <2> HIDE DEF q
  <2>3. /\ DOMAIN q = {"order", "entries", "size"} /\ q.order = <<>> /\ q.entries = f
        /\ q.size = QueueSize
    BY <2>2
  <2>4. q \in Queues
    BY <2>1, <2>2 DEF Queues
  <2>5. IsQueue(q, Keys, Callbacks)
    BY <1>1, <2>1, <2>3 DEF IsQueue
  <2>6. Consistent(q)
    <3>1. ToSet(<<>>) = {} /\ Len(<<>>) = 0 /\ Once(<<>>)
      BY DEF ToSet, Once
    <3>2. ToSet(q.order) = Queued(q) /\ Once(q.order)
      BY <2>1, <2>3, <3>1, Zenon DEF Queued
    <3>3. Len(q.order) = 0 /\ q.size \in Nat
      BY <1>1, <2>3, <3>1, Zenon
    <3>4. Len(q.order) <= q.size
      <4> HIDE DEF Queued
      <4> QED BY <3>3
    <3> QED BY <3>2, <3>4, QueueOnce
  <2> QED BY <2>1, <2>3, <2>4, <2>5, <2>6 DEF QueueInv, Queued, q
<1>4. MemoryInv(memory)
  <2> DEFINE f == [k \in {} |-> 0]
  <2>1. f \in Sizes /\ DOMAIN f = {}
    <3>1. DOMAIN f = {} /\ f = [x \in DOMAIN f |-> f[x]]
      OBVIOUS
    <3> HIDE DEF f
    <3> QED BY <3>1, SizesAre
  <2> HIDE DEF f
  <2>2. memory = [recency |-> <<>>, sizes |-> f, bytes |-> 0]
    BY DEF Init, NewPool, f
  <2>3. memory \in Pools /\ memory.recency = <<>> /\ memory.sizes = f /\ memory.bytes = 0
    BY <2>1, <2>2 DEF Pools
  <2>4. ToSet(<<>>) = {} /\ Len(<<>>) = 0 /\ Once(<<>>)
    BY DEF ToSet, Once
  <2> QED BY <1>1, <2>1, <2>3, <2>4 DEF MemoryInv
<1>5. WorkersInv
  BY DEF Init, WorkersInv, WorkerInv
<1>6. disk \subseteq Books \X Pages
  BY ConstantsAssumption DEF Init
<1>7. /\ channel \in Seq(Results) /\ pump \in BOOLEAN /\ moves \in 0..MaxMoves
      /\ fast = NewQueue(QueueSize) /\ slow = NewQueue(QueueSize)
  <2>1. channel = <<>> /\ pump = FALSE /\ moves = 0 /\ MaxMoves \in Nat
    BY ConstantsAssumption, Zenon DEF Init
  <2>2. <<>> \in Seq(Results)
    OBVIOUS
  <2>3. fast = NewQueue(QueueSize) /\ slow = NewQueue(QueueSize)
    BY Zenon DEF Init
  <2>4. 0 \in 0..MaxMoves
    BY <2>1
  <2> QED BY <2>1, <2>2, <2>3, <2>4, Zenon
<1> QED BY <1>2, <1>3, <1>4, <1>5, <1>6, <1>7 DEF ShownInv, PoolInv

\* Whatever the reader asks for, asking keeps the view and the pool.
LEMMA AskKeeps ==
    ASSUME PoolInv, pump \in BOOLEAN, NEW v, ViewInv(v), v.book \in Books, NEW p \in Pages,
           NEW composes \in BOOLEAN, Ask(v, p, composes)
    PROVE  ViewInv(view') /\ PoolInv' /\ pump' \in BOOLEAN /\ UNCHANGED <<channel, worker, disk>>
<1> DEFINE h == Here(v)
           s == QueueFor(h, p)
           waits == s.view.wanted # <<>>
<1>1. AskInv(h)
  <2>1. /\ v \in Views /\ fast \in Queues /\ slow \in Queues /\ memory \in Pools
    BY DEF PoolInv, ViewInv, QueueInv, MemoryInv
  <2>2. /\ h \in Askings /\ h.view = v /\ h.fast = fast /\ h.slow = slow /\ h.memory = memory
    BY <2>1 DEF Here, Askings
  <2> HIDE DEF h
  <2> QED BY <2>2 DEF AskInv, PoolInv
<1> HIDE DEF h
<1>2. AskInv(s)
  BY <1>1, QueueForKeeps
<1>3. /\ view' = IF composes /\ ~waits THEN Recompose(s.view) ELSE s.view
      /\ pump' = (pump \/ waits) /\ fast' = s.fast /\ slow' = s.slow /\ memory' = s.memory
      /\ UNCHANGED <<channel, worker, disk>>
  BY Zenon DEF Ask, h
<1>4. pump' \in BOOLEAN
  BY <1>3
<1> HIDE DEF s, waits
<1>5. ViewInv(view')
  BY <1>2, <1>3, RecomposeKeeps DEF AskInv
<1>6. PoolInv'
  BY <1>2, <1>3 DEF AskInv, PoolInv
<1> QED BY <1>3, <1>4, <1>5, <1>6

\* A handler asks for a page, for a view with the requests of this one or with none.
Requests ==
    /\ Move
    /\ \E v \in Views, p \in Pages, composes \in BOOLEAN :
          /\ ViewInv(v) /\ v.book \in Books /\ Ask(v, p, composes)
          /\ v.queued = {} \/ (v.queued = view.queued /\ v.book = view.book)

\* Each handler of the reader does; the one that opens a comic has none.
LEMMA ReaderAsks == ViewInv(view) /\ Reader => Requests
<1> SUFFICES ASSUME ViewInv(view), Reader PROVE Requests
  OBVIOUS
<1>1. /\ view \in Views /\ view.loaded \in Loads /\ Shows(view.loaded, view.book)
      /\ view.page \in Pages /\ view.book \in Books \cup {NoBook}
  BY DEF ViewInv, Views
<1>4. ASSUME NEW v, ViewInv(v), v.book \in Books, NEW p \in Pages, NEW composes \in BOOLEAN,
             Ask(v, p, composes), Move,
             v.queued = {} \/ (v.queued = view.queued /\ v.book = view.book)
      PROVE  Requests
  <2>1. v \in Views
    BY <1>4 DEF ViewInv
  <2> QED BY <1>4, <2>1, Zenon DEF Requests
<1>5. ASSUME NEW v, ViewInv(v), v.book \in Books, NEW p \in Pages, RequestAndGo(v, p), Move,
             v.queued = {} \/ (v.queued = view.queued /\ v.book = view.book)
      PROVE  Requests
  <2> DEFINE u == [v EXCEPT !.page = p, !.composed = FALSE]
  <2>1. ViewInv(u) /\ u.book = v.book /\ u.queued = v.queued
    BY <1>5 DEF ViewInv, Views
  <2>2. Ask(u, p, TRUE)
    BY <1>5 DEF RequestAndGo
  <2> HIDE DEF u
  <2> QED BY <1>4, <1>5, <2>1, <2>2
<1>6. ASSUME NEW b \in Books, NEW p \in Pages, Open(b, p) PROVE Requests
  <2> DEFINE rotations == [n \in Pages |-> "none"]
             f == [n \in {} |-> ErrorPage]
             v == [view EXCEPT !.book = b, !.page = p, !.rotations = rotations,
                               !.loaded = f, !.queued = {}, !.wanted = <<>>]
  <2>1. f \in Loads /\ DOMAIN f = {}
    <3>1. DOMAIN f = {} /\ f = [x \in DOMAIN f |-> f[x]]
      OBVIOUS
    <3> HIDE DEF f
    <3> QED BY <3>1, LoadsAre
  <2> HIDE DEF f
  <2>2. rotations \in [Pages -> Rotations]
    BY ConstantsAssumption
  <2> HIDE DEF rotations
  <2>3. v \in Views /\ v.loaded = f /\ v.book = b /\ v.queued = {}
    <3> DEFINE none == <<>>
    <3>1. none \in Seq(Wants) /\ {} \in SUBSET Wants /\ b \in Books \cup {NoBook}
      OBVIOUS
    <3> HIDE DEF none
    <3>2. v = [view EXCEPT !.book = b, !.page = p, !.rotations = rotations,
                           !.loaded = f, !.queued = {}, !.wanted = none]
      BY Zenon DEF none
    <3> HIDE DEF v
    <3> QED BY <1>1, <2>1, <2>2, <3>1, <3>2 DEF Views
  <2>4. RequestAndGo(v, p) /\ Move
    BY <1>6, Zenon DEF Open, f, rotations
  <2> HIDE DEF v
  <2>5. ViewInv(v)
    BY <2>1, <2>3 DEF ViewInv, Shows
  <2> QED BY <1>5, <2>3, <2>4, <2>5
<1>7. ViewInv(view) /\ (view.book # NoBook => view.book \in Books)
  BY <1>1 DEF ViewInv
<1>8. ASSUME NEW p \in Pages, GoToPage(p) PROVE Requests
  BY <1>5, <1>7, <1>8 DEF GoToPage
<1>9. ASSUME NEW p \in Pages, Scroll(p) PROVE Requests
  <2> DEFINE u == [view EXCEPT !.page = p]
  <2>1. ViewInv(u) /\ u.book = view.book /\ u.queued = view.queued
    BY <1>1, <1>7 DEF ViewInv, Views
  <2>2. Ask(u, p, FALSE) /\ Move /\ view.book # NoBook
    BY <1>9 DEF Scroll
  <2> HIDE DEF u
  <2> QED BY <1>4, <1>7, <2>1, <2>2
<1>10. ASSUME NEW layout \in Layouts, SetPageLayout(layout) PROVE Requests
  <2> DEFINE u == [view EXCEPT !.layout = layout]
  <2>1. ViewInv(u) /\ u.book = view.book /\ u.queued = view.queued
    BY <1>1, <1>7 DEF ViewInv, Views
  <2>2. Ask(Recompose(u), view.page, FALSE) /\ Move /\ view.book # NoBook
    BY <1>10 DEF SetPageLayout
  <2> HIDE DEF u
  <2>3. /\ ViewInv(Recompose(u)) /\ Recompose(u).book = u.book
        /\ Recompose(u).queued = u.queued
    BY <2>1, RecomposeKeeps
  <2> QED BY <1>1, <1>4, <1>7, <2>1, <2>2, <2>3
<1>11. ASSUME NEW r \in Rotations, RotatePage(r) PROVE Requests
  <2> DEFINE p == view.page
             rest == DOMAIN view.loaded \ {p}
             f == [n \in rest |-> view.loaded[n]]
             rotations == [view.rotations EXCEPT ![p] = r]
             u == [view EXCEPT !.rotations = rotations, !.loaded = f, !.composed = FALSE]
  <2>1. f \in Loads /\ Shows(f, view.book)
    <3>1. rest \subseteq DOMAIN view.loaded
      OBVIOUS
    <3> HIDE DEF rest
    <3> QED BY <1>1, <3>1, UnloadKeeps
  <2>2. rotations \in [Pages -> Rotations]
    BY <1>1 DEF Views
  <2>3. Ask(u, p, FALSE) /\ Move /\ view.book # NoBook
    <3>1. /\ Ask([view EXCEPT !.rotations[p] = r, !.loaded = [n \in rest |-> @[n]],
                              !.composed = FALSE], p, FALSE)
          /\ Move /\ view.book # NoBook
      BY <1>11, Zenon DEF RotatePage
    <3>2. [view EXCEPT !.rotations[p] = r, !.loaded = [n \in rest |-> @[n]],
                       !.composed = FALSE] = u
      OBVIOUS
    <3> HIDE DEF u
    <3> QED BY <3>1, <3>2
  <2> HIDE DEF f, rotations
  <2>4. u \in Views /\ u.loaded = f /\ u.book = view.book /\ u.queued = view.queued
    BY <1>1, <2>1, <2>2 DEF Views
  <2> HIDE DEF u
  <2>5. ViewInv(u)
    BY <2>1, <2>4 DEF ViewInv
  <2> QED BY <1>1, <1>4, <1>7, <2>3, <2>4, <2>5
<1> QED BY <1>6, <1>8, <1>9, <1>10, <1>11 DEF Reader

\* The reader's handlers.
LEMMA ReaderStep == ShownInv /\ Reader => ShownInv'
<1> SUFFICES ASSUME ShownInv, Reader PROVE ShownInv'
  OBVIOUS
<1>1. /\ PoolInv /\ pump \in BOOLEAN /\ channel \in Seq(Results) /\ WorkersInv /\ ViewInv(view)
      /\ disk \subseteq Books \X Pages /\ moves \in 0..MaxMoves /\ MaxMoves \in Nat
  BY ConstantsAssumption DEF ShownInv
<1>2. PICK v \in Views, p \in Pages, composes \in BOOLEAN :
          ViewInv(v) /\ v.book \in Books /\ Ask(v, p, composes)
  BY <1>1, ReaderAsks, Zenon DEF Requests
<1>3. ViewInv(view') /\ PoolInv' /\ pump' \in BOOLEAN /\ UNCHANGED <<channel, worker, disk>>
  BY <1>1, <1>2, AskKeeps
<1>4. moves' \in 0..MaxMoves
  <2>1. Move
    BY <1>1, ReaderAsks, Zenon DEF Requests
  <2> QED BY <1>1, <2>1 DEF Move
<1> QED BY <1>1, <1>3, <1>4 DEF ShownInv, WorkersInv

\* The steps of a worker.
LEMMA WorkerKeeps ==
    ASSUME ShownInv, NEW w \in Workers, WorkerStep(w)
    PROVE  ShownInv'
<1> DEFINE job == worker[w]
           k == job.key
<1>1. /\ ViewInv(view) /\ PoolInv /\ pump \in BOOLEAN /\ channel \in Seq(Results)
      /\ DOMAIN worker = Workers /\ (\A x \in Workers : WorkerInv(worker[x]))
      /\ disk \subseteq Books \X Pages /\ moves \in 0..MaxMoves
      /\ QueueInv(fast) /\ QueueInv(slow) /\ MemoryInv(memory) /\ WorkerInv(job)
  BY DEF ShownInv, PoolInv, WorkersInv
<1>2. job.pc # "idle" =>
         /\ job \in Jobs /\ Fits(job.callback, k) /\ k \in Keys /\ job.callback \in Callbacks
         /\ job.pc = "store" => job.image = k /\ Raw(k) \notin Unreadable
         /\ job.pc \in {"send", "finish"} => Belongs(job.image, k.book, k.index)
  BY <1>1 DEF WorkerInv, Idle, Jobs
<1>3. ASSUME NEW new, WorkerInv(new), worker' = [worker EXCEPT ![w] = new]
      PROVE  WorkersInv'
  BY <1>1, <1>3 DEF WorkersInv
<1>4. ASSUME NEW q, QueueInv(q), SetQueue(w, q)
      PROVE  QueueInv(fast') /\ QueueInv(slow')
  BY <1>1, <1>4 DEF SetQueue
<1>5. QueueInv(QueueOf(w))
  BY <1>1 DEF QueueOf
<1>6. CASE WorkerStarts(w)
  <2> DEFINE q == QueueOf(w)
             x == NextItem(q)
             new == [pc |-> "look", key |-> x, image |-> ErrorPage,
                     callback |-> q.entries[x].callback]
  <2>1. x \in Waiting(q) /\ QueueInv(Claim(q))
    BY <1>5, <1>6, ClaimKeeps DEF WorkerStarts
  <2>2. worker' = [worker EXCEPT ![w] = new] /\ SetQueue(w, Claim(q))
        /\ UNCHANGED <<view, channel, pump, memory, disk, moves>>
    BY <1>6, Zenon DEF WorkerStarts
  <2>3. x \in Keys /\ q.entries[x].callback \in Callbacks /\ Fits(q.entries[x].callback, x)
    <3> HIDE DEF q, x
    <3> QED BY <1>5, <2>1 DEF QueueInv, IsQueue, Queued, Waiting, q
  <2> HIDE DEF q, x
  <2>4. WorkerInv(new)
    <3>1. new \in Jobs /\ new.pc = "look" /\ new.callback = q.entries[x].callback /\ new.key = x
      BY <2>3 DEF Jobs, Images
    <3> HIDE DEF new
    <3> QED BY <2>3, <3>1 DEF WorkerInv
  <2> HIDE DEF new
  <2>5. WorkersInv' /\ QueueInv(fast') /\ QueueInv(slow')
    BY <1>3, <1>4, <2>1, <2>2, <2>4
  <2> QED BY <1>1, <2>2, <2>5 DEF ShownInv, PoolInv
<1>7. CASE WorkerLooks(w)
  <2> DEFINE new == IF InPool(memory, k)
                    THEN [job EXCEPT !.pc = "send", !.image = k]
                    ELSE [job EXCEPT !.pc = "render"]
  <2>1. /\ job.pc = "look" /\ worker' = [worker EXCEPT ![w] = new] /\ memory' = Touch(memory, k)
        /\ UNCHANGED <<view, channel, pump, fast, slow, disk, moves>>
    BY <1>7, Zenon DEF WorkerLooks
  <2>2. MemoryInv(memory')
    BY <1>1, <1>2, <2>1, TouchKeeps
  <2>3. WorkerInv(new)
    <3>1. CASE InPool(memory, k)
      <4>1. Raw(k) \notin Unreadable
        BY <1>1, <3>1, SizesAre DEF InPool, MemoryInv, Pools
      <4>2. k \in Images /\ Belongs(k, k.book, k.index)
        BY <1>2, <2>1, <4>1, KeyBelongs
      <4>3. /\ new \in Jobs /\ new.pc = "send" /\ new.image = k /\ new.key = k
            /\ new.callback = job.callback
        BY <1>2, <2>1, <3>1, <4>2 DEF Jobs
      <4> HIDE DEF new
      <4> QED BY <1>2, <2>1, <4>2, <4>3 DEF WorkerInv
    <3>2. CASE ~InPool(memory, k)
      <4>1. /\ new \in Jobs /\ new.pc = "render" /\ new.key = k
            /\ new.callback = job.callback
        BY <1>2, <2>1, <3>2 DEF Jobs
      <4> HIDE DEF new
      <4> QED BY <1>2, <2>1, <4>1 DEF WorkerInv
    <3> QED BY <3>1, <3>2
  <2> HIDE DEF new
  <2>4. WorkersInv'
    BY <1>3, <2>1, <2>3
  <2> QED BY <1>1, <2>1, <2>2, <2>4 DEF ShownInv, PoolInv
<1>8. CASE WorkerRenders(w)
  <2> DEFINE new == IF Raw(k) \in Unreadable
                    THEN [job EXCEPT !.pc = "send", !.image = ErrorPage]
                    ELSE [job EXCEPT !.pc = "store", !.image = k]
  <2>1. /\ job.pc = "render" /\ UNCHANGED <<view, channel, pump, fast, slow, memory, moves>>
        /\ disk' \subseteq disk \cup {Raw(k)}
    BY <1>8 DEF WorkerRenders
  <2>2. worker' = [worker EXCEPT ![w] = new]
    <3>1. CASE Raw(k) \in Unreadable
      <4>1. worker' = [worker EXCEPT ![w].pc = "send", ![w].image = ErrorPage]
        BY <1>8, <3>1 DEF WorkerRenders
      <4> QED BY <1>1, <3>1, <4>1
    <3>2. CASE Raw(k) \notin Unreadable
      <4>1. worker' = [worker EXCEPT ![w].pc = "store", ![w].image = k]
        BY <1>8, <3>2 DEF WorkerRenders
      <4> QED BY <1>1, <3>2, <4>1
    <3> QED BY <3>1, <3>2
  <2>3. WorkerInv(new)
    <3>1. CASE Raw(k) \in Unreadable
      <4>1. Belongs(ErrorPage, k.book, k.index)
        BY <3>1 DEF Belongs, Raw
      <4>2. /\ new \in Jobs /\ new.pc = "send" /\ new.image = ErrorPage /\ new.key = k
            /\ new.callback = job.callback
        BY <1>2, <2>1, <3>1 DEF Jobs, Images
      <4> HIDE DEF new
      <4> QED BY <1>2, <2>1, <4>1, <4>2 DEF WorkerInv
    <3>2. CASE Raw(k) \notin Unreadable
      <4>1. /\ new \in Jobs /\ new.pc = "store" /\ new.image = k /\ new.key = k
            /\ new.callback = job.callback
        BY <1>2, <2>1, <3>2 DEF Jobs, Images
      <4> HIDE DEF new
      <4> QED BY <1>2, <2>1, <3>2, <4>1 DEF WorkerInv
    <3> QED BY <3>1, <3>2
  <2> HIDE DEF new
  <2>4. WorkersInv'
    BY <1>3, <2>2, <2>3
  <2>5. disk' \subseteq Books \X Pages
    <3>1. Raw(k) \in Books \X Pages
      BY <1>2, <2>1 DEF Keys, Raw
    <3> QED BY <1>1, <2>1, <3>1
  <2> QED BY <1>1, <2>1, <2>4, <2>5 DEF ShownInv, PoolInv
<1>9. CASE WorkerStores(w)
  <2> DEFINE new == [job EXCEPT !.pc = "send"]
  <2>1. /\ job.pc = "store" /\ worker' = [worker EXCEPT ![w].pc = "send"]
        /\ memory' = LockItem(memory, k, 1, MemoryItems, 0)
        /\ UNCHANGED <<view, channel, pump, fast, slow, disk, moves>>
    BY <1>9 DEF WorkerStores
  <2>2. worker' = [worker EXCEPT ![w] = new]
    BY <1>1, <2>1
  <2>3. WorkerInv(new)
    <3>1. Belongs(k, k.book, k.index)
      BY <1>2, <2>1, KeyBelongs
    <3>2. /\ new \in Jobs /\ new.pc = "send" /\ new.image = k /\ new.key = k
          /\ new.callback = job.callback
      BY <1>2, <2>1 DEF Jobs
    <3> HIDE DEF new
    <3> QED BY <1>2, <2>1, <3>1, <3>2 DEF WorkerInv
  <2> HIDE DEF new
  <2>4. WorkersInv'
    BY <1>3, <2>2, <2>3
  <2>5. MemoryInv(memory')
    BY <1>1, <1>2, <2>1, LockItemKeeps
  <2> QED BY <1>1, <2>1, <2>4, <2>5 DEF ShownInv, PoolInv
<1>10. CASE WorkerSends(w)
  <2> DEFINE new == [job EXCEPT !.pc = "finish"]
             result == [book |-> job.callback.book, page |-> job.callback.page,
                        rotation |-> k.rotation, image |-> job.image]
  <2>1. /\ job.pc = "send" /\ channel' = Append(channel, result)
        /\ worker' = [worker EXCEPT ![w].pc = "finish"]
        /\ UNCHANGED <<view, pump, fast, slow, memory, disk, moves>>
    BY <1>10, Zenon DEF WorkerSends
  <2>2. worker' = [worker EXCEPT ![w] = new]
    BY <1>1, <2>1
  <2>3. result \in Results
    <3>1. /\ job.callback.book = k.book /\ PageIndex(job.callback.page) = k.index
          /\ Belongs(job.image, k.book, k.index)
      BY <1>2, <2>1 DEF Fits
    <3>2. result \in Dones
      BY <1>2, <2>1 DEF Dones, Callbacks, Keys, Jobs
    <3>3. result.book = k.book /\ PageIndex(result.page) = k.index /\ result.image = job.image
      BY <3>1
    <3> HIDE DEF result
    <3> QED BY <3>1, <3>2, <3>3 DEF Results
  <2> HIDE DEF result
  <2>4. WorkerInv(new)
    <3>1. /\ new \in Jobs /\ new.pc = "finish" /\ new.image = job.image /\ new.key = k
          /\ new.callback = job.callback
      BY <1>2, <2>1 DEF Jobs
    <3> HIDE DEF new
    <3> QED BY <1>2, <2>1, <3>1 DEF WorkerInv
  <2> HIDE DEF new
  <2>5. WorkersInv'
    BY <1>3, <2>2, <2>4
  <2>6. channel' \in Seq(Results)
    <3>1. channel \in Seq(Results) /\ channel' = Append(channel, result)
      BY <1>1, <2>1
    <3> QED BY <2>3, <3>1
  <2> QED BY <1>1, <2>1, <2>5, <2>6 DEF ShownInv, PoolInv
<1>11. CASE WorkerFinishes(w)
  <2>1. /\ SetQueue(w, RemoveItem(QueueOf(w), k)) /\ worker' = [worker EXCEPT ![w] = Idle]
        /\ UNCHANGED <<view, channel, pump, memory, disk, moves>>
    BY <1>11 DEF WorkerFinishes
  <2>2. QueueInv(fast') /\ QueueInv(slow')
    BY <1>4, <1>5, <2>1, RemoveItemKeeps
  <2>3. WorkersInv'
    BY <1>3, <2>1 DEF WorkerInv
  <2> QED BY <1>1, <2>1, <2>2, <2>3 DEF ShownInv, PoolInv
<1> QED BY <1>6, <1>7, <1>8, <1>9, <1>10, <1>11 DEF WorkerStep

\* Every step.
LEMMA ShownStep == ShownInv /\ [Next]_vars => ShownInv'
<1> SUFFICES ASSUME ShownInv, [Next]_vars PROVE ShownInv'
  OBVIOUS
<1>1. CASE Reader
  BY <1>1, ReaderStep
<1>2. ASSUME NEW w \in Workers, WorkerStep(w) PROVE ShownInv'
  BY <1>2, WorkerKeeps
<1>3. CASE PumpTicks
  <2>1. ViewInv(view') /\ channel' \in Seq(Results)
    <3>1. CASE channel # <<>>
      <4>1. view' = FoldLeft(OnPageLoaded, view, channel) /\ channel' = <<>>
        BY <1>3, <3>1, Zenon DEF PumpTicks
      <4>2. ViewInv(FoldLeft(OnPageLoaded, view, channel))
        BY DrainKeeps DEF ShownInv
      <4>3. <<>> \in Seq(Results)
        OBVIOUS
      <4> QED BY <4>1, <4>2, <4>3, Zenon
    <3>2. CASE channel = <<>>
      BY <1>3, <3>2 DEF PumpTicks, ShownInv
    <3> QED BY <3>1, <3>2
  <2>2. pump' \in BOOLEAN
    BY <1>3 DEF PumpTicks, ShownInv
  <2>3. UNCHANGED <<fast, slow, worker, memory, disk, moves>>
    BY <1>3 DEF PumpTicks, pool
  <2> QED BY <2>1, <2>2, <2>3 DEF ShownInv, PoolInv, WorkersInv
<1>4. CASE UNCHANGED vars
  BY <1>4 DEF vars, ShownInv, PoolInv, WorkersInv
<1> QED BY <1>1, <1>2, <1>3, <1>4 DEF Next

\* The invariant holds the types.
LEMMA ShownIsTyped == ShownInv => TypeOK
<1> SUFFICES ASSUME ShownInv PROVE TypeOK
  OBVIOUS
<1>1. /\ view \in Views /\ view.loaded \in Loads /\ channel \in Seq(Results) /\ pump \in BOOLEAN
      /\ QueueInv(fast) /\ QueueInv(slow) /\ MemoryInv(memory) /\ WorkersInv
      /\ disk \subseteq Books \X Pages /\ moves \in 0..MaxMoves
  BY DEF ShownInv, ViewInv, Views, PoolInv
<1>2. /\ view.book \in Books \cup {NoBook} /\ view.page \in Pages /\ view.layout \in Layouts
      /\ view.rotations \in [Pages -> Rotations] /\ view.queued \in SUBSET Wants
      /\ view.wanted \in Seq(Wants) /\ view.composed \in BOOLEAN
  BY <1>1 DEF Views
<1>3. DOMAIN view.loaded \subseteq Pages /\ \A p \in DOMAIN view.loaded : view.loaded[p] \in Images
  BY <1>1, LoadsAre
<1>4. channel \in Seq(Dones)
  BY <1>1 DEF Results
<1>5. \A w \in Workers :
         /\ worker[w].pc \in {"idle", "look", "render", "store", "send", "finish"}
         /\ worker[w].pc # "idle" => /\ worker[w].key \in Keys /\ worker[w].callback \in Callbacks
                                     /\ worker[w].image \in Images
  BY <1>1 DEF WorkersInv, WorkerInv, Idle, Jobs
<1>6. IsPool(memory, Keys)
  <2>1. memory \in Pools /\ memory.sizes \in Sizes
    BY <1>1 DEF MemoryInv, Pools
  <2>2. DOMAIN memory.sizes \subseteq Keys /\ \A k \in DOMAIN memory.sizes : memory.sizes[k] \in Nat
    BY <2>1, SizesAre
  <2> QED BY <2>1, <2>2 DEF Pools, IsPool
<1>7. WithinBudget(memory, MemoryItems, 0)
  BY <1>1, SizeIsLength DEF MemoryInv, WithinBudget
<1> QED BY <1>1, <1>2, <1>3, <1>4, <1>5, <1>6, <1>7, Zenon DEF TypeOK, QueueInv

\* The types, and with them that the two queues hold each item once, in the order and
\* in the table, and that queues and memory keep their sizes (queue.rs, memory.rs).
THEOREM TypeCorrect == Spec => []TypeOK
<1>1. Init => ShownInv
  BY ShownInit
<1>2. ShownInv /\ [Next]_vars => ShownInv'
  BY ShownStep
<1>3. ShownInv => TypeOK
  BY ShownIsTyped
<1> QED BY <1>1, <1>2, <1>3, PTL DEF Spec

\* The inductive invariant: from the request to the view every key, callback, image
\* and result belongs to the page that it was asked for.
THEOREM ShownInvariant == Spec => []ShownInv
<1>1. Init => ShownInv
  BY ShownInit
<1>2. ShownInv /\ [Next]_vars => ShownInv'
  BY ShownStep
<1> QED BY <1>1, <1>2, PTL DEF Spec

\* The slot of a display position holds the page of the open book that belongs
\* there, or the error page (dispatch_wanted, on_page_loaded).
THEOREM LoadedIsRight == Spec => []LoadedIsItsPage
<1>1. ShownInv => LoadedIsItsPage
  BY DEF ShownInv, ViewInv, Shows, Belongs, LoadedIsItsPage
<1> QED BY <1>1, ShownInvariant, PTL
--------------------------------------------------------------------------------
(* What becomes of a request.                                              *)

\* The item k waits, or a queue at its size has dropped it.
Keeps(q, k) == k \in Waiting(q) \/ (Full(q) /\ k \notin Queued(q))

\* What a queue has handed out is with one of its workers.
HandedOut(q, jobs, S) ==
    \A k \in Queued(q) : q.entries[k].running =>
        \E w \in S : jobs[w].pc # "idle" /\ jobs[w].key = k

\* What a trim leaves is what it was, and it drops from a queue at its size only.
LEMMA TrimToFacts ==
    ASSUME NEW q, Untrimmed(q), NEW r, r = TrimTo(q, q.size)
    PROVE  /\ r.size = q.size
           /\ \A x \in Queued(r) : x \in Queued(q) /\ r.entries[x] = q.entries[x]
           /\ Len(q.order) >= q.size => Full(r)
           /\ \A x \in Queued(q) : x \in Queued(r) \/ Full(r)
<1> DEFINE n == q.size
           kept == IF Len(q.order) > n THEN SubSeq(q.order, 1, n) ELSE q.order
           entries == [x \in DOMAIN q.entries \cap ToSet(kept) |-> q.entries[x]]
<1>1. /\ DOMAIN q = {"order", "entries", "size"} /\ q.order \in Seq(Keys)
      /\ ToSet(q.order) = DOMAIN q.entries /\ n \in Nat
  BY DEF Untrimmed, IsQueue, Queued
<1>2. /\ Len(q.order) \in Nat
      /\ Len(q.order) > n => Len(kept) = n
      /\ ~(Len(q.order) > n) => kept = q.order
  BY <1>1
<1>3. r.size = n /\ r.order = kept /\ r.entries = entries
  <2> HIDE DEF kept
  <2>1. r = [q EXCEPT !.order = kept, !.entries = entries]
    BY DEF TrimTo, kept
  <2> HIDE DEF entries
  <2> QED BY <1>1, <2>1
<1> HIDE DEF kept
<1>4. \A x \in Queued(r) : x \in Queued(q) /\ r.entries[x] = q.entries[x]
  BY <1>3 DEF Queued
<1>5. Len(q.order) >= n => Full(r)
  <2> HIDE DEF n, entries
  <2>1. CASE Len(q.order) > n
    BY <1>2, <1>3, <2>1 DEF Full
  <2>2. CASE Len(q.order) = n
    BY <1>1, <1>2, <1>3, <2>2 DEF Full
  <2> QED BY <1>1, <1>2, <2>1, <2>2
<1>6. ASSUME NEW x \in Queued(q) PROVE x \in Queued(r) \/ Full(r)
  <2>1. CASE Len(q.order) > n
    BY <1>1, <1>2, <1>5, <2>1
  <2>2. CASE ~(Len(q.order) > n)
    BY <1>1, <1>2, <1>3, <1>6, <2>2 DEF Queued
  <2> QED BY <2>1, <2>2
<1> QED BY <1>3, <1>4, <1>5, <1>6

\* What asking for one item does to the others, and to itself.
LEMMA AddItemHolds ==
    ASSUME NEW q, QueueInv(q), NEW k \in Keys, NEW c \in Callbacks, Fits(c, k),
           NEW mode \in Modes, NEW r, r = AddItem(q, k, c, mode)
    PROVE  /\ \A x \in Keys : Keeps(q, x) => Keeps(r, x)
           /\ Keeps(r, k) \/ (k \in Queued(q) /\ q.entries[k].running)
           /\ \A x \in Queued(r) : r.entries[x].running =>
                                       x \in Queued(q) /\ q.entries[x].running
<1>1. /\ DOMAIN q = {"order", "entries", "size"} /\ q.order \in Seq(Keys) /\ Once(q.order)
      /\ ToSet(q.order) = DOMAIN q.entries /\ Len(q.order) <= q.size /\ q.size \in Nat
      /\ q.size = QueueSize /\ IsQueue(q, Keys, Callbacks)
  BY QueueOnce DEF QueueInv, IsQueue, Queued
<1>2. CASE k \in Queued(q)
  <2>1. r.entries = q.entries /\ r.size = q.size /\ Len(r.order) = Len(q.order)
    <3>1. CASE mode = "AddToTop"
      <4> DEFINE rest == RemoveFirst(q.order, k)
                 order == <<k>> \o rest
      <4>1. r = [q EXCEPT !.order = order]
        BY <1>2, <3>1 DEF AddItem
      <4>2. rest \in Seq(Keys) /\ Len(rest) = Len(q.order) - 1 /\ Len(q.order) \in Nat
        BY <1>1, <1>2, RemoveFirstFacts DEF Queued
      <4> HIDE DEF rest
      <4>3. Len(order) = Len(q.order)
        BY <4>2
      <4> HIDE DEF order
      <4> QED BY <1>1, <4>1, <4>3
    <3>2. CASE mode # "AddToTop"
      BY <1>2, <3>2 DEF AddItem
    <3> QED BY <3>1, <3>2
  <2> QED BY <1>2, <2>1 DEF Keeps, Full, Waiting, Queued
<1>3. CASE k \notin Queued(q)
  <2> DEFINE order == IF mode = "AddToTop" THEN <<k>> \o q.order ELSE Append(q.order, k)
             entries == [x \in DOMAIN q.entries \cup {k} |->
                            IF x = k THEN [callback |-> c, running |-> FALSE] ELSE q.entries[x]]
             t == [q EXCEPT !.order = order, !.entries = entries]
  <2>1. r = TrimTo(t, q.size)
    BY <1>3, Zenon DEF AddItem
  <2>2. k \notin ToSet(q.order)
    BY <1>1, <1>3 DEF Queued
  <2>3. /\ order \in Seq(Keys) /\ Once(order) /\ ToSet(order) = ToSet(q.order) \cup {k}
        /\ Len(order) = Len(q.order) + 1
    BY <1>1, <2>2, PrependedFacts, AppendedFacts
  <2> HIDE DEF order
  <2>4. /\ DOMAIN entries = DOMAIN q.entries \cup {k}
        /\ entries[k] = [callback |-> c, running |-> FALSE]
        /\ \A x \in DOMAIN q.entries : x # k /\ entries[x] = q.entries[x]
        /\ entries = [x \in DOMAIN entries |-> entries[x]]
    BY <1>3 DEF Queued
  <2> HIDE DEF entries
  <2>5. /\ DOMAIN t = {"order", "entries", "size"} /\ t.size = q.size
        /\ t.order = order /\ t.entries = entries
    BY <1>1
  <2>6. \A x \in DOMAIN entries :
           /\ entries[x] \in [callback : Callbacks, running : BOOLEAN]
           /\ Fits(entries[x].callback, x) /\ x \in Keys
    <3> SUFFICES ASSUME NEW x \in DOMAIN entries
                 PROVE  /\ entries[x] \in [callback : Callbacks, running : BOOLEAN]
                        /\ Fits(entries[x].callback, x) /\ x \in Keys
      OBVIOUS
    <3>1. CASE x = k
      <4>1. entries[x] = [callback |-> c, running |-> FALSE]
        BY <2>4, <3>1
      <4> QED BY <3>1, <4>1
    <3>2. CASE x # k
      <4>1. x \in DOMAIN q.entries /\ entries[x] = q.entries[x]
        BY <2>4, <3>2
      <4> QED BY <1>1, <4>1 DEF QueueInv, IsQueue, Queued
    <3> QED BY <3>1, <3>2
  <2>7. entries \in Tables
    BY <2>4, <2>6, TablesAre
  <2>8. t \in Queues
    BY <2>3, <2>7 DEF QueueInv, Queues
  <2> HIDE DEF t
  <2>9. Untrimmed(t)
    BY <1>1, <2>3, <2>4, <2>5, <2>6, <2>8 DEF Untrimmed, IsQueue, Queued
  <2>10. /\ \A x \in Queued(r) : x \in Queued(t) /\ r.entries[x] = t.entries[x]
         /\ Len(t.order) >= t.size => Full(r)
         /\ \A x \in Queued(t) : x \in Queued(r) \/ Full(r)
    <3>1. r = TrimTo(t, t.size)
      BY <2>1, <2>5, Zenon
    <3> QED BY <2>9, <3>1, TrimToFacts
  <2>11. Queued(t) = Queued(q) \cup {k} /\ t.entries[k].running = FALSE
         /\ \A x \in Queued(q) : t.entries[x] = q.entries[x]
    BY <2>4, <2>5 DEF Queued
  <2>12. Full(q) => Full(r)
    BY <1>1, <2>3, <2>5, <2>10 DEF Full
  <2> QED BY <2>10, <2>11, <2>12 DEF Keeps, Waiting, Queued
<1> QED BY <1>2, <1>3

\* The item that a request is for.
ItemOf(b, r) == [book |-> b, index |-> PageIndex(r[1]), rotation |-> r[2]]

\* The item waits, has gone from a queue at its size, or is with a worker, or its
\* result is in the channel.
Held(s, b, r) ==
    \/ Keeps(s.fast, ItemOf(b, r)) \/ Keeps(s.slow, ItemOf(b, r))
    \/ \E w \in Workers : worker[w].pc # "idle" /\ worker[w].key = ItemOf(b, r)
    \/ \E i \in DOMAIN channel : /\ channel[i].book = b
                                 /\ channel[i].page = r[1] /\ channel[i].rotation = r[2]

\* Every request but those in S is held.
Holding(s, b, S) ==
    /\ s.view.book = b
    /\ HandedOut(s.fast, worker, FastWorkers) /\ HandedOut(s.slow, worker, SlowWorkers)
    /\ \A r \in s.view.queued : r \in S \/ Held(s, b, r)

\* One page that is asked for: a page that a worker has taken is with that worker.
LEMMA DispatchOneHolds ==
    ASSUME NEW s, AskInv(s), NEW want \in Wants, NEW b, NEW S, Holding(s, b, S)
    PROVE  Holding(DispatchOne(s, want), b, S)
<1> DEFINE p == want[1]
           r == want[2]
           key == KeyOf(s.view, p, r)
           callback == [book |-> s.view.book, page |-> p, rotation |-> r]
           mode == IF p < s.view.page THEN "AddToBottom" ELSE "AddToTop"
           asks == [s.view EXCEPT !.queued = @ \cup {want}]
           asked == [s EXCEPT !.view = asks]
           out == DispatchOne(s, want)
<1>1. /\ s \in Askings /\ s.view \in Views /\ s.view.queued \subseteq Wants
      /\ s.view.book \in Books
      /\ QueueInv(s.fast) /\ QueueInv(s.slow)
  BY DEF AskInv, Askings, ViewInv, Views
<1>2. p \in Pages /\ r \in Rotations
  BY DEF Wants
<1>3. /\ key \in Keys /\ callback \in Callbacks /\ Fits(callback, key) /\ mode \in Modes
      /\ key = ItemOf(b, want)
  BY <1>1, <1>2, IndexType DEF KeyOf, Keys, Callbacks, Fits, Modes, Holding, ItemOf
<1>4. \A x \in Wants : ItemOf(b, x) \in Keys
  BY <1>1, IndexType DEF Wants, ItemOf, Keys, Holding
<1>5. asks.queued = s.view.queued \cup {want} /\ asks.book = s.view.book
  BY <1>1 DEF Views
<1> HIDE DEF asks
<1>6. asked.view = asks /\ asked.fast = s.fast /\ asked.slow = s.slow
      /\ DOMAIN asked = {"view", "fast", "slow", "memory"}
  BY <1>1 DEF Askings
<1>7. out =
         IF p \in DOMAIN s.view.loaded
         THEN s
         ELSE IF InPool(s.memory, key)
         THEN [s EXCEPT !.view.loaded = Load(@, p, key), !.memory = Touch(@, key)]
         ELSE IF want \in s.view.queued
         THEN s
         ELSE IF Raw(key) \in disk
         THEN [asked EXCEPT !.fast = AddItem(@, key, callback, mode)]
         ELSE [asked EXCEPT !.slow = AddItem(@, key, callback, mode)]
  BY Zenon DEF DispatchOne, asks
<1> HIDE DEF asked, out
<1>8. CASE out = s
  BY <1>8 DEF out
<1>9. CASE out = [s EXCEPT !.view.loaded = Load(@, p, key), !.memory = Touch(@, key)]
  <2> DEFINE f == Load(s.view.loaded, p, key)
             v == [s.view EXCEPT !.loaded = f]
             m == Touch(s.memory, key)
  <2>1. out = [s EXCEPT !.view = v, !.memory = m]
    BY <1>9
  <2> HIDE DEF f, m
  <2>2. v.book = s.view.book /\ v.queued = s.view.queued
    BY <1>1 DEF Views
  <2> HIDE DEF v
  <2>3. out.view = v /\ out.fast = s.fast /\ out.slow = s.slow
    BY <1>1, <2>1 DEF Askings
  <2> QED BY <2>2, <2>3 DEF out, Holding, Held
<1> HIDE DEF key, callback, mode
<1>10. CASE out = [asked EXCEPT !.fast = AddItem(@, key, callback, mode)]
  <2> DEFINE q == AddItem(s.fast, key, callback, mode)
  <2>1. /\ \A x \in Keys : Keeps(s.fast, x) => Keeps(q, x)
        /\ Keeps(q, key) \/ (key \in Queued(s.fast) /\ s.fast.entries[key].running)
        /\ \A x \in Queued(q) : q.entries[x].running =>
                                    x \in Queued(s.fast) /\ s.fast.entries[x].running
    BY <1>1, <1>3, AddItemHolds
  <2>2. out = [asked EXCEPT !.fast = q]
    BY <1>6, <1>10
  <2> HIDE DEF q
  <2>3. out.view = asks /\ out.fast = q /\ out.slow = s.slow
    BY <1>6, <2>2
  <2>4. HandedOut(q, worker, FastWorkers)
    BY <2>1 DEF Holding, HandedOut
  <2>5. ASSUME NEW x \in asks.queued PROVE x \in S \/ Held(out, b, x)
    <3>1. CASE x \in s.view.queued
      BY <1>1, <1>4, <2>1, <2>3, <3>1 DEF Holding, Held
    <3>2. CASE x = want /\ Keeps(q, key)
      BY <1>3, <2>3, <3>2 DEF Held
    <3>3. CASE x = want /\ key \in Queued(s.fast) /\ s.fast.entries[key].running
      <4>1. \E w \in Workers : worker[w].pc # "idle" /\ worker[w].key = key
        BY <3>3 DEF Holding, HandedOut, Workers
      <4> QED BY <1>3, <3>3, <4>1 DEF Held
    <3> QED BY <1>5, <2>1, <3>1, <3>2, <3>3
  <2> QED BY <1>5, <2>3, <2>4, <2>5 DEF Holding, out
<1>11. CASE out = [asked EXCEPT !.slow = AddItem(@, key, callback, mode)]
  <2> DEFINE q == AddItem(s.slow, key, callback, mode)
  <2>1. /\ \A x \in Keys : Keeps(s.slow, x) => Keeps(q, x)
        /\ Keeps(q, key) \/ (key \in Queued(s.slow) /\ s.slow.entries[key].running)
        /\ \A x \in Queued(q) : q.entries[x].running =>
                                    x \in Queued(s.slow) /\ s.slow.entries[x].running
    BY <1>1, <1>3, AddItemHolds
  <2>2. out = [asked EXCEPT !.slow = q]
    BY <1>6, <1>11
  <2> HIDE DEF q
  <2>3. out.view = asks /\ out.fast = s.fast /\ out.slow = q
    BY <1>6, <2>2
  <2>4. HandedOut(q, worker, SlowWorkers)
    BY <2>1 DEF Holding, HandedOut
  <2>5. ASSUME NEW x \in asks.queued PROVE x \in S \/ Held(out, b, x)
    <3>1. CASE x \in s.view.queued
      BY <1>1, <1>4, <2>1, <2>3, <3>1 DEF Holding, Held
    <3>2. CASE x = want /\ Keeps(q, key)
      BY <1>3, <2>3, <3>2 DEF Held
    <3>3. CASE x = want /\ key \in Queued(s.slow) /\ s.slow.entries[key].running
      <4>1. \E w \in Workers : worker[w].pc # "idle" /\ worker[w].key = key
        BY <3>3 DEF Holding, HandedOut, Workers
      <4> QED BY <1>3, <3>3, <4>1 DEF Held
    <3> QED BY <1>5, <2>1, <3>1, <3>2, <3>3
  <2> QED BY <1>5, <2>3, <2>4, <2>5 DEF Holding, out
<1> QED BY <1>7, <1>8, <1>9, <1>10, <1>11

\* All pages that are wanted.
LEMMA DispatchHolds ==
    ASSUME NEW s, AskInv(s), NEW b, NEW S, Holding(s, b, S)
    PROVE  Holding(DispatchWanted(s), b, S)
<1> DEFINE w == s.view.wanted
           done == FoldLeft(DispatchOne, s, w)
<1>1. w \in Seq(Wants) /\ Len(w) \in Nat
  BY DEF AskInv, ViewInv, Views
<1>2. PICK it : Dispatches(it, s, w)
  <2> HIDE DEF w
  <2> QED BY <1>1, DispatchSteps
<1> HIDE DEF w
<1>3. AskInv(done) /\ Holding(done, b, S)
  <2> DEFINE D == {k \in Nat : k <= Len(w) => AskInv(it[k]) /\ Holding(it[k], b, S)}
  <2>1. 0 \in D
    BY <1>2 DEF Dispatches
  <2>2. ASSUME NEW k \in Nat, k \in D PROVE k + 1 \in D
    <3> SUFFICES ASSUME k + 1 <= Len(w) PROVE AskInv(it[k + 1]) /\ Holding(it[k + 1], b, S)
      OBVIOUS
    <3>1. k < Len(w) /\ k <= Len(w) /\ w[k + 1] \in Wants
      BY <1>1
    <3>2. /\ it[k + 1] = DispatchOne(it[k], w[k + 1]) /\ AskInv(it[k])
          /\ Holding(it[k], b, S)
      BY <1>2, <2>2, <3>1 DEF Dispatches
    <3>3. it[k + 1].view.book = b
      BY <3>1, <3>2, DispatchOneHolds DEF Holding
    <3> QED BY <3>1, <3>2, DispatchOneKeeps, DispatchOneHolds
  <2> HIDE DEF D
  <2>3. Len(w) \in D
    BY <1>1, <2>1, <2>2, Induction
  <2> QED BY <1>1, <1>2, <2>3 DEF D, Dispatches
<1> DEFINE left == Chosen(done.view.wanted, (Pages \ DOMAIN done.view.loaded) \X Rotations)
           v == [done.view EXCEPT !.wanted = left]
           t == [done EXCEPT !.view = v]
<1>4. DispatchWanted(s) = t
  BY Zenon DEF DispatchWanted, w
<1> HIDE DEF done, left
<1>5. done \in Askings /\ done.view \in Views
  BY <1>3 DEF AskInv, Askings
<1>6. v.book = done.view.book /\ v.queued = done.view.queued
  BY <1>5 DEF Views
<1> HIDE DEF v
<1>7. t.view = v /\ t.fast = done.fast /\ t.slow = done.slow
  BY <1>5 DEF Askings
<1> HIDE DEF t
<1> QED BY <1>3, <1>4, <1>6, <1>7 DEF Holding, Held

\* The page and its neighbours: that the list of wanted pages is made anew, and that
\* pages are unloaded, changes no request.
LEMMA QueueForHolds ==
    ASSUME NEW s, AskInv(s), NEW p \in Pages, NEW b, NEW S, Holding(s, b, S)
    PROVE  Holding(QueueFor(s, p), b, S)
<1>1. PICK t : AskInv(t) /\ QueueFor(s, p) = DispatchWanted(t) /\ t.fast = s.fast
               /\ t.slow = s.slow /\ t.view.book = s.view.book /\ t.view.queued = s.view.queued
  BY QueueForSteps
<1>2. Holding(t, b, S)
  BY <1>1 DEF Holding, Held
<1> QED BY <1>1, <1>2, DispatchHolds

\* What is handed out is with a worker, in both queues.
HandedInv == HandedOut(fast, worker, FastWorkers) /\ HandedOut(slow, worker, SlowWorkers)

\* The state that a request reads.
LEMMA HereIs ==
    ASSUME PoolInv, NEW v, ViewInv(v), v.book \in Books
    PROVE  AskInv(Here(v)) /\ Here(v).view = v /\ Here(v).fast = fast /\ Here(v).slow = slow
<1> DEFINE h == Here(v)
<1>1. /\ v \in Views /\ fast \in Queues /\ slow \in Queues /\ memory \in Pools
  BY DEF PoolInv, ViewInv, QueueInv, MemoryInv
<1>2. /\ h \in Askings /\ h.view = v /\ h.fast = fast /\ h.slow = slow /\ h.memory = memory
  BY <1>1 DEF Here, Askings
<1> HIDE DEF h
<1>3. AskInv(h)
  BY <1>2 DEF AskInv, PoolInv
<1> QED BY <1>2, <1>3 DEF h

\* Two requests of a book are for the same item only if they are the same.
LEMMA FitsIsAsked ==
    ASSUME NEW c \in Callbacks, NEW b, NEW r \in Wants
    PROVE  Fits(c, ItemOf(b, r)) <=> c.book = b /\ c.page = r[1] /\ c.rotation = r[2]
<1>1. c.page \in Int /\ r[1] \in Int /\ LastPage \in Int
  BY ConstantsAssumption DEF Callbacks, Wants, Pages
<1>2. PageIndex(c.page) = PageIndex(r[1]) <=> c.page = r[1]
  BY <1>1 DEF PageIndex
<1> QED BY <1>2 DEF Fits, ItemOf

\* An item whose callback asks for the request is the item of the request.
LEMMA AskedItem ==
    ASSUME NEW c \in Callbacks, NEW k \in Keys, Fits(c, k), NEW b, NEW r \in Wants
    PROVE  (c.book = b /\ c.page = r[1] /\ c.rotation = r[2]) <=> k = ItemOf(b, r)
<1>1. k = [book |-> k.book, index |-> k.index, rotation |-> k.rotation]
  BY DEF Keys
<1>2. ASSUME c.book = b, c.page = r[1], c.rotation = r[2] PROVE k = ItemOf(b, r)
  BY <1>1, <1>2 DEF Fits, ItemOf
<1> QED BY <1>2, FitsIsAsked

\* The callbacks of the queues and of the workers.
LEMMA CallbacksFit ==
    ASSUME ShownInv
    PROVE  /\ \A q \in {fast, slow} : \A k \in Waiting(q) :
                 k \in Keys /\ q.entries[k].callback \in Callbacks /\ Fits(q.entries[k].callback, k)
           /\ \A w \in Workers : worker[w].pc # "idle" =>
                 /\ worker[w].key \in Keys /\ worker[w].callback \in Callbacks
                 /\ Fits(worker[w].callback, worker[w].key)
<1>1. QueueInv(fast) /\ QueueInv(slow) /\ \A w \in Workers : WorkerInv(worker[w])
  BY DEF ShownInv, PoolInv, WorkersInv
<1>2. \A q : QueueInv(q) => \A k \in Waiting(q) :
          k \in Keys /\ q.entries[k].callback \in Callbacks /\ Fits(q.entries[k].callback, k)
  BY DEF QueueInv, IsQueue, Waiting, Queued
<1>3. \A w \in Workers : worker[w].pc # "idle" =>
          /\ worker[w].key \in Keys /\ worker[w].callback \in Callbacks
          /\ Fits(worker[w].callback, worker[w].key)
  BY <1>1 DEF WorkerInv, Idle, Jobs
<1> QED BY <1>1, <1>2, <1>3

\* What answers a request holds its item.
LEMMA AnswersHold ==
    ASSUME ShownInv, NEW r \in Wants, Answers(r[1], r[2]), NEW s, s.fast = fast, s.slow = slow
    PROVE  Held(s, view.book, r)
<1>1. CASE \E q \in {fast, slow} : \E k \in Waiting(q) :
              /\ q.entries[k].callback.book = view.book
              /\ q.entries[k].callback.page = r[1] /\ q.entries[k].callback.rotation = r[2]
  <2>1. ItemOf(view.book, r) \in Waiting(fast) \/ ItemOf(view.book, r) \in Waiting(slow)
    BY <1>1, CallbacksFit, AskedItem
  <2> QED BY <2>1 DEF Held, Keeps
<1>2. CASE \E w \in Workers :
              /\ worker[w].pc \notin {"idle", "finish"} /\ worker[w].callback.book = view.book
              /\ worker[w].callback.page = r[1] /\ worker[w].callback.rotation = r[2]
  <2>1. \E w \in Workers : worker[w].pc # "idle" /\ worker[w].key = ItemOf(view.book, r)
    BY <1>2, CallbacksFit, AskedItem
  <2> QED BY <2>1 DEF Held
<1>3. CASE \E i \in DOMAIN channel : /\ channel[i].book = view.book /\ channel[i].page = r[1]
                                     /\ channel[i].rotation = r[2]
  BY <1>3 DEF Held
<1> QED BY <1>1, <1>2, <1>3 DEF Answers

\* A request that a step strands: a full queue dropped its item, or a worker that has
\* sent holds it.
StrandedRightly ==
    \A r \in Stranded' \ Stranded :
        \/ \E q \in {fast', slow'} : Full(q) /\ KeyOf(view', r[1], r[2]) \notin Queued(q)
        \/ \E w \in Workers : /\ worker[w].pc = "finish"
                              /\ worker[w].key = KeyOf(view', r[1], r[2])

\* The reader's requests.
LEMMA AskRequests ==
    ASSUME ShownInv, HandedInv, NEW v, ViewInv(v), v.book \in Books, NEW p \in Pages,
           NEW composes \in BOOLEAN, Ask(v, p, composes),
           v.queued = {} \/ (v.queued = view.queued /\ v.book = view.book)
    PROVE  HandedInv' /\ StrandedRightly
<1> DEFINE b == v.book
           h == Here(v)
           s == QueueFor(h, p)
           waits == s.view.wanted # <<>>
<1>1. AskInv(h) /\ h.view = v /\ h.fast = fast /\ h.slow = slow
  BY HereIs DEF ShownInv
<1> HIDE DEF h
<1>2. Holding(h, b, Stranded)
  <2>1. ASSUME NEW r \in v.queued PROVE r \in Stranded \/ Held(h, b, r)
    <3>1. r \in Wants /\ r \in view.queued /\ view.book = b
      BY <2>1 DEF ViewInv, Views
    <3>2. CASE Answers(r[1], r[2])
      BY <1>1, <3>1, <3>2, AnswersHold
    <3>3. CASE ~Answers(r[1], r[2])
      BY <3>1, <3>3 DEF Stranded
    <3> QED BY <3>2, <3>3
  <2> QED BY <1>1, <2>1 DEF Holding, HandedInv
<1>3. AskInv(s) /\ Holding(s, b, Stranded)
  BY <1>1, <1>2, QueueForKeeps, QueueForHolds
<1>4. /\ view' = IF composes /\ ~waits THEN Recompose(s.view) ELSE s.view
      /\ fast' = s.fast /\ slow' = s.slow /\ UNCHANGED <<channel, worker, disk>>
  BY Zenon DEF Ask, h
<1> HIDE DEF s, waits
<1>5. view'.book = b /\ view'.queued = s.view.queued /\ view'.queued \subseteq Wants
      /\ b \in Books
  <2>1. s.view \in Views /\ s.view.book = b
    BY <1>3 DEF AskInv, Askings, Holding
  <2>2. Recompose(s.view).book = s.view.book /\ Recompose(s.view).queued = s.view.queued
    BY <2>1 DEF Recompose, Views
  <2> QED BY <1>4, <2>1, <2>2 DEF Views
<1>6. HandedInv'
  BY <1>3, <1>4 DEF Holding, HandedInv, HandedOut
<1>7. ASSUME NEW r \in Stranded' \ Stranded
      PROVE  \/ \E q \in {fast', slow'} : Full(q) /\ KeyOf(view', r[1], r[2]) \notin Queued(q)
             \/ \E w \in Workers : /\ worker[w].pc = "finish"
                                   /\ worker[w].key = KeyOf(view', r[1], r[2])
  <2>1. r \in view'.queued /\ ~Answers(r[1], r[2])' /\ r \in Wants
    BY <1>5, <1>7 DEF Stranded
  <2>2. Held(s, b, r)
    BY <1>3, <1>5, <1>7, <2>1 DEF Holding
  <2>3. ItemOf(b, r) = KeyOf(view', r[1], r[2])
    BY <1>5 DEF ItemOf, KeyOf
  <2>4. /\ \A q \in {fast', slow'} : \A k \in Waiting(q) :
              ~(/\ q.entries[k].callback.book = b
                /\ q.entries[k].callback.page = r[1] /\ q.entries[k].callback.rotation = r[2])
        /\ \A w \in Workers :
              ~(/\ worker[w].pc \notin {"idle", "finish"} /\ worker[w].callback.book = b
                /\ worker[w].callback.page = r[1] /\ worker[w].callback.rotation = r[2])
        /\ \A i \in DOMAIN channel :
              ~(/\ channel[i].book = b /\ channel[i].page = r[1] /\ channel[i].rotation = r[2])
    BY <1>4, <1>5, <2>1 DEF Answers
  <2>5. CASE \E q \in {fast', slow'} : Keeps(q, ItemOf(b, r))
    <3>1. PICK q \in {fast', slow'} : Keeps(q, ItemOf(b, r))
      BY <2>5
    <3>2. QueueInv(q)
      BY <1>3, <1>4 DEF AskInv
    <3>3. ItemOf(b, r) \notin Waiting(q)
      <4> SUFFICES ASSUME ItemOf(b, r) \in Waiting(q) PROVE FALSE
        OBVIOUS
      <4> DEFINE k == ItemOf(b, r)
      <4>1. k \in Keys /\ q.entries[k].callback \in Callbacks /\ Fits(q.entries[k].callback, k)
        <5> HIDE DEF k
        <5>1. k \in Waiting(q)
          BY DEF k
        <5> QED BY <3>2, <5>1 DEF QueueInv, IsQueue, Waiting, Queued
      <4> QED BY <2>1, <2>4, <4>1, FitsIsAsked
    <3> QED BY <2>3, <3>1, <3>3 DEF Keeps
  <2>6. CASE \E w \in Workers : worker[w].pc # "idle" /\ worker[w].key = ItemOf(b, r)
    <3>1. PICK w \in Workers : worker[w].pc # "idle" /\ worker[w].key = ItemOf(b, r)
      BY <2>6
    <3>2. worker[w].pc = "finish"
      BY <2>1, <2>4, <3>1, CallbacksFit, FitsIsAsked
    <3> QED BY <2>3, <3>1, <3>2
  <2>7. CASE \E i \in DOMAIN channel : /\ channel[i].book = b
                                       /\ channel[i].page = r[1] /\ channel[i].rotation = r[2]
    BY <2>4, <2>7
  <2> QED BY <1>4, <2>2, <2>5, <2>6, <2>7 DEF Held
<1> QED BY <1>6, <1>7 DEF StrandedRightly

\* The reader's handlers keep the requests of the book they stay in; opening one
\* forgets them.
LEMMA ReaderRequests ==
    ASSUME ShownInv, HandedInv, Reader
    PROVE  HandedInv' /\ StrandedRightly
<1>1. PICK v \in Views, p \in Pages, composes \in BOOLEAN :
          /\ ViewInv(v) /\ v.book \in Books /\ Ask(v, p, composes)
          /\ v.queued = {} \/ (v.queued = view.queued /\ v.book = view.book)
  <2>1. ViewInv(view)
    BY DEF ShownInv
  <2> QED BY <2>1, ReaderAsks, Zenon DEF Requests
<1> QED BY <1>1, AskRequests

\* What a claim and the removal of an item do to the others.
LEMMA ClaimFacts ==
    ASSUME NEW q, QueueInv(q), Waiting(q) # {}
    PROVE  /\ \A x \in Waiting(q) : x = NextItem(q) \/
                 (x \in Waiting(Claim(q)) /\ Claim(q).entries[x].callback = q.entries[x].callback)
           /\ \A x \in Queued(Claim(q)) : Claim(q).entries[x].running =>
                 x = NextItem(q) \/ (x \in Queued(q) /\ q.entries[x].running)
<1> DEFINE k == NextItem(q)
           one == [q.entries[k] EXCEPT !.running = TRUE]
           entries == [q.entries EXCEPT ![k] = one]
           r == Claim(q)
<1>1. k \in Waiting(q) /\ DOMAIN q = {"order", "entries", "size"}
  BY ClaimKeeps DEF QueueInv, IsQueue
<1> HIDE DEF k
<1>2. r = [q EXCEPT !.entries = entries]
  BY Zenon DEF Claim, k
<1> HIDE DEF r
<1>3. /\ DOMAIN entries = DOMAIN q.entries
      /\ \A x \in DOMAIN q.entries : x # k => entries[x] = q.entries[x]
  BY <1>1
<1> HIDE DEF entries, one
<1>4. r.entries = entries
  BY <1>1, <1>2
<1> QED BY <1>1, <1>3, <1>4 DEF Waiting, Queued, r, k

\* The others keep their entries.
LEMMA RemoveItemFacts ==
    ASSUME NEW q, QueueInv(q), NEW k
    PROVE  /\ \A x : x \in Queued(RemoveItem(q, k)) <=> x \in Queued(q) /\ x # k
           /\ \A x \in Queued(RemoveItem(q, k)) : RemoveItem(q, k).entries[x] = q.entries[x]
<1> DEFINE order == RemoveFirst(q.order, k)
           entries == [x \in DOMAIN q.entries \ {k} |-> q.entries[x]]
           r == RemoveItem(q, k)
<1>1. DOMAIN q = {"order", "entries", "size"}
  BY DEF QueueInv, IsQueue
<1>2. r = [q EXCEPT !.order = order, !.entries = entries]
  BY DEF RemoveItem
<1> HIDE DEF order, r
<1>3. r.entries = entries
  <2> HIDE DEF entries
  <2> QED BY <1>1, <1>2
<1> QED BY <1>3 DEF Queued, r

\* The other workers, and what the queue of this one is.
LEMMA QueueOfIs ==
    ASSUME NEW w \in Workers, NEW q, SetQueue(w, q)
    PROVE  \/ w \in FastWorkers /\ QueueOf(w) = fast /\ fast' = q /\ slow' = slow
           \/ w \in SlowWorkers /\ QueueOf(w) = slow /\ slow' = q /\ fast' = fast
  BY DEF QueueOf, SetQueue, Workers

\* A worker takes the first item that waits.
LEMMA StartRequests ==
    ASSUME ShownInv, HandedInv, NEW w \in Workers, WorkerStarts(w)
    PROVE  /\ HandedInv'
           /\ \A r \in view.queued : Answers(r[1], r[2]) => Answers(r[1], r[2])'
<1> DEFINE q == QueueOf(w)
           k == NextItem(q)
           new == [pc |-> "look", key |-> k, image |-> ErrorPage,
                   callback |-> q.entries[k].callback]
<1>1. /\ worker' = [worker EXCEPT ![w] = new] /\ SetQueue(w, Claim(q))
      /\ worker[w].pc = "idle" /\ Waiting(q) # {} /\ UNCHANGED <<view, channel>>
  BY Zenon DEF WorkerStarts
<1>2. /\ QueueInv(fast) /\ QueueInv(slow) /\ DOMAIN worker = Workers /\ QueueInv(q)
  BY DEF ShownInv, PoolInv, WorkersInv, QueueOf
<1>3. \/ w \in FastWorkers /\ q = fast /\ fast' = Claim(q) /\ slow' = slow
      \/ w \in SlowWorkers /\ q = slow /\ slow' = Claim(q) /\ fast' = fast
  BY <1>1, QueueOfIs
<1> HIDE DEF q
<1>4. /\ \A x \in Waiting(q) : x = k \/
             (x \in Waiting(Claim(q)) /\ Claim(q).entries[x].callback = q.entries[x].callback)
      /\ \A x \in Queued(Claim(q)) : Claim(q).entries[x].running =>
             x = k \/ (x \in Queued(q) /\ q.entries[x].running)
  BY <1>1, <1>2, ClaimFacts
<1> HIDE DEF k
<1>5. /\ worker'[w] = new /\ \A x \in Workers : x # w => worker'[x] = worker[x]
      /\ new.pc = "look" /\ new.key = k /\ new.callback = q.entries[k].callback
  BY <1>1, <1>2
<1> HIDE DEF new
<1>6. HandedInv'
  <2>1. \A S \in SUBSET Workers : \A x :
          (\E y \in S : worker[y].pc # "idle" /\ worker[y].key = x) =>
              (\E y \in S : worker'[y].pc # "idle" /\ worker'[y].key = x)
    BY <1>1, <1>5
  <2>2. FastWorkers \in SUBSET Workers /\ SlowWorkers \in SUBSET Workers
    BY DEF Workers
  <2>3. HandedOut(fast, worker', FastWorkers) /\ HandedOut(slow, worker', SlowWorkers)
    BY <2>1, <2>2 DEF HandedInv, HandedOut
  <2>4. HandedOut(fast', worker', FastWorkers)
    BY <1>3, <1>4, <1>5, <2>3 DEF HandedOut
  <2>5. HandedOut(slow', worker', SlowWorkers)
    BY <1>3, <1>4, <1>5, <2>3 DEF HandedOut
  <2> QED BY <2>4, <2>5 DEF HandedInv
<1>7. ASSUME NEW r \in view.queued, Answers(r[1], r[2]) PROVE Answers(r[1], r[2])'
  <2>1. CASE \E y \in {fast, slow} : \E x \in Waiting(y) :
                /\ y.entries[x].callback.book = view.book
                /\ y.entries[x].callback.page = r[1] /\ y.entries[x].callback.rotation = r[2]
    <3>1. PICK y \in {fast, slow} : \E x \in Waiting(y) :
                /\ y.entries[x].callback.book = view.book
                /\ y.entries[x].callback.page = r[1] /\ y.entries[x].callback.rotation = r[2]
      BY <2>1
    <3>2. PICK x \in Waiting(y) :
                /\ y.entries[x].callback.book = view.book
                /\ y.entries[x].callback.page = r[1] /\ y.entries[x].callback.rotation = r[2]
      BY <3>1
    <3>3. CASE y # q
      <4>1. y \in {fast', slow'}
        BY <1>3, <3>3
      <4> QED BY <1>1, <3>2, <4>1 DEF Answers
    <3>4. CASE y = q /\ x = k
      BY <1>1, <1>5, <3>2, <3>4 DEF Answers
    <3>5. CASE y = q /\ x # k
      <4>1. Claim(q) \in {fast', slow'} /\ x \in Waiting(Claim(q))
            /\ Claim(q).entries[x].callback = y.entries[x].callback
        BY <1>3, <1>4, <3>5
      <4> QED BY <1>1, <3>2, <4>1 DEF Answers
    <3> QED BY <3>3, <3>4, <3>5
  <2>2. CASE \E x \in Workers :
                /\ worker[x].pc \notin {"idle", "finish"} /\ worker[x].callback.book = view.book
                /\ worker[x].callback.page = r[1] /\ worker[x].callback.rotation = r[2]
    BY <1>1, <1>5, <2>2 DEF Answers
  <2>3. CASE \E i \in DOMAIN channel : /\ channel[i].book = view.book /\ channel[i].page = r[1]
                                       /\ channel[i].rotation = r[2]
    BY <1>1, <2>3 DEF Answers
  <2> QED BY <1>7, <2>1, <2>2, <2>3 DEF Answers
<1> QED BY <1>6, <1>7

\* A worker that goes on with the item it has.
LEMMA GoesOnRequests ==
    ASSUME ShownInv, HandedInv, NEW w \in Workers, NEW new,
           worker' = [worker EXCEPT ![w] = new], UNCHANGED <<view, channel, fast, slow>>,
           worker[w].pc # "idle", new.pc \notin {"idle", "finish"},
           new.key = worker[w].key, new.callback = worker[w].callback
    PROVE  /\ HandedInv'
           /\ \A r \in view.queued : Answers(r[1], r[2]) => Answers(r[1], r[2])'
<1>1. worker'[w] = new /\ \A x \in Workers : x # w => worker'[x] = worker[x]
  BY DEF ShownInv, WorkersInv
<1>2. HandedInv'
  <2>1. \A S \in SUBSET Workers : \A x :
          (\E y \in S : worker[y].pc # "idle" /\ worker[y].key = x) =>
              (\E y \in S : worker'[y].pc # "idle" /\ worker'[y].key = x)
    BY <1>1
  <2>2. FastWorkers \in SUBSET Workers /\ SlowWorkers \in SUBSET Workers
    BY DEF Workers
  <2> QED BY <2>1, <2>2 DEF HandedInv, HandedOut
<1>3. ASSUME NEW r \in view.queued, Answers(r[1], r[2]) PROVE Answers(r[1], r[2])'
  <2>1. \A x \in Workers : worker[x].pc \notin {"idle", "finish"} =>
            worker'[x].pc \notin {"idle", "finish"} /\ worker'[x].callback = worker[x].callback
    BY <1>1
  <2> QED BY <1>3, <2>1 DEF Answers
<1> QED BY <1>2, <1>3

\* The worker's result takes the place of the worker.
LEMMA SendRequests ==
    ASSUME ShownInv, HandedInv, NEW w \in Workers, WorkerSends(w)
    PROVE  /\ HandedInv'
           /\ \A r \in view.queued : Answers(r[1], r[2]) => Answers(r[1], r[2])'
<1> DEFINE job == worker[w]
           result == [book |-> job.callback.book, page |-> job.callback.page,
                      rotation |-> job.key.rotation, image |-> job.image]
           new == [job EXCEPT !.pc = "finish"]
<1>1. /\ job.pc = "send" /\ channel' = Append(channel, result)
      /\ worker' = [worker EXCEPT ![w].pc = "finish"] /\ UNCHANGED <<view, fast, slow>>
  BY Zenon DEF WorkerSends
<1>2. DOMAIN worker = Workers /\ WorkerInv(job) /\ channel \in Seq(Dones)
  BY DEF ShownInv, WorkersInv, Results
<1>3. job \in Jobs /\ Fits(job.callback, job.key)
  BY <1>1, <1>2 DEF WorkerInv, Idle
<1>4. worker'[w] = new /\ \A x \in Workers : x # w => worker'[x] = worker[x]
  BY <1>1, <1>2
<1>5. new.pc = "finish" /\ new.key = job.key /\ new.callback = job.callback
  BY <1>3 DEF Jobs
<1> HIDE DEF new
<1>6. HandedInv'
  <2>1. \A S \in SUBSET Workers : \A x :
          (\E y \in S : worker[y].pc # "idle" /\ worker[y].key = x) =>
              (\E y \in S : worker'[y].pc # "idle" /\ worker'[y].key = x)
    BY <1>4, <1>5
  <2>2. FastWorkers \in SUBSET Workers /\ SlowWorkers \in SUBSET Workers
    BY DEF Workers
  <2> QED BY <1>1, <2>1, <2>2 DEF HandedInv, HandedOut
<1>7. /\ result \in Dones /\ result.book = job.callback.book
      /\ result.page = job.callback.page /\ result.rotation = job.callback.rotation
  BY <1>3 DEF Jobs, Callbacks, Keys, Dones, Fits
<1> HIDE DEF result
<1>8. /\ \A i \in DOMAIN channel : i \in DOMAIN channel' /\ channel'[i] = channel[i]
      /\ \E i \in DOMAIN channel' : channel'[i] = result
  <2>1. /\ Len(channel') = Len(channel) + 1 /\ Len(channel) \in Nat
        /\ DOMAIN channel' = 1..(Len(channel) + 1) /\ DOMAIN channel = 1..Len(channel)
        /\ channel'[Len(channel) + 1] = result
        /\ \A i \in 1..Len(channel) : channel'[i] = channel[i]
    BY <1>1, <1>2, <1>7
  <2> QED BY <2>1
<1>9. ASSUME NEW r \in view.queued, Answers(r[1], r[2]) PROVE Answers(r[1], r[2])'
  <2>1. CASE \E q \in {fast, slow} : \E k \in Waiting(q) :
                /\ q.entries[k].callback.book = view.book
                /\ q.entries[k].callback.page = r[1] /\ q.entries[k].callback.rotation = r[2]
    BY <1>1, <2>1 DEF Answers
  <2>2. CASE \E x \in Workers :
                /\ worker[x].pc \notin {"idle", "finish"} /\ worker[x].callback.book = view.book
                /\ worker[x].callback.page = r[1] /\ worker[x].callback.rotation = r[2]
    <3>1. PICK x \in Workers :
                /\ worker[x].pc \notin {"idle", "finish"} /\ worker[x].callback.book = view.book
                /\ worker[x].callback.page = r[1] /\ worker[x].callback.rotation = r[2]
      BY <2>2
    <3>2. CASE x = w
      <4>1. result.book = view.book /\ result.page = r[1] /\ result.rotation = r[2]
        BY <1>7, <3>1, <3>2
      <4>2. PICK i \in DOMAIN channel' : channel'[i] = result
        BY <1>8
      <4> QED BY <1>1, <4>1, <4>2 DEF Answers
    <3>3. CASE x # w
      BY <1>1, <1>4, <3>1, <3>3 DEF Answers
    <3> QED BY <3>2, <3>3
  <2>3. CASE \E i \in DOMAIN channel : /\ channel[i].book = view.book /\ channel[i].page = r[1]
                                       /\ channel[i].rotation = r[2]
    BY <1>1, <1>8, <2>3 DEF Answers
  <2> QED BY <1>9, <2>1, <2>2, <2>3 DEF Answers
<1> QED BY <1>6, <1>9

\* The item leaves the queue, even when it waits there again.
LEMMA FinishRequests ==
    ASSUME ShownInv, HandedInv, NEW w \in Workers, WorkerFinishes(w)
    PROVE  /\ HandedInv'
           /\ \A r \in view.queued : Answers(r[1], r[2]) =>
                 Answers(r[1], r[2])' \/ worker[w].key = ItemOf(view.book, r)
<1> DEFINE q == QueueOf(w)
           k == worker[w].key
           left == RemoveItem(q, k)
<1>1. /\ worker' = [worker EXCEPT ![w] = Idle] /\ SetQueue(w, left)
      /\ worker[w].pc = "finish" /\ UNCHANGED <<view, channel>>
  BY Zenon DEF WorkerFinishes
<1>2. /\ QueueInv(fast) /\ QueueInv(slow) /\ DOMAIN worker = Workers /\ QueueInv(q)
      /\ \A r \in view.queued : r \in Wants
  BY DEF ShownInv, PoolInv, WorkersInv, QueueOf, ViewInv, Views
<1>3. \/ w \in FastWorkers /\ q = fast /\ fast' = left /\ slow' = slow
      \/ w \in SlowWorkers /\ q = slow /\ slow' = left /\ fast' = fast
  BY <1>1, QueueOfIs
<1> HIDE DEF q
<1>4. /\ \A x : x \in Queued(left) <=> x \in Queued(q) /\ x # k
      /\ \A x \in Queued(left) : left.entries[x] = q.entries[x]
  BY <1>2, RemoveItemFacts
<1> HIDE DEF left
<1>5. worker'[w].pc = "idle" /\ \A x \in Workers : x # w => worker'[x] = worker[x]
  BY <1>1, <1>2 DEF Idle
<1>6. HandedInv'
  <2>1. \A S \in SUBSET Workers : \A x :
          w \notin S /\ (\E y \in S : worker[y].pc # "idle" /\ worker[y].key = x) =>
              (\E y \in S : worker'[y].pc # "idle" /\ worker'[y].key = x)
    BY <1>5
  <2>2. \A S \in SUBSET Workers : \A x :
          x # k /\ (\E y \in S : worker[y].pc # "idle" /\ worker[y].key = x) =>
              (\E y \in S : worker'[y].pc # "idle" /\ worker'[y].key = x)
    BY <1>5
  <2>3. FastWorkers \in SUBSET Workers /\ SlowWorkers \in SUBSET Workers
        /\ FastWorkers \cap SlowWorkers = {}
    BY ConstantsAssumption DEF Workers
  <2>4. CASE w \in FastWorkers /\ q = fast /\ fast' = left /\ slow' = slow
    <3>1. HandedOut(slow', worker', SlowWorkers)
      BY <2>1, <2>3, <2>4 DEF HandedInv, HandedOut
    <3>2. HandedOut(fast', worker', FastWorkers)
      BY <1>4, <2>2, <2>3, <2>4 DEF HandedInv, HandedOut
    <3> QED BY <3>1, <3>2 DEF HandedInv
  <2>5. CASE w \in SlowWorkers /\ q = slow /\ slow' = left /\ fast' = fast
    <3>1. HandedOut(fast', worker', FastWorkers)
      BY <2>1, <2>3, <2>5 DEF HandedInv, HandedOut
    <3>2. HandedOut(slow', worker', SlowWorkers)
      BY <1>4, <2>2, <2>3, <2>5 DEF HandedInv, HandedOut
    <3> QED BY <3>1, <3>2 DEF HandedInv
  <2> QED BY <1>3, <2>4, <2>5
<1>7. ASSUME NEW r \in view.queued, Answers(r[1], r[2]), k # ItemOf(view.book, r)
      PROVE  Answers(r[1], r[2])'
  <2>1. CASE \E y \in {fast, slow} : \E x \in Waiting(y) :
                /\ y.entries[x].callback.book = view.book
                /\ y.entries[x].callback.page = r[1] /\ y.entries[x].callback.rotation = r[2]
    <3>1. PICK y \in {fast, slow} : \E x \in Waiting(y) :
                /\ y.entries[x].callback.book = view.book
                /\ y.entries[x].callback.page = r[1] /\ y.entries[x].callback.rotation = r[2]
      BY <2>1
    <3>2. PICK x \in Waiting(y) :
                /\ y.entries[x].callback.book = view.book
                /\ y.entries[x].callback.page = r[1] /\ y.entries[x].callback.rotation = r[2]
      BY <3>1
    <3>3. CASE y # q
      <4>1. y \in {fast', slow'}
        BY <1>3, <3>3
      <4> QED BY <1>1, <3>2, <4>1 DEF Answers
    <3>4. CASE y = q
      <4>1. x = ItemOf(view.book, r)
        BY <1>2, <3>1, <3>2, CallbacksFit, AskedItem
      <4>2. left \in {fast', slow'} /\ x \in Waiting(left)
            /\ left.entries[x].callback = y.entries[x].callback
        BY <1>3, <1>4, <1>7, <3>4, <4>1 DEF Waiting, Queued
      <4> QED BY <1>1, <3>2, <4>2 DEF Answers
    <3> QED BY <3>3, <3>4
  <2>2. CASE \E x \in Workers :
                /\ worker[x].pc \notin {"idle", "finish"} /\ worker[x].callback.book = view.book
                /\ worker[x].callback.page = r[1] /\ worker[x].callback.rotation = r[2]
    BY <1>1, <1>5, <2>2 DEF Answers
  <2>3. CASE \E i \in DOMAIN channel : /\ channel[i].book = view.book /\ channel[i].page = r[1]
                                       /\ channel[i].rotation = r[2]
    BY <1>1, <2>3 DEF Answers
  <2> QED BY <1>7, <2>1, <2>2, <2>3 DEF Answers
<1> QED BY <1>6, <1>7

\* The steps of a worker.
LEMMA WorkerRequests ==
    ASSUME ShownInv, HandedInv, NEW w \in Workers, WorkerStep(w)
    PROVE  HandedInv' /\ StrandedRightly
<1>1. /\ DOMAIN worker = Workers /\ WorkerInv(worker[w])
      /\ \A r \in view.queued : r \in Wants
  BY DEF ShownInv, WorkersInv, ViewInv, Views
<1>2. ASSUME UNCHANGED view,
             \A r \in view.queued : Answers(r[1], r[2]) =>
                 Answers(r[1], r[2])' \/ (worker[w].pc = "finish" /\ worker[w].key = ItemOf(view.book, r))
      PROVE  StrandedRightly
  BY <1>2 DEF StrandedRightly, Stranded, KeyOf, ItemOf
<1>3. CASE WorkerStarts(w)
  <2>1. UNCHANGED view
    BY <1>3 DEF WorkerStarts
  <2> QED BY <1>2, <1>3, <2>1, StartRequests
<1>4. ASSUME NEW new, worker' = [worker EXCEPT ![w] = new], UNCHANGED <<view, channel, fast, slow>>,
             worker[w].pc # "idle", new.pc \notin {"idle", "finish"},
             new.key = worker[w].key, new.callback = worker[w].callback
      PROVE  HandedInv' /\ StrandedRightly
  <2>1. /\ HandedInv'
        /\ \A r \in view.queued : Answers(r[1], r[2]) => Answers(r[1], r[2])'
    BY <1>4, GoesOnRequests
  <2> QED BY <1>2, <1>4, <2>1
<1>5. CASE WorkerLooks(w)
  <2> DEFINE new == IF InPool(memory, worker[w].key)
                    THEN [worker[w] EXCEPT !.pc = "send", !.image = worker[w].key]
                    ELSE [worker[w] EXCEPT !.pc = "render"]
  <2>1. /\ worker[w].pc = "look" /\ worker' = [worker EXCEPT ![w] = new]
        /\ UNCHANGED <<view, channel, fast, slow>>
    BY <1>5, Zenon DEF WorkerLooks
  <2>2. worker[w] \in Jobs
    BY <1>1, <2>1 DEF WorkerInv, Idle
  <2>3. /\ new.pc \in {"send", "render"} /\ new.key = worker[w].key
        /\ new.callback = worker[w].callback
    BY <2>2 DEF Jobs
  <2> HIDE DEF new
  <2> QED BY <1>4, <2>1, <2>3
<1>6. CASE WorkerRenders(w)
  <2>1. /\ worker[w].pc = "render" /\ UNCHANGED <<view, channel, fast, slow>>
        /\ \/ worker' = [worker EXCEPT ![w].pc = "send", ![w].image = ErrorPage]
           \/ worker' = [worker EXCEPT ![w].pc = "store", ![w].image = worker[w].key]
    BY <1>6 DEF WorkerRenders
  <2>2. worker[w] \in Jobs
    BY <1>1, <2>1 DEF WorkerInv, Idle
  <2>3. CASE worker' = [worker EXCEPT ![w].pc = "send", ![w].image = ErrorPage]
    <3> DEFINE new == [worker[w] EXCEPT !.pc = "send", !.image = ErrorPage]
    <3>1. worker' = [worker EXCEPT ![w] = new]
      BY <1>1, <2>3
    <3>2. new.pc = "send" /\ new.key = worker[w].key /\ new.callback = worker[w].callback
      BY <2>2 DEF Jobs
    <3> HIDE DEF new
    <3> QED BY <1>4, <2>1, <3>1, <3>2
  <2>4. CASE worker' = [worker EXCEPT ![w].pc = "store", ![w].image = worker[w].key]
    <3> DEFINE new == [worker[w] EXCEPT !.pc = "store", !.image = worker[w].key]
    <3>1. worker' = [worker EXCEPT ![w] = new]
      BY <1>1, <2>4
    <3>2. new.pc = "store" /\ new.key = worker[w].key /\ new.callback = worker[w].callback
      BY <2>2 DEF Jobs
    <3> HIDE DEF new
    <3> QED BY <1>4, <2>1, <3>1, <3>2
  <2> QED BY <2>1, <2>3, <2>4
<1>7. CASE WorkerStores(w)
  <2> DEFINE new == [worker[w] EXCEPT !.pc = "send"]
  <2>1. /\ worker[w].pc = "store" /\ worker' = [worker EXCEPT ![w].pc = "send"]
        /\ UNCHANGED <<view, channel, fast, slow>>
    BY <1>7, Zenon DEF WorkerStores
  <2>2. worker[w] \in Jobs
    BY <1>1, <2>1 DEF WorkerInv, Idle
  <2>3. worker' = [worker EXCEPT ![w] = new]
    BY <1>1, <2>1
  <2>4. new.pc = "send" /\ new.key = worker[w].key /\ new.callback = worker[w].callback
    BY <2>2 DEF Jobs
  <2> HIDE DEF new
  <2> QED BY <1>4, <2>1, <2>3, <2>4
<1>8. CASE WorkerSends(w)
  <2>1. UNCHANGED view
    BY <1>8 DEF WorkerSends
  <2> QED BY <1>2, <1>8, <2>1, SendRequests
<1>9. CASE WorkerFinishes(w)
  <2>1. UNCHANGED view /\ worker[w].pc = "finish"
    BY <1>9 DEF WorkerFinishes
  <2> QED BY <1>2, <1>9, <2>1, FinishRequests
<1> QED BY <1>3, <1>5, <1>6, <1>7, <1>8, <1>9 DEF WorkerStep

\* One result leaves the requests of other pages and clears its own.
LEMMA LoadedRequests ==
    ASSUME NEW v, ViewInv(v), NEW done \in Dones, Belongs(done.image, done.book, PageIndex(done.page))
    PROVE  /\ OnPageLoaded(v, done).book = v.book
           /\ OnPageLoaded(v, done).queued \subseteq v.queued
           /\ done.book = v.book => <<done.page, done.rotation>> \notin OnPageLoaded(v, done).queued
<1>1. CASE done.book # v.book
  BY <1>1 DEF OnPageLoaded
<1>2. CASE done.book = v.book
  <2> DEFINE queued == v.queued \ {<<done.page, done.rotation>>}
             f == Load(v.loaded, done.page, done.image)
             wanted == Chosen(v.wanted, (Pages \ {done.page}) \X Rotations)
             u == [v EXCEPT !.queued = queued, !.loaded = f, !.wanted = wanted]
  <2>1. OnPageLoaded(v, done) = Recompose(u)
    BY <1>2, Zenon DEF OnPageLoaded
  <2>2. v \in Views
    BY DEF ViewInv
  <2> HIDE DEF f, wanted
  <2>3. u.queued = queued /\ u.book = v.book /\ DOMAIN u = DOMAIN v
    BY <2>2 DEF Views
  <2>4. Recompose(u).queued = u.queued /\ Recompose(u).book = u.book
    <3> HIDE DEF u
    <3> QED BY <2>2, <2>3 DEF Recompose, Views
  <2> QED BY <2>1, <2>3, <2>4
<1> QED BY <1>1, <1>2

\* After all results that wait, no request that one of them answers is left.
LEMMA DrainRequests ==
    ASSUME NEW v, ViewInv(v), NEW w \in Seq(Results), NEW out, out = FoldLeft(OnPageLoaded, v, w)
    PROVE  /\ out.book = v.book /\ out.queued \subseteq v.queued
           /\ \A i \in DOMAIN w : w[i].book = v.book => <<w[i].page, w[i].rotation>> \notin out.queued
<1>1. PICK it : Drains(it, v, w)
  BY DrainSteps
<1> DEFINE P(k) == /\ ViewInv(it[k]) /\ it[k].book = v.book /\ it[k].queued \subseteq v.queued
                   /\ \A i \in 1..k : w[i].book = v.book =>
                          <<w[i].page, w[i].rotation>> \notin it[k].queued
           D == {k \in Nat : k <= Len(w) => P(k)}
<1>2. 0 \in D
  BY <1>1 DEF Drains
<1>3. ASSUME NEW k \in Nat, k \in D PROVE k + 1 \in D
  <2> SUFFICES ASSUME k + 1 <= Len(w) PROVE P(k + 1)
    OBVIOUS
  <2>1. k < Len(w) /\ k <= Len(w) /\ w[k + 1] \in Results /\ \A i \in 1..(k + 1) : i \in 1..k \/ i = k + 1
    OBVIOUS
  <2>2. it[k + 1] = OnPageLoaded(it[k], w[k + 1]) /\ P(k)
    BY <1>1, <1>3, <2>1 DEF Drains
  <2>3. /\ ViewInv(it[k + 1]) /\ it[k + 1].book = it[k].book /\ it[k + 1].queued \subseteq it[k].queued
        /\ w[k + 1].book = it[k].book =>
               <<w[k + 1].page, w[k + 1].rotation>> \notin it[k + 1].queued
    <3>1. /\ w[k + 1] \in Dones
          /\ Belongs(w[k + 1].image, w[k + 1].book, PageIndex(w[k + 1].page))
      BY <2>1 DEF Results
    <3> QED BY <2>2, <3>1, LoadedKeeps, LoadedRequests
  <2> QED BY <2>1, <2>2, <2>3
<1> HIDE DEF D
<1>4. Len(w) \in D /\ DOMAIN w = 1..Len(w) /\ Len(w) \in Nat
  BY <1>2, <1>3, Induction
<1>5. P(Len(w)) /\ out = it[Len(w)]
  BY <1>1, <1>4 DEF D, Drains
<1> QED BY <1>4, <1>5

\* A tick of the pump.
LEMMA PumpRequests ==
    ASSUME ShownInv, HandedInv, PumpTicks
    PROVE  HandedInv' /\ StrandedRightly
<1>1. UNCHANGED <<fast, slow, worker>> /\ ViewInv(view) /\ channel \in Seq(Results)
  BY DEF PumpTicks, pool, ShownInv
<1>2. HandedInv'
  BY <1>1 DEF HandedInv, HandedOut
<1>3. CASE channel = <<>>
  <2>1. UNCHANGED <<view, channel>>
    BY <1>3 DEF PumpTicks
  <2>2. Stranded' = Stranded
    BY <1>1, <2>1 DEF Stranded, Answers
  <2> QED BY <1>2, <2>2 DEF StrandedRightly
<1>4. CASE channel # <<>>
  <2>1. view' = FoldLeft(OnPageLoaded, view, channel)
    BY <1>4, Zenon DEF PumpTicks
  <2>2. /\ view'.book = view.book /\ view'.queued \subseteq view.queued
        /\ \A i \in DOMAIN channel : channel[i].book = view.book =>
               <<channel[i].page, channel[i].rotation>> \notin view'.queued
    BY <1>1, <2>1, DrainRequests
  <2>3. ASSUME NEW r \in view'.queued, Answers(r[1], r[2]) PROVE Answers(r[1], r[2])'
    <3>1. r = <<r[1], r[2]>>
      BY <1>1, <2>2, <2>3 DEF ViewInv, Views, Wants
    <3>2. \A i \in DOMAIN channel : ~(/\ channel[i].book = view.book /\ channel[i].page = r[1]
                                      /\ channel[i].rotation = r[2])
      BY <2>2, <2>3, <3>1
    <3> QED BY <1>1, <2>2, <2>3, <3>2 DEF Answers
  <2>4. Stranded' \subseteq Stranded
    BY <2>2, <2>3 DEF Stranded
  <2> QED BY <1>2, <2>4 DEF StrandedRightly
<1> QED BY <1>3, <1>4

\* Every step.
LEMMA RequestsStep == ShownInv /\ HandedInv /\ [Next]_vars => HandedInv' /\ (StrandedRightly \/ UNCHANGED vars)
<1> SUFFICES ASSUME ShownInv, HandedInv, [Next]_vars
             PROVE  HandedInv' /\ (StrandedRightly \/ UNCHANGED vars)
  OBVIOUS
<1>1. CASE UNCHANGED vars
  BY <1>1 DEF vars, HandedInv, HandedOut
<1>2. CASE Reader
  BY <1>2, ReaderRequests
<1>3. ASSUME NEW w \in Workers, WorkerStep(w) PROVE HandedInv' /\ StrandedRightly
  BY <1>3, WorkerRequests
<1>4. CASE PumpTicks
  BY <1>4, PumpRequests
<1> QED BY <1>1, <1>2, <1>3, <1>4 DEF Next

\* No item is marked as running that nobody runs: every one that a queue has handed
\* out, and not dropped since, is with one of its own workers (queue.rs claim_next, finish).
THEOREM HandedOutIsHeld == Spec => []HandedInv
<1>1. Init => HandedInv
  BY DEF Init, NewQueue, HandedInv, HandedOut, Queued
<1> QED BY <1>1, RequestsStep, ShownInvariant, PTL DEF Spec

\* A request is lost only to a queue at its size, or to a worker that has sent its
\* result and not yet removed the item (queue.rs trim and finish, page_view.rs queued).
THEOREM RequestsStay == Spec => LostOnlyToTrimOrFinish
<1>1. StrandedRightly =>
          \A r \in Stranded' \ Stranded :
              \/ \E q \in {fast', slow'} : Full(q) /\ KeyOf(view', r[1], r[2]) \notin Queued(q)
              \/ \E w \in Workers : /\ worker[w].pc = "finish"
                                    /\ worker[w].key = KeyOf(view', r[1], r[2])
  BY DEF StrandedRightly
<1> QED BY <1>1, RequestsStep, ShownInvariant, HandedOutIsHeld, PTL DEF Spec, LostOnlyToTrimOrFinish

--------------------------------------------------------------------------------
(* The thumbnails: the same queues with other items, and views that count  *)
(* what they wait for.  ThumbnailViews is looked at through an instance,   *)
(* for constants and variables of its own.                                 *)

CONSTANTS
    ThumbBooks, ThumbDamaged, ThumbFast, ThumbSlow, ThumbQueueSize, ThumbMemory,
    ItemViews, Panels, CoverWorkers, DiskItems, PruneStride, MaxEvents

VARIABLES
    thumbView, thumbChannel, thumbFast, thumbSlow, thumbWorker, thumbMemory, thumbDisk,
    onDemand, covers, events

Thumbs ==
    INSTANCE ThumbnailViews
        WITH Books <- ThumbBooks, Damaged <- ThumbDamaged,
             FastWorkers <- ThumbFast, SlowWorkers <- ThumbSlow,
             QueueSize <- ThumbQueueSize, MemoryItems <- ThumbMemory,
             view <- thumbView, channel <- thumbChannel,
             fast <- thumbFast, slow <- thumbSlow, worker <- thumbWorker,
             memory <- thumbMemory, disk <- thumbDisk

\* What the queues of both modules do is the same.
LEMMA SameQueues ==
    ASSUME NEW q, NEW k
    PROVE  /\ Thumbs!Queued(q) = Queued(q) /\ Thumbs!Waiting(q) = Waiting(q)
           /\ Thumbs!NextItem(q) = NextItem(q) /\ Thumbs!Claim(q) = Claim(q)
           /\ Thumbs!RemoveItem(q, k) = RemoveItem(q, k)
           /\ Thumbs!ClearQueue(q) = ClearQueue(q) /\ Thumbs!NewQueue(k) = NewQueue(k)
           /\ \A c, m : Thumbs!AddItem(q, k, c, m) = AddItem(q, k, c, m)
<1>1. \A s, x : Thumbs!RemoveFirst(s, x) = RemoveFirst(s, x)
  BY Zenon DEF Thumbs!RemoveFirst, RemoveFirst, Thumbs!SelectInSeq, SelectInSeq, RemoveAt,
               Thumbs!RemoveAt, Min, Thumbs!Min
<1>2. \A s : Thumbs!ToSet(s) = ToSet(s)
  BY Zenon DEF Thumbs!ToSet, ToSet
<1>3. \A a, n : Thumbs!TrimTo(a, n) = TrimTo(a, n)
  BY <1>2, Zenon DEF Thumbs!TrimTo, TrimTo
<1>4. Thumbs!Queued(q) = Queued(q) /\ Thumbs!Waiting(q) = Waiting(q)
  BY Zenon DEF Thumbs!Queued, Queued, Thumbs!Waiting, Waiting
<1>5. Thumbs!NextItem(q) = NextItem(q)
  BY <1>4, Zenon DEF Thumbs!NextItem, NextItem
<1>6. Thumbs!Claim(q) = Claim(q)
  BY <1>5, Zenon DEF Thumbs!Claim, Claim
<1>7. Thumbs!RemoveItem(q, k) = RemoveItem(q, k)
  BY <1>1, Zenon DEF Thumbs!RemoveItem, RemoveItem
<1>8. Thumbs!ClearQueue(q) = ClearQueue(q) /\ Thumbs!NewQueue(k) = NewQueue(k)
  BY <1>3, Zenon DEF Thumbs!ClearQueue, ClearQueue, Thumbs!SetSize, SetSize, Thumbs!NewQueue,
                     NewQueue
<1>9. \A c, m : Thumbs!AddItem(q, k, c, m) = AddItem(q, k, c, m)
  BY <1>1, <1>3, <1>4, Zenon DEF Thumbs!AddItem, AddItem
<1> QED BY <1>4, <1>5, <1>6, <1>7, <1>8, <1>9

\* A queue whose order holds each item of its table once.
Holds(q, K, C) == IsQueue(q, K, C) /\ ToSet(q.order) = Queued(q) /\ Once(q.order)

\* What a trim leaves.
LEMMA TrimmedQueue ==
    ASSUME NEW K, NEW C, NEW q, Holds(q, K, C), NEW n \in Nat, NEW r, r = TrimTo(q, n)
    PROVE  /\ Holds(r, K, C) /\ r.size = q.size
           /\ \A x \in Queued(r) : x \in Queued(q) /\ r.entries[x] = q.entries[x]
<1> DEFINE kept == IF Len(q.order) > n THEN SubSeq(q.order, 1, n) ELSE q.order
           entries == [x \in DOMAIN q.entries \cap ToSet(kept) |-> q.entries[x]]
<1>1. /\ DOMAIN q = {"order", "entries", "size"} /\ q.order \in Seq(K) /\ Once(q.order)
      /\ ToSet(q.order) = DOMAIN q.entries
  BY DEF Holds, IsQueue, Queued
<1>2. kept \in Seq(K) /\ Once(kept) /\ ToSet(kept) \subseteq ToSet(q.order)
  <2>1. kept = IF Len(q.order) > n THEN SubSeq(q.order, 1, n) ELSE q.order
    OBVIOUS
  <2> HIDE DEF kept
  <2> QED BY <1>1, <2>1, TrimmedFacts
<1> HIDE DEF kept
<1>3. r = [q EXCEPT !.order = kept, !.entries = entries]
  BY DEF TrimTo, kept
<1>4. /\ DOMAIN entries = ToSet(kept) /\ \A x \in DOMAIN entries : entries[x] = q.entries[x]
  BY <1>1, <1>2
<1> HIDE DEF entries
<1>5. /\ DOMAIN r = {"order", "entries", "size"} /\ r.size = q.size
      /\ r.order = kept /\ r.entries = entries
  BY <1>1, <1>3
<1>6. /\ \A x \in Queued(r) : x \in Queued(q) /\ r.entries[x] = q.entries[x]
  BY <1>1, <1>2, <1>4, <1>5 DEF Queued
<1>7. Holds(r, K, C)
  BY <1>1, <1>2, <1>4, <1>5, <1>6 DEF Holds, IsQueue, Queued
<1> QED BY <1>5, <1>6, <1>7

\* An item that is asked for: the others are as they were, and an item that is there
\* keeps its callback.
LEMMA AddedItem ==
    ASSUME NEW K, NEW C, NEW q, Holds(q, K, C), NEW k \in K, NEW c \in C, NEW mode,
           NEW r, r = AddItem(q, k, c, mode)
    PROVE  /\ Holds(r, K, C)
           /\ \A x \in Queued(r) : \/ x \in Queued(q) /\ r.entries[x] = q.entries[x]
                                   \/ x = k /\ r.entries[x] = [callback |-> c, running |-> FALSE]
<1>1. /\ DOMAIN q = {"order", "entries", "size"} /\ q.order \in Seq(K) /\ Once(q.order)
      /\ ToSet(q.order) = DOMAIN q.entries /\ q.size \in Nat /\ DOMAIN q.entries \subseteq K
      /\ \A x \in DOMAIN q.entries : q.entries[x] \in [callback : C, running : BOOLEAN]
  BY DEF Holds, IsQueue, Queued
<1>2. CASE k \in Queued(q) /\ mode = "AddToTop"
  <2> DEFINE rest == RemoveFirst(q.order, k)
             order == <<k>> \o rest
  <2>1. r = [q EXCEPT !.order = order]
    BY <1>2 DEF AddItem
  <2>2. rest \in Seq(K) /\ Once(rest) /\ ToSet(rest) = ToSet(q.order) \ {k}
    BY <1>1, RemoveFirstFacts
  <2> HIDE DEF rest
  <2>3. order \in Seq(K) /\ Once(order) /\ ToSet(order) = ToSet(rest) \cup {k}
    BY <2>2, PrependedFacts
  <2> HIDE DEF order
  <2>4. /\ DOMAIN r = {"order", "entries", "size"} /\ r.size = q.size
        /\ r.order = order /\ r.entries = q.entries
    BY <1>1, <2>1
  <2>5. ToSet(order) = DOMAIN q.entries
    BY <1>1, <1>2, <2>2, <2>3 DEF Queued
  <2> QED BY <1>1, <2>3, <2>4, <2>5 DEF Holds, IsQueue, Queued
<1>3. CASE k \in Queued(q) /\ mode # "AddToTop"
  BY <1>3 DEF AddItem
<1>4. CASE k \notin Queued(q)
  <2> DEFINE order == IF mode = "AddToTop" THEN <<k>> \o q.order ELSE Append(q.order, k)
             entries == [x \in DOMAIN q.entries \cup {k} |->
                            IF x = k THEN [callback |-> c, running |-> FALSE] ELSE q.entries[x]]
             t == [q EXCEPT !.order = order, !.entries = entries]
  <2>1. r = TrimTo(t, q.size)
    BY <1>4, Zenon DEF AddItem
  <2>2. k \notin ToSet(q.order)
    BY <1>1, <1>4 DEF Queued
  <2>3. order \in Seq(K) /\ Once(order) /\ ToSet(order) = ToSet(q.order) \cup {k}
    BY <1>1, <2>2, PrependedFacts, AppendedFacts
  <2> HIDE DEF order
  <2>4. /\ DOMAIN entries = DOMAIN q.entries \cup {k}
        /\ entries[k] = [callback |-> c, running |-> FALSE]
        /\ \A x \in DOMAIN q.entries : x # k /\ entries[x] = q.entries[x]
    BY <1>4 DEF Queued
  <2> HIDE DEF entries
  <2>5. /\ DOMAIN t = {"order", "entries", "size"} /\ t.size = q.size
        /\ t.order = order /\ t.entries = entries
    BY <1>1
  <2> HIDE DEF t
  <2>6. entries[k] \in [callback : C, running : BOOLEAN]
    BY <2>4
  <2>7. \A x \in DOMAIN entries : entries[x] \in [callback : C, running : BOOLEAN]
    BY <1>1, <2>4, <2>6
  <2>8. Holds(t, K, C)
    BY <1>1, <2>3, <2>4, <2>5, <2>7 DEF Holds, IsQueue, Queued
  <2>9. /\ Holds(r, K, C)
        /\ \A x \in Queued(r) : x \in Queued(t) /\ r.entries[x] = t.entries[x]
    BY <1>1, <2>1, <2>8, TrimmedQueue
  <2> QED BY <2>4, <2>5, <2>9 DEF Queued
<1> QED BY <1>2, <1>3, <1>4

\* An item that is removed.
LEMMA RemovedItem ==
    ASSUME NEW K, NEW C, NEW q, Holds(q, K, C), NEW k, NEW r, r = RemoveItem(q, k)
    PROVE  /\ Holds(r, K, C)
           /\ \A x \in Queued(r) : x \in Queued(q) /\ r.entries[x] = q.entries[x]
<1> DEFINE order == RemoveFirst(q.order, k)
           entries == [x \in DOMAIN q.entries \ {k} |-> q.entries[x]]
<1>1. /\ DOMAIN q = {"order", "entries", "size"} /\ q.order \in Seq(K) /\ Once(q.order)
      /\ ToSet(q.order) = DOMAIN q.entries
  BY DEF Holds, IsQueue, Queued
<1>2. order \in Seq(K) /\ Once(order) /\ ToSet(order) = ToSet(q.order) \ {k}
  BY <1>1, RemoveFirstFacts
<1>3. r = [q EXCEPT !.order = order, !.entries = entries]
  BY DEF RemoveItem
<1> HIDE DEF order
<1>4. DOMAIN entries = DOMAIN q.entries \ {k} /\ \A x \in DOMAIN entries : entries[x] = q.entries[x]
  OBVIOUS
<1> HIDE DEF entries
<1>5. /\ DOMAIN r = {"order", "entries", "size"} /\ r.size = q.size
      /\ r.order = order /\ r.entries = entries
  BY <1>1, <1>3
<1>6. Holds(r, K, C)
  BY <1>1, <1>2, <1>4, <1>5 DEF Holds, IsQueue, Queued
<1> QED BY <1>4, <1>5, <1>6 DEF Queued

\* The item that a worker takes.
LEMMA ClaimedItem ==
    ASSUME NEW K, NEW C, NEW q, Holds(q, K, C), Waiting(q) # {}, NEW k, k = NextItem(q),
           NEW r, r = Claim(q)
    PROVE  /\ k \in Waiting(q) /\ Holds(r, K, C) /\ q.entries[k].callback \in C
           /\ Waiting(r) = Waiting(q) \ {k}
           /\ \A x \in Waiting(r) : r.entries[x] = q.entries[x]
<1>1. /\ DOMAIN q = {"order", "entries", "size"} /\ q.order \in Seq(K) /\ Once(q.order)
      /\ ToSet(q.order) = DOMAIN q.entries
      /\ \A x \in DOMAIN q.entries : q.entries[x] \in [callback : C, running : BOOLEAN]
  BY DEF Holds, IsQueue, Queued
<1> DEFINE W == {i \in DOMAIN q.order : q.order[i] \in Waiting(q)}
           P(i) == /\ i \in DOMAIN q.order /\ q.order[i] \in Waiting(q)
                   /\ \A j \in 1..(i - 1) : q.order[j] \notin Waiting(q)
<1>2. \E i : P(i)
  <2>1. PICK x \in Waiting(q) : TRUE
    OBVIOUS
  <2>2. x \in ToSet(q.order)
    BY <1>1 DEF Waiting
  <2>3. W # {} /\ W \subseteq Nat
    BY <1>1, <2>2 DEF ToSet
  <2>4. PICK i \in W : \A j \in W : i <= j
    BY <2>3, LeastElement
  <2>5. ASSUME NEW j \in 1..(i - 1) PROVE q.order[j] \notin Waiting(q)
    <3>1. j \in DOMAIN q.order /\ ~(i <= j)
      BY <1>1, <2>4, <2>5
    <3> QED BY <2>4, <3>1
  <2> QED BY <2>4, <2>5
<1>3. k \in Waiting(q)
  <2>1. k = q.order[CHOOSE i \in DOMAIN q.order :
                       /\ q.order[i] \in Waiting(q)
                       /\ \A j \in 1..(i - 1) : q.order[j] \notin Waiting(q)]
    BY DEF NextItem
  <2> QED BY <1>2, <2>1, Zenon
<1> DEFINE one == [q.entries[k] EXCEPT !.running = TRUE]
           entries == [q.entries EXCEPT ![k] = one]
<1>4. r = [q EXCEPT !.entries = entries]
  BY Zenon DEF Claim
<1>5. k \in DOMAIN q.entries /\ q.entries[k] \in [callback : C, running : BOOLEAN]
  BY <1>1, <1>3 DEF Waiting
<1>6. one \in [callback : C, running : BOOLEAN] /\ one.running = TRUE
  BY <1>5
<1> HIDE DEF one
<1>7. DOMAIN entries = DOMAIN q.entries /\ entries[k] = one
      /\ \A x \in DOMAIN q.entries : x # k => entries[x] = q.entries[x]
  BY <1>5
<1> HIDE DEF entries
<1>8. /\ DOMAIN r = {"order", "entries", "size"} /\ r.size = q.size
      /\ r.order = q.order /\ r.entries = entries
  BY <1>1, <1>4
<1>9. Holds(r, K, C)
  BY <1>1, <1>6, <1>7, <1>8 DEF Holds, IsQueue, Queued
<1>10. Waiting(r) = Waiting(q) \ {k} /\ \A x \in Waiting(r) : r.entries[x] = q.entries[x]
  BY <1>6, <1>7, <1>8 DEF Waiting
<1> QED BY <1>3, <1>5, <1>9, <1>10

\* The covers a view queues, the one after the other.
Draws(it, v, s, w) ==
    /\ it[0] = s
    /\ \A k \in Nat : k < Len(w) => it[k + 1] = Thumbs!QueueThumb(it[k], v, w[k + 1])
    /\ Thumbs!FoldLeft(LAMBDA t, b : Thumbs!QueueThumb(t, v, b), s, w) = it[Len(w)]

\* What the fold over a view's books goes through: the function on the subsets of the
\* positions is built up from the first position on.
LEMMA DrawSteps ==
    ASSUME NEW v, NEW s, NEW C, NEW w \in Seq(C)
    PROVE  \E it : Draws(it, v, s, w)
<1> DEFINE n == Len(w)
           G(h) == h = [t \in SUBSET DOMAIN w |->
                          IF t = {} THEN s
                          ELSE Thumbs!QueueThumb(h[t \ {Thumbs!Max(t)}], v, w[Thumbs!Max(t)])]
           H(h, k) == h = [t \in SUBSET (1..k) |->
                             IF t = {} THEN s
                             ELSE Thumbs!QueueThumb(h[t \ {Max(t)}], v, w[Max(t)])]
           S == {k \in Nat : \E h : H(h, k)}
           g == CHOOSE h : G(h)
<1>1. n \in Nat /\ DOMAIN w = 1..n
  OBVIOUS
<1>2. Thumbs!FoldLeft(LAMBDA t, b : Thumbs!QueueThumb(t, v, b), s, w) = g[DOMAIN w]
  BY Zenon DEF Thumbs!FoldLeft, Thumbs!MapThenFoldSet
<1>3. \A t : Thumbs!Max(t) = Max(t)
  BY Zenon DEF Thumbs!Max, Max
<1>4. 0 \in S
  <2> DEFINE h == [t \in SUBSET (1..0) |-> s]
  <2>1. \A t \in SUBSET (1..0) : t = {}
    OBVIOUS
  <2>2. H(h, 0)
    <3>1. \A t \in SUBSET (1..0) : s = IF t = {} THEN s
                       ELSE Thumbs!QueueThumb(h[t \ {Max(t)}], v, w[Max(t)])
      BY <2>1, Zenon
    <3> QED BY <3>1, Zenon
  <2> HIDE DEF H
  <2> QED BY <2>2
<1>5. ASSUME NEW k \in Nat, k \in S PROVE k + 1 \in S
  <2>1. PICK h : H(h, k)
    BY <1>5
  <2> DEFINE j == [t \in SUBSET (1..(k + 1)) |->
                      IF k + 1 \in t THEN Thumbs!QueueThumb(h[t \ {k + 1}], v, w[k + 1]) ELSE h[t]]
             P(t) == IF t = {} THEN s
                     ELSE Thumbs!QueueThumb(j[t \ {Max(t)}], v, w[Max(t)])
  <2>2. \A t \in SUBSET (1..(k + 1)) : t \ {k + 1} \in SUBSET (1..k)
    BY LastOf
  <2>3. ASSUME NEW t \in SUBSET (1..(k + 1)) PROVE j[t] = P(t)
    <3>1. CASE k + 1 \in t
      <4>1. Max(t) = k + 1 /\ t # {}
        BY <3>1, LastOf
      <4>2. j[t \ {k + 1}] = h[t \ {k + 1}]
        BY <2>2
      <4>3. j[t] = Thumbs!QueueThumb(h[t \ {k + 1}], v, w[k + 1])
        BY <3>1, Zenon
      <4> HIDE DEF j
      <4> QED BY <4>1, <4>2, <4>3, Zenon
    <3>2. CASE k + 1 \notin t
      <4>1. t \in SUBSET (1..k) /\ j[t] = h[t]
        BY <2>2, <3>2
      <4>2. t \ {Max(t)} \in SUBSET (1..(k + 1)) /\ k + 1 \notin t \ {Max(t)}
        BY <3>2
      <4>3. j[t \ {Max(t)}] = h[t \ {Max(t)}]
        BY <4>2
      <4>4. h[t] = IF t = {} THEN s ELSE Thumbs!QueueThumb(h[t \ {Max(t)}], v, w[Max(t)])
        BY <2>1, <4>1, Zenon
      <4> HIDE DEF j, H
      <4> QED BY <4>1, <4>3, <4>4, Zenon
    <3> QED BY <3>1, <3>2
  <2>4. H(j, k + 1)
    <3>1. j = [t \in SUBSET (1..(k + 1)) |-> j[t]]
      OBVIOUS
    <3> HIDE DEF j
    <3>2. [t \in SUBSET (1..(k + 1)) |-> j[t]] = [t \in SUBSET (1..(k + 1)) |-> P(t)]
      BY <2>3, Zenon
    <3> QED BY <3>1, <3>2, Zenon
  <2> HIDE DEF H, j
  <2> QED BY <2>4
<1> HIDE DEF S
<1>6. n \in S
  BY <1>1, <1>4, <1>5, Induction
<1>7. G(g)
  <2>1. PICK h : H(h, n)
    BY <1>6 DEF S
  <2>2. G(h)
    BY <1>1, <1>3, <2>1, Zenon
  <2> HIDE DEF G
  <2> QED BY <2>2, Zenon
<1> HIDE DEF g
<1>8. ASSUME NEW t \in SUBSET (1..n), t # {}
      PROVE  g[t] = Thumbs!QueueThumb(g[t \ {Max(t)}], v, w[Max(t)])
  BY <1>1, <1>3, <1>7, <1>8, Zenon
<1>9. g[{}] = s
  <2>1. {} \in SUBSET DOMAIN w
    OBVIOUS
  <2> QED BY <1>7, <2>1, Zenon
<1> HIDE DEF G, H, n
<1> DEFINE it == [k \in Nat |-> g[1..k]]
<1>10. ASSUME NEW k \in Nat, k < n
       PROVE  it[k + 1] = Thumbs!QueueThumb(it[k], v, w[k + 1])
  <2>1. 1..(k + 1) \in SUBSET (1..n) /\ k + 1 \in 1..(k + 1) /\ 1..(k + 1) # {}
    <3>1. k + 1 \in 1..(k + 1) /\ \A i \in 1..(k + 1) : i \in 1..n
      BY <1>1, <1>10
    <3> QED BY <3>1
  <2>2. Max(1..(k + 1)) = k + 1 /\ (1..(k + 1)) \ {k + 1} = 1..k
    BY <2>1, LastOf
  <2>3. g[1..(k + 1)] = Thumbs!QueueThumb(g[1..k], v, w[k + 1])
    BY <1>8, <2>1, <2>2, Zenon
  <2> QED BY <2>3
<1>11. it[0] = s /\ g[DOMAIN w] = it[n]
  <2>1. 1..0 = {}
    OBVIOUS
  <2> QED BY <1>1, <1>9, <2>1
<1> HIDE DEF it
<1> QED BY <1>2, <1>10, <1>11 DEF Draws, n

\* The results a pump collects, the one after the other.
Collects(it, v, p, s, w) ==
    /\ it[0] = s
    /\ \A k \in Nat : k < Len(w) => it[k + 1] = Thumbs!Collect(v, p, it[k], w[k + 1])
    /\ Thumbs!FoldLeft(LAMBDA t, d : Thumbs!Collect(v, p, t, d), s, w) = it[Len(w)]

\* What the fold over the results goes through.
LEMMA CollectSteps ==
    ASSUME NEW v, NEW p, NEW s, NEW C, NEW w \in Seq(C)
    PROVE  \E it : Collects(it, v, p, s, w)
<1> DEFINE n == Len(w)
           G(h) == h = [t \in SUBSET DOMAIN w |->
                          IF t = {} THEN s
                          ELSE Thumbs!Collect(v, p, h[t \ {Thumbs!Max(t)}], w[Thumbs!Max(t)])]
           H(h, k) == h = [t \in SUBSET (1..k) |->
                             IF t = {} THEN s
                             ELSE Thumbs!Collect(v, p, h[t \ {Max(t)}], w[Max(t)])]
           S == {k \in Nat : \E h : H(h, k)}
           g == CHOOSE h : G(h)
<1>1. n \in Nat /\ DOMAIN w = 1..n
  OBVIOUS
<1>2. Thumbs!FoldLeft(LAMBDA t, d : Thumbs!Collect(v, p, t, d), s, w) = g[DOMAIN w]
  BY Zenon DEF Thumbs!FoldLeft, Thumbs!MapThenFoldSet
<1>3. \A t : Thumbs!Max(t) = Max(t)
  BY Zenon DEF Thumbs!Max, Max
<1>4. 0 \in S
  <2> DEFINE h == [t \in SUBSET (1..0) |-> s]
  <2>1. \A t \in SUBSET (1..0) : t = {}
    OBVIOUS
  <2>2. H(h, 0)
    <3>1. \A t \in SUBSET (1..0) : s = IF t = {} THEN s
                       ELSE Thumbs!Collect(v, p, h[t \ {Max(t)}], w[Max(t)])
      BY <2>1, Zenon
    <3> QED BY <3>1, Zenon
  <2> HIDE DEF H
  <2> QED BY <2>2
<1>5. ASSUME NEW k \in Nat, k \in S PROVE k + 1 \in S
  <2>1. PICK h : H(h, k)
    BY <1>5
  <2> DEFINE j == [t \in SUBSET (1..(k + 1)) |->
                      IF k + 1 \in t THEN Thumbs!Collect(v, p, h[t \ {k + 1}], w[k + 1]) ELSE h[t]]
             P(t) == IF t = {} THEN s
                     ELSE Thumbs!Collect(v, p, j[t \ {Max(t)}], w[Max(t)])
  <2>2. \A t \in SUBSET (1..(k + 1)) : t \ {k + 1} \in SUBSET (1..k)
    BY LastOf
  <2>3. ASSUME NEW t \in SUBSET (1..(k + 1)) PROVE j[t] = P(t)
    <3>1. CASE k + 1 \in t
      <4>1. Max(t) = k + 1 /\ t # {}
        BY <3>1, LastOf
      <4>2. j[t \ {k + 1}] = h[t \ {k + 1}]
        BY <2>2
      <4>3. j[t] = Thumbs!Collect(v, p, h[t \ {k + 1}], w[k + 1])
        BY <3>1, Zenon
      <4> HIDE DEF j
      <4> QED BY <4>1, <4>2, <4>3, Zenon
    <3>2. CASE k + 1 \notin t
      <4>1. t \in SUBSET (1..k) /\ j[t] = h[t]
        BY <2>2, <3>2
      <4>2. t \ {Max(t)} \in SUBSET (1..(k + 1)) /\ k + 1 \notin t \ {Max(t)}
        BY <3>2
      <4>3. j[t \ {Max(t)}] = h[t \ {Max(t)}]
        BY <4>2
      <4>4. h[t] = IF t = {} THEN s ELSE Thumbs!Collect(v, p, h[t \ {Max(t)}], w[Max(t)])
        BY <2>1, <4>1, Zenon
      <4> HIDE DEF j, H
      <4> QED BY <4>1, <4>3, <4>4, Zenon
    <3> QED BY <3>1, <3>2
  <2>4. H(j, k + 1)
    <3>1. j = [t \in SUBSET (1..(k + 1)) |-> j[t]]
      OBVIOUS
    <3> HIDE DEF j
    <3>2. [t \in SUBSET (1..(k + 1)) |-> j[t]] = [t \in SUBSET (1..(k + 1)) |-> P(t)]
      BY <2>3, Zenon
    <3> QED BY <3>1, <3>2, Zenon
  <2> HIDE DEF H, j
  <2> QED BY <2>4
<1> HIDE DEF S
<1>6. n \in S
  BY <1>1, <1>4, <1>5, Induction
<1>7. G(g)
  <2>1. PICK h : H(h, n)
    BY <1>6 DEF S
  <2>2. G(h)
    BY <1>1, <1>3, <2>1, Zenon
  <2> HIDE DEF G
  <2> QED BY <2>2, Zenon
<1> HIDE DEF g
<1>8. ASSUME NEW t \in SUBSET (1..n), t # {}
      PROVE  g[t] = Thumbs!Collect(v, p, g[t \ {Max(t)}], w[Max(t)])
  BY <1>1, <1>3, <1>7, <1>8, Zenon
<1>9. g[{}] = s
  <2>1. {} \in SUBSET DOMAIN w
    OBVIOUS
  <2> QED BY <1>7, <2>1, Zenon
<1> HIDE DEF G, H, n
<1> DEFINE it == [k \in Nat |-> g[1..k]]
<1>10. ASSUME NEW k \in Nat, k < n
       PROVE  it[k + 1] = Thumbs!Collect(v, p, it[k], w[k + 1])
  <2>1. 1..(k + 1) \in SUBSET (1..n) /\ k + 1 \in 1..(k + 1) /\ 1..(k + 1) # {}
    <3>1. k + 1 \in 1..(k + 1) /\ \A i \in 1..(k + 1) : i \in 1..n
      BY <1>1, <1>10
    <3> QED BY <3>1
  <2>2. Max(1..(k + 1)) = k + 1 /\ (1..(k + 1)) \ {k + 1} = 1..k
    BY <2>1, LastOf
  <2>3. g[1..(k + 1)] = Thumbs!Collect(v, p, g[1..k], w[k + 1])
    BY <1>8, <2>1, <2>2, Zenon
  <2> QED BY <2>3
<1>11. it[0] = s /\ g[DOMAIN w] = it[n]
  <2>1. 1..0 = {}
    OBVIOUS
  <2> QED BY <1>1, <1>9, <2>1
<1> HIDE DEF it
<1> QED BY <1>2, <1>10, <1>11 DEF Collects, n

\* The items that wait in a queue to answer the view u.
Comers(q, u) == {b \in Waiting(q) : q.entries[b].callback = u}

\* There are finitely many of them, and no more when none is new.
LEMMA ComersCount ==
    ASSUME NEW K, IsFiniteSet(K), NEW C, NEW q, Holds(q, K, C), NEW u
    PROVE  /\ Comers(q, u) \subseteq K /\ IsFiniteSet(Comers(q, u))
           /\ Cardinality(Comers(q, u)) \in Nat
<1>1. Comers(q, u) \subseteq K
  BY DEF Comers, Waiting, Holds, IsQueue
<1> QED BY <1>1, FS_Subset, FS_CardinalityType

\* Fewer comers, and as many but one more.
LEMMA FewerComers ==
    ASSUME NEW S, IsFiniteSet(S), NEW T
    PROVE  /\ T \subseteq S => Cardinality(T) <= Cardinality(S) /\ Cardinality(T) \in Nat
           /\ \A k : T \subseteq S \cup {k} =>
                  Cardinality(T) <= Cardinality(S) + 1 /\ Cardinality(T) \in Nat
<1>1. ASSUME T \subseteq S PROVE Cardinality(T) <= Cardinality(S) /\ Cardinality(T) \in Nat
  BY <1>1, FS_Subset, FS_CardinalityType
<1>2. ASSUME NEW k, T \subseteq S \cup {k}
      PROVE  Cardinality(T) <= Cardinality(S) + 1 /\ Cardinality(T) \in Nat
  <2> DEFINE U == S \cup {k}
  <2>1. IsFiniteSet(U) /\ Cardinality(U) <= Cardinality(S) + 1
    <3>1. /\ IsFiniteSet(U)
          /\ Cardinality(U) = IF k \in S THEN Cardinality(S) ELSE Cardinality(S) + 1
      BY FS_AddElement
    <3>2. Cardinality(S) \in Nat
      BY FS_CardinalityType
    <3> HIDE DEF U
    <3> QED BY <3>1, <3>2
  <2>2. T \in SUBSET U
    BY <1>2
  <2> HIDE DEF U
  <2>3. Cardinality(T) <= Cardinality(U) /\ Cardinality(T) \in Nat /\ Cardinality(U) \in Nat
    BY <2>1, <2>2, FS_Subset, FS_CardinalityType
  <2>4. Cardinality(S) \in Nat
    BY FS_CardinalityType
  <2> QED BY <2>1, <2>3, <2>4
<1> QED BY <1>1, <1>2

\* Asking for an item brings at most that one, and only to the view that asks.
LEMMA ComersAdded ==
    ASSUME NEW K, IsFiniteSet(K), NEW C, NEW q, Holds(q, K, C), NEW k \in K, NEW c \in C, NEW mode,
           NEW r, r = AddItem(q, k, c, mode)
    PROVE  /\ Holds(r, K, C)
           /\ Cardinality(Comers(r, c)) <= Cardinality(Comers(q, c)) + 1
           /\ \A u : u # c => Comers(r, u) \subseteq Comers(q, u)
<1>1. /\ Holds(r, K, C)
      /\ \A x \in Queued(r) : \/ x \in Queued(q) /\ r.entries[x] = q.entries[x]
                              \/ x = k /\ r.entries[x] = [callback |-> c, running |-> FALSE]
  BY AddedItem
<1>2. Comers(r, c) \subseteq Comers(q, c) \cup {k}
  BY <1>1 DEF Comers, Waiting, Queued
<1>3. \A u : u # c => Comers(r, u) \subseteq Comers(q, u)
  BY <1>1 DEF Comers, Waiting, Queued
<1>4. IsFiniteSet(Comers(q, c))
  BY ComersCount
<1> QED BY <1>1, <1>2, <1>3, <1>4, FewerComers

\* What a view and its queues may have become, from s on: every answer that is new in a
\* queue was counted, and the other views have no more of them.
Counting(t, v, s) ==
    /\ DOMAIN t = {"view", "fast", "slow", "memory"}
    /\ DOMAIN t.view = {"bound", "queued", "pending", "thumbs", "active", "pumps"}
    /\ t.view.bound = s.view.bound /\ t.view.active = s.view.active /\ t.view.pumps = s.view.pumps
    /\ t.view.pending \in Nat
    /\ Holds(t.fast, ThumbBooks, Thumbs!Views \cup {Thumbs!NoView})
    /\ Holds(t.slow, ThumbBooks, Thumbs!Views \cup {Thumbs!NoView})
    /\ t.view.pending + Cardinality(Comers(s.fast, v)) + Cardinality(Comers(s.slow, v))
           >= s.view.pending + Cardinality(Comers(t.fast, v)) + Cardinality(Comers(t.slow, v))
    /\ \A u : u # v => /\ Comers(t.fast, u) \subseteq Comers(s.fast, u)
                       /\ Comers(t.slow, u) \subseteq Comers(s.slow, u)

\* One book of queue_visible_thumbs, or one cell of the panel: nothing, or one more that
\* the view waits for and one item for one of the queues.
LEMMA ThumbAsked ==
    ASSUME NEW t, DOMAIN t = {"view", "fast", "slow", "memory"},
           DOMAIN t.view = {"bound", "queued", "pending", "thumbs", "active", "pumps"},
           NEW v, NEW b, NEW out, out = Thumbs!QueueThumb(t, v, b), out # t
    PROVE  /\ DOMAIN out = {"view", "fast", "slow", "memory"}
           /\ DOMAIN out.view = {"bound", "queued", "pending", "thumbs", "active", "pumps"}
           /\ out.view.bound = t.view.bound /\ out.view.active = t.view.active
           /\ out.view.pumps = t.view.pumps /\ out.view.thumbs = t.view.thumbs
           /\ out.view.queued = t.view.queued \cup {Thumbs!SlotOf(v, b)}
           /\ out.view.pending = t.view.pending + 1
           /\ \/ out.fast = AddItem(t.fast, b, v, "AddToTop") /\ out.slow = t.slow
              \/ out.slow = AddItem(t.slow, b, v, "AddToTop") /\ out.fast = t.fast
<1> DEFINE slot == Thumbs!SlotOf(v, b)
           gated == v \in ItemViews /\ ~onDemand
           m == IF gated THEN Thumbs!Touch(t.memory, b) ELSE t.memory
           n == [t.view EXCEPT !.queued = t.view.queued \cup {slot}, !.pending = t.view.pending + 1]
           asked == [t EXCEPT !.view = n, !.memory = m]
<1>1. \/ out = [asked EXCEPT !.fast = AddItem(asked.fast, b, v, "AddToTop")]
      \/ out = [asked EXCEPT !.slow = AddItem(asked.slow, b, v, "AddToTop")]
  <2>1. \A q : Thumbs!AddItem(q, b, v, "AddToTop") = AddItem(q, b, v, "AddToTop")
    <3> TAKE q
    <3> HIDE DEF asked
    <3> QED BY SameQueues, Zenon
  <2> DEFINE ask == [t EXCEPT !.view.queued = @ \cup {slot}, !.view.pending = @ + 1,
                             !.memory = IF gated THEN Thumbs!Touch(@, b) ELSE @]
  <2>2. ask = asked
    OBVIOUS
  <2>3. \/ out = t
        \/ out = [ask EXCEPT !.fast = Thumbs!AddItem(@, b, v, "AddToTop")]
        \/ out = [ask EXCEPT !.slow = Thumbs!AddItem(@, b, v, "AddToTop")]
    BY Zenon DEF Thumbs!QueueThumb
  <2> HIDE DEF ask, asked
  <2> QED BY <2>1, <2>2, <2>3
<1> HIDE DEF slot, m
<1>2. /\ DOMAIN n = {"bound", "queued", "pending", "thumbs", "active", "pumps"}
      /\ n.bound = t.view.bound /\ n.active = t.view.active /\ n.pumps = t.view.pumps
      /\ n.thumbs = t.view.thumbs /\ n.queued = t.view.queued \cup {slot}
      /\ n.pending = t.view.pending + 1
  OBVIOUS
<1> HIDE DEF n
<1>3. /\ DOMAIN asked = {"view", "fast", "slow", "memory"}
      /\ asked.view = n /\ asked.fast = t.fast /\ asked.slow = t.slow
  OBVIOUS
<1> HIDE DEF asked
<1>4. CASE out = [asked EXCEPT !.fast = AddItem(asked.fast, b, v, "AddToTop")]
  <2>1. /\ DOMAIN out = {"view", "fast", "slow", "memory"}
        /\ out.view = n /\ out.fast = AddItem(t.fast, b, v, "AddToTop") /\ out.slow = t.slow
    BY <1>3, <1>4
  <2> QED BY <1>2, <2>1 DEF slot
<1>5. CASE out = [asked EXCEPT !.slow = AddItem(asked.slow, b, v, "AddToTop")]
  <2>1. /\ DOMAIN out = {"view", "fast", "slow", "memory"}
        /\ out.view = n /\ out.slow = AddItem(t.slow, b, v, "AddToTop") /\ out.fast = t.fast
    BY <1>3, <1>5
  <2> QED BY <1>2, <2>1 DEF slot
<1> QED BY <1>1, <1>4, <1>5

\* It is counted.
LEMMA QueueThumbCounts ==
    ASSUME IsFiniteSet(ThumbBooks), NEW v \in Thumbs!Views, NEW s, Counting(s, v, s), NEW t,
           Counting(t, v, s), NEW b \in ThumbBooks
    PROVE  Counting(Thumbs!QueueThumb(t, v, b), v, s)
<1> DEFINE C == Thumbs!Views \cup {Thumbs!NoView}
           fq == AddItem(t.fast, b, v, "AddToTop")
           sq == AddItem(t.slow, b, v, "AddToTop")
           out == Thumbs!QueueThumb(t, v, b)
<1>1. out = t \/
      /\ DOMAIN out = {"view", "fast", "slow", "memory"}
      /\ DOMAIN out.view = {"bound", "queued", "pending", "thumbs", "active", "pumps"}
      /\ out.view.bound = t.view.bound /\ out.view.active = t.view.active
      /\ out.view.pumps = t.view.pumps /\ out.view.pending = t.view.pending + 1
      /\ \/ out.fast = fq /\ out.slow = t.slow
         \/ out.slow = sq /\ out.fast = t.fast
  <2>1. /\ DOMAIN t = {"view", "fast", "slow", "memory"}
        /\ DOMAIN t.view = {"bound", "queued", "pending", "thumbs", "active", "pumps"}
    BY DEF Counting
  <2> HIDE DEF out
  <2> QED BY <2>1, ThumbAsked DEF out
<1> HIDE DEF out
<1>4. Holds(t.fast, ThumbBooks, C) /\ Holds(t.slow, ThumbBooks, C) /\ v \in C
      /\ Holds(s.fast, ThumbBooks, C) /\ Holds(s.slow, ThumbBooks, C)
  BY DEF Counting
<1> HIDE DEF C
<1>5. /\ Holds(fq, ThumbBooks, C)
      /\ Cardinality(Comers(fq, v)) <= Cardinality(Comers(t.fast, v)) + 1
      /\ \A u : u # v => Comers(fq, u) \subseteq Comers(t.fast, u)
      /\ Holds(sq, ThumbBooks, C)
      /\ Cardinality(Comers(sq, v)) <= Cardinality(Comers(t.slow, v)) + 1
      /\ \A u : u # v => Comers(sq, u) \subseteq Comers(t.slow, u)
  BY <1>4, ComersAdded
<1> HIDE DEF fq, sq
<1>6. /\ Cardinality(Comers(fq, v)) \in Nat /\ Cardinality(Comers(sq, v)) \in Nat
      /\ Cardinality(Comers(t.fast, v)) \in Nat /\ Cardinality(Comers(t.slow, v)) \in Nat
      /\ Cardinality(Comers(s.fast, v)) \in Nat /\ Cardinality(Comers(s.slow, v)) \in Nat
      /\ s.view.pending \in Nat /\ t.view.pending \in Nat
  BY <1>4, <1>5, ComersCount DEF Counting
<1>7. CASE out = t
  BY <1>7 DEF out
<1>8. CASE /\ DOMAIN out = {"view", "fast", "slow", "memory"}
           /\ DOMAIN out.view = {"bound", "queued", "pending", "thumbs", "active", "pumps"}
           /\ out.view.bound = t.view.bound /\ out.view.active = t.view.active
           /\ out.view.pumps = t.view.pumps /\ out.view.pending = t.view.pending + 1
           /\ out.fast = fq /\ out.slow = t.slow
  <2>1. out.view.pending + Cardinality(Comers(s.fast, v)) + Cardinality(Comers(s.slow, v))
            >= s.view.pending + Cardinality(Comers(fq, v)) + Cardinality(Comers(t.slow, v))
    BY <1>5, <1>6, <1>8 DEF Counting
  <2>2. \A u : u # v => /\ Comers(fq, u) \subseteq Comers(s.fast, u)
                        /\ Comers(t.slow, u) \subseteq Comers(s.slow, u)
    BY <1>5 DEF Counting
  <2>3. Counting(out, v, s)
    BY <1>4, <1>5, <1>6, <1>8, <2>1, <2>2 DEF Counting, C
  <2> QED BY <2>3 DEF out
<1>9. CASE /\ DOMAIN out = {"view", "fast", "slow", "memory"}
           /\ DOMAIN out.view = {"bound", "queued", "pending", "thumbs", "active", "pumps"}
           /\ out.view.bound = t.view.bound /\ out.view.active = t.view.active
           /\ out.view.pumps = t.view.pumps /\ out.view.pending = t.view.pending + 1
           /\ out.slow = sq /\ out.fast = t.fast
  <2>1. out.view.pending + Cardinality(Comers(s.fast, v)) + Cardinality(Comers(s.slow, v))
            >= s.view.pending + Cardinality(Comers(t.fast, v)) + Cardinality(Comers(sq, v))
    BY <1>5, <1>6, <1>9 DEF Counting
  <2>2. \A u : u # v => /\ Comers(t.fast, u) \subseteq Comers(s.fast, u)
                        /\ Comers(sq, u) \subseteq Comers(s.slow, u)
    BY <1>5 DEF Counting
  <2>3. Counting(out, v, s)
    BY <1>4, <1>5, <1>6, <1>9, <2>1, <2>2 DEF Counting, C
  <2> QED BY <2>3 DEF out
<1> QED BY <1>1, <1>7, <1>8, <1>9

\* A view and its queues after the books of w.
Drawn(v, s, w) == Thumbs!FoldLeft(LAMBDA t, b : Thumbs!QueueThumb(t, v, b), s, w)

\* Any number of books.
LEMMA DrawCounts ==
    ASSUME IsFiniteSet(ThumbBooks), NEW v \in Thumbs!Views, NEW s, Counting(s, v, s),
           NEW w \in Seq(ThumbBooks)
    PROVE  Counting(Drawn(v, s, w), v, s)
<1>1. PICK it : Draws(it, v, s, w)
  BY DrawSteps
<1> DEFINE D == {k \in Nat : k <= Len(w) => Counting(it[k], v, s)}
<1>2. 0 \in D
  BY <1>1 DEF Draws
<1>3. ASSUME NEW k \in Nat, k \in D PROVE k + 1 \in D
  <2> SUFFICES ASSUME k + 1 <= Len(w) PROVE Counting(it[k + 1], v, s)
    OBVIOUS
  <2>1. k < Len(w) /\ k <= Len(w) /\ w[k + 1] \in ThumbBooks
    OBVIOUS
  <2>2. it[k + 1] = Thumbs!QueueThumb(it[k], v, w[k + 1]) /\ Counting(it[k], v, s)
    BY <1>1, <1>3, <2>1 DEF Draws
  <2> QED BY <2>1, <2>2, QueueThumbCounts
<1> HIDE DEF D
<1>4. Len(w) \in D /\ Len(w) \in Nat
  BY <1>2, <1>3, Induction
<1>5. Counting(it[Len(w)], v, s)
  BY <1>4 DEF D
<1> QED BY <1>1, <1>5, Zenon DEF Draws, Drawn

\* The books a view shows, in some order.
LEMMA ShownSequence ==
    ASSUME IsFiniteSet(ThumbBooks), NEW S, S \subseteq ThumbBooks
    PROVE  Thumbs!SetToSeq(S) \in Seq(ThumbBooks)
<1> DEFINE n == Cardinality(S)
<1>1. n \in Nat /\ ExistsBijection(1..n, S)
  BY FS_Subset, FS_CardinalityType
<1>2. \E f \in [1..n -> S] : Thumbs!IsInjective(f)
  <2> HIDE DEF n
  <2>1. PICK f \in [1..n -> S] : \A x, y \in 1..n : f[x] = f[y] => x = y
    BY <1>1 DEF ExistsBijection, Bijection, Injection, IsInjective
  <2> QED BY <2>1 DEF Thumbs!IsInjective
<1>3. Thumbs!Cardinality(S) = n
  BY Zenon DEF Thumbs!Cardinality, Cardinality
<1>4. Thumbs!SetToSeq(S) = CHOOSE f \in [1..n -> S] : Thumbs!IsInjective(f)
  BY <1>3, Zenon DEF Thumbs!SetToSeq
<1> HIDE DEF n
<1>5. Thumbs!SetToSeq(S) \in [1..n -> S]
  BY <1>2, <1>4, Zenon
<1> QED BY <1>1, <1>5

\* What a pump makes of a view: each result counts one off, down to nothing.
Counted(t, s, k) ==
    /\ DOMAIN t = {"bound", "queued", "pending", "thumbs", "active", "pumps"}
    /\ t.bound = s.bound /\ t.active = s.active /\ t.pumps = s.pumps
    /\ t.pending \in Nat /\ t.pending + k >= s.pending

\* The view after a pump has taken all of w.
Collected(v, p, s, w) == Thumbs!FoldLeft(LAMBDA x, d : Thumbs!Collect(v, p, x, d), s, w)

\* All results that wait.
LEMMA CollectCounts ==
    ASSUME NEW v, NEW p, NEW s, Counted(s, s, 0), NEW C, NEW w \in Seq(C)
    PROVE  Counted(Collected(v, p, s, w), s, Len(w))
<1>1. PICK it : Collects(it, v, p, s, w)
  BY CollectSteps
<1> DEFINE D == {k \in Nat : k <= Len(w) => Counted(it[k], s, k)}
<1>2. 0 \in D
  BY <1>1 DEF Collects
<1>3. ASSUME NEW k \in Nat, k \in D PROVE k + 1 \in D
  <2> SUFFICES ASSUME k + 1 <= Len(w) PROVE Counted(it[k + 1], s, k + 1)
    OBVIOUS
  <2>1. k < Len(w) /\ k <= Len(w)
    OBVIOUS
  <2>2. it[k + 1] = Thumbs!Collect(v, p, it[k], w[k + 1]) /\ Counted(it[k], s, k)
    BY <1>1, <1>3, <2>1 DEF Collects
  <2> DEFINE t == it[k]
             n == IF t.pending = 0 THEN 0 ELSE t.pending - 1
  <2>3. PICK f : it[k + 1] = [t EXCEPT !.pending = n, !.thumbs = f]
    <3> DEFINE d == w[k + 1]
               slot == Thumbs!SlotOf(v, d.book)
               takes == IF v \in ItemViews THEN TRUE
                        ELSE d.image # Thumbs!NoImage /\ (p = "first" => d.book = t.bound)
               g == IF takes
                    THEN [x \in DOMAIN t.thumbs \cup {slot} |->
                             IF x = slot THEN d.image ELSE t.thumbs[x]]
                    ELSE t.thumbs
    <3>1. Thumbs!Collect(v, p, t, d) = [t EXCEPT !.pending = n, !.thumbs = g]
      BY Zenon DEF Thumbs!Collect
    <3> HIDE DEF g, n, t
    <3> QED BY <2>2, <3>1, Zenon DEF t
  <2> HIDE DEF t
  <2>4. Counted(t, s, k) /\ n \in Nat /\ n + 1 >= t.pending /\ t.pending \in Nat
        /\ s.pending \in Nat
    BY <2>2 DEF Counted, t
  <2> HIDE DEF n
  <2>5. /\ DOMAIN it[k + 1] = {"bound", "queued", "pending", "thumbs", "active", "pumps"}
        /\ it[k + 1].bound = t.bound /\ it[k + 1].active = t.active
        /\ it[k + 1].pumps = t.pumps /\ it[k + 1].pending = n
    BY <2>3, <2>4 DEF Counted
  <2>6. n + (k + 1) >= s.pending
    BY <2>4 DEF Counted
  <2> QED BY <2>4, <2>5, <2>6 DEF Counted
<1> HIDE DEF D
<1>4. Len(w) \in D /\ Len(w) \in Nat
  BY <1>2, <1>3, Induction
<1>5. Counted(it[Len(w)], s, Len(w))
  BY <1>4 DEF D
<1> QED BY <1>1, <1>5, Zenon DEF Collects, Collected

\* The workers that make a thumbnail for the view u.
Makers(jobs, u) == {w \in Thumbs!Workers : jobs[w].for = u /\ jobs[w].pc # "finish"}

\* The states of a view, and of a worker: only a worker that has an item works for a
\* view, and one of the unlimited queue never does.
ViewKept(x) ==
    /\ DOMAIN x = {"bound", "queued", "pending", "thumbs", "active", "pumps"}
    /\ x.bound \in ThumbBooks \cup {Thumbs!NoBook}
    /\ x.pending \in Nat /\ x.active \in BOOLEAN

JobKept(w, job) ==
    /\ DOMAIN job = {"pc", "key", "for", "image", "fd"}
    /\ job.for \in Thumbs!Views \cup {Thumbs!NoView}
    /\ job.pc = "idle" \/ w \in CoverWorkers => job.for = Thumbs!NoView

\* The count of the view u covers what is on its way, and somebody collects.
CountsFor(u, x, ch, jobs, f, s) ==
    /\ x.pending >= Len(ch) + Cardinality(Makers(jobs, u))
                    + Cardinality(Comers(f, u)) + Cardinality(Comers(s, u))
    /\ x.active \/ x.pending > 0 => x.pumps # {}

CoverInv ==
    /\ DOMAIN thumbView = Thumbs!Views /\ \A v \in Thumbs!Views : ViewKept(thumbView[v])
    /\ DOMAIN thumbChannel = Thumbs!Views
    /\ \A v \in Thumbs!Views : \E S : thumbChannel[v] \in Seq(S)
    /\ Holds(thumbFast, ThumbBooks, Thumbs!Views \cup {Thumbs!NoView})
    /\ Holds(thumbSlow, ThumbBooks, Thumbs!Views \cup {Thumbs!NoView})
    /\ Holds(covers, ThumbBooks, {Thumbs!NoView})
    /\ DOMAIN thumbWorker = Thumbs!Workers
    /\ \A w \in Thumbs!Workers : JobKept(w, thumbWorker[w])
    /\ \A u \in ItemViews :
          CountsFor(u, thumbView[u], thumbChannel[u], thumbWorker, thumbFast, thumbSlow)

\* What the assumption on the constants says of them.
LEMMA ThumbConstants ==
    ASSUME Thumbs!ConstantsAssumption
    PROVE  /\ IsFiniteSet(ThumbBooks) /\ IsFiniteSet(Thumbs!Workers)
           /\ Thumbs!NoBook \notin ThumbBooks
           /\ ItemViews \cap Panels = {} /\ Thumbs!NoView \notin Thumbs!Views
           /\ ItemViews \subseteq Thumbs!Views /\ Panels \subseteq Thumbs!Views
           /\ ThumbFast \cap ThumbSlow = {} /\ (ThumbFast \cup ThumbSlow) \cap CoverWorkers = {}
           /\ Thumbs!Workers = ThumbFast \cup ThumbSlow \cup CoverWorkers
<1>1. \A S : Thumbs!IsFiniteSet(S) <=> IsFiniteSet(S)
  BY Zenon DEF Thumbs!IsFiniteSet, IsFiniteSet
<1> QED BY <1>1 DEF Thumbs!ConstantsAssumption, Thumbs!Workers, Thumbs!Views

\* The numbers that a view's count is compared with.
LEMMA CountTypes ==
    ASSUME Thumbs!ConstantsAssumption, CoverInv, NEW u \in ItemViews
    PROVE  /\ Cardinality(Comers(thumbFast, u)) \in Nat /\ Cardinality(Comers(thumbSlow, u)) \in Nat
           /\ \A jobs : IsFiniteSet(Makers(jobs, u)) /\ Cardinality(Makers(jobs, u)) \in Nat
           /\ Len(thumbChannel[u]) \in Nat /\ thumbView[u].pending \in Nat
<1>1. u \in Thumbs!Views /\ IsFiniteSet(ThumbBooks) /\ IsFiniteSet(Thumbs!Workers)
  BY ThumbConstants
<1>2. Cardinality(Comers(thumbFast, u)) \in Nat /\ Cardinality(Comers(thumbSlow, u)) \in Nat
  BY <1>1, ComersCount DEF CoverInv
<1>3. ASSUME NEW jobs PROVE IsFiniteSet(Makers(jobs, u)) /\ Cardinality(Makers(jobs, u)) \in Nat
  <2>1. Makers(jobs, u) \in SUBSET Thumbs!Workers
    BY DEF Makers
  <2> QED BY <1>1, <2>1, FS_Subset, FS_CardinalityType
<1>4. Len(thumbChannel[u]) \in Nat
  <2>1. PICK S : thumbChannel[u] \in Seq(S)
    BY <1>1 DEF CoverInv
  <2> QED BY <2>1
<1>5. thumbView[u].pending \in Nat
  BY <1>1 DEF CoverInv, ViewKept
<1> QED BY <1>2, <1>3, <1>4, <1>5

\* Nothing is asked for.
LEMMA CoverInit ==
    ASSUME Thumbs!ConstantsAssumption, Thumbs!Init
    PROVE  CoverInv
<1> DEFINE none == [k \in {} |-> {}]
<1>1. ASSUME NEW C, NEW n \in Nat, NEW q, q = Thumbs!NewQueue(n)
      PROVE  Holds(q, ThumbBooks, C) /\ \A u : Comers(q, u) = {}
  <2>1. q = [order |-> <<>>, entries |-> none, size |-> n]
    BY <1>1, SameQueues DEF NewQueue
  <2>2. DOMAIN none = {}
    OBVIOUS
  <2> HIDE DEF none
  <2>3. /\ DOMAIN q = {"order", "entries", "size"} /\ q.order = <<>> /\ q.entries = none
        /\ q.size = n
    BY <2>1
  <2>4. ToSet(<<>>) = {} /\ Once(<<>>) /\ <<>> \in Seq(ThumbBooks)
    BY DEF ToSet, Once
  <2>5. Holds(q, ThumbBooks, C)
    BY <2>2, <2>3, <2>4 DEF Holds, IsQueue, Queued
  <2> QED BY <2>2, <2>3, <2>5 DEF Comers, Waiting
<1>2. /\ ThumbQueueSize \in Nat /\ Thumbs!Unlimited \in Nat
  <2>1. Cardinality(ThumbBooks) \in Nat
    BY ThumbConstants, FS_CardinalityType
  <2>2. Thumbs!Cardinality(ThumbBooks) = Cardinality(ThumbBooks)
    BY Zenon DEF Thumbs!Cardinality, Cardinality
  <2>3. Thumbs!Unlimited \in Nat
    BY <2>1, <2>2 DEF Thumbs!Unlimited
  <2> QED BY <2>3 DEF Thumbs!ConstantsAssumption
<1>3. /\ thumbFast = Thumbs!NewQueue(ThumbQueueSize) /\ thumbSlow = Thumbs!NewQueue(ThumbQueueSize)
      /\ covers = Thumbs!NewQueue(Thumbs!Unlimited)
  BY Zenon DEF Thumbs!Init
<1>4. /\ Holds(thumbFast, ThumbBooks, Thumbs!Views \cup {Thumbs!NoView})
      /\ Holds(thumbSlow, ThumbBooks, Thumbs!Views \cup {Thumbs!NoView})
      /\ Holds(covers, ThumbBooks, {Thumbs!NoView})
      /\ \A u : Comers(thumbFast, u) = {} /\ Comers(thumbSlow, u) = {}
  BY <1>1, <1>2, <1>3
<1>5. /\ DOMAIN thumbView = Thumbs!Views
      /\ \A v \in Thumbs!Views : ViewKept(thumbView[v]) /\ thumbView[v].pending = 0
                                 /\ thumbView[v].active = FALSE
  <2> DEFINE f == [s \in {} |-> Thumbs!NoImage]
  <2>1. thumbView = [v \in Thumbs!Views |->
                        [bound |-> Thumbs!NoBook, queued |-> {}, pending |-> 0, thumbs |-> f,
                         active |-> FALSE, pumps |-> IF v \in Panels THEN {"first"} ELSE {}]]
    BY Zenon DEF Thumbs!Init
  <2> HIDE DEF f
  <2> QED BY <2>1 DEF ViewKept
<1>6. DOMAIN thumbChannel = Thumbs!Views /\ \A v \in Thumbs!Views : thumbChannel[v] = <<>>
  BY DEF Thumbs!Init
<1>7. /\ DOMAIN thumbWorker = Thumbs!Workers
      /\ \A w \in Thumbs!Workers : JobKept(w, thumbWorker[w]) /\ thumbWorker[w].for = Thumbs!NoView
  BY DEF Thumbs!Init, Thumbs!Idle, JobKept
<1>8. ASSUME NEW u \in ItemViews
      PROVE  CountsFor(u, thumbView[u], thumbChannel[u], thumbWorker, thumbFast, thumbSlow)
  <2>1. Makers(thumbWorker, u) = {}
    BY <1>7, ThumbConstants DEF Makers
  <2>2. thumbChannel[u] = <<>> /\ thumbView[u].pending = 0 /\ thumbView[u].active = FALSE
    BY <1>5, <1>6, ThumbConstants
  <2>3. Cardinality({}) = 0 /\ Len(<<>>) = 0
    BY FS_EmptySet
  <2>4. /\ Len(thumbChannel[u]) = 0 /\ Cardinality(Makers(thumbWorker, u)) = 0
        /\ Cardinality(Comers(thumbFast, u)) = 0 /\ Cardinality(Comers(thumbSlow, u)) = 0
    BY <1>4, <2>1, <2>2, <2>3, Zenon
  <2>5. thumbView[u].pending >= Len(thumbChannel[u]) + Cardinality(Makers(thumbWorker, u))
                + Cardinality(Comers(thumbFast, u)) + Cardinality(Comers(thumbSlow, u))
    BY <2>2, <2>4
  <2>6. ~(thumbView[u].active \/ thumbView[u].pending > 0)
    BY <2>2
  <2> QED BY <2>5, <2>6, Zenon DEF CountsFor
<1>9. \A v \in Thumbs!Views : \E S : thumbChannel[v] \in Seq(S)
  <2>1. <<>> \in Seq(ThumbBooks)
    OBVIOUS
  <2> QED BY <1>6, <2>1, Zenon
<1> QED BY <1>4, <1>5, <1>6, <1>7, <1>8, <1>9, Zenon DEF CoverInv

\* A worker goes on with its item: somewhere between taking it and being done with it.
GoesOn(w) ==
    /\ DOMAIN thumbWorker' = Thumbs!Workers
    /\ \A x \in Thumbs!Workers : x # w => thumbWorker'[x] = thumbWorker[x]
    /\ DOMAIN thumbWorker'[w] = {"pc", "key", "for", "image", "fd"}
    /\ thumbWorker'[w].for = thumbWorker[w].for /\ thumbWorker'[w].key = thumbWorker[w].key
    /\ UNCHANGED <<thumbView, thumbChannel, thumbFast, thumbSlow, covers>>
    /\ thumbWorker[w].pc \notin {"idle", "finish"}
    /\ thumbWorker'[w].pc \notin {"idle", "finish"}

\* Which changes nothing that a view counts.
LEMMA GoingOnCounts ==
    ASSUME CoverInv, NEW w \in Thumbs!Workers, GoesOn(w)
    PROVE  CoverInv'
<1>1. \A x \in Thumbs!Workers : JobKept(x, thumbWorker'[x])
  BY DEF GoesOn, CoverInv, JobKept
<1>2. \A u : Makers(thumbWorker', u) = Makers(thumbWorker, u)
  BY DEF GoesOn, Makers
<1>3. \A u \in ItemViews :
         CountsFor(u, thumbView[u], thumbChannel[u], thumbWorker', thumbFast, thumbSlow)
  BY <1>2, Zenon DEF CoverInv, CountsFor
<1>4. /\ DOMAIN thumbWorker' = Thumbs!Workers
      /\ UNCHANGED <<thumbView, thumbChannel, thumbFast, thumbSlow, covers>>
  BY Zenon DEF GoesOn
<1> QED BY <1>1, <1>3, <1>4, Zenon DEF CoverInv

\* The steps of a worker between taking its item and answering.
LEMMA WorkerGoesOn ==
    ASSUME CoverInv, NEW w \in Thumbs!Workers,
           \/ Thumbs!WorkerLooks(w) \/ Thumbs!WorkerOpens(w) \/ Thumbs!WorkerReadsBody(w)
           \/ Thumbs!WorkerProduces(w) \/ Thumbs!WorkerFills(w) \/ Thumbs!WorkerRenames(w)
           \/ Thumbs!WorkerPrunes(w) \/ Thumbs!WorkerStores(w)
    PROVE  GoesOn(w)
<1>1. /\ DOMAIN thumbWorker = Thumbs!Workers
      /\ DOMAIN thumbWorker[w] = {"pc", "key", "for", "image", "fd"}
  BY DEF CoverInv, JobKept
<1>2. ASSUME NEW pc, pc \notin {"idle", "finish"}, thumbWorker[w].pc \notin {"idle", "finish"},
             NEW image, NEW fd,
             \/ thumbWorker' = [thumbWorker EXCEPT ![w].pc = pc]
             \/ thumbWorker' = [thumbWorker EXCEPT ![w].pc = pc, ![w].image = image]
             \/ thumbWorker' = [thumbWorker EXCEPT ![w].pc = pc, ![w].fd = fd]
             \/ thumbWorker' = [thumbWorker EXCEPT ![w].pc = pc, ![w].image = image, ![w].fd = fd]
      PROVE  UNCHANGED <<thumbView, thumbChannel, thumbFast, thumbSlow, covers>> => GoesOn(w)
  BY <1>1, <1>2 DEF GoesOn
<1>3. CASE Thumbs!WorkerLooks(w)
  <2>1. /\ thumbWorker[w].pc = "look"
        /\ \/ \E image : thumbWorker' = [thumbWorker EXCEPT ![w].pc = "send", ![w].image = image]
           \/ thumbWorker' = [thumbWorker EXCEPT ![w].pc = "open"]
        /\ UNCHANGED <<thumbView, thumbChannel, thumbFast, thumbSlow, covers>>
    BY <1>3, Zenon DEF Thumbs!WorkerLooks, Thumbs!At, Thumbs!Returns, Thumbs!GoTo, Thumbs!Own,
                       Thumbs!queues
  <2> QED BY <1>2, <2>1
<1>4. CASE Thumbs!WorkerOpens(w)
  <2>1. /\ thumbWorker[w].pc = "open"
        /\ \/ \E fd : thumbWorker' = [thumbWorker EXCEPT ![w].pc = "body", ![w].fd = fd]
           \/ thumbWorker' = [thumbWorker EXCEPT ![w].pc = "produce"]
        /\ UNCHANGED <<thumbView, thumbChannel, thumbFast, thumbSlow, covers>>
    BY <1>4, Zenon DEF Thumbs!WorkerOpens, Thumbs!At, Thumbs!GoTo, Thumbs!Own, Thumbs!queues
  <2> QED BY <1>2, <2>1
<1>5. CASE Thumbs!WorkerReadsBody(w)
  <2>1. /\ thumbWorker[w].pc = "body"
        /\ \E pc \in {"produce", "send"} : \E image, fd :
               thumbWorker' = [thumbWorker EXCEPT ![w].pc = pc, ![w].image = image, ![w].fd = fd]
        /\ UNCHANGED <<thumbView, thumbChannel, thumbFast, thumbSlow, covers>>
    BY <1>5 DEF Thumbs!WorkerReadsBody, Thumbs!At, Thumbs!Own, Thumbs!queues
  <2>2. PICK pc \in {"produce", "send"} : \E image, fd :
            thumbWorker' = [thumbWorker EXCEPT ![w].pc = pc, ![w].image = image, ![w].fd = fd]
    BY <2>1, Zenon
  <2>3. PICK image, fd :
            thumbWorker' = [thumbWorker EXCEPT ![w].pc = pc, ![w].image = image, ![w].fd = fd]
    BY <2>2, Zenon
  <2>4. pc \notin {"idle", "finish"} /\ thumbWorker[w].pc \notin {"idle", "finish"}
    BY <2>1
  <2> QED BY <1>2, <2>1, <2>3, <2>4, Zenon
<1>6. CASE Thumbs!WorkerProduces(w)
  <2> DEFINE b == thumbWorker[w].key
             i == IF thumbDisk.tmp = Thumbs!NoInode THEN Thumbs!FreeInode ELSE thumbDisk.tmp
             P == thumbWorker' = [thumbWorker EXCEPT ![w].pc = "send",
                                                     ![w].image = Thumbs!NoImage]
             Q == thumbWorker' = [thumbWorker EXCEPT ![w].pc = "fill", ![w].image = b, ![w].fd = i]
  <2>1. /\ thumbWorker[w].pc = "produce"
        /\ P \/ Q
        /\ UNCHANGED <<thumbView, thumbChannel, thumbFast, thumbSlow, covers>>
    BY <1>6, Zenon DEF Thumbs!WorkerProduces, Thumbs!At, Thumbs!Returns, Thumbs!Own,
                       Thumbs!queues
  <2> HIDE DEF b, i
  <2>2. P => GoesOn(w)
    BY <1>2, <2>1
  <2>3. Q => GoesOn(w)
    BY <1>1, <2>1 DEF GoesOn
  <2> QED BY <2>1, <2>2, <2>3, Zenon
<1>7. CASE Thumbs!WorkerFills(w)
  <2>1. /\ thumbWorker[w].pc = "fill"
        /\ \E fd : thumbWorker' = [thumbWorker EXCEPT ![w].pc = "rename", ![w].fd = fd]
        /\ UNCHANGED <<thumbView, thumbChannel, thumbFast, thumbSlow, covers>>
    BY <1>7, Zenon DEF Thumbs!WorkerFills, Thumbs!At, Thumbs!Own, Thumbs!queues
  <2> QED BY <1>2, <2>1
<1>8. CASE Thumbs!WorkerRenames(w)
  <2>1. /\ thumbWorker[w].pc = "rename"
        /\ \E pc \in {"store", "prune"} : thumbWorker' = [thumbWorker EXCEPT ![w].pc = pc]
        /\ UNCHANGED <<thumbView, thumbChannel, thumbFast, thumbSlow, covers>>
    BY <1>8 DEF Thumbs!WorkerRenames, Thumbs!At, Thumbs!GoTo, Thumbs!Own, Thumbs!queues
  <2> QED BY <1>2, <2>1
<1>9. CASE Thumbs!WorkerPrunes(w)
  <2>1. /\ thumbWorker[w].pc = "prune" /\ thumbWorker' = [thumbWorker EXCEPT ![w].pc = "store"]
        /\ UNCHANGED <<thumbView, thumbChannel, thumbFast, thumbSlow, covers>>
    BY <1>9, Zenon DEF Thumbs!WorkerPrunes, Thumbs!At, Thumbs!GoTo, Thumbs!Own, Thumbs!queues
  <2> QED BY <1>2, <2>1
<1>10. CASE Thumbs!WorkerStores(w)
  <2>1. /\ thumbWorker[w].pc = "store" /\ thumbWorker' = [thumbWorker EXCEPT ![w].pc = "send"]
        /\ UNCHANGED <<thumbView, thumbChannel, thumbFast, thumbSlow, covers>>
    BY <1>10, Zenon DEF Thumbs!WorkerStores, Thumbs!At, Thumbs!GoTo, Thumbs!Own, Thumbs!queues
  <2> QED BY <1>2, <2>1
<1> QED BY <1>3, <1>4, <1>5, <1>6, <1>7, <1>8, <1>9, <1>10

\* Nothing happens to what the views count.
LEMMA CoverStutters ==
    ASSUME CoverInv,
           UNCHANGED <<thumbView, thumbChannel, thumbFast, thumbSlow, covers, thumbWorker>>
    PROVE  CoverInv'
BY Zenon DEF CoverInv

\* A queue stays one when an item is asked for.
LEMMA AddedHolds ==
    ASSUME NEW K, NEW C, NEW q, Holds(q, K, C), NEW k \in K, NEW c \in C, NEW mode,
           NEW r, r = AddItem(q, k, c, mode)
    PROVE  Holds(r, K, C)
BY AddedItem

\* The commands that change the unlimited queue, or no queue.
LEMMA CommandsCount ==
    ASSUME Thumbs!ConstantsAssumption, CoverInv,
           \/ Thumbs!ToggleOnDemand \/ Thumbs!AbortCovers
           \/ \E b \in ThumbBooks : Thumbs!WarmUp(b)
    PROVE  CoverInv'
<1>1. Holds(covers, ThumbBooks, {Thumbs!NoView})
  BY DEF CoverInv
<1>2. CASE Thumbs!ToggleOnDemand
  BY <1>2, CoverStutters, Zenon DEF Thumbs!ToggleOnDemand, Thumbs!queues
<1>3. ASSUME Holds(covers', ThumbBooks, {Thumbs!NoView}),
             UNCHANGED <<thumbView, thumbChannel, thumbFast, thumbSlow, thumbWorker>>
      PROVE  CoverInv'
  BY <1>3, Zenon DEF CoverInv
<1>4. CASE Thumbs!AbortCovers
  <2> DEFINE q == [covers EXCEPT !.size = 0]
  <2>1. covers' = TrimTo(q, 0)
    BY <1>4, SameQueues, Zenon DEF Thumbs!AbortCovers, ClearQueue, SetSize
  <2>2. Holds(q, ThumbBooks, {Thumbs!NoView})
    BY <1>1 DEF Holds, IsQueue, Queued
  <2> HIDE DEF q
  <2>3. Holds(covers', ThumbBooks, {Thumbs!NoView})
    BY <2>1, <2>2, TrimmedQueue
  <2> QED BY <1>3, <1>4, <2>3, Zenon DEF Thumbs!AbortCovers
<1>5. ASSUME NEW b \in ThumbBooks, Thumbs!WarmUp(b) PROVE CoverInv'
  <2>1. covers' = AddItem(covers, b, Thumbs!NoView, "AddToTop")
    BY <1>5, SameQueues, Zenon DEF Thumbs!WarmUp
  <2>2. Holds(covers', ThumbBooks, {Thumbs!NoView})
    BY <1>1, <2>1, AddedHolds
  <2> QED BY <1>3, <1>5, <2>2, Zenon DEF Thumbs!WarmUp
<1> QED BY <1>2, <1>4, <1>5

\* One less in a finite set.
LEMMA OneLess ==
    ASSUME NEW S, IsFiniteSet(S), NEW k \in S
    PROVE  Cardinality(S \ {k}) + 1 = Cardinality(S) /\ Cardinality(S \ {k}) \in Nat
<1>1. IsFiniteSet(S \ {k}) /\ Cardinality(S \ {k}) = Cardinality(S) - 1
  BY FS_RemoveElement
<1>2. Cardinality(S) \in Nat /\ Cardinality(S \ {k}) \in Nat
  BY <1>1, FS_CardinalityType
<1> QED BY <1>1, <1>2

\* The view whose item is taken has one comer less, and the others have no more.
LEMMA ClaimedComers ==
    ASSUME NEW K, IsFiniteSet(K), NEW C, NEW q, Holds(q, K, C), Waiting(q) # {},
           NEW k, k = NextItem(q), NEW r, r = Claim(q)
    PROVE  /\ Holds(r, K, C) /\ q.entries[k].callback \in C
           /\ \A u : IF q.entries[k].callback = u
                     THEN Cardinality(Comers(r, u)) + 1 = Cardinality(Comers(q, u))
                     ELSE Cardinality(Comers(r, u)) <= Cardinality(Comers(q, u))
<1>1. /\ k \in Waiting(q) /\ Holds(r, K, C) /\ q.entries[k].callback \in C
      /\ Waiting(r) = Waiting(q) \ {k}
      /\ \A x \in Waiting(r) : r.entries[x] = q.entries[x]
  BY ClaimedItem
<1>2. ASSUME NEW u
      PROVE  IF q.entries[k].callback = u
             THEN Cardinality(Comers(r, u)) + 1 = Cardinality(Comers(q, u))
             ELSE Cardinality(Comers(r, u)) <= Cardinality(Comers(q, u))
  <2>1. Comers(r, u) = Comers(q, u) \ {k}
    BY <1>1 DEF Comers
  <2>2. IsFiniteSet(Comers(q, u))
    BY ComersCount
  <2>3. CASE q.entries[k].callback = u
    <3>1. k \in Comers(q, u)
      BY <1>1, <2>3 DEF Comers
    <3> QED BY <2>1, <2>2, <2>3, <3>1, OneLess
  <2>4. CASE q.entries[k].callback # u
    <3>1. Comers(r, u) \subseteq Comers(q, u)
      BY <2>1
    <3> QED BY <2>2, <2>4, <3>1, FewerComers
  <2> QED BY <2>3, <2>4
<1> QED BY <1>1, <1>2

\* Which queue a worker draws from, and which one it changes.
LEMMA OwnQueue ==
    ASSUME Thumbs!ConstantsAssumption, NEW w \in Thumbs!Workers, NEW r, Thumbs!SetQueue(w, r)
    PROVE  \/ /\ w \in ThumbFast /\ w \notin CoverWorkers /\ Thumbs!QueueOf(w) = thumbFast
              /\ thumbFast' = r /\ thumbSlow' = thumbSlow /\ covers' = covers
           \/ /\ w \in ThumbSlow /\ w \notin CoverWorkers /\ Thumbs!QueueOf(w) = thumbSlow
              /\ thumbSlow' = r /\ thumbFast' = thumbFast /\ covers' = covers
           \/ /\ w \in CoverWorkers /\ Thumbs!QueueOf(w) = covers
              /\ covers' = r /\ thumbFast' = thumbFast /\ thumbSlow' = thumbSlow
BY ThumbConstants DEF Thumbs!QueueOf, Thumbs!SetQueue

\* A worker takes an item: what waited for the view is now in the making for it.
LEMMA WorkerStartsCounts ==
    ASSUME Thumbs!ConstantsAssumption, CoverInv, NEW w \in Thumbs!Workers,
           Thumbs!WorkerStarts(w)
    PROVE  CoverInv'
<1> DEFINE C == Thumbs!Views \cup {Thumbs!NoView}
           q == Thumbs!QueueOf(w)
           k == NextItem(q)
           r == Claim(q)
           for == q.entries[k].callback
           job == [Thumbs!Idle EXCEPT !.pc = "look", !.key = k, !.for = for]
<1>1. /\ thumbWorker[w].pc = "idle" /\ Waiting(q) # {} /\ Thumbs!SetQueue(w, r)
      /\ thumbWorker' = [thumbWorker EXCEPT ![w] = job]
      /\ UNCHANGED <<thumbView, thumbChannel>>
  BY SameQueues, Zenon DEF Thumbs!WorkerStarts, Thumbs!At, Thumbs!Own
<1>2. /\ DOMAIN job = {"pc", "key", "for", "image", "fd"} /\ job.pc = "look" /\ job.for = for
  BY DEF Thumbs!Idle
<1> HIDE DEF job
<1>3. /\ DOMAIN thumbWorker' = Thumbs!Workers /\ thumbWorker'[w] = job
      /\ \A x \in Thumbs!Workers : x # w => thumbWorker'[x] = thumbWorker[x]
  BY <1>1 DEF CoverInv
<1>4. /\ Holds(thumbFast, ThumbBooks, C) /\ Holds(thumbSlow, ThumbBooks, C)
      /\ Holds(covers, ThumbBooks, {Thumbs!NoView})
  BY Zenon DEF CoverInv
<1>5. /\ IsFiniteSet(ThumbBooks) /\ Thumbs!NoView \notin Thumbs!Views
      /\ ItemViews \subseteq Thumbs!Views /\ Thumbs!NoView \in C
  BY ThumbConstants
<1> HIDE DEF C, k, r, for
<1>6. ASSUME NEW D, Holds(q, ThumbBooks, D)
      PROVE  /\ Holds(r, ThumbBooks, D) /\ for \in D
             /\ \A u : IF for = u
                       THEN Cardinality(Comers(r, u)) + 1 = Cardinality(Comers(q, u))
                       ELSE Cardinality(Comers(r, u)) <= Cardinality(Comers(q, u))
  BY <1>1, <1>5, <1>6, ClaimedComers DEF k, r, for
<1> HIDE DEF q
<1>7. /\ Holds(thumbFast', ThumbBooks, C) /\ Holds(thumbSlow', ThumbBooks, C)
      /\ Holds(covers', ThumbBooks, {Thumbs!NoView})
      /\ for \in C /\ (w \in CoverWorkers => for = Thumbs!NoView)
      /\ \A u \in ItemViews :
            \/ /\ for = u
               /\ \/ /\ thumbSlow' = thumbSlow
                     /\ Cardinality(Comers(thumbFast', u)) + 1 = Cardinality(Comers(thumbFast, u))
                  \/ /\ thumbFast' = thumbFast
                     /\ Cardinality(Comers(thumbSlow', u)) + 1 = Cardinality(Comers(thumbSlow, u))
            \/ /\ for # u
               /\ \/ thumbFast' = thumbFast
                  \/ Cardinality(Comers(thumbFast', u)) <= Cardinality(Comers(thumbFast, u))
               /\ \/ thumbSlow' = thumbSlow
                  \/ Cardinality(Comers(thumbSlow', u)) <= Cardinality(Comers(thumbSlow, u))
  <2>1. \/ /\ w \in ThumbFast /\ w \notin CoverWorkers /\ q = thumbFast
           /\ thumbFast' = r /\ thumbSlow' = thumbSlow /\ covers' = covers
        \/ /\ w \in ThumbSlow /\ w \notin CoverWorkers /\ q = thumbSlow
           /\ thumbSlow' = r /\ thumbFast' = thumbFast /\ covers' = covers
        \/ /\ w \in CoverWorkers /\ q = covers
           /\ covers' = r /\ thumbFast' = thumbFast /\ thumbSlow' = thumbSlow
    BY <1>1, OwnQueue DEF q
  <2>2. CASE /\ w \notin CoverWorkers /\ q = thumbFast
             /\ thumbFast' = r /\ thumbSlow' = thumbSlow /\ covers' = covers
    <3>1. /\ Holds(r, ThumbBooks, C) /\ for \in C
          /\ \A u : IF for = u
                    THEN Cardinality(Comers(r, u)) + 1 = Cardinality(Comers(thumbFast, u))
                    ELSE Cardinality(Comers(r, u)) <= Cardinality(Comers(thumbFast, u))
      BY <1>4, <1>6, <2>2, Zenon
    <3> QED BY <1>4, <2>2, <3>1, Zenon
  <2>3. CASE /\ w \notin CoverWorkers /\ q = thumbSlow
             /\ thumbSlow' = r /\ thumbFast' = thumbFast /\ covers' = covers
    <3>1. /\ Holds(r, ThumbBooks, C) /\ for \in C
          /\ \A u : IF for = u
                    THEN Cardinality(Comers(r, u)) + 1 = Cardinality(Comers(thumbSlow, u))
                    ELSE Cardinality(Comers(r, u)) <= Cardinality(Comers(thumbSlow, u))
      BY <1>4, <1>6, <2>3, Zenon
    <3> QED BY <1>4, <2>3, <3>1, Zenon
  <2>4. CASE /\ q = covers
             /\ covers' = r /\ thumbFast' = thumbFast /\ thumbSlow' = thumbSlow
    <3>1. Holds(r, ThumbBooks, {Thumbs!NoView}) /\ for = Thumbs!NoView
      BY <1>4, <1>6, <2>4
    <3> QED BY <1>4, <1>5, <2>4, <3>1
  <2> QED BY <2>1, <2>2, <2>3, <2>4
<1>8. ASSUME NEW x \in Thumbs!Workers PROVE JobKept(x, thumbWorker'[x])
  <2>1. JobKept(w, job)
    BY <1>2, <1>7 DEF JobKept, C
  <2>2. x # w => JobKept(x, thumbWorker'[x])
    BY <1>3 DEF CoverInv
  <2> QED BY <1>3, <2>1, <2>2
<1>9. ASSUME NEW u \in ItemViews
      PROVE  CountsFor(u, thumbView[u], thumbChannel[u], thumbWorker', thumbFast', thumbSlow')
  <2>1. /\ IF for = u
           THEN Cardinality(Makers(thumbWorker', u)) <= Cardinality(Makers(thumbWorker, u)) + 1
           ELSE Cardinality(Makers(thumbWorker', u)) <= Cardinality(Makers(thumbWorker, u))
    <3>1. /\ Makers(thumbWorker', u) \subseteq Makers(thumbWorker, u) \cup {w}
          /\ for # u => Makers(thumbWorker', u) \subseteq Makers(thumbWorker, u)
      BY <1>2, <1>3 DEF Makers
    <3>2. IsFiniteSet(Makers(thumbWorker, u))
      BY CountTypes
    <3> QED BY <3>1, <3>2, FewerComers
  <2>2. /\ Cardinality(Makers(thumbWorker, u)) \in Nat
        /\ Cardinality(Makers(thumbWorker', u)) \in Nat
        /\ Cardinality(Comers(thumbFast, u)) \in Nat /\ Cardinality(Comers(thumbSlow, u)) \in Nat
        /\ Len(thumbChannel[u]) \in Nat /\ thumbView[u].pending \in Nat
    BY CountTypes
  <2>3. Cardinality(Comers(thumbFast', u)) \in Nat /\ Cardinality(Comers(thumbSlow', u)) \in Nat
    BY <1>5, <1>7, ComersCount
  <2>4. /\ thumbView[u].pending >= Len(thumbChannel[u]) + Cardinality(Makers(thumbWorker, u))
                + Cardinality(Comers(thumbFast, u)) + Cardinality(Comers(thumbSlow, u))
        /\ thumbView[u].active \/ thumbView[u].pending > 0 => thumbView[u].pumps # {}
    BY Zenon DEF CoverInv, CountsFor
  <2>5. thumbView[u].pending >= Len(thumbChannel[u]) + Cardinality(Makers(thumbWorker', u))
                + Cardinality(Comers(thumbFast', u)) + Cardinality(Comers(thumbSlow', u))
    <3> DEFINE m == Cardinality(Makers(thumbWorker, u))
               n == Cardinality(Makers(thumbWorker', u))
               f == Cardinality(Comers(thumbFast, u))
               g == Cardinality(Comers(thumbFast', u))
               s == Cardinality(Comers(thumbSlow, u))
               t == Cardinality(Comers(thumbSlow', u))
    <3>1. /\ thumbFast' = thumbFast => g = f
          /\ thumbSlow' = thumbSlow => t = s
      OBVIOUS
    <3>2. \/ for = u /\ ((t = s /\ g + 1 = f) \/ (g = f /\ t + 1 = s)) /\ n <= m + 1
          \/ for # u /\ (g = f \/ g <= f) /\ (t = s \/ t <= s) /\ n <= m
      <4>1. \/ for = u /\ ((t = s /\ g + 1 = f) \/ (g = f /\ t + 1 = s))
            \/ for # u /\ (g = f \/ g <= f) /\ (t = s \/ t <= s)
        BY <1>7, <3>1
      <4>2. IF for = u THEN n <= m + 1 ELSE n <= m
        BY <2>1, Zenon
      <4> QED BY <4>1, <4>2, Zenon
    <3>3. m \in Nat /\ n \in Nat /\ f \in Nat /\ g \in Nat /\ s \in Nat /\ t \in Nat
      BY <2>2, <2>3
    <3>4. Len(thumbChannel[u]) \in Nat /\ thumbView[u].pending \in Nat
          /\ thumbView[u].pending >= Len(thumbChannel[u]) + m + f + s
      BY <2>2, <2>4
    <3> HIDE DEF m, n, f, g, s, t
    <3>5. thumbView[u].pending >= Len(thumbChannel[u]) + n + g + t
      BY <3>2, <3>3, <3>4
    <3> QED BY <3>5 DEF n, g, t
  <2> QED BY <2>4, <2>5, Zenon DEF CountsFor
<1>10. CoverInv'
  BY <1>1, <1>3, <1>7, <1>8, <1>9, Zenon DEF CoverInv, C
<1> QED BY <1>10

\* A worker answers: what was in the making for a view lies in its channel.
LEMMA WorkerSendsCounts ==
    ASSUME Thumbs!ConstantsAssumption, CoverInv, NEW w \in Thumbs!Workers, Thumbs!WorkerSends(w)
    PROVE  CoverInv'
<1> DEFINE v == thumbWorker[w].for
           e == [book |-> thumbWorker[w].key, image |-> thumbWorker[w].image]
<1>1. /\ thumbWorker[w].pc = "send"
      /\ thumbChannel' = IF v = Thumbs!NoView
                         THEN thumbChannel
                         ELSE [thumbChannel EXCEPT ![v] = Append(@, e)]
      /\ thumbWorker' = [thumbWorker EXCEPT ![w].pc = "finish"]
      /\ UNCHANGED <<thumbView, thumbFast, thumbSlow, covers>>
  BY Zenon DEF Thumbs!WorkerSends, Thumbs!At, Thumbs!GoTo, Thumbs!queues
<1>2. /\ DOMAIN thumbWorker' = Thumbs!Workers
      /\ \A x \in Thumbs!Workers : x # w => thumbWorker'[x] = thumbWorker[x]
      /\ DOMAIN thumbWorker'[w] = {"pc", "key", "for", "image", "fd"}
      /\ thumbWorker'[w].for = v /\ thumbWorker'[w].pc = "finish"
  BY <1>1 DEF CoverInv, JobKept
<1>3. v \in Thumbs!Views \cup {Thumbs!NoView} /\ JobKept(w, thumbWorker[w])
  BY DEF CoverInv, JobKept
<1>4. \A x \in Thumbs!Workers : JobKept(x, thumbWorker'[x])
  BY <1>1, <1>2, <1>3 DEF CoverInv, JobKept
<1>5. DOMAIN thumbChannel = Thumbs!Views /\ \A x \in Thumbs!Views : \E S : thumbChannel[x] \in Seq(S)
  BY DEF CoverInv
<1> HIDE DEF v, e
<1>6. ASSUME NEW x, x \in Thumbs!Views
      PROVE  /\ \E S : thumbChannel'[x] \in Seq(S)
             /\ Len(thumbChannel'[x]) =
                    IF x = v THEN Len(thumbChannel[x]) + 1 ELSE Len(thumbChannel[x])
  <2>1. PICK S : thumbChannel[x] \in Seq(S)
    BY <1>5, <1>6
  <2>2. CASE x # v
    <3>1. thumbChannel'[x] = thumbChannel[x]
      BY <1>1, <1>5, <1>6, <2>2
    <3> QED BY <2>1, <2>2, <3>1
  <2>3. CASE x = v
    <3>1. v # Thumbs!NoView
      BY <1>6, <2>3, ThumbConstants
    <3>2. thumbChannel'[x] = Append(thumbChannel[x], e)
      BY <1>1, <1>5, <1>6, <2>3, <3>1
    <3> DEFINE U == S \cup {e}
    <3>3. thumbChannel[x] \in Seq(U) /\ e \in U
      BY <2>1
    <3> HIDE DEF U
    <3>4. thumbChannel'[x] \in Seq(U) /\ Len(thumbChannel'[x]) = Len(thumbChannel[x]) + 1
      BY <3>2, <3>3
    <3> QED BY <2>3, <3>4
  <2> QED BY <2>2, <2>3
<1>7. DOMAIN thumbChannel' = Thumbs!Views
  BY <1>1, <1>5
<1>8. ASSUME NEW u \in ItemViews
      PROVE  CountsFor(u, thumbView[u], thumbChannel'[u], thumbWorker', thumbFast, thumbSlow)
  <2>1. IsFiniteSet(Makers(thumbWorker, u)) /\ u \in Thumbs!Views
    BY CountTypes, ThumbConstants
  <2>2. /\ Cardinality(Makers(thumbWorker, u)) \in Nat
        /\ Cardinality(Makers(thumbWorker', u)) \in Nat
        /\ Cardinality(Comers(thumbFast, u)) \in Nat /\ Cardinality(Comers(thumbSlow, u)) \in Nat
        /\ Len(thumbChannel[u]) \in Nat /\ thumbView[u].pending \in Nat
    BY CountTypes
  <2>3. Makers(thumbWorker', u) = Makers(thumbWorker, u) \ {w}
    BY <1>2 DEF Makers
  <2>4. u = v => w \in Makers(thumbWorker, u)
    BY <1>1 DEF Makers, v
  <2>5. IF u = v THEN Cardinality(Makers(thumbWorker', u)) + 1 = Cardinality(Makers(thumbWorker, u))
                 ELSE Cardinality(Makers(thumbWorker', u)) <= Cardinality(Makers(thumbWorker, u))
    <3>1. CASE u = v
      BY <2>1, <2>3, <2>4, <3>1, OneLess
    <3>2. CASE u # v
      <4>1. Makers(thumbWorker', u) \subseteq Makers(thumbWorker, u)
        BY <2>3
      <4> QED BY <2>1, <3>2, <4>1, FewerComers
    <3> QED BY <3>1, <3>2
  <2>6. Len(thumbChannel'[u]) = IF u = v THEN Len(thumbChannel[u]) + 1 ELSE Len(thumbChannel[u])
    BY <1>6, <2>1
  <2>7. /\ thumbView[u].pending >= Len(thumbChannel[u]) + Cardinality(Makers(thumbWorker, u))
                + Cardinality(Comers(thumbFast, u)) + Cardinality(Comers(thumbSlow, u))
        /\ thumbView[u].active \/ thumbView[u].pending > 0 => thumbView[u].pumps # {}
    BY Zenon DEF CoverInv, CountsFor
  <2>8. thumbView[u].pending >= Len(thumbChannel'[u]) + Cardinality(Makers(thumbWorker', u))
                + Cardinality(Comers(thumbFast, u)) + Cardinality(Comers(thumbSlow, u))
    <3> DEFINE m == Cardinality(Makers(thumbWorker, u))
               n == Cardinality(Makers(thumbWorker', u))
               f == Cardinality(Comers(thumbFast, u))
               g == Cardinality(Comers(thumbSlow, u))
               c == Len(thumbChannel[u])
               d == Len(thumbChannel'[u])
    <3>1. m \in Nat /\ n \in Nat /\ f \in Nat /\ g \in Nat /\ c \in Nat
      BY <2>2
    <3>2. \/ n + 1 = m /\ d = c + 1
          \/ n <= m /\ d = c
      BY <2>5, <2>6, Zenon
    <3>3. thumbView[u].pending \in Nat /\ thumbView[u].pending >= c + m + f + g
      BY <2>2, <2>7
    <3> HIDE DEF m, n, f, g, c, d
    <3>4. thumbView[u].pending >= d + n + f + g
      BY <3>1, <3>2, <3>3
    <3> QED BY <3>4 DEF n, f, g, d
  <2> QED BY <2>7, <2>8, Zenon DEF CountsFor
<1> QED BY <1>1, <1>2, <1>4, <1>6, <1>7, <1>8, Zenon DEF CoverInv

\* A queue that shrinks has no more comers.
LEMMA RemovedComers ==
    ASSUME NEW K, IsFiniteSet(K), NEW C, NEW q, Holds(q, K, C), NEW k, NEW r,
           r = RemoveItem(q, k)
    PROVE  /\ Holds(r, K, C)
           /\ \A u : Cardinality(Comers(r, u)) <= Cardinality(Comers(q, u))
<1>1. /\ Holds(r, K, C)
      /\ \A x \in Queued(r) : x \in Queued(q) /\ r.entries[x] = q.entries[x]
  BY RemovedItem
<1>2. ASSUME NEW u PROVE Cardinality(Comers(r, u)) <= Cardinality(Comers(q, u))
  <2>1. Comers(r, u) \subseteq Comers(q, u)
    BY <1>1 DEF Comers, Waiting, Queued
  <2>2. IsFiniteSet(Comers(q, u))
    BY ComersCount
  <2> QED BY <2>1, <2>2, FewerComers
<1> QED BY <1>1, <1>2

\* A worker that has answered gives its item back.
LEMMA WorkerFinishesCounts ==
    ASSUME Thumbs!ConstantsAssumption, CoverInv, NEW w \in Thumbs!Workers,
           Thumbs!WorkerFinishes(w)
    PROVE  CoverInv'
<1> DEFINE C == Thumbs!Views \cup {Thumbs!NoView}
           q == Thumbs!QueueOf(w)
           k == thumbWorker[w].key
           r == RemoveItem(q, k)
<1>1. /\ thumbWorker[w].pc = "finish" /\ Thumbs!SetQueue(w, r)
      /\ thumbWorker' = [thumbWorker EXCEPT ![w] = Thumbs!Idle]
      /\ UNCHANGED <<thumbView, thumbChannel>>
  BY SameQueues, Zenon DEF Thumbs!WorkerFinishes, Thumbs!At, Thumbs!Own
<1>2. /\ DOMAIN Thumbs!Idle = {"pc", "key", "for", "image", "fd"}
      /\ Thumbs!Idle.pc = "idle" /\ Thumbs!Idle.for = Thumbs!NoView
  BY DEF Thumbs!Idle
<1>3. /\ DOMAIN thumbWorker' = Thumbs!Workers /\ thumbWorker'[w] = Thumbs!Idle
      /\ \A x \in Thumbs!Workers : x # w => thumbWorker'[x] = thumbWorker[x]
  BY <1>1 DEF CoverInv
<1>4. /\ Holds(thumbFast, ThumbBooks, C) /\ Holds(thumbSlow, ThumbBooks, C)
      /\ Holds(covers, ThumbBooks, {Thumbs!NoView})
  BY Zenon DEF CoverInv
<1>5. /\ IsFiniteSet(ThumbBooks) /\ Thumbs!NoView \notin Thumbs!Views
      /\ ItemViews \subseteq Thumbs!Views /\ Thumbs!NoView \in C
  BY ThumbConstants
<1> HIDE DEF C, k, r
<1>6. ASSUME NEW D, Holds(q, ThumbBooks, D)
      PROVE  /\ Holds(r, ThumbBooks, D)
             /\ \A u : Cardinality(Comers(r, u)) <= Cardinality(Comers(q, u))
  BY <1>5, <1>6, RemovedComers DEF r
<1> HIDE DEF q
<1>7. /\ Holds(thumbFast', ThumbBooks, C) /\ Holds(thumbSlow', ThumbBooks, C)
      /\ Holds(covers', ThumbBooks, {Thumbs!NoView})
      /\ \A u : \/ thumbFast' = thumbFast
                \/ Cardinality(Comers(thumbFast', u)) <= Cardinality(Comers(thumbFast, u))
      /\ \A u : \/ thumbSlow' = thumbSlow
                \/ Cardinality(Comers(thumbSlow', u)) <= Cardinality(Comers(thumbSlow, u))
  <2>1. \/ /\ w \in ThumbFast /\ w \notin CoverWorkers /\ q = thumbFast
           /\ thumbFast' = r /\ thumbSlow' = thumbSlow /\ covers' = covers
        \/ /\ w \in ThumbSlow /\ w \notin CoverWorkers /\ q = thumbSlow
           /\ thumbSlow' = r /\ thumbFast' = thumbFast /\ covers' = covers
        \/ /\ w \in CoverWorkers /\ q = covers
           /\ covers' = r /\ thumbFast' = thumbFast /\ thumbSlow' = thumbSlow
    BY <1>1, OwnQueue DEF q
  <2> QED BY <1>4, <1>6, <2>1, Zenon
<1>8. ASSUME NEW x \in Thumbs!Workers PROVE JobKept(x, thumbWorker'[x])
  <2>1. JobKept(w, Thumbs!Idle)
    BY <1>2 DEF JobKept
  <2>2. x # w => JobKept(x, thumbWorker'[x])
    BY <1>3 DEF CoverInv
  <2> QED BY <1>3, <2>1, <2>2
<1>9. ASSUME NEW u \in ItemViews
      PROVE  CountsFor(u, thumbView[u], thumbChannel[u], thumbWorker', thumbFast', thumbSlow')
  <2>1. Cardinality(Makers(thumbWorker', u)) <= Cardinality(Makers(thumbWorker, u))
    <3>1. Makers(thumbWorker', u) \subseteq Makers(thumbWorker, u)
      BY <1>2, <1>3, <1>5 DEF Makers
    <3>2. IsFiniteSet(Makers(thumbWorker, u))
      BY CountTypes
    <3> QED BY <3>1, <3>2, FewerComers
  <2>2. /\ Cardinality(Makers(thumbWorker, u)) \in Nat
        /\ Cardinality(Makers(thumbWorker', u)) \in Nat
        /\ Cardinality(Comers(thumbFast, u)) \in Nat /\ Cardinality(Comers(thumbSlow, u)) \in Nat
        /\ Len(thumbChannel[u]) \in Nat /\ thumbView[u].pending \in Nat
    BY CountTypes
  <2>3. /\ Cardinality(Comers(thumbFast', u)) \in Nat
        /\ Cardinality(Comers(thumbSlow', u)) \in Nat
    BY <1>5, <1>7, ComersCount
  <2>4. /\ thumbView[u].pending >= Len(thumbChannel[u]) + Cardinality(Makers(thumbWorker, u))
                + Cardinality(Comers(thumbFast, u)) + Cardinality(Comers(thumbSlow, u))
        /\ thumbView[u].active \/ thumbView[u].pending > 0 => thumbView[u].pumps # {}
    BY Zenon DEF CoverInv, CountsFor
  <2>5. /\ Cardinality(Comers(thumbFast', u)) <= Cardinality(Comers(thumbFast, u))
        /\ Cardinality(Comers(thumbSlow', u)) <= Cardinality(Comers(thumbSlow, u))
    <3>1. /\ thumbFast' = thumbFast
                => Cardinality(Comers(thumbFast', u)) = Cardinality(Comers(thumbFast, u))
          /\ thumbSlow' = thumbSlow
                => Cardinality(Comers(thumbSlow', u)) = Cardinality(Comers(thumbSlow, u))
      OBVIOUS
    <3> QED BY <1>7, <2>2, <2>3, <3>1
  <2>6. thumbView[u].pending >= Len(thumbChannel[u]) + Cardinality(Makers(thumbWorker', u))
                + Cardinality(Comers(thumbFast', u)) + Cardinality(Comers(thumbSlow', u))
    BY <2>1, <2>2, <2>3, <2>4, <2>5
  <2> QED BY <2>4, <2>6, Zenon DEF CountsFor
<1> QED BY <1>1, <1>3, <1>7, <1>8, <1>9, Zenon DEF CoverInv, C

\* Only one view changes, and it counts no less.
LEMMA ViewCounts ==
    ASSUME Thumbs!ConstantsAssumption, CoverInv, NEW v \in Thumbs!Views, NEW x, ViewKept(x),
           thumbView' = [thumbView EXCEPT ![v] = x],
           v \in ItemViews => /\ x.pending = thumbView[v].pending
                              /\ x.active = thumbView[v].active /\ x.pumps = thumbView[v].pumps,
           UNCHANGED <<thumbChannel, thumbFast, thumbSlow, covers, thumbWorker>>
    PROVE  CoverInv'
<1>1. /\ DOMAIN thumbView' = Thumbs!Views /\ thumbView'[v] = x
      /\ \A u \in Thumbs!Views : u # v => thumbView'[u] = thumbView[u]
  BY DEF CoverInv
<1>2. \A u \in Thumbs!Views : ViewKept(thumbView'[u])
  BY <1>1 DEF CoverInv
<1>3. ASSUME NEW u \in ItemViews
      PROVE  CountsFor(u, thumbView'[u], thumbChannel[u], thumbWorker, thumbFast, thumbSlow)
  <2>1. /\ u \in Thumbs!Views
        /\ CountsFor(u, thumbView[u], thumbChannel[u], thumbWorker, thumbFast, thumbSlow)
    BY ThumbConstants DEF CoverInv
  <2>2. /\ thumbView'[u].pending = thumbView[u].pending
        /\ thumbView'[u].active = thumbView[u].active /\ thumbView'[u].pumps = thumbView[u].pumps
    BY <1>1, <2>1
  <2> QED BY <2>1, <2>2, Zenon DEF CountsFor
<1> QED BY <1>1, <1>2, <1>3, Zenon DEF CoverInv

\* A view that gets other books goes on counting the answers for the ones before.
LEMMA SetBooksCounts ==
    ASSUME Thumbs!ConstantsAssumption, CoverInv, NEW v \in ItemViews, Thumbs!SetBooks(v)
    PROVE  CoverInv'
<1> DEFINE none == [s \in {} |-> Thumbs!NoImage]
           x == [thumbView[v] EXCEPT !.thumbs = none, !.queued = {}]
<1>1. v \in Thumbs!Views /\ ViewKept(thumbView[v]) /\ DOMAIN thumbView = Thumbs!Views
  BY ThumbConstants DEF CoverInv
<1>2. /\ thumbView' = [thumbView EXCEPT ![v].thumbs = none, ![v].queued = {}]
      /\ UNCHANGED <<thumbChannel, thumbFast, thumbSlow, covers, thumbWorker>>
  BY Zenon DEF Thumbs!SetBooks, Thumbs!queues
<1> HIDE DEF none
<1>3. thumbView' = [thumbView EXCEPT ![v] = x]
  BY <1>1, <1>2
<1>4. /\ ViewKept(x) /\ x.pending = thumbView[v].pending
      /\ x.active = thumbView[v].active /\ x.pumps = thumbView[v].pumps
  BY <1>1 DEF ViewKept
<1> HIDE DEF x
<1> QED BY <1>1, <1>2, <1>3, <1>4, ViewCounts

\* The panel gets another book: its count is not one of an item view.
LEMMA BindCounts ==
    ASSUME Thumbs!ConstantsAssumption, CoverInv, NEW v \in Panels,
           NEW b \in ThumbBooks \cup {Thumbs!NoBook}, Thumbs!Bind(v, b)
    PROVE  CoverInv'
<1> DEFINE none == [s \in {} |-> Thumbs!NoImage]
           x == [thumbView[v] EXCEPT !.bound = b, !.thumbs = none, !.queued = {}, !.pending = 0]
<1>1. /\ v \in Thumbs!Views /\ v \notin ItemViews
      /\ ViewKept(thumbView[v]) /\ DOMAIN thumbView = Thumbs!Views
  BY ThumbConstants DEF CoverInv
<1>2. /\ thumbView' = [thumbView EXCEPT ![v].bound = b, ![v].thumbs = none, ![v].queued = {},
                                        ![v].pending = 0]
      /\ UNCHANGED <<thumbChannel, thumbFast, thumbSlow, covers, thumbWorker>>
  BY Zenon DEF Thumbs!Bind, Thumbs!queues
<1> HIDE DEF none
<1>3. thumbView' = [thumbView EXCEPT ![v] = x]
  BY <1>1, <1>2
<1>4. ViewKept(x)
  BY <1>1 DEF ViewKept
<1> HIDE DEF x
<1> QED BY <1>1, <1>2, <1>3, <1>4, ViewCounts

\* What a draw reads, and what becomes of the view: a pump starts.
Asking(v) == [view |-> thumbView[v], fast |-> thumbFast, slow |-> thumbSlow,
              memory |-> thumbMemory]

Starts(v, x) == IF v \in Panels THEN x.queued # thumbView[v].queued ELSE x.pending > 0

Pumped(v, x) == IF Starts(v, x) /\ ~thumbView[v].active
                THEN [x EXCEPT !.active = TRUE, !.pumps = @ \cup {"later"}]
                ELSE x

\* A view draws: it asks for one book after the other.
LEMMA DrawGives ==
    ASSUME Thumbs!ConstantsAssumption, CoverInv, NEW v \in Thumbs!Views, Thumbs!Draw(v)
    PROVE  /\ Counting(Asking(v), v, Asking(v))
           /\ UNCHANGED <<thumbChannel, covers, thumbWorker>>
           /\ \E w \in Seq(ThumbBooks) :
                 LET s == Drawn(v, Asking(v), w)
                 IN  /\ thumbView' = [thumbView EXCEPT ![v] = Pumped(v, s.view)]
                     /\ thumbFast' = s.fast /\ thumbSlow' = s.slow
<1> DEFINE C == Thumbs!Views \cup {Thumbs!NoView}
           s0 == Asking(v)
           w == Thumbs!SetToSeq(Thumbs!Shown(v))
           s == Drawn(v, s0, w)
<1>1. /\ thumbView' = [thumbView EXCEPT ![v] = Pumped(v, s.view)]
      /\ thumbFast' = s.fast /\ thumbSlow' = s.slow
      /\ UNCHANGED <<thumbChannel, covers, thumbWorker>>
  BY Zenon DEF Thumbs!Draw, Drawn, Asking, Pumped, Starts
<1>2. ViewKept(thumbView[v]) /\ DOMAIN thumbView = Thumbs!Views
  BY DEF CoverInv
<1>3. /\ Holds(thumbFast, ThumbBooks, C) /\ Holds(thumbSlow, ThumbBooks, C)
  BY Zenon DEF CoverInv
<1>4. IsFiniteSet(ThumbBooks)
  BY ThumbConstants
<1>5. /\ DOMAIN s0 = {"view", "fast", "slow", "memory"}
      /\ s0.view = thumbView[v] /\ s0.fast = thumbFast /\ s0.slow = thumbSlow
  BY DEF Asking
<1>6. w \in Seq(ThumbBooks)
  <2>1. Thumbs!Shown(v) \subseteq ThumbBooks
    BY <1>2 DEF Thumbs!Shown, ViewKept
  <2> QED BY <1>4, <2>1, ShownSequence
<1> HIDE DEF s0, w
<1>7. Counting(s0, v, s0)
  <2>1. \A u : u # v => /\ Comers(s0.fast, u) \subseteq Comers(s0.fast, u)
                        /\ Comers(s0.slow, u) \subseteq Comers(s0.slow, u)
    OBVIOUS
  <2>2. s0.view.pending \in Nat /\ Cardinality(Comers(s0.fast, v)) \in Nat
        /\ Cardinality(Comers(s0.slow, v)) \in Nat
    BY <1>2, <1>3, <1>4, <1>5, ComersCount DEF ViewKept
  <2> QED BY <1>2, <1>3, <1>5, <2>1, <2>2 DEF Counting, ViewKept, C
<1> QED BY <1>1, <1>6, <1>7, Zenon DEF s0

\* It counts one for each item it brings to a queue, and starts a pump.
LEMMA DrawKeepsCounts ==
    ASSUME Thumbs!ConstantsAssumption, CoverInv, NEW v \in Thumbs!Views, Thumbs!Draw(v)
    PROVE  CoverInv'
<1> DEFINE C == Thumbs!Views \cup {Thumbs!NoView}
           s0 == Asking(v)
<1>0. PICK w \in Seq(ThumbBooks) :
          LET s == Drawn(v, Asking(v), w)
          IN  /\ thumbView' = [thumbView EXCEPT ![v] = Pumped(v, s.view)]
              /\ thumbFast' = s.fast /\ thumbSlow' = s.slow
  BY DrawGives, Zenon
<1> DEFINE s == Drawn(v, s0, w)
           starts == Starts(v, s.view)
           x == Pumped(v, s.view)
<1>1. /\ thumbView' = [thumbView EXCEPT ![v] = x] /\ thumbFast' = s.fast /\ thumbSlow' = s.slow
      /\ UNCHANGED <<thumbChannel, covers, thumbWorker>>
  BY <1>0, DrawGives, Zenon
<1>2. ViewKept(thumbView[v]) /\ DOMAIN thumbView = Thumbs!Views
  BY DEF CoverInv
<1>3. /\ Holds(thumbFast, ThumbBooks, C) /\ Holds(thumbSlow, ThumbBooks, C)
  BY Zenon DEF CoverInv
<1>4. IsFiniteSet(ThumbBooks) /\ ItemViews \cap Panels = {} /\ ItemViews \subseteq Thumbs!Views
  BY ThumbConstants
<1>5. /\ DOMAIN s0 = {"view", "fast", "slow", "memory"}
      /\ s0.view = thumbView[v] /\ s0.fast = thumbFast /\ s0.slow = thumbSlow
  BY DEF Asking
<1>8. Counting(s, v, s0)
  BY <1>4, DrawGives, DrawCounts, Zenon
<1> HIDE DEF s0
<1> HIDE DEF s
<1>9. /\ DOMAIN s.view = {"bound", "queued", "pending", "thumbs", "active", "pumps"}
      /\ s.view.bound = thumbView[v].bound /\ s.view.active = thumbView[v].active
      /\ s.view.pumps = thumbView[v].pumps /\ s.view.pending \in Nat
      /\ Holds(s.fast, ThumbBooks, C) /\ Holds(s.slow, ThumbBooks, C)
      /\ s.view.pending + Cardinality(Comers(thumbFast, v)) + Cardinality(Comers(thumbSlow, v))
             >= thumbView[v].pending + Cardinality(Comers(s.fast, v))
                + Cardinality(Comers(s.slow, v))
      /\ \A u : u # v => /\ Comers(s.fast, u) \subseteq Comers(thumbFast, u)
                         /\ Comers(s.slow, u) \subseteq Comers(thumbSlow, u)
  BY <1>5, <1>8, Zenon DEF Counting, C
<1>10. v \in ItemViews => (starts <=> s.view.pending > 0)
  BY <1>4 DEF Starts
<1> HIDE DEF starts
<1>11. /\ ViewKept(x) /\ x.pending = s.view.pending
       /\ \/ x.pumps # {}
          \/ ~starts /\ ~thumbView[v].active /\ x.active = thumbView[v].active
          \/ thumbView[v].active /\ x.pumps = thumbView[v].pumps
  <2>1. CASE starts /\ ~thumbView[v].active
    <3>1. x = [s.view EXCEPT !.active = TRUE, !.pumps = s.view.pumps \cup {"later"}]
      BY <2>1 DEF Pumped, starts
    <3> QED BY <1>2, <1>9, <3>1 DEF ViewKept
  <2>2. CASE ~(starts /\ ~thumbView[v].active)
    <3>1. x = s.view
      BY <2>2 DEF Pumped, starts
    <3> HIDE DEF x
    <3> QED BY <1>2, <1>9, <2>2, <3>1 DEF ViewKept
  <2> QED BY <2>1, <2>2
<1> HIDE DEF x
<1>12. /\ DOMAIN thumbView' = Thumbs!Views /\ thumbView'[v] = x
       /\ \A u \in Thumbs!Views : u # v => thumbView'[u] = thumbView[u]
  BY <1>1, <1>2
<1>13. \A u \in Thumbs!Views : ViewKept(thumbView'[u])
  BY <1>11, <1>12 DEF CoverInv
<1>14. ASSUME NEW u \in ItemViews
       PROVE  CountsFor(u, thumbView'[u], thumbChannel[u], thumbWorker, thumbFast', thumbSlow')
  <2> DEFINE m == Cardinality(Makers(thumbWorker, u))
             c == Len(thumbChannel[u])
             f == Cardinality(Comers(thumbFast, u))
             g == Cardinality(Comers(s.fast, u))
             h == Cardinality(Comers(thumbSlow, u))
             i == Cardinality(Comers(s.slow, u))
  <2>1. m \in Nat /\ c \in Nat /\ f \in Nat /\ h \in Nat /\ thumbView[u].pending \in Nat
    BY CountTypes
  <2>2. g \in Nat /\ i \in Nat
    BY <1>4, <1>9, ComersCount
  <2>3. /\ thumbView[u].pending >= c + m + f + h
        /\ thumbView[u].active \/ thumbView[u].pending > 0 => thumbView[u].pumps # {}
    BY Zenon DEF CoverInv, CountsFor
  <2>4. CASE u = v
    <3>1. s.view.pending + f + h >= thumbView[u].pending + g + i
      BY <1>9, <2>4
    <3>2. s.view.pending \in Nat
      BY <1>9
    <3>3. thumbView[u].pending >= c + m + f + h
      BY <2>3, Zenon
    <3> HIDE DEF m, c, f, g, h, i
    <3>4. ASSUME NEW p \in Nat, NEW n \in Nat, p + f + h >= n + g + i, n >= c + m + f + h
           PROVE  p >= c + m + g + i
      BY <2>1, <2>2, <3>4
    <3>5. s.view.pending >= c + m + g + i
      BY <2>1, <3>1, <3>2, <3>3, <3>4
    <3>6. thumbView'[u].pending >= c + m + g + i
      BY <1>11, <1>12, <2>4, <3>5
    <3>7. ASSUME thumbView'[u].active \/ thumbView'[u].pending > 0 PROVE thumbView'[u].pumps # {}
      <4>1. thumbView'[u] = x /\ (starts <=> x.pending > 0)
        BY <1>10, <1>11, <1>12, <2>4
      <4>2. CASE x.pumps # {}
        BY <4>1, <4>2
      <4>3. CASE ~starts /\ ~thumbView[v].active /\ x.active = thumbView[v].active
        BY <3>7, <4>1, <4>3
      <4>4. CASE thumbView[v].active /\ x.pumps = thumbView[v].pumps
        BY <2>3, <2>4, <4>1, <4>4
      <4> QED BY <1>11, <4>2, <4>3, <4>4
    <3> QED BY <1>1, <3>6, <3>7, Zenon DEF CountsFor, m, c, g, i
  <2>5. CASE u # v
    <3>1. thumbView'[u] = thumbView[u]
      BY <1>4, <1>12, <2>5
    <3>2. g <= f /\ i <= h
      <4>1. Comers(s.fast, u) \subseteq Comers(thumbFast, u)
            /\ Comers(s.slow, u) \subseteq Comers(thumbSlow, u)
        BY <1>9, <2>5
      <4>2. IsFiniteSet(Comers(thumbFast, u)) /\ IsFiniteSet(Comers(thumbSlow, u))
        BY <1>3, <1>4, ComersCount
      <4> QED BY <4>1, <4>2, FewerComers
    <3> HIDE DEF m, c, f, g, h, i
    <3>3. thumbView[u].pending >= c + m + g + i
      BY <2>1, <2>2, <2>3, <3>2
    <3> QED BY <1>1, <2>3, <3>1, <3>3, Zenon DEF CountsFor, m, c, g, i
  <2> QED BY <2>4, <2>5
<1>15. Holds(thumbFast', ThumbBooks, C) /\ Holds(thumbSlow', ThumbBooks, C)
  BY <1>1, <1>9, Zenon
<1> QED BY <1>1, <1>12, <1>13, <1>14, <1>15, Zenon DEF CoverInv, C

\* A pump collects: what it counts off lay in the channel, and it runs on while the view
\* waits for more.
LEMMA PumpKeepsCounts ==
    ASSUME Thumbs!ConstantsAssumption, CoverInv, NEW v \in Thumbs!Views, NEW p,
           Thumbs!PumpTicks(v, p)
    PROVE  CoverInv'
<1> DEFINE w == thumbChannel[v]
           after == Collected(v, p, thumbView[v], w)
           got == w # <<>>
           more == after.pending > 0
           active == after.active /\ more
           pumps == IF got \/ more THEN after.pumps ELSE after.pumps \ {p}
           x == [after EXCEPT !.active = active, !.pumps = pumps]
<1>1. /\ p \in thumbView[v].pumps
      /\ thumbView' = [thumbView EXCEPT ![v] = x]
      /\ thumbChannel' = [thumbChannel EXCEPT ![v] = <<>>]
      /\ UNCHANGED <<thumbFast, thumbSlow, covers, thumbWorker>>
  BY Zenon DEF Thumbs!PumpTicks, Thumbs!queues, Collected
<1>2. /\ ViewKept(thumbView[v]) /\ DOMAIN thumbView = Thumbs!Views
      /\ DOMAIN thumbChannel = Thumbs!Views /\ \E S : w \in Seq(S)
  BY DEF CoverInv
<1>3. PICK S : w \in Seq(S)
  BY <1>2
<1>4. Counted(thumbView[v], thumbView[v], 0)
  BY <1>2 DEF Counted, ViewKept
<1> HIDE DEF w
<1>5. Counted(after, thumbView[v], Len(w))
  BY <1>3, <1>4, CollectCounts
<1> HIDE DEF after
<1>6. /\ DOMAIN after = {"bound", "queued", "pending", "thumbs", "active", "pumps"}
      /\ after.bound = thumbView[v].bound /\ after.active = thumbView[v].active
      /\ after.pumps = thumbView[v].pumps /\ after.pending \in Nat
      /\ after.pending + Len(w) >= thumbView[v].pending
  BY <1>5 DEF Counted
<1>7. active \in BOOLEAN /\ (active => more)
  OBVIOUS
<1>8. more => pumps # {}
  BY <1>1, <1>6
<1> HIDE DEF active, pumps
<1>9. /\ ViewKept(x) /\ x.pending = after.pending /\ x.active = active /\ x.pumps = pumps
  BY <1>2, <1>6, <1>7 DEF ViewKept
<1> HIDE DEF x
<1>10. /\ DOMAIN thumbView' = Thumbs!Views /\ thumbView'[v] = x
       /\ \A u \in Thumbs!Views : u # v => thumbView'[u] = thumbView[u]
       /\ DOMAIN thumbChannel' = Thumbs!Views /\ thumbChannel'[v] = <<>>
       /\ \A u \in Thumbs!Views : u # v => thumbChannel'[u] = thumbChannel[u]
  BY <1>1, <1>2
<1>11. \A u \in Thumbs!Views : ViewKept(thumbView'[u])
  BY <1>9, <1>10 DEF CoverInv
<1>12. \A u \in Thumbs!Views : \E T : thumbChannel'[u] \in Seq(T)
  <2>1. <<>> \in Seq(ThumbBooks)
    OBVIOUS
  <2>2. \A u \in Thumbs!Views : \E T : thumbChannel[u] \in Seq(T)
    BY Zenon DEF CoverInv
  <2> QED BY <1>10, <2>1, <2>2, Zenon
<1>13. ASSUME NEW u \in ItemViews
       PROVE  CountsFor(u, thumbView'[u], thumbChannel'[u], thumbWorker, thumbFast, thumbSlow)
  <2> DEFINE m == Cardinality(Makers(thumbWorker, u))
             c == Len(thumbChannel[u])
             f == Cardinality(Comers(thumbFast, u))
             g == Cardinality(Comers(thumbSlow, u))
  <2>1. m \in Nat /\ c \in Nat /\ f \in Nat /\ g \in Nat /\ thumbView[u].pending \in Nat
    BY CountTypes
  <2>2. /\ thumbView[u].pending >= c + m + f + g
        /\ CountsFor(u, thumbView[u], thumbChannel[u], thumbWorker, thumbFast, thumbSlow)
    BY Zenon DEF CoverInv, CountsFor
  <2>3. u \in Thumbs!Views
    BY ThumbConstants
  <2>4. CASE u # v
    <3>1. thumbView'[u] = thumbView[u] /\ thumbChannel'[u] = thumbChannel[u]
      BY <1>10, <2>3, <2>4
    <3> QED BY <2>2, <3>1, Zenon
  <2>5. CASE u = v
    <3>1. /\ thumbView'[u] = x /\ thumbChannel'[u] = <<>> /\ c = Len(w)
      BY <1>10, <2>5 DEF w
    <3>2. Len(thumbChannel'[u]) = 0
      <4>1. Len(<<>>) = 0
        OBVIOUS
      <4> QED BY <3>1, <4>1, Zenon
    <3>3. after.pending + c >= thumbView[u].pending
      BY <1>6, <2>5, <3>1
    <3>4. after.pending \in Nat
      BY <1>6
    <3> HIDE DEF m, c, f, g
    <3>5. after.pending >= 0 + m + f + g
      BY <2>1, <2>2, <3>3, <3>4
    <3>6. thumbView'[u].pending >= Len(thumbChannel'[u]) + m + f + g
      BY <1>9, <3>1, <3>2, <3>5
    <3>7. thumbView'[u].active \/ thumbView'[u].pending > 0 => thumbView'[u].pumps # {}
      BY <1>7, <1>8, <1>9, <3>1
    <3> QED BY <3>6, <3>7, Zenon DEF CountsFor, m, f, g
  <2> QED BY <2>4, <2>5
<1> QED BY <1>1, <1>10, <1>11, <1>12, <1>13, Zenon DEF CoverInv

\* Each step of the thumbnails.
LEMMA CoverStep ==
    ASSUME Thumbs!ConstantsAssumption, CoverInv, [Thumbs!Next]_(Thumbs!vars)
    PROVE  CoverInv'
<1>1. CASE Thumbs!User
  <2>1. CASE \E v \in ItemViews : Thumbs!SetBooks(v)
    BY <2>1, SetBooksCounts
  <2>2. CASE \E v \in Panels, b \in ThumbBooks \cup {Thumbs!NoBook} : Thumbs!Bind(v, b)
    BY <2>2, BindCounts
  <2>3. CASE \/ Thumbs!ToggleOnDemand \/ Thumbs!AbortCovers
             \/ \E b \in ThumbBooks : Thumbs!WarmUp(b)
    BY <2>3, CommandsCount
  <2> QED BY <1>1, <2>1, <2>2, <2>3, Zenon DEF Thumbs!User
<1>2. ASSUME NEW v \in Thumbs!Views,
             Thumbs!Draw(v) \/ \E p \in {"first", "later"} : Thumbs!PumpTicks(v, p)
      PROVE  CoverInv'
  BY <1>2, DrawKeepsCounts, PumpKeepsCounts
<1>3. ASSUME NEW w \in Thumbs!Workers, Thumbs!WorkerStep(w) PROVE CoverInv'
  BY <1>3, WorkerStartsCounts, WorkerGoesOn, GoingOnCounts, WorkerSendsCounts, WorkerFinishesCounts, Zenon
     DEF Thumbs!WorkerStep
<1>4. CASE UNCHANGED Thumbs!vars
  BY <1>4, CoverStutters, Zenon DEF Thumbs!vars
<1> QED BY <1>1, <1>2, <1>3, <1>4, Zenon DEF Thumbs!Next

\* What is on its way to a view is counted, and there is a pump for what has come.
LEMMA CoverCovers ==
    ASSUME Thumbs!ConstantsAssumption, CoverInv
    PROVE  Thumbs!PendingCoversAnswers
<1> SUFFICES ASSUME NEW u \in ItemViews
             PROVE  /\ thumbView[u].pending >= Thumbs!InFlight(u)
                    /\ thumbChannel[u] # <<>> => thumbView[u].pumps # {}
  BY Zenon DEF Thumbs!PendingCoversAnswers
<1>1. /\ thumbView[u].pending >= Len(thumbChannel[u]) + Cardinality(Makers(thumbWorker, u))
              + Cardinality(Comers(thumbFast, u)) + Cardinality(Comers(thumbSlow, u))
      /\ thumbView[u].active \/ thumbView[u].pending > 0 => thumbView[u].pumps # {}
  BY Zenon DEF CoverInv, CountsFor
<1>2. \A S : Thumbs!Cardinality(S) = Cardinality(S)
  BY Zenon DEF Thumbs!Cardinality, Cardinality
<1>3. /\ {x \in Thumbs!Workers : thumbWorker[x].for = u /\ ~Thumbs!At(x, "finish")}
             = Makers(thumbWorker, u)
      /\ {b \in Thumbs!Waiting(thumbFast) : thumbFast.entries[b].callback = u}
             = Comers(thumbFast, u)
      /\ {b \in Thumbs!Waiting(thumbSlow) : thumbSlow.entries[b].callback = u}
             = Comers(thumbSlow, u)
  BY SameQueues DEF Makers, Comers, Thumbs!At
<1>4. Thumbs!InFlight(u) = Len(thumbChannel[u]) + Cardinality(Makers(thumbWorker, u))
              + Cardinality(Comers(thumbFast, u)) + Cardinality(Comers(thumbSlow, u))
  BY <1>2, <1>3, Zenon DEF Thumbs!InFlight
<1>5. ASSUME thumbChannel[u] # <<>> PROVE thumbView[u].pumps # {}
  <2>1. PICK S : thumbChannel[u] \in Seq(S)
    BY ThumbConstants DEF CoverInv
  <2>2. Len(thumbChannel[u]) > 0
    BY <1>5, <2>1
  <2>3. /\ Cardinality(Makers(thumbWorker, u)) \in Nat
        /\ Cardinality(Comers(thumbFast, u)) \in Nat /\ Cardinality(Comers(thumbSlow, u)) \in Nat
        /\ Len(thumbChannel[u]) \in Nat /\ thumbView[u].pending \in Nat
    BY CountTypes
  <2> QED BY <1>1, <2>2, <2>3
<1> QED BY <1>1, <1>4, <1>5

\* PendingCoversAnswers holds in every reachable state: an item view counts at least the
\* answers that are on their way to it, from the queues, from the workers and in its
\* channel, whatever books it has been given since, and it has a pump while one lies there.
THEOREM PendingCovers == Thumbs!ConstantsAssumption =>
                             (Thumbs!Spec => []Thumbs!PendingCoversAnswers)
<1> DEFINE J == Thumbs!ConstantsAssumption /\ CoverInv
<1>1. Thumbs!ConstantsAssumption /\ Thumbs!Init => J
  BY CoverInit
<1>2. J /\ [Thumbs!Next]_(Thumbs!vars) => J'
  <2>1. Thumbs!ConstantsAssumption' <=> Thumbs!ConstantsAssumption
    BY DEF Thumbs!ConstantsAssumption, Thumbs!IsFiniteSet, Thumbs!NoBook, Thumbs!NoView
  <2> QED BY <2>1, CoverStep
<1>3. J => Thumbs!PendingCoversAnswers
  BY CoverCovers
<1> HIDE DEF J
<1> QED BY <1>1, <1>2, <1>3, PTL DEF Thumbs!Spec

--------------------------------------------------------------------------------
(* Where a cover that is waited for is lost.                               *)

\* A queue is at its size.
AtSize(q) == Len(q.order) = q.size

\* A trim drops nothing, or leaves the queue at its size.
LEMMA TrimLoses ==
    ASSUME NEW K, NEW C, NEW q, Holds(q, K, C), NEW r, r = TrimTo(q, q.size)
    PROVE  /\ Len(q.order) >= q.size => AtSize(r)
           /\ \A x \in Queued(q) : x \in Queued(r) \/ AtSize(r)
<1> DEFINE n == q.size
           kept == IF Len(q.order) > n THEN SubSeq(q.order, 1, n) ELSE q.order
           entries == [x \in DOMAIN q.entries \cap ToSet(kept) |-> q.entries[x]]
<1>1. /\ DOMAIN q = {"order", "entries", "size"} /\ q.order \in Seq(K)
      /\ ToSet(q.order) = DOMAIN q.entries /\ n \in Nat
  BY DEF Holds, IsQueue, Queued
<1>2. /\ Len(q.order) \in Nat
      /\ Len(q.order) > n => Len(kept) = n
      /\ ~(Len(q.order) > n) => kept = q.order
  BY <1>1
<1>3. r.size = n /\ r.order = kept /\ r.entries = entries
  <2> HIDE DEF kept
  <2>1. r = [q EXCEPT !.order = kept, !.entries = entries]
    BY DEF TrimTo, kept
  <2> HIDE DEF entries
  <2> QED BY <1>1, <2>1
<1> HIDE DEF kept
<1>4. Len(q.order) >= n => AtSize(r)
  <2> HIDE DEF n, entries
  <2>1. CASE Len(q.order) > n
    BY <1>2, <1>3, <2>1 DEF AtSize
  <2>2. CASE Len(q.order) = n
    BY <1>1, <1>2, <1>3, <2>2 DEF AtSize
  <2> QED BY <1>1, <1>2, <2>1, <2>2
<1>5. ASSUME NEW x \in Queued(q) PROVE x \in Queued(r) \/ AtSize(r)
  <2>1. CASE Len(q.order) > n
    BY <1>1, <1>2, <1>4, <2>1
  <2>2. CASE ~(Len(q.order) > n)
    BY <1>1, <1>2, <1>3, <1>5, <2>2 DEF Queued
  <2> QED BY <2>1, <2>2
<1> QED BY <1>4, <1>5

\* So does asking for an item, which comes in itself unless it is dropped at once.
LEMMA AddLoses ==
    ASSUME NEW K, NEW C, NEW q, Holds(q, K, C), NEW k \in K, NEW c \in C, NEW mode,
           NEW r, r = AddItem(q, k, c, mode)
    PROVE  /\ r.size = q.size
           /\ AtSize(q) => AtSize(r)
           /\ \A x \in Queued(q) : x \in Queued(r) \/ AtSize(r)
           /\ k \in Queued(r) \/ AtSize(r)
           /\ k \in Queued(q) /\ k \in Queued(r) => r.entries[k] = q.entries[k]
<1>1. /\ DOMAIN q = {"order", "entries", "size"} /\ q.order \in Seq(K) /\ Once(q.order)
      /\ ToSet(q.order) = DOMAIN q.entries /\ q.size \in Nat /\ DOMAIN q.entries \subseteq K
      /\ \A x \in DOMAIN q.entries : q.entries[x] \in [callback : C, running : BOOLEAN]
  BY DEF Holds, IsQueue, Queued
<1>2. CASE k \in Queued(q)
  <2>1. r.entries = q.entries /\ r.size = q.size /\ Len(r.order) = Len(q.order)
    <3>1. CASE mode = "AddToTop"
      <4> DEFINE rest == RemoveFirst(q.order, k)
                 order == <<k>> \o rest
      <4>1. r = [q EXCEPT !.order = order]
        BY <1>2, <3>1 DEF AddItem
      <4>2. rest \in Seq(K) /\ Len(rest) = Len(q.order) - 1 /\ Len(q.order) \in Nat
        BY <1>1, <1>2, RemoveFirstFacts DEF Queued
      <4> HIDE DEF rest
      <4>3. Len(order) = Len(q.order)
        BY <4>2
      <4> HIDE DEF order
      <4> QED BY <1>1, <4>1, <4>3
    <3>2. CASE mode # "AddToTop"
      BY <1>2, <3>2 DEF AddItem
    <3> QED BY <3>1, <3>2
  <2> QED BY <1>2, <2>1 DEF AtSize, Queued
<1>3. CASE k \notin Queued(q)
  <2> DEFINE order == IF mode = "AddToTop" THEN <<k>> \o q.order ELSE Append(q.order, k)
             entries == [x \in DOMAIN q.entries \cup {k} |->
                            IF x = k THEN [callback |-> c, running |-> FALSE] ELSE q.entries[x]]
             t == [q EXCEPT !.order = order, !.entries = entries]
  <2>1. r = TrimTo(t, q.size)
    BY <1>3, Zenon DEF AddItem
  <2>2. k \notin ToSet(q.order)
    BY <1>1, <1>3 DEF Queued
  <2>3. /\ order \in Seq(K) /\ Once(order) /\ ToSet(order) = ToSet(q.order) \cup {k}
        /\ Len(order) = Len(q.order) + 1 /\ Len(q.order) \in Nat
    BY <1>1, <2>2, PrependedFacts, AppendedFacts
  <2> HIDE DEF order
  <2>4. /\ DOMAIN entries = DOMAIN q.entries \cup {k}
        /\ entries[k] = [callback |-> c, running |-> FALSE]
        /\ \A x \in DOMAIN q.entries : x # k /\ entries[x] = q.entries[x]
    BY <1>3 DEF Queued
  <2> HIDE DEF entries
  <2>5. /\ DOMAIN t = {"order", "entries", "size"} /\ t.size = q.size
        /\ t.order = order /\ t.entries = entries
    BY <1>1
  <2> HIDE DEF t
  <2>6. \A x \in DOMAIN entries : entries[x] \in [callback : C, running : BOOLEAN]
    <3>1. entries[k] \in [callback : C, running : BOOLEAN]
      BY <2>4
    <3> QED BY <1>1, <2>4, <3>1
  <2>7. Holds(t, K, C)
    BY <1>1, <2>3, <2>4, <2>5, <2>6 DEF Holds, IsQueue, Queued
  <2>8. /\ Len(t.order) >= t.size => AtSize(r)
        /\ \A x \in Queued(t) : x \in Queued(r) \/ AtSize(r)
    <3>1. r = TrimTo(t, t.size)
      BY <2>1, <2>5, Zenon
    <3> QED BY <2>7, <3>1, TrimLoses
  <2>9. r.size = q.size
    <3>1. r = TrimTo(t, t.size) /\ t.size \in Nat
      BY <1>1, <2>1, <2>5, Zenon
    <3>2. r.size = t.size
      BY <2>7, <3>1, TrimmedQueue
    <3> QED BY <2>5, <3>2
  <2>10. Queued(t) = Queued(q) \cup {k}
    BY <2>4, <2>5 DEF Queued
  <2>11. AtSize(q) => AtSize(r)
    BY <1>1, <2>3, <2>5, <2>8 DEF AtSize
  <2> QED BY <1>3, <2>8, <2>9, <2>10, <2>11
<1> QED BY <1>2, <1>3

\* A queue has the item b for the view u, or at its size it has dropped it.
Dropped(q, b, u) == AtSize(q) /\ (b \in Queued(q) => q.entries[b].callback # u)
HasOrDropped(q, b, u) == b \in Comers(q, u) \/ Dropped(q, b, u)

\* Which stays so when items are asked for, and becomes so when this one is.
LEMMA AddDrops ==
    ASSUME NEW K, NEW C, NEW q, Holds(q, K, C), NEW k \in K, NEW c \in C, NEW mode,
           NEW r, r = AddItem(q, k, c, mode)
    PROVE  /\ \A b, u : HasOrDropped(q, b, u) => HasOrDropped(r, b, u)
           /\ k \notin Queued(q) => HasOrDropped(r, k, c)
           /\ \A b : b # k => (b \in Queued(r) => b \in Queued(q))
<1>1. /\ Holds(r, K, C)
      /\ \A x \in Queued(r) : \/ x \in Queued(q) /\ r.entries[x] = q.entries[x]
                              \/ x = k /\ r.entries[x] = [callback |-> c, running |-> FALSE]
  BY AddedItem
<1>2. /\ AtSize(q) => AtSize(r)
      /\ \A x \in Queued(q) : x \in Queued(r) \/ AtSize(r)
      /\ k \in Queued(r) \/ AtSize(r)
      /\ k \in Queued(q) /\ k \in Queued(r) => r.entries[k] = q.entries[k]
  BY AddLoses
<1>3. ASSUME NEW b, NEW u, HasOrDropped(q, b, u) PROVE HasOrDropped(r, b, u)
  <2>1. CASE b \notin Queued(r)
    BY <1>2, <1>3, <2>1 DEF HasOrDropped, Dropped, Comers, Waiting, Queued
  <2>2. CASE b \in Queued(q) /\ b \in Queued(r)
    <3>1. r.entries[b] = q.entries[b]
      BY <1>1, <1>2, <2>2
    <3> QED BY <1>2, <1>3, <2>2, <3>1 DEF HasOrDropped, Dropped, Comers, Waiting, Queued
  <2>3. CASE b \notin Queued(q) /\ b \in Queued(r)
    <3>1. AtSize(q) /\ b = k /\ r.entries[b] = [callback |-> c, running |-> FALSE]
      BY <1>1, <1>3, <2>3 DEF HasOrDropped, Dropped, Comers, Waiting, Queued
    <3>2. r.entries[b].callback = c /\ ~r.entries[b].running
      BY <3>1
    <3> QED BY <1>2, <2>3, <3>1, <3>2 DEF HasOrDropped, Dropped, Comers, Waiting, Queued
  <2> QED BY <2>1, <2>2, <2>3
<1>4. ASSUME k \notin Queued(q) PROVE HasOrDropped(r, k, c)
  <2>1. CASE k \in Queued(r)
    <3>1. r.entries[k] = [callback |-> c, running |-> FALSE]
      BY <1>1, <1>4, <2>1
    <3>2. r.entries[k].callback = c /\ ~r.entries[k].running
      BY <3>1
    <3> QED BY <2>1, <3>2 DEF HasOrDropped, Comers, Waiting, Queued
  <2>2. CASE k \notin Queued(r)
    BY <1>2, <2>2 DEF HasOrDropped, Dropped
  <2> QED BY <2>1, <2>2
<1> QED BY <1>1, <1>3, <1>4

\* What becomes, from s on, of the items that wait for a view, and of a book that the
\* view v has not asked for and no queue has.
Drawing(t, v, s) ==
    /\ t.view.thumbs = s.view.thumbs
    /\ t.fast.size = s.fast.size /\ t.slow.size = s.slow.size
    /\ \A b, u : /\ HasOrDropped(s.fast, b, u) => HasOrDropped(t.fast, b, u)
                 /\ HasOrDropped(s.slow, b, u) => HasOrDropped(t.slow, b, u)
    /\ \A b : \/ v \in Panels \/ b \in s.view.queued
              \/ b \in Queued(s.fast) \/ b \in Queued(s.slow)
              \/ b \notin t.view.queued /\ b \notin Queued(t.fast) /\ b \notin Queued(t.slow)
              \/ HasOrDropped(t.fast, b, v) \/ HasOrDropped(t.slow, b, v)

\* One book.
LEMMA QueueThumbDrops ==
    ASSUME NEW v \in Thumbs!Views, NEW s, NEW t, Counting(t, v, s), Drawing(t, v, s),
           NEW k \in ThumbBooks
    PROVE  Drawing(Thumbs!QueueThumb(t, v, k), v, s)
<1> DEFINE C == Thumbs!Views \cup {Thumbs!NoView}
           fq == AddItem(t.fast, k, v, "AddToTop")
           sq == AddItem(t.slow, k, v, "AddToTop")
           out == Thumbs!QueueThumb(t, v, k)
<1>1. out = t \/
      /\ out.view.thumbs = t.view.thumbs
      /\ out.view.queued = t.view.queued \cup {Thumbs!SlotOf(v, k)}
      /\ \/ out.fast = fq /\ out.slow = t.slow
         \/ out.slow = sq /\ out.fast = t.fast
  <2>1. /\ DOMAIN t = {"view", "fast", "slow", "memory"}
        /\ DOMAIN t.view = {"bound", "queued", "pending", "thumbs", "active", "pumps"}
    BY DEF Counting
  <2> HIDE DEF out
  <2> QED BY <2>1, ThumbAsked DEF out
<1> HIDE DEF out
<1>2. Holds(t.fast, ThumbBooks, C) /\ Holds(t.slow, ThumbBooks, C) /\ v \in C
  BY DEF Counting
<1> HIDE DEF C
<1>3. ASSUME NEW q, Holds(q, ThumbBooks, C), NEW r, r = AddItem(q, k, v, "AddToTop")
      PROVE  /\ r.size = q.size
             /\ \A b, u : HasOrDropped(q, b, u) => HasOrDropped(r, b, u)
             /\ k \notin Queued(q) => HasOrDropped(r, k, v)
             /\ \A b : b # k => (b \in Queued(r) => b \in Queued(q))
  <2>1. r.size = q.size
    BY <1>2, <1>3, AddLoses
  <2> QED BY <1>2, <1>3, <2>1, AddDrops
<1>4. /\ fq.size = t.fast.size
      /\ \A b, u : HasOrDropped(t.fast, b, u) => HasOrDropped(fq, b, u)
      /\ k \notin Queued(t.fast) => HasOrDropped(fq, k, v)
      /\ \A b : b # k => (b \in Queued(fq) => b \in Queued(t.fast))
  BY <1>2, <1>3, Zenon
<1>5. /\ sq.size = t.slow.size
      /\ \A b, u : HasOrDropped(t.slow, b, u) => HasOrDropped(sq, b, u)
      /\ k \notin Queued(t.slow) => HasOrDropped(sq, k, v)
      /\ \A b : b # k => (b \in Queued(sq) => b \in Queued(t.slow))
  BY <1>2, <1>3, Zenon
<1> HIDE DEF fq, sq
<1>6. CASE out = t
  BY <1>6, Zenon DEF out
<1>7. ASSUME NEW b, v \notin Panels, b \notin s.view.queued,
             b \notin Queued(s.fast), b \notin Queued(s.slow), out # t
      PROVE  \/ b \notin out.view.queued /\ b \notin Queued(out.fast) /\ b \notin Queued(out.slow)
             \/ HasOrDropped(out.fast, b, v) \/ HasOrDropped(out.slow, b, v)
  <2>1. \/ b \notin t.view.queued /\ b \notin Queued(t.fast) /\ b \notin Queued(t.slow)
        \/ HasOrDropped(t.fast, b, v) \/ HasOrDropped(t.slow, b, v)
    BY <1>7, Zenon DEF Drawing
  <2>2. out.view.queued = t.view.queued \cup {k}
    BY <1>1, <1>7 DEF Thumbs!SlotOf
  <2>3. CASE HasOrDropped(t.fast, b, v) \/ HasOrDropped(t.slow, b, v)
    BY <1>1, <1>4, <1>5, <1>7, <2>3, Zenon
  <2>4. CASE b = k /\ b \notin Queued(t.fast) /\ b \notin Queued(t.slow)
    BY <1>1, <1>4, <1>5, <1>7, <2>4, Zenon
  <2>5. CASE b # k /\ b \notin t.view.queued /\ b \notin Queued(t.fast) /\ b \notin Queued(t.slow)
    <3>1. b \notin out.view.queued
      BY <2>2, <2>5
    <3>2. b \notin Queued(out.fast) /\ b \notin Queued(out.slow)
      BY <1>1, <1>4, <1>5, <1>7, <2>5, Zenon
    <3> QED BY <3>1, <3>2
  <2> QED BY <2>1, <2>3, <2>4, <2>5
<1>8. CASE out # t
  <2>1. /\ out.view.thumbs = s.view.thumbs
        /\ out.fast.size = s.fast.size /\ out.slow.size = s.slow.size
    BY <1>1, <1>4, <1>5, <1>8, Zenon DEF Drawing
  <2>2. \A b, u : /\ HasOrDropped(s.fast, b, u) => HasOrDropped(out.fast, b, u)
                  /\ HasOrDropped(s.slow, b, u) => HasOrDropped(out.slow, b, u)
    BY <1>1, <1>4, <1>5, <1>8, Zenon DEF Drawing
  <2>3. Drawing(out, v, s)
    BY <1>7, <1>8, <2>1, <2>2, Zenon DEF Drawing
  <2> QED BY <2>3 DEF out
<1> QED BY <1>6, <1>8

\* Any number of books.
LEMMA DrawDrops ==
    ASSUME IsFiniteSet(ThumbBooks), NEW v \in Thumbs!Views, NEW s, Counting(s, v, s),
           NEW w \in Seq(ThumbBooks)
    PROVE  Counting(Drawn(v, s, w), v, s) /\ Drawing(Drawn(v, s, w), v, s)
<1>1. PICK it : Draws(it, v, s, w)
  BY DrawSteps
<1> DEFINE D == {k \in Nat : k <= Len(w) => Counting(it[k], v, s) /\ Drawing(it[k], v, s)}
<1>2. 0 \in D
  <2>1. Drawing(s, v, s)
    BY Zenon DEF Drawing
  <2> QED BY <1>1, <2>1 DEF Draws
<1>3. ASSUME NEW k \in Nat, k \in D PROVE k + 1 \in D
  <2> SUFFICES ASSUME k + 1 <= Len(w)
               PROVE  Counting(it[k + 1], v, s) /\ Drawing(it[k + 1], v, s)
    OBVIOUS
  <2>1. k < Len(w) /\ k <= Len(w) /\ w[k + 1] \in ThumbBooks
    OBVIOUS
  <2>2. /\ it[k + 1] = Thumbs!QueueThumb(it[k], v, w[k + 1])
        /\ Counting(it[k], v, s) /\ Drawing(it[k], v, s)
    BY <1>1, <1>3, <2>1 DEF Draws
  <2> QED BY <2>1, <2>2, QueueThumbCounts, QueueThumbDrops
<1> HIDE DEF D
<1>4. Len(w) \in D /\ Len(w) \in Nat
  BY <1>2, <1>3, Induction
<1>5. Counting(it[Len(w)], v, s) /\ Drawing(it[Len(w)], v, s)
  BY <1>4 DEF D
<1> QED BY <1>1, <1>5, Zenon DEF Draws, Drawn

\* The book b will be answered to the view v, which waits for it.
AnsweredBy(f, s, jobs, ch, v, b) ==
    \/ b \in Comers(f, v) \/ b \in Comers(s, v)
    \/ \E w \in Thumbs!Workers : jobs[w].key = b /\ jobs[w].for = v /\ jobs[w].pc # "finish"
    \/ \E i \in DOMAIN ch : ch[i].book = b

Misses(x, b) == b \in x.queued /\ b \notin DOMAIN x.thumbs

\* What a step has lost for the view, and where.
LostNow(v, b) ==
    /\ Misses(thumbView'[v], b)
    /\ ~AnsweredBy(thumbFast', thumbSlow', thumbWorker', thumbChannel'[v], v, b)
    /\ Misses(thumbView[v], b) =>
           AnsweredBy(thumbFast, thumbSlow, thumbWorker, thumbChannel[v], v, b)

LostInQueue(v, b) ==
    \/ /\ b \notin thumbView[v].queued
       /\ b \in Queued(thumbFast) \/ b \in Queued(thumbSlow)
    \/ /\ b \notin thumbView[v].queued \/ thumbFast' # thumbFast
       /\ Dropped(thumbFast', b, v)
    \/ /\ b \notin thumbView[v].queued \/ thumbSlow' # thumbSlow
       /\ Dropped(thumbSlow', b, v)
    \/ \E w \in Thumbs!Workers : /\ thumbWorker[w].pc = "finish" /\ thumbWorker'[w].pc = "idle"
                                 /\ thumbWorker[w].key = b

\* The step takes nothing that answers, and the view waits for nothing new.
LEMMA NothingLost ==
    ASSUME NEW v, NEW b,
           Misses(thumbView'[v], b) => Misses(thumbView[v], b),
           AnsweredBy(thumbFast, thumbSlow, thumbWorker, thumbChannel[v], v, b)
               => AnsweredBy(thumbFast', thumbSlow', thumbWorker', thumbChannel'[v], v, b)
    PROVE  ~LostNow(v, b)
BY Zenon DEF LostNow

\* Another view changes, or this one forgets what it waits for.
LEMMA ViewsLose ==
    ASSUME Thumbs!ConstantsAssumption, CoverInv, NEW v \in ItemViews, NEW b,
           \/ \E u \in ItemViews : Thumbs!SetBooks(u)
           \/ \E u \in Panels, k \in ThumbBooks \cup {Thumbs!NoBook} : Thumbs!Bind(u, k)
    PROVE  ~LostNow(v, b)
<1> DEFINE none == [s \in {} |-> Thumbs!NoImage]
<1>1. /\ v \in Thumbs!Views /\ v \notin Panels /\ ItemViews \subseteq Thumbs!Views
      /\ Panels \subseteq Thumbs!Views
  BY ThumbConstants
<1>2. DOMAIN thumbView = Thumbs!Views /\ \A u \in Thumbs!Views : ViewKept(thumbView[u])
  BY DEF CoverInv
<1>3. CASE \E u \in ItemViews : Thumbs!SetBooks(u)
  <2>1. PICK u \in ItemViews : Thumbs!SetBooks(u)
    BY <1>3
  <2>2. /\ thumbView' = [thumbView EXCEPT ![u].thumbs = none, ![u].queued = {}]
        /\ UNCHANGED <<thumbChannel, thumbFast, thumbSlow, covers, thumbWorker>>
    BY <2>1, Zenon DEF Thumbs!SetBooks, Thumbs!queues
  <2> HIDE DEF none
  <2>3. u # v => thumbView'[v] = thumbView[v]
    BY <1>1, <1>2, <2>2
  <2>4. u = v => thumbView'[v].queued = {}
    BY <1>1, <1>2, <2>2 DEF ViewKept
  <2>5. Misses(thumbView'[v], b) => Misses(thumbView[v], b)
    BY <2>3, <2>4 DEF Misses
  <2> QED BY <2>2, <2>5, NothingLost, Zenon
<1>4. CASE \E u \in Panels, k \in ThumbBooks \cup {Thumbs!NoBook} : Thumbs!Bind(u, k)
  <2>1. PICK u \in Panels, k \in ThumbBooks \cup {Thumbs!NoBook} : Thumbs!Bind(u, k)
    BY <1>4
  <2>2. /\ thumbView' = [thumbView EXCEPT ![u].bound = k, ![u].thumbs = none, ![u].queued = {},
                                          ![u].pending = 0]
        /\ UNCHANGED <<thumbChannel, thumbFast, thumbSlow, covers, thumbWorker>>
    BY <2>1, Zenon DEF Thumbs!Bind, Thumbs!queues
  <2> HIDE DEF none
  <2>3. thumbView'[v] = thumbView[v]
    BY <1>1, <1>2, <2>2
  <2> QED BY <2>2, <2>3, NothingLost, Zenon
<1> QED BY <1>3, <1>4

\* The commands that change the unlimited queue, or no queue.
LEMMA CommandsLose ==
    ASSUME NEW v, NEW b,
           \/ Thumbs!ToggleOnDemand \/ Thumbs!AbortCovers
           \/ \E k \in ThumbBooks : Thumbs!WarmUp(k)
           \/ UNCHANGED Thumbs!vars
    PROVE  ~LostNow(v, b)
<1>1. UNCHANGED <<thumbView, thumbChannel, thumbFast, thumbSlow, thumbWorker>>
  BY Zenon DEF Thumbs!ToggleOnDemand, Thumbs!AbortCovers, Thumbs!WarmUp, Thumbs!queues,
               Thumbs!vars
<1> QED BY <1>1, NothingLost, Zenon

\* A worker that goes on answers as before.
LEMMA GoingOnLoses ==
    ASSUME NEW w \in Thumbs!Workers, GoesOn(w), NEW v, NEW b
    PROVE  ~LostNow(v, b)
<1>1. UNCHANGED <<thumbView, thumbChannel, thumbFast, thumbSlow>>
  BY Zenon DEF GoesOn
<1>2. ASSUME NEW x \in Thumbs!Workers, thumbWorker[x].key = b, thumbWorker[x].for = v,
             thumbWorker[x].pc # "finish"
      PROVE  /\ thumbWorker'[x].key = b /\ thumbWorker'[x].for = v
             /\ thumbWorker'[x].pc # "finish"
  BY <1>2 DEF GoesOn
<1>3. AnsweredBy(thumbFast, thumbSlow, thumbWorker, thumbChannel[v], v, b)
          => AnsweredBy(thumbFast', thumbSlow', thumbWorker', thumbChannel'[v], v, b)
  BY <1>1, <1>2, Zenon DEF AnsweredBy
<1> QED BY <1>1, <1>3, NothingLost, Zenon

\* What waits after an item was taken.
LEMMA ClaimedWaits ==
    ASSUME NEW K, NEW C, NEW q, Holds(q, K, C), Waiting(q) # {}, NEW k, k = NextItem(q),
           NEW r, r = Claim(q)
    PROVE  Waiting(r) = Waiting(q) \ {k} /\ \A x \in Waiting(r) : r.entries[x] = q.entries[x]
<1>1. /\ k \in Waiting(q) /\ Holds(r, K, C) /\ q.entries[k].callback \in C
      /\ Waiting(r) = Waiting(q) \ {k}
      /\ \A x \in Waiting(r) : r.entries[x] = q.entries[x]
  BY ClaimedItem
<1> QED BY <1>1

\* A worker that takes an item answers for it.
LEMMA WorkerStartsLoses ==
    ASSUME Thumbs!ConstantsAssumption, CoverInv, NEW w \in Thumbs!Workers,
           Thumbs!WorkerStarts(w), NEW v \in ItemViews, NEW b
    PROVE  ~LostNow(v, b)
<1> DEFINE q == Thumbs!QueueOf(w)
           k == NextItem(q)
           r == Claim(q)
           for == q.entries[k].callback
           job == [Thumbs!Idle EXCEPT !.pc = "look", !.key = k, !.for = for]
<1>1. /\ thumbWorker[w].pc = "idle" /\ Waiting(q) # {} /\ Thumbs!SetQueue(w, r)
      /\ thumbWorker' = [thumbWorker EXCEPT ![w] = job]
      /\ UNCHANGED <<thumbView, thumbChannel>>
  BY SameQueues, Zenon DEF Thumbs!WorkerStarts, Thumbs!At, Thumbs!Own
<1>2. job.pc = "look" /\ job.key = k /\ job.for = for
  BY DEF Thumbs!Idle
<1> HIDE DEF job
<1>3. /\ thumbWorker'[w] = job /\ thumbWorker[w].for = Thumbs!NoView
      /\ \A x \in Thumbs!Workers : x # w => thumbWorker'[x] = thumbWorker[x]
  BY <1>1 DEF CoverInv, JobKept
<1>4. v # Thumbs!NoView
  BY ThumbConstants
<1>5. ASSUME NEW C, Holds(q, ThumbBooks, C)
      PROVE  Waiting(r) = Waiting(q) \ {k} /\ \A x \in Waiting(r) : r.entries[x] = q.entries[x]
  <2>1. Waiting(q) # {} /\ k = NextItem(q) /\ r = Claim(q)
    BY <1>1
  <2> HIDE DEF q, k, r
  <2> QED BY <1>5, <2>1, ClaimedWaits
<1>6. \E C : Holds(q, ThumbBooks, C)
  <2>1. q = thumbFast \/ q = thumbSlow \/ q = covers
    BY DEF Thumbs!QueueOf
  <2> HIDE DEF q
  <2> QED BY <2>1, Zenon DEF CoverInv
<1>7. b \in Comers(q, v) => b \in Comers(r, v) \/ (job.key = b /\ job.for = v)
  <2>1. Waiting(r) = Waiting(q) \ {k} /\ \A x \in Waiting(r) : r.entries[x] = q.entries[x]
    BY <1>5, <1>6
  <2> HIDE DEF q, k, r
  <2> QED BY <1>2, <2>1 DEF Comers, for
<1>8. /\ thumbFast' = thumbFast \/ (thumbFast' = r /\ q = thumbFast)
      /\ thumbSlow' = thumbSlow \/ (thumbSlow' = r /\ q = thumbSlow)
  BY <1>1, OwnQueue
<1> HIDE DEF q, k, r, for
<1>9. ASSUME AnsweredBy(thumbFast, thumbSlow, thumbWorker, thumbChannel[v], v, b)
      PROVE  AnsweredBy(thumbFast', thumbSlow', thumbWorker', thumbChannel'[v], v, b)
  <2>1. job.key = b /\ job.for = v =>
            AnsweredBy(thumbFast', thumbSlow', thumbWorker', thumbChannel'[v], v, b)
    BY <1>2, <1>3 DEF AnsweredBy
  <2>2. CASE b \in Comers(thumbFast, v) \/ b \in Comers(thumbSlow, v)
    BY <1>7, <1>8, <2>1, <2>2, Zenon DEF AnsweredBy
  <2>3. CASE \E x \in Thumbs!Workers : /\ thumbWorker[x].key = b /\ thumbWorker[x].for = v
                                       /\ thumbWorker[x].pc # "finish"
    BY <1>3, <1>4, <2>3, Zenon DEF AnsweredBy
  <2>4. CASE \E i \in DOMAIN thumbChannel[v] : thumbChannel[v][i].book = b
    BY <1>1, <2>4, Zenon DEF AnsweredBy
  <2> QED BY <1>9, <2>2, <2>3, <2>4, Zenon DEF AnsweredBy
<1> QED BY <1>1, <1>9, NothingLost, Zenon

\* An answer that is sent lies in the channel.
LEMMA WorkerSendsLoses ==
    ASSUME Thumbs!ConstantsAssumption, CoverInv, NEW w \in Thumbs!Workers,
           Thumbs!WorkerSends(w), NEW v \in ItemViews, NEW b
    PROVE  ~LostNow(v, b)
<1> DEFINE u == thumbWorker[w].for
           e == [book |-> thumbWorker[w].key, image |-> thumbWorker[w].image]
<1>1. /\ thumbWorker[w].pc = "send"
      /\ thumbChannel' = IF u = Thumbs!NoView
                         THEN thumbChannel
                         ELSE [thumbChannel EXCEPT ![u] = Append(@, e)]
      /\ thumbWorker' = [thumbWorker EXCEPT ![w].pc = "finish"]
      /\ UNCHANGED <<thumbView, thumbFast, thumbSlow, covers>>
  BY Zenon DEF Thumbs!WorkerSends, Thumbs!At, Thumbs!GoTo, Thumbs!queues
<1>2. \A x \in Thumbs!Workers : x # w => thumbWorker'[x] = thumbWorker[x]
  BY <1>1 DEF CoverInv
<1>3. /\ v \in Thumbs!Views /\ v # Thumbs!NoView
      /\ DOMAIN thumbChannel = Thumbs!Views
  BY ThumbConstants DEF CoverInv
<1>4. PICK S : thumbChannel[v] \in Seq(S)
  BY <1>3 DEF CoverInv
<1>5. e.book = thumbWorker[w].key
  OBVIOUS
<1> HIDE DEF e
<1>6. /\ \A i \in DOMAIN thumbChannel[v] : /\ i \in DOMAIN thumbChannel'[v]
                                           /\ thumbChannel'[v][i] = thumbChannel[v][i]
      /\ u = v => \E i \in DOMAIN thumbChannel'[v] : thumbChannel'[v][i] = e
  <2>1. CASE u # v
    <3>1. thumbChannel'[v] = thumbChannel[v]
      BY <1>1, <1>3, <2>1
    <3> QED BY <2>1, <3>1
  <2>2. CASE u = v
    <3> DEFINE c == thumbChannel[v]
               d == Append(c, e)
    <3>1. thumbChannel'[v] = d
      BY <1>1, <1>3, <2>2
    <3>2. c \in Seq(S)
      BY <1>4
    <3> HIDE DEF c
    <3>3. /\ DOMAIN c = 1..Len(c) /\ Len(c) \in Nat /\ DOMAIN d = 1..(Len(c) + 1)
          /\ \A i \in DOMAIN c : d[i] = c[i]
          /\ d[Len(c) + 1] = e
      BY <3>2
    <3> HIDE DEF d
    <3>4. /\ \A i \in DOMAIN c : i \in DOMAIN d /\ d[i] = c[i]
          /\ Len(c) + 1 \in DOMAIN d
      BY <3>3
    <3> QED BY <3>1, <3>3, <3>4 DEF c
  <2> QED BY <2>1, <2>2
<1> HIDE DEF u
<1>7. ASSUME AnsweredBy(thumbFast, thumbSlow, thumbWorker, thumbChannel[v], v, b)
      PROVE  AnsweredBy(thumbFast', thumbSlow', thumbWorker', thumbChannel'[v], v, b)
  <2>1. CASE b \in Comers(thumbFast, v) \/ b \in Comers(thumbSlow, v)
    BY <1>1, <2>1, Zenon DEF AnsweredBy
  <2>2. CASE \E x \in Thumbs!Workers : /\ thumbWorker[x].key = b /\ thumbWorker[x].for = v
                                       /\ thumbWorker[x].pc # "finish"
    <3>1. PICK x \in Thumbs!Workers : /\ thumbWorker[x].key = b /\ thumbWorker[x].for = v
                                      /\ thumbWorker[x].pc # "finish"
      BY <2>2
    <3>2. CASE x = w
      <4>1. \E i \in DOMAIN thumbChannel'[v] : thumbChannel'[v][i].book = b
        BY <1>5, <1>6, <3>1, <3>2 DEF u
      <4> QED BY <4>1, Zenon DEF AnsweredBy
    <3>3. CASE x # w
      BY <1>2, <3>1, <3>3, Zenon DEF AnsweredBy
    <3> QED BY <3>2, <3>3
  <2>3. CASE \E i \in DOMAIN thumbChannel[v] : thumbChannel[v][i].book = b
    <3>1. \E i \in DOMAIN thumbChannel'[v] : thumbChannel'[v][i].book = b
      BY <1>6, <2>3, Zenon
    <3> QED BY <3>1, Zenon DEF AnsweredBy
  <2> QED BY <1>7, <2>1, <2>2, <2>3, Zenon DEF AnsweredBy
<1> QED BY <1>1, <1>7, NothingLost, Zenon

\* A worker that finishes may take another request for its book with it.
LEMMA WorkerFinishesLoses ==
    ASSUME Thumbs!ConstantsAssumption, CoverInv, NEW w \in Thumbs!Workers,
           Thumbs!WorkerFinishes(w), NEW v \in ItemViews, NEW b, LostNow(v, b)
    PROVE  LostInQueue(v, b)
<1> DEFINE q == Thumbs!QueueOf(w)
           k == thumbWorker[w].key
           r == RemoveItem(q, k)
<1>1. /\ thumbWorker[w].pc = "finish" /\ Thumbs!SetQueue(w, r)
      /\ thumbWorker' = [thumbWorker EXCEPT ![w] = Thumbs!Idle]
      /\ UNCHANGED <<thumbView, thumbChannel>>
  BY SameQueues, Zenon DEF Thumbs!WorkerFinishes, Thumbs!At, Thumbs!Own
<1>2. /\ thumbWorker'[w].pc = "idle"
      /\ \A x \in Thumbs!Workers : x # w => thumbWorker'[x] = thumbWorker[x]
  BY <1>1 DEF CoverInv, Thumbs!Idle
<1>3. CASE k = b
  BY <1>1, <1>2, <1>3, Zenon DEF LostInQueue
<1>4. CASE k # b
  <2>1. b \in Comers(q, v) => b \in Comers(r, v)
    <3>1. \E C : Holds(q, ThumbBooks, C)
      <4>1. q = thumbFast \/ q = thumbSlow \/ q = covers
        BY DEF Thumbs!QueueOf
      <4> HIDE DEF q
      <4> QED BY <4>1, Zenon DEF CoverInv
    <3>2. DOMAIN q = {"order", "entries", "size"}
      BY <3>1 DEF Holds, IsQueue
    <3> HIDE DEF q, k
    <3> DEFINE entries == [x \in DOMAIN q.entries \ {k} |-> q.entries[x]]
    <3>3. r = [q EXCEPT !.order = RemoveFirst(q.order, k), !.entries = entries]
      BY DEF RemoveItem
    <3>4. DOMAIN entries = DOMAIN q.entries \ {k}
          /\ \A x \in DOMAIN entries : entries[x] = q.entries[x]
      OBVIOUS
    <3> HIDE DEF entries
    <3>5. r.entries = entries
      BY <3>2, <3>3
    <3> HIDE DEF r
    <3> QED BY <1>4, <3>4, <3>5 DEF Comers, Waiting
  <2>2. /\ thumbFast' = thumbFast \/ (thumbFast' = r /\ q = thumbFast)
        /\ thumbSlow' = thumbSlow \/ (thumbSlow' = r /\ q = thumbSlow)
    BY <1>1, OwnQueue
  <2> HIDE DEF q, r
  <2>3. AnsweredBy(thumbFast, thumbSlow, thumbWorker, thumbChannel[v], v, b)
            => AnsweredBy(thumbFast', thumbSlow', thumbWorker', thumbChannel'[v], v, b)
    <3>1. /\ b \in Comers(thumbFast, v) => b \in Comers(thumbFast', v)
          /\ b \in Comers(thumbSlow, v) => b \in Comers(thumbSlow', v)
      BY <2>1, <2>2, Zenon
    <3>2. ASSUME NEW x \in Thumbs!Workers, thumbWorker[x].pc # "finish"
          PROVE  thumbWorker'[x] = thumbWorker[x]
      BY <1>1, <1>2, <3>2
    <3> QED BY <1>1, <3>1, <3>2, Zenon DEF AnsweredBy
  <2> QED BY <1>1, <2>3, NothingLost, Zenon
<1> QED BY <1>3, <1>4

\* What an item view has after k results of w: each of them has its slot, the failures too.
SlotsShown(t, s, w, k) ==
    /\ DOMAIN t = {"bound", "queued", "pending", "thumbs", "active", "pumps"}
    /\ t.queued = s.queued /\ DOMAIN s.thumbs \subseteq DOMAIN t.thumbs
    /\ \A i \in 1..k : w[i].book \in DOMAIN t.thumbs

\* All results that wait.
LEMMA CollectShows ==
    ASSUME NEW v \in ItemViews, v \notin Panels, NEW p, NEW s,
           DOMAIN s = {"bound", "queued", "pending", "thumbs", "active", "pumps"},
           NEW C, NEW w \in Seq(C)
    PROVE  SlotsShown(Collected(v, p, s, w), s, w, Len(w))
<1>1. PICK it : Collects(it, v, p, s, w)
  BY CollectSteps
<1> DEFINE D == {k \in Nat : k <= Len(w) => SlotsShown(it[k], s, w, k)}
<1>2. 0 \in D
  <2>1. it[0] = s
    BY <1>1, Zenon DEF Collects
  <2>2. \A i \in 1..0 : w[i].book \in DOMAIN s.thumbs
    OBVIOUS
  <2>3. SlotsShown(s, s, w, 0)
    BY <2>2, Zenon DEF SlotsShown
  <2> QED BY <2>1, <2>3
<1>3. ASSUME NEW k \in Nat, k \in D PROVE k + 1 \in D
  <2> SUFFICES ASSUME k + 1 <= Len(w) PROVE SlotsShown(it[k + 1], s, w, k + 1)
    OBVIOUS
  <2>1. k < Len(w) /\ k <= Len(w)
    OBVIOUS
  <2> DEFINE t == it[k]
             d == w[k + 1]
             n == IF t.pending = 0 THEN 0 ELSE t.pending - 1
             g == [x \in DOMAIN t.thumbs \cup {d.book} |->
                      IF x = d.book THEN d.image ELSE t.thumbs[x]]
  <2>2. it[k + 1] = Thumbs!Collect(v, p, t, d) /\ SlotsShown(t, s, w, k)
    BY <1>1, <1>3, <2>1 DEF Collects
  <2>3. it[k + 1] = [t EXCEPT !.pending = n, !.thumbs = g]
    <3>1. Thumbs!SlotOf(v, d.book) = d.book
      BY DEF Thumbs!SlotOf
    <3>2. Thumbs!Collect(v, p, t, d) = [t EXCEPT !.pending = n, !.thumbs = g]
      BY <3>1, Zenon DEF Thumbs!Collect
    <3> QED BY <2>2, <3>2, Zenon
  <2>4. DOMAIN g = DOMAIN t.thumbs \cup {d.book}
    OBVIOUS
  <2> HIDE DEF t, g, n
  <2>5. /\ DOMAIN it[k + 1] = {"bound", "queued", "pending", "thumbs", "active", "pumps"}
        /\ it[k + 1].queued = t.queued /\ it[k + 1].thumbs = g
    BY <2>2, <2>3 DEF SlotsShown
  <2>6. \A i \in 1..(k + 1) : i \in 1..k \/ i = k + 1
    OBVIOUS
  <2> QED BY <2>2, <2>4, <2>5, <2>6 DEF SlotsShown
<1> HIDE DEF D
<1>4. Len(w) \in D /\ Len(w) \in Nat
  BY <1>2, <1>3, Induction
<1>5. SlotsShown(it[Len(w)], s, w, Len(w))
  BY <1>4 DEF D
<1> QED BY <1>1, <1>5, Zenon DEF Collects, Collected

\* A pump loses nothing: what it takes from the channel is shown.
LEMMA PumpLoses ==
    ASSUME Thumbs!ConstantsAssumption, CoverInv, NEW u \in Thumbs!Views, NEW p,
           Thumbs!PumpTicks(u, p), NEW v \in ItemViews, NEW b
    PROVE  ~LostNow(v, b)
<1> DEFINE w == thumbChannel[u]
           after == Collected(u, p, thumbView[u], w)
           more == after.pending > 0
           active == after.active /\ more
           pumps == IF w # <<>> \/ more THEN after.pumps ELSE after.pumps \ {p}
           x == [after EXCEPT !.active = active, !.pumps = pumps]
<1>1. /\ thumbView' = [thumbView EXCEPT ![u] = x]
      /\ thumbChannel' = [thumbChannel EXCEPT ![u] = <<>>]
      /\ UNCHANGED <<thumbFast, thumbSlow, covers, thumbWorker>>
  BY Zenon DEF Thumbs!PumpTicks, Thumbs!queues, Collected
<1>2. /\ v \in Thumbs!Views /\ v \notin Panels
      /\ DOMAIN thumbView = Thumbs!Views /\ DOMAIN thumbChannel = Thumbs!Views
      /\ ViewKept(thumbView[u]) /\ \E S : w \in Seq(S)
  BY ThumbConstants DEF CoverInv
<1>3. PICK S : w \in Seq(S)
  BY <1>2
<1>4. CASE u # v
  <2> HIDE DEF x
  <2>1. thumbView'[v] = thumbView[v] /\ thumbChannel'[v] = thumbChannel[v]
    BY <1>1, <1>2, <1>4
  <2> QED BY <1>1, <2>1, NothingLost, Zenon
<1>5. CASE u = v
  <2>1. SlotsShown(after, thumbView[u], w, Len(w))
    <3>1. DOMAIN thumbView[u] = {"bound", "queued", "pending", "thumbs", "active", "pumps"}
      BY <1>2 DEF ViewKept
    <3> HIDE DEF w
    <3> QED BY <1>2, <1>3, <1>5, <3>1, CollectShows
  <2> HIDE DEF after, active, pumps
  <2>2. x.queued = after.queued /\ x.thumbs = after.thumbs
    BY <2>1 DEF SlotsShown
  <2> HIDE DEF x
  <2>3. thumbView'[v] = x
    BY <1>1, <1>2, <1>5
  <2>4. Misses(thumbView'[v], b) =>
            Misses(thumbView[v], b) /\ ~(\E i \in DOMAIN thumbChannel[v] : thumbChannel[v][i].book = b)
    <3>1. DOMAIN w = 1..Len(w)
      BY <1>3
    <3> HIDE DEF w
    <3>2. Misses(x, b) => Misses(thumbView[u], b) /\ ~(\E i \in DOMAIN w : w[i].book = b)
      BY <2>1, <2>2, <3>1 DEF SlotsShown, Misses
    <3> QED BY <1>5, <2>3, <3>2, Zenon DEF w
  <2>5. SUFFICES ASSUME LostNow(v, b) PROVE FALSE
    OBVIOUS
  <2>6. /\ AnsweredBy(thumbFast, thumbSlow, thumbWorker, thumbChannel[v], v, b)
        /\ ~(\E i \in DOMAIN thumbChannel[v] : thumbChannel[v][i].book = b)
        /\ ~AnsweredBy(thumbFast', thumbSlow', thumbWorker', thumbChannel'[v], v, b)
    BY <2>4, <2>5, Zenon DEF LostNow
  <2> QED BY <1>1, <2>6, Zenon DEF AnsweredBy
<1> QED BY <1>4, <1>5

\* A draw loses what was there before, or what a queue at its size drops.
LEMMA DrawLoses ==
    ASSUME Thumbs!ConstantsAssumption, CoverInv, NEW u \in Thumbs!Views, Thumbs!Draw(u),
           NEW v \in ItemViews, NEW b, LostNow(v, b)
    PROVE  LostInQueue(v, b)
<1>1. IsFiniteSet(ThumbBooks) /\ v \in Thumbs!Views /\ v \notin Panels
  BY ThumbConstants
<1>2. PICK w \in Seq(ThumbBooks) :
          LET s == Drawn(u, Asking(u), w)
          IN  /\ thumbView' = [thumbView EXCEPT ![u] = Pumped(u, s.view)]
              /\ thumbFast' = s.fast /\ thumbSlow' = s.slow
  BY DrawGives, Zenon
<1> DEFINE s0 == Asking(u)
           s == Drawn(u, s0, w)
           x == Pumped(u, s.view)
<1>3. /\ thumbView' = [thumbView EXCEPT ![u] = x] /\ thumbFast' = s.fast /\ thumbSlow' = s.slow
      /\ UNCHANGED <<thumbChannel, covers, thumbWorker>>
  BY <1>2, DrawGives, Zenon
<1>4. s0.view = thumbView[u] /\ s0.fast = thumbFast /\ s0.slow = thumbSlow
  BY DEF Asking
<1>5. Counting(s, u, s0) /\ Drawing(s, u, s0)
  BY <1>1, DrawGives, DrawDrops, Zenon
<1> HIDE DEF s0, s
<1>6. x.queued = s.view.queued /\ x.thumbs = s.view.thumbs
  <2>1. DOMAIN s.view = {"bound", "queued", "pending", "thumbs", "active", "pumps"}
    BY <1>5 DEF Counting
  <2> QED BY <2>1 DEF Pumped
<1> HIDE DEF x
<1>7. IF u = v THEN thumbView'[v] = x ELSE thumbView'[v] = thumbView[v]
  BY <1>1, <1>3 DEF CoverInv
<1>8. /\ \A k, y : /\ HasOrDropped(thumbFast, k, y) => HasOrDropped(thumbFast', k, y)
                   /\ HasOrDropped(thumbSlow, k, y) => HasOrDropped(thumbSlow', k, y)
  BY <1>3, <1>4, <1>5, Zenon DEF Drawing
<1>9. /\ b \notin Comers(thumbFast', v) /\ b \notin Comers(thumbSlow', v)
      /\ Misses(thumbView'[v], b)
      /\ Misses(thumbView[v], b) => b \in Comers(thumbFast, v) \/ b \in Comers(thumbSlow, v)
  BY <1>3, Zenon DEF LostNow, AnsweredBy
<1>10. CASE Misses(thumbView[v], b)
  <2>1. CASE b \in Comers(thumbFast, v)
    <3>1. Dropped(thumbFast', b, v) /\ thumbFast' # thumbFast
      BY <1>8, <1>9, <2>1, Zenon DEF HasOrDropped
    <3> QED BY <3>1, Zenon DEF LostInQueue
  <2>2. CASE b \in Comers(thumbSlow, v)
    <3>1. Dropped(thumbSlow', b, v) /\ thumbSlow' # thumbSlow
      BY <1>8, <1>9, <2>2, Zenon DEF HasOrDropped
    <3> QED BY <3>1, Zenon DEF LostInQueue
  <2> QED BY <1>9, <1>10, <2>1, <2>2
<1>11. CASE ~Misses(thumbView[v], b)
  <2>1. u = v
    BY <1>7, <1>9, <1>11
  <2>2. thumbView'[v] = x /\ x.thumbs = thumbView[v].thumbs /\ x.queued = s.view.queued
    <3>1. s.view.thumbs = thumbView[v].thumbs
      BY <1>4, <1>5, <2>1, Zenon DEF Drawing
    <3> QED BY <1>6, <1>7, <2>1, <3>1
  <2>3. b \notin thumbView[v].queued /\ b \in s.view.queued
    BY <1>9, <1>11, <2>2 DEF Misses
  <2>4. CASE b \in Queued(thumbFast) \/ b \in Queued(thumbSlow)
    BY <2>3, <2>4, Zenon DEF LostInQueue
  <2>5. CASE b \notin Queued(thumbFast) /\ b \notin Queued(thumbSlow)
    <3>1. HasOrDropped(s.fast, b, v) \/ HasOrDropped(s.slow, b, v)
      <4>1. \/ v \in Panels \/ b \in thumbView[v].queued
            \/ b \in Queued(thumbFast) \/ b \in Queued(thumbSlow)
            \/ b \notin s.view.queued /\ b \notin Queued(s.fast) /\ b \notin Queued(s.slow)
            \/ HasOrDropped(s.fast, b, v) \/ HasOrDropped(s.slow, b, v)
        BY <1>4, <1>5, <2>1, Zenon DEF Drawing
      <4> QED BY <1>1, <2>3, <2>5, <4>1, Zenon
    <3>2. Dropped(thumbFast', b, v) \/ Dropped(thumbSlow', b, v)
      BY <1>3, <1>9, <3>1, Zenon DEF HasOrDropped
    <3> QED BY <2>3, <3>2, Zenon DEF LostInQueue
  <2> QED BY <2>4, <2>5
<1> QED BY <1>10, <1>11

\* Taking an item and giving it back leave a queue's size alone.
LEMMA SizeKept ==
    ASSUME NEW K, NEW C, NEW q, Holds(q, K, C), NEW k
    PROVE  Claim(q).size = q.size /\ RemoveItem(q, k).size = q.size
<1>1. DOMAIN q = {"order", "entries", "size"}
  BY DEF Holds, IsQueue
<1>2. Claim(q).size = q.size
  <2> DEFINE e == [q.entries EXCEPT ![NextItem(q)].running = TRUE]
  <2>1. \E f, g : Claim(q) = [q EXCEPT !.entries = f] \/ Claim(q) = [q EXCEPT !.entries = f, !.order = g]
    BY Zenon DEF Claim
  <2> QED BY <1>1, <2>1
<1>3. RemoveItem(q, k).size = q.size
  <2> DEFINE order == RemoveFirst(q.order, k)
             entries == [x \in DOMAIN q.entries \ {k} |-> q.entries[x]]
  <2>1. RemoveItem(q, k) = [q EXCEPT !.order = order, !.entries = entries]
    BY DEF RemoveItem
  <2> HIDE DEF order, entries
  <2> QED BY <1>1, <2>1
<1> QED BY <1>2, <1>3

\* No step changes the size of the fast or of the slow queue.
LEMMA SizesStay ==
    ASSUME Thumbs!ConstantsAssumption, CoverInv, [Thumbs!Next]_(Thumbs!vars)
    PROVE  thumbFast'.size = thumbFast.size /\ thumbSlow'.size = thumbSlow.size
<1> DEFINE Stay == thumbFast'.size = thumbFast.size /\ thumbSlow'.size = thumbSlow.size
<1>1. CASE Thumbs!User \/ UNCHANGED Thumbs!vars
  <2>1. UNCHANGED <<thumbFast, thumbSlow>>
    BY <1>1, Zenon DEF Thumbs!User, Thumbs!SetBooks, Thumbs!Bind, Thumbs!ToggleOnDemand,
                       Thumbs!WarmUp, Thumbs!AbortCovers, Thumbs!queues, Thumbs!vars
  <2> QED BY <2>1
<1>2. ASSUME NEW v \in Thumbs!Views, Thumbs!Draw(v) PROVE Stay
  <2>1. IsFiniteSet(ThumbBooks)
    BY ThumbConstants
  <2>2. PICK w \in Seq(ThumbBooks) :
            LET s == Drawn(v, Asking(v), w)
            IN  /\ thumbView' = [thumbView EXCEPT ![v] = Pumped(v, s.view)]
                /\ thumbFast' = s.fast /\ thumbSlow' = s.slow
    BY <1>2, DrawGives, Zenon
  <2>3. Drawing(Drawn(v, Asking(v), w), v, Asking(v))
    BY <1>2, <2>1, DrawGives, DrawDrops, Zenon
  <2>4. Asking(v).fast = thumbFast /\ Asking(v).slow = thumbSlow
    BY DEF Asking
  <2> QED BY <2>2, <2>3, <2>4, Zenon DEF Drawing
<1>3. ASSUME NEW v \in Thumbs!Views, NEW p, Thumbs!PumpTicks(v, p) PROVE Stay
  <2>1. UNCHANGED <<thumbFast, thumbSlow>>
    BY <1>3, Zenon DEF Thumbs!PumpTicks, Thumbs!queues
  <2> QED BY <2>1
<1>4. ASSUME NEW w \in Thumbs!Workers, NEW r, Thumbs!SetQueue(w, r),
             r.size = Thumbs!QueueOf(w).size
      PROVE  Stay
  BY <1>4, OwnQueue
<1>5. ASSUME NEW w \in Thumbs!Workers, Thumbs!WorkerStep(w) PROVE Stay
  <2>1. \E C : Holds(Thumbs!QueueOf(w), ThumbBooks, C)
    BY Zenon DEF CoverInv, Thumbs!QueueOf
  <2> DEFINE q == Thumbs!QueueOf(w)
  <2>6. \A k : Claim(q).size = q.size /\ RemoveItem(q, k).size = q.size
    <3> HIDE DEF q
    <3> QED BY <2>1, SizeKept, Zenon DEF q
  <2>2. CASE Thumbs!WorkerStarts(w)
    <3>1. Thumbs!SetQueue(w, Claim(Thumbs!QueueOf(w)))
      BY <2>2, SameQueues, Zenon DEF Thumbs!WorkerStarts
    <3> QED BY <1>4, <2>6, <3>1, Zenon
  <2>3. CASE Thumbs!WorkerFinishes(w)
    <3>1. Thumbs!SetQueue(w, RemoveItem(Thumbs!QueueOf(w), thumbWorker[w].key))
      BY <2>3, SameQueues, Zenon DEF Thumbs!WorkerFinishes
    <3> QED BY <1>4, <2>6, <3>1, Zenon
  <2>4. CASE Thumbs!WorkerSends(w)
    <3>1. UNCHANGED <<thumbFast, thumbSlow>>
      BY <2>4, Zenon DEF Thumbs!WorkerSends, Thumbs!queues
    <3> QED BY <3>1
  <2>5. CASE \/ Thumbs!WorkerLooks(w) \/ Thumbs!WorkerOpens(w) \/ Thumbs!WorkerReadsBody(w)
             \/ Thumbs!WorkerProduces(w) \/ Thumbs!WorkerFills(w) \/ Thumbs!WorkerRenames(w)
             \/ Thumbs!WorkerPrunes(w) \/ Thumbs!WorkerStores(w)
    <3>1. GoesOn(w)
      BY <1>5, <2>5, WorkerGoesOn
    <3> QED BY <3>1, Zenon DEF GoesOn
  <2> QED BY <1>5, <2>2, <2>3, <2>4, <2>5, Zenon DEF Thumbs!WorkerStep
<1> QED BY <1>1, <1>2, <1>3, <1>5, Zenon DEF Thumbs!Next

\* What any step loses, it loses in a queue.
LEMMA StepLoses ==
    ASSUME Thumbs!ConstantsAssumption, CoverInv, [Thumbs!Next]_(Thumbs!vars),
           NEW v \in ItemViews, NEW b, LostNow(v, b)
    PROVE  LostInQueue(v, b)
<1>1. CASE Thumbs!User
  <2>1. CASE \/ \E u \in ItemViews : Thumbs!SetBooks(u)
             \/ \E u \in Panels, k \in ThumbBooks \cup {Thumbs!NoBook} : Thumbs!Bind(u, k)
    BY <2>1, ViewsLose
  <2>2. CASE \/ Thumbs!ToggleOnDemand \/ Thumbs!AbortCovers
             \/ \E k \in ThumbBooks : Thumbs!WarmUp(k)
    BY <2>2, CommandsLose
  <2> QED BY <1>1, <2>1, <2>2, Zenon DEF Thumbs!User
<1>2. ASSUME NEW u \in Thumbs!Views,
             Thumbs!Draw(u) \/ \E p \in {"first", "later"} : Thumbs!PumpTicks(u, p)
      PROVE  LostInQueue(v, b)
  BY <1>2, DrawLoses, PumpLoses
<1>3. ASSUME NEW w \in Thumbs!Workers, Thumbs!WorkerStep(w) PROVE LostInQueue(v, b)
  <2>1. CASE Thumbs!WorkerStarts(w)
    BY <2>1, WorkerStartsLoses
  <2>2. CASE Thumbs!WorkerSends(w)
    BY <2>2, WorkerSendsLoses
  <2>3. CASE Thumbs!WorkerFinishes(w)
    BY <2>3, WorkerFinishesLoses
  <2>4. CASE \/ Thumbs!WorkerLooks(w) \/ Thumbs!WorkerOpens(w) \/ Thumbs!WorkerReadsBody(w)
             \/ Thumbs!WorkerProduces(w) \/ Thumbs!WorkerFills(w) \/ Thumbs!WorkerRenames(w)
             \/ Thumbs!WorkerPrunes(w) \/ Thumbs!WorkerStores(w)
    BY <2>4, WorkerGoesOn, GoingOnLoses
  <2> QED BY <1>3, <2>1, <2>2, <2>3, <2>4, Zenon DEF Thumbs!WorkerStep
<1>4. CASE UNCHANGED Thumbs!vars
  BY <1>4, CommandsLose
<1> QED BY <1>1, <1>2, <1>3, <1>4, Zenon DEF Thumbs!Next

\* The invariant of the losses: the counts, and the sizes the queues are made with.
LossInv ==
    /\ CoverInv
    /\ thumbFast.size = ThumbQueueSize /\ thumbSlow.size = ThumbQueueSize

\* It holds at first.
LEMMA LossInit ==
    ASSUME Thumbs!ConstantsAssumption, Thumbs!Init
    PROVE  LossInv
<1>1. \A n : Thumbs!NewQueue(n).size = n
  BY DEF Thumbs!NewQueue
<1>2. thumbFast = Thumbs!NewQueue(ThumbQueueSize) /\ thumbSlow = Thumbs!NewQueue(ThumbQueueSize)
  BY Zenon DEF Thumbs!Init
<1> QED BY <1>1, <1>2, CoverInit, Zenon DEF LossInv

\* And each step keeps it.
LEMMA LossStep ==
    ASSUME Thumbs!ConstantsAssumption, LossInv, [Thumbs!Next]_(Thumbs!vars)
    PROVE  LossInv'
<1>1. CoverInv' /\ thumbFast'.size = thumbFast.size /\ thumbSlow'.size = thumbSlow.size
  BY CoverStep, SizesStay DEF LossInv
<1> QED BY <1>1, Zenon DEF LossInv

\* The cover b of the item view v is waited for and nothing will answer.
LEMMA UnansweredMisses ==
    ASSUME NEW v \in ItemViews, NEW b \in ThumbBooks
    PROVE  <<v, b>> \in Thumbs!Unanswered <=>
               /\ Misses(thumbView[v], b)
               /\ ~AnsweredBy(thumbFast, thumbSlow, thumbWorker, thumbChannel[v], v, b)
<1>1. <<v, b>> \in Thumbs!Unanswered <=>
          b \in thumbView[v].queued \ DOMAIN thumbView[v].thumbs /\ ~Thumbs!Answered(v, b)
  BY DEF Thumbs!Unanswered
<1>2. Thumbs!Answered(v, b) <=>
          AnsweredBy(thumbFast, thumbSlow, thumbWorker, thumbChannel[v], v, b)
  <2>1. /\ b \in Thumbs!Waiting(thumbFast) /\ thumbFast.entries[b].callback = v
               <=> b \in Comers(thumbFast, v)
        /\ b \in Thumbs!Waiting(thumbSlow) /\ thumbSlow.entries[b].callback = v
               <=> b \in Comers(thumbSlow, v)
    BY SameQueues DEF Comers
  <2>2. (\E q \in {thumbFast, thumbSlow} : b \in Thumbs!Waiting(q) /\ q.entries[b].callback = v)
            <=> b \in Comers(thumbFast, v) \/ b \in Comers(thumbSlow, v)
    BY <2>1, Zenon
  <2> QED BY <2>2, Zenon DEF Thumbs!Answered, AnsweredBy, Thumbs!At
<1> QED BY <1>1, <1>2 DEF Misses

\* What the property says of one step.
LEMMA CoversStep ==
    ASSUME Thumbs!ConstantsAssumption, LossInv, [Thumbs!Next]_(Thumbs!vars),
           NEW vb \in Thumbs!Unanswered' \ Thumbs!Unanswered
    PROVE  LET v == vb[1]
               b == vb[2]
               asks == b \notin thumbView[v].queued
           IN  \/ asks /\ b \in Thumbs!Queued(thumbFast) \cup Thumbs!Queued(thumbSlow)
               \/ \E i \in {1, 2} : /\ asks \/ Thumbs!queues'[i] # Thumbs!queues[i]
                                    /\ Len(Thumbs!queues'[i].order) = ThumbQueueSize
                                    /\ b \in Thumbs!Queued(Thumbs!queues'[i])
                                          => Thumbs!queues'[i].entries[b].callback # v
               \/ \E w \in Thumbs!Workers : /\ Thumbs!At(w, "finish") /\ Thumbs!At(w, "idle")'
                                            /\ thumbWorker[w].key = b
<1>1. PICK v \in ItemViews, b \in ThumbBooks : vb = <<v, b>>
  BY DEF Thumbs!Unanswered
<1>2. LostNow(v, b)
  <2>1. <<v, b>> \in Thumbs!Unanswered <=>
            /\ Misses(thumbView[v], b)
            /\ ~AnsweredBy(thumbFast, thumbSlow, thumbWorker, thumbChannel[v], v, b)
    BY UnansweredMisses
  <2>2. (<<v, b>> \in Thumbs!Unanswered <=>
            /\ Misses(thumbView[v], b)
            /\ ~AnsweredBy(thumbFast, thumbSlow, thumbWorker, thumbChannel[v], v, b))'
    BY UnansweredMisses, PTL
  <2> QED BY <1>1, <2>1, <2>2, Zenon DEF LostNow
<1>3. LostInQueue(v, b)
  BY <1>2, StepLoses DEF LossInv
<1>4. LossInv'
  BY LossStep
<1>5. /\ Thumbs!queues[1] = thumbFast /\ Thumbs!queues[2] = thumbSlow
      /\ Thumbs!queues'[1] = thumbFast' /\ Thumbs!queues'[2] = thumbSlow'
  BY DEF Thumbs!queues
<1>6. \A q : Thumbs!Queued(q) = Queued(q)
  BY SameQueues
<1>7. vb[1] = v /\ vb[2] = b
  BY <1>1
<1> DEFINE asks == b \notin thumbView[v].queued
           Drops(i) == /\ asks \/ Thumbs!queues'[i] # Thumbs!queues[i]
                       /\ Len(Thumbs!queues'[i].order) = ThumbQueueSize
                       /\ b \in Thumbs!Queued(Thumbs!queues'[i])
                             => Thumbs!queues'[i].entries[b].callback # v
<1>8. \/ asks /\ b \in Queued(thumbFast) \cup Queued(thumbSlow)
      \/ Drops(1) \/ Drops(2)
      \/ \E w \in Thumbs!Workers : /\ thumbWorker[w].pc = "finish" /\ thumbWorker'[w].pc = "idle"
                                   /\ thumbWorker[w].key = b
  <2>1. CASE asks /\ (b \in Queued(thumbFast) \/ b \in Queued(thumbSlow))
    BY <2>1
  <2>2. CASE (asks \/ thumbFast' # thumbFast) /\ Dropped(thumbFast', b, v)
    <3>1. Drops(1)
      BY <1>4, <1>5, <1>6, <2>2, Zenon DEF Dropped, AtSize, LossInv
    <3> QED BY <3>1
  <2>3. CASE (asks \/ thumbSlow' # thumbSlow) /\ Dropped(thumbSlow', b, v)
    <3>1. Drops(2)
      BY <1>4, <1>5, <1>6, <2>3, Zenon DEF Dropped, AtSize, LossInv
    <3> QED BY <3>1
  <2> QED BY <1>3, <2>1, <2>2, <2>3, Zenon DEF LostInQueue
<1>9. Drops(1) \/ Drops(2) => \E i \in {1, 2} : Drops(i)
  OBVIOUS
<1> QED BY <1>6, <1>7, <1>8, <1>9, Zenon DEF Thumbs!At

\* CoverLostOnlyInQueue holds of every behaviour: a cover that an item view waits for
\* stops being answered only because its request met another one for the same book,
\* because a queue at its size dropped it, or because a worker that was done with the
\* book took the new request with the old one.
THEOREM CoversStay == Thumbs!ConstantsAssumption =>
                          (Thumbs!Spec => Thumbs!CoverLostOnlyInQueue)
<1> DEFINE J == Thumbs!ConstantsAssumption /\ LossInv
<1>1. Thumbs!ConstantsAssumption /\ Thumbs!Init => J
  BY LossInit
<1>2. J /\ [Thumbs!Next]_(Thumbs!vars) => J'
  <2>1. Thumbs!ConstantsAssumption' <=> Thumbs!ConstantsAssumption
    BY DEF Thumbs!ConstantsAssumption, Thumbs!IsFiniteSet, Thumbs!NoBook, Thumbs!NoView
  <2> QED BY <2>1, LossStep
<1>3. J /\ [Thumbs!Next]_(Thumbs!vars) => Thumbs!LosesInQueue
  BY CoversStep, Zenon DEF Thumbs!LosesInQueue
<1> HIDE DEF J
<1> QED BY <1>1, <1>2, <1>3, PTL DEF Thumbs!Spec, Thumbs!CoverLostOnlyInQueue
================================================================================

---------------------------- MODULE OrganizerProofs ----------------------------
(***************************************************************************)
(* Three theorems about Organizer, for any number of books, paths, runs,     *)
(* faults and changes by other programs.  A run or an Undo loses no book's *)
(* file: what is moved goes to where no book's file lies, and what is      *)
(* overwritten was trashed before.  And a landing, which applies to the    *)
(* library what a run did to a copy of it, leaves every book where its     *)
(* file is, as long as nothing was overwritten and nobody else was about.  *)
(* And an Undo that restored all its entries leaves every book where the   *)
(* run found it, also when it took several Undos or a crash lost what the  *)
(* library had of the run.                                                 *)
(*                                                                         *)
(* The model folds over sequences (the results of a job, the records of an *)
(* undo log, the moves that are chosen); FoldTheorems says which values a  *)
(* fold goes through.                                                      *)
(***************************************************************************)
EXTENDS Organizer, FoldTheorems

--------------------------------------------------------------------------------
(* The folds.                                                              *)

\* The folds of the model, as the values they go through.
Records(it, s) ==
    /\ it[0] = <<>>
    /\ \A k \in Nat : k < Len(s) => it[k + 1] = Record(it[k], s[k + 1].from, s[k + 1].to)
    /\ RecordAll(s) = it[Len(s)]

Libraries == [Books -> 0..(2 * LastName)]
Applies == [book : Books, path : 0..(2 * LastName)]

Applied(l, a) == IF l[a.book] = NoPath THEN l ELSE [l EXCEPT ![a.book] = a.path]

Landing(base, s) ==
    FoldLeft(LAMBDA l, a : IF l[a.book] = NoPath THEN l ELSE [l EXCEPT ![a.book] = a.path],
             base, s)

Lands(it, base, s) ==
    /\ it[0] = base
    /\ \A k \in Nat : k < Len(s) => it[k + 1] = Applied(it[k], s[k + 1])
    /\ Landing(base, s) = it[Len(s)]

\* A move that begins where an earlier one ended is merged with it.
Merged(log, m, to) == [log EXCEPT ![m] = [from |-> log[m].from, to |-> to]]

\* Such a record changes one entry.
LEMMA RecordMerges ==
    ASSUME NEW log \in Seq(Entries), NEW from \in Paths, NEW to \in Paths,
           ~\A i \in DOMAIN log : log[i].to # from
    PROVE  \E m \in DOMAIN log : log[m].to = from /\ Record(log, from, to) = Merged(log, m, to)
<1> DEFINE earlier == {i \in DOMAIN log : log[i].to = from}
<1>1. earlier \subseteq Nat /\ earlier # {}
  OBVIOUS
<1>2. PICK m \in earlier : \A k \in earlier : m <= k
  <2> HIDE DEF earlier
  <2> QED BY <1>1, LeastElement
<1>3. Min(earlier) \in earlier
  BY <1>2, Zenon DEF Min
<1>4. Record(log, from, to) = [log EXCEPT ![Min(earlier)] = [log[Min(earlier)] EXCEPT !.to = to]]
  BY <1>1, Zenon DEF Record
<1>5. log[Min(earlier)] \in Entries
  BY <1>3
<1>6. [log[Min(earlier)] EXCEPT !.to = to] = [from |-> log[Min(earlier)].from, to |-> to]
  <2> HIDE DEF earlier
  <2> QED BY <1>5 DEF Entries
<1>7. Record(log, from, to) = Merged(log, Min(earlier), to)
  <2> HIDE DEF earlier
  <2> QED BY <1>4, <1>6 DEF Merged
<1> QED BY <1>3, <1>7

\* A record keeps the log a sequence of entries.
LEMMA RecordType ==
    ASSUME NEW log \in Seq(Entries), NEW from \in Paths, NEW to \in Paths
    PROVE  Record(log, from, to) \in Seq(Entries)
<1>1. CASE \A i \in DOMAIN log : log[i].to # from
  <2>1. {i \in DOMAIN log : log[i].to = from} = {}
    BY <1>1
  <2>2. Record(log, from, to) = Append(log, [from |-> from, to |-> to])
    BY <2>1, Zenon DEF Record
  <2> QED BY <2>2 DEF Entries
<1>2. CASE ~\A i \in DOMAIN log : log[i].to # from
  <2>1. PICK m \in DOMAIN log : Record(log, from, to) = Merged(log, m, to)
    BY <1>2, RecordMerges
  <2>2. log[m] \in Entries
    OBVIOUS
  <2>3. [from |-> log[m].from, to |-> to] \in Entries
    BY <2>2 DEF Entries
  <2> QED BY <2>1, <2>3, ExceptSeq DEF Merged
<1> QED BY <1>1, <1>2

\* The values a record of entries goes through.
LEMMA RecordSteps ==
    ASSUME NEW s \in Seq(Entries)
    PROVE  \E it : Records(it, s)
<1> DEFINE V == Seq(Entries)
           C == Entries
           F == [p \in V \X C |-> Record(p[1], p[2].from, p[2].to)]
           n == Len(s)
           G(h) == h = [t \in SUBSET DOMAIN s |->
                     IF t = {} THEN <<>>
                     ELSE Record(h[t \ {Max(t)}], s[Max(t)].from, s[Max(t)].to)]
           g == CHOOSE h : G(h)
<1>1. n \in Nat /\ DOMAIN s = 1..n /\ (\A i \in 1..n : s[i] \in C) /\ <<>> \in V
  OBVIOUS
<1>2. F \in [V \X C -> V]
  BY RecordType DEF Entries
<1>3. RecordAll(s) = g[DOMAIN s]
  BY Zenon DEF RecordAll, FoldLeft, MapThenFoldSet
<1>4. G(g)
  <2>1. PICK h : FoldsBy(h, V, F, <<>>, s, n)
    BY <1>1, <1>2, FoldExists
  <2>2. ASSUME NEW t \in SUBSET (1..n), t # {}, Max(t) \in t
        PROVE h[t] = Record(h[t \ {Max(t)}], s[Max(t)].from, s[Max(t)].to)
    <3>1. h[t \ {Max(t)}] \in V /\ s[Max(t)] \in C
      BY <1>1, <2>1, <2>2 DEF FoldsBy
    <3> QED BY <2>1, <2>2, <3>1 DEF FoldsBy
  <2>3. ASSUME NEW t \in SUBSET (1..n), t # {} PROVE Max(t) \in t
    BY <1>1, <2>3, LargestElement
  <2>4. G(h)
    BY <1>1, <2>1, <2>2, <2>3 DEF FoldsBy
  <2> QED BY <2>4, Zenon
<1>5. ASSUME NEW t \in SUBSET (1..n), t # {}
      PROVE  g[t] = Record(g[t \ {Max(t)}], s[Max(t)].from, s[Max(t)].to)
  <2> HIDE DEF g
  <2> QED BY <1>1, <1>4, <1>5
<1>6. g[{}] = <<>>
  <2> HIDE DEF g
  <2> QED BY <1>1, <1>4
<1> HIDE DEF G, F, g, V
<1> HIDE DEF n
<1> DEFINE it == [k \in Nat |-> g[1..k]]
<1>7. ASSUME NEW k \in Nat, k < n
      PROVE  it[k + 1] = Record(it[k], s[k + 1].from, s[k + 1].to)
  <2>1. 1..(k + 1) \in SUBSET (1..n) /\ 1..(k + 1) # {}
    <3>1. n \in Nat
      BY <1>1
    <3>2. k + 1 \in 1..(k + 1) /\ \A i \in 1..(k + 1) : i \in 1..n
      BY <1>7, <3>1
    <3> QED BY <3>2
  <2>2. k + 1 \in 1..(k + 1) /\ 1..(k + 1) \in SUBSET (1..(k + 1))
    OBVIOUS
  <2>3. Max(1..(k + 1)) = k + 1 /\ (1..(k + 1)) \ {k + 1} = 1..k
    BY <2>2, LastOf
  <2>4. k + 1 \in Nat /\ it[k + 1] = g[1..(k + 1)] /\ it[k] = g[1..k]
    OBVIOUS
  <2> QED BY <1>5, <2>1, <2>3, <2>4
<1>8. it[0] = <<>> /\ RecordAll(s) = it[n]
  BY <1>1, <1>3, <1>6
<1> HIDE DEF it
<1> QED BY <1>7, <1>8 DEF Records, n

\* The values a landing goes through.
LEMMA LandingSteps ==
    ASSUME NEW base \in Libraries, NEW s \in Seq(Applies)
    PROVE  \E it : Lands(it, base, s)
<1> DEFINE V == Libraries
           C == Applies
           F == [p \in V \X C |-> Applied(p[1], p[2])]
           n == Len(s)
           G(h) == h = [t \in SUBSET DOMAIN s |->
                     IF t = {} THEN base
                     ELSE Applied(h[t \ {Max(t)}], s[Max(t)])]
           g == CHOOSE h : G(h)
<1>1. n \in Nat /\ DOMAIN s = 1..n /\ (\A i \in 1..n : s[i] \in C) /\ base \in V
  OBVIOUS
<1>2. F \in [V \X C -> V]
  BY DEF Applied, Libraries, Applies
<1>3. Landing(base, s) = g[DOMAIN s]
  BY Zenon DEF Landing, Applied, FoldLeft, MapThenFoldSet
<1>4. G(g)
  <2>1. PICK h : FoldsBy(h, V, F, base, s, n)
    BY <1>1, <1>2, FoldExists
  <2>2. ASSUME NEW t \in SUBSET (1..n), t # {}, Max(t) \in t
        PROVE h[t] = Applied(h[t \ {Max(t)}], s[Max(t)])
    <3>1. h[t \ {Max(t)}] \in V /\ s[Max(t)] \in C
      BY <1>1, <2>1, <2>2 DEF FoldsBy
    <3> QED BY <2>1, <2>2, <3>1 DEF FoldsBy
  <2>3. ASSUME NEW t \in SUBSET (1..n), t # {} PROVE Max(t) \in t
    BY <1>1, <2>3, LargestElement
  <2>4. G(h)
    BY <1>1, <2>1, <2>2, <2>3 DEF FoldsBy
  <2> QED BY <2>4, Zenon
<1>5. ASSUME NEW t \in SUBSET (1..n), t # {}
      PROVE  g[t] = Applied(g[t \ {Max(t)}], s[Max(t)])
  <2> HIDE DEF g
  <2> QED BY <1>1, <1>4, <1>5
<1>6. g[{}] = base
  <2> HIDE DEF g
  <2> QED BY <1>1, <1>4
<1> HIDE DEF G, F, g, V
<1> HIDE DEF n
<1> DEFINE it == [k \in Nat |-> g[1..k]]
<1>7. ASSUME NEW k \in Nat, k < n
      PROVE  it[k + 1] = Applied(it[k], s[k + 1])
  <2>1. 1..(k + 1) \in SUBSET (1..n) /\ 1..(k + 1) # {}
    <3>1. n \in Nat
      BY <1>1
    <3>2. k + 1 \in 1..(k + 1) /\ \A i \in 1..(k + 1) : i \in 1..n
      BY <1>7, <3>1
    <3> QED BY <3>2
  <2>2. k + 1 \in 1..(k + 1) /\ 1..(k + 1) \in SUBSET (1..(k + 1))
    OBVIOUS
  <2>3. Max(1..(k + 1)) = k + 1 /\ (1..(k + 1)) \ {k + 1} = 1..k
    BY <2>2, LastOf
  <2>4. k + 1 \in Nat /\ it[k + 1] = g[1..(k + 1)] /\ it[k] = g[1..k]
    OBVIOUS
  <2> QED BY <1>5, <2>1, <2>3, <2>4
<1>8. it[0] = base /\ Landing(base, s) = it[n]
  BY <1>1, <1>3, <1>6
<1> HIDE DEF it
<1> QED BY <1>7, <1>8 DEF Lands, n
--------------------------------------------------------------------------------
(* What the folds give.                                                    *)

\* No two moves of a sequence start from one path.
Apart(s) == \A i, j \in DOMAIN s : s[i].from = s[j].from => i = j

\* What is chosen from a sequence is in it and in the set, and is apart if it was.
LEMMA ChosenFacts ==
    ASSUME NEW C, NEW s \in Seq(C), NEW S
    PROVE  /\ Chosen(s, S) \in Seq(C)
           /\ Range(Chosen(s, S)) \subseteq Range(s) \cap S
           /\ Apart(s) => Apart(Chosen(s, S))
<1>1. PICK it : Filters(it, s, S)
  BY ChosenSteps
<1> DEFINE From(out, k) == \A i \in DOMAIN out : out[i] \in S /\ \E j \in 1..k : out[i] = s[j]
           D == {k \in Nat : k <= Len(s) =>
                    it[k] \in Seq(C) /\ From(it[k], k) /\ (Apart(s) => Apart(it[k]))}
<1>2. 0 \in D
  <2>1. it[0] = <<>>
    BY <1>1 DEF Filters
  <2>2. From(<<>>, 0) /\ Apart(<<>>) /\ <<>> \in Seq(C)
    BY DEF Apart
  <2> QED BY <2>1, <2>2
<1>3. ASSUME NEW k \in Nat, k \in D, k + 1 <= Len(s)
      PROVE  it[k + 1] \in Seq(C) /\ From(it[k + 1], k + 1) /\ (Apart(s) => Apart(it[k + 1]))
  <2>1. /\ k < Len(s) /\ k + 1 \in DOMAIN s /\ s[k + 1] \in C
        /\ it[k] \in Seq(C) /\ From(it[k], k) /\ (Apart(s) => Apart(it[k]))
        /\ it[k + 1] = IF s[k + 1] \in S THEN Append(it[k], s[k + 1]) ELSE it[k]
    BY <1>1, <1>3 DEF Filters
  <2>2. \A j \in 1..k : j \in 1..(k + 1) /\ j \in DOMAIN s /\ j # k + 1
    BY <2>1
  <2>3. CASE s[k + 1] \notin S
    BY <2>1, <2>2, <2>3
  <2>4. CASE s[k + 1] \in S
    <3> DEFINE out == it[k]
               more == Append(out, s[k + 1])
    <3>1. /\ more \in Seq(C) /\ Len(out) \in Nat /\ DOMAIN out = 1..Len(out)
          /\ DOMAIN more = 1..(Len(out) + 1) /\ more[Len(out) + 1] = s[k + 1]
          /\ \A i \in 1..Len(out) : more[i] = out[i]
      BY <2>1
    <3>2. it[k + 1] = more
      BY <2>1, <2>4
    <3> HIDE DEF more
    <3>3. \A i \in DOMAIN more : i \in DOMAIN out \/ i = Len(out) + 1
      BY <3>1
    <3>4. From(more, k + 1)
      BY <2>1, <2>2, <2>4, <3>1, <3>3
    <3>5. ASSUME Apart(s) PROVE Apart(more)
      <4>1. \A i \in DOMAIN out : out[i].from # s[k + 1].from
        BY <2>1, <2>2, <3>5 DEF Apart
      <4>2. Apart(out)
        BY <2>1, <3>5
      <4> HIDE DEF out
      <4> QED BY <3>1, <3>3, <4>1, <4>2 DEF Apart
    <3> QED BY <3>1, <3>2, <3>4, <3>5
  <2> QED BY <2>3, <2>4
<1>4. ASSUME NEW k \in Nat, k \in D PROVE k + 1 \in D
  BY <1>3, <1>4
<1>5. Len(s) \in Nat /\ Len(s) <= Len(s) /\ DOMAIN s = 1..Len(s)
  OBVIOUS
<1>6. Len(s) \in D
  <2> HIDE DEF D
  <2> QED BY <1>2, <1>4, <1>5, Induction
<1>7. Chosen(s, S) = it[Len(s)]
  BY <1>1 DEF Filters
<1>8. /\ Chosen(s, S) \in Seq(C) /\ From(Chosen(s, S), Len(s))
      /\ Apart(s) => Apart(Chosen(s, S))
  BY <1>5, <1>6, <1>7
<1> QED BY <1>5, <1>8 DEF Range

\* What a run logs when it moves each book once: no path twice, and none that a
\* book came to before another one left it.
Unwound(s) ==
    \A i, j \in DOMAIN s :
        /\ s[i].to = s[j].to => i = j
        /\ i <= j => s[j].from # s[i].to

\* No entry's path is another one's way back.
Free(s) ==
    \A i, j \in DOMAIN s : s[i].from # s[j].to /\ (s[i].to = s[j].to => i = j)

\* What is recorded is a sequence of entries.
LEMMA RecordAllType ==
    ASSUME NEW s \in Seq(Entries)
    PROVE  RecordAll(s) \in Seq(Entries)
<1>1. PICK it : Records(it, s)
  BY RecordSteps
<1> DEFINE D == {k \in Nat : k <= Len(s) => it[k] \in Seq(Entries)}
<1>2. 0 \in D
  <2>1. it[0] = <<>>
    BY <1>1 DEF Records
  <2>2. <<>> \in Seq(Entries)
    OBVIOUS
  <2> QED BY <2>1, <2>2
<1>3. ASSUME NEW k \in Nat, k \in D PROVE k + 1 \in D
  <2>1. CASE k + 1 <= Len(s)
    <3>1. s[k + 1].from \in Paths /\ s[k + 1].to \in Paths
      <4>1. s[k + 1] \in Entries
        BY <2>1
      <4> QED BY <4>1 DEF Entries
    <3>2. it[k] \in Seq(Entries) /\ it[k + 1] = Record(it[k], s[k + 1].from, s[k + 1].to)
      BY <1>1, <1>3, <2>1 DEF Records
    <3>3. it[k + 1] \in Seq(Entries)
      BY <3>1, <3>2, RecordType
    <3> QED BY <3>3
  <2>2. CASE ~(k + 1 <= Len(s))
    BY <2>2
  <2> QED BY <2>1, <2>2
<1>4. Len(s) \in D
  <2> HIDE DEF D
  <2> QED BY <1>2, <1>3, Induction
<1> QED BY <1>1, <1>4 DEF Records

\* Such a log is recorded as it is.
LEMMA UnwoundStays ==
    ASSUME NEW s \in Seq(Entries), Unwound(s)
    PROVE  RecordAll(s) = s
<1>1. PICK it : Records(it, s)
  BY RecordSteps
<1> DEFINE D == {k \in Nat : k <= Len(s) => it[k] = SubSeq(s, 1, k)}
<1>2. 0 \in D
  <2>1. it[0] = <<>>
    BY <1>1 DEF Records
  <2>2. SubSeq(s, 1, 0) = <<>>
    BY SubSeqEmpty
  <2> QED BY <2>1, <2>2
<1>3. ASSUME NEW k \in Nat, k \in D PROVE k + 1 \in D
  <2>1. CASE k + 1 <= Len(s)
    <3>1. it[k] = SubSeq(s, 1, k) /\ it[k + 1] = Record(it[k], s[k + 1].from, s[k + 1].to)
      BY <1>1, <1>3, <2>1 DEF Records
    <3>2. /\ DOMAIN it[k] = 1..k /\ DOMAIN s = 1..Len(s) /\ k + 1 \in DOMAIN s
          /\ \A i \in 1..k : it[k][i] = s[i] /\ i \in DOMAIN s /\ i <= k + 1
      BY <2>1, <3>1
    <3>3. {i \in DOMAIN it[k] : it[k][i].to = s[k + 1].from} = {}
      BY <3>2 DEF Unwound
    <3>4. it[k + 1] = Append(it[k], [from |-> s[k + 1].from, to |-> s[k + 1].to])
      BY <3>1, <3>3, Zenon DEF Record
    <3>5. [from |-> s[k + 1].from, to |-> s[k + 1].to] = s[k + 1]
      <4>1. s[k + 1] \in Entries
        BY <2>1
      <4> QED BY <4>1 DEF Entries
    <3>6. Append(SubSeq(s, 1, k), s[k + 1]) = SubSeq(s, 1, k + 1)
      BY <2>1
    <3> QED BY <3>1, <3>4, <3>5, <3>6
  <2>2. CASE ~(k + 1 <= Len(s))
    BY <2>2
  <2> QED BY <2>1, <2>2
<1>4. Len(s) \in D
  <2> HIDE DEF D
  <2> QED BY <1>2, <1>3, Induction
<1>5. it[Len(s)] = SubSeq(s, 1, Len(s))
  BY <1>4
<1> QED BY <1>1, <1>5, SubSeqFull DEF Records

\* The loaded order of such a log: a later entry does not lead to where an earlier one
\* came from, so what is recorded of it has no chains.
Backward(s) ==
    \A i, j \in DOMAIN s :
        /\ s[i].to = s[j].to => i = j
        /\ i <= j => s[i].from # s[j].to

\* What is recorded of such an order has no chains.
LEMMA BackwardIsFree ==
    ASSUME NEW s \in Seq(Entries), Backward(s)
    PROVE  Free(RecordAll(s))
<1>1. PICK it : Records(it, s)
  BY RecordSteps
<1> DEFINE Of(log, k) == \A i \in DOMAIN log : /\ \E a \in 1..k : log[i].from = s[a].from
                                               /\ \E c \in 1..k : log[i].to = s[c].to
           D == {k \in Nat : k <= Len(s) =>
                    it[k] \in Seq(Entries) /\ Of(it[k], k) /\ Free(it[k])}
<1>2. 0 \in D
  <2>1. it[0] = <<>>
    BY <1>1 DEF Records
  <2>2. <<>> \in Seq(Entries) /\ Of(<<>>, 0) /\ Free(<<>>)
    BY DEF Free
  <2> QED BY <2>1, <2>2
<1>3. ASSUME NEW k \in Nat, k \in D, k + 1 <= Len(s)
      PROVE  it[k + 1] \in Seq(Entries) /\ Of(it[k + 1], k + 1) /\ Free(it[k + 1])
  <2> DEFINE log == it[k]
             more == it[k + 1]
             from == s[k + 1].from
             to == s[k + 1].to
  <2>1. k + 1 \in DOMAIN s /\ s[k + 1] \in Entries /\ from \in Paths /\ to \in Paths
    <3>1. k + 1 \in DOMAIN s /\ s[k + 1] \in Entries
      BY <1>3
    <3> QED BY <3>1 DEF Entries
  <2>2. log \in Seq(Entries) /\ Of(log, k) /\ Free(log)
    BY <1>3
  <2>3. more = Record(log, from, to)
    BY <1>1, <1>3 DEF Records
  <2>4. \A j \in 1..k : j \in 1..(k + 1) /\ j \in DOMAIN s /\ j # k + 1 /\ j <= k + 1
    BY <1>3
  <2>5. \A i \in DOMAIN log : log[i].from # to /\ log[i].to # to
    BY <2>1, <2>2, <2>4 DEF Backward
  <2>6. from # to
    BY <2>1, <1>3 DEF Backward
  <2>7. k + 1 \in 1..(k + 1)
    OBVIOUS
  <2>8. CASE \A i \in DOMAIN log : log[i].to # from
    <3> DEFINE e == [from |-> from, to |-> to]
    <3>1. more = Append(log, e) /\ e \in Entries /\ e.from = from /\ e.to = to
      <4>1. {i \in DOMAIN log : log[i].to = from} = {}
        BY <2>8
      <4>2. more = Append(log, e)
        BY <2>3, <4>1, Zenon DEF Record
      <4> QED BY <2>1, <4>2 DEF Entries
    <3> HIDE DEF e, from, to
    <3>2. /\ more \in Seq(Entries) /\ DOMAIN log = 1..Len(log)
          /\ DOMAIN more = 1..(Len(log) + 1) /\ more[Len(log) + 1] = e
          /\ \A i \in 1..Len(log) : more[i] = log[i]
          /\ Len(log) \in Nat
      BY <2>2, <3>1
    <3> HIDE DEF log, more
    <3>3. \A i \in DOMAIN more : i \in DOMAIN log \/ i = Len(log) + 1
      BY <3>2
    <3>4. Of(more, k + 1)
      BY <2>2, <2>4, <2>7, <3>1, <3>2, <3>3 DEF from, to
    <3>5. Free(more)
      BY <2>2, <2>5, <2>6, <2>8, <3>1, <3>2, <3>3 DEF Free
    <3> QED BY <3>2, <3>4, <3>5 DEF more
  <2>9. CASE ~\A i \in DOMAIN log : log[i].to # from
    <3>1. PICK m \in DOMAIN log : log[m].to = from /\ more = Merged(log, m, to)
      <4> HIDE DEF log, more, from, to
      <4> QED BY <2>1, <2>2, <2>3, <2>9, RecordMerges
    <3>2. log[m] \in Entries
      BY <2>2
    <3>3. more \in Seq(Entries)
      <4>1. [from |-> log[m].from, to |-> to] \in Entries
        BY <2>1, <3>2 DEF Entries
      <4> QED BY <2>2, <3>1, <4>1, ExceptSeq DEF Merged
    <3>4. /\ DOMAIN more = DOMAIN log
          /\ more[m].from = log[m].from /\ more[m].to = to
          /\ \A i \in DOMAIN log : i # m => more[i] = log[i]
      BY <3>1, <3>2 DEF Merged
    <3> HIDE DEF log, more
    <3>5. Of(more, k + 1)
      BY <2>2, <2>4, <2>7, <3>4
    <3>6. ASSUME NEW i \in DOMAIN more, NEW j \in DOMAIN more
          PROVE  more[i].from # more[j].to /\ (more[i].to = more[j].to => i = j)
      <4> HIDE DEF from, to
      <4>1. more[i].from = log[i].from /\ i \in DOMAIN log /\ j \in DOMAIN log
        BY <3>4
      <4>2. CASE j = m
        BY <2>5, <3>4, <4>1, <4>2
      <4>3. CASE j # m
        BY <2>2, <2>5, <3>4, <4>1, <4>3 DEF Free
      <4> QED BY <4>2, <4>3
    <3> QED BY <3>3, <3>5, <3>6 DEF more, Free
  <2> QED BY <2>8, <2>9
<1>4. ASSUME NEW k \in Nat, k \in D PROVE k + 1 \in D
  BY <1>3, <1>4
<1>5. Len(s) \in D
  <2> HIDE DEF D
  <2> QED BY <1>2, <1>4, Induction
<1>6. Free(it[Len(s)])
  BY <1>5
<1> QED BY <1>1, <1>6 DEF Records

\* The entries an Undo may run are entries.
LEMMA RunnableType ==
    ASSUME NEW s \in Seq(Entries)
    PROVE  Runnable(s) \in Seq(Entries)
<1>1. RecordAll(s) \in Seq(Entries)
  BY RecordAllType
<1>2. Reverse(RecordAll(s)) \in Seq(Entries)
  BY <1>1 DEF Reverse
<1> QED BY <1>2, RecordAllType DEF Runnable, Load

\* An Undo of what a run logged has no chains.
LEMMA RunnableIsFree ==
    ASSUME NEW s \in Seq(Entries), Unwound(s)
    PROVE  Free(Runnable(s))
<1> DEFINE r == Reverse(s)
<1>1. /\ r \in Seq(Entries) /\ DOMAIN r = 1..Len(s) /\ DOMAIN s = 1..Len(s) /\ Len(s) \in Nat
      /\ \A i \in 1..Len(s) : r[i] = s[(Len(s) - i) + 1]
  BY DEF Reverse
<1> HIDE DEF r
<1>2. Backward(r)
  <2> SUFFICES ASSUME NEW i \in DOMAIN r, NEW j \in DOMAIN r
               PROVE  (r[i].to = r[j].to => i = j) /\ (i <= j => r[i].from # r[j].to)
    BY DEF Backward
  <2> DEFINE a == (Len(s) - i) + 1
             c == (Len(s) - j) + 1
  <2>1. a \in DOMAIN s /\ c \in DOMAIN s /\ (a = c => i = j) /\ (i <= j => c <= a)
    BY <1>1
  <2>2. r[i] = s[a] /\ r[j] = s[c]
    BY <1>1
  <2> HIDE DEF a, c
  <2> QED BY <2>1, <2>2 DEF Unwound
<1>3. Runnable(s) = RecordAll(r)
  BY UnwoundStays DEF Runnable, Load, r
<1> QED BY <1>1, <1>2, <1>3, BackwardIsFree

\* A landing gives a library.
LEMMA LandingType ==
    ASSUME NEW base \in Libraries, NEW s \in Seq(Applies)
    PROVE  Landing(base, s) \in Libraries
<1>1. PICK it : Lands(it, base, s)
  BY LandingSteps
<1> DEFINE D == {k \in Nat : k <= Len(s) => it[k] \in Libraries}
<1>2. 0 \in D
  BY <1>1 DEF Lands
<1>3. ASSUME NEW k \in Nat, k \in D PROVE k + 1 \in D
  <2>1. CASE k + 1 <= Len(s)
    <3>1. s[k + 1] \in Applies
      BY <2>1
    <3>2. it[k] \in Libraries /\ it[k + 1] = Applied(it[k], s[k + 1])
      BY <1>1, <1>3, <2>1 DEF Lands
    <3>3. it[k + 1] \in Libraries
      BY <3>1, <3>2 DEF Applied, Libraries, Applies
    <3> QED BY <3>3
  <2>2. CASE ~(k + 1 <= Len(s))
    BY <2>2
  <2> QED BY <2>1, <2>2
<1>4. Len(s) \in D
  <2> HIDE DEF D
  <2> QED BY <1>2, <1>3, Induction
<1> QED BY <1>1, <1>4 DEF Lands

\* A job without results changes nothing.
LEMMA LandingEmpty ==
    ASSUME NEW base \in Libraries
    PROVE  Landing(base, <<>>) = base
<1>1. <<>> \in Seq(Applies) /\ Len(<<>>) = 0
  OBVIOUS
<1>2. PICK it : Lands(it, base, <<>>)
  BY <1>1, LandingSteps
<1> QED BY <1>1, <1>2 DEF Lands

\* One more result is applied to what the others gave.
LEMMA LandingAppend ==
    ASSUME NEW base \in Libraries, NEW s \in Seq(Applies), NEW a \in Applies
    PROVE  Landing(base, Append(s, a)) = Applied(Landing(base, s), a)
<1> DEFINE t == Append(s, a)
           n == Len(s)
<1>1. /\ t \in Seq(Applies) /\ Len(t) = n + 1 /\ t[n + 1] = a /\ n \in Nat
      /\ \A i \in 1..n : t[i] = s[i]
  OBVIOUS
<1>2. PICK f : Lands(f, base, s)
  BY LandingSteps
<1> HIDE DEF t
<1>3. PICK g : Lands(g, base, t)
  BY <1>1, LandingSteps
<1> DEFINE D == {k \in Nat : k <= n => f[k] = g[k]}
<1>4. 0 \in D
  BY <1>2, <1>3 DEF Lands
<1>5. ASSUME NEW k \in Nat, k \in D PROVE k + 1 \in D
  <2>1. CASE k + 1 <= n
    <3>1. k < n /\ k < Len(t) /\ t[k + 1] = s[k + 1] /\ f[k] = g[k]
      BY <1>1, <1>5, <2>1
    <3>2. f[k + 1] = Applied(f[k], s[k + 1]) /\ g[k + 1] = Applied(g[k], t[k + 1])
      BY <1>2, <1>3, <3>1 DEF Lands
    <3> QED BY <3>1, <3>2
  <2>2. CASE ~(k + 1 <= n)
    BY <2>2
  <2> QED BY <2>1, <2>2
<1>6. n \in D
  <2> HIDE DEF D
  <2> QED BY <1>1, <1>4, <1>5, Induction
<1>7. f[n] = g[n] /\ n < Len(t)
  BY <1>1, <1>6
<1>8. g[n + 1] = Applied(g[n], t[n + 1])
  BY <1>1, <1>3, <1>7 DEF Lands
<1> QED BY <1>1, <1>2, <1>3, <1>7, <1>8 DEF Lands, t
--------------------------------------------------------------------------------
(* Sequences of moves.                                                     *)

\* The next of some moves, and the others.
LEMMA HeadAndTail ==
    ASSUME NEW C, NEW s \in Seq(C), s # <<>>
    PROVE  /\ Head(s) \in C /\ Tail(s) \in Seq(C)
           /\ Head(s) \in Range(s) /\ Range(Tail(s)) \subseteq Range(s)
           /\ Apart(s) => /\ Apart(Tail(s))
                          /\ \A x \in Range(Tail(s)) : x.from # Head(s).from
<1>1. /\ Len(s) \in Nat /\ DOMAIN s = 1..Len(s) /\ 1 \in DOMAIN s /\ Head(s) = s[1]
      /\ Tail(s) \in Seq(C) /\ Head(s) \in C
      /\ DOMAIN Tail(s) = 1..(Len(s) - 1)
      /\ \A i \in 1..(Len(s) - 1) : Tail(s)[i] = s[i + 1] /\ i + 1 \in DOMAIN s /\ i + 1 # 1
  OBVIOUS
<1> DEFINE t == Tail(s)
           h == Head(s)
<1> HIDE DEF t, h
<1>2. /\ h \in Range(s) /\ Range(t) \subseteq Range(s)
  BY <1>1 DEF Range, t, h
<1>3. ASSUME Apart(s) PROVE Apart(t) /\ \A x \in Range(t) : x.from # h.from
  <2>1. ASSUME NEW i \in DOMAIN t, NEW j \in DOMAIN t, t[i].from = t[j].from PROVE i = j
    <3>1. s[i + 1].from = s[j + 1].from /\ i + 1 \in DOMAIN s /\ j + 1 \in DOMAIN s
      BY <1>1, <2>1 DEF t
    <3>2. i + 1 = j + 1 /\ i \in Int /\ j \in Int
      BY <1>1, <1>3, <3>1 DEF Apart, t
    <3> QED BY <3>2
  <2>2. ASSUME NEW i \in DOMAIN t PROVE t[i].from # h.from
    BY <1>1, <1>3 DEF Apart, t, h
  <2> QED BY <2>1, <2>2 DEF Apart, Range
<1> QED BY <1>1, <1>2, <1>3 DEF t, h

\* One more move.
LEMMA Appended ==
    ASSUME NEW C, NEW s \in Seq(C), NEW e \in C
    PROVE  /\ Append(s, e) \in Seq(C) /\ Range(Append(s, e)) = Range(s) \cup {e}
           /\ Apart(s) /\ (\A x \in Range(s) : x.from # e.from) => Apart(Append(s, e))
<1> DEFINE t == Append(s, e)
<1>1. /\ t \in Seq(C) /\ DOMAIN s = 1..Len(s) /\ Len(s) \in Nat
      /\ DOMAIN t = 1..(Len(s) + 1) /\ t[Len(s) + 1] = e
      /\ \A i \in DOMAIN s : t[i] = s[i]
  OBVIOUS
<1> HIDE DEF t
<1>2. \A i \in DOMAIN t : i \in DOMAIN s \/ i = Len(s) + 1
  BY <1>1
<1>3. \A i \in DOMAIN s : i \in DOMAIN t
  BY <1>1
<1>4. Len(s) + 1 \in DOMAIN t
  BY <1>1
<1>5. Range(t) = Range(s) \cup {e}
  BY <1>1, <1>2, <1>3, <1>4 DEF Range
<1>6. ASSUME Apart(s), \A x \in Range(s) : x.from # e.from PROVE Apart(t)
  BY <1>1, <1>2, <1>6 DEF Apart, Range
<1> QED BY <1>1, <1>5, <1>6 DEF t

\* Moves that come before others.
LEMMA Joined ==
    ASSUME NEW C, NEW s \in Seq(C), NEW u \in Seq(C)
    PROVE  /\ s \o u \in Seq(C) /\ Range(s \o u) = Range(s) \cup Range(u)
           /\ /\ Apart(s) /\ Apart(u)
              /\ \A x \in Range(s), y \in Range(u) : x.from # y.from
              => Apart(s \o u)
<1> DEFINE t == s \o u
<1>1. /\ t \in Seq(C) /\ DOMAIN s = 1..Len(s) /\ Len(s) \in Nat
      /\ DOMAIN u = 1..Len(u) /\ Len(u) \in Nat
      /\ DOMAIN t = 1..(Len(s) + Len(u))
      /\ \A i \in DOMAIN s : t[i] = s[i] /\ i \in DOMAIN t
      /\ \A i \in DOMAIN u : t[Len(s) + i] = u[i] /\ Len(s) + i \in DOMAIN t
  OBVIOUS
<1> HIDE DEF t
<1>2. ASSUME NEW i \in DOMAIN t
      PROVE  i \in DOMAIN s \/ \E j \in DOMAIN u : i = Len(s) + j
  <2>1. i \in DOMAIN s \/ (i - Len(s) \in DOMAIN u /\ i = Len(s) + (i - Len(s)))
    BY <1>1
  <2> QED BY <2>1
<1>3. Range(t) = Range(s) \cup Range(u)
  BY <1>1, <1>2 DEF Range
<1>4. ASSUME Apart(s), Apart(u), \A x \in Range(s), y \in Range(u) : x.from # y.from
      PROVE  Apart(t)
  <2> SUFFICES ASSUME NEW i \in DOMAIN t, NEW j \in DOMAIN t, t[i].from = t[j].from
               PROVE  i = j
    BY DEF Apart
  <2>1. \A x \in DOMAIN s, y \in DOMAIN u : s[x].from # u[y].from
    BY <1>4 DEF Range
  <2>2. CASE i \in DOMAIN s /\ j \in DOMAIN s
    BY <1>1, <1>4, <2>2 DEF Apart
  <2>3. CASE i \in DOMAIN s /\ j \notin DOMAIN s
    BY <1>1, <1>2, <2>1, <2>3
  <2>4. CASE i \notin DOMAIN s /\ j \in DOMAIN s
    BY <1>1, <1>2, <2>1, <2>4
  <2>5. CASE i \notin DOMAIN s /\ j \notin DOMAIN s
    <3>1. PICK x \in DOMAIN u : i = Len(s) + x
      BY <1>2, <2>5
    <3>2. PICK y \in DOMAIN u : j = Len(s) + y
      BY <1>2, <2>5
    <3>3. u[x].from = u[y].from
      BY <1>1, <3>1, <3>2
    <3> QED BY <1>4, <3>1, <3>2, <3>3 DEF Apart
  <2> QED BY <2>2, <2>3, <2>4, <2>5
<1> QED BY <1>1, <1>3, <1>4 DEF t

\* A move put before the others.
LEMMA Prepended ==
    ASSUME NEW C, NEW s \in Seq(C), NEW e \in C
    PROVE  /\ <<e>> \o s \in Seq(C) /\ Range(<<e>> \o s) = Range(s) \cup {e}
           /\ Apart(s) /\ (\A x \in Range(s) : x.from # e.from) => Apart(<<e>> \o s)
<1> DEFINE one == <<e>>
<1>1. one \in Seq(C) /\ Range(one) = {e} /\ Apart(one)
  BY DEF Range, Apart
<1> HIDE DEF one
<1>2. /\ one \o s \in Seq(C) /\ Range(one \o s) = Range(one) \cup Range(s)
      /\ /\ Apart(one) /\ Apart(s)
         /\ \A x \in Range(one), y \in Range(s) : x.from # y.from
         => Apart(one \o s)
  BY <1>1, Joined
<1> QED BY <1>1, <1>2 DEF one

\* No moves.
LEMMA EmptyRange == Range(<<>>) = {} /\ Apart(<<>>) /\ \A S : <<>> \in Seq(S)
  BY DEF Range, Apart

\* The owner of a path has it as its own; without an owner no book has.
LEMMA Owners ==
    ASSUME NEW books, NEW p
    PROVE  /\ OwnerIn(books, p) \in 0..LastBook
           /\ OwnerIn(books, p) # NoBook => /\ OwnerIn(books, p) \in Books
                                            /\ books[OwnerIn(books, p)] = p
           /\ OwnerIn(books, p) = NoBook => \A b \in Books : books[b] # p
<1> DEFINE owners == {b \in Books : books[b] = p}
<1>1. OwnerIn(books, p) = IF owners = {} THEN NoBook ELSE Min(owners)
  BY Zenon DEF OwnerIn
<1>2. owners \subseteq Nat /\ LastBook \in Nat /\ NoBook = 0 /\ Books = 1..LastBook
  BY ConstantsAssumption DEF Books, NoBook
<1>3. CASE owners = {}
  <2>1. OwnerIn(books, p) = NoBook /\ \A b \in Books : books[b] # p
    BY <1>1, <1>3
  <2> QED BY <1>2, <2>1
<1>4. CASE owners # {}
  <2>1. Min(owners) \in owners
    <3> HIDE DEF owners
    <3> QED BY <1>2, <1>4, MinIsOneOfThem
  <2>2. OwnerIn(books, p) = Min(owners)
    BY <1>1, <1>4
  <2> HIDE DEF owners
  <2>3. OwnerIn(books, p) \in Books /\ books[OwnerIn(books, p)] = p
    BY <2>1, <2>2 DEF owners
  <2> QED BY <1>2, <2>3
<1> QED BY <1>3, <1>4

\* The entry that is found for a path ends there, and is the only one if no two do.
LEMMA EntryFacts ==
    ASSUME NEW todo \in Seq(Entries), NEW i \in DOMAIN todo
    PROVE  /\ EntryOf(todo, todo[i].to) \in DOMAIN todo
           /\ todo[EntryOf(todo, todo[i].to)].to = todo[i].to
           /\ Free(todo) => EntryOf(todo, todo[i].to) = i
<1> DEFINE same == {j \in DOMAIN todo : todo[j].to = todo[i].to}
<1>1. same \subseteq Nat /\ same # {}
  OBVIOUS
<1>2. Min(same) \in same
  <2> HIDE DEF same
  <2> QED BY <1>1, MinIsOneOfThem
<1>3. EntryOf(todo, todo[i].to) \in same
  <2> QED BY <1>2, Zenon DEF EntryOf
<1> QED BY <1>3 DEF Free

\* What an Undo does about one entry.
LEMMA RestoreOne ==
    ASSUME NEW todo \in Seq(Entries), NEW i \in DOMAIN todo
    PROVE  /\ RestoreOf(todo, i) \in Moves
           /\ RestoreOf(todo, i).from = todo[i].to
           /\ RestoreOf(todo, i).book = OwnerIn(library, todo[i].to)
           /\ Free(todo) => RestoreOf(todo, i).to = todo[i].from
<1>1. /\ EntryOf(todo, todo[i].to) \in DOMAIN todo
      /\ Free(todo) => EntryOf(todo, todo[i].to) = i
  BY EntryFacts
<1>2. todo[i] \in Entries /\ todo[EntryOf(todo, todo[i].to)] \in Entries
  BY <1>1
<1>3. OwnerIn(library, todo[i].to) \in 0..LastBook
  BY Owners
<1> QED BY <1>1, <1>2, <1>3 DEF RestoreOf, Moves, Entries

\* What an Undo does about all of them.
LEMMA RestoreFacts ==
    ASSUME NEW todo \in Seq(Entries)
    PROVE  /\ Restores(todo) \in Seq(Moves)
           /\ \A m \in Range(Restores(todo)) : \E i \in DOMAIN todo : m = RestoreOf(todo, i)
           /\ Free(todo) => Apart(Restores(todo))
<1> DEFINE moves == [i \in DOMAIN todo |-> RestoreOf(todo, i)]
           ours == {m \in Moves : m.book # NoBook}
           theirs == Moves \ ours
<1>1. /\ moves \in Seq(Moves) /\ DOMAIN moves = DOMAIN todo
      /\ \A i \in DOMAIN todo : moves[i] = RestoreOf(todo, i)
  BY RestoreOne
<1>2. Restores(todo) = Chosen(moves, ours) \o Chosen(moves, theirs)
  BY DEF Restores
<1>3. ours \cap theirs = {}
  OBVIOUS
<1> HIDE DEF moves, ours, theirs
<1> DEFINE first == Chosen(moves, ours)
           second == Chosen(moves, theirs)
<1>4. /\ first \in Seq(Moves) /\ Range(first) \subseteq Range(moves) \cap ours
      /\ second \in Seq(Moves) /\ Range(second) \subseteq Range(moves) \cap theirs
      /\ Apart(moves) => Apart(first) /\ Apart(second)
  BY <1>1, ChosenFacts
<1>5. Restores(todo) = first \o second
  BY <1>2
<1> HIDE DEF first, second
<1>6. /\ first \o second \in Seq(Moves)
      /\ Range(first \o second) = Range(first) \cup Range(second)
      /\ /\ Apart(first) /\ Apart(second)
         /\ \A x \in Range(first), y \in Range(second) : x.from # y.from
         => Apart(first \o second)
  BY <1>4, Joined
<1>7. \A m \in Range(moves) : \E i \in DOMAIN todo : m = RestoreOf(todo, i)
  BY <1>1 DEF Range
<1>8. ASSUME Free(todo) PROVE Apart(first \o second)
  <2>1. Apart(moves)
    BY <1>1, <1>8, RestoreOne DEF Apart, Free
  <2>2. ASSUME NEW x \in Range(first), NEW y \in Range(second), x.from = y.from PROVE FALSE
    <3>1. PICK i \in DOMAIN moves : x = moves[i]
      BY <1>4 DEF Range
    <3>2. PICK j \in DOMAIN moves : y = moves[j]
      BY <1>4 DEF Range
    <3>3. x = y
      BY <2>1, <2>2, <3>1, <3>2 DEF Apart
    <3> QED BY <1>3, <1>4, <3>3
  <2> QED BY <1>4, <1>6, <2>1, <2>2
<1> QED BY <1>4, <1>5, <1>6, <1>7, <1>8

--------------------------------------------------------------------------------
(* What a job holds.                                                       *)

JobFields == {"pc", "undoing", "books", "left", "plan", "held", "at", "sticky", "answer",
              "applies", "log"}

\* The moves that may still be made.
Pending == Range(job.left) \cup Range(job.plan) \cup Range(job.held)
           \cup (IF job.pc \in {"move", "ask"} THEN {job.at} ELSE {})

Typed ==
    /\ files \in [Paths -> Contents]
    /\ library \in Libraries /\ saved \in Libraries
    /\ undo \in Seq(Entries)
    /\ DOMAIN job = JobFields
    /\ job.undoing \in BOOLEAN
    /\ job.left \in Seq(Moves) /\ job.plan \in Seq(Moves) /\ job.held \in Seq(Moves)
    /\ job.at \in Moves
    /\ job.applies \in Seq(Applies)
    /\ ~job.undoing => job.log \in Seq(Entries) /\ \A m \in Pending : m.book # NoBook
    /\ job.pc \in {"plan", "write"} => ~job.undoing

\* What is moved goes to a place that was found free; since then only other programs
\* can have put something there.
FreeInv == job.pc = "move" => files[job.at.to] \in {NoFile, Foreign}

KeptInv == Typed /\ FreeInv

\* The program starts so.
LEMMA KeptInit == Init => KeptInv
<1> SUFFICES ASSUME Init PROVE KeptInv
  OBVIOUS
<1> USE DEF Init, Idle
<1>1. LastBook \in Nat /\ LastName \in Nat /\ LastBook <= LastName
  BY ConstantsAssumption
<1>2. Home \in Libraries
  BY <1>1 DEF Home, Libraries, Books
<1>3. NoMove \in Moves
  BY <1>1, ConstantsAssumption DEF NoMove, Moves, Paths, NoBook
<1>4. files \in [Paths -> Contents]
  BY <1>1 DEF Paths, Contents, Books, Foreign, NoFile
<1>5. Pending = {}
  BY EmptyRange DEF Pending
<1> QED BY <1>2, <1>3, <1>4, <1>5 DEF KeptInv, Typed, FreeInv, JobFields

--------------------------------------------------------------------------------
(* Landings.                                                               *)

\* Nothing has happened that a landing need not make good.
Quiet == ~crashed /\ Peaceful

\* A landing now would leave every book where its file is.
Located ==
    \A c \in Books : Landed[c] \in Paths /\ \A p \in Paths : files[p] = c <=> p = Landed[c]

\* No two moves that are left start from one path.
ApartInv ==
    /\ Apart(job.left) /\ Apart(job.plan) /\ Apart(job.held)
    /\ \A x \in Range(job.left), y \in Range(job.plan) \cup Range(job.held) : x.from # y.from
    /\ \A x \in Range(job.plan), y \in Range(job.held) : x.from # y.from
    /\ job.pc \in {"move", "ask"} =>
          \A x \in Range(job.left) \cup Range(job.plan) \cup Range(job.held) :
              x.from # job.at.from

\* A move starts from where its book is, or from where no book is; an Undo brings no
\* file to where another one has yet to leave.
TodoInv ==
    \A m \in Pending :
        /\ m.book # NoBook => m.from = Landed[m.book]
        /\ m.book = NoBook => \A c \in Books : Landed[c] # m.from
        /\ job.undoing => \A x \in Pending : m.to # x.from

\* The log of a run has where each book that was moved is now.
LogInv ==
    ~job.undoing =>
        /\ Unwound(job.log)
        /\ \A i \in DOMAIN job.log : \E c \in Books :
              job.log[i].to = Landed[c] /\ \A m \in Pending : m.book # c

SettledInv ==
    /\ KeptInv
    /\ job.pc = "idle" => job = Idle
    /\ Quiet => Located /\ ApartInv /\ TodoInv /\ LogInv /\ Unwound(undo)

\* The facts about a job that a step starts from.
LEMMA JobFacts ==
    ASSUME Typed
    PROVE  /\ job.left # <<>> => /\ Head(job.left) \in Moves /\ Tail(job.left) \in Seq(Moves)
                                 /\ Head(job.left) \in Pending
                                 /\ Range(Tail(job.left)) \subseteq Range(job.left)
           /\ job.held # <<>> => /\ Head(job.held) \in Moves /\ Tail(job.held) \in Seq(Moves)
                                 /\ Head(job.held) \in Pending
                                 /\ Range(Tail(job.held)) \subseteq Range(job.held)
           /\ \A m \in Moves : /\ m.book \in 0..LastBook /\ m.from \in Paths /\ m.to \in Paths
                               /\ m.book # NoBook => m.book \in Books
<1>1. \A m \in Moves : /\ m.book \in 0..LastBook /\ m.from \in Paths /\ m.to \in Paths
                       /\ m.book # NoBook => m.book \in Books
  BY ConstantsAssumption DEF Moves, Books, NoBook
<1> QED BY <1>1, HeadAndTail DEF Typed, Pending

\* No file and a file of no book are things a path can hold.
LEMMA NothingIsContent == NoFile \in Contents /\ Foreign \in Contents
  BY ConstantsAssumption DEF NoFile, Foreign, Contents

\* The move that stands for none is a move of no book.
LEMMA NoMoveIsOne == NoMove \in Moves /\ NoMove.book = NoBook
  BY ConstantsAssumption DEF NoMove, Moves, Paths, NoBook

\* A step that moves no file: it leaves the log and the results alone, and drops or
\* holds back moves, or gives one of them another destination.
Carries ==
    /\ ApartInv => ApartInv'
    /\ \A m \in Pending' : \E x \in Pending :
          x.book = m.book /\ x.from = m.from /\ (job.undoing => x = m)
    /\ job'.applies = job.applies /\ job'.log = job.log /\ job'.undoing = job.undoing
    /\ job'.pc # "idle"

\* How the steps deal with the moves: they drop some, take the next one up, or hold it.
Drops ==
    /\ \/ job'.left \in {job.left, <<>>}
       \/ job.left # <<>> /\ job'.left = Tail(job.left)
    /\ \/ job'.held \in {job.held, <<>>}
       \/ job.held # <<>> /\ job'.held = Tail(job.held)
    /\ job'.pc \notin {"move", "ask"} /\ job'.at \in {job.at, NoMove}
Takes ==
    /\ \/ /\ job.left # <<>> /\ job'.left = Tail(job.left) /\ job'.at = Head(job.left)
          /\ job'.held = job.held
       \/ /\ job.held # <<>> /\ job'.held = Tail(job.held) /\ job'.at = Head(job.held)
          /\ job'.left = job.left
    /\ job'.pc \in {"move", "ask"}
Holds ==
    /\ job.left # <<>> /\ job'.left = Tail(job.left)
    /\ job'.held = Append(job.held, Head(job.left))
    /\ job'.pc \notin {"move", "ask"} /\ job'.at = job.at

JobTyped ==
    /\ DOMAIN job = JobFields
    /\ job.left \in Seq(Moves) /\ job.plan \in Seq(Moves) /\ job.held \in Seq(Moves)
    /\ job.at \in Moves

\* Steps that deal with moves so leave no more of them than there were, and apart.
LEMMA FewerMoves ==
    /\ JobTyped /\ DOMAIN job' = JobFields /\ job'.plan = job.plan
    /\ Drops \/ Takes \/ Holds
    => JobTyped' /\ Pending' \subseteq Pending /\ (ApartInv => ApartInv')
<1> SUFFICES ASSUME JobTyped, DOMAIN job' = JobFields, job'.plan = job.plan,
                    Drops \/ Takes \/ Holds
             PROVE  JobTyped' /\ Pending' \subseteq Pending /\ (ApartInv => ApartInv')
  OBVIOUS
<1> DEFINE Taken(s) == s # <<>> => /\ Head(s) \in Moves /\ Tail(s) \in Seq(Moves)
                                   /\ Head(s) \in Range(s) /\ Range(Tail(s)) \subseteq Range(s)
                                   /\ Apart(s) => /\ Apart(Tail(s))
                                                  /\ \A x \in Range(Tail(s)) :
                                                        x.from # Head(s).from
<1>1. Taken(job.left) /\ Taken(job.held)
  BY HeadAndTail DEF JobTyped
<1>2. CASE Drops
  <2>1. JobTyped'
    BY <1>1, <1>2, EmptyRange, NoMoveIsOne DEF JobTyped, Drops
  <2>2. /\ Range(job'.left) \subseteq Range(job.left) /\ (Apart(job.left) => Apart(job'.left))
        /\ Range(job'.held) \subseteq Range(job.held) /\ (Apart(job.held) => Apart(job'.held))
        /\ job'.pc \notin {"move", "ask"}
    BY <1>1, <1>2, EmptyRange DEF Drops
  <2> QED BY <2>1, <2>2 DEF Pending, ApartInv
<1>3. CASE Takes
  <2>1. JobTyped'
    BY <1>1, <1>3 DEF JobTyped, Takes
  <2>2. /\ Range(job'.left) \subseteq Range(job.left) /\ (Apart(job.left) => Apart(job'.left))
        /\ Range(job'.held) \subseteq Range(job.held) /\ (Apart(job.held) => Apart(job'.held))
        /\ job'.at \in Range(job.left) \/ job'.at \in Range(job.held)
    BY <1>1, <1>3 DEF Takes
  <2>3. ASSUME ApartInv
        PROVE  \A x \in Range(job'.left) \cup Range(job.plan) \cup Range(job'.held) :
                  x.from # job'.at.from
    <3>1. CASE job.left # <<>> /\ job'.left = Tail(job.left) /\ job'.at = Head(job.left)
               /\ job'.held = job.held
      BY <1>1, <2>3, <3>1 DEF ApartInv
    <3>2. CASE job.held # <<>> /\ job'.held = Tail(job.held) /\ job'.at = Head(job.held)
               /\ job'.left = job.left
      BY <1>1, <2>3, <3>2 DEF ApartInv
    <3> QED BY <1>3, <3>1, <3>2 DEF Takes
  <2> HIDE DEF Taken
  <2>4. ApartInv => ApartInv'
    BY <2>2, <2>3 DEF ApartInv
  <2>5. Pending' \subseteq Pending
    BY <2>2 DEF Pending
  <2> QED BY <2>1, <2>4, <2>5
<1>4. CASE Holds
  <2> DEFINE m == Head(job.left)
  <2>1. /\ Append(job.held, m) \in Seq(Moves)
        /\ Range(Append(job.held, m)) = Range(job.held) \cup {m}
        /\ Apart(job.held) /\ (\A x \in Range(job.held) : x.from # m.from)
           => Apart(Append(job.held, m))
    BY <1>1, <1>4, Appended DEF JobTyped, Holds
  <2>2. JobTyped'
    BY <1>1, <1>4, <2>1 DEF JobTyped, Holds
  <2>3. /\ job'.left = Tail(job.left) /\ job'.held = Append(job.held, m)
        /\ job'.pc \notin {"move", "ask"} /\ job.left # <<>>
    BY <1>4 DEF Holds
  <2> HIDE DEF m
  <2>4. Taken(job.left) /\ (job.left # <<>> => m \in Range(job.left))
        /\ (job.left # <<>> /\ Apart(job.left) => \A x \in Range(Tail(job.left)) : x.from # m.from)
    BY <1>1 DEF m
  <2>5. Pending' \subseteq Pending
    BY <2>1, <2>3, <2>4 DEF Pending
  <2>6. ApartInv => ApartInv'
    BY <2>1, <2>3, <2>4 DEF ApartInv
  <2> QED BY <2>2, <2>5, <2>6
<1> QED BY <1>2, <1>3, <1>4

\* The parts of the invariant that a step of this kind leaves to show.
LEMMA KeptByFewer ==
    /\ KeptInv /\ JobTyped' /\ Pending' \subseteq Pending
    /\ job'.undoing = job.undoing /\ job'.applies = job.applies /\ job'.log = job.log
    /\ job'.pc # "idle"
    /\ UNCHANGED <<library, saved>> /\ files' \in [Paths -> Contents] /\ undo' \in Seq(Entries)
    /\ job'.pc = "move" => files'[job'.at.to] \in {NoFile, Foreign}
    /\ job'.pc \in {"plan", "write"} => ~job.undoing
    /\ ApartInv => ApartInv'
    => KeptInv' /\ Carries
BY DEF KeptInv, Typed, JobTyped, FreeInv, Carries

\* Planning a book moves no file.
LEMMA PlanBookCarries == KeptInv /\ PlanBook => KeptInv' /\ Carries
<1> SUFFICES ASSUME KeptInv, PlanBook PROVE KeptInv' /\ Carries
  OBVIOUS
<1> DEFINE m == Head(job.left)
<1>0. job.left # <<>> /\ Typed /\ job.plan \in Seq(Moves)
  BY DEF PlanBook, Planning, KeptInv, Typed
<1>1. /\ m \in Moves /\ Tail(job.left) \in Seq(Moves) /\ m \in Range(job.left)
      /\ Range(Tail(job.left)) \subseteq Range(job.left)
      /\ Apart(job.left) => /\ Apart(Tail(job.left))
                            /\ \A x \in Range(Tail(job.left)) : x.from # m.from
  BY <1>0, HeadAndTail DEF Typed
<1>2. /\ Append(job.plan, m) \in Seq(Moves)
      /\ Range(Append(job.plan, m)) = Range(job.plan) \cup {m}
      /\ Apart(job.plan) /\ (\A x \in Range(job.plan) : x.from # m.from)
         => Apart(Append(job.plan, m))
  BY <1>0, <1>1, Appended
<1>3. /\ job'.left = Tail(job.left) /\ job'.plan \in {job.plan, Append(job.plan, m)}
      /\ DOMAIN job' = JobFields /\ job'.pc = "plan"
      /\ job'.held = job.held /\ job'.at = job.at /\ job'.undoing = job.undoing
      /\ job'.applies = job.applies /\ job'.log = job.log
  BY <1>0 DEF Typed, JobFields, PlanBook, Planning
<1> HIDE DEF m
<1>4. Pending' \subseteq Pending
  BY <1>1, <1>2, <1>3 DEF Pending
<1>5. KeptInv'
  BY <1>0, <1>1, <1>2, <1>3, <1>4 DEF PlanBook, FreeInv, Aside, KeptInv, Typed
<1>6. ASSUME ApartInv PROVE ApartInv'
  BY <1>1, <1>2, <1>3, <1>6 DEF ApartInv
<1> QED BY <1>3, <1>4, <1>5, <1>6 DEF Carries

\* The steps that move no file.
LEMMA StepsCarry ==
    /\ KeptInv
    /\ \/ PlanBook \/ Planned \/ ProcessBook \/ MoveFails \/ FirstLoopDone \/ ProcessDuplicate
       \/ SecondLoopDone \/ WriteUndo \/ RunCancelled \/ UndoItem
       \/ \E always \in BOOLEAN : AnswerCancel(always) \/ AnswerRename(always)
    => KeptInv' /\ Carries
<1> SUFFICES ASSUME KeptInv,
                    \/ PlanBook \/ Planned \/ ProcessBook \/ MoveFails \/ FirstLoopDone
                    \/ ProcessDuplicate \/ SecondLoopDone \/ WriteUndo \/ RunCancelled \/ UndoItem
                    \/ \E always \in BOOLEAN : AnswerCancel(always) \/ AnswerRename(always)
             PROVE  KeptInv' /\ Carries
  OBVIOUS
<1>0. /\ Typed /\ JobTyped /\ job.undoing \in BOOLEAN /\ DOMAIN job = JobFields
      /\ files \in [Paths -> Contents] /\ undo \in Seq(Entries)
  BY DEF KeptInv, Typed, JobTyped
<1> DEFINE Same == /\ DOMAIN job' = JobFields /\ job'.plan = job.plan
                   /\ job'.undoing = job.undoing /\ job'.applies = job.applies
                   /\ job'.log = job.log /\ job'.pc # "idle"
                   /\ UNCHANGED <<library, saved, files>>
                   /\ undo' \in Seq(Entries)
<1>1. ASSUME Same, Drops \/ Takes \/ Holds,
             job'.pc = "move" => files[job'.at.to] \in {NoFile, Foreign},
             job'.pc \in {"plan", "write"} => ~job.undoing
      PROVE  KeptInv' /\ Carries
  BY <1>0, <1>1, FewerMoves, KeptByFewer
<1>2. CASE PlanBook
  BY <1>2, PlanBookCarries
<1>3. CASE Planned
  <2>1. /\ DOMAIN job' = JobFields /\ job'.left = job.plan /\ job'.plan = <<>>
        /\ job'.held = job.held /\ job'.at = job.at /\ job'.pc = "item"
        /\ job'.undoing = job.undoing /\ job'.applies = job.applies /\ job'.log = job.log
    BY <1>0, <1>3 DEF Planned, JobFields
  <2>2. Pending' \subseteq Pending /\ (ApartInv => ApartInv')
    BY <2>1, EmptyRange DEF Pending, ApartInv
  <2>3. JobTyped'
    BY <1>0, <2>1, EmptyRange DEF JobTyped
  <2>4. UNCHANGED <<library, saved, files, undo>>
    BY <1>3 DEF Planned, Aside
  <2> QED BY <1>0, <2>1, <2>2, <2>3, <2>4, KeptByFewer
<1>4. CASE ProcessBook
  <2>1. CASE Exists(Head(job.left).to)
    <3>1. Same /\ Holds
      BY <1>0, <1>4, <2>1 DEF ProcessBook, JobFields, Aside, Holds
    <3>2. job'.pc = "item"
      BY <1>0, <1>4, <2>1 DEF ProcessBook, JobFields
    <3> HIDE DEF Same
    <3> QED BY <1>1, <3>1, <3>2
  <2>2. CASE ~Exists(Head(job.left).to)
    <3>1. Same /\ Takes
      BY <1>0, <1>4, <2>2 DEF ProcessBook, JobFields, Aside, Takes
    <3>2. job'.at = Head(job.left)
      BY <1>0, <1>4, <2>2 DEF ProcessBook, JobFields
    <3>3. files[job'.at.to] = NoFile /\ job'.pc = "move"
      BY <1>0, <1>4, <2>2, <3>2 DEF Exists, ProcessBook, JobFields
    <3> HIDE DEF Same
    <3> QED BY <1>1, <3>1, <3>3
  <2> QED BY <2>1, <2>2
<1>5. CASE MoveFails
  <2>1. Same /\ Drops /\ job'.pc # "move" /\ (job'.pc \in {"plan", "write"} => ~job.undoing)
    BY <1>0, <1>5 DEF MoveFails, JobFields, Aside, Drops, Onward
  <2> HIDE DEF Same
  <2> QED BY <1>1, <2>1
<1>6. CASE FirstLoopDone
  <2>1. Same /\ Drops /\ job'.pc # "move" /\ (job'.pc \in {"plan", "write"} => ~job.undoing)
    BY <1>0, <1>6 DEF FirstLoopDone, JobFields, Aside, Drops
  <2> HIDE DEF Same
  <2> QED BY <1>1, <2>1
<1>7. CASE ProcessDuplicate
  <2>1. Same /\ Takes
    BY <1>0, <1>7 DEF ProcessDuplicate, JobFields, Aside, Takes
  <2>2. /\ job'.at = Head(job.held) /\ job'.pc \notin {"plan", "write"}
        /\ job'.pc = "move" => ~Exists(Head(job.held).to)
    BY <1>0, <1>7 DEF ProcessDuplicate, JobFields
  <2>3. job'.pc = "move" => files[job'.at.to] = NoFile
    BY <2>2 DEF Exists
  <2> HIDE DEF Same
  <2> QED BY <1>1, <2>1, <2>2, <2>3
<1>8. CASE SecondLoopDone
  <2>1. Same /\ Drops /\ job'.pc # "move" /\ (job'.pc \in {"plan", "write"} => ~job.undoing)
    BY <1>0, <1>8 DEF SecondLoopDone, JobFields, Aside, Drops
  <2> HIDE DEF Same
  <2> QED BY <1>1, <2>1
<1>9. CASE WriteUndo
  <2>1. undo' \in Seq(Entries)
    <3>1. undo' = undo \/ (undo' = job.log /\ job.log # <<>>)
      BY <1>9 DEF WriteUndo
    <3> QED BY <1>0, <1>9, <3>1 DEF WriteUndo, Typed
  <2>2. Same /\ Drops /\ job'.pc # "move" /\ job'.pc \notin {"plan", "write"}
    BY <1>0, <1>9, <2>1 DEF WriteUndo, JobFields, Aside, Drops
  <2> HIDE DEF Same
  <2> QED BY <1>1, <2>2
<1>10. CASE RunCancelled
  <2>1. Same /\ Drops /\ job'.pc # "move" /\ (job'.pc \in {"plan", "write"} => ~job.undoing)
    BY <1>0, <1>10 DEF RunCancelled, JobFields, Aside, Drops
  <2> HIDE DEF Same
  <2> QED BY <1>1, <2>1
<1>11. CASE UndoItem
  <2> DEFINE m == Head(job.left)
  <2>1. CASE ~Exists(m.from) \/ m.from = m.to
    <3>1. Same /\ Drops /\ job'.pc # "move" /\ job'.pc \notin {"plan", "write"}
      BY <1>0, <1>11, <2>1 DEF UndoItem, JobFields, Aside, Drops
    <3> HIDE DEF Same
    <3> QED BY <1>1, <3>1
  <2>2. CASE ~(~Exists(m.from) \/ m.from = m.to) /\ Exists(m.to)
    <3>1. Same /\ Holds /\ job'.pc # "move" /\ job'.pc \notin {"plan", "write"}
      BY <1>0, <1>11, <2>2 DEF UndoItem, JobFields, Aside, Holds
    <3> HIDE DEF Same
    <3> QED BY <1>1, <3>1
  <2>3. CASE ~(~Exists(m.from) \/ m.from = m.to) /\ ~Exists(m.to)
    <3>1. Same /\ Takes /\ job'.at = m /\ job'.pc = "move"
      BY <1>0, <1>11, <2>3 DEF UndoItem, JobFields, Aside, Takes
    <3>2. files[job'.at.to] = NoFile
      BY <2>3, <3>1 DEF Exists
    <3> HIDE DEF Same
    <3> QED BY <1>1, <3>1, <3>2
  <2> QED BY <2>1, <2>2, <2>3
<1>12. ASSUME NEW always \in BOOLEAN, AnswerCancel(always) PROVE KeptInv' /\ Carries
  <2>1. Same /\ Drops /\ job'.pc # "move" /\ (job'.pc \in {"plan", "write"} => ~job.undoing)
    BY <1>0, <1>12 DEF AnswerCancel, Answered, JobFields, Aside, Drops
  <2> HIDE DEF Same
  <2> QED BY <1>1, <2>1
<1>13. ASSUME NEW always \in BOOLEAN, AnswerRename(always) PROVE KeptInv' /\ Carries
  <2> DEFINE q == RenamePath(job.at.to)
             m == [job.at EXCEPT !.to = q]
  <2>1. CASE q = NoPath
    <3>1. Same /\ Drops /\ job'.pc # "move" /\ job'.pc \notin {"plan", "write"}
      BY <1>0, <1>13, <2>1 DEF AnswerRename, Answered, JobFields, Aside, Drops
    <3> HIDE DEF Same
    <3> QED BY <1>1, <3>1
  <2>2. CASE q # NoPath
    <3>1. job.at \in Moves /\ job.at.to \in Paths
      BY <1>0 DEF JobTyped, Moves
    <3>2. q \in Paths
      BY <2>2, <3>1, ConstantsAssumption DEF RenamePath, Paths, NoPath
    <3>3. m \in Moves /\ m.from = job.at.from /\ m.book = job.at.book
      BY <3>1, <3>2 DEF Moves
    <3> HIDE DEF q
    <3>4. /\ job.pc = "ask" /\ ~job.undoing
          /\ DOMAIN job' = JobFields /\ job'.pc = "held" /\ job'.at = NoMove
          /\ job'.left = job.left /\ job'.plan = job.plan /\ job'.held = <<m>> \o job.held
          /\ job'.undoing = job.undoing /\ job'.applies = job.applies /\ job'.log = job.log
      BY <1>0, <1>13, <2>2 DEF AnswerRename, Answered, JobFields, q
    <3>5. UNCHANGED <<library, saved, files, undo>>
      BY <1>13 DEF AnswerRename, Aside
    <3> HIDE DEF m
    <3>6. /\ <<m>> \o job.held \in Seq(Moves)
          /\ Range(<<m>> \o job.held) = Range(job.held) \cup {m}
          /\ Apart(job.held) /\ (\A x \in Range(job.held) : x.from # m.from)
             => Apart(<<m>> \o job.held)
      BY <1>0, <3>3, Prepended DEF JobTyped
    <3>7. \A x \in Pending' : x \in Pending \/ x = m
      BY <3>4, <3>6 DEF Pending
    <3>8. job.at \in Pending
      BY <3>4 DEF Pending
    <3>9. ApartInv => ApartInv'
      BY <3>3, <3>4, <3>6 DEF ApartInv
    <3>10. Carries
      BY <3>3, <3>4, <3>7, <3>8, <3>9 DEF Carries
    <3>11. KeptInv'
      BY <1>0, <3>3, <3>4, <3>5, <3>6, <3>7, <3>8, NoMoveIsOne DEF KeptInv, Typed, FreeInv
    <3> QED BY <3>10, <3>11
  <2> QED BY <2>1, <2>2
<1> QED BY <1>2, <1>3, <1>4, <1>5, <1>6, <1>7, <1>8, <1>9, <1>10, <1>11, <1>12, <1>13

\* A step that moves the file of m.
Delivers(m) ==
    /\ m \in Pending /\ Exists(m.from) /\ files' = Renamed(m.from, m.to)
    /\ UNCHANGED <<bin, touched, crashed, library, undo>>
    /\ Pending' \subseteq Pending
    /\ ApartInv => ApartInv' /\ \A x \in Pending' : x.from # m.from
    /\ job'.undoing = job.undoing
    /\ job'.applies = IF m.book = NoBook THEN job.applies
                      ELSE Append(job.applies, [book |-> m.book, path |-> m.to])
    /\ ~job.undoing => job'.log \in {job.log, Record(job.log, m.from, m.to)}
    /\ job'.pc # "idle"

\* A step that trashes what is in the way.
Trashes == /\ job.pc # "idle" /\ job'.pc # "idle"
           /\ \E p \in Paths : Trashed(p)
           /\ UNCHANGED <<library, touched, crashed>>

\* The moves of the loops, onto a path that was found free.
LEMMA MovesDeliver ==
    KeptInv /\ (MoveBook \/ RestoreBook) => KeptInv' /\ job.pc = "move" /\ Delivers(job.at)
<1> SUFFICES ASSUME KeptInv, MoveBook \/ RestoreBook
             PROVE  KeptInv' /\ job.pc = "move" /\ Delivers(job.at)
  OBVIOUS
<1> DEFINE m == job.at
<1>0. /\ Typed /\ JobTyped /\ job.undoing \in BOOLEAN /\ DOMAIN job = JobFields
      /\ files \in [Paths -> Contents] /\ undo \in Seq(Entries) /\ job.applies \in Seq(Applies)
      /\ ~job.undoing => job.log \in Seq(Entries)
  BY DEF KeptInv, Typed, JobTyped
<1>1. /\ job.pc = "move" /\ Exists(m.from) /\ files' = Renamed(m.from, m.to)
      /\ UNCHANGED <<bin, touched, crashed, library, saved, undo>>
  BY DEF MoveBook, RestoreBook, Aside
<1>2. m \in Moves /\ m.from \in Paths /\ m.to \in Paths /\ m.book \in 0..LastBook
      /\ (m.book # NoBook => m.book \in Books)
  BY <1>0, JobFacts DEF JobTyped
<1>3. m \in Pending
  BY <1>1 DEF Pending
<1>4. ~job.undoing => m.book # NoBook
  BY <1>0, <1>3 DEF Typed
<1>5. /\ DOMAIN job' = JobFields /\ job'.left = job.left /\ job'.plan = job.plan
      /\ job'.held = job.held /\ job'.at = NoMove /\ job'.pc \in {"item", "held"}
      /\ job'.undoing = job.undoing
      /\ ~job.undoing => job'.log = Record(job.log, m.from, m.to)
      /\ job'.applies = IF m.book = NoBook THEN job.applies
                        ELSE Append(job.applies, [book |-> m.book, path |-> m.to])
  <2>1. CASE MoveBook
    BY <1>0, <1>4, <2>1 DEF MoveBook, JobFields, Onward
  <2>2. CASE RestoreBook
    BY <1>0, <2>2 DEF RestoreBook, JobFields, Onward
  <2> QED BY <2>1, <2>2
<1>6. job'.applies \in Seq(Applies)
  <2>1. m.book # NoBook => [book |-> m.book, path |-> m.to] \in Applies
    BY <1>2 DEF Applies, Paths
  <2> QED BY <1>0, <1>5, <2>1
<1>7. ~job.undoing => Record(job.log, m.from, m.to) \in Seq(Entries)
  BY <1>0, <1>2, RecordType
<1>8. files' \in [Paths -> Contents]
  BY <1>0, <1>1, <1>2, NothingIsContent DEF Renamed
<1> HIDE DEF m
<1>9. Drops
  BY <1>5 DEF Drops
<1>10. JobTyped' /\ Pending' \subseteq Pending /\ (ApartInv => ApartInv')
  BY <1>0, <1>5, <1>9, FewerMoves
<1>11. ApartInv => \A x \in Pending' : x.from # m.from
  BY <1>1, <1>5 DEF ApartInv, Pending, m
<1>12. KeptInv'
  BY <1>0, <1>1, <1>5, <1>6, <1>7, <1>8, <1>10 DEF KeptInv, Typed, JobTyped, FreeInv
<1>13. Delivers(m)
  BY <1>1, <1>3, <1>5, <1>10, <1>11 DEF Delivers
<1> QED BY <1>1, <1>12, <1>13 DEF m

\* A rename that changes the case alone, or its failure.
LEMMA RecasingDelivers ==
    KeptInv /\ RenameInPlace
    => /\ KeptInv' /\ Planning
       /\ \/ /\ UNCHANGED <<files, bin, touched, crashed, library, undo>> /\ Carries
             /\ before' = before
          \/ /\ before' = Forgotten
             /\ \E m \in Pending : DiffersByCase(m.from, m.to) /\ Delivers(m)
<1> SUFFICES ASSUME KeptInv, RenameInPlace
             PROVE  /\ KeptInv' /\ Planning
                    /\ \/ /\ UNCHANGED <<files, bin, touched, crashed, library, undo>> /\ Carries
                          /\ before' = before
                       \/ /\ before' = Forgotten
                          /\ \E m \in Pending : DiffersByCase(m.from, m.to) /\ Delivers(m)
  OBVIOUS
<1> DEFINE m == Head(job.left)
<1>0. /\ Typed /\ JobTyped /\ job.undoing \in BOOLEAN /\ DOMAIN job = JobFields
      /\ files \in [Paths -> Contents] /\ undo \in Seq(Entries) /\ job.applies \in Seq(Applies)
  BY DEF KeptInv, Typed, JobTyped
<1>1. /\ Planning /\ job.left # <<>> /\ job.pc = "plan" /\ DiffersByCase(m.from, m.to)
      /\ UNCHANGED <<bin, undo, library, saved, touched, crashed>>
  BY DEF RenameInPlace, Planning, Aside
<1>2. /\ m \in Moves /\ Tail(job.left) \in Seq(Moves) /\ m \in Range(job.left)
      /\ Range(Tail(job.left)) \subseteq Range(job.left)
      /\ Apart(job.left) => \A x \in Range(Tail(job.left)) : x.from # m.from
  BY <1>0, <1>1, HeadAndTail DEF JobTyped
<1>3. m \in Pending /\ m.from \in Paths /\ m.to \in Paths /\ (m.book # NoBook => m.book \in Books)
  BY <1>0, <1>2, JobFacts DEF Pending
<1>4. /\ DOMAIN job' = JobFields /\ job'.left = Tail(job.left) /\ job'.plan = job.plan
      /\ job'.held = job.held /\ job'.at = job.at /\ job'.pc = "plan"
      /\ job'.undoing = job.undoing /\ job'.log = job.log
  BY <1>0, <1>1 DEF RenameInPlace, JobFields
<1>5. Drops
  BY <1>1, <1>4 DEF Drops
<1>6. JobTyped' /\ Pending' \subseteq Pending /\ (ApartInv => ApartInv')
  BY <1>0, <1>4, <1>5, FewerMoves
<1>7. CASE UNCHANGED <<files, before>> /\ job'.applies = job.applies
  <2>1. ~job.undoing
    BY <1>0, <1>1 DEF Typed
  <2>2. KeptInv' /\ Carries
    BY <1>0, <1>1, <1>4, <1>6, <1>7, <2>1, KeptByFewer
  <2> QED BY <1>1, <1>7, <2>2
<1>8. CASE /\ Exists(m.from) /\ files' = Renamed(m.from, m.to)
           /\ job'.applies = Append(job.applies, [book |-> m.book, path |-> m.to])
           /\ before' = Forgotten
  <2>1. ~job.undoing => m.book # NoBook
    BY <1>0, <1>3 DEF Typed
  <2>2. files' \in [Paths -> Contents]
    BY <1>0, <1>3, <1>8, NothingIsContent DEF Renamed
  <2> HIDE DEF m
  <2>3. CASE m.book # NoBook
    <3>1. [book |-> m.book, path |-> m.to] \in Applies
      BY <1>3, <2>3 DEF Applies, Paths
    <3>2. job'.applies \in Seq(Applies)
      BY <1>0, <1>8, <3>1
    <3>3. KeptInv'
      BY <1>0, <1>1, <1>4, <1>6, <2>2, <3>2 DEF KeptInv, Typed, JobTyped, FreeInv
    <3>4. ApartInv => \A x \in Pending' : x.from # m.from
      BY <1>2, <1>4 DEF ApartInv, Pending
    <3>5. Delivers(m)
      BY <1>1, <1>3, <1>4, <1>6, <1>8, <2>3, <3>4 DEF Delivers
    <3> QED BY <1>1, <1>3, <1>8, <3>3, <3>5
  <2>4. m.book # NoBook
    BY <1>0, <1>1, <2>1 DEF Typed
  <2> QED BY <2>3, <2>4
<1> QED BY <1>0, <1>1, <1>7, <1>8 DEF RenameInPlace, JobFields

\* Steps that ask for leave to overwrite: the file in the way is trashed, or the answer
\* costs no file.
LEMMA OverwritesTrash ==
    /\ KeptInv
    /\ UndoDuplicate \/ \E always \in BOOLEAN : AnswerOverwrite(always)
    => /\ KeptInv'
       /\ Trashes \/ (UNCHANGED <<files, bin, touched, crashed, library, undo>> /\ Carries)
<1> SUFFICES ASSUME KeptInv, UndoDuplicate \/ \E always \in BOOLEAN : AnswerOverwrite(always)
             PROVE  /\ KeptInv'
                    /\ Trashes \/ (/\ UNCHANGED <<files, bin, touched, crashed, library, undo>>
                                   /\ Carries)
  OBVIOUS
<1>0. /\ Typed /\ JobTyped /\ job.undoing \in BOOLEAN /\ DOMAIN job = JobFields
      /\ files \in [Paths -> Contents] /\ undo \in Seq(Entries) /\ job.applies \in Seq(Applies)
      /\ job.at \in Moves /\ (job.held # <<>> => Head(job.held) \in Moves)
  BY JobFacts DEF KeptInv, Typed, JobTyped
<1>1. UNCHANGED <<library, saved, touched, crashed, undo>>
  BY DEF UndoDuplicate, AnswerOverwrite, Aside
<1>2. ASSUME NEW p \in Paths, Trashed(p)
      PROVE  files' \in [Paths -> Contents] /\ files'[p] = NoFile
  BY <1>0, <1>2, NothingIsContent DEF Trashed
<1>3. ASSUME NEW p
      PROVE  [book |-> OwnerOf(p), path |-> NoPath] \in Applies \/ OwnerOf(p) = NoBook
  <2>1. OwnerOf(p) # NoBook => OwnerOf(p) \in Books
    BY Owners DEF OwnerOf
  <2>2. NoPath \in 0..(2 * LastName)
    BY ConstantsAssumption DEF NoPath
  <2> QED BY <2>1, <2>2 DEF Applies
<1>4. \A m \in Moves : m.to \in Paths
  BY JobFacts, <1>0
<1>5. ASSUME job'.applies = job.applies, Drops, job'.plan = job.plan, job'.undoing = job.undoing,
             DOMAIN job' = JobFields, job'.log = job.log, job'.pc = "held",
             UNCHANGED <<files, bin>>
      PROVE  KeptInv' /\ Carries
  <2>1. JobTyped' /\ Pending' \subseteq Pending /\ (ApartInv => ApartInv')
    BY <1>0, <1>5, FewerMoves
  <2> QED BY <1>0, <1>1, <1>5, <2>1, KeptByFewer
<1>6. ASSUME NEW always \in BOOLEAN, AnswerOverwrite(always)
      PROVE  KeptInv' /\ (Trashes \/ (UNCHANGED <<files, bin>> /\ Carries))
  <2> DEFINE m == job.at
             old == OwnerOf(m.to)
             gone == [book |-> old, path |-> NoPath]
  <2>1. CASE files' # files \/ bin' # bin
    <3>1. /\ Trashed(m.to) /\ job.pc = "ask"
          /\ DOMAIN job' = JobFields /\ job'.left = job.left /\ job'.plan = job.plan
          /\ job'.held = <<m>> \o job.held /\ job'.at = NoMove /\ job'.pc = "held"
          /\ job'.undoing = job.undoing /\ job'.log = job.log
          /\ job'.applies = IF old = NoBook THEN job.applies ELSE Append(job.applies, gone)
      BY <1>0, <1>6, <2>1 DEF AnswerOverwrite, Answered, JobFields
    <3>2. job'.applies \in Seq(Applies)
      BY <1>0, <1>3, <3>1
    <3>3. /\ <<m>> \o job.held \in Seq(Moves)
          /\ Range(<<m>> \o job.held) = Range(job.held) \cup {m}
      BY <1>0, Prepended DEF JobTyped
    <3> HIDE DEF m
    <3>4. m \in Pending /\ m.to \in Paths
      BY <1>0, <1>4, <3>1 DEF Pending, m
    <3>5. Pending' \subseteq Pending
      BY <3>1, <3>3, <3>4 DEF Pending
    <3>6. files' \in [Paths -> Contents]
      BY <1>2, <3>1, <3>4
    <3>7. KeptInv'
      BY <1>0, <1>1, <3>1, <3>2, <3>3, <3>5, <3>6, NoMoveIsOne DEF KeptInv, Typed, FreeInv
    <3>8. Trashes
      BY <1>1, <3>1, <3>4 DEF Trashes
    <3> QED BY <3>7, <3>8
  <2>2. CASE UNCHANGED <<files, bin>>
    <3>1. ~Trashed(m.to)
      <4>1. m.to \in Paths
        BY <1>0, <1>4
      <4> QED BY <1>0, <2>2, <4>1, NothingIsContent DEF Trashed, Exists
    <3>2. job' = [Answered("Overwrite", always) EXCEPT !.pc = "held", !.at = NoMove]
      BY <1>6, <3>1 DEF AnswerOverwrite
    <3>3. /\ DOMAIN job' = JobFields /\ job'.left = job.left /\ job'.plan = job.plan
          /\ job'.held = job.held /\ job'.at = NoMove /\ job'.pc = "held"
          /\ job'.undoing = job.undoing /\ job'.log = job.log /\ job'.applies = job.applies
      BY <1>0, <3>2 DEF Answered, JobFields
    <3>4. Drops
      BY <3>3 DEF Drops
    <3> QED BY <1>5, <2>2, <3>3, <3>4
  <2> QED BY <2>1, <2>2
<1>7. ASSUME UndoDuplicate
      PROVE  KeptInv' /\ (Trashes \/ (UNCHANGED <<files, bin>> /\ Carries))
  <2> DEFINE m == Head(job.held)
             old == OwnerOf(m.to)
             gone == [book |-> old, path |-> NoPath]
  <2>0. job.held # <<>> /\ m \in Moves /\ m.to \in Paths
    BY <1>0, <1>4, <1>7 DEF UndoDuplicate
  <2>1. CASE files' # files \/ bin' # bin
    <3>1. /\ Trashed(m.to) /\ job.pc = "held" /\ job.undoing
          /\ DOMAIN job' = JobFields /\ job'.left = job.left /\ job'.plan = job.plan
          /\ job'.held = Tail(job.held) /\ job'.at = m /\ job'.pc = "move"
          /\ job'.undoing = job.undoing /\ job'.log = job.log
          /\ job'.applies = IF m.book = NoBook \/ old = NoBook THEN job.applies
                            ELSE Append(job.applies, gone)
      BY <1>0, <1>7, <2>1 DEF UndoDuplicate, JobFields
    <3>2. job'.applies \in Seq(Applies)
      BY <1>0, <1>3, <3>1
    <3>3. Takes
      BY <2>0, <3>1 DEF Takes
    <3>4. JobTyped' /\ Pending' \subseteq Pending
      BY <1>0, <3>1, <3>3, FewerMoves
    <3>5. files' \in [Paths -> Contents] /\ files'[m.to] = NoFile
      BY <1>2, <2>0, <3>1
    <3> HIDE DEF m
    <3>6. KeptInv'
      BY <1>0, <1>1, <3>1, <3>2, <3>4, <3>5 DEF KeptInv, Typed, FreeInv, JobTyped
    <3>7. Trashes
      BY <1>1, <2>0, <3>1 DEF Trashes
    <3> QED BY <3>6, <3>7
  <2>2. CASE UNCHANGED <<files, bin>>
    <3>1. ~Trashed(m.to)
      BY <1>0, <2>0, <2>2, NothingIsContent DEF Trashed, Exists
    <3>2. /\ DOMAIN job' = JobFields /\ job'.left = job.left /\ job'.plan = job.plan
          /\ job'.held = Tail(job.held) /\ job'.at = job.at /\ job'.pc = "held"
          /\ job'.undoing = job.undoing /\ job'.log = job.log /\ job'.applies = job.applies
      BY <1>0, <1>7, <3>1 DEF UndoDuplicate, JobFields
    <3>3. Drops
      BY <2>0, <3>2 DEF Drops
    <3> QED BY <1>5, <2>2, <3>2, <3>3
  <2> QED BY <2>1, <2>2
<1> QED BY <1>1, <1>6, <1>7

\* The jobs begin with the moves they are given, and nothing else.
LEMMA StartsKeep ==
    /\ KeptInv
    /\ Undo \/ \E target \in Targets : Organize(target)
    => /\ KeptInv' /\ job.pc = "idle"
       /\ UNCHANGED <<files, bin, touched, crashed, library, undo>>
       /\ job'.pc # "idle" /\ job'.applies = <<>>
       /\ \/ ~job'.undoing /\ job'.log = <<>> /\ \E target \in Targets : Organize(target)
          \/ job'.undoing /\ job'.left = Restores(Runnable(undo)) /\ undo # <<>>
       /\ job'.plan = <<>> /\ job'.held = <<>> /\ job'.pc \notin {"move", "ask"}
<1> SUFFICES ASSUME KeptInv, Undo \/ \E target \in Targets : Organize(target)
             PROVE  /\ KeptInv' /\ job.pc = "idle"
                    /\ UNCHANGED <<files, bin, touched, crashed, library, undo>>
                    /\ job'.pc # "idle" /\ job'.applies = <<>>
                    /\ \/ /\ ~job'.undoing /\ job'.log = <<>>
                          /\ \E target \in Targets : Organize(target)
                       \/ job'.undoing /\ job'.left = Restores(Runnable(undo)) /\ undo # <<>>
                    /\ job'.plan = <<>> /\ job'.held = <<>> /\ job'.pc \notin {"move", "ask"}
  OBVIOUS
<1>0. /\ files \in [Paths -> Contents] /\ undo \in Seq(Entries)
      /\ library \in Libraries /\ saved \in Libraries
  BY DEF KeptInv, Typed
<1>1. UNCHANGED <<files, bin, touched, crashed, library, saved, undo>> /\ job.pc = "idle"
  BY DEF Undo, Organize
<1>2. CASE Undo
  <2>1. Restores(Runnable(undo)) \in Seq(Moves)
    BY <1>0, RunnableType, RestoreFacts
  <2>2. /\ DOMAIN job' = JobFields /\ job'.left = Restores(Runnable(undo)) /\ job'.plan = <<>>
        /\ job'.held = <<>> /\ job'.at = NoMove /\ job'.pc = "item" /\ job'.undoing
        /\ job'.undoing \in BOOLEAN /\ job'.applies = <<>> /\ undo # <<>>
    BY <1>2 DEF Undo, Idle, JobFields
  <2>3. KeptInv'
    BY <1>0, <1>1, <2>1, <2>2, NoMoveIsOne, EmptyRange DEF KeptInv, Typed, FreeInv
  <2> QED BY <1>1, <2>2, <2>3
<1>3. ASSUME NEW target \in Targets, Organize(target)
      PROVE  /\ KeptInv' /\ job'.pc # "idle" /\ job'.applies = <<>>
             /\ ~job'.undoing /\ job'.log = <<>>
             /\ job'.plan = <<>> /\ job'.held = <<>> /\ job'.pc \notin {"move", "ask"}
  <2> DEFINE all == [b \in Books |-> [book |-> b, from |-> library[b], to |-> target[b]]]
             AnyMove == [book : Books, from : 0..(2 * LastName), to : 0..LastName]
  <2>1. all \in Seq(AnyMove)
    BY <1>0, ConstantsAssumption DEF Books, Libraries, Targets
  <2>2. /\ Chosen(all, Moves) \in Seq(AnyMove)
        /\ Range(Chosen(all, Moves)) \subseteq Range(all) \cap Moves
    <3> HIDE DEF all, AnyMove
    <3> QED BY <2>1, ChosenFacts
  <2>3. ASSUME NEW m \in Range(Chosen(all, Moves)) PROVE m \in Moves /\ m.book \in Books
    <3>1. m \in Range(all) /\ m \in Moves
      BY <2>2
    <3>2. PICK b \in Books : m = all[b]
      BY <3>1 DEF Range
    <3> QED BY <3>1, <3>2
  <2>4. Chosen(all, Moves) \in Seq(Moves)
    <3> HIDE DEF all, AnyMove
    <3> QED BY <2>2 DEF Range
  <2>5. /\ DOMAIN job' = JobFields /\ job'.left = Chosen(all, Moves) /\ job'.plan = <<>>
        /\ job'.held = <<>> /\ job'.at = NoMove /\ job'.pc = "plan" /\ ~job'.undoing
        /\ job'.undoing \in BOOLEAN /\ job'.applies = <<>> /\ job'.log = <<>>
    BY <1>3 DEF Organize, Idle, JobFields
  <2> HIDE DEF all
  <2>6. \A m \in Pending' : m.book # NoBook
    BY <2>3, <2>5, EmptyRange DEF Pending, Books, NoBook
  <2>7. KeptInv'
    BY <1>0, <1>1, <2>4, <2>5, <2>6, NoMoveIsOne, EmptyRange DEF KeptInv, Typed, FreeInv
  <2> QED BY <2>5, <2>7
<1> QED BY <1>1, <1>2, <1>3

\* The rest: landings, saves, crashes and other programs.
LEMMA OthersKeep ==
    /\ KeptInv
    /\ Land \/ SaveLibrary \/ Crash \/ (\E p \in Paths : OtherChanges(p)) \/ UNCHANGED vars
    => KeptInv'
<1> SUFFICES ASSUME KeptInv, \/ Land \/ SaveLibrary \/ Crash
                             \/ (\E p \in Paths : OtherChanges(p)) \/ UNCHANGED vars
             PROVE  KeptInv'
  OBVIOUS
<1>0. Typed /\ FreeInv
  BY DEF KeptInv
<1>1. ASSUME job' = Idle, UNCHANGED <<files, saved, undo>>, library' \in Libraries PROVE KeptInv'
  <2>1. /\ DOMAIN job' = JobFields /\ job'.left = <<>> /\ job'.plan = <<>>
        /\ job'.held = <<>> /\ job'.at = NoMove /\ job'.pc = "idle" /\ ~job'.undoing
        /\ job'.undoing \in BOOLEAN /\ job'.applies = <<>> /\ job'.log = <<>>
    BY <1>1 DEF Idle, JobFields
  <2>2. Pending' = {}
    BY <2>1, EmptyRange DEF Pending
  <2> QED BY <1>0, <1>1, <2>1, <2>2, NoMoveIsOne, EmptyRange DEF KeptInv, Typed, FreeInv
<1>2. CASE Land
  <2>1. Landed \in Libraries
    <3>1. Landed = Landing(library, job.applies)
      BY Zenon DEF Landed, Landing
    <3> QED BY <1>0, <3>1, LandingType DEF Typed
  <2> QED BY <1>1, <1>2, <2>1 DEF Land
<1>3. CASE SaveLibrary
  <2>1. saved' = library /\ UNCHANGED <<files, library, undo, job>>
    BY <1>3 DEF SaveLibrary
  <2>2. Pending' = Pending
    BY <2>1 DEF Pending
  <2> QED BY <1>0, <2>1, <2>2 DEF KeptInv, Typed, FreeInv
<1>4. CASE Crash
  BY <1>0, <1>1, <1>4 DEF Crash, Typed
<1>5. ASSUME NEW p \in Paths, OtherChanges(p) PROVE KeptInv'
  <2>1. UNCHANGED <<library, saved, undo, job>>
        /\ files' = [files EXCEPT ![p] = IF files[p] = NoFile THEN Foreign ELSE NoFile]
    BY <1>5 DEF OtherChanges
  <2>2. Pending' = Pending
    BY <2>1 DEF Pending
  <2>3. files' \in [Paths -> Contents]
    BY <1>0, <2>1, NothingIsContent DEF Typed
  <2>4. job.at.to \in Paths
    BY <1>0, JobFacts DEF Typed
  <2>5. FreeInv'
    BY <1>0, <2>1, <2>4 DEF Typed, FreeInv
  <2> QED BY <1>0, <2>1, <2>2, <2>3, <2>5 DEF KeptInv, Typed
<1>6. CASE UNCHANGED vars
  <2>1. UNCHANGED <<files, library, saved, undo, job>>
    BY <1>6 DEF vars
  <2>2. Pending' = Pending
    BY <2>1 DEF Pending
  <2> QED BY <1>0, <2>1, <2>2 DEF KeptInv, Typed, FreeInv
<1> QED BY <1>2, <1>3, <1>4, <1>5, <1>6

--------------------------------------------------------------------------------
(* No file is lost.                                                        *)

\* What the steps do to the files: most do nothing.
QuietSteps ==
    \/ Undo \/ \E target \in Targets : Organize(target)
    \/ PlanBook \/ Planned \/ ProcessBook \/ MoveFails \/ FirstLoopDone \/ ProcessDuplicate
    \/ SecondLoopDone \/ WriteUndo \/ RunCancelled \/ UndoItem
    \/ \E always \in BOOLEAN : AnswerCancel(always) \/ AnswerRename(always)
    \/ Land \/ SaveLibrary \/ Crash

\* They leave the files, the trash and the count of other programs' changes alone.
LEMMA QuietStepsLeaveFiles == QuietSteps => UNCHANGED <<files, bin, others>>
<1>1. \A target : Organize(target) => UNCHANGED <<files, bin, others>>
  BY DEF Organize
<1>2. \A always : AnswerCancel(always) => UNCHANGED <<files, bin, others>>
  BY DEF AnswerCancel, Aside
<1>3. \A always : AnswerRename(always) => UNCHANGED <<files, bin, others>>
  BY DEF AnswerRename, Aside
<1>4. Undo \/ Land \/ SaveLibrary \/ Crash => UNCHANGED <<files, bin, others>>
  BY DEF Undo, Land, SaveLibrary, Crash
<1>5. PlanBook \/ Planned \/ ProcessBook \/ MoveFails \/ FirstLoopDone
      => UNCHANGED <<files, bin, others>>
  BY DEF PlanBook, Planned, ProcessBook, MoveFails, FirstLoopDone, Aside
<1>6. ProcessDuplicate \/ SecondLoopDone \/ WriteUndo \/ RunCancelled \/ UndoItem
      => UNCHANGED <<files, bin, others>>
  BY DEF ProcessDuplicate, SecondLoopDone, WriteUndo, RunCancelled, UndoItem, Aside
<1> QED BY <1>1, <1>2, <1>3, <1>4, <1>5, <1>6 DEF QuietSteps

\* The steps of the program.
LEMMA NextCases ==
    [Next]_vars =>
        \/ QuietSteps \/ RenameInPlace \/ MoveBook \/ RestoreBook
        \/ UndoDuplicate \/ \E always \in BOOLEAN : AnswerOverwrite(always)
        \/ \E p \in Paths : OtherChanges(p)
        \/ UNCHANGED vars
BY Zenon DEF Next, Worker, User, QuietSteps

\* Every step keeps what the moves rely on.
LEMMA KeptStep == KeptInv /\ [Next]_vars => KeptInv'
<1>1. KeptInv /\ QuietSteps => KeptInv'
  BY StepsCarry, StartsKeep, OthersKeep DEF QuietSteps
<1> QED BY <1>1, NextCases, RecasingDelivers, MovesDeliver, OverwritesTrash, OthersKeep

\* The bound on the other programs counts.
LEMMA OthersAreCounted == others \in Nat /\ [Next]_vars => others' \in Nat
<1> SUFFICES ASSUME others \in Nat, [Next]_vars PROVE others' \in Nat
  OBVIOUS
<1>1. CASE QuietSteps
  BY <1>1, QuietStepsLeaveFiles
<1>2. CASE RenameInPlace \/ MoveBook \/ RestoreBook \/ UndoDuplicate
  BY <1>2 DEF RenameInPlace, MoveBook, RestoreBook, UndoDuplicate, Aside
<1>3. CASE \E always \in BOOLEAN : AnswerOverwrite(always)
  BY <1>3 DEF AnswerOverwrite, Aside
<1>4. CASE \E p \in Paths : OtherChanges(p)
  BY <1>4 DEF OtherChanges
<1>5. CASE UNCHANGED vars
  BY <1>5 DEF vars
<1> QED BY <1>1, <1>2, <1>3, <1>4, <1>5, NextCases

\* Types and what a run may move onto hold of every state.
THEOREM KeptInvariant == Spec => [](KeptInv /\ others \in Nat)
<1>1. Init => KeptInv /\ others \in Nat
  BY KeptInit DEF Init
<1>2. KeptInv /\ others \in Nat /\ [Next]_vars => (KeptInv /\ others \in Nat)'
  BY KeptStep, OthersAreCounted
<1> QED BY <1>1, <1>2, PTL DEF Spec

\* A move takes the file of a book to where no other book's file is.
LEMMA MovesKeepFiles ==
    ASSUME KeptInv, NEW b \in Books, InReach(b), NEW m \in Moves, Delivers(m),
           files[m.to] \in {NoFile, Foreign}
    PROVE  InReach(b)'
<1>1. /\ files \in [Paths -> Contents] /\ m.from \in Paths /\ m.to \in Paths
      /\ b # NoFile /\ b # Foreign
  BY JobFacts, ConstantsAssumption DEF KeptInv, Typed, Books, NoFile, Foreign
<1>2. bin' = bin /\ files' = Renamed(m.from, m.to)
  BY DEF Delivers
<1>3. CASE b \in bin
  BY <1>2, <1>3 DEF InReach
<1>4. ASSUME NEW p \in Paths, files[p] = b PROVE InReach(b)'
  <2>1. p # m.to
    BY <1>1, <1>4
  <2>2. CASE p = m.from
    <3>1. files'[m.to] = b
      BY <1>1, <1>2, <1>4, <2>1, <2>2 DEF Renamed
    <3> QED BY <1>1, <3>1 DEF InReach
  <2>3. CASE p # m.from
    <3>1. files'[p] = b
      BY <1>1, <1>2, <1>4, <2>1, <2>3 DEF Renamed
    <3> QED BY <3>1 DEF InReach
  <2> QED BY <2>2, <2>3
<1> QED BY <1>3, <1>4 DEF InReach

\* What is trashed is in the bin.
LEMMA TrashingKeepsFiles ==
    ASSUME KeptInv, NEW b \in Books, InReach(b), Trashes
    PROVE  InReach(b)'
<1>0. files \in [Paths -> Contents]
  BY DEF KeptInv, Typed
<1>1. PICK q \in Paths : Trashed(q)
  BY DEF Trashes
<1>2. bin' = bin \cup {files[q]} /\ files' = [files EXCEPT ![q] = NoFile]
  BY <1>1 DEF Trashed
<1>3. CASE b \in bin
  BY <1>2, <1>3 DEF InReach
<1>4. ASSUME NEW p \in Paths, files[p] = b PROVE InReach(b)'
  <2>1. CASE p = q
    BY <1>2, <1>4, <2>1 DEF InReach
  <2>2. CASE p # q
    <3>1. files'[p] = b
      BY <1>0, <1>2, <1>4, <2>2
    <3> QED BY <3>1 DEF InReach
  <2> QED BY <2>1, <2>2
<1> QED BY <1>3, <1>4 DEF InReach

\* A run or an Undo loses no book's file, for every library, every set of answers and
\* every interleaving with other programs, failing calls and crashes: a move is made to
\* a path at which no book's file lies, and what is overwritten was trashed first
\* (process_books, process_duplicate_book and UndoMover of mover.rs).
THEOREM FilesAreKept == Spec => KeptOrBinned
<1> DEFINE Lost(b) == InReach(b) /\ ~InReach(b)'
           Step == \A b \in Books : Lost(b) => others' # others \/ Planning
<1>1. KeptInv /\ others \in Nat /\ [Next]_vars => Step
  <2> SUFFICES ASSUME KeptInv, others \in Nat, [Next]_vars, NEW b \in Books, Lost(b), ~Planning
               PROVE  others' # others
    OBVIOUS
  <2>1. ASSUME UNCHANGED <<files, bin>> PROVE FALSE
    BY <2>1 DEF InReach
  <2>2. ~QuietSteps
    BY <2>1, QuietStepsLeaveFiles
  <2>3. ~RenameInPlace
    BY DEF RenameInPlace
  <2>4. ~(MoveBook \/ RestoreBook)
    <3> SUFFICES ASSUME MoveBook \/ RestoreBook PROVE FALSE
      OBVIOUS
    <3>1. Delivers(job.at) /\ job.pc = "move"
      BY MovesDeliver
    <3>2. job.at \in Moves /\ files[job.at.to] \in {NoFile, Foreign}
      BY <3>1 DEF KeptInv, Typed, FreeInv
    <3> QED BY <3>1, <3>2, MovesKeepFiles
  <2>5. ~(UndoDuplicate \/ \E always \in BOOLEAN : AnswerOverwrite(always))
    BY <2>1, OverwritesTrash, TrashingKeepsFiles
  <2>6. ASSUME NEW p \in Paths, OtherChanges(p) PROVE others' # others
    BY <2>6 DEF OtherChanges
  <2>7. ~UNCHANGED vars
    BY <2>1 DEF vars
  <2> QED BY <2>2, <2>3, <2>4, <2>5, <2>6, <2>7, NextCases
<1>2. KeptInv /\ others \in Nat /\ [Next]_vars => [Step]_vars
  BY <1>1
<1> HIDE DEF Step
<1>3. Spec => [][Step]_vars
  BY <1>2, KeptInvariant, PTL DEF Spec
<1>4. [][Step]_vars => KeptOrBinned
  BY PTL DEF KeptOrBinned, Step
<1> QED BY <1>3, <1>4, PTL

--------------------------------------------------------------------------------
(* Books are where their files are.                                        *)

Settled == Located /\ ApartInv /\ TodoInv /\ LogInv /\ Unwound(undo)

AsLanding == Landed = Landing(library, job.applies)

\* A landing is a fold of the results of the job.
LEMMA IsLanding == AsLanding
  BY Zenon DEF AsLanding, Landed, Landing

\* The same, now and after a step.
LEMMA LandedIs == /\ Landed = Landing(library, job.applies)
                  /\ Landed' = Landing(library', job'.applies)
<1>1. AsLanding'
  BY IsLanding, PTL
<1> QED BY <1>1, IsLanding DEF AsLanding

\* Only a crash makes a step that moves nothing count.
LEMMA QuietStepsStayQuiet == QuietSteps => UNCHANGED <<touched, crashed>> \/ Crash
<1>1. \A target : Organize(target) => UNCHANGED <<touched, crashed>>
  BY DEF Organize
<1>2. \A always : AnswerCancel(always) => UNCHANGED <<touched, crashed>>
  BY DEF AnswerCancel, Aside
<1>3. \A always : AnswerRename(always) => UNCHANGED <<touched, crashed>>
  BY DEF AnswerRename, Aside
<1>4. Undo \/ Land \/ SaveLibrary => UNCHANGED <<touched, crashed>>
  BY DEF Undo, Land, SaveLibrary
<1>5. PlanBook \/ Planned \/ ProcessBook \/ MoveFails \/ FirstLoopDone
      => UNCHANGED <<touched, crashed>>
  BY DEF PlanBook, Planned, ProcessBook, MoveFails, FirstLoopDone, Aside
<1>6. ProcessDuplicate \/ SecondLoopDone \/ WriteUndo \/ RunCancelled \/ UndoItem
      => UNCHANGED <<touched, crashed>>
  BY DEF ProcessDuplicate, SecondLoopDone, WriteUndo, RunCancelled, UndoItem, Aside
<1> QED BY <1>1, <1>2, <1>3, <1>4, <1>5, <1>6 DEF QuietSteps

\* What was overwritten or changed by other programs is never undone.
LEMMA DeliveriesStayPeaceful ==
    ASSUME KeptInv, NEW m \in Moves, Delivers(m), Peaceful'
    PROVE  Peaceful
<1>1. /\ files \in [Paths -> Contents] /\ m.from \in Paths /\ m.to \in Paths
      /\ \A b \in Books : b # NoFile
  BY JobFacts, ConstantsAssumption DEF KeptInv, Typed, Books, NoFile
<1>2. bin' = bin /\ touched' = touched /\ files' = Renamed(m.from, m.to)
  BY DEF Delivers
<1>3. bin = {} /\ touched = {} /\ \A b \in Books : \E p \in Paths : files'[p] = b
  BY <1>2 DEF Peaceful, InReach
<1>4. ASSUME NEW b \in Books PROVE InReach(b)
  <2>1. PICK p \in Paths : files'[p] = b
    BY <1>3
  <2>2. files[p] = b \/ files[m.from] = b
    BY <1>1, <1>2, <2>1 DEF Renamed
  <2> QED BY <1>1, <2>2 DEF InReach
<1> QED BY <1>3, <1>4 DEF Peaceful

\* Nor is what would make a landing incomplete.
LEMMA DeliveriesStayQuiet ==
    ASSUME KeptInv, NEW m \in Moves, Delivers(m), Quiet'
    PROVE  Quiet
BY DeliveriesStayPeaceful DEF Quiet, Delivers

\* Steps that move no file and leave the results of the job as they are.
LEMMA CarryingSettles ==
    /\ Carries /\ UNCHANGED <<files, library>>
    /\ undo' = undo \/ (~job.undoing /\ undo' = job.log)
    /\ Settled
    => Settled'
<1> SUFFICES ASSUME Carries, UNCHANGED <<files, library>>,
                    undo' = undo \/ (~job.undoing /\ undo' = job.log), Settled
             PROVE  Settled'
  OBVIOUS
<1>1. Landed' = Landed
  BY LandedIs DEF Carries
<1>2. Located'
  BY <1>1 DEF Settled, Located
<1>3. ApartInv'
  BY DEF Settled, Carries
<1>4. job'.undoing = job.undoing /\ job'.log = job.log
  BY DEF Carries
<1>5. \A m \in Pending' : \E x \in Pending :
         x.book = m.book /\ x.from = m.from /\ (job.undoing => x = m)
  BY DEF Carries
<1>6. TodoInv'
  BY <1>1, <1>4, <1>5 DEF Settled, TodoInv
<1>7. LogInv'
  BY <1>1, <1>4, <1>5 DEF Settled, LogInv
<1>8. Unwound(undo')
  BY DEF Settled, LogInv
<1> QED BY <1>2, <1>3, <1>6, <1>7, <1>8 DEF Settled

\* A log grows by a move from where no earlier one ended.
LEMMA LoggedApart ==
    ASSUME NEW s \in Seq(Entries), NEW from \in Paths, NEW to \in Paths, from # to, Unwound(s),
           \A i \in DOMAIN s : s[i].to # from /\ s[i].to # to
    PROVE  /\ Record(s, from, to) = Append(s, [from |-> from, to |-> to])
           /\ Unwound(Record(s, from, to))
<1> DEFINE e == [from |-> from, to |-> to]
           t == Append(s, e)
<1>1. {i \in DOMAIN s : s[i].to = from} = {}
  OBVIOUS
<1>2. Record(s, from, to) = t
  BY <1>1, Zenon DEF Record
<1>3. e \in Entries /\ e.from = from /\ e.to = to
  BY DEF Entries
<1> HIDE DEF e
<1>4. /\ DOMAIN s = 1..Len(s) /\ DOMAIN t = 1..(Len(s) + 1) /\ t[Len(s) + 1] = e
      /\ Len(s) \in Nat /\ \A i \in 1..Len(s) : t[i] = s[i]
  BY <1>3
<1> HIDE DEF t
<1>5. Unwound(t)
  <2> SUFFICES ASSUME NEW i \in DOMAIN t, NEW j \in DOMAIN t
               PROVE  (t[i].to = t[j].to => i = j) /\ (i <= j => t[j].from # t[i].to)
    BY DEF Unwound
  <2>1. \A k \in DOMAIN t : k \in DOMAIN s \/ k = Len(s) + 1
    BY <1>4
  <2>2. CASE i \in DOMAIN s /\ j \in DOMAIN s
    BY <1>4, <2>2 DEF Unwound
  <2>3. CASE i \in DOMAIN s /\ j = Len(s) + 1
    BY <1>3, <1>4, <2>3
  <2>4. CASE i = Len(s) + 1 /\ j \in DOMAIN s
    BY <1>3, <1>4, <2>4
  <2>5. CASE i = Len(s) + 1 /\ j = Len(s) + 1
    BY <1>3, <1>4, <2>5
  <2> QED BY <2>1, <2>2, <2>3, <2>4, <2>5
<1> QED BY <1>2, <1>5 DEF e, t

\* A move of a book's file, or of a file of no book, to where no book's file lies.
LEMMA DeliverySettles ==
    ASSUME KeptInv, Settled, NEW m \in Moves, Delivers(m), files[m.to] \in {NoFile, Foreign}
    PROVE  Settled'
<1>1. /\ files \in [Paths -> Contents] /\ m.from \in Paths /\ m.to \in Paths
      /\ m.book \in 0..LastBook /\ (m.book # NoBook => m.book \in Books)
      /\ \A b \in Books : b # NoFile /\ b # Foreign /\ b # NoBook
      /\ library \in Libraries /\ job.applies \in Seq(Applies)
      /\ job.undoing \in BOOLEAN /\ (~job.undoing => job.log \in Seq(Entries))
      /\ ~job.undoing => \A x \in Pending : x.book # NoBook
  BY JobFacts, ConstantsAssumption DEF KeptInv, Typed, Books, NoFile, NoBook, Foreign
<1>2. /\ m \in Pending /\ Exists(m.from) /\ files' = Renamed(m.from, m.to)
      /\ library' = library /\ undo' = undo /\ Pending' \subseteq Pending
      /\ job'.undoing = job.undoing
  BY DEF Delivers
<1>3. Landed \in Libraries
  BY <1>1, LandedIs, LandingType
<1>4. \A c \in Books : /\ Landed[c] \in Paths /\ files[Landed[c]] = c /\ Landed[c] # NoPath
                       /\ \A p \in Paths : files[p] = c => p = Landed[c]
  <2>1. \A p \in Paths : p # NoPath
    BY ConstantsAssumption DEF Paths, NoPath
  <2> QED BY <2>1 DEF Settled, Located
<1>5. /\ m.book # NoBook => m.from = Landed[m.book]
      /\ m.book = NoBook => \A c \in Books : Landed[c] # m.from
      /\ job.undoing => \A x \in Pending : m.to # x.from
  BY <1>2 DEF Settled, TodoInv
<1>6. \A c \in Books : Landed[c] # m.to
  BY <1>1, <1>4
<1>7. /\ m.book # NoBook => /\ Landed' \in Libraries /\ Landed'[m.book] = m.to
                            /\ m.from # m.to
      /\ \A c \in Books : c # m.book => Landed'[c] = Landed[c]
  <2>1. CASE m.book = NoBook
    BY <1>1, <1>2, <2>1, LandedIs DEF Delivers
  <2>2. CASE m.book # NoBook
    <3> DEFINE a == [book |-> m.book, path |-> m.to]
    <3>1. a \in Applies /\ a.book = m.book /\ a.path = m.to
      BY <1>1, <2>2 DEF Applies, Paths
    <3>2. job'.applies = Append(job.applies, a)
      BY <2>2 DEF Delivers
    <3> HIDE DEF a
    <3>3. Landed' = Applied(Landed, a)
      BY <1>1, <1>2, <3>1, <3>2, LandedIs, LandingAppend
    <3>4. Landed' = [Landed EXCEPT ![m.book] = m.to]
      BY <1>1, <1>4, <2>2, <3>1, <3>3 DEF Applied
    <3>5. m.to \in 0..(2 * LastName)
      BY <1>1 DEF Paths
    <3>6. m.book \in Books /\ Landed \in [Books -> 0..(2 * LastName)]
      BY <1>1, <1>3, <2>2 DEF Libraries
    <3>7. m.from # m.to
      BY <1>5, <1>6, <2>2, <3>6
    <3> QED BY <3>4, <3>5, <3>6, <3>7 DEF Libraries
  <2> QED BY <2>1, <2>2
<1>8. ASSUME NEW x \in Pending' PROVE x \in Pending /\ x.from # m.from
  BY <1>2 DEF Delivers, Settled
<1>9. ASSUME NEW x \in Pending', x.book # NoBook PROVE x.book # m.book /\ x.from = Landed'[x.book]
  <2>1. x \in Pending /\ x.from # m.from /\ x.from = Landed[x.book]
    BY <1>8, <1>9 DEF Settled, TodoInv
  <2>2. x.book # m.book
    BY <1>5, <1>9, <2>1
  <2>3. x.book \in Books
    <3>1. x \in Moves
      BY <2>1 DEF KeptInv, Typed, Pending, Range
    <3> QED BY <1>9, <3>1, JobFacts DEF KeptInv
  <2> QED BY <1>7, <2>1, <2>2, <2>3
<1>10. Located'
  <2> SUFFICES ASSUME NEW c \in Books
               PROVE  /\ Landed'[c] \in Paths
                      /\ \A p \in Paths : files'[p] = c <=> p = Landed'[c]
    BY DEF Located
  <2>1. CASE c = m.book
    <3>1. Landed'[c] = m.to /\ m.from # m.to /\ m.from = Landed[c]
      BY <1>1, <1>5, <1>7, <2>1
    <3>2. files'[m.to] = c /\ files'[m.from] = NoFile
      BY <1>1, <1>2, <1>4, <3>1 DEF Renamed
    <3>3. ASSUME NEW p \in Paths, p # m.to, p # m.from PROVE files'[p] # c
      BY <1>1, <1>2, <1>4, <3>1, <3>3 DEF Renamed
    <3> QED BY <1>1, <3>1, <3>2, <3>3
  <2>2. CASE c # m.book
    <3>1. Landed'[c] = Landed[c] /\ Landed[c] # m.to
      BY <1>6, <1>7, <2>2
    <3>2. files[m.from] # c /\ Landed[c] # m.from
      <4>1. CASE m.book = NoBook
        BY <1>1, <1>4, <1>5, <4>1
      <4>2. CASE m.book # NoBook
        BY <1>1, <1>4, <1>5, <2>2, <4>2
      <4> QED BY <4>1, <4>2
    <3>3. ASSUME NEW p \in Paths PROVE files'[p] = c <=> files[p] = c
      BY <1>1, <1>2, <3>2 DEF Renamed
    <3> QED BY <1>4, <3>1, <3>3
  <2> QED BY <2>1, <2>2
<1>11. TodoInv'
  <2>1. ASSUME NEW x \in Pending', x.book = NoBook, NEW c \in Books PROVE Landed'[c] # x.from
    <3>1. x \in Pending /\ Landed[c] # x.from
      BY <1>8, <2>1 DEF Settled, TodoInv
    <3>2. job.undoing
      BY <1>1, <2>1, <3>1
    <3>3. m.to # x.from
      BY <1>5, <3>1, <3>2
    <3>4. CASE c = m.book
      BY <1>1, <1>7, <3>3, <3>4
    <3>5. CASE c # m.book
      BY <1>7, <3>1, <3>5
    <3> QED BY <3>4, <3>5
  <2>2. ASSUME job.undoing, NEW x \in Pending', NEW y \in Pending' PROVE x.to # y.from
    BY <1>8, <2>2 DEF Settled, TodoInv
  <2> QED BY <1>2, <1>9, <2>1, <2>2 DEF TodoInv
<1>12. LogInv'
  <2> SUFFICES ASSUME ~job.undoing
               PROVE  /\ Unwound(job'.log)
                      /\ \A i \in DOMAIN job'.log : \E c \in Books :
                            job'.log[i].to = Landed'[c] /\ \A x \in Pending' : x.book # c
    BY <1>2 DEF LogInv
  <2>1. /\ m.book # NoBook /\ m.book \in Books /\ job.log \in Seq(Entries)
        /\ Unwound(job.log)
        /\ \A x \in Pending' : x.book # NoBook
    BY <1>1, <1>2 DEF Settled, LogInv
  <2>2. ASSUME NEW i \in DOMAIN job.log
        PROVE  /\ \E c \in Books : /\ job.log[i].to = Landed'[c]
                                   /\ \A x \in Pending' : x.book # c
               /\ job.log[i].to # m.from /\ job.log[i].to # m.to
    <3>1. PICK c \in Books : job.log[i].to = Landed[c] /\ \A x \in Pending : x.book # c
      BY <2>2 DEF Settled, LogInv
    <3>2. c # m.book
      BY <1>2, <3>1
    <3>3. Landed[c] # m.from
      BY <1>4, <1>5, <2>1, <3>2
    <3> QED BY <1>2, <1>6, <1>7, <3>1, <3>2, <3>3
  <2>3. CASE job'.log = job.log
    BY <2>1, <2>2, <2>3
  <2>4. CASE job'.log = Record(job.log, m.from, m.to)
    <3> DEFINE s == job.log
               e == [from |-> m.from, to |-> m.to]
    <3>1. job'.log = Append(s, e) /\ Unwound(job'.log)
      BY <1>1, <1>7, <2>1, <2>2, <2>4, LoggedApart
    <3>2. e \in Entries /\ e.to = m.to
      BY <1>1 DEF Entries
    <3> HIDE DEF e
    <3>3. \A i \in DOMAIN job'.log : \/ i \in DOMAIN s /\ job'.log[i] = s[i]
                                     \/ job'.log[i] = e
      BY <2>1, <3>1, <3>2
    <3>4. e.to = Landed'[m.book] /\ \A x \in Pending' : x.book # m.book
      BY <1>7, <1>9, <2>1, <3>2
    <3> QED BY <2>1, <2>2, <3>1, <3>3, <3>4
  <2> QED BY <2>3, <2>4 DEF Delivers
<1> QED BY <1>2, <1>10, <1>11, <1>12 DEF Delivers, Settled

\* A job begins with moves that are apart.
LEMMA StartSettles ==
    /\ KeptInv /\ (job.pc = "idle" => job = Idle) /\ Settled
    /\ Undo \/ \E target \in Targets : Organize(target)
    => Settled'
<1> SUFFICES ASSUME KeptInv, job.pc = "idle" => job = Idle, Settled,
                    Undo \/ \E target \in Targets : Organize(target)
             PROVE  Settled'
  OBVIOUS
<1>1. /\ job.pc = "idle" /\ UNCHANGED <<files, library, undo>> /\ job'.applies = <<>>
      /\ job'.plan = <<>> /\ job'.held = <<>> /\ job'.pc \notin {"move", "ask"}
  BY StartsKeep
<1>2. library \in Libraries /\ undo \in Seq(Entries)
  BY DEF KeptInv, Typed
<1>3. Landed = library /\ Landed' = library
  <2>1. job.applies = <<>>
    BY <1>1 DEF Idle
  <2> QED BY <1>1, <1>2, <2>1, LandedIs, LandingEmpty
<1>4. Located' /\ Unwound(undo')
  BY <1>1, <1>3 DEF Located, Settled
<1>5. /\ \A c \in Books : library[c] \in Paths
      /\ \A c, d \in Books : library[c] = library[d] => c = d
  BY <1>3 DEF Settled, Located
<1>6. Pending' = Range(job'.left)
  BY <1>1, EmptyRange DEF Pending
<1>7. Apart(job'.left) => ApartInv'
  BY <1>1, EmptyRange DEF ApartInv
<1>8. CASE Undo
  <2> DEFINE todo == Runnable(undo)
  <2>1. job'.left = Restores(todo) /\ job'.undoing
    BY <1>8 DEF Undo, Idle
  <2>2. todo \in Seq(Entries) /\ Free(todo)
    BY <1>2, RunnableType, RunnableIsFree DEF Settled
  <2> HIDE DEF todo
  <2>3. ApartInv'
    BY <1>7, <2>1, <2>2, RestoreFacts
  <2>4. ASSUME NEW m \in Pending'
        PROVE  \E i \in DOMAIN todo : /\ m.from = todo[i].to /\ m.to = todo[i].from
                                      /\ m.book = OwnerIn(library, m.from)
    <3>1. PICK i \in DOMAIN todo : m = RestoreOf(todo, i)
      BY <1>6, <2>1, <2>2, RestoreFacts
    <3> QED BY <2>2, <3>1, RestoreOne
  <2>5. TodoInv'
    <3> SUFFICES ASSUME NEW m \in Pending'
                 PROVE  /\ m.book # NoBook => m.from = library[m.book]
                        /\ m.book = NoBook => \A c \in Books : library[c] # m.from
                        /\ \A x \in Pending' : m.to # x.from
      BY <1>3 DEF TodoInv
    <3>1. /\ m.book # NoBook => m.from = library[m.book]
          /\ m.book = NoBook => \A c \in Books : library[c] # m.from
      BY <2>4, Owners
    <3>2. ASSUME NEW x \in Pending' PROVE m.to # x.from
      BY <2>2, <2>4 DEF Free
    <3> QED BY <3>1, <3>2
  <2>6. LogInv'
    BY <2>1 DEF LogInv
  <2> QED BY <1>4, <2>3, <2>5, <2>6 DEF Settled
<1>9. ASSUME NEW target \in Targets, Organize(target) PROVE Settled'
  <2> DEFINE all == [b \in Books |-> [book |-> b, from |-> library[b], to |-> target[b]]]
             AnyMove == [book : Books, from : 0..(2 * LastName), to : 0..LastName]
  <2>1. all \in Seq(AnyMove)
    BY <1>2, ConstantsAssumption DEF Books, Libraries, Targets
  <2>2. /\ job'.left = Chosen(all, Moves) /\ ~job'.undoing /\ job'.log = <<>>
    BY <1>9 DEF Organize, Idle
  <2>3. Apart(all)
    BY <1>5 DEF Apart
  <2>4. \A x \in Range(all) : x.book \in Books /\ x.from = library[x.book]
    BY DEF Range
  <2> HIDE DEF all, AnyMove
  <2>5. Apart(Chosen(all, Moves)) /\ Range(Chosen(all, Moves)) \subseteq Range(all)
    BY <2>1, <2>3, ChosenFacts
  <2>6. \A b \in Books : b # NoBook
    BY ConstantsAssumption DEF Books, NoBook
  <2>7. TodoInv'
    BY <1>3, <1>6, <2>2, <2>4, <2>5, <2>6 DEF TodoInv
  <2>8. LogInv'
    BY <2>2, EmptyRange DEF LogInv, Unwound
  <2> QED BY <1>4, <1>7, <2>2, <2>5, <2>7, <2>8 DEF Settled
<1> QED BY <1>8, <1>9

\* A landing makes good what was to be landed.
LEMMA LandSettles == KeptInv /\ Settled /\ Land => Settled'
<1> SUFFICES ASSUME KeptInv, Settled, Land PROVE Settled'
  OBVIOUS
<1>1. library' = Landed /\ job' = Idle /\ UNCHANGED <<files, undo>>
  BY DEF Land
<1>2. Landed \in Libraries
  BY LandedIs, LandingType DEF KeptInv, Typed
<1>3. /\ job'.applies = <<>> /\ job'.left = <<>> /\ job'.plan = <<>> /\ job'.held = <<>>
      /\ job'.pc = "idle" /\ job'.log = <<>> /\ ~job'.undoing
  BY <1>1 DEF Idle
<1>4. Landed' = Landed
  BY <1>1, <1>2, <1>3, LandedIs, LandingEmpty
<1>5. Located'
  BY <1>1, <1>4 DEF Settled, Located
<1>6. Pending' = {}
  BY <1>3, EmptyRange DEF Pending
<1>7. ApartInv' /\ TodoInv' /\ LogInv'
  BY <1>3, <1>6, EmptyRange DEF ApartInv, TodoInv, LogInv, Unwound
<1> QED BY <1>1, <1>5, <1>7 DEF Settled

\* The program starts with every book at its file.
LEMMA SettledInit == Init => SettledInv
<1> SUFFICES ASSUME Init PROVE SettledInv
  OBVIOUS
<1>1. KeptInv
  BY KeptInit
<1>2. /\ job = Idle /\ library = Home /\ undo = <<>>
      /\ files = [p \in Paths |-> IF p \in Books THEN p ELSE NoFile]
  BY DEF Init
<1>3. /\ job.applies = <<>> /\ job.left = <<>> /\ job.plan = <<>> /\ job.held = <<>>
      /\ job.pc = "idle" /\ job.log = <<>> /\ ~job.undoing
  BY <1>2 DEF Idle
<1>4. Landed = Home
  BY <1>1, <1>2, <1>3, LandedIs, LandingEmpty DEF KeptInv, Typed
<1>5. Located
  <2>1. \A b \in Books : b \in Paths /\ b # NoFile
    BY ConstantsAssumption DEF Books, Paths, NoFile
  <2> QED BY <1>2, <1>4, <2>1 DEF Located, Home
<1>6. Pending = {}
  BY <1>3, EmptyRange DEF Pending
<1>7. ApartInv /\ TodoInv /\ LogInv
  BY <1>3, <1>6, EmptyRange DEF ApartInv, TodoInv, LogInv, Unwound
<1> QED BY <1>1, <1>2, <1>5, <1>7 DEF SettledInv, Unwound

\* One step of the invariant.
LEMMA SettledStep == SettledInv /\ [Next]_vars => SettledInv'
<1> SUFFICES ASSUME SettledInv, [Next]_vars PROVE SettledInv'
  OBVIOUS
<1>0. KeptInv /\ KeptInv' /\ (job.pc = "idle" => job = Idle) /\ (Quiet => Settled)
  BY KeptStep DEF SettledInv, Settled
<1>1. SUFFICES (job'.pc = "idle" => job' = Idle) /\ (Quiet' => Settled')
  BY <1>0 DEF SettledInv, Settled
<1>2. ASSUME Carries, UNCHANGED <<files, bin, library>>, UNCHANGED <<touched, crashed>>,
             undo' = undo \/ (~job.undoing /\ undo' = job.log)
      PROVE  (job'.pc = "idle" => job' = Idle) /\ (Quiet' => Settled')
  <2>1. Quiet' => Quiet
    BY <1>2 DEF Quiet, Peaceful, InReach
  <2>2. job'.pc # "idle"
    BY <1>2 DEF Carries
  <2> QED BY <1>0, <1>2, <2>1, <2>2, CarryingSettles
<1>3. ASSUME NEW m \in Moves, Delivers(m), Quiet' => files[m.to] \in {NoFile, Foreign}
      PROVE  (job'.pc = "idle" => job' = Idle) /\ (Quiet' => Settled')
  <2>1. job'.pc # "idle"
    BY <1>3 DEF Delivers
  <2> QED BY <1>0, <1>3, <2>1, DeliveriesStayQuiet, DeliverySettles
<1>4. ASSUME UNCHANGED <<files, bin, library, undo, job, touched, crashed>>
      PROVE  (job'.pc = "idle" => job' = Idle) /\ (Quiet' => Settled')
  <2>1. Quiet' => Quiet
    BY <1>4 DEF Quiet, Peaceful, InReach
  <2>2. Landed' = Landed
    BY <1>4, LandedIs
  <2>3. Settled => Settled'
    BY <1>4, <2>2 DEF Settled, Located, ApartInv, TodoInv, LogInv, Pending
  <2> QED BY <1>0, <1>4, <2>1, <2>3
<1>6. CASE Undo \/ \E target \in Targets : Organize(target)
  <2>1. UNCHANGED <<files, bin, touched, crashed>> /\ job'.pc # "idle"
    BY <1>0, <1>6, StartsKeep
  <2>2. Quiet' => Quiet
    BY <2>1 DEF Quiet, Peaceful, InReach
  <2> QED BY <1>0, <1>6, <2>1, <2>2, StartSettles
<1>7. CASE Land
  <2>1. UNCHANGED <<files, bin, touched, crashed>> /\ job' = Idle
    BY <1>7 DEF Land
  <2>2. Quiet' => Quiet
    BY <2>1 DEF Quiet, Peaceful, InReach
  <2> QED BY <1>0, <1>7, <2>1, <2>2, LandSettles
<1>8. CASE Crash
  <2>1. job' = Idle /\ crashed'
    BY <1>8 DEF Crash
  <2> QED BY <2>1 DEF Quiet
<1>9. CASE SaveLibrary \/ UNCHANGED vars
  BY <1>4, <1>9 DEF SaveLibrary, vars
<1>10. CASE \E p \in Paths : OtherChanges(p)
  <2>1. touched' # {} /\ job' = job
    BY <1>10 DEF OtherChanges
  <2> QED BY <1>0, <2>1 DEF Quiet, Peaceful
<1>11. CASE Trashes
  <2>1. bin' # {} /\ job'.pc # "idle"
    BY <1>11 DEF Trashes, Trashed
  <2> QED BY <2>1 DEF Quiet, Peaceful
<1>12. CASE UndoDuplicate \/ \E always \in BOOLEAN : AnswerOverwrite(always)
  BY <1>0, <1>2, <1>11, <1>12, OverwritesTrash
<1>13. CASE MoveBook \/ RestoreBook
  <2>1. Delivers(job.at) /\ job.pc = "move"
    BY <1>0, <1>13, MovesDeliver
  <2>2. job.at \in Moves /\ files[job.at.to] \in {NoFile, Foreign}
    BY <1>0, <2>1 DEF KeptInv, Typed, FreeInv
  <2> QED BY <1>3, <2>1, <2>2
<1>14. CASE RenameInPlace
  <2>1. CASE UNCHANGED <<files, bin, touched, crashed, library, undo>> /\ Carries
    BY <1>2, <2>1
  <2>2. ASSUME NEW m \in Pending, DiffersByCase(m.from, m.to), Delivers(m)
        PROVE  (job'.pc = "idle" => job' = Idle) /\ (Quiet' => Settled')
    <3>1. m \in Moves
      BY <1>0 DEF KeptInv, Typed, Pending, Range
    <3>2. ASSUME Quiet' PROVE files[m.to] \in {NoFile, Foreign}
      <4>1. m.from \in Paths /\ m.to \in Paths /\ files \in [Paths -> Contents]
        BY <1>0, <3>1, JobFacts DEF KeptInv, Typed
      <4>2. Quiet /\ Settled
        BY <1>0, <2>2, <3>1, <3>2, DeliveriesStayQuiet
      <4>3. SUFFICES ASSUME files[m.to] \in Books PROVE FALSE
        <5>1. \A c \in Contents : c \in {NoFile, Foreign} \cup Books
          BY ConstantsAssumption DEF Contents, NoFile, Foreign, Books
        <5> QED BY <4>1, <4>3, <5>1
      <4>4. /\ bin' = {} /\ files' = Renamed(m.from, m.to)
            /\ \E p \in Paths : files'[p] = files[m.to]
        BY <2>2, <3>2, <4>3 DEF Quiet, Peaceful, InReach, Delivers
      <4>5. \A p \in Paths : files[p] = files[m.to] => p = m.to
        BY <4>1, <4>2, <4>3 DEF Settled, Located
      <4>6. files[m.to] # NoFile
        BY <4>3, ConstantsAssumption DEF Books, NoFile
      <4>7. m.from # m.to
        BY <2>2 DEF DiffersByCase
      <4> QED BY <4>1, <4>4, <4>5, <4>6, <4>7 DEF Renamed
    <3> QED BY <1>3, <2>2, <3>1, <3>2
  <2> QED BY <1>0, <1>14, <2>1, <2>2, RecasingDelivers
<1>15. CASE \/ PlanBook \/ Planned \/ ProcessBook \/ MoveFails \/ FirstLoopDone
            \/ ProcessDuplicate \/ SecondLoopDone \/ WriteUndo \/ RunCancelled \/ UndoItem
            \/ \E always \in BOOLEAN : AnswerCancel(always) \/ AnswerRename(always)
  <2>1. Carries
    BY <1>0, <1>15, StepsCarry
  <2>2. UNCHANGED <<files, bin>> /\ (UNCHANGED <<touched, crashed>> \/ Crash)
    BY <1>15, QuietStepsLeaveFiles, QuietStepsStayQuiet DEF QuietSteps
  <2>3. library' = library /\ (undo' = undo \/ (~job.undoing /\ undo' = job.log))
    <3>1. CASE PlanBook \/ Planned \/ ProcessBook \/ MoveFails \/ FirstLoopDone
      BY <3>1 DEF PlanBook, Planned, ProcessBook, MoveFails, FirstLoopDone, Aside
    <3>2. CASE ProcessDuplicate \/ SecondLoopDone \/ RunCancelled \/ UndoItem
      BY <3>2 DEF ProcessDuplicate, SecondLoopDone, RunCancelled, UndoItem, Aside
    <3>3. ASSUME NEW always, AnswerCancel(always) \/ AnswerRename(always)
          PROVE  library' = library /\ undo' = undo
      BY <3>3 DEF AnswerCancel, AnswerRename, Aside
    <3>4. CASE WriteUndo
      BY <1>0, <3>4 DEF WriteUndo, Aside, KeptInv, Typed
    <3> QED BY <1>15, <3>1, <3>2, <3>3, <3>4
  <2> QED BY <1>2, <1>8, <2>1, <2>2, <2>3
<1> QED BY <1>6, <1>7, <1>8, <1>9, <1>10, <1>12, <1>13, <1>14, <1>15, NextCases DEF QuietSteps

\* What a landing will have to make good is kept together by every step.
THEOREM SettledInvariant == Spec => []SettledInv
<1> QED BY SettledInit, SettledStep, PTL DEF Spec

\* As long as nothing was overwritten, no other program was about and the program did
\* not go down, every book is where its own file is whenever no run is under way: for
\* every library and every sequence of runs and Undos, cancelled or failing
\* (apply_to_library of organize.rs, which applies what a run did to a copy of the library).
THEOREM LandedAgree == Spec => []LandedBooksHaveTheirFiles
<1>1. SettledInv => LandedBooksHaveTheirFiles
  <2> SUFFICES ASSUME SettledInv, job.pc = "idle", Quiet
               PROVE  \A b \in Books : library[b] # NoPath /\ files[library[b]] = b
    BY DEF LandedBooksHaveTheirFiles, Quiet
  <2>1. Landed = library
    <3>1. job.applies = <<>> /\ library \in Libraries
      BY DEF SettledInv, Idle, KeptInv, Typed
    <3> QED BY <3>1, LandedIs, LandingEmpty
  <2>2. \A p \in Paths : p # NoPath
    BY ConstantsAssumption DEF Paths, NoPath
  <2> QED BY <2>1, <2>2 DEF SettledInv, Located
<1> QED BY <1>1, SettledInvariant, PTL

--------------------------------------------------------------------------------
(* An Undo puts everything back.                                           *)

\* There is something an Undo can bring back, and all of it is still there.
Live == before # Forgotten /\ Peaceful

\* A book's file lies at one path, and there are only books' files.
Single ==
    \A p, q \in Paths : /\ files[p] # Foreign
                        /\ files[p] \in Books /\ files[p] = files[q] => p = q

\* What a run has done so far is in its log, except for what it renamed in place.
RunLogged ==
    /\ job.books = library
    /\ \A m \in Pending : m.from = library[m.book]
    /\ \A c \in Books : /\ library[c] \in Paths
                        /\ \/ Landed[c] = library[c]
                           \/ DiffersByCase(Landed[c], library[c])
                           \/ \E i \in DOMAIN job.log : /\ job.log[i].from = library[c]
                                                        /\ job.log[i].to = Landed[c]
    /\ \A i \in DOMAIN job.log : \E c \in Books : /\ job.log[i].from = library[c]
                                                  /\ job.log[i].to = Landed[c]

\* A run has moved files and not yet written undo.dat, which tells of another run.
RunUnwritten == ~job.undoing /\ job.log # <<>> /\ job.pc # "land"

\* What is still to be undone.
Residue == IF job.undoing THEN job.log ELSE undo

\* A book is where it is to be, or has an entry in the log that leads there.
Accounted(log, at, home) ==
    \A b \in Books : \/ at[home[b]] = b
                     \/ \E i \in DOMAIN log : log[i].from = home[b] /\ at[log[i].to] = b

\* An entry leads back, and not to where a book is to be.
Backs(log, home) == Free(log) /\ \A i \in DOMAIN log, b \in Books : log[i].to # home[b]

UndoKept ==
    /\ before \in [Books -> Paths]
    /\ Backs(undo, before)
    /\ Residue \in Seq(Entries) /\ Range(Residue) \subseteq Range(undo)
    /\ Accounted(Residue, files, before)
    /\ job.undoing => \A m \in Pending : \E i \in DOMAIN undo : /\ undo[i].from = m.to
                                                                /\ undo[i].to = m.from
    /\ crashed => /\ library = before /\ job.applies = <<>>
                  /\ job.undoing => \A m \in Pending : m.book = NoBook
    /\ undone => Restored

Running == job.pc # "idle" /\ ~job.undoing
Undoing == Live /\ ~Chained /\ ~RunUnwritten

UndoInv ==
    /\ undone => job.pc = "idle"
    /\ Peaceful => Single
    /\ Quiet /\ Running => RunLogged
    /\ Undoing => UndoKept

\* What the steps of a job leave alone.
Bears ==
    /\ job.pc # "idle" /\ job'.pc # "idle" /\ job'.books = job.books
    /\ UNCHANGED <<undo, undone, library, before, touched, crashed>>
    /\ ~job.undoing => job.pc # "land" /\ job'.pc # "land"

\* The steps that move no file, but for the writing of undo.dat.
LEMMA StepsBear ==
    /\ KeptInv
    /\ \/ PlanBook \/ Planned \/ ProcessBook \/ MoveFails \/ FirstLoopDone \/ ProcessDuplicate
       \/ SecondLoopDone \/ RunCancelled \/ UndoItem \/ UndoDuplicate
       \/ \E always \in BOOLEAN :
             AnswerCancel(always) \/ AnswerRename(always) \/ AnswerOverwrite(always)
    => Bears
<1> SUFFICES ASSUME KeptInv,
                    \/ PlanBook \/ Planned \/ ProcessBook \/ MoveFails \/ FirstLoopDone
                    \/ ProcessDuplicate \/ SecondLoopDone \/ RunCancelled \/ UndoItem
                    \/ UndoDuplicate
                    \/ \E always \in BOOLEAN : \/ AnswerCancel(always) \/ AnswerRename(always)
                                               \/ AnswerOverwrite(always)
             PROVE  Bears
  OBVIOUS
<1>0. DOMAIN job = JobFields /\ {"pc", "books"} \subseteq JobFields
  BY DEF KeptInv, Typed, JobFields
<1>1. CASE PlanBook \/ Planned
  BY <1>0, <1>1 DEF PlanBook, Planned, Planning, Aside, Bears
<1>2. CASE ProcessBook \/ MoveFails \/ FirstLoopDone
  BY <1>0, <1>2 DEF ProcessBook, MoveFails, FirstLoopDone, Onward, Aside, Bears
<1>3. CASE ProcessDuplicate \/ SecondLoopDone
  BY <1>0, <1>3 DEF ProcessDuplicate, SecondLoopDone, Aside, Bears
<1>7. CASE RunCancelled
  BY <1>0, <1>7 DEF RunCancelled, Aside, Bears
<1>4. CASE UndoItem \/ UndoDuplicate
  BY <1>0, <1>4 DEF UndoItem, UndoDuplicate, Aside, Bears
<1>5. ASSUME NEW always \in BOOLEAN, AnswerCancel(always) \/ AnswerRename(always)
      PROVE  Bears
  BY <1>0, <1>5 DEF AnswerCancel, AnswerRename, Answered, Aside, Bears
<1>6. ASSUME NEW always \in BOOLEAN, AnswerOverwrite(always)
      PROVE  Bears
  BY <1>0, <1>6 DEF AnswerOverwrite, Answered, Aside, Bears
<1> QED BY <1>1, <1>2, <1>3, <1>4, <1>5, <1>6, <1>7

\* The ways a peaceful state came about.
LEMMA StaysPeaceful == UNCHANGED <<files, bin, touched>> => Peaceful' = Peaceful
<1> SUFFICES ASSUME UNCHANGED <<files, bin, touched>> PROVE Peaceful' = Peaceful
  OBVIOUS
<1>1. \A b \in Books : InReach(b)' <=> InReach(b)
  BY DEF InReach
<1> QED BY <1>1 DEF Peaceful

\* A step that moves no file.
LEMMA CarryingKeepsUndo ==
    UndoInv /\ Carries /\ Bears /\ UNCHANGED <<files, bin>> => UndoInv'
<1> SUFFICES ASSUME UndoInv, Carries, Bears, UNCHANGED <<files, bin>> PROVE UndoInv'
  OBVIOUS
<1>1. /\ job'.applies = job.applies /\ job'.log = job.log /\ job'.undoing = job.undoing
      /\ \A m \in Pending' : \E x \in Pending :
            x.book = m.book /\ x.from = m.from /\ (job.undoing => x = m)
  BY DEF Carries
<1>2. /\ job.pc # "idle" /\ job'.pc # "idle" /\ job'.books = job.books
      /\ UNCHANGED <<undo, undone, library, before, touched, crashed>>
      /\ ~job.undoing => job.pc # "land" /\ job'.pc # "land"
  BY DEF Bears
<1>3. Landed' = Landed
  BY <1>1, <1>2, LandedIs
<1>4. Peaceful' = Peaceful
  BY <1>2, StaysPeaceful
<1>5. Peaceful' => Single'
  BY <1>4 DEF UndoInv, Single
<1>6. (Quiet /\ Running)' => RunLogged'
  <2>1. (Quiet /\ Running)' => Quiet /\ Running
    BY <1>1, <1>2, <1>4 DEF Quiet, Running
  <2> QED BY <1>1, <1>2, <1>3, <2>1 DEF UndoInv, RunLogged
<1>7. Undoing' => UndoKept'
  <2>1. RunUnwritten' = RunUnwritten
    BY <1>1, <1>2 DEF RunUnwritten
  <2>2. Undoing' => Undoing
    BY <1>2, <1>4, <2>1 DEF Undoing, Live, Chained
  <2>3. SUFFICES ASSUME UndoKept PROVE UndoKept'
    BY <2>2 DEF UndoInv
  <2>4. Residue' = Residue
    BY <1>1, <1>2 DEF Residue
  <2>5. ~undone
    BY <1>2 DEF UndoInv
  <2>6. job.undoing => \A m \in Pending' : m \in Pending
    BY <1>1
  <2>7. /\ undo' = undo /\ before' = before /\ library' = library /\ crashed' = crashed
        /\ undone' = undone /\ files' = files
    BY <1>2
  <2>8. /\ before' \in [Books -> Paths] /\ Backs(undo', before')
        /\ Residue' \in Seq(Entries) /\ Range(Residue') \subseteq Range(undo')
        /\ Accounted(Residue', files', before')
    BY <2>3, <2>4, <2>7 DEF UndoKept
  <2>9. job'.undoing => \A m \in Pending' : \E i \in DOMAIN undo' : /\ undo'[i].from = m.to
                                                                     /\ undo'[i].to = m.from
    BY <1>1, <2>3, <2>6, <2>7 DEF UndoKept
  <2>10. crashed' => /\ library' = before' /\ job'.applies = <<>>
                     /\ job'.undoing => \A m \in Pending' : m.book = NoBook
    BY <1>1, <2>3, <2>6, <2>7 DEF UndoKept
  <2>11. ~undone'
    BY <2>5, <2>7
  <2> QED BY <2>8, <2>9, <2>10, <2>11 DEF UndoKept
<1> QED BY <1>2, <1>5, <1>6, <1>7 DEF UndoInv

\* After a move there are only books' files still, each at one path.
LEMMA MovesKeepSingle ==
    ASSUME KeptInv, Single, NEW m \in Moves, files' = Renamed(m.from, m.to)
    PROVE  Single'
<1>1. /\ files \in [Paths -> Contents] /\ m.from \in Paths /\ m.to \in Paths
      /\ NoFile \notin Books /\ NoFile # Foreign
  BY JobFacts, ConstantsAssumption DEF KeptInv, Typed, Books, NoFile, Foreign
<1>2. \A p \in Paths : files'[p] = IF p = m.from THEN NoFile
                                   ELSE IF p = m.to THEN files[m.from] ELSE files[p]
  BY <1>1 DEF Renamed
<1> QED BY <1>1, <1>2 DEF Single

\* A record is never nothing.
LEMMA RecordsSomething ==
    ASSUME NEW s \in Seq(Entries), NEW from \in Paths, NEW to \in Paths
    PROVE  Record(s, from, to) # <<>>
<1>1. CASE \A i \in DOMAIN s : s[i].to # from
  <2>1. {i \in DOMAIN s : s[i].to = from} = {}
    BY <1>1
  <2>2. Record(s, from, to) = Append(s, [from |-> from, to |-> to])
    BY <2>1, Zenon DEF Record
  <2> QED BY <2>2
<1>2. CASE ~\A i \in DOMAIN s : s[i].to # from
  <2>1. PICK k \in DOMAIN s : Record(s, from, to) = Merged(s, k, to)
    BY <1>2, RecordMerges
  <2>2. DOMAIN Merged(s, k, to) = DOMAIN s /\ DOMAIN s # {}
    BY DEF Merged
  <2>3. DOMAIN <<>> = {}
    OBVIOUS
  <2> QED BY <2>1, <2>2, <2>3
<1> QED BY <1>1, <1>2

\* A run's move goes into its log, unless it is a rename in place.
LEMMA DeliveryIsLogged ==
    ASSUME KeptInv, Settled, Settled', RunLogged, ~job.undoing, NEW m \in Moves, Delivers(m),
           job'.books = job.books,
           \/ job'.log = Record(job.log, m.from, m.to)
           \/ job'.log = job.log /\ DiffersByCase(m.to, m.from)
    PROVE  RunLogged'
<1>1. /\ m \in Pending /\ Exists(m.from) /\ files' = Renamed(m.from, m.to)
      /\ library' = library /\ Pending' \subseteq Pending
      /\ job'.applies = IF m.book = NoBook THEN job.applies
                        ELSE Append(job.applies, [book |-> m.book, path |-> m.to])
  BY DEF Delivers
<1>2. /\ m.book # NoBook /\ m.book \in Books /\ job.log \in Seq(Entries)
      /\ m.from \in Paths /\ m.to \in Paths
      /\ library \in Libraries /\ job.applies \in Seq(Applies)
      /\ NoPath \notin Paths
  BY <1>1, JobFacts, ConstantsAssumption DEF KeptInv, Typed, Paths, NoPath
<1>3. m.from = library[m.book] /\ m.from = Landed[m.book]
  BY <1>1, <1>2 DEF RunLogged, Settled, TodoInv
<1>4. Landed \in Libraries /\ \A c \in Books : /\ Landed[c] \in Paths
                                               /\ \A d \in Books : Landed[c] = Landed[d] => c = d
  BY <1>2, LandedIs, LandingType DEF Settled, Located
<1>5. Landed'[m.book] = m.to /\ \A c \in Books : c # m.book => Landed'[c] = Landed[c]
  <2> DEFINE a == [book |-> m.book, path |-> m.to]
  <2>1. a \in Applies /\ a.book = m.book /\ a.path = m.to
    BY <1>2 DEF Applies, Paths
  <2>2. job'.applies = Append(job.applies, a)
    BY <1>1, <1>2
  <2> HIDE DEF a
  <2>3. Landed' = Applied(Landed, a)
    BY <1>1, <1>2, <2>1, <2>2, LandedIs, LandingAppend
  <2>4. Landed[a.book] # NoPath
    BY <1>2, <1>4, <2>1
  <2>5. Landed' = [Landed EXCEPT ![m.book] = m.to]
    BY <2>1, <2>3, <2>4 DEF Applied
  <2> QED BY <1>2, <1>4, <2>5 DEF Libraries
<1>6. \A i \in DOMAIN job.log : job.log[i].to # Landed[m.book]
  <2> SUFFICES ASSUME NEW i \in DOMAIN job.log PROVE job.log[i].to # Landed[m.book]
    OBVIOUS
  <2>1. PICK c \in Books : job.log[i].to = Landed[c] /\ \A x \in Pending : x.book # c
    BY DEF Settled, LogInv
  <2> QED BY <1>1, <1>2, <1>4, <2>1
<1>7. ASSUME NEW c \in Books, c # m.book
      PROVE  \/ Landed'[c] = library[c] \/ DiffersByCase(Landed'[c], library[c])
             \/ \E i \in DOMAIN job.log : /\ job.log[i].from = library[c]
                                          /\ job.log[i].to = Landed'[c]
  BY <1>5, <1>7 DEF RunLogged
<1>8. ASSUME NEW i \in DOMAIN job.log
      PROVE  \E c \in Books : job.log[i].from = library[c] /\ job.log[i].to = Landed'[c]
  <2>1. PICK c \in Books : job.log[i].from = library[c] /\ job.log[i].to = Landed[c]
    BY DEF RunLogged
  <2>2. c # m.book
    BY <1>6, <2>1
  <2> QED BY <1>5, <2>1, <2>2
<1>9. /\ job'.books = library' /\ \A x \in Pending' : x.from = library'[x.book]
      /\ \A c \in Books : library'[c] \in Paths
  BY <1>1 DEF RunLogged
<1>10. CASE job'.log = job.log /\ DiffersByCase(m.to, m.from)
  <2>1. DiffersByCase(Landed'[m.book], library[m.book])
    BY <1>3, <1>5, <1>10
  <2> QED BY <1>1, <1>7, <1>8, <1>9, <1>10, <2>1 DEF RunLogged
<1>11. CASE job'.log = Record(job.log, m.from, m.to)
  <2> DEFINE e == [from |-> m.from, to |-> m.to]
             s == job.log
             t == Append(s, e)
  <2>1. {i \in DOMAIN s : s[i].to = m.from} = {}
    BY <1>3, <1>6
  <2>2. job'.log = t
    BY <1>11, <2>1, Zenon DEF Record
  <2>3. e \in Entries /\ e.from = m.from /\ e.to = m.to
    BY <1>2 DEF Entries
  <2> HIDE DEF e
  <2>4. /\ \A i \in DOMAIN s : i \in DOMAIN t /\ t[i] = s[i]
        /\ Len(s) + 1 \in DOMAIN t /\ t[Len(s) + 1] = e
        /\ \A i \in DOMAIN t : i \in DOMAIN s \/ i = Len(s) + 1
    BY <1>2, <2>3
  <2> HIDE DEF t
  <2>5. ASSUME NEW c \in Books
        PROVE  \/ Landed'[c] = library[c] \/ DiffersByCase(Landed'[c], library[c])
               \/ \E i \in DOMAIN t : t[i].from = library[c] /\ t[i].to = Landed'[c]
    <3>1. CASE c = m.book
      BY <1>3, <1>5, <2>3, <2>4, <3>1
    <3>2. CASE c # m.book
      BY <1>7, <2>4, <3>2
    <3> QED BY <3>1, <3>2
  <2>6. ASSUME NEW i \in DOMAIN t
        PROVE  \E c \in Books : t[i].from = library[c] /\ t[i].to = Landed'[c]
    <3>1. CASE i \in DOMAIN s
      BY <1>8, <2>4, <3>1
    <3>2. CASE i = Len(s) + 1
      BY <1>2, <1>3, <1>5, <2>3, <2>4, <3>2
    <3> QED BY <2>4, <3>1, <3>2
  <2> QED BY <1>1, <1>9, <2>2, <2>5, <2>6 DEF RunLogged
<1> QED BY <1>10, <1>11

\* What the Undo restores has no entry any more, and every other book still has its own.
LEMMA RestoringAccounts ==
    ASSUME KeptInv, Single, UndoKept, RestoreBook
    PROVE  /\ job'.log \in Seq(Entries) /\ Range(job'.log) \subseteq Range(undo)
           /\ Accounted(job'.log, files', before)
<1> DEFINE m == job.at
           s == job.log
           k == EntryOf(s, m.from)
           f == files[m.from]
<1>1. /\ files \in [Paths -> Contents] /\ job.at \in Moves /\ m.from \in Paths /\ m.to \in Paths
      /\ f # NoFile /\ files' = Renamed(m.from, m.to) /\ job.undoing
      /\ files[m.to] \in {NoFile, Foreign} /\ m \in Pending
      /\ DOMAIN job = JobFields
  BY JobFacts DEF KeptInv, Typed, FreeInv, RestoreBook, Exists, Pending
<1>2. job'.log = RemoveAt(s, k)
  BY <1>1 DEF RestoreBook, JobFields
<1>3. /\ s \in Seq(Entries) /\ Range(s) \subseteq Range(undo) /\ Accounted(s, files, before)
      /\ Backs(undo, before) /\ before \in [Books -> Paths]
  BY <1>1 DEF UndoKept, Residue
<1>20. \A i \in DOMAIN s : s[i].from \in Paths /\ s[i].to \in Paths
  <2> HIDE DEF s
  <2>1. \A i \in DOMAIN s : s[i] \in Entries
    BY <1>3
  <2> QED BY <2>1 DEF Entries
<1>4. PICK u \in DOMAIN undo : undo[u].from = m.to /\ undo[u].to = m.from
  BY <1>1 DEF UndoKept
<1>5. files[m.to] = NoFile /\ f \in Books /\ NoFile \notin Books
  <2>1. \A c \in Contents : c \in {NoFile, Foreign} \cup Books
    BY ConstantsAssumption DEF Contents, NoFile, Foreign, Books
  <2>2. NoFile \notin Books
    BY ConstantsAssumption DEF NoFile, Books
  <2> QED BY <1>1, <2>1, <2>2 DEF Single
<1>6. before[f] # m.from /\ files[before[f]] # f
  BY <1>1, <1>3, <1>4, <1>5 DEF Backs, Single
<1>7. PICK j \in DOMAIN s : s[j].from = before[f] /\ s[j].to = m.from
  <2>1. PICK j \in DOMAIN s : s[j].from = before[f] /\ files[s[j].to] = f
    BY <1>3, <1>5, <1>6 DEF Accounted
  <2>2. s[j].to \in Paths
    BY <1>20
  <2> QED BY <1>1, <1>5, <2>1, <2>2 DEF Single
<1>8. k \in DOMAIN s /\ s[k].to = m.from
  BY <1>3, <1>7, EntryFacts
<1>9. ASSUME NEW i \in DOMAIN s PROVE \E v \in DOMAIN undo : s[i] = undo[v]
  BY <1>3 DEF Range
<1>10. before[f] = m.to
  <2>1. PICK v \in DOMAIN undo : s[j] = undo[v]
    BY <1>9
  <2> QED BY <1>3, <1>4, <1>7, <2>1 DEF Backs, Free
<1> DEFINE t == RemoveAt(s, k)
<1>11. /\ t \in Seq(Entries) /\ Len(t) = Len(s) - 1 /\ Len(s) \in Nat
       /\ \A i \in 1..(Len(s) - 1) : t[i] = IF i < k THEN s[i] ELSE s[i + 1]
  <2> HIDE DEF s, k
  <2>1. k \in 1..Len(s) /\ Len(s) \in Nat
    BY <1>3, <1>8
  <2> QED BY <1>3, <2>1, RemoveAtFacts
<1> HIDE DEF t, k
<1>12. k \in 1..Len(s) /\ DOMAIN s = 1..Len(s) /\ DOMAIN t = 1..(Len(s) - 1)
  BY <1>3, <1>8, <1>11
<1>13. \A i \in DOMAIN t : \E h \in DOMAIN s : t[i] = s[h]
  BY <1>11, <1>12
<1>14. ASSUME NEW h \in DOMAIN s, h # k PROVE \E i \in DOMAIN t : t[i] = s[h]
  <2>1. CASE h < k
    BY <1>11, <1>12, <2>1
  <2>2. CASE h > k
    <3>1. h - 1 \in DOMAIN t /\ ~(h - 1 < k) /\ (h - 1) + 1 = h
      BY <1>11, <1>12, <2>2
    <3> QED BY <1>11, <1>12, <3>1
  <2> QED BY <1>12, <1>14, <2>1, <2>2
<1>15. Range(t) \subseteq Range(undo)
  BY <1>9, <1>13 DEF Range
<1>16. \A p \in Paths : files'[p] = IF p = m.from THEN NoFile
                                    ELSE IF p = m.to THEN f ELSE files[p]
  BY <1>1 DEF Renamed
<1>17. ASSUME NEW b \in Books
       PROVE  \/ files'[before[b]] = b
              \/ \E i \in DOMAIN t : t[i].from = before[b] /\ files'[t[i].to] = b
  <2>1. CASE b = f
    BY <1>1, <1>6, <1>10, <1>16, <2>1
  <2>2. CASE b # f /\ files[before[b]] = b
    BY <1>3, <1>5, <1>16, <2>2
  <2>3. CASE b # f /\ files[before[b]] # b
    <3>1. PICK h \in DOMAIN s : s[h].from = before[b] /\ files[s[h].to] = b
      BY <1>3, <2>3 DEF Accounted
    <3>2. s[h].to \in Paths /\ s[h].to # m.from /\ s[h].to # m.to
      BY <1>5, <1>20, <2>3, <3>1
    <3>3. h # k
      BY <1>8, <3>2
    <3>4. PICK i \in DOMAIN t : t[i] = s[h]
      BY <1>14, <3>3
    <3> QED BY <1>16, <3>1, <3>2, <3>4
  <2> QED BY <2>1, <2>2, <2>3
<1> QED BY <1>2, <1>11, <1>15, <1>17 DEF Accounted, t, k

\* The moves of a run and of an Undo.
LEMMA MovesKeepUndo ==
    SettledInv /\ SettledInv' /\ UndoInv /\ (MoveBook \/ RestoreBook) => UndoInv'
<1> SUFFICES ASSUME SettledInv, SettledInv', UndoInv, MoveBook \/ RestoreBook PROVE UndoInv'
  OBVIOUS
<1> DEFINE m == job.at
<1>1. KeptInv /\ Typed /\ job.pc = "move" /\ Delivers(m) /\ m \in Moves /\ DOMAIN job = JobFields
  BY MovesDeliver DEF SettledInv, KeptInv, Typed
<1>2. /\ files' = Renamed(m.from, m.to) /\ m.from \in Paths /\ m.to \in Paths
      /\ UNCHANGED <<undo, undone, before, library, crashed>>
      /\ job'.books = job.books /\ job'.undoing = job.undoing /\ Pending' \subseteq Pending
      /\ job'.pc \in {"item", "held"}
  BY <1>1, JobFacts DEF Delivers, MoveBook, RestoreBook, Aside, JobFields, Onward
<1>3. MoveBook => ~job.undoing /\ job'.log = Record(job.log, m.from, m.to)
  BY <1>1 DEF MoveBook, JobFields
<1>4. RestoreBook => job.undoing
  BY DEF RestoreBook
<1> HIDE DEF m
<1>5. Peaceful' => Peaceful /\ Single /\ Single'
  BY <1>1, <1>2, DeliveriesStayPeaceful, MovesKeepSingle DEF UndoInv
<1>6. ~undone'
  BY <1>1, <1>2 DEF UndoInv
<1>7. CASE MoveBook
  <2>1. ASSUME Quiet' PROVE RunLogged'
    <3>1. Quiet /\ Settled /\ Settled'
      BY <1>1, <2>1, DeliveriesStayQuiet DEF SettledInv, Settled
    <3>2. RunLogged
      BY <1>1, <1>3, <1>7, <3>1 DEF UndoInv, Running
    <3> QED BY <1>1, <1>2, <1>3, <1>7, <3>1, <3>2, DeliveryIsLogged
  <2>2. RunUnwritten'
    <3>1. job.log \in Seq(Entries)
      BY <1>1, <1>3, <1>7 DEF Typed
    <3>2. job'.log # <<>>
      BY <1>2, <1>3, <1>7, <3>1, RecordsSomething
    <3> QED BY <1>2, <1>3, <1>7, <3>2 DEF RunUnwritten
  <2> QED BY <1>5, <1>6, <2>1, <2>2 DEF UndoInv, Undoing
<1>8. CASE RestoreBook
  <2>1. ASSUME Undoing' PROVE UndoKept'
    <3>1. Peaceful' /\ Single /\ UndoKept
      BY <1>2, <1>4, <1>5, <1>8, <2>1 DEF Undoing, Live, Chained, RunUnwritten, UndoInv
    <3>2. /\ job'.log \in Seq(Entries) /\ Range(job'.log) \subseteq Range(undo)
          /\ Accounted(job'.log, files', before)
      BY <1>1, <1>8, <3>1, RestoringAccounts
    <3>3. Residue' = job'.log
      BY <1>2, <1>4, <1>8 DEF Residue
    <3>4. /\ before' \in [Books -> Paths] /\ Backs(undo', before')
          /\ Residue' \in Seq(Entries) /\ Range(Residue') \subseteq Range(undo')
          /\ Accounted(Residue', files', before')
      BY <1>2, <3>1, <3>2, <3>3 DEF UndoKept
    <3>5. \A x \in Pending' : \E i \in DOMAIN undo' : undo'[i].from = x.to /\ undo'[i].to = x.from
      BY <1>2, <1>4, <1>8, <3>1 DEF UndoKept
    <3>6. ASSUME crashed'
          PROVE  /\ library' = before' /\ job'.applies = <<>>
                 /\ \A x \in Pending' : x.book = NoBook
      <4>1. library = before /\ job.applies = <<>> /\ \A x \in Pending : x.book = NoBook
        BY <1>2, <1>4, <1>8, <3>1, <3>6 DEF UndoKept
      <4> QED BY <1>1, <1>2, <4>1 DEF Delivers
    <3> QED BY <1>6, <3>4, <3>5, <3>6 DEF UndoKept
  <2>2. ~Running'
    BY <1>2, <1>4, <1>8 DEF Running
  <2> QED BY <1>5, <1>6, <2>1, <2>2 DEF UndoInv
<1> QED BY <1>7, <1>8

\* A rename that changes the case alone is in no log, so there is nothing an Undo brings back.
LEMMA RecasingKeepsUndo ==
    SettledInv /\ SettledInv' /\ UndoInv /\ RenameInPlace => UndoInv'
<1> SUFFICES ASSUME SettledInv, SettledInv', UndoInv, RenameInPlace PROVE UndoInv'
  OBVIOUS
<1>0. KeptInv /\ Typed /\ DOMAIN job = JobFields /\ {"pc", "books"} \subseteq JobFields
      /\ JobFields = DOMAIN job
  BY DEF SettledInv, KeptInv, Typed, JobFields
<1>1. /\ job.pc = "plan" /\ job'.pc = "plan" /\ job'.books = job.books /\ ~job.undoing
      /\ UNCHANGED <<undo, undone, library, touched, crashed>> /\ job'.log = job.log
  BY <1>0 DEF RenameInPlace, Planning, Aside, Typed, JobFields
<1>2. CASE UNCHANGED <<files, bin>> /\ Carries /\ before' = before
  BY <1>1, <1>2, CarryingKeepsUndo DEF Bears
<1>3. ASSUME NEW m \in Pending, DiffersByCase(m.from, m.to), Delivers(m), before' = Forgotten
      PROVE  UndoInv'
  <2>1. m \in Moves /\ files' = Renamed(m.from, m.to)
    BY <1>0, <1>3 DEF Typed, Pending, Range, Delivers
  <2>2. Peaceful' => Single'
    BY <1>0, <1>3, <2>1, DeliveriesStayPeaceful, MovesKeepSingle DEF UndoInv
  <2>3. ASSUME Quiet' PROVE RunLogged'
    <3>1. Quiet /\ Settled /\ Settled'
      BY <1>0, <1>3, <2>1, <2>3, DeliveriesStayQuiet DEF SettledInv, Settled
    <3>2. RunLogged
      BY <1>1, <3>1 DEF UndoInv, Running
    <3>3. DiffersByCase(m.to, m.from)
      BY <1>3 DEF DiffersByCase
    <3> QED BY <1>0, <1>1, <1>3, <2>1, <3>1, <3>2, <3>3, DeliveryIsLogged
  <2>4. ~undone'
    BY <1>1 DEF UndoInv
  <2> QED BY <1>3, <2>2, <2>3, <2>4 DEF UndoInv, Undoing, Live
<1> QED BY <1>0, <1>2, <1>3, RecasingDelivers

\* An Undo of a log without chains has the entries of the log.
LEMMA RunnableOfFree ==
    ASSUME NEW s \in Seq(Entries), Free(s)
    PROVE  /\ Runnable(s) \in Seq(Entries) /\ Free(Runnable(s))
           /\ Range(Runnable(s)) = Range(s)
<1> DEFINE r == Reverse(s)
<1>1. /\ r \in Seq(Entries) /\ DOMAIN r = 1..Len(s) /\ DOMAIN s = 1..Len(s) /\ Len(s) \in Nat
      /\ \A i \in 1..Len(s) : r[i] = s[(Len(s) - i) + 1]
  BY DEF Reverse
<1> HIDE DEF r
<1>2. \A i \in DOMAIN r : (Len(s) - i) + 1 \in DOMAIN s
  BY <1>1
<1>3. ASSUME NEW i \in DOMAIN r, NEW j \in DOMAIN r
      PROVE  r[i].from # r[j].to /\ (r[i].to = r[j].to => i = j)
  <2> DEFINE a == (Len(s) - i) + 1
             c == (Len(s) - j) + 1
  <2>1. a \in DOMAIN s /\ c \in DOMAIN s /\ (a = c => i = j) /\ r[i] = s[a] /\ r[j] = s[c]
    BY <1>1, <1>2
  <2> HIDE DEF a, c
  <2> QED BY <2>1 DEF Free
<1>4. Unwound(s)
  BY DEF Free, Unwound
<1>5. Unwound(r)
  BY <1>3 DEF Unwound
<1>6. Runnable(s) = r
  <2>1. RecordAll(s) = s
    BY <1>4, UnwoundStays
  <2>2. RecordAll(r) = r
    BY <1>1, <1>5, UnwoundStays
  <2> QED BY <2>1, <2>2 DEF Runnable, Load, r
<1>7. Range(r) = Range(s)
  <2>1. ASSUME NEW i \in DOMAIN s PROVE \E j \in DOMAIN r : r[j] = s[i]
    <3>1. (Len(s) - i) + 1 \in DOMAIN r /\ (Len(s) - ((Len(s) - i) + 1)) + 1 = i
      BY <1>1
    <3> QED BY <1>1, <3>1
  <2>2. ASSUME NEW j \in DOMAIN r PROVE \E i \in DOMAIN s : r[j] = s[i]
    BY <1>1, <1>2
  <2> QED BY <2>1, <2>2 DEF Range
<1> QED BY <1>1, <1>3, <1>6, <1>7 DEF Free

\* The run tells undo.dat what it did, and from then on this is what an Undo brings back.
LEMMA WritingKeepsUndo ==
    SettledInv /\ SettledInv' /\ UndoInv /\ WriteUndo => UndoInv'
<1> SUFFICES ASSUME SettledInv, SettledInv', UndoInv, WriteUndo PROVE UndoInv'
  OBVIOUS
<1>0. KeptInv /\ Typed /\ Carries
  BY StepsCarry DEF SettledInv, KeptInv
<1>1. /\ job.pc = "write" /\ ~job.undoing /\ job'.pc = "land" /\ ~job'.undoing
      /\ job'.books = job.books /\ job'.log = job.log /\ job'.applies = job.applies
      /\ UNCHANGED <<files, bin, touched, crashed, library, undone>>
  BY <1>0 DEF WriteUndo, Aside, Typed, JobFields
<1>2. \A m \in Pending' : \E x \in Pending : x.book = m.book /\ x.from = m.from
  BY <1>0 DEF Carries
<1>3. Landed' = Landed /\ Peaceful' = Peaceful
  BY <1>1, LandedIs, StaysPeaceful
<1>4. ~undone'
  BY <1>1 DEF UndoInv
<1>5. Peaceful' => Single'
  BY <1>1, <1>3 DEF UndoInv, Single
<1>6. (Quiet /\ Running)' => RunLogged'
  BY <1>1, <1>2, <1>3 DEF UndoInv, Quiet, Running, RunLogged
<1>7. CASE job.log = <<>> /\ UNCHANGED <<undo, before>>
  <2>1. Undoing' => UndoKept
    BY <1>1, <1>3, <1>7 DEF UndoInv, Undoing, Live, Chained, RunUnwritten
  <2>2. Residue' = Residue
    BY <1>1, <1>7 DEF Residue
  <2> QED BY <1>1, <1>4, <1>5, <1>6, <1>7, <2>1, <2>2 DEF UndoInv, UndoKept
<1>8. CASE before' = Forgotten
  BY <1>4, <1>5, <1>6, <1>8 DEF UndoInv, Undoing, Live
<1>9. CASE undo' = job.log /\ ~crashed /\ ~Recased /\ before' = job.books
  <2> SUFFICES ASSUME Undoing' PROVE UndoKept'
    BY <1>4, <1>5, <1>6 DEF UndoInv
  <2>1. Quiet /\ Settled /\ RunLogged
    BY <1>1, <1>3, <1>9 DEF UndoInv, Undoing, Live, Quiet, Running, SettledInv, Settled
  <2> DEFINE s == job.log
  <2>2. /\ undo' = s /\ before' = library /\ Residue' = s /\ s \in Seq(Entries) /\ files' = files
        /\ library \in Libraries
    BY <1>0, <1>1, <1>9, <2>1 DEF RunLogged, Residue, Typed
  <2>3. /\ \A i, j \in DOMAIN s : s[i].from # s[j].to
        /\ \A i, j \in DOMAIN s : s[i].to = s[j].to => i = j
    <3>1. ~Chained'
      BY DEF Undoing
    <3>2. Unwound(s)
      BY <1>1, <2>1 DEF Settled, LogInv
    <3> QED BY <2>2, <3>1, <3>2 DEF Chained, Unwound
  <2> HIDE DEF s
  <2>4. /\ \A c \in Books : library[c] \in Paths /\ Landed[c] \in Paths /\ files[Landed[c]] = c
        /\ \A c, d \in Books : Landed[c] = Landed[d] => c = d
    BY <2>1 DEF RunLogged, Settled, Located
  <2>5. ASSUME NEW c \in Books
        PROVE  \/ Landed[c] = library[c]
               \/ \E i \in DOMAIN s : s[i].from = library[c] /\ s[i].to = Landed[c]
    <3>1. ~DiffersByCase(Landed[c], library[c])
      BY <1>9, <2>1, <2>4 DEF Recased, RunLogged
    <3> QED BY <2>1, <3>1 DEF RunLogged, s
  <2>6. ASSUME NEW i \in DOMAIN s, NEW b \in Books PROVE s[i].to # library[b]
    <3> SUFFICES ASSUME s[i].to = library[b] PROVE FALSE
      OBVIOUS
    <3>1. PICK c \in Books : s[i].from = library[c] /\ s[i].to = Landed[c]
      BY <2>1 DEF RunLogged, s
    <3>2. CASE Landed[b] = library[b]
      <4>1. b = c
        BY <2>4, <3>1, <3>2
      <4> QED BY <2>3, <3>1, <4>1
    <3>3. CASE \E j \in DOMAIN s : s[j].from = library[b] /\ s[j].to = Landed[b]
      BY <2>3, <3>3
    <3> QED BY <2>5, <3>2, <3>3
  <2>7. Backs(s, library)
    BY <2>3, <2>6 DEF Backs, Free
  <2>8. Accounted(s, files, library)
    BY <2>4, <2>5 DEF Accounted
  <2>9. library \in [Books -> Paths]
    BY <2>2, <2>4 DEF Libraries
  <2>10. ~crashed' /\ ~job'.undoing
    BY <1>1, <1>9
  <2> QED BY <1>4, <2>2, <2>7, <2>8, <2>9, <2>10 DEF UndoKept
<1>10. CASE undo' = job.log /\ before' = IF crashed \/ Recased THEN Forgotten ELSE job.books
  BY <1>8, <1>9, <1>10
<1> QED BY <1>7, <1>8, <1>10 DEF WriteUndo

\* A run begins with its books where the library has them.
LEMMA OrganizingKeepsUndo ==
    ASSUME SettledInv, SettledInv', UndoInv, NEW target \in Targets, Organize(target)
    PROVE  UndoInv'
<1>0. KeptInv /\ Typed /\ job = Idle
  BY DEF SettledInv, KeptInv, Organize
<1>1. /\ job.pc = "idle" /\ ~job.undoing /\ job.log = <<>> /\ job.applies = <<>>
  BY <1>0 DEF Idle
<1>2. /\ UNCHANGED <<files, bin, touched, crashed, library, undo, before>> /\ ~undone'
      /\ job'.books = library /\ job'.log = <<>> /\ job'.applies = <<>> /\ ~job'.undoing
      /\ job'.pc = "plan" /\ job'.plan = <<>> /\ job'.held = <<>>
      /\ job'.left = Chosen([b \in Books |-> [book |-> b, from |-> library[b], to |-> target[b]]],
                            Moves)
  BY DEF Organize, Idle
<1>3. Peaceful' = Peaceful
  BY <1>2, StaysPeaceful
<1>4. Peaceful' => Single'
  BY <1>2, <1>3 DEF UndoInv, Single
<1>5. ASSUME Quiet' PROVE RunLogged'
  <2>1. Located
    BY <1>2, <1>3, <1>5 DEF Quiet, SettledInv
  <2>2. Landed = library /\ Landed' = library
    BY <1>0, <1>1, <1>2, LandedIs, LandingEmpty DEF Typed
  <2> DEFINE all == [b \in Books |-> [book |-> b, from |-> library[b], to |-> target[b]]]
             AnyMove == [book : Books, from : 0..(2 * LastName), to : 0..LastName]
  <2>3. all \in Seq(AnyMove)
    BY <1>0, ConstantsAssumption DEF Typed, Books, Libraries, Targets
  <2>4. \A x \in Range(all) : x.from = library[x.book]
    BY DEF Range
  <2>5. job'.left = Chosen(all, Moves)
    BY <1>2
  <2> HIDE DEF all, AnyMove
  <2>6. Range(job'.left) \subseteq Range(all)
    BY <2>3, <2>5, ChosenFacts
  <2>7. \A m \in Pending' : m.from = library[m.book]
    BY <1>2, <2>4, <2>6, EmptyRange DEF Pending
  <2>8. DOMAIN job'.log = {}
    BY <1>2
  <2> QED BY <1>2, <2>1, <2>2, <2>7, <2>8 DEF RunLogged, Located
<1>6. ASSUME Undoing' PROVE UndoKept'
  <2>1. UndoKept
    BY <1>1, <1>2, <1>3, <1>6 DEF UndoInv, Undoing, Live, Chained, RunUnwritten
  <2>2. Residue' = Residue
    BY <1>1, <1>2 DEF Residue
  <2> QED BY <1>2, <2>1, <2>2 DEF UndoKept
<1> QED BY <1>2, <1>4, <1>5, <1>6 DEF UndoInv

\* An Undo begins with all the entries.
LEMMA UndoingKeepsUndo ==
    SettledInv /\ SettledInv' /\ UndoInv /\ Undo => UndoInv'
<1> SUFFICES ASSUME SettledInv, SettledInv', UndoInv, Undo PROVE UndoInv'
  OBVIOUS
<1> DEFINE todo == Runnable(undo)
<1>0. KeptInv /\ Typed /\ job = Idle
  BY DEF SettledInv, KeptInv, Undo
<1>1. /\ job.pc = "idle" /\ ~job.undoing /\ job.log = <<>> /\ job.applies = <<>>
  BY <1>0 DEF Idle
<1>2. /\ UNCHANGED <<files, bin, touched, crashed, library, undo, before>> /\ ~undone'
      /\ job'.log = todo /\ job'.applies = <<>> /\ job'.undoing
      /\ job'.pc = "item" /\ job'.plan = <<>> /\ job'.held = <<>>
      /\ job'.left = Restores(todo)
  BY DEF Undo, Idle
<1>3. Peaceful' = Peaceful
  BY <1>2, StaysPeaceful
<1>4. Peaceful' => Single'
  BY <1>2, <1>3 DEF UndoInv, Single
<1>5. ~Running'
  BY <1>2 DEF Running
<1>6. ASSUME Undoing' PROVE UndoKept'
  <2>1. UndoKept
    BY <1>1, <1>2, <1>3, <1>6 DEF UndoInv, Undoing, Live, Chained, RunUnwritten
  <2>2. todo \in Seq(Entries) /\ Free(todo) /\ Range(todo) = Range(undo)
    BY <1>0, <2>1, RunnableOfFree DEF Typed, UndoKept, Backs
  <2> HIDE DEF todo
  <2>3. Residue = undo /\ Residue' = todo
    BY <1>1, <1>2 DEF Residue
  <2>4. \A i \in DOMAIN undo : \E j \in DOMAIN todo : todo[j] = undo[i]
    BY <2>2 DEF Range
  <2>5. \A j \in DOMAIN todo : \E i \in DOMAIN undo : todo[j] = undo[i]
    BY <2>2 DEF Range
  <2>6. Accounted(todo, files, before)
    BY <2>1, <2>3, <2>4 DEF UndoKept, Accounted
  <2>7. ASSUME NEW m \in Pending'
        PROVE  /\ \E i \in DOMAIN undo : undo[i].from = m.to /\ undo[i].to = m.from
               /\ library = before => m.book = NoBook
    <3>1. m \in Range(Restores(todo))
      BY <1>2, <2>7, EmptyRange DEF Pending
    <3>2. PICK j \in DOMAIN todo : m = RestoreOf(todo, j)
      BY <2>2, <3>1, RestoreFacts
    <3>3. m.from = todo[j].to /\ m.to = todo[j].from /\ m.book = OwnerIn(library, todo[j].to)
      BY <2>2, <3>2, RestoreOne
    <3>4. PICK i \in DOMAIN undo : todo[j] = undo[i]
      BY <2>5
    <3>5. \A b \in Books : undo[i].to # before[b]
      BY <2>1 DEF UndoKept, Backs
    <3>6. library = before => m.book = NoBook
      BY <3>3, <3>4, <3>5, Owners
    <3> QED BY <3>3, <3>4, <3>6
  <2>8. crashed' => library' = before'
    BY <1>2, <2>1 DEF UndoKept
  <2>9. /\ before' \in [Books -> Paths] /\ Backs(undo', before')
        /\ Range(Residue') \subseteq Range(undo')
    BY <1>2, <2>1, <2>2, <2>3 DEF UndoKept
  <2> QED BY <1>2, <2>2, <2>3, <2>6, <2>7, <2>8, <2>9 DEF UndoKept
<1> QED BY <1>2, <1>4, <1>5, <1>6 DEF UndoInv

\* What a job that is over leaves to undo.
LEMMA OverIsAccounted ==
    UndoKept => Accounted(undo, files, before)
<1> SUFFICES ASSUME UndoKept PROVE Accounted(undo, files, before)
  OBVIOUS
<1>1. Accounted(Residue, files, before) /\ Range(Residue) \subseteq Range(undo)
  BY DEF UndoKept
<1>2. \A i \in DOMAIN Residue : \E j \in DOMAIN undo : Residue[i] = undo[j]
  BY <1>1 DEF Range
<1> QED BY <1>1, <1>2 DEF Accounted

\* The end of a job.
LEMMA EndingKeepsUndo ==
    /\ Typed /\ UndoInv /\ job' = Idle /\ UNCHANGED <<files, bin, touched, undo>>
    /\ Undoing' => UndoKept /\ before' = before
    /\ Undoing' /\ crashed' => library' = before'
    /\ Undoing' /\ undone' => Restored'
    => UndoInv'
<1> SUFFICES ASSUME Typed, UndoInv, job' = Idle, UNCHANGED <<files, bin, touched, undo>>,
                    Undoing' => UndoKept /\ before' = before,
                    Undoing' /\ crashed' => library' = before',
                    Undoing' /\ undone' => Restored'
             PROVE  UndoInv'
  OBVIOUS
<1>1. /\ job'.pc = "idle" /\ ~job'.undoing /\ job'.log = <<>> /\ job'.applies = <<>>
  BY DEF Idle
<1>2. Peaceful' => Single'
  BY StaysPeaceful DEF UndoInv, Single
<1>3. ~Running'
  BY <1>1 DEF Running
<1>4. ASSUME Undoing' PROVE UndoKept'
  <2>1. UndoKept /\ before' = before /\ (crashed' => library' = before') /\ (undone' => Restored')
    BY <1>4
  <2>2. Residue' = undo
    BY <1>1 DEF Residue
  <2>3. Accounted(undo, files, before) /\ undo \in Seq(Entries)
    BY <2>1, OverIsAccounted DEF Typed
  <2>4. /\ before' \in [Books -> Paths] /\ Backs(undo', before')
        /\ Residue' \in Seq(Entries) /\ Range(Residue') \subseteq Range(undo')
        /\ Accounted(Residue', files', before')
    BY <2>1, <2>2, <2>3 DEF UndoKept
  <2> QED BY <1>1, <2>1, <2>4 DEF UndoKept
<1> QED BY <1>1, <1>2, <1>3, <1>4 DEF UndoInv

\* A landing ends a run that has written undo.dat, or an Undo.
LEMMA LandingKeepsUndo ==
    SettledInv /\ SettledInv' /\ UndoInv /\ Land => UndoInv'
<1> SUFFICES ASSUME SettledInv, SettledInv', UndoInv, Land PROVE UndoInv'
  OBVIOUS
<1>0. KeptInv /\ Typed
  BY DEF SettledInv, KeptInv
<1>1. /\ job.pc = "land" /\ job' = Idle /\ library' = Landed
      /\ UNCHANGED <<files, bin, touched, undo, before, crashed>>
      /\ undone' => job.undoing /\ job.log = <<>>
  BY DEF Land
<1>2. Peaceful' = Peaceful
  BY <1>1, StaysPeaceful
<1>3. ASSUME Undoing' PROVE Live /\ UndoKept
  BY <1>1, <1>2, <1>3 DEF UndoInv, Undoing, Live, Chained, RunUnwritten
<1>4. ASSUME Undoing', crashed PROVE library' = before
  <2>1. library = before /\ job.applies = <<>>
    BY <1>3, <1>4 DEF UndoKept
  <2> QED BY <1>0, <1>1, <2>1, LandedIs, LandingEmpty DEF Typed
<1>5. ASSUME Undoing', undone' PROVE Restored'
  <2>1. /\ Accounted(job.log, files, before) /\ DOMAIN job.log = {}
        /\ before \in [Books -> Paths] /\ Live
    BY <1>1, <1>3, <1>5 DEF UndoKept, Residue
  <2>2. \A b \in Books : before[b] \in Paths /\ files[before[b]] = b
    BY <2>1 DEF Accounted
  <2>3. CASE crashed
    BY <1>1, <1>4, <1>5, <2>2, <2>3 DEF Restored
  <2>4. CASE ~crashed
    <3>1. Located
      BY <2>1, <2>4 DEF Live, Quiet, SettledInv
    <3>2. \A b \in Books : Landed[b] = before[b]
      BY <2>2, <3>1 DEF Located
    <3> QED BY <1>1, <2>2, <3>2 DEF Restored
  <2> QED BY <2>3, <2>4
<1>6. Undoing' /\ crashed' => library' = before'
  BY <1>1, <1>4
<1> QED BY <1>0, <1>1, <1>3, <1>5, <1>6, EndingKeepsUndo

\* A crash goes back to the library that an Undo is to bring back, or there is nothing to
\* bring back.
LEMMA CrashKeepsUndo ==
    SettledInv /\ SettledInv' /\ UndoInv /\ Crash => UndoInv'
<1> SUFFICES ASSUME SettledInv, SettledInv', UndoInv, Crash PROVE UndoInv'
  OBVIOUS
<1>0. KeptInv /\ Typed /\ (job.pc = "idle" => job = Idle)
  BY DEF SettledInv, KeptInv
<1>1. /\ job' = Idle /\ library' = saved /\ ~undone'
      /\ UNCHANGED <<files, bin, touched, undo>>
      /\ before' = IF Undoable THEN before ELSE Forgotten
  BY DEF Crash
<1>2. Peaceful' = Peaceful
  BY <1>1, StaysPeaceful
<1>3. ASSUME Undoing' PROVE UndoKept /\ before' = before /\ library' = before'
  <2>1. before' = before /\ before = saved /\ job.pc \in {"idle", "land"}
    BY <1>1, <1>3 DEF Undoing, Live, Undoable, Working
  <2>2. ~RunUnwritten
    <3>1. job.pc = "idle" => job.log = <<>>
      BY <1>0 DEF Idle
    <3> QED BY <2>1, <3>1 DEF RunUnwritten
  <2>3. Undoing
    BY <1>1, <1>2, <1>3, <2>1, <2>2 DEF Undoing, Live, Chained
  <2> QED BY <1>1, <2>1, <2>3 DEF UndoInv
<1> QED BY <1>0, <1>1, <1>3, EndingKeepsUndo

\* The program starts with nothing to undo.
LEMMA UndoInit == Init => UndoInv
<1> SUFFICES ASSUME Init PROVE UndoInv
  OBVIOUS
<1>1. /\ job = Idle /\ library = Home /\ undo = <<>> /\ before = Home
      /\ files = [p \in Paths |-> IF p \in Books THEN p ELSE NoFile]
      /\ ~crashed /\ ~undone
  BY DEF Init
<1>2. job.pc = "idle" /\ ~job.undoing
  BY <1>1 DEF Idle
<1>3. /\ Books \subseteq Paths /\ Foreign \notin Books /\ NoFile \notin Books /\ Foreign # NoFile
  BY ConstantsAssumption DEF Books, Paths, NoFile, Foreign
<1>4. Single
  BY <1>1, <1>3 DEF Single
<1>5. Residue = <<>> /\ DOMAIN undo = {}
  BY <1>1, <1>2 DEF Residue
<1>6. \A b \in Books : before[b] = b /\ files[b] = b
  BY <1>1, <1>3 DEF Home
<1>7. UndoKept
  <2>1. before \in [Books -> Paths]
    BY <1>1, <1>3 DEF Home
  <2>2. Backs(undo, before)
    BY <1>5 DEF Backs, Free
  <2>3. Accounted(Residue, files, before)
    BY <1>6 DEF Accounted
  <2>4. Residue \in Seq(Entries) /\ Range(Residue) \subseteq Range(undo)
    BY <1>1, <1>5, EmptyRange
  <2> QED BY <1>1, <1>2, <2>1, <2>2, <2>3, <2>4 DEF UndoKept
<1> QED BY <1>1, <1>2, <1>4, <1>7 DEF UndoInv, Running

\* One step of the invariant.
LEMMA UndoStep == SettledInv /\ SettledInv' /\ UndoInv /\ [Next]_vars => UndoInv'
<1> SUFFICES ASSUME SettledInv, SettledInv', UndoInv, [Next]_vars PROVE UndoInv'
  OBVIOUS
<1>0. KeptInv
  BY DEF SettledInv
<1>1. CASE \/ PlanBook \/ Planned \/ ProcessBook \/ MoveFails \/ FirstLoopDone
           \/ ProcessDuplicate \/ SecondLoopDone \/ RunCancelled \/ UndoItem
           \/ \E always \in BOOLEAN : AnswerCancel(always) \/ AnswerRename(always)
  <2>1. Carries /\ Bears
    BY <1>0, <1>1, StepsCarry, StepsBear
  <2>2. UNCHANGED <<files, bin>>
    BY <1>1, QuietStepsLeaveFiles DEF QuietSteps
  <2> QED BY <2>1, <2>2, CarryingKeepsUndo
<1>2. CASE UndoDuplicate \/ \E always \in BOOLEAN : AnswerOverwrite(always)
  <2>1. Bears
    BY <1>0, <1>2, StepsBear
  <2>2. CASE Trashes
    <3>1. bin' # {}
      BY <2>2 DEF Trashes, Trashed
    <3>2. ~Peaceful' /\ ~undone' /\ job'.pc # "idle"
      BY <2>1, <3>1 DEF Bears, UndoInv, Peaceful
    <3> QED BY <3>2 DEF UndoInv, Undoing, Live, Quiet
  <2>3. CASE UNCHANGED <<files, bin>> /\ Carries
    BY <2>1, <2>3, CarryingKeepsUndo
  <2> QED BY <1>0, <1>2, <2>2, <2>3, OverwritesTrash
<1>3. CASE \E p \in Paths : OtherChanges(p)
  <2>1. touched' # {} /\ undone' = undone /\ job' = job
    BY <1>3 DEF OtherChanges
  <2>2. ~Peaceful'
    BY <2>1 DEF Peaceful
  <2> QED BY <2>1, <2>2 DEF UndoInv, Undoing, Live, Quiet
<1>4. CASE SaveLibrary \/ UNCHANGED vars
  <2>1. UNCHANGED <<files, bin, library, undo, job, touched, crashed, before, undone>>
    BY <1>4 DEF SaveLibrary, vars
  <2>2. Landed' = Landed /\ Pending' = Pending /\ Peaceful' = Peaceful
    BY <2>1, LandedIs, StaysPeaceful DEF Pending
  <2>3. (Peaceful' => Single') /\ ((Quiet /\ Running)' => RunLogged')
    BY <2>1, <2>2 DEF UndoInv, Single, Quiet, Running, RunLogged
  <2>4. Undoing' => UndoKept
    BY <2>1, <2>2 DEF UndoInv, Undoing, Live, Chained, RunUnwritten
  <2>5. UndoKept => UndoKept'
    <3>1. Residue' = Residue
      BY <2>1 DEF Residue
    <3>2. Restored => Restored'
      BY <2>1 DEF Restored
    <3> QED BY <2>1, <2>2, <3>1, <3>2 DEF UndoKept
  <2>6. undone' => job'.pc = "idle"
    BY <2>1 DEF UndoInv
  <2> QED BY <2>3, <2>4, <2>5, <2>6 DEF UndoInv
<1> QED BY <1>1, <1>2, <1>3, <1>4, NextCases, RecasingKeepsUndo, MovesKeepUndo, WritingKeepsUndo,
           OrganizingKeepsUndo, UndoingKeepsUndo, LandingKeepsUndo, CrashKeepsUndo DEF QuietSteps

\* What an Undo is to bring back, and what it has yet to do for it, are kept together by
\* every step.
THEOREM UndoInvariant == Spec => []UndoInv
<1>1. Init => UndoInv
  BY UndoInit
<1>2. SettledInv /\ SettledInv' /\ UndoInv /\ [Next]_vars => UndoInv'
  BY UndoStep
<1> QED BY <1>1, <1>2, SettledInvariant, PTL DEF Spec

\* An Undo that restored all its entries leaves every book of the library and its file
\* where the run that wrote undo.dat found them: for every number of books, every sequence
\* of runs and Undos, cancelled or failing in part and taken up again, and also when the
\* program went down before the library the run left was saved; unless one book took the
\* place another one had left (UndoMover of mover.rs).
THEOREM UndoBringsBack == Spec => []UndoRestores
<1>1. SettledInv /\ UndoInv => UndoRestores
  <2> SUFFICES ASSUME SettledInv, UndoInv, CleanlyUndone, ~Chained PROVE Restored
    BY DEF UndoRestores
  <2>1. undone /\ Live /\ job = Idle
    BY DEF CleanlyUndone, Live, UndoInv, SettledInv
  <2>2. ~RunUnwritten
    BY <2>1 DEF RunUnwritten, Idle
  <2> QED BY <2>1, <2>2 DEF UndoInv, Undoing, UndoKept
<1> QED BY <1>1, SettledInvariant, UndoInvariant, PTL
================================================================================

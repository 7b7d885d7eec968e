------------------------------ MODULE FoldTheorems ------------------------------
(***************************************************************************)
(* FoldLeft of SequencesExt is a recursive function on the subsets of a    *)
(* sequence's domain, Chosen one on its length, and the provers cannot     *)
(* instantiate an operator.  So this module shows, from the                *)
(* well-foundedness of the numbers, that such a function exists when the   *)
(* step of the fold is given as a function; the values that a fold goes    *)
(* through are read off it, and induction along a sequence is a set of     *)
(* numbers that has 0 and goes on.                                         *)
(***************************************************************************)
EXTENDS Folding, SequenceTheorems, WellFoundedInduction, TLAPS

\* A set of numbers has a least element.
LEMMA LeastElement ==
    ASSUME NEW S, S \subseteq Nat, S # {}
    PROVE  \E m \in S : \A k \in S : m <= k
<1> DEFINE R == OpToRel(<, Nat)
<1>1. IsWellFoundedOn(R, Nat)
  BY NatLessThanWellFounded
<1>2. ASSUME NEW m \in Nat, NEW n \in Nat, m < n PROVE <<m, n>> \in R
  BY <1>2 DEF OpToRel
<1> HIDE DEF R
<1>3. PICK m \in S : \A k \in S : ~(<<k, m>> \in R)
  BY <1>1, WFMin
<1>4. ASSUME NEW k \in S PROVE m <= k
  <2>1. m \in Nat /\ k \in Nat /\ ~(<<k, m>> \in R)
    BY <1>3
  <2>2. ~(k < m)
    BY <1>2, <2>1
  <2> QED BY <2>1, <2>2
<1> QED BY <1>4

\* The first of some numbers is one of them.
LEMMA MinIsOneOfThem ==
    ASSUME NEW S, S \subseteq Nat, S # {}
    PROVE  Min(S) \in S
<1>1. PICK m \in S : \A k \in S : m <= k
  BY LeastElement
<1> QED BY <1>1, Zenon DEF Min

\* A set of numbers below n has a greatest element, which is its Max.
LEMMA LargestElement ==
    ASSUME NEW n \in Nat, NEW t \in SUBSET (1..n), t # {}
    PROVE  Max(t) \in t
<1> DEFINE S == {k \in Nat : k <= n /\ n - k \in t}
<1>1. S \subseteq Nat /\ S # {}
  <2>1. PICK x \in t : TRUE
    OBVIOUS
  <2>2. x \in 1..n /\ n - x \in Nat /\ n - (n - x) = x
    BY <2>1
  <2> QED BY <2>1, <2>2
<1>2. PICK m \in S : \A k \in S : m <= k
  BY <1>1, LeastElement
<1>3. n - m \in t /\ \A y \in t : n - m >= y
  <2>1. ASSUME NEW y \in t PROVE n - m >= y
    <3>1. y \in 1..n /\ n - y \in Nat /\ n - (n - y) = y
      OBVIOUS
    <3>2. m <= n - y
      BY <1>2, <3>1
    <3> QED BY <1>2, <3>1, <3>2
  <2> QED BY <1>2, <2>1
<1> QED BY <1>3, Zenon DEF Max

\* What holds of 0 and goes on holds of every number.
LEMMA Induction ==
    ASSUME NEW S, 0 \in S, \A k \in Nat : k \in S => k + 1 \in S
    PROVE  Nat \subseteq S
<1> SUFFICES ASSUME Nat \ S # {} PROVE FALSE
  OBVIOUS
<1>1. PICK m \in Nat \ S : \A k \in Nat \ S : m <= k
  BY LeastElement
<1>2. m - 1 \in Nat /\ ~(m <= m - 1) /\ (m - 1) + 1 = m
  BY <1>1
<1>3. m - 1 \in S
  BY <1>1, <1>2
<1> QED BY <1>1, <1>2, <1>3

\* The last step of a fold over 1..(k + 1).
LEMMA LastOf ==
    ASSUME NEW k \in Nat
    PROVE  /\ 1..(k + 1) # {}
           /\ (1..(k + 1)) \ {k + 1} = 1..k
           /\ \A t \in SUBSET (1..(k + 1)) : k + 1 \in t => Max(t) = k + 1
<1>1. 1..(k + 1) # {} /\ (1..(k + 1)) \ {k + 1} = 1..k
  OBVIOUS
<1>2. ASSUME NEW t \in SUBSET (1..(k + 1)), k + 1 \in t PROVE Max(t) = k + 1
  <2>1. \A y \in t : k + 1 >= y
    OBVIOUS
  <2>2. \A x \in t : (\A y \in t : x >= y) => x = k + 1
    BY <1>2
  <2> QED BY <1>2, <2>1, <2>2 DEF Max
<1> QED BY <1>1, <1>2

\* The recursive function of a fold.
FoldsBy(g, V, F, base, s, n) ==
    /\ g \in [SUBSET (1..n) -> V]
    /\ \A t \in SUBSET (1..n) :
          g[t] = IF t = {} THEN base ELSE F[<<g[t \ {Max(t)}], s[Max(t)]>>]

\* It exists, for every step F that is a function.
LEMMA FoldExists ==
    ASSUME NEW V, NEW C, NEW F \in [V \X C -> V], NEW base \in V, NEW n \in Nat,
           NEW s, \A i \in 1..n : s[i] \in C
    PROVE  \E g : FoldsBy(g, V, F, base, s, n)
<1> DEFINE S == {k \in Nat : k <= n => \E g : FoldsBy(g, V, F, base, s, k)}
<1>1. 0 \in S
  <2> DEFINE g == [t \in SUBSET (1..0) |-> base]
  <2>1. \A t \in SUBSET (1..0) : t = {}
    OBVIOUS
  <2>2. FoldsBy(g, V, F, base, s, 0)
    BY <2>1 DEF FoldsBy
  <2> QED BY <2>2
<1>2. ASSUME NEW k \in Nat, k \in S, k + 1 <= n PROVE \E g : FoldsBy(g, V, F, base, s, k + 1)
  <2>1. PICK g : FoldsBy(g, V, F, base, s, k)
    BY <1>2
  <2> DEFINE h == [t \in SUBSET (1..(k + 1)) |->
                      IF k + 1 \in t THEN F[<<g[t \ {k + 1}], s[k + 1]>>] ELSE g[t]]
  <2>2. \A t \in SUBSET (1..(k + 1)) : t \ {k + 1} \in SUBSET (1..k)
    BY LastOf
  <2>3. s[k + 1] \in C /\ \A t \in SUBSET (1..k) : g[t] \in V
    BY <1>2, <2>1 DEF FoldsBy
  <2>4. h \in [SUBSET (1..(k + 1)) -> V]
    <3> SUFFICES ASSUME NEW t \in SUBSET (1..(k + 1)) PROVE h[t] \in V
      OBVIOUS
    <3>1. CASE k + 1 \in t
      BY <2>2, <2>3, <3>1
    <3>2. CASE k + 1 \notin t
      <4>1. t \in SUBSET (1..k)
        BY <2>2, <3>2
      <4> QED BY <2>3, <3>2, <4>1
    <3> QED BY <3>1, <3>2
  <2>5. ASSUME NEW t \in SUBSET (1..(k + 1))
        PROVE  h[t] = IF t = {} THEN base ELSE F[<<h[t \ {Max(t)}], s[Max(t)]>>]
    <3>1. CASE k + 1 \in t
      <4>1. Max(t) = k + 1 /\ t # {}
        BY <3>1, LastOf
      <4>2. h[t \ {k + 1}] = g[t \ {k + 1}]
        BY <2>2
      <4> QED BY <3>1, <4>1, <4>2
    <3>2. CASE k + 1 \notin t
      <4>1. t \in SUBSET (1..k) /\ h[t] = g[t]
        BY <2>2, <3>2
      <4>2. t \ {Max(t)} \in SUBSET (1..(k + 1)) /\ k + 1 \notin t \ {Max(t)}
        BY <3>2
      <4>3. h[t \ {Max(t)}] = g[t \ {Max(t)}]
        BY <4>2
      <4> QED BY <2>1, <4>1, <4>3 DEF FoldsBy
    <3> QED BY <3>1, <3>2
  <2>6. FoldsBy(h, V, F, base, s, k + 1)
    <3> HIDE DEF h
    <3> QED BY <2>4, <2>5 DEF FoldsBy
  <2> QED BY <2>6
<1>3. ASSUME NEW k \in Nat, k \in S PROVE k + 1 \in S
  <2>1. CASE k + 1 <= n
    BY <1>2, <1>3, <2>1
  <2>2. CASE ~(k + 1 <= n)
    BY <2>2
  <2> QED BY <2>1, <2>2
<1> HIDE DEF S
<1>4. n \in S
  BY <1>1, <1>3, Induction
<1> QED BY <1>4 DEF S

\* The values that such a function goes through.
GoesBy(it, V, F, base, s, n) ==
    /\ it \in [Nat -> V]
    /\ it[0] = base
    /\ \A k \in Nat : k < n => it[k + 1] = F[<<it[k], s[k + 1]>>]

LEMMA FoldValues ==
    ASSUME NEW V, NEW C, NEW F \in [V \X C -> V], NEW base \in V, NEW n \in Nat,
           NEW s, \A i \in 1..n : s[i] \in C
    PROVE  \E it : GoesBy(it, V, F, base, s, n)
<1>1. PICK g : FoldsBy(g, V, F, base, s, n)
  BY FoldExists
<1> DEFINE it == [k \in Nat |-> IF k <= n THEN g[1..k] ELSE base]
<1>2. \A k \in Nat : k <= n => 1..k \in SUBSET (1..n)
  OBVIOUS
<1>3. it \in [Nat -> V]
  BY <1>1, <1>2 DEF FoldsBy
<1>4. it[0] = base
  <2>1. 1..0 = {} /\ 0 <= n
    OBVIOUS
  <2>2. g[{}] = base
    BY <1>1, <1>2 DEF FoldsBy
  <2> QED BY <2>1, <2>2
<1>5. ASSUME NEW k \in Nat, k < n PROVE it[k + 1] = F[<<it[k], s[k + 1]>>]
  <2>1. k + 1 \in Nat /\ k + 1 <= n /\ k <= n
    BY <1>5
  <2>2. 1..(k + 1) \in SUBSET (1..n) /\ k + 1 \in 1..(k + 1)
    BY <1>2, <2>1
  <2>3. 1..(k + 1) # {} /\ Max(1..(k + 1)) = k + 1 /\ (1..(k + 1)) \ {k + 1} = 1..k
    BY <2>2, LastOf
  <2>4. g[1..(k + 1)] = F[<<g[1..k], s[k + 1]>>]
    BY <1>1, <2>2, <2>3 DEF FoldsBy
  <2> QED BY <2>1, <2>4
<1> HIDE DEF it
<1> QED BY <1>3, <1>4, <1>5 DEF GoesBy

\* The values a choice of elements goes through.
Filters(it, s, S) ==
    /\ it[0] = <<>>
    /\ \A k \in Nat : k < Len(s) =>
          it[k + 1] = IF s[k + 1] \in S THEN Append(it[k], s[k + 1]) ELSE it[k]
    /\ Chosen(s, S) = it[Len(s)]

LEMMA ChosenSteps ==
    ASSUME NEW C, NEW s \in Seq(C), NEW S
    PROVE  \E it : Filters(it, s, S)
<1> DEFINE F == [p \in Seq(C) \X C |-> IF p[2] \in S THEN Append(p[1], p[2]) ELSE p[1]]
           n == Len(s)
           G(h) == h = [i \in 0..Len(s) |->
                          IF i = 0 THEN <<>>
                          ELSE IF s[i] \in S THEN Append(h[i - 1], s[i]) ELSE h[i - 1]]
           g == CHOOSE h : G(h)
<1>1. n \in Nat /\ (\A i \in 1..n : s[i] \in C) /\ <<>> \in Seq(C)
  OBVIOUS
<1>2. F \in [Seq(C) \X C -> Seq(C)]
  OBVIOUS
<1>3. PICK it \in [Nat -> Seq(C)] :
         it[0] = <<>> /\ \A k \in Nat : k < n => it[k + 1] = F[<<it[k], s[k + 1]>>]
  <2> DEFINE V == Seq(C)
  <2>1. F \in [V \X C -> V] /\ <<>> \in V
    BY <1>1, <1>2
  <2> HIDE DEF F, n, V
  <2>2. \E it : GoesBy(it, V, F, <<>>, s, n)
    BY <1>1, <2>1, FoldValues
  <2> QED BY <2>2 DEF GoesBy, V
<1>4. ASSUME NEW k \in Nat, k < n
      PROVE  it[k + 1] = IF s[k + 1] \in S THEN Append(it[k], s[k + 1]) ELSE it[k]
  <2>1. it[k] \in Seq(C) /\ k + 1 \in 1..n
    BY <1>1, <1>4
  <2>2. s[k + 1] \in C
    BY <1>1, <2>1
  <2> QED BY <1>3, <1>4, <2>1, <2>2
<1> HIDE DEF F
<1> DEFINE h == [i \in 0..Len(s) |-> it[i]]
<1>5. G(h)
  <2>1. ASSUME NEW i \in 0..Len(s)
        PROVE  it[i] = IF i = 0 THEN <<>>
                       ELSE IF s[i] \in S THEN Append(h[i - 1], s[i]) ELSE h[i - 1]
    <3>1. CASE i = 0
      BY <1>3, <3>1
    <3>2. CASE i # 0
      <4>1. i - 1 \in Nat /\ i - 1 < n /\ (i - 1) + 1 = i /\ i - 1 \in 0..Len(s)
        BY <1>1, <3>2
      <4> QED BY <1>4, <3>2, <4>1
    <3> QED BY <3>1, <3>2
  <2> QED BY <2>1
<1> HIDE DEF h
<1>6. Chosen(s, S) = g[Len(s)]
  BY Zenon DEF Chosen
<1>7. G(g)
  BY <1>5, Zenon
<1> DEFINE jt == [k \in Nat |-> g[k]]
<1>8. ASSUME NEW i \in 0..Len(s)
      PROVE  g[i] = IF i = 0 THEN <<>>
                    ELSE IF s[i] \in S THEN Append(g[i - 1], s[i]) ELSE g[i - 1]
  <2> HIDE DEF g
  <2> QED BY <1>7
<1> HIDE DEF g, G
<1>9. jt[0] = <<>> /\ Chosen(s, S) = jt[Len(s)]
  BY <1>1, <1>6, <1>8
<1>10. ASSUME NEW k \in Nat, k < Len(s)
       PROVE  jt[k + 1] = IF s[k + 1] \in S THEN Append(jt[k], s[k + 1]) ELSE jt[k]
  <2>1. k + 1 \in 0..Len(s) /\ k + 1 # 0 /\ (k + 1) - 1 = k
    BY <1>1, <1>10
  <2>2. /\ g[k + 1] = IF s[k + 1] \in S THEN Append(g[k], s[k + 1]) ELSE g[k]
        /\ jt[k + 1] = g[k + 1] /\ jt[k] = g[k]
    BY <1>8, <2>1
  <2> QED BY <2>2
<1> HIDE DEF jt
<1> QED BY <1>9, <1>10 DEF Filters

\* What is chosen is from the sequence, and in the set.
LEMMA ChosenIn ==
    ASSUME NEW C, NEW s \in Seq(C), NEW S
    PROVE  Chosen(s, S) \in Seq(C \cap S)
<1>1. PICK it : Filters(it, s, S)
  BY ChosenSteps
<1> DEFINE X == C \cap S
           D == {k \in Nat : k <= Len(s) => it[k] \in Seq(X)}
<1> HIDE DEF X
<1>2. 0 \in D
  <2>1. it[0] = <<>> /\ <<>> \in Seq(X)
    BY <1>1 DEF Filters
  <2> QED BY <2>1
<1>3. ASSUME NEW k \in Nat, k \in D PROVE k + 1 \in D
  <2>1. CASE k + 1 <= Len(s)
    <3>1. k < Len(s) /\ k <= Len(s) /\ s[k + 1] \in C
      BY <2>1
    <3>2. it[k] \in Seq(X) /\ (s[k + 1] \in S => s[k + 1] \in X)
      BY <1>3, <3>1 DEF X
    <3>3. it[k + 1] = IF s[k + 1] \in S THEN Append(it[k], s[k + 1]) ELSE it[k]
      BY <1>1, <3>1 DEF Filters
    <3>4. it[k + 1] \in Seq(X)
      BY <3>2, <3>3
    <3> QED BY <3>4
  <2> QED BY <2>1
<1> HIDE DEF D
<1>4. Len(s) \in D
  BY <1>2, <1>3, Induction
<1> QED BY <1>1, <1>4 DEF D, Filters, X

\* What RemoveAt leaves.
LEMMA RemoveAtFacts ==
    ASSUME NEW S, NEW s \in Seq(S), NEW n \in 1..Len(s)
    PROVE  /\ RemoveAt(s, n) \in Seq(S)
           /\ Len(RemoveAt(s, n)) = Len(s) - 1
           /\ \A m \in 1..(Len(s) - 1) : RemoveAt(s, n)[m] = IF m < n THEN s[m] ELSE s[m + 1]
<1> DEFINE front == SubSeq(s, 1, n - 1)
           back == SubSeq(s, n + 1, Len(s))
<1>0. Len(s) \in Nat /\ n \in Int /\ \A m \in 1..Len(s) : s[m] \in S
  OBVIOUS
<1>1. /\ front \in Seq(S) /\ Len(front) = n - 1
      /\ \A m \in 1..(n - 1) : front[m] = s[m]
  BY <1>0, SubSeqProperties
<1>2. /\ back \in Seq(S) /\ Len(back) = Len(s) - n
      /\ \A m \in 1..(Len(s) - n) : back[m] = s[n + m]
  BY <1>0, SubSeqProperties
<1>3. RemoveAt(s, n) = front \o back
  BY DEF RemoveAt
<1> HIDE DEF front, back
<1>4. /\ front \o back \in Seq(S) /\ Len(front \o back) = Len(front) + Len(back)
      /\ \A m \in 1..(Len(front) + Len(back)) :
            (front \o back)[m] = IF m <= Len(front) THEN front[m] ELSE back[m - Len(front)]
  BY <1>1, <1>2, ConcatProperties
<1> DEFINE both == front \o back
<1>5. Len(front) + Len(back) = Len(s) - 1
  BY <1>0, <1>1, <1>2
<1>6. ASSUME NEW m \in 1..(Len(s) - 1)
      PROVE  both[m] = IF m < n THEN s[m] ELSE s[m + 1]
  <2>1. both[m] = IF m <= n - 1 THEN front[m] ELSE back[m - (n - 1)]
    BY <1>1, <1>4, <1>5
  <2> HIDE DEF both
  <2>2. CASE m < n
    BY <1>0, <1>1, <2>1, <2>2
  <2>3. CASE ~(m < n)
    <3>1. m - (n - 1) \in 1..(Len(s) - n) /\ n + (m - (n - 1)) = m + 1
      BY <1>0, <2>3
    <3> QED BY <1>0, <1>2, <2>1, <2>3, <3>1
  <2> QED BY <2>2, <2>3
<1> QED BY <1>3, <1>4, <1>5, <1>6
================================================================================

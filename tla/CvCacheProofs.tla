----------------------------- MODULE CvCacheProofs -----------------------------
(***************************************************************************)
(* Three theorems about CvCache, for any number of issues, page sizes and  *)
(* bounds.  The manager's durable queue of details owes nothing: a detail  *)
(* is fetched from Comic Vine after its issue was queued, and there an     *)
(* issue's version only grows, whatever the order of the list becomes.     *)
(* The freshness rule leaves nothing out of an answer that it makes from   *)
(* the cache alone: what the row's stamp and count say of the list of      *)
(* issues is so, however the update, the manager and the requests overtake *)
(* each other, until one of them stamps a list that lacks an issue or      *)
(* takes an issue out of it.  And the watermark is right: the issues that  *)
(* changed before it are in the cache as they are, whatever ended the runs *)
(* that read the window and however often it was resumed at its offset,    *)
(* but for those that a change moved from behind the offset to before it,  *)
(* and those that a slower writer wrote over.                              *)
(***************************************************************************)
EXTENDS CvCache, FoldTheorems

Entries == [id : Issues, ver : Nat, day : Days, out : Days]

\* Comic Vine lists an issue once, and the issues come out in turn.
VineInv ==
    /\ day \in Days
    /\ vine \in Seq(Entries)
    /\ \A m, n \in DOMAIN vine : vine[m].id = vine[n].id => m = n
    /\ \A n \in DOMAIN vine : vine[n].id <= Len(vine)

\* The issues that came out before day d.
OutBefore(v, d) == {v[n].id : n \in {n \in DOMAIN v : v[n].out < d}}

\* What was queued is no newer than what Comic Vine lists.
SnapshotInv ==
    /\ detail \in [Issues -> Int]
    /\ snapshot \in [Issues -> Int]
    /\ \A i \in Issues : snapshot[i] > 0 => snapshot[i] <= Listed[i]

QueueInv == VineInv /\ SnapshotInv /\ QueueOwesNothing

--------------------------------------------------------------------------------
\* The version Comic Vine lists of an issue is its entry's.
ListedRight ==
    /\ \A i \in Issues : Listed[i] \in Int
    /\ \A n \in DOMAIN vine : Listed[vine[n].id] = vine[n].ver
    /\ \A i \in Issues : (\A n \in DOMAIN vine : vine[n].id # i) => Listed[i] = Absent

LEMMA ListedFacts == VineInv => ListedRight
<1> SUFFICES ASSUME VineInv PROVE ListedRight
  OBVIOUS
<1>1. \A n \in DOMAIN vine : vine[n] \in Entries
  BY DEF VineInv
<1>2. ASSUME NEW i \in Issues, \A n \in DOMAIN vine : vine[n].id # i
      PROVE  Listed[i] = Absent
  BY <1>2 DEF Listed
<1>3. ASSUME NEW n \in DOMAIN vine
      PROVE  Listed[vine[n].id] = vine[n].ver
  <2> DEFINE e == CHOOSE e \in ToSet(vine) : e.id = vine[n].id
  <2>1. vine[n] \in ToSet(vine)
    BY DEF ToSet
  <2>2. e \in ToSet(vine) /\ e.id = vine[n].id
    BY <2>1
  <2> HIDE DEF e
  <2>3. PICK m \in DOMAIN vine : e = vine[m]
    BY <2>2 DEF ToSet
  <2>4. e = vine[n]
    BY <2>2, <2>3 DEF VineInv
  <2>5. vine[n].id \in Issues
    BY <1>1 DEF Entries
  <2>6. Listed[vine[n].id] = e.ver
    BY <2>5 DEF Listed, e
  <2> QED BY <2>4, <2>6
<1>4. ASSUME NEW i \in Issues PROVE Listed[i] \in Int
  BY <1>1, <1>2, <1>3 DEF Entries, Absent
<1> QED BY <1>2, <1>3, <1>4 DEF ListedRight

\* The issues that are out are the entries of the volume.
OutRight ==
    /\ Out = {vine[n].id : n \in DOMAIN vine}
    /\ \A d \in Int : OutBefore(vine, d) \subseteq Out

LEMMA OutFacts == VineInv => OutRight
<1> SUFFICES ASSUME VineInv PROVE OutRight
  OBVIOUS
<1>1. \A n \in DOMAIN vine : vine[n] \in Entries
  BY DEF VineInv
<1>2. \A n \in DOMAIN vine : vine[n].id \in Issues /\ vine[n].ver # Absent
  BY <1>1 DEF Entries, Absent
<1>3. Out = {vine[n].id : n \in DOMAIN vine}
  BY <1>2, ListedFacts DEF ListedRight, Out
<1>4. \A d \in Int : OutBefore(vine, d) \subseteq {vine[n].id : n \in DOMAIN vine}
  BY DEF OutBefore
<1> QED BY <1>3, <1>4 DEF OutRight

\* The volume changes, and what is listed of an issue does not grow less.
LEMMA EditStep ==
    ASSUME VineInv, NEW i \in Issues, EditIssue(i)
    PROVE  /\ VineInv' /\ \A k \in Issues : Listed[k] <= Listed'[k]
           /\ Len(vine') = Len(vine) /\ Out' = Out
           /\ \A d \in Int : OutBefore(vine', d) \subseteq OutBefore(vine, d)
<1>1. PICK n \in DOMAIN vine :
          /\ vine[n].id = i
          /\ vine' = Append(RemoveAt(vine, n), [vine[n] EXCEPT !.ver = @ + 1, !.day = day])
  BY DEF EditIssue
<1> DEFINE last == Len(vine)
           entry == [vine[n] EXCEPT !.ver = @ + 1, !.day = day]
           rest == RemoveAt(vine, n)
<1>2. /\ day \in Days /\ day' = day /\ vine \in Seq(Entries) /\ n \in 1..last /\ last \in Nat
      /\ vine[n] \in Entries /\ \A m \in 1..last : vine[m] \in Entries
  BY DEF VineInv, EditIssue
<1>3. entry \in Entries /\ entry.id = i /\ entry.ver = vine[n].ver + 1
  <2> DEFINE old == vine[n]
  <2>1. old \in Entries /\ old.id = i
    BY <1>1, <1>2
  <2> HIDE DEF old
  <2>2. old.ver + 1 \in Nat /\ old.id \in Issues /\ old.out \in Days
    BY <2>1 DEF Entries
  <2>3. [old EXCEPT !.ver = @ + 1, !.day = day] \in Entries
    BY <1>2, <2>1, <2>2 DEF Entries
  <2>4. /\ [old EXCEPT !.ver = @ + 1, !.day = day].id = i
        /\ [old EXCEPT !.ver = @ + 1, !.day = day].ver = old.ver + 1
    BY <2>1 DEF Entries
  <2> QED BY <2>3, <2>4 DEF old
<1>4. /\ rest \in Seq(Entries) /\ Len(rest) = last - 1
      /\ \A m \in 1..(last - 1) : rest[m] = IF m < n THEN vine[m] ELSE vine[m + 1]
  BY <1>2, RemoveAtFacts
<1> HIDE DEF entry, rest
<1>5. vine' = Append(rest, entry)
  BY <1>1 DEF rest, entry
<1>6. /\ vine' \in Seq(Entries) /\ Len(vine') = last /\ DOMAIN vine' = 1..last
      /\ vine'[last] = entry /\ \A m \in 1..(last - 1) : vine'[m] = rest[m]
  BY <1>2, <1>3, <1>4, <1>5
<1>7. DOMAIN vine = 1..last
  BY <1>2
<1> DEFINE from(m) == IF m = last THEN n ELSE IF m < n THEN m ELSE m + 1
<1>8. \A m \in 1..last : from(m) \in 1..last /\ vine'[m].id = vine[from(m)].id
  BY <1>1, <1>2, <1>3, <1>4, <1>6
<1>9. \A m, k \in 1..last : from(m) = from(k) => m = k
  BY <1>2
<1>10. \A m \in 1..last : \E k \in 1..last : from(k) = m
  <2> TAKE m \in 1..last
  <2>1. CASE m = n
    <3>1. last \in 1..last /\ from(last) = m
      BY <1>2, <2>1
    <3> QED BY <3>1
  <2>2. CASE m < n
    <3>1. m \in 1..last /\ from(m) = m
      BY <1>2, <2>2
    <3> QED BY <3>1
  <2>3. CASE n < m
    <3>1. m - 1 \in 1..last /\ from(m - 1) = m
      BY <1>2, <2>3
    <3> QED BY <3>1
  <2> QED BY <1>2, <2>1, <2>2, <2>3
<1>11. \A m \in 1..last : vine[from(m)].ver <= vine'[m].ver
  <2> TAKE m \in 1..last
  <2>1. CASE m = last
    BY <1>2, <1>3, <1>6, <2>1 DEF Entries
  <2>2. CASE m # last
    <3>1. vine'[m] = vine[from(m)]
      BY <1>2, <1>4, <1>6, <2>2
    <3>2. vine[from(m)].ver \in Nat
      BY <1>2, <1>8 DEF Entries
    <3> QED BY <3>1, <3>2
  <2> QED BY <2>1, <2>2
<1> HIDE DEF from
<1>12. VineInv'
  <2>1. \A m, k \in DOMAIN vine' : vine'[m].id = vine'[k].id => m = k
    BY <1>6, <1>7, <1>8, <1>9 DEF VineInv
  <2>2. \A m \in DOMAIN vine' : vine'[m].id <= Len(vine')
    BY <1>6, <1>7, <1>8 DEF VineInv
  <2> QED BY <1>2, <1>6, <2>1, <2>2 DEF VineInv
<1>13. ASSUME NEW k \in Issues PROVE Listed[k] <= Listed'[k]
  <2>1. /\ \A m \in 1..last : Listed[vine[m].id] = vine[m].ver
        /\ (\A m \in 1..last : vine[m].id # k) => Listed[k] = Absent
    BY <1>7, ListedFacts DEF ListedRight
  <2>2. /\ \A m \in 1..last : Listed'[vine'[m].id] = vine'[m].ver
        /\ (\A m \in 1..last : vine'[m].id # k) => Listed'[k] = Absent
    <3>1. VineInv' => ListedRight'
      BY ListedFacts, PTL
    <3> QED BY <1>6, <1>12, <3>1 DEF ListedRight
  <2>3. CASE \E m \in 1..last : vine'[m].id = k
    <3>1. PICK m \in 1..last : vine'[m].id = k
      BY <2>3
    <3> QED BY <1>8, <1>11, <2>1, <2>2, <3>1
  <2>4. CASE \A m \in 1..last : vine'[m].id # k
    <3>1. \A m \in 1..last : vine[m].id # k
      BY <1>8, <1>10, <2>4
    <3> QED BY <2>1, <2>2, <2>4, <3>1 DEF Absent
  <2> QED BY <2>3, <2>4
<1>14. Out' = Out
  <2>1. VineInv' => OutRight'
    BY OutFacts, PTL
  <2>2. Out = {vine[m].id : m \in 1..last} /\ Out' = {vine'[m].id : m \in 1..last}
    BY <1>6, <1>7, <1>12, <2>1, OutFacts DEF OutRight
  <2>3. \A m \in 1..last : \E k \in 1..last : vine[m].id = vine'[k].id
    BY <1>8, <1>10
  <2>4. \A m \in 1..last : \E k \in 1..last : vine'[m].id = vine[k].id
    BY <1>8
  <2>5. \A m \in 1..last : vine[m].id \in Out'
    BY <2>2, <2>3
  <2>6. \A m \in 1..last : vine'[m].id \in Out
    BY <2>2, <2>4
  <2> QED BY <2>2, <2>5, <2>6
<1>15. ASSUME NEW d \in Int PROVE OutBefore(vine', d) \subseteq OutBefore(vine, d)
  <2> SUFFICES ASSUME NEW m \in 1..last, vine'[m].out < d
               PROVE  vine'[m].id \in OutBefore(vine, d)
    BY <1>6 DEF OutBefore
  <2>1. vine'[m].out = vine[from(m)].out
    <3>1. CASE m = last
      BY <1>2, <1>6, <3>1 DEF entry, from, Entries
    <3>2. CASE m # last
      BY <1>2, <1>4, <1>6, <3>2 DEF from
    <3> QED BY <3>1, <3>2
  <2> QED BY <1>7, <1>8, <2>1 DEF OutBefore
<1> QED BY <1>6, <1>12, <1>13, <1>14, <1>15

LEMMA PublishStep ==
    ASSUME VineInv, NEW i \in Issues, Publish(i)
    PROVE  /\ VineInv' /\ \A k \in Issues : Listed[k] <= Listed'[k]
           /\ Len(vine') = Len(vine) + 1 /\ Out \subseteq Out'
           /\ \A d \in Int : d <= day => OutBefore(vine', d) \subseteq OutBefore(vine, d)
<1> DEFINE last == Len(vine)
           entry == [id |-> i, ver |-> 1, day |-> day, out |-> day]
<1>1. /\ day \in Days /\ day' = day /\ vine \in Seq(Entries) /\ last \in Nat
      /\ vine' = Append(vine, entry) /\ i = last + 1
  BY DEF VineInv, Publish
<1>2. entry \in Entries /\ entry.id = last + 1
  BY <1>1 DEF Entries
<1> HIDE DEF entry
<1>3. /\ vine' \in Seq(Entries) /\ Len(vine') = last + 1 /\ DOMAIN vine' = 1..(last + 1)
      /\ DOMAIN vine = 1..last
      /\ vine'[last + 1] = entry /\ \A m \in 1..last : vine'[m] = vine[m]
  BY <1>1, <1>2
<1>4. \A m \in 1..last : vine[m].id \in Issues /\ vine[m].id <= last
  <2>1. \A m \in 1..last : vine[m] \in Entries
    BY <1>1
  <2> QED BY <1>3, <2>1 DEF VineInv, Entries
<1>5. VineInv'
  <2>1. \A m, k \in DOMAIN vine' : vine'[m].id = vine'[k].id => m = k
    BY <1>1, <1>2, <1>3, <1>4 DEF VineInv, Issues
  <2>2. \A m \in DOMAIN vine' : vine'[m].id <= Len(vine')
    BY <1>1, <1>2, <1>3, <1>4 DEF Issues
  <2> QED BY <1>1, <1>3, <2>1, <2>2 DEF VineInv
<1>6. ASSUME NEW k \in Issues PROVE Listed[k] <= Listed'[k]
  <2>1. /\ Listed[k] \in Int
        /\ \A m \in 1..last : Listed[vine[m].id] = vine[m].ver
        /\ (\A m \in 1..last : vine[m].id # k) => Listed[k] = Absent
    BY <1>3, ListedFacts DEF ListedRight
  <2>2. VineInv' => ListedRight'
    BY ListedFacts, PTL
  <2>3. \A m \in 1..(last + 1) : Listed'[vine'[m].id] = vine'[m].ver
    BY <1>3, <1>5, <2>2 DEF ListedRight
  <2>4. (\A m \in 1..(last + 1) : vine'[m].id # k) => Listed'[k] = Absent
    BY <1>3, <1>5, <2>2 DEF ListedRight
  <2>5. CASE \E m \in 1..last : vine[m].id = k
    <3>1. PICK m \in 1..last : vine[m].id = k
      BY <2>5
    <3>2. m \in 1..(last + 1) /\ vine'[m] = vine[m]
      BY <1>1, <1>3, <3>1
    <3>3. Listed[k] = vine[m].ver /\ Listed'[k] = vine[m].ver
      BY <2>1, <2>3, <3>1, <3>2
    <3> QED BY <2>1, <3>3
  <2>6. CASE \A m \in 1..last : vine[m].id # k
    <3>1. Listed[k] = Absent
      BY <2>1, <2>6
    <3>2. Listed'[k] \in Int /\ Listed'[k] >= Absent
      <4>1. CASE k = last + 1
        <5>1. Listed'[k] = entry.ver /\ entry.ver = 1
          BY <1>1, <1>2, <1>3, <2>3, <4>1 DEF entry
        <5> QED BY <5>1 DEF Absent
      <4>2. CASE k # last + 1
        <5>1. \A m \in 1..(last + 1) : vine'[m].id # k
          BY <1>1, <1>2, <1>3, <2>6, <4>2
        <5> QED BY <2>4, <5>1 DEF Absent
      <4> QED BY <4>1, <4>2
    <3> QED BY <3>1, <3>2
  <2> QED BY <2>5, <2>6
<1>7. Out \subseteq Out'
  <2>1. VineInv' => OutRight'
    BY OutFacts, PTL
  <2>2. /\ Out = {vine[m].id : m \in 1..last}
        /\ Out' = {vine'[m].id : m \in 1..(last + 1)}
    BY <1>3, <1>5, <2>1, OutFacts DEF OutRight
  <2> QED BY <1>1, <1>3, <2>2
<1>8. ASSUME NEW d \in Int, d <= day PROVE OutBefore(vine', d) \subseteq OutBefore(vine, d)
  <2> SUFFICES ASSUME NEW m \in 1..(last + 1), vine'[m].out < d
               PROVE  vine'[m].id \in OutBefore(vine, d)
    BY <1>3 DEF OutBefore
  <2>1. entry.out = day /\ day \in Int
    BY <1>1 DEF entry, Days
  <2>2. m # last + 1
    BY <1>3, <1>8, <2>1
  <2>3. m \in 1..last /\ vine'[m] = vine[m]
    BY <1>1, <1>3, <2>2
  <2> QED BY <1>3, <2>3 DEF OutBefore
<1> QED BY <1>3, <1>5, <1>6, <1>7, <1>8

\* While Comic Vine only moves on, the queue owes what it owed.
LEMMA VineMoves ==
    ASSUME QueueInv, VineInv', \A k \in Issues : Listed[k] <= Listed'[k],
           UNCHANGED <<detail, pending, snapshot>>
    PROVE  QueueInv'
<1>1. \A k \in Issues : Listed[k] \in Int
  BY ListedFacts DEF QueueInv, ListedRight
<1>2. VineInv' => ListedRight'
  BY ListedFacts, PTL
<1>3. \A k \in Issues : Listed'[k] \in Int
  BY <1>2 DEF ListedRight
<1>4. \A k \in Issues : snapshot'[k] > 0 => snapshot'[k] <= Listed'[k]
  <2> TAKE k \in Issues
  <2>1. snapshot[k] \in Int /\ (snapshot[k] > 0 => snapshot[k] <= Listed[k])
    BY DEF QueueInv, SnapshotInv
  <2> QED BY <1>1, <1>3, <2>1
<1>5. SnapshotInv'
  BY <1>4 DEF QueueInv, SnapshotInv
<1> QED BY <1>5 DEF QueueInv, QueueOwesNothing

\* While Comic Vine stands, so does what it lists.
LEMMA VineStands ==
    ASSUME VineInv, UNCHANGED <<vine, day>>
    PROVE  VineInv' /\ Listed' = Listed
BY DEF VineInv, Listed, Out

\* A queue is made of what Comic Vine lists now.
LEMMA QueueStep ==
    ASSUME QueueInv, ManageQueue
    PROVE  QueueInv'
<1>1. VineInv /\ SnapshotInv /\ UNCHANGED <<vine, day, detail>>
  BY DEF QueueInv, ManageQueue, vine_vars
<1>2. VineInv' /\ Listed' = Listed /\ \A k \in Issues : Listed[k] \in Int
  BY <1>1, VineStands, ListedFacts DEF ListedRight
<1>3. CASE job.mode = "Complete"
  <2>1. pending' = job.ids /\ snapshot' = [i \in Issues |-> IF i \in job.ids THEN Listed[i] ELSE 0]
    BY <1>3 DEF ManageQueue
  <2>2. SnapshotInv'
    BY <1>1, <1>2, <2>1 DEF SnapshotInv
  <2>3. QueueOwesNothing'
    BY <2>1 DEF QueueOwesNothing
  <2> QED BY <1>2, <2>2, <2>3 DEF QueueInv
<1>4. CASE job.mode # "Complete"
  <2>1. snapshot' = [i \in Issues |-> 0]
    BY <1>4 DEF ManageQueue
  <2>2. SnapshotInv' /\ QueueOwesNothing'
    BY <1>1, <2>1 DEF SnapshotInv, QueueOwesNothing
  <2> QED BY <1>2, <2>2 DEF QueueInv
<1> QED BY <1>3, <1>4

\* What leaves the queue has a detail of what is listed now.
LEMMA DetailStep ==
    ASSUME QueueInv, ManageDetail
    PROVE  QueueInv'
<1>1. VineInv /\ SnapshotInv /\ QueueOwesNothing /\ UNCHANGED <<vine, day, snapshot>>
  BY DEF QueueInv, ManageDetail, vine_vars
<1>2. VineInv' /\ Listed' = Listed /\ \A k \in Issues : Listed[k] \in Int
  BY <1>1, VineStands, ListedFacts DEF ListedRight
<1>3. PICK i : detail' = [detail EXCEPT ![i] = Listed[i]] /\ pending' = pending \ {i}
  BY DEF ManageDetail
<1>4. detail' \in [Issues -> Int]
  BY <1>1, <1>2, <1>3 DEF SnapshotInv
<1>5. SnapshotInv'
  BY <1>1, <1>2, <1>4 DEF SnapshotInv
<1>6. QueueOwesNothing'
  <2> SUFFICES ASSUME NEW k \in Issues, snapshot[k] > 0
               PROVE  k \in pending' \/ detail'[k] >= snapshot[k]
    BY <1>1 DEF QueueOwesNothing
  <2>1. CASE k = i
    BY <1>1, <1>2, <1>3, <2>1 DEF SnapshotInv
  <2>2. CASE k # i
    BY <1>1, <1>3, <2>2 DEF SnapshotInv, QueueOwesNothing
  <2> QED BY <2>1, <2>2
<1> QED BY <1>2, <1>5, <1>6 DEF QueueInv

\* Everything else leaves Comic Vine, the details and the queue alone.
LEMMA ElseStep ==
    ASSUME QueueInv, UNCHANGED <<vine, day, detail, pending, snapshot>>
    PROVE  QueueInv'
<1>1. VineInv' /\ Listed' = Listed
  BY VineStands DEF QueueInv
<1> QED BY <1>1 DEF QueueInv, SnapshotInv, QueueOwesNothing

LEMMA InitQueue == Init => QueueInv
<1> SUFFICES ASSUME Init PROVE QueueInv
  OBVIOUS
<1>1. FirstIssues \in Nat /\ FirstIssues <= LastIssue /\ LastIssue \in Nat /\ MaxDay \in Nat \ {0}
  BY ConstantsAssumption DEF ConstantsAssumption
<1>2. vine = [n \in 1..FirstIssues |-> [id |-> n, ver |-> 1, day |-> 0, out |-> 0]]
  BY DEF Init
<1>3. \A n \in 1..FirstIssues : vine[n] \in Entries /\ vine[n].id = n
  BY <1>1, <1>2 DEF Entries, Issues, Days
<1>4. vine \in Seq(Entries) /\ Len(vine) = FirstIssues /\ DOMAIN vine = 1..FirstIssues
  BY <1>1, <1>2, <1>3
<1>5. VineInv
  BY <1>1, <1>3, <1>4 DEF VineInv, Init, Days
<1>6. SnapshotInv /\ QueueOwesNothing
  BY DEF Init, SnapshotInv, QueueOwesNothing
<1> QED BY <1>5, <1>6 DEF QueueInv

LEMMA QueueKept == QueueInv /\ [Next]_vars => QueueInv'
<1> SUFFICES ASSUME QueueInv, [Next]_vars PROVE QueueInv'
  OBVIOUS
<1>0. VineInv
  BY DEF QueueInv
<1>1. CASE Tick
  <2>1. day' \in Days /\ UNCHANGED <<vine, detail, pending, snapshot>>
    BY <1>0, <1>1, ConstantsAssumption
       DEF ConstantsAssumption, Tick, VineInv, Days, cache_vars
  <2>2. Listed' = Listed
    BY <2>1 DEF Listed, Out
  <2> QED BY <1>0, <2>1, <2>2 DEF QueueInv, VineInv, SnapshotInv, QueueOwesNothing
<1>2. ASSUME NEW i \in Issues, EditIssue(i) PROVE QueueInv'
  <2>1. UNCHANGED <<detail, pending, snapshot>>
    BY <1>2 DEF EditIssue, cache_vars
  <2> QED BY <1>0, <1>2, <2>1, EditStep, VineMoves
<1>3. ASSUME NEW i \in Issues, Publish(i) PROVE QueueInv'
  <2>1. UNCHANGED <<detail, pending, snapshot>>
    BY <1>3 DEF Publish, cache_vars
  <2> QED BY <1>0, <1>3, <2>1, PublishStep, VineMoves
<1>4. CASE UpdateBegin \/ UpdatePage \/ UpdateStore \/ UpdateSave \/ UpdateCapped \/ UpdateCancelled
  BY <1>4, ElseStep DEF UpdateBegin, UpdatePage, UpdateStore, UpdateSave, UpdateCapped,
     UpdateCancelled, vine_vars, cache_vars
<1>5. CASE ManageVolume \/ ManageList \/ ManageReplace \/ ManageCover
  BY <1>5, ElseStep DEF ManageVolume, ManageList, ManageReplace, ManageCover, vine_vars, cache_vars
<1>6. ASSUME NEW mode \in {"Summary", "Complete"}, ManageBegin(mode) PROVE QueueInv'
  BY <1>6, ElseStep DEF ManageBegin, vine_vars, cache_vars
<1>7. ASSUME NEW c \in Callers,
             Ask(c) \/ Probe(c) \/ RepageList(c) \/ RepageRow(c) \/ RepageIssues(c) \/ AskFails(c)
      PROVE  QueueInv'
  BY <1>7, ElseStep DEF Ask, Probe, RepageList, RepageRow, RepageIssues, AskFails, vine_vars,
     cache_vars
<1>8. CASE JobFails \/ Crash
  BY <1>8, ElseStep DEF JobFails, Crash, vine_vars, cache_vars
<1>9. CASE UNCHANGED vars
  BY <1>9, ElseStep DEF vars
<1> QED BY <1>1, <1>2, <1>3, <1>4, <1>5, <1>6, <1>7, <1>8, <1>9, QueueStep, DetailStep DEF Next

\* The invariant of the queue, for every number of issues and of stops.
THEOREM QueueInvariant == Spec => []QueueInv
<1>1. Init => QueueInv
  BY InitQueue
<1>2. QueueInv /\ [Next]_vars => QueueInv'
  BY QueueKept
<1> QED BY <1>1, <1>2, PTL DEF Spec

\* Whatever stops a complete update, and however often it resumes, an issue it
\* queued is on the queue or has a detail as new as the queue.
THEOREM QueueIsHonoured == Spec => []QueueOwesNothing
<1>1. QueueInv => QueueOwesNothing
  BY DEF QueueInv
<1> QED BY <1>1, QueueInvariant, PTL

--------------------------------------------------------------------------------
(* What an answer from the cache alone leaves out.                         *)

JobFields == {"pc", "ep", "since", "now", "off", "pages", "page", "total", "mode", "old",
              "count", "cover", "ids"}
JobSteps == {"idle", "page", "store", "save", "volume", "list", "replace", "queue",
             "details", "cover"}
Requests == [pc : {"idle", "probe", "list", "row", "issues"},
             was : {"none", "Fetch", "Revalidate"},
             stored : Int, count : Int, list : [Issues -> Int]]

\* The fields a step leaves alone stay; the values they have are elsewhere.
ShapeInv ==
    /\ VineInv
    /\ DOMAIN skeleton = Issues
    /\ DOMAIN row = {"count", "cover", "fetched"}
    /\ row.count \in Int /\ row.fetched \in Int
    /\ DOMAIN job = JobFields
    /\ job.pc \in JobSteps /\ job.now \in Int /\ job.count \in Int
    /\ asked \in [Callers -> Requests]
    /\ hollow \in BOOLEAN

\* No stamp is of tomorrow, and no count exceeds the issues that are out.
CountInv ==
    /\ 1 <= day
    /\ row.fetched <= day /\ row.count <= Len(vine)
    /\ job.pc \in {"list", "replace"} => job.now <= day /\ job.count <= Len(vine)
    /\ \A c \in Callers : asked[c].stored <= Len(vine) /\ asked[c].count <= Len(vine)

\* The list a manager read has what was out when it read the volume, and every
\* issue if none has come out since.
IdsInv ==
    /\ pending \subseteq Out
    /\ job.pc \in {"replace", "queue", "details"} => job.ids \subseteq Out
    /\ job.pc = "replace" =>
          /\ OutBefore(vine, job.now) \subseteq job.ids
          /\ job.count = Len(vine) => Out \subseteq job.ids

\* What the cache says of the list is so, unless it is marked hollow: the stamp
\* stands for the issues that were out, a count that is Comic Vine's for all of
\* them, and so does the count a request has read before its probe.
WholeInv ==
    ~hollow =>
        /\ \A i \in OutBefore(vine, row.fetched) : skeleton[i] # Absent
        /\ row.count = Len(vine) => ~Lacks(skeleton)
        /\ \A c \in Callers :
              asked[c].pc = "probe" /\ asked[c].was = "Revalidate"
                                    /\ asked[c].stored = Len(vine) => ~Lacks(skeleton)

AnswerInv == ShapeInv /\ CountInv /\ IdsInv /\ WholeInv /\ ServedIsWhole

\* A step of the volume leaves the cache and those who read it alone.
VineStep == \E i \in Issues : EditIssue(i) \/ Publish(i)

LEMMA VineStepFacts ==
    ASSUME ShapeInv, VineStep
    PROVE  /\ VineInv' /\ day' = day
           /\ UNCHANGED <<row, skeleton, pending, job, asked, hollow, answer>>
           /\ Len(vine) \in Nat /\ Len(vine') \in Nat /\ Out \subseteq Out'
           /\ \A d \in Int : d <= day => OutBefore(vine', d) \subseteq OutBefore(vine, d)
           /\ \/ Len(vine') = Len(vine) /\ Out' = Out
              \/ Len(vine') = Len(vine) + 1
<1>1. VineInv
  BY DEF ShapeInv
<1>2. day' = day /\ UNCHANGED <<row, skeleton, pending, job, asked, hollow, answer>>
  BY DEF VineStep, EditIssue, Publish, cache_vars
<1> DEFINE Moves ==
        /\ VineInv' /\ Out \subseteq Out'
        /\ \A d \in Int : d <= day => OutBefore(vine', d) \subseteq OutBefore(vine, d)
        /\ \/ Len(vine') = Len(vine) /\ Out' = Out
           \/ Len(vine') = Len(vine) + 1
<1>3. Moves
  <2>1. ASSUME NEW i \in Issues, EditIssue(i) PROVE Moves
    BY <1>1, <2>1, EditStep
  <2>2. ASSUME NEW i \in Issues, Publish(i) PROVE Moves
    BY <1>1, <2>2, PublishStep
  <2> QED BY <2>1, <2>2 DEF VineStep
<1>4. Len(vine) \in Nat /\ Len(vine') \in Nat
  BY <1>1, <1>3 DEF VineInv
<1> QED BY <1>2, <1>3, <1>4

\* The other steps leave Comic Vine alone.
RestStep ==
    \/ Tick
    \/ UpdateBegin \/ UpdatePage \/ UpdateStore \/ UpdateSave
    \/ UpdateCapped \/ UpdateCancelled
    \/ \E mode \in {"Summary", "Complete"} : ManageBegin(mode)
    \/ ManageVolume \/ ManageList \/ ManageReplace \/ ManageQueue
    \/ ManageDetail \/ ManageCover
    \/ \E c \in Callers : \/ Ask(c) \/ Probe(c) \/ RepageList(c)
                          \/ RepageRow(c) \/ RepageIssues(c)
                          \/ AskFails(c)
    \/ JobFails \/ Crash
    \/ UNCHANGED vars

LEMMA StepCases == [Next]_vars => VineStep \/ RestStep
BY DEF Next, VineStep, RestStep

LEMMA RestStands ==
    ASSUME ShapeInv, RestStep
    PROVE  /\ vine' = vine /\ VineInv' /\ Listed' = Listed /\ Out' = Out
           /\ day \in Int /\ day' \in Int /\ day <= day'
           /\ Len(vine) \in Nat
<1> USE DEF vine_vars, cache_vars
<1>1. VineInv /\ day \in Int /\ Len(vine) \in Nat
  BY ConstantsAssumption DEF ConstantsAssumption, ShapeInv, VineInv, Days
<1>2. vine' = vine /\ (day' = day \/ (day < MaxDay /\ day' = day + 1))
  <2>1. CASE Tick
    BY <2>1 DEF Tick
  <2>2. CASE \/ UpdateBegin \/ UpdatePage \/ UpdateStore \/ UpdateSave
             \/ UpdateCapped \/ UpdateCancelled \/ JobFails \/ Crash
    BY <2>2 DEF UpdateBegin, UpdatePage, UpdateStore, UpdateSave, UpdateCapped,
       UpdateCancelled, JobFails, Crash
  <2>3. CASE \/ \E mode \in {"Summary", "Complete"} : ManageBegin(mode)
             \/ ManageVolume \/ ManageList \/ ManageReplace \/ ManageQueue
             \/ ManageDetail \/ ManageCover
    BY <2>3 DEF ManageBegin, ManageVolume, ManageList, ManageReplace, ManageQueue,
       ManageDetail, ManageCover
  <2>4. CASE \E c \in Callers : \/ Ask(c) \/ Probe(c) \/ RepageList(c)
                                \/ RepageRow(c) \/ RepageIssues(c) \/ AskFails(c)
    BY <2>4 DEF Ask, Probe, RepageList, RepageRow, RepageIssues, AskFails
  <2>5. CASE UNCHANGED vars
    BY <2>5 DEF vars
  <2> QED BY <2>1, <2>2, <2>3, <2>4, <2>5 DEF RestStep
<1>3. day' \in Days /\ day' \in Int /\ day <= day'
  BY <1>1, <1>2, ConstantsAssumption DEF ConstantsAssumption, VineInv, Days
<1>4. VineInv' /\ Listed' = Listed /\ Out' = Out
  BY <1>1, <1>2, <1>3 DEF VineInv, Listed, Out
<1> QED BY <1>1, <1>2, <1>3, <1>4

\* The rows of the cache keep their fields.
LEMMA ShapeStep ==
    ASSUME ShapeInv, RestStep
    PROVE  ShapeInv'
<1> DEFINE Row(r) == DOMAIN r = {"count", "cover", "fetched"}
           Job(j) == DOMAIN j = JobFields
<1>0. /\ VineInv' /\ vine' = vine /\ day \in Int /\ Len(vine) \in Nat
      /\ Listed \in [Issues -> Int]
  <2>1. \A i \in Issues : Listed[i] \in Int
    BY ListedFacts DEF ShapeInv, ListedRight
  <2> QED BY <2>1, RestStands DEF Listed
<1>1. /\ DOMAIN skeleton = Issues /\ hollow \in BOOLEAN /\ asked \in [Callers -> Requests]
      /\ Row(row) /\ row.count \in Int /\ row.fetched \in Int
      /\ Job(job) /\ job.pc \in JobSteps /\ job.now \in Int /\ job.count \in Int
  BY DEF ShapeInv
<1> USE DEF vine_vars, cache_vars
<1>2. DOMAIN skeleton' = Issues /\ hollow' \in BOOLEAN
  <2>1. CASE UpdateStore
    BY <1>1, <2>1 DEF UpdateStore, Writes, PutIssues, Lacks
  <2>2. CASE ManageReplace
    BY <1>1, <2>2 DEF ManageReplace, Writes, Lacks, Loses
  <2>3. CASE ManageDetail
    BY <1>1, <2>3 DEF ManageDetail, Writes
  <2>4. ASSUME NEW c \in Callers, Probe(c) \/ RepageRow(c) \/ RepageIssues(c) PROVE <1>2
    BY <1>1, <2>4 DEF Probe, RepageRow, RepageIssues, Writes, PutIssues, Lacks
  <2>5. CASE \E c \in Callers : Ask(c) \/ RepageList(c) \/ AskFails(c)
    BY <1>1, <2>5 DEF Ask, RepageList, AskFails
  <2>6. CASE \/ Tick \/ UpdateBegin \/ UpdatePage \/ UpdateSave \/ UpdateCapped
             \/ UpdateCancelled \/ JobFails \/ Crash \/ UNCHANGED vars
    BY <1>1, <2>6 DEF Tick, UpdateBegin, UpdatePage, UpdateSave, UpdateCapped, UpdateCancelled,
       JobFails, Crash, vars
  <2>7. CASE \/ \E mode \in {"Summary", "Complete"} : ManageBegin(mode)
             \/ ManageVolume \/ ManageList \/ ManageQueue \/ ManageCover
    BY <1>1, <2>7 DEF ManageBegin, ManageVolume, ManageList, ManageQueue, ManageCover
  <2> QED BY <2>1, <2>2, <2>3, <2>4, <2>5, <2>6, <2>7 DEF RestStep
<1>3. Row(row') /\ row'.count \in Int /\ row'.fetched \in Int
  <2>1. ASSUME NEW count \in Int, NEW cover
        PROVE  LET r == PutVolume(count, cover)
               IN  Row(r) /\ r.count \in Int /\ r.fetched \in Int
    BY <1>0, <1>1 DEF PutVolume
  <2>2. CASE UpdateStore
    <3>1. row' = row \/ row' = PutVolume(Len(vine), "none") \/ row' = PutVolume(Unknown, "none")
      BY <2>2 DEF UpdateStore
    <3> QED BY <1>0, <1>1, <2>1, <3>1 DEF Unknown
  <2>3. CASE ManageReplace
    BY <1>1, <2>3 DEF ManageReplace
  <2>4. CASE ManageCover
    BY <1>1, <2>4 DEF ManageCover
  <2>5. ASSUME NEW c \in Callers, Probe(c) \/ RepageRow(c) PROVE <1>3
    <3>1. asked[c].count \in Int
      BY <1>1 DEF Requests
    <3>2. \/ row' = row \/ row' = PutVolume(Len(vine), "none")
          \/ row' = PutVolume(asked[c].count, CoverOf(asked[c].list))
      BY <2>5 DEF Probe, RepageRow
    <3> QED BY <1>0, <1>1, <2>1, <3>1, <3>2
  <2>6. CASE \E c \in Callers : Ask(c) \/ RepageList(c) \/ RepageIssues(c) \/ AskFails(c)
    BY <1>1, <2>6 DEF Ask, RepageList, RepageIssues, AskFails
  <2>7. CASE \/ Tick \/ UpdateBegin \/ UpdatePage \/ UpdateSave \/ UpdateCapped
             \/ UpdateCancelled \/ JobFails \/ Crash \/ UNCHANGED vars
    BY <1>1, <2>7 DEF Tick, UpdateBegin, UpdatePage, UpdateSave, UpdateCapped, UpdateCancelled,
       JobFails, Crash, vars
  <2>8. CASE \/ \E mode \in {"Summary", "Complete"} : ManageBegin(mode)
             \/ ManageVolume \/ ManageList \/ ManageQueue \/ ManageDetail
    BY <1>1, <2>8 DEF ManageBegin, ManageVolume, ManageList, ManageQueue, ManageDetail
  <2> QED BY <2>2, <2>3, <2>4, <2>5, <2>6, <2>7, <2>8 DEF RestStep
<1>4. Job(job') /\ job'.pc \in JobSteps /\ job'.now \in Int /\ job'.count \in Int
  <2>1. Job(Idle) /\ Idle.pc \in JobSteps /\ Idle.now \in Int /\ Idle.count \in Int
    BY DEF Idle, JobSteps, JobFields
  <2>2. ASSUME NEW n, NEW now \in Int
        PROVE  /\ Job(Endpoint(n, now)) /\ Endpoint(n, now).pc \in JobSteps
               /\ Endpoint(n, now).now \in Int /\ Endpoint(n, now).count \in Int
    BY <2>2 DEF Endpoint, Idle, JobSteps, JobFields
  <2>3. CASE UpdateBegin
    BY <1>0, <2>2, <2>3 DEF UpdateBegin
  <2>4. CASE UpdateSave \/ UpdateCapped
    <3>1. \/ job' = Idle \/ job' = Endpoint(job.ep + 1, job.now)
          \/ job' = [job EXCEPT !.pc = "page", !.page = <<>>, !.total = 0]
      BY <2>4 DEF UpdateSave, UpdateCapped, EndpointDone
    <3>2. CASE job' = Idle
      BY <2>1, <3>2
    <3>3. CASE job' = Endpoint(job.ep + 1, job.now)
      BY <1>1, <2>2, <3>3
    <3>4. CASE job' = [job EXCEPT !.pc = "page", !.page = <<>>, !.total = 0]
      BY <1>1, <3>4 DEF JobSteps, JobFields
    <3> QED BY <3>1, <3>2, <3>3, <3>4
  <2>5. CASE UpdatePage \/ UpdateStore
    BY <1>1, <2>5 DEF UpdatePage, UpdateStore, JobSteps, JobFields
  <2>6. CASE UpdateCancelled \/ JobFails \/ Crash
    BY <2>1, <2>6 DEF UpdateCancelled, JobFails, Crash
  <2>7. ASSUME NEW mode \in {"Summary", "Complete"}, ManageBegin(mode) PROVE <1>4
    BY <2>7 DEF ManageBegin, Idle, JobSteps, JobFields
  <2>8. CASE ManageVolume
    BY <1>0, <1>1, <2>8 DEF ManageVolume, JobSteps, JobFields
  <2>9. CASE ManageList \/ ManageReplace \/ ManageDetail
    BY <1>1, <2>9 DEF ManageList, ManageReplace, ManageDetail, JobSteps, JobFields
  <2>10. CASE ManageQueue \/ ManageCover
    BY <2>1, <2>10 DEF ManageQueue, ManageCover, Idle, JobSteps, JobFields
  <2>11. CASE \/ \E c \in Callers : \/ Ask(c) \/ Probe(c) \/ RepageList(c)
                                    \/ RepageRow(c) \/ RepageIssues(c) \/ AskFails(c)
              \/ Tick \/ UNCHANGED vars
    BY <1>1, <2>11 DEF Ask, Probe, RepageList, RepageRow, RepageIssues, AskFails, Tick, vars
  <2> QED BY <2>3, <2>4, <2>5, <2>6, <2>7, <2>8, <2>9, <2>10, <2>11 DEF RestStep
<1>5. asked' \in [Callers -> Requests]
  <2>1. NotAsked \in Requests
    BY DEF NotAsked, Requests, Absent, Unknown
  <2>2. ASSUME NEW c \in Callers, Ask(c) PROVE <1>5
    <3>1. Verdict \in {"Fetch", "Fresh", "Revalidate"}
      BY DEF Verdict
    <3>2. \/ asked' = asked
          \/ /\ Verdict # "Fresh"
             /\ asked' = [asked EXCEPT ![c] = [NotAsked EXCEPT !.pc = "probe", !.was = Verdict,
                                                              !.stored = row.count]]
      BY <2>2 DEF Ask
    <3>3. Verdict # "Fresh" => [NotAsked EXCEPT !.pc = "probe", !.was = Verdict,
                                                !.stored = row.count] \in Requests
      BY <1>1, <2>1, <3>1 DEF Requests
    <3> QED BY <1>1, <3>2, <3>3
  <2>3. ASSUME NEW c \in Callers, Probe(c) PROVE <1>5
    <3>1. asked[c] \in Requests
      BY <1>1
    <3> DEFINE n == Len(vine)
               r == asked[c]
    <3>2. r \in Requests /\ n \in Int
      BY <1>0, <3>1
    <3> HIDE DEF n, r
    <3>4. [r EXCEPT !.pc = "list", !.count = n] \in Requests
      BY <3>2 DEF Requests
    <3>3. \/ asked' = [asked EXCEPT ![c] = NotAsked]
          \/ asked' = [asked EXCEPT ![c] = [asked[c] EXCEPT !.pc = "list", !.count = Len(vine)]]
      BY <1>1, <2>3 DEF Probe
    <3> QED BY <1>1, <2>1, <3>3, <3>4 DEF n, r
  <2>4. ASSUME NEW c \in Callers, RepageList(c) PROVE <1>5
    <3>1. asked[c] \in Requests
      BY <1>1
    <3>2. [asked[c] EXCEPT !.pc = "row", !.list = Listed] \in Requests
      BY <1>0, <3>1 DEF Requests
    <3>3. asked' = [asked EXCEPT ![c] = [asked[c] EXCEPT !.pc = "row", !.list = Listed]]
      BY <1>1, <2>4 DEF RepageList
    <3> QED BY <1>1, <3>2, <3>3
  <2>5. ASSUME NEW c \in Callers, RepageRow(c) PROVE <1>5
    <3>1. asked[c] \in Requests
      BY <1>1
    <3>2. [asked[c] EXCEPT !.pc = "issues"] \in Requests
      BY <3>1 DEF Requests
    <3>3. asked' = [asked EXCEPT ![c] = [asked[c] EXCEPT !.pc = "issues"]]
      BY <1>1, <2>5 DEF RepageRow
    <3> QED BY <1>1, <3>2, <3>3
  <2>6. ASSUME NEW c \in Callers, RepageIssues(c) \/ AskFails(c) PROVE <1>5
    BY <1>1, <2>1, <2>6 DEF RepageIssues, AskFails
  <2>7. CASE Crash
    BY <2>1, <2>7 DEF Crash
  <2>8. CASE \/ Tick \/ UpdateBegin \/ UpdatePage \/ UpdateStore \/ UpdateSave
             \/ UpdateCapped \/ UpdateCancelled \/ JobFails \/ UNCHANGED vars
    BY <1>1, <2>8 DEF Tick, UpdateBegin, UpdatePage, UpdateStore, UpdateSave, UpdateCapped,
       UpdateCancelled, JobFails, vars
  <2>9. CASE \/ \E mode \in {"Summary", "Complete"} : ManageBegin(mode)
             \/ ManageVolume \/ ManageList \/ ManageReplace \/ ManageQueue
             \/ ManageDetail \/ ManageCover
    BY <1>1, <2>9 DEF ManageBegin, ManageVolume, ManageList, ManageReplace, ManageQueue,
       ManageDetail, ManageCover
  <2> QED BY <2>2, <2>3, <2>4, <2>5, <2>6, <2>7, <2>8, <2>9 DEF RestStep
<1> QED BY <1>0, <1>2, <1>3, <1>4, <1>5 DEF ShapeInv

\* What is out, what is counted and what is owed survive a change of Comic Vine.
LEMMA AnswerVine ==
    ASSUME AnswerInv, VineStep
    PROVE  AnswerInv'
<1>1. /\ ShapeInv /\ CountInv /\ IdsInv /\ WholeInv /\ ServedIsWhole
      /\ VineInv' /\ day' = day
      /\ UNCHANGED <<row, skeleton, pending, job, asked, hollow, answer>>
      /\ Len(vine) \in Nat /\ Len(vine') \in Nat /\ Out \subseteq Out'
      /\ \A d \in Int : d <= day => OutBefore(vine', d) \subseteq OutBefore(vine, d)
      /\ \/ Len(vine') = Len(vine) /\ Out' = Out
         \/ Len(vine') = Len(vine) + 1
  BY VineStepFacts DEF AnswerInv
<1>2. /\ row.fetched \in Int /\ row.count \in Int /\ job.now \in Int /\ job.count \in Int
      /\ \A c \in Callers : asked[c].stored \in Int /\ asked[c].count \in Int
  BY <1>1 DEF ShapeInv, Requests
<1>3. ShapeInv'
  BY <1>1 DEF ShapeInv
<1>4. CountInv'
  BY <1>1, <1>2 DEF CountInv
<1>5. IdsInv'
  <2>1. pending' \subseteq Out' /\ (job'.pc \in {"replace", "queue", "details"} => job'.ids \subseteq Out')
    BY <1>1 DEF IdsInv
  <2>2. ASSUME job'.pc = "replace"
        PROVE  /\ OutBefore(vine', job'.now) \subseteq job'.ids
               /\ job'.count = Len(vine') => Out' \subseteq job'.ids
    <3>1. /\ job.now <= day /\ job.count <= Len(vine)
          /\ OutBefore(vine, job.now) \subseteq job.ids
          /\ job.count = Len(vine) => Out \subseteq job.ids
      BY <1>1, <2>2 DEF CountInv, IdsInv
    <3> QED BY <1>1, <1>2, <3>1
  <2> QED BY <2>1, <2>2 DEF IdsInv
<1>6. WholeInv'
  <2> SUFFICES ASSUME ~hollow'
               PROVE  /\ \A i \in OutBefore(vine', row'.fetched) : skeleton'[i] # Absent
                      /\ row'.count = Len(vine') => ~Lacks(skeleton)'
                      /\ \A c \in Callers :
                            asked'[c].pc = "probe" /\ asked'[c].was = "Revalidate"
                                /\ asked'[c].stored = Len(vine') => ~Lacks(skeleton)'
    BY DEF WholeInv
  <2>1. /\ \A i \in OutBefore(vine, row.fetched) : skeleton[i] # Absent
        /\ row.count = Len(vine) => ~Lacks(skeleton)
        /\ \A c \in Callers :
              asked[c].pc = "probe" /\ asked[c].was = "Revalidate"
                                    /\ asked[c].stored = Len(vine) => ~Lacks(skeleton)
        /\ row.fetched <= day /\ row.count <= Len(vine)
        /\ \A c \in Callers : asked[c].stored <= Len(vine)
    BY <1>1 DEF WholeInv, CountInv
  <2>2. \A i \in OutBefore(vine', row'.fetched) : skeleton'[i] # Absent
    BY <1>1, <1>2, <2>1
  <2>3. CASE Len(vine') = Len(vine) /\ Out' = Out
    <3>1. Lacks(skeleton)' = Lacks(skeleton)
      BY <1>1, <2>3 DEF Lacks
    <3> QED BY <1>1, <2>1, <2>2, <2>3, <3>1
  <2>4. CASE Len(vine') = Len(vine) + 1
    BY <1>1, <1>2, <2>1, <2>2, <2>4
  <2> QED BY <1>1, <2>3, <2>4
<1> QED BY <1>1, <1>3, <1>4, <1>5, <1>6 DEF AnswerInv, ServedIsWhole

\* What the next job of the slot is, when a step gives it another.
LEMMA SlotMoves ==
    ASSUME ShapeInv, UpdateBegin \/ UpdateSave \/ UpdateCapped
    PROVE  job'.pc \in {"idle", "page"}
<1>1. /\ DOMAIN job = JobFields
      /\ \/ job' = Idle
         \/ \E n, now : job' = Endpoint(n, now)
         \/ job' = [job EXCEPT !.pc = "page", !.page = <<>>, !.total = 0]
  BY DEF ShapeInv, UpdateBegin, UpdateSave, UpdateCapped, EndpointDone
<1>2. CASE job' = Idle
  BY <1>2 DEF Idle
<1>3. CASE \E n, now : job' = Endpoint(n, now)
  BY <1>3 DEF Endpoint, Idle
<1>4. CASE job' = [job EXCEPT !.pc = "page", !.page = <<>>, !.total = 0]
  BY <1>1, <1>4 DEF JobFields
<1> QED BY <1>1, <1>2, <1>3, <1>4

\* A request is no step of the job in the slot.
AskStep == \E c \in Callers : \/ Ask(c) \/ Probe(c) \/ RepageList(c)
                              \/ RepageRow(c) \/ RepageIssues(c) \/ AskFails(c)

LEMMA AskMoves ==
    ASSUME AskStep
    PROVE  UNCHANGED <<job, pending, day>>
<1>1. PICK c \in Callers : \/ Ask(c) \/ Probe(c) \/ RepageList(c)
                           \/ RepageRow(c) \/ RepageIssues(c) \/ AskFails(c)
  BY DEF AskStep
<1> QED BY <1>1 DEF Ask, Probe, RepageList, RepageRow, RepageIssues, AskFails, vine_vars,
           cache_vars

\* A stamp is of today or of the day it was, a count of now or what it was.
LEMMA CountStep ==
    ASSUME ShapeInv, CountInv, RestStep
    PROVE  CountInv'
<1> USE DEF vine_vars, cache_vars
<1>0. /\ vine' = vine /\ day \in Int /\ day' \in Int /\ day <= day' /\ Len(vine) \in Nat
      /\ 1 <= day /\ row.fetched <= day /\ row.count <= Len(vine)
      /\ job.pc \in {"list", "replace"} => job.now <= day /\ job.count <= Len(vine)
      /\ \A c \in Callers : asked[c].stored <= Len(vine) /\ asked[c].count <= Len(vine)
      /\ row.count \in Int /\ row.fetched \in Int /\ job.now \in Int /\ job.count \in Int
      /\ DOMAIN row = {"count", "cover", "fetched"} /\ DOMAIN job = JobFields
      /\ asked \in [Callers -> Requests]
      /\ \A c \in Callers : asked[c] \in Requests /\ asked[c].stored \in Int /\ asked[c].count \in Int
  BY RestStands DEF ShapeInv, CountInv, Requests
<1>1. row'.fetched <= day' /\ row'.count <= Len(vine)
  <2>1. ASSUME NEW count \in Int, NEW cover, count <= Len(vine)
        PROVE  PutVolume(count, cover).fetched <= day' /\ PutVolume(count, cover).count <= Len(vine)
    BY <1>0, <2>1 DEF PutVolume
  <2>2. CASE UpdateStore
    <3>1. row' = row \/ row' = PutVolume(Len(vine), "none") \/ row' = PutVolume(Unknown, "none")
      BY <2>2 DEF UpdateStore
    <3> QED BY <1>0, <2>1, <3>1 DEF Unknown
  <2>3. CASE ManageReplace
    BY <1>0, <2>3 DEF ManageReplace
  <2>4. CASE ManageCover
    BY <1>0, <2>4 DEF ManageCover
  <2>5. ASSUME NEW c \in Callers, Probe(c) \/ RepageRow(c) PROVE <1>1
    <3>1. asked[c].count \in Int /\ asked[c].count <= Len(vine)
      BY <1>0
    <3>2. \/ row' = row \/ row' = PutVolume(Len(vine), "none")
          \/ row' = PutVolume(asked[c].count, CoverOf(asked[c].list))
      BY <2>5 DEF Probe, RepageRow
    <3> QED BY <1>0, <2>1, <3>1, <3>2
  <2>6. CASE \E c \in Callers : Ask(c) \/ RepageList(c) \/ RepageIssues(c) \/ AskFails(c)
    BY <1>0, <2>6 DEF Ask, RepageList, RepageIssues, AskFails
  <2>7. CASE \/ Tick \/ UpdateBegin \/ UpdatePage \/ UpdateSave \/ UpdateCapped
             \/ UpdateCancelled \/ JobFails \/ Crash \/ UNCHANGED vars
    BY <1>0, <2>7 DEF Tick, UpdateBegin, UpdatePage, UpdateSave, UpdateCapped, UpdateCancelled,
       JobFails, Crash, vars
  <2>8. CASE \/ \E mode \in {"Summary", "Complete"} : ManageBegin(mode)
             \/ ManageVolume \/ ManageList \/ ManageQueue \/ ManageDetail
    BY <1>0, <2>8 DEF ManageBegin, ManageVolume, ManageList, ManageQueue, ManageDetail
  <2> QED BY <2>2, <2>3, <2>4, <2>5, <2>6, <2>7, <2>8 DEF RestStep
<1>2. job'.pc \in {"list", "replace"} => job'.now <= day' /\ job'.count <= Len(vine)
  <2>1. CASE UpdateBegin \/ UpdateSave \/ UpdateCapped
    BY <2>1, SlotMoves
  <2>2. CASE UpdatePage \/ UpdateStore
    BY <1>0, <2>2 DEF UpdatePage, UpdateStore, JobFields
  <2>3. CASE UpdateCancelled \/ JobFails \/ Crash
    BY <2>3 DEF UpdateCancelled, JobFails, Crash, Idle
  <2>4. CASE \E mode \in {"Summary", "Complete"} : ManageBegin(mode)
    BY <2>4 DEF ManageBegin, Idle
  <2>5. CASE ManageVolume \/ ManageList
    <3>1. CASE ManageVolume
      BY <1>0, <3>1 DEF ManageVolume, JobFields
    <3>2. CASE ManageList
      BY <1>0, <3>2 DEF ManageList, JobFields
    <3> QED BY <2>5, <3>1, <3>2
  <2>6. CASE ManageReplace \/ ManageDetail
    BY <1>0, <2>6 DEF ManageReplace, ManageDetail, JobFields
  <2>7. CASE ManageQueue \/ ManageCover
    <3>1. \/ job' = Idle
          \/ job' = [Idle EXCEPT !.pc = "details", !.mode = job.mode, !.ids = job.ids]
      BY <2>7 DEF ManageQueue, ManageCover
    <3>2. CASE job' = Idle
      BY <3>2 DEF Idle
    <3>3. CASE job' = [Idle EXCEPT !.pc = "details", !.mode = job.mode, !.ids = job.ids]
      <4>1. job'.pc = "details"
        BY <3>3 DEF Idle
      <4> QED BY <4>1
    <3> QED BY <3>1, <3>2, <3>3
  <2>8. CASE AskStep \/ Tick \/ UNCHANGED vars
    <3>1. UNCHANGED <<job, pending>>
      BY <2>8, AskMoves DEF Tick, vars
    <3> QED BY <1>0, <3>1
  <2> QED BY <2>1, <2>2, <2>3, <2>4, <2>5, <2>6, <2>7, <2>8 DEF RestStep, AskStep
<1>3. \A c \in Callers : asked'[c].stored <= Len(vine) /\ asked'[c].count <= Len(vine)
  <2>1. NotAsked.stored <= Len(vine) /\ NotAsked.count <= Len(vine)
    BY <1>0 DEF NotAsked, Unknown
  <2>2. CASE \E c \in Callers : Ask(c) \/ RepageIssues(c) \/ AskFails(c)
    <3>1. PICK c \in Callers : Ask(c) \/ RepageIssues(c) \/ AskFails(c)
      BY <2>2
    <3>2. \/ asked' = asked \/ asked' = [asked EXCEPT ![c] = NotAsked]
          \/ asked' = [asked EXCEPT ![c] = [NotAsked EXCEPT !.pc = "probe", !.was = Verdict,
                                                           !.stored = row.count]]
      BY <3>1 DEF Ask, RepageIssues, AskFails
    <3>3. LET r == [NotAsked EXCEPT !.pc = "probe", !.was = Verdict, !.stored = row.count]
          IN  r.stored <= Len(vine) /\ r.count <= Len(vine)
      BY <1>0 DEF NotAsked
    <3> QED BY <1>0, <2>1, <3>2, <3>3
  <2>3. ASSUME NEW c \in Callers, Probe(c) \/ RepageList(c) \/ RepageRow(c),
               NEW k \in Callers
        PROVE  asked'[k].stored <= Len(vine) /\ asked'[k].count <= Len(vine)
    <3>1. CASE k = c
      BY <1>0, <2>1, <2>3, <3>1 DEF Probe, RepageList, RepageRow, Requests
    <3>2. CASE k # c
      BY <1>0, <2>3, <3>2 DEF Probe, RepageList, RepageRow
    <3> QED BY <3>1, <3>2
  <2>4. CASE Crash
    BY <2>1, <2>4 DEF Crash
  <2>5. CASE \/ Tick \/ UpdateBegin \/ UpdatePage \/ UpdateStore \/ UpdateSave
             \/ UpdateCapped \/ UpdateCancelled \/ JobFails \/ UNCHANGED vars
    BY <1>0, <2>5 DEF Tick, UpdateBegin, UpdatePage, UpdateStore, UpdateSave, UpdateCapped,
       UpdateCancelled, JobFails, vars
  <2>6. CASE \/ \E mode \in {"Summary", "Complete"} : ManageBegin(mode)
             \/ ManageVolume \/ ManageList \/ ManageReplace \/ ManageQueue
             \/ ManageDetail \/ ManageCover
    BY <1>0, <2>6 DEF ManageBegin, ManageVolume, ManageList, ManageReplace, ManageQueue,
       ManageDetail, ManageCover
  <2> QED BY <2>2, <2>3, <2>4, <2>5, <2>6 DEF RestStep
<1> QED BY <1>0, <1>1, <1>2, <1>3 DEF CountInv

\* The queue and the lists of the manager are of issues that are out.
LEMMA IdsStep ==
    ASSUME ShapeInv, CountInv, IdsInv, RestStep
    PROVE  IdsInv'
<1> USE DEF vine_vars, cache_vars
<1> DEFINE Lists(j) ==
        /\ j.pc \in {"replace", "queue", "details"} => j.ids \subseteq Out
        /\ j.pc = "replace" => /\ OutBefore(vine, j.now) \subseteq j.ids
                               /\ j.count = Len(vine) => Out \subseteq j.ids
<1>0. /\ vine' = vine /\ Out' = Out /\ pending \subseteq Out /\ Lists(job)
      /\ DOMAIN job = JobFields /\ job.now \in Int
      /\ \A d \in Int : OutBefore(vine, d) \subseteq Out
  BY RestStands, OutFacts DEF ShapeInv, IdsInv, OutRight
<1>1. pending' \subseteq Out /\ Lists(job')
  <2>1. CASE UpdateBegin \/ UpdateSave \/ UpdateCapped
    <3>1. pending' = pending
      BY <2>1 DEF UpdateBegin, UpdateSave, UpdateCapped
    <3> QED BY <1>0, <2>1, <3>1, SlotMoves
  <2>2. CASE UpdatePage \/ UpdateStore
    BY <1>0, <2>2 DEF UpdatePage, UpdateStore, JobFields
  <2>3. CASE UpdateCancelled \/ JobFails \/ Crash
    BY <1>0, <2>3 DEF UpdateCancelled, JobFails, Crash, Idle
  <2>4. CASE \E mode \in {"Summary", "Complete"} : ManageBegin(mode)
    BY <1>0, <2>4 DEF ManageBegin, Idle
  <2>5. CASE ManageVolume \/ ManageList
    BY <1>0, <2>5 DEF ManageVolume, ManageList, JobFields
  <2>6. CASE ManageReplace \/ ManageDetail
    BY <1>0, <2>6 DEF ManageReplace, ManageDetail, JobFields
  <2>7. CASE ManageQueue \/ ManageCover
    <3>1. CASE ManageQueue /\ job.mode = "Complete"
      BY <1>0, <3>1 DEF ManageQueue, Idle
    <3>2. CASE ManageQueue /\ job.mode # "Complete"
      BY <1>0, <3>2 DEF ManageQueue, Idle
    <3>3. CASE ManageCover
      BY <1>0, <3>3 DEF ManageCover, Idle
    <3> QED BY <2>7, <3>1, <3>2, <3>3
  <2>8. CASE AskStep \/ Tick \/ UNCHANGED vars
    <3>1. UNCHANGED <<job, pending>>
      BY <2>8, AskMoves DEF Tick, vars
    <3> QED BY <1>0, <3>1
  <2> QED BY <2>1, <2>2, <2>3, <2>4, <2>5, <2>6, <2>7, <2>8 DEF RestStep, AskStep
<1> QED BY <1>0, <1>1 DEF IdsInv

\* No list gets shorter by a write that puts issues or a detail.
Keeps(new) == \A i \in Issues : skeleton[i] # Absent => new[i] # Absent

LEMMA KeptLists ==
    ASSUME NEW new, Keeps(new) \/ ~Loses(new)
    PROVE  /\ ~Lacks(skeleton) => ~Lacks(new)
           /\ \A i \in Issues : skeleton[i] # Absent => new[i] # Absent
BY DEF Keeps, Loses, Lacks, Out

\* The rule's answer is short only where the stamp says too much.
LEMMA AnswerFacts ==
    ASSUME VineInv, NEW stamp \in Int, stamp # 0,
           ~hollow => \A i \in OutBefore(vine, stamp) : skeleton[i] # Absent
    PROVE  Answer(stamp) # "short"
<1>1. CASE hollow
  BY <1>1 DEF Answer
<1>2. CASE ~hollow
  <2>1. \A n \in DOMAIN vine : vine[n].out < stamp => skeleton[vine[n].id] # Absent
    BY <1>2 DEF OutBefore
  <2> QED BY <2>1 DEF Answer
<1> QED BY <1>1, <1>2

\* What the row and the requests say of the list, as WholeInv has it.
SaysSo(r, list, q) ==
    /\ \A i \in OutBefore(vine, r.fetched) : list[i] # Absent
    /\ r.count = Len(vine) => ~Lacks(list)
    /\ \A c \in Callers : q[c].pc = "probe" /\ q[c].was = "Revalidate"
                              /\ q[c].stored = Len(vine) => ~Lacks(list)

\* A row with nothing lacking behind it says so whatever it says.
LEMMA NothingLacking ==
    ASSUME VineInv, NEW r, r.fetched \in Int, NEW list, NEW q, ~Lacks(list)
    PROVE  SaysSo(r, list, q)
<1>1. OutBefore(vine, r.fetched) \subseteq Out
  BY OutFacts DEF OutRight
<1>2. \A i \in Out : list[i] # Absent
  BY DEF Lacks
<1> QED BY <1>1, <1>2 DEF SaysSo

\* A write that keeps the list, under the same row and requests that have not
\* read it, says what it said.
LEMMA SaysOn ==
    ASSUME VineInv, SaysSo(row, skeleton, asked), NEW r, NEW list, NEW q,
           r.fetched = row.fetched, r.fetched \in Int, r.count = row.count,
           Keeps(list) \/ ~Loses(list),
           \A c \in Callers : q[c] = asked[c] \/ q[c].pc # "probe"
    PROVE  SaysSo(r, list, q)
<1>1. /\ ~Lacks(skeleton) => ~Lacks(list)
      /\ \A i \in Issues : skeleton[i] # Absent => list[i] # Absent
  BY KeptLists
<1>2. OutBefore(vine, r.fetched) \subseteq Issues
  BY OutFacts DEF OutRight, Out
<1> QED BY <1>1, <1>2 DEF SaysSo

\* Nothing is said of the list that is not so, whoever writes.
LEMMA WholeStep ==
    ASSUME AnswerInv, RestStep
    PROVE  WholeInv' /\ ServedIsWhole'
<1> USE DEF vine_vars, cache_vars
<1> DEFINE Says == ~hollow => SaysSo(row, skeleton, asked)
           SaysNext == ~hollow' => SaysSo(row', skeleton', asked')
           Goal == SaysNext /\ answer' # "short"
<1>0. /\ ShapeInv /\ CountInv /\ IdsInv /\ VineInv /\ Says /\ answer # "short"
      /\ vine' = vine /\ Out' = Out /\ Len(vine) \in Nat /\ day \in Int /\ 1 <= day
      /\ ShapeInv' /\ row.fetched \in Int /\ row'.fetched \in Int
      /\ DOMAIN row = {"count", "cover", "fetched"}
      /\ DOMAIN skeleton = Issues /\ asked \in [Callers -> Requests] /\ hollow \in BOOLEAN
  <2>1. ShapeInv'
    BY ShapeStep DEF AnswerInv
  <2> QED BY <2>1, RestStands DEF AnswerInv, ShapeInv, CountInv, WholeInv, SaysSo, ServedIsWhole
<1> SUFFICES Goal
  BY <1>0 DEF WholeInv, ServedIsWhole, SaysSo, Lacks
<1> HIDE DEF Says, SaysNext
\* A write of the list alone, and a write that leaves nothing lacking.
<1>on. ASSUME Keeps(skeleton') \/ ~Loses(skeleton'), hollow' = hollow,
              row'.fetched = row.fetched, row'.count = row.count,
              \A c \in Callers : asked'[c] = asked[c] \/ asked'[c].pc # "probe"
       PROVE  SaysNext
  BY <1>0, <1>on, SaysOn DEF Says, SaysNext
<1>all. ASSUME ~hollow' => ~Lacks(skeleton') PROVE SaysNext
  BY <1>0, <1>all, NothingLacking DEF SaysNext
<1>same. Keeps(skeleton)
  BY DEF Keeps
<1>1. CASE UpdateStore
  <2>1. PICK got : /\ skeleton' = PutIssues(got)
                   /\ \/ UNCHANGED <<row, hollow>>
                      \/ hollow' = Lacks(skeleton')
    BY <1>1 DEF UpdateStore, Writes
  <2>2. Keeps(skeleton')
    BY <2>1 DEF Keeps, PutIssues
  <2>3. asked' = asked /\ answer' = answer
    BY <1>1 DEF UpdateStore
  <2>4. CASE UNCHANGED <<row, hollow>>
    BY <1>0, <1>on, <2>2, <2>3, <2>4
  <2>5. CASE hollow' = Lacks(skeleton')
    BY <1>0, <1>all, <2>3, <2>5
  <2> QED BY <2>1, <2>4, <2>5
<1>2. CASE ManageReplace
  <2>1. /\ job.pc = "replace" /\ asked' = asked /\ answer' = answer
        /\ row'.fetched = job.now /\ row'.count = job.count
        /\ hollow' = (Lacks(skeleton') /\ (hollow \/ Loses(skeleton')))
        /\ skeleton' = [i \in Issues |-> IF i \notin job.ids THEN Absent
                                         ELSE IF job.old[i] = Absent THEN NumberOnly
                                         ELSE job.old[i]]
    BY <1>2 DEF ManageReplace, Writes
  <2>2. /\ OutBefore(vine, job.now) \subseteq job.ids
        /\ job.count = Len(vine) => Out \subseteq job.ids
        /\ job.ids \subseteq Issues
    BY <1>0, <2>1 DEF IdsInv, Out
  <2>3. \A i \in job.ids : skeleton'[i] # Absent
    BY <2>1, <2>2 DEF Absent, NumberOnly
  <2>4. CASE ~Lacks(skeleton')
    BY <1>0, <1>all, <2>1, <2>4
  <2>5. CASE Lacks(skeleton') /\ ~hollow /\ ~Loses(skeleton')
    <3>1. SaysSo(row, skeleton, asked)
      BY <1>0, <2>5 DEF Says
    <3>2. ~Lacks(skeleton) => ~Lacks(skeleton')
      BY <2>5, KeptLists
    <3>3. \A i \in OutBefore(vine, row'.fetched) : skeleton'[i] # Absent
      BY <2>1, <2>2, <2>3
    <3>4. row'.count = Len(vine) => ~Lacks(skeleton')
      BY <2>1, <2>2, <2>3 DEF Lacks
    <3>5. SaysSo(row', skeleton', asked')
      BY <2>1, <3>1, <3>2, <3>3, <3>4 DEF SaysSo
    <3> QED BY <1>0, <2>1, <3>5 DEF SaysNext
  <2>6. CASE Lacks(skeleton') /\ (hollow \/ Loses(skeleton'))
    <3>1. hollow'
      BY <2>1, <2>6
    <3> QED BY <1>0, <2>1, <3>1 DEF SaysNext
  <2> QED BY <2>4, <2>5, <2>6
<1>3. CASE ManageDetail
  <2>1. PICK i : /\ i \in job.ids
                 /\ skeleton' = [skeleton EXCEPT ![i] = IF @ = Absent THEN Absent ELSE Listed[i]]
    <3> DEFINE i == CHOOSE m \in job.ids : \A k \in job.ids : m <= k
    <3>1. /\ job.pc = "details" /\ job.ids # {}
          /\ skeleton' = [skeleton EXCEPT ![i] = IF @ = Absent THEN Absent ELSE Listed[i]]
      BY <1>3 DEF ManageDetail, Writes
    <3>2. job.ids \subseteq Nat
      BY <1>0, <3>1, ConstantsAssumption DEF ConstantsAssumption, IdsInv, Out, Issues
    <3>3. \E m \in job.ids : \A k \in job.ids : m <= k
      BY <3>1, <3>2, LeastElement
    <3>4. i \in job.ids
      BY <3>3
    <3> HIDE DEF i
    <3> QED BY <3>1, <3>4
  <2>2. Listed[i] # Absent
    BY <1>0, <1>3, <2>1 DEF IdsInv, ManageDetail, Out
  <2>3. Keeps(skeleton')
    BY <1>0, <2>1, <2>2 DEF Keeps
  <2> QED BY <1>0, <1>3, <1>on, <2>3 DEF ManageDetail
<1>4. ASSUME NEW c \in Callers, Ask(c) PROVE Goal
  <2>0. UNCHANGED <<skeleton, row, hollow>>
    BY <1>4 DEF Ask
  <2>1. CASE Verdict = "Fresh"
    <3>1. asked' = asked /\ answer' = Answer(row.fetched) /\ row.fetched # 0
      BY <1>4, <2>1 DEF Ask, Verdict
    <3>2. Answer(row.fetched) # "short"
      BY <1>0, <3>1, AnswerFacts DEF Says, SaysSo
    <3> QED BY <1>0, <1>on, <1>same, <2>0, <3>1, <3>2
  <2>2. CASE Verdict # "Fresh"
    <3>1. /\ answer' = answer
          /\ asked' = [asked EXCEPT ![c] = [NotAsked EXCEPT !.pc = "probe", !.was = Verdict,
                                                           !.stored = row.count]]
      BY <1>4, <2>2 DEF Ask
    <3>2. asked'[c].stored = row.count /\ \A k \in Callers \ {c} : asked'[k] = asked[k]
      BY <1>0, <3>1 DEF NotAsked
    <3>3. SaysSo(row, skeleton, asked) => SaysSo(row, skeleton, asked')
      BY <3>2 DEF SaysSo
    <3> QED BY <1>0, <2>0, <3>1, <3>3 DEF Says, SaysNext
  <2> QED BY <2>1, <2>2
<1>5. ASSUME NEW c \in Callers, Probe(c) PROVE Goal
  <2>0. skeleton' = skeleton /\ asked[c].pc = "probe" /\ asked[c] \in Requests
    BY <1>0, <1>5 DEF Probe
  <2>1. CASE asked[c].was = "Revalidate" /\ ~Changed(c)
    <3>1. /\ asked' = [asked EXCEPT ![c] = NotAsked] /\ answer' = Answer(day)
          /\ asked[c].stored = Len(vine) /\ hollow' = hollow
      BY <1>5, <2>1 DEF Probe, Changed
    <3>2. ~hollow => ~Lacks(skeleton)
      BY <1>0, <2>0, <2>1, <3>1 DEF Says, SaysSo
    <3>3. ~hollow => \A i \in OutBefore(vine, day) : skeleton[i] # Absent
      BY <1>0, <3>2, OutFacts DEF OutRight, Lacks
    <3>4. Answer(day) # "short"
      BY <1>0, <3>3, AnswerFacts
    <3> QED BY <1>0, <1>all, <2>0, <3>1, <3>2, <3>4
  <2>2. CASE asked[c].was = "Revalidate" /\ Changed(c)
    <3>1. answer' = answer /\ hollow' = Lacks(skeleton)
      BY <1>5, <2>2 DEF Probe
    <3> QED BY <1>0, <1>all, <2>0, <3>1
  <2>3. CASE asked[c].was # "Revalidate"
    <3>1. /\ answer' = answer /\ hollow' = hollow /\ row' = row
          /\ asked' = [asked EXCEPT ![c].pc = "list", ![c].count = Len(vine)]
      BY <1>5, <2>3 DEF Probe
    <3>2. \A k \in Callers : asked'[k] = asked[k] \/ asked'[k].pc # "probe"
      BY <1>0, <2>0, <3>1 DEF Requests
    <3> QED BY <1>0, <1>on, <1>same, <2>0, <3>1, <3>2
  <2> QED BY <2>1, <2>2, <2>3
<1>6. ASSUME NEW c \in Callers, RepageList(c) \/ AskFails(c) PROVE Goal
  <2>1. UNCHANGED <<row, skeleton, hollow, answer>>
    BY <1>6 DEF RepageList, AskFails
  <2>2. \/ asked' = [asked EXCEPT ![c].pc = "row", ![c].list = Listed]
        \/ asked' = [asked EXCEPT ![c] = NotAsked]
    BY <1>6 DEF RepageList, AskFails
  <2>3. \A k \in Callers : asked'[k] = asked[k] \/ asked'[k].pc # "probe"
    BY <1>0, <2>2 DEF Requests, NotAsked
  <2> QED BY <1>0, <1>on, <1>same, <2>1, <2>3
<1>7. ASSUME NEW c \in Callers, RepageRow(c) PROVE Goal
  BY <1>0, <1>7, <1>all DEF RepageRow
<1>8. ASSUME NEW c \in Callers, RepageIssues(c) PROVE Goal
  <2>1. /\ skeleton' = PutIssues(asked[c].list) /\ hollow' = (hollow /\ Lacks(skeleton'))
        /\ row' = row /\ answer' = answer /\ asked' = [asked EXCEPT ![c] = NotAsked]
    BY <1>8 DEF RepageIssues, Writes
  <2>2. Keeps(skeleton')
    BY <2>1 DEF Keeps, PutIssues
  <2>3. \A k \in Callers : asked'[k] = asked[k] \/ asked'[k].pc # "probe"
    BY <1>0, <2>1 DEF NotAsked
  <2>4. CASE hollow
    BY <1>0, <1>all, <2>1, <2>4
  <2>5. CASE ~hollow
    BY <1>0, <1>on, <2>1, <2>2, <2>3, <2>5
  <2> QED BY <2>4, <2>5
<1>9. CASE Crash
  BY <1>0, <1>9, <1>on, <1>same DEF Crash, NotAsked
<1>10. CASE \/ Tick \/ UpdateBegin \/ UpdatePage \/ UpdateSave
            \/ UpdateCapped \/ UpdateCancelled \/ JobFails \/ UNCHANGED vars
  BY <1>0, <1>10, <1>on, <1>same DEF Tick, UpdateBegin, UpdatePage, UpdateSave,
     UpdateCapped, UpdateCancelled, JobFails, vars
<1>11. CASE \/ \E mode \in {"Summary", "Complete"} : ManageBegin(mode)
            \/ ManageVolume \/ ManageList \/ ManageQueue \/ ManageCover
  BY <1>0, <1>11, <1>on, <1>same DEF ManageBegin, ManageVolume, ManageList, ManageQueue,
     ManageCover
<1> QED BY <1>1, <1>2, <1>3, <1>4, <1>5, <1>6, <1>7, <1>8, <1>9, <1>10, <1>11 DEF RestStep

LEMMA InitAnswer == Init => AnswerInv
<1> SUFFICES ASSUME Init PROVE AnswerInv
  OBVIOUS
<1>1. VineInv
  BY InitQueue DEF QueueInv
<1>2. /\ Len(vine) \in Nat /\ day = 1 /\ pending = {} /\ hollow \in BOOLEAN /\ ~hollow
      /\ answer = "none"
  <2>1. Len(vine) \in Nat
    BY <1>1 DEF VineInv
  <2> QED BY <2>1 DEF Init
<1>3. DOMAIN skeleton = Issues /\ DOMAIN row = {"count", "cover", "fetched"}
  BY DEF Init
<1>4. row.count = Unknown /\ row.fetched = 0
  BY DEF Init
<1>5. /\ DOMAIN job = JobFields /\ job.pc = "idle" /\ job.now = 0 /\ job.count = 0
      /\ asked \in [Callers -> Requests]
      /\ \A c \in Callers : asked[c].pc = "idle" /\ asked[c].stored = Unknown /\ asked[c].count = 0
  BY DEF Init, Idle, JobFields, NotAsked, Requests, Unknown, Absent
<1>6. ShapeInv
  BY <1>1, <1>2, <1>3, <1>4, <1>5 DEF ShapeInv, JobSteps, Unknown
<1>7. CountInv
  BY <1>2, <1>4, <1>5 DEF CountInv, Unknown
<1>8. IdsInv
  BY <1>2, <1>5 DEF IdsInv
<1>9. WholeInv
  <2>1. \A n \in DOMAIN vine : vine[n].out = 0
    BY DEF Init
  <2>2. OutBefore(vine, 0) = {}
    BY <2>1 DEF OutBefore
  <2> QED BY <1>2, <1>4, <1>5, <2>2 DEF WholeInv, Unknown
<1> QED BY <1>2, <1>6, <1>7, <1>8, <1>9 DEF AnswerInv, ServedIsWhole

LEMMA AnswerKept == AnswerInv /\ [Next]_vars => AnswerInv'
<1> SUFFICES ASSUME AnswerInv, [Next]_vars PROVE AnswerInv'
  OBVIOUS
<1>1. CASE VineStep
  BY <1>1, AnswerVine
<1>2. CASE RestStep
  BY <1>2, ShapeStep, CountStep, IdsStep, WholeStep DEF AnswerInv
<1> QED BY <1>1, <1>2, StepCases

\* The invariant of the stamps and counts, for every number of issues, days,
\* changes, stops and requests, and whichever of the writers overtake.
THEOREM AnswerInvariant == Spec => []AnswerInv
<1>1. Init => AnswerInv
  BY InitAnswer
<1>2. AnswerInv /\ [Next]_vars => AnswerInv'
  BY AnswerKept
<1> QED BY <1>1, <1>2, PTL DEF Spec

\* An answer from the cache alone has every issue that was out when the row was
\* stamped, unless the list was hollow then or a slower writer has shortened it.
THEOREM ServedWhole == Spec => []ServedIsWhole
<1>1. AnswerInv => ServedIsWhole
  BY DEF AnswerInv
<1> QED BY <1>1, AnswerInvariant, PTL

--------------------------------------------------------------------------------
(* What the watermark covers.                                              *)

\* A list of issues in the order of their changes, and the number of those that
\* changed before a day.
Sorted(v) == \A m, n \in DOMAIN v : m <= n => v[m].day <= v[n].day

IsCut(v, d, c) == c \in 0..Len(v) /\ \A n \in DOMAIN v : n <= c <=> v[n].day < d
Cut(v, d) == CHOOSE c \in 0..Len(v) : IsCut(v, d, c)

\* A sorted list has such a number for every day.
LEMMA CutFacts ==
    ASSUME NEW v \in Seq(Entries), Sorted(v), NEW d \in Int
    PROVE  IsCut(v, d, Cut(v, d))
<1> DEFINE late == {n \in DOMAIN v : ~(v[n].day < d)}
<1>1. /\ Len(v) \in Nat /\ DOMAIN v = 1..Len(v)
      /\ \A n \in DOMAIN v : v[n].day \in Int
  <2>1. Len(v) \in Nat /\ DOMAIN v = 1..Len(v) /\ \A n \in 1..Len(v) : v[n] \in Entries
    OBVIOUS
  <2> QED BY <2>1, ConstantsAssumption DEF Entries, Days
<1>2. \E c : IsCut(v, d, c)
  <2>1. CASE late = {}
    BY <1>1, <2>1 DEF IsCut
  <2>2. CASE late # {}
    <3>1. PICK m \in late : \A k \in late : m <= k
      <4>1. late \subseteq Nat
        BY <1>1
      <4> HIDE DEF late
      <4> QED BY <2>2, <4>1, LeastElement
    <3>2. m \in 1..Len(v) /\ m - 1 \in 0..Len(v)
      BY <1>1
    <3>3. ASSUME NEW n \in DOMAIN v PROVE n <= m - 1 <=> v[n].day < d
      <4>1. CASE v[n].day < d
        <5>1. ~(m <= n)
          BY <1>1, <3>1, <4>1 DEF Sorted
        <5> QED BY <1>1, <3>2, <4>1, <5>1
      <4>2. CASE ~(v[n].day < d)
        <5>1. m <= n
          BY <3>1, <4>2
        <5> QED BY <1>1, <3>2, <4>2, <5>1
      <4> QED BY <4>1, <4>2
    <3> QED BY <3>2, <3>3 DEF IsCut
  <2> QED BY <2>1, <2>2
<1>3. \E c \in 0..Len(v) : IsCut(v, d, c)
  BY <1>2 DEF IsCut
<1> QED BY <1>3, Zenon DEF Cut

\* It has only one.
LEMMA OneCut ==
    ASSUME NEW v, Len(v) \in Nat, DOMAIN v = 1..Len(v), NEW d, NEW c, IsCut(v, d, c)
    PROVE  Cut(v, d) = c
<1>1. IsCut(v, d, Cut(v, d))
  <2>1. \E k \in 0..Len(v) : IsCut(v, d, k)
    BY DEF IsCut
  <2> QED BY <2>1, Zenon DEF Cut
<1> DEFINE e == Cut(v, d)
<1> HIDE DEF e
<1>2. c \in 0..Len(v) /\ e \in 0..Len(v)
  BY <1>1 DEF IsCut, e
<1>3. ~(c < e)
  <2> SUFFICES ASSUME c < e PROVE FALSE
    OBVIOUS
  <2>1. e \in DOMAIN v /\ e <= e /\ ~(e <= c)
    BY <1>2
  <2> QED BY <1>1, <2>1 DEF IsCut, e
<1>4. ~(e < c)
  <2> SUFFICES ASSUME e < c PROVE FALSE
    OBVIOUS
  <2>1. c \in DOMAIN v /\ c <= c /\ ~(c <= e)
    BY <1>2
  <2> QED BY <1>1, <2>1 DEF IsCut, e
<1> QED BY <1>2, <1>3, <1>4 DEF e

\* The piece of a list behind position a, up to position b.
IsPiece(w, v, a, b) ==
    /\ w \in Seq(Entries) /\ Len(w) = b - a /\ a \in 0..Len(v) /\ b \in a..Len(v)
    /\ \A k \in 1..(b - a) : w[k] = v[a + k]

\* A choice of the elements between two positions is that piece.
LEMMA ChosenPiece ==
    ASSUME NEW v \in Seq(Entries), NEW S, NEW a \in 0..Len(v), NEW b \in 0..Len(v), a <= b,
           \A n \in DOMAIN v : v[n] \in S <=> a < n /\ n <= b
    PROVE  IsPiece(Chosen(v, S), v, a, b)
<1> DEFINE size(k) == IF k <= a THEN 0 ELSE IF k <= b THEN k - a ELSE b - a
           Piece(q, k) == /\ q \in Seq(Entries) /\ Len(q) = size(k)
                          /\ \A j \in 1..size(k) : q[j] = v[a + j]
<1>1. PICK it : Filters(it, v, S)
  BY ChosenSteps
<1>2. Len(v) \in Nat /\ DOMAIN v = 1..Len(v) /\ \A n \in 1..Len(v) : v[n] \in Entries
  OBVIOUS
<1> DEFINE D == {k \in Nat : k <= Len(v) => Piece(it[k], k)}
<1>3. 0 \in D
  <2>1. it[0] = <<>> /\ <<>> \in Seq(Entries) /\ Len(<<>>) = 0
    BY <1>1 DEF Filters
  <2>2. size(0) = 0 /\ 1..0 = {}
    BY <1>2
  <2> HIDE DEF size
  <2> QED BY <2>1, <2>2
<1>4. ASSUME NEW k \in Nat, k \in D PROVE k + 1 \in D
  <2> SUFFICES ASSUME k + 1 <= Len(v) PROVE Piece(it[k + 1], k + 1)
    OBVIOUS
  <2>1. k < Len(v) /\ k + 1 \in DOMAIN v /\ v[k + 1] \in Entries
    BY <1>2
  <2>2. Piece(it[k], k)
    BY <1>4, <2>1
  <2>3. it[k + 1] = IF v[k + 1] \in S THEN Append(it[k], v[k + 1]) ELSE it[k]
    BY <1>1, <2>1 DEF Filters
  <2>4. v[k + 1] \in S <=> a < k + 1 /\ k + 1 <= b
    BY <2>1
  <2> DEFINE q == it[k]
  <2> HIDE DEF q
  <2>5. CASE a < k + 1 /\ k + 1 <= b
    <3>1. it[k + 1] = Append(q, v[k + 1]) /\ q \in Seq(Entries) /\ Len(q) = k - a
      BY <1>2, <2>2, <2>3, <2>4, <2>5 DEF q
    <3>2. \A j \in 1..(k - a) : q[j] = v[a + j]
      BY <1>2, <2>2, <2>5 DEF q
    <3>3. size(k + 1) = (k - a) + 1 /\ a + ((k - a) + 1) = k + 1
      BY <1>2, <2>5
    <3> DEFINE e == v[k + 1]
               p == Append(q, e)
    <3>4. e \in Entries
      BY <2>1
    <3> HIDE DEF e
    <3>5. /\ p \in Seq(Entries) /\ Len(p) = (k - a) + 1 /\ p[(k - a) + 1] = e
          /\ \A j \in 1..(k - a) : p[j] = q[j]
      <4>1. /\ p \in Seq(Entries) /\ Len(p) = Len(q) + 1 /\ p[Len(q) + 1] = e
            /\ \A j \in 1..Len(q) : p[j] = q[j]
        BY <3>1, <3>4, AppendProperties
      <4> HIDE DEF p
      <4> QED BY <3>1, <4>1
    <3> HIDE DEF p
    <3>6. ASSUME NEW j \in 1..((k - a) + 1) PROVE p[j] = v[a + j]
      <4>1. CASE j = (k - a) + 1
        BY <3>3, <3>5, <4>1 DEF e
      <4>2. CASE j # (k - a) + 1
        <5>1. j \in 1..(k - a)
          BY <1>2, <2>5, <4>2
        <5> QED BY <3>2, <3>5, <5>1
      <4> QED BY <4>1, <4>2
    <3>7. it[k + 1] = p
      BY <3>1 DEF p, e
    <3> HIDE DEF size
    <3> QED BY <3>3, <3>5, <3>6, <3>7
  <2>6. CASE ~(a < k + 1 /\ k + 1 <= b)
    <3>1. it[k + 1] = q /\ Piece(q, k)
      BY <2>2, <2>3, <2>4, <2>6 DEF q
    <3>2. size(k + 1) = size(k)
      BY <1>2, <2>6
    <3> QED BY <3>1, <3>2
  <2> QED BY <2>5, <2>6
<1> HIDE DEF D
<1>5. Len(v) \in D
  BY <1>2, <1>3, <1>4, Induction
<1>6. Piece(it[Len(v)], Len(v))
  BY <1>2, <1>5 DEF D
<1>7. size(Len(v)) = b - a
  <2> DEFINE n == Len(v)
  <2>1. n \in Nat /\ a \in 0..n /\ b \in 0..n /\ a <= b
    BY <1>2
  <2> HIDE DEF n
  <2>2. size(n) = b - a
    BY <2>1
  <2> QED BY <2>2 DEF n
<1>8. Chosen(v, S) = it[Len(v)]
  BY <1>1 DEF Filters
<1> HIDE DEF size
<1>9. b \in a..Len(v)
  BY <1>2
<1> QED BY <1>6, <1>7, <1>8, <1>9 DEF IsPiece

\* The list of Comic Vine is in that order, and nothing changed after today.
SortedInv == Sorted(vine) /\ \A n \in DOMAIN vine : vine[n].day <= day

\* A window of the issues is a piece of the list.
WindowEnd(s, t) ==
    IF Cut(vine, s) <= Cut(vine, t + 1) THEN Cut(vine, t + 1) ELSE Cut(vine, s)

LEMMA WindowFacts ==
    ASSUME VineInv, Sorted(vine), NEW s \in Int, NEW t \in Int
    PROVE  IsPiece(Window("issues", s, t), vine, Cut(vine, s), WindowEnd(s, t))
<1> DEFINE w == Window("issues", s, t)
           a == Cut(vine, s)
           b == WindowEnd(s, t)
           c == Cut(vine, t + 1)
           S == {e \in ToSet(vine) : s <= e.day /\ e.day <= t}
<1>1. /\ vine \in Seq(Entries) /\ Len(vine) \in Nat
      /\ \A n \in DOMAIN vine : vine[n].day \in Int /\ vine[n] \in ToSet(vine)
  <2>1. vine \in Seq(Entries) /\ DOMAIN vine = 1..Len(vine) /\ \A n \in 1..Len(vine) : vine[n] \in Entries
    BY DEF VineInv
  <2> QED BY <2>1, ConstantsAssumption DEF Entries, Days, ToSet
<1>2. IsCut(vine, s, a) /\ IsCut(vine, t + 1, c)
  BY <1>1, CutFacts
<1>3. w = Chosen(vine, S)
  BY DEF Window
<1> HIDE DEF c
<1>4. /\ a \in 0..Len(vine) /\ b \in 0..Len(vine) /\ a <= b
      /\ b = IF a <= c THEN c ELSE a
  BY <1>1, <1>2 DEF IsCut, c, WindowEnd
<1> HIDE DEF a, b
<1>5. ASSUME NEW n \in DOMAIN vine PROVE vine[n] \in S <=> a < n /\ n <= b
  <2>1. /\ n \in Nat /\ vine[n].day \in Int /\ c \in Nat /\ a \in Nat
        /\ vine[n] \in S <=> s <= vine[n].day /\ vine[n].day <= t
        /\ n <= a <=> vine[n].day < s
        /\ n <= c <=> vine[n].day < t + 1
    BY <1>1, <1>2 DEF IsCut
  <2> DEFINE d == vine[n].day
             In == vine[n] \in S
  <2> HIDE DEF d, In, S
  <2>2. /\ d \in Int /\ (In <=> s <= d /\ d <= t) /\ (n <= a <=> d < s) /\ (n <= c <=> d < t + 1)
    BY <2>1 DEF d, In
  <2>3. In <=> a < n /\ n <= b
    BY <1>4, <2>1, <2>2
  <2> QED BY <2>3 DEF In
<1> HIDE DEF S
<1>6. IsPiece(Chosen(vine, S), vine, a, b)
  BY <1>1, <1>4, <1>5, ChosenPiece
<1> QED BY <1>3, <1>6 DEF a, b

\* What a change of an entry before a reader's offset moves to before it.
LEMMA SteppedFacts ==
    ASSUME VineInv, Sorted(vine), WindowStart \in Int, NEW r \in Nat, r \in Reached,
           NEW n \in DOMAIN vine, Cut(vine, WindowStart) < n, n <= Cut(vine, WindowStart) + r,
           Cut(vine, WindowStart) + r + 1 <= Len(vine)
    PROVE  vine[Cut(vine, WindowStart) + r + 1].id \in SteppedOver(vine[n].id)
<1> DEFINE a == Cut(vine, WindowStart)
           w == Window("issues", WindowStart, MaxDay)
           b == Len(vine)
<1>1. /\ vine \in Seq(Entries) /\ b \in Nat /\ DOMAIN vine = 1..b
      /\ \A m \in DOMAIN vine : vine[m].day \in Days
  <2>1. vine \in Seq(Entries) /\ DOMAIN vine = 1..Len(vine) /\ \A m \in 1..Len(vine) : vine[m] \in Entries
    BY DEF VineInv
  <2> QED BY <2>1 DEF Entries
<1>2. MaxDay \in Int /\ Cut(vine, MaxDay + 1) = b
  <2>1. IsCut(vine, MaxDay + 1, b)
    BY <1>1, ConstantsAssumption DEF IsCut, Days
  <2> QED BY <1>1, <2>1, OneCut, ConstantsAssumption
<1>3. a \in 0..b
  BY <1>1, CutFacts DEF IsCut
<1>4. IsPiece(w, vine, a, b)
  <2>1. IsPiece(w, vine, a, WindowEnd(WindowStart, MaxDay))
    BY <1>2, WindowFacts
  <2>2. WindowEnd(WindowStart, MaxDay) = b
    BY <1>2, <1>3 DEF WindowEnd
  <2> QED BY <2>1, <2>2
<1>5. SteppedOver(vine[n].id) =
        {w[q + 1].id : q \in {q \in Reached : /\ q + 1 \in DOMAIN w
                                             /\ \E m \in {m \in DOMAIN w : w[m].id = vine[n].id} : m <= q}}
  BY Zenon DEF SteppedOver
<1> HIDE DEF w, a
<1>6. /\ r + 1 \in DOMAIN w /\ n - a \in DOMAIN w /\ n - a <= r
      /\ w[r + 1] = vine[a + r + 1] /\ w[n - a] = vine[n]
  <2>1. DOMAIN w = 1..(b - a)
    BY <1>4 DEF IsPiece
  <2>2. r + 1 \in 1..(b - a) /\ n - a \in 1..(b - a) /\ n - a <= r
    BY <1>1, <1>3 DEF a
  <2>3. a + (r + 1) = a + r + 1 /\ a + (n - a) = n
    BY <1>1, <1>3
  <2> QED BY <1>4, <2>1, <2>2, <2>3 DEF IsPiece
<1> QED BY <1>5, <1>6 DEF a

\* A reader's offset is inside the window from d; nothing is read yet, or something is left.
Inside(v, d, r) == r = 0 \/ Cut(v, d) + r < Len(v)

\* The list after a change.
EditedAt(i, n) ==
    /\ n \in DOMAIN vine /\ vine[n].id = i
    /\ Len(vine') = Len(vine)
    /\ \A m \in 1..(Len(vine) - 1) : vine'[m] = IF m < n THEN vine[m] ELSE vine[m + 1]
    /\ vine'[Len(vine)].id = i /\ vine'[Len(vine)].day = day

LEMMA EditEntries ==
    ASSUME VineInv, NEW i \in Issues, EditIssue(i)
    PROVE  \E n : EditedAt(i, n)
<1>1. PICK n \in DOMAIN vine :
          /\ vine[n].id = i
          /\ vine' = Append(RemoveAt(vine, n), [vine[n] EXCEPT !.ver = @ + 1, !.day = day])
  BY DEF EditIssue
<1> DEFINE last == Len(vine)
           entry == [vine[n] EXCEPT !.ver = @ + 1, !.day = day]
           rest == RemoveAt(vine, n)
<1>2. vine \in Seq(Entries) /\ n \in 1..last /\ last \in Nat /\ vine[n] \in Entries
  BY DEF VineInv
<1>3. entry.id = i /\ entry.day = day
  BY <1>1, <1>2 DEF Entries
<1>4. /\ rest \in Seq(Entries) /\ Len(rest) = last - 1
      /\ \A m \in 1..(last - 1) : rest[m] = IF m < n THEN vine[m] ELSE vine[m + 1]
  BY <1>2, RemoveAtFacts
<1> HIDE DEF entry, rest
<1>5. vine' = Append(rest, entry)
  BY <1>1 DEF rest, entry
<1>6. /\ Len(vine') = last /\ vine'[last] = entry
      /\ \A m \in 1..(last - 1) : vine'[m] = rest[m]
  BY <1>2, <1>4, <1>5
<1> QED BY <1>1, <1>3, <1>4, <1>6 DEF EditedAt

\* The list after an issue came out.
LEMMA PublishEntries ==
    ASSUME VineInv, NEW i \in Issues, Publish(i)
    PROVE  /\ Len(vine') = Len(vine) + 1
           /\ \A m \in 1..Len(vine) : vine'[m] = vine[m]
           /\ vine'[Len(vine) + 1].day = day
BY DEF VineInv, Publish

\* A change takes one issue out from before a cut, if it was there.
LEMMA EditCut ==
    ASSUME VineInv, SortedInv, NEW i \in Issues, EditIssue(i), NEW n, EditedAt(i, n)
    PROVE  /\ SortedInv'
           /\ \A d \in Int : d <= day =>
                 Cut(vine', d) = IF n <= Cut(vine, d) THEN Cut(vine, d) - 1 ELSE Cut(vine, d)
<1> DEFINE last == Len(vine)
<1>1. /\ last \in Nat /\ DOMAIN vine = 1..last /\ day \in Int /\ day' = day
      /\ vine \in Seq(Entries) /\ \A m \in 1..last : vine[m].day \in Int /\ vine[m].day <= day
      /\ Len(vine') = last /\ DOMAIN vine' = 1..last /\ VineInv'
      /\ n \in 1..last
  <2>1. vine' \in Seq(Entries) /\ VineInv'
    BY EditStep DEF VineInv
  <2>2. day' = day
    BY DEF EditIssue
  <2>3. last \in Nat /\ DOMAIN vine = 1..last /\ \A m \in 1..last : vine[m] \in Entries
    BY DEF VineInv
  <2>4. DOMAIN vine' = 1..Len(vine') /\ Len(vine') = last
    BY <2>1 DEF EditedAt
  <2>5. day \in Int /\ \A m \in 1..last : vine[m].day \in Int
    BY <2>3, ConstantsAssumption DEF VineInv, Entries, Days
  <2> QED BY <2>1, <2>2, <2>3, <2>4, <2>5 DEF EditedAt, SortedInv, VineInv
<1>2. /\ \A m \in 1..(last - 1) : vine'[m] = IF m < n THEN vine[m] ELSE vine[m + 1]
      /\ vine'[last].day = day
  BY DEF EditedAt
<1> HIDE DEF last
<1> DEFINE from(m) == IF m < n THEN m ELSE m + 1
<1>3. \A m \in 1..last : m # last => from(m) \in 1..last /\ vine'[m] = vine[from(m)]
  BY <1>1, <1>2
<1>4. SortedInv'
  <2>1. ASSUME NEW m \in 1..last, NEW k \in 1..last, m <= k
        PROVE  vine'[m].day <= vine'[k].day
    <3>1. CASE k = last
      <4>1. vine'[m].day <= day
        BY <1>1, <1>2, <1>3
      <4> QED BY <1>2, <3>1, <4>1
    <3>2. CASE k # last
      <4>1. m # last /\ from(m) <= from(k)
        BY <1>1, <2>1, <3>2
      <4> QED BY <1>1, <1>3, <3>2, <4>1 DEF SortedInv, Sorted
    <3> QED BY <3>1, <3>2
  <2>2. \A m \in 1..last : vine'[m].day <= day'
    BY <1>1, <1>2, <1>3
  <2> QED BY <1>1, <2>1, <2>2 DEF SortedInv, Sorted
<1>5. ASSUME NEW d \in Int, d <= day
      PROVE  Cut(vine', d) = IF n <= Cut(vine, d) THEN Cut(vine, d) - 1 ELSE Cut(vine, d)
  <2> DEFINE c == Cut(vine, d)
             e == IF n <= c THEN c - 1 ELSE c
  <2>1. c \in 0..last /\ \A m \in 1..last : m <= c <=> vine[m].day < d
    BY <1>1, CutFacts DEF IsCut, SortedInv, last
  <2> HIDE DEF c
  <2>2. e \in 0..last
    BY <1>1, <2>1
  <2>3. ASSUME NEW m \in 1..last PROVE m <= e <=> vine'[m].day < d
    <3>1. CASE m = last
      <4>1. ~(vine'[m].day < d)
        BY <1>1, <1>2, <1>5, <3>1
      <4>2. ~(m <= e)
        <5>1. CASE n <= c
          BY <1>1, <2>1, <3>1, <5>1
        <5>2. CASE ~(n <= c)
          BY <1>1, <2>1, <3>1, <5>2
        <5> QED BY <5>1, <5>2
      <4> QED BY <4>1, <4>2
    <3>2. CASE m # last
      <4>1. vine'[m].day < d <=> from(m) <= c
        BY <1>3, <2>1, <3>2
      <4>2. m <= e <=> from(m) <= c
        BY <1>1, <2>1, <3>2
      <4> QED BY <4>1, <4>2
    <3> QED BY <3>1, <3>2
  <2>4. IsCut(vine', d, e)
    BY <1>1, <2>2, <2>3 DEF IsCut
  <2> HIDE DEF e
  <2>5. Cut(vine', d) = e
    BY <1>1, <2>4, OneCut
  <2> QED BY <2>5 DEF e, c
<1> QED BY <1>4, <1>5

\* An issue that comes out stands behind every cut.
LEMMA PublishCut ==
    ASSUME VineInv, SortedInv, NEW i \in Issues, Publish(i)
    PROVE  /\ SortedInv'
           /\ \A d \in Int : d <= day => Cut(vine', d) = Cut(vine, d)
<1> DEFINE last == Len(vine)
<1>1. /\ last \in Nat /\ DOMAIN vine = 1..last /\ day \in Int /\ day' = day
      /\ vine \in Seq(Entries) /\ \A m \in 1..last : vine[m].day \in Int /\ vine[m].day <= day
      /\ Len(vine') = last + 1 /\ DOMAIN vine' = 1..(last + 1)
  <2>1. vine' \in Seq(Entries) /\ Len(vine') = last + 1
    BY PublishStep DEF VineInv
  <2>2. day' = day
    BY DEF Publish
  <2>3. last \in Nat /\ DOMAIN vine = 1..last /\ \A m \in 1..last : vine[m] \in Entries
    BY DEF VineInv
  <2>4. DOMAIN vine' = 1..Len(vine')
    BY <2>1
  <2>5. day \in Int /\ \A m \in 1..last : vine[m].day \in Int
    BY <2>3, ConstantsAssumption DEF VineInv, Entries, Days
  <2> QED BY <2>1, <2>2, <2>3, <2>4, <2>5 DEF SortedInv, VineInv
<1>2. (\A m \in 1..last : vine'[m] = vine[m]) /\ vine'[last + 1].day = day
  BY PublishEntries
<1> HIDE DEF last
<1>3. SortedInv'
  <2>1. ASSUME NEW m \in 1..(last + 1), NEW k \in 1..(last + 1), m <= k
        PROVE  vine'[m].day <= vine'[k].day
    <3>1. CASE k = last + 1
      <4>1. vine'[m].day <= day
        BY <1>1, <1>2
      <4> QED BY <1>2, <3>1, <4>1
    <3>2. CASE k # last + 1
      <4>1. m \in 1..last /\ k \in 1..last
        BY <1>1, <2>1, <3>2
      <4> QED BY <1>1, <1>2, <2>1, <4>1 DEF SortedInv, Sorted
    <3> QED BY <3>1, <3>2
  <2>2. \A m \in 1..(last + 1) : vine'[m].day <= day'
    BY <1>1, <1>2
  <2> QED BY <1>1, <2>1, <2>2 DEF SortedInv, Sorted
<1>4. ASSUME NEW d \in Int, d <= day PROVE Cut(vine', d) = Cut(vine, d)
  <2> DEFINE c == Cut(vine, d)
  <2>1. c \in 0..last /\ \A m \in 1..last : m <= c <=> vine[m].day < d
    BY <1>1, CutFacts DEF IsCut, SortedInv, last
  <2> HIDE DEF c
  <2>2. ASSUME NEW m \in 1..(last + 1) PROVE m <= c <=> vine'[m].day < d
    <3>1. CASE m = last + 1
      BY <1>1, <1>2, <1>4, <2>1, <3>1
    <3>2. CASE m # last + 1
      <4>1. m \in 1..last
        BY <1>1, <3>2
      <4> QED BY <1>2, <2>1, <4>1
    <3> QED BY <3>1, <3>2
  <2>3. IsCut(vine', d, c)
    BY <1>1, <2>1, <2>2 DEF IsCut
  <2>4. Cut(vine', d) = c
    BY <1>1, <2>3, OneCut
  <2> QED BY <2>4 DEF c
<1> QED BY <1>3, <1>4

\* A window that was read so far is still read so far.
LEMMA GapKept ==
    ASSUME VineInv, SortedInv, VineStep, NEW s \in Int, s <= day, NEW t \in Int, t <= day,
           NEW k \in Nat, Cut(vine, t) <= Cut(vine, s) + k
    PROVE  Cut(vine', t) <= Cut(vine', s) + k
<1> DEFINE a == Cut(vine, s)
           b == Cut(vine, t)
<1>1. a \in Nat /\ b \in Nat /\ b <= a + k
  <2>1. vine \in Seq(Entries) /\ Len(vine) \in Nat
    BY DEF VineInv
  <2>2. IsCut(vine, s, a) /\ IsCut(vine, t, b)
    BY <2>1, CutFacts DEF SortedInv
  <2> QED BY <2>1, <2>2 DEF IsCut
<1> HIDE DEF a, b
<1>2. ASSUME NEW i \in Issues, EditIssue(i) PROVE Cut(vine', t) <= Cut(vine', s) + k
  <2>1. PICK n : EditedAt(i, n)
    BY <1>2, EditEntries
  <2>2. /\ Cut(vine', s) = IF n <= a THEN a - 1 ELSE a
        /\ Cut(vine', t) = IF n <= b THEN b - 1 ELSE b
    BY <1>2, <2>1, EditCut DEF a, b
  <2>3. n \in Int
    <3>1. vine \in Seq(Entries)
      BY DEF VineInv
    <3> QED BY <2>1, <3>1 DEF EditedAt
  <2> QED BY <1>1, <2>2, <2>3
<1>3. ASSUME NEW i \in Issues, Publish(i) PROVE Cut(vine', t) <= Cut(vine', s) + k
  BY <1>1, <1>3, PublishCut DEF a, b
<1> QED BY <1>2, <1>3 DEF VineStep

\* What a reader's offset covers after a step of Comic Vine was covered before,
\* is excused now, or has changed today and stands behind a window read to its end.
LEMMA VineReads ==
    ASSUME VineInv, SortedInv, VineStep,
           WindowStart \in Int, WindowStart <= day, NEW r \in Nat, r \in Reached
    PROVE  /\ Inside(vine, WindowStart, r) => Inside(vine', WindowStart, r)
           /\ \A m \in DOMAIN vine' : m <= Cut(vine', WindowStart) + r =>
                 \/ vine'[m].id \in excused'
                 \/ \E k \in DOMAIN vine :
                       /\ k <= Cut(vine, WindowStart) + r /\ vine'[m] = vine[k]
                       /\ vine[k].id \in excused => vine[k].id \in excused'
                 \/ ~Inside(vine, WindowStart, r) /\ vine'[m].day = day
<1> DEFINE last == Len(vine)
           c == Cut(vine, WindowStart)
           e == Cut(vine', WindowStart)
           Old(m) == \E k \in DOMAIN vine :
                       /\ k <= c + r /\ vine'[m] = vine[k]
                       /\ vine[k].id \in excused => vine[k].id \in excused'
           Goal == /\ c + r < last \/ r = 0 => e + r < Len(vine') \/ r = 0
                   /\ \A m \in DOMAIN vine' : m <= e + r =>
                         \/ vine'[m].id \in excused'
                         \/ Old(m)
                         \/ ~(c + r < last \/ r = 0) /\ vine'[m].day = day
<1>1. /\ vine \in Seq(Entries) /\ last \in Nat /\ DOMAIN vine = 1..last /\ c \in 0..last
      /\ VineInv' /\ Len(vine') \in Nat /\ DOMAIN vine' = 1..Len(vine')
      /\ \A m, k \in 1..last : vine[m].id = vine[k].id => m = k
  <2>1. vine \in Seq(Entries) /\ last \in Nat /\ DOMAIN vine = 1..last
    BY DEF VineInv
  <2>2. IsCut(vine, WindowStart, c)
    BY <2>1, CutFacts DEF SortedInv
  <2>3. VineInv'
    BY EditStep, PublishStep DEF VineStep
  <2> QED BY <2>1, <2>2, <2>3 DEF IsCut, VineInv
<1>2. ASSUME NEW i \in Issues, EditIssue(i) PROVE Goal
  <2>1. PICK n : EditedAt(i, n)
    BY <1>2, EditEntries
  <2>2. e = IF n <= c THEN c - 1 ELSE c
    BY <1>2, <2>1, EditCut
  <2>3. /\ n \in 1..last /\ vine[n].id = i /\ Len(vine') = last
        /\ \A m \in 1..(last - 1) : vine'[m] = IF m < n THEN vine[m] ELSE vine[m + 1]
        /\ vine'[last].day = day
    BY <1>1, <2>1 DEF EditedAt
  <2>4. excused' = (excused \cup SteppedOver(i)) \ {i}
    BY <1>2 DEF EditIssue
  <2>5. ASSUME c < n, n <= c + r, c + r + 1 <= last PROVE vine[c + r + 1].id \in excused'
    <3>1. vine[c + r + 1].id \in SteppedOver(vine[n].id)
      BY <1>1, <2>3, <2>5, SteppedFacts DEF SortedInv
    <3>2. vine[c + r + 1].id # i
      BY <1>1, <2>3, <2>5
    <3> QED BY <2>3, <2>4, <3>1, <3>2
  <2> HIDE DEF c, e, last
  <2>6. c + r < last \/ r = 0 => e + r < Len(vine') \/ r = 0
    BY <1>1, <2>2, <2>3
  <2>7. ASSUME NEW m \in 1..last, m <= e + r
        PROVE  vine'[m].id \in excused' \/ Old(m) \/ (~(c + r < last \/ r = 0) /\ vine'[m].day = day)
    <3>old. ASSUME NEW k \in 1..last, k <= c + r, k # n, vine'[m] = vine[k] PROVE Old(m)
      <4>1. vine[k].id # i
        BY <1>1, <2>3, <3>old
      <4> QED BY <1>1, <2>4, <3>old, <4>1
    <3>1. CASE m = last
      <4>1. ~(c + r < last \/ r = 0)
        BY <1>1, <2>2, <2>3, <2>7, <3>1
      <4> QED BY <2>3, <3>1, <4>1
    <3>2. CASE m # last /\ m < n
      <4>1. vine'[m] = vine[m] /\ m <= c + r
        BY <1>1, <2>2, <2>3, <2>7, <3>2
      <4> QED BY <2>3, <3>old, <3>2, <4>1
    <3>3. CASE m # last /\ ~(m < n)
      <4>1. vine'[m] = vine[m + 1] /\ m + 1 \in 1..last /\ m + 1 # n
        BY <1>1, <2>3, <2>7, <3>3
      <4>2. CASE m + 1 <= c + r
        BY <3>old, <4>1, <4>2
      <4>3. CASE ~(m + 1 <= c + r)
        <5>1. m = c + r /\ c < n /\ n <= c + r /\ c + r + 1 <= last
          BY <1>1, <2>2, <2>3, <2>7, <3>3, <4>1, <4>3
        <5> QED BY <2>5, <4>1, <5>1
      <4> QED BY <4>2, <4>3
    <3> QED BY <3>1, <3>2, <3>3
  <2> QED BY <1>1, <2>3, <2>6, <2>7
<1>3. ASSUME NEW i \in Issues, Publish(i) PROVE Goal
  <2>1. e = c
    BY <1>3, PublishCut
  <2>2. /\ Len(vine') = last + 1 /\ \A m \in 1..last : vine'[m] = vine[m]
        /\ vine'[last + 1].day = day
    BY <1>3, PublishEntries
  <2>3. excused' = excused
    BY <1>3 DEF Publish
  <2> HIDE DEF c, e, last
  <2>4. ASSUME NEW m \in 1..(last + 1), m <= e + r
        PROVE  Old(m) \/ (~(c + r < last \/ r = 0) /\ vine'[m].day = day)
    <3>1. CASE m = last + 1
      BY <1>1, <2>1, <2>2, <2>4, <3>1
    <3>2. CASE m # last + 1
      <4>1. m \in 1..last /\ m <= c + r /\ vine'[m] = vine[m]
        BY <1>1, <2>1, <2>2, <2>4, <3>2
      <4> QED BY <1>1, <2>3, <4>1
    <3> QED BY <3>1, <3>2
  <2> QED BY <1>1, <2>1, <2>2, <2>4
<1>4. Goal
  BY <1>2, <1>3 DEF VineStep
<1> QED BY <1>4 DEF Inside

\* The cache holds an entry as it is, or is excused.
Held(sk, ex, e) == sk[e.id] = e.ver \/ e.id \in ex
HeldTo(v, sk, ex, upto) == \A n \in DOMAIN v : n <= upto => Held(sk, ex, v[n])

\* A reader that stands r entries behind s has left nothing behind it.
Stands(v, sk, ex, s, r) == r \in Nat /\ Inside(v, s, r) /\ HeldTo(v, sk, ex, Cut(v, s) + r)

\* How far the update has read, the page it has not stored yet among it.
ReadTo(j) == j.off + IF j.pc = "store" THEN Len(j.page) ELSE 0
InPage(page, e) == \E m \in DOMAIN page : page[m].id = e.id /\ page[m].ver = e.ver

\* A page that is not stored yet is no newer than Comic Vine, and has an issue once.
PageRight(page, listed) ==
    /\ \A m \in DOMAIN page : page[m].ver <= listed[page[m].id]
    /\ \A m, n \in DOMAIN page : page[m].id = page[n].id => m = n

\* A page was read: what it covers is held, in the page or behind the window,
\* and a short page is the window's last.
Took(v, sk, ex, s, j, listed) ==
    /\ j.page \in Seq(Entries) /\ j.total \in Nat
    /\ j.pc = "store" => PageRight(j.page, listed)
    /\ Len(j.page) < PageSize => j.total <= ReadTo(j)
    /\ Cut(v, j.now) <= Cut(v, s) + j.total
    /\ ReadTo(j) < j.total => Inside(v, s, ReadTo(j))
    /\ \A n \in DOMAIN v : n <= Cut(v, s) + ReadTo(j) =>
          \/ Held(sk, ex, v[n])
          \/ j.total <= ReadTo(j) /\ j.now <= v[n].day
          \/ j.pc = "store" /\ InPage(j.page, v[n])

\* No version anywhere is ahead of Comic Vine.
Known(f, listed) == f \in [Issues -> Int] /\ \A i \in Issues : f[i] <= listed[i]

KnownInv ==
    /\ Known(skeleton, Listed)
    /\ job.pc \in {"list", "replace"} => Known(job.old, Listed)
    /\ \A c \in Callers : Known(asked[c].list, Listed)

\* Behind the stored watermark and offset everything is held.
SyncInv ==
    /\ DOMAIN sync = {"volumes", "issues"} /\ sync["issues"] \in [last : Int, off : Nat]
    /\ sync["issues"].last <= day
    /\ Stands(vine, skeleton, excused, sync["issues"].last, sync["issues"].off)

\* The update's own reading goes on from the same watermark.
SlotInv ==
    job.pc \in {"page", "store", "save"} =>
        /\ job.ep \in {1, 2} /\ job.now <= day
        /\ job.ep = 2 =>
              /\ job.since = sync["issues"].last /\ job.off \in Nat
              /\ job.pc = "page" =>
                    Stands(vine, skeleton, excused, sync["issues"].last, job.off)
              /\ job.pc # "page" =>
                    Took(vine, skeleton, excused, sync["issues"].last, job, Listed)

WatermarkInv == AnswerInv /\ SortedInv /\ KnownInv /\ SyncInv /\ SlotInv

\* Where the readers of the window stand.
LEMMA ReaderFacts ==
    ASSUME WatermarkInv
    PROVE  /\ VineInv /\ day \in Int /\ WindowStart = sync["issues"].last
           /\ WindowStart \in Int /\ WindowStart <= day
           /\ sync["issues"].off \in Nat /\ sync["issues"].off \in Reached
           /\ job.now \in Int
           /\ job.pc \in {"page", "store", "save"} /\ job.ep = 2 =>
                 ReadTo(job) \in Nat /\ ReadTo(job) \in Reached
<1>1. Endpoints[1] # "issues" /\ Endpoints[2] = "issues"
  BY DEF Endpoints
<1>2. Updating <=> job.pc \in {"page", "store", "save"} /\ job.ep = 2
  BY <1>1 DEF Updating, WatermarkInv, SlotInv
<1>3. VineInv /\ day \in Int /\ job.now \in Int
  BY ConstantsAssumption DEF WatermarkInv, AnswerInv, ShapeInv, VineInv, Days
<1>4. WindowStart = sync["issues"].last
  BY <1>2 DEF WindowStart, WatermarkInv, SlotInv
<1>5. sync["issues"].last \in Int /\ sync["issues"].off \in Nat /\ sync["issues"].last <= day
  BY DEF WatermarkInv, SyncInv
<1>6. ASSUME job.pc \in {"page", "store", "save"}, job.ep = 2
      PROVE  ReadTo(job) \in Nat /\ ReadTo(job) \in Reached
  <2>1. job.off \in Nat /\ (job.pc # "page" => job.page \in Seq(Entries))
    BY <1>6 DEF WatermarkInv, SlotInv, Took
  <2>2. job.pc = "store" => Len(job.page) \in Nat
    BY <2>1
  <2>3. ReadTo(job) \in Nat
    BY <2>1, <2>2 DEF ReadTo
  <2> QED BY <1>2, <1>6, <2>3 DEF ReadTo, Reached
<1> QED BY <1>3, <1>4, <1>5, <1>6 DEF Reached

\* A step of Comic Vine leaves nothing behind a reader.
LEMMA StandsKept ==
    ASSUME WatermarkInv, VineStep, NEW r \in Nat, r \in Reached,
           Stands(vine, skeleton, excused, sync["issues"].last, r)
    PROVE  Stands(vine', skeleton, excused', sync["issues"].last, r)
<1> DEFINE s == sync["issues"].last
<1>1. /\ VineInv /\ SortedInv /\ WindowStart = s /\ WindowStart \in Int /\ WindowStart <= day
  BY ReaderFacts DEF WatermarkInv
<1>2. Inside(vine, s, r) /\ HeldTo(vine, skeleton, excused, Cut(vine, s) + r)
  BY DEF Stands
<1>3. /\ Inside(vine', s, r)
      /\ \A m \in DOMAIN vine' : m <= Cut(vine', s) + r =>
            \/ vine'[m].id \in excused'
            \/ \E k \in DOMAIN vine :
                  /\ k <= Cut(vine, s) + r /\ vine'[m] = vine[k]
                  /\ vine[k].id \in excused => vine[k].id \in excused'
  <2> HIDE DEF s
  <2> QED BY <1>1, <1>2, VineReads
<1> HIDE DEF s
<1>4. HeldTo(vine', skeleton, excused', Cut(vine', s) + r)
  BY <1>2, <1>3 DEF HeldTo, Held
<1> QED BY <1>3, <1>4 DEF Stands, s

LEMMA WatermarkVine ==
    ASSUME WatermarkInv, VineStep
    PROVE  WatermarkInv'
<1> DEFINE s == sync["issues"].last
           to == ReadTo(job)
<1>1. /\ AnswerInv /\ SortedInv /\ KnownInv /\ SyncInv /\ SlotInv /\ VineInv /\ ShapeInv
      /\ day \in Int /\ s \in Int /\ s <= day /\ WindowStart = s /\ job.now \in Int
      /\ day' = day /\ UNCHANGED <<skeleton, sync, job, asked>>
  <2>1. day' = day /\ UNCHANGED <<skeleton, sync, job, asked>>
    BY DEF VineStep, EditIssue, Publish, cache_vars
  <2> QED BY <2>1, ReaderFacts DEF WatermarkInv, AnswerInv
<1>2. AnswerInv'
  BY <1>1, AnswerVine
<1>3. SortedInv'
  <2>1. ASSUME NEW i \in Issues, EditIssue(i) PROVE SortedInv'
    BY <1>1, <2>1, EditEntries, EditCut
  <2>2. ASSUME NEW i \in Issues, Publish(i) PROVE SortedInv'
    BY <1>1, <2>2, PublishCut
  <2> QED BY <2>1, <2>2 DEF VineStep
<1>4. /\ \A i \in Issues : Listed[i] \in Int /\ Listed'[i] \in Int /\ Listed[i] <= Listed'[i]
      /\ VineInv'
  <2>1. VineInv' /\ \A i \in Issues : Listed[i] <= Listed'[i]
    BY <1>1, EditStep, PublishStep DEF VineStep
  <2>2. VineInv' => ListedRight'
    BY ListedFacts, PTL
  <2> QED BY <1>1, <2>1, <2>2, ListedFacts DEF ListedRight
<1>5. ASSUME NEW f, Known(f, Listed) PROVE Known(f, Listed')
  <2>1. ASSUME NEW i \in Issues PROVE f[i] <= Listed'[i]
    <3>1. f[i] \in Int /\ f[i] <= Listed[i]
      BY <1>5 DEF Known
    <3> QED BY <1>4, <3>1
  <2> QED BY <1>5, <2>1 DEF Known
<1>6. KnownInv'
  BY <1>1, <1>5 DEF KnownInv
<1>7. SyncInv'
  <2>1. sync["issues"].off \in Nat /\ sync["issues"].off \in Reached
    BY ReaderFacts
  <2>2. Stands(vine, skeleton, excused, s, sync["issues"].off)
    BY <1>1 DEF SyncInv
  <2>3. Stands(vine', skeleton, excused', s, sync["issues"].off)
    BY <2>1, <2>2, StandsKept
  <2> QED BY <1>1, <2>3 DEF SyncInv
<1>8. ASSUME job.pc \in {"page", "store", "save"}, job.ep = 2
      PROVE  /\ job.pc = "page" => Stands(vine', skeleton, excused', s, job.off)
             /\ job.pc # "page" => Took(vine', skeleton, excused', s, job, Listed')
  <2>1. to \in Nat /\ to \in Reached
    BY <1>8, ReaderFacts
  <2>2. CASE job.pc = "page"
    <3>1. Stands(vine, skeleton, excused, s, job.off)
      BY <1>1, <1>8, <2>2 DEF SlotInv
    <3>2. job.off = to
      <4>1. job.off \in Nat
        BY <3>1 DEF Stands
      <4> QED BY <2>2, <4>1 DEF ReadTo
    <3> QED BY <2>1, <2>2, <3>1, <3>2, StandsKept
  <2>3. CASE job.pc # "page"
    <3>1. Took(vine, skeleton, excused, s, job, Listed)
      BY <1>1, <1>8, <2>3 DEF SlotInv
    <3>2. /\ Inside(vine, s, to) => Inside(vine', s, to)
          /\ \A m \in DOMAIN vine' : m <= Cut(vine', s) + to =>
                \/ vine'[m].id \in excused'
                \/ \E k \in DOMAIN vine :
                      /\ k <= Cut(vine, s) + to /\ vine'[m] = vine[k]
                      /\ vine[k].id \in excused => vine[k].id \in excused'
                \/ ~Inside(vine, s, to) /\ vine'[m].day = day
      <4> HIDE DEF s, to
      <4> QED BY <1>1, <2>1, VineReads
    <3>3. Cut(vine', job.now) <= Cut(vine', s) + job.total
      <4>1. job.total \in Nat /\ Cut(vine, job.now) <= Cut(vine, s) + job.total
        BY <3>1 DEF Took
      <4>2. job.now <= day
        BY <1>1, <1>8 DEF SlotInv
      <4> HIDE DEF s
      <4> QED BY <1>1, <4>1, <4>2, GapKept
    <3>4. job.pc = "store" => PageRight(job.page, Listed')
      <4> SUFFICES ASSUME job.pc = "store" PROVE PageRight(job.page, Listed')
        OBVIOUS
      <4>1. PageRight(job.page, Listed) /\ \A m \in DOMAIN job.page : job.page[m] \in Entries
        BY <3>1 DEF Took
      <4>2. \A m \in DOMAIN job.page : job.page[m].ver \in Nat /\ job.page[m].id \in Issues
        BY <4>1 DEF Entries
      <4>3. ASSUME NEW m \in DOMAIN job.page PROVE job.page[m].ver <= Listed'[job.page[m].id]
        <5>1. job.page[m].ver <= Listed[job.page[m].id]
          BY <4>1 DEF PageRight
        <5> QED BY <1>4, <4>2, <5>1
      <4> QED BY <4>1, <4>3 DEF PageRight
    <3>5. ASSUME NEW m \in DOMAIN vine', m <= Cut(vine', s) + to
          PROVE  \/ Held(skeleton, excused', vine'[m])
                 \/ job.total <= to /\ job.now <= vine'[m].day
                 \/ job.pc = "store" /\ InPage(job.page, vine'[m])
      <4>1. CASE vine'[m].id \in excused'
        BY <4>1 DEF Held
      <4>2. CASE \E k \in DOMAIN vine :
                      /\ k <= Cut(vine, s) + to /\ vine'[m] = vine[k]
                      /\ vine[k].id \in excused => vine[k].id \in excused'
        <5>1. PICK k \in DOMAIN vine :
                      /\ k <= Cut(vine, s) + to /\ vine'[m] = vine[k]
                      /\ vine[k].id \in excused => vine[k].id \in excused'
          BY <4>2
        <5>2. \/ Held(skeleton, excused, vine[k])
              \/ job.total <= to /\ job.now <= vine[k].day
              \/ job.pc = "store" /\ InPage(job.page, vine[k])
          BY <3>1, <5>1 DEF Took
        <5> QED BY <5>1, <5>2 DEF Held
      <4>3. CASE ~Inside(vine, s, to) /\ vine'[m].day = day
        <5>1. ~(to < job.total) /\ job.total \in Nat
          BY <3>1, <4>3 DEF Took
        <5>2. job.now <= day
          BY <1>1, <1>8 DEF SlotInv
        <5> HIDE DEF to
        <5> QED BY <2>1, <4>3, <5>1, <5>2
      <4> QED BY <3>2, <3>5, <4>1, <4>2, <4>3
    <3> HIDE DEF s
    <3>6. Took(vine', skeleton, excused', s, job, Listed')
      BY <3>1, <3>2, <3>3, <3>4, <3>5 DEF Took
    <3> QED BY <2>3, <3>6
  <2> QED BY <2>2, <2>3
<1>9. SlotInv'
  BY <1>1, <1>8 DEF SlotInv
<1> QED BY <1>2, <1>3, <1>6, <1>7, <1>9 DEF WatermarkInv

\* A write that knows nothing newer than Comic Vine keeps what is held: it
\* stores the version again, or takes it back, which excuses the issue.
LEMMA WriteHolds ==
    ASSUME VineInv, Known(skeleton, Listed), NEW new, Known(new, Listed),
           NEW n \in DOMAIN vine, Held(skeleton, excused, vine[n])
    PROVE  Held(new, Excused(new), vine[n])
<1> DEFINE i == vine[n].id
<1>1. i \in Issues /\ Listed[i] = vine[n].ver /\ Listed[i] \in Int
  <2>1. vine[n] \in Entries
    BY DEF VineInv
  <2> QED BY <2>1, ListedFacts DEF Entries, ListedRight
<1>2. skeleton[i] \in Int /\ new[i] \in Int /\ new[i] <= Listed[i]
  BY <1>1 DEF Known
<1>3. i \in Excused(new) <=> (i \in excused /\ new[i] # Listed[i]) \/ new[i] < skeleton[i]
  BY <1>1 DEF Excused
<1>4. skeleton[i] = Listed[i] \/ i \in excused
  BY <1>1 DEF Held
<1> HIDE DEF i
<1>5. new[i] = Listed[i] \/ i \in Excused(new)
  BY <1>1, <1>2, <1>3, <1>4
<1> QED BY <1>1, <1>5 DEF Held, i

\* The fields of the slot's job that a step of another leaves.
LEMMA OldKnown ==
    ASSUME WatermarkInv
    PROVE  /\ VineInv /\ \A i \in Issues : Listed[i] \in Int /\ Absent <= Listed[i]
           /\ Known(skeleton, Listed) /\ Known([i \in Issues |-> Absent], Listed)
<1>1. VineInv /\ Known(skeleton, Listed)
  BY DEF WatermarkInv, AnswerInv, ShapeInv, KnownInv
<1>2. ASSUME NEW i \in Issues PROVE Listed[i] \in Int /\ Absent <= Listed[i]
  <2>1. ListedRight
    BY <1>1, ListedFacts
  <2>2. CASE \E n \in DOMAIN vine : vine[n].id = i
    <3>1. PICK n \in DOMAIN vine : vine[n].id = i
      BY <2>2
    <3>2. vine[n] \in Entries
      BY <1>1 DEF VineInv
    <3>3. vine[n].ver \in Nat
      BY <3>2 DEF Entries
    <3> QED BY <2>1, <3>1, <3>3 DEF ListedRight, Absent
  <2>3. CASE \A n \in DOMAIN vine : vine[n].id # i
    BY <2>1, <2>3 DEF ListedRight, Absent
  <2> QED BY <2>2, <2>3
<1> QED BY <1>1, <1>2 DEF Known, Absent

\* What a step that leaves Comic Vine alone writes is known, and what was held
\* is held.
StillHeld == \A n \in DOMAIN vine : Held(skeleton, excused, vine[n]) => Held(skeleton', excused', vine[n])

LEMMA RestHolds ==
    ASSUME WatermarkInv, RestStep
    PROVE  Known(skeleton', Listed) /\ StillHeld
<1> USE DEF vine_vars, cache_vars
<1>1. /\ VineInv /\ Known(skeleton, Listed) /\ skeleton \in [Issues -> Int]
      /\ \A i \in Issues : Listed[i] \in Int /\ Absent <= Listed[i] /\ skeleton[i] \in Int
      /\ KnownInv /\ IdsInv /\ ShapeInv
  BY OldKnown DEF Known, WatermarkInv, AnswerInv
<1>wr. ASSUME NEW new, Writes(new), Known(new, Listed) PROVE Known(skeleton', Listed) /\ StillHeld
  <2>1. skeleton' = new /\ excused' = Excused(new)
    BY <1>wr DEF Writes
  <2> QED BY <1>1, <1>wr, <2>1, WriteHolds DEF StillHeld
<1>un. ASSUME skeleton' = skeleton, excused' = excused PROVE Known(skeleton', Listed) /\ StillHeld
  BY <1>1, <1>un DEF StillHeld
<1>put. ASSUME NEW list, \A i \in Issues : list[i] # Absent => list[i] \in Int /\ list[i] <= Listed[i]
        PROVE  Known(PutIssues(list), Listed)
  BY <1>1, <1>put DEF PutIssues, Known
<1>8. CASE UpdateStore
  <2> DEFINE got == [i \in Issues |->
                      IF Endpoints[job.ep] = "issues" /\ \E n \in DOMAIN job.page : job.page[n].id = i
                      THEN (CHOOSE e \in ToSet(job.page) : e.id = i).ver ELSE Absent]
  <2>1. Writes(PutIssues(got)) /\ job.pc = "store"
    BY <1>8 DEF UpdateStore
  <2>2. ASSUME NEW i \in Issues, got[i] # Absent PROVE got[i] \in Int /\ got[i] <= Listed[i]
    <3>1. /\ Endpoints[job.ep] = "issues"
          /\ \E n \in DOMAIN job.page : job.page[n].id = i
          /\ got[i] = (CHOOSE e \in ToSet(job.page) : e.id = i).ver
      BY <2>2
    <3>2. job.ep = 2
      BY <2>1, <3>1 DEF WatermarkInv, SlotInv, Endpoints
    <3>3. job.page \in Seq(Entries) /\ PageRight(job.page, Listed)
      BY <2>1, <3>2 DEF WatermarkInv, SlotInv, Took
    <3>4. \E e \in ToSet(job.page) : e.id = i
      BY <3>1 DEF ToSet
    <3>5. PICK n \in DOMAIN job.page : job.page[n].id = i /\ got[i] = job.page[n].ver
      BY <3>1, <3>4 DEF ToSet
    <3>6. job.page[n] \in Entries
      BY <3>3
    <3> HIDE DEF got
    <3> QED BY <3>3, <3>5, <3>6 DEF PageRight, Entries
  <2> HIDE DEF got
  <2> QED BY <1>wr, <1>put, <2>1, <2>2
<1>2. CASE ManageReplace
  <2> DEFINE new == [i \in Issues |-> IF i \notin job.ids THEN Absent
                                      ELSE IF job.old[i] = Absent THEN NumberOnly ELSE job.old[i]]
  <2>1. Writes(new) /\ job.pc = "replace"
    BY <1>2 DEF ManageReplace
  <2>2. job.ids \subseteq Out /\ Known(job.old, Listed)
    BY <1>1, <2>1 DEF IdsInv, KnownInv
  <2>3. ASSUME NEW i \in Issues PROVE new[i] \in Int /\ new[i] <= Listed[i]
    <3>1. i \in job.ids => Listed[i] \in Int /\ Listed[i] >= NumberOnly
      BY <1>1, <2>2 DEF Out, Absent, NumberOnly
    <3>2. job.old[i] \in Int /\ job.old[i] <= Listed[i]
      BY <2>2 DEF Known
    <3> QED BY <1>1, <3>1, <3>2 DEF Absent, NumberOnly
  <2>4. Known(new, Listed)
    BY <2>3 DEF Known
  <2> HIDE DEF new
  <2> QED BY <1>wr, <2>1, <2>4
<1>3. CASE ManageDetail
  <2>1. PICK i : Writes([skeleton EXCEPT ![i] = IF @ = Absent THEN Absent ELSE Listed[i]])
    BY <1>3 DEF ManageDetail
  <2> DEFINE new == [skeleton EXCEPT ![i] = IF @ = Absent THEN Absent ELSE Listed[i]]
  <2>2. ASSUME NEW k \in Issues PROVE new[k] \in Int /\ new[k] <= Listed[k]
    <3>1. CASE k = i
      BY <1>1, <3>1 DEF Absent
    <3>2. CASE k # i
      BY <1>1, <3>2 DEF Known
    <3> QED BY <3>1, <3>2
  <2>3. Known(new, Listed)
    BY <1>1, <2>2 DEF Known
  <2> HIDE DEF new
  <2> QED BY <1>wr, <2>1, <2>3 DEF new
<1>4. ASSUME NEW c \in Callers, RepageIssues(c) PROVE Known(skeleton', Listed) /\ StillHeld
  <2>1. Writes(PutIssues(asked[c].list)) /\ Known(asked[c].list, Listed)
    BY <1>1, <1>4 DEF RepageIssues, KnownInv
  <2>2. Known(PutIssues(asked[c].list), Listed)
    BY <1>put, <2>1 DEF Known
  <2> QED BY <1>wr, <2>1, <2>2
<1>5. ASSUME NEW c \in Callers, Ask(c) \/ Probe(c) \/ RepageList(c) \/ RepageRow(c) \/ AskFails(c)
      PROVE  Known(skeleton', Listed) /\ StillHeld
  BY <1>5, <1>un DEF Ask, Probe, RepageList, RepageRow, AskFails
<1>6. CASE \/ Tick \/ UpdateBegin \/ UpdatePage \/ UpdateSave
           \/ UpdateCapped \/ UpdateCancelled \/ JobFails \/ Crash \/ UNCHANGED vars
  BY <1>6, <1>un DEF Tick, UpdateBegin, UpdatePage, UpdateSave,
     UpdateCapped, UpdateCancelled, JobFails, Crash, vars
<1>7. CASE \/ \E mode \in {"Summary", "Complete"} : ManageBegin(mode)
           \/ ManageVolume \/ ManageList \/ ManageQueue \/ ManageCover
  BY <1>7, <1>un DEF ManageBegin, ManageVolume, ManageList, ManageQueue, ManageCover
<1> QED BY <1>2, <1>3, <1>4, <1>5, <1>6, <1>7, <1>8 DEF RestStep

\* So a reader that is not moved still stands.
LEMMA StandsStill ==
    ASSUME StillHeld, NEW s, NEW r, Stands(vine, skeleton, excused, s, r)
    PROVE  Stands(vine, skeleton', excused', s, r)
BY DEF StillHeld, Stands, HeldTo

\* What the requests and the manager keep is known.
LEMMA KnownStep ==
    ASSUME WatermarkInv, RestStep
    PROVE  KnownInv'
<1> USE DEF vine_vars, cache_vars
<1>1. /\ ShapeInv /\ KnownInv /\ Listed' = Listed /\ Known(skeleton', Listed)
      /\ Known(skeleton, Listed) /\ Known(Listed, Listed) /\ Known([i \in Issues |-> Absent], Listed)
      /\ DOMAIN job = JobFields /\ asked \in [Callers -> Requests]
  <2>1. Known(Listed, Listed)
    BY OldKnown DEF Known, Listed
  <2>2. ShapeInv /\ KnownInv
    BY DEF WatermarkInv, AnswerInv
  <2> QED BY <2>1, <2>2, RestHolds, RestStands, OldKnown DEF ShapeInv
<1>2. job'.pc \in {"list", "replace"} => Known(job'.old, Listed)
  <2>1. CASE ManageVolume
    BY <1>1, <2>1 DEF ManageVolume, JobFields
  <2>2. CASE ManageList
    BY <1>1, <2>2 DEF ManageList, JobFields, KnownInv
  <2>3. CASE UpdateBegin \/ UpdateSave \/ UpdateCapped
    BY <1>1, <2>3, SlotMoves
  <2>4. CASE UpdatePage \/ UpdateStore \/ ManageReplace
    BY <1>1, <2>4 DEF UpdatePage, UpdateStore, ManageReplace, JobFields
  <2>5. CASE UpdateCancelled \/ JobFails \/ Crash \/ ManageCover
    BY <2>5 DEF UpdateCancelled, JobFails, Crash, ManageCover, Idle
  <2>6. ASSUME NEW mode \in {"Summary", "Complete"}, ManageBegin(mode) PROVE <1>2
    BY <2>6 DEF ManageBegin, Idle
  <2>7. CASE ManageQueue
    <3>1. \/ job' = Idle
          \/ job' = [Idle EXCEPT !.pc = "details", !.mode = job.mode, !.ids = job.ids]
      BY <2>7 DEF ManageQueue
    <3>2. "pc" \in DOMAIN Idle /\ Idle.pc = "idle"
      BY DEF Idle
    <3> QED BY <3>1, <3>2
  <2>8. CASE ManageDetail
    BY <1>1, <2>8 DEF ManageDetail, JobFields
  <2>9. CASE AskStep \/ Tick \/ UNCHANGED vars
    BY <1>1, <2>9, AskMoves DEF Tick, vars, KnownInv
  <2> QED BY <2>1, <2>2, <2>3, <2>4, <2>5, <2>6, <2>7, <2>8, <2>9 DEF RestStep, AskStep
<1>3. ASSUME NEW c \in Callers PROVE Known(asked'[c].list, Listed)
  <2>0. /\ \A k \in Callers : Known(asked[k].list, Listed) /\ asked[k] \in Requests
        /\ Known(NotAsked.list, Listed)
    BY <1>1 DEF KnownInv, NotAsked
  <2>1. ASSUME NEW k \in Callers, Ask(k) PROVE Known(asked'[c].list, Listed)
    <3>1. \/ asked' = asked
          \/ asked' = [asked EXCEPT ![k] = [NotAsked EXCEPT !.pc = "probe", !.was = Verdict,
                                                           !.stored = row.count]]
      BY <2>1 DEF Ask
    <3>2. asked'[c].list \in {asked[c].list, NotAsked.list}
      BY <1>1, <3>1 DEF NotAsked
    <3> QED BY <2>0, <3>2
  <2>2. ASSUME NEW k \in Callers, Probe(k) PROVE Known(asked'[c].list, Listed)
    <3>1. \/ asked' = [asked EXCEPT ![k] = NotAsked]
          \/ asked' = [asked EXCEPT ![k] = [asked[k] EXCEPT !.pc = "list", !.count = Len(vine)]]
      BY <1>1, <2>2 DEF Probe
    <3>2. [asked[k] EXCEPT !.pc = "list", !.count = Len(vine)].list = asked[k].list
      BY <2>0 DEF Requests
    <3>3. asked'[c].list \in {asked[c].list, NotAsked.list}
      BY <1>1, <3>1, <3>2
    <3> QED BY <2>0, <3>3
  <2>3. ASSUME NEW k \in Callers, RepageList(k) PROVE Known(asked'[c].list, Listed)
    <3>1. asked' = [asked EXCEPT ![k] = [asked[k] EXCEPT !.pc = "row", !.list = Listed]]
      BY <1>1, <2>3 DEF RepageList
    <3>2. asked'[c].list \in {asked[c].list, Listed}
      BY <1>1, <2>0, <3>1 DEF Requests
    <3> QED BY <1>1, <2>0, <3>2
  <2>4. ASSUME NEW k \in Callers, RepageRow(k) PROVE Known(asked'[c].list, Listed)
    <3>1. asked' = [asked EXCEPT ![k] = [asked[k] EXCEPT !.pc = "issues"]]
      BY <1>1, <2>4 DEF RepageRow
    <3>2. asked'[c].list = asked[c].list
      BY <1>1, <2>0, <3>1 DEF Requests
    <3> QED BY <2>0, <3>2
  <2>5. ASSUME NEW k \in Callers, RepageIssues(k) \/ AskFails(k) PROVE Known(asked'[c].list, Listed)
    <3>1. asked' = [asked EXCEPT ![k] = NotAsked]
      BY <2>5 DEF RepageIssues, AskFails
    <3> QED BY <1>1, <2>0, <3>1
  <2>6. CASE Crash
    BY <2>0, <2>6 DEF Crash
  <2>7. CASE \/ Tick \/ UpdateBegin \/ UpdatePage \/ UpdateStore \/ UpdateSave
             \/ UpdateCapped \/ UpdateCancelled \/ JobFails \/ UNCHANGED vars
    BY <2>0, <2>7 DEF Tick, UpdateBegin, UpdatePage, UpdateStore, UpdateSave, UpdateCapped,
       UpdateCancelled, JobFails, vars
  <2>8. CASE \/ \E mode \in {"Summary", "Complete"} : ManageBegin(mode)
             \/ ManageVolume \/ ManageList \/ ManageReplace \/ ManageQueue
             \/ ManageDetail \/ ManageCover
    BY <2>0, <2>8 DEF ManageBegin, ManageVolume, ManageList, ManageReplace, ManageQueue,
       ManageDetail, ManageCover
  <2> QED BY <2>1, <2>2, <2>3, <2>4, <2>5, <2>6, <2>7, <2>8 DEF RestStep
<1> QED BY <1>1, <1>2, <1>3 DEF KnownInv

\* The page that a request brings is the next piece of the window.
LEMMA PageStep ==
    ASSUME WatermarkInv, UpdatePage, job.ep = 2
    PROVE  Took(vine, skeleton, excused, sync["issues"].last, job', Listed)
<1> DEFINE s == sync["issues"].last
           w == Window("issues", s, job.now)
           a == Cut(vine, s)
           c == Cut(vine, job.now + 1)
           b == WindowEnd(s, job.now)
           x == IF job.off + PageSize <= Len(w) THEN job.off + PageSize ELSE Len(w)
           p == SubSeq(w, job.off + 1, x)
<1>1. /\ VineInv /\ Sorted(vine) /\ job.now \in Int /\ s \in Int /\ DOMAIN job = JobFields
      /\ job.pc = "page" /\ job.off \in Nat /\ job.since = s /\ PageSize \in Nat /\ 1 <= PageSize
      /\ Stands(vine, skeleton, excused, s, job.off) /\ Len(vine) \in Nat
      /\ vine \in Seq(Entries)
  <2>1. job.pc = "page" /\ VineInv /\ SlotInv /\ SortedInv /\ ShapeInv
    BY DEF UpdatePage, WatermarkInv, AnswerInv, ShapeInv
  <2>2. vine \in Seq(Entries) /\ Len(vine) \in Nat
    BY <2>1 DEF VineInv
  <2> QED BY <2>1, <2>2, ReaderFacts, ConstantsAssumption
          DEF SlotInv, SortedInv, ShapeInv
<1> HIDE DEF s
<1>2. /\ w \in Seq(Entries) /\ Len(w) = b - a /\ a \in 0..Len(vine) /\ b \in a..Len(vine)
      /\ \A k \in 1..(b - a) : w[k] = vine[a + k]
      /\ b = IF a <= c THEN c ELSE a
  <2>1. IsPiece(w, vine, a, b)
    BY <1>1, WindowFacts
  <2>2. b = IF a <= c THEN c ELSE a
    BY DEF WindowEnd
  <2> HIDE DEF w, a, b, c
  <2> QED BY <2>1, <2>2 DEF IsPiece
<1> HIDE DEF b
<1>3. IsCut(vine, job.now, Cut(vine, job.now)) /\ IsCut(vine, job.now + 1, c)
  BY <1>1, CutFacts
<1> DEFINE d == Cut(vine, job.now)
<1>4. d \in Nat /\ d <= c
  <2>1. d \in 0..Len(vine) /\ c \in 0..Len(vine) /\ DOMAIN vine = 1..Len(vine)
    BY <1>1, <1>3 DEF IsCut
  <2>2. CASE d = 0
    BY <2>1, <2>2
  <2>3. CASE d # 0
    <3>1. d \in DOMAIN vine /\ d <= d
      BY <2>1, <2>3
    <3>2. vine[d].day < job.now
      BY <1>3, <3>1 DEF IsCut
    <3>3. vine[d] \in Entries
      BY <1>1, <3>1
    <3>4. vine[d].day \in Int
      BY <3>3, ConstantsAssumption DEF Entries, Days
    <3>5. vine[d].day < job.now + 1
      BY <1>1, <3>2, <3>4
    <3> QED BY <1>3, <3>1, <3>5 DEF IsCut
  <2> QED BY <2>2, <2>3
<1>5. c \in Nat
  BY <1>1, <1>3 DEF IsCut
<1>6. /\ job'.pc = "store" /\ job'.off = job.off /\ job'.now = job.now
      /\ job'.total = Len(w) /\ job'.page = p
  <2>1. Min({job.off + PageSize, Len(w)}) = x
    <3> DEFINE m == job.off + PageSize
               l == Len(w)
    <3>1. m \in Int /\ l \in Int
      BY <1>1, <1>2, <1>5
    <3> HIDE DEF m, l
    <3>2. Min({m, l}) = IF m <= l THEN m ELSE l
      BY <3>1 DEF Min
    <3> QED BY <3>2 DEF m, l
  <2>2. Window(Endpoints[job.ep], job.since, job.now) = w
    BY <1>1 DEF Endpoints
  <2>3. job' = [job EXCEPT !.pc = "store", !.pages = job.pages + 1, !.total = Len(w),
                           !.page = SubSeq(w, job.off + 1, Min({job.off + PageSize, Len(w)}))]
    BY <2>2, Zenon DEF UpdatePage
  <2> HIDE DEF w, x
  <2> QED BY <1>1, <2>1, <2>3 DEF JobFields
<1> HIDE DEF c, d
<1>7. /\ p \in Seq(Entries)
      /\ Len(p) = IF job.off + 1 <= x THEN x - job.off ELSE 0
      /\ \A k \in 1..Len(p) : p[k] = w[job.off + k]
  <2> DEFINE l == Len(w)
  <2>1. w \in Seq(Entries) /\ l \in Nat /\ \A k \in 1..l : w[k] \in Entries
    BY <1>2
  <2> HIDE DEF w
  <2>2. x \in Int /\ x <= l /\ job.off + 1 \in Int /\ 1 <= job.off + 1
    BY <1>1, <2>1
  <2> HIDE DEF x, l
  <2>3. \A k \in (job.off + 1)..x : w[k] \in Entries
    BY <1>1, <2>1, <2>2
  <2>4. /\ p \in Seq(Entries)
        /\ Len(p) = IF job.off + 1 <= x THEN x - (job.off + 1) + 1 ELSE 0
        /\ \A k \in 1..(x - (job.off + 1) + 1) : p[k] = w[(job.off + 1) + k - 1]
    BY <2>2, <2>3, SubSeqProperties
  <2> HIDE DEF p
  <2>5. \A k \in 1..Len(p) : k \in 1..(x - (job.off + 1) + 1) /\ (job.off + 1) + k - 1 = job.off + k
    BY <1>1, <2>2, <2>4
  <2> QED BY <1>1, <2>2, <2>4, <2>5
<1> DEFINE to == job.off + Len(p)
<1>8. /\ Len(p) \in Nat /\ to \in Nat /\ x \in Int /\ x <= b - a /\ b - a \in Nat
      /\ \A k \in 1..Len(p) : job.off + k \in 1..(b - a)
      /\ Len(p) < PageSize => b - a <= to
      /\ to < b - a => a + to < Len(vine)
  <2>1. /\ a \in Nat /\ b \in Nat /\ a <= b /\ b <= Len(vine) /\ Len(w) = b - a
        /\ Len(p) = IF job.off + 1 <= x THEN x - job.off ELSE 0
        /\ job.off \in Nat /\ PageSize \in Nat /\ 1 <= PageSize /\ Len(vine) \in Nat
        /\ x = IF job.off + PageSize <= Len(w) THEN job.off + PageSize ELSE Len(w)
    BY <1>1, <1>2, <1>7
  <2> DEFINE l == Len(p)
             y == b - a
  <2>2. /\ to = job.off + l /\ y \in Nat /\ y <= Len(vine) - a /\ Len(w) = y
        /\ l = IF job.off + 1 <= x THEN x - job.off ELSE 0
        /\ x = IF job.off + PageSize <= y THEN job.off + PageSize ELSE y
    <3> HIDE DEF p, x, w, b, a
    <3> QED BY <2>1
  <2> HIDE DEF p, x, w, b, a, l, y, to
  <2> DEFINE o == job.off
  <2>3. x \in Int /\ x <= y /\ l \in Nat /\ to \in Nat /\ o \in Nat
    BY <2>1, <2>2
  <2>4. l < PageSize => y <= to
    BY <2>1, <2>2, <2>3
  <2>5. ASSUME NEW k \in 1..l PROVE o + k \in 1..y
    <3>1. k \in Int /\ 1 <= k /\ k <= l /\ y \in Int
      BY <2>2, <2>3
    <3>2. l = x - o
      BY <2>2, <2>3, <3>1
    <3> HIDE DEF o
    <3> QED BY <2>3, <3>1, <3>2
  <2>6. to < y => a + to < Len(vine)
    BY <2>1, <2>2, <2>3
  <2> QED BY <2>2, <2>3, <2>4, <2>5, <2>6 DEF l, y
<1>9. ASSUME NEW k \in 1..Len(p)
      PROVE  p[k] = vine[a + job.off + k] /\ a + job.off + k \in DOMAIN vine
  <2>1. job.off + k \in 1..(b - a)
    BY <1>8
  <2>2. p[k] = vine[a + (job.off + k)]
    BY <1>2, <1>7, <2>1
  <2>3. /\ a \in Nat /\ b \in Nat /\ b <= Len(vine) /\ Len(vine) \in Nat /\ job.off \in Nat
        /\ DOMAIN vine = 1..Len(vine)
    BY <1>1, <1>2
  <2> HIDE DEF p, x, w, b, a
  <2> QED BY <2>1, <2>2, <2>3
<1>10. d <= a + (b - a)
  <2> HIDE DEF a
  <2> QED BY <1>2, <1>4, <1>5
<1>11. PageRight(p, Listed)
  <2>1. \A n \in DOMAIN vine : vine[n].ver <= Listed[vine[n].id]
    <3>1. \A n \in DOMAIN vine : Listed[vine[n].id] = vine[n].ver /\ vine[n] \in Entries
      BY <1>1, ListedFacts DEF ListedRight
    <3> QED BY <3>1 DEF Entries
  <2>2. DOMAIN p = 1..Len(p)
    BY <1>7
  <2>3. \A k, l \in 1..Len(p) : p[k].id = p[l].id => k = l
    <3>1. \A k \in 1..Len(p) : p[k] = vine[a + job.off + k] /\ a + job.off + k \in DOMAIN vine
      BY <1>9
    <3>2. a \in Nat /\ job.off \in Nat
      BY <1>1, <1>2
    <3> HIDE DEF p, a
    <3>3. \A k, l \in 1..Len(p) : p[k].id = p[l].id => a + job.off + k = a + job.off + l
      BY <1>1, <3>1 DEF VineInv
    <3> QED BY <1>8, <3>2, <3>3
  <2> HIDE DEF p
  <2> QED BY <1>9, <2>1, <2>2, <2>3 DEF PageRight
<1>12. ASSUME NEW n \in DOMAIN vine, n <= a + to
       PROVE  Held(skeleton, excused, vine[n]) \/ InPage(p, vine[n])
  <2>1. CASE n <= a + job.off
    BY <1>1, <2>1 DEF Stands, HeldTo
  <2>2. CASE ~(n <= a + job.off)
    <3> DEFINE k == n - (a + job.off)
    <3>1. /\ a \in Nat /\ job.off \in Nat /\ n \in Nat /\ Len(p) \in Nat /\ n <= a + (job.off + Len(p))
          /\ DOMAIN p = 1..Len(p)
      <4>1. a \in Nat /\ job.off \in Nat /\ Len(p) \in Nat /\ DOMAIN vine = 1..Len(vine)
        BY <1>1, <1>2, <1>8
      <4>2. DOMAIN p = 1..Len(p)
        BY <1>7
      <4> HIDE DEF p, a
      <4> QED BY <1>12, <4>1, <4>2
    <3>2. k \in 1..Len(p) /\ a + job.off + k = n
      <4> HIDE DEF p, a
      <4> QED BY <2>2, <3>1
    <3>3. p[k] = vine[n]
      BY <1>9, <3>2
    <3> HIDE DEF p, k
    <3> QED BY <3>1, <3>2, <3>3 DEF InPage
  <2> QED BY <2>1, <2>2
<1>13. ReadTo(job') = to
  BY <1>6 DEF ReadTo
<1> HIDE DEF p, w, b, a, to
<1>14. Took(vine, skeleton, excused, s, job', Listed)
  <2>1. job'.page \in Seq(Entries) /\ job'.total \in Nat /\ job'.total = b - a
    BY <1>2, <1>6, <1>7, <1>8
  <2>2. PageRight(job'.page, Listed)
    BY <1>6, <1>11
  <2>3. Len(job'.page) < PageSize => job'.total <= ReadTo(job')
    BY <1>6, <1>8, <1>13, <2>1
  <2>4. Cut(vine, job'.now) <= Cut(vine, s) + job'.total
    BY <1>6, <1>10, <2>1 DEF a, d
  <2>5. ReadTo(job') < job'.total => Inside(vine, s, ReadTo(job'))
    BY <1>8, <1>13, <2>1 DEF Inside, a
  <2>6. ASSUME NEW n \in DOMAIN vine, n <= Cut(vine, s) + ReadTo(job')
        PROVE  Held(skeleton, excused, vine[n]) \/ InPage(job'.page, vine[n])
    BY <1>6, <1>12, <1>13, <2>6 DEF a
  <2> QED BY <1>6, <2>1, <2>2, <2>3, <2>4, <2>5, <2>6 DEF Took
<1> QED BY <1>14 DEF s

\* A page read holds on to what it covers.
LEMMA TookStill ==
    ASSUME StillHeld, NEW s, NEW j, Took(vine, skeleton, excused, s, j, Listed)
    PROVE  Took(vine, skeleton', excused', s, j, Listed)
BY DEF StillHeld, Took

\* The store turns what is in the page into what is held.
LEMMA StoreStep ==
    ASSUME WatermarkInv, UpdateStore, job.ep = 2
    PROVE  Took(vine, skeleton', excused', sync["issues"].last, job', Listed)
<1> DEFINE s == sync["issues"].last
           got == [i \in Issues |->
                      IF Endpoints[job.ep] = "issues" /\ \E n \in DOMAIN job.page : job.page[n].id = i
                      THEN (CHOOSE e \in ToSet(job.page) : e.id = i).ver ELSE Absent]
<1>1. /\ job.pc = "store" /\ DOMAIN job = JobFields /\ VineInv
      /\ Took(vine, skeleton, excused, s, job, Listed)
      /\ skeleton' = PutIssues(got)
      /\ job' = [job EXCEPT !.pc = "save", !.off = job.off + Len(job.page)]
      /\ job.off \in Nat /\ StillHeld
  <2>1. /\ job.pc = "store" /\ skeleton' = PutIssues(got)
        /\ job' = [job EXCEPT !.pc = "save", !.off = job.off + Len(job.page)]
    BY Zenon DEF UpdateStore, Writes
  <2>2. StillHeld
    BY RestHolds DEF RestStep
  <2> QED BY <2>1, <2>2, ReaderFacts DEF WatermarkInv, SlotInv, AnswerInv, ShapeInv
<1> HIDE DEF s
<1>2. /\ job'.pc = "save" /\ job'.now = job.now /\ job'.total = job.total /\ job'.page = job.page
      /\ job'.off = job.off + Len(job.page)
  BY <1>1 DEF JobFields
<1>3. ReadTo(job') = ReadTo(job)
  BY <1>1, <1>2 DEF ReadTo
<1>4. job.page \in Seq(Entries) /\ PageRight(job.page, Listed)
  BY <1>1 DEF Took
<1>5. ASSUME NEW n \in DOMAIN vine, InPage(job.page, vine[n])
      PROVE  Held(skeleton', excused', vine[n])
  <2>1. PICK m \in DOMAIN job.page : job.page[m].id = vine[n].id /\ job.page[m].ver = vine[n].ver
    BY <1>5 DEF InPage
  <2> DEFINE i == vine[n].id
  <2>2. i \in Issues /\ vine[n].ver # Absent
    <3>1. vine[n] \in Entries
      BY <1>1 DEF VineInv
    <3>2. vine[n].ver \in Nat /\ vine[n].id \in Issues
      BY <3>1 DEF Entries
    <3> QED BY <3>2 DEF Absent
  <2>3. Endpoints[job.ep] = "issues"
    BY DEF Endpoints
  <2>4. got[i] = (CHOOSE e \in ToSet(job.page) : e.id = i).ver
    BY <2>1, <2>2, <2>3
  <2>5. \E e \in ToSet(job.page) : e.id = i
    BY <2>1 DEF ToSet
  <2>6. PICK k \in DOMAIN job.page : job.page[k].id = i /\ got[i] = job.page[k].ver
    BY <2>4, <2>5 DEF ToSet
  <2>7. k = m
    BY <1>4, <2>1, <2>6 DEF PageRight
  <2>8. got[i] = vine[n].ver
    BY <2>1, <2>6, <2>7
  <2> HIDE DEF got
  <2>9. skeleton'[i] = vine[n].ver
    BY <1>1, <2>2, <2>8 DEF PutIssues
  <2> QED BY <2>9 DEF Held
<1>6. ASSUME NEW n \in DOMAIN vine, n <= Cut(vine, s) + ReadTo(job)
      PROVE  Held(skeleton', excused', vine[n]) \/ (job.total <= ReadTo(job) /\ job.now <= vine[n].day)
  BY <1>1, <1>5, <1>6 DEF Took, StillHeld
<1> HIDE DEF got
<1> QED BY <1>1, <1>2, <1>3, <1>6 DEF Took, s

\* A saved watermark and offset stand.
LEMMA SavedStands ==
    ASSUME WatermarkInv, RestStep, NEW last, NEW off,
           job.ep \in {1, 2}, sync' = SaveWatermark(last, off),
           job.ep = 2 => /\ last \in Int /\ last <= day /\ off \in Nat
                         /\ Stands(vine, skeleton, excused, last, off)
    PROVE  SyncInv'
<1>1. /\ vine' = vine /\ day \in Int /\ day' \in Int /\ day <= day' /\ StillHeld
      /\ DOMAIN sync = {"volumes", "issues"} /\ sync["issues"] \in [last : Int, off : Nat]
      /\ Stands(vine, skeleton, excused, sync["issues"].last, sync["issues"].off)
      /\ sync["issues"].last \in Int /\ sync["issues"].last <= day
  BY RestStands, RestHolds, ReaderFacts DEF WatermarkInv, AnswerInv, SyncInv
<1>2. CASE job.ep = 1
  <2>1. sync' = [sync EXCEPT !["volumes"] = [last |-> last, off |-> off]]
    BY <1>2 DEF SaveWatermark, Endpoints
  <2>2. DOMAIN sync' = {"volumes", "issues"} /\ sync'["issues"] = sync["issues"]
    BY <1>1, <2>1
  <2> QED BY <1>1, <2>2, StandsStill DEF SyncInv
<1>3. CASE job.ep = 2
  <2>1. sync' = [sync EXCEPT !["issues"] = [last |-> last, off |-> off]]
    BY <1>3 DEF SaveWatermark, Endpoints
  <2>2. DOMAIN sync' = {"volumes", "issues"} /\ sync'["issues"] = [last |-> last, off |-> off]
    BY <1>1, <2>1
  <2>3. Stands(vine, skeleton', excused', last, off)
    BY <1>1, <1>3, StandsStill
  <2>4. last \in Int /\ last <= day' /\ off \in Nat
    BY <1>1, <1>3
  <2>5. sync'["issues"].last = last /\ sync'["issues"].off = off
    BY <2>2
  <2> QED BY <1>1, <2>2, <2>3, <2>4, <2>5 DEF SyncInv
<1> QED BY <1>2, <1>3

\* A window read to its end may be passed, one that was not keeps its offset.
LEMMA SaveFacts ==
    ASSUME WatermarkInv, job.pc = "save", job.ep = 2
    PROVE  /\ job.total <= job.off => Stands(vine, skeleton, excused, job.now, 0)
           /\ job.off < job.total => Stands(vine, skeleton, excused, sync["issues"].last, job.off)
           /\ Len(job.page) < PageSize => job.total <= job.off
           /\ job.total \in Nat /\ job.off \in Nat
<1> DEFINE s == sync["issues"].last
<1>1. /\ Took(vine, skeleton, excused, s, job, Listed) /\ job.off \in Nat
      /\ SortedInv /\ vine \in Seq(Entries) /\ job.now \in Int /\ s \in Int
  <2>1. vine \in Seq(Entries)
    BY ReaderFacts DEF VineInv
  <2> QED BY <2>1, ReaderFacts DEF WatermarkInv, SlotInv
<1>2. ReadTo(job) = job.off
  BY <1>1 DEF ReadTo
<1>3. /\ job.total \in Nat
      /\ Len(job.page) < PageSize => job.total <= job.off
      /\ Cut(vine, job.now) <= Cut(vine, s) + job.total
      /\ job.off < job.total => Inside(vine, s, job.off)
      /\ \A n \in DOMAIN vine : n <= Cut(vine, s) + job.off =>
            Held(skeleton, excused, vine[n]) \/ (job.total <= job.off /\ job.now <= vine[n].day)
  BY <1>1, <1>2 DEF Took
<1>4. IsCut(vine, job.now, Cut(vine, job.now)) /\ IsCut(vine, s, Cut(vine, s))
  BY <1>1, CutFacts DEF SortedInv
<1>5. /\ Cut(vine, job.now) \in Nat /\ Cut(vine, s) \in Nat
      /\ DOMAIN vine = 1..Len(vine) /\ Len(vine) \in Nat
      /\ \A n \in DOMAIN vine : vine[n].day \in Int
  <2>1. \A n \in DOMAIN vine : vine[n] \in Entries
    BY <1>1
  <2> QED BY <1>1, <1>4, <2>1, ConstantsAssumption DEF IsCut, Entries, Days
<1> HIDE DEF s
<1>6. ASSUME job.total <= job.off PROVE Stands(vine, skeleton, excused, job.now, 0)
  <2>1. ASSUME NEW n \in DOMAIN vine, n <= Cut(vine, job.now) + 0
        PROVE  Held(skeleton, excused, vine[n])
    <3>1. n <= Cut(vine, job.now) /\ n <= Cut(vine, s) + job.off
      BY <1>1, <1>3, <1>5, <1>6, <2>1
    <3>2. vine[n].day < job.now
      BY <1>4, <3>1 DEF IsCut
    <3> QED BY <1>1, <1>3, <1>5, <3>1, <3>2
  <2> QED BY <2>1 DEF Stands, Inside, HeldTo
<1>7. ASSUME job.off < job.total PROVE Stands(vine, skeleton, excused, s, job.off)
  <2>1. ~(job.total <= job.off)
    BY <1>1, <1>3, <1>7
  <2> QED BY <1>1, <1>3, <1>7, <2>1 DEF Stands, HeldTo
<1> QED BY <1>1, <1>3, <1>6, <1>7 DEF s

LEMMA SyncStep ==
    ASSUME WatermarkInv, RestStep
    PROVE  SyncInv'
<1> USE DEF vine_vars, cache_vars
<1>1. /\ vine' = vine /\ day \in Int /\ day' \in Int /\ day <= day' /\ StillHeld
      /\ SyncInv /\ SlotInv /\ sync["issues"].last \in Int /\ sync["issues"].last <= day
  BY RestStands, RestHolds, ReaderFacts DEF WatermarkInv, AnswerInv
<1>2. CASE UpdateSave \/ UpdateCapped \/ UpdateCancelled
  <2>1. job.ep \in {1, 2} /\ job.now \in Int /\ job.now <= day /\ job.pc \in {"page", "save"}
    BY <1>1, <1>2, ReaderFacts DEF SlotInv, UpdateSave, UpdateCapped, UpdateCancelled
  <2>2. CASE UpdateSave /\ (Len(job.page) < PageSize \/ job.off >= job.total)
    <3>1. sync' = SaveWatermark(job.now, 0) /\ job.pc = "save"
      BY <2>2 DEF UpdateSave, EndpointDone
    <3>2. job.ep = 2 => Stands(vine, skeleton, excused, job.now, 0)
      <4>1. job.ep = 2 => job.total <= job.off
        BY <2>2, <3>1, SaveFacts
      <4> QED BY <3>1, <4>1, SaveFacts
    <3> QED BY <2>1, <3>1, <3>2, SavedStands
  <2>3. CASE \/ UpdateSave /\ ~(Len(job.page) < PageSize \/ job.off >= job.total)
             \/ UpdateCapped \/ UpdateCancelled
    <3>1. sync' = SaveWatermark(job.since, job.off)
      BY <2>3 DEF UpdateSave, UpdateCapped, UpdateCancelled, EndpointDone
    <3>2. ASSUME job.ep = 2
          PROVE  /\ job.since = sync["issues"].last /\ job.off \in Nat
                 /\ Stands(vine, skeleton, excused, sync["issues"].last, job.off)
      <4>1. CASE job.pc = "page"
        BY <1>1, <3>2, <4>1 DEF SlotInv
      <4>2. CASE job.pc = "save"
        <5>1. job.off < job.total
          BY <2>3, <3>2, <4>2, SaveFacts DEF UpdateCapped, UpdateCancelled
        <5> QED BY <1>1, <3>2, <4>2, <5>1, SaveFacts DEF SlotInv
      <4> QED BY <2>1, <4>1, <4>2
    <3> QED BY <1>1, <2>1, <3>1, <3>2, SavedStands
  <2> QED BY <1>2, <2>2, <2>3
<1>3. ASSUME sync' = sync PROVE SyncInv'
  BY <1>1, <1>3, StandsStill DEF SyncInv
<1>4. CASE \/ Tick \/ UpdateBegin \/ UpdatePage \/ UpdateStore \/ JobFails \/ Crash
           \/ UNCHANGED vars
  BY <1>3, <1>4 DEF Tick, UpdateBegin, UpdatePage, UpdateStore, JobFails, Crash, vars
<1>5. CASE \/ \E mode \in {"Summary", "Complete"} : ManageBegin(mode)
           \/ ManageVolume \/ ManageList \/ ManageReplace \/ ManageQueue
           \/ ManageDetail \/ ManageCover
  BY <1>3, <1>5 DEF ManageBegin, ManageVolume, ManageList, ManageReplace, ManageQueue,
     ManageDetail, ManageCover
<1>6. CASE AskStep
  BY <1>3, <1>6 DEF AskStep, Ask, Probe, RepageList, RepageRow, RepageIssues, AskFails
<1> QED BY <1>2, <1>4, <1>5, <1>6 DEF RestStep, AskStep

\* The update goes on where its watermark and its offset say.
LEMMA SlotStep ==
    ASSUME WatermarkInv, RestStep
    PROVE  SlotInv'
<1> USE DEF vine_vars, cache_vars
<1> DEFINE Runs(j) == j.pc \in {"page", "store", "save"}
<1>1. /\ vine' = vine /\ Listed' = Listed /\ StillHeld
      /\ day \in Int /\ day' \in Int /\ day <= day'
      /\ SyncInv /\ SlotInv /\ DOMAIN job = JobFields /\ job.now \in Int
      /\ sync["issues"].off \in Nat
      /\ Stands(vine, skeleton, excused, sync["issues"].last, sync["issues"].off)
      /\ DOMAIN sync = {"volumes", "issues"}
  BY RestStands, RestHolds, ReaderFacts DEF WatermarkInv, AnswerInv, ShapeInv, SyncInv
<1>idle. ASSUME ~Runs(job') PROVE SlotInv'
  BY <1>idle DEF SlotInv
<1>same. ASSUME job' = job, sync' = sync PROVE SlotInv'
  BY <1>1, <1>same, StandsStill, TookStill DEF SlotInv
\* The volumes endpoint has none of the issues' entries.
<1>vols. ASSUME job'.ep = 1, job'.now \in Int, job'.now <= day PROVE SlotInv'
  BY <1>1, <1>vols DEF SlotInv
<1>2. CASE UpdateBegin
  <2>1. job' = Endpoint(1, day)
    BY <1>2 DEF UpdateBegin
  <2>2. job'.ep = 1 /\ job'.now = day
    BY <2>1 DEF Endpoint, Idle
  <2> QED BY <1>1, <1>vols, <2>2
<1>3. CASE UpdatePage
  <2>1. /\ job.pc = "page" /\ job'.pc = "store" /\ job'.ep = job.ep /\ job'.now = job.now
        /\ job'.since = job.since /\ job'.off = job.off /\ sync' = sync
        /\ UNCHANGED <<skeleton, excused>>
    BY <1>1, <1>3 DEF UpdatePage, JobFields
  <2>2. job.ep \in {1, 2} /\ job.now <= day
    BY <1>1, <2>1 DEF SlotInv
  <2>3. CASE job.ep = 2
    <3>1. Took(vine, skeleton, excused, sync["issues"].last, job', Listed)
      BY <1>3, <2>3, PageStep
    <3>2. job.since = sync["issues"].last /\ job.off \in Nat
      BY <1>1, <2>1, <2>3 DEF SlotInv
    <3> QED BY <1>1, <2>1, <2>2, <2>3, <3>1, <3>2 DEF SlotInv
  <2> QED BY <1>1, <1>vols, <2>1, <2>2, <2>3
<1>4. CASE UpdateStore
  <2>1. /\ job.pc = "store" /\ sync' = sync
        /\ job' = [job EXCEPT !.pc = "save", !.off = job.off + Len(job.page)]
    BY <1>4, Zenon DEF UpdateStore
  <2>2. /\ job'.pc = "save" /\ job'.ep = job.ep /\ job'.now = job.now
        /\ job'.since = job.since /\ job'.off = job.off + Len(job.page)
    BY <1>1, <2>1 DEF JobFields
  <2>3. job.ep \in {1, 2} /\ job.now <= day
    BY <1>1, <2>1 DEF SlotInv
  <2>4. CASE job.ep = 2
    <3>1. Took(vine, skeleton', excused', sync["issues"].last, job', Listed)
      BY <1>4, <2>4, StoreStep
    <3>2. /\ job.since = sync["issues"].last /\ job.off \in Nat
          /\ Took(vine, skeleton, excused, sync["issues"].last, job, Listed)
      BY <1>1, <2>1, <2>4 DEF SlotInv
    <3>3. job'.off \in Nat
      <4>1. job.page \in Seq(Entries)
        BY <3>2 DEF Took
      <4>2. Len(job.page) \in Nat
        BY <4>1
      <4> QED BY <2>2, <3>2, <4>2
    <3> QED BY <1>1, <2>1, <2>2, <2>3, <2>4, <3>1, <3>2, <3>3 DEF SlotInv
  <2> QED BY <1>1, <1>vols, <2>2, <2>3, <2>4
<1>5. CASE UpdateSave \/ UpdateCapped
  <2>1. /\ job.pc \in {"page", "save"} /\ job.ep \in {1, 2} /\ job.now <= day
        /\ UNCHANGED <<skeleton, excused>>
    BY <1>1, <1>5 DEF UpdateSave, UpdateCapped, SlotInv
  <2>2. \/ job' = Idle
        \/ job.ep = 1 /\ job' = Endpoint(2, job.now)
        \/ /\ UpdateSave /\ ~(Len(job.page) < PageSize \/ job.off >= job.total)
           /\ job' = [job EXCEPT !.pc = "page", !.page = <<>>, !.total = 0]
    <3>1. Len(Endpoints) = 2
      BY DEF Endpoints
    <3> QED BY <1>5, <2>1, <3>1 DEF UpdateSave, UpdateCapped, EndpointDone
  <2>3. CASE job' = Idle
    BY <1>idle, <2>3 DEF Idle
  <2>4. ASSUME job.ep = 1 PROVE sync'["issues"] = sync["issues"]
    <3>1. PICK last, off : sync' = SaveWatermark(last, off)
      BY <1>5 DEF UpdateSave, UpdateCapped, EndpointDone
    <3>2. sync' = [sync EXCEPT !["volumes"] = [last |-> last, off |-> off]]
      BY <2>4, <3>1 DEF SaveWatermark, Endpoints
    <3> QED BY <1>1, <3>2
  <2>5. CASE job.ep = 1 /\ job' = Endpoint(2, job.now)
    <3>1. /\ job'.pc = "page" /\ job'.ep = 2 /\ job'.now = job.now
          /\ job'.since = sync["issues"].last /\ job'.off = sync["issues"].off
      BY <2>5 DEF Endpoint, Endpoints, Idle
    <3> QED BY <1>1, <2>1, <2>4, <2>5, <3>1 DEF SlotInv
  <2>6. CASE /\ UpdateSave /\ ~(Len(job.page) < PageSize \/ job.off >= job.total)
             /\ job' = [job EXCEPT !.pc = "page", !.page = <<>>, !.total = 0]
    <3>1. /\ job'.pc = "page" /\ job'.ep = job.ep /\ job'.now = job.now
          /\ job'.since = job.since /\ job'.off = job.off
      BY <1>1, <2>6 DEF JobFields
    <3>2. job.pc = "save" /\ sync' = SaveWatermark(job.since, job.off)
      BY <2>6 DEF UpdateSave
    <3>3. CASE job.ep = 2
      <4>1. job.off < job.total
        BY <2>6, <3>2, <3>3, SaveFacts
      <4>2. Stands(vine, skeleton, excused, sync["issues"].last, job.off) /\ job.off \in Nat
        BY <3>2, <3>3, <4>1, SaveFacts
      <4>3. job.since = sync["issues"].last
        BY <1>1, <3>2, <3>3 DEF SlotInv
      <4>4. sync'["issues"].last = job.since
        <5>1. sync' = [sync EXCEPT !["issues"] = [last |-> job.since, off |-> job.off]]
          BY <3>2, <3>3 DEF SaveWatermark, Endpoints
        <5> QED BY <1>1, <5>1
      <4> QED BY <1>1, <2>1, <3>1, <3>3, <4>2, <4>3, <4>4 DEF SlotInv
    <3> QED BY <1>1, <1>vols, <2>1, <3>1, <3>3
  <2> QED BY <2>2, <2>3, <2>5, <2>6
<1>6. CASE UpdateCancelled \/ JobFails \/ Crash \/ ManageCover
  BY <1>idle, <1>6 DEF UpdateCancelled, JobFails, Crash, ManageCover, Idle
<1>7. ASSUME NEW mode \in {"Summary", "Complete"}, ManageBegin(mode) PROVE SlotInv'
  BY <1>idle, <1>7 DEF ManageBegin, Idle
<1>8. CASE ManageVolume \/ ManageList \/ ManageReplace \/ ManageDetail
  BY <1>1, <1>idle, <1>8 DEF ManageVolume, ManageList, ManageReplace, ManageDetail, JobFields
<1>9. CASE ManageQueue
  <2>1. \/ job' = Idle
        \/ job' = [Idle EXCEPT !.pc = "details", !.mode = job.mode, !.ids = job.ids]
    BY <1>9 DEF ManageQueue
  <2>2. "pc" \in DOMAIN Idle /\ Idle.pc = "idle"
    BY DEF Idle
  <2> QED BY <1>idle, <2>1, <2>2
<1>10. CASE AskStep
  <2>1. sync' = sync
    BY <1>10 DEF AskStep, Ask, Probe, RepageList, RepageRow, RepageIssues, AskFails
  <2> QED BY <1>10, <1>same, <2>1, AskMoves
<1>11. CASE Tick \/ UNCHANGED vars
  BY <1>11, <1>same DEF Tick, vars
<1> QED BY <1>2, <1>3, <1>4, <1>5, <1>6, <1>7, <1>8, <1>9, <1>10, <1>11 DEF RestStep, AskStep

LEMMA WatermarkKept == WatermarkInv /\ [Next]_vars => WatermarkInv'
<1> SUFFICES ASSUME WatermarkInv, [Next]_vars PROVE WatermarkInv'
  OBVIOUS
<1>1. CASE VineStep
  BY <1>1, WatermarkVine
<1>2. CASE RestStep
  <2>1. AnswerInv'
    BY AnswerKept DEF WatermarkInv
  <2>2. /\ vine' = vine /\ day \in Int /\ day' \in Int /\ day <= day'
        /\ VineInv /\ SortedInv
    BY <1>2, RestStands DEF WatermarkInv, AnswerInv, ShapeInv
  <2>3. \A n \in DOMAIN vine : vine[n].day \in Int
    <3>1. \A n \in DOMAIN vine : vine[n] \in Entries
      BY <2>2 DEF VineInv
    <3> QED BY <3>1, ConstantsAssumption DEF Entries, Days
  <2>4. SortedInv'
    BY <2>2, <2>3 DEF SortedInv, Sorted
  <2> QED BY <1>2, <2>1, <2>4, KnownStep, SyncStep, SlotStep DEF WatermarkInv
<1> QED BY <1>1, <1>2, StepCases

LEMMA InitWatermark == Init => WatermarkInv
<1> SUFFICES ASSUME Init PROVE WatermarkInv
  OBVIOUS
<1>1. AnswerInv /\ VineInv
  BY InitAnswer DEF AnswerInv, ShapeInv
<1>2. /\ day = 1 /\ \A n \in DOMAIN vine : vine[n].day = 0
      /\ vine \in Seq(Entries) /\ DOMAIN vine = 1..Len(vine) /\ Len(vine) \in Nat
      /\ sync = [ep \in {"volumes", "issues"} |-> [last |-> 0, off |-> 0]]
  <2>1. /\ day = 1 /\ \A n \in DOMAIN vine : vine[n].day = 0
        /\ sync = [ep \in {"volumes", "issues"} |-> [last |-> 0, off |-> 0]]
    BY DEF Init
  <2>2. vine \in Seq(Entries) /\ DOMAIN vine = 1..Len(vine) /\ Len(vine) \in Nat
    BY <1>1 DEF VineInv
  <2> QED BY <2>1, <2>2
<1>3. SortedInv
  BY <1>2 DEF SortedInv, Sorted
<1>4. /\ \A i \in Issues : Listed[i] \in Int /\ Absent <= Listed[i]
      /\ 1 \in Issues => NumberOnly <= Listed[1]
  <2>1. ListedRight /\ \A n \in DOMAIN vine : vine[n].ver \in Nat /\ vine[n].id \in Issues
    <3>1. \A n \in DOMAIN vine : vine[n] \in Entries
      BY <1>1 DEF VineInv
    <3> QED BY <1>1, <3>1, ListedFacts DEF Entries
  <2>2. 1 \in DOMAIN vine /\ vine[1].id = 1
    BY ConstantsAssumption DEF Init
  <2>3. ASSUME NEW i \in Issues PROVE Listed[i] \in Int /\ Absent <= Listed[i]
    <3>1. CASE \E n \in DOMAIN vine : vine[n].id = i
      BY <2>1, <3>1 DEF ListedRight, Absent
    <3>2. CASE \A n \in DOMAIN vine : vine[n].id # i
      BY <2>1, <3>2 DEF ListedRight, Absent
    <3> QED BY <3>1, <3>2
  <2> QED BY <2>1, <2>2, <2>3 DEF ListedRight, NumberOnly
<1>5. Known([i \in Issues |-> Absent], Listed)
  BY <1>4 DEF Known, Absent
<1>6. Known(skeleton, Listed)
  BY <1>4, <1>5 DEF Init, Known, Absent, NumberOnly
<1>7. job.pc = "idle" /\ \A c \in Callers : asked[c].list = [i \in Issues |-> Absent]
  BY DEF Init, Idle, NotAsked
<1>8. KnownInv
  BY <1>5, <1>6, <1>7 DEF KnownInv
<1>9. SyncInv
  <2>1. /\ DOMAIN sync = {"volumes", "issues"} /\ sync["issues"] = [last |-> 0, off |-> 0]
        /\ sync["issues"].last = 0 /\ sync["issues"].off = 0
    BY <1>2
  <2>2. IsCut(vine, 0, Cut(vine, 0))
    BY <1>2, <1>3, CutFacts DEF SortedInv
  <2>3. ASSUME NEW n \in DOMAIN vine PROVE ~(n <= Cut(vine, 0) + 0)
    <3>1. ~(n <= Cut(vine, 0)) /\ Cut(vine, 0) \in Nat
      BY <1>2, <2>2 DEF IsCut
    <3> QED BY <1>2, <3>1
  <2>4. Stands(vine, skeleton, excused, 0, 0)
    BY <2>3 DEF Stands, Inside, HeldTo
  <2> QED BY <1>2, <2>1, <2>4 DEF SyncInv
<1>10. SlotInv
  BY <1>7 DEF SlotInv
<1> QED BY <1>1, <1>3, <1>8, <1>9, <1>10 DEF WatermarkInv

\* The invariant of the watermark, for every number of issues, page size, cap,
\* day, change and stop, and whatever writes beside the update.
THEOREM WatermarkInvariant == Spec => []WatermarkInv
<1>1. Init => WatermarkInv
  BY InitWatermark
<1>2. WatermarkInv /\ [Next]_vars => WatermarkInv'
  BY WatermarkKept
<1> QED BY <1>1, <1>2, PTL DEF Spec

\* Every issue changed before the watermark is in the cache as it is, unless a
\* change moved it before an offset or a slower writer wrote over it.
THEOREM WatermarkIsCurrent == Spec => []BelowWatermarkIsCurrent
<1>1. WatermarkInv => BelowWatermarkIsCurrent
  <2> SUFFICES ASSUME WatermarkInv, NEW n \in DOMAIN vine, vine[n].day < sync["issues"].last
               PROVE  Held(skeleton, excused, vine[n])
    BY DEF BelowWatermarkIsCurrent, Held
  <2> DEFINE s == sync["issues"].last
  <2>1. /\ vine \in Seq(Entries) /\ Sorted(vine) /\ s \in Int /\ sync["issues"].off \in Nat
        /\ HeldTo(vine, skeleton, excused, Cut(vine, s) + sync["issues"].off)
    BY ReaderFacts DEF WatermarkInv, SortedInv, SyncInv, Stands, VineInv
  <2> HIDE DEF s
  <2>2. IsCut(vine, s, Cut(vine, s))
    BY <2>1, CutFacts
  <2>3. n <= Cut(vine, s) /\ Cut(vine, s) \in Nat /\ n \in Nat
    BY <2>1, <2>2 DEF IsCut, s
  <2>4. n <= Cut(vine, s) + sync["issues"].off
    BY <2>1, <2>3
  <2> QED BY <2>1, <2>4 DEF HeldTo
<1> QED BY <1>1, WatermarkInvariant, PTL
================================================================================

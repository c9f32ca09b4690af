--------------------------- MODULE PageWorkProofs ----------------------------
(***************************************************************************)
(* Theorems about LaneScheduler, for any number of jobs, lanes and slots,  *)
(* then about PageWork, which composes it with the page, for any jobs,     *)
(* tabs, slots and capacities.                                             *)
(***************************************************************************)
EXTENDS PageWork, SequenceTheorems, FiniteSetTheorems, TLAPS

(***************************************************************************)
(* Sequences without repetition.                                           *)
(***************************************************************************)

Once(s) == \A i, k \in DOMAIN s : s[i] = s[k] => i = k

\* s has its elements from t, in the order of t.
Keeps(s, t) == \A i, k \in DOMAIN s : i < k =>
  \E a, b \in DOMAIN t : a < b /\ s[i] = t[a] /\ s[k] = t[b]

\* What is left after the first m elements.
LEMMA Suffix ==
  ASSUME NEW S, NEW s \in Seq(S), NEW m \in 0..Len(s)
  PROVE  /\ SubSeq(s, m + 1, Len(s)) \in Seq(S)
         /\ Len(SubSeq(s, m + 1, Len(s))) = Len(s) - m
         /\ \A i \in 1..(Len(s) - m) : SubSeq(s, m + 1, Len(s))[i] = s[m + i]
<1> DEFINE d == SubSeq(s, m + 1, Len(s))
           n == Len(s)
<1>1. n \in Nat /\ m \in Nat /\ m <= n /\ DOMAIN s = 1..n OBVIOUS
<1>2. \A i \in (m + 1)..n : s[i] \in S BY <1>1
<1>3. /\ d \in Seq(S) /\ Len(d) = IF m + 1 <= n THEN n - (m + 1) + 1 ELSE 0
      /\ \A i \in 1..(n - (m + 1) + 1) : d[i] = s[m + 1 + i - 1]
  BY <1>1, <1>2, SubSeqProperties
<1> HIDE DEF d, n
<1>4. n - (m + 1) + 1 = n - m /\ \A i \in Int : m + 1 + i - 1 = m + i BY <1>1
<1>5. Len(d) = n - m
  <2>1. Len(d) = IF m + 1 <= n THEN n - (m + 1) + 1 ELSE 0 BY <1>3
  <2>2. CASE m + 1 <= n BY <2>1, <2>2, <1>4
  <2>3. CASE ~(m + 1 <= n)
    <3>1. m = n BY <2>3, <1>1
    <3> QED BY <2>1, <2>3, <3>1, <1>1
  <2> QED BY <2>2, <2>3
<1>6. \A i \in 1..(n - m) : d[i] = s[m + i] BY <1>1, <1>3, <1>4
<1> QED BY <1>3, <1>5, <1>6 DEF d, n

\* Tail removes the first element.
LEMMA TailOnce ==
  ASSUME NEW S, NEW s \in Seq(S), s # <<>>, Once(s)
  PROVE  /\ Tail(s) \in Seq(S) /\ Once(Tail(s)) /\ Keeps(Tail(s), s)
         /\ s[1] \in S /\ s[1] \in ToSet(s)
         /\ \A x : x \in ToSet(Tail(s)) <=> x \in ToSet(s) /\ x # s[1]
<1>1. /\ Tail(s) \in Seq(S) /\ Len(s) \in Nat \ {0} /\ DOMAIN s = 1..Len(s)
      /\ Len(Tail(s)) = Len(s) - 1 /\ DOMAIN Tail(s) = 1..(Len(s) - 1)
      /\ \A i \in 1..(Len(s) - 1) : Tail(s)[i] = s[i + 1]
  OBVIOUS
<1>2. 1 \in DOMAIN s /\ s[1] \in S BY <1>1
<1>3. \A i \in 1..(Len(s) - 1) : i + 1 \in DOMAIN s /\ i + 1 # 1 BY <1>1
<1>4. Once(Tail(s)) BY <1>1, <1>3 DEF Once
<1>5. Keeps(Tail(s), s) BY <1>1, <1>3 DEF Keeps
<1>6. ASSUME NEW x, x \in ToSet(Tail(s)) PROVE x \in ToSet(s) /\ x # s[1]
  <2>1. PICK i \in 1..(Len(s) - 1) : x = s[i + 1] BY <1>1, <1>6 DEF ToSet
  <2> QED BY <2>1, <1>2, <1>3 DEF ToSet, Once
<1>7. ASSUME NEW x, x \in ToSet(s), x # s[1] PROVE x \in ToSet(Tail(s))
  <2>1. PICK i \in 1..Len(s) : x = s[i] BY <1>1, <1>7 DEF ToSet
  <2>2. i - 1 \in 1..(Len(s) - 1) /\ Tail(s)[i - 1] = s[i] BY <1>1, <1>7, <2>1
  <2> QED BY <1>1, <2>1, <2>2 DEF ToSet
<1> QED BY <1>1, <1>2, <1>4, <1>5, <1>6, <1>7 DEF ToSet

\* Append adds a last element.
LEMMA AppendOnce ==
  ASSUME NEW S, NEW s \in Seq(S), NEW e \in S, e \notin ToSet(s), Once(s)
  PROVE  /\ Append(s, e) \in Seq(S) /\ Once(Append(s, e))
         /\ \A x : x \in ToSet(Append(s, e)) <=> x \in ToSet(s) \/ x = e
<1>1. /\ Append(s, e) \in Seq(S) /\ Len(s) \in Nat /\ DOMAIN s = 1..Len(s)
      /\ DOMAIN Append(s, e) = 1..(Len(s) + 1)
      /\ \A i \in 1..Len(s) : Append(s, e)[i] = s[i]
      /\ Append(s, e)[Len(s) + 1] = e
  OBVIOUS
<1>2. \A i \in 1..(Len(s) + 1) : i \in 1..Len(s) \/ i = Len(s) + 1 BY <1>1
<1>3. \A i \in 1..Len(s) : s[i] # e BY <1>1 DEF ToSet
<1>4. Once(Append(s, e)) BY <1>1, <1>2, <1>3 DEF Once
<1>5. ASSUME NEW x PROVE x \in ToSet(Append(s, e)) <=> x \in ToSet(s) \/ x = e
  <2>1. x \in ToSet(Append(s, e)) <=> \E i \in 1..(Len(s) + 1) : x = Append(s, e)[i]
    BY <1>1 DEF ToSet
  <2>2. x \in ToSet(s) <=> \E i \in 1..Len(s) : x = s[i] BY <1>1 DEF ToSet
  <2>3. Len(s) + 1 \in 1..(Len(s) + 1) /\ \A i \in 1..Len(s) : i \in 1..(Len(s) + 1) BY <1>1
  <2> QED BY <1>1, <1>2, <2>1, <2>2, <2>3
<1> QED BY <1>1, <1>4, <1>5

\* Without removes one element and keeps the order of the others.
LEMMA WithoutOnce ==
  ASSUME NEW S, NEW s \in Seq(S), NEW e \in ToSet(s), Once(s)
  PROVE  /\ Without(s, e) \in Seq(S) /\ Once(Without(s, e)) /\ Keeps(Without(s, e), s)
         /\ \A x : x \in ToSet(Without(s, e)) <=> x \in ToSet(s) /\ x # e
<1> DEFINE n == CHOOSE i \in DOMAIN s : s[i] = e
           W == Without(s, e)
<1>1. n \in DOMAIN s /\ s[n] = e BY DEF ToSet
<1>2. Len(s) \in Nat \ {0} /\ DOMAIN s = 1..Len(s) /\ n \in 1..Len(s) BY <1>1
<1>3. W = SubSeq(s, 1, n - 1) \o SubSeq(s, n + 1, Len(s)) BY DEF Without, RemoveAt
<1> HIDE DEF n, W
<1>4. /\ SubSeq(s, 1, n - 1) \in Seq(S) /\ Len(SubSeq(s, 1, n - 1)) = n - 1
      /\ \A i \in 1..(n - 1) : SubSeq(s, 1, n - 1)[i] = s[i]
  BY <1>2
<1>5. /\ SubSeq(s, n + 1, Len(s)) \in Seq(S) /\ Len(SubSeq(s, n + 1, Len(s))) = Len(s) - n
      /\ \A i \in 1..(Len(s) - n) : SubSeq(s, n + 1, Len(s))[i] = s[n + i]
  <2>1. n \in 0..Len(s) BY <1>2
  <2> QED BY <2>1, Suffix
<1>6. /\ W \in Seq(S) /\ Len(W) = Len(s) - 1 /\ DOMAIN W = 1..(Len(s) - 1)
      /\ \A i \in 1..(Len(s) - 1) : W[i] = IF i < n THEN s[i] ELSE s[i + 1]
  <2> DEFINE front == SubSeq(s, 1, n - 1)
             back == SubSeq(s, n + 1, Len(s))
  <2>1. W = front \o back /\ front \in Seq(S) /\ back \in Seq(S) BY <1>3, <1>4, <1>5
  <2>2. Len(front) = n - 1 /\ Len(back) = Len(s) - n BY <1>4, <1>5
  <2>3. \A i \in 1..(n - 1) : front[i] = s[i] BY <1>4
  <2>4. \A i \in 1..(Len(s) - n) : back[i] = s[n + i] BY <1>5
  <2> HIDE DEF front, back
  <2>5. W \in Seq(S) /\ Len(W) = Len(s) - 1 BY <2>1, <2>2, <1>2
  <2>6. ASSUME NEW i \in 1..(Len(s) - 1) PROVE W[i] = IF i < n THEN s[i] ELSE s[i + 1]
    <3>1. CASE i < n BY <3>1, <2>1, <2>2, <2>3, <1>2
    <3>2. CASE i >= n
      <4>1. W[i] = back[i - (n - 1)] BY <3>2, <2>1, <2>2, <1>2
      <4>2. i - (n - 1) \in 1..(Len(s) - n) BY <3>2, <1>2
      <4>3. n + (i - (n - 1)) = i + 1 BY <1>2
      <4> QED BY <4>1, <4>2, <4>3, <2>4, <3>2, <1>2
    <3> QED BY <3>1, <3>2, <1>2
  <2> QED BY <2>5, <2>6
<1> DEFINE old(i) == IF i < n THEN i ELSE i + 1
<1>7. /\ \A i \in DOMAIN W : old(i) \in DOMAIN s /\ old(i) # n /\ W[i] = s[old(i)]
      /\ \A i, k \in DOMAIN W : i < k <=> old(i) < old(k)
  BY <1>2, <1>6
<1>8. \A k \in DOMAIN s : k # n => \E i \in DOMAIN W : old(i) = k
  <2> SUFFICES ASSUME NEW k \in DOMAIN s, k # n PROVE \E i \in DOMAIN W : old(i) = k OBVIOUS
  <2>1. CASE k < n BY <2>1, <1>2, <1>6
  <2>2. CASE k > n
    <3>1. k - 1 \in DOMAIN W /\ old(k - 1) = k BY <2>2, <1>2, <1>6
    <3> QED BY <3>1
  <2> QED BY <2>1, <2>2, <1>2
<1>9. \A i, k \in DOMAIN W : old(i) = old(k) => i = k BY <1>2, <1>6
<1> HIDE DEF old
<1>10. Once(W) BY <1>7, <1>9 DEF Once
<1>11. Keeps(W, s) BY <1>7 DEF Keeps
<1>12. ASSUME NEW x, x \in ToSet(W) PROVE x \in ToSet(s) /\ x # e
  <2>1. PICK i \in DOMAIN W : x = W[i] BY <1>12 DEF ToSet
  <2> QED BY <2>1, <1>1, <1>7 DEF ToSet, Once
<1>13. ASSUME NEW x, x \in ToSet(s), x # e PROVE x \in ToSet(W)
  <2>1. PICK k \in DOMAIN s : x = s[k] BY <1>13 DEF ToSet
  <2>2. PICK i \in DOMAIN W : old(i) = k BY <2>1, <1>1, <1>8, <1>13
  <2> QED BY <2>1, <2>2, <1>7 DEF ToSet
<1> QED BY <1>6, <1>10, <1>11, <1>12, <1>13 DEF W

\* Dropping a prefix.
LEMMA DropOnce ==
  ASSUME NEW S, NEW s \in Seq(S), Once(s), NEW m \in 0..Len(s)
  PROVE  /\ SubSeq(s, m + 1, Len(s)) \in Seq(S) /\ Once(SubSeq(s, m + 1, Len(s)))
         /\ m = Len(s) => SubSeq(s, m + 1, Len(s)) = <<>>
         /\ \A i \in 1..Len(s) : i > m => s[i] \in ToSet(SubSeq(s, m + 1, Len(s)))
<1> DEFINE d == SubSeq(s, m + 1, Len(s))
<1>1. Len(s) \in Nat /\ DOMAIN s = 1..Len(s) /\ m \in Nat /\ m <= Len(s) OBVIOUS
<1>2. /\ d \in Seq(S) /\ Len(d) = Len(s) - m
      /\ \A i \in 1..(Len(s) - m) : d[i] = s[m + i]
  BY Suffix
<1> HIDE DEF d
<1>3. DOMAIN d = 1..(Len(s) - m) BY <1>2
<1>4. Once(d)
  <2> SUFFICES ASSUME NEW i \in DOMAIN d, NEW k \in DOMAIN d, d[i] = d[k] PROVE i = k BY DEF Once
  <2>1. m + i \in DOMAIN s /\ m + k \in DOMAIN s /\ s[m + i] = s[m + k] BY <1>1, <1>2, <1>3
  <2> QED BY <2>1, <1>1, <1>3 DEF Once
<1>5. m = Len(s) => d = <<>> BY <1>1, <1>2
<1>6. ASSUME NEW i \in 1..Len(s), i > m PROVE s[i] \in ToSet(d)
  <2>1. i - m \in DOMAIN d /\ d[i - m] = s[i] BY <1>1, <1>2, <1>3, <1>6
  <2> QED BY <2>1 DEF ToSet
<1> QED BY <1>2, <1>4, <1>5, <1>6 DEF d

(***************************************************************************)
(* What holds of the scheduler between its steps, of any queues, lanes,    *)
(* ready list, count, phases and choice of lanes, so that it can be said of *)
(* the state in which pump begins.                                         *)
(***************************************************************************)

Phases == {"new", "queued", "picked", "executing", "over"}
Busy   == {"picked", "executing"}

Agree(q, run, ph, lo) == \A l \in Lanes, j \in Jobs :
  /\ j \in ToSet(q[l]) <=> ph[j] = "queued" /\ lo[j] = l
  /\ run[l] = j <=> ph[j] \in Busy /\ lo[j] = l

Occupied(run) == {l \in Lanes : run[l] # NoJob}

Offered(q, run, rdy) == \A l \in Lanes : q[l] # <<>> => run[l] # NoJob \/ l \in ToSet(rdy)

Typed(q, run, rdy, act, ph, lo) ==
  /\ q \in [Lanes -> Seq(Jobs)] /\ run \in [Lanes -> Jobs \cup {NoJob}]
  /\ rdy \in Seq(Lanes) /\ ph \in [Jobs -> Phases] /\ lo \in [Jobs -> Lanes]
  /\ slots \in Nat /\ act \in 0..slots

Sound(q, run, rdy, act, ph, lo) ==
  /\ Typed(q, run, rdy, act, ph, lo)
  /\ Once(rdy) /\ \A l \in Lanes : Once(q[l])
  /\ Agree(q, run, ph, lo)
  /\ act = Cardinality(Occupied(run))
  /\ Offered(q, run, rdy)

LEMMA LanesFinite == IsFiniteSet(Lanes) /\ \A run : IsFiniteSet(Occupied(run))
<1>1. IsFiniteSet(Lanes) BY LaneAssumption, FS_AddElement DEF Lanes
<1>2. \A run : Occupied(run) \subseteq Lanes BY DEF Occupied
<1> QED BY <1>1, <1>2, FS_Subset

\* The lanes pump takes are started once each: as many as the entries it takes that can
\* start.
LEMMA PickedCount ==
  ASSUME NEW q, NEW run, NEW rdy \in Seq(Lanes), Once(rdy), NEW m \in 0..Len(rdy)
  PROVE  LET can == {i \in 1..m : Startable(q, run, rdy[i])} IN
         /\ Picked(q, run, rdy, m) \subseteq Lanes
         /\ IsFiniteSet(can) /\ IsFiniteSet(Picked(q, run, rdy, m))
         /\ Cardinality(Picked(q, run, rdy, m)) = Cardinality(can)
<1> DEFINE can == {i \in 1..m : Startable(q, run, rdy[i])}
           f == [i \in can |-> rdy[i]]
           P == Picked(q, run, rdy, m)
<1>1. P = {rdy[i] : i \in can} BY DEF Picked
<1>2. m \in Int /\ Len(rdy) \in Nat /\ DOMAIN rdy = 1..Len(rdy) /\ \A i \in can : i \in DOMAIN rdy
  OBVIOUS
<1>3. IsFiniteSet(can)
  <2>1. IsFiniteSet(1..m) /\ can \subseteq 1..m BY <1>2, FS_Interval
  <2> QED BY <2>1, FS_Subset
<1>4. P \subseteq Lanes BY <1>1, <1>2
<1>5. \A i, k \in can : rdy[i] = rdy[k] => i = k BY <1>2 DEF Once
<1> HIDE DEF can, P
<1>6. f \in Bijection(can, P)
  <2>1. f \in [can -> P] BY <1>1
  <2>2. \A i, k \in can : f[i] = f[k] => i = k BY <1>5
  <2>3. \A t \in P : \E i \in can : f[i] = t BY <1>1
  <2> QED BY <2>1, <2>2, <2>3 DEF Bijection, Injection, Surjection, IsInjective
<1>7. ExistsBijection(can, P) BY <1>6 DEF ExistsBijection
<1> QED BY <1>3, <1>4, <1>7, FS_Bijection DEF can, P

\* What a pump from these queues and phases leads to.
Advance(q, run, act, ph, lo) ==
  /\ Sound(queue', running', ready', active', phase', lo)
  /\ active' < slots => ready' = <<>>
  /\ \A l \in Lanes : Keeps(queue'[l], q[l])
  /\ \A j \in Jobs : phase'[j] # ph[j] =>
       /\ phase'[j] = "picked" /\ ph[j] = "queued" /\ act < slots
       /\ run[lo[j]] = NoJob /\ q[lo[j]] # <<>> /\ q[lo[j]][1] = j

\* pump keeps the scheduler sound, empties the ready list unless every slot is taken, and
\* starts waiting jobs only, the first of their lanes.
LEMMA PumpKeeps ==
  ASSUME NEW q, NEW run, NEW rdy, NEW act, NEW ph, NEW lo,
         Sound(q, run, rdy, act, ph, lo), Pump(q, run, rdy, act, ph)
  PROVE  Advance(q, run, act, ph, lo)
<1> USE DEF Sound, Typed
<1>1. PICK m \in 0..Len(rdy) :
        /\ Takes(q, run, rdy, slots - act, m)
        /\ queue' = [l \in Lanes |-> IF l \in Picked(q, run, rdy, m) THEN Tail(q[l]) ELSE q[l]]
        /\ running' = [l \in Lanes |-> IF l \in Picked(q, run, rdy, m) THEN NextOf(q[l]) ELSE run[l]]
        /\ active' = act + Cardinality(Picked(q, run, rdy, m))
        /\ phase' = [j \in Jobs |-> IF j \in {NextOf(q[l]) : l \in Picked(q, run, rdy, m)}
                                    THEN "picked" ELSE ph[j]]
        /\ ready' = SubSeq(rdy, m + 1, Len(rdy))
  BY DEF Pump
<1> DEFINE P == Picked(q, run, rdy, m)
           can(n) == {i \in 1..n : Startable(q, run, rdy[i])}
<1>2. /\ P \subseteq Lanes /\ IsFiniteSet(P) /\ IsFiniteSet(can(m))
      /\ Cardinality(P) = Cardinality(can(m))
  <2>1. rdy \in Seq(Lanes) /\ Once(rdy) OBVIOUS
  <2> HIDE DEF Sound, Typed
  <2> QED BY <2>1, PickedCount
<1>3. Cardinality(P) \in Nat /\ Cardinality(P) <= slots - act
  BY <1>1, <1>2, FS_CardinalityType DEF Takes
<1>4. m < Len(rdy) => Cardinality(P) = slots - act BY <1>1, <1>2 DEF Takes
<1>5. \A l \in P : run[l] = NoJob /\ q[l] # <<>> BY DEF Picked, Startable
<1>6. \A l \in Lanes : q[l] # <<>> /\ run[l] = NoJob => l \in P \/ l \in ToSet(ready')
  <2> SUFFICES ASSUME NEW l \in Lanes, q[l] # <<>>, run[l] = NoJob, l \notin P
               PROVE  l \in ToSet(ready')
    OBVIOUS
  <2>1. PICK i \in 1..Len(rdy) : rdy[i] = l BY DEF Offered, ToSet
  <2>2. i > m
    <3> SUFFICES ASSUME i <= m PROVE FALSE BY <2>1
    <3>1. i \in 1..m BY <2>1
    <3> QED BY <2>1, <3>1 DEF Picked, Startable
  <2> QED BY <1>1, <2>1, <2>2, DropOnce
<1>7. ready' \in Seq(Lanes) /\ Once(ready') /\ (m = Len(rdy) => ready' = <<>>)
  BY <1>1, DropOnce
<1> HIDE DEF P, can
<1>8. \A l \in P : /\ Tail(q[l]) \in Seq(Jobs) /\ Once(Tail(q[l])) /\ Keeps(Tail(q[l]), q[l])
                   /\ NextOf(q[l]) \in Jobs /\ NextOf(q[l]) \in ToSet(q[l])
                   /\ \A j : j \in ToSet(Tail(q[l])) <=> j \in ToSet(q[l]) /\ j # NextOf(q[l])
  <2> SUFFICES ASSUME NEW l \in P
               PROVE  /\ Tail(q[l]) \in Seq(Jobs) /\ Once(Tail(q[l])) /\ Keeps(Tail(q[l]), q[l])
                      /\ NextOf(q[l]) \in Jobs /\ NextOf(q[l]) \in ToSet(q[l])
                      /\ \A j : j \in ToSet(Tail(q[l])) <=> j \in ToSet(q[l]) /\ j # NextOf(q[l])
    OBVIOUS
  <2>1. q[l] \in Seq(Jobs) /\ q[l] # <<>> /\ Once(q[l]) BY <1>2, <1>5
  <2> QED BY <2>1, TailOnce DEF NextOf
<1>9. \A l \in P : ph[NextOf(q[l])] = "queued" /\ lo[NextOf(q[l])] = l
  BY <1>2, <1>8 DEF Agree
<1>10. \A j \in Jobs : \/ phase'[j] = "picked" /\ ph[j] = "queued" /\ lo[j] \in P /\ NextOf(q[lo[j]]) = j
                       \/ phase'[j] = ph[j] /\ ~(lo[j] \in P /\ NextOf(q[lo[j]]) = j)
  <2> SUFFICES ASSUME NEW j \in Jobs
               PROVE  \/ phase'[j] = "picked" /\ ph[j] = "queued" /\ lo[j] \in P /\ NextOf(q[lo[j]]) = j
                      \/ phase'[j] = ph[j] /\ ~(lo[j] \in P /\ NextOf(q[lo[j]]) = j)
    OBVIOUS
  <2>1. CASE j \in {NextOf(q[l]) : l \in P}
    <3>1. phase'[j] = "picked" BY <1>1, <2>1 DEF P
    <3> QED BY <3>1, <2>1, <1>9
  <2>2. CASE j \notin {NextOf(q[l]) : l \in P}
    <3>1. phase'[j] = ph[j] BY <1>1, <2>2 DEF P
    <3> QED BY <3>1, <2>2
  <2> QED BY <2>1, <2>2
<1>11. Typed(queue', running', ready', active', phase', lo)
  <2>1. queue' \in [Lanes -> Seq(Jobs)] BY <1>1, <1>8 DEF P
  <2>2. running' \in [Lanes -> Jobs \cup {NoJob}] BY <1>1, <1>8 DEF P
  <2>3. phase' \in [Jobs -> Phases] BY <1>1 DEF Phases
  <2>4. active' \in 0..slots
    <3>1. active' = act + Cardinality(P) BY <1>1 DEF P
    <3> QED BY <3>1, <1>3
  <2>5. slots \in Nat /\ lo \in [Jobs -> Lanes] OBVIOUS
  <2> QED BY <2>1, <2>2, <2>3, <2>4, <2>5, <1>7
<1>12. \A l \in Lanes : Once(queue'[l]) /\ Keeps(queue'[l], q[l])
  <2> SUFFICES ASSUME NEW l \in Lanes PROVE Once(queue'[l]) /\ Keeps(queue'[l], q[l]) OBVIOUS
  <2>1. CASE l \in P
    <3>1. queue'[l] = Tail(q[l]) BY <1>1, <2>1 DEF P
    <3> QED BY <3>1, <1>8, <2>1
  <2>2. CASE l \notin P
    <3>1. queue'[l] = q[l] BY <1>1, <2>2 DEF P
    <3> QED BY <3>1 DEF Keeps
  <2> QED BY <2>1, <2>2
<1>13. Agree(queue', running', phase', lo)
  <2> SUFFICES ASSUME NEW l \in Lanes, NEW j \in Jobs
               PROVE  /\ j \in ToSet(queue'[l]) <=> phase'[j] = "queued" /\ lo[j] = l
                      /\ running'[l] = j <=> phase'[j] \in Busy /\ lo[j] = l
    BY DEF Agree
  <2>1. /\ j \in ToSet(q[l]) <=> ph[j] = "queued" /\ lo[j] = l
        /\ run[l] = j <=> ph[j] \in Busy /\ lo[j] = l
    BY DEF Agree
  <2>2. CASE l \in P
    <3>1. queue'[l] = Tail(q[l]) /\ running'[l] = NextOf(q[l]) /\ run[l] = NoJob
      BY <1>1, <1>5, <2>2 DEF P
    <3>2. /\ NextOf(q[l]) \in Jobs /\ lo[NextOf(q[l])] = l
          /\ j \in ToSet(queue'[l]) <=> j \in ToSet(q[l]) /\ j # NextOf(q[l])
      BY <1>8, <1>9, <2>2, <3>1
    <3>3. NoJob # j BY LaneAssumption
    <3> QED BY <1>10, <2>1, <2>2, <3>1, <3>2, <3>3 DEF Busy
  <2>3. CASE l \notin P
    <3>1. queue'[l] = q[l] /\ running'[l] = run[l] BY <1>1, <2>3 DEF P
    <3>2. lo[j] = l => phase'[j] = ph[j] BY <1>10, <2>3
    <3> QED BY <2>1, <3>1, <3>2
  <2> QED BY <2>2, <2>3
<1>14. active' = Cardinality(Occupied(running'))
  <2>1. Occupied(running') = Occupied(run) \cup P /\ Occupied(run) \cap P = {}
    <3>1. \A l \in P : NextOf(q[l]) # NoJob BY <1>8, LaneAssumption
    <3> QED BY <1>1, <1>2, <1>5, <3>1 DEF Occupied, P
  <2>2. Cardinality(Occupied(run) \cap P) = 0 BY <2>1, FS_EmptySet
  <2>3. Cardinality(Occupied(run) \cup P)
          = Cardinality(Occupied(run)) + Cardinality(P) - Cardinality(Occupied(run) \cap P)
    BY <1>2, LanesFinite, FS_Union
  <2>4. active' = act + Cardinality(P) BY <1>1 DEF P
  <2>5. act \in Nat /\ act = Cardinality(Occupied(run)) OBVIOUS
  <2> QED BY <2>1, <2>2, <2>3, <2>4, <2>5, <1>3
<1>15. Offered(queue', running', ready')
  <2> SUFFICES ASSUME NEW l \in Lanes, queue'[l] # <<>>
               PROVE  running'[l] # NoJob \/ l \in ToSet(ready')
    BY DEF Offered
  <2>1. CASE l \in P
    <3>1. running'[l] = NextOf(q[l]) BY <1>1, <2>1 DEF P
    <3> QED BY <3>1, <1>8, <2>1, LaneAssumption
  <2>2. CASE l \notin P
    <3>1. queue'[l] = q[l] /\ running'[l] = run[l] BY <1>1, <2>2 DEF P
    <3> QED BY <3>1, <2>2, <1>6
  <2> QED BY <2>1, <2>2
<1>16. active' < slots => ready' = <<>>
  <2>1. active' = act + Cardinality(P) /\ act \in Nat /\ slots \in Nat BY <1>1 DEF P
  <2>2. active' < slots => m = Len(rdy) BY <2>1, <1>3, <1>4
  <2> QED BY <2>2, <1>7
<1>17. \A l \in P : act < slots
  <2>1. P # {} => Cardinality(P) # 0 BY <1>2, FS_EmptySet
  <2> QED BY <2>1, <1>3
<1>18. \A j \in Jobs : phase'[j] # ph[j] =>
         /\ phase'[j] = "picked" /\ ph[j] = "queued" /\ act < slots
         /\ run[lo[j]] = NoJob /\ q[lo[j]] # <<>> /\ q[lo[j]][1] = j
  BY <1>5, <1>10, <1>17 DEF NextOf
<1> QED BY <1>7, <1>11, <1>12, <1>13, <1>14, <1>15, <1>16, <1>18 DEF Advance

(***************************************************************************)
(* The steps.                                                              *)
(***************************************************************************)

Now == Sound(queue, running, ready, active, phase, laneOf)

\* A lane added to the ready list is there once.
LEMMA WithLaneOnce ==
  ASSUME NEW rdy \in Seq(Lanes), Once(rdy), NEW l \in Lanes
  PROVE  /\ WithLane(rdy, l) \in Seq(Lanes) /\ Once(WithLane(rdy, l))
         /\ l \in ToSet(WithLane(rdy, l)) /\ ToSet(rdy) \subseteq ToSet(WithLane(rdy, l))
<1>1. CASE l \in ToSet(rdy) BY <1>1 DEF WithLane
<1>2. CASE l \notin ToSet(rdy)
  <2>1. /\ Append(rdy, l) \in Seq(Lanes) /\ Once(Append(rdy, l))
        /\ \A x : x \in ToSet(Append(rdy, l)) <=> x \in ToSet(rdy) \/ x = l
    BY <1>2, AppendOnce
  <2> QED BY <1>2, <2>1 DEF WithLane
<1> QED BY <1>1, <1>2

\* finish of a job that occupies its lane or has been taken from its queue.
LEMMA FinishKeeps ==
  ASSUME Now, NEW j \in Jobs, NEW q \in [Lanes -> Seq(Jobs)], Finish(j, q),
         phase[j] \in Busy \cup {"queued"},
         \A l \in Lanes : Once(q[l]) /\ Keeps(q[l], queue[l]),
         \A l \in Lanes : l # laneOf[j] => q[l] = queue[l],
         \A l \in Lanes, k \in Jobs : k \in ToSet(q[l]) <=> k \in ToSet(queue[l]) /\ k # j
  PROVE  LET mine == running[laneOf[j]] = j IN
         Advance(q, IF mine THEN [running EXCEPT ![laneOf[j]] = NoJob] ELSE running,
                 IF mine THEN active - 1 ELSE active, [phase EXCEPT ![j] = "over"], laneOf)
<1> USE DEF Now, Sound, Typed
<1> DEFINE l == laneOf[j]
           mine == running[l] = j
           run == IF mine THEN [running EXCEPT ![l] = NoJob] ELSE running
           rdy == IF q[l] # <<>> THEN WithLane(ready, l) ELSE ready
           act == IF mine THEN active - 1 ELSE active
           ph == [phase EXCEPT ![j] = "over"]
<1>1. Pump(q, run, rdy, act, ph) BY DEF Finish
<1>2. l \in Lanes /\ NoJob \notin Jobs BY LaneAssumption
<1>3. /\ rdy \in Seq(Lanes) /\ Once(rdy) /\ ToSet(ready) \subseteq ToSet(rdy)
      /\ q[l] # <<>> => l \in ToSet(rdy)
  BY <1>2, WithLaneOnce
<1>4. Occupied(run) = IF mine THEN Occupied(running) \ {l} ELSE Occupied(running)
  BY <1>2 DEF Occupied
<1>5. act \in 0..slots /\ act = Cardinality(Occupied(run))
  <2>1. CASE mine
    <3>1. l \in Occupied(running) BY <2>1, <1>2 DEF Occupied
    <3>2. Cardinality(Occupied(running) \ {l}) = active - 1
      BY <3>1, LanesFinite, FS_RemoveElement
    <3>3. Cardinality(Occupied(running) \ {l}) \in Nat
      BY LanesFinite, FS_RemoveElement, FS_CardinalityType
    <3>4. Occupied(run) = Occupied(running) \ {l} BY <2>1, <1>4
    <3>5. act = active - 1 BY <2>1
    <3> HIDE DEF run, act
    <3> QED BY <3>2, <3>3, <3>4, <3>5
  <2>2. CASE ~mine BY <2>2, <1>4
  <2> QED BY <2>1, <2>2
<1>6. run \in [Lanes -> Jobs \cup {NoJob}] /\ ph \in [Jobs -> Phases] BY DEF Phases
<1> HIDE DEF rdy, act
<1>7. Agree(q, run, ph, laneOf)
  <2> SUFFICES ASSUME NEW m \in Lanes, NEW k \in Jobs
               PROVE  /\ k \in ToSet(q[m]) <=> ph[k] = "queued" /\ laneOf[k] = m
                      /\ run[m] = k <=> ph[k] \in Busy /\ laneOf[k] = m
    BY DEF Agree
  <2>1. /\ k \in ToSet(queue[m]) <=> phase[k] = "queued" /\ laneOf[k] = m
        /\ running[m] = k <=> phase[k] \in Busy /\ laneOf[k] = m
        /\ running[l] = j <=> phase[j] \in Busy /\ laneOf[j] = l
    BY DEF Agree
  <2>2. CASE k = j
    <3>1. ph[k] = "over" BY <2>2
    <3>2. run[m] # j
      <4>1. CASE m = l BY <4>1, <1>2
      <4>2. CASE m # l BY <4>2, <2>1, <2>2
      <4> QED BY <4>1, <4>2
    <3> QED BY <2>2, <3>1, <3>2 DEF Busy
  <2>3. CASE k # j
    <3>1. ph[k] = phase[k] BY <2>3
    <3>2. run[m] = k <=> running[m] = k BY <2>3, <1>2
    <3> QED BY <2>1, <2>3, <3>1, <3>2
  <2> QED BY <2>2, <2>3
<1>8. Offered(q, run, rdy)
  <2> SUFFICES ASSUME NEW m \in Lanes, q[m] # <<>> PROVE run[m] # NoJob \/ m \in ToSet(rdy)
    BY DEF Offered
  <2>1. CASE m = l BY <2>1, <1>3
  <2>2. CASE m # l BY <2>2, <1>3 DEF Offered
  <2> QED BY <2>1, <2>2
<1> HIDE DEF run, ph
<1>9. Sound(q, run, rdy, act, ph, laneOf) BY <1>3, <1>5, <1>6, <1>7, <1>8
<1>10. Advance(q, run, act, ph, laneOf)
  <2> HIDE DEF Now, Sound, Typed
  <2> QED BY <1>1, <1>9, PumpKeeps
<1> QED BY <1>10 DEF run, act, ph

(***************************************************************************)
(* The invariant, with the scheduler's part in the form of the lemmas.     *)
(***************************************************************************)

Surroundings ==
  /\ tabOf \in [Jobs -> Tabs \cup {NoTab}] /\ aborted \subseteq Jobs /\ arrived \in Seq(Jobs)
  /\ slots \in 1..Concurrency /\ tabs \subseteq Tabs /\ opener \in [Tabs -> Jobs \cup {NoJob}]

Whole ==
  /\ Now /\ Surroundings /\ QueuesKeepOrder
  /\ active < slots => ready = <<>>
  /\ Cardinality(Known) <= Capacity

LEMMA WholeSuffices == Whole => LaneIInv /\ SlotsAreUsed
<1> SUFFICES ASSUME Whole PROVE LaneIInv /\ SlotsAreUsed OBVIOUS
<1> USE DEF Whole, Now, Sound, Typed
<1>1. TypeOK BY DEF Surroundings, TypeOK, Phases
<1>2. JobsAccounted BY DEF Agree, Once, JobsAccounted, Busy
<1>3. SlotsMatchLanes BY DEF SlotsMatchLanes, Occupied
<1>4. NoLaneStranded BY DEF NoLaneStranded, Offered
<1>5. SlotsAreUsed
  <2> SUFFICES ASSUME active < slots, NEW l \in Lanes, Startable(queue, running, l) PROVE FALSE
    BY DEF SlotsAreUsed
  <2>1. l \notin ToSet(ready) BY DEF ToSet
  <2> QED BY <2>1 DEF Offered, Startable
<1> QED BY <1>1, <1>2, <1>3, <1>4, <1>5 DEF LaneIInv, LaneInv

\* At first no lane exists and no job is known.
LEMMA InitWhole == Init => Whole
<1> SUFFICES ASSUME Init PROVE Whole OBVIOUS
<1> USE DEF Init, Lanes
<1>1. Typed(queue, running, ready, active, phase, laneOf)
  <2>1. slots \in Nat /\ active \in 0..slots BY LaneAssumption
  <2>2. ready \in Seq(Lanes) /\ queue \in [Lanes -> Seq(Jobs)] OBVIOUS
  <2> QED BY <2>1, <2>2 DEF Typed, Phases
<1>2. Once(ready) /\ \A l \in Lanes : Once(queue[l]) BY DEF Once
<1>3. Agree(queue, running, phase, laneOf) BY LaneAssumption DEF Agree, Busy, ToSet
<1>4. active = Cardinality(Occupied(running)) BY FS_EmptySet DEF Occupied
<1>5. Offered(queue, running, ready) BY DEF Offered
<1>6. Surroundings BY LaneAssumption DEF Surroundings
<1>7. QueuesKeepOrder BY DEF QueuesKeepOrder
<1>8. Cardinality(Known) <= Capacity
  <2>1. Known = {} BY DEF Known
  <2> QED BY <2>1, FS_EmptySet, LaneAssumption
<1> QED BY <1>1, <1>2, <1>3, <1>4, <1>5, <1>6, <1>7, <1>8 DEF Whole, Now, Sound

\* A step that accepts no job leaves no more known.
LEMMA KnownKept ==
  ASSUME Cardinality(Known) <= Capacity,
         \A k \in Jobs : phase'[k] \in Busy \cup {"queued"} => phase[k] \in Busy \cup {"queued"}
  PROVE  Cardinality(Known') <= Capacity
<1>1. Known' \subseteq Known /\ Known \subseteq Jobs BY DEF Known, Busy
<1>2. IsFiniteSet(Known) BY <1>1, LaneAssumption, FS_Subset
<1>3. /\ Cardinality(Known') <= Cardinality(Known)
      /\ Cardinality(Known') \in Nat /\ Cardinality(Known) \in Nat /\ Capacity \in Nat
  BY <1>1, <1>2, FS_Subset, FS_CardinalityType, LaneAssumption
<1> QED BY <1>3

\* A step that accepts no job and reorders no queue keeps the order.
LEMMA OrderKept ==
  ASSUME Whole, arrived' = arrived,
         \A l \in Lanes : Keeps(queue'[l], queue[l]),
         \A k \in Jobs : phase'[k] = "new" => phase[k] = "new"
  PROVE  QueuesKeepOrder'
<1>1. \A i \in DOMAIN arrived' : phase'[arrived'[i]] # "new"
  BY DEF Whole, QueuesKeepOrder, Surroundings
<1>2. \A j, k : Before(j, k)' <=> Before(j, k) BY DEF Before
<1>3. ASSUME NEW l \in Lanes, NEW i \in DOMAIN queue'[l], NEW k \in DOMAIN queue'[l], i < k
      PROVE  ~Before(queue'[l][k], queue'[l][i])
  <2>1. PICK a, b \in DOMAIN queue[l] : a < b /\ queue'[l][i] = queue[l][a] /\ queue'[l][k] = queue[l][b]
    BY <1>3 DEF Keeps
  <2> QED BY <2>1 DEF Whole, QueuesKeepOrder
<1> QED BY <1>1, <1>2, <1>3 DEF Whole, QueuesKeepOrder

\* The first of a lane was accepted before everything else that waits there.
LEMMA HeadFirst ==
  ASSUME Whole, NEW k \in Jobs, phase[k] = "queued"
  PROVE  ~Before(k, queue[laneOf[k]][1]) /\ queue[laneOf[k]] # <<>>
<1> DEFINE s == queue[laneOf[k]]
<1>1. laneOf[k] \in Lanes /\ s \in Seq(Jobs) /\ k \in ToSet(s)
  BY DEF Whole, Now, Sound, Typed, Agree
<1>2. PICK i \in DOMAIN s : s[i] = k BY <1>1 DEF ToSet
<1>3. i \in 1..Len(s) /\ Len(s) \in Nat /\ 1 \in DOMAIN s BY <1>1, <1>2
<1>4. CASE i = 1
  <2> SUFFICES ASSUME Before(k, k) PROVE FALSE BY <1>2, <1>3, <1>4
  <2>1. PICK a, b \in DOMAIN arrived : a < b /\ arrived[a] = k /\ arrived[b] = k BY DEF Before
  <2>2. a = b BY <2>1 DEF Whole, QueuesKeepOrder
  <2> QED BY <2>1, <2>2 DEF Whole, Surroundings
<1>5. CASE i > 1 BY <1>1, <1>2, <1>3, <1>5 DEF Whole, QueuesKeepOrder
<1> QED BY <1>3, <1>4, <1>5

\* The action property of StartsInOrder.
Ordered == \A j \in Jobs : phase[j] # "picked" /\ phase'[j] = "picked" =>
  \A k \in Jobs : phase[k] = "queued" /\ laneOf[k] = laneOf'[j] => ~Before(k, j)

\* No job begins to execute: jobs end, waiting ones are picked and j may be accepted.
NoneBegins(j) == \A k \in Jobs : phase'[k] # phase[k] =>
  \/ phase'[k] = "over" /\ phase[k] # "over" /\ k = j
  \/ phase'[k] \in {"queued", "picked"} /\ (phase[k] = "queued" \/ (k = j /\ phase[k] = "new"))

(***************************************************************************)
(* Each step.                                                              *)
(***************************************************************************)

\* A job that ends without a place in the scheduler, begins to execute, or opens its tab,
\* moves nothing in it.
LEMMA Untouched ==
  ASSUME Whole, UNCHANGED <<slots, laneOf, sched, arrived>>, Surroundings', NEW j \in Jobs,
         \/ phase' = phase
         \/ phase[j] = "new" /\ phase' = [phase EXCEPT ![j] = "over"]
         \/ phase[j] = "picked" /\ phase' = [phase EXCEPT ![j] = "executing"]
  PROVE  Whole' /\ Ordered
<1> USE DEF Whole, Now, Sound, Typed, sched
<1>1. phase' \in [Jobs -> Phases] BY DEF Phases
<1>2. Agree(queue', running', phase', laneOf') BY DEF Agree, Busy
<1>3. Now'
  <2>1. Typed(queue', running', ready', active', phase', laneOf') BY <1>1
  <2>2. Once(ready') /\ \A l \in Lanes : Once(queue'[l]) OBVIOUS
  <2>3. active' = Cardinality(Occupied(running')) /\ Offered(queue', running', ready') OBVIOUS
  <2> QED BY <1>2, <2>1, <2>2, <2>3
<1>4. QueuesKeepOrder'
  <2>1. \A l \in Lanes : Keeps(queue'[l], queue[l]) BY DEF Keeps
  <2> QED BY <2>1, OrderKept
<1>5. Cardinality(Known') <= Capacity
  <2>1. \A k \in Jobs : phase'[k] \in Busy \cup {"queued"} => phase[k] \in Busy \cup {"queued"}
    BY DEF Busy
  <2> QED BY <2>1, KnownKept
<1>6. active' < slots' => ready' = <<>> OBVIOUS
<1>7. Ordered BY DEF Ordered
<1> QED BY <1>3, <1>4, <1>5, <1>6, <1>7

\* A finish that picks starts the first of a lane; it cannot when its job was waiting.
LEMMA Finished ==
  ASSUME Whole, UNCHANGED <<slots, laneOf, arrived>>, Surroundings', NEW j \in Jobs,
         NEW q \in [Lanes -> Seq(Jobs)], Finish(j, q),
         \/ phase[j] \in Busy /\ q = queue
         \/ phase[j] = "queued" /\ q = [queue EXCEPT ![laneOf[j]] = Without(@, j)]
  PROVE  Whole' /\ Ordered /\ NoneBegins(j) /\ phase'[j] = "over"
<1> USE DEF Whole
<1> DEFINE l == laneOf[j]
           mine == running[l] = j
           run == IF mine THEN [running EXCEPT ![l] = NoJob] ELSE running
           act == IF mine THEN active - 1 ELSE active
           ph == [phase EXCEPT ![j] = "over"]
<1>1. /\ l \in Lanes /\ \A m \in Lanes : queue[m] \in Seq(Jobs) /\ Once(queue[m])
      /\ j \in ToSet(queue[l]) <=> phase[j] = "queued"
      /\ mine <=> phase[j] \in Busy
      /\ \A m \in Lanes : j \in ToSet(queue[m]) <=> phase[j] = "queued" /\ m = l
      /\ phase \in [Jobs -> Phases]
  BY DEF Now, Sound, Typed, Agree
<1>2. /\ \A m \in Lanes : Once(q[m]) /\ Keeps(q[m], queue[m])
      /\ \A m \in Lanes : m # l => q[m] = queue[m]
      /\ \A m \in Lanes, k \in Jobs : k \in ToSet(q[m]) <=> k \in ToSet(queue[m]) /\ k # j
  <2>1. CASE phase[j] \in Busy /\ q = queue
    <3>1. \A m \in Lanes : j \notin ToSet(queue[m]) BY <1>1, <2>1 DEF Busy
    <3> QED BY <1>1, <2>1, <3>1 DEF Keeps
  <2>2. CASE phase[j] = "queued" /\ q = [queue EXCEPT ![l] = Without(@, j)]
    <3>1. /\ q[l] = Without(queue[l], j) /\ \A m \in Lanes : m # l => q[m] = queue[m]
      BY <1>1, <2>2 DEF Now, Sound, Typed
    <3>2. /\ Once(q[l]) /\ Keeps(q[l], queue[l])
          /\ \A k : k \in ToSet(q[l]) <=> k \in ToSet(queue[l]) /\ k # j
      <4>1. queue[l] \in Seq(Jobs) /\ j \in ToSet(queue[l]) /\ Once(queue[l]) BY <1>1, <2>2
      <4> QED BY <3>1, <4>1, WithoutOnce
    <3>3. \A m \in Lanes : m # l => Once(q[m]) /\ Keeps(q[m], queue[m]) /\ j \notin ToSet(queue[m])
      BY <1>1, <3>1 DEF Keeps
    <3> QED BY <3>1, <3>2, <3>3
  <2> QED BY <2>1, <2>2
<1>3. Advance(q, run, act, ph, laneOf)
  <2>1. phase[j] \in Busy \cup {"queued"} OBVIOUS
  <2> QED BY <1>2, <2>1, FinishKeeps
<1> HIDE DEF run, act
<1>4. ph[j] = "over" /\ \A k \in Jobs : k # j => ph[k] = phase[k] BY <1>1
<1> HIDE DEF ph
<1>5. /\ Now' /\ (active' < slots' => ready' = <<>>)
      /\ \A m \in Lanes : Keeps(queue'[m], q[m])
      /\ \A k \in Jobs : phase'[k] # ph[k] =>
           /\ phase'[k] = "picked" /\ ph[k] = "queued" /\ act < slots
           /\ run[laneOf[k]] = NoJob /\ q[laneOf[k]] # <<>> /\ q[laneOf[k]][1] = k
  <2>1. Sound(queue', running', ready', active', phase', laneOf) BY <1>3 DEF Advance
  <2>2. Now' BY <2>1 DEF Now, Sound, Typed, Agree
  <2> QED BY <1>3, <2>2 DEF Advance
<1>6. \A m \in Lanes : Keeps(queue'[m], queue[m])
  <2> SUFFICES ASSUME NEW m \in Lanes, NEW i \in DOMAIN queue'[m], NEW k \in DOMAIN queue'[m], i < k
               PROVE  \E a, b \in DOMAIN queue[m] :
                        a < b /\ queue'[m][i] = queue[m][a] /\ queue'[m][k] = queue[m][b]
    BY DEF Keeps
  <2>1. PICK a, b \in DOMAIN q[m] : a < b /\ queue'[m][i] = q[m][a] /\ queue'[m][k] = q[m][b]
    BY <1>5 DEF Keeps
  <2> QED BY <1>2, <2>1 DEF Keeps
<1>7. \A k \in Jobs : phase'[k] # phase[k] =>
        \/ k = j /\ phase'[k] = "over"
        \/ phase'[k] = "picked" /\ phase[k] = "queued" /\ k # j
  BY <1>4, <1>5
<1>8. QueuesKeepOrder'
  <2>1. \A k \in Jobs : phase'[k] = "new" => phase[k] = "new" BY <1>7
  <2> QED BY <1>6, <2>1, OrderKept
<1>9. Cardinality(Known') <= Capacity
  <2>1. \A k \in Jobs : phase'[k] \in Busy \cup {"queued"} => phase[k] \in Busy \cup {"queued"}
    BY <1>7 DEF Busy
  <2> QED BY <2>1, KnownKept
<1>10. ASSUME NEW k \in Jobs, phase[k] # "picked", phase'[k] = "picked",
              NEW b \in Jobs, phase[b] = "queued", laneOf[b] = laneOf'[k]
       PROVE  ~Before(b, k)
  <2>1. phase[k] = "queued" /\ k # j /\ phase'[k] # ph[k] BY <1>4, <1>7, <1>10
  <2>2. /\ act < slots /\ run[laneOf[k]] = NoJob
        /\ q[laneOf[k]] # <<>> /\ q[laneOf[k]][1] = k
    BY <1>5, <2>1
  <2>3. CASE phase[j] \in Busy /\ q = queue BY <1>10, <2>2, <2>3, HeadFirst
  <2>4. CASE phase[j] = "queued"
    <3>1. run = running /\ act = active BY <1>1, <2>4 DEF run, act, Busy
    <3>2. SlotsAreUsed BY WholeSuffices
    <3>3. laneOf[k] \in Lanes /\ queue[laneOf[k]] # <<>>
      BY <2>1, HeadFirst DEF Now, Sound, Typed
    <3> QED BY <2>2, <3>1, <3>2, <3>3 DEF SlotsAreUsed, Startable
  <2> QED BY <2>3, <2>4
<1>11. phase'[j] = "over" BY <1>4, <1>5
<1>12. NoneBegins(j)
  <2>1. phase[j] # "over" BY DEF Busy
  <2> QED BY <1>7, <2>1 DEF NoneBegins
<1> QED BY <1>5, <1>8, <1>9, <1>10, <1>11, <1>12 DEF Ordered

\* An accepted job joins its lane; a lane that starts it then has no other.
LEMMA Accepted ==
  ASSUME Whole, Surroundings', NEW j \in Jobs, NEW l \in Lanes, phase[j] = "new", ~Full,
         laneOf' = [laneOf EXCEPT ![j] = l], arrived' = Append(arrived, j), slots' = slots,
         LET q == [queue EXCEPT ![l] = Append(@, j)] IN
           Pump(q, running, IF running[l] = NoJob THEN WithLane(ready, l) ELSE ready,
                active, [phase EXCEPT ![j] = "queued"])
  PROVE  Whole' /\ Ordered /\ NoneBegins(j)
<1> USE DEF Whole
<1> DEFINE q == [queue EXCEPT ![l] = Append(@, j)]
           rdy == IF running[l] = NoJob THEN WithLane(ready, l) ELSE ready
           ph == [phase EXCEPT ![j] = "queued"]
           lo == [laneOf EXCEPT ![j] = l]
<1>1. /\ \A m \in Lanes : queue[m] \in Seq(Jobs) /\ Once(queue[m]) /\ j \notin ToSet(queue[m])
      /\ \A m \in Lanes : running[m] # j
      /\ phase \in [Jobs -> Phases] /\ laneOf \in [Jobs -> Lanes]
  BY DEF Now, Sound, Typed, Agree, Busy
<1>2. /\ q[l] = Append(queue[l], j) /\ \A m \in Lanes : m # l => q[m] = queue[m]
      /\ q \in [Lanes -> Seq(Jobs)]
  BY <1>1 DEF Now, Sound, Typed
<1>3. /\ Once(q[l]) /\ \A k : k \in ToSet(q[l]) <=> k \in ToSet(queue[l]) \/ k = j
  BY <1>1, <1>2, AppendOnce
<1>4. /\ rdy \in Seq(Lanes) /\ Once(rdy) /\ ToSet(ready) \subseteq ToSet(rdy)
      /\ running[l] = NoJob => l \in ToSet(rdy)
  BY WithLaneOnce DEF Now, Sound, Typed
<1>5. /\ ph[j] = "queued" /\ \A k \in Jobs : k # j => ph[k] = phase[k]
      /\ lo[j] = l /\ \A k \in Jobs : k # j => lo[k] = laneOf[k]
      /\ ph \in [Jobs -> Phases] /\ lo \in [Jobs -> Lanes]
  BY <1>1 DEF Phases
<1> HIDE DEF q, rdy, ph, lo
<1>6. Agree(q, running, ph, lo)
  <2> SUFFICES ASSUME NEW m \in Lanes, NEW k \in Jobs
               PROVE  /\ k \in ToSet(q[m]) <=> ph[k] = "queued" /\ lo[k] = m
                      /\ running[m] = k <=> ph[k] \in Busy /\ lo[k] = m
    BY DEF Agree
  <2>1. /\ k \in ToSet(queue[m]) <=> phase[k] = "queued" /\ laneOf[k] = m
        /\ running[m] = k <=> phase[k] \in Busy /\ laneOf[k] = m
    BY DEF Now, Sound, Agree
  <2>2. k \in ToSet(q[m]) <=> k \in ToSet(queue[m]) \/ (k = j /\ m = l)
    BY <1>2, <1>3
  <2>3. CASE k = j BY <2>2, <2>3, <1>1, <1>5 DEF Busy
  <2>4. CASE k # j BY <2>1, <2>2, <2>4, <1>5
  <2> QED BY <2>3, <2>4
<1>7. Offered(q, running, rdy)
  <2> SUFFICES ASSUME NEW m \in Lanes, q[m] # <<>> PROVE running[m] # NoJob \/ m \in ToSet(rdy)
    BY DEF Offered
  <2>1. CASE m = l BY <2>1, <1>4
  <2>2. CASE m # l BY <2>2, <1>2, <1>4 DEF Now, Sound, Offered
  <2> QED BY <2>1, <2>2
<1>8. Sound(q, running, rdy, active, ph, lo)
  <2>1. Typed(q, running, rdy, active, ph, lo) BY <1>2, <1>4, <1>5 DEF Now, Sound, Typed
  <2>2. \A m \in Lanes : Once(q[m]) BY <1>1, <1>2, <1>3
  <2>3. active = Cardinality(Occupied(running)) BY DEF Now, Sound
  <2> QED BY <1>4, <1>6, <1>7, <2>1, <2>2, <2>3 DEF Sound
<1>9. Advance(q, running, active, ph, lo)
  <2>1. Pump(q, running, rdy, active, ph) BY DEF q, rdy, ph
  <2> QED BY <1>8, <2>1, PumpKeeps
<1>10. laneOf' = lo BY DEF lo
<1>11. /\ Now' /\ (active' < slots' => ready' = <<>>)
       /\ \A m \in Lanes : Keeps(queue'[m], q[m])
       /\ \A k \in Jobs : phase'[k] # ph[k] =>
            phase'[k] = "picked" /\ ph[k] = "queued" /\ q[lo[k]] # <<>> /\ q[lo[k]][1] = k
  <2>1. Sound(queue', running', ready', active', phase', laneOf') BY <1>9, <1>10 DEF Advance
  <2>2. Now' BY <2>1 DEF Now, Sound, Typed, Agree
  <2> QED BY <1>9, <2>2 DEF Advance
<1>12. \A k \in Jobs : k # j /\ phase'[k] # phase[k] => phase'[k] = "picked" /\ phase[k] = "queued"
  BY <1>5, <1>11
<1>13. phase'[j] # "new" BY <1>5, <1>11
<1>14. /\ Len(arrived) \in Nat /\ DOMAIN arrived = 1..Len(arrived)
       /\ DOMAIN arrived' = 1..(Len(arrived) + 1) /\ arrived'[Len(arrived) + 1] = j
       /\ \A i \in 1..Len(arrived) : arrived'[i] = arrived[i] /\ arrived[i] \in Jobs
       /\ \A i \in 1..(Len(arrived) + 1) : i \in 1..Len(arrived) \/ i = Len(arrived) + 1
  BY DEF Surroundings
<1>15. \A i \in 1..Len(arrived) : arrived[i] # j /\ phase[arrived[i]] # "new"
  BY <1>14 DEF QueuesKeepOrder
<1> DEFINE Later(x, y) == \E i, n \in DOMAIN arrived' : i < n /\ arrived'[i] = x /\ arrived'[n] = y
<1>16. \A x, y \in Jobs : Later(x, y) => Before(x, y) \/ (x # j /\ y = j)
  <2> SUFFICES ASSUME NEW x \in Jobs, NEW y \in Jobs, Later(x, y)
               PROVE  Before(x, y) \/ (x # j /\ y = j)
    OBVIOUS
  <2>1. PICK a \in DOMAIN arrived', b \in DOMAIN arrived' : a < b /\ arrived'[a] = x /\ arrived'[b] = y
    BY DEF Later
  <2>2. a \in 1..Len(arrived) /\ arrived[a] = x /\ x # j BY <2>1, <1>14, <1>15
  <2>3. CASE b \in 1..Len(arrived) BY <2>1, <2>2, <2>3, <1>14 DEF Before
  <2>4. CASE b = Len(arrived) + 1 BY <2>1, <2>2, <2>4, <1>14
  <2> QED BY <2>1, <2>3, <2>4, <1>14
<1> HIDE DEF Later
<1>17. QueuesKeepOrder'
  <2>1. \A i \in DOMAIN arrived' : phase'[arrived'[i]] # "new" BY <1>12, <1>13, <1>14, <1>15
  <2>2. \A i, k \in DOMAIN arrived' : arrived'[i] = arrived'[k] => i = k
    BY <1>14, <1>15 DEF QueuesKeepOrder
  <2>3. ASSUME NEW m \in Lanes, NEW i \in DOMAIN q[m], NEW k \in DOMAIN q[m], i < k
        PROVE  q[m][i] \in Jobs /\ q[m][k] \in Jobs /\ ~Later(q[m][k], q[m][i])
    <3>1. Len(queue[m]) \in Nat /\ DOMAIN queue[m] = 1..Len(queue[m]) BY <1>1
    <3>2. q[m][i] \in Jobs /\ q[m][k] \in Jobs BY <1>2
    <3>3. CASE m # l
      <4>1. q[m] = queue[m] /\ q[m][i] # j BY <3>3, <1>1, <1>2 DEF ToSet
      <4> QED BY <3>2, <4>1, <1>16, <2>3 DEF QueuesKeepOrder
    <3>4. CASE m = l
      <4>1. /\ DOMAIN q[m] = 1..(Len(queue[m]) + 1) /\ q[m][Len(queue[m]) + 1] = j
            /\ \A a \in 1..Len(queue[m]) : q[m][a] = queue[m][a]
        BY <3>4, <1>1, <1>2
      <4>2. i \in 1..Len(queue[m]) BY <2>3, <3>1, <4>1
      <4>3. q[m][i] = queue[m][i] /\ q[m][i] # j BY <3>1, <4>1, <4>2, <1>1 DEF ToSet
      <4>4. CASE k \in 1..Len(queue[m])
        <5>1. q[m][k] = queue[m][k] BY <4>1, <4>4
        <5>2. ~Before(q[m][k], q[m][i]) BY <2>3, <3>1, <4>2, <4>3, <4>4, <5>1 DEF QueuesKeepOrder
        <5> QED BY <3>2, <4>3, <5>2, <1>16
      <4>5. CASE k = Len(queue[m]) + 1
        <5>1. q[m][k] = j BY <4>1, <4>5
        <5>2. ~Before(j, q[m][i])
          <6> SUFFICES ASSUME Before(j, q[m][i]) PROVE FALSE OBVIOUS
          <6>1. PICK a \in DOMAIN arrived : arrived[a] = j BY DEF Before
          <6> QED BY <6>1, <1>14, <1>15
        <5> QED BY <3>2, <4>3, <5>1, <5>2, <1>16
      <4> QED BY <2>3, <3>1, <4>1, <4>4, <4>5
    <3> QED BY <3>3, <3>4
  <2>4. ASSUME NEW m \in Lanes, NEW i \in DOMAIN queue'[m], NEW k \in DOMAIN queue'[m], i < k
        PROVE  ~Later(queue'[m][k], queue'[m][i])
    <3>1. PICK a \in DOMAIN q[m], b \in DOMAIN q[m] :
            a < b /\ queue'[m][i] = q[m][a] /\ queue'[m][k] = q[m][b]
      BY <1>11, <2>4 DEF Keeps
    <3>2. ~Later(q[m][b], q[m][a]) BY <3>1, <2>3
    <3> QED BY <3>1, <3>2
  <2> QED BY <2>1, <2>2, <2>4 DEF QueuesKeepOrder, Before, Later
<1>18. Cardinality(Known') <= Capacity
  <2>1. Known' \subseteq Known \cup {j} BY <1>12 DEF Known
  <2>2. IsFiniteSet(Known)
    <3>1. Known \subseteq Jobs BY DEF Known
    <3> QED BY <3>1, LaneAssumption, FS_Subset
  <2>3. Cardinality(Known) \in Nat /\ Capacity \in Nat /\ Cardinality(Known) < Capacity
    BY <2>2, LaneAssumption, FS_CardinalityType DEF Full
  <2>4. /\ IsFiniteSet(Known \cup {j})
        /\ Cardinality(Known \cup {j}) = IF j \in Known THEN Cardinality(Known) ELSE Cardinality(Known) + 1
    BY <2>2, FS_AddElement
  <2>5. /\ IsFiniteSet(Known') /\ Cardinality(Known') <= Cardinality(Known \cup {j})
    BY <2>1, <2>4, FS_Subset
  <2>6. Cardinality(Known') \in Nat BY <2>5, FS_CardinalityType
  <2> QED BY <2>3, <2>4, <2>5, <2>6
<1>19. ASSUME NEW k \in Jobs, phase[k] # "picked", phase'[k] = "picked",
              NEW b \in Jobs, phase[b] = "queued", laneOf[b] = laneOf'[k]
       PROVE  ~Before(b, k)
  <2>1. b # j /\ ~Before(b, queue[laneOf[b]][1]) /\ queue[laneOf[b]] # <<>> BY <1>19, HeadFirst
  <2>2. q[laneOf[b]][1] = k
    <3>1. phase'[k] # ph[k] BY <1>5, <1>19
    <3> QED BY <3>1, <1>10, <1>11, <1>19
  <2>3. q[laneOf[b]][1] = queue[laneOf[b]][1]
    <3>1. laneOf[b] \in Lanes BY <1>1
    <3>2. /\ queue[laneOf[b]] \in Seq(Jobs) /\ queue[laneOf[b]] # <<>>
          /\ q[laneOf[b]] = Append(queue[laneOf[b]], j) \/ q[laneOf[b]] = queue[laneOf[b]]
      BY <2>1, <3>1, <1>1, <1>2
    <3> DEFINE t == queue[laneOf[b]]
    <3>3. Append(t, j)[1] = t[1]
      <4>1. t \in Seq(Jobs) /\ t # <<>> BY <3>2
      <4> HIDE DEF t
      <4>2. Len(t) \in Nat \ {0} BY <4>1
      <4> QED BY <4>1, <4>2
    <3> QED BY <3>2, <3>3
  <2> QED BY <2>1, <2>2, <2>3
<1>20. NoneBegins(j)
  <2>1. phase'[j] \in {"queued", "picked"} BY <1>5, <1>11
  <2>2. phase[j] = "new" OBVIOUS
  <2> QED BY <1>12, <2>1, <2>2 DEF NoneBegins
<1> QED BY <1>11, <1>17, <1>18, <1>19, <1>20 DEF Ordered

\* Submission, refused or accepted.
LEMMA SubmitStep ==
  ASSUME Whole, NEW j \in Jobs, NEW l \in Lanes, phase[j] = "new", Submit(j, l),
         tabOf' \in [Jobs -> Tabs \cup {NoTab}]
  PROVE  Whole' /\ Ordered /\ NoneBegins(j)
<1> DEFINE Refused == /\ phase' = [phase EXCEPT ![j] = "over"]
                      /\ UNCHANGED <<slots, laneOf, aborted, sched, tabs, opener, arrived>>
<1>1. CASE Refused
  <2>1. Surroundings' BY <1>1 DEF Whole, Surroundings
  <2>2. NoneBegins(j) BY <1>1 DEF NoneBegins, Whole, Now, Sound, Typed
  <2> QED BY <1>1, <2>1, <2>2, Untouched
<1>2. CASE ~Refused
  <2>1. ~Full /\ arrived' = Append(arrived, j) BY <1>2 DEF Submit
  <2>2. Surroundings' BY <1>2, <2>1 DEF Whole, Surroundings, Submit
  <2> QED BY <1>2, <2>1, <2>2, Accepted DEF Submit
<1> QED BY <1>1, <1>2

LEMMA SubmitOpenStep ==
  ASSUME Whole, NEW j \in Jobs, SubmitOpen(j)
  PROVE  Whole' /\ Ordered /\ NoneBegins(j)
<1>1. OpenLane \in Lanes BY DEF Lanes
<1>2. tabOf' \in [Jobs -> Tabs \cup {NoTab}] BY DEF SubmitOpen, Whole, Surroundings
<1> QED BY <1>1, <1>2, SubmitStep DEF SubmitOpen

LEMMA SubmitOnTabStep ==
  ASSUME Whole, NEW j \in Jobs, NEW t \in Tabs, SubmitOnTab(j, t)
  PROVE  Whole' /\ Ordered /\ NoneBegins(j)
<1>1. LaneFor(t) \in Lanes BY DEF Lanes, LaneFor
<1>2. tabOf' \in [Jobs -> Tabs \cup {NoTab}] BY DEF SubmitOnTab, Whole, Surroundings
<1> QED BY <1>1, <1>2, SubmitStep DEF SubmitOnTab

\* The only step by which a job begins to execute, when nobody aborted it.
LEMMA BeginStep ==
  ASSUME Whole, NEW j \in Jobs, Begin(j)
  PROVE  /\ Whole' /\ Ordered
         /\ \/ j \notin aborted /\ phase' = [phase EXCEPT ![j] = "executing"]
            \/ j \in aborted /\ NoneBegins(j) /\ phase'[j] = "over"
<1>1. Surroundings' BY DEF Begin, Whole, Surroundings
<1>2. CASE j \in aborted
  <2>1. queue \in [Lanes -> Seq(Jobs)] BY DEF Whole, Now, Sound, Typed
  <2> QED BY <1>1, <1>2, <2>1, Finished DEF Begin, Busy
<1>3. CASE j \notin aborted BY <1>1, <1>3, Untouched DEF Begin
<1> QED BY <1>2, <1>3

LEMMA CreateStep ==
  ASSUME Whole, NEW j \in Jobs, NEW t \in Tabs, Create(j, t)
  PROVE  Whole' /\ Ordered
<1>1. Surroundings' BY DEF Create, Whole, Surroundings
<1> QED BY <1>1, Untouched DEF Create

LEMMA SettleStep ==
  ASSUME Whole, NEW j \in Jobs, Settle(j)
  PROVE  Whole' /\ Ordered /\ NoneBegins(j) /\ phase'[j] = "over"
<1>1. Surroundings' BY DEF Settle, Whole, Surroundings
<1>2. queue \in [Lanes -> Seq(Jobs)] BY DEF Whole, Now, Sound, Typed
<1> QED BY <1>1, <1>2, Finished DEF Settle, Busy

LEMMA CancelStep ==
  ASSUME Whole, NEW j \in Jobs, Cancel(j)
  PROVE  Whole' /\ Ordered /\ NoneBegins(j)
<1>1. Surroundings' BY DEF Cancel, Whole, Surroundings
<1>2. phase[j] \in Busy \cup {"queued"} /\ laneOf[j] \in Lanes
  BY DEF Cancel, Known, Busy, Whole, Now, Sound, Typed
<1>3. running[laneOf[j]] = j <=> phase[j] \in Busy BY <1>2 DEF Whole, Now, Sound, Agree
<1>4. CASE phase[j] \in Busy BY <1>1, <1>3, <1>4, Untouched DEF Cancel, NoneBegins
<1>5. CASE phase[j] = "queued" /\ running[laneOf[j]] # j
  <2> DEFINE q == [queue EXCEPT ![laneOf[j]] = Without(@, j)]
  <2>1. q \in [Lanes -> Seq(Jobs)]
    <3>1. /\ queue \in [Lanes -> Seq(Jobs)] /\ Once(queue[laneOf[j]])
          /\ j \in ToSet(queue[laneOf[j]])
      BY <1>2, <1>5 DEF Whole, Now, Sound, Typed, Agree
    <3>2. Without(queue[laneOf[j]], j) \in Seq(Jobs) BY <1>2, <3>1, WithoutOnce
    <3> QED BY <3>1, <3>2
  <2>2. Finish(j, q) BY <1>5 DEF Cancel
  <2>3. UNCHANGED <<slots, laneOf, arrived>> BY DEF Cancel
  <2> HIDE DEF q
  <2>4. q = [queue EXCEPT ![laneOf[j]] = Without(@, j)] BY DEF q
  <2> QED BY <1>1, <1>5, <2>1, <2>2, <2>3, <2>4, Finished
<1> QED BY <1>2, <1>3, <1>4, <1>5

LEMMA NoStep == ASSUME Whole, UNCHANGED vars PROVE Whole'
<1> QED BY DEF vars, sched, Whole, Now, Sound, Typed, Agree, Occupied, Offered, Once, Surroundings,
               QueuesKeepOrder, Before, Known

\* Every step keeps the invariant and starts jobs in order.
LEMMA WholeStep == Whole /\ [Next]_vars => Whole' /\ (UNCHANGED vars \/ Ordered)
<1> QED BY SubmitOpenStep, SubmitOnTabStep, BeginStep, CreateStep, SettleStep, CancelStep, NoStep
        DEF Next

LEMMA WholeAlways == Spec => []Whole
<1>1. Whole /\ [Next]_vars => Whole' BY WholeStep
<1> QED BY <1>1, InitWhole, PTL DEF Spec

(***************************************************************************)
(* Theorems.                                                               *)
(***************************************************************************)

\* scheduler.ts keeps its maps in agreement: a job waits in its lane's queue, occupies that
\* lane or neither, occupied lanes are counted, at most `slots` of them and at most
\* Capacity jobs known, and no lane with waiting jobs is forgotten.
THEOREM LanesAgree == Spec => []LaneInv
<1>1. Whole => LaneInv BY WholeSuffices DEF LaneIInv
<1> QED BY <1>1, WholeAlways, PTL

\* While a slot is free no lane could start: pump is called wherever one may have become
\* startable.
THEOREM SlotsFilled == Spec => []SlotsAreUsed
<1> QED BY WholeSuffices, WholeAlways, PTL

\* Both together, the scheduler's invariant in the run.
THEOREM SchedulerHolds == Spec => []SchedulerInv
<1> QED BY LanesAgree, SlotsFilled, PTL DEF SchedulerInv

\* A lane is FIFO whatever is canceled, expires or finishes in between.
THEOREM LanesFIFO == Spec => StartsInOrder
<1>1. Whole /\ [Next]_vars =>
        [\A j \in Jobs : phase[j] # "picked" /\ phase'[j] = "picked" =>
           \A k \in Jobs : phase[k] = "queued" /\ laneOf[k] = laneOf'[j] => ~Before(k, j)]_vars
  BY WholeStep DEF Ordered
<1> QED BY <1>1, WholeAlways, PTL DEF Spec, StartsInOrder

\* A canceled job that has not begun never executes: only its microtask begins it, and that
\* looks at the signal.
THEOREM CanceledStayOut == Spec => CanceledNeverStarts
<1> DEFINE Out == \A j \in aborted : phase[j] # "executing" => phase'[j] # "executing"
<1>1. Whole /\ [Next]_vars => [Out]_vars
  <2> SUFFICES ASSUME Whole, [Next]_vars, NEW j \in aborted, phase[j] # "executing"
               PROVE  UNCHANGED vars \/ phase'[j] # "executing"
    OBVIOUS
  <2>1. j \in Jobs /\ phase \in [Jobs -> Phases] BY DEF Whole, Now, Sound, Typed, Surroundings
  <2>2. ASSUME NEW q, NEW run, NEW rdy, NEW act, NEW ph, Pump(q, run, rdy, act, ph),
               ph[j] # "executing"
        PROVE  phase'[j] # "executing"
    BY <2>1, <2>2 DEF Pump
  <2>3. ASSUME NEW k \in Jobs, NEW q, Finish(k, q) PROVE phase'[j] # "executing"
    <3>1. [phase EXCEPT ![k] = "over"][j] # "executing" BY <2>1
    <3> QED BY <2>2, <2>3, <3>1 DEF Finish
  <2>4. ASSUME NEW k \in Jobs, NEW l, Submit(k, l) PROVE phase'[j] # "executing"
    <3>1. /\ [phase EXCEPT ![k] = "over"][j] # "executing"
          /\ [phase EXCEPT ![k] = "queued"][j] # "executing"
      BY <2>1
    <3> QED BY <2>2, <2>4, <3>1 DEF Submit
  <2>5. ASSUME NEW k \in Jobs, SubmitOpen(k) PROVE phase'[j] # "executing"
    BY <2>4, <2>5 DEF SubmitOpen
  <2>6. ASSUME NEW k \in Jobs, NEW t \in Tabs, SubmitOnTab(k, t) PROVE phase'[j] # "executing"
    BY <2>4, <2>6 DEF SubmitOnTab
  <2>7. ASSUME NEW k \in Jobs, Begin(k) PROVE phase'[j] # "executing"
    <3>1. CASE k \in aborted BY <2>3, <2>7, <3>1 DEF Begin
    <3>2. CASE k \notin aborted BY <2>1, <2>7, <3>2 DEF Begin
    <3> QED BY <3>1, <3>2
  <2>8. ASSUME NEW k \in Jobs, NEW t \in Tabs, Create(k, t) PROVE phase'[j] # "executing"
    BY <2>8 DEF Create
  <2>9. ASSUME NEW k \in Jobs, Settle(k) PROVE phase'[j] # "executing"
    BY <2>3, <2>9 DEF Settle
  <2>10. ASSUME NEW k \in Jobs, Cancel(k) PROVE phase'[j] # "executing"
    <3>1. CASE phase' = phase BY <3>1
    <3>2. CASE phase' # phase BY <2>3, <2>10, <3>2 DEF Cancel
    <3> QED BY <3>1, <3>2
  <2> QED BY <2>5, <2>6, <2>7, <2>8, <2>9, <2>10 DEF Next
<1> QED BY <1>1, WholeAlways, PTL DEF Spec, CanceledNeverStarts
-----------------------------------------------------------------------------
(***************************************************************************)
(* PageWork.                                                               *)
(***************************************************************************)

(***************************************************************************)
(* The invariant.                                                          *)
(***************************************************************************)

\* A tab that was open from the start is never being opened, and a job on it is in its lane.
Homes ==
  /\ \A t \in OldTabs : t \in tabs /\ opener[t] = NoJob
  /\ \A j \in Jobs \ OpenJobs : IF phase[j] = "new" THEN tabOf[j] = NoTab ELSE tabOf[j] \in Tabs
  /\ \A j \in Jobs : tabOf[j] \in OldTabs =>
       j \notin OpenJobs /\ (phase[j] \notin {"new", "over"} => laneOf[j] = tabOf[j])

\* An execution takes its first step once it has begun; what was read comes from a step.
Places ==
  /\ \A j \in Jobs : step[j] # "start" => phase[j] \in {"executing", "over"}
  /\ \A l \in overtaken : step[l] # "start"
  /\ \A l \in Looks : step[l] = "reading" => inState[l] # NoJob

\* The signal registered for a tab is that of the command at work on it.
Signals == \A j \in Jobs :
  phase[j] = "executing" /\ tabOf[j] \in OldTabs => signalOf[tabOf[j]] = j

Shown(t) == ToSet(refs[t]) \cup ({shot[t]} \ {NoJob})

\* What a page's state holds is of that page and not overtaken.
Kept == \A t \in OldTabs : \A l \in Shown(t) :
  page[t] # NoJob /\ tabOf[l] = t /\ step[l] # "start" /\ l \notin overtaken

\* A look whose state is still the page's has not been overtaken.
Reading == \A l \in Looks :
  Running(l, "reading") /\ tabOf[l] \in OldTabs /\ page[tabOf[l]] = inState[l] => l \notin overtaken

\* While an action sends its inputs its page has no state.
Acting == \A a \in Acts :
  Running(a, "acting") /\ tabOf[a] \in OldTabs => page[tabOf[a]] = NoJob

PageIInv == Whole /\ PageTypeOK /\ Homes /\ Places /\ Signals /\ Kept /\ Reading /\ Acting

\* Two jobs that occupy lanes are not on the same of these tabs.
LEMMA Alone ==
  ASSUME Whole, Homes, NEW j \in Jobs, NEW k \in Jobs, phase[j] \in Busy, phase[k] \in Busy,
         tabOf[j] = tabOf[k], tabOf[j] \in OldTabs
  PROVE  j = k
<1>1. laneOf[j] = laneOf[k] BY DEF Homes, Busy
<1>2. laneOf[j] \in Lanes BY DEF Whole, Now, Sound, Typed
<1> QED BY <1>1, <1>2 DEF Whole, Now, Sound, Agree

LEMMA InitPages == PageInit => PageIInv
<1> SUFFICES ASSUME PageInit PROVE PageIInv OBVIOUS
<1> USE DEF PageInit
<1>1. Whole BY InitWhole
<1>2. PageTypeOK BY DEF PageTypeOK
<1>3. Homes BY LaneAssumption DEF Homes, Init
<1>4. Places /\ Signals /\ Reading /\ Acting
  BY LaneAssumption, PageAssumption DEF Places, Signals, Reading, Acting, Running, Init
<1>5. Kept
  <2>1. \A t \in OldTabs : refs[t] = <<>> /\ shot[t] = NoJob BY LaneAssumption
  <2>2. \A t \in OldTabs : Shown(t) = {} BY <2>1 DEF Shown, ToSet
  <2> QED BY <2>2 DEF Kept
<1> QED BY <1>1, <1>2, <1>3, <1>4, <1>5 DEF PageIInv

(***************************************************************************)
(* Steps that leave the scheduler alone.                                   *)
(***************************************************************************)

\* They keep the scheduler's invariant and the homes of its jobs.
LEMMA Apart ==
  ASSUME PageIInv, UNCHANGED vars
  PROVE  Whole' /\ Homes'
<1>1. Whole' BY NoStep DEF PageIInv
<1>2. Homes' BY DEF PageIInv, Homes, vars
<1> QED BY <1>1, <1>2

\* Dropping states removes what they held.
LEMMA Dropped ==
  ASSUME PageIInv, NEW ts \in SUBSET Tabs, Invalidate(ts)
  PROVE  /\ page' \in [Tabs -> Looks \cup {NoJob}] /\ refs' \in [Tabs -> Seq(Looks)]
         /\ shot' \in [Tabs -> Looks \cup {NoJob}]
         /\ \A t \in ts : page'[t] = NoJob /\ refs'[t] = <<>> /\ shot'[t] = NoJob
         /\ \A t \in Tabs \ ts : page'[t] = page[t] /\ refs'[t] = refs[t] /\ shot'[t] = shot[t]
BY DEF PageIInv, PageTypeOK, Invalidate

\* After a change of a page whose states are dropped, or had none, all is as it should be.
LEMMA ChangeKeeps ==
  ASSUME PageIInv, NEW t \in Tabs, NEW ts \in SUBSET Tabs, Invalidate(ts) \/ (ts = {} /\ UNCHANGED <<page, refs, shot>>),
         \/ Changed(t) /\ (t \in ts \/ (t \in OldTabs => page[t] = NoJob))
         \/ UNCHANGED overtaken,
         UNCHANGED <<vars, inState, aim, signalOf>>,
         \/ UNCHANGED step
         \/ \E a \in Acts : /\ phase[a] = "executing" /\ step[a] = "start" /\ tabOf[a] \in ts
                            /\ \/ step' = [step EXCEPT ![a] = "acting"]
                               \/ step' = [step EXCEPT ![a] = "loading"]
  PROVE  PageIInv'
<1> USE DEF PageIInv
<1>1. Whole' /\ Homes' BY Apart
<1>2. /\ page' \in [Tabs -> Looks \cup {NoJob}] /\ refs' \in [Tabs -> Seq(Looks)]
      /\ shot' \in [Tabs -> Looks \cup {NoJob}]
      /\ \A u \in ts : page'[u] = NoJob /\ refs'[u] = <<>> /\ shot'[u] = NoJob
      /\ \A u \in Tabs \ ts : page'[u] = page[u] /\ refs'[u] = refs[u] /\ shot'[u] = shot[u]
  BY Dropped DEF PageTypeOK
<1>3. /\ overtaken \subseteq overtaken' /\ overtaken' \subseteq Looks
      /\ \A l \in overtaken' : l \notin overtaken =>
           tabOf[l] = t /\ step[l] # "start" /\ (t \in ts \/ (t \in OldTabs => page[t] = NoJob))
  BY DEF Changed, PageTypeOK
<1>4. /\ step' \in [Jobs -> {"start", "reading", "acting", "loading", "kept", "ended"}]
      /\ \A j \in Jobs : step'[j] # step[j] =>
           /\ step'[j] \in {"acting", "loading"} /\ step[j] = "start" /\ j \notin Looks
           /\ phase[j] = "executing" /\ tabOf[j] \in ts
  BY PageAssumption DEF PageTypeOK
<1>5. PageTypeOK' BY <1>2, <1>3, <1>4 DEF PageTypeOK
<1>6. UNCHANGED <<phase, tabOf, inState, signalOf>> BY DEF vars
<1>7. Looks \subseteq Jobs /\ Acts \subseteq Jobs BY PageAssumption
<1>8. Places' BY <1>3, <1>4, <1>6, <1>7 DEF Places, PageTypeOK
<1>9. Signals' BY <1>6 DEF Signals
<1>10. Kept'
  <2> SUFFICES ASSUME NEW u \in OldTabs, NEW l \in ToSet(refs'[u]) \cup ({shot'[u]} \ {NoJob})
               PROVE  page'[u] # NoJob /\ tabOf'[l] = u /\ step'[l] # "start" /\ l \notin overtaken'
    BY DEF Kept, Shown
  <2>1. u \in Tabs /\ u \notin ts BY <1>2, LaneAssumption DEF ToSet
  <2>2. l \in Shown(u) /\ page'[u] = page[u] BY <1>2, <2>1 DEF Shown
  <2>3. l \in Looks BY <2>1, <2>2 DEF PageTypeOK, Shown, ToSet
  <2>4. page[u] # NoJob /\ tabOf[l] = u /\ step[l] # "start" /\ l \notin overtaken BY <2>2 DEF Kept
  <2> QED BY <1>3, <1>4, <1>6, <1>7, <2>1, <2>2, <2>3, <2>4
<1>11. Reading'
  <2> SUFFICES ASSUME NEW l \in Looks, phase'[l] = "executing", step'[l] = "reading",
                      tabOf'[l] \in OldTabs, page'[tabOf'[l]] = inState'[l], l \in overtaken'
               PROVE  FALSE
    BY DEF Reading, Running
  <2>1. step[l] = "reading" /\ inState[l] # NoJob BY <1>4, <1>7 DEF Places
  <2>2. tabOf[l] \in Tabs \ ts /\ page[tabOf[l]] = inState[l]
    BY <1>2, <1>6, <2>1, LaneAssumption
  <2> QED BY <1>3, <1>6, <2>1, <2>2 DEF Reading, Running
<1>12. Acting'
  <2> SUFFICES ASSUME NEW a \in Acts, phase'[a] = "executing", step'[a] = "acting", tabOf'[a] \in OldTabs
               PROVE  page'[tabOf'[a]] = NoJob
    BY DEF Acting, Running
  <2>1. tabOf[a] \in Tabs /\ (tabOf[a] \in ts \/ step[a] = "acting")
    BY <1>4, <1>6, <1>7, LaneAssumption
  <2> QED BY <1>2, <1>6, <2>1 DEF Acting, Running
<1> QED BY <1>1, <1>5, <1>8, <1>9, <1>10, <1>11, <1>12

\* A look finds or makes the page's state; nobody else is at work on the page.
LEMMA LookStartKeeps ==
  ASSUME PageIInv, NEW l \in Jobs, LookStart(l)
  PROVE  PageIInv'
<1> USE DEF PageIInv
<1> DEFINE t == tabOf[l]
<1>1. /\ l \in Looks /\ phase[l] = "executing" /\ step[l] = "start"
      /\ page' = [page EXCEPT ![t] = IF @ = NoJob THEN l ELSE @]
      /\ inState' = [inState EXCEPT ![l] = page'[t]]
      /\ step' = [step EXCEPT ![l] = "reading"]
      /\ UNCHANGED <<vars, refs, shot, aim, signalOf, overtaken>>
  BY DEF LookStart, Running
<1>2. Whole' /\ Homes' BY <1>1, Apart
<1>3. l # NoJob BY LaneAssumption
<1>4. UNCHANGED <<phase, tabOf, tabs, opener, laneOf>> BY <1>1 DEF vars
<1>5. Looks \subseteq Jobs /\ Acts \subseteq Jobs /\ Looks \cap Acts = {} /\ OldTabs \subseteq Tabs
  BY PageAssumption, LaneAssumption
<1>6. t \in Tabs BY <1>1, <1>5, PageAssumption DEF Homes
<1>7. PageTypeOK' BY <1>1, <1>6 DEF PageTypeOK
<1>8. /\ page'[t] # NoJob /\ inState'[l] = page'[t] /\ step'[l] = "reading"
      /\ \A k \in Jobs : k # l => step'[k] = step[k]
      /\ \A k \in Looks : k # l => inState'[k] = inState[k]
      /\ \A u \in Tabs : u # t => page'[u] = page[u]
      /\ page[t] # NoJob => page'[t] = page[t]
  BY <1>1, <1>3, <1>5, <1>6 DEF PageTypeOK
<1>9. \A k \in Jobs : phase[k] = "executing" /\ tabOf[k] = t /\ t \in OldTabs => k = l
  BY <1>1, Alone DEF Busy
<1>10. Places' BY <1>1, <1>4, <1>5, <1>8 DEF Places, PageTypeOK
<1>11. Signals' BY <1>1, <1>4 DEF Signals
<1>12. Kept'
  <2> SUFFICES ASSUME NEW u \in OldTabs, NEW k \in ToSet(refs'[u]) \cup ({shot'[u]} \ {NoJob})
               PROVE  page'[u] # NoJob /\ tabOf'[k] = u /\ step'[k] # "start" /\ k \notin overtaken'
    BY DEF Kept, Shown
  <2>1. k \in Shown(u) /\ k \in Looks /\ u \in Tabs BY <1>1, <1>5 DEF PageTypeOK, Shown, ToSet
  <2>2. page[u] # NoJob /\ tabOf[k] = u /\ step[k] # "start" /\ k \notin overtaken
    BY <2>1 DEF Kept
  <2> QED BY <1>1, <1>4, <1>5, <1>8, <2>1, <2>2
<1>13. Reading'
  <2> SUFFICES ASSUME NEW k \in Looks, phase'[k] = "executing", step'[k] = "reading",
                      tabOf'[k] \in OldTabs, page'[tabOf'[k]] = inState'[k]
               PROVE  k \notin overtaken'
    BY DEF Reading, Running
  <2>1. CASE k = l BY <1>1, <2>1 DEF Places
  <2>2. CASE k # l
    <3>1. tabOf[k] # t BY <1>4, <1>5, <1>9, <2>2
    <3> QED BY <1>1, <1>4, <1>5, <1>8, <2>2, <3>1 DEF Reading, Running
  <2> QED BY <2>1, <2>2
<1>14. Acting'
  <2> SUFFICES ASSUME NEW a \in Acts, phase'[a] = "executing", step'[a] = "acting", tabOf'[a] \in OldTabs
               PROVE  page'[tabOf'[a]] = NoJob
    BY DEF Acting, Running
  <2>1. a # l /\ tabOf[a] # t BY <1>1, <1>4, <1>5, <1>9
  <2> QED BY <1>4, <1>5, <1>8, <2>1 DEF Acting, Running
<1> QED BY <1>2, <1>7, <1>10, <1>11, <1>12, <1>13, <1>14

(***************************************************************************)
(* Steps of the scheduler.                                                 *)
(***************************************************************************)

\* A step by which j is accepted, ends, is aborted or opens a tab, or nobody does anything:
\* pages keep their states, or one is dropped, and signals of other jobs stay.
LEMMA SchedulerKeeps ==
  ASSUME PageIInv, Whole', Homes', NEW j \in Jobs, NoneBegins(j),
         NEW ts \in SUBSET Tabs, Invalidate(ts) \/ (ts = {} /\ UNCHANGED <<page, refs, shot>>),
         \A k \in Looks \cup Acts : step[k] # "start" => tabOf'[k] = tabOf[k],
         \A k \in Jobs : phase[k] = "executing" => tabOf'[k] = tabOf[k] \/ tabOf'[k] \notin OldTabs,
         \/ UNCHANGED step
         \/ /\ phase[j] = "executing" /\ phase'[j] = "over"
            /\ step' = [step EXCEPT ![j] = "ended"],
         \/ UNCHANGED signalOf
         \/ \E t \in Tabs : /\ signalOf' = [signalOf EXCEPT ![t] = j] /\ t \notin OldTabs
         \/ /\ phase[j] = "executing" /\ phase'[j] = "over"
            /\ signalOf' = [signalOf EXCEPT ![tabOf[j]] = NoJob],
         aim' \in [Acts -> Looks \cup {NoJob}],
         UNCHANGED <<inState, overtaken>>
  PROVE  PageIInv'
<1> USE DEF PageIInv
<1>1. /\ page' \in [Tabs -> Looks \cup {NoJob}] /\ refs' \in [Tabs -> Seq(Looks)]
      /\ shot' \in [Tabs -> Looks \cup {NoJob}]
      /\ \A u \in ts : page'[u] = NoJob /\ refs'[u] = <<>> /\ shot'[u] = NoJob
      /\ \A u \in Tabs \ ts : page'[u] = page[u] /\ refs'[u] = refs[u] /\ shot'[u] = shot[u]
  BY Dropped DEF PageTypeOK
<1>2. /\ Looks \subseteq Jobs /\ Acts \subseteq Jobs /\ OldTabs \subseteq Tabs
  BY PageAssumption, LaneAssumption
<1>3. /\ \A k \in Jobs : phase'[k] = "executing" => phase[k] = "executing" /\ k \in Jobs
      /\ \A k \in Jobs : phase[k] \in {"executing", "over"} => phase'[k] \in {"executing", "over"} \/ phase'[k] = phase[k]
  BY DEF NoneBegins
<1>4. /\ \A k \in Jobs : phase'[k] = "executing" => step'[k] = step[k]
      /\ \A k \in Jobs : step'[k] # step[k] => step'[k] = "ended" /\ phase'[k] = "over" /\ phase[k] = "executing"
      /\ step' \in [Jobs -> {"start", "reading", "acting", "loading", "kept", "ended"}]
  BY DEF PageTypeOK
<1>5. PageTypeOK' BY <1>1, <1>4 DEF PageTypeOK
<1>6. Places'
  <2>1. \A k \in Jobs : step'[k] # "start" => phase'[k] \in {"executing", "over"}
    BY <1>4 DEF Places, NoneBegins
  <2>2. \A l \in Looks : step'[l] = "reading" => step[l] = "reading" BY <1>2, <1>4
  <2>3. \A l \in overtaken : step'[l] # "start" BY <1>2, <1>4 DEF Places, PageTypeOK
  <2> QED BY <2>1, <2>2, <2>3 DEF Places
<1>7. Signals'
  <2> SUFFICES ASSUME NEW k \in Jobs, phase'[k] = "executing", tabOf'[k] \in OldTabs
               PROVE  signalOf'[tabOf'[k]] = k
    BY DEF Signals
  <2>1. phase[k] = "executing" /\ tabOf'[k] = tabOf[k] /\ signalOf[tabOf[k]] = k
    BY <1>3 DEF Signals
  <2>2. CASE UNCHANGED signalOf BY <2>1, <2>2
  <2>3. CASE \E t \in Tabs : signalOf' = [signalOf EXCEPT ![t] = j] /\ t \notin OldTabs
    BY <1>2, <2>1, <2>3 DEF PageTypeOK
  <2>4. CASE /\ phase[j] = "executing" /\ phase'[j] = "over"
             /\ signalOf' = [signalOf EXCEPT ![tabOf[j]] = NoJob]
    <3>1. tabOf[k] # tabOf[j] BY <2>1, <2>4, Alone DEF Busy
    <3> QED BY <1>2, <2>1, <2>4, <3>1 DEF PageTypeOK
  <2> QED BY <2>2, <2>3, <2>4
<1>8. Kept'
  <2> SUFFICES ASSUME NEW u \in OldTabs, NEW l \in ToSet(refs'[u]) \cup ({shot'[u]} \ {NoJob})
               PROVE  page'[u] # NoJob /\ tabOf'[l] = u /\ step'[l] # "start" /\ l \notin overtaken'
    BY DEF Kept, Shown
  <2>1. u \in Tabs /\ u \notin ts BY <1>1, <1>2 DEF ToSet
  <2>2. l \in Shown(u) /\ page'[u] = page[u] BY <1>1, <2>1 DEF Shown
  <2>3. l \in Looks BY <2>1, <2>2 DEF PageTypeOK, Shown, ToSet
  <2>4. page[u] # NoJob /\ tabOf[l] = u /\ step[l] # "start" /\ l \notin overtaken BY <2>2 DEF Kept
  <2> QED BY <1>2, <1>4, <2>2, <2>3, <2>4
<1>9. Reading'
  <2> SUFFICES ASSUME NEW l \in Looks, phase'[l] = "executing", step'[l] = "reading",
                      tabOf'[l] \in OldTabs, page'[tabOf'[l]] = inState'[l]
               PROVE  l \notin overtaken'
    BY DEF Reading, Running
  <2>1. phase[l] = "executing" /\ step[l] = "reading" /\ inState[l] # NoJob /\ tabOf'[l] = tabOf[l]
    BY <1>2, <1>3, <1>4 DEF Places
  <2>2. page[tabOf[l]] = inState[l] BY <1>1, <1>2, <2>1
  <2> QED BY <2>1, <2>2 DEF Reading, Running
<1>10. Acting'
  <2> SUFFICES ASSUME NEW a \in Acts, phase'[a] = "executing", step'[a] = "acting", tabOf'[a] \in OldTabs
               PROVE  page'[tabOf'[a]] = NoJob
    BY DEF Acting, Running
  <2>1. phase[a] = "executing" /\ step[a] = "acting" /\ tabOf'[a] = tabOf[a]
    BY <1>2, <1>3, <1>4
  <2>2. page[tabOf[a]] = NoJob /\ tabOf[a] \in Tabs BY <1>2, <2>1 DEF Acting, Running
  <2> QED BY <1>1, <2>1, <2>2
<1> QED BY <1>5, <1>6, <1>7, <1>8, <1>9, <1>10

\* The homes of the jobs, in a step that changes the tabs of j at most.
LEMMA HomesKept ==
  ASSUME Whole, Homes, UNCHANGED <<tabOf, tabs, laneOf>>, NEW j \in Jobs, phase[j] # "new",
         NoneBegins(j) \/ (phase[j] = "picked" /\ phase' = [phase EXCEPT ![j] = "executing"]),
         \A t \in OldTabs : opener'[t] = NoJob
  PROVE  Homes'
<1>1. \A k \in Jobs : /\ phase'[k] = "new" <=> phase[k] = "new"
                      /\ phase'[k] \notin {"new", "over"} => phase[k] \notin {"new", "over"}
  BY DEF NoneBegins, Whole, Now, Sound, Typed
<1> QED BY <1>1 DEF Homes

\* What follows from the end of an execution.
LEMMA EndFacts ==
  ASSUME PageIInv, NEW j \in Jobs, NEW place, End(j, place)
  PROVE  /\ Whole' /\ Homes' /\ NoneBegins(j) /\ phase[j] = "executing" /\ phase'[j] = "over"
         /\ step' = [step EXCEPT ![j] = place]
         /\ signalOf' = signalOf \/ signalOf' = [signalOf EXCEPT ![tabOf[j]] = NoJob]
         /\ tabOf' = tabOf
<1> USE DEF PageIInv
<1>1. Settle(j) BY DEF End
<1>2. Whole' /\ NoneBegins(j) /\ phase'[j] = "over" BY <1>1, SettleStep
<1>3. phase[j] = "executing" /\ UNCHANGED <<tabOf, tabs, laneOf>> BY <1>1 DEF Settle
<1>4. \A t \in OldTabs : opener'[t] = NoJob BY <1>1, LaneAssumption DEF Settle, Homes
<1>5. Homes' BY <1>2, <1>3, <1>4, HomesKept
<1> QED BY <1>2, <1>3, <1>5 DEF End

\* A look counts when its state is still the page's.
LEMMA LookEndKeeps ==
  ASSUME PageIInv, NEW l \in Jobs, LookEnd(l)
  PROVE  PageIInv'
<1> USE DEF PageIInv
<1> DEFINE t == tabOf[l]
           kept == Append(refs[t], l)
<1>1. /\ l \in Looks /\ step[l] = "reading" /\ page[t] = inState[l] /\ End(l, "kept")
      /\ \/ /\ refs' = [refs EXCEPT ![t] = IF Len(kept) > MaxSnapshots THEN Tail(kept) ELSE kept]
            /\ UNCHANGED shot
         \/ shot' = [shot EXCEPT ![t] = l] /\ UNCHANGED refs
      /\ UNCHANGED <<page, inState, aim, overtaken>>
  BY DEF LookEnd, Running
<1>2. /\ Whole' /\ Homes' /\ NoneBegins(l) /\ phase[l] = "executing" /\ phase'[l] = "over"
      /\ step' = [step EXCEPT ![l] = "kept"] /\ tabOf' = tabOf
      /\ signalOf' = signalOf \/ signalOf' = [signalOf EXCEPT ![t] = NoJob]
  BY <1>1, EndFacts
<1>3. /\ Looks \subseteq Jobs /\ Acts \subseteq Jobs /\ OldTabs \subseteq Tabs
      /\ l \notin OpenJobs /\ MaxSnapshots \in Nat \ {0}
  BY <1>1, PageAssumption, LaneAssumption
<1>4. t \in Tabs BY <1>2, <1>3 DEF Homes
<1>5. /\ refs' \in [Tabs -> Seq(Looks)] /\ shot' \in [Tabs -> Looks \cup {NoJob}]
      /\ \A u \in Tabs : \A k \in Shown(u)' : k \in Looks /\ (k \in Shown(u) \/ (k = l /\ u = t))
  <2>1. refs[t] \in Seq(Looks) /\ refs \in [Tabs -> Seq(Looks)] /\ shot \in [Tabs -> Looks \cup {NoJob}]
    BY <1>4 DEF PageTypeOK
  <2>2. /\ kept \in Seq(Looks) /\ kept # <<>> /\ Tail(kept) \in Seq(Looks)
        /\ ToSet(kept) \subseteq ToSet(refs[t]) \cup {l} /\ ToSet(Tail(kept)) \subseteq ToSet(refs[t]) \cup {l}
    <3>1. /\ kept \in Seq(Looks) /\ Len(kept) = Len(refs[t]) + 1 /\ Len(refs[t]) \in Nat
          /\ \A i \in 1..Len(refs[t]) : kept[i] = refs[t][i]
          /\ kept[Len(refs[t]) + 1] = l
      BY <1>1, <2>1
    <3>2. kept # <<>> BY <3>1
    <3> HIDE DEF kept
    <3>3. ToSet(kept) \subseteq ToSet(refs[t]) \cup {l}
      <4> SUFFICES ASSUME NEW i \in 1..Len(kept), kept[i] # l PROVE kept[i] \in ToSet(refs[t])
        BY <3>1 DEF ToSet
      <4>1. i \in 1..Len(refs[t]) BY <3>1
      <4> QED BY <2>1, <3>1, <4>1 DEF ToSet
    <3>4. /\ Tail(kept) \in Seq(Looks) /\ Len(Tail(kept)) = Len(kept) - 1
          /\ \A i \in 1..(Len(kept) - 1) : Tail(kept)[i] = kept[i + 1]
      BY <3>1, <3>2
    <3>5. ToSet(Tail(kept)) \subseteq ToSet(kept)
      <4> SUFFICES ASSUME NEW i \in 1..Len(Tail(kept)) PROVE Tail(kept)[i] \in ToSet(kept)
        BY <3>4 DEF ToSet
      <4>1. i + 1 \in 1..Len(kept) /\ Tail(kept)[i] = kept[i + 1] BY <3>1, <3>4
      <4> QED BY <3>1, <4>1 DEF ToSet
    <3> QED BY <3>1, <3>2, <3>3, <3>4, <3>5
  <2> HIDE DEF kept
  <2>3. refs' \in [Tabs -> Seq(Looks)] /\ shot' \in [Tabs -> Looks \cup {NoJob}]
    BY <1>1, <2>1, <2>2
  <2>4. ASSUME NEW u \in Tabs, NEW k \in Shown(u)' PROVE k \in Shown(u) \/ (k = l /\ u = t)
    <3>1. CASE u # t BY <1>1, <2>1, <2>4, <3>1 DEF Shown
    <3>2. CASE u = t
      <4>1. ToSet(refs'[t]) \subseteq ToSet(refs[t]) \cup {l} /\ shot'[t] \in {l, shot[t]}
        BY <1>1, <1>4, <2>1, <2>2
      <4> QED BY <2>4, <3>2, <4>1 DEF Shown
    <3> QED BY <3>1, <3>2
  <2>5. ASSUME NEW u \in Tabs, NEW k \in Shown(u) PROVE k \in Looks
    BY <2>1, <2>5 DEF Shown, ToSet
  <2> QED BY <1>1, <2>3, <2>4, <2>5
<1> HIDE DEF kept
<1>6. /\ step' \in [Jobs -> {"start", "reading", "acting", "loading", "kept", "ended"}]
      /\ step'[l] = "kept" /\ \A k \in Jobs : k # l => step'[k] = step[k]
      /\ signalOf' \in [Tabs -> Jobs \cup {NoJob}]
      /\ \A u \in Tabs : u # t => signalOf'[u] = signalOf[u]
      /\ \A k \in Jobs : phase'[k] = "executing" => phase[k] = "executing" /\ k # l
  BY <1>2 DEF PageTypeOK, NoneBegins
<1>7. PageTypeOK' BY <1>1, <1>5, <1>6 DEF PageTypeOK
<1>8. Places'
  <2>1. \A k \in Jobs : step'[k] # "start" => phase'[k] \in {"executing", "over"}
    BY <1>2, <1>6 DEF Places, NoneBegins
  <2>2. \A k \in overtaken : step'[k] # "start" BY <1>3, <1>6 DEF Places, PageTypeOK
  <2>3. \A k \in Looks : step'[k] = "reading" => step[k] = "reading" BY <1>3, <1>6
  <2> QED BY <1>1, <2>1, <2>2, <2>3 DEF Places
<1>9. Signals'
  <2> SUFFICES ASSUME NEW k \in Jobs, phase'[k] = "executing", tabOf'[k] \in OldTabs
               PROVE  signalOf'[tabOf'[k]] = k
    BY DEF Signals
  <2>1. phase[k] = "executing" /\ k # l /\ tabOf[k] \in OldTabs BY <1>2, <1>6
  <2>2. tabOf[k] # t BY <1>2, <2>1, Alone DEF Busy
  <2> QED BY <1>2, <1>3, <1>6, <2>1, <2>2 DEF Signals
<1>10. Kept'
  <2> SUFFICES ASSUME NEW u \in OldTabs, NEW k \in Shown(u)'
               PROVE  page'[u] # NoJob /\ tabOf'[k] = u /\ step'[k] # "start" /\ k \notin overtaken'
    BY DEF Kept
  <2>1. u \in Tabs /\ k \in Looks /\ (k \in Shown(u) \/ (k = l /\ u = t)) BY <1>3, <1>5
  <2>2. CASE k \in Shown(u)
    <3>1. page[u] # NoJob /\ tabOf[k] = u /\ step[k] # "start" /\ k \notin overtaken
      BY <2>2 DEF Kept
    <3> QED BY <1>1, <1>2, <1>3, <1>6, <2>1, <3>1
  <2>3. CASE k = l /\ u = t
    <3>1. inState[l] # NoJob BY <1>1 DEF Places
    <3>2. l \notin overtaken BY <1>1, <1>2, <2>3 DEF Reading, Running
    <3> QED BY <1>1, <1>2, <1>6, <2>3, <3>1, <3>2
  <2> QED BY <2>1, <2>2, <2>3
<1>11. Reading' BY <1>1, <1>2, <1>3, <1>6 DEF Reading, Running
<1>12. Acting' BY <1>1, <1>2, <1>3, <1>6 DEF Acting, Running
<1> QED BY <1>2, <1>7, <1>8, <1>9, <1>10, <1>11, <1>12

\* An action ends and its page is invalidated, or anything else ends.
LEMMA OtherEndsKeep ==
  ASSUME PageIInv, NEW j \in Jobs, ActEnd(j) \/ EndPlainly(j)
  PROVE  PageIInv'
<1>1. End(j, "ended") /\ UNCHANGED <<inState, aim, overtaken>> BY DEF ActEnd, EndPlainly
<1>2. /\ Whole' /\ Homes' /\ NoneBegins(j) /\ phase[j] = "executing" /\ phase'[j] = "over"
      /\ step' = [step EXCEPT ![j] = "ended"] /\ tabOf' = tabOf
      /\ signalOf' = signalOf \/ signalOf' = [signalOf EXCEPT ![tabOf[j]] = NoJob]
  BY <1>1, EndFacts
<1>3. aim' \in [Acts -> Looks \cup {NoJob}] BY <1>1 DEF PageIInv, PageTypeOK
<1>4. CASE ActEnd(j)
  <2>1. j \in Acts /\ Invalidate({tabOf[j]}) BY <1>4 DEF ActEnd
  <2>2. {tabOf[j]} \in SUBSET Tabs BY <1>2, <2>1, PageAssumption DEF PageIInv, Homes
  <2> QED BY <1>1, <1>2, <1>3, <2>1, <2>2, SchedulerKeeps
<1>5. CASE EndPlainly(j)
  <2>1. UNCHANGED <<page, refs, shot>> BY <1>5 DEF EndPlainly
  <2>2. {} \in SUBSET Tabs OBVIOUS
  <2> QED BY <1>1, <1>2, <1>3, <2>1, <2>2, SchedulerKeeps
<1> QED BY <1>4, <1>5

\* The abort of a command drops its page, if it is at work on one.
LEMMA StopKeeps ==
  ASSUME PageIInv, NEW j \in Jobs, Stop(j)
  PROVE  PageIInv'
<1> USE DEF PageIInv
<1>1. Cancel(j) /\ UNCHANGED <<step, inState, aim, signalOf, overtaken>> BY DEF Stop
<1>2. Whole' /\ NoneBegins(j) BY <1>1, CancelStep
<1>3. UNCHANGED <<tabOf, tabs, laneOf, opener>> /\ phase[j] # "new" BY <1>1 DEF Cancel, Known
<1>4. Homes' BY <1>2, <1>3, HomesKept DEF Homes
<1>5. aim' \in [Acts -> Looks \cup {NoJob}] BY <1>1 DEF PageTypeOK
<1>6. CASE phase[j] = "executing" /\ j \notin OpenJobs
  <2>1. Invalidate({tabOf[j]}) BY <1>6 DEF Stop
  <2>2. {tabOf[j]} \in SUBSET Tabs BY <1>6 DEF Homes
  <2> QED BY <1>1, <1>2, <1>3, <1>4, <1>5, <2>1, <2>2, SchedulerKeeps
<1>7. CASE ~(phase[j] = "executing" /\ j \notin OpenJobs)
  <2>1. UNCHANGED <<page, refs, shot>> BY <1>7 DEF Stop
  <2>2. {} \in SUBSET Tabs OBVIOUS
  <2> QED BY <1>1, <1>2, <1>3, <1>4, <1>5, <2>1, <2>2, SchedulerKeeps
<1> QED BY <1>6, <1>7

\* What a submission does to the phases and lanes of the jobs.
LEMMA SubmitFacts ==
  ASSUME Whole, NEW j \in Jobs, NEW l \in Lanes, phase[j] = "new", Submit(j, l), NoneBegins(j)
  PROVE  /\ UNCHANGED <<tabs, opener>> /\ phase'[j] # "new"
         /\ phase'[j] # "over" => laneOf'[j] = l
         /\ \A k \in Jobs : k # j =>
              /\ laneOf'[k] = laneOf[k] /\ (phase'[k] = "new" <=> phase[k] = "new")
              /\ phase'[k] \notin {"new", "over"} => phase[k] \notin {"new", "over"}
<1>1. phase \in [Jobs -> Phases] /\ laneOf \in [Jobs -> Lanes] BY DEF Whole, Now, Sound, Typed
<1>2. /\ UNCHANGED <<tabs, opener>>
      /\ \/ phase' = [phase EXCEPT ![j] = "over"] /\ UNCHANGED laneOf
         \/ /\ laneOf' = [laneOf EXCEPT ![j] = l]
            /\ LET q == [queue EXCEPT ![l] = Append(@, j)] IN
               Pump(q, running, IF running[l] = NoJob THEN WithLane(ready, l) ELSE ready,
                    active, [phase EXCEPT ![j] = "queued"])
  BY DEF Submit
<1>3. ASSUME NEW q, NEW rdy, Pump(q, running, rdy, active, [phase EXCEPT ![j] = "queued"])
      PROVE  phase'[j] # "new"
  BY <1>1, <1>3 DEF Pump
<1>4. phase'[j] # "new" /\ (phase'[j] # "over" => laneOf'[j] = l)
  <2>1. CASE phase' = [phase EXCEPT ![j] = "over"] /\ UNCHANGED laneOf BY <1>1, <2>1
  <2>2. CASE ~(phase' = [phase EXCEPT ![j] = "over"] /\ UNCHANGED laneOf)
    BY <1>1, <1>2, <1>3, <2>2
  <2> QED BY <2>1, <2>2
<1>5. \A k \in Jobs : k # j => laneOf'[k] = laneOf[k] BY <1>1, <1>2
<1>6. \A k \in Jobs : k # j =>
        /\ phase'[k] = "new" <=> phase[k] = "new"
        /\ phase'[k] \notin {"new", "over"} => phase[k] \notin {"new", "over"}
  BY DEF NoneBegins
<1> QED BY <1>2, <1>4, <1>5, <1>6

\* A new job for a tab that was open from the start goes to the lane of the tab.
LEMMA SubmitPageKeeps ==
  ASSUME PageIInv, NEW j \in Jobs, NEW t \in Tabs, SubmitPage(j, t)
  PROVE  PageIInv'
<1> USE DEF PageIInv
<1>1. SubmitOnTab(j, t) /\ UNCHANGED <<step, page, inState, refs, shot, signalOf, overtaken>>
  BY DEF SubmitPage
<1>2. /\ phase[j] = "new" /\ j \notin OpenJobs /\ Submit(j, LaneFor(t))
      /\ tabOf' = [tabOf EXCEPT ![j] = t] /\ LaneFor(t) \in Lanes
  BY <1>1 DEF SubmitOnTab, LaneFor, Lanes
<1>3. Whole' /\ NoneBegins(j) BY <1>1, SubmitOnTabStep
<1>4. /\ UNCHANGED <<tabs, opener>> /\ phase'[j] # "new"
      /\ phase'[j] # "over" => laneOf'[j] = LaneFor(t)
      /\ \A k \in Jobs : k # j =>
           /\ laneOf'[k] = laneOf[k] /\ (phase'[k] = "new" <=> phase[k] = "new")
           /\ phase'[k] \notin {"new", "over"} => phase[k] \notin {"new", "over"}
  BY <1>2, <1>3, SubmitFacts
<1>5. tabOf'[j] = t /\ \A k \in Jobs : k # j => tabOf'[k] = tabOf[k]
  BY <1>2 DEF Whole, Surroundings
<1>6. Homes'
  <2>1. \A u \in OldTabs : u \in tabs' /\ opener'[u] = NoJob BY <1>4 DEF Homes
  <2>2. \A k \in Jobs \ OpenJobs : IF phase'[k] = "new" THEN tabOf'[k] = NoTab ELSE tabOf'[k] \in Tabs
    BY <1>4, <1>5 DEF Homes
  <2>3. ASSUME NEW k \in Jobs, tabOf'[k] \in OldTabs
        PROVE  k \notin OpenJobs /\ (phase'[k] \notin {"new", "over"} => laneOf'[k] = tabOf'[k])
    <3>1. CASE k = j
      <4>1. t \in OldTabs => LaneFor(t) = t BY DEF Homes, LaneFor
      <4> QED BY <1>2, <1>4, <1>5, <2>3, <3>1, <4>1
    <3>2. CASE k # j BY <1>4, <1>5, <2>3, <3>2 DEF Homes
    <3> QED BY <3>1, <3>2
  <2> QED BY <2>1, <2>2, <2>3 DEF Homes
<1>7. step[j] = "start" BY <1>2 DEF Places
<1>8. /\ \A k \in Looks \cup Acts : step[k] # "start" => tabOf'[k] = tabOf[k]
      /\ \A k \in Jobs : phase[k] = "executing" => tabOf'[k] = tabOf[k] \/ tabOf'[k] \notin OldTabs
  BY <1>2, <1>5, <1>7, PageAssumption
<1>9. aim' \in [Acts -> Looks \cup {NoJob}] BY DEF SubmitPage, PageTypeOK, Told
<1>10. {} \in SUBSET Tabs /\ UNCHANGED <<page, refs, shot>> BY <1>1
<1> QED BY <1>1, <1>3, <1>6, <1>8, <1>9, <1>10, SchedulerKeeps

\* A `tabs.open` has no tab yet.
LEMMA SubmitOpenKeeps ==
  ASSUME PageIInv, NEW j \in Jobs, SubmitOpen(j), UNCHANGED pageVars
  PROVE  PageIInv'
<1> USE DEF PageIInv
<1>1. /\ phase[j] = "new" /\ j \in OpenJobs /\ Submit(j, OpenLane) /\ UNCHANGED tabOf
      /\ OpenLane \in Lanes
  BY DEF SubmitOpen, Lanes
<1>2. Whole' /\ NoneBegins(j) BY SubmitOpenStep
<1>3. /\ UNCHANGED <<tabs, opener>>
      /\ \A k \in Jobs : k # j =>
           /\ laneOf'[k] = laneOf[k] /\ (phase'[k] = "new" <=> phase[k] = "new")
           /\ phase'[k] \notin {"new", "over"} => phase[k] \notin {"new", "over"}
  BY <1>1, <1>2, SubmitFacts
<1>4. tabOf[j] \notin OldTabs BY <1>1 DEF Homes
<1>5. Homes'
  <2>1. \A k \in Jobs \ OpenJobs : IF phase'[k] = "new" THEN tabOf'[k] = NoTab ELSE tabOf'[k] \in Tabs
    BY <1>1, <1>3 DEF Homes
  <2>2. \A k \in Jobs : tabOf'[k] \in OldTabs =>
          k \notin OpenJobs /\ (phase'[k] \notin {"new", "over"} => laneOf'[k] = tabOf'[k])
    BY <1>1, <1>3, <1>4 DEF Homes
  <2> QED BY <1>3, <2>1, <2>2 DEF Homes
<1>6. /\ aim' \in [Acts -> Looks \cup {NoJob}] /\ {} \in SUBSET Tabs
      /\ UNCHANGED <<step, page, inState, refs, shot, signalOf, overtaken>>
  BY DEF pageVars, PageTypeOK
<1> QED BY <1>1, <1>2, <1>5, <1>6, SchedulerKeeps

\* The tab that an opening job makes is none of these tabs.
LEMMA OpenTabKeeps ==
  ASSUME PageIInv, NEW j \in Jobs, NEW t \in Tabs, OpenTab(j, t)
  PROVE  PageIInv'
<1> USE DEF PageIInv
<1>1. /\ Create(j, t) /\ signalOf' = [signalOf EXCEPT ![t] = j]
      /\ UNCHANGED <<step, page, inState, refs, shot, aim, overtaken>>
  BY DEF OpenTab
<1>2. /\ j \in OpenJobs /\ t \notin tabs /\ tabs' = tabs \cup {t}
      /\ opener' = [opener EXCEPT ![t] = j] /\ tabOf' = [tabOf EXCEPT ![j] = t]
      /\ UNCHANGED <<phase, laneOf>>
  BY <1>1 DEF Create
<1>3. Whole' BY <1>1, CreateStep
<1>4. t \notin OldTabs BY <1>2 DEF Homes
<1>5. tabOf'[j] = t /\ \A k \in Jobs : k # j => tabOf'[k] = tabOf[k]
  BY <1>2 DEF Whole, Surroundings
<1>6. NoneBegins(j) BY <1>2 DEF NoneBegins
<1>7. Homes'
  <2>1. \A u \in OldTabs : u \in tabs' /\ opener'[u] = NoJob
    BY <1>2, <1>4 DEF Homes, Whole, Surroundings
  <2> QED BY <1>2, <1>4, <1>5, <2>1 DEF Homes
<1>8. /\ \A k \in Looks \cup Acts : step[k] # "start" => tabOf'[k] = tabOf[k]
      /\ \A k \in Jobs : phase[k] = "executing" => tabOf'[k] = tabOf[k] \/ tabOf'[k] \notin OldTabs
  BY <1>2, <1>4, <1>5, PageAssumption
<1>9. aim' \in [Acts -> Looks \cup {NoJob}] /\ {} \in SUBSET Tabs BY <1>1 DEF PageTypeOK
<1> QED BY <1>1, <1>3, <1>4, <1>6, <1>7, <1>8, <1>9, SchedulerKeeps

\* The signal of the tab becomes that of the command that begins.
LEMMA ExecuteKeeps ==
  ASSUME PageIInv, NEW j \in Jobs, Execute(j)
  PROVE  PageIInv'
<1> USE DEF PageIInv
<1>1. /\ Begin(j) /\ UNCHANGED <<step, page, inState, refs, shot, aim, overtaken>>
      /\ signalOf' = IF phase'[j] = "executing" /\ tabOf[j] # NoTab
                     THEN [signalOf EXCEPT ![tabOf[j]] = j] ELSE signalOf
  BY DEF Execute
<1>2. /\ Whole'
      /\ \/ phase' = [phase EXCEPT ![j] = "executing"]
         \/ NoneBegins(j) /\ phase'[j] = "over"
  BY <1>1, BeginStep
<1>3. phase[j] = "picked" /\ UNCHANGED <<tabOf, tabs, laneOf, opener>> BY <1>1 DEF Begin
<1>4. Homes' BY <1>2, <1>3, HomesKept DEF Homes
<1>5. CASE NoneBegins(j) /\ phase'[j] = "over"
  <2>1. UNCHANGED signalOf BY <1>1, <1>5
  <2>2. aim' \in [Acts -> Looks \cup {NoJob}] /\ {} \in SUBSET Tabs BY <1>1 DEF PageTypeOK
  <2> QED BY <1>1, <1>2, <1>3, <1>4, <1>5, <2>1, <2>2, SchedulerKeeps
<1>6. CASE phase' = [phase EXCEPT ![j] = "executing"]
  <2>1. /\ phase'[j] = "executing" /\ \A k \in Jobs : k # j => phase'[k] = phase[k]
        /\ step[j] = "start" /\ NoTab \notin Tabs /\ OldTabs \subseteq Tabs
        /\ Looks \subseteq Jobs /\ Acts \subseteq Jobs
    BY <1>3, <1>6, LaneAssumption, PageAssumption DEF Places, Whole, Now, Sound, Typed
  <2>2. tabOf \in [Jobs -> Tabs \cup {NoTab}] BY DEF Whole, Surroundings
  <2>3. PageTypeOK' BY <1>1, <2>1, <2>2 DEF PageTypeOK
  <2>4. Places' BY <1>1, <2>1 DEF Places
  <2>5. Signals'
    <3> SUFFICES ASSUME NEW k \in Jobs, phase'[k] = "executing", tabOf'[k] \in OldTabs
                 PROVE  signalOf'[tabOf'[k]] = k
      BY DEF Signals
    <3>1. CASE k = j BY <1>1, <1>3, <2>1, <3>1 DEF PageTypeOK
    <3>2. CASE k # j
      <4>1. phase[k] = "executing" /\ signalOf[tabOf[k]] = k /\ tabOf[k] \in Tabs
        BY <1>3, <2>1, <3>2 DEF Signals
      <4>2. tabOf[k] # tabOf[j] BY <1>3, <3>2, <4>1, Alone DEF Busy
      <4> QED BY <1>1, <1>3, <4>1, <4>2 DEF PageTypeOK
    <3> QED BY <3>1, <3>2
  <2>6. Kept' BY <1>1, <1>3 DEF Kept, Shown
  <2>7. Reading' BY <1>1, <1>3, <2>1 DEF Reading, Running
  <2>8. Acting' BY <1>1, <1>3, <2>1 DEF Acting, Running
  <2> QED BY <1>2, <1>4, <2>3, <2>4, <2>5, <2>6, <2>7, <2>8
<1> QED BY <1>2, <1>5, <1>6

(***************************************************************************)
(* Every step.                                                             *)
(***************************************************************************)

\* The tab of a command at work on a page.
LEMMA OnTab ==
  ASSUME Homes, NEW j \in Looks \cup Acts, phase[j] = "executing"
  PROVE  tabOf[j] \in Tabs
BY PageAssumption DEF Homes

\* Actions.
LEMMA ActsKeep ==
  ASSUME PageIInv, NEW a \in Jobs, ActStart(a) \/ Navigate(a) \/ ActInput(a)
  PROVE  PageIInv'
<1>1. a \in Acts /\ phase[a] = "executing" BY DEF ActStart, Navigate, ActInput, Running
<1>2. tabOf[a] \in Tabs BY <1>1, OnTab DEF PageIInv
<1>3. CASE ActStart(a)
  <2>1. /\ Invalidate({tabOf[a]}) /\ step[a] = "start" /\ step' = [step EXCEPT ![a] = "acting"]
        /\ UNCHANGED <<vars, inState, aim, signalOf, overtaken>>
    BY <1>3 DEF ActStart, UseUp, Running
  <2>2. /\ {tabOf[a]} \in SUBSET Tabs /\ tabOf[a] \in {tabOf[a]}
        /\ \E b \in Acts : /\ phase[b] = "executing" /\ step[b] = "start" /\ tabOf[b] \in {tabOf[a]}
                           /\ \/ step' = [step EXCEPT ![b] = "acting"]
                              \/ step' = [step EXCEPT ![b] = "loading"]
    BY <1>1, <1>2, <2>1
  <2> QED BY <1>2, <2>1, <2>2, ChangeKeeps
<1>4. CASE Navigate(a)
  <2>1. /\ Invalidate({tabOf[a]}) /\ step[a] = "start" /\ step' = [step EXCEPT ![a] = "loading"]
        /\ Changed(tabOf[a]) /\ UNCHANGED <<vars, inState, aim, signalOf>>
    BY <1>4 DEF Navigate, UseUp, Running
  <2>2. /\ {tabOf[a]} \in SUBSET Tabs /\ tabOf[a] \in {tabOf[a]}
        /\ \E b \in Acts : /\ phase[b] = "executing" /\ step[b] = "start" /\ tabOf[b] \in {tabOf[a]}
                           /\ \/ step' = [step EXCEPT ![b] = "acting"]
                              \/ step' = [step EXCEPT ![b] = "loading"]
    BY <1>1, <1>2, <2>1
  <2> QED BY <1>2, <2>1, <2>2, ChangeKeeps
<1>5. CASE ActInput(a)
  <2>1. /\ Running(a, "acting") /\ Changed(tabOf[a])
        /\ UNCHANGED <<vars, step, page, inState, refs, shot, aim, signalOf>>
    BY <1>5 DEF ActInput
  <2>2. tabOf[a] \in OldTabs => page[tabOf[a]] = NoJob BY <1>1, <2>1 DEF PageIInv, Acting
  <2>3. {} \in SUBSET Tabs OBVIOUS
  <2> QED BY <1>2, <2>1, <2>2, <2>3, ChangeKeeps
<1> QED BY <1>3, <1>4, <1>5

\* Events of tabs and debugger, and the reset of every state.
LEMMA EventsKeep ==
  ASSUME PageIInv, DropStates \/ \E t \in Tabs : PageEvent(t)
  PROVE  PageIInv'
<1>1. CASE DropStates
  <2>1. PICK t \in Tabs : page[t] # NoJob BY <1>1 DEF DropStates
  <2>2. /\ Invalidate(Tabs) /\ UNCHANGED <<vars, step, inState, aim, signalOf, overtaken>>
        /\ Tabs \in SUBSET Tabs
    BY <1>1 DEF DropStates
  <2> QED BY <2>1, <2>2, ChangeKeeps
<1>2. CASE \E t \in Tabs : PageEvent(t)
  <2>1. PICK t \in Tabs : PageEvent(t) BY <1>2
  <2>2. /\ Invalidate({t}) /\ (Changed(t) \/ UNCHANGED overtaken)
        /\ UNCHANGED <<vars, step, inState, aim, signalOf>> /\ {t} \in SUBSET Tabs
    BY <2>1 DEF PageEvent
  <2> QED BY <2>2, ChangeKeeps
<1> QED BY <1>1, <1>2

LEMMA PageStep == PageIInv /\ [PageNext]_allVars => PageIInv'
<1> SUFFICES ASSUME PageIInv, [PageNext]_allVars PROVE PageIInv' OBVIOUS
<1>1. CASE UNCHANGED allVars
  <2>1. UNCHANGED <<vars, step, page, inState, refs, shot, aim, signalOf, overtaken>>
    BY <1>1 DEF allVars, pageVars
  <2>2. Whole' /\ Homes' BY <2>1, Apart
  <2>3. UNCHANGED <<phase, tabOf>> BY <2>1 DEF vars
  <2> QED BY <2>1, <2>2, <2>3
          DEF PageIInv, PageTypeOK, Places, Signals, Kept, Shown, Reading, Acting, Running
<1>2. CASE PageNext
  BY <1>2, EventsKeep, SubmitOpenKeeps, ExecuteKeeps, OtherEndsKeep, StopKeeps, LookStartKeeps,
     LookEndKeeps, ActsKeep, SubmitPageKeeps, OpenTabKeeps DEF PageNext
<1> QED BY <1>1, <1>2

LEMMA PageAlways == PageSpec => []PageIInv
<1> QED BY InitPages, PageStep, PTL DEF PageSpec

(***************************************************************************)
(* Theorems.                                                               *)
(***************************************************************************)

\* Whatever the commands do to their pages, the scheduler under them keeps to its
\* specification: observations and signals take no part in the choice of a job.
THEOREM PageWorkSchedules == PageSpec => Spec
<1>1. PageInit => Init BY DEF PageInit
<1>2. [PageNext]_allVars => [Next]_vars
  <2> SUFFICES ASSUME [PageNext]_allVars PROVE Next \/ UNCHANGED vars OBVIOUS
  <2>1. CASE UNCHANGED allVars BY <2>1 DEF allVars
  <2>2. CASE DropStates BY <2>2 DEF DropStates
  <2>3. ASSUME NEW t \in Tabs, PageEvent(t) PROVE UNCHANGED vars BY <2>3 DEF PageEvent
  <2>4. ASSUME NEW j \in Jobs, LookStart(j) \/ ActStart(j) \/ Navigate(j) \/ ActInput(j)
        PROVE  UNCHANGED vars
    BY <2>4 DEF LookStart, ActStart, Navigate, ActInput
  <2>5. ASSUME NEW j \in Jobs, LookEnd(j) \/ ActEnd(j) \/ EndPlainly(j) PROVE Settle(j)
    BY <2>5 DEF LookEnd, ActEnd, EndPlainly, End
  <2>6. ASSUME NEW j \in Jobs, Execute(j) PROVE Begin(j) BY <2>6 DEF Execute
  <2>7. ASSUME NEW j \in Jobs, Stop(j) PROVE Cancel(j) BY <2>7 DEF Stop
  <2>8. ASSUME NEW j \in Jobs, NEW t \in Tabs, SubmitPage(j, t) \/ OpenTab(j, t)
        PROVE  SubmitOnTab(j, t) \/ Create(j, t)
    BY <2>8 DEF SubmitPage, OpenTab
  <2> QED BY <2>1, <2>2, <2>3, <2>4, <2>5, <2>6, <2>7, <2>8 DEF PageNext, Next
<1> QED BY <1>1, <1>2, PTL DEF PageSpec, Spec

\* So its lanes, slots and order hold with pages and events in play.
THEOREM PagesKeepLanes == PageSpec => []SchedulerInv /\ StartsInOrder /\ CanceledNeverStarts
<1> QED BY PageWorkSchedules, SchedulerHolds, LanesFIFO, CanceledStayOut, PTL

\* An observation a client can still use was read after the page's last change: an action
\* uses it up before its first input, and nobody else is at work on the tab.
THEOREM ObservationsFresh == PageSpec => []ObservationsAreFresh
<1>1. PageIInv => ObservationsAreFresh BY DEF PageIInv, Kept, Shown, ObservationsAreFresh
<1> QED BY <1>1, PageAlways, PTL

\* A canceled action sends no further input: the signal of its tab is its own until it ends.
THEOREM PagesStop == PageSpec => []PageInv
<1>1. PageIInv => PageInv
  <2>1. Acts \subseteq Jobs /\ NoJob \notin Jobs BY PageAssumption, LaneAssumption
  <2> QED BY <2>1 DEF PageIInv, PageInv, AbortedStops, Signals, MaySend, Running
<1> QED BY <1>1, PageAlways, PTL
===============================================================================

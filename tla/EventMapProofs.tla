---------------------------- MODULE EventMapProofs ----------------------------
(***************************************************************************)
(* Lemmas about the multimaps of EventMap: where an event goes, that the   *)
(* events stay in the order of their times, and what becomes of the events *)
(* of one kind, taken together, when one comes or goes.                    *)
(***************************************************************************)
EXTENDS EventMap, FiniteSetTheorems, SequenceTheorems, WellFoundedInduction, TLAPS

Sorted(map) == \A i, j \in 1 .. Len(map) : i <= j => map[i].time <= map[j].time

(* Every nonempty set of natural numbers has a least element.              *)
LEMMA LeastNumber ==
    ASSUME NEW S \in SUBSET Nat, S # {}
    PROVE  \E k \in S : \A n \in S : k <= n
<1>1. PICK k \in S : \A n \in S : <<n, k>> \notin OpToRel(<, Nat)
  BY NatLessThanWellFounded, WFMin
<1>2. \A n \in S : ~(n < k)
  BY <1>1 DEF OpToRel
<1> QED
  BY <1>2

(* In an ordered map the events due by a time are the first ones.          *)
LEMMA DueFirst ==
    ASSUME NEW R, \A r \in R : r.time \in Int,
           NEW map \in Seq(R), Sorted(map), NEW t \in Int
    PROVE  \E n \in 0 .. Len(map) : {i \in DOMAIN map : map[i].time <= t} = 1 .. n
<1> DEFINE S == {k \in 1 .. Len(map) + 1 : \A i \in k .. Len(map) : map[i].time > t}
<1>1. Len(map) \in Nat /\ DOMAIN map = 1 .. Len(map) /\ S \subseteq Nat
  OBVIOUS
<1>2. Len(map) + 1 \in S
  BY <1>1
<1>3. PICK k \in S : \A n \in S : k <= n
  BY <1>1, <1>2, LeastNumber
<1>4. k \in 1 .. Len(map) + 1 /\ \A i \in k .. Len(map) : map[i].time > t
  BY <1>3
<1>5. \A i \in 1 .. Len(map) : map[i].time \in Int
  <2>1. \A i \in 1 .. Len(map) : map[i] \in R
    OBVIOUS
  <2> QED
    BY <2>1
<1>6. ASSUME NEW i \in 1 .. k - 1
      PROVE  map[i].time <= t
  <2>1. k - 1 \in 1 .. Len(map) /\ k - 1 \notin S
    BY <1>3, <1>4, <1>1
  <2>2. PICK j \in k - 1 .. Len(map) : ~(map[j].time > t)
    BY <2>1, <1>1
  <2>3. j = k - 1
    <3>1. j # k - 1 => j \in k .. Len(map)
      BY <2>1, <1>1, <1>4
    <3> QED
      BY <2>2, <3>1, <1>4, Zenon
  <2>4. map[i].time <= map[k - 1].time
    BY <2>1, <1>1, <1>4 DEF Sorted
  <2> QED
    BY <2>1, <2>2, <2>3, <2>4, <1>1, <1>4, <1>5
<1>7. {i \in DOMAIN map : map[i].time <= t} = 1 .. k - 1
  BY <1>1, <1>4, <1>5, <1>6
<1>8. k - 1 \in 0 .. Len(map)
  BY <1>4, <1>1
<1> QED
  BY <1>7, <1>8

(* What InsertAt returns.                                                  *)
LEMMA InsertAtShape ==
    ASSUME NEW S, NEW s \in Seq(S), NEW k \in 1 .. Len(s) + 1, NEW e \in S
    PROVE  /\ InsertAt(s, k, e) \in Seq(S)
           /\ Len(InsertAt(s, k, e)) = Len(s) + 1
           /\ \A i \in 1 .. Len(s) + 1 :
                InsertAt(s, k, e)[i] = IF i < k THEN s[i] ELSE IF i = k THEN e ELSE s[i - 1]
<1>1. Len(s) \in Nat /\ k \in Nat /\ 1 <= k /\ k <= Len(s) + 1
  OBVIOUS
<1>2. \A i \in 1 .. Len(s) : s[i] \in S
  OBVIOUS
<1>3. PICK left \in Seq(S) : /\ left = SubSeq(s, 1, k - 1) /\ Len(left) = k - 1
                             /\ \A i \in 1 .. k - 1 : left[i] = s[i]
  <2>1. k - 1 \in Int /\ \A i \in 1 .. k - 1 : s[i] \in S
    BY <1>1, <1>2
  <2>2. /\ SubSeq(s, 1, k - 1) \in Seq(S)
        /\ Len(SubSeq(s, 1, k - 1)) = IF 1 <= k - 1 THEN k - 1 - 1 + 1 ELSE 0
        /\ \A i \in 1 .. k - 1 - 1 + 1 : SubSeq(s, 1, k - 1)[i] = s[1 + i - 1]
    BY <2>1, SubSeqProperties
  <2>3. /\ (IF 1 <= k - 1 THEN k - 1 - 1 + 1 ELSE 0) = k - 1 /\ k - 1 - 1 + 1 = k - 1
        /\ \A i \in 1 .. k - 1 : 1 + i - 1 = i
    BY <1>1
  <2> QED
    BY <2>2, <2>3, Zenon
<1>4. PICK right \in Seq(S) : /\ right = SubSeq(s, k, Len(s)) /\ Len(right) = Len(s) - k + 1
                              /\ \A i \in 1 .. Len(s) - k + 1 : right[i] = s[k + i - 1]
  <2>1. \A i \in k .. Len(s) : s[i] \in S
    BY <1>1, <1>2
  <2>2. /\ SubSeq(s, k, Len(s)) \in Seq(S)
        /\ Len(SubSeq(s, k, Len(s))) = IF k <= Len(s) THEN Len(s) - k + 1 ELSE 0
        /\ \A i \in 1 .. Len(s) - k + 1 : SubSeq(s, k, Len(s))[i] = s[k + i - 1]
    BY <1>1, <2>1, SubSeqProperties
  <2>3. (IF k <= Len(s) THEN Len(s) - k + 1 ELSE 0) = Len(s) - k + 1
    BY <1>1
  <2> QED
    BY <2>2, <2>3, Zenon
<1>5. PICK start \in Seq(S) : /\ start = left \o <<e>> /\ Len(start) = k
                              /\ \A i \in 1 .. k : start[i] = IF i < k THEN s[i] ELSE e
  <2>1. <<e>> \in Seq(S) /\ Len(<<e>>) = 1 /\ <<e>>[1] = e
    OBVIOUS
  <2>2. PICK t \in Seq(S) :
          /\ t = left \o <<e>> /\ Len(t) = Len(left) + Len(<<e>>)
          /\ \A i \in 1 .. Len(left) + Len(<<e>>) :
                t[i] = IF i <= Len(left) THEN left[i] ELSE <<e>>[i - Len(left)]
    <3>1. /\ left \o <<e>> \in Seq(S) /\ Len(left \o <<e>>) = Len(left) + Len(<<e>>)
          /\ \A i \in 1 .. Len(left) + Len(<<e>>) : (left \o <<e>>)[i] =
                IF i <= Len(left) THEN left[i] ELSE <<e>>[i - Len(left)]
      BY <2>1, ConcatProperties
    <3> QED
      BY <3>1, Zenon
  <2>3. Len(left) + Len(<<e>>) = k /\ Len(left) = k - 1
    BY <1>1, <1>3, <2>1
  <2>4. \A i \in 1 .. k : t[i] = IF i <= k - 1 THEN left[i] ELSE <<e>>[i - (k - 1)]
    BY <2>2, <2>3, Zenon
  <2>5. \A i \in 1 .. k : IF i < k THEN i <= k - 1 /\ i \in 1 .. k - 1
                                   ELSE ~(i <= k - 1) /\ i - (k - 1) = 1
    BY <1>1
  <2>6. \A i \in 1 .. k : t[i] = IF i < k THEN s[i] ELSE e
    BY <2>1, <2>4, <2>5, <1>3, Zenon
  <2> QED
    BY <2>2, <2>3, <2>6, Zenon
<1>6. PICK t \in Seq(S) : /\ t = start \o right /\ Len(t) = Len(s) + 1
                          /\ \A i \in 1 .. Len(s) + 1 :
                                t[i] = IF i <= k THEN start[i] ELSE right[i - k]
  <2>1. PICK t \in Seq(S) :
          /\ t = start \o right /\ Len(t) = Len(start) + Len(right)
          /\ \A i \in 1 .. Len(start) + Len(right) :
                t[i] = IF i <= Len(start) THEN start[i] ELSE right[i - Len(start)]
    <3>1. /\ start \o right \in Seq(S) /\ Len(start \o right) = Len(start) + Len(right)
          /\ \A i \in 1 .. Len(start) + Len(right) : (start \o right)[i] =
                IF i <= Len(start) THEN start[i] ELSE right[i - Len(start)]
      BY ConcatProperties
    <3> QED
      BY <3>1, Zenon
  <2>2. Len(start) + Len(right) = Len(s) + 1 /\ Len(start) = k
    <3>1. Len(start) = k /\ Len(right) = Len(s) - k + 1
      BY <1>4, <1>5, Zenon
    <3>2. k + (Len(s) - k + 1) = Len(s) + 1
      BY <1>1
    <3> QED
      BY <3>1, <3>2, Zenon
  <2> QED
    BY <2>1, <2>2, Zenon
<1>7. InsertAt(s, k, e) = t
  BY <1>3, <1>4, <1>5, <1>6, Zenon DEF InsertAt
<1>8. \A i \in 1 .. Len(s) + 1 : i > k => right[i - k] = s[i - 1]
  BY <1>1, <1>4
<1>9. \A i \in 1 .. Len(s) + 1 :
        t[i] = IF i < k THEN s[i] ELSE IF i = k THEN e ELSE s[i - 1]
  <2> TAKE i \in 1 .. Len(s) + 1
  <2>1. CASE i <= k
    BY <2>1, <1>1, <1>5, <1>6
  <2>2. CASE i > k
    BY <2>2, <1>1, <1>6, <1>8
  <2> QED
    BY <2>1, <2>2, <1>1
<1> QED
  BY <1>6, <1>7, <1>9, Zenon

(* Where Schedule puts a new event.                                        *)
LEMMA ScheduleShape ==
    ASSUME NEW R, \A r \in R : r.time \in Int,
           NEW map \in Seq(R), Sorted(map), NEW e \in R
    PROVE  \E k \in 1 .. Len(map) + 1 :
             /\ Schedule(map, e) \in Seq(R)
             /\ Len(Schedule(map, e)) = Len(map) + 1
             /\ \A i \in 1 .. Len(map) + 1 :
                  Schedule(map, e)[i] = IF i < k THEN map[i]
                                        ELSE IF i = k THEN e ELSE map[i - 1]
             /\ \A i \in 1 .. Len(map) : IF i < k THEN map[i].time <= e.time
                                                  ELSE map[i].time > e.time
<1>1. PICK n \in 0 .. Len(map) : {i \in DOMAIN map : map[i].time <= e.time} = 1 .. n
  BY DueFirst
<1>2. Len(map) \in Nat /\ DOMAIN map = 1 .. Len(map) /\ n \in Nat
  OBVIOUS
<1>3. Cardinality(1 .. n) = n
  BY <1>2, FS_Interval
<1>4. Schedule(map, e) = InsertAt(map, 1 + n, e)
  BY <1>1, <1>3 DEF Schedule
<1>5. PICK k \in 1 .. Len(map) + 1 : k = 1 + n
  BY <1>2
<1>6. \A i \in 1 .. Len(map) : IF i < k THEN map[i].time <= e.time
                                      ELSE map[i].time > e.time
  <2>1. \A i \in 1 .. Len(map) : map[i] \in R
    OBVIOUS
  <2>2. \A i \in 1 .. Len(map) : map[i].time \in Int /\ e.time \in Int
    BY <2>1
  <2>3. \A i \in 1 .. Len(map) : i <= n <=> map[i].time <= e.time
    BY <1>1, <1>2
  <2> QED
    BY <2>2, <2>3, <1>2, <1>5
<1> DEFINE s == InsertAt(map, k, e)
<1>7. /\ s \in Seq(R) /\ Len(s) = Len(map) + 1
      /\ \A i \in 1 .. Len(map) + 1 : s[i] = IF i < k THEN map[i]
                                             ELSE IF i = k THEN e ELSE map[i - 1]
  BY InsertAtShape
<1> QED
  BY <1>4, <1>5, <1>6, <1>7, Zenon

(* A new event leaves the events in order.                                 *)
LEMMA ScheduleSorted ==
    ASSUME NEW R, \A r \in R : r.time \in Int,
           NEW map \in Seq(R), Sorted(map), NEW e \in R
    PROVE  Sorted(Schedule(map, e))
<1> DEFINE s == Schedule(map, e)
<1>1. Len(map) \in Nat /\ \A i \in 1 .. Len(map) : map[i] \in R
  OBVIOUS
<1>2. PICK k \in 1 .. Len(map) + 1 :
        /\ s \in Seq(R) /\ Len(s) = Len(map) + 1
        /\ \A i \in 1 .. Len(map) + 1 :
             s[i] = IF i < k THEN map[i] ELSE IF i = k THEN e ELSE map[i - 1]
        /\ \A i \in 1 .. Len(map) : IF i < k THEN map[i].time <= e.time
                                             ELSE map[i].time > e.time
  BY ScheduleShape
<1> HIDE DEF s
<1>4. \A i, j \in 1 .. Len(s) : i < j => s[i].time <= s[j].time
  <2> TAKE i, j \in 1 .. Len(s)
  <2> HAVE i < j
  <2>1. \A m \in 1 .. Len(map) : map[m].time \in Int
    BY <1>1
  <2>2. e.time \in Int
    OBVIOUS
  <2>3. \A m, n \in 1 .. Len(map) : m <= n => map[m].time <= map[n].time
    BY Zenon DEF Sorted
  <2>4. CASE i < k /\ j < k
    <3>1. i \in 1 .. Len(map) /\ j \in 1 .. Len(map) /\ i <= j
      BY <2>4, <1>2, <1>1
    <3>2. s[i] = map[i] /\ s[j] = map[j]
      BY <2>4, <1>2, <1>1
    <3> QED
      BY <2>3, <3>1, <3>2
  <2>5. CASE i < k /\ j = k
    <3>1. i \in 1 .. Len(map) /\ s[i] = map[i] /\ s[j] = e
      BY <2>5, <1>2, <1>1
    <3> QED
      BY <2>5, <3>1, <1>2
  <2>6. CASE i < k /\ j > k
    <3>1. i \in 1 .. Len(map) /\ j - 1 \in 1 .. Len(map) /\ i <= j - 1
      BY <2>6, <1>2, <1>1
    <3>2. s[i] = map[i] /\ s[j] = map[j - 1]
      BY <2>6, <1>2, <1>1
    <3> QED
      BY <2>3, <3>1, <3>2
  <2>7. CASE i = k
    <3>1. j - 1 \in 1 .. Len(map) /\ s[j] = map[j - 1] /\ s[i] = e /\ ~(j - 1 < k)
      BY <2>7, <1>2, <1>1
    <3> QED
      BY <2>1, <2>2, <3>1, <1>2
  <2>8. CASE i > k
    <3>1. i - 1 \in 1 .. Len(map) /\ j - 1 \in 1 .. Len(map) /\ i - 1 <= j - 1
      BY <2>8, <1>2, <1>1
    <3>2. s[i] = map[i - 1] /\ s[j] = map[j - 1]
      BY <2>8, <1>2, <1>1
    <3> QED
      BY <2>3, <3>1, <3>2
  <2> QED
    BY <2>4, <2>5, <2>6, <2>7, <2>8, <1>2, <1>1
<1>5. Sorted(s)
  <2>1. \A i \in 1 .. Len(s) : s[i] \in R
    BY <1>2
  <2>2. \A i \in 1 .. Len(s) : s[i].time \in Int
    BY <2>1
  <2>3. \A i, j \in 1 .. Len(s) : i <= j => i < j \/ i = j
    BY <1>1, <1>2
  <2> QED
    BY <1>4, <2>2, <2>3 DEF Sorted
<1> QED
  BY <1>5 DEF s

-----------------------------------------------------------------------------
(* Several events                                                          *)

LEMMA InductionOnSet ==
    ASSUME NEW P, 0 \in P, \A k \in Nat : k \in P => k + 1 \in P
    PROVE  Nat \subseteq P
<1> SUFFICES ASSUME Nat \ P # {}
             PROVE  FALSE
  OBVIOUS
<1>1. PICK m \in Nat \ P : \A n \in Nat \ P : m <= n
  BY LeastNumber
<1>2. m # 0 /\ m - 1 \in Nat /\ m - 1 + 1 = m
  BY <1>1
<1>3. m - 1 \in P
  BY <1>1, <1>2
<1> QED
  BY <1>1, <1>2, <1>3

LEMMA MaxIs ==
    ASSUME NEW I \in SUBSET Int, NEW m \in I, \A n \in I : n <= m
    PROVE  Max(I) = m
<1>1. \A n \in I : m >= n
  OBVIOUS
<1>2. PICK k \in I : k = Max(I) /\ \A n \in I : k >= n
  BY <1>1 DEF Max
<1> QED
  BY <1>2

(* A set of numbers up to n has a greatest one.                            *)
LEMMA MaxIn ==
    ASSUME NEW n \in Nat, NEW I \in SUBSET (1 .. n), I # {}
    PROVE  Max(I) \in I /\ \A i \in I : i <= Max(I)
<1>1. {n - i : i \in I} \in SUBSET Nat /\ {n - i : i \in I} # {}
  <2>1. \A i \in I : n - i \in Nat
    OBVIOUS
  <2> QED
    BY <2>1
<1>2. PICK k \in {n - i : i \in I} : \A j \in {n - i : i \in I} : k <= j
  BY <1>1, LeastNumber
<1>3. PICK m \in I : k = n - m
  BY <1>2
<1>4. \A i \in I : n - m <= n - i
  BY <1>2, <1>3
<1>5. I \in SUBSET Int /\ \A i \in I : i <= m
  BY <1>4
<1>6. Max(I) = m
  BY <1>5, MaxIs
<1> QED
  BY <1>5, <1>6

\* One event more, by its time or at the end.
Put(ordered, m, e) == IF ordered THEN Schedule(m, e) ELSE Append(m, e)

\* f tells what the events at the positions of each part of I make of base.
Building(ordered, base, at, I, f) ==
    f = [s \in SUBSET I |->
            IF s = {} THEN base ELSE Put(ordered, f[s \ {Max(s)}], at[Max(s)])]

LEMMA BuildingExists ==
    ASSUME NEW ordered, NEW base, NEW at
    PROVE  \A n \in Nat : \A I \in SUBSET (1 .. n) : \E f : Building(ordered, base, at, I, f)
<1> DEFINE P == {n \in Nat : \A I \in SUBSET (1 .. n) :
                                \E f : Building(ordered, base, at, I, f)}
<1>1. 0 \in P
  <2> SUFFICES ASSUME NEW I \in SUBSET (1 .. 0)
               PROVE  \E f : Building(ordered, base, at, I, f)
    OBVIOUS
  <2> DEFINE f == [s \in SUBSET I |-> base]
             g == [s \in SUBSET I |->
                     IF s = {} THEN base ELSE Put(ordered, f[s \ {Max(s)}], at[Max(s)])]
  <2>1. \A s \in SUBSET I : s = {}
    OBVIOUS
  <2>2. f = [s \in SUBSET I |-> f[s]] /\ g = [s \in SUBSET I |-> g[s]]
    OBVIOUS
  <2>3. \A s \in SUBSET I : f[s] = g[s]
    BY <2>1
  <2>4. f = g
    <3> HIDE DEF f, g
    <3> QED
      BY <2>2, <2>3
  <2>5. Building(ordered, base, at, I, f)
    <3> HIDE DEF f
    <3> QED
      BY <2>4, Zenon DEF Building
  <2> QED
    BY <2>5
<1>2. ASSUME NEW n \in Nat, n \in P, NEW I \in SUBSET (1 .. n + 1)
      PROVE  \E f : Building(ordered, base, at, I, f)
  <2>1. CASE n + 1 \notin I
    <3>1. I \in SUBSET (1 .. n)
      BY <2>1
    <3> QED
      BY <1>2, <3>1
  <2>2. CASE n + 1 \in I
    <3>1. I \ {n + 1} \in SUBSET (1 .. n)
      OBVIOUS
    <3>2. PICK f : Building(ordered, base, at, I \ {n + 1}, f)
      BY <1>2, <3>1
    <3> DEFINE h == [s \in SUBSET I |->
                       IF n + 1 \in s THEN Put(ordered, f[s \ {n + 1}], at[n + 1]) ELSE f[s]]
               g == [s \in SUBSET I |->
                       IF s = {} THEN base ELSE Put(ordered, h[s \ {Max(s)}], at[Max(s)])]
    <3>3. ASSUME NEW s \in SUBSET I
          PROVE  h[s] = IF s = {} THEN base ELSE Put(ordered, h[s \ {Max(s)}], at[Max(s)])
      <4>1. CASE n + 1 \in s
        <5>1. s \in SUBSET Int /\ \A k \in s : k <= n + 1
          OBVIOUS
        <5>2. Max(s) = n + 1 /\ s # {}
          BY <4>1, <5>1, MaxIs
        <5>3. s \ {n + 1} \in SUBSET I /\ n + 1 \notin s \ {n + 1}
          OBVIOUS
        <5>4. h[s] = Put(ordered, f[s \ {n + 1}], at[n + 1]) /\ h[s \ {n + 1}] = f[s \ {n + 1}]
          BY <4>1, <5>3
        <5> QED
          BY <5>2, <5>4, Zenon
      <4>2. CASE n + 1 \notin s
        <5>1. s \in SUBSET (I \ {n + 1})
          BY <4>2
        <5>2. f[s] = IF s = {} THEN base ELSE Put(ordered, f[s \ {Max(s)}], at[Max(s)])
          BY <3>2, <5>1 DEF Building
        <5>3. s \ {Max(s)} \in SUBSET I /\ n + 1 \notin s \ {Max(s)}
          BY <4>2
        <5>4. h[s] = f[s] /\ h[s \ {Max(s)}] = f[s \ {Max(s)}]
          BY <4>2, <5>3
        <5> QED
          BY <5>2, <5>4, Zenon
      <4> QED
        BY <4>1, <4>2
    <3>4. h = [s \in SUBSET I |-> h[s]] /\ g = [s \in SUBSET I |-> g[s]]
      OBVIOUS
    <3>5. \A s \in SUBSET I : h[s] = g[s]
      BY <3>3, Zenon
    <3>6. h = g
      <4> HIDE DEF h, g
      <4> QED
        BY <3>4, <3>5
    <3>7. Building(ordered, base, at, I, h)
      <4> HIDE DEF h
      <4> QED
        BY <3>6, Zenon DEF Building
    <3> QED
      BY <3>7
  <2> QED
    BY <2>1, <2>2
<1>3. ASSUME NEW n \in Nat, n \in P
      PROVE  n + 1 \in P
  BY <1>2, <1>3
<1> HIDE DEF P
<1>4. Nat \subseteq P
  BY <1>1, <1>3, InductionOnSet
<1> QED
  BY <1>4 DEF P

(* What holds of the base and stays true with each event holds in the end. *)
LEMMA BuildingKeeps ==
    ASSUME NEW ordered, NEW base, NEW at, NEW n \in Nat, NEW I \in SUBSET (1 .. n), NEW f,
           Building(ordered, base, at, I, f), NEW P, <<{}, base>> \in P,
           \A s \in SUBSET I : \A m :
              s # {} /\ <<s \ {Max(s)}, m>> \in P => <<s, Put(ordered, m, at[Max(s)])>> \in P
    PROVE  <<I, f[I]>> \in P
<1> DEFINE Q == {k \in Nat : \A s \in SUBSET I : s \subseteq 1 .. k => <<s, f[s]>> \in P}
<1>0. \A s \in SUBSET I :
        f[s] = IF s = {} THEN base ELSE Put(ordered, f[s \ {Max(s)}], at[Max(s)])
  BY DEF Building
<1>1. 0 \in Q
  <2>1. \A s : s \subseteq 1 .. 0 => s = {}
    OBVIOUS
  <2>2. f[{}] = base
    BY <1>0
  <2> QED
    BY <2>1, <2>2
<1>2. ASSUME NEW k \in Nat, k \in Q, NEW s \in SUBSET I, s \subseteq 1 .. k + 1
      PROVE  <<s, f[s]>> \in P
  <2>1. CASE s = {}
    BY <2>1, <1>0
  <2>2. CASE s # {}
    <3>1. Max(s) \in s /\ \A i \in s : i <= Max(s)
      BY <2>2, <1>2, MaxIn
    <3>2. s \ {Max(s)} \in SUBSET I /\ s \ {Max(s)} \subseteq 1 .. k
      <4>1. \A i \in s : i \in 1 .. k + 1
        BY <1>2
      <4>2. ASSUME NEW i \in s \ {Max(s)}
            PROVE  i \in 1 .. k
        <5>1. /\ i \in 1 .. k + 1 /\ Max(s) \in 1 .. k + 1
              /\ i <= Max(s) /\ i # Max(s)
          BY <3>1, <4>1
        <5> QED
          BY <5>1
      <4> QED
        BY <4>2
    <3>3. <<s \ {Max(s)}, f[s \ {Max(s)}]>> \in P
      BY <1>2, <3>2
    <3>4. <<s, Put(ordered, f[s \ {Max(s)}], at[Max(s)])>> \in P
      BY <2>2, <3>3
    <3> QED
      BY <2>2, <1>0, <3>4
  <2> QED
    BY <2>1, <2>2
<1>3. ASSUME NEW k \in Nat, k \in Q
      PROVE  k + 1 \in Q
  <2>1. \A s \in SUBSET I : s \subseteq 1 .. k + 1 => <<s, f[s]>> \in P
    BY <1>2, <1>3, Zenon
  <2> QED
    BY <2>1
<1> HIDE DEF Q
<1>4. n \in Q
  BY <1>1, <1>3, InductionOnSet
<1> QED
  BY <1>4 DEF Q

(* The two folds of EventMap are such buildings.                           *)
IsScheduling(base, at, I, f) ==
    f = [s \in SUBSET I |-> IF s = {} THEN base ELSE Schedule(f[s \ {Max(s)}], at[Max(s)])]
IsKeeping(map, I, f) ==
    f = [s \in SUBSET I |-> IF s = {} THEN <<>> ELSE Append(f[s \ {Max(s)}], map[Max(s)])]

LEMMA ScheduleAllIs ==
    \A base, at, I : ScheduleAll(base, at, I) = (CHOOSE f : IsScheduling(base, at, I, f))[I]
BY DEF ScheduleAll, MapThenFoldSet, IsScheduling

LEMMA KeptIs ==
    \A map, I : Kept(map, I) = (CHOOSE f : IsKeeping(map, I, f))[I]
BY DEF Kept, MapThenFoldSet, IsKeeping

LEMMA ScheduleAllBuilds ==
    ASSUME NEW base, NEW at, NEW n \in Nat, NEW I \in SUBSET (1 .. n)
    PROVE  \E f : Building(TRUE, base, at, I, f) /\ ScheduleAll(base, at, I) = f[I]
<1>1. \A f : Building(TRUE, base, at, I, f) <=> IsScheduling(base, at, I, f)
  BY DEF Building, IsScheduling, Put
<1>2. \E f : IsScheduling(base, at, I, f)
  BY <1>1, BuildingExists
<1>3. IsScheduling(base, at, I, CHOOSE f : IsScheduling(base, at, I, f))
  BY <1>2
<1> QED
  BY <1>1, <1>3, ScheduleAllIs

LEMMA KeptBuilds ==
    ASSUME NEW map, NEW n \in Nat, NEW I \in SUBSET (1 .. n)
    PROVE  \E f : Building(FALSE, <<>>, map, I, f) /\ Kept(map, I) = f[I]
<1>1. \A f : Building(FALSE, <<>>, map, I, f) <=> IsKeeping(map, I, f)
  BY DEF Building, IsKeeping, Put
<1>2. \E f : IsKeeping(map, I, f)
  BY <1>1, BuildingExists
<1>3. IsKeeping(map, I, CHOOSE f : IsKeeping(map, I, f))
  BY <1>2
<1> QED
  BY <1>1, <1>3, KeptIs

-----------------------------------------------------------------------------
(* What a map holds                                                        *)

\* At most one event of map is in K.
Single(map, K) ==
    \A i, j \in 1 .. Len(map) : map[i] \in K /\ map[j] \in K => i = j

LEMMA Holds ==
    ASSUME NEW R, NEW map \in Seq(R)
    PROVE  ToSet(map) = {map[i] : i \in 1 .. Len(map)} /\ ToSet(map) \in SUBSET R
BY DEF ToSet

(* The events are in order, when each is no later than those behind it.    *)
LEMMA SortedIs ==
    ASSUME NEW R, \A r \in R : r.time \in Int, NEW map \in Seq(R), Sorted(map)
    PROVE  map # <<>> => \A e \in ToSet(map) : Head(map).time <= e.time
<1> SUFFICES ASSUME map # <<>>, NEW e \in ToSet(map)
             PROVE  Head(map).time <= e.time
  OBVIOUS
<1>1. PICK i \in 1 .. Len(map) : e = map[i]
  BY Holds
<1>2. Len(map) \in Nat /\ 1 \in 1 .. Len(map) /\ Head(map) = map[1] /\ 1 <= i
  BY <1>1
<1> QED
  BY <1>1, <1>2 DEF Sorted

LEMMA ScheduleHolds ==
    ASSUME NEW R, \A r \in R : r.time \in Int,
           NEW map \in Seq(R), Sorted(map), NEW e \in R
    PROVE  /\ Schedule(map, e) \in Seq(R) /\ Sorted(Schedule(map, e))
           /\ ToSet(Schedule(map, e)) = ToSet(map) \cup {e}
           /\ \A K : Single(map, K) /\ (e \in K => ToSet(map) \cap K = {})
                       => Single(Schedule(map, e), K)
<1> DEFINE s == Schedule(map, e)
<1>1. PICK k \in 1 .. Len(map) + 1 :
        /\ s \in Seq(R) /\ Len(s) = Len(map) + 1
        /\ \A i \in 1 .. Len(map) + 1 :
             s[i] = IF i < k THEN map[i] ELSE IF i = k THEN e ELSE map[i - 1]
        /\ \A i \in 1 .. Len(map) : IF i < k THEN map[i].time <= e.time
                                             ELSE map[i].time > e.time
  BY ScheduleShape
<1>2. Sorted(s)
  BY ScheduleSorted
<1> HIDE DEF s
<1>3. /\ Len(map) \in Nat
      /\ ToSet(map) = {map[i] : i \in 1 .. Len(map)}
      /\ ToSet(s) = {s[i] : i \in 1 .. Len(map) + 1}
  <2>1. s \in Seq(R) /\ Len(s) = Len(map) + 1
    BY <1>1
  <2>2. ToSet(s) = {s[i] : i \in 1 .. Len(s)} /\ ToSet(map) = {map[i] : i \in 1 .. Len(map)}
    BY <2>1, Holds
  <2> QED
    BY <2>1, <2>2
<1>4. ToSet(s) \subseteq ToSet(map) \cup {e}
  <2>1. ASSUME NEW i \in 1 .. Len(map) + 1
        PROVE  s[i] \in ToSet(map) \cup {e}
    <3>1. i < k => i \in 1 .. Len(map) /\ s[i] = map[i]
      BY <1>1, <1>3
    <3>2. i > k => i - 1 \in 1 .. Len(map) /\ s[i] = map[i - 1]
      BY <1>1, <1>3
    <3>3. i = k => s[i] = e
      BY <1>1, <1>3
    <3>4. i < k \/ i = k \/ i > k
      BY <1>3
    <3> QED
      BY <1>3, <3>1, <3>2, <3>3, <3>4
  <2> QED
    BY <1>3, <2>1
<1>5. ToSet(map) \subseteq ToSet(s)
  <2>1. ASSUME NEW i \in 1 .. Len(map)
        PROVE  map[i] \in ToSet(s)
    <3>1. i < k => i \in 1 .. Len(map) + 1 /\ s[i] = map[i]
      BY <1>1, <1>3
    <3>2. i >= k => i + 1 \in 1 .. Len(map) + 1 /\ s[i + 1] = map[i]
      BY <1>1, <1>3
    <3>3. i < k \/ i >= k
      BY <1>3
    <3> QED
      BY <1>3, <3>1, <3>2, <3>3
  <2> QED
    BY <1>3, <2>1
<1>6. e \in ToSet(s)
  <2>1. k \in 1 .. Len(map) + 1 /\ s[k] = e
    BY <1>1, <1>3
  <2> QED
    BY <1>3, <2>1
<1>7. ASSUME NEW K, Single(map, K), e \in K => ToSet(map) \cap K = {}
      PROVE  Single(s, K)
  <2> SUFFICES ASSUME NEW i \in 1 .. Len(map) + 1, NEW j \in 1 .. Len(map) + 1,
                      s[i] \in K, s[j] \in K
               PROVE  i = j
    BY <1>1 DEF Single
  <2> DEFINE old(n) == IF n < k THEN n ELSE n - 1
  <2>1. \A n \in 1 .. Len(map) + 1 : n # k => old(n) \in 1 .. Len(map) /\ s[n] = map[old(n)]
    BY <1>1, <1>3
  <2>2. s[k] = e
    BY <1>1, <1>3
  <2>3. \A n \in 1 .. Len(map) + 1 : n # k => s[n] \in ToSet(map)
    BY <1>3, <2>1
  <2>4. (i = k => j = k) /\ (j = k => i = k)
    BY <1>7, <2>2, <2>3
  <2>5. CASE i # k /\ j # k
    <3>1. old(i) = old(j)
      <4> HIDE DEF old
      <4> QED
        BY <1>7, <2>1, <2>5 DEF Single
    <3> QED
      BY <1>3, <2>5, <3>1
  <2> QED
    BY <2>4, <2>5
<1> QED
  BY <1>1, <1>2, <1>4, <1>5, <1>6, <1>7 DEF s

LEMMA TailHolds ==
    ASSUME NEW R, \A r \in R : r.time \in Int,
           NEW map \in Seq(R), Sorted(map), map # <<>>
    PROVE  /\ Tail(map) \in Seq(R) /\ Sorted(Tail(map)) /\ Head(map) \in R
           /\ ToSet(map) = ToSet(Tail(map)) \cup {Head(map)}
           /\ \A K : Single(map, K) => /\ Single(Tail(map), K)
                                       /\ Head(map) \in K => ToSet(Tail(map)) \cap K = {}
<1> DEFINE t == Tail(map)
<1>1. /\ t \in Seq(R) /\ Len(map) \in Nat \ {0} /\ Len(t) = Len(map) - 1
      /\ Head(map) = map[1] /\ \A i \in 1 .. Len(t) : t[i] = map[i + 1]
  OBVIOUS
<1>2. 1 \in 1 .. Len(map) /\ \A i \in 1 .. Len(t) : i + 1 \in 1 .. Len(map) /\ i + 1 # 1
  BY <1>1
<1>3. \A i \in 1 .. Len(map) : i # 1 => i - 1 \in 1 .. Len(t) /\ map[i] = t[i - 1]
  BY <1>1
<1> HIDE DEF t
<1>4. ToSet(map) = {map[i] : i \in 1 .. Len(map)} /\ ToSet(t) = {t[i] : i \in 1 .. Len(t)}
  BY <1>1, Holds
<1>5. \A i \in 1 .. Len(map) : map[i] \in R
  OBVIOUS
<1>6. Sorted(t)
  <2> SUFFICES ASSUME NEW i \in 1 .. Len(t), NEW j \in 1 .. Len(t), i <= j
               PROVE  t[i].time <= t[j].time
    BY DEF Sorted
  <2>1. i + 1 <= j + 1
    BY <1>1
  <2>2. map[i + 1].time <= map[j + 1].time
    BY <1>2, <2>1 DEF Sorted
  <2> QED
    BY <1>1, <2>2
<1>7. ToSet(map) = ToSet(t) \cup {Head(map)}
  <2>1. \A i \in 1 .. Len(map) : map[i] \in ToSet(t) \cup {Head(map)}
    BY <1>1, <1>3, <1>4
  <2>2. Head(map) \in ToSet(map) /\ \A i \in 1 .. Len(t) : t[i] \in ToSet(map)
    BY <1>1, <1>2, <1>4
  <2> QED
    BY <1>4, <2>1, <2>2
<1>8. ASSUME NEW K, Single(map, K)
      PROVE  Single(t, K) /\ (Head(map) \in K => ToSet(t) \cap K = {})
  <2>1. \A i, j \in 1 .. Len(map) : map[i] \in K /\ map[j] \in K => i = j
    BY <1>8 DEF Single
  <2>2. \A i, j \in 1 .. Len(t) : t[i] \in K /\ t[j] \in K => i + 1 = j + 1
    BY <1>1, <1>2, <2>1
  <2>3. Single(t, K)
    BY <1>1, <2>2 DEF Single
  <2>4. ASSUME Head(map) \in K, NEW i \in 1 .. Len(t)
        PROVE  t[i] \notin K
    BY <1>1, <1>2, <2>1, <2>4
  <2> QED
    BY <1>4, <2>3, <2>4
<1> QED
  BY <1>1, <1>2, <1>5, <1>6, <1>7, <1>8 DEF t

LEMMA ScheduleAllHolds ==
    ASSUME NEW R, \A r \in R : r.time \in Int, NEW map \in Seq(R), Sorted(map),
           NEW n \in Nat, NEW I \in SUBSET (1 .. n), NEW at, \A i \in I : at[i] \in R
    PROVE  /\ ScheduleAll(map, at, I) \in Seq(R) /\ Sorted(ScheduleAll(map, at, I))
           /\ ToSet(ScheduleAll(map, at, I)) = ToSet(map) \cup {at[i] : i \in I}
           /\ \A K : Single(map, K) /\ (\A i \in I : at[i] \notin K)
                       => Single(ScheduleAll(map, at, I), K)
<1> DEFINE Right(s, m) == /\ Sorted(m) /\ ToSet(m) = ToSet(map) \cup {at[i] : i \in s}
                          /\ \A K : Single(map, K) /\ (\A i \in I : at[i] \notin K)
                                      => Single(m, K)
           P == {x \in (SUBSET I) \X Seq(R) : Right(x[1], x[2])}
<1>1. PICK f : Building(TRUE, map, at, I, f) /\ ScheduleAll(map, at, I) = f[I]
  BY ScheduleAllBuilds
<1>2. <<{}, map>> \in P
  OBVIOUS
<1>3. ASSUME NEW s \in SUBSET I, NEW m, s # {}, <<s \ {Max(s)}, m>> \in P
      PROVE  <<s, Put(TRUE, m, at[Max(s)])>> \in P
  <2>1. Max(s) \in s
    BY <1>3, MaxIn
  <2>2. m \in Seq(R) /\ Right(s \ {Max(s)}, m)
    BY <1>3
  <2>3. at[Max(s)] \in R
    BY <2>1
  <2> DEFINE q == Schedule(m, at[Max(s)])
  <2>4. q \in Seq(R) /\ Sorted(q) /\ ToSet(q) = ToSet(m) \cup {at[Max(s)]}
    BY <2>2, <2>3, ScheduleHolds
  <2>5. ASSUME NEW K, Single(map, K), \A i \in I : at[i] \notin K
        PROVE  Single(q, K)
    <3>1. Single(m, K) /\ at[Max(s)] \notin K
      BY <2>1, <2>2, <2>5
    <3> QED
      BY <2>2, <2>3, <3>1, ScheduleHolds
  <2>6. {at[i] : i \in s \ {Max(s)}} \cup {at[Max(s)]} = {at[i] : i \in s}
    BY <2>1
  <2> HIDE DEF q
  <2>7. Right(s, q)
    BY <2>2, <2>4, <2>5, <2>6
  <2> QED
    BY <2>4, <2>7 DEF q, Put
<1> HIDE DEF P
<1>4. <<I, f[I]>> \in P
  <2>1. \A s \in SUBSET I : \A m :
          s # {} /\ <<s \ {Max(s)}, m>> \in P => <<s, Put(TRUE, m, at[Max(s)])>> \in P
    BY <1>3, Zenon
  <2>2. n \in Nat /\ I \in SUBSET (1 .. n) /\ Building(TRUE, map, at, I, f)
    BY <1>1
  <2> HIDE DEF Right
  <2> QED
    BY <1>2, <2>1, <2>2, BuildingKeeps
<1>5. f[I] \in Seq(R) /\ Right(I, f[I])
  BY <1>4 DEF P
<1> QED
  BY <1>1, <1>5

LEMMA AppendHolds ==
    ASSUME NEW R, NEW map \in Seq(R), Sorted(map), NEW e \in R,
           \A d \in ToSet(map) \cup {e} : d.time <= e.time
    PROVE  /\ Append(map, e) \in Seq(R) /\ Sorted(Append(map, e))
           /\ ToSet(Append(map, e)) = ToSet(map) \cup {e}
           /\ \A K : Single(map, K) /\ (e \in K => ToSet(map) \cap K = {})
                       => Single(Append(map, e), K)
<1> DEFINE s == Append(map, e)
<1>1. /\ s \in Seq(R) /\ Len(map) \in Nat /\ Len(s) = Len(map) + 1
      /\ s[Len(map) + 1] = e /\ \A i \in 1 .. Len(map) : s[i] = map[i]
  OBVIOUS
<1> HIDE DEF s
<1>2. /\ ToSet(map) = {map[i] : i \in 1 .. Len(map)}
      /\ ToSet(s) = {s[i] : i \in 1 .. Len(map) + 1}
  BY <1>1, Holds
<1>3. \A i \in 1 .. Len(map) + 1 : i = Len(map) + 1 \/ i \in 1 .. Len(map)
  BY <1>1
<1>4. ToSet(s) = ToSet(map) \cup {e}
  <2>1. \A i \in 1 .. Len(map) : i \in 1 .. Len(map) + 1
    BY <1>1
  <2>2. Len(map) + 1 \in 1 .. Len(map) + 1
    BY <1>1
  <2> QED
    BY <1>1, <1>2, <1>3, <2>1, <2>2
<1>5. ASSUME NEW i \in 1 .. Len(map) + 1, NEW j \in 1 .. Len(map) + 1, i <= j
      PROVE  s[i].time <= s[j].time
  <2>1. CASE j = Len(map) + 1
    <3>1. s[i] \in ToSet(map) \cup {e}
      BY <1>2, <1>4
    <3> QED
      BY <1>1, <2>1, <3>1
  <2>2. CASE j \in 1 .. Len(map)
    <3>1. i \in 1 .. Len(map)
      BY <1>1, <1>5, <2>2
    <3> QED
      BY <1>1, <1>5, <2>2, <3>1 DEF Sorted
  <2> QED
    BY <1>3, <2>1, <2>2
<1>6. Sorted(s)
  BY <1>1, <1>5 DEF Sorted
<1>7. ASSUME NEW K, Single(map, K), e \in K => ToSet(map) \cap K = {}
      PROVE  Single(s, K)
  <2>1. \A i, j \in 1 .. Len(map) : map[i] \in K /\ map[j] \in K => i = j
    BY <1>7 DEF Single
  <2>2. s[Len(map) + 1] \in K => \A i \in 1 .. Len(map) : s[i] \notin K
    BY <1>1, <1>2, <1>7
  <2>3. \A i, j \in 1 .. Len(map) + 1 : s[i] \in K /\ s[j] \in K => i = j
    BY <1>1, <1>3, <2>1, <2>2
  <2> QED
    BY <1>1, <2>3 DEF Single
<1> QED
  BY <1>1, <1>4, <1>6, <1>7 DEF s

LEMMA KeptHolds ==
    ASSUME NEW R, \A r \in R : r.time \in Int, NEW map \in Seq(R), Sorted(map),
           NEW I \in SUBSET (DOMAIN map)
    PROVE  /\ Kept(map, I) \in Seq(R) /\ Sorted(Kept(map, I))
           /\ ToSet(Kept(map, I)) = {map[i] : i \in I}
           /\ \A K : Single(map, K) => Single(Kept(map, I), K)
<1> DEFINE Right(s, m) == /\ Sorted(m) /\ ToSet(m) = {map[i] : i \in s}
                          /\ \A K : Single(map, K) => Single(m, K)
           P == {x \in (SUBSET I) \X Seq(R) : Right(x[1], x[2])}
<1>0. Len(map) \in Nat /\ I \in SUBSET (1 .. Len(map))
  OBVIOUS
<1>1. PICK f : Building(FALSE, <<>>, map, I, f) /\ Kept(map, I) = f[I]
  BY <1>0, KeptBuilds
<1>2. <<{}, <<>>>> \in P
  <2>1. <<>> \in Seq(R) /\ Len(<<>>) = 0 /\ ToSet(<<>>) = {}
    BY DEF ToSet
  <2>2. Sorted(<<>>) /\ \A K : Single(<<>>, K)
    BY <2>1 DEF Sorted, Single
  <2> QED
    BY <2>1, <2>2
<1>3. ASSUME NEW s \in SUBSET I, NEW m, s # {}, <<s \ {Max(s)}, m>> \in P
      PROVE  <<s, Put(FALSE, m, map[Max(s)])>> \in P
  <2>1. Max(s) \in s /\ \A i \in s : i <= Max(s)
    BY <1>0, <1>3, MaxIn
  <2>2. m \in Seq(R) /\ Right(s \ {Max(s)}, m)
    BY <1>3
  <2> DEFINE e == map[Max(s)]
             q == Append(m, e)
  <2>3. Max(s) \in 1 .. Len(map) /\ e \in R
    BY <1>0, <2>1
  <2>4. ASSUME NEW i \in s
        PROVE  map[i].time <= e.time
    BY <1>0, <2>1, <2>3 DEF Sorted
  <2>5. \A d \in ToSet(m) \cup {e} : d.time <= e.time
    <3> HIDE DEF e
    <3>1. \A d \in ToSet(m) : d.time <= e.time
      BY <2>2, <2>4
    <3>2. e.time <= e.time
      BY <2>3
    <3> QED
      BY <3>1, <3>2
  <2>6. q \in Seq(R) /\ Sorted(q) /\ ToSet(q) = ToSet(m) \cup {e}
    <3> HIDE DEF e
    <3> QED
      BY <2>2, <2>3, <2>5, AppendHolds
  <2>7. {map[i] : i \in s \ {Max(s)}} \cup {e} = {map[i] : i \in s}
    BY <2>1
  <2>9. ASSUME NEW K, Single(map, K)
        PROVE  Single(q, K)
    <3>1. \A i, j \in 1 .. Len(map) : map[i] \in K /\ map[j] \in K => i = j
      BY <2>9 DEF Single
    <3>2. e \in K => \A i \in s \ {Max(s)} : map[i] \notin K
      BY <1>0, <2>3, <3>1
    <3>3. e \in K => ToSet(m) \cap K = {}
      BY <2>2, <3>2
    <3> HIDE DEF e
    <3> QED
      BY <2>2, <2>3, <2>5, <2>9, <3>3, AppendHolds
  <2> HIDE DEF q
  <2>8. Right(s, q)
    BY <2>2, <2>6, <2>7, <2>9
  <2> QED
    BY <2>6, <2>8 DEF q, Put
<1> HIDE DEF P
<1>4. <<I, f[I]>> \in P
  BY <1>0, <1>1, <1>2, <1>3, BuildingKeeps
<1>5. f[I] \in Seq(R) /\ Right(I, f[I])
  BY <1>4 DEF P
<1> QED
  BY <1>1, <1>5
-----------------------------------------------------------------------------
(* Events in turn                                                          *)

\* The events of K come in the order of their ids.
InTurn(map, K) ==
    \A i, j \in 1 .. Len(map) : i < j /\ map[i] \in K /\ map[j] \in K => map[i].id < map[j].id

\* e belongs behind all events of K.
Behind(map, K, e) ==
    \A d \in ToSet(map) : d \in K /\ e \in K => d.time <= e.time /\ d.id < e.id

LEMMA ScheduleInTurn ==
    ASSUME NEW R, \A r \in R : r.time \in Int, NEW map \in Seq(R), Sorted(map), NEW e \in R,
           NEW K, InTurn(map, K), Behind(map, K, e)
    PROVE  InTurn(Schedule(map, e), K)
<1> DEFINE s == Schedule(map, e)
<1>1. PICK k \in 1 .. Len(map) + 1 :
        /\ s \in Seq(R) /\ Len(s) = Len(map) + 1
        /\ \A i \in 1 .. Len(map) + 1 :
             s[i] = IF i < k THEN map[i] ELSE IF i = k THEN e ELSE map[i - 1]
        /\ \A i \in 1 .. Len(map) : IF i < k THEN map[i].time <= e.time
                                             ELSE map[i].time > e.time
  BY ScheduleShape
<1> HIDE DEF s
<1>2. Len(map) \in Nat /\ \A i \in 1 .. Len(map) : map[i] \in ToSet(map) /\ map[i].time \in Int
  BY Holds
<1>3. ASSUME NEW i \in 1 .. Len(map), i >= k
      PROVE  ~(map[i] \in K /\ e \in K)
  <2>1. map[i].time > e.time /\ map[i].time \in Int /\ e.time \in Int
    BY <1>1, <1>2, <1>3
  <2>2. ~(map[i].time <= e.time)
    BY <2>1
  <2> QED
    BY <1>2, <2>2 DEF Behind
<1>4. ASSUME NEW i \in 1 .. Len(map) + 1, NEW j \in 1 .. Len(map) + 1,
             i < j, s[i] \in K, s[j] \in K
      PROVE  s[i].id < s[j].id
  <2> DEFINE old(n) == IF n < k THEN n ELSE n - 1
  <2>1. \A n \in 1 .. Len(map) + 1 : n # k => old(n) \in 1 .. Len(map) /\ s[n] = map[old(n)]
    BY <1>1, <1>2
  <2>2. s[k] = e
    BY <1>1, <1>2
  <2>3. CASE i # k /\ j # k
    <3>1. old(i) < old(j)
      BY <1>2, <1>4, <2>3
    <3> HIDE DEF old
    <3> QED
      BY <1>4, <2>1, <2>3, <3>1 DEF InTurn
  <2>4. CASE i = k
    <3>1. j - 1 \in 1 .. Len(map) /\ j - 1 >= k /\ s[j] = map[j - 1]
      BY <1>1, <1>2, <1>4, <2>4
    <3> QED
      BY <1>3, <1>4, <2>2, <2>4, <3>1
  <2>5. CASE j = k
    <3>1. i \in 1 .. Len(map) /\ s[i] = map[i]
      BY <1>1, <1>2, <1>4, <2>5
    <3> QED
      BY <1>2, <1>4, <2>2, <2>5, <3>1 DEF Behind
  <2> QED
    BY <2>3, <2>4, <2>5
<1> QED
  BY <1>1, <1>4 DEF InTurn, s

LEMMA TailInTurn ==
    ASSUME NEW R, NEW map \in Seq(R), map # <<>>, NEW K, InTurn(map, K)
    PROVE  /\ InTurn(Tail(map), K)
           /\ Head(map) \in K =>
                 \A d \in ToSet(Tail(map)) : d \in K => Head(map).id < d.id
<1> DEFINE t == Tail(map)
<1>1. /\ t \in Seq(R) /\ Len(map) \in Nat \ {0} /\ Len(t) = Len(map) - 1
      /\ Head(map) = map[1] /\ \A i \in 1 .. Len(t) : t[i] = map[i + 1]
  OBVIOUS
<1> HIDE DEF t
<1>2. 1 \in 1 .. Len(map) /\ \A i \in 1 .. Len(t) : i + 1 \in 1 .. Len(map) /\ 1 < i + 1
  BY <1>1
<1>3. ASSUME NEW i \in 1 .. Len(t), NEW j \in 1 .. Len(t), i < j, t[i] \in K, t[j] \in K
      PROVE  t[i].id < t[j].id
  <2>1. i + 1 < j + 1
    BY <1>1, <1>3
  <2> QED
    BY <1>1, <1>2, <1>3, <2>1 DEF InTurn
<1>4. ToSet(t) = {t[i] : i \in 1 .. Len(t)}
  BY <1>1, Holds
<1>5. ASSUME Head(map) \in K, NEW d \in ToSet(t), d \in K
      PROVE  Head(map).id < d.id
  <2>1. PICK i \in 1 .. Len(t) : d = t[i]
    BY <1>4
  <2> QED
    BY <1>1, <1>2, <1>5, <2>1 DEF InTurn
<1> QED
  BY <1>3, <1>5 DEF InTurn, t

LEMMA ScheduleAllInTurn ==
    ASSUME NEW R, \A r \in R : r.time \in Int, NEW map \in Seq(R), Sorted(map),
           NEW n \in Nat, NEW I \in SUBSET (1 .. n), NEW at, \A i \in I : at[i] \in R,
           NEW K, InTurn(map, K), \A i \in I : Behind(map, K, at[i]),
           \A i, j \in I : i < j => at[i].time <= at[j].time /\ at[i].id < at[j].id
    PROVE  InTurn(ScheduleAll(map, at, I), K)
<1> DEFINE Right(s, m) == /\ Sorted(m) /\ ToSet(m) = ToSet(map) \cup {at[i] : i \in s}
                          /\ InTurn(m, K)
           P == {x \in (SUBSET I) \X Seq(R) : Right(x[1], x[2])}
<1>1. PICK f : Building(TRUE, map, at, I, f) /\ ScheduleAll(map, at, I) = f[I]
  BY ScheduleAllBuilds
<1>2. <<{}, map>> \in P
  OBVIOUS
<1>3. ASSUME NEW s \in SUBSET I, NEW m, s # {}, <<s \ {Max(s)}, m>> \in P
      PROVE  <<s, Put(TRUE, m, at[Max(s)])>> \in P
  <2>1. Max(s) \in s /\ \A i \in s : i <= Max(s)
    BY <1>3, MaxIn
  <2>2. m \in Seq(R) /\ Right(s \ {Max(s)}, m)
    BY <1>3
  <2>3. at[Max(s)] \in R
    BY <2>1
  <2> DEFINE q == Schedule(m, at[Max(s)])
  <2>4. q \in Seq(R) /\ Sorted(q) /\ ToSet(q) = ToSet(m) \cup {at[Max(s)]}
    <3>1. m \in Seq(R) /\ Sorted(m)
      BY <2>2
    <3> QED
      BY <2>3, <3>1, ScheduleHolds
  <2>5. ASSUME NEW i \in s \ {Max(s)}
        PROVE  i < Max(s)
    <3>1. \A k \in s : k \in Int
      OBVIOUS
    <3>2. i \in Int /\ Max(s) \in Int /\ i <= Max(s) /\ i # Max(s)
      BY <2>1, <3>1
    <3> QED
      BY <3>2
  <2>6. Behind(m, K, at[Max(s)])
    <3> SUFFICES ASSUME NEW d \in ToSet(m), d \in K, at[Max(s)] \in K
                 PROVE  d.time <= at[Max(s)].time /\ d.id < at[Max(s)].id
      BY DEF Behind
    <3>1. CASE d \in ToSet(map)
      BY <2>1, <3>1 DEF Behind
    <3>2. CASE \E i \in s \ {Max(s)} : d = at[i]
      BY <2>1, <2>5, <3>2
    <3> QED
      BY <2>2, <3>1, <3>2
  <2>7. InTurn(q, K)
    BY <2>2, <2>3, <2>6, ScheduleInTurn
  <2>8. {at[i] : i \in s \ {Max(s)}} \cup {at[Max(s)]} = {at[i] : i \in s}
    BY <2>1
  <2> HIDE DEF q
  <2>9. Right(s, q)
    BY <2>2, <2>4, <2>7, <2>8
  <2> QED
    BY <2>4, <2>9 DEF q, Put
<1> HIDE DEF P
<1>4. <<I, f[I]>> \in P
  <2>1. \A s \in SUBSET I : \A m :
          s # {} /\ <<s \ {Max(s)}, m>> \in P => <<s, Put(TRUE, m, at[Max(s)])>> \in P
    BY <1>3, Zenon
  <2>2. n \in Nat /\ I \in SUBSET (1 .. n) /\ Building(TRUE, map, at, I, f)
    BY <1>1
  <2> HIDE DEF Right
  <2> QED
    BY <1>2, <2>1, <2>2, BuildingKeeps
<1>5. Right(I, f[I])
  BY <1>4 DEF P
<1> QED
  BY <1>1, <1>5

-----------------------------------------------------------------------------
(* What erasing leaves: the chosen events, in their order                  *)

(* Kept takes the positions in their order: the greatest one comes last.   *)
LEMMA KeptStep ==
    ASSUME NEW map, NEW n \in Nat, NEW I \in SUBSET (1 .. n)
    PROVE  /\ Kept(map, {}) = <<>>
           /\ I # {} => Kept(map, I) = Append(Kept(map, I \ {Max(I)}), map[Max(I)])
<1>1. Kept(map, {}) = <<>>
  <2>1. PICK f : Building(FALSE, <<>>, map, {}, f) /\ Kept(map, {}) = f[{}]
    BY KeptBuilds
  <2> QED
    BY <2>1 DEF Building
<1>2. ASSUME I # {}
      PROVE  Kept(map, I) = Append(Kept(map, I \ {Max(I)}), map[Max(I)])
  <2> DEFINE J == I \ {Max(I)}
  <2>1. Max(I) \in I /\ J \in SUBSET (1 .. n)
    BY <1>2, MaxIn
  <2>2. PICK f : Building(FALSE, <<>>, map, I, f) /\ Kept(map, I) = f[I]
    BY KeptBuilds
  <2>3. PICK g : Building(FALSE, <<>>, map, J, g) /\ Kept(map, J) = g[J]
    BY <2>1, KeptBuilds
  <2>4. \A s \in SUBSET I : f[s] = IF s = {} THEN <<>> ELSE Append(f[s \ {Max(s)}], map[Max(s)])
    BY <2>2 DEF Building, Put
  <2> DEFINE P == {<<s, f[s]>> : s \in SUBSET I}
  <2>5. <<{}, <<>>>> \in P
    BY <2>4
  <2>6. ASSUME NEW s \in SUBSET J, NEW m, s # {}, <<s \ {Max(s)}, m>> \in P
        PROVE  <<s, Put(FALSE, m, map[Max(s)])>> \in P
    <3>1. m = f[s \ {Max(s)}] /\ s \in SUBSET I
      BY <2>6
    <3>2. Put(FALSE, m, map[Max(s)]) = f[s]
      BY <2>4, <2>6, <3>1 DEF Put
    <3> QED
      BY <3>1, <3>2
  <2> HIDE DEF J
  <2>7. <<J, g[J]>> \in P
    <3>1. \A s \in SUBSET J : \A m :
            s # {} /\ <<s \ {Max(s)}, m>> \in P => <<s, Put(FALSE, m, map[Max(s)])>> \in P
      BY <2>6, Zenon
    <3> HIDE DEF P
    <3> QED
      BY <2>1, <2>3, <2>5, <3>1, BuildingKeeps
  <2>8. g[J] = f[J]
    BY <2>7
  <2>9. f[I] = Append(f[J], map[Max(I)])
    BY <1>2, <2>4 DEF J
  <2> QED
    BY <2>2, <2>3, <2>8, <2>9 DEF J
<1> QED
  BY <1>1, <1>2

(* What a building of Kept amounts to, position by position.               *)
LEMMA KeptFollows ==
    ASSUME NEW map, NEW n \in Nat, NEW I \in SUBSET (1 .. n), NEW P, <<{}, <<>>>> \in P,
           \A s \in SUBSET I : \A m :
              s # {} /\ <<s \ {Max(s)}, m>> \in P => <<s, Append(m, map[Max(s)])>> \in P
    PROVE  <<I, Kept(map, I)>> \in P
<1>1. PICK f : Building(FALSE, <<>>, map, I, f) /\ Kept(map, I) = f[I]
  BY KeptBuilds
<1>2. \A m, e : Put(FALSE, m, e) = Append(m, e)
  BY DEF Put
<1>3. \A s \in SUBSET I : \A m :
        s # {} /\ <<s \ {Max(s)}, m>> \in P => <<s, Put(FALSE, m, map[Max(s)])>> \in P
  BY <1>2, Zenon
<1>4. <<I, f[I]>> \in P
  BY <1>1, <1>3, BuildingKeeps
<1> QED
  BY <1>1, <1>4, Zenon

(* The values kept are in the set of the values at the positions.          *)
LEMMA KeptSeq ==
    ASSUME NEW R, NEW map, NEW n \in Nat, NEW I \in SUBSET (1 .. n), \A i \in I : map[i] \in R
    PROVE  Kept(map, I) \in Seq(R)
<1> DEFINE P == (SUBSET I) \X Seq(R)
<1>0. {} \in SUBSET I /\ <<>> \in Seq(R)
  OBVIOUS
<1>1. <<{}, <<>>>> \in P
  BY <1>0
<1>2. ASSUME NEW s \in SUBSET I, NEW m, s # {}, <<s \ {Max(s)}, m>> \in P
      PROVE  <<s, Append(m, map[Max(s)])>> \in P
  <2>1. Max(s) \in s
    BY <1>2, MaxIn
  <2>2. m \in Seq(R) /\ map[Max(s)] \in R
    BY <1>2, <2>1
  <2>3. Append(m, map[Max(s)]) \in Seq(R)
    BY <2>2
  <2> QED
    BY <2>3
<1>3. <<I, Kept(map, I)>> \in P
  <2>1. \A s \in SUBSET I : \A m :
          s # {} /\ <<s \ {Max(s)}, m>> \in P => <<s, Append(m, map[Max(s)])>> \in P
    BY <1>2, Zenon
  <2> HIDE DEF P
  <2> QED
    BY <1>1, <2>1, KeptFollows
<1> QED
  BY <1>3

(* Making room for position k leaves what is kept.                         *)
Moved(k, i) == IF i < k THEN i ELSE i + 1

\* The positions I of map, from 1 to n, are the positions M of other.
Moves(map, I, n, k, other, M) ==
    /\ I \in SUBSET (1 .. n)
    /\ M = {Moved(k, i) : i \in I} /\ \A i \in I : other[Moved(k, i)] = map[i]

LEMMA KeptMoved ==
    ASSUME NEW map, NEW other, NEW n \in Nat, NEW I, NEW k \in Nat, NEW M,
           Moves(map, I, n, k, other, M)
    PROVE  Kept(other, M) = Kept(map, I)
<1>0. I \in SUBSET (1 .. n)
  BY DEF Moves
<1> DEFINE to(s) == {Moved(k, i) : i \in s}
           P == {<<s, Kept(other, to(s))>> : s \in SUBSET I}
<1>1. <<{}, <<>>>> \in P
  <2>1. to({}) = {}
    OBVIOUS
  <2>2. Kept(other, to({})) = <<>>
    BY <2>1, KeptStep
  <2> QED
    BY <2>2
<1>2. ASSUME NEW s \in SUBSET I, NEW m, s # {}, <<s \ {Max(s)}, m>> \in P
      PROVE  <<s, Append(m, map[Max(s)])>> \in P
  <2>1. Max(s) \in s /\ \A i \in s : i <= Max(s)
    BY <1>0, <1>2, MaxIn
  <2>2. m = Kept(other, to(s \ {Max(s)}))
    BY <1>2
  <2>10. s \subseteq 1 .. n /\ Max(s) \in 1 .. n
    BY <1>0, <2>1
  <2>3. to(s) \in SUBSET (1 .. n + 1) /\ to(s) # {}
    <3>1. \A i \in 1 .. n : Moved(k, i) \in 1 .. n + 1
      BY DEF Moved
    <3> QED
      BY <2>1, <2>10, <3>1
  <2>4. Moved(k, Max(s)) \in to(s) /\ \A j \in to(s) : j <= Moved(k, Max(s))
    <3>1. \A i \in 1 .. n : i <= Max(s) => Moved(k, i) <= Moved(k, Max(s))
      BY <2>10 DEF Moved
    <3> QED
      BY <2>1, <2>10, <3>1
  <2>5. Max(to(s)) = Moved(k, Max(s))
    <3>1. to(s) \in SUBSET Int
      BY <2>3
    <3> HIDE DEF to
    <3> QED
      BY <2>4, <3>1, MaxIs
  <2>6. to(s) \ {Moved(k, Max(s))} = to(s \ {Max(s)})
    <3>1. \A i \in 1 .. n : i <= Max(s) /\ Moved(k, i) = Moved(k, Max(s)) => i = Max(s)
      BY <2>10 DEF Moved
    <3>2. \A i \in s : Moved(k, i) = Moved(k, Max(s)) => i = Max(s)
      BY <2>1, <2>10, <3>1
    <3> QED
      BY <2>1, <3>2
  <2>7. other[Moved(k, Max(s))] = map[Max(s)]
    BY <2>1 DEF Moves
  <2>8. Kept(other, to(s)) = Append(Kept(other, to(s) \ {Max(to(s))}), other[Max(to(s))])
    <3> HIDE DEF to
    <3>1. n + 1 \in Nat
      OBVIOUS
    <3> QED
      BY <2>3, <3>1, KeptStep
  <2>9. Kept(other, to(s)) = Append(m, map[Max(s)])
    BY <2>2, <2>5, <2>6, <2>7, <2>8, Zenon
  <2> QED
    BY <2>9
<1>3. <<I, Kept(map, I)>> \in P
  <2>1. \A s \in SUBSET I : \A m :
          s # {} /\ <<s \ {Max(s)}, m>> \in P => <<s, Append(m, map[Max(s)])>> \in P
    BY <1>2, Zenon
  <2> HIDE DEF P
  <2> QED
    BY <1>0, <1>1, <2>1, KeptFollows
<1> QED
  BY <1>3 DEF Moves

\* One element more at the beginning.
Before(x, s) == <<x>> \o s

\* J are 1 and the positions I, from 2 to n; there map has values in R.
Begins(map, J, I, n, R) ==
    J = {1} \cup I /\ I \in SUBSET (2 .. n) /\ \A i \in J : map[i] \in R

(* The least position comes first.                                         *)
LEMMA KeptFirst ==
    ASSUME NEW R, NEW map, NEW n \in Nat, NEW I, NEW J, Begins(map, J, I, n, R)
    PROVE  Kept(map, J) = Before(map[1], Kept(map, I))
<1>0. I \in SUBSET (1 .. n) /\ I \in SUBSET (2 .. n) /\ \A i \in I \cup {1} : map[i] \in R
  BY DEF Begins
<1> DEFINE P == {x \in (SUBSET I) \X Seq(R) : Kept(map, {1} \cup x[1]) = <<map[1]>> \o x[2]}
<1>1. <<{}, <<>>>> \in P
  <2>1. {1} \in SUBSET (1 .. 1) /\ {1} # {} /\ 1 \in Nat
    OBVIOUS
  <2>2. Max({1}) = 1
    <3>1. \A j \in {1} : j <= 1
      OBVIOUS
    <3> QED
      BY <3>1, MaxIs
  <2>3. Kept(map, {1}) = Append(Kept(map, {1} \ {1}), map[1])
    BY <2>1, <2>2, KeptStep
  <2>4. {1} \ {1} = {} /\ {1} \cup {} = {1}
    OBVIOUS
  <2>5. Kept(map, {}) = <<>>
    BY <2>1, KeptStep
  <2>6. Kept(map, {1} \cup {}) = Append(<<>>, map[1])
    BY <2>3, <2>4, <2>5
  <2>7. Append(<<>>, map[1]) = <<map[1]>> \o <<>>
    <3>1. map[1] \in R
      BY <1>0
    <3> QED
      BY <3>1
  <2>8. <<>> \in Seq(R)
    OBVIOUS
  <2> QED
    BY <2>6, <2>7, <2>8
<1>2. ASSUME NEW s \in SUBSET I, NEW m, s # {}, <<s \ {Max(s)}, m>> \in P
      PROVE  <<s, Append(m, map[Max(s)])>> \in P
  <2>1. Max(s) \in s /\ \A i \in s : i <= Max(s)
    BY <1>0, <1>2, MaxIn
  <2>2. m \in Seq(R) /\ Kept(map, {1} \cup (s \ {Max(s)})) = <<map[1]>> \o m
    BY <1>2
  <2> DEFINE t == {1} \cup s
  <2>11. s \subseteq 2 .. n /\ Max(s) \in 2 .. n
    BY <1>0, <2>1
  <2>3. t \in SUBSET (1 .. n) /\ t # {} /\ Max(s) \in t /\ Max(s) # 1
    <3>1. 1 \in 1 .. n /\ 2 .. n \subseteq 1 .. n /\ Max(s) # 1
      BY <2>11
    <3> QED
      BY <2>1, <2>11, <3>1
  <2>4. \A j \in t : j <= Max(s)
    <3>1. 1 <= Max(s)
      BY <2>11
    <3> QED
      BY <2>1, <3>1
  <2>5. Max(t) = Max(s)
    <3>1. t \in SUBSET Int
      BY <2>3
    <3> HIDE DEF t
    <3> QED
      BY <2>3, <2>4, <3>1, MaxIs
  <2>6. t \ {Max(s)} = {1} \cup (s \ {Max(s)})
    BY <2>3
  <2>7. Kept(map, t) = Append(Kept(map, t \ {Max(t)}), map[Max(t)])
    <3> HIDE DEF t
    <3> QED
      BY <2>3, KeptStep
  <2>8. Kept(map, t) = Append(<<map[1]>> \o m, map[Max(s)])
    BY <2>2, <2>5, <2>6, <2>7, Zenon
  <2>9. map[Max(s)] \in R /\ map[1] \in R
    BY <1>0, <2>1
  <2>10. Append(<<map[1]>> \o m, map[Max(s)]) = <<map[1]>> \o Append(m, map[Max(s)])
    BY <2>2, <2>9
  <2>12. Append(m, map[Max(s)]) \in Seq(R)
    BY <2>2, <2>9
  <2>13. Kept(map, {1} \cup s) = <<map[1]>> \o Append(m, map[Max(s)])
    BY <2>8, <2>10
  <2> QED
    BY <2>12, <2>13
<1>3. <<I, Kept(map, I)>> \in P
  <2>1. \A s \in SUBSET I : \A m :
          s # {} /\ <<s \ {Max(s)}, m>> \in P => <<s, Append(m, map[Max(s)])>> \in P
    BY <1>2, Zenon
  <2> HIDE DEF P
  <2> QED
    BY <1>0, <1>1, <2>1, KeptFollows
<1> QED
  BY <1>3 DEF Begins, Before
-----------------------------------------------------------------------------
(* What a map tells of the events of one kind                              *)

\* The values v has for the elements of map that are in K, in their order.
Chosen(map, K, v) == Kept([i \in DOMAIN map |-> v[map[i]]], {i \in DOMAIN map : map[i] \in K})

\* The map holds elements of R, of which v tells something in T.
Tells(v, map, R, T) == map \in Seq(R) /\ v \in [R -> T]

LEMMA ChosenSeq ==
    ASSUME NEW R, NEW T, NEW map, NEW K, NEW v, Tells(v, map, R, T)
    PROVE  /\ Chosen(map, K, v) \in Seq(T)
           /\ \A i \in DOMAIN map : v[map[i]] \in T
           /\ (\A i \in DOMAIN map : map[i] \notin K) => Chosen(map, K, v) = <<>>
<1> DEFINE at == [i \in DOMAIN map |-> v[map[i]]]
           I == {i \in DOMAIN map : map[i] \in K}
<1>0. map \in Seq(R) /\ v \in [R -> T]
  BY DEF Tells
<1>1. Len(map) \in Nat /\ DOMAIN map = 1 .. Len(map) /\ I \in SUBSET (1 .. Len(map))
  BY <1>0
<1>2. \A i \in DOMAIN map : map[i] \in R
  BY <1>0, <1>1
<1>3. \A i \in DOMAIN map : v[map[i]] \in T
  BY <1>0, <1>2
<1>4. \A i \in I : at[i] \in T
  BY <1>3
<1>5. Chosen(map, K, v) = Kept(at, I)
  BY DEF Chosen
<1>6. (\A i \in DOMAIN map : map[i] \notin K) => I = {}
  OBVIOUS
<1> HIDE DEF at, I
<1>7. Kept(at, I) \in Seq(T)
  BY <1>1, <1>4, KeptSeq
<1>8. Kept(at, {}) = <<>>
  BY <1>1, KeptStep
<1> QED
  BY <1>3, <1>5, <1>6, <1>7, <1>8

\* The map other is map with a new element e at position k.
Inserted(map, k, e, other) ==
    /\ k \in 1 .. Len(map) + 1
    /\ Len(other) = Len(map) + 1
    /\ \A i \in 1 .. Len(map) + 1 :
          other[i] = IF i < k THEN map[i] ELSE IF i = k THEN e ELSE map[i - 1]

\* If e is of the kind K, nothing of the kind is at position k or later.
LastOf(map, k, e, K) == e \in K => \A i \in k .. Len(map) : map[i] \notin K

(* A map with a new element e at position k: the elements of K stay the    *)
(* same, or e is the last of them.                                         *)
LEMMA ChosenInsert ==
    ASSUME NEW R, NEW T, NEW map, NEW K, NEW v, Tells(v, map, R, T),
           NEW e \in R, NEW k, NEW other, Tells(v, other, R, T),
           Inserted(map, k, e, other), LastOf(map, k, e, K)
    PROVE  Chosen(other, K, v) = IF e \in K THEN Append(Chosen(map, K, v), v[e])
                                            ELSE Chosen(map, K, v)
<1> DEFINE n == Len(map)
           at == [i \in DOMAIN map |-> v[map[i]]]
           ot == [i \in DOMAIN other |-> v[other[i]]]
           I == {i \in DOMAIN map : map[i] \in K}
           J == {i \in DOMAIN other : other[i] \in K}
           M == {Moved(k, i) : i \in I}
<1>0. /\ Len(other) = n + 1 /\ k \in 1 .. n + 1
      /\ \A i \in 1 .. n + 1 :
           other[i] = IF i < k THEN map[i] ELSE IF i = k THEN e ELSE map[i - 1]
  BY DEF Inserted
<1>1. /\ n \in Nat /\ DOMAIN map = 1 .. n /\ I \in SUBSET (1 .. n) /\ k \in Nat /\ k \in 1 .. n + 1
      /\ DOMAIN other = 1 .. n + 1 /\ J \in SUBSET (1 .. n + 1) /\ n + 1 \in Nat
  BY <1>0 DEF Tells
<1>2. ASSUME NEW i \in 1 .. n
      PROVE  /\ Moved(k, i) \in 1 .. n + 1 /\ Moved(k, i) # k
             /\ other[Moved(k, i)] = map[i]
  <2>1. CASE i < k
    BY <1>0, <1>1, <2>1 DEF Moved
  <2>2. CASE ~(i < k)
    <3>1. Moved(k, i) = i + 1 /\ i + 1 \in 1 .. n + 1 /\ ~(i + 1 < k) /\ i + 1 # k /\ i + 1 - 1 = i
      BY <1>1, <2>2 DEF Moved
    <3> QED
      BY <1>0, <3>1
  <2> QED
    BY <2>1, <2>2
<1>3. ASSUME NEW j \in 1 .. n + 1, j # k
      PROVE  \E i \in 1 .. n : j = Moved(k, i)
  <2>1. CASE j < k
    <3>1. j \in 1 .. n /\ Moved(k, j) = j
      BY <1>1, <2>1 DEF Moved
    <3> QED
      BY <3>1
  <2>2. CASE j > k
    <3>1. j - 1 \in 1 .. n /\ Moved(k, j - 1) = j
      BY <1>1, <2>2 DEF Moved
    <3> QED
      BY <3>1
  <2> QED
    BY <1>1, <1>3, <2>1, <2>2
<1>4. other[k] = e
  BY <1>0, <1>1
<1>5. J \ {k} = M
  <2>1. ASSUME NEW j \in J \ {k}
        PROVE  j \in M
    <3>1. PICK i \in 1 .. n : j = Moved(k, i)
      BY <1>1, <1>3, <2>1
    <3>2. map[i] \in K
      BY <1>2, <2>1, <3>1
    <3> QED
      BY <1>1, <3>1, <3>2
  <2>2. \A i \in I : Moved(k, i) \in J \ {k}
    BY <1>1, <1>2
  <2> QED
    BY <2>1, <2>2
<1>6. \A i \in I : ot[Moved(k, i)] = at[i]
  BY <1>1, <1>2
<1>7. Chosen(other, K, v) = Kept(ot, J) /\ Chosen(map, K, v) = Kept(at, I)
  BY DEF Chosen
<1>8. k \in J <=> e \in K
  BY <1>1, <1>4
<1>9. ot[k] = v[e]
  BY <1>1, <1>4
<1>10. e \in K => \A j \in J : j <= k
  <2>1. ASSUME e \in K, NEW j \in 1 .. n + 1, other[j] \in K, ~(j <= k)
        PROVE  FALSE
    <3>1. j - 1 \in k .. n /\ other[j] = map[j - 1]
      BY <1>0, <1>1, <2>1
    <3> QED
      BY <2>1, <3>1 DEF LastOf
  <2> QED
    BY <1>1, <2>1
<1> HIDE DEF n, at, ot, I, J
<1>11. Kept(ot, M) = Kept(at, I)
  <2>1. n \in Nat /\ I \in SUBSET (1 .. n) /\ k \in Nat
    BY <1>1
  <2>2. Moves(at, I, n, k, ot, M)
    BY <1>6, <2>1 DEF Moves
  <2> HIDE DEF M
  <2> QED
    BY <2>1, <2>2, KeptMoved
<1>12. CASE e \notin K
  <2>1. J \ {k} = J
    BY <1>8, <1>12
  <2> QED
    BY <1>5, <1>7, <1>11, <1>12, <2>1, Zenon
<1>13. CASE e \in K
  <2>1. k \in J /\ J # {} /\ J \in SUBSET Int
    BY <1>1, <1>8, <1>13
  <2>2. Max(J) = k
    BY <1>10, <1>13, <2>1, MaxIs
  <2>3. Kept(ot, J) = Append(Kept(ot, J \ {Max(J)}), ot[Max(J)])
    BY <1>1, <2>1, KeptStep
  <2> QED
    BY <1>5, <1>7, <1>9, <1>11, <1>13, <2>2, <2>3, Zenon
<1> QED
  BY <1>12, <1>13

\* Elements of R have times.
Timed(R) == \A r \in R : r.time \in Int

\* If e is of the kind K, no event of the kind in the map is later.
LatestOf(map, e, K) == e \in K => \A i \in DOMAIN map : map[i] \in K => map[i].time <= e.time

(* A new event is the last one of its kind if none of them is later.       *)
LEMMA ChosenSchedule ==
    ASSUME NEW R, Timed(R), NEW T, NEW map, Sorted(map),
           NEW K, NEW v, Tells(v, map, R, T), NEW e \in R,
           LatestOf(map, e, K)
    PROVE  Chosen(Schedule(map, e), K, v) =
              IF e \in K THEN Append(Chosen(map, K, v), v[e]) ELSE Chosen(map, K, v)
<1> DEFINE s == Schedule(map, e)
<1>0. map \in Seq(R) /\ v \in [R -> T] /\ \A r \in R : r.time \in Int
  BY DEF Tells, Timed
<1>1. PICK k \in 1 .. Len(map) + 1 :
        /\ s \in Seq(R) /\ Len(s) = Len(map) + 1
        /\ \A i \in 1 .. Len(map) + 1 :
             s[i] = IF i < k THEN map[i] ELSE IF i = k THEN e ELSE map[i - 1]
        /\ \A i \in 1 .. Len(map) : IF i < k THEN map[i].time <= e.time
                                             ELSE map[i].time > e.time
  BY <1>0, ScheduleShape
<1> HIDE DEF s
<1>2. Len(map) \in Nat /\ DOMAIN map = 1 .. Len(map) /\ \A i \in 1 .. Len(map) : map[i] \in R
  BY <1>0
<1>3. ASSUME e \in K, NEW i \in k .. Len(map)
      PROVE  map[i] \notin K
  <2>1. i \in 1 .. Len(map) /\ ~(i < k)
    BY <1>2, <1>3
  <2>2. map[i].time > e.time /\ map[i].time \in Int /\ e.time \in Int
    BY <1>0, <1>1, <1>2, <2>1
  <2>3. ~(map[i].time <= e.time)
    BY <2>2
  <2> QED
    BY <1>2, <1>3, <2>1, <2>3 DEF LatestOf
<1>4. Chosen(s, K, v) = IF e \in K THEN Append(Chosen(map, K, v), v[e]) ELSE Chosen(map, K, v)
  <2>1. LastOf(map, k, e, K)
    BY <1>3 DEF LastOf
  <2>2. Tells(v, s, R, T) /\ Inserted(map, k, e, s)
    BY <1>0, <1>1 DEF Inserted, Tells
  <2> QED
    BY <2>1, <2>2, ChosenInsert
<1> QED
  BY <1>4 DEF s

LEMMA ChosenAppend ==
    ASSUME NEW R, NEW T, NEW map, NEW K, NEW v, Tells(v, map, R, T), NEW e \in R
    PROVE  Chosen(Append(map, e), K, v) =
              IF e \in K THEN Append(Chosen(map, K, v), v[e]) ELSE Chosen(map, K, v)
<1> DEFINE s == Append(map, e)
<1>0. map \in Seq(R) /\ v \in [R -> T]
  BY DEF Tells
<1>1. /\ Len(map) \in Nat /\ s \in Seq(R) /\ Len(s) = Len(map) + 1
      /\ \A i \in 1 .. Len(map) + 1 : s[i] = IF i < Len(map) + 1 THEN map[i]
                                             ELSE IF i = Len(map) + 1 THEN e ELSE map[i - 1]
  BY <1>0
<1> HIDE DEF s
<1>2. Len(map) + 1 \in 1 .. Len(map) + 1 /\ \A i \in Len(map) + 1 .. Len(map) : FALSE
  BY <1>1
<1>3. Chosen(s, K, v) = IF e \in K THEN Append(Chosen(map, K, v), v[e]) ELSE Chosen(map, K, v)
  <2>1. LastOf(map, Len(map) + 1, e, K)
    BY <1>2 DEF LastOf
  <2>2. Tells(v, s, R, T) /\ Inserted(map, Len(map) + 1, e, s)
    BY <1>0, <1>1, <1>2 DEF Inserted, Tells
  <2> QED
    BY <2>1, <2>2, ChosenInsert
<1> QED
  BY <1>3 DEF s

(* The first element is taken out.                                         *)
LEMMA ChosenTail ==
    ASSUME NEW R, NEW T, NEW map, map # <<>>, NEW K, NEW v, Tells(v, map, R, T)
    PROVE  Chosen(map, K, v) =
              IF Head(map) \in K THEN Before(v[Head(map)], Chosen(Tail(map), K, v))
                                 ELSE Chosen(Tail(map), K, v)
<1> DEFINE t == Tail(map)
           n == Len(t)
           at == [i \in DOMAIN t |-> v[t[i]]]
           ot == [i \in DOMAIN map |-> v[map[i]]]
           I == {i \in DOMAIN t : t[i] \in K}
           J == {i \in DOMAIN map : map[i] \in K}
           M == {Moved(1, i) : i \in I}
<1>0. map \in Seq(R) /\ v \in [R -> T]
  BY DEF Tells
<1>1. /\ t \in Seq(R) /\ n \in Nat /\ Len(map) = n + 1 /\ DOMAIN map = 1 .. n + 1
      /\ DOMAIN t = 1 .. n /\ Head(map) = map[1] /\ \A i \in 1 .. n : t[i] = map[i + 1]
      /\ I \in SUBSET (1 .. n) /\ n + 1 \in Nat
  BY <1>0
<1>2. \A i \in 1 .. n : Moved(1, i) = i + 1 /\ i + 1 \in 2 .. n + 1 /\ i + 1 \in 1 .. n + 1
  BY <1>1 DEF Moved
<1>3. \A j \in 2 .. n + 1 : j - 1 \in 1 .. n /\ Moved(1, j - 1) = j
  BY <1>1 DEF Moved
<1>4. J \ {1} = M /\ M \in SUBSET (2 .. n + 1)
  <2>1. ASSUME NEW j \in J \ {1}
        PROVE  j \in M
    <3>1. j \in 2 .. n + 1
      BY <1>1
    <3>2. j - 1 \in 1 .. n /\ t[j - 1] = map[j - 1 + 1] /\ j - 1 + 1 = j
      BY <1>1, <1>3, <3>1
    <3>3. j - 1 \in I
      BY <1>1, <2>1, <3>2
    <3> QED
      BY <1>3, <3>1, <3>3
  <2>2. \A i \in I : Moved(1, i) \in J \ {1} /\ Moved(1, i) \in 2 .. n + 1
    <3> SUFFICES ASSUME NEW i \in I
                 PROVE  i + 1 \in J /\ i + 1 # 1 /\ i \in 1 .. n
      BY <1>2
    <3>1. i \in 1 .. n /\ t[i] \in K
      BY <1>1
    <3> QED
      BY <1>1, <1>2, <3>1
  <2> QED
    BY <2>1, <2>2
<1>5. \A i \in I : ot[Moved(1, i)] = at[i]
  BY <1>1, <1>2
<1>6. Chosen(map, K, v) = Kept(ot, J) /\ Chosen(t, K, v) = Kept(at, I)
  BY DEF Chosen
<1>7. 1 \in J <=> Head(map) \in K
  BY <1>1
<1>8. ot[1] = v[Head(map)]
  BY <1>1
<1>9. \A i \in 1 .. n + 1 : ot[i] \in T
  <2>1. \A i \in 1 .. n + 1 : map[i] \in R
    BY <1>0, <1>1
  <2> QED
    BY <1>0, <1>1, <2>1
<1> HIDE DEF t, n, at, ot, I, J
<1>10. Kept(ot, M) = Kept(at, I)
  <2>1. n \in Nat /\ I \in SUBSET (1 .. n) /\ 1 \in Nat
    BY <1>1
  <2>2. Moves(at, I, n, 1, ot, M)
    BY <1>5, <2>1 DEF Moves
  <2> HIDE DEF M
  <2> QED
    BY <2>1, <2>2, KeptMoved
<1> HIDE DEF M
<1>11. CASE Head(map) \notin K
  <2>1. J = M
    BY <1>4, <1>7, <1>11
  <2> QED
    BY <1>6, <1>10, <1>11, <2>1 DEF t
<1>12. CASE Head(map) \in K
  <2>1. J = {1} \cup M
    BY <1>4, <1>7, <1>12
  <2>2. Begins(ot, J, M, n + 1, T) /\ n + 1 \in Nat
    BY <1>1, <1>4, <1>9, <2>1 DEF Begins
  <2>3. Kept(ot, J) = Before(ot[1], Kept(ot, M))
    BY <2>2, KeptFirst
  <2> QED
    BY <1>6, <1>8, <1>10, <1>12, <2>1, <2>3 DEF t
<1> QED
  BY <1>11, <1>12

-----------------------------------------------------------------------------
(* Sequences one after the other                                           *)

LEMMA TakeFromFirst ==
    ASSUME NEW T, NEW b \in Seq(T), NEW z \in Seq(T), b # <<>>
    PROVE  /\ b \o z # <<>> /\ Head(b \o z) = Head(b)
           /\ Tail(b) \o z = Tail(b \o z)
<1>1. b \o z \in Seq(T) /\ Len(b \o z) = Len(b) + Len(z) /\ Len(b) >= 1
  OBVIOUS
<1>2. b \o z # <<>> /\ Head(b \o z) = Head(b)
  BY <1>1
<1>3. Tail(b) \in Seq(T) /\ Len(Tail(b)) = Len(b) - 1
      /\ \A i \in 1 .. Len(b) - 1 : Tail(b)[i] = b[i + 1]
  BY <1>1
<1>4. Tail(b \o z) \in Seq(T) /\ Len(Tail(b \o z)) = Len(b) + Len(z) - 1
      /\ \A i \in 1 .. Len(b) + Len(z) - 1 : Tail(b \o z)[i] = (b \o z)[i + 1]
  BY <1>1
<1>5. Tail(b) \o z \in Seq(T) /\ Len(Tail(b) \o z) = Len(b) + Len(z) - 1
  BY <1>3
<1>6. ASSUME NEW i \in 1 .. Len(b) + Len(z) - 1
      PROVE  (Tail(b) \o z)[i] = Tail(b \o z)[i]
  BY <1>1, <1>3, <1>4, <1>6
<1> QED
  BY <1>2, <1>4, <1>5, <1>6

LEMMA HeadAndTail ==
    ASSUME NEW T, NEW b \in Seq(T), b # <<>>
    PROVE  Head(b) \in T /\ Tail(b) \in Seq(T) /\ <<Head(b)>> \in Seq(T)
           /\ b = <<Head(b)>> \o Tail(b)
OBVIOUS

LEMMA MoveToNext ==
    ASSUME NEW T, NEW a \in Seq(T), NEW b \in Seq(T), NEW v \in Seq(T), b # <<>>
    PROVE  (a \o Append(v, Head(b))) \o Tail(b) = (a \o v) \o b
<1> DEFINE y == <<Head(b)>>
           t == Tail(b)
           vy == v \o y
           av == a \o v
<1>1. y \in Seq(T) /\ t \in Seq(T) /\ b = y \o t
  BY HeadAndTail
<1>2. Append(v, Head(b)) = vy
  OBVIOUS
<1> HIDE DEF y, t
<1>3. vy \in Seq(T) /\ a \o vy = av \o y /\ av \in Seq(T)
  BY <1>1
<1> HIDE DEF vy, av
<1>4. (av \o y) \o t = av \o b
  BY <1>1, <1>3
<1>5. (a \o vy) \o t = av \o b
  BY <1>3, <1>4
<1> QED
  BY <1>2, <1>5 DEF t, av

\* y is in u between x and r.
Between(u, x, y, r) == u = x \o (<<y>> \o r)

LEMMA RemoveMiddle ==
    ASSUME NEW T, NEW x \in Seq(T), NEW r \in Seq(T), NEW y \in T,
           NEW u, Between(u, x, y, r)
    PROVE  Len(x) + 1 \in DOMAIN u /\ RemoveAt(u, Len(x) + 1) = x \o r
<1> DEFINE n == Len(x)
           k == Len(r)
           v == <<y>> \o r
<1>1. n \in Nat /\ k \in Nat
  OBVIOUS
<1>2. v \in Seq(T) /\ Len(v) = k + 1 /\ \A i \in 1 .. k : v[i + 1] = r[i]
  OBVIOUS
<1>3. u = x \o v
  BY DEF Between
<1> HIDE DEF v
<1>13. x \o v \in Seq(T) /\ Len(x \o v) = n + Len(v)
      /\ \A i \in 1 .. n : (x \o v)[i] = x[i]
  <2>1. v \in Seq(T) /\ Len(v) \in Nat /\ Len(x) \in Nat
    BY <1>2
  <2>2. x \o v \in Seq(T) /\ Len(x \o v) = Len(x) + Len(v)
    BY <2>1
  <2>3. \A i \in 1 .. Len(x) : (x \o v)[i] = x[i]
    BY <2>1
  <2> QED
    BY <2>2, <2>3 DEF n
<1>4. u \in Seq(T) /\ Len(u) = n + k + 1 /\ DOMAIN u = 1 .. n + k + 1
      /\ \A i \in 1 .. n : u[i] = x[i]
  <2>1. u \in Seq(T) /\ Len(u) = n + (k + 1) /\ \A i \in 1 .. n : u[i] = x[i]
    BY <1>2, <1>3, <1>13
  <2>2. DOMAIN u = 1 .. Len(u)
    BY <2>1
  <2> QED
    BY <1>1, <2>1, <2>2
<1>5. \A i \in 1 .. k : u[n + 1 + i] = r[i]
  <2> SUFFICES ASSUME NEW i \in 1 .. k
               PROVE  u[n + 1 + i] = r[i]
    OBVIOUS
  <2>1. n + 1 + i \in 1 .. Len(x) + Len(v) /\ n + 1 + i > Len(x) /\ (n + 1 + i) - Len(x) = i + 1
    BY <1>1, <1>2
  <2>2. (x \o v)[n + 1 + i] = v[(n + 1 + i) - Len(x)]
    BY <1>2, <2>1, ConcatProperties
  <2> QED
    BY <1>2, <1>3, <2>1, <2>2
<1> DEFINE p == SubSeq(u, 1, n)
           q == SubSeq(u, n + 2, Len(u))
<1> HIDE DEF n, k
<1>6. p \in Seq(T) /\ Len(p) = n /\ \A i \in 1 .. n : p[i] = u[i]
  BY <1>1, <1>4
<1>7. p = x
  BY <1>4, <1>6 DEF n
<1>8. q \in Seq(T) /\ Len(q) = k /\ \A i \in 1 .. k : q[i] = u[n + 1 + i]
  BY <1>1, <1>4
<1> HIDE DEF p, q
<1>12. \A i \in 1 .. k : q[i] = r[i]
  BY <1>5, <1>8
<1>9. q = r
  BY <1>8, <1>12 DEF k
<1>10. n + 1 - 1 = n /\ n + 1 + 1 = n + 2 /\ n + 1 \in 1 .. n + k + 1
  BY <1>1
<1>11. RemoveAt(u, n + 1) = p \o q
  <2>1. SubSeq(u, 1, (n + 1) - 1) = p /\ SubSeq(u, (n + 1) + 1, Len(u)) = q
    BY <1>1, <1>4, <1>10 DEF p, q
  <2> HIDE DEF p, q
  <2> QED
    BY <2>1 DEF RemoveAt
<1> QED
  BY <1>4, <1>7, <1>9, <1>10, <1>11 DEF n

LEMMA LoseNext ==
    ASSUME NEW T, NEW a \in Seq(T), NEW b \in Seq(T), NEW z \in Seq(T), b # <<>>
    PROVE  /\ Len(a) + 1 \in DOMAIN ((a \o b) \o z)
           /\ (a \o Tail(b)) \o z = RemoveAt((a \o b) \o z, Len(a) + 1)
<1> DEFINE h == Head(b)
           y == <<h>>
           t == Tail(b)
           r == t \o z
           u == (a \o b) \o z
           bz == b \o z
           yr == y \o r
<1>1. h \in T /\ y \in Seq(T) /\ t \in Seq(T) /\ b = y \o t
  BY HeadAndTail
<1>2. (a \o t) \o z = a \o r /\ r \in Seq(T)
  BY <1>1
<1>3. bz = yr
  <2> HIDE DEF y, t
  <2> QED
    BY <1>1
<1>4. u = a \o bz
  OBVIOUS
<1>5. Between(u, a, h, r)
  <2> HIDE DEF u, bz, r
  <2> QED
    BY <1>3, <1>4 DEF Between
<1> HIDE DEF h, u, r
<1>6. Len(a) + 1 \in DOMAIN u /\ RemoveAt(u, Len(a) + 1) = a \o r
  BY <1>1, <1>2, <1>5, RemoveMiddle
<1> QED
  BY <1>2, <1>6 DEF u
=============================================================================

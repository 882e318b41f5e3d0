--------------------------- MODULE TopologyProofs ---------------------------
(***************************************************************************)
(* Proofs about Topology: what Link commands leave of the links, and that  *)
(* the search for the next hop finds shortest paths, for every topology.   *)
(***************************************************************************)
EXTENDS Topology, FiniteSetTheorems, SequenceTheorems,
        WellFoundedInduction, TLAPS

-----------------------------------------------------------------------------
(* The links of one address                                                *)

\* A list of links: at most one to x; none to x; one to x at cost c.
IsList(q) == \E S : q \in Seq(S)
Sole(q, x) == \A i, j \in 1 .. Len(q) : q[i].neighbor = x /\ q[j].neighbor = x => i = j
None(q, x) == \A i \in 1 .. Len(q) : q[i].neighbor # x
Has(q, x, c) == \E i \in 1 .. Len(q) : q[i].neighbor = x /\ q[i].cost = c

\* q is no worse than r as far as links to x are concerned.
Same(q, r, x) == (Sole(r, x) => Sole(q, x)) /\ \A c : Has(q, x, c) <=> Has(r, x, c)

(* The least number of a nonempty set of natural numbers.                  *)
LEMMA LeastIs ==
    ASSUME NEW I \in SUBSET Nat, I # {}
    PROVE  \E m \in I : m = Min(I) /\ \A n \in I : m <= n
<1>1. PICK k \in I : \A n \in I : <<n, k>> \notin OpToRel(<, Nat)
  BY NatLessThanWellFounded, WFMin
<1>2. \A n \in I : ~(n < k)
  BY <1>1 DEF OpToRel
<1>3. \A n \in I : k <= n
  BY <1>2
<1> QED
  BY <1>3 DEF Min

LEMMA MinIsIn ==
    ASSUME NEW I \in SUBSET Nat, I # {}
    PROVE  Min(I) \in I
  BY LeastIs

(* What RemoveAt returns.                                                  *)
LEMMA RemoveAtShape ==
    ASSUME NEW S, NEW s \in Seq(S), NEW k \in 1 .. Len(s)
    PROVE  /\ RemoveAt(s, k) \in Seq(S)
           /\ Len(RemoveAt(s, k)) = Len(s) - 1
           /\ \A i \in 1 .. Len(s) - 1 :
                RemoveAt(s, k)[i] = IF i < k THEN s[i] ELSE s[i + 1]
<1>1. Len(s) \in Nat /\ k \in Nat /\ 1 <= k /\ k <= Len(s)
  OBVIOUS
<1>2. \A i \in 1 .. Len(s) : s[i] \in S
  OBVIOUS
<1>3. PICK left \in Seq(S) : /\ left = SubSeq(s, 1, k - 1) /\ Len(left) = k - 1
                             /\ \A i \in 1 .. k - 1 : left[i] = s[i]
  <2>1. k - 1 \in Int /\ \A i \in 1 .. k - 1 : s[i] \in S
    BY <1>1, <1>2
  <2>2. /\ SubSeq(s, 1, k - 1) \in Seq(S)
        /\ Len(SubSeq(s, 1, k - 1)) = IF 1 <= k - 1 THEN k - 1 - 1 + 1 ELSE 0
        /\ \A i \in 1 .. k - 1 - 1 + 1 : SubSeq(s, 1, k - 1)[i] = s[1 + i - 1]
    BY <2>1, SubSeqProperties
  <2>3. /\ (IF 1 <= k - 1 THEN k - 1 - 1 + 1 ELSE 0) = k - 1 /\ k - 1 - 1 + 1 = k - 1
        /\ \A i \in 1 .. k - 1 : 1 + i - 1 = i
    BY <1>1
  <2> QED
    BY <2>2, <2>3, Zenon
<1>4. PICK right \in Seq(S) : /\ right = SubSeq(s, k + 1, Len(s)) /\ Len(right) = Len(s) - k
                              /\ \A i \in 1 .. Len(s) - k : right[i] = s[k + i]
  <2>1. k + 1 \in Int /\ \A i \in k + 1 .. Len(s) : s[i] \in S
    BY <1>1, <1>2
  <2>2. /\ SubSeq(s, k + 1, Len(s)) \in Seq(S)
        /\ Len(SubSeq(s, k + 1, Len(s))) = IF k + 1 <= Len(s) THEN Len(s) - (k + 1) + 1 ELSE 0
        /\ \A i \in 1 .. Len(s) - (k + 1) + 1 : SubSeq(s, k + 1, Len(s))[i] = s[(k + 1) + i - 1]
    BY <1>1, <2>1, SubSeqProperties
  <2>3. /\ (IF k + 1 <= Len(s) THEN Len(s) - (k + 1) + 1 ELSE 0) = Len(s) - k
        /\ Len(s) - (k + 1) + 1 = Len(s) - k
        /\ \A i \in 1 .. Len(s) - k : (k + 1) + i - 1 = k + i
    BY <1>1
  <2>4. \A i \in 1 .. Len(s) - k : SubSeq(s, k + 1, Len(s))[i] = s[k + i]
    BY <2>2, <2>3
  <2> QED
    BY <2>2, <2>3, <2>4
<1>5. PICK t \in Seq(S) :
        /\ t = left \o right /\ Len(t) = Len(s) - 1
        /\ \A i \in 1 .. Len(s) - 1 : t[i] = IF i <= k - 1 THEN left[i] ELSE right[i - (k - 1)]
  <2>1. PICK t \in Seq(S) :
          /\ t = left \o right /\ Len(t) = Len(left) + Len(right)
          /\ \A i \in 1 .. Len(left) + Len(right) :
                t[i] = IF i <= Len(left) THEN left[i] ELSE right[i - Len(left)]
    <3>1. /\ left \o right \in Seq(S) /\ Len(left \o right) = Len(left) + Len(right)
          /\ \A i \in 1 .. Len(left) + Len(right) : (left \o right)[i] =
                IF i <= Len(left) THEN left[i] ELSE right[i - Len(left)]
      BY ConcatProperties
    <3> QED
      BY <3>1, Zenon
  <2>2. Len(left) + Len(right) = Len(s) - 1 /\ Len(left) = k - 1
    <3>1. Len(left) = k - 1 /\ Len(right) = Len(s) - k
      BY <1>3, <1>4, Zenon
    <3>2. (k - 1) + (Len(s) - k) = Len(s) - 1
      BY <1>1
    <3> QED
      BY <3>1, <3>2, Zenon
  <2> QED
    BY <2>1, <2>2, Zenon
<1>6. RemoveAt(s, k) = t
  BY <1>3, <1>4, <1>5, Zenon DEF RemoveAt
<1>7. \A i \in 1 .. Len(s) - 1 : t[i] = IF i < k THEN s[i] ELSE s[i + 1]
  <2> TAKE i \in 1 .. Len(s) - 1
  <2>1. CASE i < k
    <3>1. i <= k - 1 /\ i \in 1 .. k - 1
      BY <2>1, <1>1
    <3> QED
      BY <2>1, <3>1, <1>3, <1>5, Zenon
  <2>2. CASE ~(i < k)
    <3>1. ~(i <= k - 1) /\ i - (k - 1) \in 1 .. Len(s) - k /\ k + (i - (k - 1)) = i + 1
      BY <2>2, <1>1
    <3>2. right[i - (k - 1)] = s[i + 1]
      BY <3>1, <1>4
    <3> QED
      BY <2>2, <3>1, <3>2, <1>5, Zenon
  <2> QED
    BY <2>1, <2>2
<1> QED
  BY <1>5, <1>6, <1>7, Zenon

(* Erasing the first link to d leaves the links to others; if it was the   *)
(* only one, none to d.                                                    *)
LEMMA EraseShape ==
    ASSUME NEW q, IsList(q), NEW d
    PROVE  LET r == RemoveFirstMatch(q, LAMBDA l : l.neighbor = d)
           IN  /\ IsList(r)
               /\ \A x : x # d => Same(r, q, x)
               /\ Sole(q, d) => None(r, d)
<1> DEFINE I == {i \in 1 .. Len(q) : q[i].neighbor = d}
           r == RemoveFirstMatch(q, LAMBDA l : l.neighbor = d)
<1>1. PICK S : q \in Seq(S)
  BY DEF IsList
<1>2. CASE I = {}
  <2>1. r = q /\ None(q, d)
    BY <1>2 DEF RemoveFirstMatch, None
  <2> QED
    BY <2>1 DEF Same
<1>3. CASE I # {}
  <2>1. PICK k \in 1 .. Len(q) : k = Min(I) /\ q[k].neighbor = d
    <3>1. I \in SUBSET Nat
      BY <1>1
    <3>2. Min(I) \in I
      BY <1>3, <3>1, MinIsIn
    <3> QED
      BY <3>2
  <2>2. r = RemoveAt(q, k)
    BY <1>3, <2>1 DEF RemoveFirstMatch, SelectInSeq
  <2> HIDE DEF r, I
  <2>3. /\ r \in Seq(S) /\ Len(r) = Len(q) - 1 /\ Len(q) \in Nat
        /\ \A i \in 1 .. Len(q) - 1 : r[i] = IF i < k THEN q[i] ELSE q[i + 1]
    <3>1. Len(q) \in Nat
      BY <1>1
    <3>2. /\ RemoveAt(q, k) \in Seq(S) /\ Len(RemoveAt(q, k)) = Len(q) - 1
          /\ \A i \in 1 .. Len(q) - 1 :
               RemoveAt(q, k)[i] = IF i < k THEN q[i] ELSE q[i + 1]
      BY <1>1, <2>1, RemoveAtShape, Zenon
    <3> QED
      BY <2>2, <3>1, <3>2, Zenon
  <2> DEFINE from(i) == IF i < k THEN i ELSE i + 1
  <2>4. \A i \in 1 .. Len(r) : from(i) \in 1 .. Len(q) /\ from(i) # k /\ r[i] = q[from(i)]
    BY <2>3
  <2>5. \A i, j \in 1 .. Len(r) : from(i) = from(j) => i = j
    BY <2>3
  <2>6. ASSUME NEW i \in 1 .. Len(q), i # k
        PROVE  \E j \in 1 .. Len(r) : r[j] = q[i]
    <3>1. CASE i < k
      <4>1. i \in 1 .. Len(r) /\ r[i] = q[i]
        BY <2>3, <3>1
      <4> QED
        BY <4>1
    <3>2. CASE i > k
      <4>1. i - 1 \in 1 .. Len(r) /\ r[i - 1] = q[i]
        BY <2>3, <3>2
      <4> QED
        BY <4>1
    <3> QED
      BY <2>6, <3>1, <3>2
  <2> HIDE DEF from
  <2>7. ASSUME NEW x, x # d
        PROVE  Same(r, q, x)
    <3>1. Sole(q, x) => Sole(r, x)
      BY <2>4, <2>5 DEF Sole
    <3>2. ASSUME NEW c
          PROVE  Has(r, x, c) => Has(q, x, c)
      BY <2>4 DEF Has
    <3>3. ASSUME NEW c
          PROVE  Has(q, x, c) => Has(r, x, c)
      BY <2>1, <2>6, <2>7 DEF Has
    <3> QED
      BY <3>1, <3>2, <3>3 DEF Same
  <2>8. Sole(q, d) => None(r, d)
    BY <2>1, <2>4 DEF Sole, None
  <2>9. IsList(r)
    BY <2>3 DEF IsList
  <2> QED
    BY <2>7, <2>8, <2>9 DEF r
<1> QED
  BY <1>2, <1>3

(* A link that joins a list is the only one to its neighbour, if there was *)
(* none, and leaves the others.                                            *)
LEMMA AppendShape ==
    ASSUME NEW q, IsList(q), NEW d, NEW c
    PROVE  LET r == Append(q, LinkData(d, c))
           IN  /\ IsList(r)
               /\ \A x : x # d => Same(r, q, x)
               /\ None(q, d) => Sole(r, d) /\ \A k : Has(r, d, k) <=> k = c
<1> DEFINE e == LinkData(d, c)
           r == Append(q, e)
<1>1. PICK S : q \in Seq(S)
  BY DEF IsList
<1>2. q \in Seq(S \cup {e}) /\ e \in S \cup {e}
  BY <1>1
<1> HIDE DEF e
<1>3. /\ r \in Seq(S \cup {e}) /\ Len(q) \in Nat /\ Len(r) = Len(q) + 1
      /\ r[Len(q) + 1] = e
      /\ \A i \in 1 .. Len(q) : r[i] = q[i]
  BY <1>2, AppendProperties
<1>4. e.neighbor = d /\ e.cost = c
  BY DEF e, LinkData
<1> HIDE DEF r
<1>5. \A i \in 1 .. Len(r) : i \in 1 .. Len(q) \/ i = Len(q) + 1
  BY <1>3
<1>6. 1 .. Len(q) \subseteq 1 .. Len(r) /\ Len(q) + 1 \in 1 .. Len(r)
  BY <1>3
<1>7. ASSUME NEW x, x # d
      PROVE  Same(r, q, x)
  <2>1. Sole(q, x) => Sole(r, x)
    BY <1>3, <1>4, <1>5, <1>7 DEF Sole
  <2>2. ASSUME NEW k
        PROVE  Has(r, x, k) => Has(q, x, k)
    BY <1>3, <1>4, <1>5, <1>7 DEF Has
  <2>3. ASSUME NEW k
        PROVE  Has(q, x, k) => Has(r, x, k)
    BY <1>3, <1>6 DEF Has
  <2> QED
    BY <2>1, <2>2, <2>3 DEF Same
<1>8. ASSUME None(q, d)
      PROVE  Sole(r, d) /\ \A k : Has(r, d, k) <=> k = c
  <2>1. \A i \in 1 .. Len(r) : r[i].neighbor = d <=> i = Len(q) + 1
    BY <1>3, <1>4, <1>5, <1>8 DEF None
  <2>2. Sole(r, d)
    BY <2>1 DEF Sole
  <2>3. ASSUME NEW k
        PROVE  Has(r, d, k) <=> k = c
    BY <1>3, <1>4, <1>6, <2>1 DEF Has
  <2> QED
    BY <2>2, <2>3
<1>9. IsList(r)
  BY <1>3 DEF IsList
<1> QED
  BY <1>7, <1>8, <1>9 DEF r, e

-----------------------------------------------------------------------------
(* The links of all addresses                                              *)

Lists(map) == DOMAIN map = Addresses /\ \A a \in Addresses : IsList(map[a])

\* Between two addresses: at most one link, and the same in both directions.
Mirrored(map) ==
    \A a, x \in Addresses : a # x =>
        Sole(map[a], x) /\ \A c : Has(map[a], x, c) => Has(map[x], a, c)

LinksInv == Lists(linkMap) /\ Mirrored(linkMap)

LEMMA SameTrans ==
    ASSUME NEW q, NEW r, NEW t, NEW x, Same(q, r, x), Same(r, t, x)
    PROVE  Same(q, t, x)
  BY DEF Same

LEMMA SameNone ==
    ASSUME NEW q, NEW r, NEW x, Same(q, r, x), None(r, x)
    PROVE  None(q, x)
<1> SUFFICES ASSUME NEW i \in 1 .. Len(q), q[i].neighbor = x
             PROVE  FALSE
  BY DEF None
<1>1. Has(q, x, q[i].cost)
  BY DEF Has
<1>2. Has(r, x, q[i].cost)
  BY <1>1 DEF Same
<1> QED
  BY <1>2 DEF Has, None

LEMMA EraseLinkOK ==
    ASSUME NEW map, Lists(map), NEW s, NEW d
    PROVE  /\ Lists(EraseLink(map, s, d))
           /\ \A a \in Addresses : \A x : a # s \/ x # d =>
                 Same(EraseLink(map, s, d)[a], map[a], x)
           /\ s \in Addresses /\ Sole(map[s], d) => None(EraseLink(map, s, d)[s], d)
<1> DEFINE r(q) == RemoveFirstMatch(q, LAMBDA l : l.neighbor = d)
           m == EraseLink(map, s, d)
<1>1. m = [map EXCEPT ![s] = r(map[s])]
  BY DEF EraseLink
<1> HIDE DEF m
<1>2. \A a \in Addresses : /\ IsList(r(map[a]))
                           /\ \A x : x # d => Same(r(map[a]), map[a], x)
                           /\ Sole(map[a], d) => None(r(map[a]), d)
  BY EraseShape DEF Lists
<1> HIDE DEF r
<1>3. /\ DOMAIN m = Addresses
      /\ \A a \in Addresses : m[a] = IF a = s THEN r(map[a]) ELSE map[a]
  BY <1>1 DEF Lists
<1>4. \A q, x : Same(q, q, x)
  BY DEF Same
<1>5. Lists(m)
  BY <1>2, <1>3 DEF Lists
<1>6. \A a \in Addresses : \A x : a # s \/ x # d => Same(m[a], map[a], x)
  BY <1>2, <1>3, <1>4
<1>7. s \in Addresses /\ Sole(map[s], d) => None(m[s], d)
  BY <1>2, <1>3
<1> QED
  BY <1>5, <1>6, <1>7 DEF m

LEMMA InsertLinkOK ==
    ASSUME NEW map, Lists(map), NEW s, NEW d, NEW c
    PROVE  /\ Lists(InsertLink(map, s, d, c))
           /\ \A a \in Addresses : \A x : a # s \/ x # d =>
                 Same(InsertLink(map, s, d, c)[a], map[a], x)
           /\ s \in Addresses /\ None(map[s], d) =>
                 /\ Sole(InsertLink(map, s, d, c)[s], d)
                 /\ \A k : Has(InsertLink(map, s, d, c)[s], d, k) <=> k = c
<1> DEFINE r(q) == Append(q, LinkData(d, c))
           m == InsertLink(map, s, d, c)
<1>1. m = [map EXCEPT ![s] = r(map[s])]
  BY DEF InsertLink
<1> HIDE DEF m
<1>2. \A a \in Addresses : /\ IsList(r(map[a]))
                           /\ \A x : x # d => Same(r(map[a]), map[a], x)
                           /\ None(map[a], d) => /\ Sole(r(map[a]), d)
                                                 /\ \A k : Has(r(map[a]), d, k) <=> k = c
  BY AppendShape DEF Lists
<1> HIDE DEF r
<1>3. /\ DOMAIN m = Addresses
      /\ \A a \in Addresses : m[a] = IF a = s THEN r(map[a]) ELSE map[a]
  BY <1>1 DEF Lists
<1>4. \A q, x : Same(q, q, x)
  BY DEF Same
<1>5. Lists(m)
  BY <1>2, <1>3 DEF Lists
<1>6. \A a \in Addresses : \A x : a # s \/ x # d => Same(m[a], map[a], x)
  BY <1>2, <1>3, <1>4
<1>7. s \in Addresses /\ None(map[s], d) =>
         Sole(m[s], d) /\ \A k : Has(m[s], d, k) <=> k = c
  BY <1>2, <1>3
<1> QED
  BY <1>5, <1>6, <1>7 DEF m

(* add_link replaces both directions of a link, whatever its arguments, and *)
(* leaves the others.                                                      *)
LEMMA AddLinkShape ==
    ASSUME LinksInv, NEW s, NEW d, NEW c, AddLink(s, d, c)
    PROVE  /\ Lists(linkMap')
           /\ \A a \in Addresses : \A x : ~(a = s /\ x = d) /\ ~(a = d /\ x = s) =>
                 Same(linkMap'[a], linkMap[a], x)
           /\ s \in Addresses /\ d \in Addresses /\ s # d =>
                 /\ Sole(linkMap'[s], d) /\ \A k : Has(linkMap'[s], d, k) <=> k = c
                 /\ Sole(linkMap'[d], s) /\ \A k : Has(linkMap'[d], s, k) <=> k = c
<1> DEFINE m1 == EraseLink(linkMap, s, d)
           m2 == EraseLink(m1, d, s)
           m3 == InsertLink(m2, s, d, c)
           m4 == InsertLink(m3, d, s, c)
<1>1. linkMap' = m4
  BY DEF AddLink
<1>2. /\ Lists(m1)
      /\ \A a \in Addresses : \A x : a # s \/ x # d => Same(m1[a], linkMap[a], x)
      /\ s \in Addresses /\ Sole(linkMap[s], d) => None(m1[s], d)
  BY EraseLinkOK DEF LinksInv
<1> HIDE DEF m1
<1>3. /\ Lists(m2)
      /\ \A a \in Addresses : \A x : a # d \/ x # s => Same(m2[a], m1[a], x)
      /\ d \in Addresses /\ Sole(m1[d], s) => None(m2[d], s)
  BY <1>2, EraseLinkOK
<1> HIDE DEF m2
<1>4. /\ Lists(m3)
      /\ \A a \in Addresses : \A x : a # s \/ x # d => Same(m3[a], m2[a], x)
      /\ s \in Addresses /\ None(m2[s], d) =>
            Sole(m3[s], d) /\ \A k : Has(m3[s], d, k) <=> k = c
  BY <1>3, InsertLinkOK
<1> HIDE DEF m3
<1>5. /\ Lists(m4)
      /\ \A a \in Addresses : \A x : a # d \/ x # s => Same(m4[a], m3[a], x)
      /\ d \in Addresses /\ None(m3[d], s) =>
            Sole(m4[d], s) /\ \A k : Has(m4[d], s, k) <=> k = c
  BY <1>4, InsertLinkOK
<1> HIDE DEF m4
<1>6. ASSUME NEW a \in Addresses, NEW x,
             ~(a = s /\ x = d), ~(a = d /\ x = s)
      PROVE  Same(m4[a], linkMap[a], x)
  <2>1. /\ Same(m1[a], linkMap[a], x) /\ Same(m2[a], m1[a], x)
        /\ Same(m3[a], m2[a], x) /\ Same(m4[a], m3[a], x)
    BY <1>2, <1>3, <1>4, <1>5, <1>6
  <2> QED
    BY <2>1, SameTrans
<1>7. ASSUME s \in Addresses, d \in Addresses, s # d
      PROVE  /\ Sole(m4[s], d) /\ \A k : Has(m4[s], d, k) <=> k = c
             /\ Sole(m4[d], s) /\ \A k : Has(m4[d], s, k) <=> k = c
  <2>1. Sole(linkMap[s], d) /\ Sole(linkMap[d], s)
    BY <1>7 DEF LinksInv, Mirrored
  <2>2. None(m2[s], d)
    <3>1. None(m1[s], d) /\ Same(m2[s], m1[s], d)
      BY <1>2, <1>3, <1>7, <2>1
    <3> QED
      BY <3>1, SameNone
  <2>3. Same(m4[s], m3[s], d) /\ Sole(m3[s], d) /\ \A k : Has(m3[s], d, k) <=> k = c
    BY <1>4, <1>5, <1>7, <2>2
  <2>4. None(m3[d], s)
    <3>1. Same(m1[d], linkMap[d], s)
      BY <1>2, <1>7
    <3>2. Sole(m1[d], s)
      BY <2>1, <3>1 DEF Same
    <3>3. None(m2[d], s) /\ Same(m3[d], m2[d], s)
      BY <1>3, <1>4, <1>7, <3>2
    <3> QED
      BY <3>3, SameNone
  <2>5. Sole(m4[d], s) /\ \A k : Has(m4[d], s, k) <=> k = c
    BY <1>5, <1>7, <2>4
  <2> QED
    BY <2>3, <2>5 DEF Same
<1> QED
  BY <1>1, <1>5, <1>6, <1>7

LEMMA AddLinkOK ==
    ASSUME LinksInv, NEW s, NEW d, NEW c, AddLink(s, d, c)
    PROVE  LinksInv'
<1>1. /\ Lists(linkMap')
      /\ \A a \in Addresses : \A x : ~(a = s /\ x = d) /\ ~(a = d /\ x = s) =>
            Same(linkMap'[a], linkMap[a], x)
      /\ s \in Addresses /\ d \in Addresses /\ s # d =>
            /\ Sole(linkMap'[s], d) /\ \A k : Has(linkMap'[s], d, k) <=> k = c
            /\ Sole(linkMap'[d], s) /\ \A k : Has(linkMap'[d], s, k) <=> k = c
  BY AddLinkShape
<1>2. ASSUME NEW a \in Addresses, NEW x \in Addresses, a # x
      PROVE  Sole(linkMap'[a], x) /\ \A k : Has(linkMap'[a], x, k) => Has(linkMap'[x], a, k)
  <2>1. CASE a = s /\ x = d
    BY <1>1, <1>2, <2>1
  <2>2. CASE a = d /\ x = s
    BY <1>1, <1>2, <2>2
  <2>3. CASE ~(a = s /\ x = d) /\ ~(a = d /\ x = s)
    <3>1. Same(linkMap'[a], linkMap[a], x) /\ Same(linkMap'[x], linkMap[x], a)
      BY <1>1, <2>3
    <3>2. Sole(linkMap[a], x) /\ \A k : Has(linkMap[a], x, k) => Has(linkMap[x], a, k)
      BY <1>2 DEF LinksInv, Mirrored
    <3> QED
      BY <3>1, <3>2 DEF Same
  <2> QED
    BY <2>1, <2>2, <2>3
<1> QED
  BY <1>1, <1>2 DEF LinksInv, Mirrored

LEMMA LinksInit == Init => LinksInv
<1> SUFFICES ASSUME Init
             PROVE  LinksInv
  OBVIOUS
<1>1. \A a \in Addresses : linkMap[a] = <<>>
  BY DEF Init
<1>2. IsList(<<>>) /\ \A x : Sole(<<>>, x) /\ \A c : ~Has(<<>>, x, c)
  BY DEF IsList, Sole, Has
<1> QED
  BY <1>1, <1>2 DEF Init, LinksInv, Lists, Mirrored

LEMMA SearchKeepsLinks == Search => linkMap' = linkMap
  BY DEF Search, Answer, Expand, Dies

(* What the invariant says of the links that find_link returns.            *)
LEMMA LinksFromInv == LinksInv => LinksSymmetric
<1> SUFFICES ASSUME LinksInv, NEW s \in Addresses, NEW d \in Addresses, s # d
             PROVE  /\ Cardinality({i \in DOMAIN linkMap[s] : linkMap[s][i].neighbor = d}) <= 1
                    /\ HasLink(linkMap, s, d) =>
                         /\ HasLink(linkMap, d, s)
                         /\ FindLink(linkMap, s, d).cost = FindLink(linkMap, d, s).cost
  BY DEF LinksSymmetric
<1> DEFINE I(a, x) == {i \in DOMAIN linkMap[a] : linkMap[a][i].neighbor = x}
<1>1. \A a \in Addresses : DOMAIN linkMap[a] = 1 .. Len(linkMap[a])
  BY DEF LinksInv, Lists, IsList
<1>2. ASSUME NEW a \in Addresses, NEW x \in Addresses, a # x
      PROVE  \A i, j \in I(a, x) : i = j
  BY <1>1, <1>2 DEF LinksInv, Mirrored, Sole
<1>3. ASSUME NEW a \in Addresses, NEW x \in Addresses, a # x, NEW i \in I(a, x)
      PROVE  FindLink(linkMap, a, x) = linkMap[a][i] /\ i \in 1 .. Len(linkMap[a])
  <2>1. I(a, x) = {i} /\ i \in 1 .. Len(linkMap[a])
    BY <1>1, <1>2, <1>3
  <2>2. Min(I(a, x)) \in I(a, x)
    <3>1. I(a, x) \in SUBSET Nat /\ I(a, x) # {}
      BY <1>1, <1>3
    <3> HIDE DEF I
    <3> QED
      BY <3>1, MinIsIn
  <2>3. Min(I(a, x)) = i
    BY <2>1, <2>2
  <2> QED
    BY <2>1, <2>3 DEF FindLink
<1>4. Cardinality(I(s, d)) <= 1
  <2>1. CASE I(s, d) = {}
    BY <2>1, FS_EmptySet
  <2>2. CASE I(s, d) # {}
    <3>1. PICK i : i \in I(s, d)
      BY <2>2
    <3>2. \A j \in I(s, d) : i = j
      BY <1>2, <3>1
    <3> HIDE DEF I
    <3>3. I(s, d) = {i}
      BY <3>1, <3>2
    <3>4. Cardinality(I(s, d)) = 1
      BY <3>3, FS_Singleton
    <3> QED
      BY <3>4
  <2> QED
    BY <2>1, <2>2
<1>5. ASSUME HasLink(linkMap, s, d)
      PROVE  /\ HasLink(linkMap, d, s)
             /\ FindLink(linkMap, s, d).cost = FindLink(linkMap, d, s).cost
  <2>1. PICK i \in I(s, d) : TRUE
    BY <1>5 DEF HasLink
  <2>2. Has(linkMap[s], d, linkMap[s][i].cost)
    BY <1>1, <2>1 DEF Has
  <2>3. Has(linkMap[d], s, linkMap[s][i].cost)
    BY <2>2 DEF LinksInv, Mirrored
  <2>4. PICK j \in I(d, s) : linkMap[d][j].cost = linkMap[s][i].cost
    BY <1>1, <2>3 DEF Has
  <2>5. FindLink(linkMap, s, d) = linkMap[s][i] /\ FindLink(linkMap, d, s) = linkMap[d][j]
    BY <1>3
  <2>6. HasLink(linkMap, d, s)
    BY <2>4 DEF HasLink
  <2> QED
    BY <2>4, <2>5, <2>6
<1> QED
  BY <1>4, <1>5

-----------------------------------------------------------------------------
(* Distances                                                               *)

\* One more link from the addresses in S; the definition of Within, with the
\* links as a parameter.
Farther(map, S) == S \cup {a \in Addresses : \E x \in S : HasLink(map, x, a)}
IsNear(map, d, k, g) ==
    g = [i \in 0 .. k |-> IF i = 0 THEN {d} ELSE Farther(map, g[i - 1])]
WithinOf(map, d, k) == (CHOOSE g : IsNear(map, d, k, g))[k]

LEMMA WithinIs == \A d, k : Within(d, k) = WithinOf(linkMap, d, k)
  BY DEF Within, WithinOf, IsNear, Farther

(* Induction, with its sets instead of predicates.                         *)
LEMMA InductionOnSet ==
    ASSUME NEW P, 0 \in P, \A k \in Nat : k \in P => k + 1 \in P
    PROVE  Nat \subseteq P
<1> SUFFICES ASSUME Nat \ P # {}
             PROVE  FALSE
  OBVIOUS
<1>1. PICK m \in Nat \ P : \A n \in Nat \ P : m <= n
  BY LeastIs
<1>2. m # 0 /\ m - 1 \in Nat /\ m - 1 + 1 = m
  BY <1>1
<1>3. m - 1 \in P
  BY <1>1, <1>2
<1> QED
  BY <1>1, <1>2, <1>3

LEMMA NearExists ==
    ASSUME NEW map, NEW d
    PROVE  \A k \in Nat : \E g : IsNear(map, d, k, g)
<1> DEFINE P == {k \in Nat : \E g : IsNear(map, d, k, g)}
<1>1. 0 \in P
  <2> DEFINE g == [i \in 0 .. 0 |-> {d}]
  <2>1. g = [i \in 0 .. 0 |-> IF i = 0 THEN {d} ELSE Farther(map, g[i - 1])]
    OBVIOUS
  <2>2. IsNear(map, d, 0, g)
    BY <2>1 DEF IsNear
  <2> QED
    BY <2>2
<1>2. ASSUME NEW k \in Nat, k \in P
      PROVE  k + 1 \in P
  <2>1. PICK g : IsNear(map, d, k, g)
    BY <1>2
  <2> DEFINE h == [i \in 0 .. k + 1 |-> IF i = k + 1 THEN Farther(map, g[k]) ELSE g[i]]
             r == [i \in 0 .. k + 1 |-> IF i = 0 THEN {d} ELSE Farther(map, h[i - 1])]
  <2>2. ASSUME NEW i \in 0 .. k + 1
        PROVE  h[i] = IF i = 0 THEN {d} ELSE Farther(map, h[i - 1])
    <3>1. CASE i = k + 1
      <4>1. i # 0 /\ i - 1 = k /\ k \in 0 .. k + 1 /\ k # k + 1
        BY <3>1
      <4>2. h[i] = Farther(map, g[k]) /\ h[k] = g[k]
        BY <3>1, <4>1
      <4> QED
        BY <4>1, <4>2
    <3>2. CASE i # k + 1
      <4>1. i \in 0 .. k /\ (i # 0 => i - 1 \in 0 .. k + 1 /\ i - 1 # k + 1)
        BY <3>2
      <4>2. h[i] = g[i] /\ (i # 0 => h[i - 1] = g[i - 1])
        BY <3>2, <4>1
      <4>3. g[i] = IF i = 0 THEN {d} ELSE Farther(map, g[i - 1])
        BY <2>1, <4>1 DEF IsNear
      <4> QED
        BY <4>1, <4>2, <4>3
    <3> QED
      BY <3>1, <3>2
  <2>3. h = r
    <3>1. h = [i \in 0 .. k + 1 |-> h[i]] /\ r = [i \in 0 .. k + 1 |-> r[i]]
      OBVIOUS
    <3>2. \A i \in 0 .. k + 1 : h[i] = r[i]
      BY <2>2
    <3> HIDE DEF h, r
    <3> QED
      BY <3>1, <3>2
  <2>4. IsNear(map, d, k + 1, h)
    <3> HIDE DEF h
    <3> QED
      BY <2>3, Zenon DEF IsNear
  <2> QED
    BY <2>4
<1> HIDE DEF P
<1>3. Nat \subseteq P
  BY <1>1, <1>2, InductionOnSet
<1> QED
  BY <1>3 DEF P

(* The recursion of near is one of Within.                                 *)
LEMMA WithinSteps ==
    ASSUME NEW map, NEW d
    PROVE  /\ WithinOf(map, d, 0) = {d}
           /\ \A k \in Nat : WithinOf(map, d, k + 1) = Farther(map, WithinOf(map, d, k))
<1> DEFINE G(k) == CHOOSE g : IsNear(map, d, k, g)
<1>1. \A k \in Nat : IsNear(map, d, k, G(k)) /\ WithinOf(map, d, k) = G(k)[k]
  BY NearExists DEF WithinOf
<1> HIDE DEF G
<1>2. ASSUME NEW k \in Nat, NEW i \in 0 .. k
      PROVE  G(k)[i] = IF i = 0 THEN {d} ELSE Farther(map, G(k)[i - 1])
  BY <1>1, <1>2 DEF IsNear
<1>3. ASSUME NEW k \in Nat
      PROVE  \A i \in Nat : i <= k => G(k)[i] = G(k + 1)[i]
  <2> DEFINE P == {i \in Nat : i <= k => G(k)[i] = G(k + 1)[i]}
  <2>1. 0 \in P
    BY <1>2
  <2>2. ASSUME NEW i \in Nat, i \in P
        PROVE  i + 1 \in P
    <3> SUFFICES ASSUME i + 1 <= k
                 PROVE  G(k)[i + 1] = G(k + 1)[i + 1]
      OBVIOUS
    <3>1. i + 1 # 0 /\ i + 1 - 1 = i /\ i + 1 \in 0 .. k /\ i + 1 \in 0 .. k + 1 /\ k + 1 \in Nat
      OBVIOUS
    <3>2. G(k)[i] = G(k + 1)[i]
      BY <2>2
    <3>3. /\ G(k)[i + 1] = Farther(map, G(k)[i])
          /\ G(k + 1)[i + 1] = Farther(map, G(k + 1)[i])
      BY <1>2, <3>1
    <3> QED
      BY <3>2, <3>3
  <2> HIDE DEF P
  <2>3. Nat \subseteq P
    BY <2>1, <2>2, InductionOnSet
  <2> QED
    BY <2>3 DEF P
<1>4. WithinOf(map, d, 0) = {d}
  BY <1>1, <1>2
<1>5. ASSUME NEW k \in Nat
      PROVE  WithinOf(map, d, k + 1) = Farther(map, WithinOf(map, d, k))
  <2>1. k + 1 \in Nat /\ k + 1 \in 0 .. k + 1 /\ k + 1 # 0 /\ k + 1 - 1 = k /\ k <= k
    OBVIOUS
  <2>2. G(k + 1)[k + 1] = Farther(map, G(k + 1)[k])
    BY <1>2, <2>1
  <2>3. G(k)[k] = G(k + 1)[k]
    BY <1>3, <2>1
  <2> QED
    BY <1>1, <2>1, <2>2, <2>3
<1> QED
  BY <1>4, <1>5

LEMMA WithinStep ==
    ASSUME NEW map, NEW d, NEW k \in Nat
    PROVE  WithinOf(map, d, k + 1) = Farther(map, WithinOf(map, d, k))
  BY WithinSteps

LEMMA WithinGrows ==
    ASSUME NEW map, NEW d
    PROVE  \A k \in Nat : WithinOf(map, d, k) \subseteq WithinOf(map, d, k + 1)
<1> TAKE k \in Nat
<1>1. WithinOf(map, d, k + 1) = Farther(map, WithinOf(map, d, k))
  BY WithinStep
<1> QED
  BY <1>1, Zenon DEF Farther

LEMMA WithinMonotone ==
    ASSUME NEW map, NEW d, NEW j \in Nat, NEW k \in Nat, j <= k
    PROVE  WithinOf(map, d, j) \subseteq WithinOf(map, d, k)
<1> DEFINE P == {n \in Nat : j <= n => WithinOf(map, d, j) \subseteq WithinOf(map, d, n)}
<1>1. 0 \in P
  <2>1. j <= 0 => j = 0
    OBVIOUS
  <2> QED
    BY <2>1
<1>2. ASSUME NEW n \in Nat, n \in P
      PROVE  n + 1 \in P
  <2>1. WithinOf(map, d, n) \subseteq WithinOf(map, d, n + 1)
    BY WithinGrows
  <2>2. j <= n + 1 => j <= n \/ j = n + 1
    OBVIOUS
  <2> QED
    BY <1>2, <2>1, <2>2
<1> HIDE DEF P
<1>3. Nat \subseteq P
  BY <1>1, <1>2, InductionOnSet
<1> QED
  BY <1>3 DEF P

LEMMA WithinAddresses ==
    ASSUME NEW map, NEW d \in Addresses
    PROVE  \A k \in Nat : WithinOf(map, d, k) \subseteq Addresses
<1> DEFINE P == {k \in Nat : WithinOf(map, d, k) \subseteq Addresses}
<1>1. 0 \in P
  BY WithinSteps
<1>2. ASSUME NEW k \in Nat, k \in P
      PROVE  k + 1 \in P
  <2>1. WithinOf(map, d, k + 1) = Farther(map, WithinOf(map, d, k))
    BY WithinStep
  <2> QED
    BY <1>2, <2>1 DEF Farther
<1> HIDE DEF P
<1>3. Nat \subseteq P
  BY <1>1, <1>2, InductionOnSet
<1> QED
  BY <1>3 DEF P

(* Once no address is farther away, none ever is.                          *)
LEMMA WithinStays ==
    ASSUME NEW map, NEW d, NEW j \in Nat,
           WithinOf(map, d, j + 1) = WithinOf(map, d, j)
    PROVE  \A k \in Nat : j <= k => WithinOf(map, d, k) = WithinOf(map, d, j)
<1> DEFINE P == {k \in Nat : j <= k => WithinOf(map, d, k) = WithinOf(map, d, j)}
<1>1. 0 \in P
  <2>1. j <= 0 => j = 0
    OBVIOUS
  <2> QED
    BY <2>1
<1>2. ASSUME NEW k \in Nat, k \in P
      PROVE  k + 1 \in P
  <2>1. CASE j <= k
    <3>1. WithinOf(map, d, k) = WithinOf(map, d, j)
      BY <1>2, <2>1
    <3>2. /\ WithinOf(map, d, k + 1) = Farther(map, WithinOf(map, d, k))
          /\ WithinOf(map, d, j + 1) = Farther(map, WithinOf(map, d, j))
      BY WithinSteps
    <3> QED
      BY <3>1, <3>2
  <2>2. CASE ~(j <= k)
    <3>1. j <= k + 1 => j = k + 1
      BY <2>2
    <3> QED
      BY <3>1
  <2> QED
    BY <2>1, <2>2
<1> HIDE DEF P
<1>3. Nat \subseteq P
  BY <1>1, <1>2, InductionOnSet
<1> QED
  BY <1>3 DEF P

(* An address that takes k + 1 links to reach is not the only one: there   *)
(* are more addresses than links on the way.                               *)
LEMMA WithinBound ==
    ASSUME NEW map, NEW d \in Addresses, NEW s, NEW k \in Nat,
           s \notin WithinOf(map, d, k), s \in WithinOf(map, d, k + 1)
    PROVE  k + 1 <= Cardinality(Addresses)
<1> DEFINE W(j) == WithinOf(map, d, j)
           P == {j \in Nat : j <= k + 1 => j < Cardinality(W(j))}
<1>1. \A j \in Nat : /\ IsFiniteSet(W(j)) /\ Cardinality(W(j)) \in Nat
                     /\ Cardinality(W(j)) <= Cardinality(Addresses)
                     /\ W(j) \subseteq W(j + 1)
  BY WithinAddresses, WithinGrows, LinksAssumption, FS_Subset, FS_CardinalityType
<1>2. \A j \in Nat : j <= k => W(j + 1) # W(j)
  <2> SUFFICES ASSUME NEW j \in Nat, j <= k, W(j + 1) = W(j)
               PROVE  FALSE
    OBVIOUS
  <2>1. W(k) = W(j) /\ W(k + 1) = W(j)
    <3>1. j <= k + 1
      OBVIOUS
    <3> QED
      BY <3>1, WithinStays
  <2> QED
    BY <2>1
<1>3. 0 \in P
  <2>1. W(0) = {d}
    BY WithinSteps
  <2>2. Cardinality({d}) = 1
    BY FS_Singleton
  <2> QED
    BY <2>1, <2>2
<1> HIDE DEF W
<1>4. ASSUME NEW j \in Nat, j \in P
      PROVE  j + 1 \in P
  <2> SUFFICES ASSUME j + 1 <= k + 1
               PROVE  j + 1 < Cardinality(W(j + 1))
    OBVIOUS
  <2>1. j <= k /\ j <= k + 1 /\ j + 1 \in Nat
    OBVIOUS
  <2>2. W(j) # W(j + 1) /\ W(j) \subseteq W(j + 1) /\ IsFiniteSet(W(j + 1))
    BY <1>1, <1>2, <2>1
  <2>3. Cardinality(W(j)) <= Cardinality(W(j + 1)) /\ Cardinality(W(j)) # Cardinality(W(j + 1))
    BY <2>2, FS_Subset
  <2>4. j < Cardinality(W(j))
    BY <1>4, <2>1
  <2>5. Cardinality(W(j)) \in Nat /\ Cardinality(W(j + 1)) \in Nat
    BY <1>1, <2>1
  <2> QED
    BY <2>3, <2>4, <2>5
<1> HIDE DEF P
<1>5. Nat \subseteq P
  BY <1>3, <1>4, InductionOnSet
<1>6. k + 1 < Cardinality(W(k + 1)) /\ k + 1 \in Nat
  BY <1>5 DEF P
<1>7. Cardinality(Addresses) \in Nat
  BY LinksAssumption, FS_CardinalityType
<1> QED
  BY <1>1, <1>6, <1>7

DistanceOf(map, s, d) == Min({k \in 0 .. Cardinality(Addresses) : s \in WithinOf(map, d, k)})

LEMMA DistanceIs ==
    ASSUME NEW map, NEW d \in Addresses, NEW s, NEW k \in 0 .. Cardinality(Addresses),
           s \in WithinOf(map, d, k),
           \A j \in Nat : j + 1 = k => s \notin WithinOf(map, d, j)
    PROVE  DistanceOf(map, s, d) = k
<1> DEFINE I == {n \in 0 .. Cardinality(Addresses) : s \in WithinOf(map, d, n)}
<1>1. Cardinality(Addresses) \in Nat
  BY LinksAssumption, FS_CardinalityType
<1>2. I \in SUBSET Nat /\ k \in I
  BY <1>1
<1>3. \A n \in I : k <= n
  <2> SUFFICES ASSUME NEW n \in I, n < k
               PROVE  FALSE
    BY <1>1
  <2>1. k - 1 \in Nat /\ n \in Nat /\ n <= k - 1 /\ k - 1 + 1 = k
    BY <1>1
  <2>2. s \in WithinOf(map, d, k - 1)
    BY <2>1, WithinMonotone
  <2> QED
    BY <2>1, <2>2
<1> HIDE DEF I
<1>4. PICK m \in I : m = Min(I) /\ \A n \in I : m <= n
  BY <1>2, LeastIs
<1>5. m = k
  <2>1. m <= k /\ k <= m /\ m \in Nat /\ k \in Nat
    BY <1>2, <1>3, <1>4
  <2> QED
    BY <2>1
<1> QED
  BY <1>4, <1>5 DEF DistanceOf, I

-----------------------------------------------------------------------------
(* The search for the next hop                                             *)

\* The search for s from d with the addresses in q still to look at: the
\* first m of them are at most k links away from d, the others k + 1, and s is
\* farther than k; what was looked at, Seen, led nowhere but to addresses that
\* were looked at or will be, and all addresses within k are among these.
Searches(map, s, d, q, Seen, k, m) ==
    /\ Seen \subseteq Addresses /\ k \in Nat /\ m \in 0 .. Len(q)
    /\ \A i \in 1 .. m : q[i] \in WithinOf(map, d, k)
    /\ \A i \in m + 1 .. Len(q) : q[i] \in WithinOf(map, d, k + 1)
    /\ s \notin WithinOf(map, d, k)
    /\ \A x \in Seen : /\ ~HasLink(map, x, s)
                       /\ \A a \in Addresses : HasLink(map, x, a) =>
                             a \in Seen \/ \E i \in 1 .. Len(q) : q[i] = a
    /\ \A a \in WithinOf(map, d, k) : a \in Seen \/ \E i \in 1 .. m : q[i] = a

LinksWithin(map) ==
    \A a \in Addresses : \A i \in DOMAIN map[a] : map[a][i].neighbor \in Addresses

\* Links go both ways.
TwoWay(map) == \A a, x \in Addresses : a # x /\ HasLink(map, a, x) => HasLink(map, x, a)

LEMMA SearchStarts ==
    ASSUME NEW map, NEW s \in Addresses, NEW d \in Addresses, s # d
    PROVE  Searches(map, s, d, <<d>>, {}, 0, 1)
<1>1. WithinOf(map, d, 0) = {d}
  BY WithinSteps
<1> QED
  BY <1>1 DEF Searches

(* A search that has looked at all addresses within k goes on with k + 1.  *)
LEMMA SearchDeepens ==
    ASSUME NEW map, NEW s \in Addresses, NEW d \in Addresses, NEW q \in Seq(Addresses),
           NEW Seen, NEW k, Searches(map, s, d, q, Seen, k, 0)
    PROVE  Searches(map, s, d, q, Seen, k + 1, Len(q))
<1>1. /\ k \in Nat /\ k + 1 \in Nat /\ Seen \subseteq Addresses /\ Len(q) \in Nat
      /\ WithinOf(map, d, k) \subseteq Seen
  BY DEF Searches
<1>2. WithinOf(map, d, k + 1) = Farther(map, WithinOf(map, d, k))
  BY <1>1, WithinStep
<1>3. s \notin WithinOf(map, d, k + 1)
  BY <1>1, <1>2 DEF Searches, Farther
<1>4. \A i \in 1 .. Len(q) : q[i] \in WithinOf(map, d, k + 1)
  BY <1>1 DEF Searches
<1>5. \A a \in WithinOf(map, d, k + 1) : a \in Seen \/ \E i \in 1 .. Len(q) : q[i] = a
  BY <1>1, <1>2 DEF Searches, Farther
<1>6. \A i \in Len(q) + 1 .. Len(q) : q[i] \in WithinOf(map, d, k + 1 + 1)
  BY <1>1
<1>7. Len(q) \in 0 .. Len(q)
  BY <1>1
<1> QED
  BY <1>1, <1>3, <1>4, <1>5, <1>6, <1>7 DEF Searches

(* Any search with addresses left has some at the smaller distance first.  *)
LEMMA SearchFront ==
    ASSUME NEW map, NEW s \in Addresses, NEW d \in Addresses, NEW q \in Seq(Addresses),
           q # <<>>, \E Seen, k, m : Searches(map, s, d, q, Seen, k, m)
    PROVE  \E Seen, k, m : Searches(map, s, d, q, Seen, k, m) /\ m # 0
<1>1. PICK Seen, k, m : Searches(map, s, d, q, Seen, k, m)
  OBVIOUS
<1>2. CASE m = 0
  <2>1. Searches(map, s, d, q, Seen, k + 1, Len(q))
    BY <1>1, <1>2, SearchDeepens
  <2>2. Len(q) # 0
    OBVIOUS
  <2> QED
    BY <2>1, <2>2
<1> QED
  BY <1>1, <1>2

\* The neighbours of an address, in the order of its links.
NeighborsOf(map, a) == [i \in DOMAIN map[a] |-> map[a][i].neighbor]

LEMMA SearchExpands ==
    ASSUME NEW map, Lists(map), LinksWithin(map),
           NEW s \in Addresses, NEW d \in Addresses, NEW q \in Seq(Addresses), q # <<>>,
           ~HasLink(map, Head(q), s),
           NEW Seen, NEW k, NEW m, Searches(map, s, d, q, Seen, k, m), m # 0
    PROVE  LET r == Tail(q) \o NeighborsOf(map, Head(q))
           IN  /\ r \in Seq(Addresses)
               /\ Searches(map, s, d, r, Seen \cup {Head(q)}, k, m - 1)
<1> DEFINE x == Head(q)
           new == NeighborsOf(map, x)
           t == Tail(q)
           r == t \o new
<1>1. /\ x \in Addresses /\ x = q[1] /\ Len(q) \in Nat /\ Len(q) # 0
      /\ t \in Seq(Addresses) /\ Len(t) = Len(q) - 1
      /\ \A i \in 1 .. Len(t) : t[i] = q[i + 1]
  BY HeadTailProperties
<1>2. /\ new \in Seq(Addresses) /\ Len(new) = Len(map[x])
      /\ \A i \in 1 .. Len(new) : HasLink(map, x, new[i])
      /\ \A a \in Addresses : HasLink(map, x, a) => \E i \in 1 .. Len(new) : new[i] = a
  <2>1. PICK S : map[x] \in Seq(S)
    BY <1>1 DEF Lists, IsList
  <2>2. DOMAIN map[x] = 1 .. Len(map[x]) /\ Len(map[x]) \in Nat
    BY <2>1
  <2>3. \A i \in 1 .. Len(map[x]) : map[x][i].neighbor \in Addresses
    BY <1>1, <2>2 DEF LinksWithin
  <2>4. new = [i \in 1 .. Len(map[x]) |-> map[x][i].neighbor]
    BY <2>2 DEF NeighborsOf
  <2>5. new \in Seq(Addresses) /\ Len(new) = Len(map[x])
    BY <2>2, <2>3, <2>4
  <2> HIDE DEF new, x
  <2>6. \A i \in 1 .. Len(new) : new[i] = map[x][i].neighbor
    BY <2>2, <2>4, <2>5
  <2> QED
    BY <2>2, <2>5, <2>6 DEF HasLink
<1> HIDE DEF x, new, t
<1>3. /\ r \in Seq(Addresses) /\ Len(r) = Len(t) + Len(new)
      /\ \A i \in 1 .. Len(r) : r[i] = IF i <= Len(t) THEN t[i] ELSE new[i - Len(t)]
  <2>1. /\ t \o new \in Seq(Addresses) /\ Len(t \o new) = Len(t) + Len(new)
        /\ \A i \in 1 .. Len(t) + Len(new) :
             (t \o new)[i] = IF i <= Len(t) THEN t[i] ELSE new[i - Len(t)]
    <3>1. t \in Seq(Addresses) /\ new \in Seq(Addresses)
      BY <1>1, <1>2, Zenon
    <3> QED
      BY <3>1, ConcatProperties
  <2> QED
    BY <2>1, Zenon
<1> HIDE DEF r
<1>4. Len(t) \in Nat /\ Len(new) \in Nat
  BY <1>1, <1>2
<1>5. /\ k \in Nat /\ m \in 1 .. Len(q) /\ m - 1 \in 0 .. Len(r)
      /\ m - 1 <= Len(t) /\ Seen \subseteq Addresses
  BY <1>1, <1>3, <1>4 DEF Searches
<1>6. \A i \in 1 .. m - 1 : r[i] = q[i + 1] /\ i + 1 \in 1 .. m
  BY <1>1, <1>3, <1>4, <1>5
<1>7. \A i \in 1 .. m - 1 : r[i] \in WithinOf(map, d, k)
  BY <1>6 DEF Searches
<1>8. ASSUME NEW i \in m - 1 + 1 .. Len(r)
      PROVE  r[i] \in WithinOf(map, d, k + 1)
  <2>1. CASE i <= Len(t)
    <3>1. /\ i \in 1 .. Len(t) /\ i \in 1 .. Len(r) /\ i + 1 \in m + 1 .. Len(q)
      BY <1>1, <1>3, <1>4, <1>5, <2>1
    <3>2. r[i] = t[i] /\ t[i] = q[i + 1]
      BY <1>1, <1>3, <2>1, <3>1, Zenon
    <3> QED
      BY <3>1, <3>2 DEF Searches
  <2>2. CASE ~(i <= Len(t))
    <3>1. r[i] = new[i - Len(t)] /\ i - Len(t) \in 1 .. Len(new)
      BY <1>1, <1>3, <1>4, <1>5, <2>2
    <3>2. HasLink(map, x, r[i]) /\ r[i] \in Addresses
      BY <1>2, <3>1
    <3>3. 1 \in 1 .. m
      BY <1>5
    <3>4. x \in WithinOf(map, d, k)
      BY <1>1, <3>3 DEF Searches
    <3>5. WithinOf(map, d, k + 1) = Farther(map, WithinOf(map, d, k))
      BY <1>5, WithinStep
    <3> QED
      BY <3>2, <3>4, <3>5 DEF Farther
  <2> QED
    BY <2>1, <2>2
<1>9. ASSUME NEW i \in 2 .. Len(q)
      PROVE  \E j \in 1 .. Len(r) : r[j] = q[i] /\ (i <= m => j <= m - 1)
  <2>1. /\ i - 1 \in 1 .. Len(t) /\ i - 1 \in 1 .. Len(r) /\ i - 1 + 1 = i
        /\ (i <= m => i - 1 <= m - 1) /\ i - 1 <= Len(t)
    BY <1>1, <1>3, <1>4, <1>5
  <2>2. r[i - 1] = t[i - 1] /\ t[i - 1] = q[i - 1 + 1]
    BY <1>1, <1>3, <2>1, Zenon
  <2> QED
    BY <2>1, <2>2
<1>10. ASSUME NEW j \in 1 .. Len(new)
       PROVE  \E i \in 1 .. Len(r) : r[i] = new[j]
  <2>1. Len(t) + j \in 1 .. Len(r) /\ ~(Len(t) + j <= Len(t)) /\ Len(t) + j - Len(t) = j
    BY <1>3, <1>4
  <2>2. r[Len(t) + j] = new[j]
    BY <1>3, <2>1
  <2> QED
    BY <2>1, <2>2
<1>11. ASSUME NEW a, \E i \in 1 .. Len(q) : q[i] = a
       PROVE  a = x \/ \E i \in 1 .. Len(r) : r[i] = a
  <2>1. PICK i \in 1 .. Len(q) : q[i] = a
    BY <1>11
  <2>2. i = 1 \/ i \in 2 .. Len(q)
    BY <1>1
  <2> QED
    BY <1>1, <1>9, <2>1, <2>2
<1>12. ASSUME NEW y \in Seen \cup {x}
       PROVE  /\ ~HasLink(map, y, s)
              /\ \A a \in Addresses : HasLink(map, y, a) =>
                    a \in Seen \cup {x} \/ \E i \in 1 .. Len(r) : r[i] = a
  <2>1. CASE y = x
    <3>1. ~HasLink(map, x, s)
      BY DEF x
    <3> QED
      BY <1>2, <1>10, <2>1, <3>1
  <2>2. CASE y \in Seen
    BY <1>11, <2>2 DEF Searches
  <2> QED
    BY <2>1, <2>2
<1>13. ASSUME NEW a \in WithinOf(map, d, k)
       PROVE  a \in Seen \cup {x} \/ \E i \in 1 .. m - 1 : r[i] = a
  <2>1. CASE a \in Seen
    BY <2>1
  <2>2. CASE \E i \in 1 .. m : q[i] = a
    <3>1. PICK i \in 1 .. m : q[i] = a
      BY <2>2
    <3>2. CASE i = 1
      BY <1>1, <3>1, <3>2
    <3>3. CASE i # 1
      <4>1. i \in 2 .. Len(q) /\ i <= m
        BY <1>1, <1>5, <3>3
      <4>2. PICK j \in 1 .. Len(r) : r[j] = q[i] /\ j <= m - 1
        BY <1>9, <4>1
      <4>3. j \in 1 .. m - 1
        BY <4>2, <1>5
      <4> QED
        BY <3>1, <4>2, <4>3
    <3> QED
      BY <3>2, <3>3
  <2> QED
    BY <2>1, <2>2 DEF Searches
<1>14. Seen \cup {x} \subseteq Addresses
  BY <1>1, <1>5
<1>15. s \notin WithinOf(map, d, k)
  BY DEF Searches
<1>16. Searches(map, s, d, r, Seen \cup {x}, k, m - 1)
  BY <1>5, <1>7, <1>8, <1>12, <1>13, <1>14, <1>15, Zenon DEF Searches
<1> QED
  BY <1>3, <1>16 DEF r, t, new, x

\* n is a neighbour of s on a shortest path from s to d.
GoodHop(map, s, d, n) ==
    /\ HasLink(map, s, n)
    /\ s \in WithinOf(map, d, Cardinality(Addresses))
    /\ DistanceOf(map, s, d) = DistanceOf(map, n, d) + 1
    /\ \E k \in Nat : n \in WithinOf(map, d, k) /\ s \notin WithinOf(map, d, k)

LEMMA SearchAnswers ==
    ASSUME NEW map, TwoWay(map),
           NEW s \in Addresses, NEW d \in Addresses, NEW q \in Seq(Addresses), q # <<>>,
           HasLink(map, Head(q), s),
           NEW Seen, NEW k, NEW m, Searches(map, s, d, q, Seen, k, m), m # 0
    PROVE  GoodHop(map, s, d, Head(q))
<1>1. PICK x \in Addresses : x = Head(q) /\ x = q[1]
  BY HeadTailProperties
<1>2. k \in Nat /\ k + 1 \in Nat /\ 1 \in 1 .. m /\ Cardinality(Addresses) \in Nat
  BY LinksAssumption, FS_CardinalityType DEF Searches
<1>3. x \in WithinOf(map, d, k) /\ s \notin WithinOf(map, d, k)
  BY <1>1, <1>2 DEF Searches
<1>4. s \in WithinOf(map, d, k + 1)
  <2>1. WithinOf(map, d, k + 1) = Farther(map, WithinOf(map, d, k))
    BY <1>2, WithinStep
  <2> QED
    BY <2>1, <1>1, <1>3 DEF Farther
<1>5. k + 1 <= Cardinality(Addresses)
  BY <1>2, <1>3, <1>4, WithinBound
<1>6. s \in WithinOf(map, d, Cardinality(Addresses))
  BY <1>2, <1>4, <1>5, WithinMonotone
<1>7. DistanceOf(map, s, d) = k + 1
  <2>1. \A j \in Nat : j + 1 = k + 1 => j = k
    BY <1>2
  <2>2. \A j \in Nat : j + 1 = k + 1 => s \notin WithinOf(map, d, j)
    BY <2>1, <1>3
  <2>3. k + 1 \in 0 .. Cardinality(Addresses)
    BY <1>2, <1>5
  <2> QED
    BY <2>2, <2>3, <1>4, DistanceIs
<1>8. DistanceOf(map, x, d) = k
  <2>1. ASSUME NEW j \in Nat, j + 1 = k
        PROVE  x \notin WithinOf(map, d, j)
    <3>1. WithinOf(map, d, j + 1) = Farther(map, WithinOf(map, d, j))
      BY WithinStep
    <3>2. s \notin Farther(map, WithinOf(map, d, j))
      BY <1>3, <2>1, <3>1
    <3> QED
      BY <1>1, <3>2 DEF Farther
  <2>2. k \in 0 .. Cardinality(Addresses)
    BY <1>2, <1>5
  <2> QED
    BY <2>1, <2>2, <1>3, DistanceIs
<1>9. HasLink(map, s, x)
  BY <1>1, <1>3 DEF TwoWay
<1> QED
  BY <1>1, <1>2, <1>3, <1>6, <1>7, <1>8, <1>9 DEF GoodHop

-----------------------------------------------------------------------------
(* The invariant of the search                                             *)

\* The search for the way of s to itself: the first address is s, and, without
\* a link to itself, all others are neighbours of s.
Returns(map, s, q) ==
    \/ q = <<s>>
    \/ /\ \A i \in 1 .. Len(q) : HasLink(map, q[i], s) /\ HasLink(map, s, q[i])
       /\ q = <<>> => map[s] = <<>>

Looks(map, s, d, q) ==
    IF s = d THEN Returns(map, s, q)
    ELSE \E Seen, k, m : Searches(map, s, d, q, Seen, k, m)

SearchInv ==
    query # <<>> =>
        /\ answer = <<>>
        /\ \E s, d \in Addresses :
             /\ query = <<s, d>>
             /\ bfsq \in Seq(Addresses)
             /\ Looks(linkMap, s, d, bfsq)

\* The answer for another node is on a shortest path; for s itself a neighbour.
Leads(map, s, d, n) == HasLink(map, s, n) /\ (s # d => GoodHop(map, s, d, n))

AnswerInv ==
    answer # <<>> =>
        \E s, d, n \in Addresses : answer = <<s, d, n>> /\ Leads(linkMap, s, d, n)

LinksTyped == Lists(linkMap) /\ LinksWithin(linkMap) /\ TwoWay(linkMap)

LEMMA RoutesFromInv == AnswerInv => RoutesShortest
<1> SUFFICES ASSUME AnswerInv, answer # <<>>
             PROVE  /\ HasLink(linkMap, answer[1], answer[3])
                    /\ answer[1] # answer[2] =>
                         /\ Connected(answer[1], answer[2])
                         /\ Distance(answer[1], answer[2]) = Distance(answer[3], answer[2]) + 1
  BY DEF RoutesShortest
<1>1. PICK s, d, n \in Addresses : answer = <<s, d, n>> /\ Leads(linkMap, s, d, n)
  BY DEF AnswerInv
<1>2. \A x : Distance(x, d) = DistanceOf(linkMap, x, d)
  BY WithinIs DEF Distance, DistanceOf
<1>3. Connected(s, d) <=> s \in WithinOf(linkMap, d, Cardinality(Addresses))
  BY WithinIs DEF Connected
<1> QED
  BY <1>1, <1>2, <1>3 DEF Leads, GoodHop

(* The steps of nexthop.                                                   *)
LEMMA AskKeeps ==
    ASSUME NEW s \in Addresses, NEW d \in Addresses, Ask(s, d)
    PROVE  SearchInv' /\ AnswerInv'
<1>1. /\ query' = <<s, d>> /\ bfsq' = <<d>> /\ answer' = <<>>
      /\ <<d>> \in Seq(Addresses)
  BY DEF Ask
<1>2. Looks(linkMap', s, d, <<d>>)
  <2>1. CASE s = d
    BY <2>1 DEF Looks, Returns
  <2>2. CASE s # d
    <3>1. Searches(linkMap', s, d, <<d>>, {}, 0, 1)
      BY <2>2, SearchStarts
    <3> QED
      BY <2>2, <3>1 DEF Looks
  <2> QED
    BY <2>1, <2>2
<1> QED
  BY <1>1, <1>2 DEF SearchInv, AnswerInv

(* What a look at one address does to the search: s is among its           *)
(* neighbours, or they are looked at later.                                *)
LEMMA LookAnswers ==
    ASSUME NEW map, TwoWay(map),
           NEW s \in Addresses, NEW d \in Addresses, NEW q \in Seq(Addresses), q # <<>>,
           HasLink(map, Head(q), s), Looks(map, s, d, q)
    PROVE  Leads(map, s, d, Head(q))
<1>1. PICK x \in Addresses : x = Head(q) /\ x = q[1] /\ 1 \in 1 .. Len(q)
  BY HeadTailProperties
<1>2. CASE s = d
  <2>1. CASE q = <<s>>
    BY <1>1, <1>2, <2>1 DEF Leads
  <2>2. CASE \A i \in 1 .. Len(q) : HasLink(map, q[i], s) /\ HasLink(map, s, q[i])
    BY <1>1, <1>2, <2>2 DEF Leads
  <2> QED
    BY <1>2, <2>1, <2>2 DEF Looks, Returns
<1>3. CASE s # d
  <2>1. PICK Seen, k, m : Searches(map, s, d, q, Seen, k, m) /\ m # 0
    BY <1>3, SearchFront DEF Looks
  <2>2. GoodHop(map, s, d, Head(q))
    BY <2>1, SearchAnswers
  <2> QED
    BY <2>2 DEF Leads, GoodHop
<1> QED
  BY <1>2, <1>3

LEMMA LookExpands ==
    ASSUME NEW map, Lists(map), LinksWithin(map), TwoWay(map),
           NEW s \in Addresses, NEW d \in Addresses, NEW q \in Seq(Addresses), q # <<>>,
           ~HasLink(map, Head(q), s), Looks(map, s, d, q)
    PROVE  LET r == Tail(q) \o NeighborsOf(map, Head(q))
           IN  r \in Seq(Addresses) /\ Looks(map, s, d, r)
<1> DEFINE r == Tail(q) \o NeighborsOf(map, Head(q))
<1>1. CASE s = d
  <2>1. PICK x \in Addresses : x = Head(q) /\ x = q[1] /\ 1 \in 1 .. Len(q)
    BY HeadTailProperties
  <2>2. q = <<s>>
    BY <1>1, <2>1 DEF Looks, Returns
  <2>3. Head(q) = s /\ Tail(q) = <<>>
    BY <2>2
  <2>4. PICK l, S : l = map[s] /\ l \in Seq(S)
    BY DEF Lists, IsList
  <2>5. DOMAIN l = 1 .. Len(l) /\ Len(l) \in Nat
    BY <2>4
  <2>6. \A i \in 1 .. Len(l) : /\ l[i].neighbor \in Addresses
                               /\ HasLink(map, s, l[i].neighbor)
    BY <2>4, <2>5 DEF LinksWithin, HasLink
  <2>7. \A i \in 1 .. Len(l) : HasLink(map, l[i].neighbor, s)
    BY <2>3, <2>6 DEF TwoWay
  <2>8. PICK new \in Seq(Addresses) :
           /\ new = NeighborsOf(map, s) /\ Len(new) = Len(l)
           /\ \A i \in 1 .. Len(l) : new[i] = l[i].neighbor
    <3>1. NeighborsOf(map, s) = [i \in 1 .. Len(l) |-> l[i].neighbor]
      BY <2>4, <2>5 DEF NeighborsOf
    <3> DEFINE new == [i \in 1 .. Len(l) |-> l[i].neighbor]
    <3>2. new \in Seq(Addresses) /\ Len(new) = Len(l)
      BY <2>5, <2>6
    <3>3. \A i \in 1 .. Len(l) : new[i] = l[i].neighbor
      OBVIOUS
    <3> QED
      BY <3>1, <3>2, <3>3
  <2>9. r = new
    <3>1. <<>> \o new = new
      BY <2>8, ConcatEmptySeq
    <3> QED
      BY <2>3, <2>8, <3>1
  <2>10. new = <<>> => map[s] = <<>>
    <3>1. new = <<>> => Len(l) = 0
      BY <2>8
    <3>2. Len(l) = 0 => l = <<>>
      BY <2>4
    <3> QED
      BY <2>4, <3>1, <3>2
  <2>11. Returns(map, s, new)
    BY <2>6, <2>7, <2>8, <2>10 DEF Returns
  <2> QED
    BY <1>1, <2>8, <2>9, <2>11 DEF Looks
<1>2. CASE s # d
  <2>1. PICK Seen, k, m : Searches(map, s, d, q, Seen, k, m) /\ m # 0
    BY <1>2, SearchFront DEF Looks
  <2>2. r \in Seq(Addresses) /\ Searches(map, s, d, r, Seen \cup {Head(q)}, k, m - 1)
    BY <2>1, SearchExpands
  <2> QED
    BY <1>2, <2>2 DEF Looks
<1> QED
  BY <1>1, <1>2

LEMMA SearchKeeps ==
    ASSUME LinksTyped, SearchInv, AnswerInv, Search
    PROVE  SearchInv' /\ AnswerInv'
<1>1. query # <<>> /\ answer = <<>> /\ linkMap' = linkMap
  BY DEF Search, Answer, Expand, Dies, SearchInv
<1>2. PICK s \in Addresses, d \in Addresses :
        query = <<s, d>> /\ bfsq \in Seq(Addresses) /\ Looks(linkMap, s, d, bfsq)
  BY <1>1 DEF SearchInv
<1>3. CASE Answer
  <2>1. /\ query' = <<>> /\ answer' = <<s, d, Head(bfsq)>> /\ bfsq # <<>>
        /\ HasLink(linkMap, Head(bfsq), s)
    BY <1>2, <1>3 DEF Answer
  <2>2. Head(bfsq) \in Addresses
    BY <1>2, <2>1
  <2>3. Leads(linkMap, s, d, Head(bfsq))
    BY <1>2, <2>1, LookAnswers DEF LinksTyped
  <2> QED
    BY <1>1, <2>1, <2>2, <2>3 DEF SearchInv, AnswerInv
<1>4. CASE Expand
  <2>1. /\ query' = query /\ answer' = answer /\ bfsq # <<>>
        /\ bfsq' = Tail(bfsq) \o Neighbors(Head(bfsq))
        /\ ~HasLink(linkMap, Head(bfsq), s)
    BY <1>2, <1>4 DEF Expand
  <2>2. Neighbors(Head(bfsq)) = NeighborsOf(linkMap, Head(bfsq))
    BY DEF Neighbors, NeighborsOf
  <2>3. bfsq' \in Seq(Addresses) /\ Looks(linkMap, s, d, bfsq')
    BY <1>2, <2>1, <2>2, LookExpands DEF LinksTyped
  <2> QED
    BY <1>1, <1>2, <2>1, <2>3 DEF SearchInv, AnswerInv
<1>5. CASE Dies
  BY <1>1, <1>5 DEF Dies, SearchInv, AnswerInv
<1> QED
  BY <1>3, <1>4, <1>5 DEF Search

Link0 == [neighbor : Addresses, cost : Costs]

LEMMA EraseTyped ==
    ASSUME NEW S, NEW q \in Seq(S), NEW d
    PROVE  RemoveFirstMatch(q, LAMBDA l : l.neighbor = d) \in Seq(S)
<1> DEFINE I == {i \in 1 .. Len(q) : q[i].neighbor = d}
           r == RemoveFirstMatch(q, LAMBDA l : l.neighbor = d)
<1>1. CASE I = {}
  <2>1. r = q
    BY <1>1 DEF RemoveFirstMatch
  <2> QED
    BY <2>1
<1>2. CASE I # {}
  <2>1. Min(I) \in I
    <3>1. I \in SUBSET Nat
      OBVIOUS
    <3> QED
      BY <1>2, <3>1, MinIsIn
  <2>2. r = RemoveAt(q, Min(I)) /\ Min(I) \in 1 .. Len(q)
    BY <1>2, <2>1 DEF RemoveFirstMatch, SelectInSeq
  <2> HIDE DEF r, I
  <2>3. RemoveAt(q, Min(I)) \in Seq(S)
    BY <2>2, RemoveAtShape
  <2> QED
    BY <2>2, <2>3 DEF r
<1> QED
  BY <1>1, <1>2

LEMMA AddLinkTyped ==
    ASSUME linkMap \in [Addresses -> Seq(Link0)],
           NEW s \in Addresses, NEW d \in Addresses, NEW c \in Costs, AddLink(s, d, c)
    PROVE  linkMap' \in [Addresses -> Seq(Link0)]
<1> DEFINE r(q, x) == RemoveFirstMatch(q, LAMBDA l : l.neighbor = x)
           M == [Addresses -> Seq(Link0)]
<1>1. \A q \in Seq(Link0) : \A x : r(q, x) \in Seq(Link0)
  BY EraseTyped
<1>2. LinkData(s, c) \in Link0 /\ LinkData(d, c) \in Link0
  BY DEF LinkData, Link0
<1>3. ASSUME NEW map \in M, NEW a, NEW x
      PROVE  EraseLink(map, a, x) \in M
  <2>1. EraseLink(map, a, x) = [map EXCEPT ![a] = r(map[a], x)]
    BY DEF EraseLink
  <2> HIDE DEF r
  <2>2. PICK q : q = r(map[a], x) /\ (a \in Addresses => q \in Seq(Link0))
    <3>1. a \in Addresses => map[a] \in Seq(Link0)
      OBVIOUS
    <3> QED
      BY <1>1, <3>1
  <2>3. EraseLink(map, a, x) = [map EXCEPT ![a] = q]
    BY <2>1, <2>2, Zenon
  <2> QED
    BY <2>2, <2>3
<1>4. ASSUME NEW map \in M, NEW a, NEW x \in Addresses
      PROVE  InsertLink(map, a, x, c) \in M
  <2>1. LinkData(x, c) \in Link0
    BY DEF LinkData, Link0
  <2>2. \A q \in Seq(Link0) : Append(q, LinkData(x, c)) \in Seq(Link0)
    BY <2>1
  <2>3. InsertLink(map, a, x, c) = [map EXCEPT ![a] = Append(map[a], LinkData(x, c))]
    BY DEF InsertLink
  <2> HIDE DEF Link0
  <2> QED
    BY <2>2, <2>3
<1> HIDE DEF M
<1>5. PICK m1 \in M : m1 = EraseLink(EraseLink(linkMap, s, d), d, s)
  BY <1>3 DEF M
<1>6. linkMap' = InsertLink(InsertLink(m1, s, d, c), d, s, c)
  BY <1>5 DEF AddLink
<1> QED
  BY <1>4, <1>5, <1>6 DEF M

TopologyInv == TypeOK /\ LinksInv /\ SearchInv /\ AnswerInv

(* What the other parts of the invariant say of the links.                 *)
LEMMA LinksTypedFromInv == TypeOK /\ LinksInv => LinksTyped
<1> SUFFICES ASSUME TypeOK, LinksInv
             PROVE  LinksTyped
  OBVIOUS
<1>1. LinksWithin(linkMap)
  <2> SUFFICES ASSUME NEW a \in Addresses, NEW i \in DOMAIN linkMap[a]
               PROVE  linkMap[a][i].neighbor \in Addresses
    BY DEF LinksWithin
  <2>1. linkMap[a] \in Seq(Link0)
    BY DEF TypeOK, Link0
  <2>2. linkMap[a][i] \in Link0
    BY <2>1
  <2> QED
    BY <2>2 DEF Link0
<1>2. TwoWay(linkMap)
  <2> SUFFICES ASSUME NEW a \in Addresses, NEW x \in Addresses, a # x, HasLink(linkMap, a, x)
               PROVE  HasLink(linkMap, x, a)
    BY DEF TwoWay
  <2> QED
    BY LinksFromInv DEF LinksSymmetric
<1> QED
  BY <1>1, <1>2 DEF LinksTyped, LinksInv

LEMMA TopologyInit == Init => TopologyInv
<1> SUFFICES ASSUME Init
             PROVE  TopologyInv
  OBVIOUS
<1>1. LinksInv
  BY LinksInit
<1>2. TypeOK
  <2>1. linkMap \in [Addresses -> Seq(Link0)]
    BY DEF Init
  <2>2. <<>> \in Seq(Addresses) /\ 0 \in 0 .. MaxLinks
    BY LinksAssumption
  <2> QED
    BY <2>1, <2>2 DEF TypeOK, Init, Link0
<1> QED
  BY <1>1, <1>2 DEF TopologyInv, SearchInv, AnswerInv, Init

LEMMA AddLinkKeeps ==
    ASSUME TopologyInv, NEW s \in Addresses, NEW d \in Addresses, NEW c \in Costs,
           AddLink(s, d, c)
    PROVE  TopologyInv'
<1>1. LinksInv'
  BY AddLinkOK DEF TopologyInv
<1>2. /\ query' = query /\ bfsq' = bfsq /\ aborted' = aborted /\ answer' = <<>>
      /\ query = <<>> /\ commands' = commands + 1 /\ commands < MaxLinks
  BY DEF AddLink, Idle
<1>3. linkMap' \in [Addresses -> Seq(Link0)]
  <2>1. linkMap \in [Addresses -> Seq(Link0)]
    BY DEF TopologyInv, TypeOK, Link0
  <2> QED
    BY <2>1, AddLinkTyped
<1>4. commands' \in 0 .. MaxLinks
  <2>1. commands \in 0 .. MaxLinks
    BY DEF TopologyInv, TypeOK
  <2> QED
    BY <1>2, <2>1, LinksAssumption
<1>5. TypeOK'
  BY <1>2, <1>3, <1>4 DEF TopologyInv, TypeOK, Link0
<1> QED
  BY <1>1, <1>2, <1>5 DEF TopologyInv, SearchInv, AnswerInv

LEMMA AskKeepsInv ==
    ASSUME TopologyInv, NEW s \in Addresses, NEW d \in Addresses, Ask(s, d)
    PROVE  TopologyInv'
<1>1. SearchInv' /\ AnswerInv'
  BY AskKeeps
<1>2. TypeOK'
  <2>1. /\ <<d>> \in Seq(Addresses) /\ <<s, d>> \in Addresses \X Addresses
        /\ query' = <<s, d>> /\ bfsq' = <<d>> /\ answer' = <<>>
        /\ linkMap' = linkMap /\ commands' = commands /\ aborted' = aborted
    BY DEF Ask
  <2> QED
    BY <2>1 DEF TopologyInv, TypeOK
<1>3. LinksInv'
  BY DEF TopologyInv, LinksInv, Ask
<1> QED
  BY <1>1, <1>2, <1>3 DEF TopologyInv

LEMMA SearchKeepsInv ==
    ASSUME TopologyInv, Search
    PROVE  TopologyInv'
<1>1. SearchInv' /\ AnswerInv'
  BY LinksTypedFromInv, SearchKeeps DEF TopologyInv
<1>2. linkMap' = linkMap /\ commands' = commands
  BY DEF Search, Answer, Expand, Dies
<1>3. LinksInv'
  BY <1>2 DEF TopologyInv, LinksInv
<1>4. bfsq' \in Seq(Addresses)
  <2>1. CASE query' # <<>>
    BY <1>1, <2>1 DEF SearchInv
  <2>2. CASE query' = <<>>
    <3>1. bfsq' = <<>> \/ bfsq' = bfsq
      BY <2>2 DEF Search, Answer, Expand, Dies
    <3>2. bfsq \in Seq(Addresses) /\ <<>> \in Seq(Addresses)
      BY DEF TopologyInv, TypeOK
    <3> QED
      BY <3>1, <3>2
  <2> QED
    BY <2>1, <2>2
<1>5. query' \in {<<>>} \cup (Addresses \X Addresses)
  BY DEF Search, Answer, Expand, Dies, TopologyInv, TypeOK
<1>6. answer' \in {<<>>} \cup (Addresses \X Addresses \X Addresses)
  BY <1>1 DEF AnswerInv
<1>7. aborted' \in BOOLEAN
  BY DEF Search, Answer, Expand, Dies, TopologyInv, TypeOK
<1>8. TypeOK'
  BY <1>2, <1>4, <1>5, <1>6, <1>7 DEF TopologyInv, TypeOK
<1> QED
  BY <1>1, <1>3, <1>8 DEF TopologyInv

LEMMA TopologyStep ==
    ASSUME TopologyInv, [Next]_vars
    PROVE  TopologyInv'
<1>1. ASSUME NEW s \in Addresses, NEW d \in Addresses, Ask(s, d)
      PROVE  TopologyInv'
  BY <1>1, AskKeepsInv
<1>2. ASSUME NEW s \in Addresses, NEW d \in Addresses \ {s}, NEW c \in Costs,
             AddLink(s, d, c)
      PROVE  TopologyInv'
  BY <1>2, AddLinkKeeps
<1>3. CASE Search
  BY <1>3, SearchKeepsInv
<1>4. CASE UNCHANGED vars
  BY <1>4 DEF vars, TopologyInv, TypeOK, LinksInv, SearchInv, AnswerInv
<1> QED
  BY <1>1, <1>2, <1>3, <1>4 DEF Next

(* A search that has nothing left to look at has looked at all addresses   *)
(* with a way to the destination, and the one it is for is not among them. *)
LEMMA SearchedAll ==
    ASSUME NEW map, NEW s \in Addresses, NEW d \in Addresses, s # d,
           NEW Seen, NEW k, NEW m, Searches(map, s, d, <<>>, Seen, k, m)
    PROVE  \A j \in Nat : s \notin WithinOf(map, d, j)
<1> DEFINE P == {j \in Nat : WithinOf(map, d, j) \subseteq Seen /\ s \notin WithinOf(map, d, j)}
<1>1. /\ k \in Nat /\ WithinOf(map, d, k) \subseteq Seen
      /\ \A x \in Seen : /\ ~HasLink(map, x, s)
                         /\ \A a \in Addresses : HasLink(map, x, a) => a \in Seen
  BY DEF Searches
<1>2. 0 \in P
  <2>1. WithinOf(map, d, 0) = {d}
    BY WithinSteps
  <2>2. WithinOf(map, d, 0) \subseteq WithinOf(map, d, k)
    BY <1>1, WithinMonotone
  <2> QED
    BY <1>1, <2>1, <2>2
<1>3. ASSUME NEW j \in Nat, j \in P
      PROVE  j + 1 \in P
  <2>1. WithinOf(map, d, j + 1) = Farther(map, WithinOf(map, d, j))
    BY WithinStep
  <2> QED
    BY <1>1, <1>3, <2>1 DEF Farther
<1> HIDE DEF P
<1>4. Nat \subseteq P
  BY <1>2, <1>3, InductionOnSet
<1> QED
  BY <1>4 DEF P

LEMMA DiesApart ==
    ASSUME SearchInv, Dies
    PROVE  Apart(query[1], query[2])
<1>1. PICK s \in Addresses, d \in Addresses :
        query = <<s, d>> /\ Looks(linkMap, s, d, <<>>)
  BY DEF SearchInv, Dies
<1>2. CASE s = d
  <2>1. linkMap[s] = <<>>
    BY <1>1, <1>2 DEF Looks, Returns
  <2> QED
    BY <1>1, <1>2, <2>1 DEF Apart
<1>3. CASE s # d
  <2>1. PICK Seen, k, m : Searches(linkMap, s, d, <<>>, Seen, k, m)
    BY <1>1, <1>3 DEF Looks
  <2>2. Cardinality(Addresses) \in Nat
    BY LinksAssumption, FS_CardinalityType
  <2>3. s \notin WithinOf(linkMap, d, Cardinality(Addresses))
    BY <1>3, <2>1, <2>2, SearchedAll
  <2> QED
    BY <1>1, <1>3, <2>3, WithinIs DEF Apart, Connected
<1> QED
  BY <1>2, <1>3

-----------------------------------------------------------------------------
(* Results                                                                 *)

(* Topology::add_link, whatever links are given in whatever order and      *)
(* asked for in between: two nodes have one link at most, the same in both *)
(* directions.                                                             *)
THEOREM TopologySymmetric == Spec => []LinksSymmetric
<1>1. ASSUME LinksInv, [Next]_vars
      PROVE  LinksInv'
  <2>1. ASSUME NEW s \in Addresses, NEW d \in Addresses \ {s}, NEW c \in Costs,
               AddLink(s, d, c)
        PROVE  LinksInv'
    BY <1>1, <2>1, AddLinkOK
  <2>2. (\A s \in Addresses : \A d \in Addresses \ {s} : \A c \in Costs : ~AddLink(s, d, c))
          => linkMap' = linkMap
    BY <1>1, SearchKeepsLinks DEF Next, Ask, vars
  <2> QED
    BY <1>1, <2>1, <2>2 DEF LinksInv
<1> QED
  BY <1>1, LinksInit, LinksFromInv, PTL DEF Spec

(* Topology::nexthop, on every topology and after every history of Link    *)
(* commands: the neighbour it returns is one link closer to the            *)
(* destination, although the search marks no node as visited; a node that  *)
(* asks for the way to itself gets a neighbour, too.                       *)
THEOREM SearchFindsShortest == Spec => []RoutesShortest
<1>1. TopologyInv => RoutesShortest
  BY RoutesFromInv DEF TopologyInv
<1> QED
  BY <1>1, TopologyInit, TopologyStep, PTL DEF Spec

(* Topology::nexthop ends at its assertion only without a path: as long as *)
(* there is one, there is an address left to look at; for the way of a     *)
(* node to itself, any link of it is one.                                  *)
THEOREM SearchDiesOnlyApart == Spec => DiesOnlyApart
<1>1. TopologyInv /\ [Next]_vars => [aborted' /\ ~aborted => Apart(query[1], query[2])]_vars
  <2>1. TopologyInv /\ Dies => Apart(query[1], query[2])
    BY DiesApart DEF TopologyInv
  <2>2. [Next]_vars /\ ~Dies => aborted' = aborted
    BY DEF Next, Search, Ask, AddLink, Answer, Expand, vars
  <2> QED
    BY <2>1, <2>2
<1> QED
  BY <1>1, TopologyInit, TopologyStep, PTL DEF Spec, DiesOnlyApart

(* The state of class Topology keeps its types.                            *)
THEOREM TopologyTyped == Spec => []TypeOK
<1>1. TopologyInv => TypeOK
  BY DEF TopologyInv
<1> QED
  BY <1>1, TopologyInit, TopologyStep, PTL DEF Spec
=============================================================================

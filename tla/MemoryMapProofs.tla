---------------------------- MODULE MemoryMapProofs ----------------------------
(***************************************************************************)
(* Theorems about MemoryMap, for maps of any length, regions and elements  *)
(* of any size, and any threshold of the binary search.                    *)
(***************************************************************************)
EXTENDS MemoryMap, SequenceTheorems, FiniteSetTheorems, WellFoundedInduction,
        NaturalsInduction, TLAPS

-----------------------------------------------------------------------------
(* The inductive invariants                                                *)

\* Before a connector is open nothing is transferred.
PhaseInv ==
  /\ mapPhase \notin {"ready", "iterate"} =>
       /\ data = <<>> /\ served = {} /\ fails = {} /\ cur_map_pos = 0 /\ result = "none"
  /\ mapPhase = "iterate" => result = "none"
  /\ mapPhase = "build" => kind = "none"
  /\ mapPhase = "rebuild" => kind \in {"mapped", "readonly"}
  /\ kind \notin {"mapped", "readonly"} => given = <<>> /\ moved = 0

\* Every piece is of an element of the list, and lies before the place where
\* the iterator is.
Before(s) == s.id < elem \/ (s.id = elem /\ s.to <= addr)
PiecesInv ==
  \A s \in served \cup fails :
    /\ s.id \in DOMAIN data /\ s.from <= s.to
    /\ mapPhase = "iterate" => Before(s)

\* A list that push made of regions without overlaps: each one is above the
\* one before it, or below all those before it and not touching them.
AboveLast(list, n) == End(list[n]) <= list[n + 1].base
BelowAll(list, n) == \A i \in 1 .. n : End(list[n + 1]) < list[i].base
PushOrder(list) == \A n \in 1 .. Len(list) - 1 : AboveLast(list, n) \/ BelowAll(list, n)

OrderInv ==
  /\ IncreasingOrdered
  /\ Disjoint(given) => PushOrder(given)
  /\ kind = "none" /\ Disjoint(mappings) => PushOrder(mappings)
  /\ RebuildSame
  /\ kind \in {"mapped", "readonly"} /\ Disjoint(given) =>
       \A i \in 1 .. moved : given[i].real < limit

\* What get_next has done so far of an ordered map, and where it searches on.
Exact(id, a) ==
  /\ Holds(mappings, a) => Covers(served, id, a)
  /\ ~Holds(mappings, a) /\ a < Size => Covers(fails, id, a)
ExactUpTo(id, to) == \A a \in data[id].addr .. to - 1 : Exact(id, a)
ExactInv ==
  Ordered(mappings) /\ ~(kind = "fileio" /\ op = "write") =>
    /\ mapPhase = "iterate" =>
         /\ \A id \in 1 .. elem - 1 : ExactUpTo(id, data[id].addr + data[id].len)
         /\ ExactUpTo(elem, addr)
         /\ \A j \in 1 .. cur_map_pos : End(mappings[j]) <= addr
    /\ result = "ok" =>
         \A id \in DOMAIN data : ExactUpTo(id, data[id].addr + data[id].len)


-----------------------------------------------------------------------------
(* Sequences and least elements                                            *)

\* Every non-empty set of natural numbers has a least element.
LEMMA NatLeast == \A T \in SUBSET Nat : T # {} => \E m \in T : \A n \in T : m <= n
<1> DEFINE R == OpToRel(<, Nat)
<1>1. IsWellFoundedOn(R, Nat)
  BY NatLessThanWellFounded
<1>2. \A x, y \in Nat : <<x, y>> \in R <=> x < y
  BY DEF OpToRel
<1> HIDE DEF R
<1> SUFFICES ASSUME NEW T \in SUBSET Nat, T # {}
             PROVE  \E m \in T : \A n \in T : m <= n
  OBVIOUS
<1>3. PICK m \in T : \A y \in T : ~(<<y, m>> \in R)
  BY <1>1, WFMin
<1>4. m \in Nat /\ \A n \in T : n \in Nat /\ ~(n < m)
  BY <1>2, <1>3
<1>. QED  BY <1>3, <1>4

\* Every non-empty set of indices has a greatest element.
LEMMA GreatestIndex ==
  ASSUME NEW N \in Nat, NEW T \in SUBSET (1 .. N), T # {}
  PROVE  \E m \in T : \A n \in T : n <= m
<1> DEFINE U == {N - n : n \in T}
<1>1. U \in SUBSET Nat /\ U # {}
  <2>1. \A n \in T : N - n \in Nat
    OBVIOUS
  <2>. QED  BY <2>1
<1>2. PICK u \in U : \A v \in U : u <= v
  <2> HIDE DEF U
  <2>. QED  BY <1>1, NatLeast
<1>3. PICK m \in T : u = N - m
  BY <1>2
<1>4. \A n \in T : N - m <= N - n
  BY <1>2, <1>3
<1>. QED  BY <1>3, <1>4

LEMMA SeqIndex ==
  ASSUME NEW S, NEW s \in Seq(S)
  PROVE  Len(s) \in Nat /\ DOMAIN s = 1 .. Len(s) /\ \A k \in 1 .. Len(s) : s[k] \in S
BY LenProperties, ElementOfSeq

\* insert: what is before stays, what is behind moves one place on.
Inserted(list, k, r, new) ==
  /\ Len(new) = Len(list) + 1
  /\ \A i \in 1 .. k : new[i] = list[i]
  /\ new[k + 1] = r
  /\ \A i \in k + 2 .. Len(list) + 1 : new[i] = list[i - 1]

LEMMA InsertOK ==
  ASSUME NEW S, NEW list \in Seq(S), NEW k \in 0 .. Len(list), NEW r \in S
  PROVE  Insert(list, k, r) \in Seq(S) /\ Inserted(list, k, r, Insert(list, k, r))
<1> DEFINE a == SubSeq(list, 1, k)
           b == SubSeq(list, k + 1, Len(list))
           ar == a \o <<r>>
<1>1. Len(list) \in Nat /\ k \in Nat /\ k <= Len(list) /\ \A i \in 1 .. Len(list) : list[i] \in S
  BY SeqIndex
<1>2. /\ a \in Seq(S) /\ Len(a) = k /\ \A i \in 1 .. k : a[i] = list[i]
  <2>1. 1 \in Int /\ k \in Int /\ \A i \in 1 .. k : list[i] \in S
    BY <1>1
  <2>2. /\ a \in Seq(S) /\ Len(a) = (IF 1 <= k THEN k - 1 + 1 ELSE 0)
        /\ \A i \in 1 .. k - 1 + 1 : a[i] = list[1 + i - 1]
    BY <2>1, SubSeqProperties
  <2> HIDE DEF a
  <2>. QED  BY <1>1, <2>2
<1>3. /\ b \in Seq(S) /\ Len(b) = Len(list) - k
      /\ \A i \in 1 .. Len(list) - k : b[i] = list[k + i]
  <2> DEFINE m == k + 1
             n == Len(list)
  <2>1. m \in Int /\ n \in Int /\ \A i \in m .. n : list[i] \in S
    BY <1>1
  <2>2. /\ SubSeq(list, m, n) \in Seq(S)
        /\ Len(SubSeq(list, m, n)) = (IF m <= n THEN n - m + 1 ELSE 0)
        /\ \A i \in 1 .. n - m + 1 : SubSeq(list, m, n)[i] = list[m + i - 1]
    <3> HIDE DEF m, n
    <3>. QED  BY <2>1, SubSeqProperties
  <2>3. b = SubSeq(list, m, n)
    OBVIOUS
  <2> HIDE DEF b
  <2>. QED  BY <1>1, <2>2, <2>3
<1>4. <<r>> \in Seq(S) /\ Len(<<r>>) = 1 /\ <<r>>[1] = r
  OBVIOUS
<1> DEFINE c == <<r>>
<1> HIDE DEF a, b, c
<1>5. /\ ar \in Seq(S) /\ Len(ar) = k + 1
      /\ \A i \in 1 .. k + 1 : ar[i] = IF i <= k THEN a[i] ELSE c[i - k]
  <2>1. /\ c \in Seq(S) /\ Len(c) = 1 /\ ar = a \o c
    BY <1>4 DEF c
  <2> HIDE DEF ar
  <2>2. /\ a \o c \in Seq(S) /\ Len(a \o c) = Len(a) + Len(c)
        /\ \A i \in 1 .. Len(a) + Len(c) : (a \o c)[i] = IF i <= Len(a) THEN a[i] ELSE c[i - Len(a)]
    BY <1>2, <2>1, ConcatProperties
  <2>. QED  BY <1>2, <2>1, <2>2
<1>6. Insert(list, k, r) = ar \o b
  BY DEF Insert, a, b
<1> HIDE DEF ar
<1>7. /\ ar \o b \in Seq(S) /\ Len(ar \o b) = Len(ar) + Len(b)
      /\ \A i \in 1 .. Len(ar) + Len(b) :
           (ar \o b)[i] = IF i <= Len(ar) THEN ar[i] ELSE b[i - Len(ar)]
  BY <1>3, <1>5, ConcatProperties
<1>8. Len(ar) + Len(b) = Len(list) + 1
  BY <1>1, <1>3, <1>5
<1>9. \A i \in 1 .. k : (ar \o b)[i] = list[i]
  BY <1>1, <1>2, <1>5, <1>7, <1>8
<1>10. (ar \o b)[k + 1] = r
  <2>1. ar[k + 1] = r
    <3>1. k + 1 \in 1 .. k + 1 /\ ~(k + 1 <= k) /\ (k + 1) - k = 1
      BY <1>1
    <3>. QED  BY <1>4, <1>5, <3>1 DEF c
  <2>. QED  BY <1>1, <1>5, <1>7, <1>8, <2>1
<1>11. \A i \in k + 2 .. Len(list) + 1 : (ar \o b)[i] = list[i - 1]
  <2> SUFFICES ASSUME NEW i \in k + 2 .. Len(list) + 1
               PROVE  (ar \o b)[i] = list[i - 1]
    OBVIOUS
  <2>1. i - (k + 1) \in 1 .. Len(list) - k /\ k + (i - (k + 1)) = i - 1
    BY <1>1
  <2>2. (ar \o b)[i] = b[i - (k + 1)]
    BY <1>1, <1>5, <1>7, <1>8
  <2>. QED  BY <1>3, <2>1, <2>2
<1>. QED  BY <1>6, <1>7, <1>8, <1>9, <1>10, <1>11 DEF Inserted


-----------------------------------------------------------------------------
(* push                                                                    *)

LEMMA RegionOK ==
  \A m \in Region : /\ m.base \in Nat /\ m.size \in Nat \ {0} /\ m.real \in Nat
                    /\ End(m) \in Nat /\ m.base < End(m)
BY DEF Region, End

\* Where the loop stops, and where the new region goes.
LEMMA StopsOK ==
  ASSUME NEW list \in Seq(Region), NEW r
  PROVE  /\ Stops(list, r) \subseteq 1 .. Len(list)
         /\ Stops(list, r) = {} => ShiftIdx(list, r) = Len(list)
         /\ Stops(list, r) # {} => /\ ShiftIdx(list, r) \in DOMAIN list
                                   /\ StopsAt(list, r, ShiftIdx(list, r))
         /\ ShiftIdx(list, r) \in 0 .. Len(list)
<1>1. Len(list) \in Nat /\ DOMAIN list = 1 .. Len(list)
  BY SeqIndex
<1>2. Stops(list, r) \subseteq 1 .. Len(list)
  BY <1>1 DEF Stops
<1>3. ASSUME Stops(list, r) # {}
      PROVE  ShiftIdx(list, r) \in DOMAIN list /\ StopsAt(list, r, ShiftIdx(list, r))
  <2>1. \E m \in Stops(list, r) : \A n \in Stops(list, r) : n <= m
    BY <1>1, <1>2, <1>3, GreatestIndex
  <2>2. \E i \in DOMAIN list : StopsAt(list, r, i)
    BY <1>1, <1>2, <2>1 DEF StopsAt
  <2>. QED  BY <1>3, <2>2 DEF ShiftIdx
<1>4. Stops(list, r) = {} => ShiftIdx(list, r) = Len(list)
  BY DEF ShiftIdx
<1>. QED  BY <1>1, <1>2, <1>3, <1>4

LEMMA PushedOK ==
  ASSUME NEW list \in Seq(Region), NEW r \in Region, NEW k, k = ShiftIdx(list, r)
  PROVE  /\ k \in 0 .. Len(list) /\ Len(list) \in Nat
         /\ Pushed(list, r) \in Seq(Region) /\ DOMAIN Pushed(list, r) = 1 .. Len(list) + 1
         /\ Inserted(list, k, r, Pushed(list, r))
<1>1. k \in 0 .. Len(list) /\ Len(list) \in Nat
  BY StopsOK, SeqIndex
<1>2. Pushed(list, r) = Insert(list, k, r)
  BY DEF Pushed
<1>3. Insert(list, k, r) \in Seq(Region) /\ Inserted(list, k, r, Insert(list, k, r))
  BY <1>1, InsertOK
<1>4. DOMAIN Insert(list, k, r) = 1 .. Len(list) + 1
  BY <1>3, LenProperties DEF Inserted
<1>. QED  BY <1>1, <1>2, <1>3, <1>4

\* A region above the last one goes to the end.
LEMMA PushAbove ==
  ASSUME NEW list \in Seq(Region), NEW r \in Region,
         list # <<>> => End(list[Len(list)]) <= r.base
  PROVE  ShiftIdx(list, r) = Len(list) /\ ~PushPanics(list, r)
<1>1. Len(list) \in Nat /\ DOMAIN list = 1 .. Len(list) /\ \A i \in 1 .. Len(list) : list[i] \in Region
  BY SeqIndex
<1>2. CASE list = <<>>
  <2>1. DOMAIN list = {} /\ Stops(list, r) = {}
    BY <1>2 DEF Stops
  <2>. QED  BY <2>1, StopsOK DEF PushPanics
<1>3. CASE list # <<>>
  <2>1. Len(list) \in DOMAIN list
    BY <1>1, <1>3, EmptySeq
  <2>2. Len(list) \in Stops(list, r)
    BY <1>3, <2>1 DEF Stops
  <2>3. \A i \in DOMAIN list : StopsAt(list, r, i) => i = Len(list)
    BY <1>1, <2>2 DEF StopsAt
  <2>4. ShiftIdx(list, r) = Len(list)
    BY <2>2, <2>3, StopsOK
  <2>5. ~Overlaps(list[Len(list)], r)
    <3>1. list[Len(list)] \in Region
      BY <1>1, <2>1
    <3>2. /\ End(list[Len(list)]) \in Nat /\ list[Len(list)].base \in Nat
          /\ r.base \in Nat /\ End(r) \in Nat /\ r.base < End(r)
      BY <3>1, RegionOK
    <3>. QED  BY <1>3, <3>2 DEF Overlaps
  <2>. QED  BY <2>3, <2>4, <2>5 DEF PushPanics
<1>. QED  BY <1>2, <1>3

\* A region below all the others, and apart from them, goes to the end too.
LEMMA PushBelow ==
  ASSUME NEW list \in Seq(Region), NEW r \in Region,
         \A i \in 1 .. Len(list) : End(r) < list[i].base
  PROVE  ShiftIdx(list, r) = Len(list) /\ ~PushPanics(list, r)
<1>1. Len(list) \in Nat /\ DOMAIN list = 1 .. Len(list) /\ \A i \in 1 .. Len(list) : list[i] \in Region
  BY SeqIndex
<1>2. ASSUME NEW i \in DOMAIN list
      PROVE  ~(Overlaps(list[i], r) \/ End(list[i]) <= r.base)
  <2>1. list[i] \in Region
    BY <1>1
  <2>2. /\ End(list[i]) \in Nat /\ list[i].base \in Nat /\ list[i].base < End(list[i])
        /\ r.base \in Nat /\ End(r) \in Nat /\ r.base < End(r) /\ End(r) < list[i].base
    BY <1>1, <2>1, RegionOK
  <2>. QED  BY <2>2 DEF Overlaps
<1>3. Stops(list, r) = {}
  BY <1>2 DEF Stops
<1>. QED  BY <1>3, StopsOK DEF PushPanics, StopsAt


\* A region that push puts between others is above the one before it and below
\* those behind it.
LEMMA PushKeepsOrder ==
  ASSUME NEW list \in Seq(Region), NEW r \in Region, ~PushPanics(list, r),
         Disjoint(Pushed(list, r)), Disjoint(list) => PushOrder(list)
  PROVE  PushOrder(Pushed(list, r))
<1> DEFINE k == ShiftIdx(list, r)
           new == Pushed(list, r)
           N == Len(list)
<1>0. N \in Nat /\ DOMAIN list = 1 .. N /\ \A i \in 1 .. N : list[i] \in Region
  BY SeqIndex
<1>1. /\ k \in 0 .. N /\ DOMAIN new = 1 .. N + 1 /\ Len(new) = N + 1
      /\ \A i \in 1 .. k : new[i] = list[i]
      /\ new[k + 1] = r
      /\ \A i \in k + 2 .. N + 1 : new[i] = list[i - 1]
  <2>1. k = ShiftIdx(list, r) /\ new = Pushed(list, r)
    OBVIOUS
  <2> HIDE DEF k, new
  <2>2. k \in 0 .. Len(list) /\ DOMAIN new = 1 .. Len(list) + 1 /\ Inserted(list, k, r, new)
    BY <2>1, PushedOK
  <2>. QED  BY <2>2 DEF Inserted
<1>2. /\ Stops(list, r) = {} => k = N
      /\ Stops(list, r) # {} => k \in DOMAIN list /\ StopsAt(list, r, k)
  BY StopsOK
<1>3. Disjoint(new) /\ (Disjoint(list) => PushOrder(list))
  OBVIOUS
<1>4. Stops(list, r) # {} => ~Overlaps(list[k], r)
  BY <1>2 DEF PushPanics
<1> HIDE DEF k, new, N
<1>5. \A i \in k + 1 .. N : ~Overlaps(list[i], r) /\ ~(End(list[i]) <= r.base)
  <2> SUFFICES ASSUME NEW i \in k + 1 .. N
               PROVE  i \notin Stops(list, r)
    BY <1>0, <1>1 DEF Stops
  <2>. QED  BY <1>0, <1>1, <1>2 DEF StopsAt
<1>6. /\ \A i \in 1 .. k : i \in DOMAIN list /\ i \in DOMAIN new
      /\ \A i \in k + 1 .. N : i \in DOMAIN list /\ i + 1 \in DOMAIN new /\ new[i + 1] = list[i]
      /\ k + 1 \in DOMAIN new
  <2>1. \A i \in k + 1 .. N : i + 1 \in k + 2 .. N + 1 /\ (i + 1) - 1 = i /\ i \in 1 .. N
    BY <1>0, <1>1
  <2>2. \A i \in 1 .. k : i \in 1 .. N /\ i \in 1 .. N + 1
    BY <1>0, <1>1
  <2>. QED  BY <1>0, <1>1, <2>1, <2>2
<1>7. Disjoint(list)
  <2> SUFFICES ASSUME NEW i \in DOMAIN list, NEW j \in DOMAIN list, i # j
               PROVE  End(list[i]) <= list[j].base \/ End(list[j]) <= list[i].base
    BY DEF Disjoint
  <2> DEFINE At(n) == IF n <= k THEN n ELSE n + 1
  <2>1. \A n \in DOMAIN list : At(n) \in DOMAIN new /\ new[At(n)] = list[n]
    <3> SUFFICES ASSUME NEW n \in DOMAIN list
                 PROVE  At(n) \in DOMAIN new /\ new[At(n)] = list[n]
      OBVIOUS
    <3>1. CASE n <= k
      <4>1. n \in 1 .. k
        BY <1>0, <1>1, <3>1
      <4>. QED  BY <1>1, <1>6, <3>1, <4>1
    <3>2. CASE ~(n <= k)
      <4>1. n \in k + 1 .. N
        BY <1>0, <1>1, <3>2
      <4>. QED  BY <1>6, <3>2, <4>1
    <3>. QED  BY <3>1, <3>2
  <2>2. At(i) # At(j)
    BY <1>0, <1>1
  <2> HIDE DEF At
  <2>. QED  BY <1>3, <2>1, <2>2 DEF Disjoint
<1>8. PushOrder(list)
  BY <1>3, <1>7
<1>9. \A i \in k + 1 .. N : End(r) < list[i].base
  <2> SUFFICES ASSUME NEW i \in k + 1 .. N
               PROVE  End(r) < list[i].base
    OBVIOUS
  <2>1. list[i] \in Region
    BY <1>0, <1>6
  <2>2. /\ End(list[i]) \in Nat /\ list[i].base \in Nat /\ list[i].base < End(list[i])
        /\ r.base \in Nat /\ End(r) \in Nat /\ r.base < End(r)
    BY <2>1, RegionOK
  <2>3. End(new[k + 1]) <= new[i + 1].base \/ End(new[i + 1]) <= new[k + 1].base
    <3>1. k + 1 # i + 1
      BY <1>0, <1>1
    <3>. QED  BY <1>3, <1>6, <3>1 DEF Disjoint
  <2>4. End(r) <= list[i].base \/ End(list[i]) <= r.base
    BY <1>1, <1>6, <2>3
  <2>. QED  BY <1>5, <2>2, <2>4 DEF Overlaps
<1>10. ASSUME NEW n \in 1 .. N
       PROVE  AboveLast(new, n) \/ BelowAll(new, n)
  <2>0. n \in Nat /\ k \in Nat
    BY <1>0, <1>1
  <2>1. CASE n < k
    <3>1. n \in 1 .. N - 1 /\ n \in 1 .. k /\ n + 1 \in 1 .. k /\ \A i \in 1 .. n : i \in 1 .. k
      BY <1>0, <1>1, <2>1
    <3>2. AboveLast(list, n) \/ BelowAll(list, n)
      BY <1>8, <3>1 DEF PushOrder, N
    <3>. QED  BY <1>1, <3>1, <3>2 DEF AboveLast, BelowAll
  <2>2. CASE n = k
    <3>1. CASE Stops(list, r) = {}
      <4>1. k = N
        BY <1>2, <3>1
      <4>2. \A i \in 1 .. N : ~Overlaps(list[i], r) /\ ~(End(list[i]) <= r.base)
        BY <1>0, <3>1 DEF Stops
      <4>3. ASSUME NEW i \in 1 .. N
            PROVE  End(r) < new[i].base
        <5>1. list[i] \in Region /\ new[i] = list[i] /\ i \in DOMAIN new /\ i # k + 1
          BY <1>0, <1>1, <4>1
        <5>2. End(new[i]) <= new[k + 1].base \/ End(new[k + 1]) <= new[i].base
          BY <1>3, <1>6, <5>1 DEF Disjoint
        <5>3. /\ End(list[i]) \in Nat /\ list[i].base \in Nat /\ list[i].base < End(list[i])
              /\ r.base \in Nat /\ End(r) \in Nat /\ r.base < End(r)
          BY <5>1, RegionOK
        <5>4. End(r) <= list[i].base
          BY <1>1, <4>2, <5>1, <5>2
        <5>. QED  BY <4>2, <5>1, <5>3, <5>4 DEF Overlaps
      <4>. QED  BY <1>1, <2>2, <4>1, <4>3 DEF BelowAll
    <3>2. CASE Stops(list, r) # {}
      <4>1. k \in Stops(list, r) /\ ~Overlaps(list[k], r)
        BY <1>2, <1>4, <3>2 DEF StopsAt
      <4>2. End(list[k]) <= r.base
        BY <4>1 DEF Stops
      <4>3. k \in 1 .. k
        BY <2>2, <2>0
      <4>. QED  BY <1>1, <2>2, <4>2, <4>3 DEF AboveLast
    <3>. QED  BY <3>1, <3>2
  <2>3. CASE n = k + 1
    <3>1. n \in k + 1 .. N
      BY <2>0, <2>3
    <3>2. End(r) < list[n].base /\ new[n] = r /\ new[n + 1] = list[n]
      BY <1>1, <1>6, <1>9, <2>3, <3>1
    <3>3. list[n] \in Region
      BY <1>0, <1>6, <3>1
    <3>4. End(r) \in Nat /\ list[n].base \in Nat
      BY <3>3, RegionOK
    <3>. QED  BY <3>2, <3>4 DEF AboveLast
  <2>4. CASE n > k + 1
    <3>1. /\ n \in k + 1 .. N /\ n - 1 \in k + 1 .. N /\ n - 1 \in 1 .. N - 1
          /\ (n - 1) + 1 = n
      BY <1>0, <2>0, <2>4
    <3>2. new[n] = list[n - 1] /\ new[n + 1] = list[n]
      BY <1>6, <3>1
    <3>3. AboveLast(list, n - 1) \/ BelowAll(list, n - 1)
      BY <1>8, <3>1 DEF PushOrder, N
    <3>4. k >= 1
      <4>1. Stops(list, r) # {}
        BY <1>0, <1>2, <2>0, <2>4
      <4>. QED  BY <1>0, <1>2, <2>0, <4>1
    <3>5. ~BelowAll(list, n - 1)
      <4>1. Stops(list, r) # {}
        BY <1>0, <1>2, <2>0, <2>4
      <4>2. End(list[k]) <= r.base
        BY <1>2, <1>4, <4>1 DEF StopsAt, Stops
      <4>3. End(r) < list[n].base
        BY <1>9, <3>1
      <4>4. k \in 1 .. n - 1
        BY <2>0, <2>4, <3>4
      <4>5. list[k] \in Region /\ list[n] \in Region
        BY <1>0, <1>6, <3>1, <4>1, <1>2
      <4>6. /\ End(list[k]) \in Nat /\ list[k].base \in Nat /\ list[k].base < End(list[k])
            /\ End(list[n]) \in Nat /\ list[n].base \in Nat /\ list[n].base < End(list[n])
            /\ r.base \in Nat /\ End(r) \in Nat /\ r.base < End(r)
        BY <4>5, RegionOK
      <4>7. ~(End(list[n]) < list[k].base)
        BY <4>2, <4>3, <4>6
      <4>. QED  BY <3>1, <4>4, <4>7 DEF BelowAll
    <3>6. AboveLast(list, n - 1)
      BY <3>3, <3>5
    <3>. QED  BY <3>1, <3>2, <3>6 DEF AboveLast
  <2>. QED  BY <2>0, <2>1, <2>2, <2>3, <2>4
<1>11. Len(new) - 1 = N
  BY <1>0, <1>1
<1>12. PushOrder(new)
  BY <1>10, <1>11 DEF PushOrder
<1>. QED  BY <1>12 DEF new


LEMMA OrderedPush ==
  ASSUME NEW list \in Seq(Region), NEW r \in Region, Ordered(list), ~PushPanics(list, r),
         \A i \in DOMAIN list : list[i].base <= r.base
  PROVE  Ordered(Pushed(list, r))
<1> DEFINE N == Len(list)
           new == Pushed(list, r)
<1>1. N \in Nat /\ DOMAIN list = 1 .. N /\ \A i \in 1 .. N : list[i] \in Region
  BY SeqIndex
<1>2. /\ r.base \in Nat
      /\ \A i \in 1 .. N : list[i].base \in Nat /\ End(list[i]) \in Nat /\ list[i].base < End(list[i])
  BY <1>1, RegionOK
<1>3. list # <<>> => N \in 1 .. N /\ End(list[N]) <= r.base
  <2> SUFFICES ASSUME list # <<>> PROVE N \in 1 .. N /\ End(list[N]) <= r.base
    OBVIOUS
  <2>1. N \in 1 .. N
    BY <1>1, EmptySeq
  <2>2. N \in Stops(list, r)
    BY <1>1, <1>2, <2>1 DEF Stops, Overlaps
  <2>3. StopsAt(list, r, N)
    BY <1>1, <2>2 DEF StopsAt, Stops
  <2>4. ~Overlaps(list[N], r)
    BY <1>1, <2>1, <2>3 DEF PushPanics
  <2>. QED  BY <1>1, <1>2, <2>1, <2>4 DEF Overlaps
<1>4. N = ShiftIdx(list, r)
  BY <1>3, PushAbove
<1>5. DOMAIN new = 1 .. N + 1 /\ Inserted(list, N, r, new)
  <2>1. new = Pushed(list, r)
    OBVIOUS
  <2> HIDE DEF new, N
  <2>2. DOMAIN new = 1 .. Len(list) + 1 /\ Inserted(list, N, r, new)
    BY <1>4, <2>1, PushedOK
  <2>. QED  BY <2>2 DEF N
<1> HIDE DEF N, new
<1>6. new[N + 1] = r /\ \A i \in 1 .. N : new[i] = list[i]
  BY <1>5 DEF Inserted
<1>7. \A i \in 1 .. N : End(list[i]) <= r.base
  <2> SUFFICES ASSUME NEW i \in 1 .. N PROVE End(list[i]) <= r.base
    OBVIOUS
  <2>1. list # <<>>
    BY <1>1
  <2>2. i < N => End(list[i]) <= list[N].base
    BY <1>1, <1>3, <2>1 DEF Ordered
  <2>3. i < N \/ i = N
    BY <1>1
  <2>. QED  BY <1>2, <1>3, <2>1, <2>2, <2>3
<1>8. ASSUME NEW i \in 1 .. N + 1, NEW j \in 1 .. N + 1, i < j
      PROVE  End(new[i]) <= new[j].base
  <2>1. i \in 1 .. N
    BY <1>1, <1>8
  <2>2. CASE j = N + 1
    BY <1>6, <1>7, <2>1, <2>2
  <2>3. CASE j \in 1 .. N
    BY <1>1, <1>6, <1>8, <2>1, <2>3 DEF Ordered
  <2>. QED  BY <1>1, <2>2, <2>3
<1>9. Ordered(new)
  BY <1>5, <1>8 DEF Ordered
<1>. QED  BY <1>9 DEF new

LEMMA TruncatedOK ==
  ASSUME NEW r \in Region, limit \in Nat, r.real < limit
  PROVE  /\ Truncated(r) \in Region /\ Truncated(r).base = r.base /\ Truncated(r).real = r.real
         /\ End(Truncated(r)) <= End(r)
<1>1. r.base \in Nat /\ r.size \in Nat \ {0} /\ r.real \in Nat
  BY RegionOK
<1>2. Truncated(r) = [base |-> r.base, real |-> r.real,
                      size |-> IF r.real + r.size <= limit THEN r.size ELSE limit - r.real]
  BY DEF Truncated, Region
<1>3. (IF r.real + r.size <= limit THEN r.size ELSE limit - r.real) \in Nat \ {0}
  BY <1>1
<1>. QED  BY <1>1, <1>2, <1>3 DEF Region, End

\* The connector pushes the regions of a map once more, in their order: each
\* one goes to the end.
LEMMA PushAgain ==
  ASSUME mappings \in Seq(Region), given \in Seq(Region), limit \in Nat, moved \in 0 .. Len(given),
         moved < Len(given), PushOrder(given), NextRegion.real < limit,
         Len(mappings) = moved,
         \A i \in 1 .. moved : mappings[i] = Truncated(given[i]) /\ given[i].real < limit
  PROVE  /\ NextRegion \in Region /\ given[moved + 1].real < limit
         /\ ShiftIdx(mappings, NextRegion) = moved /\ ~PushPanics(mappings, NextRegion)
<1> DEFINE r == NextRegion
           g == given[moved + 1]
<1>1. /\ Len(given) \in Nat /\ moved \in Nat /\ moved + 1 \in 1 .. Len(given)
      /\ \A i \in 1 .. Len(given) : given[i] \in Region
  BY SeqIndex
<1>2. g.real < limit
  <2>1. r = [g EXCEPT !.size = IF g.real + g.size <= limit THEN g.size ELSE limit - g.real]
    BY DEF NextRegion, Truncated
  <2>2. r.real = g.real
    BY <1>1, <2>1 DEF Region
  <2>. QED  BY <2>2
<1>3. r \in Region /\ r.base = g.base /\ End(r) <= End(g)
  BY <1>1, <1>2, TruncatedOK DEF NextRegion
<1>4. CASE moved = 0
  <2>1. mappings = <<>>
    BY <1>4, EmptySeq
  <2>. QED  BY <1>2, <1>3, <1>4, <2>1, PushAbove
<1>5. CASE moved # 0
  <2>1. moved \in 1 .. moved /\ moved \in 1 .. Len(given) - 1
    BY <1>1, <1>5
  <2>2. \A i \in 1 .. moved : /\ given[i] \in Region /\ given[i].real < limit
                              /\ mappings[i] = Truncated(given[i])
    BY <1>1
  <2>3. \A i \in 1 .. moved : mappings[i].base = given[i].base /\ End(mappings[i]) <= End(given[i])
    BY <2>2, TruncatedOK
  <2>4. \A i \in 1 .. moved : /\ mappings[i] \in Region
                              /\ given[i].base \in Nat /\ End(given[i]) \in Nat
                              /\ End(mappings[i]) \in Nat
    <3>1. \A i \in 1 .. moved : mappings[i] \in Region
      BY <2>2, TruncatedOK
    <3>. QED  BY <2>2, <3>1, RegionOK
  <2>5. g.base \in Nat /\ End(g) \in Nat /\ End(r) \in Nat /\ r.base \in Nat
    BY <1>1, <1>3, RegionOK
  <2>6. CASE AboveLast(given, moved)
    <3>1. End(given[moved]) <= g.base
      BY <2>6 DEF AboveLast
    <3>2. End(mappings[moved]) <= r.base
      BY <1>3, <2>1, <2>3, <2>4, <2>5, <3>1
    <3>. QED  BY <1>2, <1>3, <3>2, PushAbove
  <2>7. CASE BelowAll(given, moved)
    <3>1. \A i \in 1 .. moved : End(g) < given[i].base
      BY <2>7 DEF BelowAll
    <3>2. \A i \in 1 .. moved : End(r) < mappings[i].base
      <4> HIDE DEF r, g
      <4> SUFFICES ASSUME NEW i \in 1 .. moved PROVE End(r) < mappings[i].base
        OBVIOUS
      <4>1. End(g) < given[i].base /\ mappings[i].base = given[i].base /\ given[i].base \in Nat
        BY <2>3, <2>4, <3>1
      <4>. QED  BY <1>3, <2>5, <4>1
    <3>. QED  BY <1>2, <1>3, <3>2, PushBelow
  <2>. QED  BY <2>1, <2>6, <2>7 DEF PushOrder
<1>. QED  BY <1>4, <1>5


-----------------------------------------------------------------------------
(* The map: its type and its order                                         *)

MapListsOK ==
  /\ mappings \in Seq(Region) /\ given \in Seq(Region)
  /\ moved \in 0 .. Len(given) /\ limit \in Nat

\* What a step does to the map.
MapSame == UNCHANGED <<mappings, given, moved, limit, kind, increasing>>

LEMMA MapKept ==
  /\ \A o, list : StartOp(o, list) => MapSame /\ mapPhase' \in {"ready", "iterate"}
  /\ Iterate => MapSame /\ mapPhase' \in {"ready", "iterate"}
  /\ RebuildDone => MapSame /\ mapPhase' = "ready"
  /\ UNCHANGED memoryMapVars => MapSame /\ mapPhase' = mapPhase
<1>1. Iterate => MapSame /\ mapPhase' \in {"ready", "iterate"}
  BY DEF Iterate, NotFound, FoundBehind, Transfer, TransferFails, Iterating, NextElement, KeepRest,
         MapSame, mapVars
<1>. QED  BY <1>1 DEF StartOp, RebuildDone, memoryMapVars, mapVars, MapSame

LEMMA ListsStep ==
  ASSUME MapListsOK, [MapNext]_memoryMapVars
  PROVE  MapListsOK'
<1>1. CASE MapSame
  BY <1>1 DEF MapSame, MapListsOK
<1>2. ASSUME NEW r \in Regions, Push(r)
      PROVE  MapListsOK'
  <2>1. r \in Region
    BY MapAssumption
  <2>2. mappings' \in {mappings, Pushed(mappings, r)} /\ UNCHANGED <<given, moved, limit>>
    BY <1>2 DEF Push
  <2>3. Pushed(mappings, r) \in Seq(Region)
    BY <2>1, PushedOK DEF MapListsOK
  <2>. QED  BY <2>2, <2>3 DEF MapListsOK
<1>3. CASE OpenFileIO
  BY <1>3 DEF OpenFileIO, mapVars, MapListsOK
<1>4. ASSUME NEW k, NEW len \in Limits, OpenMapped(k, len)
      PROVE  MapListsOK'
  <2>1. given' = mappings /\ moved' = 0 /\ mappings' = <<>> /\ limit' \in Nat
    BY <1>4, MapAssumption DEF OpenMapped
  <2>2. <<>> \in Seq(Region) /\ Len(mappings) \in Nat
    BY LenProperties DEF MapListsOK
  <2>. QED  BY <2>1, <2>2 DEF MapListsOK
<1>5. CASE Rebuild
  <2>1. /\ moved < Len(given) /\ UNCHANGED <<given, limit>>
        /\ \/ UNCHANGED <<mappings, moved>>
           \/ /\ NextRegion.real < limit /\ moved' = moved + 1
              /\ mappings' = Pushed(mappings, NextRegion)
    BY <1>5 DEF Rebuild
  <2>2. /\ Len(given) \in Nat /\ given[moved + 1] \in Region
    <3>1. Len(given) \in Nat /\ \A i \in 1 .. Len(given) : given[i] \in Region
      BY SeqIndex DEF MapListsOK
    <3>2. moved + 1 \in 1 .. Len(given)
      BY <2>1, <3>1 DEF MapListsOK
    <3>. QED  BY <3>1, <3>2
  <2>3. NextRegion.real < limit => NextRegion \in Region
    <3>1. NextRegion.real = given[moved + 1].real
      BY <2>2 DEF NextRegion, Truncated, Region
    <3>. QED  BY <2>2, <3>1, TruncatedOK DEF NextRegion, MapListsOK
  <2> DEFINE r == NextRegion
  <2>4. r.real < limit => Pushed(mappings, r) \in Seq(Region)
    <3> HIDE DEF r
    <3>1. mappings \in Seq(Region)
      BY DEF MapListsOK
    <3>2. r.real < limit => r \in Region
      BY <2>3 DEF r
    <3>. QED  BY <3>1, <3>2, PushedOK
  <2>. QED  BY <2>1, <2>2, <2>4 DEF MapListsOK
<1>. QED  BY <1>1, <1>2, <1>3, <1>4, <1>5, MapKept DEF MapNext

LEMMA OrderStep ==
  ASSUME MapListsOK, PhaseInv, OrderInv, [MapNext]_memoryMapVars
  PROVE  OrderInv'
<1>0. /\ mappings \in Seq(Region) /\ given \in Seq(Region)
      /\ moved \in 0 .. Len(given) /\ limit \in Nat /\ Len(given) \in Nat
  BY LenProperties DEF MapListsOK
<1>1. CASE MapSame /\ (mapPhase' = "panicked" => mapPhase = "panicked")
  BY <1>1 DEF MapSame, OrderInv, IncreasingOrdered, RebuildSame, Truncated
<1>2. ASSUME NEW r \in Regions, Push(r)
      PROVE  OrderInv'
  <2>1. /\ r \in Region /\ mapPhase = "build" /\ kind = "none"
        /\ UNCHANGED <<given, kind>>
        /\ increasing' = (increasing /\ \A i \in DOMAIN mappings : mappings[i].base <= r.base)
    BY <1>2, MapAssumption DEF Push, PhaseInv
  <2>2. CASE mappings' = mappings
    BY <2>1, <2>2 DEF OrderInv, IncreasingOrdered, RebuildSame
  <2>3. CASE ~PushPanics(mappings, r) /\ mappings' = Pushed(mappings, r)
    <3>1. increasing' => Ordered(mappings')
      BY <1>0, <2>1, <2>3, OrderedPush DEF OrderInv, IncreasingOrdered
    <3>2. Disjoint(mappings') => PushOrder(mappings')
      BY <1>0, <2>1, <2>3, PushKeepsOrder DEF OrderInv
    <3>. QED  BY <2>1, <3>1, <3>2 DEF OrderInv, IncreasingOrdered, RebuildSame
  <2>. QED  BY <1>2, <2>2, <2>3 DEF Push
<1>3. CASE OpenFileIO
  BY <1>3 DEF OpenFileIO, mapVars, OrderInv, IncreasingOrdered, RebuildSame
<1>4. ASSUME NEW k \in {"mapped", "readonly"}, NEW len \in Limits, OpenMapped(k, len)
      PROVE  OrderInv'
  <2>1. /\ kind = "none" /\ kind' = k /\ mapPhase' = "rebuild" /\ given' = mappings /\ moved' = 0
        /\ mappings' = <<>> /\ increasing' = increasing
    BY <1>4 DEF OpenMapped, PhaseInv
  <2>2. Len(mappings') = 0 /\ DOMAIN mappings' = {} /\ 1 .. moved' = {}
    BY <2>1
  <2>. QED  BY <2>1, <2>2 DEF OrderInv, IncreasingOrdered, RebuildSame, Ordered
<1>5. CASE Rebuild
  <2>1. /\ mapPhase = "rebuild" /\ kind \in {"mapped", "readonly"} /\ moved < Len(given)
        /\ UNCHANGED <<kind, given, limit, increasing>>
    BY <1>5 DEF Rebuild, PhaseInv
  <2>2. Ordered(given) => Disjoint(given)
    <3>1. DOMAIN given \subseteq Int
      BY <1>0, SeqIndex
    <3>. QED  BY <3>1 DEF Ordered, Disjoint
  <2>3. CASE ~Disjoint(given)
    BY <2>1, <2>2, <2>3 DEF OrderInv, IncreasingOrdered, RebuildSame
  <2>4. CASE Disjoint(given)
    <3>1. /\ PushOrder(given) /\ Len(mappings) = moved
          /\ \A i \in 1 .. moved : mappings[i] = Truncated(given[i]) /\ given[i].real < limit
      BY <2>1, <2>4 DEF OrderInv, RebuildSame
    <3>2. CASE NextRegion.real >= limit /\ mapPhase' = "refused" /\ UNCHANGED <<mappings, moved>>
      BY <2>1, <3>2 DEF OrderInv, IncreasingOrdered, RebuildSame, Truncated
    <3>3. CASE NextRegion.real < limit
      <4> DEFINE r == NextRegion
      <4>1. /\ r \in Region /\ given[moved + 1].real < limit
            /\ ShiftIdx(mappings, r) = moved /\ ~PushPanics(mappings, r)
        BY <1>0, <2>1, <3>1, <3>3, PushAgain
      <4>2. mappings' = Pushed(mappings, r) /\ moved' = moved + 1 /\ mapPhase' = "rebuild"
        <5>1. ~(r.real >= limit)
          <6>1. r.real \in Nat
            BY <4>1, RegionOK
          <6>. QED  BY <1>0, <3>3, <6>1
        <5>. QED  BY <1>5, <2>1, <3>3, <4>1, <5>1 DEF Rebuild
      <4>3. r = Truncated(given[moved + 1])
        BY DEF NextRegion
      <4> HIDE DEF r
      <4>4. Inserted(mappings, moved, r, mappings') /\ DOMAIN mappings' = 1 .. Len(mappings) + 1
        BY <1>0, <4>1, <4>2, PushedOK
      <4>5. Len(mappings') = moved' /\ DOMAIN mappings' = 1 .. moved'
        BY <3>1, <4>2, <4>4 DEF Inserted
      <4>6. \A i \in 1 .. moved' : mappings'[i] = Truncated(given[i]) /\ given[i].real < limit
        <5>1. \A i \in 1 .. moved' : i \in 1 .. moved \/ i = moved + 1
          BY <1>0, <4>2
        <5>2. \A i \in 1 .. moved : mappings'[i] = mappings[i]
          BY <4>4 DEF Inserted
        <5>3. mappings'[moved + 1] = r
          BY <4>4 DEF Inserted
        <5>. QED  BY <3>1, <4>1, <4>3, <5>1, <5>2, <5>3
      <4>7. Ordered(given) => Ordered(mappings')
        <5> SUFFICES ASSUME Ordered(given), NEW i \in 1 .. moved', NEW j \in 1 .. moved', i < j
                     PROVE  End(mappings'[i]) <= mappings'[j].base
          BY <4>5 DEF Ordered
        <5>1. i \in 1 .. Len(given) /\ j \in 1 .. Len(given)
          BY <1>0, <2>1, <4>2
        <5>2. given[i] \in Region /\ given[j] \in Region /\ DOMAIN given = 1 .. Len(given)
          BY <1>0, <5>1, SeqIndex
        <5>3. /\ mappings'[i] = Truncated(given[i]) /\ mappings'[j] = Truncated(given[j])
              /\ given[i].real < limit /\ given[j].real < limit
          BY <4>6
        <5>4. /\ End(Truncated(given[i])) <= End(given[i]) /\ Truncated(given[i]) \in Region
              /\ Truncated(given[j]).base = given[j].base
          BY <1>0, <5>2, <5>3, TruncatedOK
        <5>5. End(given[i]) <= given[j].base
          BY <5>1, <5>2 DEF Ordered
        <5>6. End(Truncated(given[i])) \in Nat /\ End(given[i]) \in Nat /\ given[j].base \in Nat
          BY <5>2, <5>4, RegionOK
        <5>. QED  BY <5>3, <5>4, <5>5, <5>6
      <4>8. \A i \in 1 .. moved' : Truncated(given[i])' = Truncated(given[i])
        BY <2>1 DEF Truncated
      <4>. QED  BY <2>1, <4>2, <4>5, <4>6, <4>7, <4>8
                DEF OrderInv, IncreasingOrdered, RebuildSame
    <3>. QED  BY <1>5, <3>2, <3>3 DEF Rebuild
  <2>. QED  BY <2>3, <2>4
<1>. QED  BY <1>1, <1>2, <1>3, <1>4, <1>5, MapKept DEF MapNext


-----------------------------------------------------------------------------
(* The iterator: its type                                                  *)

IterType ==
  /\ mapPhase \in {"build", "rebuild", "ready", "iterate", "panicked", "refused"}
  /\ kind \in {"none", "fileio", "mapped", "readonly"}
  /\ op \in {"read", "write"} /\ result \in {"none", "ok", "err"} /\ increasing \in BOOLEAN
  /\ data \in Seq(Elements) /\ elem \in Nat /\ addr \in Nat
  /\ cur_map_pos \in 0 .. Len(mappings)
  /\ mapPhase = "iterate" => elem \in DOMAIN data /\ data[elem].addr <= addr /\ addr < ElemEnd

PieceTypes ==
  /\ served \subseteq [id : Nat, from : Nat, to : Nat, real : Nat]
  /\ fails \subseteq [id : Nat, from : Nat, to : Nat]

LEMMA MapTypeSplit == MapTypeOK <=> MapListsOK /\ IterType /\ PieceTypes
BY DEF MapTypeOK, MapListsOK, IterType, PieceTypes

LEMMA ElementOK ==
  ASSUME IterType, NEW id \in DOMAIN data
  PROVE  /\ data[id] \in Elements /\ data[id].addr \in Nat /\ data[id].len \in Nat \ {0}
         /\ id \in Nat /\ DOMAIN data = 1 .. Len(data) /\ Len(data) \in Nat
<1>1. Len(data) \in Nat /\ DOMAIN data = 1 .. Len(data) /\ data[id] \in Elements
  BY SeqIndex DEF IterType
<1>2. data[id] \in [addr : Nat, len : Nat \ {0}]
  BY <1>1, MapAssumption
<1>. QED  BY <1>1, <1>2

LEMMA ListOfElements ==
  ASSUME NEW list \in ElementLists
  PROVE  /\ list \in Seq(Elements) /\ 1 \in DOMAIN list
         /\ list[1].addr \in Nat /\ list[1].len \in Nat \ {0}
<1>1. PICK n \in 1 .. MaxElements : list \in [1 .. n -> Elements]
  BY DEF ElementLists
<1>2. n \in Nat /\ 1 \in 1 .. n
  BY MapAssumption
<1>3. list \in Seq(Elements)
  BY <1>1, <1>2
<1>4. list[1] \in [addr : Nat, len : Nat \ {0}]
  BY <1>1, <1>2, MapAssumption
<1>. QED  BY <1>1, <1>2, <1>3, <1>4

\* Where the iterator is, and the region it found.
LEMMA HereOK ==
  ASSUME MapListsOK, IterType, mapPhase = "iterate"
  PROVE  /\ addr \in Nat /\ ElemEnd \in Nat /\ addr < ElemEnd /\ data[elem].addr \in Nat
         /\ elem \in DOMAIN data /\ elem \in 1 .. Len(data) /\ Len(data) \in Nat
         /\ data[elem].addr <= addr
<1>1. elem \in DOMAIN data /\ data[elem].addr <= addr /\ addr < ElemEnd /\ addr \in Nat
  BY DEF IterType
<1>2. /\ data[elem].addr \in Nat /\ data[elem].len \in Nat
      /\ DOMAIN data = 1 .. Len(data) /\ Len(data) \in Nat
  BY <1>1, ElementOK
<1>. QED  BY <1>1, <1>2 DEF ElemEnd

LEMMA FoundOK ==
  ASSUME MapListsOK, IterType, mapPhase = "iterate", NEW skip, NEW i, Found(i, skip)
  PROVE  /\ i \in 1 .. Len(mappings) /\ Len(mappings) \in Nat
         /\ mappings[i] \in Region /\ mappings[i].base \in Nat /\ End(mappings[i]) \in Nat
         /\ mappings[i].real \in Nat
         /\ mappings[i].base < End(mappings[i]) /\ addr < End(mappings[i])
         /\ mappings[i].base < ElemEnd =>
              /\ PieceFrom(i) \in Nat /\ PieceTo(i) \in Nat
              /\ addr <= PieceFrom(i) /\ mappings[i].base <= PieceFrom(i)
              /\ PieceFrom(i) = addr \/ PieceFrom(i) = mappings[i].base
              /\ PieceFrom(i) < PieceTo(i) /\ PieceTo(i) <= ElemEnd
              /\ PieceTo(i) <= End(mappings[i])
              /\ PieceTo(i) < ElemEnd => PieceTo(i) = End(mappings[i])
<1>1. /\ i \in 1 .. Len(mappings) /\ Len(mappings) \in Nat /\ mappings[i] \in Region
      /\ End(mappings[i]) > addr
  BY SeqIndex DEF Found, MapListsOK
<1>2. /\ mappings[i].base \in Nat /\ End(mappings[i]) \in Nat /\ mappings[i].real \in Nat
      /\ mappings[i].base < End(mappings[i])
  BY <1>1, RegionOK
<1>3. addr \in Nat /\ ElemEnd \in Nat /\ addr < ElemEnd
  BY HereOK
<1>. QED  BY <1>1, <1>2, <1>3 DEF PieceFrom, PieceTo

LEMMA NextElementOK ==
  ASSUME MapListsOK, IterType, mapPhase = "iterate", NextElement, UNCHANGED <<data, mappings>>
  PROVE  /\ mapPhase' \in {"ready", "iterate"} /\ result' \in {result, "ok"}
         /\ elem' \in Nat /\ addr' \in Nat /\ cur_map_pos' \in 0 .. Len(mappings')
         /\ mapPhase' = "iterate" => /\ elem' \in DOMAIN data' /\ data'[elem'].addr <= addr'
                                     /\ addr' < ElemEnd'
<1>1. elem \in 1 .. Len(data) /\ Len(data) \in Nat /\ addr \in Nat /\ Len(mappings) \in Nat
  BY HereOK, LenProperties DEF MapListsOK
<1>2. CASE elem < Len(data)
  <2>1. elem' = elem + 1 /\ addr' = data[elem + 1].addr /\ mapPhase' = "iterate" /\ result' = result
        /\ cur_map_pos' = 0
    BY <1>2 DEF NextElement
  <2>2. elem + 1 \in DOMAIN data
    BY <1>1, <1>2, LenProperties DEF IterType
  <2>3. data[elem + 1].addr \in Nat /\ data[elem + 1].len \in Nat \ {0}
    BY <2>2, ElementOK
  <2>. QED  BY <1>1, <2>1, <2>2, <2>3 DEF ElemEnd
<1>3. CASE ~(elem < Len(data))
  BY <1>1, <1>3 DEF NextElement
<1>. QED  BY <1>2, <1>3

LEMMA IterateType ==
  ASSUME MapListsOK, IterType, Iterate
  PROVE  IterType'
<1>0. /\ mapPhase = "iterate" /\ UNCHANGED <<kind, mappings, op, data, increasing>>
  BY DEF Iterate, NotFound, FoundBehind, Transfer, TransferFails, Iterating, mapVars
<1>1. CASE NextElement
  BY <1>0, <1>1, NextElementOK DEF IterType
<1>2. ASSUME NEW skip, NEW i, Found(i, skip), mappings[i].base < ElemEnd,
             PieceTo(i) < ElemEnd, cur_map_pos' = i, addr' = PieceTo(i),
             UNCHANGED <<elem, mapPhase, result>>
      PROVE  IterType'
  <2>1. /\ i \in 1 .. Len(mappings) /\ Len(mappings) \in Nat /\ PieceTo(i) \in Nat
        /\ PieceTo(i) = End(mappings[i]) /\ addr < PieceTo(i)
    <3>1. /\ i \in 1 .. Len(mappings) /\ Len(mappings) \in Nat /\ PieceTo(i) \in Nat
          /\ PieceTo(i) = End(mappings[i]) /\ addr < End(mappings[i])
      BY <1>0, <1>2, FoundOK
    <3>. QED  BY <3>1
  <2>2. ElemEnd' = ElemEnd /\ data[elem].addr \in Nat /\ data[elem].addr <= addr /\ addr \in Nat
    BY <1>0, <1>2, HereOK DEF ElemEnd
  <2>3. data[elem].addr <= PieceTo(i)
    BY <2>1, <2>2
  <2>4. cur_map_pos' \in 0 .. Len(mappings')
    BY <1>0, <1>2, <2>1
  <2>5. /\ elem' \in DOMAIN data' /\ data'[elem'].addr <= addr' /\ addr' < ElemEnd'
    BY <1>0, <1>2, <2>2, <2>3 DEF IterType
  <2>. QED  BY <1>0, <1>2, <2>1, <2>4, <2>5 DEF IterType
<1>3. ASSUME mapPhase' = "ready", result' = "err", UNCHANGED iterVars
      PROVE  IterType'
  BY <1>0, <1>3 DEF IterType, iterVars
<1>4. ASSUME NEW skip, NEW i, Transfer(i, skip)
      PROVE  IterType'
  <2>1. Found(i, skip) /\ mappings[i].base < ElemEnd /\ KeepRest(i, PieceTo(i))
    BY <1>4 DEF Transfer
  <2>. QED  BY <1>1, <1>2, <2>1 DEF KeepRest
<1>. QED  BY <1>1, <1>3, <1>4 DEF Iterate, NotFound, FoundBehind, TransferFails


LEMMA IterTypeStep ==
  ASSUME MapListsOK, IterType, PhaseInv, [MapNext]_memoryMapVars
  PROVE  IterType'
<1>0. Len(mappings) \in Nat /\ mappings \in Seq(Region)
  BY LenProperties DEF MapListsOK
<1>1. ASSUME NEW r \in Regions, Push(r)
      PROVE  IterType'
  <2>1. /\ mapPhase = "build" /\ mapPhase' \in {"build", "panicked"}
        /\ increasing' = (increasing /\ \A i \in DOMAIN mappings : mappings[i].base <= r.base)
        /\ UNCHANGED <<kind, op, result, data, elem, addr, cur_map_pos>>
        /\ mappings' \in {mappings, Pushed(mappings, r)}
    BY <1>1 DEF Push, iterVars, outVars
  <2>2. Len(Pushed(mappings, r)) = Len(mappings) + 1
    <3>1. r \in Region
      BY MapAssumption
    <3>. QED  BY <1>0, <3>1, PushedOK DEF Inserted
  <2>3. cur_map_pos' \in 0 .. Len(mappings')
    BY <1>0, <2>1, <2>2 DEF IterType
  <2>4. increasing' \in BOOLEAN
    BY <2>1
  <2>. QED  BY <2>1, <2>3, <2>4 DEF IterType
<1>2. CASE OpenFileIO
  BY <1>2 DEF OpenFileIO, mapVars, iterVars, outVars, IterType
<1>3. ASSUME NEW k \in {"mapped", "readonly"}, NEW len \in Limits, OpenMapped(k, len)
      PROVE  IterType'
  <2>1. /\ mapPhase = "build" /\ mapPhase' = "rebuild" /\ kind' = k /\ mappings' = <<>>
        /\ UNCHANGED <<op, result, increasing, data, elem, addr, cur_map_pos>>
    BY <1>3 DEF OpenMapped, iterVars, outVars
  <2>2. cur_map_pos' = 0 /\ Len(mappings') = 0
    BY <2>1 DEF PhaseInv
  <2>3. cur_map_pos' \in 0 .. Len(mappings')
    BY <2>2
  <2>. QED  BY <2>1, <2>3 DEF IterType
<1>4. CASE Rebuild
  <2>1. /\ mapPhase = "rebuild" /\ mapPhase' \in {"rebuild", "refused", "panicked"}
        /\ UNCHANGED <<kind, op, result, increasing, data, elem, addr, cur_map_pos>>
    BY <1>4 DEF Rebuild, iterVars, outVars
  <2>2. cur_map_pos = 0 /\ Len(mappings') \in Nat
    <3>1. MapListsOK'
      BY ListsStep
    <3>. QED  BY <2>1, <3>1, LenProperties DEF PhaseInv, MapListsOK
  <2>3. cur_map_pos' \in 0 .. Len(mappings')
    BY <2>1, <2>2
  <2>. QED  BY <2>1, <2>3 DEF IterType
<1>5. CASE RebuildDone
  BY <1>5 DEF RebuildDone, mapVars, iterVars, outVars, IterType
<1>6. ASSUME NEW o \in {"read", "write"}, NEW list \in ElementLists, StartOp(o, list)
      PROVE  IterType'
  <2>1. /\ op' = o /\ data' = list /\ elem' = 1 /\ addr' = list[1].addr /\ cur_map_pos' = 0
        /\ mapPhase' \in {"ready", "iterate"} /\ result' \in {"none", "err"}
        /\ UNCHANGED <<kind, mappings, increasing>>
    BY <1>6 DEF StartOp, mapVars
  <2>2. /\ list \in Seq(Elements) /\ 1 \in DOMAIN list
        /\ list[1].addr \in Nat /\ list[1].len \in Nat \ {0}
    BY ListOfElements
  <2>3. /\ elem' \in DOMAIN data' /\ data'[elem'].addr <= addr' /\ addr' < ElemEnd'
    BY <2>1, <2>2 DEF ElemEnd
  <2>4. cur_map_pos' \in 0 .. Len(mappings') /\ elem' \in Nat
    BY <1>0, <2>1
  <2>. QED  BY <2>1, <2>2, <2>3, <2>4 DEF IterType
<1>7. CASE Iterate
  BY <1>7, IterateType
<1>8. CASE UNCHANGED memoryMapVars
  BY <1>8 DEF memoryMapVars, mapVars, iterVars, outVars, IterType, ElemEnd
<1>. QED  BY <1>1, <1>2, <1>3, <1>4, <1>5, <1>6, <1>7, <1>8 DEF MapNext

LEMMA PhaseStep ==
  ASSUME IterType, PhaseInv, [MapNext]_memoryMapVars
  PROVE  PhaseInv'
<1>1. ASSUME NEW r \in Regions, Push(r)
      PROVE  PhaseInv'
  BY <1>1 DEF Push, iterVars, outVars, PhaseInv
<1>2. CASE OpenFileIO
  BY <1>2 DEF OpenFileIO, mapVars, iterVars, outVars, PhaseInv
<1>3. ASSUME NEW k \in {"mapped", "readonly"}, NEW len \in Limits, OpenMapped(k, len)
      PROVE  PhaseInv'
  BY <1>3 DEF OpenMapped, iterVars, outVars, PhaseInv
<1>4. CASE Rebuild
  <2>1. /\ mapPhase = "rebuild" /\ mapPhase' \in {"rebuild", "refused", "panicked"}
        /\ UNCHANGED <<kind, given, data, served, fails, cur_map_pos, result>>
    BY <1>4 DEF Rebuild, iterVars, outVars
  <2>. QED  BY <2>1 DEF PhaseInv
<1>5. CASE RebuildDone
  BY <1>5 DEF RebuildDone, mapVars, iterVars, outVars, PhaseInv
<1>6. ASSUME NEW o, NEW list, StartOp(o, list)
      PROVE  PhaseInv'
  <2>1. /\ mapPhase = "ready" /\ UNCHANGED <<kind, given, moved>>
        /\ mapPhase' = "ready" \/ (mapPhase' = "iterate" /\ result' = "none")
    BY <1>6 DEF StartOp, mapVars
  <2>. QED  BY <2>1 DEF PhaseInv
<1>7. CASE Iterate
  <2>1. /\ mapPhase = "iterate" /\ UNCHANGED <<kind, given, moved>>
        /\ mapPhase' = "ready" \/ (mapPhase' = "iterate" /\ result' = result)
    BY <1>7 DEF Iterate, NotFound, FoundBehind, Transfer, TransferFails, Iterating, NextElement,
                KeepRest, mapVars
  <2>. QED  BY <2>1 DEF PhaseInv
<1>8. CASE UNCHANGED memoryMapVars
  BY <1>8 DEF memoryMapVars, mapVars, iterVars, outVars, PhaseInv
<1>. QED  BY <1>1, <1>2, <1>3, <1>4, <1>5, <1>6, <1>7, <1>8 DEF MapNext

-----------------------------------------------------------------------------
(* The pieces                                                              *)

\* What one round of get_next rejects, from where the iterator is to mid.
Rejected(mid) == [id |-> elem, from |-> addr, to |-> mid]
Adds(mid) ==
  /\ fails' \subseteq fails \cup {Rejected(mid)}
  /\ addr < mid => Rejected(mid) \in fails'
  /\ fails \subseteq fails'

PieceOf(i, to) == [id |-> elem, from |-> PieceFrom(i), to |-> to, real |-> RealOf(i, PieceFrom(i))]

LEMMA IterateSteps ==
  ASSUME MapListsOK, IterType, Iterate
  PROVE  /\ mapPhase = "iterate" /\ UNCHANGED <<kind, mappings, op, data>>
         /\ \/ \E skip \in SkipTo :
                 /\ \A i \in DOMAIN mappings : ~Found(i, skip)
                 /\ NextElement /\ UNCHANGED <<served, fails>>
            \/ \E skip \in SkipTo : \E i \in DOMAIN mappings :
                 /\ Found(i, skip) /\ mappings[i].base >= ElemEnd
                 /\ Adds(ElemEnd) /\ NextElement /\ UNCHANGED served
            \/ \E skip \in SkipTo : \E i \in DOMAIN mappings :
                 /\ Found(i, skip) /\ mappings[i].base < ElemEnd
                 /\ Adds(PieceFrom(i))
                 /\ \E to \in TransferEnds(i) : served' = served \cup {PieceOf(i, to)}
                 /\ KeepRest(i, PieceTo(i))
            \/ \E skip \in SkipTo : \E i \in DOMAIN mappings :
                 /\ Found(i, skip) /\ mappings[i].base < ElemEnd
                 /\ Adds(PieceFrom(i)) /\ UNCHANGED served
                 /\ mapPhase' = "ready" /\ result' = "err"
<1>1. ASSUME NEW to, Reject(to)
      PROVE  Adds(to)
  BY <1>1 DEF Reject, Adds, Rejected
<1>. QED  BY <1>1 DEF Iterate, NotFound, FoundBehind, Transfer, TransferFails, Iterating, mapVars,
                      PieceOf


Pieces == [id : Nat, from : Nat, to : Nat, real : Nat]

\* New pieces lie between where the iterator was and where it goes on.
LEMMA PiecesAdded ==
  ASSUME MapListsOK, IterType, PieceTypes, PiecesInv, PiecesApart, mapPhase = "iterate",
         data' = data, addr' \in Nat, NEW mid \in Nat, NEW end \in Nat, NEW p \in Pieces,
         addr <= mid, mid <= p.from, p.from <= p.to, p.to <= end, p.id = elem,
         served' \in {served, served \cup {p}}, fails' \subseteq fails \cup {Rejected(mid)},
         mapPhase' = "iterate" => elem' = elem + 1 \/ (elem' = elem /\ end <= addr')
  PROVE  PieceTypes' /\ PiecesInv' /\ PiecesApart'
<1>0. addr \in Nat /\ elem \in Nat /\ elem \in DOMAIN data
  BY HereOK DEF IterType
<1> DEFINE q == Rejected(mid)
<1>1. q \in [id : Nat, from : Nat, to : Nat] /\ q.id = elem /\ q.from = addr /\ q.to = mid
  BY <1>0 DEF Rejected
<1>2. p.id \in Nat /\ p.from \in Nat /\ p.to \in Nat
  BY DEF Pieces
<1>3. PieceTypes'
  BY <1>1 DEF PieceTypes, Pieces
<1>4. \A s \in served \cup fails :
        /\ s.id \in Nat /\ s.from \in Nat /\ s.to \in Nat /\ s.id \in DOMAIN data /\ s.from <= s.to
        /\ s.id < elem \/ (s.id = elem /\ s.to <= addr)
  <2>1. \A s \in served : s.id \in Nat /\ s.from \in Nat /\ s.to \in Nat
    BY DEF PieceTypes
  <2>2. \A s \in fails : s.id \in Nat /\ s.from \in Nat /\ s.to \in Nat
    BY DEF PieceTypes
  <2>. QED  BY <2>1, <2>2 DEF PiecesInv, Before
<1> HIDE DEF q
<1>5. served' \subseteq served \cup {p} /\ fails' \subseteq fails \cup {q}
  BY DEF q
<1>6. PiecesInv'
  <2> SUFFICES ASSUME NEW s \in served' \cup fails'
               PROVE  /\ s.id \in DOMAIN data /\ s.from <= s.to
                      /\ mapPhase' = "iterate" => s.id < elem' \/ (s.id = elem' /\ s.to <= addr')
    BY DEF PiecesInv, Before
  <2>1. s \in served \cup fails \/ s = p \/ s = q
    BY <1>5
  <2>2. /\ s.id \in Nat /\ s.to \in Nat /\ s.id \in DOMAIN data /\ s.from <= s.to
        /\ s.id < elem \/ (s.id = elem /\ s.to <= end)
    <3>1. CASE s \in served \cup fails
      BY <1>0, <1>2, <1>4, <3>1
    <3>2. CASE s = p
      BY <1>0, <1>2, <3>2
    <3>3. CASE s = q
      BY <1>0, <1>1, <1>2, <3>3
    <3>. QED  BY <2>1, <3>1, <3>2, <3>3
  <2>3. ASSUME mapPhase' = "iterate"
        PROVE  s.id < elem' \/ (s.id = elem' /\ s.to <= addr')
    <3>1. CASE elem' = elem + 1
      BY <1>0, <2>2, <3>1
    <3>2. CASE elem' = elem /\ end <= addr'
      BY <1>0, <2>2, <3>2
    <3>. QED  BY <2>3, <3>1, <3>2
  <2>. QED  BY <2>2, <2>3
<1>7. Apart(p, q) /\ \A s \in served \cup fails : Apart(s, p) /\ Apart(p, s) /\ Apart(s, q) /\ Apart(q, s)
  <2>1. Apart(p, q)
    BY <1>1 DEF Apart
  <2>2. ASSUME NEW s \in served \cup fails
        PROVE  Apart(s, p) /\ Apart(p, s) /\ Apart(s, q) /\ Apart(q, s)
    BY <1>0, <1>1, <1>2, <1>4 DEF Apart
  <2>. QED  BY <2>1, <2>2
<1>8. PiecesApart'
  BY <1>5, <1>7 DEF PiecesApart
<1>. QED  BY <1>3, <1>6, <1>8


\* A step that leaves the pieces alone, or begins with none.
LEMMA PiecesKept ==
  ASSUME PieceTypes, PiecesInv, PiecesApart,
         \/ served' = {} /\ fails' = {}
         \/ UNCHANGED <<data, served, fails, elem, addr, mapPhase>>
  PROVE  PieceTypes' /\ PiecesInv' /\ PiecesApart'
<1>1. CASE served' = {} /\ fails' = {}
  BY <1>1 DEF PieceTypes, PiecesInv, PiecesApart
<1>2. CASE UNCHANGED <<data, served, fails, elem, addr, mapPhase>>
  BY <1>2 DEF PieceTypes, PiecesInv, PiecesApart, Before
<1>. QED  BY <1>1, <1>2

LEMMA PiecesIterate ==
  ASSUME MapListsOK, IterType, IterType', PieceTypes, PiecesInv, PiecesApart, Iterate
  PROVE  PieceTypes' /\ PiecesInv' /\ PiecesApart'
<1>0. /\ mapPhase = "iterate" /\ data' = data /\ addr' \in Nat
      /\ addr \in Nat /\ elem \in Nat /\ ElemEnd \in Nat /\ addr < ElemEnd
  BY IterateSteps, HereOK DEF IterType
<1> DEFINE At(a) == [id |-> elem, from |-> a, to |-> a, real |-> 0]
<1>1. \A a \in Nat : At(a) \in Pieces /\ At(a).id = elem /\ At(a).from = a /\ At(a).to = a
  BY <1>0 DEF Pieces
<1> HIDE DEF At
<1>2. ASSUME NEW mid \in Nat, addr <= mid, served' = served, fails' \subseteq fails \cup {Rejected(mid)},
             mapPhase' = "iterate" => elem' = elem + 1
      PROVE  PieceTypes' /\ PiecesInv' /\ PiecesApart'
  <2> DEFINE p == At(mid)
  <2>1. p \in Pieces /\ p.id = elem /\ p.from = mid /\ p.to = mid
    BY <1>1
  <2> HIDE DEF p
  <2>2. mid <= p.from /\ p.from <= p.to /\ p.to <= mid
    BY <2>1
  <2>. QED  BY <1>0, <1>2, <2>1, <2>2, PiecesAdded
<1>3. ASSUME NextElement
      PROVE  mapPhase' = "iterate" => elem' = elem + 1
  BY <1>3 DEF NextElement
<1>4. ASSUME NextElement, UNCHANGED <<served, fails>>
      PROVE  PieceTypes' /\ PiecesInv' /\ PiecesApart'
  BY <1>0, <1>2, <1>3, <1>4
<1>5. ASSUME NextElement, UNCHANGED served, Adds(ElemEnd)
      PROVE  PieceTypes' /\ PiecesInv' /\ PiecesApart'
  <2>1. addr <= ElemEnd
    BY <1>0
  <2>. QED  BY <1>0, <1>2, <1>3, <1>5, <2>1 DEF Adds
<1>6. ASSUME NEW skip, NEW i \in DOMAIN mappings, Found(i, skip), mappings[i].base < ElemEnd,
             Adds(PieceFrom(i)), NEW to \in TransferEnds(i), served' = served \cup {PieceOf(i, to)},
             KeepRest(i, PieceTo(i))
      PROVE  PieceTypes' /\ PiecesInv' /\ PiecesApart'
  <2> DEFINE p == PieceOf(i, to)
             mid == PieceFrom(i)
             end == PieceTo(i)
  <2>1. mid \in Nat /\ end \in Nat /\ addr <= mid /\ mid < end /\ mappings[i].base <= mid
        /\ mappings[i].base \in Nat /\ mappings[i].real \in Nat
    BY <1>0, <1>6, FoundOK
  <2>2. to \in Nat /\ mid <= to /\ to <= end
    BY <2>1 DEF TransferEnds
  <2>3. RealOf(i, mid) \in Nat
    <3> HIDE DEF mid
    <3>. QED  BY <2>1 DEF RealOf
  <2>4. p \in Pieces /\ p.id = elem /\ p.from = mid /\ p.to = to
    BY <1>0, <2>1, <2>2, <2>3 DEF PieceOf, Pieces
  <2>5. mapPhase' = "iterate" => elem' = elem + 1 \/ (elem' = elem /\ end <= addr')
    <3>1. mapPhase' = "iterate" => elem' = elem + 1 \/ (elem' = elem /\ end = addr')
      BY <1>6 DEF KeepRest, NextElement
    <3>. QED  BY <2>1, <3>1
  <2>6. served' = served \cup {p} /\ fails' \subseteq fails \cup {Rejected(mid)}
    BY <1>6 DEF Adds
  <2> HIDE DEF p, mid, end
  <2>7. mid <= p.from /\ p.from <= p.to /\ p.to <= end
    BY <2>1, <2>2, <2>4
  <2>. QED  BY <1>0, <2>1, <2>4, <2>5, <2>6, <2>7, PiecesAdded
<1>7. ASSUME NEW skip, NEW i \in DOMAIN mappings, Found(i, skip), mappings[i].base < ElemEnd,
             Adds(PieceFrom(i)), UNCHANGED served, mapPhase' = "ready"
      PROVE  PieceTypes' /\ PiecesInv' /\ PiecesApart'
  <2> DEFINE mid == PieceFrom(i)
  <2>1. mid \in Nat /\ addr <= mid
    BY <1>0, <1>7, FoundOK
  <2>2. fails' \subseteq fails \cup {Rejected(mid)}
    BY <1>7 DEF Adds
  <2> HIDE DEF mid
  <2>. QED  BY <1>2, <1>7, <2>1, <2>2
<1>. QED  BY <1>4, <1>5, <1>6, <1>7, IterateSteps

\* Only the iterator hands out pieces.
LEMMA NoPieces ==
  ASSUME PhaseInv, [MapNext]_memoryMapVars
  PROVE  \/ Iterate
         \/ UNCHANGED memoryMapVars
         \/ served' = {} /\ fails' = {}
<1>1. ASSUME NEW r \in Regions, Push(r)
      PROVE  served' = {} /\ fails' = {}
  BY <1>1 DEF Push, outVars, PhaseInv
<1>2. ASSUME OpenFileIO
      PROVE  served' = {} /\ fails' = {}
  BY <1>2 DEF OpenFileIO, outVars, PhaseInv
<1>3. ASSUME NEW k, NEW len, OpenMapped(k, len)
      PROVE  served' = {} /\ fails' = {}
  BY <1>3 DEF OpenMapped, outVars, PhaseInv
<1>4. ASSUME Rebuild \/ RebuildDone
      PROVE  served' = {} /\ fails' = {}
  BY <1>4 DEF Rebuild, RebuildDone, outVars, PhaseInv
<1>5. ASSUME NEW o, NEW list, StartOp(o, list)
      PROVE  served' = {} /\ fails' = {}
  BY <1>5 DEF StartOp
<1>. QED  BY <1>1, <1>2, <1>3, <1>4, <1>5 DEF MapNext

LEMMA PiecesStep ==
  ASSUME MapListsOK, IterType, IterType', PhaseInv, PieceTypes, PiecesInv, PiecesApart,
         [MapNext]_memoryMapVars
  PROVE  PieceTypes' /\ PiecesInv' /\ PiecesApart'
<1>1. CASE Iterate
  BY <1>1, PiecesIterate
<1>2. CASE UNCHANGED memoryMapVars
  BY <1>2, PiecesKept DEF memoryMapVars, iterVars, outVars
<1>3. CASE served' = {} /\ fails' = {}
  BY <1>3, PiecesKept
<1>. QED  BY <1>1, <1>2, <1>3, NoPieces

\* What is transferred for an element is of the region that was found.
LEMMA RightStep ==
  ASSUME MapListsOK, IterType, PhaseInv, PiecesRight, [MapNext]_memoryMapVars
  PROVE  PiecesRight'
<1>1. CASE served' = {}
  BY <1>1 DEF PiecesRight
<1>2. CASE UNCHANGED <<served, data, mappings>>
  BY <1>2 DEF PiecesRight
<1>3. ASSUME NEW skip, NEW i \in DOMAIN mappings, mapPhase = "iterate", Found(i, skip),
             mappings[i].base < ElemEnd, UNCHANGED <<data, mappings>>,
             NEW to \in TransferEnds(i), served' = served \cup {PieceOf(i, to)}
      PROVE  PiecesRight'
  <2> DEFINE p == PieceOf(i, to)
             mid == PieceFrom(i)
             end == PieceTo(i)
  <2>1. /\ mid \in Nat /\ end \in Nat /\ addr <= mid /\ mid < end /\ mappings[i].base <= mid
        /\ mappings[i].base \in Nat /\ mappings[i].real \in Nat
        /\ end <= ElemEnd /\ end <= End(mappings[i]) /\ End(mappings[i]) \in Nat
    BY <1>3, FoundOK
  <2>2. to \in Nat /\ mid <= to /\ to <= end
    BY <2>1 DEF TransferEnds
  <2>3. p.id = elem /\ p.from = mid /\ p.to = to /\ p.real = RealOf(i, mid)
    BY DEF PieceOf
  <2>4. ElemEnd \in Nat /\ data[elem].addr \in Nat /\ data[elem].addr <= addr /\ addr \in Nat
    BY <1>3, HereOK
  <2> HIDE DEF p, mid, end
  <2>5. data[elem].addr <= p.from /\ p.to <= ElemEnd
    BY <2>1, <2>2, <2>3, <2>4
  <2>6. mappings[i].base <= p.from /\ p.to <= End(mappings[i])
    BY <2>1, <2>2, <2>3
  <2>7. p.real - p.from = mappings[i].real - mappings[i].base
    BY <2>1, <2>3 DEF RealOf
  <2>8. served' = served \cup {p}
    BY <1>3 DEF p
  <2> SUFFICES ASSUME NEW s \in served'
               PROVE  /\ data[s.id].addr <= s.from /\ s.to <= data[s.id].addr + data[s.id].len
                      /\ \E j \in DOMAIN mappings :
                           /\ mappings[j].base <= s.from /\ s.to <= End(mappings[j])
                           /\ s.real - s.from = mappings[j].real - mappings[j].base
    BY <1>3 DEF PiecesRight
  <2>9. CASE s \in served
    BY <2>9 DEF PiecesRight
  <2>10. CASE s = p
    BY <2>3, <2>5, <2>6, <2>7, <2>10 DEF ElemEnd
  <2>. QED  BY <2>8, <2>9, <2>10
<1>4. CASE Iterate
  BY <1>2, <1>3, <1>4, IterateSteps
<1>. QED  BY <1>1, <1>2, <1>4, NoPieces DEF memoryMapVars, mapVars, outVars



-----------------------------------------------------------------------------
(* An ordered map: every byte is handed out or reported                    *)

\* The regions that end at or below an address are the first ones.
LEMMA OrderedPrefix ==
  ASSUME MapListsOK, Ordered(mappings), NEW a \in Nat
  PROVE  \E n \in 0 .. Len(mappings) : {i \in DOMAIN mappings : End(mappings[i]) <= a} = 1 .. n
<1> DEFINE B == {i \in DOMAIN mappings : End(mappings[i]) <= a}
           T == {i \in DOMAIN mappings : ~(End(mappings[i]) <= a)}
<1>1. Len(mappings) \in Nat /\ DOMAIN mappings = 1 .. Len(mappings)
  BY SeqIndex DEF MapListsOK
<1>2. \A i \in 1 .. Len(mappings) :
        /\ mappings[i].base \in Nat /\ End(mappings[i]) \in Nat /\ mappings[i].base < End(mappings[i])
  <2>1. \A i \in 1 .. Len(mappings) : mappings[i] \in Region
    BY SeqIndex DEF MapListsOK
  <2>. QED  BY <2>1, RegionOK
<1>3. CASE T = {}
  <2>1. B = 1 .. Len(mappings)
    BY <1>1, <1>3
  <2>. QED  BY <1>1, <2>1
<1>4. CASE T # {}
  <2>1. T \in SUBSET Nat
    BY <1>1
  <2>2. PICK m \in T : \A n \in T : m <= n
    <3> HIDE DEF T
    <3>. QED  BY <1>4, <2>1, NatLeast
  <2>3. m \in 1 .. Len(mappings) /\ ~(End(mappings[m]) <= a)
    BY <1>1, <2>2
  <2>4. ASSUME NEW j \in 1 .. Len(mappings), m <= j
        PROVE  j \notin B
    <3>1. CASE j = m
      BY <2>3, <3>1
    <3>2. CASE j # m
      <4>1. m < j
        BY <1>1, <2>3, <2>4, <3>2
      <4>2. End(mappings[m]) <= mappings[j].base
        BY <1>1, <2>3, <2>4, <4>1 DEF Ordered
      <4>. QED  BY <1>2, <2>3, <4>2
    <3>. QED  BY <3>1, <3>2
  <2>5. ASSUME NEW j \in 1 .. Len(mappings), ~(m <= j)
        PROVE  j \in B
    BY <1>1, <2>2, <2>5
  <2>6. B = 1 .. (m - 1)
    <3>1. B \subseteq 1 .. Len(mappings)
      BY <1>1
    <3> HIDE DEF B
    <3>2. ASSUME NEW j \in B
          PROVE  j \in 1 .. (m - 1)
      <4>1. j \in 1 .. Len(mappings) /\ ~(m <= j)
        BY <2>4, <3>1, <3>2
      <4>. QED  BY <1>1, <2>3, <4>1
    <3>3. ASSUME NEW j \in 1 .. (m - 1)
          PROVE  j \in B
      <4>1. j \in 1 .. Len(mappings) /\ ~(m <= j)
        BY <1>1, <2>3, <3>3
      <4>. QED  BY <2>5, <4>1
    <3>. QED  BY <3>2, <3>3
  <2>. QED  BY <1>1, <2>3, <2>6
<1>. QED  BY <1>3, <1>4

\* What the search skips, by binary search or from an earlier call, ends at
\* or below the address.
LEMMA SkippedBelow ==
  ASSUME MapListsOK, IterType, Ordered(mappings), NEW skip \in SkipTo,
         \A j \in 1 .. cur_map_pos : End(mappings[j]) <= addr
  PROVE  skip \in 0 .. Len(mappings) /\ \A j \in 1 .. skip : End(mappings[j]) <= addr
<1>1. CASE skip = cur_map_pos
  BY <1>1 DEF IterType
<1>2. CASE skip \in BinarySearch
  <2> DEFINE B == {i \in DOMAIN mappings : End(mappings[i]) <= addr}
  <2>1. PICK n \in 0 .. Len(mappings) : B = 1 .. n
    BY OrderedPrefix DEF IterType
  <2>2. Len(mappings) \in Nat
    BY LenProperties DEF MapListsOK
  <2>3. Cardinality(1 .. n) = n
    BY <2>2, FS_Interval
  <2>4. skip = Cardinality(B)
    BY <1>2 DEF BinarySearch
  <2>5. \A j \in B : End(mappings[j]) <= addr
    OBVIOUS
  <2> HIDE DEF B
  <2>. QED  BY <2>1, <2>3, <2>4, <2>5
<1>. QED  BY <1>1, <1>2 DEF SkipTo

\* Nothing found: no region reaches beyond the address.
LEMMA NothingAbove ==
  ASSUME MapListsOK, NEW skip \in 0 .. Len(mappings), \A j \in 1 .. skip : End(mappings[j]) <= addr,
         addr \in Nat, \A i \in DOMAIN mappings : ~Found(i, skip)
  PROVE  Size <= addr /\ \A a \in Nat : addr <= a => ~Holds(mappings, a)
<1> DEFINE T == {i \in DOMAIN mappings : i > skip /\ End(mappings[i]) > addr}
<1>1. Len(mappings) \in Nat /\ DOMAIN mappings = 1 .. Len(mappings)
  BY SeqIndex DEF MapListsOK
<1>2. \A i \in 1 .. Len(mappings) : mappings[i].base \in Nat /\ End(mappings[i]) \in Nat
  <2>1. \A i \in 1 .. Len(mappings) : mappings[i] \in Region
    BY SeqIndex DEF MapListsOK
  <2>. QED  BY <2>1, RegionOK
<1>3. T = {}
  <2> SUFFICES ASSUME T # {}
               PROVE  FALSE
    OBVIOUS
  <2>1. T \in SUBSET Nat
    BY <1>1
  <2>2. PICK m \in T : \A n \in T : m <= n
    <3> HIDE DEF T
    <3>. QED  BY <2>1, NatLeast
  <2>3. m \in DOMAIN mappings /\ m > skip /\ End(mappings[m]) > addr /\ m \in Nat
    BY <2>1, <2>2
  <2>4. ASSUME NEW j \in skip + 1 .. m - 1
        PROVE  End(mappings[j]) <= addr
    <3>1. j \in 1 .. Len(mappings) /\ j > skip /\ ~(m <= j)
      BY <1>1, <2>3
    <3>2. j \notin T
      BY <2>2, <3>1
    <3>. QED  BY <1>1, <1>2, <3>1, <3>2
  <2>. QED  BY <2>3, <2>4 DEF Found
<1>4. \A i \in 1 .. Len(mappings) : End(mappings[i]) <= addr
  <2> SUFFICES ASSUME NEW i \in 1 .. Len(mappings)
               PROVE  End(mappings[i]) <= addr
    OBVIOUS
  <2>1. CASE i > skip
    BY <1>1, <1>2, <1>3, <2>1
  <2>2. CASE ~(i > skip)
    BY <1>1, <2>2
  <2>. QED  BY <2>1, <2>2
<1>5. Size <= addr
  <2>1. CASE mappings = <<>>
    BY <2>1 DEF Size
  <2>2. CASE mappings # <<>>
    <3>1. Len(mappings) \in 1 .. Len(mappings)
      BY <1>1, <2>2, EmptySeq DEF MapListsOK
    <3>. QED  BY <1>4, <2>2, <3>1 DEF Size
  <2>. QED  BY <2>1, <2>2
<1>6. \A a \in Nat : addr <= a => ~Holds(mappings, a)
  BY <1>1, <1>2, <1>4 DEF Holds
<1>. QED  BY <1>5, <1>6

\* Region i found: below its base, from the address on, there is none.
LEMMA NothingBetween ==
  ASSUME MapListsOK, IterType, mapPhase = "iterate", Ordered(mappings),
         NEW skip \in 0 .. Len(mappings), \A j \in 1 .. skip : End(mappings[j]) <= addr,
         NEW i \in DOMAIN mappings, Found(i, skip)
  PROVE  /\ \A j \in 1 .. i - 1 : End(mappings[j]) <= addr
         /\ \A a \in Nat : addr <= a /\ a < mappings[i].base => ~Holds(mappings, a)
<1>1. Len(mappings) \in Nat /\ DOMAIN mappings = 1 .. Len(mappings) /\ addr \in Nat
  BY SeqIndex DEF MapListsOK, IterType
<1>2. \A j \in 1 .. Len(mappings) :
        mappings[j].base \in Nat /\ End(mappings[j]) \in Nat /\ mappings[j].base < End(mappings[j])
  <2>1. \A j \in 1 .. Len(mappings) : mappings[j] \in Region
    BY SeqIndex DEF MapListsOK
  <2>. QED  BY <2>1, RegionOK
<1>3. \A j \in 1 .. i - 1 : End(mappings[j]) <= addr
  <2> SUFFICES ASSUME NEW j \in 1 .. i - 1
               PROVE  End(mappings[j]) <= addr
    OBVIOUS
  <2>1. j \in 1 .. skip \/ j \in skip + 1 .. i - 1
    BY <1>1
  <2>. QED  BY <2>1 DEF Found
<1>4. ASSUME NEW a \in Nat, addr <= a, a < mappings[i].base, NEW j \in DOMAIN mappings,
             mappings[j].base <= a, a < End(mappings[j])
      PROVE  FALSE
  <2>1. CASE j < i
    <3>1. j \in 1 .. i - 1
      BY <1>1, <2>1
    <3>. QED  BY <1>1, <1>2, <1>3, <1>4, <3>1
  <2>2. CASE j = i
    BY <1>1, <1>2, <1>4, <2>2
  <2>3. CASE i < j
    <3>1. End(mappings[i]) <= mappings[j].base
      BY <2>3 DEF Ordered
    <3>. QED  BY <1>1, <1>2, <1>4, <3>1
  <2>. QED  BY <1>1, <2>1, <2>2, <2>3
<1>. QED  BY <1>3, <1>4 DEF Holds


\* What is exact stays so while pieces are only added.
LEMMA ExactKept ==
  ASSUME mappings' = mappings, served \subseteq served', fails \subseteq fails', NEW id, NEW a,
         Exact(id, a)
  PROVE  Exact(id, a)'
BY DEF Exact, Holds, Covers, Size

\* The iterator goes on from end, having dealt with everything up to there.
LEMMA ExactGoesOn ==
  ASSUME MapListsOK, IterType, PhaseInv, ExactInv, mapPhase = "iterate", Ordered(mappings),
         ~(kind = "fileio" /\ op = "write"), UNCHANGED <<mappings, data>>,
         served \subseteq served', fails \subseteq fails',
         NEW end \in Nat, NEW cur \in Nat, cur = elem, NEW here \in Nat, here = addr,
         NEW last \in Nat, last = ElemEnd, NEW i \in Nat,
         \A a \in here .. end - 1 : Exact(cur, a)',
         \/ end = last /\ NextElement
         \/ /\ addr' = end /\ elem' = elem /\ cur_map_pos' = i
            /\ UNCHANGED <<mapPhase, result>>
            /\ \A j \in 1 .. i : End(mappings[j]) <= end
  PROVE  ExactInv'
<1>0. /\ cur \in 1 .. Len(data) /\ Len(data) \in Nat /\ DOMAIN data = 1 .. Len(data)
      /\ data[cur].addr \in Nat /\ data[cur].addr <= here
      /\ last = data[cur].addr + data[cur].len /\ result = "none"
  BY HereOK, ElementOK DEF PhaseInv, ElemEnd
<1>1. /\ \A id \in 1 .. cur - 1 : ExactUpTo(id, data[id].addr + data[id].len)
      /\ ExactUpTo(cur, here)
  BY DEF ExactInv
<1>2. \A id \in 1 .. cur - 1 : ExactUpTo(id, data[id].addr + data[id].len)'
  <2> SUFFICES ASSUME NEW id \in 1 .. cur - 1,
                      NEW a \in data[id].addr .. (data[id].addr + data[id].len) - 1
               PROVE  Exact(id, a)'
    BY DEF ExactUpTo
  <2>1. Exact(id, a)
    BY <1>1 DEF ExactUpTo
  <2>. QED  BY <2>1, ExactKept
<1>3. ExactUpTo(cur, end)'
  <2> SUFFICES ASSUME NEW a \in data[cur].addr .. end - 1
               PROVE  Exact(cur, a)'
    BY DEF ExactUpTo
  <2>1. a \in here .. end - 1 \/ a \in data[cur].addr .. here - 1
    BY <1>0
  <2>2. CASE a \in data[cur].addr .. here - 1
    <3>1. Exact(cur, a)
      BY <1>1, <2>2 DEF ExactUpTo
    <3>. QED  BY <3>1, ExactKept
  <2>. QED  BY <2>1, <2>2
<1>4. ASSUME end = last
      PROVE  \A id \in 1 .. cur : ExactUpTo(id, data[id].addr + data[id].len)'
  <2> SUFFICES ASSUME NEW id \in 1 .. cur
               PROVE  ExactUpTo(id, data[id].addr + data[id].len)'
    OBVIOUS
  <2>1. CASE id = cur
    BY <1>0, <1>3, <1>4, <2>1
  <2>2. CASE id \in 1 .. cur - 1
    BY <1>2, <2>2
  <2>. QED  BY <2>1, <2>2
<1>5. CASE end = last /\ NextElement /\ elem < Len(data)
  <2>1. /\ elem' = cur + 1 /\ addr' = data[elem'].addr /\ cur_map_pos' = 0 /\ result' = "none"
    BY <1>0, <1>5 DEF NextElement
  <2>2. \A id \in 1 .. elem' - 1 : ExactUpTo(id, data[id].addr + data[id].len)'
    BY <1>4, <1>5, <2>1
  <2>3. ExactUpTo(elem, addr)'
    <3>1. elem' \in DOMAIN data
      BY <1>0, <1>5, <2>1
    <3>2. data[elem'].addr \in Nat
      BY <3>1, ElementOK
    <3>3. data'[elem'].addr .. addr' - 1 = {}
      BY <2>1, <3>2
    <3>. QED  BY <3>3 DEF ExactUpTo
  <2>4. \A j \in 1 .. cur_map_pos' : End(mappings'[j]) <= addr'
    BY <2>1
  <2>. QED  BY <2>1, <2>2, <2>3, <2>4 DEF ExactInv
<1>6. CASE end = last /\ NextElement /\ ~(elem < Len(data))
  <2>1. mapPhase' = "ready" /\ cur = Len(data)
    BY <1>0, <1>6 DEF NextElement
  <2>2. \A id \in DOMAIN data : ExactUpTo(id, data[id].addr + data[id].len)'
    BY <1>0, <1>4, <1>6, <2>1
  <2>. QED  BY <2>1, <2>2 DEF ExactInv
<1>7. CASE /\ addr' = end /\ elem' = elem /\ cur_map_pos' = i
           /\ UNCHANGED <<mapPhase, result>>
           /\ \A j \in 1 .. i : End(mappings[j]) <= end
  <2>1. ExactUpTo(elem, addr)'
    BY <1>3, <1>7 DEF ExactUpTo
  <2>2. \A id \in 1 .. elem' - 1 : ExactUpTo(id, data[id].addr + data[id].len)'
    BY <1>2, <1>7
  <2>3. \A j \in 1 .. cur_map_pos' : End(mappings'[j]) <= addr'
    BY <1>7
  <2>4. result' # "ok"
    BY <1>0, <1>7
  <2>. QED  BY <2>1, <2>2, <2>3, <2>4 DEF ExactInv
<1>. QED  BY <1>5, <1>6, <1>7


LEMMA ExactIterate ==
  ASSUME MapListsOK, IterType, PhaseInv, ExactInv, Iterate
  PROVE  ExactInv'
<1>0. /\ mapPhase = "iterate" /\ UNCHANGED <<kind, mappings, op, data>>
      /\ addr \in Nat /\ elem \in Nat /\ ElemEnd \in Nat /\ addr < ElemEnd
      /\ elem \in 1 .. Len(data)
  BY IterateSteps, HereOK DEF IterType
<1>1. CASE ~(Ordered(mappings) /\ ~(kind = "fileio" /\ op = "write"))
  BY <1>0, <1>1 DEF ExactInv
<1> SUFFICES ASSUME Ordered(mappings), ~(kind = "fileio" /\ op = "write")
             PROVE  ExactInv'
  BY <1>1
<1>2. \A j \in 1 .. cur_map_pos : End(mappings[j]) <= addr
  BY <1>0 DEF ExactInv
<1>3. PICK cur \in Nat, here \in Nat, last \in Nat :
        cur = elem /\ here = addr /\ last = ElemEnd /\ here < last
  BY <1>0
<1>4. ASSUME NEW skip \in SkipTo, \A i \in DOMAIN mappings : ~Found(i, skip),
             NextElement, UNCHANGED <<served, fails>>
      PROVE  ExactInv'
  <2>1. skip \in 0 .. Len(mappings) /\ \A j \in 1 .. skip : End(mappings[j]) <= addr
    BY <1>2, SkippedBelow
  <2>2. Size <= here /\ \A a \in Nat : here <= a => ~Holds(mappings, a)
    BY <1>3, <1>4, <2>1, NothingAbove
  <2>3. Size \in Nat
    <3>1. \A i \in 1 .. Len(mappings) : mappings[i] \in Region
      BY SeqIndex DEF MapListsOK
    <3>2. mappings # <<>> => Len(mappings) \in 1 .. Len(mappings)
      BY EmptySeq, LenProperties DEF MapListsOK
    <3>. QED  BY <3>1, <3>2, RegionOK DEF Size
  <2>4. Size' = Size /\ \A a \in Nat : Holds(mappings, a)' <=> Holds(mappings, a)
    BY <1>0 DEF Size, Holds
  <2>5. \A a \in here .. last - 1 : Exact(cur, a)'
    BY <1>3, <2>2, <2>3, <2>4 DEF Exact
  <2>. QED  BY <1>0, <1>3, <1>4, <2>5, ExactGoesOn
<1>5. ASSUME NEW skip \in SkipTo, NEW i \in DOMAIN mappings, Found(i, skip),
             NEW mid \in Nat, mid <= mappings[i].base \/ mid = here, Adds(mid)
      PROVE  \A a \in here .. mid - 1 : Exact(cur, a)'
  <2> SUFFICES ASSUME NEW a \in here .. mid - 1
               PROVE  Exact(cur, a)'
    OBVIOUS
  <2>1. skip \in 0 .. Len(mappings) /\ \A j \in 1 .. skip : End(mappings[j]) <= addr
    BY <1>2, SkippedBelow
  <2>2. mappings[i].base \in Nat
    BY <1>0, <1>5, FoundOK
  <2>3. a \in Nat /\ here <= a /\ a < mappings[i].base /\ here < mid /\ a < mid
    BY <1>3, <1>5, <2>2
  <2>4. ~Holds(mappings, a)
    BY <1>0, <1>3, <1>5, <2>1, <2>3, NothingBetween
  <2>5. Covers(fails', cur, a)
    <3>1. Rejected(mid) \in fails'
      BY <1>3, <1>5, <2>3 DEF Adds
    <3>2. Rejected(mid).id = cur /\ Rejected(mid).from = here /\ Rejected(mid).to = mid
      BY <1>3 DEF Rejected
    <3>. QED  BY <2>3, <3>1, <3>2 DEF Covers
  <2>. QED  BY <1>0, <2>4, <2>5 DEF Exact, Holds, Covers
<1>6. ASSUME NEW skip \in SkipTo, NEW i \in DOMAIN mappings, Found(i, skip), mappings[i].base >= ElemEnd,
             Adds(ElemEnd), NextElement, UNCHANGED served
      PROVE  ExactInv'
  <2>1. last <= mappings[i].base
    <3>1. mappings[i].base \in Nat
      BY <1>0, <1>6, FoundOK
    <3>. QED  BY <1>3, <1>6, <3>1
  <2>2. \A a \in here .. last - 1 : Exact(cur, a)'
    BY <1>3, <1>5, <1>6, <2>1
  <2>. QED  BY <1>0, <1>3, <1>6, <2>2, ExactGoesOn DEF Adds
<1>7. ASSUME NEW skip \in SkipTo, NEW i \in DOMAIN mappings, Found(i, skip), mappings[i].base < ElemEnd,
             Adds(PieceFrom(i)), NEW to \in TransferEnds(i), served' = served \cup {PieceOf(i, to)},
             KeepRest(i, PieceTo(i))
      PROVE  ExactInv'
  <2> DEFINE p == PieceOf(i, to)
             mid == PieceFrom(i)
             end == PieceTo(i)
  <2>1. /\ mid \in Nat /\ end \in Nat /\ here <= mid /\ mid < end /\ mappings[i].base <= mid
        /\ mappings[i].base \in Nat /\ End(mappings[i]) \in Nat
        /\ mid = here \/ mid = mappings[i].base
        /\ end <= last /\ end <= End(mappings[i]) /\ (end < last => end = End(mappings[i]))
        /\ i \in 1 .. Len(mappings) /\ Len(mappings) \in Nat
    BY <1>0, <1>3, <1>7, FoundOK
  <2>2. to = end
    BY DEF TransferEnds
  <2>3. p.id = cur /\ p.from = mid /\ p.to = end
    BY <1>3, <2>2 DEF PieceOf
  <2>4. p \in served' /\ served \subseteq served' /\ fails \subseteq fails' /\ Adds(mid)
    BY <1>7 DEF Adds
  <2>5. end < last => addr' = end /\ elem' = elem /\ cur_map_pos' = i /\ UNCHANGED <<mapPhase, result>>
    BY <1>3, <1>7 DEF KeepRest
  <2>6. ~(end < last) => NextElement
    BY <1>3, <1>7 DEF KeepRest
  <2> HIDE DEF p, mid, end
  <2>7. \A a \in here .. mid - 1 : Exact(cur, a)'
    BY <1>5, <1>7, <2>1, <2>4
  <2>8. \A a \in mid .. end - 1 : Exact(cur, a)'
    <3> SUFFICES ASSUME NEW a \in mid .. end - 1
                 PROVE  Exact(cur, a)'
      OBVIOUS
    <3>1. mappings[i].base <= a /\ a < End(mappings[i]) /\ mid <= a /\ a < end
      BY <2>1
    <3>2. Holds(mappings', a)
      BY <1>0, <3>1 DEF Holds
    <3>3. Covers(served', cur, a)
      BY <2>3, <2>4, <3>1 DEF Covers
    <3>. QED  BY <3>2, <3>3 DEF Exact, Holds, Covers
  <2>9. \A a \in here .. end - 1 : Exact(cur, a)'
    <3> SUFFICES ASSUME NEW a \in here .. end - 1
                 PROVE  Exact(cur, a)'
      OBVIOUS
    <3>1. a \in here .. mid - 1 \/ a \in mid .. end - 1
      BY <1>3, <2>1
    <3>. QED  BY <2>7, <2>8, <3>1
  <2>10. CASE ~(end < last)
    <3>1. end = last /\ NextElement
      BY <1>3, <2>1, <2>6, <2>10
    <3>. QED  BY <1>0, <1>3, <2>1, <2>4, <2>9, <3>1, ExactGoesOn
  <2>11. CASE end < last
    <3>1. \A j \in 1 .. i : End(mappings[j]) <= end
      <4>1. skip \in 0 .. Len(mappings) /\ \A j \in 1 .. skip : End(mappings[j]) <= addr
        BY <1>2, SkippedBelow
      <4>2. \A j \in 1 .. i - 1 : End(mappings[j]) <= here
        BY <1>0, <1>3, <1>7, <4>1, NothingBetween
      <4>3. \A j \in 1 .. Len(mappings) : End(mappings[j]) \in Nat
        <5>1. \A j \in 1 .. Len(mappings) : mappings[j] \in Region
          BY SeqIndex DEF MapListsOK
        <5>. QED  BY <5>1, RegionOK
      <4> SUFFICES ASSUME NEW j \in 1 .. i
                   PROVE  End(mappings[j]) <= end
        OBVIOUS
      <4>4. j \in 1 .. i - 1 \/ j = i
        BY <2>1
      <4>5. CASE j = i
        BY <2>1, <2>11, <4>5
      <4>6. CASE j \in 1 .. i - 1
        <5>1. End(mappings[j]) <= here /\ End(mappings[j]) \in Nat
          BY <2>1, <4>2, <4>3, <4>6
        <5>. QED  BY <1>3, <2>1, <5>1
      <4>. QED  BY <4>4, <4>5, <4>6
    <3>2. i \in Nat
      BY <2>1
    <3>. QED  BY <1>0, <1>3, <2>1, <2>4, <2>5, <2>9, <2>11, <3>1, <3>2, ExactGoesOn
  <2>. QED  BY <2>10, <2>11
<1>8. ASSUME mapPhase' = "ready", result' = "err"
      PROVE  ExactInv'
  BY <1>8 DEF ExactInv
<1>. QED  BY <1>4, <1>6, <1>7, <1>8, IterateSteps

LEMMA ExactStep ==
  ASSUME MapListsOK, IterType, PhaseInv, ExactInv, [MapNext]_memoryMapVars
  PROVE  ExactInv'
<1>1. CASE mapPhase' # "iterate" /\ result' # "ok"
  BY <1>1 DEF ExactInv
<1>2. ASSUME NEW r, Push(r)
      PROVE  mapPhase' # "iterate" /\ result' # "ok"
  BY <1>2 DEF Push, PhaseInv
<1>3. ASSUME OpenFileIO
      PROVE  mapPhase' # "iterate" /\ result' # "ok"
  BY <1>3 DEF OpenFileIO, PhaseInv
<1>4. ASSUME NEW k, NEW len, OpenMapped(k, len)
      PROVE  mapPhase' # "iterate" /\ result' # "ok"
  BY <1>4 DEF OpenMapped, PhaseInv
<1>5. ASSUME Rebuild \/ RebuildDone
      PROVE  mapPhase' # "iterate" /\ result' # "ok"
  BY <1>5 DEF Rebuild, RebuildDone, PhaseInv
<1>6. ASSUME NEW o \in {"read", "write"}, NEW list \in ElementLists, StartOp(o, list)
      PROVE  ExactInv'
  <2>1. /\ elem' = 1 /\ addr' = data'[1].addr /\ cur_map_pos' = 0 /\ result' # "ok" /\ data' = list
    BY <1>6 DEF StartOp
  <2>2. data'[1].addr \in Nat
    BY <2>1, ListOfElements
  <2>3. /\ 1 .. elem' - 1 = {} /\ data'[elem'].addr .. addr' - 1 = {} /\ 1 .. cur_map_pos' = {}
    BY <2>1, <2>2
  <2>. QED  BY <2>1, <2>3 DEF ExactInv, ExactUpTo
<1>7. CASE Iterate
  BY <1>7, ExactIterate
<1>8. CASE UNCHANGED memoryMapVars
  BY <1>8 DEF memoryMapVars, mapVars, iterVars, outVars, ExactInv, ExactUpTo, Exact, Size
<1>. QED  BY <1>1, <1>2, <1>3, <1>4, <1>5, <1>6, <1>7, <1>8 DEF MapNext



-----------------------------------------------------------------------------
(* The theorems                                                            *)

\* The inductive invariant: types, phases, pieces, order and exactness.
MapInv ==
  /\ MapListsOK /\ IterType /\ PhaseInv
  /\ PieceTypes /\ PiecesInv /\ PiecesApart /\ PiecesRight
  /\ OrderInv /\ ExactInv

LEMMA MapInitOK == MapInit => MapInv
<1> SUFFICES ASSUME MapInit
             PROVE  MapInv
  OBVIOUS
<1>1. MapListsOK /\ PhaseInv
  BY DEF MapInit, MapListsOK, PhaseInv
<1>2. IterType
  BY DEF MapInit, IterType
<1>3. PieceTypes /\ PiecesInv /\ PiecesApart /\ PiecesRight
  BY DEF MapInit, PieceTypes, PiecesInv, PiecesApart, PiecesRight
<1>4. OrderInv
  <2>1. kind = "none" /\ mappings = <<>> /\ given = <<>> /\ Len(<<>>) = 0 /\ DOMAIN <<>> = {}
    BY DEF MapInit
  <2>2. PushOrder(mappings) /\ PushOrder(given) /\ Ordered(mappings) /\ Ordered(given)
    BY <2>1 DEF PushOrder, Ordered
  <2>. QED  BY <2>1, <2>2 DEF OrderInv, IncreasingOrdered, RebuildSame
<1>5. ExactInv
  BY DEF MapInit, ExactInv
<1>. QED  BY <1>1, <1>2, <1>3, <1>4, <1>5 DEF MapInv

LEMMA MapNextOK == MapInv /\ [MapNext]_memoryMapVars => MapInv'
<1> SUFFICES ASSUME MapInv, [MapNext]_memoryMapVars
             PROVE  MapInv'
  OBVIOUS
<1> USE DEF MapInv
<1>1. MapListsOK'
  BY ListsStep
<1>2. IterType'
  BY IterTypeStep
<1>3. PhaseInv'
  BY PhaseStep
<1>4. PieceTypes' /\ PiecesInv' /\ PiecesApart'
  BY <1>2, PiecesStep
<1>5. PiecesRight'
  BY RightStep
<1>6. OrderInv'
  BY OrderStep
<1>7. ExactInv'
  BY ExactStep
<1>. QED  BY <1>1, <1>2, <1>3, <1>4, <1>5, <1>6, <1>7

\* A byte that was transferred is one that a region holds.
LEMMA ExactEnd ==
  ASSUME MapInv
  PROVE  OrderedExact
<1> SUFFICES ASSUME result = "ok", Ordered(mappings), ~(kind = "fileio" /\ op = "write"),
                    NEW id \in DOMAIN data,
                    NEW a \in data[id].addr .. data[id].addr + data[id].len - 1
             PROVE  /\ Holds(mappings, a) <=> Covers(served, id, a)
                    /\ ~Holds(mappings, a) /\ a < Size => Covers(fails, id, a)
  BY DEF OrderedExact
<1>1. Exact(id, a)
  <2>1. ExactUpTo(id, data[id].addr + data[id].len)
    BY DEF MapInv, ExactInv
  <2>2. data[id].addr \in Nat /\ data[id].len \in Nat
    BY ElementOK DEF MapInv
  <2>3. a \in data[id].addr .. (data[id].addr + data[id].len) - 1
    BY <2>2
  <2>. QED  BY <2>1, <2>3 DEF ExactUpTo
<1>2. ASSUME Covers(served, id, a)
      PROVE  Holds(mappings, a)
  <2>1. PICK s \in served : s.from <= a /\ a < s.to
    BY <1>2 DEF Covers
  <2>2. PICK i \in DOMAIN mappings : mappings[i].base <= s.from /\ s.to <= End(mappings[i])
    BY <2>1 DEF MapInv, PiecesRight
  <2>3. s.from \in Nat /\ s.to \in Nat
    BY <2>1 DEF MapInv, PieceTypes
  <2>4. mappings[i].base \in Nat /\ End(mappings[i]) \in Nat
    <3>1. mappings[i] \in Region
      BY <2>2, SeqIndex DEF MapInv, MapListsOK
    <3>. QED  BY <3>1, RegionOK
  <2>5. a \in Int
    <3>1. data[id].addr \in Nat
      BY ElementOK DEF MapInv
    <3>2. data[id].len \in Nat
      BY ElementOK DEF MapInv
    <3>. QED  BY <3>1, <3>2
  <2>6. mappings[i].base <= a /\ a < End(mappings[i])
    BY <2>1, <2>2, <2>3, <2>4, <2>5
  <2>. QED  BY <2>2, <2>6 DEF Holds
<1>. QED  BY <1>1, <1>2 DEF Exact

\* The state of a map and of the connectors built on it has its types; while
\* an operation runs the address is within the element in hand.
THEOREM MemoryMapTypes == MapSpec => []MapTypeOK
<1>1. MapInv => MapTypeOK
  BY MapTypeSplit DEF MapInv
<1>. QED  BY <1>1, MapInitOK, MapNextOK, PTL DEF MapSpec

\* phys_read_raw_list and phys_write_raw_list: every piece get_next returns
\* lies within one region and goes to that region's own part of the output,
\* whatever the order and the overlaps of the regions.
THEOREM MemoryMapPiecesRight == MapSpec => []PiecesRight
<1>1. MapInv => PiecesRight
  BY DEF MapInv
<1>. QED  BY <1>1, MapInitOK, MapNextOK, PTL DEF MapSpec

\* get_next hands out no byte of an element twice, reports none twice, and
\* does not do both, even where regions overlap.
THEOREM MemoryMapPiecesApart == MapSpec => []PiecesApart
<1>1. MapInv => PiecesApart
  BY DEF MapInv
<1>. QED  BY <1>1, MapInitOK, MapNextOK, PTL DEF MapSpec

\* push keeps increasing regions ordered, and pushing the regions of a map
\* without overlaps again, as the mapped connectors do, neither panics nor
\* changes their order.
THEOREM MemoryMapOrderKept == MapSpec => []OrderKept
<1>1. MapInv => OrderKept
  BY DEF MapInv, OrderInv, OrderKept
<1>. QED  BY <1>1, MapInitOK, MapNextOK, PTL DEF MapSpec

\* On an ordered map an operation that returns Ok has transferred exactly the
\* bytes that some region holds and reported every other one below the end of
\* the memory, however get_next began its search.
THEOREM MemoryMapOrderedExact == MapSpec => []OrderedExact
<1>1. MapInv => OrderedExact
  BY ExactEnd
<1>. QED  BY <1>1, MapInitOK, MapNextOK, PTL DEF MapSpec
=============================================================================

---------------------------- MODULE MmuWalkProofs ----------------------------
(***************************************************************************)
(* Theorems about MmuWalk, for every layout of page tables, every batch,   *)
(* whatever the guest does to its tables and whatever the connector does.  *)
(***************************************************************************)
EXTENDS MmuWalk, SequenceTheorems, WellFoundedInduction, TLAPS

-----------------------------------------------------------------------------
(* The inductive invariant                                                 *)

Done == {o.unit : o \in out}

\* Sets of units that share none unless they are the same chunk.
ChunksApart(chunks) == \A c, d \in chunks : c.units \cap d.units # {} => c = d

\* Entries are read of chunks in hand only, and none outside the reading phase.
AnsweredInv ==
  /\ reading \subseteq todo /\ (phase # "read" => reading = {})
  /\ AnsweredOnce

-----------------------------------------------------------------------------
(* Chunks                                                                  *)

LEMMA UnitsMember == \A S, u : u \in UnitsOf(S) <=> \E c \in S : u \in c.units
BY DEF UnitsOf

\* page_chunks cuts the units of a chunk into parts that share none.
LEMMA PageChunksPartition ==
  ASSUME NEW units, NEW size
  PROVE  /\ \A u \in units : \E p \in PageChunks(units, size) : u \in p
         /\ \A p \in PageChunks(units, size) : p \subseteq units
         /\ \A p, q \in PageChunks(units, size) : p \cap q # {} => p = q
<1> DEFINE end == ChunkEnds({u.addr : u \in units}, size)
           part(e) == {u \in units : end[u.addr] = e}
<1>1. PageChunks(units, size) = {part(e) : e \in {end[u.addr] : u \in units}}
  BY DEF PageChunks
<1> HIDE DEF end
<1>2. \A p : p \in PageChunks(units, size) <=> \E x \in units : p = part(end[x.addr])
  BY <1>1
<1>3. \A x, e : x \in part(e) <=> x \in units /\ end[x.addr] = e
  OBVIOUS
<1> HIDE DEF part
<1>4. ASSUME NEW u \in units
      PROVE  \E p \in PageChunks(units, size) : u \in p
  BY <1>2, <1>3
<1>5. ASSUME NEW p \in PageChunks(units, size)
      PROVE  p \subseteq units
  BY <1>2, <1>3
<1>6. ASSUME NEW p \in PageChunks(units, size), NEW q \in PageChunks(units, size), p \cap q # {}
      PROVE  p = q
  <2>1. PICK x \in units : p = part(end[x.addr])
    BY <1>2
  <2>2. PICK y \in units : q = part(end[y.addr])
    BY <1>2
  <2>3. PICK z : z \in p /\ z \in q
    BY <1>6
  <2>4. end[z.addr] = end[x.addr] /\ end[z.addr] = end[y.addr]
    BY <1>3, <2>1, <2>2, <2>3
  <2>. QED  BY <2>1, <2>2, <2>4
<1>. QED  BY <1>4, <1>5, <1>6

\* The chunks below one chunk are told apart by their units.
LEMMA DescendPartition ==
  ASSUME NEW c
  PROVE  /\ \A u \in c.units : \E d \in Descend(c) : u \in d.units
         /\ \A d \in Descend(c) : d.units \subseteq c.units
         /\ ChunksApart(Descend(c))
<1> DEFINE P == PageChunks(c.units, PageSizeStep(step + 1))
           below(p) == [at |-> <<c.pte.to, PteIndex(MinAddr(p), step)>>, pte |-> c.pte, units |-> p]
<1>1. \A d : d \in Descend(c) <=> \E p \in P : d = below(p)
  BY DEF Descend
<1>2. \A p : below(p).units = p
  OBVIOUS
<1>3. /\ \A u \in c.units : \E p \in P : u \in p
      /\ \A p \in P : p \subseteq c.units
      /\ \A p, q \in P : p \cap q # {} => p = q
  BY PageChunksPartition
<1> HIDE DEF P, below
<1>. QED  BY <1>1, <1>2, <1>3 DEF ChunksApart

-----------------------------------------------------------------------------
(* The steps                                                               *)

LEMMA StartAnswers ==
  ASSUME AnsweredInv, NEW b \in Batches, Start(b)
  PROVE  AnsweredInv'
<1> DEFINE c == [at |-> <<Root, 0>>, pte |-> RootEntry, units |-> Units(b)]
<1>1. /\ todo' = {c} /\ out' = {} /\ fail' = {} /\ batch' = c.units /\ reading' = {}
  BY DEF Start, AnsweredInv
<1> HIDE DEF c
<1>. QED  BY <1>1 DEF AnsweredInv, AnsweredOnce, UnitsOf

LEMMA SplitAnswers ==
  ASSUME AnsweredInv, Split
  PROVE  AnsweredInv'
<1> DEFINE failing == {c \in todo : ~CheckEntry(c.pte, step)}
           final == {c \in todo \ failing : IsFinalMapping(c.pte, step)}
           rest == todo \ (failing \cup final)
           below == UNION {Descend(c) : c \in rest}
           given == UNION {{GetPhysPage(c, u) : u \in c.units} : c \in final}
<1>1. /\ fail' = fail \cup UnitsOf(failing) /\ out' = out \cup given
      /\ todo' = below /\ reading' = below /\ batch' = batch
      /\ phase' = "read" \/ below = {}
  BY DEF Split
<1>2. /\ failing \subseteq todo /\ final \subseteq todo /\ rest \subseteq todo
      /\ todo = failing \cup final \cup rest
      /\ failing \cap final = {} /\ failing \cap rest = {} /\ final \cap rest = {}
  OBVIOUS
<1>3. \A o : o \in given <=> \E c \in final : \E u \in c.units : o = GetPhysPage(c, u)
  OBVIOUS
<1>4. \A c, u : GetPhysPage(c, u).unit = u
  BY DEF GetPhysPage
<1>5. \A d : d \in below <=> \E c \in rest : d \in Descend(c)
  OBVIOUS
<1> HIDE DEF failing, final, rest, below, given
<1>6. ChunksApart(todo)
  BY DEF AnsweredInv, AnsweredOnce, ChunksApart
<1>7. {o.unit : o \in given} = UnitsOf(final)
  BY <1>3, <1>4, UnitsMember
<1>8. UnitsOf(below) = UnitsOf(rest)
  <2>1. \A c \in rest : \A u \in c.units : \E d \in below : u \in d.units
    BY <1>5, DescendPartition
  <2>2. \A d \in below : \E c \in rest : d.units \subseteq c.units
    BY <1>5, DescendPartition
  <2>3. ASSUME NEW u \in UnitsOf(below)  PROVE u \in UnitsOf(rest)
    BY <2>2, <2>3, UnitsMember
  <2>4. ASSUME NEW u \in UnitsOf(rest)  PROVE u \in UnitsOf(below)
    BY <2>1, <2>4, UnitsMember
  <2>. QED  BY <2>3, <2>4
<1>9. /\ UnitsOf(todo) = UnitsOf(failing) \cup UnitsOf(final) \cup UnitsOf(rest)
      /\ UnitsOf(failing) \cap UnitsOf(final) = {}
      /\ UnitsOf(failing) \cap UnitsOf(rest) = {}
      /\ UnitsOf(final) \cap UnitsOf(rest) = {}
  BY <1>2, <1>6, UnitsMember DEF ChunksApart
<1>10. ChunksApart(below)
  <2> SUFFICES ASSUME NEW d \in below, NEW e \in below, NEW u \in d.units \cap e.units
               PROVE  d = e
    BY DEF ChunksApart
  <2>1. PICK c \in rest : d \in Descend(c)
    BY <1>5
  <2>2. PICK z \in rest : e \in Descend(z)
    BY <1>5
  <2>3. u \in c.units /\ u \in z.units
    BY <2>1, <2>2, DescendPartition
  <2>4. c = z
    BY <1>2, <1>6, <2>3 DEF ChunksApart
  <2>5. ChunksApart(Descend(c))
    BY DescendPartition
  <2>. QED  BY <2>1, <2>2, <2>4, <2>5 DEF ChunksApart
<1>11. \A o, q \in out \cup given : o.unit = q.unit => o = q
  <2>1. \A o, q \in out : o.unit = q.unit => o = q
    BY DEF AnsweredInv, AnsweredOnce
  <2>2. \A o \in out, q \in given : o.unit # q.unit
    <3>1. \A o \in out : o.unit \notin UnitsOf(todo)
      BY DEF AnsweredInv, AnsweredOnce
    <3>2. \A q \in given : q.unit \in UnitsOf(todo)
      BY <1>7, <1>9
    <3>. QED  BY <3>1, <3>2
  <2>3. \A o, q \in given : o.unit = q.unit => o = q
    BY <1>2, <1>3, <1>4, <1>6 DEF ChunksApart
  <2>. QED  BY <2>1, <2>2, <2>3
<1>12. Done' = Done \cup UnitsOf(final)
  BY <1>1, <1>7 DEF Done
<1>13. /\ Done \cup fail \cup UnitsOf(todo) = batch
       /\ Done \cap fail = {} /\ (Done \cup fail) \cap UnitsOf(todo) = {}
  BY DEF AnsweredInv, AnsweredOnce, Done
<1>14. /\ Done' \cup fail' \cup UnitsOf(todo)' = batch'
       /\ Done' \cap fail' = {} /\ (Done' \cup fail') \cap UnitsOf(todo)' = {}
  <2>1. UnitsOf(todo)' = UnitsOf(rest)
    BY <1>1, <1>8 DEF UnitsOf
  <2>. QED  BY <1>1, <1>9, <1>12, <1>13, <2>1
<1>. QED  BY <1>1, <1>10, <1>11, <1>14 DEF AnsweredInv, AnsweredOnce, ChunksApart, Done

LEMMA ReadEntryAnswers ==
  ASSUME AnsweredInv, NEW c \in reading, ReadEntry(c)
  PROVE  AnsweredInv'
<1>0. PICK pte \in EntriesAt(c.at) : todo' = (todo \ {c}) \cup {[c EXCEPT !.pte = pte]}
  BY DEF ReadEntry
<1> DEFINE got == [c EXCEPT !.pte = pte]
<1>1. /\ reading' = reading \ {c} /\ todo' = (todo \ {c}) \cup {got}
      /\ out' = out /\ fail' = fail /\ batch' = batch /\ phase' = "read"
  BY <1>0 DEF ReadEntry
<1>2. c \in todo /\ reading \subseteq todo
  BY DEF AnsweredInv
<1>3. got.units = c.units
  OBVIOUS
<1> HIDE DEF got
<1>4. ChunksApart(todo)
  BY DEF AnsweredInv, AnsweredOnce, ChunksApart
<1>5. ChunksApart(todo')
  BY <1>1, <1>2, <1>3, <1>4 DEF ChunksApart
<1>6. UnitsOf(todo') = UnitsOf(todo)
  BY <1>1, <1>2, <1>3, UnitsMember
<1>7. UnitsOf(todo)' = UnitsOf(todo)
  BY <1>6 DEF UnitsOf
<1>. QED  BY <1>1, <1>2, <1>5, <1>7 DEF AnsweredInv, AnsweredOnce, ChunksApart

LEMMA ReadFailsAnswers ==
  ASSUME AnsweredInv, ReadFails
  PROVE  AnsweredInv'
<1>1. /\ fail' = fail \cup UnitsOf(todo) /\ todo' = {} /\ reading' = {}
      /\ out' = out /\ batch' = batch
  BY DEF ReadFails
<1>2. UnitsOf(todo)' = {}
  BY <1>1 DEF UnitsOf
<1>. QED  BY <1>1, <1>2 DEF AnsweredInv, AnsweredOnce

LEMMA FilterAnswers ==
  ASSUME AnsweredInv, NEW keep \in SUBSET todo, FilterDuplicates(keep)
  PROVE  AnsweredInv'
<1>1. /\ fail' = fail \cup UnitsOf(todo \ keep) /\ todo' = keep /\ reading' = {}
      /\ out' = out /\ batch' = batch
  BY DEF FilterDuplicates
<1>2. ChunksApart(todo)
  BY DEF AnsweredInv, AnsweredOnce, ChunksApart
<1>3. /\ UnitsOf(todo \ keep) \cup UnitsOf(keep) = UnitsOf(todo)
      /\ UnitsOf(todo \ keep) \cap UnitsOf(keep) = {}
  BY <1>2, UnitsMember DEF ChunksApart
<1>4. UnitsOf(todo)' = UnitsOf(keep)
  BY <1>1 DEF UnitsOf
<1>. QED  BY <1>1, <1>2, <1>3, <1>4 DEF AnsweredInv, AnsweredOnce, ChunksApart

LEMMA AnsweredInit ==
  ASSUME Init
  PROVE  AnsweredInv
BY DEF Init, AnsweredInv, AnsweredOnce, UnitsOf

LEMMA AnsweredNext ==
  ASSUME AnsweredInv, [Next]_vars
  PROVE  AnsweredInv'
<1>1. CASE \E b \in Batches : Start(b)
  BY <1>1, StartAnswers
<1>2. CASE Split
  BY <1>2, SplitAnswers
<1>3. CASE \E c \in reading : ReadEntry(c)
  BY <1>3, ReadEntryAnswers
<1>4. CASE ReadFails
  BY <1>4, ReadFailsAnswers
<1>5. CASE \E keep \in SUBSET todo : FilterDuplicates(keep)
  BY <1>5, FilterAnswers
<1>6. CASE (\E m \in Remaps : Remap(m)) \/ UNCHANGED vars
  <2>1. UNCHANGED <<phase, todo, reading, out, fail, batch>>
    BY <1>6 DEF Remap, vars
  <2>. QED  BY <2>1 DEF AnsweredInv, AnsweredOnce, UnitsOf
<1>. QED  BY <1>1, <1>2, <1>3, <1>4, <1>5, <1>6 DEF Next, Walk

-----------------------------------------------------------------------------
(* The way down: the inductive invariant.                                  *)
(*                                                                         *)
(* That a translation is right at the end needs, at every step, that the   *)
(* place of an entry lies on the path of every unit of its chunk, and that *)
(* needs that a chunk is one page, which needs that it has no gaps.        *)

\* The level whose pages the chunks in hand are cut to.
Level == IF phase = "read" THEN step + 1 ELSE step

SamePage(u, v, s) == s = 0 \/ u.addr \div PageSizeStep(s) = v.addr \div PageSizeStep(s)

\* The addresses of units make up an interval.
Solid(units) ==
  \A u, v \in units : \A x \in u.addr .. v.addr : \E w \in units : w.addr = x

SeenType == seen \in [Tables -> [Indexes -> SUBSET PTE]]

\* Types, with what the steps keep of them: chunks are records, the batch ends
\* somewhere, and the last table's entries are read before its pages are given.
WalkTypes ==
  /\ TypeOK
  /\ \A c \in todo : c = [at |-> c.at, pte |-> c.pte, units |-> c.units]
  /\ SeenType
  /\ batch \subseteq [id : Nat, addr : Nat] /\ \E m \in Nat : \A u \in batch : u.addr <= m
  /\ phase = "idle" => todo = {}
  /\ phase = "read" => step < SplitCount - 1

\* The guest's entries are among those it had during the call.
SeenNow == phase # "idle" => \A t \in Tables, i \in Indexes : tables[t][i] \in seen[t][i]

\* Chunks have no gaps, and two units are in the same one just if they are in
\* the same page.
ChunksArePages ==
  /\ \A c \in todo : c.units # {} /\ Solid(c.units)
  /\ \A c, d \in todo : \A u \in c.units, v \in d.units : SamePage(u, v, Level) <=> c = d

\* The place of an entry is on the path of every unit of its chunk, and so is
\* the entry once it is read.
OnPath ==
  \A c \in todo : \A u \in c.units :
    /\ phase = "split" => c.pte \in Path(u)[step]
    /\ phase = "read" =>
         /\ \E e \in Path(u)[step] :
              /\ CheckEntry(e, step) /\ ~IsFinalMapping(e, step)
              /\ c.at = <<e.to, PteIndex(u.addr, step)>>
         /\ c \notin reading => c.pte \in Path(u)[step + 1]

\* The inductive invariant of the walk.
WalkInv ==
  /\ WalkTypes /\ AnsweredInv /\ SeenNow
  /\ Contiguous => ChunksArePages /\ OnPath
  /\ SoundIfContiguous /\ FailuresJustified

-----------------------------------------------------------------------------
(* Numbers                                                                 *)

\* Every non-empty set of natural numbers has a least element.  It stands in
\* for induction: of the places where a claim fails there is a first one.
LEMMA LeastPlace == \A T \in SUBSET Nat : T # {} => \E m \in T : \A n \in T : m <= n
<1> DEFINE R == OpToRel(<, Nat)
<1>1. IsWellFoundedOn(R, Nat)
  BY NatLessThanWellFounded
<1>2. \A x, y \in Nat : <<x, y>> \in R <=> x < y
  BY DEF OpToRel
<1> HIDE DEF R
<1> SUFFICES ASSUME NEW T \in SUBSET Nat, T # {}
             PROVE  \E m \in T : \A n \in T : m <= n
  OBVIOUS
<1>3. PICK m \in T : \A y \in T : ~(<<y, m>> \in R)
  BY <1>1, WFMin
<1>4. m \in Nat /\ \A n \in T : n \in Nat /\ ~(n < m)
  BY <1>2, <1>3
<1>. QED  BY <1>3, <1>4

\* b is computed place by place: from e on with G.
Computed(S, e, G, K, b) ==
  b \in [0 .. K -> S] /\ b[0] = e /\ \A n \in 1 .. K : b[n] = G[<<b[n - 1], n>>]

\* Such a function exists, and what each place keeps, all of them have.
LEMMA RecursionExists ==
  ASSUME NEW S, NEW e \in S, NEW G \in [S \X Nat -> S], NEW K \in Nat
  PROVE  \E b : Computed(S, e, G, K, b)
<1> DEFINE P(k) == \E b : Computed(S, e, G, k, b)
           T == {k \in Nat : ~P(k)}
<1> SUFFICES T = {}
  OBVIOUS
<1>1. 0 \notin T
  <2> DEFINE b == [n \in 0 .. 0 |-> e]
  <2>1. b \in [0 .. 0 -> S] /\ b[0] = e /\ 1 .. 0 = {}
    OBVIOUS
  <2> HIDE DEF b
  <2>2. P(0)
    BY <2>1 DEF Computed
  <2>. QED  BY <2>2
<1>2. ASSUME NEW m \in Nat, m # 0, P(m - 1)
      PROVE  P(m)
  <2>1. PICK b \in [0 .. m - 1 -> S] :
          b[0] = e /\ \A n \in 1 .. m - 1 : b[n] = G[<<b[n - 1], n>>]
    BY <1>2 DEF Computed
  <2>2. m - 1 \in 0 .. m - 1 /\ b[m - 1] \in S
    BY <1>2
  <2>3. <<b[m - 1], m>> \in S \X Nat
    BY <2>2
  <2>4. G[<<b[m - 1], m>>] \in S
    BY <2>3
  <2> DEFINE c == [n \in 0 .. m |-> IF n = m THEN G[<<b[m - 1], m>>] ELSE b[n]]
  <2>5. \A n \in 0 .. m : n # m => n \in 0 .. m - 1
    OBVIOUS
  <2>6. c \in [0 .. m -> S]
    BY <2>4, <2>5
  <2>7. c[m] = G[<<b[m - 1], m>>] /\ \A n \in 0 .. m - 1 : c[n] = b[n]
    OBVIOUS
  <2> HIDE DEF c
  <2>8. c[0] = e
    BY <1>2, <2>1, <2>7
  <2>9. ASSUME NEW n \in 1 .. m
        PROVE  c[n] = G[<<c[n - 1], n>>]
    <3>1. c[n - 1] = b[n - 1]
      BY <2>7
    <3>2. CASE n = m
      BY <2>7, <3>1, <3>2
    <3>3. CASE n # m
      <4>1. n \in 1 .. m - 1 /\ n \in 0 .. m - 1
        BY <3>3
      <4>. QED  BY <2>1, <2>7, <3>1, <4>1
    <3>. QED  BY <3>2, <3>3
  <2>10. Computed(S, e, G, m, c)
    BY <2>6, <2>8, <2>9 DEF Computed
  <2>. QED  BY <2>10
<1> HIDE DEF P
<1> SUFFICES ASSUME T # {}
             PROVE  FALSE
  OBVIOUS
<1>3. T \in SUBSET Nat
  OBVIOUS
<1> HIDE DEF T
<1>4. PICK m \in T : \A n \in T : m <= n
  BY <1>3, LeastPlace
<1>5. m \in Nat /\ m # 0
  BY <1>1, <1>3, <1>4
<1>6. m - 1 \notin T /\ m - 1 \in Nat
  BY <1>4, <1>5
<1>. QED  BY <1>2, <1>5, <1>6 DEF T

\* Multiplication keeps the order.
LEMMA Times ==
  ASSUME NEW a \in Nat, NEW b \in Nat, NEW c \in Nat, a <= b
  PROVE  c * a <= c * b /\ c * a \in Nat
<1>1. \A x, y, z \in Nat : x <= y => z * x <= z * y
  BY Z3
<1>. QED  BY <1>1

\* Blocks of d addresses: each address is in one of them.
LEMMA Blocks ==
  ASSUME NEW d \in Nat \ {0}, NEW v \in Nat
  PROVE  /\ v \div d \in Nat /\ v % d \in 0 .. d - 1 /\ v = d * (v \div d) + (v % d)
         /\ \A k \in Nat : d * k <= v /\ v < d * k + d => k = v \div d
         /\ \A k \in Nat, r \in 0 .. d - 1 : v = d * k + r => v \div d = k /\ v % d = r
<1>1. v \div d \in Nat /\ v % d \in 0 .. d - 1 /\ v = d * (v \div d) + (v % d)
  OBVIOUS
<1> DEFINE q == v \div d
           m == v % d
<1>2. q \in Nat /\ m \in 0 .. d - 1 /\ v = d * q + m
  BY <1>1
<1> HIDE DEF q, m
<1>3. ASSUME NEW k \in Nat, d * k <= v, v < d * k + d
      PROVE  k = q
  <2>1. CASE k < q
    <3>1. k + 1 \in Nat /\ k + 1 <= q
      BY <1>2, <2>1
    <3>2. d * (k + 1) <= d * q
      BY <1>2, <3>1, Times
    <3>3. d * (k + 1) = d * k + d
      OBVIOUS
    <3>. QED  BY <1>2, <1>3, <3>2, <3>3
  <2>2. CASE q < k
    <3>1. q + 1 \in Nat /\ q + 1 <= k
      BY <1>2, <2>2
    <3>2. d * (q + 1) <= d * k
      BY <1>2, <3>1, Times
    <3>3. d * (q + 1) = d * q + d
      BY <1>2
    <3>. QED  BY <1>2, <1>3, <3>2, <3>3
  <2>. QED  BY <1>2, <2>1, <2>2
<1>4. ASSUME NEW k \in Nat, NEW r \in 0 .. d - 1, v = d * k + r
      PROVE  q = k /\ m = r
  <2>1. d * k \in Nat
    OBVIOUS
  <2>2. d * k <= v /\ v < d * k + d
    BY <1>4, <2>1
  <2>3. k = q
    BY <1>3, <2>2
  <2>. QED  BY <1>2, <1>4, <2>1, <2>3
<1>. QED  BY <1>1, <1>3, <1>4 DEF q, m

\* A bounded set of numbers has a least and a greatest element.
LEMMA Extremes ==
  ASSUME NEW A \in SUBSET Nat, A # {}, NEW m \in Nat, \A a \in A : a <= m
  PROVE  /\ Min(A) \in A /\ \A a \in A : Min(A) <= a
         /\ Max(A) \in A /\ \A a \in A : a <= Max(A)
<1>1. \E x \in A : \A y \in A : x <= y
  BY LeastPlace
<1>2. \E x \in A : \A y \in A : x >= y
  <2> DEFINE B == {m - a : a \in A}
  <2>1. B \in SUBSET Nat /\ B # {}
    <3>1. \A a \in A : a \in Nat /\ a <= m
      OBVIOUS
    <3>2. \A a \in A : m - a \in Nat
      BY <3>1
    <3>3. PICK a \in A : TRUE
      OBVIOUS
    <3>. QED  BY <3>2, <3>3
  <2>2. PICK b \in B : \A c \in B : b <= c
    BY <2>1, LeastPlace
  <2>3. PICK x \in A : b = m - x
    OBVIOUS
  <2>4. \A y \in A : m - x <= m - y
    BY <2>2, <2>3
  <2>5. \A y \in A : y <= x
    BY <2>4
  <2>. QED  BY <2>5
<1>3. Min(A) \in A /\ \A a \in A : Min(A) <= a
  BY <1>1 DEF Min
<1>4. Max(A) \in A /\ \A a \in A : Max(A) >= a
  BY <1>2 DEF Max
<1>. QED  BY <1>3, <1>4

\* The page of a level is as many pages of the next one as its table has
\* entries.
LEMMA PageSizeSteps ==
  /\ \A s \in 0 .. SplitCount : PageSizeStep(s) \in Nat \ {0}
  /\ \A s \in 0 .. SplitCount - 1 :
       Splits[s + 1] \in Nat \ {0} /\ PageSizeStep(s) = Splits[s + 1] * PageSizeStep(s + 1)
<1> DEFINE K == SplitCount
           P == Nat \ {0}
           G == [x \in P \X Nat |-> IF x[2] \in 1 .. K THEN Splits[K - x[2] + 1] * x[1] ELSE 1]
<1>1. K \in Nat /\ \A k \in 1 .. K : Splits[k] \in P
  BY WalkAssumption DEF SplitCount
<1>2. \A k \in 1 .. K : K - k + 1 \in 1 .. K
  BY <1>1
<1>3. G \in [P \X Nat -> P]
  <2>1. \A x \in P, y \in P : y * x \in P
    OBVIOUS
  <2>2. \A x \in P \X Nat : (IF x[2] \in 1 .. K THEN Splits[K - x[2] + 1] * x[1] ELSE 1) \in P
    BY <1>1, <1>2, <2>1
  <2>. QED  BY <2>2
<1> DEFINE f == CHOOSE size : size = [k \in 0 .. K |-> IF k = 0 THEN 1 ELSE Splits[K - k + 1] * size[k - 1]]
<1>4. \A s : PageSizeStep(s) = f[K - s]
  BY DEF PageSizeStep
<1>5. \A k \in 1 .. K, x \in P : G[<<x, k>>] = Splits[K - k + 1] * x
  BY <1>1
<1> HIDE DEF G
<1>6. PICK b : Computed(P, 1, G, K, b)
  <2>1. 1 \in P
    OBVIOUS
  <2> HIDE DEF P, K
  <2>2. \E b : Computed(P, 1, G, K, b)
    BY <1>1, <1>3, <2>1, RecursionExists
  <2>. QED  BY <2>2
<1>7. b \in [0 .. K -> P] /\ b[0] = 1 /\ \A k \in 1 .. K : b[k] = Splits[K - k + 1] * b[k - 1]
  <2>1. b \in [0 .. K -> P] /\ b[0] = 1 /\ \A k \in 1 .. K : b[k] = G[<<b[k - 1], k>>]
    BY <1>6 DEF Computed
  <2>2. \A k \in 1 .. K : b[k - 1] \in P
    BY <1>1, <2>1
  <2>. QED  BY <1>5, <2>1, <2>2
<1>8. b = [k \in 0 .. K |-> IF k = 0 THEN 1 ELSE Splits[K - k + 1] * b[k - 1]]
  BY <1>1, <1>7
<1>9. f = [k \in 0 .. K |-> IF k = 0 THEN 1 ELSE Splits[K - k + 1] * f[k - 1]]
  BY <1>8
<1> HIDE DEF f
<1>10. f[0] = 1 /\ \A k \in 1 .. K : f[k] = Splits[K - k + 1] * f[k - 1]
  BY <1>1, <1>9
<1>11. \A k \in 0 .. K : f[k] \in P
  <2> DEFINE T == {k \in 0 .. K : f[k] \notin P}
  <2> SUFFICES ASSUME T # {}
               PROVE  FALSE
    OBVIOUS
  <2>1. T \in SUBSET Nat
    OBVIOUS
  <2>2. PICK k \in T : \A j \in T : k <= j
    BY <2>1, LeastPlace
  <2>3. k # 0 /\ k \in 1 .. K /\ k - 1 \in 0 .. K
    BY <1>1, <1>10, <2>2
  <2>4. f[k - 1] \in P
    BY <2>2, <2>3
  <2>5. f[k] = Splits[K - k + 1] * f[k - 1] /\ Splits[K - k + 1] \in P
    BY <1>1, <1>2, <1>10, <2>3
  <2>6. \A x \in P, y \in P : x * y \in P
    OBVIOUS
  <2>7. f[k] \in P
    BY <2>4, <2>5, <2>6
  <2>. QED  BY <2>7
<1>12. ASSUME NEW s \in 0 .. K
       PROVE  PageSizeStep(s) \in P
  <2>1. K - s \in 0 .. K
    BY <1>1
  <2>. QED  BY <1>4, <1>11, <2>1
<1>13. ASSUME NEW s \in 0 .. K - 1
       PROVE  Splits[s + 1] \in P /\ PageSizeStep(s) = Splits[s + 1] * PageSizeStep(s + 1)
  <2>1. K - s \in 1 .. K /\ s + 1 \in 1 .. K /\ K - (K - s) + 1 = s + 1 /\ (K - s) - 1 = K - (s + 1)
    BY <1>1
  <2>2. f[K - s] = Splits[s + 1] * f[K - (s + 1)]
    BY <1>10, <2>1
  <2>. QED  BY <1>1, <1>4, <2>1, <2>2
<1>. QED  BY <1>12, <1>13

LEMMA DivideTwice ==
  ASSUME NEW a \in Nat \ {0}, NEW b \in Nat \ {0}, NEW x \in Nat
  PROVE  x \div (b * a) = (x \div a) \div b
<1> DEFINE q == x \div a
           r == x % a
           k == q \div b
           t == q % b
<1>1. q \in Nat /\ r \in 0 .. a - 1 /\ x = a * q + r
  BY Blocks
<1> HIDE DEF q, r
<1>2. k \in Nat /\ t \in 0 .. b - 1 /\ q = b * k + t
  BY <1>1, Blocks
<1> HIDE DEF k, t
<1> DEFINE n == b * a
<1>3. n \in Nat \ {0}
  OBVIOUS
<1>4. a * q = n * k + a * t
  <2>1. \A u, v, w, z \in Nat : u * (v * w + z) = (v * u) * w + u * z
    BY Z3
  <2>2. k \in Nat /\ t \in Nat
    BY <1>2
  <2>. QED  BY <1>2, <2>1, <2>2
<1>5. a * t \in Nat /\ a * t + a <= n
  <2>1. t \in Nat /\ t + 1 \in Nat /\ t + 1 <= b
    BY <1>2
  <2>2. a * (t + 1) <= a * b /\ a * (t + 1) = a * t + a /\ a * t \in Nat
    BY <2>1, Times
  <2>. QED  BY <2>2
<1> HIDE DEF n
<1> DEFINE y == a * t
           m == n * k
<1>6. y \in Nat /\ y + a <= n /\ m \in Nat /\ x = (m + y) + r
  <2>1. m \in Nat
    BY <1>2, <1>3
  <2>. QED  BY <1>1, <1>4, <1>5, <2>1
<1>7. x = m + (y + r) /\ y + r \in 0 .. n - 1
  <2> HIDE DEF y, m
  <2>. QED  BY <1>1, <1>3, <1>6
<1>8. \A i \in Nat, j \in 0 .. n - 1 : x = n * i + j => x \div n = i
  BY <1>3, Blocks
<1>9. x \div n = k
  <2> DEFINE j == y + r
  <2>1. x = n * k + j /\ j \in 0 .. n - 1
    BY <1>7
  <2> HIDE DEF j
  <2>. QED  BY <1>2, <1>8, <2>1
<1>. QED  BY <1>9 DEF n, k, q

\* Addresses in one page of a level are in one page of the level above.
LEMMA PagesNest ==
  ASSUME NEW s \in 0 .. SplitCount - 1, NEW x \in Nat, NEW y \in Nat,
         x \div PageSizeStep(s + 1) = y \div PageSizeStep(s + 1)
  PROVE  x \div PageSizeStep(s) = y \div PageSizeStep(s)
<1> DEFINE a == PageSizeStep(s + 1)
           b == Splits[s + 1]
<1>1. s + 1 \in 0 .. SplitCount
  BY WalkAssumption DEF SplitCount
<1>2. a \in Nat \ {0} /\ b \in Nat \ {0} /\ PageSizeStep(s) = b * a
  BY <1>1, PageSizeSteps
<1>3. x \div a = y \div a
  OBVIOUS
<1> HIDE DEF a, b
<1>4. x \div (b * a) = (x \div a) \div b /\ y \div (b * a) = (y \div a) \div b
  BY <1>2, DivideTwice
<1>. QED  BY <1>2, <1>3, <1>4

\* Where there is no gap, the chunks of page_chunks end where pages end.
LEMMA ChunksEndWithPages ==
  ASSUME NEW size \in Nat \ {0}, NEW lo \in Nat, NEW hi \in Nat, lo <= hi,
         NEW addrs, addrs = lo .. hi, Min(addrs) = lo, Max(addrs) = hi
  PROVE  \A a \in addrs : ChunkEnds(addrs, size)[a] = size * (a \div size) + (size - 1)
<1> DEFINE g == [a \in lo .. hi |-> size * (a \div size) + (size - 1)]
           next(a, before) == IF a \in addrs /\ a > before THEN a + size - 1 ELSE before
           f == CHOOSE end : end = [a \in lo .. hi |->
                  IF a = lo THEN a - (a % size) + size - 1 ELSE next(a, end[a - 1])]
<1>1. ChunkEnds(addrs, size) = f
  BY DEF ChunkEnds
<1>2. ASSUME NEW a \in Nat
      PROVE  a - (a % size) + size - 1 = size * (a \div size) + (size - 1)
  <2>1. a \div size \in Nat /\ a % size \in 0 .. size - 1 /\ a = size * (a \div size) + (a % size)
    BY Blocks
  <2> DEFINE p == size * (a \div size)
             r == a % size
  <2>2. p \in Int /\ r \in Int /\ a = p + r
    BY <2>1
  <2> HIDE DEF p, r
  <2>3. a - r + size - 1 = p + (size - 1)
    BY <2>2
  <2>. QED  BY <2>3 DEF p, r
<1>3. ASSUME NEW a \in lo .. hi, a # lo
      PROVE  a - 1 \in lo .. hi /\ g[a] = next(a, g[a - 1])
  <2>1. a - 1 \in lo .. hi /\ a - 1 \in Nat /\ a \in Nat
    BY <1>3
  <2> DEFINE q == (a - 1) \div size
             r == (a - 1) % size
  <2>2. q \in Nat /\ r \in 0 .. size - 1 /\ a - 1 = size * q + r
    BY <2>1, Blocks
  <2>3. g[a - 1] = size * q + (size - 1) /\ g[a] = size * (a \div size) + (size - 1)
    BY <2>1
  <2> HIDE DEF q, r, g
  <2>4. size * q \in Nat /\ size * (q + 1) = size * q + size /\ q + 1 \in Nat
    BY <2>2
  <2>5. \A i \in Nat, j \in 0 .. size - 1 : a = size * i + j => a \div size = i
    <3>1. a \in Nat
      BY <2>1
    <3>2. \A i \in Nat, j \in 0 .. size - 1 : a = size * i + j => a \div size = i /\ a % size = j
      BY <3>1, Blocks
    <3>. QED  BY <3>2
  <2>6. CASE r + 1 <= size - 1
    <3>1. a = size * q + (r + 1) /\ r + 1 \in 0 .. size - 1
      BY <2>1, <2>2, <2>4, <2>6
    <3>2. a \div size = q
      BY <2>2, <2>5, <3>1
    <3>3. ~(a > g[a - 1])
      BY <2>2, <2>3, <2>4, <2>6, <3>1
    <3>. QED  BY <2>1, <2>3, <3>2, <3>3
  <2>7. CASE r = size - 1
    <3>1. a = size * (q + 1) + 0 /\ 0 \in 0 .. size - 1
      BY <2>1, <2>2, <2>4, <2>7
    <3>2. a \div size = q + 1
      BY <2>4, <2>5, <3>1
    <3>3. a > g[a - 1] /\ a \in addrs
      BY <2>2, <2>3, <2>4, <2>7, <3>1
    <3>4. g[a] = a + size - 1
      BY <2>3, <2>4, <3>1, <3>2
    <3>. QED  BY <2>1, <3>3, <3>4
  <2>. QED  BY <2>2, <2>6, <2>7
<1>4. g[lo] = lo - (lo % size) + size - 1
  <2>1. g[lo] = size * (lo \div size) + (size - 1)
    OBVIOUS
  <2>2. lo - (lo % size) + size - 1 = size * (lo \div size) + (size - 1)
    BY <1>2
  <2>. QED  BY <2>1, <2>2
<1>5. g = [a \in lo .. hi |-> IF a = lo THEN a - (a % size) + size - 1 ELSE next(a, g[a - 1])]
  <2>1. \A a \in lo .. hi : g[a] = IF a = lo THEN a - (a % size) + size - 1 ELSE next(a, g[a - 1])
    <3> HIDE DEF g, next
    <3>. QED  BY <1>3, <1>4
  <2>2. g = [a \in lo .. hi |-> g[a]]
    OBVIOUS
  <2> HIDE DEF g, next
  <2>. QED  BY <2>1, <2>2
<1> HIDE DEF g
<1>6. f = [a \in lo .. hi |-> IF a = lo THEN a - (a % size) + size - 1 ELSE next(a, f[a - 1])]
  <2> HIDE DEF next
  <2>. QED  BY <1>5
<1> HIDE DEF f, next
<1>7. \A a \in lo .. hi : f[a] = g[a]
  <2> DEFINE T == {a \in lo .. hi : f[a] # g[a]}
  <2> SUFFICES ASSUME T # {}
               PROVE  FALSE
    OBVIOUS
  <2>1. T \in SUBSET Nat
    OBVIOUS
  <2>2. PICK a \in T : \A c \in T : a <= c
    BY <2>1, LeastPlace
  <2>3. a # lo
    BY <1>4, <1>6, <2>2
  <2>4. a \in lo .. hi /\ a - 1 \in lo .. hi /\ g[a] = next(a, g[a - 1])
    BY <1>3, <2>2, <2>3
  <2>5. f[a - 1] = g[a - 1]
    <3>1. a - 1 \notin T
      BY <2>2, <2>4
    <3>. QED  BY <2>4, <3>1
  <2>6. f[a] = next(a, f[a - 1])
    BY <1>6, <2>3, <2>4
  <2>. QED  BY <2>2, <2>4, <2>5, <2>6
<1>. QED  BY <1>1, <1>7 DEF g

-----------------------------------------------------------------------------
(* The chunks of an interval                                               *)

\* The parts of an interval of units are its pages.
LEMMA PartsArePages ==
  ASSUME NEW units \in SUBSET [id : Nat, addr : Nat], units # {}, Solid(units),
         NEW m \in Nat, \A u \in units : u.addr <= m, NEW size \in Nat \ {0},
         NEW p \in PageChunks(units, size)
  PROVE  /\ p # {} /\ p \subseteq units /\ Solid(p) /\ \E u \in p : u.addr = MinAddr(p)
         /\ \A u \in p, v \in units : v \in p <=> u.addr \div size = v.addr \div size
<1> DEFINE addrs == {u.addr : u \in units}
           end == ChunkEnds(addrs, size)
           lo == Min(addrs)
           hi == Max(addrs)
<1>1. \A u \in units : u.addr \in Nat /\ u.addr \in addrs
  OBVIOUS
<1>2. addrs \in SUBSET Nat /\ addrs # {} /\ \A a \in addrs : a <= m
  OBVIOUS
<1>3. \A a \in addrs : \E u \in units : u.addr = a
  OBVIOUS
<1>p. PageChunks(units, size) = {{u \in units : end[u.addr] = e} : e \in {end[u.addr] : u \in units}}
  BY DEF PageChunks
<1> HIDE DEF addrs
<1>4. lo \in addrs /\ hi \in addrs /\ \A a \in addrs : lo <= a /\ a <= hi
  BY <1>2, Extremes
<1> HIDE DEF lo, hi
<1>5. lo \in Nat /\ hi \in Nat /\ lo <= hi
  BY <1>2, <1>4
<1>6. addrs = lo .. hi
  <2>1. PICK u \in units : u.addr = lo
    BY <1>3, <1>4
  <2>2. PICK v \in units : v.addr = hi
    BY <1>3, <1>4
  <2>3. \A x \in lo .. hi : x \in addrs
    BY <1>1, <2>1, <2>2 DEF Solid
  <2>4. \A a \in addrs : a \in lo .. hi
    BY <1>2, <1>4, <1>5
  <2>. QED  BY <2>3, <2>4
<1>7. \A a \in addrs : end[a] = size * (a \div size) + (size - 1)
  BY <1>5, <1>6, ChunksEndWithPages DEF lo, hi
<1> HIDE DEF end
<1>8. \A a, c \in addrs : end[a] = end[c] <=> a \div size = c \div size
  <2> SUFFICES ASSUME NEW a \in addrs, NEW c \in addrs
               PROVE  end[a] = end[c] <=> a \div size = c \div size
    OBVIOUS
  <2> DEFINE x == a \div size
             y == c \div size
  <2>1. x \in Nat /\ y \in Nat
    <3>1. a \in Nat /\ c \in Nat
      BY <1>2
    <3>. QED  BY <3>1, Blocks
  <2>2. end[a] = size * x + (size - 1) /\ end[c] = size * y + (size - 1)
    BY <1>7
  <2> HIDE DEF x, y
  <2>3. ASSUME size * x + (size - 1) = size * y + (size - 1)
        PROVE  x = y
    <3>1. size * x = size * y /\ size * x \in Nat
      BY <2>1, <2>3
    <3>2. CASE x < y
      <4>1. size * (x + 1) <= size * y /\ size * (x + 1) = size * x + size
        <5>1. x + 1 \in Nat /\ x + 1 <= y
          BY <2>1, <3>2
        <5>. QED  BY <2>1, <5>1, Times
      <4>. QED  BY <3>1, <4>1
    <3>3. CASE y < x
      <4>1. size * (y + 1) <= size * x /\ size * (y + 1) = size * y + size
        <5>1. y + 1 \in Nat /\ y + 1 <= x
          BY <2>1, <3>3
        <5>. QED  BY <2>1, <5>1, Times
      <4>. QED  BY <3>1, <4>1
    <3>. QED  BY <2>1, <3>2, <3>3
  <2>4. end[a] = end[c] <=> x = y
    BY <2>2, <2>3
  <2>. QED  BY <2>4 DEF x, y
<1>9. PICK z \in units : p = {u \in units : end[u.addr] = end[z.addr]}
  BY <1>p
<1>10. p # {} /\ p \subseteq units
  BY <1>9
<1>11. \A u \in p, v \in units : v \in p <=> u.addr \div size = v.addr \div size
  BY <1>1, <1>8, <1>9
<1>12. Solid(p)
  <2> SUFFICES ASSUME NEW u \in p, NEW v \in p, NEW x \in u.addr .. v.addr
               PROVE  \E w \in p : w.addr = x
    BY DEF Solid
  <2>1. PICK w \in units : w.addr = x
    BY <1>10 DEF Solid
  <2> DEFINE q == u.addr \div size
  <2>2. u.addr \in Nat /\ v.addr \in Nat /\ x \in Nat /\ u.addr <= x /\ x <= v.addr
    BY <1>1, <1>10
  <2>3. q \in Nat /\ u.addr % size \in 0 .. size - 1 /\ u.addr = size * q + (u.addr % size)
    BY <2>2, Blocks
  <2>4. v.addr \div size = q
    BY <1>10, <1>11
  <2>5. v.addr % size \in 0 .. size - 1 /\ v.addr = size * (v.addr \div size) + (v.addr % size)
    BY <2>2, Blocks
  <2> HIDE DEF q
  <2>6. size * q \in Nat /\ size * q <= u.addr /\ v.addr < size * q + size
    <3>1. size * q \in Nat
      BY <2>3
    <3>. QED  BY <2>2, <2>3, <2>4, <2>5, <3>1
  <2>7. size * q <= x /\ x < size * q + size
    BY <2>2, <2>6
  <2>8. q = x \div size
    BY <2>2, <2>3, <2>7, Blocks
  <2>9. w \in p
    <3>1. u.addr \div size = w.addr \div size
      BY <2>1, <2>8 DEF q
    <3>. QED  BY <1>11, <3>1
  <2>. QED  BY <2>1, <2>9
<1>13. \E u \in p : u.addr = MinAddr(p)
  <2> DEFINE A == {u.addr : u \in p}
  <2>1. A \in SUBSET Nat /\ A # {} /\ \A a \in A : a <= m
    BY <1>1, <1>10
  <2>2. \A a \in A : \E u \in p : u.addr = a
    OBVIOUS
  <2>3. MinAddr(p) = Min(A)
    BY DEF MinAddr
  <2> HIDE DEF A
  <2>. QED  BY <2>1, <2>2, <2>3, Extremes
<1>. QED  BY <1>10, <1>11, <1>12, <1>13

-----------------------------------------------------------------------------
(* The path of an address                                                  *)

\* What WalkAssumption says of the steps.
LEMMA StepsAre ==
  /\ SplitCount \in Nat /\ SplitCount >= 2 /\ Steps = 0 .. SplitCount - 1
  /\ RootEntry \in PTE /\ 0 \in Indexes
<1>1. SplitCount \in Nat /\ SplitCount >= 2 /\ Steps = 0 .. SplitCount - 1
  BY WalkAssumption DEF SplitCount, Steps
<1>2. RootEntry \in PTE
  BY WalkAssumption DEF RootEntry, PTE
<1>3. 1 \in DOMAIN Splits /\ Splits[1] \in Nat \ {0}
  BY <1>1, WalkAssumption DEF SplitCount
<1>4. 0 \in Indexes
  BY <1>3 DEF Indexes
<1>. QED  BY <1>1, <1>2, <1>4

\* virt_addr_to_pte_offset stays within the table.
LEMMA IndexInTable ==
  ASSUME NEW a \in Nat, NEW s \in 0 .. SplitCount - 1
  PROVE  PteIndex(a, s) \in Indexes
<1>1. s + 1 \in 0 .. SplitCount /\ s + 1 \in DOMAIN Splits
  BY StepsAre, WalkAssumption DEF SplitCount
<1>2. Splits[s + 1] \in Nat \ {0} /\ PageSizeStep(s + 1) \in Nat \ {0}
  BY <1>1, PageSizeSteps
<1> DEFINE x == a \div PageSizeStep(s + 1)
<1>3. x \in Nat
  BY <1>2, Blocks
<1> HIDE DEF x
<1>4. x % Splits[s + 1] \in 0 .. Splits[s + 1] - 1
  BY <1>2, <1>3, Blocks
<1>. QED  BY <1>1, <1>4 DEF PteIndex, Indexes, x

\* What is read at a place is an entry.
LEMMA HadEntries ==
  ASSUME SeenType, NEW t, NEW i \in Indexes
  PROVE  Had(t, i) \subseteq PTE
BY WalkAssumption DEF Had, SeenType

\* What is read below some entries are entries.
LEMMA BelowEntries ==
  ASSUME SeenType, NEW u, u.addr \in Nat, NEW D, NEW s \in Steps \ {0}
  PROVE  Below(D, u, s) \in SUBSET PTE
<1>1. s - 1 \in 0 .. SplitCount - 1
  BY StepsAre
<1>2. PteIndex(u.addr, s - 1) \in Indexes
  BY <1>1, IndexInTable
<1>3. \A e : Had(e.to, PteIndex(u.addr, s - 1)) \subseteq PTE
  BY <1>2, HadEntries
<1>. QED  BY <1>3 DEF Below

\* The path goes down from the root's entry, step by step.
PathDown(u) ==
  /\ Path(u)[0] = {RootEntry}
  /\ \A s \in Steps \ {0} : Path(u)[s] = Below(Path(u)[s - 1], u, s)
  /\ \A s \in Steps : Path(u)[s] \subseteq PTE

PathsDown == \A u : u.addr \in Nat => PathDown(u)

\* The recursion of Path is a function: it computes what it says.
LEMMA PathsGoDown == SeenType => PathsDown
<1> SUFFICES ASSUME SeenType, NEW u, u.addr \in Nat
             PROVE  PathDown(u)
  BY DEF PathsDown
<1> DEFINE K == SplitCount - 1
           S == SUBSET PTE
           G == [x \in S \X Nat |-> IF x[2] \in 1 .. K THEN Below(x[1], u, x[2]) ELSE {}]
           f == CHOOSE entries : entries =
                  [s \in Steps |-> IF s = 0 THEN {RootEntry} ELSE Below(entries[s - 1], u, s)]
<1>1. K \in Nat /\ Steps = 0 .. K /\ \A s : s \in Steps \ {0} <=> s \in 1 .. K
  BY StepsAre
<1>2. \A D, s : s \in 1 .. K => Below(D, u, s) \in S
  <2> SUFFICES ASSUME NEW D, NEW s, s \in 1 .. K
               PROVE  Below(D, u, s) \in S
    OBVIOUS
  <2>1. s \in Steps \ {0}
    BY <1>1
  <2>. QED  BY <2>1, BelowEntries
<1>3. Path(u) = f
  BY DEF Path
<1> HIDE DEF K
<1>4. G \in [S \X Nat -> S]
  <2>1. \A x \in S \X Nat : (IF x[2] \in 1 .. K THEN Below(x[1], u, x[2]) ELSE {}) \in S
    BY <1>2
  <2> HIDE DEF S
  <2>. QED  BY <2>1
<1>5. \A s \in 1 .. K, D \in S : G[<<D, s>>] = Below(D, u, s)
  BY <1>1
<1> HIDE DEF G
<1>6. {RootEntry} \in S
  BY StepsAre
<1> HIDE DEF S
<1>7. PICK b : Computed(S, {RootEntry}, G, K, b)
  BY <1>1, <1>4, <1>6, RecursionExists
<1>8. b \in [0 .. K -> S] /\ b[0] = {RootEntry} /\ \A s \in 1 .. K : b[s] = Below(b[s - 1], u, s)
  <2>1. b \in [0 .. K -> S] /\ b[0] = {RootEntry} /\ \A s \in 1 .. K : b[s] = G[<<b[s - 1], s>>]
    BY <1>7 DEF Computed
  <2>2. \A s \in 1 .. K : b[s - 1] \in S
    BY <1>1, <2>1
  <2>. QED  BY <1>5, <2>1, <2>2
<1>9. b = [s \in Steps |-> IF s = 0 THEN {RootEntry} ELSE Below(b[s - 1], u, s)]
  <2>1. \A s \in 0 .. K : b[s] = IF s = 0 THEN {RootEntry} ELSE Below(b[s - 1], u, s)
    BY <1>1, <1>8
  <2>. QED  BY <1>1, <1>8, <2>1
<1>10. f = [s \in Steps |-> IF s = 0 THEN {RootEntry} ELSE Below(f[s - 1], u, s)]
  BY <1>9
<1> HIDE DEF f
<1>11. f[0] = {RootEntry} /\ \A s \in Steps \ {0} : f[s] = Below(f[s - 1], u, s)
  <2>1. 0 \in Steps
    BY <1>1
  <2>2. \A s \in Steps : f[s] = IF s = 0 THEN {RootEntry} ELSE Below(f[s - 1], u, s)
    BY <1>10
  <2>. QED  BY <2>1, <2>2
<1>12. \A s \in Steps : f[s] \in S
  <2>1. \A s \in Steps \ {0} : f[s] \in S
    BY <1>1, <1>2, <1>11
  <2>. QED  BY <1>6, <1>11, <2>1
<1>13. \A s \in Steps : f[s] \subseteq PTE
  BY <1>12 DEF S
<1>. QED  BY <1>3, <1>11, <1>13 DEF PathDown

LEMMA PathsGoDownNext == SeenType' => PathsDown'
BY PathsGoDown, PTL

\* What the guest changes only adds to the paths.
LEMMA PathsGrow ==
  ASSUME SeenType, SeenType',
         \A t \in Tables, i \in Indexes : seen[t][i] \subseteq seen'[t][i],
         NEW u, u.addr \in Nat
  PROVE  \A s \in Steps : Path(u)[s] \subseteq Path(u)'[s]
<1>1. PathDown(u)
  BY PathsGoDown DEF PathsDown
<1>2. PathDown(u)'
  BY PathsGoDownNext DEF PathsDown
<1> DEFINE Open(D, s) == {d \in D : CheckEntry(d, s - 1) /\ ~IsFinalMapping(d, s - 1)}
<1>p. PICK P : P = Path(u)
  OBVIOUS
<1>q. PICK Q : Q = Path(u)'
  OBVIOUS
<1>3. P[0] = {RootEntry} /\ \A s \in Steps \ {0} : P[s] = UNION {Had(e.to, PteIndex(u.addr, s - 1)) : e \in Open(P[s - 1], s)}
  BY <1>1, <1>p DEF PathDown, Below
<1>4. Q[0] = {RootEntry} /\ \A s \in Steps \ {0} : Q[s] = UNION {Had(e.to, PteIndex(u.addr, s - 1))' : e \in Open(Q[s - 1], s)}
  BY <1>2, <1>q DEF PathDown, Below
<1>5. ASSUME NEW s \in Steps \ {0}, P[s - 1] \subseteq Q[s - 1]
      PROVE  P[s] \subseteq Q[s]
  <2>1. s - 1 \in 0 .. SplitCount - 1
    BY StepsAre
  <2>2. PteIndex(u.addr, s - 1) \in Indexes
    BY <2>1, IndexInTable
  <2>3. \A e : Had(e.to, PteIndex(u.addr, s - 1)) \subseteq Had(e.to, PteIndex(u.addr, s - 1))'
    BY <2>2 DEF Had
  <2>4. Open(P[s - 1], s) \subseteq Open(Q[s - 1], s)
    BY <1>5
  <2> DEFINE H(e) == Had(e.to, PteIndex(u.addr, s - 1))
             I(e) == Had(e.to, PteIndex(u.addr, s - 1))'
  <2>5. P[s] = UNION {H(e) : e \in Open(P[s - 1], s)} /\ Q[s] = UNION {I(e) : e \in Open(Q[s - 1], s)}
    BY <1>3, <1>4
  <2>6. \A e : H(e) \subseteq I(e)
    BY <2>3
  <2> HIDE DEF Open, H, I
  <2>7. \A x \in P[s] : \E e \in Open(P[s - 1], s) : x \in H(e)
    BY <2>5
  <2>8. \A e \in Open(Q[s - 1], s) : I(e) \subseteq Q[s]
    BY <2>5
  <2>. QED  BY <2>4, <2>6, <2>7, <2>8
<1> SUFFICES \A s \in Steps : P[s] \subseteq Q[s]
  BY <1>p, <1>q
<1> DEFINE T == {s \in Steps : ~(P[s] \subseteq Q[s])}
<1> SUFFICES ASSUME T # {}
             PROVE  FALSE
  OBVIOUS
<1>6. T \in SUBSET Nat
  BY StepsAre
<1>7. PICK s \in T : \A r \in T : s <= r
  BY <1>6, LeastPlace
<1>8. s # 0
  BY <1>3, <1>4, <1>7
<1>9. s - 1 \in Steps /\ s - 1 \notin T
  BY <1>6, <1>7, <1>8, StepsAre
<1>. QED  BY <1>5, <1>7, <1>8, <1>9

-----------------------------------------------------------------------------
(* The way down: types                                                     *)

\* The buffers of a batch cover some units, up to a greatest address.
LEMMA UnitsOfBatch ==
  ASSUME NEW b \in Batches
  PROVE  /\ Units(b) \subseteq [id : Nat, addr : Nat] /\ Units(b) # {}
         /\ \E m \in Nat : \A u \in Units(b) : u.addr <= m
<1> DEFINE R == [addr : Nat, len : Nat \ {0}]
           N == Len(b)
           to(k) == b[k].addr + b[k].len - 1
           P(n) == \E m \in Nat : \A k \in 1 .. n : to(k) <= m
<1>1. b # <<>> /\ b \in Seq(R)
  BY WalkAssumption
<1>2. N \in Nat /\ N >= 1 /\ DOMAIN b = 1 .. N /\ \A k \in 1 .. N : b[k] \in R
  <2> HIDE DEF R
  <2>1. N \in Nat /\ DOMAIN b = 1 .. N /\ \A k \in 1 .. N : b[k] \in R
    BY <1>1
  <2>2. N # 0
    BY <1>1, EmptySeq
  <2>. QED  BY <2>1, <2>2
<1>3. \A k \in 1 .. N : b[k].addr \in Nat /\ b[k].len \in Nat \ {0} /\ to(k) \in Nat /\ b[k].addr <= to(k)
  BY <1>2
<1>4. \A u \in Units(b) : \E k \in 1 .. N : u \in [id : {k}, addr : b[k].addr .. to(k)]
  BY <1>2 DEF Units
<1>5. \A k \in 1 .. N : [id : {k}, addr : b[k].addr .. to(k)] \subseteq Units(b)
  BY <1>2 DEF Units
<1> HIDE DEF to
<1>6. P(N)
  <2> DEFINE T == {n \in 0 .. N : ~P(n)}
  <2>n. N \in 0 .. N
    BY <1>2
  <2> SUFFICES ASSUME T # {}
               PROVE  FALSE
    <3> HIDE DEF P, N
    <3>. QED  BY <2>n
  <2>1. T \in SUBSET Nat
    BY <1>2
  <2> HIDE DEF T
  <2>2. PICK n \in T : \A j \in T : n <= j
    BY <2>1, LeastPlace
  <2>t. \A j : j \in T <=> j \in 0 .. N /\ ~P(j)
    BY DEF T
  <2> HIDE DEF N
  <2>3. n # 0
    <3>1. P(0)
      <4>1. \A k \in 1 .. 0 : to(k) <= 0
        OBVIOUS
      <4>. QED  BY <4>1
    <3>. QED  BY <2>2, <3>1, <2>t
  <2>4. n - 1 \in 0 .. N /\ n - 1 \notin T /\ n \in 1 .. N
    BY <1>2, <2>1, <2>2, <2>3, <2>t
  <2>5. PICK m \in Nat : \A k \in 1 .. n - 1 : to(k) <= m
    <3>1. P(n - 1)
      BY <2>4, <2>t
    <3>. QED  BY <3>1
  <2>6. to(n) \in Nat /\ \A k \in 1 .. n : to(k) \in Nat
    <3>1. \A k \in 1 .. n : k \in 1 .. N
      BY <1>2, <2>4
    <3>. QED  BY <1>3, <2>4, <3>1
  <2> DEFINE x == m + to(n)
  <2>7. x \in Nat /\ \A k \in 1 .. n : to(k) <= x
    <3>1. \A k \in 1 .. n : k = n \/ k \in 1 .. n - 1
      BY <1>2, <2>4
    <3>2. \A k \in 1 .. n - 1 : to(k) <= x
      <4> SUFFICES ASSUME NEW k \in 1 .. n - 1
                   PROVE  to(k) <= x
        OBVIOUS
      <4>1. k \in 1 .. n
        BY <1>2, <2>4
      <4>2. to(k) \in Nat /\ to(k) <= m
        BY <2>5, <2>6, <4>1
      <4>. QED  BY <2>5, <2>6, <4>2
    <3>. QED  BY <2>5, <2>6, <3>1, <3>2
  <2> HIDE DEF x
  <2>8. P(n)
    BY <2>7
  <2>. QED  BY <2>2, <2>8, <2>t
<1>7. PICK m \in Nat : \A k \in 1 .. N : to(k) <= m
  BY <1>6
<1>8. \A u \in Units(b) : u \in [id : Nat, addr : Nat] /\ u.addr <= m
  <2> SUFFICES ASSUME NEW u \in Units(b)
               PROVE  u \in [id : Nat, addr : Nat] /\ u.addr <= m
    OBVIOUS
  <2>1. PICK k \in 1 .. N : u \in [id : {k}, addr : b[k].addr .. to(k)]
    BY <1>4
  <2>2. to(k) \in Nat /\ to(k) <= m /\ b[k].addr \in Nat /\ k \in Nat
    BY <1>2, <1>3, <1>7
  <2>. QED  BY <2>1, <2>2
<1>9. Units(b) # {}
  <2>1. 1 \in 1 .. N
    BY <1>2
  <2>2. b[1].addr \in Nat /\ to(1) \in Nat /\ b[1].addr <= to(1)
    BY <1>3, <2>1
  <2>3. [id |-> 1, addr |-> b[1].addr] \in [id : {1}, addr : b[1].addr .. to(1)]
    BY <2>2
  <2>. QED  BY <1>5, <2>1, <2>3
<1>. QED  BY <1>8, <1>9

LEMMA InitTypes ==
  ASSUME Init
  PROVE  WalkTypes
<1>1. tables \in [Tables -> [Indexes -> PTE]]
  BY WalkAssumption DEF Init
<1>2. SeenType
  BY DEF Init, SeenType
<1>3. phase = "idle" /\ step = 0 /\ todo = {} /\ reading = {} /\ out = {} /\ fail = {} /\ batch = {} /\ broken = FALSE
  BY DEF Init
<1>4. TypeOK
  <2>1. phase \in {"idle", "split", "read"} /\ step \in Steps
    BY <1>3, StepsAre
  <2>2. /\ \A c \in todo : c.pte \in PTE /\ c.at \in (Tables \cup Frames) \X Indexes /\ c.units \subseteq batch
        /\ reading \subseteq todo /\ fail \subseteq batch /\ broken \in BOOLEAN
        /\ \A o \in out : o.unit \in batch /\ o.frame \in Tables \cup Frames /\ o.off \in Nat
    BY <1>3
  <2>. QED  BY <1>1, <2>1, <2>2 DEF TypeOK
<1>5. batch \subseteq [id : Nat, addr : Nat] /\ \E m \in Nat : \A u \in batch : u.addr <= m
  <2>1. \A u \in batch : u.addr <= 0
    BY <1>3
  <2>. QED  BY <1>3, <2>1
<1>. QED  BY <1>2, <1>3, <1>4, <1>5 DEF WalkTypes

LEMMA StartTypes ==
  ASSUME WalkTypes, AnsweredInv, NEW b \in Batches, Start(b)
  PROVE  WalkTypes'
<1> DEFINE c == [at |-> <<Root, 0>>, pte |-> RootEntry, units |-> Units(b)]
<1>1. /\ phase = "idle" /\ phase' = "split" /\ step' = 0 /\ todo' = {c} /\ reading' = {}
      /\ out' = {} /\ fail' = {} /\ batch' = Units(b) /\ broken' = FALSE /\ tables' = tables
      /\ seen' = [t \in Tables |-> [i \in Indexes |-> {tables[t][i]}]]
  BY DEF Start, AnsweredInv
<1>2. tables \in [Tables -> [Indexes -> PTE]]
  BY DEF WalkTypes, TypeOK
<1>3. SeenType'
  <2>1. \A t \in Tables, i \in Indexes : tables[t][i] \in PTE
    BY <1>2
  <2>. QED  BY <1>1, <2>1 DEF SeenType
<1>4. /\ c.at \in (Tables \cup Frames) \X Indexes /\ c.pte \in PTE /\ c.units = batch'
      /\ c = [at |-> c.at, pte |-> c.pte, units |-> c.units]
  BY <1>1, StepsAre, WalkAssumption
<1> HIDE DEF c
<1>5. TypeOK'
  <2>1. tables' \in [Tables -> [Indexes -> PTE]] /\ phase' \in {"idle", "split", "read"} /\ step' \in Steps
    BY <1>1, <1>2, StepsAre
  <2>2. \A z \in todo' : z.pte \in PTE /\ z.at \in (Tables \cup Frames) \X Indexes /\ z.units \subseteq batch'
    BY <1>1, <1>4
  <2>3. /\ reading' \subseteq todo' /\ fail' \subseteq batch' /\ broken' \in BOOLEAN
        /\ \A o \in out' : o.unit \in batch' /\ o.frame \in Tables \cup Frames /\ o.off \in Nat
    BY <1>1
  <2>. QED  BY <2>1, <2>2, <2>3 DEF TypeOK
<1>6. batch' \subseteq [id : Nat, addr : Nat] /\ \E m \in Nat : \A u \in batch' : u.addr <= m
  BY <1>1, UnitsOfBatch
<1>. QED  BY <1>1, <1>3, <1>4, <1>5, <1>6 DEF WalkTypes

\* The chunks below one chunk: each at the entry of its least address.
LEMMA DescendShape ==
  ASSUME NEW c, NEW d \in Descend(c)
  PROVE  /\ d = [at |-> <<c.pte.to, PteIndex(MinAddr(d.units), step)>>, pte |-> c.pte, units |-> d.units]
         /\ d.units \in PageChunks(c.units, PageSizeStep(step + 1))
         /\ d.units # {} /\ d.units \subseteq c.units
<1>1. PICK p \in PageChunks(c.units, PageSizeStep(step + 1)) :
        d = [at |-> <<c.pte.to, PteIndex(MinAddr(p), step)>>, pte |-> c.pte, units |-> p]
  BY DEF Descend
<1>2. p \subseteq c.units
  BY PageChunksPartition
<1>3. p # {}
  <2> DEFINE end == ChunkEnds({u.addr : u \in c.units}, PageSizeStep(step + 1))
  <2>1. PageChunks(c.units, PageSizeStep(step + 1)) =
          {{u \in c.units : end[u.addr] = e} : e \in {end[u.addr] : u \in c.units}}
    BY DEF PageChunks
  <2> HIDE DEF end
  <2>2. PICK u \in c.units : p = {v \in c.units : end[v.addr] = end[u.addr]}
    BY <2>1
  <2>. QED  BY <2>2
<1>. QED  BY <1>1, <1>2, <1>3

\* The least address of some units of the batch.
LEMMA LeastAddress ==
  ASSUME WalkTypes, NEW units, units \subseteq batch, units # {}
  PROVE  MinAddr(units) \in Nat /\ \E u \in units : u.addr = MinAddr(units)
<1> DEFINE A == {u.addr : u \in units}
<1>1. PICK m \in Nat : \A u \in batch : u.addr <= m
  BY DEF WalkTypes
<1>2. batch \subseteq [id : Nat, addr : Nat]
  BY DEF WalkTypes
<1>3. A \in SUBSET Nat /\ A # {} /\ \A a \in A : a <= m
  BY <1>1, <1>2
<1>4. \A a \in A : \E u \in units : u.addr = a
  OBVIOUS
<1>5. MinAddr(units) = Min(A)
  BY DEF MinAddr
<1> HIDE DEF A
<1>. QED  BY <1>3, <1>4, <1>5, Extremes

LEMMA SplitTypes ==
  ASSUME WalkTypes, Split
  PROVE  WalkTypes'
<1> DEFINE failing == {c \in todo : ~CheckEntry(c.pte, step)}
           final == {c \in todo \ failing : IsFinalMapping(c.pte, step)}
           rest == todo \ (failing \cup final)
           below == UNION {Descend(c) : c \in rest}
           given == UNION {{GetPhysPage(c, u) : u \in c.units} : c \in final}
<1>1. /\ fail' = fail \cup UnitsOf(failing) /\ out' = out \cup given
      /\ todo' = below /\ reading' = below /\ batch' = batch /\ step' = step
      /\ tables' = tables /\ seen' = seen /\ broken' = broken
      /\ phase' = IF below = {} THEN "idle" ELSE "read"
  BY DEF Split
<1>2. failing \subseteq todo /\ final \subseteq todo /\ rest \subseteq todo
  OBVIOUS
<1>3. \A c \in rest : ~IsFinalMapping(c.pte, step)
  OBVIOUS
<1>4. \A o \in given : \E c \in final : \E u \in c.units : o = GetPhysPage(c, u)
  OBVIOUS
<1>5. \A d \in below : \E c \in rest : d \in Descend(c)
  OBVIOUS
<1> HIDE DEF failing, final, rest, below, given
<1>6. /\ tables \in [Tables -> [Indexes -> PTE]] /\ step \in Steps /\ broken \in BOOLEAN
      /\ \A c \in todo : c.pte \in PTE /\ c.at \in (Tables \cup Frames) \X Indexes /\ c.units \subseteq batch
      /\ fail \subseteq batch
      /\ \A o \in out : o.unit \in batch /\ o.frame \in Tables \cup Frames /\ o.off \in Nat
  BY DEF WalkTypes, TypeOK
<1>7. batch \subseteq [id : Nat, addr : Nat]
  BY DEF WalkTypes
<1>8. step \in 0 .. SplitCount - 1 /\ step \in 0 .. SplitCount /\ step \in Nat
  BY <1>6, StepsAre
<1>9. \A p \in PTE : p.to \in Tables \cup Frames
  BY DEF PTE
<1>10. \A o \in given : o.unit \in batch /\ o.frame \in Tables \cup Frames /\ o.off \in Nat
  <2> SUFFICES ASSUME NEW o \in given
               PROVE  o.unit \in batch /\ o.frame \in Tables \cup Frames /\ o.off \in Nat
    OBVIOUS
  <2>0. PICK c \in final : \E u \in c.units : o = GetPhysPage(c, u)
    BY <1>4
  <2>1. PICK u \in c.units : o = GetPhysPage(c, u)
    BY <2>0
  <2>2. u \in batch /\ u.addr \in Nat /\ c.pte.to \in Tables \cup Frames
    BY <1>2, <1>6, <1>7, <1>9
  <2>3. PageSizeStep(step) \in Nat \ {0}
    BY <1>8, PageSizeSteps
  <2>4. u.addr % PageSizeStep(step) \in Nat
    <3>1. PICK a, z : a = u.addr /\ z = PageSizeStep(step)
      OBVIOUS
    <3>2. a % z \in 0 .. z - 1
      BY <2>2, <2>3, <3>1, Blocks
    <3>. QED  BY <2>3, <3>1, <3>2
  <2>. QED  BY <2>1, <2>2, <2>4 DEF GetPhysPage, PageOffset
<1>11. ASSUME NEW d \in below
       PROVE  /\ d.pte \in PTE /\ d.at \in (Tables \cup Frames) \X Indexes /\ d.units \subseteq batch
              /\ d = [at |-> d.at, pte |-> d.pte, units |-> d.units]
  <2>1. PICK c \in rest : d \in Descend(c)
    BY <1>5
  <2> DEFINE i == PteIndex(MinAddr(d.units), step)
             p == d.units
  <2>2. d = [at |-> <<c.pte.to, i>>, pte |-> c.pte, units |-> p] /\ p # {} /\ p \subseteq c.units
    BY <2>1, DescendShape
  <2>3. p \subseteq batch /\ c.pte \in PTE /\ c.pte.to \in Tables \cup Frames
    BY <1>2, <1>6, <1>9, <2>2
  <2>4. i \in Indexes
    <3>1. MinAddr(p) \in Nat
      BY <2>2, <2>3, LeastAddress
    <3>. QED  BY <1>8, <3>1, IndexInTable
  <2> HIDE DEF i, p
  <2>. QED  BY <2>2, <2>3, <2>4
<1>12. UnitsOf(failing) \subseteq batch
  BY <1>2, <1>6, UnitsMember
<1>13. TypeOK'
  <2>1. phase' \in {"idle", "split", "read"} /\ reading' \subseteq todo' /\ fail' \subseteq batch'
    BY <1>1, <1>6, <1>12
  <2>2. \A o \in out' : o.unit \in batch' /\ o.frame \in Tables \cup Frames /\ o.off \in Nat
    BY <1>1, <1>6, <1>10
  <2>3. \A c \in todo' : c.pte \in PTE /\ c.at \in (Tables \cup Frames) \X Indexes /\ c.units \subseteq batch'
    BY <1>1, <1>11
  <2>4. tables' \in [Tables -> [Indexes -> PTE]] /\ step' \in Steps /\ broken' \in BOOLEAN
    BY <1>1, <1>6
  <2>. QED  BY <2>1, <2>2, <2>3, <2>4 DEF TypeOK
<1>14. ASSUME below # {}
       PROVE  step < SplitCount - 1
  <2>1. PICK c \in rest : TRUE
    BY <1>5, <1>14
  <2>2. step # SplitCount - 1
    BY <1>3 DEF IsFinalMapping
  <2>. QED  BY <1>8, <2>2, StepsAre
<1>15. phase' = "idle" => todo' = {}
  BY <1>1
<1>16. phase' = "read" => step' < SplitCount - 1
  BY <1>1, <1>14
<1>17. SeenType'
  BY <1>1 DEF WalkTypes, SeenType
<1>18. batch' \subseteq [id : Nat, addr : Nat] /\ \E m \in Nat : \A u \in batch' : u.addr <= m
  BY <1>1 DEF WalkTypes
<1>19. \A c \in todo' : c = [at |-> c.at, pte |-> c.pte, units |-> c.units]
  BY <1>1, <1>11
<1>. QED  BY <1>13, <1>15, <1>16, <1>17, <1>18, <1>19 DEF WalkTypes

\* What is read at a place of a chunk.
LEMMA EntriesRead ==
  ASSUME WalkTypes, NEW c \in todo
  PROVE  EntriesAt(c.at) \subseteq PTE
<1>1. tables \in [Tables -> [Indexes -> PTE]] /\ c.at \in (Tables \cup Frames) \X Indexes
  BY DEF WalkTypes, TypeOK
<1>2. c.at[2] \in Indexes
  BY <1>1
<1>. QED  BY <1>1, <1>2, WalkAssumption DEF EntriesAt

LEMMA ReadEntryTypes ==
  ASSUME WalkTypes, NEW c \in reading, ReadEntry(c)
  PROVE  WalkTypes'
<1>0. PICK pte \in EntriesAt(c.at) : todo' = (todo \ {c}) \cup {[c EXCEPT !.pte = pte]}
  BY DEF ReadEntry
<1> DEFINE got == [c EXCEPT !.pte = pte]
<1>1. /\ reading' = reading \ {c} /\ todo' = (todo \ {c}) \cup {got}
      /\ out' = out /\ fail' = fail /\ batch' = batch /\ phase' = phase /\ phase = "read" /\ step' = step
      /\ tables' = tables /\ seen' = seen /\ broken' = broken
  BY <1>0 DEF ReadEntry
<1>2. TypeOK
  BY DEF WalkTypes
<1>3. c \in todo /\ c = [at |-> c.at, pte |-> c.pte, units |-> c.units] /\ pte \in PTE
  BY <1>2, EntriesRead DEF TypeOK, WalkTypes
<1>4. got = [at |-> c.at, pte |-> pte, units |-> c.units]
  BY <1>3
<1> HIDE DEF got
<1>5. /\ got.pte \in PTE /\ got.at = c.at /\ got.units = c.units
      /\ got = [at |-> got.at, pte |-> got.pte, units |-> got.units]
  BY <1>3, <1>4
<1>6. \A z \in todo' : z.pte \in PTE /\ z.at \in (Tables \cup Frames) \X Indexes /\ z.units \subseteq batch
  BY <1>1, <1>2, <1>3, <1>5 DEF TypeOK
<1>7. reading' \subseteq todo'
  BY <1>1, <1>2 DEF TypeOK
<1>8. TypeOK'
  BY <1>1, <1>2, <1>6, <1>7 DEF TypeOK
<1>9. \A z \in todo' : z = [at |-> z.at, pte |-> z.pte, units |-> z.units]
  BY <1>1, <1>5 DEF WalkTypes
<1>. QED  BY <1>1, <1>8, <1>9 DEF WalkTypes, SeenType

LEMMA ReadFailsTypes ==
  ASSUME WalkTypes, ReadFails
  PROVE  WalkTypes'
<1>1. /\ fail' = fail \cup UnitsOf(todo) /\ todo' = {} /\ reading' = {} /\ phase' = "idle" /\ broken' = TRUE
      /\ tables' = tables /\ step' = step /\ out' = out /\ batch' = batch /\ seen' = seen
  BY DEF ReadFails
<1>2. TypeOK
  BY DEF WalkTypes
<1>3. fail' \subseteq batch
  BY <1>1, <1>2, UnitsMember DEF TypeOK
<1>4. TypeOK'
  BY <1>1, <1>2, <1>3 DEF TypeOK
<1>. QED  BY <1>1, <1>4 DEF WalkTypes, SeenType

LEMMA FilterTypes ==
  ASSUME WalkTypes, NEW keep \in SUBSET todo, FilterDuplicates(keep)
  PROVE  WalkTypes'
<1>1. /\ fail' = fail \cup UnitsOf(todo \ keep) /\ todo' = keep /\ reading' = {} /\ phase = "read" /\ phase' = "split"
      /\ step' = step + 1 /\ out' = out /\ batch' = batch
      /\ tables' = tables /\ seen' = seen /\ broken' = broken
  BY DEF FilterDuplicates
<1>2. TypeOK
  BY DEF WalkTypes
<1>3. fail' \subseteq batch
  BY <1>1, <1>2, UnitsMember DEF TypeOK
<1>4. step' \in Steps
  <2>1. step < SplitCount - 1 /\ step \in Steps
    BY <1>1, <1>2 DEF WalkTypes, TypeOK
  <2>. QED  BY <1>1, <2>1, StepsAre
<1>5. TypeOK'
  BY <1>1, <1>2, <1>3, <1>4 DEF TypeOK
<1>. QED  BY <1>1, <1>5 DEF WalkTypes, SeenType

LEMMA RemapTypes ==
  ASSUME WalkTypes, NEW m \in Remaps, Remap(m)
  PROVE  /\ WalkTypes'
         /\ \A t \in Tables, i \in Indexes : seen[t][i] \subseteq seen'[t][i]
         /\ \A t \in Tables, i \in Indexes : tables[t][i] \in seen[t][i] => tables'[t][i] \in seen'[t][i]
<1>1. /\ tables' = [tables EXCEPT ![m.table][m.index] = m.pte]
      /\ seen' = [seen EXCEPT ![m.table][m.index] = @ \cup {m.pte}]
      /\ UNCHANGED <<phase, step, todo, reading, out, fail, batch, broken>>
  BY DEF Remap
<1>2. TypeOK /\ SeenType
  BY DEF WalkTypes
<1>3. tables \in [Tables -> [Indexes -> PTE]] /\ seen \in [Tables -> [Indexes -> SUBSET PTE]]
  BY <1>2 DEF TypeOK, SeenType
<1>4. PICK T, I, p : T = m.table /\ I = m.index /\ p = m.pte
  OBVIOUS
<1>5. T \in Tables /\ I \in Indexes /\ p \in PTE
  <2>1. m \in [table : Tables, index : Indexes, pte : PTE]
    BY WalkAssumption
  <2>. QED  BY <1>4, <2>1
<1>6. /\ tables' = [tables EXCEPT ![T][I] = p]
      /\ seen' = [seen EXCEPT ![T][I] = seen[T][I] \cup {p}]
  BY <1>1, <1>3, <1>4, <1>5
<1>7. \A t \in Tables, i \in Indexes :
        /\ tables'[t][i] = IF t = T /\ i = I THEN p ELSE tables[t][i]
        /\ seen'[t][i] = IF t = T /\ i = I THEN seen[T][I] \cup {p} ELSE seen[t][i]
  BY <1>3, <1>5, <1>6
<1>8. tables' \in [Tables -> [Indexes -> PTE]]
  BY <1>3, <1>5, <1>6
<1>9. seen' \in [Tables -> [Indexes -> SUBSET PTE]]
  <2>1. seen[T][I] \cup {p} \in SUBSET PTE
    BY <1>3, <1>5
  <2> DEFINE s == seen[T][I] \cup {p}
             V == SUBSET PTE
  <2>2. seen' = [seen EXCEPT ![T][I] = s] /\ s \in V /\ seen \in [Tables -> [Indexes -> V]]
    BY <1>3, <1>6, <2>1
  <2> HIDE DEF s, V
  <2>3. seen' \in [Tables -> [Indexes -> V]]
    BY <1>5, <2>2
  <2>. QED  BY <2>3 DEF V
<1>10. TypeOK'
  BY <1>1, <1>2, <1>8 DEF TypeOK
<1>11. WalkTypes'
  BY <1>1, <1>9, <1>10 DEF WalkTypes, SeenType
<1>12. \A t \in Tables, i \in Indexes : seen[t][i] \subseteq seen'[t][i]
  BY <1>7
<1>13. \A t \in Tables, i \in Indexes : tables[t][i] \in seen[t][i] => tables'[t][i] \in seen'[t][i]
  BY <1>7
<1>. QED  BY <1>11, <1>12, <1>13

-----------------------------------------------------------------------------
(* The way down: the steps                                                 *)

\* What the guest had set stays among what an address could have met.
LEMMA WalksGrow ==
  ASSUME WalkTypes, WalkTypes', batch' = batch,
         \A t \in Tables, i \in Indexes : seen[t][i] \subseteq seen'[t][i]
  PROVE  \A u \in batch :
           /\ \A s \in Steps : Path(u)[s] \subseteq Path(u)'[s]
           /\ \A o \in Translations(u) : o \in Translations(u)'
           /\ Missing(u) => Missing(u)'
           /\ Ambiguous(u) => Ambiguous(u)'
<1>1. \A u \in batch : u.addr \in Nat
  BY DEF WalkTypes
<1>2. \A u \in batch : \A s \in Steps : Path(u)[s] \subseteq Path(u)'[s]
  BY <1>1, PathsGrow DEF WalkTypes
<1>3. ASSUME NEW u \in batch
      PROVE  /\ \A o \in Translations(u) : o \in Translations(u)'
             /\ Missing(u) => Missing(u)'
  <2>1. PICK P : P = Path(u)
    OBVIOUS
  <2>2. PICK Q : Q = Path(u)'
    OBVIOUS
  <2>3. \A s \in Steps : P[s] \subseteq Q[s]
    BY <1>2, <2>1, <2>2
  <2>4. \A o \in Translations(u) : o \in Translations(u)'
    BY <2>1, <2>2, <2>3 DEF Translations
  <2>5. Missing(u) => Missing(u)'
    BY <2>1, <2>2, <2>3 DEF Missing
  <2>. QED  BY <2>4, <2>5
<1>4. ASSUME NEW u \in batch, Ambiguous(u)
      PROVE  Ambiguous(u)'
  <2>1. PICK s \in Steps \ {0} : \E e \in Path(u)[s] :
           \/ \E v \in batch : /\ e \in Path(v)[s]
                               /\ u.addr \div PageSizeStep(s) # v.addr \div PageSizeStep(s)
           \/ \E d \in Path(u)[s - 1] : d.to = e.to
    BY <1>4 DEF Ambiguous
  <2>2. PICK e \in Path(u)[s] :
           \/ \E v \in batch : /\ e \in Path(v)[s]
                               /\ u.addr \div PageSizeStep(s) # v.addr \div PageSizeStep(s)
           \/ \E d \in Path(u)[s - 1] : d.to = e.to
    BY <2>1
  <2>3. s \in Steps /\ s - 1 \in Steps /\ e \in Path(u)'[s]
    BY <1>2, <2>2, StepsAre
  <2>4. CASE \E v \in batch : /\ e \in Path(v)[s]
                              /\ u.addr \div PageSizeStep(s) # v.addr \div PageSizeStep(s)
    <3>1. \E v \in batch' : /\ e \in Path(v)'[s]
                            /\ u.addr \div PageSizeStep(s) # v.addr \div PageSizeStep(s)
      BY <1>2, <2>3, <2>4
    <3>. QED  BY <2>3, <3>1 DEF Ambiguous
  <2>5. CASE \E d \in Path(u)[s - 1] : d.to = e.to
    <3>1. \E d \in Path(u)'[s - 1] : d.to = e.to
      BY <1>2, <2>3, <2>5
    <3>. QED  BY <2>3, <3>1 DEF Ambiguous
  <2>. QED  BY <2>2, <2>4, <2>5
<1>. QED  BY <1>2, <1>3, <1>4

\* A walk starts with one chunk, which has no gaps if the batch has none.
LEMMA StartWalks ==
  ASSUME WalkInv, NEW b \in Batches, Start(b)
  PROVE  WalkInv'
<1> DEFINE c == [at |-> <<Root, 0>>, pte |-> RootEntry, units |-> Units(b)]
<1>1. /\ phase = "idle" /\ phase' = "split" /\ step' = 0 /\ todo' = {c} /\ reading' = {}
      /\ out' = {} /\ fail' = {} /\ batch' = Units(b) /\ broken' = FALSE /\ tables' = tables
      /\ seen' = [t \in Tables |-> [i \in Indexes |-> {tables[t][i]}]]
  BY DEF Start, WalkInv, AnsweredInv
<1>2. WalkTypes'
  BY StartTypes DEF WalkInv
<1>3. AnsweredInv'
  BY StartAnswers DEF WalkInv
<1>4. SeenNow'
  BY <1>1 DEF SeenNow
<1>5. SoundIfContiguous' /\ FailuresJustified'
  BY <1>1 DEF SoundIfContiguous, Sound, FailuresJustified
<1>6. c.pte = RootEntry /\ c.units = batch'
  BY <1>1
<1> HIDE DEF c
<1>7. PathsDown'
  BY <1>2, PathsGoDownNext DEF WalkTypes
<1>8. \A u \in batch' : u.addr \in Nat
  BY <1>2 DEF WalkTypes
<1>9. OnPath'
  <2>1. \A u \in batch' : RootEntry \in Path(u)'[0]
    BY <1>7, <1>8 DEF PathsDown, PathDown
  <2>. QED  BY <1>1, <1>6, <2>1 DEF OnPath
<1>10. Contiguous' => ChunksArePages'
  <2> SUFFICES ASSUME Contiguous'
               PROVE  ChunksArePages'
    OBVIOUS
  <2>1. PICK B : B = batch'
    OBVIOUS
  <2> DEFINE A == {u.addr : u \in B}
  <2>2. B # {}
    BY <1>1, <2>1, UnitsOfBatch
  <2>3. A = Min(A) .. Max(A)
    BY <2>1, <2>2 DEF Contiguous
  <2>4. PICK m \in Nat : \A u \in B : u.addr <= m
    BY <1>2, <2>1 DEF WalkTypes
  <2>5. A \in SUBSET Nat /\ A # {} /\ \A a \in A : a <= m
    BY <1>8, <2>1, <2>2, <2>4
  <2>6. \A u \in B : u.addr \in A
    OBVIOUS
  <2>7. \A a \in A : \E u \in B : u.addr = a
    OBVIOUS
  <2> HIDE DEF A
  <2>8. Min(A) \in A /\ Max(A) \in A /\ \A a \in A : Min(A) <= a /\ a <= Max(A)
    BY <2>5, Extremes
  <2>9. Solid(B)
    <3> SUFFICES ASSUME NEW u \in B, NEW v \in B, NEW x \in u.addr .. v.addr
                 PROVE  \E w \in B : w.addr = x
      BY DEF Solid
    <3>a. u.addr \in Nat /\ v.addr \in Nat
      BY <1>8, <2>1
    <3>b. Min(A) \in Nat /\ Max(A) \in Nat
      BY <2>5, <2>8
    <3>1. u.addr \in Nat /\ v.addr \in Nat /\ x \in Nat /\ Min(A) \in Nat /\ Max(A) \in Nat /\ u.addr <= x /\ x <= v.addr
      BY <3>a, <3>b
    <3>2. Min(A) <= u.addr /\ v.addr <= Max(A)
      BY <2>6, <2>8
    <3>3. x \in Min(A) .. Max(A)
      BY <3>1, <3>2
    <3>. QED  BY <2>3, <2>7, <3>3
  <2>10. Level' = 0
    BY <1>1 DEF Level
  <2>11. \A u, v : SamePage(u, v, Level')
    BY <2>10 DEF SamePage
  <2>12. \A u, v : SamePage(u, v, Level)'
    BY <2>11 DEF SamePage
  <2>. QED  BY <1>1, <1>6, <2>1, <2>2, <2>9, <2>12 DEF ChunksArePages, Solid
<1>. QED  BY <1>2, <1>3, <1>4, <1>5, <1>9, <1>10 DEF WalkInv

LEMMA InitWalks ==
  ASSUME Init
  PROVE  WalkInv
<1>1. phase = "idle" /\ todo = {} /\ out = {} /\ fail = {}
  BY DEF Init
<1>. QED  BY <1>1, InitTypes, AnsweredInit
          DEF WalkInv, SeenNow, ChunksArePages, OnPath, SoundIfContiguous, Sound, FailuresJustified

\* The parts that stay when the walk itself does not move.
LEMMA RemapWalks ==
  ASSUME WalkInv, WalkTypes', AnsweredInv', SeenNow',
         UNCHANGED <<phase, step, todo, reading, out, fail, batch, broken>>,
         \A t \in Tables, i \in Indexes : seen[t][i] \subseteq seen'[t][i]
  PROVE  WalkInv'
<1>1. WalkTypes /\ step \in Steps /\ (phase = "read" => step + 1 \in Steps)
  <2>1. WalkTypes /\ step \in Steps
    BY DEF WalkInv, WalkTypes, TypeOK
  <2>2. phase = "read" => step + 1 \in Steps
    BY <2>1, StepsAre DEF WalkTypes
  <2>. QED  BY <2>1, <2>2
<1>2. \A u \in batch :
           /\ \A s \in Steps : Path(u)[s] \subseteq Path(u)'[s]
           /\ \A o \in Translations(u) : o \in Translations(u)'
           /\ Missing(u) => Missing(u)'
           /\ Ambiguous(u) => Ambiguous(u)'
  BY <1>1, WalksGrow
<1>3. \A c \in todo : c.units \subseteq batch
  BY <1>1 DEF WalkTypes, TypeOK
<1>4. Contiguous' => Contiguous
  BY DEF Contiguous
<1>5. ChunksArePages => ChunksArePages'
  BY DEF ChunksArePages, SamePage, Level
<1>6. OnPath => OnPath'
  <2> SUFFICES ASSUME OnPath, NEW c \in todo, NEW u \in c.units
               PROVE  /\ phase = "split" => c.pte \in Path(u)'[step]
                      /\ phase = "read" =>
                           /\ \E e \in Path(u)'[step] :
                                /\ CheckEntry(e, step) /\ ~IsFinalMapping(e, step)
                                /\ c.at = <<e.to, PteIndex(u.addr, step)>>
                           /\ c \notin reading => c.pte \in Path(u)'[step + 1]
    BY DEF OnPath
  <2>1. u \in batch
    BY <1>3
  <2>2. Path(u)[step] \subseteq Path(u)'[step]
    BY <1>1, <1>2, <2>1
  <2>3. phase = "read" => Path(u)[step + 1] \subseteq Path(u)'[step + 1]
    BY <1>1, <1>2, <2>1
  <2>. QED  BY <2>2, <2>3 DEF OnPath
<1>7. SoundIfContiguous'
  <2>1. \A o \in out : o.unit \in batch
    BY <1>1 DEF WalkTypes, TypeOK
  <2>2. SoundIfContiguous
    BY DEF WalkInv
  <2>. QED  BY <1>2, <1>4, <2>1, <2>2 DEF SoundIfContiguous, Sound
<1>8. FailuresJustified'
  <2>1. fail \subseteq batch
    BY <1>1 DEF WalkTypes, TypeOK
  <2>2. FailuresJustified
    BY DEF WalkInv
  <2>. QED  BY <1>2, <1>4, <2>1, <2>2 DEF FailuresJustified
<1>9. Contiguous' => ChunksArePages' /\ OnPath'
  BY <1>4, <1>5, <1>6 DEF WalkInv
<1>. QED  BY <1>7, <1>8, <1>9 DEF WalkInv

\* The units of the batch are those of an interval, level by level.
LEMMA ChunkTypes ==
  ASSUME WalkInv, NEW c \in todo
  PROVE  /\ c.units \in SUBSET [id : Nat, addr : Nat] /\ c.units \subseteq batch
         /\ \E m \in Nat : \A u \in c.units : u.addr <= m
         /\ step \in Steps /\ c.pte \in PTE
<1>1. WalkTypes
  BY DEF WalkInv
<1>2. c.units \subseteq batch /\ step \in Steps /\ c.pte \in PTE
  BY <1>1 DEF WalkTypes, TypeOK
<1>3. batch \subseteq [id : Nat, addr : Nat] /\ \E m \in Nat : \A u \in batch : u.addr <= m
  BY <1>1 DEF WalkTypes
<1>. QED  BY <1>2, <1>3

\* The chunks below one of a batch without gaps.
LEMMA DescendWalks ==
  ASSUME WalkInv, ChunksArePages, phase = "split", NEW c \in todo, step < SplitCount - 1, NEW d \in Descend(c)
  PROVE  /\ d.units # {} /\ d.units \subseteq c.units /\ Solid(d.units)
         /\ \A u \in d.units, v \in c.units :
              v \in d.units <=> u.addr \div PageSizeStep(step + 1) = v.addr \div PageSizeStep(step + 1)
         /\ \A u \in d.units : d.at = <<c.pte.to, PteIndex(u.addr, step)>>
<1> DEFINE size == PageSizeStep(step + 1)
           p == d.units
           units == c.units
<1>1. /\ d = [at |-> <<c.pte.to, PteIndex(MinAddr(p), step)>>, pte |-> c.pte, units |-> p]
      /\ p \in PageChunks(units, size) /\ p # {} /\ p \subseteq units
  BY DescendShape
<1>2. units # {} /\ Solid(units)
  BY DEF ChunksArePages
<1>3. units \in SUBSET [id : Nat, addr : Nat] /\ step \in Steps
  BY ChunkTypes
<1>4. PICK m \in Nat : \A u \in units : u.addr <= m
  BY ChunkTypes
<1>5. size \in Nat \ {0}
  <2>1. step + 1 \in 0 .. SplitCount
    BY <1>3, StepsAre
  <2>. QED  BY <2>1, PageSizeSteps
<1>h. size = PageSizeStep(step + 1) /\ p = d.units /\ units = c.units
  OBVIOUS
<1> HIDE DEF size, p, units
<1>6. /\ Solid(p) /\ \E u \in p : u.addr = MinAddr(p)
      /\ \A u \in p, v \in units : v \in p <=> u.addr \div size = v.addr \div size
  BY <1>1, <1>2, <1>3, <1>4, <1>5, PartsArePages
<1>7. ASSUME NEW u \in p
      PROVE  d.at = <<c.pte.to, PteIndex(u.addr, step)>>
  <2>1. PICK w \in p : w.addr = MinAddr(p)
    BY <1>6
  <2>2. w.addr \div size = u.addr \div size
    BY <1>1, <1>6
  <2>3. PteIndex(MinAddr(p), step) = PteIndex(u.addr, step)
    BY <1>h, <2>1, <2>2 DEF PteIndex
  <2>4. d.at = <<c.pte.to, PteIndex(MinAddr(p), step)>>
    BY <1>1
  <2>. QED  BY <2>3, <2>4
<1>. QED  BY <1>1, <1>6, <1>7, <1>h

\* A chunk fails or finishes with the entry of its own path, or its pages go
\* on, each at one place of the next table.
LEMMA SplitWalks ==
  ASSUME WalkInv, Split
  PROVE  WalkInv'
<1> DEFINE failing == {c \in todo : ~CheckEntry(c.pte, step)}
           final == {c \in todo \ failing : IsFinalMapping(c.pte, step)}
           rest == todo \ (failing \cup final)
           below == UNION {Descend(c) : c \in rest}
           given == UNION {{GetPhysPage(c, u) : u \in c.units} : c \in final}
<1>1. /\ phase = "split" /\ fail' = fail \cup UnitsOf(failing) /\ out' = out \cup given
      /\ todo' = below /\ reading' = below /\ batch' = batch /\ step' = step
      /\ tables' = tables /\ seen' = seen /\ broken' = broken
      /\ phase' = IF below = {} THEN "idle" ELSE "read"
  BY DEF Split
<1>2. failing \subseteq todo /\ final \subseteq todo /\ rest \subseteq todo
  OBVIOUS
<1>3. \A c \in rest : CheckEntry(c.pte, step) /\ ~IsFinalMapping(c.pte, step)
  OBVIOUS
<1>4. \A o \in given : \E c \in final : \E u \in c.units : o = GetPhysPage(c, u)
  OBVIOUS
<1>5. \A d \in below : \E c \in rest : d \in Descend(c)
  OBVIOUS
<1>6. \A c \in failing : ~CheckEntry(c.pte, step)
  OBVIOUS
<1>7. \A c \in final : CheckEntry(c.pte, step) /\ IsFinalMapping(c.pte, step)
  OBVIOUS
<1> HIDE DEF failing, final, rest, below, given
<1>8. WalkTypes /\ WalkTypes' /\ AnsweredInv'
  BY SplitTypes, SplitAnswers DEF WalkInv
<1>9. SeenNow'
  BY <1>1 DEF WalkInv, SeenNow
<1>10. Contiguous' <=> Contiguous
  BY <1>1 DEF Contiguous
<1>11. \A u \in batch :
           /\ \A s \in Steps : Path(u)[s] \subseteq Path(u)'[s]
           /\ \A o \in Translations(u) : o \in Translations(u)'
           /\ Missing(u) => Missing(u)'
           /\ Ambiguous(u) => Ambiguous(u)'
  <2>1. \A t \in Tables, i \in Indexes : seen[t][i] \subseteq seen'[t][i]
    BY <1>1
  <2>. QED  BY <1>1, <1>8, <2>1, WalksGrow
<1>12. step \in Steps /\ \A c \in todo : c.units \subseteq batch
  BY <1>8 DEF WalkTypes, TypeOK
<1>13. SUFFICES ASSUME Contiguous
                PROVE  ChunksArePages' /\ OnPath' /\ Sound' /\ \A u \in fail' : broken' \/ Missing(u)' \/ Ambiguous(u)'
  BY <1>8, <1>9, <1>10 DEF WalkInv, SoundIfContiguous, FailuresJustified
<1>14. ChunksArePages /\ OnPath /\ Sound /\ \A u \in fail : broken \/ Missing(u) \/ Ambiguous(u)
  BY <1>13 DEF WalkInv, SoundIfContiguous, FailuresJustified
<1>15. \A c \in todo : \A u \in c.units : u \in batch /\ c.pte \in Path(u)[step]
  BY <1>1, <1>12, <1>14 DEF OnPath
<1>16. \A u \in fail' : broken' \/ Missing(u)' \/ Ambiguous(u)'
  <2>1. \A u \in UnitsOf(failing) : u \in batch /\ Missing(u)
    <3> SUFFICES ASSUME NEW u \in UnitsOf(failing)
                 PROVE  u \in batch /\ Missing(u)
      OBVIOUS
    <3>1. PICK c \in failing : u \in c.units
      BY UnitsMember
    <3>. QED  BY <1>2, <1>6, <1>12, <1>15, <3>1 DEF Missing
  <2>2. fail \subseteq batch
    BY <1>8 DEF WalkTypes, TypeOK
  <2>. QED  BY <1>1, <1>11, <1>14, <2>1, <2>2
<1>17. Sound'
  <2>1. \A o \in given : o.unit \in batch /\ o \in Translations(o.unit)
    <3> SUFFICES ASSUME NEW o \in given
                 PROVE  o.unit \in batch /\ o \in Translations(o.unit)
      OBVIOUS
    <3>1. PICK c \in final : \E u \in c.units : o = GetPhysPage(c, u)
      BY <1>4
    <3>2. PICK u \in c.units : o = GetPhysPage(c, u)
      BY <3>1
    <3>3. o = [unit |-> u, frame |-> c.pte.to, off |-> PageOffset(u.addr, step), write |-> c.pte.write] /\ o.unit = u
      BY <3>2 DEF GetPhysPage
    <3>4. c.pte \in {d \in Path(u)[step] : CheckEntry(d, step) /\ IsFinalMapping(d, step)}
      BY <1>2, <1>7, <1>15
    <3>5. o \in Translations(u)
      BY <1>12, <3>3, <3>4 DEF Translations
    <3>. QED  BY <1>2, <1>15, <3>3, <3>5
  <2>2. \A o \in out : o.unit \in batch
    BY <1>8 DEF WalkTypes, TypeOK
  <2>3. \A o \in out : o \in Translations(o.unit)
    BY <1>14 DEF Sound
  <2>4. \A o \in out' : o.unit \in batch /\ o \in Translations(o.unit)
    BY <1>1, <2>1, <2>2, <2>3
  <2>5. \A o \in out' : o \in Translations(o.unit)'
    BY <1>11, <2>4
  <2>. QED  BY <2>5 DEF Sound
<1>18. \A c \in rest : step < SplitCount - 1 /\ c \in todo
  BY <1>2, <1>3, <1>12, StepsAre DEF IsFinalMapping
<1>19. OnPath'
  <2> SUFFICES ASSUME NEW d \in below, NEW u \in d.units
               PROVE  /\ phase' = "read"
                      /\ \E e \in Path(u)'[step] :
                           /\ CheckEntry(e, step) /\ ~IsFinalMapping(e, step)
                           /\ d.at = <<e.to, PteIndex(u.addr, step)>>
    BY <1>1 DEF OnPath
  <2>1. PICK c \in rest : d \in Descend(c)
    BY <1>5
  <2>2. d.units \subseteq c.units /\ d.at = <<c.pte.to, PteIndex(u.addr, step)>>
    BY <1>1, <1>14, <1>18, <2>1, DescendWalks
  <2>3. u \in batch /\ c.pte \in Path(u)[step]
    BY <1>15, <1>18, <2>2
  <2>4. c.pte \in Path(u)'[step]
    BY <1>11, <1>12, <2>3
  <2>. QED  BY <1>1, <1>3, <2>2, <2>4
<1>20. ChunksArePages'
  <2>1. \A d \in below : d.units # {} /\ Solid(d.units)
    BY <1>1, <1>5, <1>14, <1>18, DescendWalks
  <2>2. ASSUME NEW d \in below, NEW e \in below, NEW u \in d.units, NEW v \in e.units
        PROVE  u.addr \div PageSizeStep(step + 1) = v.addr \div PageSizeStep(step + 1) <=> d = e
    <3>1. PICK c \in rest : d \in Descend(c)
      BY <1>5
    <3>2. PICK z \in rest : e \in Descend(z)
      BY <1>5
    <3>3. /\ d.units \subseteq c.units
          /\ \A w \in c.units :
               w \in d.units <=> u.addr \div PageSizeStep(step + 1) = w.addr \div PageSizeStep(step + 1)
      BY <1>1, <1>14, <1>18, <3>1, DescendWalks
    <3>4. e.units \subseteq z.units
      BY <1>1, <1>14, <1>18, <3>2, DescendWalks
    <3>5. ASSUME u.addr \div PageSizeStep(step + 1) = v.addr \div PageSizeStep(step + 1)
          PROVE  d = e
      <4>1. u.addr \in Nat /\ v.addr \in Nat
        <5>1. c.units \in SUBSET [id : Nat, addr : Nat] /\ z.units \in SUBSET [id : Nat, addr : Nat]
          BY <1>18, ChunkTypes
        <5>. QED  BY <3>3, <3>4, <5>1
      <4>2. u.addr \div PageSizeStep(step) = v.addr \div PageSizeStep(step)
        <5>1. step \in 0 .. SplitCount - 1
          BY <1>12, StepsAre
        <5>. QED  BY <3>5, <4>1, <5>1, PagesNest
      <4>3. Level = step
        BY <1>1 DEF Level
      <4>4. c = z
        BY <1>14, <1>18, <3>3, <3>4, <4>2, <4>3 DEF ChunksArePages, SamePage
      <4>5. v \in d.units
        BY <3>3, <3>4, <3>5, <4>4
      <4>6. ChunksApart(Descend(c))
        BY DescendPartition
      <4>. QED  BY <3>1, <3>2, <4>4, <4>5, <4>6 DEF ChunksApart
    <3>6. ASSUME d = e
          PROVE  u.addr \div PageSizeStep(step + 1) = v.addr \div PageSizeStep(step + 1)
      BY <3>3, <3>6
    <3>. QED  BY <3>5, <3>6
  <2>3. below # {} => Level' = step + 1
    BY <1>1 DEF Level
  <2>4. step + 1 # 0
    BY <1>12, StepsAre
  <2>. QED  BY <1>1, <2>1, <2>2, <2>3, <2>4 DEF ChunksArePages, SamePage, Solid
<1>. QED  BY <1>16, <1>17, <1>19, <1>20

\* An entry that is read is one the guest has at that place of the path now.
LEMMA ReadEntryWalks ==
  ASSUME WalkInv, NEW c \in reading, ReadEntry(c)
  PROVE  WalkInv'
<1>0. PICK pte \in EntriesAt(c.at) : todo' = (todo \ {c}) \cup {[c EXCEPT !.pte = pte]}
  BY DEF ReadEntry
<1> DEFINE got == [c EXCEPT !.pte = pte]
<1>1. /\ reading' = reading \ {c} /\ todo' = (todo \ {c}) \cup {got}
      /\ out' = out /\ fail' = fail /\ batch' = batch /\ phase' = "read" /\ phase = "read" /\ step' = step
      /\ tables' = tables /\ seen' = seen /\ broken' = broken
  BY <1>0 DEF ReadEntry
<1>2. WalkTypes /\ WalkTypes' /\ AnsweredInv'
  BY ReadEntryTypes, ReadEntryAnswers DEF WalkInv
<1>3. c \in todo /\ c = [at |-> c.at, pte |-> c.pte, units |-> c.units]
  BY <1>2 DEF WalkTypes, TypeOK
<1>4. got.units = c.units /\ got.at = c.at /\ got.pte = pte
  BY <1>3
<1> HIDE DEF got
<1>5. SeenNow'
  BY <1>1 DEF WalkInv, SeenNow
<1>6. Contiguous' <=> Contiguous
  BY <1>1 DEF Contiguous
<1>7. \A u \in batch :
           /\ \A s \in Steps : Path(u)[s] \subseteq Path(u)'[s]
           /\ \A o \in Translations(u) : o \in Translations(u)'
           /\ Missing(u) => Missing(u)'
           /\ Ambiguous(u) => Ambiguous(u)'
  <2>1. \A t \in Tables, i \in Indexes : seen[t][i] \subseteq seen'[t][i]
    BY <1>1
  <2>. QED  BY <1>1, <1>2, <2>1, WalksGrow
<1>8. /\ step \in Steps /\ step + 1 \in Steps \ {0} /\ step < SplitCount - 1
      /\ \A z \in todo : z.units \subseteq batch
  <2>1. step \in Steps /\ step < SplitCount - 1 /\ \A z \in todo : z.units \subseteq batch
    BY <1>1, <1>2 DEF WalkTypes, TypeOK
  <2>. QED  BY <2>1, StepsAre
<1>9. SoundIfContiguous' /\ FailuresJustified'
  <2>1. (\A o \in out : o.unit \in batch) /\ fail \subseteq batch
    BY <1>2 DEF WalkTypes, TypeOK
  <2>2. SoundIfContiguous /\ FailuresJustified
    BY DEF WalkInv
  <2>3. SoundIfContiguous'
    BY <1>1, <1>6, <1>7, <2>1, <2>2 DEF SoundIfContiguous, Sound
  <2>4. FailuresJustified'
    BY <1>1, <1>6, <1>7, <2>1, <2>2 DEF FailuresJustified
  <2>. QED  BY <2>3, <2>4
<1>10. SUFFICES ASSUME Contiguous
                PROVE  ChunksArePages' /\ OnPath'
  BY <1>2, <1>5, <1>6, <1>9 DEF WalkInv
<1>11. ChunksArePages /\ OnPath
  BY <1>10 DEF WalkInv
<1>12. ChunksArePages'
  <2>1. \A d \in todo' : d.units # {} /\ Solid(d.units)
    BY <1>1, <1>3, <1>4, <1>11 DEF ChunksArePages
  <2>2. ASSUME NEW d \in todo', NEW e \in todo', NEW u \in d.units, NEW v \in e.units
        PROVE  SamePage(u, v, Level) <=> d = e
    <3> DEFINE from(z) == IF z = got THEN c ELSE z
    <3>1. \A z \in todo' : from(z) \in todo /\ from(z).units = z.units
      BY <1>1, <1>3, <1>4
    <3>2. from(d) = from(e) <=> d = e
      BY <1>1, <1>3
    <3> HIDE DEF from
    <3>. QED  BY <1>11, <3>1, <3>2 DEF ChunksArePages
  <2>3. Level' = Level /\ \A u, v : SamePage(u, v, Level)' <=> SamePage(u, v, Level)
    BY <1>1 DEF Level, SamePage
  <2>. QED  BY <2>1, <2>2, <2>3 DEF ChunksArePages, Solid
<1>13. ASSUME NEW u \in c.units
       PROVE  pte \in Path(u)[step + 1]
  <2>1. u \in batch /\ u.addr \in Nat
    BY <1>2, <1>3, <1>8 DEF WalkTypes
  <2>2. PICK e \in Path(u)[step] :
          /\ CheckEntry(e, step) /\ ~IsFinalMapping(e, step)
          /\ c.at = <<e.to, PteIndex(u.addr, step)>>
    BY <1>1, <1>3, <1>11 DEF OnPath
  <2>3. PteIndex(u.addr, step) \in Indexes
    <3>1. step \in 0 .. SplitCount - 1
      BY <1>8, StepsAre
    <3>. QED  BY <2>1, <3>1, IndexInTable
  <2>4. pte \in Had(e.to, PteIndex(u.addr, step))
    <3> DEFINE i == PteIndex(u.addr, step)
    <3>1. c.at[1] = e.to /\ c.at[2] = i
      BY <2>2
    <3>2. i \in Indexes
      BY <2>3
    <3> HIDE DEF i
    <3>3. SeenNow
      BY DEF WalkInv
    <3>4. CASE e.to \in Tables
      <4>1. pte = tables[e.to][i]
        BY <3>1, <3>4 DEF EntriesAt
      <4>2. tables[e.to][i] \in seen[e.to][i]
        BY <1>1, <3>2, <3>3, <3>4 DEF SeenNow
      <4>. QED  BY <3>4, <4>1, <4>2 DEF Had, i
    <3>5. CASE e.to \notin Tables
      BY <3>1, <3>5 DEF EntriesAt, Had
    <3>. QED  BY <3>4, <3>5
  <2>5. PathDown(u)
    BY <1>2, <2>1, PathsGoDown DEF PathsDown, WalkTypes
  <2>6. Path(u)[step + 1] = Below(Path(u)[step], u, step + 1)
    <3>1. (step + 1) - 1 = step
      BY <1>8, StepsAre
    <3>. QED  BY <1>8, <2>5, <3>1 DEF PathDown
  <2>7. (step + 1) - 1 = step
    BY <1>8, StepsAre
  <2>8. Below(Path(u)[step], u, step + 1) =
          UNION {Had(x.to, PteIndex(u.addr, step)) : x \in {y \in Path(u)[step] : CheckEntry(y, step) /\ ~IsFinalMapping(y, step)}}
    BY <2>7 DEF Below
  <2>. QED  BY <2>2, <2>4, <2>6, <2>8
<1>14. OnPath'
  <2> SUFFICES ASSUME NEW z \in todo', NEW u \in z.units
               PROVE  /\ \E e \in Path(u)'[step] :
                           /\ CheckEntry(e, step) /\ ~IsFinalMapping(e, step)
                           /\ z.at = <<e.to, PteIndex(u.addr, step)>>
                      /\ z \notin reading' => z.pte \in Path(u)'[step + 1]
    BY <1>1 DEF OnPath
  <2> DEFINE y == IF z = got THEN c ELSE z
  <2>1. y \in todo /\ y.units = z.units /\ y.at = z.at
    BY <1>1, <1>3, <1>4
  <2>2. (z = got => y = c) /\ (z # got => y = z /\ z # c)
    BY <1>1
  <2> HIDE DEF y
  <2>3. u \in batch
    BY <1>8, <2>1
  <2>4. Path(u)[step] \subseteq Path(u)'[step] /\ Path(u)[step + 1] \subseteq Path(u)'[step + 1]
    BY <1>7, <1>8, <2>3
  <2>5. \E e \in Path(u)[step] :
          /\ CheckEntry(e, step) /\ ~IsFinalMapping(e, step)
          /\ y.at = <<e.to, PteIndex(u.addr, step)>>
    BY <1>1, <1>11, <2>1 DEF OnPath
  <2>6. z \notin reading' => z.pte \in Path(u)[step + 1]
    <3>1. CASE z = got
      BY <1>4, <1>13, <2>1, <2>2, <3>1
    <3>2. CASE z # got
      <4>1. y = z /\ (z \notin reading' => z \notin reading)
        BY <1>1, <2>2, <3>2
      <4>. QED  BY <1>1, <1>11, <2>1, <4>1 DEF OnPath
    <3>. QED  BY <3>1, <3>2
  <2>. QED  BY <2>1, <2>4, <2>5, <2>6
<1>. QED  BY <1>12, <1>14

LEMMA ReadFailsWalks ==
  ASSUME WalkInv, ReadFails
  PROVE  WalkInv'
<1>1. /\ todo' = {} /\ reading' = {} /\ phase' = "idle" /\ broken' = TRUE
      /\ tables' = tables /\ step' = step /\ out' = out /\ batch' = batch /\ seen' = seen
  BY DEF ReadFails
<1>2. WalkTypes /\ WalkTypes' /\ AnsweredInv'
  BY ReadFailsTypes, ReadFailsAnswers DEF WalkInv
<1>3. SeenNow'
  BY <1>1 DEF SeenNow
<1>4. ChunksArePages' /\ OnPath' /\ FailuresJustified'
  BY <1>1 DEF ChunksArePages, OnPath, FailuresJustified
<1>5. SoundIfContiguous'
  <2>1. \A u \in batch : \A o \in Translations(u) : o \in Translations(u)'
    <3>1. \A t \in Tables, i \in Indexes : seen[t][i] \subseteq seen'[t][i]
      BY <1>1
    <3>. QED  BY <1>1, <1>2, <3>1, WalksGrow
  <2>2. \A o \in out : o.unit \in batch
    BY <1>2 DEF WalkTypes, TypeOK
  <2>3. SoundIfContiguous
    BY DEF WalkInv
  <2>4. Contiguous' <=> Contiguous
    BY <1>1 DEF Contiguous
  <2>. QED  BY <1>1, <2>1, <2>2, <2>3, <2>4 DEF SoundIfContiguous, Sound
<1>. QED  BY <1>2, <1>3, <1>4, <1>5 DEF WalkInv

\* What the filter drops points back to its table or has the value of an entry
\* that another page of the batch has on its path.
LEMMA FilterWalks ==
  ASSUME WalkInv, NEW keep \in SUBSET todo, FilterDuplicates(keep)
  PROVE  WalkInv'
<1>1. /\ phase = "read" /\ reading = {} /\ Filtered(keep)
      /\ fail' = fail \cup UnitsOf(todo \ keep) /\ todo' = keep /\ reading' = reading /\ phase' = "split"
      /\ step' = step + 1 /\ out' = out /\ batch' = batch
      /\ tables' = tables /\ seen' = seen /\ broken' = broken
  BY DEF FilterDuplicates
<1>2. WalkTypes /\ WalkTypes' /\ AnsweredInv'
  BY FilterTypes, FilterAnswers DEF WalkInv
<1>3. SeenNow'
  BY <1>1 DEF WalkInv, SeenNow
<1>4. Contiguous' <=> Contiguous
  BY <1>1 DEF Contiguous
<1>5. \A u \in batch :
           /\ \A s \in Steps : Path(u)[s] \subseteq Path(u)'[s]
           /\ \A o \in Translations(u) : o \in Translations(u)'
           /\ Missing(u) => Missing(u)'
           /\ Ambiguous(u) => Ambiguous(u)'
  <2>1. \A t \in Tables, i \in Indexes : seen[t][i] \subseteq seen'[t][i]
    BY <1>1
  <2>. QED  BY <1>1, <1>2, <2>1, WalksGrow
<1>6. /\ step + 1 \in Steps \ {0} /\ (step + 1) - 1 = step
      /\ \A z \in todo : z.units \subseteq batch
  <2>1. step \in Steps /\ step < SplitCount - 1 /\ \A z \in todo : z.units \subseteq batch
    BY <1>1, <1>2 DEF WalkTypes, TypeOK
  <2>. QED  BY <2>1, StepsAre
<1>7. (\A o \in out : o.unit \in batch) /\ fail \subseteq batch
  BY <1>2 DEF WalkTypes, TypeOK
<1>8. SoundIfContiguous'
  <2>1. SoundIfContiguous
    BY DEF WalkInv
  <2>. QED  BY <1>1, <1>4, <1>5, <1>7, <2>1 DEF SoundIfContiguous, Sound
<1>9. SUFFICES ASSUME Contiguous
               PROVE  ChunksArePages' /\ OnPath' /\ \A u \in fail' : broken' \/ Missing(u)' \/ Ambiguous(u)'
  BY <1>2, <1>3, <1>4, <1>8 DEF WalkInv, FailuresJustified
<1>10. ChunksArePages /\ OnPath /\ \A u \in fail : broken \/ Missing(u) \/ Ambiguous(u)
  BY <1>9 DEF WalkInv, FailuresJustified
<1>11. ChunksArePages'
  <2>1. Level' = Level /\ \A u, v : SamePage(u, v, Level)' <=> SamePage(u, v, Level)
    BY <1>1 DEF Level, SamePage
  <2>2. /\ \A c \in keep : c.units # {} /\ Solid(c.units)
        /\ \A c, d \in keep : \A u \in c.units, v \in d.units : SamePage(u, v, Level) <=> c = d
    BY <1>10 DEF ChunksArePages
  <2>. QED  BY <1>1, <2>1, <2>2 DEF ChunksArePages, Solid
<1>12. \A c \in todo : \A u \in c.units :
          /\ u \in batch /\ c.pte \in Path(u)[step + 1]
          /\ \E e \in Path(u)[step] : c.at[1] = e.to
  BY <1>1, <1>6, <1>10 DEF OnPath
<1>13. OnPath'
  <2>1. \A c \in keep : \A u \in c.units : c.pte \in Path(u)'[step + 1]
    BY <1>5, <1>6, <1>12
  <2>. QED  BY <1>1, <2>1 DEF OnPath
<1>14. ASSUME NEW d \in todo \ keep, NEW u \in d.units
       PROVE  u \in batch /\ Ambiguous(u)
  <2>1. u \in batch /\ d.pte \in Path(u)[step + 1] /\ \E e \in Path(u)[step] : d.at[1] = e.to
    BY <1>12
  <2>2. CASE SelfReferring(d)
    <3>1. \E e \in Path(u)[(step + 1) - 1] : e.to = d.pte.to
      BY <1>6, <2>1, <2>2 DEF SelfReferring
    <3>. QED  BY <1>6, <2>1, <3>1 DEF Ambiguous
  <2>3. CASE \E k \in keep : k.pte = d.pte
    <3>1. PICK k \in keep : k.pte = d.pte
      BY <2>3
    <3>2. k \in todo /\ k # d
      BY <3>1
    <3>3. PICK v \in k.units : TRUE
      BY <1>10, <3>2 DEF ChunksArePages
    <3>4. v \in batch /\ d.pte \in Path(v)[step + 1]
      BY <1>12, <3>1, <3>2
    <3>5. u.addr \div PageSizeStep(step + 1) # v.addr \div PageSizeStep(step + 1)
      <4>1. Level = step + 1
        BY <1>1 DEF Level
      <4>2. ~SamePage(u, v, step + 1)
        BY <1>10, <3>2, <4>1 DEF ChunksArePages
      <4>. QED  BY <4>2 DEF SamePage
    <3>. QED  BY <1>6, <2>1, <3>4, <3>5 DEF Ambiguous
  <2>. QED  BY <1>1, <2>2, <2>3 DEF Filtered
<1>15. \A u \in UnitsOf(todo \ keep) : u \in batch /\ Ambiguous(u)
  BY <1>14, UnitsMember
<1>16. \A u \in fail' : broken' \/ Missing(u)' \/ Ambiguous(u)'
  BY <1>1, <1>5, <1>7, <1>10, <1>15
<1>. QED  BY <1>11, <1>13, <1>16

LEMMA WalksNext ==
  ASSUME WalkInv, [Next]_vars
  PROVE  WalkInv'
<1>1. CASE \E b \in Batches : Start(b)
  BY <1>1, StartWalks
<1>2. CASE Split
  BY <1>2, SplitWalks
<1>3. CASE \E c \in reading : ReadEntry(c)
  BY <1>3, ReadEntryWalks
<1>4. CASE ReadFails
  BY <1>4, ReadFailsWalks
<1>5. CASE \E keep \in SUBSET todo : FilterDuplicates(keep)
  BY <1>5, FilterWalks
<1>6. CASE \E m \in Remaps : Remap(m)
  <2>1. PICK m \in Remaps : Remap(m)
    BY <1>6
  <2>2. /\ WalkTypes'
        /\ \A t \in Tables, i \in Indexes : seen[t][i] \subseteq seen'[t][i]
        /\ \A t \in Tables, i \in Indexes : tables[t][i] \in seen[t][i] => tables'[t][i] \in seen'[t][i]
    BY <2>1, RemapTypes DEF WalkInv
  <2>3. UNCHANGED <<phase, step, todo, reading, out, fail, batch, broken>>
    BY <2>1 DEF Remap
  <2>4. AnsweredInv'
    BY AnsweredNext DEF WalkInv
  <2>5. SeenNow'
    BY <2>2, <2>3 DEF WalkInv, SeenNow
  <2>. QED  BY <2>2, <2>3, <2>4, <2>5, RemapWalks
<1>7. CASE UNCHANGED vars
  <2>1. UNCHANGED <<phase, step, todo, reading, out, fail, batch, broken>> /\ tables' = tables /\ seen' = seen
    BY <1>7 DEF vars
  <2>2. WalkTypes /\ SeenNow
    BY DEF WalkInv
  <2>3. TypeOK'
    BY <2>1, <2>2 DEF WalkTypes, TypeOK
  <2>4. WalkTypes'
    BY <2>1, <2>2, <2>3 DEF WalkTypes, SeenType
  <2>5. AnsweredInv'
    BY AnsweredNext DEF WalkInv
  <2>6. SeenNow'
    BY <2>1, <2>2 DEF SeenNow
  <2>7. \A t \in Tables, i \in Indexes : seen[t][i] \subseteq seen'[t][i]
    BY <2>1
  <2>. QED  BY <2>1, <2>4, <2>5, <2>6, <2>7, RemapWalks
<1>. QED  BY <1>1, <1>2, <1>3, <1>4, <1>5, <1>6, <1>7 DEF Next, Walk

-----------------------------------------------------------------------------
(* The theorems                                                            *)

\* virt_to_phys_iter loses no unit of the caller's buffers, answers none twice
\* and none both to out and to out_fail.
THEOREM MmuWalkAnswersOnce == Spec => []AnsweredOnce
<1>1. AnsweredInv => AnsweredOnce
  BY DEF AnsweredInv
<1>. QED  BY <1>1, AnsweredInit, AnsweredNext, PTL DEF Spec

\* Every index the walk computes lies in its table and every chunk holds only
\* units of the batch: pt_addr and the entries read there are well typed.
THEOREM MmuWalkTypes == Spec => []TypeOK
<1>1. WalkInv => TypeOK
  BY DEF WalkInv, WalkTypes
<1>. QED  BY <1>1, InitWalks, WalksNext, PTL DEF Spec

\* For a batch without gaps, every translation that virt_to_phys_iter hands to
\* out follows entries of the address's own path, each of which the guest had
\* set at some moment of the call.
THEOREM MmuWalkSound == Spec => []SoundIfContiguous
<1>1. WalkInv => SoundIfContiguous
  BY DEF WalkInv
<1>. QED  BY <1>1, InitWalks, WalksNext, PTL DEF Spec

\* In a batch without gaps a unit goes to out_fail only when an entry of its path
\* was not present, its path met what the filter takes for a duplicate, or the
\* connector failed.
THEOREM MmuWalkFailures == Spec => []FailuresJustified
<1>1. WalkInv => FailuresJustified
  BY DEF WalkInv
<1>. QED  BY <1>1, InitWalks, WalksNext, PTL DEF Spec
=============================================================================

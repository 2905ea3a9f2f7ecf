--------------------------- MODULE CachedVatProofs ---------------------------
(***************************************************************************)
(* Theorems about CachedVat, for every set of root tables, number of TLB   *)
(* entries, page size, list of batches, validator and validity window, and *)
(* whatever the inner translator answers.                                  *)
(***************************************************************************)
EXTENDS CachedVat, SequenceTheorems, FiniteSetTheorems, WellFoundedInduction, TLAPS

-----------------------------------------------------------------------------
(* The inductive invariant                                                 *)

\* Everything on its way through a call.
Pieces == todo \cup missed \cup uncached_in \cup uncached_fail \cup uncached_out \cup answers

\* Pieces are not empty and lie within the pages of the batch, answers are
\* results; between calls there are none.
PiecesOK ==
  /\ \A c \in Pieces : c.from < c.to /\ PagesOf(c) \subseteq VPages
  /\ \A a \in answers : \A q \in PagesOf(a) : AnswerAt(a, q) \in Results
  /\ phase = "idle" => Pieces = {} /\ asked = {}

\* The inner translator gave this answer for every page of it in this call.
Walked(a) ==
  \A q \in PagesOf(a) : AnswerAt(a, q) \in Results /\ walked[root][q][AnswerAt(a, q)] = last

PendingWalked ==
  /\ \A e \in uncached_out : Walked(e)
  /\ \A e \in uncached_fail : Walked(Answer(e, None))

\* A slot that belongs to a table tells what a walk under a root in that
\* frame gave, at its stamp or later; a slot of no table holds no frame.
EntriesWalked ==
  \A i \in SlotIds :
    LET e == entries[i] IN
    /\ e.pt = None => e.phys = None
    /\ e.pt # None =>
         /\ e.virt \in VPages /\ stamp[i] \in 0 .. last
         /\ \E r \in Roots : /\ TableId(r) = e.pt
                             /\ walked[r][e.virt][e.phys] # None
                             /\ walked[r][e.virt][e.phys] >= stamp[i]

WalkedBefore ==
  \A r \in Roots, p \in VPages, x \in Results :
    walked[r][p][x] # None => walked[r][p][x] <= last

FreshInv ==
  /\ TypeOK /\ PiecesOK /\ PendingWalked /\ EntriesWalked /\ WalkedBefore
  /\ AnswersFresh

-----------------------------------------------------------------------------
(* Arithmetic                                                              *)

LEMMA DivMeaning ==
  ASSUME NEW a \in Nat
  PROVE  /\ a \div PageSize \in Nat
         /\ (a \div PageSize) * PageSize <= a
         /\ a < (a \div PageSize) * PageSize + PageSize
BY VatAssumption

LEMMA DivIs ==
  ASSUME NEW a \in Nat, NEW k \in Nat, k * PageSize <= a, a < k * PageSize + PageSize
  PROVE  a \div PageSize = k
BY VatAssumption

LEMMA DivMono ==
  ASSUME NEW a \in Nat, NEW b \in Nat, a <= b
  PROVE  a \div PageSize <= b \div PageSize
BY VatAssumption

\* Two bytes further is at most one page further.
LEMMA DivTwo ==
  ASSUME NEW a \in Nat
  PROVE  (a + 2) \div PageSize <= a \div PageSize + 1
BY VatAssumption

LEMMA MulMono ==
  ASSUME NEW x \in Nat, NEW y \in Nat, x < y
  PROVE  x * PageSize + PageSize <= y * PageSize
BY VatAssumption

LEMMA MinOfTwo ==
  ASSUME NEW a \in Int, NEW b \in Int
  PROVE  Min({a, b}) = IF a <= b THEN a ELSE b
BY DEF Min

LEMMA ModSmall == \A m \in Nat \ {0} : \A a \in 0 .. m - 1 : a % m = a
OBVIOUS

LEMMA ModSelf == \A m \in Nat \ {0} : m % m = 0
OBVIOUS

LEMMA MultipleIsAligned ==
  ASSUME NEW k \in Nat
  PROVE  (k * PageSize) % PageSize = 0
BY VatAssumption

LEMMA AlignedIsMultiple ==
  ASSUME NEW a \in Nat, a % PageSize = 0
  PROVE  a = (a \div PageSize) * PageSize
BY VatAssumption

LEMMA AlignedSum ==
  ASSUME NEW a \in Nat, NEW b \in Nat, a % PageSize = 0, b % PageSize = 0
  PROVE  (a + b) % PageSize = 0
<1> DEFINE x == a \div PageSize  y == b \div PageSize
<1>1. x \in Nat /\ y \in Nat /\ a = x * PageSize /\ b = y * PageSize
  BY DivMeaning, AlignedIsMultiple
<1> HIDE DEF x, y
<1>2. x * PageSize + y * PageSize = (x + y) * PageSize
  BY <1>1, VatAssumption
<1>. QED  BY <1>1, <1>2, MultipleIsAligned

\* Every non-empty set of natural numbers has a least element.
LEMMA NatLeast == \A T \in SUBSET Nat : T # {} => \E m \in T : \A n \in T : m <= n
<1> DEFINE R == OpToRel(<, Nat)
<1>1. IsWellFoundedOn(R, Nat)
  BY NatLessThanWellFounded
<1>2. \A x, y \in Nat : <<x, y>> \in R <=> x < y
  BY DEF OpToRel
<1> HIDE DEF R
<1> SUFFICES ASSUME NEW T \in SUBSET Nat, T # {}
             PROVE  \E m \in T : \A n \in T : m <= n
  OBVIOUS
<1>3. PICK m \in T : \A y \in T : ~(<<y, m>> \in R)
  BY <1>1, WFMin
<1>4. m \in Nat /\ \A n \in T : n \in Nat /\ ~(n < m)
  BY <1>2, <1>3
<1>. QED  BY <1>3, <1>4

LEMMA TableIdOK == \A r \in Roots : TableId(r) \in Nat
BY VatAssumption DEF TableId

LEMMA IndexInSlots == \A p \in VPages : CacheIndex(p) \in SlotIds
BY VatAssumption DEF CacheIndex, SlotIds

-----------------------------------------------------------------------------
(* The validator                                                           *)

\* The counter does not wrap within the modelled number of operations.
LEMMA UpdateMovesForward ==
  ASSUME NEW l \in Nat, NEW now \in Nat,
         Counting => l < MaxTime, ~Counting => l <= now
  PROVE  /\ UpdateValidity(l, now) \in Nat
         /\ Counting => UpdateValidity(l, now) <= MaxTime
         /\ l <= UpdateValidity(l, now)
<1>1. CASE Counting
  <2>1. l + 1 \in 0 .. CounterMod - 1
    BY <1>1, VatAssumption, ValidatorAssumption
  <2>2. (l + 1) % CounterMod = l + 1
    BY <2>1, ModSmall, ValidatorAssumption
  <2>. QED  BY <1>1, <2>2, VatAssumption DEF UpdateValidity, CountUpdate
<1>2. CASE ~Counting
  BY <1>2 DEF UpdateValidity
<1>. QED  BY <1>1, <1>2

\* A slot the validator calls valid is no older than the tolerance.
LEMMA ValidIsRecent ==
  ASSUME NEW l \in Nat, NEW s \in 0 .. l, Counting => l <= MaxTime,
         IsSlotValid(l, s)
  PROVE  s + Tolerance >= l
<1>1. CASE Counting
  <2>1. l - s \in 0 .. CounterMod - 1
    BY <1>1, VatAssumption, ValidatorAssumption
  <2>2. (l - s) % CounterMod = l - s
    BY <2>1, ModSmall, ValidatorAssumption
  <2>. QED  BY <1>1, <2>2, ValidatorAssumption
            DEF IsSlotValid, CountIsSlotValid, WrappingSub, Tolerance
<1>2. CASE ~Counting
  BY <1>2, ValidatorAssumption DEF IsSlotValid, TimedIsSlotValid, Tolerance
<1>. QED  BY <1>1, <1>2

LEMMA StampsOK ==
  ASSUME TypeOK
  PROVE  last \in Stamps /\ AllocatedStamp(0) \in Stamps
<1>1. last \in Nat /\ (Counting => last <= MaxTime)
  BY DEF TypeOK
<1>2. MaxTime \in Nat /\ CounterMod > MaxTime + ValidFor /\ ValidFor \in Nat /\ CounterMod \in Nat
  BY VatAssumption, ValidatorAssumption
<1>. QED  BY <1>1, <1>2 DEF Stamps, AllocatedStamp, CountAllocatedStamp,
                            TimedAllocatedStamp, WrappingSub

-----------------------------------------------------------------------------
(* Pieces                                                                  *)

Piece == [id : Nat, from : Nat, to : Nat]

LEMMA PagesOfPiece ==
  ASSUME NEW from \in Nat, NEW to \in Nat, from < to
  PROVE  /\ PageOf(from) \in Nat /\ PageOf(to - 1) \in Nat
         /\ PageOf(from) <= PageOf(to - 1)
BY DivMeaning, DivMono DEF PageOf

\* A piece is cut in two, or taken as it is, at a place behind its first byte.
LEMMA CutOK ==
  ASSUME NEW c \in Piece, NEW a \in Nat, c.from < a, a <= c.to
  PROVE  /\ FrontPart(c, a) \in Piece /\ FrontPart(c, a).id = c.id
         /\ FrontPart(c, a).from = c.from /\ FrontPart(c, a).to = a
         /\ PagesOf(FrontPart(c, a)) \subseteq PagesOf(c)
         /\ a = c.to => Behind(c, a) = {}
         /\ a # c.to => \E d \in Piece :
              /\ Behind(c, a) = {d} /\ d.id = c.id /\ d.from = a /\ d.to = c.to /\ d.from < d.to
              /\ PagesOf(d) \subseteq PagesOf(c)
<1>1. c.from \in Nat /\ c.to \in Nat /\ c.id \in Nat /\ a - 1 \in Nat /\ c.to - 1 \in Nat
  BY DEF Piece
<1>2. /\ FrontPart(c, a) \in Piece /\ FrontPart(c, a).id = c.id
      /\ FrontPart(c, a).from = c.from /\ FrontPart(c, a).to = a
  BY <1>1 DEF FrontPart, Piece
<1>3. /\ PageOf(c.from) \in Nat /\ PageOf(a) \in Nat /\ PageOf(a - 1) \in Nat /\ PageOf(c.to - 1) \in Nat
      /\ PageOf(c.from) <= PageOf(a) /\ PageOf(a - 1) <= PageOf(c.to - 1)
  BY <1>1, DivMeaning, DivMono DEF PageOf
<1>4. PagesOf(FrontPart(c, a)) \subseteq PagesOf(c)
  BY <1>2, <1>3 DEF PagesOf
<1>5. a = c.to => Behind(c, a) = {}
  BY DEF Behind
<1>6. ASSUME a # c.to
      PROVE  \E d \in Piece :
               /\ Behind(c, a) = {d} /\ d.id = c.id /\ d.from = a /\ d.to = c.to /\ d.from < d.to
               /\ PagesOf(d) \subseteq PagesOf(c)
  <2> DEFINE d == [c EXCEPT !.from = a]
  <2>1. Behind(c, a) = {d}
    BY <1>6 DEF Behind
  <2>2. d \in Piece /\ d.id = c.id /\ d.from = a /\ d.to = c.to
    BY <1>1 DEF Piece
  <2> HIDE DEF d
  <2>3. d.from < d.to
    BY <1>1, <1>6, <2>2
  <2>4. PagesOf(d) \subseteq PagesOf(c)
    BY <1>3, <2>2 DEF PagesOf
  <2>. QED  BY <2>1, <2>2, <2>3, <2>4
<1>. QED  BY <1>2, <1>4, <1>5, <1>6

\* The inner translator cuts where a page ends.
LEMMA FirstPagesEnd ==
  ASSUME NEW c \in Piece, c.from < c.to, NEW n \in 1 .. Cardinality(PagesOf(c))
  PROVE  LET a == FirstPages(c, n).to IN
         /\ a \in Nat /\ c.from < a /\ a <= c.to
         /\ a = c.to \/ a % PageSize = 0
         /\ FirstPages(c, n) = FrontPart(c, a)
<1> DEFINE k == PageOf(c.from)  e == (k + n) * PageSize
<1>0. c.from \in Nat /\ c.to \in Nat /\ c.id \in Nat /\ PageSize \in Nat \ {0, 1}
  BY VatAssumption DEF Piece
<1>1. k \in Nat /\ PageOf(c.to - 1) \in Nat /\ k <= PageOf(c.to - 1)
  BY <1>0, PagesOfPiece
<1>2. n \in Nat /\ n >= 1
  <2>1. Cardinality(PagesOf(c)) \in Int
    BY <1>1, FS_Interval DEF PagesOf
  <2>. QED  BY <2>1
<1>3. e \in Nat
  BY <1>0, <1>1, <1>2
<1>4. c.from < e
  <2>1. c.from < k * PageSize + PageSize
    BY <1>0, DivMeaning DEF PageOf
  <2>2. k * PageSize + PageSize <= e
    BY <1>1, <1>2, MulMono
  <2>. QED  BY <1>0, <1>1, <1>3, <2>1, <2>2
<1>5. e % PageSize = 0
  BY <1>1, <1>2, MultipleIsAligned
<1> DEFINE z == IF c.to <= e THEN c.to ELSE e
<1>6. FirstPages(c, n) = FrontPart(c, z)
  BY <1>0, <1>3, MinOfTwo DEF FirstPages
<1>7. FirstPages(c, n).to = z
  BY <1>0, <1>6 DEF FrontPart, Piece
<1> HIDE DEF e
<1>. QED  BY <1>0, <1>3, <1>4, <1>5, <1>6, <1>7

LEMMA PageEndOK ==
  ASSUME NEW a \in Nat
  PROVE  /\ PageEnd(a) \in Nat /\ a < PageEnd(a)
         /\ PageOf(PageEnd(a) - 1) = PageOf(a)
         /\ PageEnd(a) % PageSize = 0
         /\ a % PageSize = 0 => PageEnd(a) - a = PageSize
<1>1. PageOf(a) \in Nat /\ PageOf(a) * PageSize \in Nat /\ PageSize \in Nat \ {0, 1}
  BY DivMeaning, VatAssumption DEF PageOf
<1>2. PageEnd(a) = PageOf(a) * PageSize + PageSize
  BY <1>1 DEF PageEnd
<1>3. PageOf(a) * PageSize <= a /\ a < PageOf(a) * PageSize + PageSize
  BY DivMeaning DEF PageOf
<1>4. PageEnd(a) \in Nat /\ a < PageEnd(a)
  BY <1>1, <1>2, <1>3
<1>5. PageOf(PageEnd(a) - 1) = PageOf(a)
  <2> DEFINE m == PageOf(a) * PageSize
  <2>1. PageEnd(a) - 1 \in Nat /\ m <= PageEnd(a) - 1 /\ PageEnd(a) - 1 < m + PageSize
    BY <1>1, <1>2
  <2>. QED  BY <1>1, <2>1, DivIs DEF PageOf
<1>6. PageEnd(a) % PageSize = 0
  BY <1>1, MultipleIsAligned DEF PageEnd
<1>7. a % PageSize = 0 => PageEnd(a) - a = PageSize
  <2>1. a % PageSize = 0 => a = PageOf(a) * PageSize
    BY AlignedIsMultiple DEF PageOf
  <2>. QED  BY <1>1, <1>2, <2>1
<1>. QED  BY <1>4, <1>5, <1>6, <1>7

\* Where the next chunk of a buffer ends: behind its first byte; within the
\* page if that page hits; and within some other page only if the chunk begins
\* within a page that does not hit and the page of the cut does.
LEMMA ChunkEndOK ==
  ASSUME NEW c \in Piece, c.from < c.to
  PROVE  /\ ChunkEnd(c) \in Nat /\ c.from < ChunkEnd(c) /\ ChunkEnd(c) <= c.to
         /\ Hit(root, PageOf(c.from), last) => ChunkEnd(c) <= PageEnd(c.from)
         /\ ChunkEnd(c) # c.to /\ ChunkEnd(c) % PageSize # 0 =>
              /\ c.from % PageSize # 0 /\ ~Hit(root, PageOf(c.from), last)
              /\ Hit(root, PageOf(ChunkEnd(c)), last)
<1> DEFINE H(a) == Hit(root, PageOf(a), last)
           d == PageEnd(c.from) - c.from
           cuts == {a \in c.from + 1 .. c.to - 1 : (a - c.from) % d = 0 /\ (H(a) \/ H(c.from))}
           S == cuts \cup {c.to}
           m == ChunkEnd(c)
<1>0. c.from \in Nat /\ c.to \in Nat /\ PageSize \in Nat \ {0, 1}
  BY VatAssumption DEF Piece
<1>1. PageEnd(c.from) \in Nat /\ d \in Nat \ {0} /\ PageEnd(c.from) = c.from + d
      /\ PageEnd(c.from) % PageSize = 0 /\ (c.from % PageSize = 0 => d = PageSize)
  <2>1. /\ PageEnd(c.from) \in Nat /\ c.from < PageEnd(c.from)
        /\ PageEnd(c.from) % PageSize = 0
        /\ c.from % PageSize = 0 => PageEnd(c.from) - c.from = PageSize
    BY <1>0, PageEndOK
  <2>. QED  BY <1>0, <2>1
<1>2. m = Min(S)
  BY DEF ChunkEnd
<1> HIDE DEF H, d, m
<1>3. S \in SUBSET Nat /\ S # {}
  BY <1>0
<1>4. m \in S /\ \A z \in S : m <= z
  <2>1. \E z \in S : \A y \in S : z <= y
    <3> HIDE DEF S
    <3>. QED  BY <1>3, NatLeast
  <2> HIDE DEF S
  <2>. QED  BY <1>2, <2>1 DEF Min
<1>5. m \in Nat /\ c.from < m /\ m <= c.to
  BY <1>0, <1>4
<1>6. m # c.to => (m - c.from) % d = 0 /\ (H(m) \/ H(c.from))
  BY <1>4
<1>7. ASSUME H(c.from)
      PROVE  m <= PageEnd(c.from)
  <2>1. CASE c.to <= PageEnd(c.from)
    BY <1>0, <1>1, <1>5, <2>1
  <2>2. CASE PageEnd(c.from) < c.to
    <3>1. PageEnd(c.from) \in c.from + 1 .. c.to - 1 /\ PageEnd(c.from) - c.from = d
      BY <1>0, <1>1, <2>2
    <3>2. d % d = 0
      BY <1>1, ModSelf
    <3>3. PageEnd(c.from) \in S
      BY <1>7, <3>1, <3>2
    <3>. QED  BY <1>4, <3>3
  <2>. QED  BY <1>0, <1>1, <2>1, <2>2
<1>8. ASSUME m # c.to, m % PageSize # 0
      PROVE  c.from % PageSize # 0 /\ ~H(c.from) /\ H(m)
  <2>1. c.from % PageSize # 0
    <3> SUFFICES ASSUME c.from % PageSize = 0  PROVE FALSE
      OBVIOUS
    <3>1. (m - c.from) % PageSize = 0 /\ m - c.from \in Nat
      BY <1>1, <1>5, <1>6, <1>0, <1>8
    <3>2. (c.from + (m - c.from)) % PageSize = 0
      BY <1>0, <3>1, AlignedSum
    <3>3. c.from + (m - c.from) = m
      BY <1>0, <1>5
    <3>. QED  BY <1>8, <3>2, <3>3
  <2>2. ~H(c.from)
    <3> SUFFICES ASSUME H(c.from)  PROVE FALSE
      OBVIOUS
    <3>1. m - c.from \in 1 .. d
      BY <1>0, <1>1, <1>5, <1>7
    <3>2. m - c.from = d
      <4>1. m - c.from \notin 0 .. d - 1
        <5> SUFFICES ASSUME m - c.from \in 0 .. d - 1  PROVE FALSE
          OBVIOUS
        <5>1. (m - c.from) % d = m - c.from
          BY <1>1, ModSmall
        <5>. QED  BY <1>6, <1>8, <3>1, <5>1
      <4>. QED  BY <1>1, <3>1, <4>1
    <3>3. m = PageEnd(c.from)
      BY <1>0, <1>1, <1>5, <3>2
    <3>. QED  BY <1>1, <1>8, <3>3
  <2>. QED  BY <1>6, <1>8, <2>1, <2>2
<1>. QED  BY <1>5, <1>7, <1>8 DEF H, m

\* An answer has the pages of its piece.
LEMMA AnswerOf ==
  \A c, x : /\ Answer(c, x).id = c.id /\ Answer(c, x).from = c.from /\ Answer(c, x).to = c.to
            /\ Answer(c, x).phys = x /\ PagesOf(Answer(c, x)) = PagesOf(c)
BY DEF Answer, PagesOf

LEMMA BatchOK ==
  ASSUME NEW b \in Batches, NEW k \in DOMAIN b
  PROVE  /\ k \in Nat /\ b[k] \in [from : Nat, to : Nat] /\ b[k].from < b[k].to
         /\ PagesOf(b[k]) \subseteq VPages
<1>1. b \in Seq([from : Nat, to : Nat])
  BY VatAssumption
<1>2. k \in Nat /\ b[k] \in [from : Nat, to : Nat]
  <2>1. Len(b) \in Nat /\ DOMAIN b = 1 .. Len(b)
    BY <1>1, LenProperties
  <2>2. k \in 1 .. Len(b)
    BY <2>1
  <2>3. k \in Nat
    BY <2>1, <2>2
  <2> DEFINE R == [from : Nat, to : Nat]
  <2>4. b \in Seq(R)
    BY <1>1
  <2> HIDE DEF R
  <2>5. b[k] \in R
    BY <2>2, <2>4, ElementOfSeq
  <2>. QED  BY <2>3, <2>5 DEF R
<1>3. b[k].from < b[k].to /\ b[k].from \div PageSize .. (b[k].to - 1) \div PageSize \subseteq VPages
  BY VatAssumption
<1>. QED  BY <1>2, <1>3 DEF PagesOf, PageOf

\* The pages a cached failure is written for are pages that failed.
LEMMA InvalidPagesFailed ==
  ASSUME NEW e \in Piece, e.from < e.to
  PROVE  InvalidPages(e) \subseteq PagesOf(e)
<1> DEFINE k == PageOf(e.from)  m == PageOf(e.to - 1)  z == PageOf(e.to + 1)
<1>1. e.from \in Nat /\ e.to \in Nat /\ e.to - 1 \in Nat /\ (e.to - 1) + 2 = e.to + 1
  BY DEF Piece
<1>2. k \in Nat /\ m \in Nat
  BY <1>1, PagesOfPiece
<1>3. z \in Nat /\ z <= m + 1
  <2>1. e.to + 1 \in Nat
    BY <1>1
  <2>2. z \in Nat
    BY <2>1, DivMeaning DEF PageOf
  <2>3. ((e.to - 1) + 2) \div PageSize <= (e.to - 1) \div PageSize + 1
    BY <1>1, DivTwo
  <2>. QED  BY <1>1, <2>2, <2>3 DEF PageOf
<1>4. Entries \in Nat
  BY VatAssumption
<1> HIDE DEF k, m, z
<1>5. z - 1 \in Int /\ k + Entries - 1 \in Int
  BY <1>2, <1>3, <1>4
<1>6. Min({z - 1, k + Entries - 1}) \in Int /\ Min({z - 1, k + Entries - 1}) <= z - 1
  BY <1>5, MinOfTwo
<1>7. InvalidPages(e) = k .. Min({z - 1, k + Entries - 1})
  BY DEF InvalidPages, k, z
<1>8. PagesOf(e) = k .. m
  BY DEF PagesOf, k, m
<1>. QED  BY <1>2, <1>3, <1>6, <1>7, <1>8

LEMMA ToleranceOK == Tolerance \in Nat
BY ValidatorAssumption DEF Tolerance

-----------------------------------------------------------------------------
(* What the steps do                                                       *)

\* A slot that answers at time t was filled by a walk the validator still
\* accepts at t.
LEMMA HitWalked ==
  ASSUME TypeOK, EntriesWalked, NEW r \in Roots, NEW p \in VPages, NEW t \in Nat,
         last <= t, Counting => t <= MaxTime, Hit(r, p, t)
  PROVE  LET x == entries[CacheIndex(p)].phys IN
         /\ x \in Results
         /\ \E s \in Roots : /\ TableId(s) = TableId(r)
                             /\ walked[s][p][x] # None
                             /\ walked[s][p][x] + Tolerance >= t
<1> DEFINE i == CacheIndex(p)  e == entries[i]
<1>1. i \in SlotIds
  BY IndexInSlots
<1>2. e.pt = TableId(r) /\ e.virt = p /\ IsSlotValid(t, stamp[i])
  BY DEF Hit
<1>3. e.phys \in Results /\ last \in Nat
  BY <1>1 DEF TypeOK
<1>4. e.pt # None
  BY <1>2, TableIdOK, VatAssumption
<1>5. /\ stamp[i] \in 0 .. last
      /\ \E s \in Roots : /\ TableId(s) = e.pt
                          /\ walked[s][p][e.phys] # None
                          /\ walked[s][p][e.phys] >= stamp[i]
  BY <1>1, <1>2, <1>4 DEF EntriesWalked
<1>6. stamp[i] \in 0 .. t
  BY <1>3, <1>5
<1>7. stamp[i] + Tolerance >= t
  BY <1>2, <1>6, ValidIsRecent
<1>8. PICK s \in Roots : /\ TableId(s) = e.pt /\ walked[s][p][e.phys] # None
                         /\ walked[s][p][e.phys] >= stamp[i]
  BY <1>5
<1>9. walked[s][p][e.phys] \in Nat
  BY <1>3, <1>8 DEF TypeOK
<1>. QED  BY <1>2, <1>3, <1>6, <1>7, <1>8, <1>9, ToleranceOK

\* A walk overwrites what was known of its pages and forgets nothing else.
LEMMA RememberWalk ==
  ASSUME TypeOK, WalkedBefore, NEW a, PagesOf(a) \subseteq VPages,
         \A q \in PagesOf(a) : AnswerAt(a, q) \in Results,
         Remember(a), UNCHANGED <<root, last>>
  PROVE  /\ walked' \in [Roots -> [VPages -> [Results -> Nat \cup {None}]]]
         /\ \A r \in Roots, p \in VPages, y \in Results :
              walked[r][p][y] # None =>
                walked'[r][p][y] # None /\ walked'[r][p][y] >= walked[r][p][y]
         /\ WalkedBefore'
         /\ Walked(a)'
<1> DEFINE Is(p, y) == p \in PagesOf(a) /\ y = AnswerAt(a, p)
           row == [p \in VPages |-> [y \in Results |->
                     IF Is(p, y) THEN last ELSE walked[root][p][y]]]
<1>1. /\ walked' = [walked EXCEPT ![root] = row]
      /\ walked \in [Roots -> [VPages -> [Results -> Nat \cup {None}]]]
      /\ root \in Roots /\ last \in Nat
  BY DEF Remember, TypeOK
<1>2. row \in [VPages -> [Results -> Nat \cup {None}]]
  <2>1. \A p \in VPages, y \in Results : walked[root][p][y] \in Nat \cup {None}
    BY <1>1
  <2> HIDE DEF Is
  <2>. QED  BY <1>1, <2>1
<1>3. walked' \in [Roots -> [VPages -> [Results -> Nat \cup {None}]]]
  <2> HIDE DEF row
  <2>. QED  BY <1>1, <1>2
<1>4. \A r \in Roots, p \in VPages, y \in Results :
        \/ walked'[r][p][y] = walked[r][p][y]
        \/ walked'[r][p][y] = last
  <2> HIDE DEF Is
  <2>1. \A p \in VPages, y \in Results : row[p][y] = walked[root][p][y] \/ row[p][y] = last
    OBVIOUS
  <2>2. \A r \in Roots : walked'[r] = IF r = root THEN row ELSE walked[r]
    <3> HIDE DEF row
    <3>. QED  BY <1>1
  <2> HIDE DEF row
  <2>. QED  BY <2>1, <2>2
<1>5. \A r \in Roots, p \in VPages, y \in Results :
        walked[r][p][y] # None => walked[r][p][y] \in Nat /\ walked[r][p][y] <= last
  BY <1>1 DEF WalkedBefore
<1>6. last # None
  BY <1>1, VatAssumption
<1>7. \A r \in Roots, p \in VPages, y \in Results :
        walked[r][p][y] # None =>
          walked'[r][p][y] # None /\ walked'[r][p][y] >= walked[r][p][y]
  BY <1>1, <1>4, <1>5, <1>6
<1>8. WalkedBefore'
  BY <1>1, <1>4, <1>5 DEF WalkedBefore
<1>9. Walked(a)'
  <2> SUFFICES ASSUME NEW q \in PagesOf(a)
               PROVE  AnswerAt(a, q) \in Results /\ walked'[root][q][AnswerAt(a, q)] = last
    BY DEF Walked
  <2> DEFINE y == AnswerAt(a, q)
  <2>1. y \in Results /\ q \in VPages /\ Is(q, y)
    OBVIOUS
  <2> HIDE DEF Is, y
  <2>2. row[q][y] = last
    BY <2>1
  <2>3. walked'[root] = row
    <3> HIDE DEF row
    <3>. QED  BY <1>1
  <2> HIDE DEF row
  <2>. QED  BY <2>1, <2>2, <2>3 DEF y
<1>. QED  BY <1>3, <1>7, <1>8, <1>9

\* The answers given so far stay fresh while the inner translator works.
LEMMA AnswersStayFresh ==
  ASSUME FreshInv, UNCHANGED <<root, last>>, TypeOK',
         \A r \in Roots, p \in VPages, y \in Results :
           walked[r][p][y] # None =>
             walked'[r][p][y] # None /\ walked'[r][p][y] >= walked[r][p][y],
         NEW a \in answers, NEW q \in PagesOf(a)
  PROVE  (\E r \in Roots :
            TableId(r) = TableId(root) /\ RecentlyWalked(r, q, AnswerAt(a, q)))'
<1> DEFINE y == AnswerAt(a, q)
<1>1. PICK r \in Roots : TableId(r) = TableId(root) /\ RecentlyWalked(r, q, y)
  BY DEF FreshInv, AnswersFresh
<1>2. q \in VPages /\ y \in Results
  BY DEF FreshInv, PiecesOK, Pieces
<1> HIDE DEF y
<1>3. last \in Nat /\ walked[r][q][y] \in Nat \cup {None} /\ walked'[r][q][y] \in Nat \cup {None}
  BY <1>2 DEF FreshInv, TypeOK
<1>4. walked[r][q][y] # None /\ walked[r][q][y] + Tolerance >= last
  BY <1>1 DEF RecentlyWalked
<1>5. walked'[r][q][y] # None /\ walked'[r][q][y] + Tolerance >= last
  BY <1>2, <1>3, <1>4, ToleranceOK
<1>. QED  BY <1>1, <1>5 DEF RecentlyWalked, y

\* An answer walked in this call is fresh.
LEMMA WalkedFresh ==
  ASSUME last \in Nat, root \in Roots, NEW a, Walked(a), NEW q \in PagesOf(a)
  PROVE  \E r \in Roots : TableId(r) = TableId(root) /\ RecentlyWalked(r, q, AnswerAt(a, q))
<1>1. last # None /\ last + Tolerance >= last
  BY VatAssumption, ToleranceOK
<1>. QED  BY <1>1 DEF Walked, RecentlyWalked

LEMMA StartFresh ==
  ASSUME FreshInv, NEW r \in Roots, NEW b \in Batches, NEW now \in Instants, Start(r, b, now)
  PROVE  FreshInv'
<1> DEFINE t == UpdateValidity(last, now)
           buffer(k) == [id |-> k, from |-> b[k].from, to |-> b[k].to]
           long == {k \in DOMAIN b : TooLong(b[k])}
<1>1. /\ phase = "idle" /\ (Counting => last < MaxTime) /\ last' = t /\ root' = r
      /\ phase' = "busy"
      /\ todo' = {buffer(k) : k \in DOMAIN b \ long}
      /\ uncached_in' = {buffer(k) : k \in long}
      /\ asked' = {buffer(k) : k \in DOMAIN b}
      /\ UNCHANGED <<entries, stamp, missed, uncached_out, uncached_fail, answers, walked>>
  BY DEF Start, tlbVars
<1>2. /\ last \in Nat /\ now \in Nat /\ (~Counting => last <= now)
  BY VatAssumption DEF FreshInv, TypeOK, Instants
<1>3. /\ t \in Nat /\ last <= t /\ (Counting => t <= MaxTime)
  BY <1>1, <1>2, UpdateMovesForward
<1> HIDE DEF t
<1>4. uncached_out = {} /\ uncached_fail = {} /\ missed = {} /\ answers = {}
  BY <1>1 DEF FreshInv, PiecesOK, Pieces
<1>5. \A k \in DOMAIN b :
        buffer(k) \in Piece /\ buffer(k).from < buffer(k).to /\ PagesOf(buffer(k)) \subseteq VPages
  BY BatchOK DEF Piece, PagesOf
<1> HIDE DEF buffer, long
<1>6. \A c \in todo' \cup uncached_in' \cup asked' :
        c \in Piece /\ c.from < c.to /\ PagesOf(c) \subseteq VPages
  <2>1. long \subseteq DOMAIN b
    BY DEF long
  <2>. QED  BY <1>1, <1>5, <2>1
<1>7. TypeOK'
  <2>1. (todo \cup missed \cup uncached_in \cup uncached_fail \cup asked)' \subseteq Piece
    BY <1>1, <1>4, <1>6
  <2>2. uncached_out' = {} /\ answers' = {}
    BY <1>1, <1>4
  <2>. QED  BY <1>1, <1>3, <2>1, <2>2 DEF FreshInv, TypeOK, Piece
<1>8. PiecesOK' /\ PendingWalked'
  <2>1. phase' # "idle" /\ missed' = {} /\ uncached_out' = {} /\ uncached_fail' = {} /\ answers' = {}
    BY <1>1, <1>4
  <2>. QED  BY <1>6, <2>1 DEF PiecesOK, Pieces, PendingWalked
<1>9. WalkedBefore'
  <2>1. \A s \in Roots, p \in VPages, x \in Results : walked[s][p][x] \in Nat \cup {None}
    BY DEF FreshInv, TypeOK
  <2>. QED  BY <1>1, <1>2, <1>3, <2>1 DEF FreshInv, WalkedBefore
<1>10. EntriesWalked'
  <2>1. \A i \in SlotIds : stamp[i] \in 0 .. last => stamp[i] \in 0 .. t
    BY <1>2, <1>3
  <2>. QED  BY <1>1, <2>1 DEF FreshInv, EntriesWalked
<1>11. AnswersFresh'
  BY <1>1, <1>4 DEF AnswersFresh
<1>. QED  BY <1>7, <1>8, <1>9, <1>10, <1>11 DEF FreshInv

\* What a page that hits is answered with.
LEMMA HitAnswer ==
  ASSUME FreshInv, NEW c \in todo, Hit(root, PageOf(c.from), last),
         NEW a, a = Answer(FrontPart(c, ChunkEnd(c)), entries[CacheIndex(PageOf(c.from))].phys)
  PROVE  /\ a \in [id : Nat, from : Nat, to : Nat, phys : Results]
         /\ a.from < a.to /\ PagesOf(a) \subseteq VPages
         /\ \A q \in PagesOf(a) :
              /\ AnswerAt(a, q) \in Results
              /\ \E r \in Roots :
                   TableId(r) = TableId(root) /\ RecentlyWalked(r, q, AnswerAt(a, q))
<1> DEFINE p == PageOf(c.from)  x == entries[CacheIndex(p)].phys  f == FrontPart(c, ChunkEnd(c))
<1>1. c \in Piece /\ c.from < c.to /\ PagesOf(c) \subseteq VPages /\ c.from \in Nat /\ c.to \in Nat
  BY DEF FreshInv, TypeOK, PiecesOK, Pieces, Piece
<1>2. /\ ChunkEnd(c) \in Nat /\ c.from < ChunkEnd(c) /\ ChunkEnd(c) <= c.to
      /\ ChunkEnd(c) <= PageEnd(c.from)
  BY <1>1, ChunkEndOK
<1>3. /\ f \in Piece /\ f.from = c.from /\ f.to = ChunkEnd(c) /\ PagesOf(f) \subseteq VPages
  BY <1>1, <1>2, CutOK
<1>4. p \in Nat /\ PagesOf(f) = {p}
  <2>1. PageEnd(c.from) \in Nat /\ PageOf(PageEnd(c.from) - 1) = p /\ c.from < PageEnd(c.from)
    BY <1>1, PageEndOK
  <2>2. ChunkEnd(c) - 1 \in Nat /\ PageEnd(c.from) - 1 \in Nat
        /\ c.from <= ChunkEnd(c) - 1 /\ ChunkEnd(c) - 1 <= PageEnd(c.from) - 1
    BY <1>1, <1>2, <2>1
  <2>3. p \in Nat /\ PageOf(ChunkEnd(c) - 1) = p
    <3>1. p \in Nat /\ PageOf(ChunkEnd(c) - 1) \in Nat
      BY <1>1, <2>2, DivMeaning DEF PageOf
    <3>2. p <= PageOf(ChunkEnd(c) - 1)
      BY <1>1, <2>2, DivMono DEF PageOf
    <3>3. PageOf(ChunkEnd(c) - 1) <= PageOf(PageEnd(c.from) - 1)
      BY <2>2, DivMono DEF PageOf
    <3> HIDE DEF p
    <3>. QED  BY <2>1, <3>1, <3>2, <3>3
  <2>. QED  BY <1>3, <2>3 DEF PagesOf
<1>5. p \in VPages
  BY <1>3, <1>4
<1>6. /\ x \in Results
      /\ \E s \in Roots : /\ TableId(s) = TableId(root)
                          /\ walked[s][p][x] # None /\ walked[s][p][x] + Tolerance >= last
  <2>1. TypeOK /\ EntriesWalked /\ root \in Roots /\ last \in Nat /\ (Counting => last <= MaxTime)
    BY DEF FreshInv, TypeOK
  <2>2. last <= last
    BY <2>1
  <2>. QED  BY <1>5, <2>1, <2>2, HitWalked
<1>7. a = Answer(f, x) /\ a.from = c.from /\ a.to = ChunkEnd(c) /\ a.phys = x /\ PagesOf(a) = {p}
  BY <1>3, <1>4, AnswerOf
<1>8. AnswerAt(a, p) = x
  <2>1. x = None \/ x \in Nat
    BY <1>6, VatAssumption DEF Results
  <2>2. PageOf(a.from) = p
    BY <1>7
  <2> HIDE DEF p, x
  <2>. QED  BY <1>4, <1>7, <2>1, <2>2 DEF AnswerAt
<1>9. a \in [id : Nat, from : Nat, to : Nat, phys : Results]
  <2> HIDE DEF x, f
  <2>. QED  BY <1>3, <1>6, <1>7 DEF Answer, Piece
<1> HIDE DEF p, x, f
<1>. QED  BY <1>2, <1>5, <1>6, <1>7, <1>8, <1>9 DEF RecentlyWalked

LEMMA ClassifyFresh ==
  ASSUME FreshInv, NEW c \in todo, Classify(c)
  PROVE  FreshInv'
<1> DEFINE z == ChunkEnd(c)  f == FrontPart(c, z)  H == Hit(root, PageOf(c.from), last)
           a == Answer(f, entries[CacheIndex(PageOf(c.from))].phys)
<1>1. /\ todo' = (todo \ {c}) \cup Behind(c, z) /\ phase = "busy"
      /\ \/ H /\ answers' = answers \cup {a} /\ missed' = missed
         \/ ~H /\ missed' = missed \cup {f} /\ answers' = answers
      /\ UNCHANGED <<entries, stamp, last, phase, root, uncached_in, uncached_out,
                     uncached_fail, asked, walked>>
  BY DEF Classify, tlbVars, ghostVars
<1>2. c \in Piece /\ c.from < c.to /\ PagesOf(c) \subseteq VPages
  BY DEF FreshInv, TypeOK, PiecesOK, Pieces, Piece
<1>3. z \in Nat /\ c.from < z /\ z <= c.to
  BY <1>2, ChunkEndOK
<1>4. H => /\ a \in [id : Nat, from : Nat, to : Nat, phys : Results]
           /\ a.from < a.to /\ PagesOf(a) \subseteq VPages
           /\ \A q \in PagesOf(a) :
                /\ AnswerAt(a, q) \in Results
                /\ \E r \in Roots :
                     TableId(r) = TableId(root) /\ RecentlyWalked(r, q, AnswerAt(a, q))
  BY HitAnswer
<1> HIDE DEF z, H, a
<1>5. f \in Piece /\ f.from < f.to /\ PagesOf(f) \subseteq VPages
  BY <1>2, <1>3, CutOK
<1>6. \A d \in Behind(c, z) : d \in Piece /\ d.from < d.to /\ PagesOf(d) \subseteq VPages
  BY <1>2, <1>3, CutOK
<1> HIDE DEF f
<1>7. TypeOK'
  <2>1. (todo \cup missed \cup uncached_in \cup uncached_fail \cup asked)' \subseteq Piece
    BY <1>1, <1>5, <1>6 DEF FreshInv, TypeOK, Piece
  <2>2. answers' \subseteq [id : Nat, from : Nat, to : Nat, phys : Results]
    BY <1>1, <1>4 DEF FreshInv, TypeOK
  <2>. QED  BY <1>1, <2>1, <2>2 DEF FreshInv, TypeOK, Piece
<1>8. PiecesOK'
  <2>1. phase' # "idle"
    BY <1>1
  <2>2. \A d \in Pieces' : d.from < d.to /\ PagesOf(d) \subseteq VPages
    <3>1. \A d \in Pieces : d.from < d.to /\ PagesOf(d) \subseteq VPages
      BY DEF FreshInv, PiecesOK
    <3>2. \A d \in Pieces' : d \in Pieces \/ d \in Behind(c, z) \/ d = f \/ (H /\ d = a)
      BY <1>1 DEF Pieces
    <3>. QED  BY <1>4, <1>5, <1>6, <3>1, <3>2
  <2>3. \A d \in answers' : \A q \in PagesOf(d) : AnswerAt(d, q) \in Results
    BY <1>1, <1>4 DEF FreshInv, PiecesOK
  <2>. QED  BY <2>1, <2>2, <2>3 DEF PiecesOK
<1>9. PendingWalked' /\ EntriesWalked' /\ WalkedBefore'
  BY <1>1 DEF FreshInv, PendingWalked, Walked, EntriesWalked, WalkedBefore
<1>10. AnswersFresh'
  <2>1. \A d \in answers' : \A q \in PagesOf(d) :
          \E r \in Roots : TableId(r) = TableId(root) /\ RecentlyWalked(r, q, AnswerAt(d, q))
    BY <1>1, <1>4 DEF FreshInv, AnswersFresh
  <2>. QED  BY <1>1, <2>1 DEF AnswersFresh, RecentlyWalked
<1>. QED  BY <1>7, <1>8, <1>9, <1>10 DEF FreshInv

LEMMA WalkKeepsEntries ==
  ASSUME TypeOK, EntriesWalked, UNCHANGED <<entries, stamp, last>>,
         walked' \in [Roots -> [VPages -> [Results -> Nat \cup {None}]]],
         \A r \in Roots, p \in VPages, y \in Results :
           walked[r][p][y] # None =>
             walked'[r][p][y] # None /\ walked'[r][p][y] >= walked[r][p][y]
  PROVE  EntriesWalked'
<1> SUFFICES ASSUME NEW i \in SlotIds
             PROVE  LET e == entries[i] IN
                    /\ e.pt = None => e.phys = None
                    /\ e.pt # None =>
                         /\ e.virt \in VPages /\ stamp[i] \in 0 .. last
                         /\ \E r \in Roots : /\ TableId(r) = e.pt
                                             /\ walked'[r][e.virt][e.phys] # None
                                             /\ walked'[r][e.virt][e.phys] >= stamp[i]
  BY DEF EntriesWalked
<1> DEFINE e == entries[i]
<1>1. e.phys \in Results /\ last \in Nat
  BY DEF TypeOK
<1>2. CASE e.pt = None
  BY <1>2 DEF EntriesWalked
<1>3. CASE e.pt # None
  <2>1. e.virt \in VPages /\ stamp[i] \in 0 .. last
    BY <1>3 DEF EntriesWalked
  <2>2. PICK r \in Roots : /\ TableId(r) = e.pt /\ walked[r][e.virt][e.phys] # None
                           /\ walked[r][e.virt][e.phys] >= stamp[i]
    BY <1>3 DEF EntriesWalked
  <2>3. walked[r][e.virt][e.phys] \in Nat
    BY <1>1, <2>1, <2>2 DEF TypeOK
  <2>4. walked'[r][e.virt][e.phys] # None /\ walked'[r][e.virt][e.phys] \in Nat
    BY <1>1, <2>1, <2>2
  <2>5. walked'[r][e.virt][e.phys] >= walked[r][e.virt][e.phys]
    BY <1>1, <2>1, <2>2
  <2>6. walked'[r][e.virt][e.phys] >= stamp[i]
    BY <1>1, <2>1, <2>2, <2>3, <2>4, <2>5
  <2>. QED  BY <1>3, <2>1, <2>2, <2>4, <2>6
<1>. QED  BY <1>2, <1>3

LEMMA StaysWalked ==
  ASSUME TypeOK, UNCHANGED <<root, last>>, WalkedBefore',
         walked' \in [Roots -> [VPages -> [Results -> Nat \cup {None}]]],
         \A r \in Roots, p \in VPages, y \in Results :
           walked[r][p][y] # None =>
             walked'[r][p][y] # None /\ walked'[r][p][y] >= walked[r][p][y]
  PROVE  \A a : PagesOf(a) \subseteq VPages /\ Walked(a) => Walked(a)'
<1> SUFFICES ASSUME NEW a, PagesOf(a) \subseteq VPages, Walked(a),
                    NEW q \in PagesOf(a), NEW z, z = AnswerAt(a, q)
             PROVE  z \in Results /\ walked'[root'][q][z] = last'
  BY DEF Walked
<1>1. z \in Results /\ walked[root][q][z] = last
  BY DEF Walked
<1>2. last \in Nat /\ last # None /\ root \in Roots /\ q \in VPages
  BY VatAssumption DEF TypeOK
<1>3. walked'[root][q][z] # None /\ walked'[root][q][z] >= last
  BY <1>1, <1>2
<1>4. walked'[root][q][z] <= last
  BY <1>1, <1>2, <1>3 DEF WalkedBefore
<1>5. walked'[root][q][z] \in Nat
  BY <1>1, <1>2, <1>3
<1>6. \A w \in Nat : w >= last /\ w <= last => w = last
  BY <1>2
<1>7. walked'[root][q][z] = last
  BY <1>3, <1>4, <1>5, <1>6, Zenon
<1>8. root' = root /\ last' = last
  OBVIOUS
<1>. QED  BY <1>1, <1>7, <1>8, Zenon

\* What the inner translator cuts off a buffer, and what it leaves.
LEMMA WalkCut ==
  ASSUME NEW c \in Piece, c.from < c.to, PagesOf(c) \subseteq VPages,
         NEW n \in 1 .. Cardinality(PagesOf(c))
  PROVE  /\ FirstPages(c, n) \in Piece /\ FirstPages(c, n).from < FirstPages(c, n).to
         /\ PagesOf(FirstPages(c, n)) \subseteq VPages
         /\ \A d \in Rest(c, n) : d \in Piece /\ d.from < d.to /\ PagesOf(d) \subseteq VPages
<1> DEFINE z == FirstPages(c, n).to
<1>1. z \in Nat /\ c.from < z /\ z <= c.to /\ FirstPages(c, n) = FrontPart(c, z)
  BY FirstPagesEnd
<1>2. Rest(c, n) = Behind(c, z)
  BY DEF Rest
<1> HIDE DEF z
<1>3. /\ FrontPart(c, z) \in Piece /\ FrontPart(c, z).from < FrontPart(c, z).to
      /\ PagesOf(FrontPart(c, z)) \subseteq VPages
  BY <1>1, CutOK
<1>4. \A d \in Behind(c, z) : d \in Piece /\ d.from < d.to /\ PagesOf(d) \subseteq VPages
  BY <1>1, CutOK
<1>. QED  BY <1>1, <1>2, <1>3, <1>4

\* A result of the inner translator for a piece.
LEMMA WalkAnswer ==
  ASSUME NEW f \in Piece, f.from < f.to, PagesOf(f) \subseteq VPages, NEW x \in Results,
         NEW a, a = Answer(f, x), \A q \in PagesOf(a) : AnswerAt(a, q) \in Results
  PROVE  /\ a \in [id : Nat, from : Nat, to : Nat, phys : Results]
         /\ x \in Frames => a \in [id : Nat, from : Nat, to : Nat, phys : Frames]
         /\ a.from < a.to /\ PagesOf(a) \subseteq VPages
<1>1. f.id \in Nat /\ f.from \in Nat /\ f.to \in Nat
  BY DEF Piece
<1>2. a.from = f.from /\ a.to = f.to /\ PagesOf(a) = PagesOf(f)
  BY AnswerOf
<1>. QED  BY <1>1, <1>2 DEF Answer

LEMMA TranslateFresh ==
  ASSUME FreshInv, NEW c \in missed, NEW x \in Results,
         NEW n \in 1 .. Cardinality(PagesOf(c)), Translate(c, n, x)
  PROVE  FreshInv'
<1> DEFINE f == FirstPages(c, n)  a == Answer(f, x)
<1>1. /\ missed' = (missed \ {c}) \cup Rest(c, n)
      /\ \/ x = None /\ uncached_fail' = uncached_fail \cup {f} /\ uncached_out' = uncached_out
         \/ x # None /\ uncached_out' = uncached_out \cup {a} /\ uncached_fail' = uncached_fail
      /\ Remember(a) /\ phase = "busy" /\ asked' = asked
      /\ UNCHANGED <<entries, stamp, last, phase, root, todo, uncached_in, answers>>
      /\ \A q \in PagesOf(a) : AnswerAt(a, q) \in Results
  BY DEF Translate, tlbVars, Settles, Remember
<1>2. c \in Piece /\ c.from < c.to /\ PagesOf(c) \subseteq VPages
  BY DEF FreshInv, TypeOK, PiecesOK, Pieces, Piece
<1>3. /\ f \in Piece /\ f.from < f.to /\ PagesOf(f) \subseteq VPages
      /\ \A d \in Rest(c, n) : d \in Piece /\ d.from < d.to /\ PagesOf(d) \subseteq VPages
  BY <1>2, WalkCut
<1> HIDE DEF f
<1>4. /\ x \in Frames => a \in [id : Nat, from : Nat, to : Nat, phys : Frames]
      /\ a.from < a.to /\ PagesOf(a) \subseteq VPages
  BY <1>1, <1>3, WalkAnswer
<1>5. x = None => a = Answer(f, None)
  OBVIOUS
<1> HIDE DEF a
<1>6. /\ walked' \in [Roots -> [VPages -> [Results -> Nat \cup {None}]]]
      /\ \A r \in Roots, p \in VPages, y \in Results :
           walked[r][p][y] # None =>
             walked'[r][p][y] # None /\ walked'[r][p][y] >= walked[r][p][y]
      /\ WalkedBefore'
      /\ Walked(a)'
  BY <1>1, <1>4, RememberWalk DEF FreshInv
<1>7. TypeOK'
  <2>1. (todo \cup missed \cup uncached_in \cup uncached_fail \cup asked)' \subseteq Piece
    BY <1>1, <1>3 DEF FreshInv, TypeOK, Piece
  <2>2. uncached_out' \subseteq [id : Nat, from : Nat, to : Nat, phys : Frames]
    BY <1>1, <1>4 DEF FreshInv, TypeOK, Results
  <2>. QED  BY <1>1, <1>6, <2>1, <2>2 DEF FreshInv, TypeOK, Piece
<1>8. PiecesOK'
  <2>1. phase' # "idle"
    BY <1>1
  <2>2. \A d \in Pieces' : d.from < d.to /\ PagesOf(d) \subseteq VPages
    <3>1. \A d \in Pieces : d.from < d.to /\ PagesOf(d) \subseteq VPages
      BY DEF FreshInv, PiecesOK
    <3>2. \A d \in Pieces' : d \in Pieces \/ d \in Rest(c, n) \/ d = f \/ d = a
      BY <1>1 DEF Pieces
    <3>. QED  BY <1>3, <1>4, <3>1, <3>2
  <2>. QED  BY <1>1, <2>1, <2>2 DEF FreshInv, PiecesOK
<1>9. PendingWalked'
  <2>1. \A e : PagesOf(e) \subseteq VPages /\ Walked(e) => Walked(e)'
    BY <1>1, <1>6, StaysWalked DEF FreshInv
  <2>2. \A e \in uncached_out : PagesOf(e) \subseteq VPages /\ Walked(e)
    BY DEF FreshInv, PiecesOK, Pieces, PendingWalked
  <2>3. \A e \in uncached_fail : PagesOf(Answer(e, None)) \subseteq VPages /\ Walked(Answer(e, None))
    BY AnswerOf DEF FreshInv, PiecesOK, Pieces, PendingWalked
  <2>4. \A e \in uncached_out' : Walked(e)'
    BY <1>1, <1>6, <2>1, <2>2
  <2>5. \A e \in uncached_fail' : Walked(Answer(e, None))'
    BY <1>1, <1>5, <1>6, <2>1, <2>3
  <2>. QED  BY <2>4, <2>5 DEF PendingWalked
<1>10. EntriesWalked'
  BY <1>1, <1>6, WalkKeepsEntries DEF FreshInv
<1>11. AnswersFresh'
  BY <1>1, <1>6, <1>7, AnswersStayFresh DEF AnswersFresh
<1>. QED  BY <1>6, <1>7, <1>8, <1>9, <1>10, <1>11 DEF FreshInv

LEMMA TranslateLongFresh ==
  ASSUME FreshInv, NEW c \in uncached_in, NEW x \in Results,
         NEW n \in 1 .. Cardinality(PagesOf(c)), TranslateLong(c, n, x)
  PROVE  FreshInv'
<1> DEFINE f == FirstPages(c, n)  a == Answer(f, x)
<1>1. /\ uncached_in' = (uncached_in \ {c}) \cup Rest(c, n) /\ answers' = answers \cup {a}
      /\ Remember(a) /\ phase = "busy" /\ asked' = asked
      /\ UNCHANGED <<entries, stamp, last, phase, root, todo, missed, uncached_out, uncached_fail>>
      /\ \A q \in PagesOf(a) : AnswerAt(a, q) \in Results
  BY DEF TranslateLong, tlbVars, Settles, Remember
<1>2. c \in Piece /\ c.from < c.to /\ PagesOf(c) \subseteq VPages
  BY DEF FreshInv, TypeOK, PiecesOK, Pieces, Piece
<1>3. /\ f \in Piece /\ f.from < f.to /\ PagesOf(f) \subseteq VPages
      /\ \A d \in Rest(c, n) : d \in Piece /\ d.from < d.to /\ PagesOf(d) \subseteq VPages
  BY <1>2, WalkCut
<1> HIDE DEF f
<1>4. /\ a \in [id : Nat, from : Nat, to : Nat, phys : Results]
      /\ a.from < a.to /\ PagesOf(a) \subseteq VPages
  BY <1>1, <1>3, WalkAnswer
<1> HIDE DEF a
<1>5. /\ walked' \in [Roots -> [VPages -> [Results -> Nat \cup {None}]]]
      /\ \A r \in Roots, p \in VPages, y \in Results :
           walked[r][p][y] # None =>
             walked'[r][p][y] # None /\ walked'[r][p][y] >= walked[r][p][y]
      /\ WalkedBefore'
      /\ Walked(a)'
  BY <1>1, <1>4, RememberWalk DEF FreshInv
<1>6. TypeOK'
  <2>1. (todo \cup missed \cup uncached_in \cup uncached_fail \cup asked)' \subseteq Piece
    BY <1>1, <1>3 DEF FreshInv, TypeOK, Piece
  <2>2. answers' \subseteq [id : Nat, from : Nat, to : Nat, phys : Results]
    BY <1>1, <1>4 DEF FreshInv, TypeOK
  <2>. QED  BY <1>1, <1>5, <2>1, <2>2 DEF FreshInv, TypeOK, Piece
<1>7. PiecesOK'
  <2>1. phase' # "idle"
    BY <1>1
  <2>2. \A d \in Pieces' : d.from < d.to /\ PagesOf(d) \subseteq VPages
    <3>1. \A d \in Pieces : d.from < d.to /\ PagesOf(d) \subseteq VPages
      BY DEF FreshInv, PiecesOK
    <3>2. \A d \in Pieces' : d \in Pieces \/ d \in Rest(c, n) \/ d = a
      BY <1>1 DEF Pieces
    <3>. QED  BY <1>3, <1>4, <3>1, <3>2
  <2>. QED  BY <1>1, <2>1, <2>2 DEF FreshInv, PiecesOK
<1>8. PendingWalked'
  <2>1. \A e : PagesOf(e) \subseteq VPages /\ Walked(e) => Walked(e)'
    BY <1>1, <1>5, StaysWalked DEF FreshInv
  <2>2. \A e \in uncached_out : PagesOf(e) \subseteq VPages /\ Walked(e)
    BY DEF FreshInv, PiecesOK, Pieces, PendingWalked
  <2>3. \A e \in uncached_fail : PagesOf(Answer(e, None)) \subseteq VPages /\ Walked(Answer(e, None))
    BY AnswerOf DEF FreshInv, PiecesOK, Pieces, PendingWalked
  <2>. QED  BY <1>1, <2>1, <2>2, <2>3 DEF PendingWalked
<1>9. EntriesWalked'
  BY <1>1, <1>5, WalkKeepsEntries DEF FreshInv
<1>10. AnswersFresh'
  <2>1. last' \in Nat /\ root' \in Roots
    BY <1>6 DEF TypeOK
  <2>2. \A q \in PagesOf(a) :
          (\E r \in Roots : TableId(r) = TableId(root) /\ RecentlyWalked(r, q, AnswerAt(a, q)))'
    <3>1. last \in Nat /\ last # None /\ last + Tolerance >= last
      BY VatAssumption, ToleranceOK DEF FreshInv, TypeOK
    <3>. QED  BY <1>1, <1>5, <2>1, <3>1 DEF Walked, RecentlyWalked
  <2>3. \A d \in answers : \A q \in PagesOf(d) :
          (\E r \in Roots : TableId(r) = TableId(root) /\ RecentlyWalked(r, q, AnswerAt(d, q)))'
    BY <1>1, <1>5, <1>6, AnswersStayFresh
  <2>. QED  BY <1>1, <2>2, <2>3 DEF AnswersFresh
<1>. QED  BY <1>5, <1>6, <1>7, <1>8, <1>9, <1>10 DEF FreshInv

LEMMA CacheEntryFresh ==
  ASSUME FreshInv, NEW e \in uncached_out, CacheEntry(e)
  PROVE  FreshInv'
<1> DEFINE p == PageOf(e.from)  i == CacheIndex(p)
           new == [pt |-> TableId(root), virt |-> p, phys |-> e.phys]
<1>1. /\ phase = "busy"
      /\ entries' = [entries EXCEPT ![i] = new] /\ stamp' = [stamp EXCEPT ![i] = last]
      /\ uncached_out' = uncached_out \ {e} /\ answers' = answers \cup {e}
      /\ UNCHANGED <<last, phase, root, todo, missed, uncached_in, uncached_fail, asked, walked>>
  BY DEF CacheEntry, ghostVars
<1>2. /\ e \in [id : Nat, from : Nat, to : Nat, phys : Frames] /\ e.from < e.to
      /\ PagesOf(e) \subseteq VPages /\ Walked(e)
  BY DEF FreshInv, TypeOK, PiecesOK, Pieces, PendingWalked
<1>3. p \in PagesOf(e) /\ p \in Nat
  BY <1>2, PagesOfPiece DEF PagesOf
<1>4. e.phys \in Nat /\ e.phys \in Results /\ e.phys # None
  BY <1>2, VatAssumption DEF Results
<1>5. walked[root][p][e.phys] = last
  <2>1. AnswerAt(e, p) = e.phys
    BY <1>3, <1>4 DEF AnswerAt
  <2>. QED  BY <1>2, <1>3, <2>1 DEF Walked
<1>6. p \in VPages /\ i \in SlotIds
  BY <1>2, <1>3, IndexInSlots
<1>7. root \in Roots /\ TableId(root) \in Nat /\ TableId(root) # None
      /\ last \in Nat /\ last # None
  BY TableIdOK, VatAssumption DEF FreshInv, TypeOK
<1> HIDE DEF p, i
<1>8. TypeOK'
  <2>1. entries' \in [SlotIds -> [pt : {TableId(r) : r \in Roots} \cup {None},
                                  virt : VPages \cup {None}, phys : Results]]
    <3>1. new \in [pt : {TableId(r) : r \in Roots} \cup {None},
                   virt : VPages \cup {None}, phys : Results]
      BY <1>4, <1>6, <1>7
    <3> HIDE DEF new
    <3>. QED  BY <1>1, <3>1 DEF FreshInv, TypeOK
  <2>2. stamp' \in [SlotIds -> Stamps]
    BY <1>1, StampsOK DEF FreshInv, TypeOK
  <2>3. answers' \subseteq [id : Nat, from : Nat, to : Nat, phys : Results]
    BY <1>1, <1>2 DEF FreshInv, TypeOK, Results
  <2> HIDE DEF new
  <2>. QED  BY <1>1, <2>1, <2>2, <2>3 DEF FreshInv, TypeOK
<1>9. PiecesOK'
  <2>1. \A d \in Pieces' : d \in Pieces
    BY <1>1 DEF Pieces
  <2>. QED  BY <1>1, <1>2, <2>1 DEF FreshInv, PiecesOK, Walked
<1>10. PendingWalked'
  BY <1>1 DEF FreshInv, PendingWalked, Walked
<1>11. WalkedBefore'
  BY <1>1 DEF FreshInv, WalkedBefore
<1>12. EntriesWalked'
  <2> SUFFICES ASSUME NEW j \in SlotIds
               PROVE  LET w == entries'[j] IN
                      /\ w.pt = None => w.phys = None
                      /\ w.pt # None =>
                           /\ w.virt \in VPages /\ stamp'[j] \in 0 .. last
                           /\ \E r \in Roots : /\ TableId(r) = w.pt
                                               /\ walked[r][w.virt][w.phys] # None
                                               /\ walked[r][w.virt][w.phys] >= stamp'[j]
    BY <1>1 DEF EntriesWalked
  <2>1. CASE j = i
    <3>1. entries'[j] = new /\ stamp'[j] = last
      <4> HIDE DEF new
      <4>. QED  BY <1>1, <2>1 DEF FreshInv, TypeOK
    <3>. QED  BY <1>5, <1>6, <1>7, <3>1
  <2>2. CASE j # i
    <3>1. entries'[j] = entries[j] /\ stamp'[j] = stamp[j]
      <4> HIDE DEF new
      <4>. QED  BY <1>1, <2>2 DEF FreshInv, TypeOK
    <3>. QED  BY <3>1 DEF FreshInv, EntriesWalked
  <2>. QED  BY <2>1, <2>2
<1>13. AnswersFresh'
  <2>1. \A q \in PagesOf(e) :
          \E r \in Roots : TableId(r) = TableId(root) /\ RecentlyWalked(r, q, AnswerAt(e, q))
    BY <1>2, <1>7, WalkedFresh
  <2>2. \A a \in answers' : \A q \in PagesOf(a) :
          \E r \in Roots : TableId(r) = TableId(root) /\ RecentlyWalked(r, q, AnswerAt(a, q))
    BY <1>1, <2>1 DEF FreshInv, AnswersFresh
  <2>. QED  BY <1>1, <2>2 DEF AnswersFresh, RecentlyWalked
<1>. QED  BY <1>8, <1>9, <1>10, <1>11, <1>12, <1>13 DEF FreshInv

LEMMA CacheInvalidFresh ==
  ASSUME FreshInv, NEW e \in uncached_fail, CacheInvalidIfUncached(e)
  PROVE  FreshInv'
<1> DEFINE Claims(i, p) == p \in InvalidPages(e) /\ CacheIndex(p) = i /\ Replaceable(i)
           claimed == {i \in SlotIds : \E p \in VPages : Claims(i, p)}
           who(i) == CHOOSE p \in VPages : Claims(i, p)
           new(i) == [pt |-> TableId(root), virt |-> who(i), phys |-> None]
           a == Answer(e, None)
<1>1. /\ phase = "busy"
      /\ entries' = [i \in SlotIds |-> IF i \in claimed THEN new(i) ELSE entries[i]]
      /\ stamp' = [i \in SlotIds |-> IF i \in claimed THEN last ELSE stamp[i]]
      /\ uncached_fail' = uncached_fail \ {e} /\ answers' = answers \cup {a}
      /\ UNCHANGED <<last, phase, root, todo, missed, uncached_in, uncached_out, asked, walked>>
  BY DEF CacheInvalidIfUncached, ghostVars
<1>2. /\ e \in Piece /\ e.from < e.to /\ PagesOf(e) \subseteq VPages /\ Walked(a)
  BY DEF FreshInv, TypeOK, PiecesOK, Pieces, PendingWalked, Piece
<1>3. \A i \in claimed : who(i) \in VPages /\ who(i) \in InvalidPages(e)
  OBVIOUS
<1>4. \A q \in PagesOf(e) : walked[root][q][None] = last
  BY <1>2, AnswerOf DEF Walked, AnswerAt
<1>5. InvalidPages(e) \subseteq PagesOf(e)
  BY <1>2, InvalidPagesFailed
<1>6. \A i \in claimed : who(i) \in VPages /\ walked[root][who(i)][None] = last
  <2> HIDE DEF who, claimed
  <2>. QED  BY <1>3, <1>4, <1>5
<1>7. root \in Roots /\ TableId(root) \in Nat /\ TableId(root) # None
      /\ last \in Nat /\ last # None /\ None \in Results
  BY TableIdOK, VatAssumption DEF FreshInv, TypeOK, Results
<1>8. /\ a \in [id : Nat, from : Nat, to : Nat, phys : Results]
      /\ a.from < a.to /\ PagesOf(a) \subseteq VPages
  BY <1>2, <1>7, WalkAnswer DEF Walked
<1> HIDE DEF claimed, who, a
<1>9. TypeOK'
  <2> DEFINE Slot == [pt : {TableId(r) : r \in Roots} \cup {None},
                      virt : VPages \cup {None}, phys : Results]
  <2>1. entries' \in [SlotIds -> Slot]
    <3>1. \A i \in claimed : new(i) \in Slot
      BY <1>6, <1>7
    <3>2. \A i \in SlotIds : entries[i] \in Slot
      BY DEF FreshInv, TypeOK
    <3> HIDE DEF new, Slot
    <3>. QED  BY <1>1, <3>1, <3>2
  <2>2. stamp' \in [SlotIds -> Stamps]
    <3>1. last \in Stamps
      BY StampsOK DEF FreshInv
    <3>2. \A i \in SlotIds : stamp[i] \in Stamps
      BY DEF FreshInv, TypeOK
    <3> HIDE DEF new
    <3>. QED  BY <1>1, <3>1, <3>2
  <2>3. answers' \subseteq [id : Nat, from : Nat, to : Nat, phys : Results]
    BY <1>1, <1>8 DEF FreshInv, TypeOK
  <2>4. /\ (todo \cup missed \cup uncached_in \cup uncached_fail \cup asked)'
             \subseteq [id : Nat, from : Nat, to : Nat]
        /\ UNCHANGED <<last, phase, root, uncached_out, walked>>
    BY <1>1 DEF FreshInv, TypeOK
  <2>. QED  BY <2>1, <2>2, <2>3, <2>4 DEF FreshInv, TypeOK
<1>10. PiecesOK'
  <2>1. \A d \in Pieces' : d \in Pieces \/ d = a
    BY <1>1 DEF Pieces
  <2>2. \A q \in PagesOf(a) : AnswerAt(a, q) \in Results
    BY <1>2 DEF Walked
  <2>. QED  BY <1>1, <1>8, <2>1, <2>2 DEF FreshInv, PiecesOK
<1>11. PendingWalked' /\ WalkedBefore'
  BY <1>1 DEF FreshInv, PendingWalked, Walked, WalkedBefore
<1>12. EntriesWalked'
  <2> SUFFICES ASSUME NEW j \in SlotIds
               PROVE  LET w == entries'[j] IN
                      /\ w.pt = None => w.phys = None
                      /\ w.pt # None =>
                           /\ w.virt \in VPages /\ stamp'[j] \in 0 .. last
                           /\ \E r \in Roots : /\ TableId(r) = w.pt
                                               /\ walked[r][w.virt][w.phys] # None
                                               /\ walked[r][w.virt][w.phys] >= stamp'[j]
    BY <1>1 DEF EntriesWalked
  <2>1. CASE j \in claimed
    <3>1. entries'[j] = new(j) /\ stamp'[j] = last
      BY <1>1, <2>1
    <3>. QED  BY <1>6, <1>7, <2>1, <3>1
  <2>2. CASE j \notin claimed
    <3>1. entries'[j] = entries[j] /\ stamp'[j] = stamp[j]
      BY <1>1, <2>2
    <3>. QED  BY <3>1 DEF FreshInv, EntriesWalked
  <2>. QED  BY <2>1, <2>2
<1>13. AnswersFresh'
  <2>1. \A q \in PagesOf(a) :
          \E r \in Roots : TableId(r) = TableId(root) /\ RecentlyWalked(r, q, AnswerAt(a, q))
    BY <1>2, <1>7, WalkedFresh
  <2>2. \A d \in answers' : \A q \in PagesOf(d) :
          \E r \in Roots : TableId(r) = TableId(root) /\ RecentlyWalked(r, q, AnswerAt(d, q))
    BY <1>1, <2>1 DEF FreshInv, AnswersFresh
  <2>. QED  BY <1>1, <2>2 DEF AnswersFresh, RecentlyWalked
<1>. QED  BY <1>9, <1>10, <1>11, <1>12, <1>13 DEF FreshInv

LEMMA FinishFresh ==
  ASSUME FreshInv, Finish
  PROVE  FreshInv'
<1>1. /\ UNCHANGED <<entries, stamp, last, root, todo, missed, uncached_in, uncached_out,
                     uncached_fail, walked>>
      /\ phase' = "idle" /\ answers' = {} /\ asked' = {} /\ Pieces' = {}
  BY DEF Finish, tlbVars, Pieces
<1>2. TypeOK'
  BY <1>1 DEF FreshInv, TypeOK
<1>3. PiecesOK' /\ PendingWalked'
  BY <1>1 DEF PiecesOK, PendingWalked, Pieces
<1>4. EntriesWalked' /\ WalkedBefore'
  BY <1>1 DEF FreshInv, EntriesWalked, WalkedBefore
<1>5. AnswersFresh'
  BY <1>1 DEF AnswersFresh
<1>. QED  BY <1>2, <1>3, <1>4, <1>5 DEF FreshInv

LEMMA StutterFresh ==
  ASSUME FreshInv, UNCHANGED vars
  PROVE  FreshInv'
BY DEF vars, tlbVars, callVars, ghostVars, FreshInv, TypeOK, PiecesOK, Pieces, PendingWalked,
       Walked, EntriesWalked, WalkedBefore, AnswersFresh, RecentlyWalked

-----------------------------------------------------------------------------
(* The theorems                                                            *)

LEMMA FreshInit ==
  ASSUME Init
  PROVE  FreshInv
<1>1. TypeOK
  <2>1. AllocatedStamp(0) \in Stamps
    BY ValidatorAssumption DEF Stamps, AllocatedStamp, CountAllocatedStamp,
                               TimedAllocatedStamp, WrappingSub
  <2>2. last = 0 /\ (Counting => last <= MaxTime)
    BY VatAssumption DEF Init
  <2>3. walked \in [Roots -> [VPages -> [Results -> Nat \cup {None}]]]
    BY DEF Init
  <2>4. entries \in [SlotIds -> [pt : {TableId(r) : r \in Roots} \cup {None},
                                 virt : VPages \cup {None}, phys : Results]]
    BY DEF Init, INVALID, Results
  <2>. QED  BY <2>1, <2>2, <2>3, <2>4 DEF Init, TypeOK
<1>2. PiecesOK /\ PendingWalked
  BY DEF Init, PiecesOK, PendingWalked, Pieces
<1>3. EntriesWalked
  BY DEF Init, EntriesWalked, INVALID
<1>4. WalkedBefore
  BY DEF Init, WalkedBefore
<1>5. AnswersFresh
  BY DEF Init, AnswersFresh
<1>. QED  BY <1>1, <1>2, <1>3, <1>4, <1>5 DEF FreshInv

LEMMA FreshNext ==
  ASSUME FreshInv, [Next]_vars
  PROVE  FreshInv'
<1>1. CASE \E r \in Roots, b \in Batches, now \in Instants : Start(r, b, now)
  BY <1>1, StartFresh
<1>2. CASE \E c \in todo : Classify(c)
  BY <1>2, ClassifyFresh
<1>3. ASSUME NEW c \in missed \cup uncached_in, NEW x \in Results,
             NEW n \in 1 .. Cardinality(PagesOf(c)), Translate(c, n, x) \/ TranslateLong(c, n, x)
      PROVE  FreshInv'
  <2>1. CASE Translate(c, n, x)
    <3>1. c \in missed
      BY <2>1 DEF Translate
    <3>. QED  BY <2>1, <3>1, TranslateFresh
  <2>2. CASE TranslateLong(c, n, x)
    <3>1. c \in uncached_in
      BY <2>2 DEF TranslateLong
    <3>. QED  BY <2>2, <3>1, TranslateLongFresh
  <2>. QED  BY <1>3, <2>1, <2>2
<1>4. CASE \E e \in uncached_out : CacheEntry(e)
  BY <1>4, CacheEntryFresh
<1>5. CASE \E e \in uncached_fail : CacheInvalidIfUncached(e)
  BY <1>5, CacheInvalidFresh
<1>6. CASE Finish
  BY <1>6, FinishFresh
<1>7. CASE UNCHANGED vars
  BY <1>7, StutterFresh
<1>. QED  BY <1>1, <1>2, <1>3, <1>4, <1>5, <1>6, <1>7 DEF Next, Inner, Fill

\* The types of the cache and of a call hold in every reachable state.
THEOREM CachedVatTypes == Spec => []TypeOK
<1>1. FreshInv => TypeOK
  BY DEF FreshInv
<1>. QED  BY <1>1, FreshInit, FreshNext, PTL DEF Spec

\* CachedVirtualTranslate answers a page with what a walk of that page, under a
\* root table in the same frame as the caller's, gave within the validity time.
THEOREM CachedVatFresh == Spec => []AnswersFresh
<1>1. FreshInv => AnswersFresh
  BY DEF FreshInv
<1>. QED  BY <1>1, FreshInit, FreshNext, PTL DEF Spec

\* Where every root table has a frame of its own (x86 and x64, not PAE), the
\* walk was one of the caller's own page tables.
THEOREM CachedVatOwn ==
  ASSUME RootsPerFrame = 1
  PROVE  Spec => []AnswersOwn
<1>1. FreshInv => AnswersOwn
  <2>1. \A r \in Roots : TableId(r) = r
    BY VatAssumption DEF TableId
  <2>2. FreshInv => root \in Roots /\ AnswersFresh
    BY DEF FreshInv, TypeOK
  <2>. QED  BY <2>1, <2>2 DEF AnswersFresh, AnswersOwn
<1>. QED  BY <1>1, FreshInit, FreshNext, PTL DEF Spec


\* A failure that is cached (cache_invalid_if_uncached) never takes the slot of
\* a translation that is still valid.
THEOREM CachedVatEvicts == Spec => FailureEvictsNothing
<1> DEFINE A == \A i \in SlotIds :
                  /\ entries[i].phys # None /\ IsSlotValid(last, stamp[i])
                  /\ entries'[i] # entries[i]
                  => entries'[i].phys # None
<1>1. ASSUME FreshInv, [Next]_vars
      PROVE  A
  <2>1. CASE UNCHANGED entries
    BY <2>1
  <2>2. ASSUME NEW e \in uncached_out, CacheEntry(e)
        PROVE  A
    <3>1. PICK i : entries' = [entries EXCEPT ![i] =
                       [pt |-> TableId(root), virt |-> PageOf(e.from), phys |-> e.phys]]
      BY <2>2 DEF CacheEntry
    <3>2. e.phys # None
      BY <1>1, VatAssumption DEF FreshInv, TypeOK
    <3>3. entries = [j \in SlotIds |-> entries[j]]
      BY <1>1 DEF FreshInv, TypeOK
    <3>. QED  BY <3>1, <3>2, <3>3
  <2>3. ASSUME NEW e \in uncached_fail, CacheInvalidIfUncached(e)
        PROVE  A
    <3> SUFFICES ASSUME NEW i \in SlotIds, entries[i].phys # None,
                        IsSlotValid(last, stamp[i]), entries'[i] # entries[i]
                 PROVE  FALSE
      OBVIOUS
    <3>1. entries[i].pt # None
      BY <1>1 DEF FreshInv, EntriesWalked
    <3>2. ~Replaceable(i)
      BY <3>1 DEF Replaceable
    <3>. QED  BY <2>3, <3>2 DEF CacheInvalidIfUncached
  <2>4. \/ UNCHANGED entries
        \/ \E e \in uncached_out : CacheEntry(e)
        \/ \E e \in uncached_fail : CacheInvalidIfUncached(e)
    BY <1>1 DEF Next, Start, Classify, Inner, Translate, TranslateLong, Fill, Finish, vars, tlbVars
  <2> HIDE DEF A
  <2>. QED  BY <2>1, <2>2, <2>3, <2>4
<1>2. FreshInv /\ [Next]_vars => [A]_vars
  BY <1>1
<1>. QED  BY <1>2, FreshInit, FreshNext, PTL DEF Spec, FailureEvictsNothing



-----------------------------------------------------------------------------
(* Every byte is in one place: a piece gives way to pieces of it           *)

\* The pieces of H are not empty.
HeldIn(H) ==
  \A s \in H : s[2].id \in Nat /\ s[2].from \in Nat /\ s[2].to \in Nat /\ s[2].from < s[2].to

\* The held piece s is cut at a: y is its front, R holds what is behind it.
CutsTo(s, y, a, R) ==
  /\ a \in Nat /\ s[2].from < a /\ a <= s[2].to
  /\ y[2].id = s[2].id /\ y[2].from = s[2].from /\ y[2].to = a
  /\ \/ a = s[2].to /\ R = {}
     \/ /\ a # s[2].to
        /\ \E d : /\ R = {d} /\ d[1] = s[1] /\ d[2].id = s[2].id
                  /\ d[2].from = a /\ d[2].to = s[2].to

\* A step that does nothing else to the pieces.
Replaced(s, y, a, R) ==
  /\ s \in Held /\ CutsTo(s, y, a, R)
  /\ Held' = (Held \ {s}) \cup {y} \cup R
  /\ asked' = asked

LEMMA HeldOK ==
  ASSUME FreshInv
  PROVE  HeldIn(Held) /\ \A w \in asked : w.id \in Nat /\ w.from \in Nat /\ w.to \in Nat
<1>1. \A c \in todo \cup missed \cup uncached_in \cup uncached_fail \cup asked :
        c.id \in Nat /\ c.from \in Nat /\ c.to \in Nat
  BY DEF FreshInv, TypeOK
<1>2. \A c \in uncached_out \cup answers : c.id \in Nat /\ c.from \in Nat /\ c.to \in Nat
  BY DEF FreshInv, TypeOK
<1>3. \A c \in Pieces : c.from < c.to
  BY DEF FreshInv, PiecesOK
<1>4. \A s \in Held : s[2] \in Pieces
  BY DEF Held, Pieces
<1>. QED  BY <1>1, <1>2, <1>3, <1>4 DEF HeldIn, Pieces

LEMMA PartsWithin ==
  ASSUME NEW H, HeldIn(H), NEW s \in H, NEW y, NEW a, NEW R, CutsTo(s, y, a, R),
         NEW u \in {y} \cup R
  PROVE  /\ u[2].id = s[2].id /\ u[2].from \in Nat /\ u[2].to \in Nat
         /\ s[2].from <= u[2].from /\ u[2].from < u[2].to /\ u[2].to <= s[2].to
<1>1. s[2].from \in Nat /\ s[2].to \in Nat
  BY DEF HeldIn
<1>2. CASE u = y
  BY <1>1, <1>2 DEF CutsTo
<1>3. CASE u \in R
  BY <1>1, <1>3 DEF CutsTo
<1>. QED  BY <1>2, <1>3

LEMMA CutStaysApart ==
  ASSUME NEW H, HeldIn(H), BytesApart(H), NEW s \in H, NEW y, NEW a, NEW R, CutsTo(s, y, a, R)
  PROVE  BytesApart((H \ {s}) \cup {y} \cup R)
<1> DEFINE N == {y} \cup R
           Meet(t, u) == t[2].id = u[2].id /\ t[2].from < u[2].to /\ u[2].from < t[2].to
<1>1. s[2].from \in Nat /\ s[2].to \in Nat
  BY DEF HeldIn
<1>2. \A t \in H \ {s}, u \in N : ~Meet(t, u) /\ ~Meet(u, t)
  <2> SUFFICES ASSUME NEW t \in H \ {s}, NEW u \in N
               PROVE  ~Meet(t, u) /\ ~Meet(u, t)
    OBVIOUS
  <2>1. /\ u[2].id = s[2].id /\ u[2].from \in Nat /\ u[2].to \in Nat
        /\ s[2].from <= u[2].from /\ u[2].to <= s[2].to
    BY PartsWithin
  <2>2. t[2].from \in Nat /\ t[2].to \in Nat
    BY DEF HeldIn
  <2>3. ~Meet(t, s)
    BY DEF BytesApart
  <2>. QED  BY <1>1, <2>1, <2>2, <2>3
<1>3. \A t, u \in N : Meet(t, u) => t = u
  BY <1>1 DEF CutsTo
<1>4. \A t, u \in H \ {s} : Meet(t, u) => t = u
  BY DEF BytesApart
<1> HIDE DEF Meet, N
<1>5. \A t, u \in (H \ {s}) \cup N : Meet(t, u) => t = u
  BY <1>2, <1>3, <1>4
<1>. QED  BY <1>5 DEF Meet, N, BytesApart

LEMMA CutStaysComplete ==
  ASSUME NEW H, HeldIn(H), BytesHeld(H), \A w \in asked : w.from \in Nat /\ w.to \in Nat,
         NEW s \in H, NEW y, NEW a, NEW R, CutsTo(s, y, a, R)
  PROVE  BytesHeld((H \ {s}) \cup {y} \cup R)
<1> DEFINE G == (H \ {s}) \cup {y} \cup R
<1>1. s[2].from \in Nat /\ s[2].to \in Nat /\ a \in Nat
  BY DEF HeldIn, CutsTo
<1>2. ASSUME NEW w \in asked, NEW z \in w.from .. w.to - 1
      PROVE  \E u \in G : u[2].id = w.id /\ u[2].from <= z /\ z < u[2].to
  <2>1. z \in Int
    OBVIOUS
  <2>2. PICK t \in H : t[2].id = w.id /\ t[2].from <= z /\ z < t[2].to
    BY DEF BytesHeld
  <2>3. CASE t # s
    BY <2>2, <2>3
  <2>4. CASE t = s /\ z < a
    BY <2>2, <2>4 DEF CutsTo
  <2>5. CASE t = s /\ ~(z < a)
    <3>1. a # s[2].to
      BY <1>1, <2>1, <2>2, <2>5
    <3>2. PICK d : R = {d} /\ d[2].id = s[2].id /\ d[2].from = a /\ d[2].to = s[2].to
      BY <3>1 DEF CutsTo
    <3>3. d \in G /\ d[2].id = w.id /\ d[2].from <= z /\ z < d[2].to
      BY <1>1, <2>1, <2>2, <2>5, <3>2
    <3>. QED  BY <3>3
  <2>. QED  BY <2>3, <2>4, <2>5
<1>3. ASSUME NEW u \in G
      PROVE  \E w \in asked : u[2].id = w.id /\ w.from <= u[2].from /\ u[2].to <= w.to
  <2>1. CASE u \in H
    BY <2>1 DEF BytesHeld
  <2>2. CASE u \in {y} \cup R
    <3>1. /\ u[2].id = s[2].id /\ u[2].from \in Nat /\ u[2].to \in Nat
          /\ s[2].from <= u[2].from /\ u[2].to <= s[2].to
      BY <2>2, PartsWithin
    <3>2. PICK w \in asked : s[2].id = w.id /\ w.from <= s[2].from /\ s[2].to <= w.to
      BY DEF BytesHeld
    <3>. QED  BY <1>1, <3>1, <3>2
  <2>. QED  BY <2>1, <2>2
<1> HIDE DEF G
<1>4. BytesHeld(G)
  BY <1>2, <1>3 DEF BytesHeld
<1>. QED  BY <1>4 DEF G

LEMMA ReplacedSettles ==
  ASSUME FreshInv, SettledOnce, NEW s, NEW y, NEW a, NEW R, Replaced(s, y, a, R)
  PROVE  SettledOnce'
<1>1. HeldIn(Held) /\ \A w \in asked : w.from \in Nat /\ w.to \in Nat
  BY HeldOK
<1> DEFINE G == (Held \ {s}) \cup {y} \cup R
<1>2. s \in Held /\ CutsTo(s, y, a, R) /\ Held' = G /\ asked' = asked
  BY DEF Replaced
<1>3. BytesApart(Held) /\ BytesHeld(Held)
  BY DEF SettledOnce
<1>4. BytesApart(G)
  BY <1>1, <1>2, <1>3, CutStaysApart
<1>5. BytesHeld(G)
  BY <1>1, <1>2, <1>3, CutStaysComplete
<1> HIDE DEF G
<1>. QED  BY <1>2, <1>4, <1>5 DEF SettledOnce, BytesApart, BytesHeld

-----------------------------------------------------------------------------
(* Every byte is in one place: the steps                                   *)

\* The piece that the cut leaves is again in the list it was cut from.
LEMMA CutRest ==
  ASSUME NEW c \in Piece, NEW a \in Nat, c.from < a, a <= c.to, NEW tag, NEW y,
         y[2].id = c.id, y[2].from = c.from, y[2].to = a
  PROVE  CutsTo(<<tag, c>>, y, a, {<<tag, d>> : d \in Behind(c, a)})
<1> DEFINE s == <<tag, c>>  R == {<<tag, d>> : d \in Behind(c, a)}
<1>1. s[1] = tag /\ s[2] = c
  OBVIOUS
<1>2. ASSUME a = c.to
      PROVE  CutsTo(s, y, a, R)
  <2>1. R = {}
    BY <1>2, CutOK
  <2> HIDE DEF s, R
  <2>. QED  BY <1>1, <1>2, <2>1 DEF CutsTo
<1>3. ASSUME a # c.to
      PROVE  CutsTo(s, y, a, R)
  <2>1. PICK d \in Piece : Behind(c, a) = {d} /\ d.id = c.id /\ d.from = a /\ d.to = c.to
    BY <1>3, CutOK
  <2>2. R = {<<tag, d>>} /\ <<tag, d>>[1] = tag /\ <<tag, d>>[2] = d
    BY <2>1
  <2> DEFINE e == <<tag, d>>
  <2> HIDE DEF s, R, e
  <2>3. e[1] = s[1] /\ e[2].id = s[2].id /\ e[2].from = a /\ e[2].to = s[2].to
    BY <1>1, <2>1, <2>2 DEF e
  <2>. QED  BY <1>1, <1>3, <2>2, <2>3 DEF CutsTo, e
<1>. QED  BY <1>2, <1>3

LEMMA ClassifyReplaces ==
  ASSUME FreshInv, NEW c \in todo, Classify(c)
  PROVE  \E y, R :
           /\ Replaced(<<"todo", c>>, y, ChunkEnd(c), R)
           /\ y[1] = IF Hit(root, PageOf(c.from), last) THEN "answers" ELSE "missed"
           /\ todo' = (todo \ {c}) \cup Behind(c, ChunkEnd(c))
           /\ UNCHANGED <<entries, stamp, last, root>>
<1> DEFINE z == ChunkEnd(c)  f == FrontPart(c, z)  H == Hit(root, PageOf(c.from), last)
           a == Answer(f, entries[CacheIndex(PageOf(c.from))].phys)
           s == <<"todo", c>>
           R == {<<"todo", d>> : d \in Behind(c, z)}
           y == IF H THEN <<"answers", a>> ELSE <<"missed", f>>
<1>1. /\ todo' = (todo \ {c}) \cup Behind(c, z)
      /\ \/ H /\ answers' = answers \cup {a} /\ missed' = missed
         \/ ~H /\ missed' = missed \cup {f} /\ answers' = answers
      /\ UNCHANGED <<entries, stamp, last, root, uncached_in, uncached_out, uncached_fail, asked>>
  BY DEF Classify, tlbVars, ghostVars
<1>2. c \in Piece /\ c.from < c.to
  BY DEF FreshInv, TypeOK, PiecesOK, Pieces, Piece
<1>3. z \in Nat /\ c.from < z /\ z <= c.to
  BY <1>2, ChunkEndOK
<1> HIDE DEF z, H
<1>4. f.id = c.id /\ f.from = c.from /\ f.to = z
  BY <1>2, <1>3, CutOK
<1>5. a.id = f.id /\ a.from = f.from /\ a.to = f.to
  BY AnswerOf
<1> HIDE DEF f, a
<1>6. y[2].id = c.id /\ y[2].from = c.from /\ y[2].to = z
      /\ y[1] = IF H THEN "answers" ELSE "missed"
  BY <1>4, <1>5
<1>7. CutsTo(s, y, z, R)
  <2> HIDE DEF y
  <2>. QED  BY <1>2, <1>3, <1>6, CutRest
<1>8. s \in Held
  BY DEF Held
<1>9. Held' = (Held \ {s}) \cup {y} \cup R
  <2>1. CASE H
    <3>1. y = <<"answers", a>>
      BY <2>1
    <3> HIDE DEF y
    <3>. QED  BY <1>1, <2>1, <3>1 DEF Held
  <2>2. CASE ~H
    <3>1. y = <<"missed", f>>
      BY <2>2
    <3> HIDE DEF y
    <3>. QED  BY <1>1, <2>2, <3>1 DEF Held
  <2>. QED  BY <2>1, <2>2
<1> HIDE DEF s, y, R
<1>10. Replaced(s, y, z, R)
  BY <1>1, <1>7, <1>8, <1>9 DEF Replaced
<1>. QED  BY <1>1, <1>6, <1>10 DEF z, H, s

\* A step behind the classification cuts where a page ends, or not at all, and
\* only pieces that missed, or were too long.
BehindTodo ==
  /\ todo = {} /\ todo' = {}
  /\ \E s, y, a, R : /\ Replaced(s, y, a, R)
                     /\ s[1] \notin {"todo", "answers"}
                     /\ a = s[2].to \/ a % PageSize = 0

LEMMA TranslateReplaces ==
  ASSUME FreshInv, NEW c \in missed, NEW x \in Results,
         NEW n \in 1 .. Cardinality(PagesOf(c)), Translate(c, n, x)
  PROVE  BehindTodo
<1> DEFINE f == FirstPages(c, n)  z == f.to  a == Answer(f, x)
           s == <<"missed", c>>
           R == {<<"missed", d>> : d \in Behind(c, z)}
           y == IF x = None THEN <<"fail", f>> ELSE <<"out", a>>
<1>1. /\ missed' = (missed \ {c}) \cup Behind(c, z)
      /\ \/ x = None /\ uncached_fail' = uncached_fail \cup {f} /\ uncached_out' = uncached_out
         \/ x # None /\ uncached_out' = uncached_out \cup {a} /\ uncached_fail' = uncached_fail
      /\ UNCHANGED <<uncached_in, answers, asked>> /\ todo = {} /\ todo' = {}
  BY DEF Translate, Remember, Rest
<1>2. c \in Piece /\ c.from < c.to
  BY DEF FreshInv, TypeOK, PiecesOK, Pieces, Piece
<1>3. z \in Nat /\ c.from < z /\ z <= c.to /\ (z = c.to \/ z % PageSize = 0) /\ f = FrontPart(c, z)
  BY <1>2, FirstPagesEnd
<1>4. f.id = c.id /\ f.from = c.from /\ f.to = z
  BY <1>2, <1>3, CutOK
<1>5. a.id = f.id /\ a.from = f.from /\ a.to = f.to
  BY AnswerOf
<1> HIDE DEF f, z, a
<1>6. y[2].id = c.id /\ y[2].from = c.from /\ y[2].to = z
  BY <1>4, <1>5
<1>7. CutsTo(s, y, z, R)
  <2> HIDE DEF y
  <2>. QED  BY <1>2, <1>3, <1>6, CutRest
<1>8. s \in Held /\ s[1] = "missed" /\ s[2] = c
  BY DEF Held
<1>9. Held' = (Held \ {s}) \cup {y} \cup R
  <2>1. CASE x = None
    <3>1. y = <<"fail", f>>
      BY <2>1
    <3> HIDE DEF y
    <3>. QED  BY <1>1, <2>1, <3>1 DEF Held
  <2>2. CASE x # None
    <3>1. y = <<"out", a>>
      BY <2>2
    <3> HIDE DEF y
    <3>. QED  BY <1>1, <2>2, <3>1 DEF Held
  <2>. QED  BY <2>1, <2>2
<1> HIDE DEF s, y, R
<1>10. Replaced(s, y, z, R)
  BY <1>1, <1>7, <1>8, <1>9 DEF Replaced
<1>. QED  BY <1>1, <1>3, <1>8, <1>10 DEF BehindTodo

LEMMA TranslateLongReplaces ==
  ASSUME FreshInv, NEW c \in uncached_in, NEW x \in Results,
         NEW n \in 1 .. Cardinality(PagesOf(c)), TranslateLong(c, n, x)
  PROVE  BehindTodo
<1> DEFINE f == FirstPages(c, n)  z == f.to  a == Answer(f, x)
           s == <<"in", c>>  y == <<"answers", a>>
           R == {<<"in", d>> : d \in Behind(c, z)}
<1>1. /\ uncached_in' = (uncached_in \ {c}) \cup Behind(c, z) /\ answers' = answers \cup {a}
      /\ UNCHANGED <<missed, uncached_fail, uncached_out, asked>> /\ todo = {} /\ todo' = {}
  BY DEF TranslateLong, Remember, Rest
<1>2. c \in Piece /\ c.from < c.to
  BY DEF FreshInv, TypeOK, PiecesOK, Pieces, Piece
<1>3. z \in Nat /\ c.from < z /\ z <= c.to /\ (z = c.to \/ z % PageSize = 0) /\ f = FrontPart(c, z)
  BY <1>2, FirstPagesEnd
<1>4. f.id = c.id /\ f.from = c.from /\ f.to = z
  BY <1>2, <1>3, CutOK
<1>5. a.id = f.id /\ a.from = f.from /\ a.to = f.to
  BY AnswerOf
<1> HIDE DEF f, z, a
<1>6. y[2].id = c.id /\ y[2].from = c.from /\ y[2].to = z
  BY <1>4, <1>5
<1>7. CutsTo(s, y, z, R)
  <2> HIDE DEF y
  <2>. QED  BY <1>2, <1>3, <1>6, CutRest
<1>8. s \in Held /\ s[1] = "in" /\ s[2] = c
  BY DEF Held
<1>9. Held' = (Held \ {s}) \cup {y} \cup R
  BY <1>1 DEF Held
<1> HIDE DEF s, y, R
<1>10. Replaced(s, y, z, R)
  BY <1>1, <1>7, <1>8, <1>9 DEF Replaced
<1>. QED  BY <1>1, <1>3, <1>8, <1>10 DEF BehindTodo

\* A piece that is handed on whole.
LEMMA WholeReplaces ==
  ASSUME FreshInv, NEW s \in Held, NEW y,
         y[2].id = s[2].id, y[2].from = s[2].from, y[2].to = s[2].to,
         Held' = (Held \ {s}) \cup {y}, asked' = asked, todo = {}, todo' = {},
         s[1] \notin {"todo", "answers"}
  PROVE  BehindTodo
<1>1. s[2].to \in Nat /\ s[2].from < s[2].to
  BY HeldOK DEF HeldIn
<1>2. s[2].to <= s[2].to
  BY <1>1
<1>3. CutsTo(s, y, s[2].to, {})
  BY <1>1, <1>2 DEF CutsTo
<1>4. Replaced(s, y, s[2].to, {})
  BY <1>3 DEF Replaced
<1>. QED  BY <1>4 DEF BehindTodo

LEMMA CacheEntryReplaces ==
  ASSUME FreshInv, NEW e \in uncached_out, CacheEntry(e)
  PROVE  BehindTodo
<1> DEFINE s == <<"out", e>>  y == <<"answers", e>>
<1>1. /\ uncached_out' = uncached_out \ {e} /\ answers' = answers \cup {e} /\ todo = {} /\ todo' = {}
      /\ UNCHANGED <<missed, uncached_in, uncached_fail, asked>>
  BY DEF CacheEntry, ghostVars
<1>2. s \in Held /\ s[1] = "out" /\ s[2] = e /\ y[2] = e
  BY DEF Held
<1>3. Held' = (Held \ {s}) \cup {y}
  BY <1>1 DEF Held
<1> HIDE DEF s, y
<1>. QED  BY <1>1, <1>2, <1>3, WholeReplaces

LEMMA CacheInvalidReplaces ==
  ASSUME FreshInv, NEW e \in uncached_fail, CacheInvalidIfUncached(e)
  PROVE  BehindTodo
<1> DEFINE a == Answer(e, None)  s == <<"fail", e>>  y == <<"answers", a>>
<1>1. /\ uncached_fail' = uncached_fail \ {e} /\ answers' = answers \cup {a} /\ todo = {} /\ todo' = {}
      /\ UNCHANGED <<missed, uncached_in, uncached_out, asked>>
  BY DEF CacheInvalidIfUncached, ghostVars
<1>2. a.id = e.id /\ a.from = e.from /\ a.to = e.to
  BY AnswerOf
<1> HIDE DEF a
<1>3. s \in Held /\ s[1] = "fail" /\ s[2] = e /\ y[2] = a
  BY DEF Held
<1>4. Held' = (Held \ {s}) \cup {y}
  BY <1>1 DEF Held
<1> HIDE DEF s, y
<1>. QED  BY <1>1, <1>2, <1>3, <1>4, WholeReplaces

\* A call begins with the buffers of its batch.
LEMMA StartHolds ==
  ASSUME FreshInv, NEW r \in Roots, NEW b \in Batches, NEW now \in Instants, Start(r, b, now)
  PROVE  /\ \A s \in Held' : s[2] \in asked'
         /\ \A w \in asked' : \E s \in Held' : s[2] = w
         /\ \A s, t \in Held' : s[2].id = t[2].id => s = t
         /\ todo' \subseteq asked'
<1> DEFINE buffer(k) == [id |-> k, from |-> b[k].from, to |-> b[k].to]
           long == {k \in DOMAIN b : TooLong(b[k])}
<1>1. /\ todo' = {buffer(k) : k \in DOMAIN b \ long}
      /\ uncached_in' = {buffer(k) : k \in long}
      /\ asked' = {buffer(k) : k \in DOMAIN b}
      /\ missed' = {} /\ uncached_out' = {} /\ uncached_fail' = {} /\ answers' = {}
  BY DEF Start, FreshInv, PiecesOK, Pieces
<1>2. long \subseteq DOMAIN b /\ \A k : buffer(k).id = k
  OBVIOUS
<1> HIDE DEF buffer, long
<1>3. \A s : s \in Held' <=>
        \/ \E k \in DOMAIN b \ long : s = <<"todo", buffer(k)>>
        \/ \E k \in long : s = <<"in", buffer(k)>>
  BY <1>1 DEF Held
<1>4. \A s \in Held' : s[2] \in asked'
  BY <1>1, <1>2, <1>3
<1>5. \A w \in asked' : \E s \in Held' : s[2] = w
  <2> SUFFICES ASSUME NEW k \in DOMAIN b
               PROVE  \E s \in Held' : s[2] = buffer(k)
    BY <1>1
  <2>1. CASE k \in long
    <3>1. <<"in", buffer(k)>> \in Held'
      BY <1>3, <2>1
    <3>. QED  BY <3>1
  <2>2. CASE k \notin long
    <3>1. <<"todo", buffer(k)>> \in Held'
      BY <1>3, <2>2
    <3>. QED  BY <3>1
  <2>. QED  BY <2>1, <2>2
<1>6. \A s, t \in Held' : s[2].id = t[2].id => s = t
  <2> SUFFICES ASSUME NEW s \in Held', NEW t \in Held', s[2].id = t[2].id
               PROVE  s = t
    OBVIOUS
  <2>1. PICK k \in DOMAIN b : \/ k \notin long /\ s = <<"todo", buffer(k)>>
                              \/ k \in long /\ s = <<"in", buffer(k)>>
    BY <1>2, <1>3
  <2>2. PICK j \in DOMAIN b : \/ j \notin long /\ t = <<"todo", buffer(j)>>
                              \/ j \in long /\ t = <<"in", buffer(j)>>
    BY <1>2, <1>3
  <2>3. s[2] = buffer(k) /\ t[2] = buffer(j)
    BY <2>1, <2>2
  <2>4. k = j
    BY <1>2, <2>3
  <2>. QED  BY <2>1, <2>2, <2>4
<1>7. todo' \subseteq asked'
  BY <1>1
<1>. QED  BY <1>4, <1>5, <1>6, <1>7

\* Between calls nothing is held.
LEMMA FinishHolds ==
  ASSUME Finish
  PROVE  Held' = {} /\ asked' = {} /\ todo' = {}
BY DEF Finish, Held

LEMMA StutterHolds ==
  ASSUME UNCHANGED vars
  PROVE  UNCHANGED <<Held, asked, todo, root, last, entries, stamp>>
BY DEF vars, tlbVars, callVars, ghostVars, Held

\* A step begins a call, cuts the next chunk off a buffer, settles a piece or
\* returns.
LEMMA NextHolds ==
  ASSUME FreshInv, [Next]_vars
  PROVE  \/ \E r \in Roots, b \in Batches, now \in Instants : Start(r, b, now)
         \/ \E c \in todo : Classify(c)
         \/ BehindTodo
         \/ Finish
         \/ UNCHANGED vars
<1>1. ASSUME NEW c \in missed \cup uncached_in, NEW x \in Results,
             NEW n \in 1 .. Cardinality(PagesOf(c)), Translate(c, n, x) \/ TranslateLong(c, n, x)
      PROVE  BehindTodo
  <2>1. CASE Translate(c, n, x)
    <3>1. c \in missed
      BY <2>1 DEF Translate
    <3>. QED  BY <2>1, <3>1, TranslateReplaces
  <2>2. CASE TranslateLong(c, n, x)
    <3>1. c \in uncached_in
      BY <2>2 DEF TranslateLong
    <3>. QED  BY <2>2, <3>1, TranslateLongReplaces
  <2>. QED  BY <1>1, <2>1, <2>2
<1>2. CASE Fill
  BY <1>2, CacheEntryReplaces, CacheInvalidReplaces DEF Fill
<1>. QED  BY <1>1, <1>2 DEF Next, Inner

LEMMA SettledNext ==
  ASSUME FreshInv, SettledOnce, [Next]_vars
  PROVE  SettledOnce'
<1>1. ASSUME NEW r \in Roots, NEW b \in Batches, NEW now \in Instants, Start(r, b, now)
      PROVE  SettledOnce'
  <2>1. /\ \A s \in Held' : s[2] \in asked'
        /\ \A w \in asked' : \E s \in Held' : s[2] = w
        /\ \A s, t \in Held' : s[2].id = t[2].id => s = t
    BY <1>1, StartHolds
  <2>2. FreshInv'
    BY <1>1, StartFresh
  <2>3. \A w \in asked' : w.from \in Nat /\ w.to \in Nat
    BY <2>2 DEF FreshInv, TypeOK
  <2>4. BytesApart(Held)'
    BY <2>1 DEF BytesApart
  <2>5. \A w \in asked' : \A z \in w.from .. w.to - 1 :
          \E s \in Held' : s[2].id = w.id /\ s[2].from <= z /\ z < s[2].to
    <3> SUFFICES ASSUME NEW w \in asked', NEW z \in w.from .. w.to - 1
                 PROVE  \E s \in Held' : s[2].id = w.id /\ s[2].from <= z /\ z < s[2].to
      OBVIOUS
    <3>1. PICK s \in Held' : s[2] = w
      BY <2>1
    <3>. QED  BY <2>3, <3>1
  <2>6. \A s \in Held' : \E w \in asked' :
          s[2].id = w.id /\ w.from <= s[2].from /\ s[2].to <= w.to
    BY <2>1, <2>3
  <2>. QED  BY <2>4, <2>5, <2>6 DEF SettledOnce, BytesHeld
<1>2. CASE \E c \in todo : Classify(c)
  BY <1>2, ClassifyReplaces, ReplacedSettles
<1>3. CASE BehindTodo
  BY <1>3, ReplacedSettles DEF BehindTodo
<1>4. CASE Finish
  BY <1>4, FinishHolds DEF SettledOnce, BytesApart, BytesHeld
<1>5. CASE UNCHANGED vars
  BY <1>5, StutterHolds DEF SettledOnce, BytesApart, BytesHeld
<1>. QED  BY <1>1, <1>2, <1>3, <1>4, <1>5, NextHolds

\* Whatever is cached and however the iterator and the inner translator cut the
\* buffers (virt_to_phys_iter): every byte of a batch is answered exactly once,
\* and until then in exactly one of the lists of the call.
THEOREM CachedVatSettles == Spec => []SettledOnce
<1>1. Init => FreshInv /\ SettledOnce
  BY FreshInit DEF Init, SettledOnce, BytesApart, BytesHeld, Held
<1>2. FreshInv /\ SettledOnce /\ [Next]_vars => (FreshInv /\ SettledOnce)'
  BY FreshNext, SettledNext
<1>. QED  BY <1>1, <1>2, PTL DEF Spec

-----------------------------------------------------------------------------
(* At most one page of a buffer is halved                                  *)

\* s is a piece of w that begins within a page, and w does not begin with it.
BeginsWithin(s, w) == s[2].id = w.id /\ s[2].from # w.from /\ s[2].from % PageSize # 0

\* What is left of a short buffer reaches to its end.  A piece that begins
\* within a page is the only one of its buffer, and its page hits: the inner
\* translator does not get it, and it is not cut within a page again.
HalfInv ==
  /\ \A v, w \in asked : v.id = w.id => v = w
  /\ \A c \in todo, w \in asked : c.id = w.id => c.to = w.to
  /\ \A s \in Held, w \in asked : BeginsWithin(s, w) =>
       /\ w.from % PageSize # 0
       /\ s[1] \in {"todo", "answers"}
       /\ s[1] = "todo" => Hit(root, PageOf(s[2].from), last)
  /\ \A s, t \in Held, w \in asked : BeginsWithin(s, w) /\ BeginsWithin(t, w) => s = t

\* The front of a piece begins where the piece does.
LEMMA InnerFront ==
  ASSUME NEW s, NEW y, NEW a, NEW R, CutsTo(s, y, a, R), NEW w
  PROVE  BeginsWithin(y, w) => BeginsWithin(s, w)
BY DEF CutsTo, BeginsWithin

LEMMA BehindTodoHalves ==
  ASSUME FreshInv, HalfInv, BehindTodo
  PROVE  HalfInv'
<1>1. PICK s, y, a, R : /\ Replaced(s, y, a, R)
                        /\ s[1] \notin {"todo", "answers"}
                        /\ a = s[2].to \/ a % PageSize = 0
  BY DEF BehindTodo
<1>2. /\ s \in Held /\ CutsTo(s, y, a, R) /\ Held' = (Held \ {s}) \cup {y} \cup R
      /\ asked' = asked /\ todo' = {}
  BY <1>1 DEF Replaced, BehindTodo
<1>3. \A w \in asked : ~BeginsWithin(s, w)
  BY <1>1, <1>2 DEF HalfInv
<1>4. \A w : ~BeginsWithin(y, w) \/ BeginsWithin(s, w)
  BY <1>2, InnerFront
<1>5. \A w : \A d \in R : ~BeginsWithin(d, w)
  BY <1>1, <1>2 DEF CutsTo, BeginsWithin
<1>6. \A t \in Held', w \in asked : BeginsWithin(t, w) => t \in Held
  BY <1>2, <1>3, <1>4, <1>5
<1>7. \A t \in Held : t[1] = "todo" => FALSE
  BY DEF BehindTodo, Held
<1>8. \A t \in Held', w \in asked : BeginsWithin(t, w) =>
        w.from % PageSize # 0 /\ t[1] \in {"todo", "answers"} /\ t[1] # "todo"
  BY <1>6, <1>7 DEF HalfInv
<1>9. \A t, u \in Held', w \in asked : BeginsWithin(t, w) /\ BeginsWithin(u, w) => t = u
  BY <1>6 DEF HalfInv
<1>10. /\ \A v, w \in asked' : v.id = w.id => v = w
       /\ \A c \in todo', w \in asked' : c.id = w.id => c.to = w.to
  BY <1>2 DEF HalfInv
<1>. QED  BY <1>2, <1>8, <1>9, <1>10 DEF HalfInv, BeginsWithin

\* The rest of a buffer that the iterator has cut: if it begins within a page,
\* the chunk was cut off a whole buffer, one that begins within a page too.
LEMMA RestHalves ==
  ASSUME FreshInv, SettledOnce, HalfInv, NEW c \in todo, NEW w \in asked,
         NEW s, s = <<"todo", c>>,
         NEW y, NEW a, a = ChunkEnd(c), NEW R, CutsTo(s, y, a, R),
         NEW d \in R, BeginsWithin(d, w)
  PROVE  /\ w.from % PageSize # 0 /\ d[1] = "todo" /\ Hit(root, PageOf(d[2].from), last)
         /\ c.id = w.id /\ c.from = w.from /\ c.to = w.to
<1>1. c \in Piece /\ c.from < c.to
  BY DEF FreshInv, TypeOK, PiecesOK, Pieces, Piece
<1>2. s \in Held /\ s[1] = "todo" /\ s[2] = c
  BY DEF Held
<1>3. a # c.to /\ d[1] = "todo" /\ d[2].id = c.id /\ d[2].from = a
  BY <1>2 DEF CutsTo
<1>4. a % PageSize # 0 /\ c.id = w.id
  BY <1>3 DEF BeginsWithin
<1>5. c.from % PageSize # 0 /\ ~Hit(root, PageOf(c.from), last) /\ Hit(root, PageOf(a), last)
  BY <1>1, <1>3, <1>4, ChunkEndOK
<1>6. ~BeginsWithin(s, w)
  BY <1>2, <1>5 DEF HalfInv
<1>7. c.from = w.from
  BY <1>2, <1>4, <1>5, <1>6 DEF BeginsWithin
<1>8. c.to = w.to
  BY <1>4 DEF HalfInv
<1>. QED  BY <1>3, <1>4, <1>5, <1>7, <1>8

LEMMA ClassifyHalves ==
  ASSUME FreshInv, SettledOnce, HalfInv, NEW c \in todo, Classify(c)
  PROVE  HalfInv'
<1> DEFINE s == <<"todo", c>>  a == ChunkEnd(c)  H == Hit(root, PageOf(c.from), last)
<1>1. PICK y, R : /\ Replaced(s, y, a, R)
                  /\ y[1] = IF H THEN "answers" ELSE "missed"
                  /\ todo' = (todo \ {c}) \cup Behind(c, a)
                  /\ UNCHANGED <<entries, stamp, last, root>>
  BY ClassifyReplaces
<1>2. /\ s \in Held /\ CutsTo(s, y, a, R) /\ Held' = (Held \ {s}) \cup {y} \cup R /\ asked' = asked
  BY <1>1 DEF Replaced
<1>3. s[1] = "todo" /\ s[2] = c
  OBVIOUS
<1>4. c \in Piece /\ c.from < c.to /\ a \in Nat /\ c.from < a /\ a <= c.to
      /\ c.from \in Nat /\ c.to \in Nat
  BY ChunkEndOK DEF FreshInv, TypeOK, PiecesOK, Pieces, Piece
<1>5. BytesApart(Held) /\ BytesHeld(Held) /\ HeldIn(Held)
  BY HeldOK DEF SettledOnce
<1>6. \A d \in R, w \in asked : BeginsWithin(d, w) =>
        /\ w.from % PageSize # 0 /\ d[1] = "todo" /\ Hit(root, PageOf(d[2].from), last)
        /\ c.id = w.id /\ c.from = w.from /\ c.to = w.to
  BY <1>2, RestHalves
<1> HIDE DEF s, a, H
<1>7. \A w \in asked : BeginsWithin(y, w) => BeginsWithin(s, w) /\ y[1] = "answers"
  <2> SUFFICES ASSUME NEW w \in asked, BeginsWithin(y, w)
               PROVE  BeginsWithin(s, w) /\ y[1] = "answers"
    OBVIOUS
  <2>1. BeginsWithin(s, w)
    BY <1>2, InnerFront
  <2>2. H
    BY <1>2, <1>3, <2>1 DEF HalfInv, H
  <2>. QED  BY <1>1, <2>1, <2>2
<1>8. \A w \in asked, d \in R : ~(BeginsWithin(d, w) /\ BeginsWithin(s, w))
  BY <1>3, <1>6 DEF BeginsWithin
<1>9. \A w \in asked, t \in Held \ {s}, d \in R : ~(BeginsWithin(d, w) /\ BeginsWithin(t, w))
  <2> SUFFICES ASSUME NEW w \in asked, NEW t \in Held \ {s}, NEW d \in R,
                      BeginsWithin(d, w), BeginsWithin(t, w)
               PROVE  FALSE
    OBVIOUS
  <2>1. s[2].id = w.id /\ s[2].from = w.from /\ s[2].to = w.to
    BY <1>3, <1>6
  <2>2. PICK v \in asked : t[2].id = v.id /\ v.from <= t[2].from /\ t[2].to <= v.to
    BY <1>5 DEF BytesHeld
  <2>3. t[2].id = w.id /\ v = w
    BY <2>2 DEF HalfInv, BeginsWithin
  <2>4. t[2].from \in Nat /\ t[2].to \in Nat /\ t[2].from < t[2].to
    BY <1>5 DEF HeldIn
  <2>5. s[2].id = t[2].id /\ s[2].from < t[2].to /\ t[2].from < s[2].to
    BY <1>3, <1>4, <2>1, <2>2, <2>3, <2>4
  <2>6. s = t
    BY <1>2, <1>5, <2>5 DEF BytesApart
  <2>. QED  BY <2>6
<1>10. \A t \in Held', w \in asked : BeginsWithin(t, w) =>
         /\ w.from % PageSize # 0
         /\ t[1] \in {"todo", "answers"}
         /\ t[1] = "todo" => Hit(root, PageOf(t[2].from), last)
  <2> SUFFICES ASSUME NEW t \in Held', NEW w \in asked, BeginsWithin(t, w)
               PROVE  /\ w.from % PageSize # 0
                      /\ t[1] \in {"todo", "answers"}
                      /\ t[1] = "todo" => Hit(root, PageOf(t[2].from), last)
    OBVIOUS
  <2>1. CASE t \in Held
    BY <2>1 DEF HalfInv
  <2>2. CASE t = y
    BY <1>2, <1>7, <2>2 DEF HalfInv
  <2>3. CASE t \in R
    BY <1>6, <2>3
  <2>. QED  BY <1>2, <2>1, <2>2, <2>3
<1>11. \A t, u \in Held', w \in asked : BeginsWithin(t, w) /\ BeginsWithin(u, w) => t = u
  <2>1. \A t, u \in R : t = u
    BY <1>2 DEF CutsTo
  <2>2. \A w \in asked, t, u \in Held : BeginsWithin(t, w) /\ BeginsWithin(u, w) => t = u
    BY DEF HalfInv
  <2>3. \A w \in asked, t \in Held \ {s} : ~(BeginsWithin(t, w) /\ BeginsWithin(y, w))
    BY <1>2, <1>7, <2>2
  <2>4. \A w \in asked, d \in R : ~(BeginsWithin(d, w) /\ BeginsWithin(y, w))
    BY <1>7, <1>8
  <2>. QED  BY <1>2, <1>9, <2>1, <2>2, <2>3, <2>4
<1>12. \A d \in todo', w \in asked : d.id = w.id => d.to = w.to
  <2>1. \A d \in Behind(c, a) : d.id = c.id /\ d.to = c.to
    BY <1>4, CutOK
  <2>. QED  BY <1>1, <2>1 DEF HalfInv
<1>13. \A p : Hit(root, p, last)' = Hit(root, p, last)
  BY <1>1 DEF Hit
<1>14. \A v, w \in asked : v.id = w.id => v = w
  BY DEF HalfInv
<1>. QED  BY <1>1, <1>2, <1>10, <1>11, <1>12, <1>13, <1>14 DEF HalfInv, BeginsWithin

LEMMA HalfNext ==
  ASSUME FreshInv, SettledOnce, HalfInv, [Next]_vars
  PROVE  HalfInv'
<1>1. ASSUME NEW r \in Roots, NEW b \in Batches, NEW now \in Instants, Start(r, b, now)
      PROVE  HalfInv'
  <2>1. /\ \A s \in Held' : s[2] \in asked'
        /\ \A w \in asked' : \E s \in Held' : s[2] = w
        /\ \A s, t \in Held' : s[2].id = t[2].id => s = t
        /\ todo' \subseteq asked'
    BY <1>1, StartHolds
  <2>2. \A v, w \in asked' : v.id = w.id => v = w
    BY <2>1
  <2>3. \A s \in Held', w \in asked' : ~BeginsWithin(s, w)
    BY <2>1, <2>2 DEF BeginsWithin
  <2>. QED  BY <2>1, <2>2, <2>3 DEF HalfInv, BeginsWithin
<1>2. CASE \E c \in todo : Classify(c)
  BY <1>2, ClassifyHalves
<1>3. CASE BehindTodo
  BY <1>3, BehindTodoHalves
<1>4. CASE Finish
  BY <1>4, FinishHolds DEF HalfInv
<1>5. CASE UNCHANGED vars
  <2>1. UNCHANGED <<Held, asked, todo, root, last, entries, stamp>>
    BY <1>5, StutterHolds
  <2>2. \A p : Hit(root, p, last)' = Hit(root, p, last)
    BY <2>1 DEF Hit
  <2>. QED  BY <2>1, <2>2 DEF HalfInv, BeginsWithin
<1>. QED  BY <1>1, <1>2, <1>3, <1>4, <1>5, NextHolds

\* A piece that begins where a page is halved begins within a page.
LEMMA HalvesInner ==
  ASSUME FreshInv, SettledOnce, NEW s \in Held, NEW t \in Held, Halves(s[2], t[2]),
         NEW w \in asked, t[2].id = w.id,
         \A v \in asked : v.id = w.id => v = w
  PROVE  BeginsWithin(t, w)
<1>1. /\ s[2].from \in Nat /\ s[2].to \in Nat /\ s[2].from < s[2].to
      /\ t[2].from \in Nat /\ t[2].to \in Nat /\ t[2].from < t[2].to
  BY HeldOK DEF HeldIn
<1>2. s[2].id = t[2].id /\ s[2].from < t[2].from /\ PageOf(s[2].to - 1) = PageOf(t[2].from)
  BY DEF Halves
<1>3. s[2].to <= t[2].from
  <2>1. s # t
    BY <1>1, <1>2
  <2>2. ~(s[2].from < t[2].to /\ t[2].from < s[2].to)
    BY <1>2, <2>1 DEF SettledOnce, BytesApart
  <2>. QED  BY <1>1, <1>2, <2>2
<1>4. t[2].from % PageSize # 0
  <2> SUFFICES ASSUME t[2].from % PageSize = 0  PROVE FALSE
    OBVIOUS
  <2> DEFINE z == s[2].to - 1  k == PageOf(z) * PageSize
  <2>1. z \in Nat /\ z < t[2].from
    BY <1>1, <1>3
  <2>2. t[2].from = k
    BY <1>1, <1>2, AlignedIsMultiple DEF PageOf
  <2>3. k <= z
    BY <2>1, DivMeaning DEF PageOf
  <2> HIDE DEF k, z
  <2>. QED  BY <1>1, <2>1, <2>2, <2>3
<1>5. w.from <= s[2].from /\ w.from \in Nat
  <2>1. PICK v \in asked : s[2].id = v.id /\ v.from <= s[2].from
    BY DEF SettledOnce, BytesHeld
  <2>2. v = w
    BY <1>2, <2>1
  <2>. QED  BY <2>1, <2>2, HeldOK
<1>6. t[2].from # w.from
  BY <1>1, <1>2, <1>5
<1>. QED  BY <1>4, <1>6 DEF BeginsWithin

\* page_chunks_by cuts within a page at most once in a buffer, in one that does
\* not begin with a page, and what is behind that cut is answered by the cache:
\* the inner translator and the TLB never both get the same byte, nor share more
\* than one page of a buffer.
THEOREM CachedVatHalves == Spec => []OnePageHalved
<1>1. Init => FreshInv /\ SettledOnce /\ HalfInv
  BY FreshInit DEF Init, SettledOnce, BytesApart, BytesHeld, HalfInv, Held
<1>2. FreshInv /\ SettledOnce /\ HalfInv /\ [Next]_vars => (FreshInv /\ SettledOnce /\ HalfInv)'
  BY FreshNext, SettledNext, HalfNext
<1>3. ASSUME FreshInv, SettledOnce, HalfInv
      PROVE  OnePageHalved
  <2>1. \A s, t \in Held, w \in asked : Halves(s[2], t[2]) /\ t[2].id = w.id => BeginsWithin(t, w)
    BY <1>3, HalvesInner DEF HalfInv
  <2>2. \A t \in Held : \E w \in asked : t[2].id = w.id
    BY <1>3 DEF SettledOnce, BytesHeld
  <2> SUFFICES ASSUME NEW s \in Held, NEW t \in Held, Halves(s[2], t[2])
               PROVE  /\ t[1] \in {"todo", "answers"}
                      /\ \A w \in asked : w.id = t[2].id => w.from % PageSize # 0
                      /\ \A u, v \in Held : Halves(u[2], v[2]) /\ v[2].id = t[2].id => v = t
    BY DEF OnePageHalved
  <2>3. t[1] \in {"todo", "answers"}
    BY <1>3, <2>1, <2>2 DEF HalfInv
  <2>4. \A w \in asked : w.id = t[2].id => w.from % PageSize # 0
    BY <1>3, <2>1 DEF HalfInv
  <2>5. \A u, v \in Held : Halves(u[2], v[2]) /\ v[2].id = t[2].id => v = t
    <3> SUFFICES ASSUME NEW u \in Held, NEW v \in Held, Halves(u[2], v[2]), v[2].id = t[2].id
                 PROVE  v = t
      OBVIOUS
    <3>1. PICK w \in asked : t[2].id = w.id
      BY <2>2
    <3>2. BeginsWithin(t, w) /\ BeginsWithin(v, w)
      BY <2>1, <3>1
    <3>. QED  BY <1>3, <3>2 DEF HalfInv
  <2>. QED  BY <2>3, <2>4, <2>5
<1>. QED  BY <1>1, <1>2, <1>3, PTL DEF Spec
=============================================================================

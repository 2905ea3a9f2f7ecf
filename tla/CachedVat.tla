------------------------------ MODULE CachedVat ------------------------------
(***************************************************************************)
(* CachedVirtualTranslate and its TLBCache: a direct-mapped, time-limited  *)
(* cache of translations in front of another VirtualTranslate.  The cache  *)
(* is shared by all processes: a slot names the page table it belongs to   *)
(* by translation_table_id.  Failures are cached as well.                  *)
(*                                                                         *)
(* The inner translator is external here and may answer anything (MmuWalk  *)
(* models the one memflow has): for the pages of a buffer, in pieces, it   *)
(* gives a frame or a failure.  A buffer is a range of bytes [from, to) of *)
(* element id of the batch; pages are PageSize bytes long.                 *)
(***************************************************************************)
EXTENDS Integers, Sequences, FiniteSets, FiniteSetsExt, CacheValidator

CONSTANTS
  Roots,           \* dtb values, in units of the alignment of a root table
  RootsPerFrame,   \* how many of them lie in one 4k frame
  Entries,         \* number of TLB entries
  PageSize,        \* arch.page_size()
  VPages,          \* virtual page numbers
  Frames,          \* physical page numbers, Address::INVALID not among them
  None,            \* !0 / Address::INVALID: no table, no page, no frame
  Batches,         \* sequences of buffers [from, to]
  MaxTime          \* bound: instants / operations

ASSUME VatAssumption ==
  /\ Roots \subseteq Nat /\ RootsPerFrame \in Nat \ {0}
  /\ Entries \in Nat \ {0} /\ PageSize \in Nat \ {0, 1}
  /\ VPages \subseteq Nat /\ Frames \subseteq Nat /\ None \notin Nat
  /\ MaxTime \in Nat /\ CounterMod > MaxTime + ValidFor
  /\ \A b \in Batches : b \in Seq([from : Nat, to : Nat])
  /\ \A b \in Batches : \A k \in DOMAIN b :
       /\ b[k].from < b[k].to
       /\ b[k].from \div PageSize .. (b[k].to - 1) \div PageSize \subseteq VPages

SlotIds == 0 .. Entries - 1
Results == Frames \cup {None}

VARIABLES
  entries,          \* TLBCache.entries
  stamp, last,      \* the validator
  phase,            \* "idle" or "busy"
  root,             \* dtb of the translator of the current call
  todo,             \* what the iterator over short buffers has not reached
  missed,           \* pieces handed to the first call of the inner vat
  uncached_in,      \* buffers too long to be cached: the second call
  uncached_out,     \* [id, from, to, phys] answered by the first call
  uncached_fail,    \* [id, from, to] failed by the first call
  answers,          \* what the caller got: [id, from, to, phys]
  asked,            \* history: the buffers of the batch
  walked            \* history: when the inner vat last gave a result

tlbVars  == <<entries, stamp>>
callVars == <<root, todo, missed, uncached_in, uncached_out, uncached_fail, answers>>
ghostVars == <<asked, walked>>
vars == <<tlbVars, last, phase, callVars, ghostVars>>

-----------------------------------------------------------------------------
(* TLBCache                                                                *)

\* translation_table_id: the number of the frame the root table lies in
TableId(r) == r \div RootsPerFrame

\* get_cache_index
CacheIndex(p) == p % Entries

\* is_read_too_long
TooLong(buf) == (buf.to - buf.from) \div PageSize > Entries

INVALID == [pt |-> None, virt |-> None, phys |-> None]

\* Mutant of Hit: the page table is not compared.
HitAnyTable(r, p, t) ==
  LET i == CacheIndex(p) IN entries[i].virt = p /\ IsSlotValid(t, stamp[i])

\* try_entry: does the slot of page p answer, at validator time t?
Hit(r, p, t) ==
  LET i == CacheIndex(p) IN
  /\ entries[i].pt = TableId(r) /\ entries[i].virt = p
  /\ IsSlotValid(t, stamp[i])

PageOf(a) == a \div PageSize
PagesOf(buf) == PageOf(buf.from) .. PageOf(buf.to - 1)

-----------------------------------------------------------------------------
Init ==
  /\ entries = [i \in SlotIds |-> INVALID]
  /\ stamp = [i \in SlotIds |-> AllocatedStamp(0)]
  /\ last = 0
  /\ phase = "idle"
  /\ root \in Roots
  /\ todo = {} /\ missed = {} /\ uncached_in = {} /\ uncached_out = {} /\ uncached_fail = {}
  /\ answers = {} /\ asked = {}
  /\ walked = [r \in Roots |-> [p \in VPages |-> [x \in Results |-> None]]]

\* What Instant::now() may return: external.  The counter does not ask.
Instants == IF Counting THEN {last} ELSE last .. MaxTime

Start(r, b, now) ==
  LET buffer(k) == [id |-> k, from |-> b[k].from, to |-> b[k].to]
      long == {k \in DOMAIN b : TooLong(b[k])}
  IN
  /\ phase = "idle"
  /\ Counting => last < MaxTime
  /\ last' = UpdateValidity(last, now)
  /\ root' = r
  /\ phase' = "busy"
  /\ todo' = {buffer(k) : k \in DOMAIN b \ long}
  /\ uncached_in' = {buffer(k) : k \in long}
  /\ asked' = {buffer(k) : k \in DOMAIN b}
  /\ UNCHANGED <<tlbVars, missed, uncached_out, uncached_fail, answers, walked>>

-----------------------------------------------------------------------------
(* Cutting the buffers.  The iterator grows a chunk from its first byte,   *)
(* always by the distance from there to the end of the page: the places    *)
(* where it may cut lie at the ends of pages only if the chunk begins at   *)
(* the beginning of one.                                                   *)

FrontPart(c, a) == [c EXCEPT !.to = a]

\* Mutant of Behind: a byte is cut into both pieces.
BehindOneLess(c, a) == IF a = c.to THEN {} ELSE {[c EXCEPT !.from = a - 1]}

Behind(c, a) == IF a = c.to THEN {} ELSE {[c EXCEPT !.from = a]}

\* Mutant of PageEnd: a page further, not at the end of the page.
PageFurther(a) == a + PageSize

PageEnd(a) == (PageOf(a) + 1) * PageSize

\* page_chunks_by with the closure of virt_to_phys_iter: a chunk ends before
\* the first such place whose page hits, at the first if its own page does.
ChunkEnd(c) ==
  LET Hits(a) == Hit(root, PageOf(a), last)
      cuts == {a \in c.from + 1 .. c.to - 1 :
                 /\ (a - c.from) % (PageEnd(c.from) - c.from) = 0
                 /\ Hits(a) \/ Hits(c.from)}
  IN Min(cuts \cup {c.to})

Answer(c, x) == [id |-> c.id, from |-> c.from, to |-> c.to, phys |-> x]

\* The next chunk of the first buffer.  The inner translator takes all of them
\* before it reads memory, so no entry changes meanwhile.
Classify(c) ==
  LET piece == FrontPart(c, ChunkEnd(c))
      p == PageOf(c.from)
  IN
  /\ phase = "busy" /\ c \in todo /\ \A d \in todo : c.id <= d.id
  /\ todo' = (todo \ {c}) \cup Behind(c, ChunkEnd(c))
  /\ IF Hit(root, p, last)
       THEN /\ answers' = answers \cup {Answer(piece, entries[CacheIndex(p)].phys)}
            /\ UNCHANGED missed
       ELSE missed' = missed \cup {piece} /\ UNCHANGED answers
  /\ UNCHANGED <<tlbVars, last, phase, root, uncached_in, uncached_out, uncached_fail, ghostVars>>

-----------------------------------------------------------------------------
(* The inner translator: external.  It settles the first n pages of a      *)
(* buffer at once: a failed table entry covers many pages, a large page is *)
(* a run of frames.                                                        *)

FirstPages(c, n) == FrontPart(c, Min({c.to, (PageOf(c.from) + n) * PageSize}))
Rest(c, n) == Behind(c, FirstPages(c, n).to)

\* What an answer says of page q: the frame behind the one of its first page.
AnswerAt(a, q) == IF a.phys = None THEN None ELSE a.phys + (q - PageOf(a.from))

\* A piece the translator may settle with x.
Settles(c, n, x) ==
  LET a == Answer(FirstPages(c, n), x) IN
  /\ n <= Cardinality(PagesOf(c))
  /\ \A q \in PagesOf(a) : AnswerAt(a, q) \in Results

Remember(a) ==
  /\ UNCHANGED asked
  /\ walked' = [walked EXCEPT ![root] =
               [p \in VPages |-> [y \in Results |->
                  IF p \in PagesOf(a) /\ y = AnswerAt(a, p) THEN last ELSE walked[root][p][y]]]]

Translate(c, n, x) ==
  LET piece == FirstPages(c, n) IN
  /\ phase = "busy" /\ todo = {} /\ c \in missed
  /\ Settles(c, n, x)
  /\ missed' = (missed \ {c}) \cup Rest(c, n)
  /\ IF x = None
       THEN /\ uncached_fail' = uncached_fail \cup {piece}
            /\ UNCHANGED uncached_out
       ELSE /\ uncached_out' = uncached_out \cup {Answer(piece, x)}
            /\ UNCHANGED uncached_fail
  /\ Remember(Answer(piece, x))
  /\ UNCHANGED <<tlbVars, last, phase, root, todo, uncached_in, answers>>

\* The second call, for the long buffers: straight to the caller.
TranslateLong(c, n, x) ==
  LET a == Answer(FirstPages(c, n), x) IN
  /\ phase = "busy" /\ todo = {} /\ missed = {} /\ c \in uncached_in
  /\ Settles(c, n, x)
  /\ uncached_in' = (uncached_in \ {c}) \cup Rest(c, n)
  /\ answers' = answers \cup {a}
  /\ Remember(a)
  /\ UNCHANGED <<tlbVars, last, phase, root, todo, missed, uncached_out, uncached_fail>>

-----------------------------------------------------------------------------
(* Filling the cache                                                       *)

\* cache_entry, and the answer to the caller
CacheEntry(e) ==
  LET p == PageOf(e.from)
      i == CacheIndex(p)
  IN
  /\ phase = "busy" /\ todo = {} /\ missed = {} /\ uncached_in = {} /\ e \in uncached_out
  /\ entries' = [entries EXCEPT ![i] = [pt |-> TableId(root), virt |-> p, phys |-> e.phys]]
  /\ stamp' = [stamp EXCEPT ![i] = last]
  /\ uncached_out' = uncached_out \ {e}
  /\ answers' = answers \cup {e}
  /\ UNCHANGED <<last, phase, root, todo, missed, uncached_in, uncached_fail, ghostVars>>

\* The pages cache_invalid_if_uncached visits: up to the last one that the
\* buffer ends, give or take a byte, and no more than there are slots.
InvalidPages(e) ==
  LET first == PageOf(e.from) IN
  first .. Min({PageOf(e.to + 1) - 1, first + Entries - 1})

\* Mutant of Replaceable: a failure claims every slot it meets.
ReplaceableAlways(i) == TRUE

\* A slot that a failure may claim.
Replaceable(i) ==
  entries[i].pt = None \/ entries[i].phys = None \/ ~IsSlotValid(last, stamp[i])

\* cache_invalid_if_uncached, and the failure to the caller
CacheInvalidIfUncached(e) ==
  LET Claims(i, p) == p \in InvalidPages(e) /\ CacheIndex(p) = i /\ Replaceable(i)
      claimed == {i \in SlotIds : \E p \in VPages : Claims(i, p)}
  IN
  /\ phase = "busy" /\ todo = {} /\ missed = {} /\ uncached_in = {} /\ uncached_out = {}
  /\ e \in uncached_fail
  /\ entries' = [i \in SlotIds |->
                   IF i \in claimed
                     THEN [pt |-> TableId(root), virt |-> CHOOSE p \in VPages : Claims(i, p),
                           phys |-> None]
                     ELSE entries[i]]
  /\ stamp' = [i \in SlotIds |-> IF i \in claimed THEN last ELSE stamp[i]]
  /\ uncached_fail' = uncached_fail \ {e}
  /\ answers' = answers \cup {Answer(e, None)}
  /\ UNCHANGED <<last, phase, root, todo, missed, uncached_in, uncached_out, ghostVars>>

\* The call returns; its caller has the answers.
Finish ==
  /\ phase = "busy" /\ todo = {}
  /\ missed = {} /\ uncached_in = {} /\ uncached_out = {} /\ uncached_fail = {}
  /\ phase' = "idle"
  /\ answers' = {} /\ asked' = {}
  /\ UNCHANGED <<tlbVars, last, root, todo, missed, uncached_in, uncached_out, uncached_fail, walked>>

Inner ==
  \E c \in missed \cup uncached_in, x \in Results :
    \E n \in 1 .. Cardinality(PagesOf(c)) : Translate(c, n, x) \/ TranslateLong(c, n, x)

Fill ==
  \/ \E e \in uncached_out : CacheEntry(e)
  \/ \E e \in uncached_fail : CacheInvalidIfUncached(e)

Next ==
  \/ \E r \in Roots, b \in Batches, now \in Instants : Start(r, b, now)
  \/ \E c \in todo : Classify(c)
  \/ Inner \/ Fill \/ Finish

Spec == Init /\ [][Next]_vars

-----------------------------------------------------------------------------
\* Types; a slot names a page, never an address within one.
TypeOK ==
  /\ entries \in [SlotIds -> [pt : {TableId(r) : r \in Roots} \cup {None},
                              virt : VPages \cup {None}, phys : Results]]
  /\ stamp \in [SlotIds -> Stamps]
  /\ last \in Nat /\ (Counting => last <= MaxTime)
  /\ phase \in {"idle", "busy"}
  /\ root \in Roots
  /\ todo \cup missed \cup uncached_in \cup uncached_fail \cup asked
       \subseteq [id : Nat, from : Nat, to : Nat]
  /\ uncached_out \subseteq [id : Nat, from : Nat, to : Nat, phys : Frames]
  /\ answers \subseteq [id : Nat, from : Nat, to : Nat, phys : Results]
  /\ walked \in [Roots -> [VPages -> [Results -> Nat \cup {None}]]]

Tolerance == IF ~Counting THEN ValidFor ELSE IF ValidFor = 0 THEN 0 ELSE ValidFor - 1

\* The inner translator gave result x for page p under root r, not longer
\* before the current call than the validator allows.
RecentlyWalked(r, p, x) ==
  walked[r][p][x] # None /\ walked[r][p][x] + Tolerance >= last

\* Whatever a call answers for a page, frame or failure, is what a walk of
\* that page gave within the validity window, under a root table of the same
\* translation_table_id.
AnswersFresh ==
  \A a \in answers : \A q \in PagesOf(a) : \E r \in Roots :
    TableId(r) = TableId(root) /\ RecentlyWalked(r, q, AnswerAt(a, q))

\* A process is never answered from another process's page tables.
AnswersOwn ==
  \A a \in answers : \A q \in PagesOf(a) : RecentlyWalked(root, q, AnswerAt(a, q))

\* The pieces of the batch, each with the list that holds it.
Held ==
  {<<"todo", c>> : c \in todo} \cup {<<"missed", c>> : c \in missed}
    \cup {<<"in", c>> : c \in uncached_in} \cup {<<"fail", c>> : c \in uncached_fail}
    \cup {<<"out", c>> : c \in uncached_out} \cup {<<"answers", c>> : c \in answers}

\* No two pieces of H have a byte in common.
BytesApart(H) ==
  \A s, t \in H :
    s[2].id = t[2].id /\ s[2].from < t[2].to /\ t[2].from < s[2].to => s = t

\* A byte of a buffer of the batch is in a piece, and only such bytes are.
BytesHeld(H) ==
  /\ \A w \in asked : \A z \in w.from .. w.to - 1 :
       \E s \in H : s[2].id = w.id /\ s[2].from <= z /\ z < s[2].to
  /\ \A s \in H : \E w \in asked :
       s[2].id = w.id /\ w.from <= s[2].from /\ s[2].to <= w.to

\* Every byte of every buffer is in exactly one place, however its pieces are
\* cut and handed between the cache, both calls of the inner translator and the
\* lists: none is lost, none answered twice or both as found and as failed.
SettledOnce == BytesApart(Held) /\ BytesHeld(Held)

\* t begins within the page in which s ends.
Halves(s, t) == s.id = t.id /\ s.from < t.from /\ PageOf(s.to - 1) = PageOf(t.from)

\* Two places may settle one page (page_chunks cuts within it), but at most one
\* page of a buffer, only of a buffer that does not begin with a page, and the
\* TLB answers the later bytes: the inner translator never gets them.
OnePageHalved ==
  \A s, t \in Held : Halves(s[2], t[2]) =>
    /\ t[1] \in {"todo", "answers"}
    /\ \A w \in asked : w.id = t[2].id => w.from % PageSize # 0
    /\ \A u, v \in Held : Halves(u[2], v[2]) /\ v[2].id = t[2].id => v = t

\* A failure never takes the slot of a translation that is still valid.
FailureEvictsNothing ==
  [][\A i \in SlotIds :
       /\ entries[i].phys # None /\ IsSlotValid(last, stamp[i])
       /\ entries'[i] # entries[i]
       => entries'[i].phys # None]_vars
=============================================================================

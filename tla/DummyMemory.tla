----------------------------- MODULE DummyMemory -----------------------------
(***************************************************************************)
(* The memory the tests and benchmarks run on (memflow/src/mem/dummy.rs):  *)
(* its free pages, listed at random in three sizes, and the processes made *)
(* of them, tables and data.  Addresses count 4 kB pages; a page of one    *)
(* size is Ratio of the next smaller one.  A shuffled list is a set from   *)
(* which any page may come next.                                           *)
(***************************************************************************)
EXTENDS Integers, Sequences, SequencesExt, FiniteSets

CONSTANTS
  MemSizes,    \* sizes of the memory
  Ratio,       \* 512 in the code
  MapSize,     \* pages mapped for a process
  MaxTables,   \* new tables map_to may need for a page, 3 in the code
  MaxProcs     \* bound: processes

ASSUME DummyAssumption == Ratio \in Nat \ {0, 1} /\ MemSizes \subseteq Nat

VARIABLES
  size,       \* of the memory, 0 before there is one
  page_list,  \* one set of pages for each of the two rounds, used in order
  pt_pages,   \* the rest of the page being used up
  handed,     \* frames handed out, in order
  mapping,    \* of the process being made: pages left, tables still wanted
  last_pid,
  out         \* a page was wanted and there was none: panic

dummyVars == <<size, page_list, pt_pages, handed, mapping, last_pid, out>>

P4k == 1
P2m == Ratio
P1g == Ratio * Ratio

Page(addr, sz) == [addr |-> addr, size |-> sz]

\* Mutant of SplitToSize: one piece too many
SplitToSizeInclusive(page, sz) ==
  [o \in 1 .. (page.size \div sz) + 1 |-> Page(page.addr + sz * (o - 1), sz)]

SplitToSize(page, sz) ==
  [o \in 1 .. page.size \div sz |-> Page(page.addr + sz * (o - 1), sz)]

SplitDown(page) == ToSet(SplitToSize(page, page.size \div Ratio))

(* As many of the largest pages as fit, then of the next smaller ones. *)
PagePrelist(sz) ==
  LET large == sz \div P1g
      middle == (sz % P1g) \div P2m
  IN  {Page(P1g * k, P1g) : k \in 0 .. large - 1}
      \cup {Page(large * P1g + P2m * k, P2m) : k \in 0 .. middle - 1}
      \cup {Page(large * P1g + middle * P2m + k, P4k) : k \in 0 .. (sz % P2m) - 1}

OfSize(pages, sz) == {p \in pages : p.size = sz}

(* The outcomes of a round: of each size above 4 kB the first page is       *)
(* split unless one was before, any other by the toss of a coin.            *)
Splits(pages, before) ==
  {chosen \in SUBSET {p \in pages : p.size # P4k} :
     \A sz \in {P2m, P1g} \ before : OfSize(pages, sz) # {} => OfSize(chosen, sz) # {}}

RoundOf(pages, chosen) == (pages \ chosen) \cup UNION {SplitDown(p) : p \in chosen}

DummyInit ==
  /\ size = 0 /\ page_list = <<>> /\ pt_pages = <<>> /\ handed = <<>>
  /\ mapping = [left |-> 0, tables |-> 0] /\ last_pid = 0 /\ out = FALSE

(* with_rng: the list of the second round follows that of the first. *)
WithRng ==
  /\ size = 0
  /\ size' \in MemSizes
  /\ LET pre == PagePrelist(size')
         seen == {p.size : p \in pre}
     IN  \E c1 \in Splits(pre, {}) :
           \E c2 \in Splits(RoundOf(pre, c1), seen) :
             page_list' = <<RoundOf(pre, c1), RoundOf(RoundOf(pre, c1), c2)>>
  /\ UNCHANGED <<pt_pages, handed, mapping, last_pid, out>>

(* alloc_pt_page, also as the allocator of frames for map_to. *)
AllocPtPage ==
  IF pt_pages # <<>>
  THEN /\ handed' = Append(handed, Last(pt_pages).addr)
       /\ pt_pages' = Front(pt_pages)
       /\ UNCHANGED <<page_list, out>>
  ELSE IF \A r \in DOMAIN page_list : page_list[r] = {}
  THEN out' = TRUE /\ UNCHANGED <<handed, pt_pages, page_list>>
  ELSE LET r == IF page_list[1] # {} THEN 1 ELSE 2
       IN  \E p \in page_list[r] :
             LET pages == SplitToSize(p, P4k)
             IN  /\ page_list' = [page_list EXCEPT ![r] = @ \ {p}]
                 /\ pt_pages' = Front(pages)
                 /\ handed' = Append(handed, Last(pages).addr)
                 /\ UNCHANGED out

(* alloc_dtb: a table of its own, then page after page. *)
AllocDtb ==
  /\ AllocPtPage
  /\ mapping' = [left |-> MapSize, tables |-> 0]

(* alloc_process, whose pid is counted from the start here. *)
AllocProcess ==
  /\ size > 0 /\ ~out /\ mapping = [left |-> 0, tables |-> 0] /\ last_pid < MaxProcs
  /\ AllocDtb
  /\ last_pid' = last_pid + 1
  /\ UNCHANGED size

MapPage ==
  /\ mapping.left > 0 /\ mapping.tables = 0 /\ ~out
  /\ AllocPtPage
  /\ \E n \in 0 .. MaxTables : mapping' = [left |-> mapping.left - 1, tables |-> n]
  /\ UNCHANGED <<size, last_pid>>

AllocateFrame ==
  /\ mapping.tables > 0 /\ ~out
  /\ AllocPtPage
  /\ mapping' = [mapping EXCEPT !.tables = @ - 1]
  /\ UNCHANGED <<size, last_pid>>

DummyNext == WithRng \/ AllocProcess \/ MapPage \/ AllocateFrame

DummySpec == DummyInit /\ [][DummyNext]_dummyVars

----------------------------------------------------------------------------
(* Until as many pages are in use as the memory has, no page is given to    *)
(* two processes or twice to one, as a table or as data, though page_list   *)
(* has every page twice; and memory does not run out before that.           *)
FramesApart ==
  /\ Len(handed) <= size => IsInjective(handed)
  /\ \A i \in DOMAIN handed : handed[i] \in 0 .. size - 1
  /\ out => Len(handed) >= size
=============================================================================

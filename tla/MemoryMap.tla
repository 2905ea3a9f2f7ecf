------------------------------ MODULE MemoryMap ------------------------------
(***************************************************************************)
(* MemoryMap, the list of regions that leads from linear addresses to a    *)
(* file or to mapped memory, and the connectors built on it: FileIOMemory, *)
(* which uses the caller's map, and MappedPhysicalMemory, for which the    *)
(* map is pushed once more, region by region, into one of slices.          *)
(*                                                                         *)
(* An address is a number; a region has a base, a size and the place its   *)
(* output begins at.  cur_map_pos counts the regions the search skips.     *)
(***************************************************************************)
EXTENDS Integers, Sequences, FiniteSets

CONSTANTS
  Regions,     \* what push may be called with: [base, size, real]
  Elements,    \* elements of read and write lists: [addr, len]
  Limits,      \* lengths of the buffer that the regions are cut to; one above
               \* every region stands for from_addrmap, which cuts nothing
  MaxRegions,  \* bound: regions of a map
  MaxElements, \* bound: elements of a list
  BsearchThresh \* MIN_BSEARCH_THRESH

End(m) == m.base + m.size

Region == [base : Nat, size : Nat \ {0}, real : Nat]

ASSUME MapAssumption ==
  /\ Regions \subseteq Region /\ Elements \subseteq [addr : Nat, len : Nat \ {0}]
  /\ Limits \subseteq Nat
  /\ MaxRegions \in Nat /\ MaxElements \in Nat /\ BsearchThresh \in Nat

VARIABLES
  mapPhase,       \* build, rebuild, ready, iterate, panicked, refused
  kind,        \* the connector: none, fileio, mapped, readonly
  mappings,    \* MemoryMap.mappings
  given,       \* the map a mapped connector is made from
  moved,       \* regions of it already pushed
  limit,       \* buf_len
  op,          \* read or write
  data,        \* the list of the current operation
  elem,        \* index of cur_elem
  addr,        \* address of cur_elem: the element from there on
  cur_map_pos, \* MemoryMapIterator.cur_map_pos
  served,      \* pieces transferred: [id, from, to, real]
  fails,       \* pieces pushed to out_fail: [id, from, to]
  result,      \* what the last operation returned
  increasing   \* history: the caller pushed in order of base

mapVars  == <<mappings, given, moved, limit>>
iterVars == <<elem, addr, cur_map_pos>>
outVars  == <<op, data, served, fails>>
memoryMapVars == <<mapPhase, kind, mapVars, iterVars, outVars, result, increasing>>

-----------------------------------------------------------------------------
(* push                                                                    *)

\* The overlap test: the new region's base or end lies in m.
Overlaps(m, r) ==
  \/ m.base <= r.base /\ r.base < End(m)
  \/ m.base <= End(r) /\ End(r) < End(m)

\* Where the loop over the regions, from the last one down, stops.
Stops(list, r) == {i \in DOMAIN list : Overlaps(list[i], r) \/ End(list[i]) <= r.base}
StopsAt(list, r, i) == i \in Stops(list, r) /\ \A j \in Stops(list, r) : j <= i

PushPanics(list, r) == \E i \in DOMAIN list : StopsAt(list, r, i) /\ Overlaps(list[i], r)

\* shift_idx: behind the region the loop stopped at, else the end of the list
ShiftIdx(list, r) ==
  IF Stops(list, r) = {} THEN Len(list)
                         ELSE CHOOSE i \in DOMAIN list : StopsAt(list, r, i)

Insert(list, k, r) == SubSeq(list, 1, k) \o <<r>> \o SubSeq(list, k + 1, Len(list))

Pushed(list, r) == Insert(list, ShiftIdx(list, r), r)

-----------------------------------------------------------------------------
MapInit ==
  /\ mapPhase = "build" /\ kind = "none"
  /\ mappings = <<>> /\ given = <<>> /\ moved = 0 /\ limit = 0
  /\ op = "read" /\ data = <<>> /\ elem = 0 /\ addr = 0 /\ cur_map_pos = 0
  /\ served = {} /\ fails = {} /\ result = "none"
  /\ increasing = TRUE

\* push, push_remap, push_range of a range that is not empty
Push(r) ==
  /\ mapPhase = "build" /\ Len(mappings) < MaxRegions
  /\ increasing' = (increasing /\ \A i \in DOMAIN mappings : mappings[i].base <= r.base)
  /\ IF PushPanics(mappings, r)
       THEN mapPhase' = "panicked" /\ UNCHANGED mappings
       ELSE mappings' = Pushed(mappings, r) /\ UNCHANGED mapPhase
  /\ UNCHANGED <<kind, given, moved, limit, iterVars, outVars, result>>

\* FileIOMemory::try_with_reader
OpenFileIO ==
  /\ mapPhase = "build"
  /\ mapPhase' = "ready" /\ kind' = "fileio"
  /\ UNCHANGED <<mapVars, iterVars, outVars, result, increasing>>

\* try_with_bufmap, try_with_bufmap_mut, from_addrmap, from_addrmap_mut
OpenMapped(k, len) ==
  /\ mapPhase = "build"
  /\ mapPhase' = "rebuild" /\ kind' = k /\ limit' = len
  /\ given' = mappings /\ moved' = 0 /\ mappings' = <<>>
  /\ UNCHANGED <<iterVars, outVars, result, increasing>>

\* output_end - output_base
Truncated(r) ==
  [r EXCEPT !.size = IF r.real + r.size <= limit THEN r.size ELSE limit - r.real]

\* Mutant of NextRegion: the region is not cut.
NextRegionWhole == given[moved + 1]

NextRegion == Truncated(given[moved + 1])

\* One round of the loop over map.into_iter().
Rebuild ==
  /\ mapPhase = "rebuild" /\ moved < Len(given)
  /\ LET r == NextRegion IN
       \/ /\ r.real >= limit
          /\ mapPhase' = "refused" /\ UNCHANGED <<mappings, moved>>
       \/ /\ r.real < limit /\ PushPanics(mappings, r)
          /\ mapPhase' = "panicked" /\ UNCHANGED <<mappings, moved>>
       \/ /\ r.real < limit /\ ~PushPanics(mappings, r)
          /\ mappings' = Pushed(mappings, r) /\ moved' = moved + 1
          /\ UNCHANGED mapPhase
  /\ UNCHANGED <<kind, given, limit, iterVars, outVars, result, increasing>>

RebuildDone ==
  /\ mapPhase = "rebuild" /\ moved = Len(given)
  /\ mapPhase' = "ready"
  /\ UNCHANGED <<kind, mapVars, iterVars, outVars, result, increasing>>

-----------------------------------------------------------------------------
(* phys_read_raw_list and phys_write_raw_list: a loop over map_iter        *)

ElementLists == UNION {[1 .. n -> Elements] : n \in 1 .. MaxElements}

StartOp(o, list) ==
  /\ mapPhase = "ready"
  /\ op' = o /\ data' = list /\ served' = {} /\ fails' = {}
  /\ elem' = 1 /\ addr' = list[1].addr /\ cur_map_pos' = 0
  /\ IF o = "write" /\ kind = "readonly"
       THEN mapPhase' = "ready" /\ result' = "err"
       ELSE mapPhase' = "iterate" /\ result' = "none"
  /\ UNCHANGED <<kind, mapVars, increasing>>

ElemEnd == data[elem].addr + data[elem].len

\* in_iter.next(), cur_map_pos = 0; the loop ends with the list
NextElement ==
  /\ cur_map_pos' = 0
  /\ IF elem < Len(data)
       THEN /\ elem' = elem + 1 /\ addr' = data[elem + 1].addr
            /\ UNCHANGED <<mapPhase, result>>
       ELSE /\ mapPhase' = "ready" /\ result' = "ok"
            /\ UNCHANGED <<elem, addr>>

Ordered(list) ==
  \A i, j \in DOMAIN list : i < j => End(list[i]) <= list[j].base

\* Mutant of BinarySearch: it answers with the place behind the one it found.
BinarySearchPast ==
  {Cardinality({i \in DOMAIN mappings : End(mappings[i]) <= addr}) + 1}

\* binary_search_by: the answer is unspecified when the list is not ordered
BinarySearch ==
  IF Ordered(mappings) THEN {Cardinality({i \in DOMAIN mappings : End(mappings[i]) <= addr})}
                       ELSE 0 .. Len(mappings)

\* Where get_next begins its search.
SkipTo ==
  IF Len(mappings) >= BsearchThresh /\ cur_map_pos = 0 THEN BinarySearch
                                                       ELSE {cur_map_pos}

\* The first region, from there on, that ends above addr.
Found(i, skip) ==
  /\ i \in DOMAIN mappings /\ i > skip /\ End(mappings[i]) > addr
  /\ \A j \in skip + 1 .. i - 1 : End(mappings[j]) <= addr

Iterating == mapPhase = "iterate" /\ UNCHANGED <<kind, mapVars, op, data, increasing>>

\* No region ends above addr: the loop runs out, the rest goes nowhere.
NotFound(skip) ==
  /\ Iterating
  /\ ~ \E i \in DOMAIN mappings : Found(i, skip)
  /\ NextElement
  /\ UNCHANGED <<served, fails>>

Reject(to) ==
  fails' = IF addr < to THEN fails \cup {[id |-> elem, from |-> addr, to |-> to]}
                        ELSE fails

\* The region begins behind the element: all of it is left_reject.
FoundBehind(i, skip) ==
  /\ Iterating
  /\ Found(i, skip) /\ mappings[i].base >= ElemEnd
  /\ Reject(ElemEnd)
  /\ NextElement
  /\ UNCHANGED served

\* Mutant of KeepRest: the address stays where it was.
KeepRestInPlace(i, to) ==
  IF to < ElemEnd
    THEN cur_map_pos' = i /\ UNCHANGED <<addr, elem, mapPhase, result>>
    ELSE NextElement

\* The rest of the element behind the region is kept for the next call.
KeepRest(i, to) ==
  IF to < ElemEnd
    THEN cur_map_pos' = i /\ addr' = to /\ UNCHANGED <<elem, mapPhase, result>>
    ELSE NextElement

\* The part that get_next returns for region i.
PieceFrom(i) == IF mappings[i].base > addr THEN mappings[i].base ELSE addr
PieceTo(i) == IF End(mappings[i]) < ElemEnd THEN End(mappings[i]) ELSE ElemEnd

\* Mutant of RealOf: the offset into the region is forgotten.
RealOfBase(i, a) == mappings[i].real

RealOf(i, a) == mappings[i].real + (a - mappings[i].base)

\* How far the piece is transferred: write() of a file may take less of it,
\* which FileIOMemory does not look at.
TransferEnds(i) ==
  IF kind = "fileio" /\ op = "write" THEN PieceFrom(i) .. PieceTo(i) ELSE {PieceTo(i)}

\* get_next returns a piece and the connector transfers it.
Transfer(i, skip) ==
  /\ Iterating
  /\ Found(i, skip) /\ mappings[i].base < ElemEnd
  /\ Reject(PieceFrom(i))
  /\ \E to \in TransferEnds(i) :
       served' = served \cup {[id |-> elem, from |-> PieceFrom(i), to |-> to,
                               real |-> RealOf(i, PieceFrom(i))]}
  /\ KeepRest(i, PieceTo(i))

\* FileIOMemory: seek, read_exact or write fails.
TransferFails(i, skip) ==
  /\ Iterating
  /\ kind = "fileio"
  /\ Found(i, skip) /\ mappings[i].base < ElemEnd
  /\ Reject(PieceFrom(i))
  /\ mapPhase' = "ready" /\ result' = "err"
  /\ UNCHANGED <<iterVars, served>>

Iterate ==
  \E skip \in SkipTo :
    \/ NotFound(skip)
    \/ \E i \in DOMAIN mappings : FoundBehind(i, skip)
    \/ \E i \in DOMAIN mappings : Transfer(i, skip)
    \/ \E i \in DOMAIN mappings : TransferFails(i, skip)

MapNext ==
  \/ \E r \in Regions : Push(r)
  \/ OpenFileIO
  \/ \E k \in {"mapped", "readonly"}, len \in Limits : OpenMapped(k, len)
  \/ Rebuild \/ RebuildDone
  \/ \E o \in {"read", "write"}, list \in ElementLists : StartOp(o, list)
  \/ Iterate

MapSpec == MapInit /\ [][MapNext]_memoryMapVars

-----------------------------------------------------------------------------
\* Types; while an operation runs, its element is one of the list and the
\* address within it.
MapTypeOK ==
  /\ mapPhase \in {"build", "rebuild", "ready", "iterate", "panicked", "refused"}
  /\ kind \in {"none", "fileio", "mapped", "readonly"}
  /\ mappings \in Seq(Region) /\ given \in Seq(Region)
  /\ moved \in 0 .. Len(given) /\ limit \in Nat
  /\ op \in {"read", "write"} /\ data \in Seq(Elements)
  /\ elem \in Nat /\ addr \in Nat /\ cur_map_pos \in 0 .. Len(mappings)
  /\ mapPhase = "iterate" => elem \in DOMAIN data /\ data[elem].addr <= addr /\ addr < ElemEnd
  /\ served \subseteq [id : Nat, from : Nat, to : Nat, real : Nat]
  /\ fails \subseteq [id : Nat, from : Nat, to : Nat]
  /\ result \in {"none", "ok", "err"}
  /\ increasing \in BOOLEAN

\* Every piece a connector transfers lies within one region and goes to that
\* region's own part of the output, in whatever order the map was built.
PiecesRight ==
  \A s \in served :
    /\ data[s.id].addr <= s.from /\ s.to <= data[s.id].addr + data[s.id].len
    /\ \E i \in DOMAIN mappings :
         /\ mappings[i].base <= s.from /\ s.to <= End(mappings[i])
         /\ s.real - s.from = mappings[i].real - mappings[i].base

\* No byte of an element is handed out twice, nor both handed out and reported.
Apart(s, t) == s.id # t.id \/ s.to <= t.from \/ t.to <= s.from
PiecesApart ==
  /\ \A s, t \in served : s # t => Apart(s, t)
  /\ \A s, t \in fails : s # t => Apart(s, t)
  /\ \A s \in served, t \in fails : Apart(s, t)

\* A caller who pushes regions by increasing base gets an ordered map without
\* overlaps, or the panic that push promises for them; so does a connector
\* that pushes them again.
IncreasingOrdered == increasing => Ordered(mappings) /\ Ordered(given)

\* metadata(): the end of the last region
Size == IF mappings = <<>> THEN 0 ELSE End(mappings[Len(mappings)])

Holds(list, a) == \E i \in DOMAIN list : list[i].base <= a /\ a < End(list[i])
Covers(pieces, id, a) == \E s \in pieces : s.id = id /\ s.from <= a /\ a < s.to

\* On an ordered map an operation that returns Ok has transferred every byte
\* that some region holds, and get_next has reported every other byte below
\* the size of the memory.
OrderedExact ==
  result = "ok" /\ Ordered(mappings) /\ ~(kind = "fileio" /\ op = "write") =>
    \A id \in DOMAIN data : \A a \in data[id].addr .. data[id].addr + data[id].len - 1 :
      /\ Holds(mappings, a) <=> Covers(served, id, a)
      /\ ~Holds(mappings, a) /\ a < Size => Covers(fails, id, a)

Disjoint(list) ==
  \A i, j \in DOMAIN list : i # j => End(list[i]) <= list[j].base \/ End(list[j]) <= list[i].base

\* Pushing the regions of a map without overlaps once more, cut to the buffer,
\* neither panics nor changes their order.
RebuildSame ==
  kind \in {"mapped", "readonly"} /\ Disjoint(given) =>
    /\ mapPhase # "panicked"
    /\ Len(mappings) = moved
    /\ \A i \in 1 .. moved : mappings[i] = Truncated(given[i])

\* The two together: the order that the binary search relies on comes out of
\* every careful use of push, by a caller and by a connector.
OrderKept == IncreasingOrdered /\ RebuildSame
=============================================================================

------------------------------ MODULE VirtualDma -----------------------------
(***************************************************************************)
(* VirtualDMA, the VirtualMemory that every process is read through, and   *)
(* VirtualMemoryBatcher, which collects reads and writes, commits them on  *)
(* demand, and commits what is left when it is dropped.                    *)
(*                                                                         *)
(* The translator and the physical memory are external here: a page of a   *)
(* buffer translates or does not, an access to the memory works or fails   *)
(* (CachedVat, MmuWalk and PageCache model them).  A unit <<k, j>> is page *)
(* j of element k of a list.                                               *)
(***************************************************************************)
EXTENDS Integers, Sequences, FiniteSets, RangeMap

CONSTANTS
  Spans,           \* how many pages an element may touch
  MaxList,         \* bound: elements of a list
  MaxWrites,       \* bound: writes ever issued
  MaxCalls,        \* bound: calls of virt_read_raw_list / virt_write_raw_list
  ConnectorFails,  \* may the physical memory fail?
  PieceSets,       \* what the translator may give for a range
  Gaps             \* gap_length

ASSUME DmaAssumption ==
  /\ Spans \subseteq Nat \ {0} /\ \E n \in Spans : \A m \in Spans : m <= n
  /\ MaxList \in Nat \ {0} /\ MaxWrites \in Nat /\ MaxCalls \in Nat /\ Gaps \subseteq Nat
  /\ ConnectorFails \in BOOLEAN
  /\ \A given \in PieceSets : ApartPieces(given)

VARIABLES
  caller,       \* who uses the VirtualDMA: none, batcher, list, helper
  dropping,     \* the batcher is being dropped
  read_list,    \* spans of the reads of the batcher or the call
  write_list,   \* its writes: [span, wid]
  phase,        \* idle, read, write, answered
  todo,         \* units not yet translated
  translation,  \* units translated, to be read or written
  partial,      \* partial_read
  outs,         \* the output buffer of each unit: old, zero or data
  asked,        \* units of the read
  failed,       \* units of the read whose translation failed
  readResult,   \* what virt_read_raw_list returned
  result,       \* what the last call returned to the application
  calls,        \* calls so far
  issued,       \* history: spans of the writes issued, in order of their wid
  applied,      \* history: how often page j of write w reached the memory
  reported,     \* history: writes the application got an error for
  lost,         \* history: writes whose batcher's drop failed
  pieces, ranges, gap \* a range map: what the translator gave, the answer

listVars  == <<caller, dropping, read_list, write_list>>
callVars  == <<phase, todo, translation, partial, calls>>
readVars  == <<outs, asked, failed, readResult>>
ghostVars == <<issued, applied, reported, lost>>
mapVars   == <<pieces, ranges, gap>>
vars == <<listVars, callVars, readVars, result, ghostVars, mapVars>>

MaxSpan == CHOOSE n \in Spans : \A m \in Spans : m <= n

ReadUnits(list) == UNION {{k} \X (0 .. list[k] - 1) : k \in DOMAIN list}
WriteUnits(list) == UNION {{k} \X (0 .. list[k].span - 1) : k \in DOMAIN list}
WidsOf(list) == {list[k].wid : k \in DOMAIN list}

Init ==
  /\ caller = "none" /\ dropping = FALSE
  /\ read_list = <<>> /\ write_list = <<>>
  /\ phase = "idle" /\ todo = {} /\ translation = {} /\ partial = FALSE /\ calls = 0
  /\ outs = [u \in (1 .. MaxList) \X (0 .. MaxSpan - 1) |-> "old"]
  /\ asked = {} /\ failed = {} /\ readResult = "none" /\ result = "none"
  /\ issued = <<>> /\ reported = {} /\ lost = {}
  /\ applied = [x \in (1 .. MaxWrites) \X (0 .. MaxSpan - 1) |-> 0]
  /\ pieces = {} /\ ranges = <<>> /\ gap = 0

-----------------------------------------------------------------------------
(* virt_read_raw_list and virt_write_raw_list                              *)

\* The outputs belong to the last read only.
ForgetRead ==
  /\ outs' = [u \in DOMAIN outs |-> "old"]
  /\ asked' = {} /\ failed' = {} /\ readResult' = "none"

BeginRead(list) ==
  /\ calls < MaxCalls /\ calls' = calls + 1
  /\ phase' = "read" /\ todo' = ReadUnits(list) /\ translation' = {} /\ partial' = FALSE
  /\ outs' = [u \in DOMAIN outs |-> "old"]
  /\ asked' = todo' /\ failed' = {} /\ readResult' = "none"

BeginWrite(list) ==
  /\ calls < MaxCalls /\ calls' = calls + 1
  /\ phase' = "write" /\ todo' = WriteUnits(list) /\ translation' = {} /\ partial' = FALSE
  /\ ForgetRead

\* Mutant of Translate: what does not translate keeps the output it had.
TranslateKeeps(ok) ==
  /\ todo # {} /\ ok \subseteq todo
  /\ todo' = {} /\ translation' = ok /\ partial' = (ok # todo)
  /\ failed' = IF phase = "read" THEN todo \ ok ELSE failed
  /\ UNCHANGED <<listVars, phase, calls, outs, asked, readResult, result, ghostVars, mapVars>>

\* virt_to_phys_iter gives the units ok to out and the others to out_fail,
\* which fills them with zeros if they are read.
Translate(ok) ==
  /\ todo # {} /\ ok \subseteq todo
  /\ todo' = {} /\ translation' = ok /\ partial' = (ok # todo)
  /\ IF phase = "read"
       THEN /\ outs' = [u \in DOMAIN outs |-> IF u \in todo \ ok THEN "zero" ELSE outs[u]]
            /\ failed' = todo \ ok
       ELSE UNCHANGED <<outs, failed>>
  /\ UNCHANGED <<listVars, phase, calls, asked, readResult, result, ghostVars, mapVars>>

\* The physical memory reads or writes the units done of the translation.
Perform(done) ==
  /\ done \subseteq translation
  /\ outs' = [u \in DOMAIN outs |-> IF phase = "read" /\ u \in done THEN "data" ELSE outs[u]]
  /\ applied' =
       IF phase = "write"
         THEN [x \in DOMAIN applied |->
                 applied[x] + Cardinality({u \in done : <<write_list[u[1]].wid, u[2]>> = x})]
         ELSE applied

\* phys_read_raw_list(&mut translation), phys_write_raw_list(&translation)
Access ==
  /\ phase \in {"read", "write"} /\ todo = {} /\ translation # {}
  /\ Perform(translation) /\ translation' = {}
  /\ UNCHANGED <<listVars, phase, todo, partial, calls, asked, failed, readResult, result,
                 issued, reported, lost, mapVars>>

-----------------------------------------------------------------------------
(* How a call comes back: to the application, or to commit_rw              *)

\* map_data: what virt_read, virt_read_raw and virt_read_addr make of it
MapData(r) == IF r = "partial" THEN "ok" ELSE r

\* The application gets r for the lists reads and writes are still in.
GiveBack(r, writes) ==
  /\ phase' = "idle" /\ todo' = {} /\ translation' = {} /\ partial' = FALSE
  /\ result' = IF dropping THEN "none" ELSE IF caller = "helper" THEN MapData(r) ELSE r
  /\ reported' = IF r # "ok" /\ ~dropping THEN reported \cup WidsOf(writes) ELSE reported
  /\ lost' = IF dropping THEN lost \cup WidsOf(writes) ELSE lost
  /\ UNCHANGED <<calls, issued>>

\* A batcher keeps what it has not cleared, unless it is being dropped; the
\* lists of a direct call are gone with it.
Gone == dropping \/ caller # "batcher"
KeepLists(reads, writes) ==
  /\ dropping' = FALSE
  /\ caller' = IF Gone THEN "none" ELSE caller
  /\ read_list' = IF Gone THEN <<>> ELSE reads
  /\ write_list' = IF Gone THEN <<>> ELSE writes

\* `?` after phys_read_raw_list or phys_write_raw_list, which failed when the
\* units done were through
AccessFails(done) ==
  /\ ConnectorFails /\ phase \in {"read", "write"} /\ todo = {}
  /\ Perform(done)
  /\ GiveBack("err", write_list) /\ KeepLists(read_list, write_list)
  /\ readResult' = IF phase = "read" THEN "err" ELSE readResult
  /\ UNCHANGED <<asked, failed, mapVars>>

Accessed == phase \in {"read", "write"} /\ todo = {} /\ translation = {}

\* `?` in commit_rw, when the call was only partly done
PartlyDone ==
  /\ Accessed /\ partial
  /\ GiveBack("partial", write_list) /\ KeepLists(read_list, write_list)
  /\ readResult' = IF phase = "read" THEN "partial" ELSE readResult
  /\ UNCHANGED <<outs, asked, failed, applied, mapVars>>

\* The reads are done: read_list.clear(), and the writes follow.
ReadDone ==
  /\ Accessed /\ phase = "read" /\ ~partial
  /\ readResult' = "ok"
  /\ IF write_list # <<>>
       THEN /\ calls < MaxCalls /\ calls' = calls + 1
            /\ phase' = "write" /\ todo' = WriteUnits(write_list)
            /\ read_list' = <<>>
            /\ UNCHANGED <<caller, dropping, write_list, translation, partial, result,
                           issued, reported, lost>>
       ELSE GiveBack("ok", <<>>) /\ KeepLists(<<>>, <<>>)
  /\ UNCHANGED <<outs, asked, failed, applied, mapVars>>

\* Mutant of WriteDone: the writes stay in the list.
WriteKeepsList ==
  /\ Accessed /\ phase = "write" /\ ~partial
  /\ GiveBack("ok", <<>>) /\ KeepLists(<<>>, write_list)
  /\ UNCHANGED <<readVars, applied, mapVars>>

\* write_list.clear()
WriteDone ==
  /\ Accessed /\ phase = "write" /\ ~partial
  /\ GiveBack("ok", <<>>) /\ KeepLists(<<>>, <<>>)
  /\ UNCHANGED <<readVars, applied, mapVars>>

-----------------------------------------------------------------------------
(* The application                                                         *)

Idle(who) == phase = "idle" /\ caller = who

\* virt_read_raw_list itself, or one of the helpers around it
Read(who, spans) ==
  /\ Idle("none") /\ caller' = who
  /\ read_list' = spans
  /\ BeginRead(spans)
  /\ result' = "none"
  /\ UNCHANGED <<dropping, write_list, ghostVars, mapVars>>

\* virt_write_raw_list, virt_write_raw, virt_write
WriteOne(span) ==
  LET list == <<[span |-> span, wid |-> Len(issued) + 1]>> IN
  /\ Idle("none") /\ caller' = "list"
  /\ Len(issued) < MaxWrites /\ issued' = Append(issued, span)
  /\ write_list' = list
  /\ BeginWrite(list)
  /\ result' = "none"
  /\ UNCHANGED <<dropping, read_list, applied, reported, lost, mapVars>>

\* virt_batcher
NewBatcher ==
  /\ Idle("none") /\ caller' = "batcher" /\ result' = "none"
  /\ UNCHANGED <<dropping, read_list, write_list, callVars, readVars, ghostVars, mapVars>>

\* read_raw_iter, read_raw_into, read_into
AddRead(span) ==
  /\ Idle("batcher") /\ Len(read_list) < MaxList
  /\ read_list' = Append(read_list, span)
  /\ result' = "none"
  /\ UNCHANGED <<caller, dropping, write_list, callVars, readVars, ghostVars, mapVars>>

\* write_raw_iter, write_raw_into, write_into
AddWrite(span) ==
  /\ Idle("batcher") /\ Len(write_list) < MaxList
  /\ Len(issued) < MaxWrites /\ issued' = Append(issued, span)
  /\ write_list' = Append(write_list, [span |-> span, wid |-> Len(issued) + 1])
  /\ result' = "none"
  /\ UNCHANGED <<caller, dropping, read_list, callVars, readVars, applied, reported, lost,
                 mapVars>>

\* commit_rw, called by the application or by drop
Commit(drop) ==
  /\ Idle("batcher")
  /\ \/ /\ read_list # <<>>
        /\ BeginRead(read_list)
        /\ dropping' = drop /\ result' = "none" /\ UNCHANGED caller
     \/ /\ read_list = <<>> /\ write_list # <<>>
        /\ BeginWrite(write_list)
        /\ dropping' = drop /\ result' = "none" /\ UNCHANGED caller
     \/ /\ read_list = <<>> /\ write_list = <<>>
        /\ caller' = IF drop THEN "none" ELSE caller
        /\ result' = IF drop THEN "none" ELSE "ok"
        /\ ForgetRead
        /\ UNCHANGED <<dropping, callVars>>
  /\ UNCHANGED <<read_list, write_list, ghostVars, mapVars>>

\* virt_translation_map_range and virt_page_map_range keep no state: they are
\* taken once, from the first state.
MapRange(given, answer, g) ==
  /\ phase' = "answered"
  /\ pieces' = given /\ ranges' = answer /\ gap' = g
  /\ UNCHANGED <<listVars, todo, translation, partial, calls, readVars, result, ghostVars>>

Finish == PartlyDone \/ ReadDone \/ WriteDone

Next ==
  \/ \E ok \in SUBSET todo : Translate(ok)
  \/ Access \/ \E done \in SUBSET translation : AccessFails(done)
  \/ Finish
  \/ \E n \in Spans : Read("list", <<n>>) \/ Read("helper", <<n>>) \/ WriteOne(n)
  \/ NewBatcher
  \/ \E n \in Spans : AddRead(n) \/ AddWrite(n)
  \/ \E drop \in BOOLEAN : Commit(drop)
  \/ /\ Idle("none") /\ calls = 0
     /\ \E given \in PieceSets :
          \/ MapRange(given, TranslationMap(given), -1)
          \/ \E g \in Gaps : MapRange(given, PageMap(given, g), g)

Spec == Init /\ [][Next]_vars

-----------------------------------------------------------------------------
\* Types; the units a call works on have a buffer in the list in hand.
TypeOK ==
  /\ caller \in {"none", "batcher", "list", "helper"} /\ dropping \in BOOLEAN
  /\ read_list \in Seq(Spans) /\ write_list \in Seq([span : Spans, wid : 1 .. Len(issued)])
  /\ phase \in {"idle", "read", "write", "answered"}
  /\ phase = "read" => todo \cup translation \subseteq DOMAIN outs
  /\ phase = "write" => todo \cup translation \subseteq WriteUnits(write_list)
  /\ partial \in BOOLEAN /\ calls \in 0 .. MaxCalls
  /\ outs \in [(1 .. MaxList) \X (0 .. MaxSpan - 1) -> {"old", "zero", "data"}]
  /\ readResult \in {"none", "ok", "partial", "err"}
  /\ result \in {"none", "ok", "partial", "err"}
  /\ issued \in Seq(Spans)
  /\ applied \in [(1 .. MaxWrites) \X (0 .. MaxSpan - 1) -> Nat]
  /\ reported \cup lost \subseteq 1 .. Len(issued)

\* A virtual read that returns Ok has filled every page of every buffer from
\* the memory; one that returns a partial error has zeroed exactly the pages
\* that did not translate.  What an earlier attempt of the same batcher left
\* in the buffers never shows through.
ReadsFilled ==
  /\ readResult = "ok" => \A u \in asked : outs[u] = "data"
  /\ readResult = "partial" =>
       /\ failed # {}
       /\ \A u \in asked : outs[u] = IF u \in failed THEN "zero" ELSE "data"

\* While no call runs, every page of every write issued has been written
\* exactly once, or the write still waits in its batcher, not even partly
\* done.  The exceptions are the writes that the application got an error
\* for, which a later commit or the drop may do again, and those that a
\* failing drop gave up.
WritesOnce ==
  phase = "idle" =>
    \A w \in 1 .. Len(issued) \ (reported \cup lost) : \A j \in 0 .. issued[w] - 1 :
      applied[<<w, j>>] = IF w \in WidsOf(write_list) THEN 0 ELSE 1

\* What the application is told is Ok is complete: no page of what it reads
\* is zeros in place of memory.
OkIsComplete == result = "ok" /\ readResult # "none" => \A u \in asked : outs[u] # "zero"

PagesOf(list) ==
  UNION {list[i].virt .. list[i].virt + list[i].len - 1 : i \in DOMAIN list}
MappedPages == UNION {p.virt .. p.virt + p.len - 1 : p \in pieces}
PhysOf(p) ==
  LET q == CHOOSE q \in pieces : q.virt <= p /\ p < q.virt + q.len IN q.phys + (p - q.virt)

\* virt_translation_map_range answers with exactly the mapped pages, in as few
\* ranges as are contiguous on both sides, in ascending order.
TranslationRangesExact ==
  phase = "answered" /\ gap < 0 =>
    /\ PagesOf(ranges) = MappedPages
    /\ \A i \in DOMAIN ranges : \A p \in PagesOf(<<ranges[i]>>) :
         PhysOf(p) = ranges[i].phys + (p - ranges[i].virt)
    /\ \A i, j \in DOMAIN ranges : i < j =>
         /\ ranges[i].virt + ranges[i].len <= ranges[j].virt
         /\ ~ContiguousPieces(ranges[i], ranges[j])

\* virt_page_map_range answers with the mapped pages and the holes between
\* them of at most gap pages, and its ranges are farther apart than that.
PageRangesExact ==
  phase = "answered" /\ gap >= 0 =>
    /\ MappedPages \subseteq PagesOf(ranges)
    /\ \A p \in PagesOf(ranges) \ MappedPages :
         \E a, b \in MappedPages : /\ a < p /\ p < b /\ b - a - 1 <= gap
                                   /\ MappedPages \cap a + 1 .. b - 1 = {}
    /\ \A i, j \in DOMAIN ranges :
         i < j => ranges[j].virt - (ranges[i].virt + ranges[i].len) > gap

\* Both range maps of VirtualMemory are exact, each in its own sense, for the
\* same mapping: no page is lost, none is invented, and no range is split that
\* could be one.
RangesExact == TranslationRangesExact /\ PageRangesExact
=============================================================================

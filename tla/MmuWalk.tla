------------------------------- MODULE MmuWalk -------------------------------
(***************************************************************************)
(* ArchMMUSpec::virt_to_phys_iter: the batched, level-by-level walk of the *)
(* guest's page tables.  All elements of a batch descend together, grouped *)
(* into chunks that share a page table entry; each level reads the entries *)
(* of all chunks through the connector, while the guest keeps changing     *)
(* them.                                                                   *)
(*                                                                         *)
(* An address is a number of units, a page is a few units.  The buffers of *)
(* a batch are the set of units they cover, each tagged with the element   *)
(* it belongs to.  A page table entry is a record, and a physical address  *)
(* is a frame with an offset.                                              *)
(***************************************************************************)
EXTENDS Integers, Sequences, FiniteSets, FiniteSetsExt

CONSTANTS
  Splits,          \* virtual_address_splits, as entries per table; the last
                   \* one is the units of a page
  FinalSteps,      \* valid_final_page_steps
  Tables,          \* the guest's page tables
  Root,            \* the table the dtb points to
  Frames,          \* frames of memory that are no tables
  Data,            \* what such a frame may hold, read as an entry
  Batches,         \* sequences of [addr, len]
  Memories,        \* page tables the guest may start with
  Remaps,          \* changes of an entry: [table, index, pte]
  ConnectorFails   \* may phys_read_raw_list fail?

SplitCount == Len(Splits)
Steps == 0 .. SplitCount - 1
Indexes == UNION {0 .. Splits[k] - 1 : k \in DOMAIN Splits}
PTE == [present : BOOLEAN, large : BOOLEAN, write : BOOLEAN, to : Tables \cup Frames]

ASSUME WalkAssumption ==
  /\ Splits \in Seq(Nat \ {0}) /\ SplitCount >= 2
  /\ FinalSteps \subseteq Steps
  /\ Root \in Tables
  /\ Data \subseteq PTE
  /\ Memories \subseteq [Tables -> [Indexes -> PTE]]
  /\ Remaps \subseteq [table : Tables, index : Indexes, pte : PTE]
  /\ \A b \in Batches : b # <<>> /\ b \in Seq([addr : Nat, len : Nat \ {0}])
  /\ ConnectorFails \in BOOLEAN

VARIABLES
  tables,    \* guest memory: the page tables
  phase,     \* "idle", "split" or "read"
  step,      \* pt_step
  todo,      \* data_to_translate: [at, pte, units], at = the entry's place
  reading,   \* chunks of todo whose entry is still to be read
  out,       \* translated units: [unit, frame, off, write]
  fail,      \* units handed to out_fail
  batch,     \* history: the units of the batch
  seen,      \* history: the values each entry had during the call
  broken     \* history: the connector failed during the call

vars == <<tables, phase, step, todo, reading, out, fail, batch, seen, broken>>

-----------------------------------------------------------------------------
(* Address arithmetic                                                      *)

\* page_size_step_unchecked: units that one entry of the step covers.
PageSizeStep(s) ==
  LET size[k \in 0 .. SplitCount] ==
        IF k = 0 THEN 1 ELSE Splits[SplitCount - k + 1] * size[k - 1]
  IN size[SplitCount - s]

\* virt_addr_to_pte_offset
PteIndex(addr, s) == (addr \div PageSizeStep(s + 1)) % Splits[s + 1]

\* virt_addr_to_page_offset
PageOffset(addr, s) == addr % PageSizeStep(s)

\* check_entry
CheckEntry(pte, s) == s = 0 \/ pte.present

\* is_final_mapping
IsFinalMapping(pte, s) ==
  \/ s = SplitCount - 1
  \/ pte.large /\ s \in FinalSteps

MinAddr(units) == Min({u.addr : u \in units})

\* Mutant of ChunkEnds: chunks are as long as a page wherever they begin.
ChunkEndsUnaligned(addrs, size) ==
  LET least == Min(addrs)
      end[a \in least .. Max(addrs)] ==
        IF a = least THEN a + size - 1
        ELSE LET before == end[a - 1] IN
             IF a \in addrs /\ a > before THEN a + size - 1 ELSE before
  IN end

\* page_chunks over a TranslationChunk: where the chunk of each address ends.
\* The first chunk ends at a boundary.  From then on the iterator's address is
\* aligned and a chunk is as long as a page, but split_at_inclusive counts
\* from the least address that is left.
ChunkEnds(addrs, size) ==
  LET least == Min(addrs)
      end[a \in least .. Max(addrs)] ==
        IF a = least THEN a - (a % size) + size - 1
        ELSE LET before == end[a - 1] IN
             IF a \in addrs /\ a > before THEN a + size - 1 ELSE before
  IN end

PageChunks(units, size) ==
  LET end == ChunkEnds({u.addr : u \in units}, size)
  IN {{u \in units : end[u.addr] = e} : e \in {end[u.addr] : u \in units}}

-----------------------------------------------------------------------------
Units(b) ==
  UNION {[id : {k}, addr : b[k].addr .. b[k].addr + b[k].len - 1] : k \in DOMAIN b}

UnitsOf(chunks) == UNION {c.units : c \in chunks}

RootEntry == [present |-> TRUE, large |-> FALSE, write |-> FALSE, to |-> Root]

Init ==
  /\ tables \in Memories
  /\ phase = "idle" /\ step = 0
  /\ todo = {} /\ reading = {}
  /\ out = {} /\ fail = {}
  /\ batch = {} /\ broken = FALSE
  /\ seen = [t \in Tables |-> [i \in Indexes |-> {}]]

\* The whole batch becomes one chunk under the dtb.  virt_addr_filter lets
\* every buffer of less than half the address space pass.
Start(b) ==
  /\ phase = "idle"
  /\ phase' = "split" /\ step' = 0
  /\ todo' = {[at |-> <<Root, 0>>, pte |-> RootEntry, units |-> Units(b)]}
  /\ out' = {} /\ fail' = {}
  /\ batch' = Units(b) /\ broken' = FALSE
  /\ seen' = [t \in Tables |-> [i \in Indexes |-> {tables[t][i]}]]
  /\ UNCHANGED <<tables, reading>>

\* get_phys_page
GetPhysPage(c, u) ==
  [unit |-> u, frame |-> c.pte.to, off |-> PageOffset(u.addr, step), write |-> c.pte.write]

\* The chunks of the next level, each at the entry of its least address.
Descend(c) ==
  {[at |-> <<c.pte.to, PteIndex(MinAddr(units), step)>>, pte |-> c.pte, units |-> units]
     : units \in PageChunks(c.units, PageSizeStep(step + 1))}

\* The loop over data_to_translate: fail, finish or descend.
Split ==
  /\ phase = "split"
  /\ LET failing == {c \in todo : ~CheckEntry(c.pte, step)}
         final   == {c \in todo \ failing : IsFinalMapping(c.pte, step)}
         next    == UNION {Descend(c) : c \in todo \ (failing \cup final)}
     IN /\ fail' = fail \cup UnitsOf(failing)
        /\ out' = out \cup UNION {{GetPhysPage(c, u) : u \in c.units} : c \in final}
        /\ todo' = next /\ reading' = next
        /\ phase' = IF next = {} THEN "idle" ELSE "read"
  /\ UNCHANGED <<tables, step, batch, seen, broken>>

\* What is read at a place: an entry, or data if there is no table.
EntriesAt(at) == IF at[1] \in Tables THEN {tables[at[1]][at[2]]} ELSE Data

\* mem.phys_read_raw_list(pt_read): one element of it.
ReadEntry(c) ==
  /\ phase = "read" /\ c \in reading
  /\ reading' = reading \ {c}
  /\ \E pte \in EntriesAt(c.at) : todo' = (todo \ {c}) \cup {[c EXCEPT !.pte = pte]}
  /\ UNCHANGED <<tables, phase, step, out, fail, batch, seen, broken>>

\* The call fails: every chunk that is left fails, and the walk is over.
ReadFails ==
  /\ ConnectorFails /\ phase = "read" /\ reading # {}
  /\ fail' = fail \cup UnitsOf(todo)
  /\ todo' = {} /\ reading' = {}
  /\ phase' = "idle" /\ broken' = TRUE
  /\ UNCHANGED <<tables, step, out, batch, seen>>

\* An entry that points to the table it stands in.
SelfReferring(c) == c.pte.to = c.at[1]

\* Mutant of Filtered: entries count as duplicates when only their frames agree.
FilteredByFrame(keep) ==
  /\ \A c \in keep : ~SelfReferring(c)
  /\ \A c, d \in keep : c.pte.to = d.pte.to => c = d
  /\ \A c \in todo : SelfReferring(c) \/ \E d \in keep : d.pte.to = c.pte.to

\* The filter after the read: of the chunks that read one value, the first
\* in the list goes on.  The list's order is the walk's own; which chunk is
\* the first is left open.
Filtered(keep) ==
  /\ \A c \in keep : ~SelfReferring(c)
  /\ \A c, d \in keep : c.pte = d.pte => c = d
  /\ \A c \in todo : SelfReferring(c) \/ \E d \in keep : d.pte = c.pte

\* Mutant of FilterDuplicates: a duplicate is dropped without a word.
FilterSilently(keep) ==
  /\ phase = "read" /\ reading = {}
  /\ Filtered(keep)
  /\ todo' = keep
  /\ phase' = "split" /\ step' = step + 1
  /\ UNCHANGED <<tables, reading, out, fail, batch, seen, broken>>

FilterDuplicates(keep) ==
  /\ phase = "read" /\ reading = {}
  /\ Filtered(keep)
  /\ fail' = fail \cup UnitsOf(todo \ keep)
  /\ todo' = keep
  /\ phase' = "split" /\ step' = step + 1
  /\ UNCHANGED <<tables, reading, out, batch, seen, broken>>

\* The guest changes one entry.
Remap(m) ==
  /\ tables[m.table][m.index] # m.pte
  /\ tables' = [tables EXCEPT ![m.table][m.index] = m.pte]
  /\ seen' = [seen EXCEPT ![m.table][m.index] = @ \cup {m.pte}]
  /\ UNCHANGED <<phase, step, todo, reading, out, fail, batch, broken>>

Walk ==
  \/ Split
  \/ \E c \in reading : ReadEntry(c)
  \/ ReadFails
  \/ \E keep \in SUBSET todo : FilterDuplicates(keep)

Next ==
  \/ \E b \in Batches : Start(b)
  \/ Walk
  \/ \E m \in Remaps : Remap(m)

Spec == Init /\ [][Next]_vars

-----------------------------------------------------------------------------
(* What a walk of one address alone could have met during the call.        *)

Had(t, i) == IF t \in Tables THEN seen[t][i] ELSE Data

\* The entries below those of D, reached by unit u, at step s.
Below(D, u, s) ==
  UNION {Had(e.to, PteIndex(u.addr, s - 1)) :
           e \in {d \in D : CheckEntry(d, s - 1) /\ ~IsFinalMapping(d, s - 1)}}

\* The values that the entry on unit u's own path may have had, per step.
Path(u) ==
  LET entries[s \in Steps] == IF s = 0 THEN {RootEntry} ELSE Below(entries[s - 1], u, s)
  IN entries

Translations(u) ==
  UNION {{[unit |-> u, frame |-> e.to, off |-> PageOffset(u.addr, s), write |-> e.write] :
            e \in {d \in Path(u)[s] : CheckEntry(d, s) /\ IsFinalMapping(d, s)}}
           : s \in Steps}

Missing(u) == \E s \in Steps : \E e \in Path(u)[s] : ~CheckEntry(e, s)

\* The path of u meets an entry that the filter takes for a duplicate: one
\* with a value that another entry of the batch also had, or one that points
\* back to its own table.
Ambiguous(u) ==
  \E s \in Steps \ {0} : \E e \in Path(u)[s] :
    \/ \E v \in batch :
         /\ e \in Path(v)[s]
         /\ u.addr \div PageSizeStep(s) # v.addr \div PageSizeStep(s)
    \/ \E d \in Path(u)[s - 1] : d.to = e.to

\* The batch covers an interval: page_chunks meets no gap.
Contiguous ==
  batch # {} =>
    LET addrs == {u.addr : u \in batch} IN addrs = Min(addrs) .. Max(addrs)

\* Types; every table index that a walk computes lies within its table, and
\* the chunks hold only units of the batch.
TypeOK ==
  /\ tables \in [Tables -> [Indexes -> PTE]]
  /\ phase \in {"idle", "split", "read"}
  /\ step \in Steps
  /\ \A c \in todo : c.pte \in PTE /\ c.at \in (Tables \cup Frames) \X Indexes /\ c.units \subseteq batch
  /\ reading \subseteq todo
  /\ \A o \in out : o.unit \in batch /\ o.frame \in Tables \cup Frames /\ o.off \in Nat
  /\ fail \subseteq batch
  /\ broken \in BOOLEAN

\* No byte of the caller's buffers is lost, answered twice or answered both
\* as translated and as failed, however often the batch is cut into chunks
\* and whatever fails on the way.
AnsweredOnce ==
  LET done == {o.unit : o \in out} IN
  /\ done \cup fail \cup UnitsOf(todo) = batch
  /\ done \cap fail = {} /\ (done \cup fail) \cap UnitsOf(todo) = {}
  /\ \A o, q \in out : o.unit = q.unit => o = q
  /\ \A c, d \in todo : c.units \cap d.units # {} => c = d

\* Every translation follows the page table entries of its own address, each
\* of which the guest had set at some moment of the call.
Sound == \A o \in out : o \in Translations(o.unit)

\* For a batch without gaps the walk is sound.
SoundIfContiguous == Contiguous => Sound

\* An address without gaps around it fails only for a reason: an entry of its
\* path was not present, the connector failed, or its path met a duplicate.
FailuresJustified ==
  Contiguous => \A u \in fail : broken \/ Missing(u) \/ Ambiguous(u)
=============================================================================

# A verification project for jiaa and memflow

The repository holds *jiaa*, a small C application, and the library it is built on:
*memflow*, which reads and writes the memory of a running machine from outside.
Everything the application sees goes through memflow's memory stack:

    application, memflow-ffi, memflow-win32
        |
    VirtualDMA              virt_read_raw_list / virt_write_raw_list
        |          \
        |           CachedVirtualTranslate -- TLBCache -- CacheValidator
        |                    |
        |           DirectTranslate -> ArchMMUSpec::virt_to_phys_iter
        |                    |            (the page table walk)
        v                    v
    CachedMemoryAccess -- PageCache -- CacheValidator
        |
    connector               (a file, /proc, a hypervisor; may fail)
        |
    the guest's memory      (changes at any time)

What makes this stack hard is not parallelism inside it (every operation runs on one
thread with `&mut self`) but what happens around and between its steps. The guest
writes while a batch is being read. A connector call fails in the middle of a loop.
Two caches with windows of their own sit on one path. Elements of one batch compete
for one cache slot. Address ranges are cut and regrouped at every level of a walk.

Above the stack, *memflow-win32* finds a Windows kernel in physical memory, chooses the
offsets of its structures (from a PDB in a symbol store or from a table), and follows
the guest's process and module lists. Two C interfaces hand boxed objects to C callers,
and *jiaa* uses them from a main loop next to a thread that reads key events. Here the
hard parts are lists and trees that change while they are followed, files that several
programs write, threads that are joined, and who owns a handle after a call failed.

## Inventory

| Component | State | Operations | Hard behaviours | What makes it correct |
|---|---|---|---|---|
| cache validators (`mem/cache/*_validator.rs`) | a stamp per slot, the last update | allocate, update, is_valid, validate, invalidate | a counter that wraps, `<` against `<=`, one subtraction that does not wrap | a slot is valid exactly within its window, an empty one is not |
| page cache (`page_cache.rs`, `cached_memory_access.rs`) | per slot: address, buffer or none, page waited for; the lists of the current batch | read list, write list, clone | slots contended inside a batch, flush at 64, `?` in the middle, guest writes | no buffer is shared or dropped, answers are recent, own writes are seen, Ok means filled |
| MMU walk (`mmu_spec.rs`, `translate_data.rs`, `page_chunks.rs`) | the chunks of the batch, each at a table entry | one call, level by level | batch splitting, tables changed during the walk, failure at some level | every byte answered once, by its own entries; only what is not mapped fails |
| TLB (`tlb_cache.rs`, `cached_vat.rs`) | per slot: table id, page, frame or failure | one call: classify, walk, fill | entries of all processes in one table, cached failures, two walks per call | answers recent and from the asker's own tables; every byte answered once, wherever the buffers are cut |
| virtual DMA (`virtual_dma.rs`, `virt_mem.rs`) | none of its own | virtual read and write lists, helpers, range maps | translation and access at different moments, partial results | memory where it translates and zeros exactly where it does not; range maps exact; staleness at most the sum of both windows |
| memory map and the connectors on it (`mem_map.rs`, `connector/fileio.rs`, `filemap.rs`, `mmap.rs`) | list of regions; position in a list being served | push, make a connector, read list, write list | overlap test, insertion point, elements across regions, short and failing file operations | every piece goes to its region's part of the output, once; regions ordered |
| batchers (`*_batcher.rs`) | pending reads and writes | add, commit, drop | commit fails and drop commits again | each write done exactly once unless its caller is told of an error |
| connector inventory and C interfaces (`connector/inventory.rs`, `memflow-ffi`, `memflow-win32-ffi`) | boxes on the heap, reference counts of libraries | make, clone, borrow, take over, free | ownership that changes hands in calls that may fail; libraries that must outlive the inventory | a library stays loaded while its code may run, and is unloaded when the last handle is given back |
| dummy memory (`mem/dummy.rs`) | free pages in three sizes | make, give frames to processes and tables | pages split and listed twice | no frame has two owners |
| Windows kernel scan and builder (`kernel/`, `kernel_info.rs`, `kernel_builder.rs`) | what was found so far | scan with hints, fallback, build | memory that looks right and is not, reads that fail | a kernel that can be found is found |
| Windows offsets (`offsets/`) | classes of a PDB; a cache file per symbol | choose, parse, load, download | lists in any order, nested classes, a crash while the file is written, two programs at once, a progress thread | offsets are those of this kernel and of the very field; a whole file unless a write was cut short; loads end |
| Windows lists (`win32/kernel.rs`, `win32/process.rs`) | none | process and module lists, lookup by name and pid | the guest relinks a list while it is followed; names cut to 14 bytes | what is reported was on the list, what stayed on it is reported, lookups find it |
| Windows keyboard | none | one lookup | boundary of a bitmap | in bounds for every key code |
| jiaa (`jiaa-src/`) | a running flag, pressed keys, handles in C variables | start, main loop, input thread, shutdown, entity walk | two threads without synchronisation; error exits; a tree that is rebalanced under the walk, reads whose failure nobody asks for | both threads end; no handle is used after it was taken; the walk ends |
| basic types, derive, benchmarks | none worth stating | - | - | - |

`PROJECT.json` lists every component with its status, and under `hazards` the lines
where the behaviours above bite.

## Modules

Names are those of the source wherever TLA+ allows it.

**CacheValidator** gives both validators as operators on (last, stamp):
`Count...` and `Timed...` are the methods of the two structs, `IsSlotValid`,
`UpdateValidity` and `AllocatedStamp` choose between them. The page cache and the TLB
are stated over it, so their results hold for either.

**ValidatorSlots** is the `CacheValidator` trait as a state machine: any sequence of
calls on the slots of one validator. `invalidate_slot` of the counter subtracts without
`wrapping_sub`; the model has both outcomes, the panic of a build with overflow checks
and the wrapped value.

**PageCache** is `CachedMemoryAccess` with its `PageCache`. `address`, `page_refs`,
`once` (`address_once_validated`), `stamp` and `last` are the fields of the code.
A page is one datum, and a buffer is identified with the slot that owns it, so
`page_refs[i] = None` says that slot i's buffer is borrowed or lost. `cached_read` is
not one step: the classification of each chunk (`ScanValid`, `ScanValidatable`,
`ScanToBeValidated`, `ScanInvalid`, `ScanUncached`), the test that decides to flush
(`EndRequest`), each element the connector serves (`ReadDirect`, `Fetch`), the error
return (`ReadFails`), the return of the buffers (`ValidatePage`) and the drain loop
(`DrainValid`, `DrainSkipped`) are actions of their own, and `GuestWrite` may come
between any two of them. `phys_write_raw_list` is its two loops, the cache first and
the memory second. `Clone` continues with the clone: the validator is copied, the
slots forget their pages, and every slot has a buffer again, with any content for
those that had lost theirs. `lastHeld` and `mine` are history: when a page last had a
content, and what this program knows it to have.

**MmuWalk** is `ArchMMUSpec::virt_to_phys_iter` with `read_pt_address_iter`. An address
is a number of units and a page a few of them; a buffer is the set of units it covers,
tagged with the element it belongs to, so that nothing about cutting is assumed.
`ChunkEnds` is what `page_chunks` over a `TranslationChunk` computes, the disagreement
between the iterator's address and the chunk's least address included. `Split` is one
pass of the loop over `data_to_translate`, `ReadEntry` one element of the connector
call, `FilterDuplicates` the filter after it. An entry may point to a frame that holds no
table; what is read there is data taken for an entry (`Data`). `Remap` is the guest. The order of the
list, and so which of several equal entries survives the filter, is left open. A PTE is
a record: the model is that of entries as wide as the eight bytes that the code always
reads.

**CachedVat** is `CachedVirtualTranslate` with its `TLBCache`. A buffer is a range of
bytes. `Classify` is one chunk of the iterator: `page_chunks_by` with the closure that
looks both ends up in the TLB (`ChunkEnd`), then the entry or the list of misses. The
iterator keeps its address while chunks are merged and adds the first distance to the end
of a page again each time, so only in a buffer that begins with a page do the cuts fall on
ends of pages. With pages of four bytes, of which the third hits, the buffer [1, 12) is cut
at 10: the first two bytes of the third page are walked and the others answered by its
entry. The inner translator is
external and may answer anything, in pieces of any number of pages: `Translate` is the first
call (whose answers are cached), `TranslateLong` the second one for buffers longer than the
cache. The code runs the classification inside the first call, which takes all of its
addresses before it reads memory; no entry changes in between, so the order is the same.
`CacheEntry` and `CacheInvalidIfUncached` are the two fill loops. The page range
of a cached failure is the code's own, `(in_addr + len + 1)` aligned down, so a buffer
that lacks one byte to the end of its page still claims it. `asked` and `walked`
are history: the buffers of the batch, and when the inner translator last gave which result.
`SettledOnce` is about bytes: each is in one piece on one list until it is answered.
`OnePageHalved` says how far the cuts within a page go.

**MemoryMap** is the struct of that name, its iterator, and the connectors over it.
`Push` covers `push`, `push_remap` and `push_range`; `PushPanics` and `ShiftIdx` are the
two outcomes of the loop that runs over the regions from the last one down. `OpenMapped`
and `Rebuild` push a finished map once more, cut to the file, as `try_with_bufmap` does;
`from_addrmap` is the case of a limit that nothing reaches. An operation is `get_next`
again and again: `Found` is the region its search stops at, `Transfer`, `FoundBehind` and
`NotFound` are its three outcomes, `TransferFails` the error return of the file. The
binary search may answer anything on a list that is not ordered. `write` on a file may
take less than it is given.

**VirtualDma** is `VirtualDMA` with `VirtualMemoryBatcher`. A call is three steps:
`Translate` (any part of the pages translates, the rest is zeroed if it is read),
`Access` or `AccessFails` (which may have done any part), and the return, which is
`PartlyDone`, `ReadDone` (on to the writes, if a batcher has some) or `WriteDone`. `Read`
is a direct call or one of the helpers around it, whose result goes through `MapData`.
`Commit(TRUE)` is the drop of a batcher. `issued`, `applied`, `reported` and `lost` are
history: how often each page of each write reached the memory, and whose error the
application saw. **RangeMap** has the two range maps as operators: `SortedPieces`, and
`Coalesce` piece by piece. What they are given is apart (`ApartPieces`), as a translator's
answer for one range is (`AnsweredOnce`).

**WindowMemory** is the abstract specification of a cached memory: lists are answered
page by page with contents at most a window old, an answer stays, Ok means that all are
there, own writes are read back. `PageCache` instantiates it (`Window`) with
`answers <- chunks`, `busy <- phase # "idle"`, `began <- last` and its two histories.

**DummyMemory** is the test memory: `WithRng` cuts it into pages round by round, every
coin toss a choice; `AllocProcess`, `AllocDtb` and `MapPage` hand out frames for data and
tables. `handed` is history.

**Win32Lists** has the guest's lists as they are linked in memory (`flink`, `blink`, and
`mlink` for the module lists of each process) and the guest's own steps on them: a process
is linked, unlinked, or its block given back (`CreateProcess`, `ExitProcess`,
`ReclaimProcess`), a module loaded or unloaded (`LoadModule`, `UnloadModule`). A process
that has left its list keeps its links, so that a walk can stand on it. The client is one
call at a time, one read per step: `ReadFlink` and `ReadBlink` of `eprocess_list_extend`,
`ReadInfo` of `process_info_from_eprocess`, `ReadEntryLink`, `ReadName` and `NamesRead` of
the module lists, first the native one and then that of WoW64, and `Probe` for the
candidates of a lookup by name. Each of them may fail, where the connector does. `ghost` is
history: who was linked always, or ever, during the call, whether a block was given back or
used again in it, whether a read failed, which modules were unloaded and which were there
when the call began. A list that reaches `MAX_ITER_COUNT` is cut, and an executable may be
unlinked from the list of its own process; `LookupFinds` and `ModulesFaithful` name both as
reasons.

**KernelBuild** is the search for a kernel. A guest is the features the scanners look
for, decoys included (`Guests`); `StartScan`, `FindBlock`, `TryArch`, `Ntos`, `Identify`,
`Sysproc`, `Winver`, `Fallback`, `Offsets` and `NewKernel` are the steps of
`KernelInfoScanner::scan` and `KernelBuilder::build`, each of which may fail with a read.
**OffsetTables**, which it extends, has the choice of an offset table as operators.

**SymbolStore** is `SymbolStore::load` in several programs over one cache file: create,
write part by part, read part by part, crash (`Crash`) between any two, and the download
with its progress thread (`ReadBody`, `Finish`, `Progress`, `JoinProgress`).

**PdbStruct** is `PdbStruct::with` with `Data::add`, and `from_pdb_slice` on top of it,
over every PDB of a few types: forward references, nested classes, pointers, references
that lead nowhere.

**FfiHandles** is the heap as a caller of the C interfaces sees it. `heap` maps places to
boxes, each with its kind, the box it borrows from and the library whose code it runs;
`refs` counts the `Arc`s of each library. Every exported function that makes, takes or
frees a box is an action named after it; those that only look are `...Access`. The caller
of `HandleNext` is a careful one: it passes only references that are valid, in any order.

**Jiaa**, which extends it, is not: `main` passes what its C variables hold. Its actions
are the stretches of `main.c` between two calls, the error exits included; the input
thread's are the four of `RunInputSystem`. `misused` records a reference passed after it
was taken. The shared flag and key table are read and written without locks; both are
single bytes in memory that calls separate, so a step may see the old or the new value
and nothing else.

**EntityWalk** is `IterateEntities` over the game's search tree, one read per step, with
rotations by the game (`Rotate`) and its end (`Unmap`) in between. `entity_list`, `m` (in
the model `parent`) and `type2_entry`, later `n` (`child`), are the buffers. Any read may
fail: `virt_read_raw_into` then returns -1, which nothing looks at, and the buffer keeps what it
held. A buffer nothing was written to yet, as all the walk's are at first and those
declared inside its loops are each time, holds the copy of a node from any time (`copies`)
or bytes that lead nowhere (`Zeros`). `blank` is history: such bytes were taken for a node
after a failed read, and from there null leads to null for ever. That is the one way in which
a failed read keeps the walk from ending while the game is there, and `WalkEnds` names it.

**MCPageCache**, **MCMmuWalk**, **MCCachedVat** and **MCVirtualDma** hold the constants
of their runs. **MCLibrary** and **MCPrograms** put the components with small state
spaces side by side: `part` says which of them a behaviour is about, and the others do
not move, so each is explored as if it were alone.

Eight modules hold the proofs, each of which extends what it is about: **PageCacheProofs**
(the page cache, what a caller sees of it, and that it implements `WindowMemory`),
**CachedVatProofs**, **MmuWalkProofs**, **VirtualDmaProofs**, **MemoryMapProofs**,
**ProgramsProofs** (the symbol store and the validators), **Win32ListsProofs**, and
**LibraryProofs** (the Windows kernel scan, the PDB, the C interfaces and the test memory).

Definitions that a comment calls a mutant change another one the way a slip in the code
would; they show that a property can fail. The type invariants of the modules serve
their proofs and are not part of a run.

## Runs

| Run | Kind | Shows |
|---|---|---|
| `page_cache_count` | pass | ownership of buffers, bounded staleness, read-your-writes, and that an unfilled Ok can only come from a lost buffer; failing connector, writing guest |
| `page_cache_timed` | pass | with a clock that moves during operations and while the connector does not fail, the page cache implements `WindowMemory`; every operation returns |
| `page_cache_fill` | violation | finding 1 |
| `mmu_walk` | pass | every unit answered once, gapless batches translated by their own entries, failures have a reason; remapping guest, failing connector |
| `mmu_walk_gaps` | violation | finding 2 |
| `tlb_count` | pass | two processes with distinct table ids: own and recent answers, each byte settled once wherever buffers are cut, at most one page of a buffer by two places, failures evict nothing valid |
| `tlb_pae` | violation | finding 3 |
| `virtual_dma` | pass | what buffers hold after a full and after a partial read; writes done once; exact range maps |
| `virtual_dma_partial` | violation | finding 4 |
| `library` | pass | TLB answers recent under a shared table id (`AnswersFresh`); pieces of a memory map right, apart and exact, and its order kept when it is pushed again; frames of the dummy memory apart; a kernel that can be found is found, with the right offsets and each class's own fields; process and module lists faithful and lookups successful under a busy guest; libraries loaded exactly as long as needed |
| `programs` | pass | jiaa's join returns; loads end and the symbol cache settles; the entity walk ends, also after a read that failed, and draws what is behind the root; exact windows of both validators while the counter goes round its word |
| `jiaa_handles` | violation | finding 5 |

**Bounds.** The page cache has three pages on two slots, so pages 0 and 2 compete for a
slot while page 1 does not; lists of up to two requests, of which one spans two pages;
flush at one or two entries instead of 64, so that it happens inside a batch; three
operations with a window of two, so that slots are filled, used,
outlived and refilled. The guest changes page 0, the one that is contended. Values are
symmetric (`ValSymmetry`, two model values that nothing tells apart). The walk has a
directory of two entries, tables of four, pages of two units, large pages, an alias and
an unmapped page, batches that begin and end anywhere in a page, and guest changes that
swap, unmap, enlarge, make the directory point to itself, and make it point to a page whose
data is then read as a present or an absent entry. The TLB has two slots for
four pages of four bytes, so that "give or take a byte" is visible; one batch is
longer than the cache, and one begins within a page and ends two pages on, so that a cut can
fall within its third. It has one frame, so that a translation covers one page; failures
cover several, and the theorems hold for any frames. Memory maps have up to three regions out of eight that touch,
overlap or contain each other, with outputs in another order; the binary search begins at
three regions instead of 32, so that both searches are used. Virtual lists have up to two
reads and two writes of one or two pages, three calls (a commit that fails, one more, and
the drop), and the range maps see every mapping of five pages to three frames. Times and
counters are capped by `MaxTime`; `CounterMod` is kept
above it in the caches (the wrap is the subject of the validators in `programs`, where
the counter is three bits wide and goes once round and a half).

In `library`, the TLB is asked for one page at a time, out of two that share a slot; the
dummy memory has four or five pages, with two small pages to a larger
one, so that a page is split, one is left over and memory runs out; a guest has a
kernel among decoys of every architecture, the offset list any two files, and one read
fails; a PDB has three types, enough for a class that is defined twice or contains
another with a field of the same name; three processes, one of them under WoW64, and
lookups of two names that agree in their first 14 bytes, only one of which exists, with
two steps of the guest during two calls; four
places on the heap, two libraries of one name, seven calls. In `programs`, two programs
load four times a file of two parts, which a crash can cut; trees have up to three nodes
in all shapes, with one rotation and one failed read during the walk, in either order, and
entities that are equal or null;
jiaa runs from start to exit with two keys and one beyond the table.

**Deadlock** is checked for the walk. The caches stop where `MaxTime` ends, virtual calls
where `MaxCalls` does, and the validators and `push` may panic, so their runs switch the
check off. `library` and `programs` stop where their bounds do, and jiaa and a load may end.

**Fairness.** `FairSpec` is weak fairness of the operation's own steps. The loops of
`cached_read` and `phys_write_raw_list` never wait for anything but a connector call,
which is taken to return; nothing is assumed of the guest, the clock or the caller. That
a walk of the page tables ends needs no property: it is a `for` over the levels, whatever
the tables hold; the deadlock check shows that it is never stuck. In `programs`, jiaa's two threads are scheduled
(weak fairness of `Main` and of `InputThread`; the device is opened with `O_NONBLOCK`, so
its read never waits), and so are a load and its progress thread (`LoadStep`, `Progress`;
`ureq` is taken to answer or fail, which is the one thing here that the code leaves to a
library) and the walk (`WalkStep`). The server, the disk, the guest and a crash are not.

## Findings

1. `page_cache_fill`: `phys_read_raw_list(&mut wlistcache)?` leaves `cached_read` with
   the borrowed buffers, while `address_once_validated` keeps naming the page. Later
   reads of that page find it `ToBeValidated`, fetch nothing, and return Ok with the
   output as the caller passed it. A clone of the cache has its buffers again.
2. `mmu_walk_gaps`: after a gap in a batch, chunks are cut at the distance the iterator
   computes for its own address but counted from the chunk's least address. A chunk then
   crosses a page boundary and its tail is translated with its first page's entry.
   `SoundIfContiguous` is what remains true.
3. `tlb_pae`: `translation_table_id` drops the low 12 bits of the root's address, but a
   PAE root is 32 bytes long. Two processes whose roots share a frame get each other's
   translations. `AnswersFresh` is what remains true.
4. `virtual_dma_partial`: `map_data`, whose comment says that it keeps the partial result
   information, turns a partial read into Ok. `virt_read`, `virt_read_raw` and
   `virt_read_addr` therefore never say that what they return is partly zeros.
   `ReadsFilled` is what remains true, one level below. With `MapData` the identity the
   property holds.
5. `jiaa_handles`: `kernel_build` and `kernel_into_process` take what they are given also
   when they fail. `main` then frees it again: `connector_free(conn)` after a failed
   build, `kernel_free(kernel)` and `connector_free(conn)` after a failed lookup of the
   process or the module, and `kernel_free(kernel)` at its regular end. `LibraryLifetime`
   shows that callers who keep to the documented rules leak and dangle nothing.

Also seen, without a run of its own:

- `push` does not notice a region that contains an old one, and puts a region below all
  others at the end of the list, so that `metadata` then gives its end as the size of the
  memory. Both are why `IncreasingOrdered` is about increasing pushes.
- What reaches past the last region is neither transferred nor pushed to `out_fail`; the
  connectors ignore `out_fail`, so that reads of unmapped memory return Ok and leave the
  buffer alone. `OrderedExact` says what is reported.
- `FileIOMemory` ignores how much `write` took.
- `virt_write_raw_list` returns `PartialVirtualRead` for a write.
- `symstore.rs`: a truncated cache file is trusted for ever after; a read error leaves the
  progress thread running, since `?` comes before `finished` is set; the text of `file.ptr`
  is cached as if it were the PDB. `CacheSettles` is what holds without such an accident.
- `pdb_struct.rs`: a class that is missing is an empty one and no error, so the branch of
  `from_pdb_slice` for a PDB without `_TEB32` is never taken and such a PDB is refused; and
  a field that a class lacks is taken from a class it contains.
- `kernel_info.rs`: a dtb is ignored unless all three hints are given. A System process that
  is not mapped has the dtb 0.
- `keyboard.rs`: code 256 passes the test of `is_down` and indexes one byte past the bitmap.
- `dummy.rs`: `page_list` has every page twice, so pages are handed out again once the memory
  is used up. A clone has no pages.
- `egggame.c`: the walk begins at the root, so entities left of it are never drawn; when the
  game's memory is gone every node reads as zeros and the loop does not end. The same happens
  when a single read fails and leaves zeros in `type2_entry` or `n`, since no result of
  `virt_read_raw_into` is looked at.
- `page_chunks.rs`: while chunks are merged, the address given to the closure stays and the
  distance to the first end of a page is added again, so an unaligned buffer is cut within
  pages. What is answered is right (`AnswersOwn` is about each answer alone), but a page may
  be walked although its entry answers the rest of it.
- `inputsystem.c`: a read that fails (-1) leaves the last event in the buffer, which is then
  applied again; a code of 500 or more is outside the table.
- `page_cache.rs`: a cache smaller than a page has no slots and divides by zero; with
  `valid_count` 0 outputs stay unfilled. `translate_data.rs`: an empty batch underflows.
- After a partial read a batcher never gets to its writes, unless the page comes back.

Known and documented in the code (`mmu_spec.rs`, "Filter out duplicate reads"): of the
chunks whose entries read equal, one goes on and the others fail, although they are
mapped. `FailuresJustified` names that case (`Ambiguous`) as a reason.

## Proofs

A run shows a property for the constants of its `.cfg`; the theorems show it for every
value of them that the modules' assumptions admit: any number of pages, slots, requests,
regions, programs or boxes, lists of any length, either validator. `PROJECT.json` lists
the theorems with what each says. Of the 35 properties of the passing runs they state 31: every
invariant and every action property, and all but the four that need fairness.
The assumptions are the `ASSUME`s of the modules, which TLC evaluates in every run; they
are what the code's types and constructors give (a page is not empty, there is a slot,
requests stay within the memory), and those of the bounds (a counter does not wrap within
`MaxTime`, which is what the validators are about in `ValidatorSlots`, without it).

Hardly any of the properties is inductive alone. What follows is, per module, the
invariant that is, and why it needs its parts.

**PageCacheProofs**: `BufferOwnership`, `InvalidHoldsNoBuffer`, `BoundedStaleness`. The
invariant `CacheInv` has, besides the types,

- `PhaseOK`: which lists may be non-empty in which loop;
- `SlotsAtRest`: a slot that has its buffer waits for no page. This is why
  `take_page` never drops a buffer as Invalid, and why two pages of a batch cannot
  borrow one buffer;
- `BufferOwnership`: what is borrowed is missing in its slot, and the slot waits for it;
- `SlotsCoherent`: what a slot says it holds was the page's content at the slot's stamp
  or later, and what the connector has just filled was its content during this
  operation. Staleness is about values handed out long after they were read; this part
  carries the knowledge in between, through guest writes (`HeldSince` is stable) and
  through the write path, which changes the slot before the memory;
- `BoundedStaleness` itself, since chunks already answered must stay recent.

**What a caller sees of the page cache** (in the same module): `ReadYourWrites`, `OkFillsUnlessLost`, `OkFillsAll` and the
refinement of `WindowMemory`. `CallerInv` adds to `CacheInv` what the caller knows to be in
a page (`mine`): it is what memory holds (`MineInMemory`) and what a live slot holds
(`MineInSlots`). The write path makes both delicate. It shows the whole list to the cache
before any of it reaches memory, so in between a slot holds what its page's *last* entry
says, while memory still runs through the entries before it; the invariant names that
entry (`IsLastOf`). `OutputsInv` adds `OutputsAccounted`: an output that is neither filled
nor on a list belongs to a slot that lost its buffer. It needs `WindowOpen`, a window that
is not empty (with `valid_count` 0 a slot has expired by the time it is filled).
`OkFillsAll`, which `page_cache_fill` refutes, is proved under `~ConnectorFails`, where
`NoBufferLost` is invariant: finding 1 is the only way to an unfilled Ok. The refinement
(`PageCacheImplementsWindowMemory`) has the same two hypotheses, those of the run
`page_cache_timed`; every step is shown to be a step of `WindowMemory` or a stutter.

**CachedVatProofs**: `AnswersFresh`, `AnswersOwn` (under `RootsPerFrame = 1`, which is what
PAE lacks: finding 3), `FailureEvictsNothing`, `SettledOnce`, `OnePageHalved`. `FreshInv` says what stands
between a walk and an answer: pieces lie within the batch's pages (`PiecesOK`), what waits
to be handed out was walked in this call (`PendingWalked`), an entry is what a walk under
*some* root of the entry's frame gave at the entry's stamp or later (`EntriesWalked`), and
no walk is later than now (`WalkedBefore`). The failure range that claims one byte too many
is harmless because a page is longer than that byte (`PageSize > 1`). `SettledOnce` is inductive
with it: the pieces, each with the list that holds it (`Held`), are apart and make up the
bytes that were asked for. Every step of a call replaces one piece by another with the same
bytes, or by two that share them (`Replaced`, `ReplacedSettles`), so one lemma serves all
the steps, wherever the iterator cuts (`ChunkEndOK` says only that it cuts within the
piece). `OnePageHalved` rests on where it cuts. `HalfInv` says that of a buffer at most one
piece begins within a page (`BeginsWithin`), only if the buffer does so itself, and that its
page hits: so the TLB answers it, it ends with its page, and what is behind it begins with
one. The cuts of a piece that begins with a page are multiples of the page size, which is the
arithmetic of `ClassifyHalves`.

**MmuWalkProofs**: `AnsweredOnce`, `SoundIfContiguous`, `FailuresJustified` and the
types, for any number of levels and any table sizes. For `AnsweredOnce` the invariant is `AnsweredOnce` itself (the units in hand and those answered are a partition of the
batch) with `reading \subseteq todo`; the lemmas say that `page_chunks` cuts a chunk into
parts that are apart and lose nothing, also when it cuts at the wrong distance (finding 2).
`WalkInv` is what the other two need. For a batch without gaps:

- `ChunksArePages`: a chunk has no gaps either, and two units are in one chunk just if they
  are in one page of the level. The step is `PartsArePages`: over an interval, `page_chunks`
  cuts where pages end (`ChunksEndWithPages`), and pages of one level lie within pages of
  the level above (`PagesNest`, from x / (b a) = (x / a) / b);
- `OnPath`: the place a chunk reads is on the path of each of its units, and what it read is
  an entry the guest had there during the call (`SeenNow`). All units of a page have one
  index in the next table, so the chunk's least address stands for them;
- what an address could have met only grows while the guest writes (`PathsGrow`,
  `WalksGrow`), so a translation or a reason for a failure, once given, stays one.

Page sizes and paths are recursive functions over the levels. That such a function computes
what its definition says at every level is `RecursionExists`, by a least level at which it
does not.

**VirtualDmaProofs**: `ReadsFilled`, `WritesOnce`, for lists of any length (`MaxList`,
`MaxWrites` and `Spans` are any numbers, `Spans` with a largest). `ReadInv` and `WriteInv`
follow a call through its stages. What makes a write that waits in a batcher come out
right is that a list and the history name the same writes (`ListsInv`: no write is twice in
a list, and none in it that was not issued), and the claim is given up for a list that
translated in part only between the access and the error.

`RangesExact`, for any pieces that are apart, is about the two algorithms. That `sort_by`
puts every piece in the list once is counted: the number of pieces that begin before a
piece is different for each, so every place has one (`SortedOK`). Coalescing then keeps
(`SoFar`) that the ranges ascend, that the last one ends where the last piece does and that
every piece is in one; besides this, a range of `virt_translation_map_range` has no page
that is not a piece's, at the frame the piece gives it, and one of `virt_page_map_range` has
between its pieces only holes of at most `gap_length`. That neighbours do not join is enough
for all pairs, since no range is empty.

**MemoryMapProofs**: `PiecesRight`, `PiecesApart`, `OrderKept`, `OrderedExact`. Pieces are
apart because each lies before the place where the iterator is (`PiecesInv`). `OrderInv`
needs to know which lists `push` makes of regions that do not overlap, and they are not
the sorted ones: a region below all others goes to the end. `PushOrder` says exactly this,
and is what pushing the regions again preserves. `ExactInv` says for each element and byte
up to the iterator what has been done with it, and that the regions the search skips, by
the cursor or by the binary search, end at or below the address.

**ProgramsProofs**: `CacheSettles`, for any number of programs, in which the key is
`HoleHasWriter`: unless a write was cut short, a file with a hole has a writer before it
that still has all of its own part behind it; and `SlotWindows`, for a counter of any
width, where the distance between counter and stamp is the age of the slot, plus
`valid_count` if it is empty, until the counter has gone round (`CountInv`).

**Win32ListsProofs**: `ListFaithful`, `LookupFinds`, `ModulesFaithful` and the types, for any
number of processes and modules, while the guest links and unlinks them without end. A walk
follows links of which no two were read at the same moment, so the claims need to say what
such a walk can still reach (`ListsInv`):

- `Ring`: the links of what is in the list are a ring through its head, with System first;
- `WalkInOrder`: there are ranks that rise along the list. A process that leaves keeps its
  rank, and one that comes gets the next. `Ranked` is that order for the list as it is, and
  `Ahead` extends it to whatever a walk can stand on: from a process that has exited, too,
  the links lead to higher ranks, and pass no process that was linked all the time. This is
  what `ExitProcess` keeps, and what giving a block back (`disturbed`) breaks;
- `Stands` and `Reported`: the walk stands on something that was linked during the call, and
  what was linked all the time is reported or has a higher rank. At the end of the list
  everything has been reported;
- `ModuleLists`: the links of a native list follow its entries as long as none was unloaded,
  and its first entry is the executable until that one is;
- `LookupGoesOn`: a process that was linked all the time is still before a lookup at each of
  its places: among what is to be read, among the candidates, or, for the candidate in hand,
  its executable is still to be compared. `BasesExe` supplies what this rests on: the base
  read with the candidate is the executable's entry, unless it was unloaded;
- `ModuleWalk`: what `module_list` has read is a prefix of the native list as it is now
  (`Within`), so appending to the list does no harm; then the names read so far and those
  still to be read are apart and, together, all there were when it began.

`CreateProcess` is the only step that changes ranks, by giving the new process the highest.
When its block was one before in this call, a walk may stand on it and its old rank is lost;
such a call is `disturbed`.

**LibraryProofs**:

- `ScanFinds` (`ScanInv`): as long as no read failed, the architecture of the guest is
  still before the scan or is the one taken, and with a wrong dtb there is still the fallback;
- `OffsetsRight`, for lists of any length and order: the choice takes the newest file that
  is not newer than the kernel, the first of several;
- `LibraryLifetime` (`HandleInv`): the count of a library is the number of its `Arc`s,
  as a cardinality (`RefsInv`), and what is borrowed outlives the borrower (`HeapInv`);
  each exported function adds or removes exactly the boxes and the arcs it should;
- `OwnFieldWins` (`PdbInv`): types are added in falling order of index, so none twice, and
  in the list of classes the one that was asked for comes last, so that its fields replace
  those of the others (`OwnClassLast`);
- `FramesApart` (`FrameInv`): while no more frames are handed out than there are pages,
  those handed out, those left of the page in use and those in the first list's pages are
  a partition of the memory (`FirstRound`). That the lists `with_rng` makes are partitions
  is arithmetic: pages of three sizes laid end to end, and any of them cut into `Ratio`
  pieces (`PrelistTiles`, `RoundTiles`). When the first list ends, exactly as many
  frames are out as there are pages (`RoundOver`, by cardinalities), which is why the second
  list, with the same pages once more, is reached no sooner.

Induction over data is out of the provers' reach. Where the code works through a list,
the proofs use least elements instead (`WFMin` of the natural numbers): the first index at
which a claim about the steps of a recursive function fails has a predecessor at which it
holds. `OffsetTables`, `FfiHandles`, `PdbStruct` and `RangeMap` define such loops as
recursive functions for that reason.

Only model-checked:

- liveness and whatever needs fairness: `OperationsReturn`, `JoinReturns`, `LoadReturns`,
  `WalkEnds`, and so all that is said of jiaa's threads and of its entity walk;
- that a walk of the page tables has a next step until it ends (the deadlock check of
  `mmu_walk`), which would be about `ENABLED`;
- what the violating runs refute, of course.

## Not modelled

Bits of a PTE, alignment and endianness, formatting and logging are data. Builders only
supply constants. `invalidate_page` and `split_to_chunks` have no caller.
`virt_addr_filter` matters only for buffers longer than half the address space, which it
may drop without an answer. Empty batches are excluded from the walk. The byte patterns of
the Windows scanners and of jiaa's `sigscanner.c` are replaced by what they find. The
keyboard, the basic types, the iterators, the derive macro and the argument parser are
computations without state; drawing, projection and vector arithmetic of jiaa are data.
`PhysicalMemoryBatcher` has the `commit_rw` of the virtual one and no partial results.
Modules are read by name, base and size; their exports and sections are not. The staleness
of a virtual read, which passes through both caches, is stated for each of them and not
for their composition: the product of the two is too large to enumerate.

## What the properties take for granted

- `ReadsFilled` is relative to a physical memory whose Ok means that the output is filled.
  The page cache breaks that after a failure (finding 1), and the connectors of `mem_map.rs`
  for unmapped memory (above).
- `Win32Lists` takes the guest's memory as resident. A link in a page that is paged out would
  read as 0 through a partial read, and cut the list there.
- `ReadInfo` reads the fields of a process, its PEB and the heads of its module lists in one
  step, though the code makes one read for each; what can come between them is not modelled.
  In the run `library` at most one process has the first 14 bytes of the name asked for;
  `Win32LookupFinds` is about any number of candidates.
- `CacheSettles` excuses a file whose write was cut short (`broken`, the accident of
  `symstore.rs:112`): it says that nothing else damages the cache, two writers and a reader
  included, and not that a later load repairs it, which the code does not do.

## Plan

Every safety property of the runs is proved. What remains open:

1. The composition of the two windows of a virtual read: the page of a frame may be as old
   as the window of the page cache, and the frame itself as old as that of the TLB
   (`AnswersFresh`, `BoundedStaleness`); stating it for both needs one guest under
   `PageCache` and `CachedVat`, and is a theorem for `WindowMemory` instances rather than a
   run.
2. Termination of the loops of `cached_read` for every size, by a variant: `OperationsReturn`
   needs fairness and is checked only.
3. Paged-out memory of the guest under `Win32Lists` (see above for what it assumes), which
   changes what `ListFaithful` and `ModulesFaithful` may claim.

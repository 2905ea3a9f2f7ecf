--------------------------- MODULE PageCacheProofs ---------------------------
(***************************************************************************)
(* Theorems about PageCache, for every set of pages, number of slots,      *)
(* batch size, validator and validity window: its types, its staleness,    *)
(* that the caller reads what it wrote, that an Ok leaves no output        *)
(* unfilled but where a slot lost its buffer, and that, while the          *)
(* connector does not fail, the cache implements WindowMemory.             *)
(***************************************************************************)
EXTENDS PageCache, SequenceTheorems, TLAPS

LEMMA ListsAreSequences ==
  /\ \A data \in ReadLists : data \in Seq(Requests)
  /\ \A data \in WriteLists : data \in Seq(Writes)
BY CacheAssumption, SeqDef DEF ReadLists, WriteLists

LEMMA IndexInSlots == \A p \in Pages : PageIndex(p) \in SlotIds
BY CacheAssumption DEF PageIndex, SlotIds

\* Within one machine word, counting is plain arithmetic.
LEMMA ModSmall == \A m \in Nat \ {0} : \A a \in 0 .. m - 1 : a % m = a
OBVIOUS

\* The counter does not wrap within the modelled number of operations.
LEMMA UpdateMovesForward ==
  ASSUME NEW l \in Nat, NEW c \in Nat,
         Counting => l < MaxTime, ~Counting => l <= c
  PROVE  /\ UpdateValidity(l, c) \in Nat
         /\ Counting => UpdateValidity(l, c) <= MaxTime
         /\ l <= UpdateValidity(l, c)
         /\ ~Counting => UpdateValidity(l, c) = c
<1>1. CASE Counting
  <2>1. l + 1 \in 0 .. CounterMod - 1
    BY <1>1, CacheAssumption, ValidatorAssumption
  <2>2. (l + 1) % CounterMod = l + 1
    BY <2>1, ModSmall, ValidatorAssumption
  <2>. QED  BY <1>1, <2>2, CacheAssumption DEF UpdateValidity, CountUpdate
<1>2. CASE ~Counting
  BY <1>2 DEF UpdateValidity, CountUpdate
<1>. QED  BY <1>1, <1>2

\* A slot the validator calls valid is no older than the tolerance.
LEMMA ValidIsRecent ==
  ASSUME NEW l \in Nat, NEW s \in 0 .. l, Counting => l <= MaxTime,
         IsSlotValid(l, s)
  PROVE  s + Tolerance >= l
<1>1. CASE Counting
  <2>1. l - s \in 0 .. CounterMod - 1
    BY <1>1, CacheAssumption, ValidatorAssumption
  <2>2. (l - s) % CounterMod = l - s
    BY <2>1, ModSmall, ValidatorAssumption
  <2>. QED  BY <1>1, <2>2, ValidatorAssumption DEF IsSlotValid, CountIsSlotValid, WrappingSub, Tolerance
<1>2. CASE ~Counting
  BY <1>2, ValidatorAssumption DEF IsSlotValid, TimedIsSlotValid, Tolerance
<1>. QED  BY <1>1, <1>2

LEMMA StampsOK ==
  ASSUME TypeOK
  PROVE  last \in Stamps /\ AllocatedStamp(0) \in Stamps
BY CacheAssumption, ValidatorAssumption
   DEF TypeOK, Stamps, AllocatedStamp, CountAllocatedStamp,
       TimedAllocatedStamp, WrappingSub, Counting

LEMMA InitType == Init => TypeOK
BY CacheAssumption, ValidatorAssumption, EmptySeq
   DEF Init, TypeOK, Stamps, AllocatedStamp, CountAllocatedStamp,
       TimedAllocatedStamp, WrappingSub, Counting, Chunk, SlotIds

-----------------------------------------------------------------------------
(* Types and phases                                                        *)

LEMMA ScanPageOK ==
  ASSUME TypeOK, PhaseOK, Scanning
  PROVE  /\ ScanPage \in Pages
         /\ reqs # <<>>
         /\ pos + 1 \in Nat /\ pos + 1 <= Head(reqs).span
<1>1. reqs # <<>> /\ Head(reqs) \in Requests
  BY HeadTailProperties DEF TypeOK, PhaseOK, Scanning
<1>. QED  BY <1>1, CacheAssumption DEF TypeOK, PhaseOK, Scanning, ScanPage

LEMMA NewChunkType ==
  ASSUME TypeOK, PhaseOK, Scanning, NEW val \in Vals \cup {None}, NewChunk(val)
  PROVE  /\ chunks' \in Seq(Chunk)
         /\ Len(chunks') = Len(chunks) + 1
         /\ \A id \in 1 .. Len(chunks) : chunks'[id] = chunks[id]
         /\ chunks'[ScanId] = [page |-> ScanPage, val |-> val]
         /\ ScanId = Len(chunks')
<1>1. [page |-> ScanPage, val |-> val] \in Chunk
  BY ScanPageOK DEF Chunk
<1>. QED  BY <1>1 DEF TypeOK, NewChunk, ScanId

LEMMA EntryOK ==
  ASSUME TypeOK, wpos < Len(writes)
  PROVE  Entry \in Writes /\ Entry.page \in Pages /\ Entry.val \in Vals
BY CacheAssumption DEF TypeOK, Entry

LEMMA TypeStep == TypeOK /\ PhaseOK /\ last <= Now /\ [Next]_vars => TypeOK' /\ PhaseOK'
<1> SUFFICES ASSUME TypeOK, PhaseOK, last <= Now, [Next]_vars
             PROVE  TypeOK' /\ PhaseOK'
  OBVIOUS
<1> USE DEF memVars, cacheVars, readVars, writeVars, ghostVars
<1>1. ASSUME NEW data \in ReadLists, StartRead(data)
      PROVE  TypeOK' /\ PhaseOK'
  <2>1. last' \in Nat /\ (Counting => last' <= MaxTime)
    BY <1>1, UpdateMovesForward DEF StartRead, BeginOperation, TypeOK, Now
  <2>2. data \in Seq(Requests)
    BY ListsAreSequences
  <2>3. data # <<>> => Head(data) \in Requests /\ 0 <= Head(data).span
    BY <2>2, HeadTailProperties, CacheAssumption
  <2>. QED  BY <1>1, <2>1, <2>2, <2>3, EmptySeq
            DEF StartRead, BeginOperation, TypeOK, PhaseOK
<1>2. ASSUME NEW data \in WriteLists, StartWrite(data)
      PROVE  TypeOK' /\ PhaseOK'
  <2>1. last' \in Nat /\ (Counting => last' <= MaxTime)
    BY <1>2, UpdateMovesForward DEF StartWrite, BeginOperation, TypeOK, Now
  <2>2. data \in Seq(Writes) /\ (data # <<>> => Len(data) > 0)
    BY ListsAreSequences, EmptySeq
  <2>. QED  BY <1>2, <2>1, <2>2, EmptySeq
            DEF StartWrite, BeginOperation, TypeOK, PhaseOK
<1>3. CASE Scan
  <2>1. ASSUME Scanning, NEW val \in Vals \cup {None}, NewChunk(val),
               wlist' \subseteq wlist \cup {ScanId},
               clist' \subseteq clist \cup {ScanId},
               wlistcache' \subseteq wlistcache \cup {ScanPage},
               page_refs' \in [SlotIds -> Vals \cup {None}],
               once' \in [SlotIds -> Pages \cup {None}]
        PROVE  TypeOK' /\ PhaseOK'
    <3>1. wlist' \subseteq 1 .. Len(chunks') /\ clist' \subseteq 1 .. Len(chunks')
      <4>1. Len(chunks) \in Nat /\ Len(chunks') = Len(chunks) + 1
            /\ ScanId = Len(chunks')
        BY <2>1, NewChunkType, LenProperties DEF TypeOK
      <4>2. 1 .. Len(chunks) \subseteq 1 .. Len(chunks') /\ ScanId \in 1 .. Len(chunks')
        BY <4>1
      <4>. QED  BY <2>1, <4>2 DEF TypeOK
    <3>2. pos' \in Nat /\ pos' <= Head(reqs).span /\ wlistcache' \subseteq Pages
      BY <2>1, ScanPageOK DEF TypeOK, NewChunk
    <3>. QED  BY <2>1, <3>1, <3>2, NewChunkType DEF NewChunk, Scanning, TypeOK, PhaseOK
  <2> USE IndexInSlots
  <2>2. CASE ScanValid
    <3>1. page_refs[PageIndex(ScanPage)] \in Vals \cup {None}
      BY <2>2, ScanPageOK DEF ScanValid, ScanCached, TypeOK
    <3>. QED  BY <2>1, <2>2, <3>1 DEF ScanValid, ScanCached, TypeOK
  <2>3. CASE ScanValidatable
    BY <2>1, <2>3, ScanPageOK
       DEF ScanValidatable, ScanCached, BufferTaken, MarkPageForValidation, TypeOK
  <2>4. CASE ScanToBeValidated
    BY <2>1, <2>4 DEF ScanToBeValidated, ScanCached, TypeOK
  <2>5. CASE ScanInvalid
    BY <2>1, <2>5, ScanPageOK DEF ScanInvalid, ScanCached, BufferTaken, TypeOK
  <2>6. CASE ScanUncached
    BY <2>1, <2>6 DEF ScanUncached, TypeOK
  <2>7. CASE EndRequest
    <3>1. reqs # <<>> /\ reqs' \in Seq(Requests)
      BY <2>7, HeadTailProperties DEF EndRequest, TypeOK, PhaseOK
    <3>2. phase' = "scan" => reqs' # <<>> /\ 0 <= Head(reqs').span
      <4>1. ASSUME phase' = "scan" PROVE reqs' # <<>>
        <5>1. Len(reqs) # 1
          BY <4>1, <2>7 DEF EndRequest, MustFlush
        <5>2. Len(reqs') = Len(reqs) - 1 /\ Len(reqs) # 0
          BY <2>7, <3>1, HeadTailProperties, EmptySeq DEF EndRequest, TypeOK
        <5>3. Len(reqs') # 0
          BY <5>1, <5>2, LenProperties DEF TypeOK
        <5>. QED  BY <5>3, <3>1, EmptySeq
      <4>. QED  BY <4>1, <3>1, HeadTailProperties, CacheAssumption
    <3>. QED  BY <2>7, <3>1, <3>2 DEF EndRequest, TypeOK, PhaseOK
  <2>. QED  BY <1>3, <2>2, <2>3, <2>4, <2>5, <2>6, <2>7 DEF Scan
<1>4. CASE Flush
  <2> USE IndexInSlots
  <2>1. ASSUME NEW id \in wlist \cup clist, NEW v \in Vals \cup {None}
        PROVE  /\ [chunks EXCEPT ![id].val = v] \in Seq(Chunk)
               /\ Len([chunks EXCEPT ![id].val = v]) = Len(chunks)
    <3>1. id \in 1 .. Len(chunks) /\ chunks \in Seq(Chunk)
      BY DEF TypeOK
    <3>2. chunks[id] \in Chunk
      BY <3>1, ElementOfSeq
    <3>3. [chunks[id] EXCEPT !.val = v] \in Chunk
      BY <3>2 DEF Chunk
    <3>. QED  BY <3>1, <3>3, ExceptSeq
  <2>2. ASSUME NEW id \in wlist \cup clist
        PROVE  chunks[id].page \in Pages
    <3>1. id \in 1 .. Len(chunks) /\ chunks \in Seq(Chunk)
      BY DEF TypeOK
    <3>2. chunks[id] \in Chunk
      BY <3>1, ElementOfSeq
    <3>. QED  BY <3>2 DEF Chunk
  <2>3. ASSUME NEW id \in wlist, ReadDirect(id)
        PROVE  TypeOK' /\ PhaseOK'
    BY <2>1, <2>2, <2>3 DEF ReadDirect, TypeOK, PhaseOK
  <2>4. ASSUME NEW p \in wlistcache, Fetch(p)
        PROVE  TypeOK' /\ PhaseOK'
    BY <2>4 DEF Fetch, TypeOK, PhaseOK
  <2>5. CASE ReadFails
    BY <2>5, EmptySeq DEF ReadFails, Return, TypeOK, PhaseOK
  <2>6. ASSUME NEW e \in fetched, ValidatePage(e)
        PROVE  TypeOK' /\ PhaseOK'
    BY <2>6, StampsOK DEF ValidatePage, ValidatePageWith, TypeOK, PhaseOK
  <2>7. ASSUME NEW id \in clist, DrainValid(id)
        PROVE  TypeOK' /\ PhaseOK'
    BY <2>1, <2>2, <2>7 DEF DrainValid, Draining, TypeOK, PhaseOK
  <2>8. ASSUME NEW id \in clist, DrainSkipped(id)
        PROVE  TypeOK' /\ PhaseOK'
    BY <2>2, <2>8 DEF DrainSkipped, Draining, BufferTaken, TypeOK, PhaseOK
  <2>9. CASE FlushDone
    <3>1. reqs # <<>> => Head(reqs) \in Requests
      BY HeadTailProperties DEF TypeOK
    <3>2. reqs # <<>> => pos <= Head(reqs).span
      BY <2>9, <3>1, CacheAssumption DEF FlushDone, PhaseOK
    <3>. QED  BY <2>9, <3>2, EmptySeq DEF FlushDone, Return, TypeOK, PhaseOK
  <2>. QED  BY <1>4, <2>3, <2>4, <2>5, <2>6, <2>7, <2>8, <2>9 DEF Flush
<1>5. CASE Write
  <2>1. ASSUME WriteCacheStep, page_refs' \in [SlotIds -> Vals \cup {None}]
        PROVE  TypeOK' /\ PhaseOK'
    <3>1. wpos < Len(writes) /\ Entry.page \in Pages /\ Entry.val \in Vals
      BY <2>1, EntryOK DEF WriteCacheStep, PhaseOK
    <3>2. Len(writes) \in Nat /\ Now \in Nat
      BY LenProperties DEF TypeOK, Now
    <3>3. lastHeld' \in [Pages -> [Vals -> Nat \cup {None}]]
          /\ mine' \in [Pages -> Vals \cup {None}]
      BY <2>1, <3>1, <3>2 DEF WriteCacheStep, TypeOK
    <3>. QED  BY <2>1, <3>1, <3>2, <3>3 DEF WriteCacheStep, TypeOK, PhaseOK
  <2>2. ASSUME WriteCacheStep PROVE Entry.page \in Pages /\ Entry.val \in Vals
    BY <2>2, EntryOK DEF WriteCacheStep, PhaseOK
  <2>3. CASE WriteCacheValid
    BY <2>1, <2>2, <2>3 DEF WriteCacheValid, TypeOK
  <2>4. CASE WriteCacheOther
    BY <2>1, <2>2, <2>4 DEF WriteCacheOther, BufferTaken, TypeOK
  <2>5. CASE WriteCacheUncached
    BY <2>1, <2>5 DEF WriteCacheUncached, TypeOK
  <2>6. CASE WriteMem
    <3>1. wpos < Len(writes) /\ Entry.page \in Pages /\ Entry.val \in Vals
      BY <2>6, EntryOK DEF WriteMem
    <3>2. Len(writes) \in Nat /\ Now \in Nat
      BY LenProperties DEF TypeOK, Now
    <3>3. lastHeld' \in [Pages -> [Vals -> Nat \cup {None}]]
          /\ mine' \in [Pages -> Vals \cup {None}] /\ mem' \in [Pages -> Vals]
      BY <2>6, <3>1, <3>2 DEF WriteMem, TypeOK
    <3>. QED  BY <2>6, <3>1, <3>2, <3>3 DEF WriteMem, TypeOK, PhaseOK
  <2>7. CASE WriteFails
    BY <2>7, EmptySeq DEF WriteFails, Return, TypeOK, PhaseOK
  <2>8. CASE WriteDone
    BY <2>8, EmptySeq DEF WriteDone, Return, TypeOK, PhaseOK
  <2>. QED  BY <1>5, <2>3, <2>4, <2>5, <2>6, <2>7, <2>8 DEF Write
<1>6. ASSUME NEW garbage \in Vals, Clone(garbage)
      PROVE  TypeOK' /\ PhaseOK'
  BY <1>6, EmptySeq DEF Clone, TypeOK, PhaseOK
<1>7. ASSUME NEW p \in GuestPages, NEW v \in Vals, GuestWrite(p, v)
      PROVE  TypeOK' /\ PhaseOK'
  <2>1. p \in Pages /\ Now \in Nat
    BY CacheAssumption DEF TypeOK, Now
  <2>. QED  BY <1>7, <2>1 DEF GuestWrite, TypeOK, PhaseOK
<1>8. CASE Tick
  BY <1>8 DEF Tick, TypeOK, PhaseOK
<1>9. CASE UNCHANGED vars
  BY <1>9 DEF vars, TypeOK, PhaseOK
<1>. QED  BY <1>1, <1>2, <1>3, <1>4, <1>5, <1>6, <1>7, <1>8, <1>9 DEF Next

-----------------------------------------------------------------------------
(* Buffers                                                                 *)

LEMMA TakePageMeaning ==
  ASSUME NEW p
  PROVE  LET i == PageIndex(p) IN
         /\ TakePage(p) = "Valid" =>
              page_refs[i] # None /\ address[i] = p /\ IsSlotValid(last, stamp[i])
         /\ TakePage(p) = "Validatable" => page_refs[i] # None
         /\ TakePage(p) = "ToBeValidated" => page_refs[i] = None
         /\ TakePage(p) = "Invalid" /\ page_refs[i] # None => once[i] # None
BY DEF TakePage

LEMMA OwnershipStep ==
  ASSUME TypeOK, PhaseOK, SlotsAtRest, BufferOwnership, [Next]_vars
  PROVE  SlotsAtRest' /\ BufferOwnership'
<1> USE DEF memVars, cacheVars, readVars, writeVars, ghostVars, Borrowing
<1> USE IndexInSlots
\* Steps that leave the slots and the borrowed buffers alone.
<1>1. ASSUME UNCHANGED <<page_refs, once, wlistcache, fetched>>
      PROVE  SlotsAtRest' /\ BufferOwnership'
  BY <1>1 DEF SlotsAtRest, BufferOwnership
\* Steps that may take a buffer out of a slot, with nothing borrowed after.
<1>2. ASSUME wlistcache' = {}, fetched' = {}, UNCHANGED once,
             \A i \in SlotIds : page_refs'[i] # None => page_refs[i] # None
      PROVE  SlotsAtRest' /\ BufferOwnership'
  BY <1>2 DEF SlotsAtRest, BufferOwnership
<1>3. ASSUME NEW p \in Pages, BufferTaken(p)
      PROVE  \A i \in SlotIds : page_refs'[i] # None => page_refs[i] # None
  BY <1>3 DEF BufferTaken, TypeOK
<1>4. ASSUME NEW data \in ReadLists, StartRead(data)
      PROVE  SlotsAtRest' /\ BufferOwnership'
  BY <1>1, <1>4 DEF StartRead
<1>5. ASSUME NEW data \in WriteLists, StartWrite(data)
      PROVE  SlotsAtRest' /\ BufferOwnership'
  BY <1>1, <1>5 DEF StartWrite
<1>6. CASE Scan
  <2>1. CASE ScanValid
    BY <1>1, <2>1 DEF ScanValid, NewChunk
  <2>2. CASE ScanValidatable
    <3> DEFINE i == PageIndex(ScanPage)
    <3>1. ScanPage \in Pages /\ i \in SlotIds /\ fetched = {} /\ fetched' = {}
      BY <2>2, ScanPageOK
         DEF ScanValidatable, ScanCached, Scanning, PhaseOK, NewChunk
    <3>2. page_refs[i] # None
      BY <2>2, TakePageMeaning DEF ScanValidatable, ScanCached
    <3>3. page_refs' = [page_refs EXCEPT ![i] = None]
          /\ once' = [once EXCEPT ![i] = ScanPage]
          /\ wlistcache' = wlistcache \cup {ScanPage}
      BY <2>2 DEF ScanValidatable, BufferTaken, MarkPageForValidation
    <3>4. \A q \in wlistcache : PageIndex(q) # i
      BY <3>2 DEF BufferOwnership
    <3>. QED  BY <3>1, <3>3, <3>4 DEF SlotsAtRest, BufferOwnership, TypeOK
  <2>3. CASE ScanToBeValidated
    BY <1>1, <2>3 DEF ScanToBeValidated, NewChunk
  <2>4. CASE ScanInvalid
    <3>1. ScanPage \in Pages
      BY <2>4, ScanPageOK DEF ScanInvalid, ScanCached
    <3>. QED  BY <2>4, <3>1
              DEF ScanInvalid, NewChunk, BufferTaken, SlotsAtRest, BufferOwnership, TypeOK
  <2>5. CASE ScanUncached
    BY <1>1, <2>5 DEF ScanUncached, NewChunk
  <2>6. CASE EndRequest
    BY <1>1, <2>6 DEF EndRequest
  <2>. QED  BY <1>6, <2>1, <2>2, <2>3, <2>4, <2>5, <2>6 DEF Scan
<1>7. CASE Flush
  <2>1. ASSUME NEW id \in wlist, ReadDirect(id)
        PROVE  SlotsAtRest' /\ BufferOwnership'
    BY <1>1, <2>1 DEF ReadDirect
  <2>2. ASSUME NEW p \in wlistcache, Fetch(p)
        PROVE  SlotsAtRest' /\ BufferOwnership'
    <3>1. SlotsAtRest'
      BY <2>2 DEF Fetch, SlotsAtRest
    <3>2. \A q \in Borrowing' : q \in Borrowing
      BY <2>2 DEF Fetch
    <3>3. \A e \in fetched : PageIndex(e.page) # PageIndex(p)
      BY DEF BufferOwnership
    <3>. QED  BY <2>2, <3>1, <3>2, <3>3 DEF Fetch, BufferOwnership
  <2>3. CASE ReadFails
    BY <1>2, <2>3 DEF ReadFails, Return
  <2>4. ASSUME NEW e \in fetched, ValidatePage(e)
        PROVE  SlotsAtRest' /\ BufferOwnership'
    <3> DEFINE i == PageIndex(e.page)
    <3>1. e.page \in Pages /\ i \in SlotIds
      BY DEF TypeOK
    <3>2. page_refs' = [page_refs EXCEPT ![i] = e.data]
          /\ once' = [once EXCEPT ![i] = None]
          /\ wlistcache' = {} /\ fetched' = fetched \ {e}
      BY <2>4 DEF ValidatePage, ValidatePageWith
    <3>3. \A f \in fetched' : PageIndex(f.page) # i
      BY <3>2 DEF BufferOwnership
    <3>. QED  BY <3>1, <3>2, <3>3 DEF SlotsAtRest, BufferOwnership, TypeOK
  <2>5. ASSUME NEW id \in clist, DrainValid(id)
        PROVE  SlotsAtRest' /\ BufferOwnership'
    BY <1>1, <2>5 DEF DrainValid, Draining
  <2>6. ASSUME NEW id \in clist, DrainSkipped(id)
        PROVE  SlotsAtRest' /\ BufferOwnership'
    BY <1>2, <2>6 DEF DrainSkipped, Draining, BufferTaken, TypeOK
  <2>7. CASE FlushDone
    BY <1>2, <2>7 DEF FlushDone, Return
  <2>. QED  BY <1>7, <2>1, <2>2, <2>3, <2>4, <2>5, <2>6, <2>7 DEF Flush
<1>8. CASE Write
  <2>1. CASE WriteCacheValid
    <3>1. page_refs[PageIndex(Entry.page)] # None /\ Entry.page \in Pages
      BY <2>1, TakePageMeaning, EntryOK DEF WriteCacheValid, WriteCacheStep, PhaseOK
    <3>. QED  BY <1>2, <2>1, <3>1 DEF WriteCacheValid, WriteCacheStep, PhaseOK, TypeOK
  <2>2. CASE WriteCacheOther
    <3>1. Entry.page \in Pages
      BY <2>2, EntryOK DEF WriteCacheOther, WriteCacheStep, PhaseOK
    <3>. QED  BY <1>2, <1>3, <2>2, <3>1 DEF WriteCacheOther, WriteCacheStep, PhaseOK
  <2>3. CASE WriteCacheUncached
    BY <1>1, <2>3 DEF WriteCacheUncached, WriteCacheStep
  <2>4. CASE WriteMem
    BY <1>1, <2>4 DEF WriteMem
  <2>5. CASE WriteFails
    BY <1>2, <2>5 DEF WriteFails, Return
  <2>6. CASE WriteDone
    BY <1>2, <2>6 DEF WriteDone, Return
  <2>. QED  BY <1>8, <2>1, <2>2, <2>3, <2>4, <2>5, <2>6 DEF Write
<1>9. ASSUME NEW garbage \in Vals, Clone(garbage)
      PROVE  SlotsAtRest' /\ BufferOwnership'
  BY <1>9 DEF Clone, PhaseOK, SlotsAtRest, BufferOwnership
<1>10. ASSUME NEW p \in GuestPages, NEW v \in Vals, GuestWrite(p, v)
       PROVE  SlotsAtRest' /\ BufferOwnership'
  BY <1>1, <1>10 DEF GuestWrite
<1>11. CASE Tick
  BY <1>1, <1>11 DEF Tick
<1>12. CASE UNCHANGED vars
  BY <1>1, <1>12 DEF vars
<1>. QED
  BY <1>4, <1>5, <1>6, <1>7, <1>8, <1>9, <1>10, <1>11, <1>12 DEF Next

-----------------------------------------------------------------------------
(* Freshness                                                               *)

\* Memory changes never take back that a page had a content since t.
LEMMA HeldSinceStable ==
  ASSUME TypeOK,
         NEW q \in Pages, NEW w \in Vals,
         \/ lastHeld' = lastHeld /\ mem' = mem
         \/ lastHeld' = [lastHeld EXCEPT ![q][w] = Now] /\ mem' = mem
         \/ lastHeld' = [lastHeld EXCEPT ![q][mem[q]] = Now]
            /\ mem' = [mem EXCEPT ![q] = w]
  PROVE  \A p \in Pages, v \in Vals, t \in Nat :
           t <= Now /\ HeldSince(p, v, t) => HeldSince(p, v, t)'
<1>1. Now \in Nat /\ Now # None
  BY CacheAssumption DEF TypeOK, Now
<1>2. mem[q] \in Vals
  BY DEF TypeOK
<1> SUFFICES ASSUME NEW p \in Pages, NEW v \in Vals, NEW t \in Nat,
                    t <= Now, HeldSince(p, v, t)
             PROVE  HeldSince(p, v, t)'
  OBVIOUS
<1>3. CASE lastHeld' = lastHeld /\ mem' = mem
  BY <1>3 DEF HeldSince
<1>4. CASE lastHeld' = [lastHeld EXCEPT ![q][w] = Now] /\ mem' = mem
  BY <1>1, <1>4 DEF HeldSince, TypeOK
<1>5. CASE lastHeld' = [lastHeld EXCEPT ![q][mem[q]] = Now]
           /\ mem' = [mem EXCEPT ![q] = w]
  <2>1. CASE p = q /\ v = mem[q]
    BY <1>1, <1>2, <1>5, <2>1 DEF HeldSince, TypeOK
  <2>2. CASE ~(p = q /\ v = mem[q])
    <3>1. lastHeld'[p][v] = lastHeld[p][v]
      BY <1>2, <1>5, <2>2 DEF TypeOK
    <3>2. mem[p] = v => mem'[p] = v
      BY <1>5, <2>2 DEF TypeOK
    <3>. QED  BY <3>1, <3>2 DEF HeldSince
  <2>. QED  BY <2>1, <2>2
<1>. QED  BY <1>3, <1>4, <1>5

\* What was held since a recent enough instant was recently held.
LEMMA HeldIsRecent ==
  ASSUME TypeOK
  PROVE  \A p \in Pages, v \in Vals, t \in Nat :
           HeldSince(p, v, t) /\ t + Tolerance >= last => RecentlyHeld(p, v)
<1>1. Tolerance \in Nat
  BY ValidatorAssumption DEF Tolerance
<1>2. last \in Nat /\ lastHeld \in [Pages -> [Vals -> Nat \cup {None}]]
  BY DEF TypeOK
<1> SUFFICES ASSUME NEW p \in Pages, NEW v \in Vals, NEW t \in Nat,
                    HeldSince(p, v, t), t + Tolerance >= last
             PROVE  RecentlyHeld(p, v)
  OBVIOUS
<1>3. CASE mem[p] = v
  BY <1>3 DEF RecentlyHeld
<1>4. CASE lastHeld[p][v] # None /\ lastHeld[p][v] >= t
  <2>1. lastHeld[p][v] \in Nat
    BY <1>2, <1>4
  <2>. QED  BY <1>1, <1>2, <1>4, <2>1 DEF RecentlyHeld
<1>. QED  BY <1>3, <1>4 DEF HeldSince

LEMMA RecentlyHeldStable ==
  ASSUME TypeOK, last <= Now, last' = last,
         NEW q \in Pages, NEW w \in Vals,
         \/ lastHeld' = lastHeld /\ mem' = mem
         \/ lastHeld' = [lastHeld EXCEPT ![q][w] = Now] /\ mem' = mem
         \/ lastHeld' = [lastHeld EXCEPT ![q][mem[q]] = Now]
            /\ mem' = [mem EXCEPT ![q] = w]
  PROVE  \A p \in Pages, v \in Vals : RecentlyHeld(p, v) => RecentlyHeld(p, v)'
<1>1. Now \in Nat /\ Now # None /\ Tolerance \in Nat
  BY CacheAssumption, ValidatorAssumption DEF TypeOK, Now, Tolerance
<1>2. mem[q] \in Vals
  BY DEF TypeOK
<1> SUFFICES ASSUME NEW p \in Pages, NEW v \in Vals, RecentlyHeld(p, v)
             PROVE  RecentlyHeld(p, v)'
  OBVIOUS
<1>3. Now + Tolerance >= last
  BY <1>1 DEF TypeOK
<1>4. Tolerance' = Tolerance
  BY DEF Tolerance, Counting
<1>5. CASE lastHeld' = lastHeld /\ mem' = mem
  BY <1>4, <1>5 DEF RecentlyHeld
<1>6. CASE lastHeld' = [lastHeld EXCEPT ![q][w] = Now] /\ mem' = mem
  BY <1>1, <1>3, <1>4, <1>6 DEF RecentlyHeld, TypeOK
<1>7. CASE lastHeld' = [lastHeld EXCEPT ![q][mem[q]] = Now]
           /\ mem' = [mem EXCEPT ![q] = w]
  <2>1. CASE p = q /\ v = mem[q]
    BY <1>1, <1>2, <1>3, <1>4, <1>7, <2>1 DEF RecentlyHeld, TypeOK
  <2>2. CASE ~(p = q /\ v = mem[q])
    <3>1. lastHeld'[p][v] = lastHeld[p][v]
      BY <1>2, <1>7, <2>2 DEF TypeOK
    <3>2. mem[p] = v => mem'[p] = v
      BY <1>7, <2>2 DEF TypeOK
    <3>. QED  BY <1>4, <3>1, <3>2 DEF RecentlyHeld
  <2>. QED  BY <2>1, <2>2
<1>. QED  BY <1>5, <1>6, <1>7

LEMMA CoherentStep ==
  ASSUME TypeOK, PhaseOK, SlotsCoherent, [Next]_vars
  PROVE  SlotsCoherent'
<1> USE DEF memVars, cacheVars, readVars, writeVars, ghostVars
<1> USE IndexInSlots
<1> DEFINE Kept == \A i \in SlotIds : page_refs'[i] \in {page_refs[i], None}
<1>0. \A i \in SlotIds : address[i] # None =>
        /\ address[i] \in Pages
        /\ stamp[i] \in Nat /\ stamp[i] <= Now
        /\ page_refs[i] # None => page_refs[i] \in Vals
  BY DEF TypeOK, SlotsCoherent, Now
<1>a. last \in Nat /\ last <= Now /\ Now \in Nat
  BY DEF TypeOK, SlotsCoherent, Now
\* Steps that leave memory, history and stamps alone, and only take buffers.
<1>1. ASSUME UNCHANGED <<mem, lastHeld, last, address, stamp>>, last <= Now',
             Kept, fetched' \subseteq fetched
      PROVE  SlotsCoherent'
  BY <1>1 DEF SlotsCoherent, HeldSince, PageIndex
\* Steps that change memory or its history, and only take buffers.
<1>2. ASSUME NEW q \in Pages, NEW w \in Vals,
             \/ lastHeld' = [lastHeld EXCEPT ![q][w] = Now] /\ mem' = mem
             \/ lastHeld' = [lastHeld EXCEPT ![q][mem[q]] = Now]
                /\ mem' = [mem EXCEPT ![q] = w],
             UNCHANGED <<clock, last, address, stamp, fetched>>, Kept
      PROVE  SlotsCoherent'
  <2>1. \A p \in Pages, v \in Vals, t \in Nat :
           t <= Now /\ HeldSince(p, v, t) => HeldSince(p, v, t)'
    BY <1>2, HeldSinceStable
  <2>2. last' <= Now'
    BY <1>2, <1>a DEF Now
  <2>3. \A i \in SlotIds :
          address'[i] # None =>
            /\ PageIndex(address'[i]) = i
            /\ stamp'[i] \in 0 .. last'
            /\ page_refs'[i] # None => HeldSince(address[i], page_refs[i], stamp[i])
    BY <1>2 DEF SlotsCoherent
  <2>4. \A i \in SlotIds :
          address'[i] # None /\ page_refs'[i] # None =>
            LET p == address[i]  v == page_refs[i]  t == stamp[i] IN
            mem'[p] = v \/ (lastHeld'[p][v] # None /\ lastHeld'[p][v] >= t)
    BY <1>2, <1>0, <2>1, <2>3 DEF HeldSince
  <2>5. \A e \in fetched : HeldSince(e.page, e.data, last)
          /\ e.page \in Pages /\ e.data \in Vals
    BY DEF SlotsCoherent, TypeOK
  <2>6. \A e \in fetched :
          LET p == e.page  v == e.data IN
          mem'[p] = v \/ (lastHeld'[p][v] # None /\ lastHeld'[p][v] >= last)
    BY <1>a, <2>1, <2>5 DEF HeldSince
  <2>. QED  BY <1>2, <2>2, <2>3, <2>4, <2>6 DEF SlotsCoherent, HeldSince, PageIndex
<1>3. ASSUME BeginOperation, UNCHANGED <<memVars, cacheVars, fetched, ghostVars>>
      PROVE  SlotsCoherent'
  <2>1. last <= last' /\ last' <= Now' /\ last' \in Nat
    BY <1>3, <1>a, UpdateMovesForward DEF BeginOperation, TypeOK, Now
  <2>2. fetched' = {}
    BY <1>3 DEF BeginOperation, PhaseOK
  <2>. QED  BY <1>3, <1>a, <2>1, <2>2 DEF SlotsCoherent, HeldSince, PageIndex
<1>4. ASSUME NEW p \in Pages, BufferTaken(p) PROVE Kept
  BY <1>4 DEF BufferTaken, TypeOK
<1>5. CASE Scan
  <2>1. UNCHANGED <<mem, lastHeld, last, address, stamp, clock, fetched>>
    BY <1>5 DEF Scan, ScanValid, ScanValidatable, ScanToBeValidated, ScanInvalid,
                ScanUncached, EndRequest, NewChunk
  <2>2. Kept
    BY <1>5, <1>4, ScanPageOK
       DEF Scan, ScanValid, ScanValidatable, ScanToBeValidated, ScanInvalid,
           ScanUncached, EndRequest, ScanCached
  <2>. QED  BY <1>1, <1>a, <2>1, <2>2 DEF Now
<1>6. CASE Flush
  <2>1. ASSUME NEW id \in wlist, ReadDirect(id)
        PROVE  SlotsCoherent'
    BY <1>1, <1>a, <2>1 DEF ReadDirect, Now
  <2>2. ASSUME NEW p \in wlistcache, Fetch(p)
        PROVE  SlotsCoherent'
    BY <1>a, <2>2 DEF Fetch, SlotsCoherent, HeldSince, Now, PageIndex
  <2>3. CASE ReadFails
    BY <1>1, <1>a, <2>3 DEF ReadFails, Return, Now
  <2>4. ASSUME NEW e \in fetched, ValidatePage(e)
        PROVE  SlotsCoherent'
    <3> DEFINE i == PageIndex(e.page)
    <3>1. e.page \in Pages /\ i \in SlotIds /\ last \in 0 .. last
      BY <1>a DEF TypeOK
    <3>2. HeldSince(e.page, e.data, last)
      BY DEF SlotsCoherent
    <3>3. /\ address' = [address EXCEPT ![i] = e.page]
          /\ stamp' = [stamp EXCEPT ![i] = last]
          /\ page_refs' = [page_refs EXCEPT ![i] = e.data]
          /\ fetched' = fetched \ {e}
          /\ UNCHANGED <<mem, clock, last, lastHeld>>
      BY <2>4 DEF ValidatePage, ValidatePageWith
    <3>. QED  BY <1>a, <3>1, <3>2, <3>3
              DEF SlotsCoherent, HeldSince, Now, PageIndex, TypeOK
  <2>5. ASSUME NEW id \in clist, DrainValid(id)
        PROVE  SlotsCoherent'
    BY <1>1, <1>a, <2>5 DEF DrainValid, Draining, Now
  <2>6. ASSUME NEW id \in clist, DrainSkipped(id)
        PROVE  SlotsCoherent'
    <3>1. Kept
      BY <2>6 DEF DrainSkipped, BufferTaken, TypeOK
    <3>. QED  BY <1>1, <1>a, <2>6, <3>1 DEF DrainSkipped, Draining, Now
  <2>7. CASE FlushDone
    BY <1>1, <1>a, <2>7 DEF FlushDone, Return, Now
  <2>. QED  BY <1>6, <2>1, <2>2, <2>3, <2>4, <2>5, <2>6, <2>7 DEF Flush
<1>7. CASE Write
  <2>1. ASSUME WriteCacheStep
        PROVE  /\ Entry.page \in Pages /\ Entry.val \in Vals
               /\ lastHeld' = [lastHeld EXCEPT ![Entry.page][Entry.val] = Now]
               /\ UNCHANGED <<mem, clock, last, address, stamp, fetched>>
    BY <2>1, EntryOK DEF WriteCacheStep, PhaseOK
  <2>2. CASE WriteCacheValid
    <3> DEFINE i == PageIndex(Entry.page)
    <3>1. /\ WriteCacheStep
          /\ page_refs[i] # None /\ address[i] = Entry.page
          /\ page_refs' = [page_refs EXCEPT ![i] = Entry.val]
      BY <2>2, TakePageMeaning DEF WriteCacheValid
    <3>2. lastHeld'[Entry.page][Entry.val] = Now /\ Now # None
      <4>1. Now # None
        BY <1>a, CacheAssumption
      <4>2. lastHeld \in [Pages -> [Vals -> Nat \cup {None}]]
        BY DEF TypeOK
      <4>. QED  BY <2>1, <3>1, <4>1, <4>2
    <3>3. \A p \in Pages, v \in Vals, t \in Nat :
            t <= Now /\ HeldSince(p, v, t) => HeldSince(p, v, t)'
      BY <2>1, <3>1, HeldSinceStable
    <3>4. \A j \in SlotIds : address[j] # None =>
            LET p == address[j]  v == page_refs'[j]  t == stamp[j] IN
            v # None => mem'[p] = v \/ (lastHeld'[p][v] # None /\ lastHeld'[p][v] >= t)
      <4> SUFFICES ASSUME NEW j \in SlotIds, address[j] # None, page_refs'[j] # None
                   PROVE  LET p == address[j]  v == page_refs'[j]  t == stamp[j] IN
                          mem'[p] = v \/ (lastHeld'[p][v] # None /\ lastHeld'[p][v] >= t)
        OBVIOUS
      <4>1. CASE j = i
        <5>1. page_refs'[j] = Entry.val
          BY <2>1, <3>1, <4>1 DEF TypeOK
        <5>. QED  BY <1>0, <3>1, <3>2, <4>1, <5>1
      <4>2. CASE j # i
        <5>1. page_refs'[j] = page_refs[j]
          BY <3>1, <4>2 DEF TypeOK
        <5>2. HeldSince(address[j], page_refs[j], stamp[j])
          BY <5>1 DEF SlotsCoherent
        <5>. QED  BY <1>0, <3>3, <5>1, <5>2 DEF HeldSince
      <4>. QED  BY <4>1, <4>2
    <3>. QED  BY <1>a, <2>1, <3>1, <3>4
              DEF SlotsCoherent, HeldSince, Now, PageIndex, PhaseOK, WriteCacheStep
  <2>3. CASE WriteCacheOther
    <3>1. Kept
      BY <1>4, <2>1, <2>3 DEF WriteCacheOther
    <3>. QED  BY <1>2, <2>1, <2>3, <3>1 DEF WriteCacheOther
  <2>4. CASE WriteCacheUncached
    BY <1>2, <2>1, <2>4 DEF WriteCacheUncached
  <2>5. CASE WriteMem
    <3>1. Entry.page \in Pages /\ Entry.val \in Vals
      BY <2>5, EntryOK DEF WriteMem
    <3>. QED  BY <1>2, <2>5, <3>1 DEF WriteMem
  <2>6. CASE WriteFails
    BY <1>1, <1>a, <2>6 DEF WriteFails, Return, Now
  <2>7. CASE WriteDone
    BY <1>1, <1>a, <2>7 DEF WriteDone, Return, Now
  <2>. QED  BY <1>7, <2>2, <2>3, <2>4, <2>5, <2>6, <2>7 DEF Write
<1>8. ASSUME NEW garbage \in Vals, Clone(garbage)
      PROVE  SlotsCoherent'
  BY <1>8, <1>a DEF Clone, SlotsCoherent, PhaseOK, Now
<1>9. ASSUME NEW p \in GuestPages, NEW v \in Vals, GuestWrite(p, v)
      PROVE  SlotsCoherent'
  <2>1. p \in Pages
    BY CacheAssumption
  <2>. QED  BY <1>2, <1>9, <2>1 DEF GuestWrite
<1>10. CASE Tick
  <2>1. last <= Now'
    BY <1>10, <1>a DEF Tick, Now, TypeOK
  <2>. QED  BY <1>1, <1>10, <2>1 DEF Tick
<1>11. CASE UNCHANGED vars
  BY <1>1, <1>a, <1>11 DEF vars, Now
<1>12. ASSUME NEW data \in ReadLists, StartRead(data)
       PROVE  SlotsCoherent'
  BY <1>3, <1>12 DEF StartRead
<1>13. ASSUME NEW data \in WriteLists, StartWrite(data)
       PROVE  SlotsCoherent'
  BY <1>3, <1>13 DEF StartWrite
<1>. QED
  BY <1>5, <1>6, <1>7, <1>8, <1>9, <1>10, <1>11, <1>12, <1>13 DEF Next

\* A valid slot hands out a recent value.
LEMMA HitIsRecent ==
  ASSUME TypeOK, SlotsCoherent, NEW p \in Pages, TakePage(p) = "Valid"
  PROVE  RecentlyHeld(p, page_refs[PageIndex(p)]) /\ page_refs[PageIndex(p)] \in Vals
<1> DEFINE i == PageIndex(p)
<1>0. last \in Nat /\ (Counting => last <= MaxTime)
  BY DEF TypeOK
<1>1. /\ i \in SlotIds /\ page_refs[i] # None /\ address[i] = p
      /\ IsSlotValid(last, stamp[i])
  BY IndexInSlots, TakePageMeaning
<1>2. p # None
  BY CacheAssumption
<1>3. stamp[i] \in 0 .. last /\ HeldSince(p, page_refs[i], stamp[i])
  BY <1>1, <1>2 DEF SlotsCoherent
<1>4. page_refs[i] \in Vals
  BY <1>1 DEF TypeOK
<1>5. stamp[i] + Tolerance >= last
  BY <1>0, <1>1, <1>3, ValidIsRecent
<1>. QED  BY <1>3, <1>4, <1>5, HeldIsRecent

LEMMA StalenessStep ==
  ASSUME TypeOK, PhaseOK, SlotsCoherent, BoundedStaleness, [Next]_vars
  PROVE  BoundedStaleness'
<1> USE DEF memVars, cacheVars, readVars, writeVars, ghostVars
<1> USE IndexInSlots
<1>0. last \in Nat /\ last <= Now /\ Now \in Nat /\ (Counting => last <= MaxTime)
  BY DEF TypeOK, SlotsCoherent, Now
<1>a. chunks \in Seq(Chunk) /\ DOMAIN chunks = 1 .. Len(chunks) /\ Len(chunks) \in Nat
      /\ \A id \in DOMAIN chunks :
           chunks[id].page \in Pages /\ chunks[id].val \in Vals \cup {None}
  <2>1. chunks \in Seq(Chunk) /\ DOMAIN chunks = 1 .. Len(chunks) /\ Len(chunks) \in Nat
    BY LenProperties DEF TypeOK
  <2>2. \A id \in DOMAIN chunks : chunks[id] \in Chunk
    BY <2>1, ElementOfSeq
  <2>. QED  BY <2>1, <2>2 DEF Chunk
\* A valid slot hands out a recent value.
<1>b. ASSUME NEW p \in Pages, TakePage(p) = "Valid"
      PROVE  RecentlyHeld(p, page_refs[PageIndex(p)])
  BY <1>b, HitIsRecent
\* Steps that leave the chunks, memory and the validator alone.
<1>1. ASSUME UNCHANGED <<chunks, mem, lastHeld, last>>
      PROVE  BoundedStaleness'
  BY <1>1 DEF BoundedStaleness, RecentlyHeld, Tolerance, Counting
\* Steps that change memory or its history.
<1>2. ASSUME NEW q \in Pages, NEW w \in Vals,
             \/ lastHeld' = [lastHeld EXCEPT ![q][w] = Now] /\ mem' = mem
             \/ lastHeld' = [lastHeld EXCEPT ![q][mem[q]] = Now]
                /\ mem' = [mem EXCEPT ![q] = w],
             UNCHANGED <<chunks, last>>
      PROVE  BoundedStaleness'
  <2>1. \A p \in Pages, v \in Vals : RecentlyHeld(p, v) => RecentlyHeld(p, v)'
    BY <1>2, <1>0, RecentlyHeldStable
  <2> SUFFICES ASSUME NEW id \in DOMAIN chunks, chunks[id].val # None
               PROVE  RecentlyHeld(chunks[id].page, chunks[id].val)'
    BY <1>2 DEF BoundedStaleness
  <2>2. RecentlyHeld(chunks[id].page, chunks[id].val)
    BY DEF BoundedStaleness
  <2>3. chunks[id].page \in Pages /\ chunks[id].val \in Vals
    BY <1>a
  <2>. QED  BY <1>2, <2>1, <2>2, <2>3 DEF RecentlyHeld
\* Steps that forget the chunks.
<1>3. ASSUME chunks' = <<>> PROVE BoundedStaleness'
  BY <1>3 DEF BoundedStaleness
\* Steps that fill one chunk.
<1>4. ASSUME NEW id \in DOMAIN chunks, NEW v \in Vals \cup {None},
             chunks' = [chunks EXCEPT ![id].val = v],
             v # None => RecentlyHeld(chunks[id].page, v),
             UNCHANGED <<mem, lastHeld, last>>
      PROVE  BoundedStaleness'
  <2>1. \A k \in DOMAIN chunks' :
          /\ k \in DOMAIN chunks
          /\ chunks'[k].page = chunks[k].page
          /\ chunks'[k].val = IF k = id THEN v ELSE chunks[k].val
    BY <1>4, <1>a DEF Chunk
  <2>. QED  BY <1>4, <2>1 DEF BoundedStaleness, RecentlyHeld, Tolerance, Counting
\* Steps that scan one more chunk.
<1>5. ASSUME Scanning, NEW v \in Vals \cup {None}, NewChunk(v),
             v # None => RecentlyHeld(ScanPage, v)
      PROVE  BoundedStaleness'
  <2>1. \A k \in DOMAIN chunks' :
          \/ k \in DOMAIN chunks /\ chunks'[k] = chunks[k]
          \/ chunks'[k] = [page |-> ScanPage, val |-> v]
    <3>1. /\ chunks' \in Seq(Chunk)
          /\ Len(chunks') = Len(chunks) + 1
          /\ \A id \in 1 .. Len(chunks) : chunks'[id] = chunks[id]
          /\ chunks'[Len(chunks')] = [page |-> ScanPage, val |-> v]
      BY <1>5, NewChunkType
    <3>2. DOMAIN chunks' = 1 .. Len(chunks) + 1
      BY <3>1, LenProperties
    <3>. QED  BY <1>a, <3>1, <3>2
  <2>2. UNCHANGED <<mem, lastHeld, last>>
    BY <1>5 DEF NewChunk
  <2>. QED  BY <1>5, <2>1, <2>2 DEF BoundedStaleness, RecentlyHeld, Tolerance, Counting
<1>6. CASE Scan
  <2>1. CASE ScanValid
    <3>1. ScanPage \in Pages
      BY <2>1, ScanPageOK DEF ScanValid, ScanCached
    <3>2. RecentlyHeld(ScanPage, page_refs[PageIndex(ScanPage)])
      BY <1>b, <2>1, <3>1 DEF ScanValid, ScanCached
    <3>3. page_refs[PageIndex(ScanPage)] \in Vals \cup {None}
      BY <3>1 DEF TypeOK
    <3>. QED  BY <1>5, <2>1, <3>2, <3>3 DEF ScanValid, ScanCached
  <2>2. CASE ScanValidatable
    BY <1>5, <2>2 DEF ScanValidatable, ScanCached
  <2>3. CASE ScanToBeValidated
    BY <1>5, <2>3 DEF ScanToBeValidated, ScanCached
  <2>4. CASE ScanInvalid
    BY <1>5, <2>4 DEF ScanInvalid, ScanCached
  <2>5. CASE ScanUncached
    BY <1>5, <2>5 DEF ScanUncached
  <2>6. CASE EndRequest
    BY <1>1, <2>6 DEF EndRequest
  <2>. QED  BY <1>6, <2>1, <2>2, <2>3, <2>4, <2>5, <2>6 DEF Scan
<1>7. CASE Flush
  <2>0. wlist \subseteq DOMAIN chunks /\ clist \subseteq DOMAIN chunks
    BY <1>a DEF TypeOK
  <2>1. ASSUME NEW id \in wlist, ReadDirect(id)
        PROVE  BoundedStaleness'
    <3>1. mem[chunks[id].page] \in Vals /\ RecentlyHeld(chunks[id].page, mem[chunks[id].page])
      BY <1>a, <2>0 DEF RecentlyHeld, TypeOK
    <3>. QED  BY <1>4, <2>0, <2>1, <3>1 DEF ReadDirect
  <2>2. ASSUME NEW p \in wlistcache, Fetch(p)
        PROVE  BoundedStaleness'
    BY <1>1, <2>2 DEF Fetch
  <2>3. CASE ReadFails
    BY <1>1, <2>3 DEF ReadFails
  <2>4. ASSUME NEW e \in fetched, ValidatePage(e)
        PROVE  BoundedStaleness'
    BY <1>1, <2>4 DEF ValidatePage
  <2>5. ASSUME NEW id \in clist, DrainValid(id)
        PROVE  BoundedStaleness'
    <3> DEFINE p == chunks[id].page
    <3>1. p \in Pages /\ id \in DOMAIN chunks
      BY <1>a, <2>0
    <3>2. RecentlyHeld(p, page_refs[PageIndex(p)])
      BY <1>b, <2>5, <3>1 DEF DrainValid
    <3>3. page_refs[PageIndex(p)] \in Vals \cup {None}
      BY <3>1 DEF TypeOK
    <3>. QED  BY <1>4, <2>5, <3>1, <3>2, <3>3 DEF DrainValid, Draining
  <2>6. ASSUME NEW id \in clist, DrainSkipped(id)
        PROVE  BoundedStaleness'
    BY <1>1, <2>6 DEF DrainSkipped, Draining
  <2>7. CASE FlushDone
    BY <1>1, <2>7 DEF FlushDone
  <2>. QED  BY <1>7, <2>1, <2>2, <2>3, <2>4, <2>5, <2>6, <2>7 DEF Flush
<1>8. CASE Write
  <2>1. ASSUME WriteCacheStep PROVE BoundedStaleness'
    BY <1>2, <2>1, EntryOK DEF WriteCacheStep, PhaseOK
  <2>2. CASE WriteMem
    BY <1>2, <2>2, EntryOK DEF WriteMem
  <2>3. CASE WriteFails
    BY <1>1, <2>3 DEF WriteFails
  <2>4. CASE WriteDone
    BY <1>1, <2>4 DEF WriteDone
  <2>. QED  BY <1>8, <2>1, <2>2, <2>3, <2>4
            DEF Write, WriteCacheValid, WriteCacheOther, WriteCacheUncached
<1>9. ASSUME NEW p \in GuestPages, NEW v \in Vals, GuestWrite(p, v)
      PROVE  BoundedStaleness'
  BY <1>2, <1>9, CacheAssumption DEF GuestWrite
<1>10. CASE Tick
  BY <1>1, <1>10 DEF Tick
<1>11. CASE UNCHANGED vars
  BY <1>1, <1>11 DEF vars
<1>. QED
  BY <1>3, <1>6, <1>7, <1>8, <1>9, <1>10, <1>11
     DEF Next, StartRead, StartWrite, BeginOperation, Clone

-----------------------------------------------------------------------------
(* The invariant and what follows from it                                  *)

LEMMA InitInv == Init => CacheInv
<1> SUFFICES ASSUME Init PROVE CacheInv
  OBVIOUS
<1>1. TypeOK
  BY InitType
<1>2. PhaseOK
  BY DEF Init, PhaseOK
<1>3. SlotsAtRest /\ BufferOwnership
  BY DEF Init, SlotsAtRest, BufferOwnership, Borrowing
<1>4. SlotsCoherent /\ BoundedStaleness
  BY DEF Init, SlotsCoherent, BoundedStaleness, Now
<1>. QED  BY <1>1, <1>2, <1>3, <1>4 DEF CacheInv

LEMMA NextInv == CacheInv /\ [Next]_vars => CacheInv'
<1> SUFFICES ASSUME CacheInv, [Next]_vars PROVE CacheInv'
  OBVIOUS
<1>1. last <= Now
  BY DEF CacheInv, SlotsCoherent
<1>. QED  BY <1>1, TypeStep, OwnershipStep, CoherentStep, StalenessStep DEF CacheInv

\* The page cache keeps its types, whatever its size, batch limit, validator
\* and window.
THEOREM PageCacheTypes == Spec => []TypeOK
<1>1. CacheInv => TypeOK
  BY DEF CacheInv
<1>. QED  BY <1>1, InitInv, NextInv, PTL DEF Spec

\* No buffer of a slot is ever lent to two pages of a batch, and put_page
\* always finds the slot empty.
THEOREM PageCacheBuffers == Spec => []BufferOwnership
<1>1. CacheInv => BufferOwnership
  BY DEF CacheInv
<1>. QED  BY <1>1, InitInv, NextInv, PTL DEF Spec

\* take_page never throws a buffer away by answering Invalid.
THEOREM PageCacheKeepsBuffers == Spec => []InvalidHoldsNoBuffer
<1>1. CacheInv => InvalidHoldsNoBuffer
  BY IndexInSlots, TakePageMeaning DEF CacheInv, SlotsAtRest, InvalidHoldsNoBuffer
<1>. QED  BY <1>1, InitInv, NextInv, PTL DEF Spec

\* Whatever phys_read_raw_list returns was the page's content, or was
\* written to it through the cache, within the validator's window.
THEOREM PageCacheFreshness == Spec => []BoundedStaleness
<1>1. CacheInv => BoundedStaleness
  BY DEF CacheInv
<1>. QED  BY <1>1, InitInv, NextInv, PTL DEF Spec

-----------------------------------------------------------------------------
(* The caller's own writes                                                 *)

Writing == phase \in {"wcache", "wmem"}

\* How many entries of the write list the cache has already been shown.
Shown == IF phase = "wcache" THEN wpos ELSE Len(writes)

\* Entry k is the last of the first n entries that satisfies S.
IsLastOf(k, S, n) == k \in S /\ k <= n /\ \A j \in S : j <= n => j <= k

EntriesOf(p) == {k \in DOMAIN writes : writes[k].page = p}
CachedEntriesOf(p) == {k \in EntriesOf(p) : IsCachedPageType(writes[k].type)}

\* The slot answers for its page now.
Live(i) ==
  address[i] # None /\ page_refs[i] # None /\ IsSlotValid(last, stamp[i])

\* What the caller knows is in memory; during a write, only what the list has
\* already brought there.
MineInMemory ==
  /\ \A p \in Pages : mine[p] \in {None, mem[p]}
  /\ \A e \in fetched : mine[e.page] \in {None, e.data}
  /\ Writing => chunks = <<>>
  /\ phase = "wcache" =>
       \A k \in DOMAIN writes : k <= wpos => mine[writes[k].page] = None
  /\ phase = "wmem" =>
       \A k \in DOMAIN writes :
         LET p == writes[k].page IN
         mine[p] # None =>
           \E j \in CachedEntriesOf(p) :
             IsLastOf(j, EntriesOf(p), wpos) /\ writes[j].val = mine[p]

\* A live slot holds what the caller knows, or, while the list is on its way
\* to memory, what its last cached entry said.
MineInSlots ==
  \A i \in SlotIds : Live(i) =>
    LET p == address[i] IN
    /\ (phase = "wmem" /\ EntriesOf(p) # {}) \/ mine[p] \in {None, page_refs[i]}
    /\ Writing => \A k \in DOMAIN writes :
                    IsLastOf(k, CachedEntriesOf(p), Shown) => page_refs[i] = writes[k].val

-----------------------------------------------------------------------------
(* The outputs of a read                                                   *)

WaitsFor(p) == page_refs[PageIndex(p)] = None /\ once[PageIndex(p)] = p
Lost(p) == WaitsFor(p) /\ p \notin Borrowing

\* Nothing on the lists is filled yet; the slot of a chunk that is to be
\* copied waits for its page or has it; and what is neither filled nor on a
\* list belongs to a slot that lost its buffer.
OutputsAccounted ==
  /\ wlist \cap clist = {}
  /\ \A id \in wlist \cup clist : chunks[id].val = None
  /\ \A id \in clist :
       \/ WaitsFor(chunks[id].page)
       \/ phase = "flush" /\ TakePage(chunks[id].page) = "Valid"
  /\ phase \in {"scan", "flush"} \/ result = "ok" =>
       \A id \in DOMAIN chunks :
         chunks[id].val = None /\ id \notin wlist \cup clist => Lost(chunks[id].page)
  /\ phase # "idle" => result = "none"

\* Every buffer that is not in its slot is on its way back to it.
NoBufferLost ==
  \A i \in SlotIds : page_refs[i] = None => \E p \in Borrowing : PageIndex(p) = i

-----------------------------------------------------------------------------
(* Validity                                                                *)

\* A slot that is not valid does not become so by time passing.
LEMMA ValidityOnlyExpires ==
  ASSUME NEW l \in Nat, NEW m \in Nat, l <= m, NEW s \in 0 .. l,
         Counting => m <= MaxTime, IsSlotValid(m, s)
  PROVE  IsSlotValid(l, s)
<1>1. CASE Counting
  <2>1. m - s \in 0 .. CounterMod - 1 /\ l - s \in 0 .. CounterMod - 1
    BY <1>1, CacheAssumption, ValidatorAssumption
  <2>2. (m - s) % CounterMod = m - s /\ (l - s) % CounterMod = l - s
    BY <2>1, ModSmall, ValidatorAssumption
  <2>. QED  BY <1>1, <2>2, ValidatorAssumption DEF IsSlotValid, CountIsSlotValid, WrappingSub
<1>2. CASE ~Counting
  BY <1>2, ValidatorAssumption DEF IsSlotValid, TimedIsSlotValid
<1>. QED  BY <1>1, <1>2

\* A slot that has just been filled is valid, if the window is not empty.
LEMMA FilledIsValid ==
  ASSUME NEW l \in Nat, ~Counting \/ ValidFor > 0
  PROVE  IsSlotValid(l, l)
<1>1. 0 % CounterMod = 0
  BY ModSmall, ValidatorAssumption
<1>. QED  BY <1>1, ValidatorAssumption
          DEF IsSlotValid, CountIsSlotValid, TimedIsSlotValid, WrappingSub

LEMMA LiveIsTaken ==
  ASSUME TypeOK, SlotsCoherent, NEW i \in SlotIds, Live(i)
  PROVE  i = PageIndex(address[i]) /\ TakePage(address[i]) = "Valid"
BY DEF Live, TakePage, SlotsCoherent

\* What a hit hands out is what the caller knows.
LEMMA HitIsMine ==
  ASSUME TypeOK, MineInSlots, phase # "wmem",
         NEW p \in Pages, TakePage(p) = "Valid"
  PROVE  mine[p] \in {None, page_refs[PageIndex(p)]}
<1>1. PageIndex(p) \in SlotIds /\ p # None
  BY IndexInSlots, CacheAssumption
<1>2. Live(PageIndex(p)) /\ address[PageIndex(p)] = p
  BY <1>1, TakePageMeaning DEF Live
<1>. QED  BY <1>1, <1>2 DEF MineInSlots

-----------------------------------------------------------------------------
(* The caller's own writes                                                 *)

\* The loop that brings the cache up to date.
LEMMA ShowEntry ==
  ASSUME TypeOK, PhaseOK, SlotsCoherent, MineInMemory, MineInSlots,
         WriteCacheValid \/ WriteCacheOther \/ WriteCacheUncached
  PROVE  MineInMemory' /\ MineInSlots'
<1> USE DEF memVars, readVars
<1> DEFINE k0 == wpos + 1  q == Entry.page
<1>1. WriteCacheStep /\ phase = "wcache"
  BY DEF WriteCacheValid, WriteCacheOther, WriteCacheUncached, WriteCacheStep
<1>2. /\ Entry.page \in Pages /\ Entry.val \in Vals
      /\ wpos < Len(writes) /\ wpos \in Nat /\ Len(writes) \in Nat
      /\ DOMAIN writes = 1 .. Len(writes)
  BY <1>1, EntryOK, LenProperties DEF PhaseOK, TypeOK
<1>3. k0 \in DOMAIN writes /\ Entry = writes[k0] /\ \A k \in DOMAIN writes : k <= k0 => k <= wpos \/ k = k0
  BY <1>2 DEF Entry
<1>4. /\ mine' = [mine EXCEPT ![q] = None]
      /\ UNCHANGED <<mem, clock, address, stamp, last, writes, chunks, fetched>>
      /\ phase' \in {"wcache", "wmem"}
      /\ phase' = "wcache" => wpos' = k0
      /\ phase' = "wmem" => wpos' = 0 /\ k0 = Len(writes)
  BY <1>1 DEF WriteCacheStep
<1>5. Shown' = k0 /\ Shown = wpos
  BY <1>1, <1>4 DEF Shown
<1>6. \A p \in Pages : mine'[p] = IF p = q THEN None ELSE mine[p]
  BY <1>4 DEF TypeOK
<1>7. MineInMemory'
  <2>1. \A p \in Pages : mine'[p] \in {None, mem'[p]}
    BY <1>4, <1>6 DEF MineInMemory
  <2>2. fetched' = {} /\ chunks' = <<>>
    BY <1>1, <1>4 DEF PhaseOK, MineInMemory, Writing
  <2>3. \A k \in DOMAIN writes : k <= k0 => mine'[writes[k].page] = None
    <3>1. \A k \in DOMAIN writes : writes[k].page \in Pages
      BY CacheAssumption DEF TypeOK
    <3>. QED  BY <1>1, <1>3, <1>6, <3>1 DEF MineInMemory
  <2>4. phase' = "wmem" => \A k \in DOMAIN writes : mine'[writes[k].page] = None
    BY <1>2, <1>4, <2>3
  <2>. QED  BY <1>4, <2>1, <2>2, <2>3, <2>4 DEF MineInMemory
<1>8. \A i \in SlotIds : Live(i)' => Live(i)
  <2>1. \A i \in SlotIds : page_refs'[i] # None => page_refs[i] # None
    BY <1>2, IndexInSlots, TakePageMeaning
       DEF WriteCacheValid, WriteCacheOther, WriteCacheUncached, BufferTaken, TypeOK
  <2>. QED  BY <1>4, <2>1 DEF Live
<1>9. ASSUME NEW i \in SlotIds, Live(i)'
      PROVE  IF address[i] = q /\ IsCachedPageType(Entry.type)
               THEN page_refs'[i] = Entry.val ELSE page_refs'[i] = page_refs[i]
  <2>1. page_refs'[i] # None /\ Live(i) /\ address[i] # None
    BY <1>8, <1>9 DEF Live
  <2>2. i = PageIndex(address[i]) /\ TakePage(address[i]) = "Valid"
    BY <2>1, LiveIsTaken
  <2>3. CASE WriteCacheValid
    <3>1. PageIndex(q) \in SlotIds /\ address[PageIndex(q)] = q
          /\ page_refs' = [page_refs EXCEPT ![PageIndex(q)] = Entry.val]
          /\ IsCachedPageType(Entry.type)
      BY <1>2, <2>3, TakePageMeaning, IndexInSlots DEF WriteCacheValid
    <3>. QED  BY <2>2, <3>1 DEF TypeOK
  <2>4. CASE WriteCacheOther
    <3>1. address[i] # q
      BY <2>2, <2>4 DEF WriteCacheOther
    <3>. QED  BY <1>2, <2>1, <2>4, <3>1, IndexInSlots DEF WriteCacheOther, BufferTaken, TypeOK
  <2>5. CASE WriteCacheUncached
    BY <2>5 DEF WriteCacheUncached
  <2>. QED  BY <2>3, <2>4, <2>5
<1>10. MineInSlots'
  <2> SUFFICES ASSUME NEW i \in SlotIds, Live(i)'
               PROVE  LET p == address[i] IN
                      /\ mine'[p] \in {None, page_refs'[i]}
                      /\ \A k \in DOMAIN writes :
                           IsLastOf(k, CachedEntriesOf(p), k0) => page_refs'[i] = writes[k].val
    BY <1>4, <1>5 DEF MineInSlots, Writing, IsLastOf, CachedEntriesOf, EntriesOf
  <2> DEFINE p == address[i]
  <2>1. Live(i) /\ p \in Pages
    BY <1>8 DEF Live, TypeOK
  <2>2. mine[p] \in {None, page_refs[i]}
    BY <1>1, <2>1 DEF MineInSlots
  <2>3. mine'[p] \in {None, page_refs'[i]}
    BY <1>6, <1>9, <2>1, <2>2
  <2>4. ASSUME NEW k \in DOMAIN writes, IsLastOf(k, CachedEntriesOf(p), k0)
        PROVE  page_refs'[i] = writes[k].val
    <3>1. CASE k = k0
      BY <1>3, <1>9, <2>4, <3>1 DEF IsLastOf, CachedEntriesOf, EntriesOf
    <3>2. CASE k # k0
      <4>1. k <= wpos
        BY <1>3, <2>4, <3>2 DEF IsLastOf
      <4>2. k0 \notin CachedEntriesOf(p)
        BY <1>2, <2>4, <4>1 DEF IsLastOf
      <4>3. page_refs'[i] = page_refs[i]
        BY <1>3, <1>9, <4>2 DEF CachedEntriesOf, EntriesOf
      <4>4. IsLastOf(k, CachedEntriesOf(p), wpos)
        BY <1>2, <2>4, <4>1 DEF IsLastOf, CachedEntriesOf, EntriesOf
      <4>. QED  BY <1>1, <1>5, <2>1, <4>3, <4>4 DEF MineInSlots, Writing
    <3>. QED  BY <3>1, <3>2
  <2>. QED  BY <2>3, <2>4
<1>. QED  BY <1>7, <1>10

\* One entry of the list reaches memory.
LEMMA WriteEntry ==
  ASSUME TypeOK, PhaseOK, MineInMemory, MineInSlots, WriteMem
  PROVE  MineInMemory' /\ MineInSlots'
<1> USE DEF cacheVars, readVars
<1> DEFINE k0 == wpos + 1  q == Entry.page
<1>1. /\ Entry.page \in Pages /\ Entry.val \in Vals
      /\ wpos < Len(writes) /\ wpos \in Nat /\ Len(writes) \in Nat
      /\ DOMAIN writes = 1 .. Len(writes)
  BY EntryOK, LenProperties DEF WriteMem, TypeOK
<1>2. k0 \in DOMAIN writes /\ Entry = writes[k0]
      /\ \A k \in DOMAIN writes : k <= k0 <=> k <= wpos \/ k = k0
  BY <1>1 DEF Entry
<1>3. /\ phase = "wmem" /\ wpos' = k0
      /\ UNCHANGED <<address, page_refs, stamp, last, writes, chunks, fetched, phase>>
  BY DEF WriteMem
<1>4. \A p \in Pages :
        /\ mem'[p] = IF p = q THEN Entry.val ELSE mem[p]
        /\ mine'[p] = IF p # q THEN mine[p]
                      ELSE IF IsCachedPageType(Entry.type) THEN Entry.val ELSE None
  BY <1>1 DEF WriteMem, TypeOK
<1>5. MineInMemory'
  <2>1. \A p \in Pages : mine'[p] \in {None, mem'[p]}
    BY <1>4 DEF MineInMemory
  <2>2. fetched' = {} /\ chunks' = <<>>
    BY <1>3 DEF PhaseOK, MineInMemory, Writing
  <2>3. ASSUME NEW k \in DOMAIN writes, mine'[writes[k].page] # None
        PROVE  LET p == writes[k].page IN
               \E j \in CachedEntriesOf(p) :
                 IsLastOf(j, EntriesOf(p), k0) /\ writes[j].val = mine'[p]
    <3> DEFINE p == writes[k].page
    <3>0. p \in Pages
      BY CacheAssumption DEF TypeOK
    <3>1. CASE p = q
      <4>1. k0 \in CachedEntriesOf(p) /\ writes[k0].val = mine'[p]
        BY <1>2, <1>4, <2>3, <3>0, <3>1 DEF CachedEntriesOf, EntriesOf
      <4>2. IsLastOf(k0, EntriesOf(p), k0)
        BY <1>1, <4>1 DEF IsLastOf, CachedEntriesOf
      <4>. QED  BY <4>1, <4>2
    <3>2. CASE p # q
      <4>1. mine'[p] = mine[p] /\ mine[p] # None
        BY <1>4, <2>3, <3>0, <3>2
      <4>2. PICK j \in CachedEntriesOf(p) :
              IsLastOf(j, EntriesOf(p), wpos) /\ writes[j].val = mine[p]
        BY <1>3, <4>1 DEF MineInMemory
      <4>3. IsLastOf(j, EntriesOf(p), k0)
        BY <1>1, <1>2, <3>2, <4>2 DEF IsLastOf, EntriesOf
      <4>. QED  BY <4>1, <4>2, <4>3
    <3>. QED  BY <3>1, <3>2
  <2>. QED  BY <1>3, <2>1, <2>2, <2>3
            DEF MineInMemory, IsLastOf, CachedEntriesOf, EntriesOf
<1>6. MineInSlots'
  <2>1. k0 \in EntriesOf(q)
    BY <1>2 DEF EntriesOf
  <2>2. ASSUME NEW i \in SlotIds, Live(i), EntriesOf(address[i]) = {}
        PROVE  mine'[address[i]] \in {None, page_refs[i]}
    <3>1. address[i] \in Pages /\ address[i] # q
      BY <2>1, <2>2 DEF Live, TypeOK
    <3>2. mine[address[i]] \in {None, page_refs[i]}
      BY <2>2 DEF MineInSlots
    <3>. QED  BY <1>4, <3>1, <3>2
  <2>. QED  BY <1>3, <2>2
            DEF MineInSlots, Live, Shown, Writing, IsLastOf, CachedEntriesOf, EntriesOf
<1>. QED  BY <1>5, <1>6

LEMMA MineStep ==
  ASSUME TypeOK, PhaseOK, SlotsCoherent, MineInMemory, MineInSlots, [Next]_vars
  PROVE  MineInMemory' /\ MineInSlots'
<1> USE DEF memVars, cacheVars, readVars, writeVars, ghostVars
<1> USE IndexInSlots
<1>0. last \in Nat /\ last <= Now /\ Now \in Nat /\ (Counting => last <= MaxTime)
  BY DEF TypeOK, SlotsCoherent, Now
\* Steps of a read, which at most take buffers out of their slots.
<1>1. ASSUME ~Writing, ~Writing', UNCHANGED <<mem, mine, address, stamp, last>>,
             fetched' \subseteq fetched,
             \A i \in SlotIds : page_refs'[i] \in {page_refs[i], None}
      PROVE  MineInMemory' /\ MineInSlots'
  <2>1. MineInMemory'
    BY <1>1 DEF MineInMemory, Writing
  <2>2. \A i \in SlotIds : Live(i)' => Live(i) /\ page_refs'[i] = page_refs[i]
    BY <1>1 DEF Live
  <2>. QED  BY <1>1, <2>1, <2>2 DEF MineInSlots, Writing
<1>2. ASSUME NEW p \in Pages, BufferTaken(p)
      PROVE  \A i \in SlotIds : page_refs'[i] \in {page_refs[i], None}
  BY <1>2 DEF BufferTaken, TypeOK
\* Every operation begins at a later instant, with nothing of it done.
<1>3. ASSUME BeginOperation, UNCHANGED <<memVars, cacheVars, ghostVars, fetched>>
      PROVE  /\ \A p \in Pages : mine'[p] \in {None, mem'[p]}
             /\ fetched' = {} /\ chunks' = <<>>
             /\ \A i \in SlotIds : Live(i)' => mine'[address'[i]] \in {None, page_refs'[i]}
  <2>1. last <= last' /\ last' \in Nat /\ (Counting => last' <= MaxTime)
    BY <1>0, <1>3, UpdateMovesForward DEF BeginOperation, TypeOK, Now
  <2>2. \A i \in SlotIds : Live(i)' => Live(i)
    BY <1>0, <1>3, <2>1, ValidityOnlyExpires DEF Live, SlotsCoherent
  <2>3. phase = "idle" /\ chunks' = <<>>
    BY <1>3 DEF BeginOperation
  <2>. QED  BY <1>3, <2>2, <2>3 DEF MineInMemory, MineInSlots, PhaseOK
<1>4. ASSUME NEW data \in ReadLists, StartRead(data)
      PROVE  MineInMemory' /\ MineInSlots'
  <2>1. ~Writing' /\ phase' # "wcache" /\ phase' # "wmem"
    BY <1>4 DEF StartRead, Writing
  <2>. QED  BY <1>3, <1>4, <2>1 DEF StartRead, MineInMemory, MineInSlots
<1>5. ASSUME NEW data \in WriteLists, StartWrite(data)
      PROVE  MineInMemory' /\ MineInSlots'
  <2>1. writes' \in Seq(Writes) /\ DOMAIN writes' = 1 .. Len(writes') /\ Len(writes') \in Nat
    BY <1>5, ListsAreSequences, LenProperties DEF StartWrite
  <2>2. \A k \in DOMAIN writes' : phase' = "wcache" /\ ~(k <= 0)
    BY <1>5, <2>1, EmptySeq DEF StartWrite
  <2>3. \A k \in DOMAIN writes' : Shown' = 0 /\ wpos' = 0
    BY <1>5, <2>2 DEF Shown, StartWrite
  <2>4. MineInMemory'
    BY <1>3, <1>5, <2>2, <2>3 DEF StartWrite, MineInMemory
  <2>5. MineInSlots'
    <3> SUFFICES ASSUME NEW i \in SlotIds, Live(i)'
                 PROVE  /\ mine'[address'[i]] \in {None, page_refs'[i]}
                        /\ \A k \in DOMAIN writes' :
                             IsLastOf(k, CachedEntriesOf(address[i]), Shown)'
                                => page_refs'[i] = writes'[k].val
      BY DEF MineInSlots
    <3>1. mine'[address'[i]] \in {None, page_refs'[i]}
      BY <1>3, <1>5 DEF StartWrite
    <3>2. \A k \in DOMAIN writes' : ~IsLastOf(k, CachedEntriesOf(address[i]), Shown)'
      BY <2>2, <2>3 DEF IsLastOf
    <3>. QED  BY <3>1, <3>2
  <2>. QED  BY <2>4, <2>5
<1>6. CASE Scan
  <2>1. /\ phase = "scan" /\ phase' \in {"scan", "flush"}
        /\ UNCHANGED <<mem, mine, address, stamp, last, fetched>>
    BY <1>6 DEF Scan, ScanValid, ScanValidatable, ScanToBeValidated, ScanInvalid,
                ScanUncached, EndRequest, NewChunk, ScanCached, Scanning
  <2>2. \A i \in SlotIds : page_refs'[i] \in {page_refs[i], None}
    BY <1>2, <1>6, ScanPageOK
       DEF Scan, ScanValid, ScanValidatable, ScanToBeValidated, ScanInvalid,
           ScanUncached, EndRequest, ScanCached
  <2>. QED  BY <1>1, <2>1, <2>2 DEF Writing
<1>7. CASE Flush
  <2>1. ASSUME NEW id \in wlist, ReadDirect(id)
        PROVE  MineInMemory' /\ MineInSlots'
    BY <1>1, <2>1 DEF ReadDirect, Writing
  <2>2. ASSUME NEW p \in wlistcache, Fetch(p)
        PROVE  MineInMemory' /\ MineInSlots'
    <3>1. MineInMemory'
      BY <2>2 DEF Fetch, MineInMemory, Writing, TypeOK
    <3>. QED  BY <2>2, <3>1 DEF Fetch, MineInSlots, Live, Writing
  <2>3. CASE ReadFails
    BY <1>1, <2>3 DEF ReadFails, Return, Writing
  <2>4. ASSUME NEW e \in fetched, ValidatePage(e)
        PROVE  MineInMemory' /\ MineInSlots'
    <3> DEFINE i == PageIndex(e.page)
    <3>1. e.page \in Pages /\ i \in SlotIds /\ mine[e.page] \in {None, e.data}
      BY DEF TypeOK, MineInMemory
    <3>2. /\ address' = [address EXCEPT ![i] = e.page]
          /\ stamp' = [stamp EXCEPT ![i] = last]
          /\ page_refs' = [page_refs EXCEPT ![i] = e.data]
          /\ fetched' \subseteq fetched /\ phase = "flush"
          /\ UNCHANGED <<mem, mine, last, phase>>
      BY <2>4 DEF ValidatePage, ValidatePageWith
    <3>3. MineInMemory'
      BY <3>2 DEF MineInMemory, Writing
    <3>4. \A j \in SlotIds : j # i => /\ address'[j] = address[j]
                                      /\ stamp'[j] = stamp[j]
                                      /\ page_refs'[j] = page_refs[j]
      BY <3>1, <3>2 DEF TypeOK
    <3>5. address'[i] = e.page /\ page_refs'[i] = e.data
      BY <3>1, <3>2 DEF TypeOK
    <3>6. \A j \in SlotIds : Live(j)' => mine[address'[j]] \in {None, page_refs'[j]}
      BY <3>1, <3>2, <3>4, <3>5 DEF Live, MineInSlots
    <3>. QED  BY <3>2, <3>3, <3>6 DEF MineInSlots, Writing
  <2>5. ASSUME NEW id \in clist, DrainValid(id)
        PROVE  MineInMemory' /\ MineInSlots'
    BY <1>1, <2>5 DEF DrainValid, Draining, Writing
  <2>6. ASSUME NEW id \in clist, DrainSkipped(id)
        PROVE  MineInMemory' /\ MineInSlots'
    <3>1. \A i \in SlotIds : page_refs'[i] \in {page_refs[i], None}
      BY <2>6 DEF DrainSkipped, BufferTaken, TypeOK
    <3>. QED  BY <1>1, <2>6, <3>1 DEF DrainSkipped, Draining, Writing
  <2>7. CASE FlushDone
    BY <1>1, <2>7 DEF FlushDone, Return, Writing
  <2>. QED  BY <1>7, <2>1, <2>2, <2>3, <2>4, <2>5, <2>6, <2>7 DEF Flush
<1>8. CASE Write
  <2>1. CASE WriteFails
    <3>1. /\ phase = "wmem" /\ phase' = "idle"
          /\ fetched = {} /\ fetched' = {}
          /\ UNCHANGED <<mem, address, page_refs, stamp, last>>
          /\ \A p \in Pages : mine'[p] = IF EntriesOf(p) # {} THEN None ELSE mine[p]
      BY <2>1 DEF WriteFails, Return, PhaseOK, EntriesOf
    <3>2. MineInMemory'
      BY <3>1 DEF MineInMemory, Writing
    <3>3. \A i \in SlotIds : Live(i)' => Live(i) /\ address[i] \in Pages
      BY <3>1 DEF Live, TypeOK
    <3>. QED  BY <3>1, <3>2, <3>3 DEF MineInSlots, Writing
  <2>2. CASE WriteDone
    <3>1. /\ phase = "wmem" /\ phase' = "idle" /\ wpos = Len(writes)
          /\ fetched = {} /\ fetched' = {}
          /\ UNCHANGED <<mem, mine, address, page_refs, stamp, last>>
      BY <2>2 DEF WriteDone, Return, PhaseOK
    <3>2. MineInMemory'
      BY <3>1 DEF MineInMemory, Writing
    <3>3. ASSUME NEW i \in SlotIds, Live(i), mine[address[i]] # None
          PROVE  mine[address[i]] = page_refs[i]
      <4> DEFINE p == address[i]
      <4>1. CASE EntriesOf(p) = {}
        BY <3>3, <4>1 DEF MineInSlots
      <4>2. CASE EntriesOf(p) # {}
        <5>1. PICK k \in DOMAIN writes : writes[k].page = p
          BY <4>2 DEF EntriesOf
        <5>2. PICK j \in CachedEntriesOf(p) :
                IsLastOf(j, EntriesOf(p), wpos) /\ writes[j].val = mine[p]
          BY <3>1, <3>3, <5>1 DEF MineInMemory
        <5>3. j \in DOMAIN writes /\ IsLastOf(j, CachedEntriesOf(p), Shown)
          BY <3>1, <5>2 DEF IsLastOf, CachedEntriesOf, EntriesOf, Shown
        <5>. QED  BY <3>1, <3>3, <5>2, <5>3 DEF MineInSlots, Writing
      <4>. QED  BY <4>1, <4>2
    <3>. QED  BY <3>1, <3>2, <3>3 DEF MineInSlots, Live, Writing
  <2>. QED  BY <1>8, <2>1, <2>2, ShowEntry, WriteEntry DEF Write
<1>9. ASSUME NEW garbage \in Vals, Clone(garbage)
      PROVE  MineInMemory' /\ MineInSlots'
  BY <1>9 DEF Clone, MineInMemory, MineInSlots, Live, Writing
<1>10. ASSUME NEW p \in GuestPages, NEW v \in Vals, GuestWrite(p, v)
       PROVE  MineInMemory' /\ MineInSlots'
  <2>1. /\ \A q \in Pages : /\ mine'[q] = IF q = p THEN None ELSE mine[q]
                            /\ q # p => mem'[q] = mem[q]
        /\ UNCHANGED <<address, page_refs, stamp, last, fetched, chunks, phase, writes, wpos>>
    BY <1>10, CacheAssumption DEF GuestWrite, TypeOK
  <2>2. \A k \in DOMAIN writes : writes[k].page \in Pages
    BY CacheAssumption DEF TypeOK
  <2>3. MineInMemory'
    <3>1. \A q \in Pages : mine'[q] \in {None, mem'[q]}
      BY <2>1 DEF MineInMemory
    <3>2. \A e \in fetched' : mine'[e.page] \in {None, e.data}
      BY <2>1 DEF MineInMemory, TypeOK
    <3>3. \A k \in DOMAIN writes :
            mine'[writes[k].page] # None => mine'[writes[k].page] = mine[writes[k].page]
      BY <2>1, <2>2
    <3>. QED  BY <2>1, <3>1, <3>2, <3>3
              DEF MineInMemory, Writing, IsLastOf, CachedEntriesOf, EntriesOf
  <2>4. \A i \in SlotIds : Live(i) => mine'[address[i]] \in {None, mine[address[i]]}
    BY <2>1 DEF Live, TypeOK
  <2>5. MineInSlots'
    BY <2>1, <2>4
       DEF MineInSlots, Live, Writing, Shown, IsLastOf, CachedEntriesOf, EntriesOf
  <2>. QED  BY <2>3, <2>5
<1>11. ASSUME UNCHANGED <<mem, mine, address, page_refs, stamp, last, fetched,
                          chunks, phase, writes, wpos>>
       PROVE  MineInMemory' /\ MineInSlots'
  BY <1>11 DEF MineInMemory, MineInSlots, Live, Writing, Shown, IsLastOf,
               CachedEntriesOf, EntriesOf
<1>. QED
  BY <1>4, <1>5, <1>6, <1>7, <1>8, <1>9, <1>10, <1>11 DEF Next, Tick, vars

\* What the chunks of a read look like, and how a step changes them.
LEMMA ChunksOK ==
  ASSUME TypeOK
  PROVE  /\ DOMAIN chunks = 1 .. Len(chunks) /\ Len(chunks) \in Nat
         /\ \A id \in DOMAIN chunks :
              chunks[id].page \in Pages /\ chunks[id].val \in Vals \cup {None}
         /\ wlist \subseteq DOMAIN chunks /\ clist \subseteq DOMAIN chunks
<1>1. chunks \in Seq(Chunk) /\ DOMAIN chunks = 1 .. Len(chunks) /\ Len(chunks) \in Nat
  BY LenProperties DEF TypeOK
<1>2. \A id \in DOMAIN chunks : chunks[id] \in Chunk
  BY <1>1, ElementOfSeq
<1>. QED  BY <1>1, <1>2 DEF Chunk, TypeOK

LEMMA FillChunk ==
  ASSUME TypeOK, NEW id \in DOMAIN chunks, NEW v,
         chunks' = [chunks EXCEPT ![id].val = v]
  PROVE  /\ DOMAIN chunks' = DOMAIN chunks
         /\ \A k \in DOMAIN chunks :
              /\ chunks'[k].page = chunks[k].page
              /\ chunks'[k].val = IF k = id THEN v ELSE chunks[k].val
<1>1. \A k \in DOMAIN chunks : chunks[k] \in Chunk
  BY LenProperties, ElementOfSeq DEF TypeOK
<1>. QED  BY <1>1 DEF Chunk

LEMMA GrowChunks ==
  ASSUME TypeOK, PhaseOK, Scanning, NEW v \in Vals \cup {None}, NewChunk(v)
  PROVE  /\ DOMAIN chunks' = DOMAIN chunks \cup {ScanId} /\ ScanId \notin DOMAIN chunks
         /\ \A k \in DOMAIN chunks : chunks'[k] = chunks[k]
         /\ chunks'[ScanId].page = ScanPage /\ chunks'[ScanId].val = v
<1>1. /\ chunks' \in Seq(Chunk)
      /\ Len(chunks') = Len(chunks) + 1
      /\ \A id \in 1 .. Len(chunks) : chunks'[id] = chunks[id]
      /\ chunks'[ScanId] = [page |-> ScanPage, val |-> v]
      /\ ScanId = Len(chunks')
  BY NewChunkType
<1>2. DOMAIN chunks' = 1 .. Len(chunks) + 1 /\ ScanId = Len(chunks) + 1
  BY <1>1, LenProperties DEF ScanId
<1>. QED  BY <1>1, <1>2, ChunksOK

LEMMA ReadYourWritesStep ==
  ASSUME TypeOK, PhaseOK, MineInMemory, MineInSlots, ReadYourWrites, [Next]_vars
  PROVE  ReadYourWrites'
<1> USE DEF memVars, cacheVars, readVars, writeVars, ghostVars
\* Steps that fill no output: the caller knows no more than before.
<1>1. ASSUME chunks' = chunks, \A p \in Pages : mine'[p] \in {mine[p], None}
      PROVE  ReadYourWrites'
  BY <1>1, ChunksOK DEF ReadYourWrites
<1>2. ASSUME chunks' = <<>> PROVE ReadYourWrites'
  BY <1>2 DEF ReadYourWrites
<1>3. ASSUME Scanning, NEW v \in Vals \cup {None}, NewChunk(v),
             v # None => mine[ScanPage] \in {None, v}
      PROVE  ReadYourWrites'
  <2>1. mine' = mine
    BY <1>3 DEF NewChunk
  <2>. QED  BY <1>3, <2>1, GrowChunks DEF ReadYourWrites
<1>4. ASSUME NEW id \in DOMAIN chunks, NEW v, chunks' = [chunks EXCEPT ![id].val = v],
             mine' = mine, mine[chunks[id].page] \in {None, v}
      PROVE  ReadYourWrites'
  BY <1>4, FillChunk DEF ReadYourWrites
<1>5. CASE Scan
  <2>1. CASE ScanValid
    <3>1. ScanPage \in Pages /\ phase # "wmem"
      BY <2>1, ScanPageOK DEF ScanValid, ScanCached, Scanning
    <3>2. mine[ScanPage] \in {None, page_refs[PageIndex(ScanPage)]}
      BY <2>1, <3>1, HitIsMine DEF ScanValid, ScanCached
    <3>3. page_refs[PageIndex(ScanPage)] \in Vals \cup {None}
      BY <3>1, IndexInSlots DEF TypeOK
    <3>. QED  BY <1>3, <2>1, <3>2, <3>3 DEF ScanValid, ScanCached
  <2>2. CASE ScanValidatable \/ ScanToBeValidated \/ ScanInvalid \/ ScanUncached
    BY <1>3, <2>2
       DEF ScanValidatable, ScanToBeValidated, ScanInvalid, ScanUncached, ScanCached
  <2>3. CASE EndRequest
    BY <1>1, <2>3 DEF EndRequest
  <2>. QED  BY <1>5, <2>1, <2>2, <2>3 DEF Scan
<1>6. CASE Flush
  <2>1. ASSUME NEW id \in wlist, ReadDirect(id)
        PROVE  ReadYourWrites'
    <3>1. id \in DOMAIN chunks /\ chunks[id].page \in Pages
      BY ChunksOK
    <3>2. mine[chunks[id].page] \in {None, mem[chunks[id].page]}
      BY <3>1 DEF MineInMemory
    <3>. QED  BY <1>4, <2>1, <3>1, <3>2 DEF ReadDirect
  <2>2. ASSUME NEW p \in wlistcache, Fetch(p)
        PROVE  ReadYourWrites'
    BY <1>1, <2>2 DEF Fetch
  <2>3. CASE ReadFails
    BY <1>1, <2>3 DEF ReadFails
  <2>4. ASSUME NEW e \in fetched, ValidatePage(e)
        PROVE  ReadYourWrites'
    BY <1>1, <2>4 DEF ValidatePage
  <2>5. ASSUME NEW id \in clist, DrainValid(id)
        PROVE  ReadYourWrites'
    <3>1. id \in DOMAIN chunks /\ chunks[id].page \in Pages /\ phase # "wmem"
      BY <2>5, ChunksOK DEF DrainValid, Draining
    <3>2. mine[chunks[id].page] \in {None, page_refs[PageIndex(chunks[id].page)]}
      BY <2>5, <3>1, HitIsMine DEF DrainValid
    <3>. QED  BY <1>4, <2>5, <3>1, <3>2 DEF DrainValid, Draining
  <2>6. ASSUME NEW id \in clist, DrainSkipped(id)
        PROVE  ReadYourWrites'
    BY <1>1, <2>6 DEF DrainSkipped, Draining
  <2>7. CASE FlushDone
    BY <1>1, <2>7 DEF FlushDone
  <2>. QED  BY <1>6, <2>1, <2>2, <2>3, <2>4, <2>5, <2>6, <2>7 DEF Flush
<1>7. CASE Write
  <2>1. CASE WriteMem
    BY <1>2, <2>1 DEF WriteMem, MineInMemory, Writing
  <2>2. CASE WriteFails
    BY <1>1, <2>2 DEF WriteFails
  <2>3. CASE WriteDone
    BY <1>1, <2>3 DEF WriteDone
  <2>4. ASSUME WriteCacheStep PROVE ReadYourWrites'
    BY <1>2, <2>4 DEF WriteCacheStep, MineInMemory, Writing
  <2>. QED  BY <1>7, <2>1, <2>2, <2>3, <2>4
            DEF Write, WriteCacheValid, WriteCacheOther, WriteCacheUncached
<1>8. ASSUME NEW p \in GuestPages, NEW v \in Vals, GuestWrite(p, v)
      PROVE  ReadYourWrites'
  BY <1>1, <1>8, CacheAssumption DEF GuestWrite, TypeOK
<1>. QED
  BY <1>1, <1>2, <1>5, <1>6, <1>7, <1>8
     DEF Next, StartRead, StartWrite, BeginOperation, Clone, Tick, vars

-----------------------------------------------------------------------------
(* The outputs of a read                                                   *)

\* Taking an Invalid page takes nothing out of its slot.
LEMMA InvalidTakesNothing ==
  ASSUME TypeOK, SlotsAtRest, NEW p \in Pages,
         TakePage(p) = "Invalid", BufferTaken(p)
  PROVE  page_refs' = page_refs
<1>1. PageIndex(p) \in SlotIds /\ page_refs[PageIndex(p)] = None
  BY IndexInSlots, TakePageMeaning DEF SlotsAtRest
<1>. QED  BY <1>1 DEF BufferTaken, TypeOK

\* The validator's window is not empty: with valid_count 0 a slot has expired
\* by the time it is filled, and clist finds nothing to copy.
WindowOpen == ~Counting \/ ValidFor > 0

\* A buffer that is filled is still on its way.
LEMMA FetchBorrows ==
  ASSUME NEW p \in wlistcache, Fetch(p)
  PROVE  \A q : q \in Borrowing' <=> q \in Borrowing
<1> DEFINE e0 == [page |-> p, data |-> mem[p]]
<1>1. e0.page = p /\ wlistcache' = wlistcache \ {p} /\ fetched' = fetched \cup {e0}
  BY DEF Fetch
<1> HIDE DEF e0
<1>2. ASSUME NEW q \in Borrowing PROVE q \in Borrowing'
  BY <1>1, <1>2 DEF Borrowing
<1>3. ASSUME NEW q \in Borrowing' PROVE q \in Borrowing
  BY <1>1, <1>3 DEF Borrowing
<1>. QED  BY <1>2, <1>3

LEMMA OutputsStep ==
  ASSUME WindowOpen, TypeOK, PhaseOK, SlotsAtRest, BufferOwnership,
         MineInMemory, OutputsAccounted, [Next]_vars
  PROVE  OutputsAccounted'
<1> USE DEF memVars, cacheVars, readVars, writeVars, ghostVars
<1> USE IndexInSlots
\* Nothing has been asked for.
<1>1. ASSUME chunks' = <<>>, wlist' = {}, clist' = {}, phase' # "idle" => result' = "none"
      PROVE  OutputsAccounted'
  BY <1>1 DEF OutputsAccounted
\* Nothing that the outputs depend on changes.
<1>2. ASSUME UNCHANGED <<chunks, wlist, clist, phase, result, last, page_refs,
                         address, stamp, once, wlistcache, fetched>>
      PROVE  OutputsAccounted'
  BY <1>2 DEF OutputsAccounted, WaitsFor, Lost, Borrowing, TakePage, IsSlotValid,
              CountIsSlotValid, TimedIsSlotValid, Counting, WrappingSub
<1>3. ASSUME BeginOperation, UNCHANGED <<wlist, clist>>, phase' # "idle" => result' = "none"
      PROVE  OutputsAccounted'
  BY <1>1, <1>3 DEF BeginOperation, PhaseOK
\* One more chunk, and with it at most its slot's buffer and mark.
<1>4. ASSUME Scanning, NEW v \in Vals \cup {None}, NewChunk(v),
             NEW q \in Pages, q = ScanPage,
             \A p \in Pages : WaitsFor(p) => WaitsFor(p)',
             \A p \in Pages : WaitsFor(p) /\ p \notin wlistcache => p \notin wlistcache',
             \/ v # None /\ UNCHANGED <<wlist, clist>>
             \/ v = None /\ wlist' = wlist \cup {ScanId} /\ clist' = clist
             \/ v = None /\ wlist' = wlist /\ clist' = clist \cup {ScanId} /\ WaitsFor(q)'
      PROVE  OutputsAccounted'
  <2>1. phase = "scan" /\ UNCHANGED <<phase, result, fetched>>
    BY <1>4 DEF NewChunk, Scanning
  <2>2. /\ DOMAIN chunks' = DOMAIN chunks \cup {ScanId} /\ ScanId \notin DOMAIN chunks
        /\ \A k \in DOMAIN chunks : chunks'[k] = chunks[k] /\ chunks[k].page \in Pages
        /\ chunks'[ScanId].page = q /\ chunks'[ScanId].val = v
        /\ wlist \subseteq DOMAIN chunks /\ clist \subseteq DOMAIN chunks
    BY <1>4, GrowChunks, ChunksOK
  <2>3. \A p \in Pages : Lost(p) => Lost(p)'
    BY <1>4, <2>1 DEF Lost, Borrowing
  <2>4. \A id \in clist : WaitsFor(chunks[id].page)
    BY <2>1 DEF OutputsAccounted
  <2>5. \A id \in DOMAIN chunks :
          chunks[id].val = None /\ id \notin wlist \cup clist => Lost(chunks[id].page)
    BY <2>1 DEF OutputsAccounted
  <2>6. \A id \in clist' : WaitsFor(chunks[id].page)'
    <3>1. \A id \in clist : WaitsFor(chunks[id].page)'
      BY <1>4, <2>2, <2>4
    <3>. QED  BY <1>4, <2>2, <3>1 DEF WaitsFor
  <2>7. \A id \in DOMAIN chunks' :
          chunks'[id].val = None /\ id \notin wlist' \cup clist' => Lost(chunks[id].page)'
    <3>1. \A id \in DOMAIN chunks : Lost(chunks[id].page) => Lost(chunks[id].page)'
      BY <2>2, <2>3
    <3>. QED  BY <1>4, <2>2, <2>5, <3>1 DEF Lost, WaitsFor
  <2>8. wlist' \cap clist' = {} /\ \A id \in wlist' \cup clist' : chunks'[id].val = None
    BY <1>4, <2>2 DEF OutputsAccounted
  <2>9. phase' # "idle" => result' = "none"
    BY <2>1 DEF OutputsAccounted
  <2>. QED  BY <2>6, <2>7, <2>8, <2>9 DEF OutputsAccounted
<1>5. CASE Scan
  <2>1. CASE ScanValid
    <3>1. ScanPage \in Pages /\ PageIndex(ScanPage) \in SlotIds
      BY <2>1, ScanPageOK DEF ScanValid, ScanCached
    <3>2. /\ page_refs[PageIndex(ScanPage)] # None
          /\ page_refs[PageIndex(ScanPage)] \in Vals \cup {None}
      BY <2>1, <3>1, TakePageMeaning DEF ScanValid, ScanCached, TypeOK
    <3>. QED  BY <1>4, <2>1, <3>1, <3>2 DEF ScanValid, ScanCached, WaitsFor
  <2>2. CASE ScanValidatable
    <3>0. PICK q \in Pages : q = ScanPage
      BY <2>2, ScanPageOK DEF ScanValidatable, ScanCached
    <3> DEFINE i == PageIndex(q)
    <3>1. /\ i \in SlotIds /\ page_refs[i] # None
          /\ page_refs' = [page_refs EXCEPT ![i] = None]
          /\ once' = [once EXCEPT ![i] = q]
      BY <2>2, <3>0, TakePageMeaning
         DEF ScanValidatable, ScanCached, BufferTaken, MarkPageForValidation
    <3>2. WaitsFor(q)'
      BY <3>1 DEF WaitsFor, TypeOK
    <3>3. \A p \in Pages : WaitsFor(p) => WaitsFor(p)' /\ p # q
      BY <3>1 DEF WaitsFor, TypeOK
    <3>. QED  BY <1>4, <2>2, <3>0, <3>2, <3>3 DEF ScanValidatable, ScanCached
  <2>3. CASE ScanToBeValidated
    <3>0. PICK q \in Pages : q = ScanPage
      BY <2>3, ScanPageOK DEF ScanToBeValidated, ScanCached
    <3>1. WaitsFor(q)' /\ \A p \in Pages : WaitsFor(p) => WaitsFor(p)'
      BY <2>3, <3>0 DEF ScanToBeValidated, ScanCached, TakePage, WaitsFor
    <3>. QED  BY <1>4, <2>3, <3>0, <3>1 DEF ScanToBeValidated, ScanCached
  <2>4. CASE ScanInvalid
    <3>1. page_refs' = page_refs
      BY <2>4, ScanPageOK, InvalidTakesNothing DEF ScanInvalid, ScanCached
    <3>. QED  BY <1>4, <2>4, <3>1, ScanPageOK DEF ScanInvalid, ScanCached, WaitsFor
  <2>5. CASE ScanUncached
    BY <1>4, <2>5, ScanPageOK DEF ScanUncached, WaitsFor
  <2>6. CASE EndRequest
    <3>1. /\ phase = "scan" /\ phase' \in {"scan", "flush"}
          /\ UNCHANGED <<chunks, wlist, clist, result, page_refs, once, wlistcache, fetched>>
      BY <2>6 DEF EndRequest
    <3>. QED  BY <3>1 DEF OutputsAccounted, WaitsFor, Lost, Borrowing
  <2>. QED  BY <1>5, <2>1, <2>2, <2>3, <2>4, <2>5, <2>6 DEF Scan
<1>6. CASE Flush
  <2> USE DEF Borrowing
  <2>0. /\ \A id \in DOMAIN chunks : chunks[id].page \in Pages
        /\ wlist \subseteq DOMAIN chunks /\ clist \subseteq DOMAIN chunks
    BY ChunksOK
  <2>1. ASSUME NEW id \in wlist, ReadDirect(id)
        PROVE  OutputsAccounted'
    <3>1. mem[chunks[id].page] # None
      <4>1. mem[chunks[id].page] \in Vals
        BY <2>0 DEF TypeOK
      <4>. QED  BY <4>1, CacheAssumption
    <3>2. /\ DOMAIN chunks' = DOMAIN chunks
          /\ \A k \in DOMAIN chunks :
               /\ chunks'[k].page = chunks[k].page
               /\ chunks'[k].val = IF k = id THEN mem[chunks[id].page] ELSE chunks[k].val
      BY <2>0, <2>1, FillChunk DEF ReadDirect
    <3>3. /\ wlist' = wlist \ {id} /\ phase = "flush"
          /\ UNCHANGED <<clist, phase, result, last, page_refs, address, stamp, once,
                         wlistcache, fetched>>
      BY <2>1 DEF ReadDirect
    <3>4. \A p : (WaitsFor(p)' <=> WaitsFor(p)) /\ (Lost(p)' <=> Lost(p)) /\ TakePage(p)' = TakePage(p)
      BY <3>3 DEF WaitsFor, Lost, TakePage
    <3>. QED  BY <2>0, <3>1, <3>2, <3>3, <3>4 DEF OutputsAccounted
  <2>2. ASSUME NEW p \in wlistcache, Fetch(p)
        PROVE  OutputsAccounted'
    <3>1. UNCHANGED <<chunks, wlist, clist, phase, result, last, page_refs, address,
                      stamp, once>>
      BY <2>2 DEF Fetch
    <3>2. \A q : q \in Borrowing' <=> q \in Borrowing
      BY <2>2, FetchBorrows
    <3>3. \A q : (WaitsFor(q)' <=> WaitsFor(q)) /\ (Lost(q)' <=> Lost(q)) /\ TakePage(q)' = TakePage(q)
      BY <3>1, <3>2 DEF WaitsFor, Lost, TakePage
    <3>. QED  BY <3>1, <3>3 DEF OutputsAccounted
  <2>3. CASE ReadFails
    BY <2>3 DEF ReadFails, Return, OutputsAccounted
  <2>4. ASSUME NEW e \in fetched, ValidatePage(e)
        PROVE  OutputsAccounted'
    <3> DEFINE i == PageIndex(e.page)
    <3>1. /\ e.page \in Pages /\ e.data \in Vals /\ e.data # None /\ i \in SlotIds
          /\ page_refs[i] = None /\ once[i] = e.page /\ e.page \in Borrowing
      <4>1. e.page \in Pages /\ e.data \in Vals /\ None \notin Vals
        BY CacheAssumption DEF TypeOK
      <4>. QED  BY <4>1 DEF BufferOwnership
    <3>2. /\ address' = [address EXCEPT ![i] = e.page]
          /\ once' = [once EXCEPT ![i] = None]
          /\ stamp' = [stamp EXCEPT ![i] = last]
          /\ page_refs' = [page_refs EXCEPT ![i] = e.data]
          /\ fetched' = fetched \ {e} /\ phase = "flush"
          /\ UNCHANGED <<chunks, wlist, clist, phase, result, last, wlistcache>>
      BY <2>4 DEF ValidatePage, ValidatePageWith
    <3>3. /\ address'[i] = e.page /\ once'[i] = None /\ stamp'[i] = last
          /\ page_refs'[i] = e.data
          /\ \A j \in SlotIds : j # i => /\ address'[j] = address[j] /\ once'[j] = once[j]
                                         /\ stamp'[j] = stamp[j]
                                         /\ page_refs'[j] = page_refs[j]
      BY <3>1, <3>2 DEF TypeOK
    <3>4. \A p \in Pages : PageIndex(p) # i =>
            (WaitsFor(p)' <=> WaitsFor(p)) /\ TakePage(p)' = TakePage(p)
      BY <3>2, <3>3 DEF WaitsFor, TakePage
    <3>5. IsSlotValid(last, last)
      BY FilledIsValid DEF TypeOK, WindowOpen
    <3>6. (TakePage(e.page) = "Valid")'
      BY <3>1, <3>2, <3>3, <3>5 DEF TakePage
    <3>7. \A id \in clist :
            WaitsFor(chunks[id].page)' \/ (TakePage(chunks[id].page) = "Valid")'
      <4> SUFFICES ASSUME NEW id \in clist
                   PROVE  WaitsFor(chunks[id].page)' \/ (TakePage(chunks[id].page) = "Valid")'
        OBVIOUS
      <4>1. PICK p \in Pages : p = chunks[id].page
        BY <2>0
      <4>2. WaitsFor(p) \/ TakePage(p) = "Valid"
        BY <4>1 DEF OutputsAccounted
      <4>3. CASE PageIndex(p) = i
        <5>1. p = e.page
          BY <3>1, <4>2, <4>3, TakePageMeaning DEF WaitsFor
        <5>. QED  BY <3>2, <3>6, <4>1, <5>1
      <4>4. CASE PageIndex(p) # i
        <5>1. WaitsFor(p)' \/ (TakePage(p) = "Valid")'
          BY <3>4, <4>2, <4>4
        <5>. QED  BY <3>2, <4>1, <5>1
      <4>. QED  BY <4>3, <4>4
    <3>8. \A p \in Pages : Lost(p) => Lost(p)'
      <4>1. \A p \in Pages : Lost(p) => PageIndex(p) # i
        BY <3>1 DEF Lost, WaitsFor
      <4>2. \A p : p \in Borrowing' => p \in Borrowing
        BY <3>2
      <4>. QED  BY <3>4, <4>1, <4>2 DEF Lost
    <3>9. \A id \in DOMAIN chunks : Lost(chunks[id].page) => Lost(chunks[id].page)'
      BY <2>0, <3>2, <3>8
    <3>. QED  BY <3>2, <3>7, <3>9 DEF OutputsAccounted
  <2>5. ASSUME NEW id \in clist, DrainValid(id)
        PROVE  OutputsAccounted'
    <3> DEFINE v == page_refs[PageIndex(chunks[id].page)]
    <3>1. v # None
      BY <2>5, TakePageMeaning DEF DrainValid
    <3>2. /\ DOMAIN chunks' = DOMAIN chunks
          /\ \A k \in DOMAIN chunks : /\ chunks'[k].page = chunks[k].page
                                      /\ chunks'[k].val = IF k = id THEN v ELSE chunks[k].val
      BY <2>0, <2>5, FillChunk DEF DrainValid
    <3>3. /\ clist' = clist \ {id} /\ phase = "flush"
          /\ UNCHANGED <<wlist, phase, result, last, page_refs, address, stamp, once,
                         wlistcache, fetched>>
      BY <2>5 DEF DrainValid, Draining
    <3>4. \A p : (WaitsFor(p)' <=> WaitsFor(p)) /\ (Lost(p)' <=> Lost(p)) /\ TakePage(p)' = TakePage(p)
      BY <3>3 DEF WaitsFor, Lost, TakePage
    <3>. QED  BY <2>0, <3>1, <3>2, <3>3, <3>4 DEF OutputsAccounted
  <2>6. ASSUME NEW id \in clist, DrainSkipped(id)
        PROVE  OutputsAccounted'
    <3> DEFINE p == chunks[id].page
    <3>1. WaitsFor(p) /\ p \in Pages
      BY <2>0, <2>6 DEF DrainSkipped, OutputsAccounted
    <3>2. page_refs' = page_refs
      BY <2>6, <3>1 DEF DrainSkipped, BufferTaken, WaitsFor, TypeOK
    <3>3. /\ clist' = clist \ {id} /\ phase = "flush" /\ wlistcache = {} /\ fetched = {}
          /\ UNCHANGED <<chunks, wlist, phase, result, last, address, stamp, once,
                         wlistcache, fetched>>
      BY <2>6 DEF DrainSkipped, Draining
    <3>4. \A q : (WaitsFor(q)' <=> WaitsFor(q)) /\ (Lost(q)' <=> Lost(q)) /\ TakePage(q)' = TakePage(q)
      BY <3>2, <3>3 DEF WaitsFor, Lost, TakePage
    <3>5. Lost(p)
      BY <3>1, <3>3 DEF Lost
    <3>. QED  BY <3>3, <3>4, <3>5 DEF OutputsAccounted
  <2>7. CASE FlushDone
    <3>1. /\ wlist = {} /\ clist = {} /\ wlist' = {} /\ clist' = {} /\ phase = "flush"
          /\ UNCHANGED <<chunks, page_refs, once>>
          /\ wlistcache = {} /\ fetched = {} /\ wlistcache' = {} /\ fetched' = {}
          /\ phase' # "idle" => result' = result
      BY <2>7 DEF FlushDone, Return
    <3>2. \A q : Lost(q)' <=> Lost(q)
      BY <3>1 DEF WaitsFor, Lost
    <3>. QED  BY <3>1, <3>2 DEF OutputsAccounted
  <2>. QED  BY <1>6, <2>1, <2>2, <2>3, <2>4, <2>5, <2>6, <2>7 DEF Flush
<1>7. CASE Write
  <2>1. Writing /\ chunks = <<>> /\ wlist = {} /\ clist = {} /\ result = "none"
    BY <1>7 DEF Write, WriteCacheValid, WriteCacheOther, WriteCacheUncached,
                WriteCacheStep, WriteMem, WriteFails, WriteDone, Writing,
                MineInMemory, PhaseOK, OutputsAccounted
  <2>. QED  BY <1>1, <1>7, <2>1
            DEF Write, WriteCacheValid, WriteCacheOther, WriteCacheUncached,
                WriteCacheStep, WriteMem, WriteFails, WriteDone, Return
<1>8. ASSUME NEW garbage \in Vals, Clone(garbage)
      PROVE  OutputsAccounted'
  BY <1>1, <1>8 DEF Clone, PhaseOK
<1>9. CASE (\E p \in GuestPages, v \in Vals : GuestWrite(p, v)) \/ Tick \/ UNCHANGED vars
  BY <1>2, <1>9 DEF GuestWrite, Tick, vars
<1>. QED
  BY <1>3, <1>5, <1>6, <1>7, <1>8, <1>9 DEF Next, StartRead, StartWrite

LEMMA NoBufferLostStep ==
  ASSUME ~ConnectorFails, TypeOK, PhaseOK, SlotsAtRest, BufferOwnership,
         OutputsAccounted, NoBufferLost, [Next]_vars
  PROVE  NoBufferLost'
<1> USE DEF memVars, cacheVars, readVars, writeVars, ghostVars
<1> USE IndexInSlots
<1>1. ASSUME page_refs' = page_refs, \A p : p \in Borrowing => p \in Borrowing'
      PROVE  NoBufferLost'
  BY <1>1 DEF NoBufferLost
<1>2. ASSUME UNCHANGED <<page_refs, wlistcache, fetched>>
      PROVE  NoBufferLost'
  BY <1>1, <1>2 DEF Borrowing
<1>3. CASE Scan
  <2>1. CASE ScanValidatable
    <3>0. PICK q \in Pages : q = ScanPage
      BY <2>1, ScanPageOK DEF ScanValidatable, ScanCached
    <3>1. /\ page_refs' = [page_refs EXCEPT ![PageIndex(q)] = None]
          /\ q \in Borrowing' /\ \A p : p \in Borrowing => p \in Borrowing'
      BY <2>1, <3>0 DEF ScanValidatable, NewChunk, BufferTaken, Borrowing
    <3>. QED  BY <3>1 DEF NoBufferLost, TypeOK
  <2>2. CASE ScanInvalid
    <3>1. page_refs' = page_refs
      BY <2>2, ScanPageOK, InvalidTakesNothing DEF ScanInvalid, ScanCached
    <3>. QED  BY <1>2, <2>2, <3>1 DEF ScanInvalid, NewChunk
  <2>. QED  BY <1>2, <1>3, <2>1, <2>2
            DEF Scan, ScanValid, ScanToBeValidated, ScanUncached, EndRequest, NewChunk
<1>4. CASE Flush
  <2>1. ASSUME NEW p \in wlistcache, Fetch(p)
        PROVE  NoBufferLost'
    BY <1>1, <2>1, FetchBorrows DEF Fetch
  <2>2. ASSUME NEW e \in fetched, ValidatePage(e)
        PROVE  NoBufferLost'
    <3> DEFINE i == PageIndex(e.page)
    <3>1. e.page \in Pages /\ i \in SlotIds /\ e.data # None
      BY CacheAssumption DEF TypeOK
    <3>2. /\ page_refs' = [page_refs EXCEPT ![i] = e.data]
          /\ fetched' = fetched \ {e} /\ wlistcache' = wlistcache
      BY <2>2 DEF ValidatePage, ValidatePageWith
    <3>3. \A p \in Borrowing : PageIndex(p) # i => p \in Borrowing'
      BY <3>2 DEF Borrowing
    <3>. QED  BY <3>1, <3>2, <3>3 DEF NoBufferLost, TypeOK
  <2>3. ASSUME NEW id \in clist, DrainSkipped(id)
        PROVE  NoBufferLost'
    <3>1. chunks[id].page \in Pages /\ PageIndex(chunks[id].page) \in SlotIds
      BY ChunksOK
    <3>2. WaitsFor(chunks[id].page)
      BY <2>3 DEF DrainSkipped, OutputsAccounted
    <3>3. Borrowing = {}
      BY <2>3 DEF DrainSkipped, Draining, Borrowing
    <3>. QED  BY <3>1, <3>2, <3>3 DEF WaitsFor, NoBufferLost
  <2>4. CASE FlushDone
    BY <1>2, <2>4 DEF FlushDone, Return
  <2>. QED  BY <1>2, <1>4, <2>1, <2>2, <2>3, <2>4
            DEF Flush, ReadDirect, ReadFails, DrainValid, Draining
<1>5. CASE Write
  <2>1. CASE WriteCacheValid
    <3>1. Entry.page \in Pages /\ Entry.val \in Vals /\ Entry.val # None
      BY <2>1, EntryOK, CacheAssumption DEF WriteCacheValid, WriteCacheStep, PhaseOK
    <3>2. /\ page_refs' = [page_refs EXCEPT ![PageIndex(Entry.page)] = Entry.val]
          /\ UNCHANGED <<wlistcache, fetched>>
      BY <2>1 DEF WriteCacheValid, WriteCacheStep
    <3>. QED  BY <3>1, <3>2 DEF NoBufferLost, TypeOK, Borrowing
  <2>2. CASE WriteCacheOther
    <3>1. Entry.page \in Pages
      BY <2>2, EntryOK DEF WriteCacheOther, WriteCacheStep, PhaseOK
    <3>2. page_refs' = page_refs
      BY <2>2, <3>1, InvalidTakesNothing DEF WriteCacheOther
    <3>. QED  BY <1>2, <2>2, <3>2 DEF WriteCacheOther, WriteCacheStep
  <2>3. CASE WriteDone
    BY <1>2, <2>3 DEF WriteDone, Return, PhaseOK
  <2>. QED  BY <1>2, <1>5, <2>1, <2>2, <2>3
            DEF Write, WriteCacheUncached, WriteCacheStep, WriteMem, WriteFails
<1>6. ASSUME NEW garbage \in Vals, Clone(garbage)
      PROVE  NoBufferLost'
  <2>1. garbage # None
    BY CacheAssumption
  <2>. QED  BY <1>6, <2>1 DEF Clone, NoBufferLost
<1>. QED
  BY <1>2, <1>3, <1>4, <1>5, <1>6
     DEF Next, StartRead, StartWrite, GuestWrite, Tick, vars

-----------------------------------------------------------------------------
(* The invariants and what follows from them                               *)

CallerInv == CacheInv /\ MineInMemory /\ MineInSlots /\ ReadYourWrites

LEMMA CallerInvInit == Init => CallerInv
BY InitInv DEF Init, CallerInv, MineInMemory, MineInSlots, ReadYourWrites, Live, Writing

LEMMA CallerInvNext == CallerInv /\ [Next]_vars => CallerInv'
BY NextInv, MineStep, ReadYourWritesStep DEF CallerInv, CacheInv

\* A read after a successful write through the cache returns what was
\* written, unless somebody else wrote the page since: whatever the write
\* list holds twice, whatever expires, is cloned or fails in between.
THEOREM PageCacheReadYourWrites == Spec => []ReadYourWrites
<1>1. CallerInv => ReadYourWrites
  BY DEF CallerInv
<1>. QED  BY <1>1, CallerInvInit, CallerInvNext, PTL DEF Spec

OutputsInv == CallerInv /\ OutputsAccounted

LEMMA OutputsInvInit == Init => OutputsInv
BY CallerInvInit DEF OutputsInv, OutputsAccounted, Init

LEMMA OutputsInvNext ==
  ASSUME WindowOpen
  PROVE  OutputsInv /\ [Next]_vars => OutputsInv'
BY CallerInvNext, OutputsStep DEF OutputsInv, CallerInv, CacheInv

LEMMA ListsEmptyOnOk ==
  ASSUME OutputsInv, result = "ok"
  PROVE  /\ phase = "idle" /\ wlist = {} /\ clist = {} /\ Borrowing = {}
         /\ \A id \in DOMAIN chunks : chunks[id].val = None => Lost(chunks[id].page)
BY DEF OutputsInv, CallerInv, CacheInv, OutputsAccounted, PhaseOK, Borrowing

\* With a window that is not empty, phys_read_raw_list returns Ok with an
\* output unfilled only for a page whose slot lost its buffer.
THEOREM PageCacheFills ==
  ASSUME WindowOpen
  PROVE  Spec => []OkFillsUnlessLost
<1>1. OutputsInv => OkFillsUnlessLost
  BY ListsEmptyOnOk DEF OkFillsUnlessLost, Lost, WaitsFor
<1>. QED  BY <1>1, OutputsInvInit, OutputsInvNext, PTL DEF Spec

LEMMA NoBufferLostInit == Init => NoBufferLost
BY CacheAssumption DEF Init, NoBufferLost

LEMMA NoBufferLostNext ==
  ASSUME ~ConnectorFails
  PROVE  OutputsInv /\ NoBufferLost /\ [Next]_vars => NoBufferLost'
BY NoBufferLostStep DEF OutputsInv, CallerInv, CacheInv

LEMMA NothingLost ==
  ASSUME OutputsInv, NoBufferLost
  PROVE  OkFillsAll
<1> SUFFICES ASSUME result = "ok", NEW id \in DOMAIN chunks, chunks[id].val = None
             PROVE  FALSE
  BY DEF OkFillsAll
<1>1. Lost(chunks[id].page) /\ Borrowing = {}
  BY ListsEmptyOnOk
<1>2. PageIndex(chunks[id].page) \in SlotIds
  BY ChunksOK, IndexInSlots DEF OutputsInv, CallerInv, CacheInv
<1>. QED  BY <1>1, <1>2 DEF Lost, WaitsFor, NoBufferLost

\* What the violating run refutes holds as soon as no connector call fails:
\* Ok then means that every output was filled.
THEOREM PageCacheFillsAll ==
  ASSUME WindowOpen, ~ConnectorFails
  PROVE  Spec => []OkFillsAll
<1>1. OutputsInv /\ NoBufferLost => OkFillsAll
  BY NothingLost
<1>. QED
  BY <1>1, OutputsInvInit, OutputsInvNext, NoBufferLostInit, NoBufferLostNext, PTL DEF Spec

-----------------------------------------------------------------------------
(* The cache implements a memory with a window                             *)

LEMMA InitRefines == Init => Window!Init
BY DEF Init, Window!Init, Now

LEMMA StepRefines ==
  ASSUME ~ConnectorFails, OutputsInv, NoBufferLost, OkFillsAll', [Next]_vars
  PROVE  [Window!Next]_(Window!vars)
<1> USE DEF memVars, cacheVars, readVars, writeVars, ghostVars
<1>0. /\ TypeOK /\ PhaseOK /\ SlotsCoherent /\ MineInMemory /\ MineInSlots /\ BoundedStaleness
  BY DEF OutputsInv, CallerInv, CacheInv
<1>a. last \in Nat /\ last <= Now /\ Now \in Nat
  BY <1>0 DEF TypeOK, SlotsCoherent, Now
\* Steps that only move buffers and lists about.
<1>1. ASSUME UNCHANGED <<mem, clock, last, chunks, result, lastHeld, mine>>,
             phase # "idle", phase' # "idle"
      PROVE  UNCHANGED Window!vars
  BY <1>1 DEF Window!vars, Now
<1>2. ASSUME NEW p \in Pages, TakePage(p) = "Valid", phase # "wmem"
      PROVE  /\ Window!Allowed(p, page_refs[PageIndex(p)])
             /\ page_refs[PageIndex(p)] \in Vals
  <2>1. RecentlyHeld(p, page_refs[PageIndex(p)]) /\ page_refs[PageIndex(p)] \in Vals
    BY <1>0, <1>2, HitIsRecent
  <2>2. mine[p] \in {None, page_refs[PageIndex(p)]}
    BY <1>0, <1>2, HitIsMine
  <2>. QED  BY <2>1, <2>2 DEF RecentlyHeld, Window!Allowed, Window!Recent
<1>3. ASSUME NEW p \in Pages PROVE Window!Allowed(p, mem[p])
  BY <1>0 DEF MineInMemory, Window!Allowed, Window!Recent
<1>4. ASSUME BeginOperation, UNCHANGED <<memVars, ghostVars>>,
             \/ phase' # "idle" /\ result' = "none"
             \/ phase' = "idle" /\ result' = "ok"
      PROVE  Window!Begin
  <2>1. last' >= last /\ Now' >= Now
    <3>1. last <= last' /\ last' \in Nat /\ (~Counting => last' = clock)
      BY <1>0, <1>4, <1>a, UpdateMovesForward DEF BeginOperation, TypeOK, Now
    <3>. QED  BY <1>4, <1>0, <3>1, <1>a DEF Now, TypeOK
  <2>. QED  BY <1>4, <2>1 DEF BeginOperation, Window!Begin
<1>5. ASSUME NEW data \in ReadLists, StartRead(data)
      PROVE  Window!Begin
  BY <1>4, <1>5 DEF StartRead
<1>6. ASSUME NEW data \in WriteLists, StartWrite(data)
      PROVE  Window!Begin
  BY <1>4, <1>6 DEF StartWrite
<1>7. ASSUME Scanning, NEW v \in Vals \cup {None}, NewChunk(v),
             v = None \/ Window!Allowed(ScanPage, v)
      PROVE  Window!Ask
  <2>1. ScanPage \in Pages
    BY <1>0, <1>7, ScanPageOK
  <2>2. UNCHANGED <<mem, clock, last, phase, result, lastHeld, mine>> /\ phase # "idle"
    BY <1>7 DEF NewChunk, Scanning
  <2>3. chunks' = Append(chunks, [page |-> ScanPage, val |-> v])
    BY <1>7 DEF NewChunk
  <2>. QED  BY <1>7, <2>1, <2>2, <2>3 DEF Window!Ask, Now
<1>8. CASE Scan
  <2>1. CASE ScanValid
    <3>1. ScanPage \in Pages /\ phase # "wmem"
      BY <1>0, <2>1, ScanPageOK DEF ScanValid, ScanCached, Scanning
    <3>. QED  BY <1>2, <1>7, <2>1, <3>1 DEF ScanValid, ScanCached, Window!Next
  <2>2. CASE ScanValidatable \/ ScanToBeValidated \/ ScanInvalid \/ ScanUncached
    BY <1>7, <2>2 DEF ScanValidatable, ScanToBeValidated, ScanInvalid, ScanUncached,
                      ScanCached, Window!Next
  <2>3. CASE EndRequest
    BY <1>1, <2>3 DEF EndRequest
  <2>. QED  BY <1>8, <2>1, <2>2, <2>3 DEF Scan
<1>9. ASSUME NEW id \in wlist \cup clist, NEW v \in Vals, Window!Allowed(chunks[id].page, v),
             chunks' = [chunks EXCEPT ![id].val = v], phase # "idle",
             UNCHANGED <<mem, clock, last, phase, result, lastHeld, mine>>
      PROVE  Window!Answer
  <2>1. id \in DOMAIN chunks /\ chunks[id].val = None
    BY <1>0, ChunksOK DEF OutputsInv, OutputsAccounted
  <2>. QED  BY <1>9, <2>1 DEF Window!Answer, Now
<1>10. CASE Flush
  <2>1. ASSUME NEW id \in wlist, ReadDirect(id)
        PROVE  Window!Answer
    <3>1. chunks[id].page \in Pages /\ mem[chunks[id].page] \in Vals
      BY <1>0, ChunksOK DEF TypeOK
    <3>. QED  BY <1>3, <1>9, <2>1, <3>1 DEF ReadDirect
  <2>2. ASSUME NEW p \in wlistcache, Fetch(p)
        PROVE  UNCHANGED Window!vars
    BY <1>1, <2>2 DEF Fetch
  <2>3. ASSUME NEW e \in fetched, ValidatePage(e)
        PROVE  UNCHANGED Window!vars
    BY <1>1, <2>3 DEF ValidatePage
  <2>4. ASSUME NEW id \in clist, DrainValid(id)
        PROVE  Window!Answer
    <3>1. chunks[id].page \in Pages
      BY <1>0, ChunksOK
    <3>. QED  BY <1>2, <1>9, <2>4, <3>1 DEF DrainValid, Draining
  <2>5. ASSUME NEW id \in clist, DrainSkipped(id)
        PROVE  UNCHANGED Window!vars
    BY <1>1, <2>5 DEF DrainSkipped, Draining
  <2>6. CASE FlushDone
    <3>1. CASE reqs = <<>>
      <4>1. /\ phase = "flush" /\ phase' = "idle" /\ result' = "ok"
            /\ UNCHANGED <<mem, clock, last, chunks, lastHeld, mine>>
        BY <2>6, <3>1 DEF FlushDone, Return
      <4>2. \A id \in DOMAIN chunks : chunks[id].val # None
        BY <4>1 DEF OkFillsAll
      <4>3. Window!ReturnOk
        BY <4>1, <4>2 DEF Window!ReturnOk, Now
      <4>. QED  BY <4>3 DEF Window!Next
    <3>2. CASE reqs # <<>>
      <4>1. /\ phase = "flush" /\ phase' = "scan"
            /\ UNCHANGED <<mem, clock, last, chunks, result, lastHeld, mine>>
        BY <2>6, <3>2 DEF FlushDone
      <4>. QED  BY <1>1, <4>1
    <3>. QED  BY <3>1, <3>2
  <2>. QED  BY <1>10, <2>1, <2>2, <2>3, <2>4, <2>5, <2>6
            DEF Flush, ReadFails, Window!Next
<1>11. CASE Write
  <2>1. ASSUME WriteCacheStep PROVE Window!Announce
    <3>1. Entry.page \in Pages /\ Entry.val \in Vals
      BY <1>0, <2>1, EntryOK DEF WriteCacheStep, PhaseOK
    <3>2. /\ phase # "idle" /\ phase' # "idle"
          /\ UNCHANGED <<mem, clock, last, chunks, result>>
          /\ lastHeld' = [lastHeld EXCEPT ![Entry.page][Entry.val] = Now]
          /\ mine' = [mine EXCEPT ![Entry.page] = None]
      BY <2>1 DEF WriteCacheStep
    <3>. QED  BY <3>1, <3>2 DEF Window!Announce, Now
  <2>2. CASE WriteMem
    <3> DEFINE known == IF IsCachedPageType(Entry.type) THEN Entry.val ELSE None
    <3>1. Entry.page \in Pages /\ Entry.val \in Vals
      BY <1>0, <2>2, EntryOK DEF WriteMem
    <3>2. /\ phase # "idle"
          /\ UNCHANGED <<clock, last, chunks, result, phase>>
          /\ mem' = [mem EXCEPT ![Entry.page] = Entry.val]
          /\ lastHeld' = [lastHeld EXCEPT ![Entry.page][mem[Entry.page]] = Now]
          /\ mine' = [mine EXCEPT ![Entry.page] = known]
      BY <2>2 DEF WriteMem
    <3>3. Window!Changes(Entry.page, Entry.val, known) /\ known \in {Entry.val, None}
      BY <3>2 DEF Window!Changes, Now
    <3>4. Window!Write
      BY <3>1, <3>2, <3>3 DEF Window!Write
    <3>. QED  BY <3>4 DEF Window!Next
  <2>3. CASE WriteDone
    <3>1. /\ phase = "wmem" /\ phase' = "idle" /\ result' = "ok" /\ chunks = <<>>
          /\ UNCHANGED <<mem, clock, last, chunks, lastHeld, mine>>
      BY <1>0, <2>3 DEF WriteDone, Return, MineInMemory, Writing
    <3>2. Window!ReturnOk
      BY <3>1 DEF Window!ReturnOk, Now
    <3>. QED  BY <3>2 DEF Window!Next
  <2>. QED  BY <1>11, <2>1, <2>2, <2>3
            DEF Write, WriteCacheValid, WriteCacheOther, WriteCacheUncached, WriteFails,
                Window!Next
<1>12. ASSUME NEW garbage \in Vals, Clone(garbage)
       PROVE  Window!Copy
  BY <1>12 DEF Clone, Window!Copy, Now
<1>13. ASSUME NEW p \in GuestPages, NEW v \in Vals, GuestWrite(p, v)
       PROVE  Window!Other
  <2>1. p \in Pages
    BY CacheAssumption
  <2>2. Window!Changes(p, v, None)
    BY <1>13 DEF GuestWrite, Window!Changes, Now
  <2>. QED  BY <2>1, <2>2 DEF Window!Other
<1>14. CASE Tick
  <2>1. Now' > Now
    BY <1>0, <1>14 DEF Tick, Now, TypeOK
  <2>2. Window!TimePasses
    BY <1>14, <2>1 DEF Tick, Window!TimePasses
  <2>. QED  BY <2>2 DEF Window!Next
<1>15. CASE UNCHANGED vars
  BY <1>15 DEF vars, Window!vars, Now
<1>. QED
  BY <1>5, <1>6, <1>8, <1>10, <1>11, <1>12, <1>13, <1>14, <1>15 DEF Next, Window!Next

\* While no connector call fails, every behaviour of the page cache is one of
\* WindowMemory: each step of cached_read and phys_write_raw_list asks,
\* answers, announces, writes or returns as that memory may, or changes
\* nothing a caller sees.
THEOREM PageCacheImplementsWindowMemory ==
  ASSUME WindowOpen, ~ConnectorFails
  PROVE  Spec => ImplementsWindowMemory
<1> DEFINE Inv == OutputsInv /\ NoBufferLost
<1>1. Init => Inv
  BY OutputsInvInit, NoBufferLostInit
<1>2. Inv /\ [Next]_vars => Inv'
  BY OutputsInvNext, NoBufferLostNext
<1>3. Inv => OkFillsAll
  BY NothingLost
<1>4. Inv /\ OkFillsAll' /\ [Next]_vars => [Window!Next]_(Window!vars)
  BY StepRefines
<1>. QED
  BY <1>1, <1>2, <1>3, <1>4, InitRefines, PTL DEF Spec, ImplementsWindowMemory, Window!Spec
=============================================================================

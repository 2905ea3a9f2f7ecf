------------------------------ MODULE PageCache ------------------------------
(***************************************************************************)
(* CachedMemoryAccess and the PageCache it owns: a direct-mapped,          *)
(* time-limited cache of physical pages in front of a connector that may   *)
(* fail, over a memory that the guest (and every clone of the connector)   *)
(* keeps changing.                                                         *)
(*                                                                         *)
(* A page is one datum.  A page buffer is identified with the slot it      *)
(* belongs to: page_refs[i] is the content of slot i's buffer, or None     *)
(* while the buffer is borrowed (or lost).                                 *)
(*                                                                         *)
(* cached_read is modelled step by step: the classification of each chunk, *)
(* every access to the connector's memory, and every error return are      *)
(* steps of their own, and the guest may write between any two of them.    *)
(* The lists wlist, wlistcache and clist are sets, since a connector may   *)
(* serve the elements of a list in any order.                              *)
(***************************************************************************)
EXTENDS Integers, Sequences, FiniteSets, CacheValidator

CONSTANTS
  Pages,          \* numbers of the physical pages
  Slots,          \* cache_entries = cache size / page size
  Vals,           \* contents a page can have
  None,           \* Address::INVALID, an absent buffer, an unfilled output
  Requests,       \* read requests: [page, span, type]; one of an uncached type
                  \* is a single element of wlist and has span 1
  Writes,         \* write requests: [page, type, val]
  PageTypeMask,   \* set of flags, the page types that are cached
  GuestPages,     \* pages somebody else changes
  MaxReads,       \* bound: requests in one read list
  MaxWrites,      \* bound: entries in one write list
  BatchMax,       \* the 64 of cached_read
  MaxTime,        \* bound: instants / operations
  ConnectorFails  \* may phys_read_raw_list / phys_write_raw_list fail?

ASSUME CacheAssumption ==
  /\ Pages \subseteq Nat /\ GuestPages \subseteq Pages
  /\ Slots \in Nat \ {0}
  /\ None \notin Vals /\ None \notin Nat
  /\ MaxTime \in Nat /\ MaxReads \in Nat /\ MaxWrites \in Nat
  /\ CounterMod > MaxTime + ValidFor
  /\ \A r \in Requests :
       /\ r.page \in Pages /\ r.span \in Nat \ {0}
       /\ r.type \subseteq PageTypeMask \/ r.span = 1
       /\ \A k \in 0 .. r.span - 1 : r.page + k \in Pages
  /\ \A w \in Writes : w.page \in Pages /\ w.val \in Vals
  /\ ConnectorFails \in BOOLEAN

SlotIds == 0 .. Slots - 1

VARIABLES
  mem,          \* the connector's memory
  clock,        \* Instant::now()
  address,      \* PageCache.address
  page_refs,    \* PageCache.page_refs
  once,         \* PageCache.address_once_validated
  stamp,        \* the validator's count / time of each slot
  last,         \* the validator's last_count / last_time
  phase,        \* which loop the current operation is in
  reqs,         \* requests of the read not yet scanned
  pos,          \* chunks already scanned of the first of them
  chunks,       \* the chunks scanned so far: their page and output buffer
  wlist,        \* chunks to be read past the cache
  wlistcache,   \* pages whose slot buffer is to be filled
  fetched,      \* those already filled by the connector
  clist,        \* chunks to be copied out of the cache after that
  writes,       \* the list of the current write
  wpos,         \* entries of it already handled in the current loop
  result,       \* what the last operation returned
  lastHeld,     \* history: when a page was last known to have a content
  mine          \* history: content this program knows a page to have

memVars   == <<mem, clock>>
cacheVars == <<address, page_refs, once, stamp>>
readVars  == <<reqs, pos, chunks, wlist, wlistcache, fetched, clist>>
writeVars == <<writes, wpos>>
ghostVars == <<lastHeld, mine>>
vars == <<memVars, cacheVars, last, phase, readVars, writeVars, result, ghostVars>>

-----------------------------------------------------------------------------
(* The page cache                                                          *)

\* page_index
PageIndex(p) == p % Slots

\* is_cached_page_type
IsCachedPageType(type) == type \subseteq PageTypeMask

\* Mutant of TakePage: a hit does not compare the slot's address.
TakePageUntagged(p) ==
  LET i == PageIndex(p) IN
  CASE page_refs[i] # None /\ address[i] # None /\ IsSlotValid(last, stamp[i])
         -> "Valid"
    [] page_refs[i] # None /\ ~(address[i] # None /\ IsSlotValid(last, stamp[i]))
         /\ once[i] \in {p, None}
         -> "Validatable"
    [] page_refs[i] = None /\ once[i] = p
         -> "ToBeValidated"
    [] OTHER
         -> "Invalid"

\* take_page: how the slot of page p answers.  Taking an Invalid page drops
\* the buffer, if there is one.
TakePage(p) ==
  LET i == PageIndex(p) IN
  CASE page_refs[i] # None /\ address[i] = p /\ IsSlotValid(last, stamp[i])
         -> "Valid"
    [] page_refs[i] # None /\ ~(address[i] = p /\ IsSlotValid(last, stamp[i]))
         /\ once[i] \in {p, None}
         -> "Validatable"
    [] page_refs[i] = None /\ once[i] = p
         -> "ToBeValidated"
    [] OTHER
         -> "Invalid"

\* Mutant of MarkPageForValidation: the slot does not remember its page.
MarkNothing(p) == once' = once

\* mark_page_for_validation
MarkPageForValidation(p) == once' = [once EXCEPT ![PageIndex(p)] = p]

\* Mutant of ValidatePageWith: the slot goes on waiting for the page.
ValidateKeepsMark(p, data) ==
  LET i == PageIndex(p) IN
  /\ address'   = [address EXCEPT ![i] = p]
  /\ once'      = once
  /\ stamp'     = [stamp EXCEPT ![i] = last]
  /\ page_refs' = [page_refs EXCEPT ![i] = data]

\* validate_page, put_page included
ValidatePageWith(p, data) ==
  LET i == PageIndex(p) IN
  /\ address'   = [address EXCEPT ![i] = p]
  /\ once'      = [once EXCEPT ![i] = None]
  /\ stamp'     = [stamp EXCEPT ![i] = last]
  /\ page_refs' = [page_refs EXCEPT ![i] = data]

\* The buffer of page p's slot leaves the slot.
BufferTaken(p) == page_refs' = [page_refs EXCEPT ![PageIndex(p)] = None]

-----------------------------------------------------------------------------
(* History                                                                 *)

\* The instant an event happens at: the operation count, or the clock.
Now == IF Counting THEN last ELSE clock

Chunk == [page : Pages, val : Vals \cup {None}]

-----------------------------------------------------------------------------
Init ==
  /\ mem \in [Pages -> Vals]
  /\ clock = 0
  /\ address   = [i \in SlotIds |-> None]
  /\ \E zero \in Vals : page_refs = [i \in SlotIds |-> zero]
  /\ once      = [i \in SlotIds |-> None]
  /\ stamp     = [i \in SlotIds |-> AllocatedStamp(0)]
  /\ last = 0
  /\ phase = "idle"
  /\ reqs = <<>> /\ pos = 0 /\ chunks = <<>>
  /\ wlist = {} /\ wlistcache = {} /\ fetched = {} /\ clist = {}
  /\ writes = <<>> /\ wpos = 0
  /\ result = "none"
  /\ lastHeld  = [p \in Pages |-> [v \in Vals |-> None]]
  /\ mine      = [p \in Pages |-> None]

\* Every operation begins with validator.update_validity().
BeginOperation ==
  /\ phase = "idle"
  /\ Counting => last < MaxTime
  /\ last' = UpdateValidity(last, clock)
  /\ chunks' = <<>>

\* Both error and normal return drop whatever the lists still hold.
Return(r) ==
  /\ phase' = "idle"
  /\ result' = r
  /\ reqs' = <<>> /\ pos' = 0
  /\ wlist' = {} /\ wlistcache' = {} /\ fetched' = {} /\ clist' = {}
  /\ writes' = <<>> /\ wpos' = 0

-----------------------------------------------------------------------------
(* phys_read_raw_list: update_validity, then cached_read                   *)

ReadLists == UNION {[1 .. n -> Requests] : n \in 0 .. MaxReads}

StartRead(data) ==
  /\ BeginOperation
  /\ IF data = <<>> THEN phase' = "idle" /\ result' = "ok"
                    ELSE phase' = "scan" /\ result' = "none"
  /\ reqs' = data /\ pos' = 0
  /\ UNCHANGED <<memVars, cacheVars, wlist, wlistcache, fetched, clist,
                 writeVars, ghostVars>>

\* The chunk the scan loop looks at.
Scanning == phase = "scan" /\ pos < Head(reqs).span
ScanPage == Head(reqs).page + pos

ScanId   == Len(chunks) + 1
NewChunk(val) ==
  /\ chunks' = Append(chunks, [page |-> ScanPage, val |-> val])
  /\ pos' = pos + 1
  /\ UNCHANGED <<memVars, address, stamp, last, phase, reqs, fetched,
                 writeVars, result, ghostVars>>
ScanCached(validity) ==
  /\ Scanning
  /\ IsCachedPageType(Head(reqs).type)
  /\ TakePage(ScanPage) = validity

\* The page is valid: copy it out and put the buffer back.
ScanValid ==
  /\ ScanCached("Valid")
  /\ NewChunk(page_refs[PageIndex(ScanPage)])
  /\ UNCHANGED <<page_refs, once, wlist, wlistcache, clist>>

\* The slot can be refilled: its buffer goes to wlistcache.
ScanValidatable ==
  /\ ScanCached("Validatable")
  /\ NewChunk(None)
  /\ clist' = clist \cup {ScanId}
  /\ wlistcache' = wlistcache \cup {ScanPage}
  /\ BufferTaken(ScanPage)
  /\ MarkPageForValidation(ScanPage)
  /\ UNCHANGED wlist

\* Mutant of ScanToBeValidated: the chunk is not put on clist.
ScanForgotten ==
  /\ ScanCached("ToBeValidated")
  /\ NewChunk(None)
  /\ UNCHANGED <<page_refs, once, wlist, wlistcache, clist>>

\* The slot is waiting for this very page.
ScanToBeValidated ==
  /\ ScanCached("ToBeValidated")
  /\ NewChunk(None)
  /\ clist' = clist \cup {ScanId}
  /\ UNCHANGED <<page_refs, once, wlist, wlistcache>>

\* The slot is taken by another page: read past the cache.
ScanInvalid ==
  /\ ScanCached("Invalid")
  /\ NewChunk(None)
  /\ wlist' = wlist \cup {ScanId}
  /\ BufferTaken(ScanPage)
  /\ UNCHANGED <<once, wlistcache, clist>>

\* A page type that is not cached: the request goes to wlist as it is.
ScanUncached ==
  /\ Scanning
  /\ ~IsCachedPageType(Head(reqs).type)
  /\ NewChunk(None)
  /\ wlist' = wlist \cup {ScanId}
  /\ UNCHANGED <<page_refs, once, wlistcache, clist>>

\* The request is scanned: flush if it was the last or a list is full.
MustFlush ==
  \/ Len(reqs) = 1
  \/ Cardinality(wlist) >= BatchMax
  \/ Cardinality(wlistcache) >= BatchMax
  \/ Cardinality(clist) >= BatchMax

EndRequest ==
  /\ phase = "scan" /\ pos = Head(reqs).span
  /\ reqs' = Tail(reqs) /\ pos' = 0
  /\ phase' = IF MustFlush THEN "flush" ELSE "scan"
  /\ UNCHANGED <<memVars, cacheVars, last, chunks, wlist, wlistcache, fetched,
                 clist, writeVars, result, ghostVars>>

\* mem.phys_read_raw_list(&mut wlist): one element of it.
ReadDirect(id) ==
  /\ phase = "flush" /\ id \in wlist
  /\ chunks' = [chunks EXCEPT ![id].val = mem[chunks[id].page]]
  /\ wlist' = wlist \ {id}
  /\ UNCHANGED <<memVars, cacheVars, last, phase, reqs, pos, wlistcache, fetched,
                 clist, writeVars, result, ghostVars>>

\* mem.phys_read_raw_list(&mut wlistcache): one element of it.
Fetch(p) ==
  /\ phase = "flush" /\ wlist = {} /\ p \in wlistcache
  /\ wlistcache' = wlistcache \ {p}
  /\ fetched' = fetched \cup {[page |-> p, data |-> mem[p]]}
  /\ UNCHANGED <<memVars, cacheVars, last, phase, reqs, pos, chunks, wlist, clist,
                 writeVars, result, ghostVars>>

\* Either call fails: `?` leaves cached_read, and the buffers that wlistcache
\* borrowed from their slots go out of scope with it.
ReadFails ==
  /\ ConnectorFails
  /\ phase = "flush" /\ (wlist # {} \/ wlistcache # {})
  /\ Return("err")
  /\ UNCHANGED <<memVars, cacheVars, last, chunks, ghostVars>>

\* The filled buffers return to their slots.
ValidatePage(e) ==
  /\ phase = "flush" /\ wlist = {} /\ wlistcache = {} /\ e \in fetched
  /\ ValidatePageWith(e.page, e.data)
  /\ fetched' = fetched \ {e}
  /\ UNCHANGED <<memVars, last, phase, reqs, pos, chunks, wlist, wlistcache,
                 clist, writeVars, result, ghostVars>>

\* Mutant of Draining: the chunk is looked at but not popped.
DrainingPeeks(id) ==
  /\ phase = "flush" /\ wlist = {} /\ wlistcache = {} /\ fetched = {}
  /\ id \in clist
  /\ UNCHANGED <<memVars, address, once, stamp, last, phase, reqs, pos, wlist,
                 wlistcache, fetched, clist, writeVars, result, ghostVars>>

\* clist.pop(): copy the chunk out of the cache.
Draining(id) ==
  /\ phase = "flush" /\ wlist = {} /\ wlistcache = {} /\ fetched = {}
  /\ id \in clist
  /\ clist' = clist \ {id}
  /\ UNCHANGED <<memVars, address, once, stamp, last, phase, reqs, pos, wlist,
                 wlistcache, fetched, writeVars, result, ghostVars>>

DrainValid(id) ==
  /\ Draining(id)
  /\ TakePage(chunks[id].page) = "Valid"
  /\ chunks' = [chunks EXCEPT ![id].val = page_refs[PageIndex(chunks[id].page)]]
  /\ UNCHANGED page_refs

\* Not Valid: the chunk is skipped, and a buffer that was taken is dropped.
DrainSkipped(id) ==
  /\ Draining(id)
  /\ TakePage(chunks[id].page) # "Valid"
  /\ BufferTaken(chunks[id].page)
  /\ UNCHANGED chunks

FlushDone ==
  /\ phase = "flush"
  /\ wlist = {} /\ wlistcache = {} /\ fetched = {} /\ clist = {}
  /\ IF reqs = <<>>
       THEN Return("ok") /\ UNCHANGED <<chunks, last>>
       ELSE /\ phase' = "scan"
            /\ UNCHANGED <<readVars, last, writeVars, result>>
  /\ UNCHANGED <<memVars, cacheVars, ghostVars>>

-----------------------------------------------------------------------------
(* phys_write_raw_list                                                     *)

WriteLists == UNION {[1 .. n -> Writes] : n \in 0 .. MaxWrites}

StartWrite(data) ==
  /\ BeginOperation
  /\ phase' = IF data = <<>> THEN "wmem" ELSE "wcache"
  /\ result' = "none"
  /\ writes' = data /\ wpos' = 0
  /\ UNCHANGED <<memVars, cacheVars, reqs, pos, wlist, wlistcache, fetched,
                 clist, ghostVars>>

Entry == writes[wpos + 1]

\* One chunk of the for_each that brings the cache up to date.
WriteCacheStep ==
  /\ phase = "wcache"
  /\ wpos' = IF wpos + 1 = Len(writes) THEN 0 ELSE wpos + 1
  /\ phase' = IF wpos + 1 = Len(writes) THEN "wmem" ELSE "wcache"
  /\ lastHeld' = [lastHeld EXCEPT ![Entry.page][Entry.val] = Now]
  /\ mine' = [mine EXCEPT ![Entry.page] = None]
  /\ UNCHANGED <<memVars, address, once, stamp, last, readVars, writes, result>>

\* Mutant of WriteCacheValid: the write does not reach a valid slot.
WriteSkipsCache ==
  /\ WriteCacheStep
  /\ IsCachedPageType(Entry.type) /\ TakePage(Entry.page) = "Valid"
  /\ UNCHANGED page_refs

WriteCacheValid ==
  /\ WriteCacheStep
  /\ IsCachedPageType(Entry.type) /\ TakePage(Entry.page) = "Valid"
  /\ page_refs' = [page_refs EXCEPT ![PageIndex(Entry.page)] = Entry.val]

\* put_entry puts a Validatable buffer back, but an Invalid page has lost its.
WriteCacheOther ==
  /\ WriteCacheStep
  /\ IsCachedPageType(Entry.type) /\ TakePage(Entry.page) # "Valid"
  /\ IF TakePage(Entry.page) = "Invalid" THEN BufferTaken(Entry.page)
                                        ELSE UNCHANGED page_refs

WriteCacheUncached ==
  /\ WriteCacheStep
  /\ ~IsCachedPageType(Entry.type)
  /\ UNCHANGED page_refs

\* mem.phys_write_raw_list(data): one element of it.
WriteMem ==
  /\ phase = "wmem" /\ wpos < Len(writes)
  /\ mem' = [mem EXCEPT ![Entry.page] = Entry.val]
  /\ lastHeld' = [lastHeld EXCEPT ![Entry.page][mem[Entry.page]] = Now]
  /\ mine' = [mine EXCEPT ![Entry.page] =
                IF IsCachedPageType(Entry.type) THEN Entry.val ELSE None]
  /\ wpos' = wpos + 1
  /\ UNCHANGED <<clock, cacheVars, last, phase, readVars, writes, result>>

WriteFails ==
  /\ ConnectorFails
  /\ phase = "wmem" /\ wpos < Len(writes)
  /\ Return("err")
  /\ mine' = [p \in Pages |->
                IF \E k \in DOMAIN writes : writes[k].page = p THEN None ELSE mine[p]]
  /\ UNCHANGED <<memVars, cacheVars, last, chunks, lastHeld>>

WriteDone ==
  /\ phase = "wmem" /\ wpos = Len(writes)
  /\ Return("ok")
  /\ UNCHANGED <<memVars, cacheVars, last, chunks, ghostVars>>

-----------------------------------------------------------------------------
(* Clone: work goes on with the clone.  The validator is copied, the slots *)
(* forget their addresses, and every slot has a buffer again.              *)

Clone(garbage) ==
  /\ phase = "idle"
  /\ address' = [i \in SlotIds |-> None]
  /\ once'    = [i \in SlotIds |-> None]
  /\ page_refs' = [i \in SlotIds |->
                     IF page_refs[i] = None THEN garbage ELSE page_refs[i]]
  /\ chunks' = <<>> /\ result' = "none"
  /\ UNCHANGED <<memVars, stamp, last, phase, reqs, pos, wlist, wlistcache,
                 fetched, clist, writeVars, ghostVars>>

-----------------------------------------------------------------------------
(* The environment                                                         *)

\* The guest, a device or another handle of the connector changes a page.
GuestWrite(p, v) ==
  /\ v # mem[p]
  /\ mem' = [mem EXCEPT ![p] = v]
  /\ lastHeld' = [lastHeld EXCEPT ![p][mem[p]] = Now]
  /\ mine' = [mine EXCEPT ![p] = None]
  /\ UNCHANGED <<clock, cacheVars, last, phase, readVars, writeVars, result>>

Tick ==
  /\ ~Counting /\ clock < MaxTime
  /\ clock' = clock + 1
  /\ UNCHANGED <<mem, cacheVars, last, phase, readVars, writeVars, result, ghostVars>>

-----------------------------------------------------------------------------
Scan ==
  \/ ScanValid \/ ScanValidatable \/ ScanToBeValidated \/ ScanInvalid
  \/ ScanUncached \/ EndRequest

Flush ==
  \/ \E id \in wlist : ReadDirect(id)
  \/ \E p \in wlistcache : Fetch(p)
  \/ ReadFails
  \/ \E e \in fetched : ValidatePage(e)
  \/ \E id \in clist : DrainValid(id)
  \/ \E id \in clist : DrainSkipped(id)
  \/ FlushDone

Write ==
  \/ WriteCacheValid \/ WriteCacheOther \/ WriteCacheUncached
  \/ WriteMem \/ WriteFails \/ WriteDone

Next ==
  \/ \E data \in ReadLists : StartRead(data)
  \/ \E data \in WriteLists : StartWrite(data)
  \/ Scan \/ Flush \/ Write
  \/ \E garbage \in Vals : Clone(garbage)
  \/ \E p \in GuestPages, v \in Vals : GuestWrite(p, v)
  \/ Tick

Spec == Init /\ [][Next]_vars

\* An operation that has begun keeps running: the loops of cached_read and
\* phys_write_raw_list never wait, and a connector call returns.
FairSpec == Spec /\ WF_vars(Scan \/ Flush \/ Write)

-----------------------------------------------------------------------------
\* Types, with the part that is not obvious: the lists only name chunks that
\* exist, and the write loops stay within the list they were given.
TypeOK ==
  /\ mem \in [Pages -> Vals]
  /\ clock \in Nat
  /\ address \in [SlotIds -> Pages \cup {None}]
  /\ page_refs \in [SlotIds -> Vals \cup {None}]
  /\ once \in [SlotIds -> Pages \cup {None}]
  /\ stamp \in [SlotIds -> Stamps]
  /\ last \in Nat /\ (Counting => last <= MaxTime)
  /\ phase \in {"idle", "scan", "flush", "wcache", "wmem"}
  /\ reqs \in Seq(Requests) /\ pos \in Nat
  /\ chunks \in Seq(Chunk)
  /\ wlist \subseteq 1 .. Len(chunks) /\ clist \subseteq 1 .. Len(chunks)
  /\ wlistcache \subseteq Pages
  /\ fetched \subseteq [page : Pages, data : Vals]
  /\ writes \in Seq(Writes) /\ wpos \in 0 .. Len(writes)
  /\ result \in {"none", "ok", "err"}
  /\ lastHeld \in [Pages -> [Vals -> Nat \cup {None}]]
  /\ mine \in [Pages -> Vals \cup {None}]

\* Where the pages of wlistcache's buffers stand.
Borrowing == wlistcache \cup {e.page : e \in fetched}

\* A slot's buffer is either in the slot or borrowed by exactly the page the
\* slot waits for: two pages of one batch never fill the same buffer, and the
\* debug_assert of put_page holds whenever a page is validated.
BufferOwnership ==
  /\ \A p \in Borrowing :
       page_refs[PageIndex(p)] = None /\ once[PageIndex(p)] = p
  /\ \A e, f \in fetched : PageIndex(e.page) = PageIndex(f.page) => e = f
  /\ \A e \in fetched : e.page \notin wlistcache

\* take_page's Invalid arm for a slot that still has its buffer, which would
\* throw the buffer away, is never taken.
InvalidHoldsNoBuffer ==
  \A p \in Pages : TakePage(p) = "Invalid" => page_refs[PageIndex(p)] = None

\* How old a value may be that an operation at `last` hands out.
Tolerance == IF ~Counting THEN ValidFor ELSE IF ValidFor = 0 THEN 0 ELSE ValidFor - 1

RecentlyHeld(p, v) ==
  \/ mem[p] = v
  \/ lastHeld[p][v] # None /\ lastHeld[p][v] + Tolerance >= last

\* Whatever a read returns for a page was the page's content, or was handed
\* to phys_write_raw_list for it, within the validator's window before the
\* read began, whatever the guest and the connector do in between.
BoundedStaleness ==
  \A id \in DOMAIN chunks :
    chunks[id].val # None => RecentlyHeld(chunks[id].page, chunks[id].val)

\* A read after a successful write of a cached page type returns what was
\* written, unless somebody else wrote the page since.
ReadYourWrites ==
  \A id \in DOMAIN chunks :
    chunks[id].val # None /\ mine[chunks[id].page] # None
      => chunks[id].val = mine[chunks[id].page]

\* phys_read_raw_list returns Ok only after it filled every output buffer.
OkFillsAll ==
  result = "ok" => \A id \in DOMAIN chunks : chunks[id].val # None

\* An Ok with an unfilled output can only come from a slot that lost its
\* buffer while it waited for that very page.
OkFillsUnlessLost ==
  result = "ok" =>
    \A id \in DOMAIN chunks :
      chunks[id].val = None =>
        LET i == PageIndex(chunks[id].page) IN
        page_refs[i] = None /\ once[i] = chunks[id].page

\* The promise of CachedMemoryAccess, with everything about slots and lists
\* left out.
Window ==
  INSTANCE WindowMemory WITH Window <- Tolerance, now <- Now, began <- last,
                             busy <- phase # "idle", answers <- chunks

\* While no connector call fails, CachedMemoryAccess is a memory whose answers
\* are at most a window old, step by step: an output once filled is not
\* touched again, Ok means that all are filled, memory changes one page at a
\* time, and the caller's own writes are never read back older than they are.
ImplementsWindowMemory == Window!Spec

-----------------------------------------------------------------------------
(* The inductive invariant that PageCacheProofs uses.                      *)

\* What each loop may assume of the lists.
PhaseOK ==
  /\ phase = "scan" => reqs # <<>> /\ pos <= Head(reqs).span /\ fetched = {}
  /\ phase \notin {"scan", "flush"} =>
       wlist = {} /\ wlistcache = {} /\ fetched = {} /\ clist = {}
  /\ phase = "flush" => pos = 0
  /\ phase = "wcache" => wpos < Len(writes)

\* A slot that has its buffer waits for no page.
SlotsAtRest == \A i \in SlotIds : page_refs[i] # None => once[i] = None

HeldSince(p, v, t) ==
  \/ mem[p] = v
  \/ lastHeld[p][v] # None /\ lastHeld[p][v] >= t

\* What a slot says it holds, it held at its stamp or later; and so for the
\* buffers the connector has just filled.
SlotsCoherent ==
  /\ last <= Now
  /\ \A i \in SlotIds :
       address[i] # None =>
         /\ PageIndex(address[i]) = i
         /\ stamp[i] \in 0 .. last
         /\ page_refs[i] # None => HeldSince(address[i], page_refs[i], stamp[i])
  /\ \A e \in fetched : HeldSince(e.page, e.data, last)

CacheInv ==
  /\ TypeOK /\ PhaseOK /\ SlotsAtRest /\ BufferOwnership
  /\ SlotsCoherent /\ BoundedStaleness

\* Every operation returns.
OperationsReturn == phase # "idle" ~> phase = "idle"
=============================================================================

------------------------------ MODULE Win32Lists ------------------------------
(***************************************************************************)
(* The process and module lists of a Windows guest, as memflow-win32 reads *)
(* them (win32/kernel.rs, win32/process.rs, win32/unicode_string.rs) while *)
(* the guest goes on linking and unlinking entries.                        *)
(*                                                                         *)
(* A process is its _EPROCESS; PsActiveProcessHead is a node of the same   *)
(* circular list that is no process.  Every process has a native module    *)
(* list, and a second one if it runs under WoW64; the head of a list is a  *)
(* node of it as well.  The client reads one link at a time, so the guest  *)
(* may move between any two of its steps.  A read of memory that does not  *)
(* translate returns 0 (map_data of memflow); only an error of the         *)
(* connector is an error of the read.                                      *)
(***************************************************************************)
EXTENDS Integers, Sequences, FiniteSets, SequencesExt

CONSTANTS
  Procs,          \* the _EPROCESS blocks the guest may use
  Sys,            \* the System process, kernel_info.eprocess_base
  ActiveHead,     \* PsActiveProcessHead
  Exe, Dlls,      \* entries of a native module list: the executable's, others
  LdrHead,        \* the head of the native list, in PEB_LDR_DATA
  WowHead, WowEntry, \* the head and the only entry of a WoW64 list
  FullName,       \* [Procs -> names], BaseDllName of a process's executable
  DllName,        \* [Dlls \cup {WowEntry} -> names]
  Wow64,          \* the processes that run under WoW64
  HasTeb,         \* kernel_winver >= (6, 2), without which no TEB is read
  Null,
  MaxIter,        \* MAX_ITER_COUNT
  MaxGuest,       \* bound: steps the guest takes
  MaxOps,         \* bound: operations the client starts
  Queries,        \* the names a client asks for
  ConnectorFails  \* whether a read may fail

(* A name is [short, rest, upper]: the 14 bytes that _EPROCESS keeps of it, *)
(* what follows them, and whether it is spelt with capitals.                *)
ASSUME ListAssumption ==
  /\ IsFiniteSet(Procs) /\ Sys \in Procs /\ Wow64 \subseteq Procs \ {Sys}
  /\ ActiveHead \notin Procs /\ Null \notin Procs \cup {ActiveHead}
  /\ Exe \notin Dlls /\ Null \notin Dlls \cup {Exe, LdrHead, WowHead, WowEntry}
  /\ LdrHead \notin Dlls \cup {Exe, WowHead, WowEntry}
  /\ WowHead \notin Dlls \cup {Exe, WowEntry} /\ WowEntry \notin Dlls \cup {Exe}
  /\ MaxIter \in Nat \ {0} /\ MaxGuest \in Nat /\ MaxOps \in Nat

ProcNodes == Procs \cup {ActiveHead}
NativeEntries == Dlls \cup {Exe}
ModNodes == NativeEntries \cup {LdrHead, WowHead, WowEntry}

VARIABLES
  flink, blink,   \* guest: _LIST_ENTRY of each process node
  linked,         \* guest: the processes in the list
  mlink,          \* guest: [Procs -> flink of the nodes of its module lists]
  mlinked,        \* guest: [Procs -> the entries of its native list, in its order]
  guestSteps,
  call,             \* client: the operation under way, with its locals
  held,           \* client: the Win32ProcessInfo it got last, or Null
  ops,            \* client: operations started
  ghost           \* what a walk is measured against

listVars == <<flink, blink, linked, mlink, mlinked, guestSteps, call, held, ops, ghost>>
clientVars == <<call, held, ops>>
guestVars == <<flink, blink, linked, mlink, mlinked, guestSteps>>

----------------------------------------------------------------------------
(* The guest (external): what it may do to its lists between two reads.    *)

(* The entries of an address space in which nothing is mapped, and of one in *)
(* which only the executable is.                                             *)
NoModules == [n \in ModNodes |-> Null]

OnlyExe == [NoModules EXCEPT ![LdrHead] = Exe, ![Exe] = LdrHead,
                             ![WowHead] = WowEntry, ![WowEntry] = WowHead]

(* The ghost follows every change: which processes were linked all the time *)
(* since the walk began, which at some time, and whether a block the walk   *)
(* could stand on was given back or used again.                             *)
Observe(now, touched) ==
  ghost' = [ghost EXCEPT !.always = @ \cap now,
                         !.ever = @ \cup now,
                         !.disturbed = @ \/ touched]

GuestStep ==
  /\ guestSteps < MaxGuest
  /\ guestSteps' = guestSteps + 1
  /\ UNCHANGED clientVars

(* InsertTailList: a new process, whose block may have been one before. *)
CreateProcess(p) ==
  /\ GuestStep
  /\ p \notin linked
  /\ linked' = linked \cup {p}
  /\ flink' = [flink EXCEPT ![blink[ActiveHead]] = p, ![p] = ActiveHead]
  /\ blink' = [blink EXCEPT ![ActiveHead] = p, ![p] = blink[ActiveHead]]
  /\ mlinked' = [mlinked EXCEPT ![p] = <<Exe>>]
  /\ mlink' = [mlink EXCEPT ![p] = OnlyExe]
  /\ Observe(linked \cup {p}, p \in ghost.ever)

(* RemoveEntryList: the neighbours are joined, the block keeps its links. *)
ExitProcess(p) ==
  /\ GuestStep
  /\ p \in linked \ {Sys}
  /\ linked' = linked \ {p}
  /\ flink' = [flink EXCEPT ![blink[p]] = flink[p]]
  /\ blink' = [blink EXCEPT ![flink[p]] = blink[p]]
  /\ Observe(linked \ {p}, FALSE)
  /\ UNCHANGED <<mlink, mlinked>>

(* The memory of a process that is gone is unmapped and reads as zeros. *)
ReclaimProcess(p) ==
  /\ GuestStep
  /\ p \notin linked /\ flink[p] # Null
  /\ flink' = [flink EXCEPT ![p] = Null]
  /\ blink' = [blink EXCEPT ![p] = Null]
  /\ mlink' = [mlink EXCEPT ![p] = NoModules]
  /\ mlinked' = [mlinked EXCEPT ![p] = <<>>]
  /\ Observe(linked, p \in ghost.ever)
  /\ UNCHANGED linked

(* A library is loaded: its entry becomes the last of the native list. *)
LoadModule(p, e) ==
  LET s == mlinked[p]
      last == IF s = <<>> THEN LdrHead ELSE s[Len(s)]
  IN  /\ GuestStep
      /\ p \in linked /\ e \notin ToSet(s)
      /\ mlinked' = [mlinked EXCEPT ![p] = Append(s, e)]
      /\ mlink' = [mlink EXCEPT ![p] = [@ EXCEPT ![last] = e, ![e] = LdrHead]]
      /\ UNCHANGED <<flink, blink, linked, ghost>>

(* A library is unloaded, or a process takes its own entry off the list. *)
UnloadModule(p, i) ==
  LET s == mlinked[p]
      before == IF i = 1 THEN LdrHead ELSE s[i - 1]
  IN  /\ GuestStep
      /\ i \in DOMAIN s
      /\ mlinked' = [mlinked EXCEPT ![p] = RemoveAt(s, i)]
      /\ mlink' = [mlink EXCEPT ![p] = [@ EXCEPT ![before] = mlink[p][s[i]]]]
      /\ ghost' = [ghost EXCEPT !.unloaded = @ \cup {<<p, s[i]>>}]
      /\ UNCHANGED <<flink, blink, linked>>

----------------------------------------------------------------------------
(* Operations of the client. *)

Idle == [kind |-> "none", arg |-> Null, pc |-> "done", result |-> "none",
         cur |-> Null, next |-> Null, eprocs |-> <<>>, infos |-> <<>>,
         todo |-> <<>>, info |-> Null, bases |-> <<>>, entries |-> <<>>,
         modules |-> <<>>]

Begin(kind) ==
  /\ call.pc = "done" /\ ops < MaxOps
  /\ ops' = ops + 1
  /\ ghost' = [ghost EXCEPT !.always = linked, !.ever = linked,
                            !.disturbed = FALSE, !.failed = FALSE,
                            !.loaded = IF kind = "module_list"
                                       THEN ToSet(mlinked[held.proc]) ELSE {}]

Return(result) ==
  call' = [call EXCEPT !.pc = "done", !.result = result, !.cur = Null, !.next = Null,
                   !.todo = <<>>, !.info = Null, !.bases = <<>>]

ReadFails ==
  /\ ConnectorFails
  /\ ghost' = [ghost EXCEPT !.failed = TRUE]

(* eprocess_list_extend begins at the System process. *)
BeginEprocessList(kind, arg) ==
  /\ Begin(kind)
  /\ call' = [Idle EXCEPT !.kind = kind, !.arg = arg, !.pc = "flink", !.cur = Sys]
  /\ UNCHANGED <<held, guestVars>>

EprocessList == BeginEprocessList("eprocess_list", Null)
ProcessInfoList == BeginEprocessList("process_info_list", Null)
ProcessInfoByName(name) == BeginEprocessList("process_info", name)
ProcessInfoByPid(p) == p # Sys /\ BeginEprocessList("process_info_pid", p)

(* The flink of the entry, then its blink; a failed read ends the operation. *)
ReadFlink ==
  /\ call.pc = "flink"
  /\ \/ /\ call' = [call EXCEPT !.next = flink[call.cur], !.pc = "blink"]
        /\ UNCHANGED ghost
     \/ ReadFails /\ Return("err")
  /\ UNCHANGED <<held, ops, guestVars>>

\* Mutant of ListEnds: the walk ends at the head, which it never meets
ListEndsAtHead(back) == call.next \in {Null, call.cur, ActiveHead} \/ back = Null

ListEnds(back) == call.next = Null \/ back = Null \/ call.next \in {Sys, call.cur}

ListWalked(eprocs) ==
  call' = [call EXCEPT !.eprocs = eprocs, !.cur = Null, !.next = Null, !.todo = eprocs,
           !.pc = IF call.kind = "eprocess_list" THEN "done" ELSE "infos",
           !.result = IF call.kind = "eprocess_list" THEN "ok" ELSE "none"]

ReadBlink ==
  LET eprocs == Append(call.eprocs, call.cur)
  IN  /\ call.pc = "blink"
      /\ \/ /\ IF ListEnds(blink[call.cur]) THEN ListWalked(call.eprocs)
              ELSE IF Len(eprocs) = MaxIter THEN ListWalked(eprocs)
              ELSE call' = [call EXCEPT !.eprocs = eprocs, !.cur = call.next,
                                    !.next = Null, !.pc = "flink"]
            /\ UNCHANGED ghost
         \/ ReadFails /\ Return("err")
      /\ UNCHANGED <<held, ops, guestVars>>

----------------------------------------------------------------------------
(* process_info_from_eprocess.  The System process has no PEB, and a block  *)
(* that is gone has none any more.  The WoW64 list is found through the TEB *)
(* of the first thread, which is read since 6.2 only.                       *)

HasPeb(p) == p # Sys /\ flink[p] # Null

(* with_peb reads the first entry of a list and keeps it as the list's base. *)
WithPeb(p, head) == mlink[p][head]

Bases(p) == <<WithPeb(p, LdrHead)>>
            \o (IF p \in Wow64 /\ HasTeb THEN <<WithPeb(p, WowHead)>> ELSE <<>>)

InfoOf(p) == [proc |-> p, bases |-> Bases(p)]

(* process_info_list_extend skips the processes whose information fails. *)
ReadInfo ==
  /\ call.pc = "infos" /\ call.todo # <<>>
  /\ LET p == Head(call.todo)
     IN  \/ /\ HasPeb(p)
           /\ call' = [call EXCEPT !.todo = Tail(@), !.infos = Append(@, InfoOf(p))]
           /\ UNCHANGED ghost
        \/ /\ \/ ~HasPeb(p) /\ UNCHANGED ghost
              \/ HasPeb(p) /\ ReadFails
           /\ call' = [call EXCEPT !.todo = Tail(@)]
  /\ UNCHANGED <<held, ops, guestVars>>

\* Mutant of Candidate: the whole name is compared with the one that was cut
CandidateUncut(info, name) == FullName[info.proc].short = name.short /\ name.rest = ""

(* The name is cut to the length _EPROCESS keeps, and case does not matter. *)
Candidate(info, name) == FullName[info.proc].short = name.short

InfosRead ==
  /\ call.pc = "infos" /\ call.todo = <<>>
  /\ \/ call.kind = "process_info_list" /\ Return("ok") /\ UNCHANGED held
     \/ /\ call.kind = "process_info_pid"
        /\ \A i \in DOMAIN call.infos : call.infos[i].proc # call.arg
        /\ Return("err") /\ UNCHANGED held
     \/ /\ call.kind = "process_info_pid"
        /\ \E i \in DOMAIN call.infos :
             /\ call.infos[i].proc = call.arg
             /\ \A j \in 1 .. i - 1 : call.infos[j].proc # call.arg
             /\ held' = call.infos[i]
        /\ Return("ok")
     \/ /\ call.kind = "process_info"
        /\ call' = [call EXCEPT !.todo = call.infos, !.pc = "probe"]
        /\ UNCHANGED held
  /\ UNCHANGED <<ops, ghost, guestVars>>

(* kernel_process_info: the kernel image is read whole and PsLoadedModuleList *)
(* looked up in it; its modules stand under the System process here.          *)
KernelProcessInfo ==
  /\ Begin("kernel_process_info")
  /\ \/ /\ call' = [Idle EXCEPT !.kind = "kernel_process_info", !.result = "ok"]
        /\ held' = [proc |-> Sys, bases |-> <<mlink[Sys][LdrHead]>>]
     \/ /\ call' = [Idle EXCEPT !.kind = "kernel_process_info", !.result = "err"]
        /\ UNCHANGED held
  /\ UNCHANGED guestVars

----------------------------------------------------------------------------
(* module_list_with_infos_extend: every list of the process, entry by entry. *)

WalkModules(o, info) ==
  [o EXCEPT !.info = info, !.bases = info.bases, !.cur = info.bases[1],
            !.entries = <<>>, !.modules = <<>>, !.pc = "entry"]

(* module_list and module_info of a process the client found before. *)
BeginModules(kind, arg) ==
  /\ held # Null
  /\ Begin(kind)
  /\ call' = WalkModules([Idle EXCEPT !.kind = kind, !.arg = arg], held)
  /\ UNCHANGED <<held, guestVars>>

ModuleList == BeginModules("module_list", Null)
ModuleInfo(name) == BeginModules("module_info", name)

(* process_info inspects its candidates one after the other. *)
Probe ==
  /\ call.pc = "probe"
  /\ \/ call.todo = <<>> /\ Return("err")
     \/ /\ call.todo # <<>>
        /\ LET info == Head(call.todo)
               rest == [call EXCEPT !.todo = Tail(@)]
           IN  call' = IF Candidate(info, call.arg) THEN WalkModules(rest, info) ELSE rest
  /\ UNCHANGED <<held, ops, ghost, guestVars>>

\* Mutant of EntriesEnd: the list is taken to end with a null link
EntriesEndNull(next) == next = Null

EntriesEnd(next) == next = Null \/ next = Head(call.bases)

(* module_entry_list: the entry is taken before its link is read. *)
ReadEntryLink ==
  LET next == mlink[call.info.proc][call.cur]
      entries == Append(call.entries, call.cur)
  IN  /\ call.pc = "entry"
      /\ \/ /\ call' = [call EXCEPT !.entries = entries, !.cur = next,
                   !.pc = IF EntriesEnd(next) \/ Len(entries) = MaxIter
                          THEN "names" ELSE "entry"]
            /\ UNCHANGED ghost
         \/ ReadFails /\ Return("err")
      /\ UNCHANGED <<held, ops, guestVars>>

NameOf(p, e) == IF e = Exe THEN FullName[p] ELSE DllName[e]

(* module_info_from_entry: a head has no name to read, nor has memory that  *)
(* is gone; entries that fail are left out.                                 *)
Readable(p, e) == e \in NativeEntries \cup {WowEntry} /\ mlink[p][e] # Null

SameName(a, b) == a.short = b.short /\ a.rest = b.rest

(* Every list is read: what the operation does with the modules it found. *)
ModulesRead ==
  LET named(test(_)) ==
        \E i \in DOMAIN call.modules : test(NameOf(call.info.proc, call.modules[i]))
  IN  \/ /\ call.kind = "module_list"
         /\ Return("ok") /\ UNCHANGED held
      \/ /\ call.kind = "module_info"
         /\ Return(IF named(LAMBDA n : n = call.arg) THEN "ok" ELSE "err")
         /\ UNCHANGED held
      \/ /\ call.kind = "process_info" /\ named(LAMBDA n : SameName(n, call.arg))
         /\ Return("ok") /\ held' = call.info
      \/ /\ call.kind = "process_info" /\ ~named(LAMBDA n : SameName(n, call.arg))
         /\ call' = [call EXCEPT !.pc = "probe"] /\ UNCHANGED held

(* The entries of a list are read one after the other, those that cannot be *)
(* are left out; then comes the WoW64 list, if there is one.                *)
ReadName ==
  LET e == Head(call.entries)
      rest == [call EXCEPT !.entries = Tail(@)]
  IN  /\ call.pc = "names" /\ call.entries # <<>>
      /\ \/ /\ call' = IF Readable(call.info.proc, e)
                      THEN [rest EXCEPT !.modules = Append(@, e)] ELSE rest
            /\ UNCHANGED ghost
         \/ ReadFails /\ call' = rest
      /\ UNCHANGED <<held, ops, guestVars>>

NamesRead ==
  /\ call.pc = "names" /\ call.entries = <<>>
  /\ \/ /\ Len(call.bases) > 1
        /\ call' = [call EXCEPT !.bases = Tail(@), !.cur = call.bases[2], !.pc = "entry"]
        /\ UNCHANGED held
     \/ Len(call.bases) = 1 /\ ModulesRead
  /\ UNCHANGED <<ops, ghost, guestVars>>

----------------------------------------------------------------------------
(* The guest runs with the System process, which it created first, and some *)
(* others.                                                                  *)
InitialOrders ==
  {s \in UNION {[1 .. n -> Procs] : n \in 1 .. Cardinality(Procs)} :
     s[1] = Sys /\ \A i, j \in DOMAIN s : s[i] = s[j] => i = j}

(* The links of the list of the nodes of s: the head stands before and behind. *)
PlaceOf(s, n) == IF n = ActiveHead THEN 0 ELSE CHOOSE i \in DOMAIN s : s[i] = n
NodeAt(s, i) == IF i \in DOMAIN s THEN s[i] ELSE ActiveHead
InList(s, n) == n = ActiveHead \/ n \in ToSet(s)
NextIn(s, n) == IF InList(s, n) THEN NodeAt(s, PlaceOf(s, n) + 1) ELSE Null
BeforeIn(s, n) ==
  IF ~InList(s, n) THEN Null
  ELSE IF n = ActiveHead THEN s[Len(s)] ELSE NodeAt(s, PlaceOf(s, n) - 1)

ListInit ==
  /\ \E s \in InitialOrders :
       /\ linked = ToSet(s)
       /\ flink = [n \in ProcNodes |-> NextIn(s, n)]
       /\ blink = [n \in ProcNodes |-> BeforeIn(s, n)]
  /\ mlinked = [p \in Procs |-> IF p \in linked THEN <<Exe>> ELSE <<>>]
  /\ mlink = [p \in Procs |-> IF p \in linked THEN OnlyExe ELSE NoModules]
  /\ ghost = [always |-> linked, ever |-> linked, disturbed |-> FALSE,
              failed |-> FALSE, unloaded |-> {}, loaded |-> {}]
  /\ guestSteps = 0
  /\ call = Idle /\ held = Null /\ ops = 0

Guest ==
  \E p \in Procs :
    \/ CreateProcess(p) \/ ExitProcess(p) \/ ReclaimProcess(p)
    \/ \E e \in NativeEntries : LoadModule(p, e)
    \/ \E i \in DOMAIN mlinked[p] : UnloadModule(p, i)

Client ==
  \/ EprocessList \/ ProcessInfoList \/ KernelProcessInfo \/ ModuleList
  \/ \E name \in Queries : ProcessInfoByName(name) \/ ModuleInfo(name)
  \/ \E p \in Procs : ProcessInfoByPid(p)
  \/ ReadFlink \/ ReadBlink \/ ReadInfo \/ InfosRead
  \/ Probe \/ ReadEntryLink \/ ReadName \/ NamesRead

ListNext == Guest \/ Client

ListSpec == ListInit /\ [][ListNext]_listVars

----------------------------------------------------------------------------
ListKinds == {"eprocess_list", "process_info_list", "process_info", "process_info_pid"}

(* eprocess_list_extend, read one link at a time from a list that changes:  *)
(* it reports only processes that were linked at some time during the walk, *)
(* never PsActiveProcessHead; and unless a block it could stand on was      *)
(* given back or used again, it reports every process that was linked all   *)
(* the time.                                                                *)
ListFaithful ==
  call.kind \in ListKinds /\ call.pc \notin {"flink", "blink"} /\ call.result # "err" =>
    /\ ToSet(call.eprocs) \subseteq ghost.ever
    /\ ~ghost.disturbed /\ Len(call.eprocs) < MaxIter
         => ghost.always \subseteq ToSet(call.eprocs)

(* process_info and process_info_pid find a process that was linked all the *)
(* time, under the whole of its name although _EPROCESS keeps only a part,  *)
(* unless a read failed, a block was given back or used again, it hid the   *)
(* entry of its executable, or the walk was cut at MAX_ITER_COUNT.          *)
LookupFinds ==
  call.pc = "done" /\ call.result = "err" /\ ~ghost.failed /\ ~ghost.disturbed
  /\ Len(call.eprocs) < MaxIter =>
    \A p \in ghost.always \ {Sys} :
      /\ call.kind = "process_info_pid" => call.arg # p
      /\ call.kind = "process_info" =>
           \/ ~SameName(FullName[p], call.arg)
           \/ <<p, Exe>> \in ghost.unloaded

(* module_list of a process that unloads nothing: no module is listed twice, *)
(* and every module that was loaded when it began is listed, although the    *)
(* walk starts at an entry read earlier and passes the head of the list; a   *)
(* list of MAX_ITER_COUNT entries may be cut.                                *)
ModulesFaithful ==
  call.kind = "module_list" /\ call.pc = "done" /\ call.result = "ok"
  /\ held.proc \in ghost.always /\ ~ghost.failed
  /\ (\A e \in NativeEntries : <<held.proc, e>> \notin ghost.unloaded) =>
    /\ \A i, j \in DOMAIN call.modules : call.modules[i] = call.modules[j] => i = j
    /\ Len(mlinked[held.proc]) < MaxIter => ghost.loaded \subseteq ToSet(call.modules)
=============================================================================

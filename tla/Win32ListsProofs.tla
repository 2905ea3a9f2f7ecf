---------------------------- MODULE Win32ListsProofs ----------------------------
(***************************************************************************)
(* Theorems about Win32Lists, for guests of any size and any bound of a    *)
(* walk.                                                                   *)
(* The processes have ranks, in the order of their list: the rank of a     *)
(* process that leaves it stays, so that a walk that stands on it still    *)
(* passes whatever was linked all the time.                                *)
(***************************************************************************)
EXTENDS Win32Lists, SequenceTheorems, FiniteSetTheorems, TLAPS

-----------------------------------------------------------------------------
(* The inductive invariant                                                 *)

ListOps == {"none", "eprocess_list", "process_info_list", "process_info", "process_info_pid",
            "kernel_process_info", "module_list", "module_info"}
ListPlaces == {"done", "flink", "blink", "infos", "probe", "entry", "names"}

\* What the client keeps of a process: the base of its native list, and that
\* of its WoW64 list if it has one.
Infos ==
  {i \in [proc : Procs, bases : Seq(ModNodes)] :
     \/ Len(i.bases) = 1
     \/ Len(i.bases) = 2 /\ i.bases[2] = WowEntry}

CallType ==
  [kind : ListOps, arg : Queries \cup Procs \cup {Null}, pc : ListPlaces,
   result : {"none", "ok", "err"}, cur : ProcNodes \cup ModNodes \cup {Null},
   next : ProcNodes \cup {Null}, eprocs : Seq(ProcNodes), infos : Seq(Infos),
   todo : Seq(Procs) \cup Seq(Infos), info : Infos \cup {Null}, bases : Seq(ModNodes),
   entries : Seq(ModNodes), modules : Seq(ModNodes)]

GuestType ==
  /\ flink \in [ProcNodes -> ProcNodes \cup {Null}]
  /\ blink \in [ProcNodes -> ProcNodes \cup {Null}]
  /\ linked \subseteq Procs
  /\ mlink \in [Procs -> [ModNodes -> ModNodes \cup {Null}]]
  /\ mlinked \in [Procs -> Seq(NativeEntries)]
  /\ ghost \in [always : SUBSET Procs, ever : SUBSET Procs, disturbed : BOOLEAN,
                failed : BOOLEAN, unloaded : SUBSET (Procs \X NativeEntries),
                loaded : SUBSET NativeEntries]

ClientType ==
  /\ call \in CallType
  /\ held \in Infos \cup {Null}

Types == GuestType /\ ClientType

\* The guest's list is a ring through the head, System first.
Ring ==
  /\ Sys \in linked /\ flink[ActiveHead] = Sys
  /\ \A n \in linked \cup {ActiveHead} :
       /\ flink[n] \in linked \cup {ActiveHead} /\ blink[flink[n]] = n
       /\ blink[n] \in linked \cup {ActiveHead} /\ flink[blink[n]] = n

\* The next process in the list is the one with the next higher rank.
Ranked(rank, m) ==
  /\ m \in Nat /\ rank \in [Procs -> 0 .. m]
  /\ \A p \in linked :
       /\ rank[Sys] <= rank[p]
       /\ flink[p] # ActiveHead => rank[p] < rank[flink[p]]
       /\ \A q \in linked :
            /\ rank[p] = rank[q] => p = q
            /\ rank[p] < rank[q] => flink[p] # ActiveHead /\ rank[flink[p]] <= rank[q]

\* Where a walk can get from a block it stands on, whether linked or not.
Links ==
  /\ ghost.always \subseteq linked /\ linked \subseteq ghost.ever
  /\ Sys \in ghost.always
  /\ \A p \in ghost.ever : flink[p] \in ghost.ever \cup {ActiveHead, Null}

\* Unless a block was given back, from wherever a walk can stand the links lead
\* to every process of a higher rank that was linked all the time.
Ahead(rank) ==
  ~ghost.disturbed =>
    \A p \in ghost.ever :
      /\ flink[p] # Null /\ blink[p] # Null
      /\ rank[Sys] <= rank[p]
      /\ flink[p] # ActiveHead => rank[p] < rank[flink[p]]
      /\ \A q \in ghost.ever : rank[p] = rank[q] => p = q
      /\ \A r \in ghost.always :
           rank[p] < rank[r] => flink[p] # ActiveHead /\ rank[flink[p]] <= rank[r]

\* The walk of the process list.
Walking == call.pc \in {"flink", "blink"}

Stands ==
  Walking =>
    /\ call.kind \in ListKinds /\ call.result = "none"
    /\ call.cur \in ghost.ever \cup {ActiveHead}
    /\ ToSet(call.eprocs) \subseteq ghost.ever
    /\ call.infos = <<>>
    /\ call.pc = "blink" => /\ call.next \in ghost.ever \cup {ActiveHead, Null}
                            /\ call.cur = ActiveHead => call.next = Sys

\* What was linked all the time is reported already, or still ahead.
Reported(rank) ==
  Walking /\ ~ghost.disturbed =>
    /\ \A r \in ghost.always :
         call.cur = ActiveHead \/ rank[r] < rank[call.cur] => r \in ToSet(call.eprocs)
    /\ call.pc = "blink" /\ call.cur # ActiveHead =>
         /\ call.next # Null
         /\ call.next # ActiveHead => rank[call.cur] < rank[call.next]
         /\ \A r \in ghost.always :
              rank[call.cur] < rank[r]
                => call.next # ActiveHead /\ rank[call.next] <= rank[r]

InOrder(rank, m) == Ranked(rank, m) /\ Ahead(rank) /\ Reported(rank)

WalkInOrder ==
  \E m \in Nat : \E rank \in [Procs -> 0 .. m] : Ranked(rank, m) /\ Ahead(rank) /\ Reported(rank)

\* A block that is not given back has its module lists.
NoneUnloaded(p) == \A e \in NativeEntries : <<p, e>> \notin ghost.unloaded

NativeList(p, s) ==
  /\ mlink[p][LdrHead] # Null
  /\ \A j \in DOMAIN s : mlink[p][s[j]] # Null
  /\ <<p, Exe>> \notin ghost.unloaded =>
       Len(s) > 0 /\ s[1] = Exe /\ mlink[p][LdrHead] = Exe
  /\ NoneUnloaded(p) =>
       /\ \A i, j \in DOMAIN s : s[i] = s[j] => i = j
       /\ \A j \in DOMAIN s : mlink[p][s[j]] = IF j < Len(s) THEN s[j + 1] ELSE LdrHead

ModuleLists ==
  \A p \in Procs :
    flink[p] # Null =>
      /\ NativeList(p, mlinked[p])
      /\ mlink[p][WowHead] = WowEntry /\ mlink[p][WowEntry] = WowHead

\* The base the client read of a native list is the executable's entry.
BaseIsExe(i) == <<i.proc, Exe>> \notin ghost.unloaded => i.bases[1] = Exe

\* What the operations of the client have done at each place.
Phases ==
  /\ call.pc # "done" => call.result = "none" /\ call.kind # "none"
  /\ call.pc = "infos" =>
       /\ call.kind \in ListKinds \ {"eprocess_list"}
       /\ call.todo \in Seq(Procs)
  /\ call.pc \in {"probe", "entry", "names"} => call.todo \in Seq(Infos)
  /\ call.pc = "probe" => call.kind = "process_info"
  /\ call.pc \in {"entry", "names"} =>
       /\ call.kind \in {"process_info", "module_list", "module_info"}
       /\ call.info \in Infos /\ call.bases # <<>>
  /\ call.pc = "entry" => call.cur \in ModNodes /\ Len(call.entries) < MaxIter

BasesExe ==
  /\ held # Null => BaseIsExe(held)
  /\ \A i \in DOMAIN call.infos : BaseIsExe(call.infos[i])
  /\ call.pc \in {"probe", "entry", "names"} =>
       \A i \in DOMAIN call.todo : BaseIsExe(call.todo[i])
  /\ call.pc \in {"entry", "names"} => BaseIsExe(call.info)

\* The lookup still has the process before it.
SeesExe ==
  \/ Exe \in ToSet(call.modules) \/ Exe \in ToSet(call.entries)
  \/ call.pc = "entry" /\ call.cur = Exe

\* A lookup by name has not passed p without finding it.
ToBeFound(p) ==
  /\ call.pc = "infos" =>
       \/ p \in ToSet(call.todo)
       \/ \E i \in DOMAIN call.infos : call.infos[i].proc = p
  /\ call.pc \in {"probe", "entry", "names"}
     /\ SameName(FullName[p], call.arg) /\ <<p, Exe>> \notin ghost.unloaded =>
       \/ \E i \in DOMAIN call.todo : call.todo[i].proc = p
       \/ call.pc # "probe" /\ call.info.proc = p /\ SeesExe

LookupGoesOn ==
  call.kind \in ListKinds /\ ~ghost.failed /\ ~ghost.disturbed
  /\ Len(call.eprocs) < MaxIter =>
    \A p \in ghost.always \ {Sys} : ToBeFound(p)

\* The walk of the native list stands in the list as it is now.
Within(s) ==
  /\ Len(call.entries) <= Len(s)
  /\ \A i \in DOMAIN call.entries : call.entries[i] = s[i]
  /\ \/ /\ call.cur = LdrHead
        /\ ghost.loaded \subseteq ToSet(call.entries) \/ Len(s) >= MaxIter
     \/ Len(call.entries) < Len(s) /\ call.cur = s[Len(call.entries) + 1]

Distinct(s) == \A i, j \in DOMAIN s : s[i] = s[j] => i = j

NoneTwice ==
  /\ Distinct(call.modules) /\ Distinct(call.entries)
  /\ ToSet(call.modules) \cap ToSet(call.entries) = {}

HasLoaded(s, found) == Len(s) < MaxIter => ghost.loaded \subseteq found

\* What module_list has of the native list s: in that list, in the WoW64 list
\* after it, and among the names.
ModulesSoFar(s) ==
  \/ /\ call.pc = "entry" /\ call.bases = call.info.bases
     /\ call.modules = <<>> /\ Within(s)
  \/ /\ call.pc = "entry" /\ call.bases = <<WowEntry>>
     /\ Distinct(call.modules) /\ ToSet(call.modules) \subseteq NativeEntries
     /\ HasLoaded(s, ToSet(call.modules))
     /\ \/ call.entries = <<>> /\ call.cur = WowEntry
        \/ call.entries = <<WowEntry>> /\ call.cur = WowHead
  \/ /\ call.pc = "names" /\ NoneTwice
     /\ HasLoaded(s, ToSet(call.modules) \cup ToSet(call.entries))
     /\ \/ call.bases = <<WowEntry>>
        \/ /\ call.bases = call.info.bases
           /\ ToSet(call.modules) \subseteq NativeEntries
           /\ ToSet(call.entries) \subseteq NativeEntries \cup {LdrHead}

ModuleWalk ==
  call.kind = "module_list" =>
    /\ held # Null
    /\ call.pc # "done" => call.pc \in {"entry", "names"} /\ call.info = held
    /\ held.proc \in ghost.always /\ NoneUnloaded(held.proc) =>
         /\ ghost.loaded \subseteq ToSet(mlinked[held.proc])
         /\ call.pc # "done" /\ ~ghost.failed => ModulesSoFar(mlinked[held.proc])

CallInv == Phases /\ BasesExe /\ LookupGoesOn /\ ModuleWalk
ListClaims == ListFaithful /\ LookupFinds /\ ModulesFaithful

\* The walks in progress make the claims inductive.
ListsInv ==
  /\ Types /\ Ring /\ Links /\ Stands /\ WalkInOrder /\ ModuleLists
  /\ CallInv /\ ListClaims

-----------------------------------------------------------------------------
(* Sequences and nodes                                                     *)

\* What Append, Tail and RemoveAt make of a sequence.
LEMMA AppendSeq ==
  ASSUME NEW S, NEW s \in Seq(S), NEW e \in S
  PROVE  /\ Append(s, e) \in Seq(S) /\ Len(Append(s, e)) = Len(s) + 1
         /\ ToSet(Append(s, e)) = ToSet(s) \cup {e}
<1>1. /\ Append(s, e) \in Seq(S) /\ Len(Append(s, e)) = Len(s) + 1
      /\ \A i \in 1 .. Len(s) : Append(s, e)[i] = s[i]
      /\ Append(s, e)[Len(s) + 1] = e
  OBVIOUS
<1>2. DOMAIN s = 1 .. Len(s) /\ DOMAIN Append(s, e) = 1 .. Len(s) + 1 /\ Len(s) \in Nat
  BY <1>1
<1>3. ToSet(Append(s, e)) = ToSet(s) \cup {e}
  BY <1>1, <1>2 DEF ToSet
<1>4. QED
  BY <1>1, <1>3

LEMMA TailSeq ==
  ASSUME NEW S, NEW s \in Seq(S), s # <<>>
  PROVE  /\ Tail(s) \in Seq(S) /\ Head(s) \in S /\ Head(s) = s[1] /\ Len(Tail(s)) = Len(s) - 1
         /\ \A i \in 1 .. Len(s) - 1 : Tail(s)[i] = s[i + 1]
         /\ ToSet(s) = ToSet(Tail(s)) \cup {Head(s)}
<1>1. /\ Tail(s) \in Seq(S) /\ Head(s) \in S /\ Head(s) = s[1] /\ Len(Tail(s)) = Len(s) - 1
      /\ \A i \in 1 .. Len(s) - 1 : Tail(s)[i] = s[i + 1]
      /\ Len(s) \in Nat \ {0}
  OBVIOUS
<1>2. DOMAIN s = 1 .. Len(s) /\ DOMAIN Tail(s) = 1 .. Len(s) - 1
  BY <1>1
<1>3. ASSUME NEW x \in ToSet(s) PROVE x \in ToSet(Tail(s)) \cup {Head(s)}
  <2>1. PICK i \in 1 .. Len(s) : x = s[i]
    BY <1>2 DEF ToSet
  <2>2. CASE i = 1
    BY <2>1, <2>2, <1>1
  <2>3. CASE i # 1
    <3>1. i - 1 \in 1 .. Len(s) - 1 /\ (i - 1) + 1 = i
      BY <2>3, <1>1
    <3>2. Tail(s)[i - 1] = x
      BY <3>1, <1>1, <2>1
    <3>3. QED
      BY <3>1, <3>2, <1>2 DEF ToSet
  <2>4. QED
    BY <2>2, <2>3
<1>4. ASSUME NEW x \in ToSet(Tail(s)) \cup {Head(s)} PROVE x \in ToSet(s)
  <2>1. CASE x = Head(s)
    BY <2>1, <1>1, <1>2 DEF ToSet
  <2>2. CASE x \in ToSet(Tail(s))
    <3>1. PICK i \in 1 .. Len(s) - 1 : x = Tail(s)[i]
      BY <2>2, <1>2 DEF ToSet
    <3>2. i + 1 \in 1 .. Len(s) /\ x = s[i + 1]
      BY <3>1, <1>1
    <3>3. QED
      BY <3>2, <1>2 DEF ToSet
  <2>3. QED
    BY <1>4, <2>1, <2>2
<1>5. QED
  BY <1>1, <1>3, <1>4

LEMMA RemoveSeq ==
  ASSUME NEW S, NEW s \in Seq(S), NEW k \in DOMAIN s
  PROVE  /\ RemoveAt(s, k) \in Seq(S) /\ Len(RemoveAt(s, k)) = Len(s) - 1
         /\ \A i \in 1 .. Len(s) - 1 :
              RemoveAt(s, k)[i] = IF i < k THEN s[i] ELSE s[i + 1]
<1>1. k \in 1 .. Len(s) /\ Len(s) \in Nat
  OBVIOUS
<1>2. RemoveAt(s, k) = SubSeq(s, 1, k - 1) \o SubSeq(s, k + 1, Len(s))
  BY DEF RemoveAt
<1>3. /\ SubSeq(s, 1, k - 1) \in Seq(S) /\ Len(SubSeq(s, 1, k - 1)) = k - 1
      /\ \A i \in 1 .. k - 1 : SubSeq(s, 1, k - 1)[i] = s[i]
  BY <1>1
<1>4. /\ SubSeq(s, k + 1, Len(s)) \in Seq(S) /\ Len(SubSeq(s, k + 1, Len(s))) = Len(s) - k
      /\ \A i \in 1 .. Len(s) - k : SubSeq(s, k + 1, Len(s))[i] = s[k + i]
  BY <1>1
<1> DEFINE a == SubSeq(s, 1, k - 1)
           b == SubSeq(s, k + 1, Len(s))
           c == RemoveAt(s, k)
<1>5. /\ a \in Seq(S) /\ Len(a) = k - 1 /\ \A i \in 1 .. k - 1 : a[i] = s[i]
      /\ b \in Seq(S) /\ Len(b) = Len(s) - k /\ \A i \in 1 .. Len(s) - k : b[i] = s[k + i]
      /\ c = a \o b
  BY <1>2, <1>3, <1>4
<1> HIDE DEF a, b, c
<1>6. /\ a \o b \in Seq(S) /\ Len(a \o b) = Len(a) + Len(b)
      /\ \A i \in 1 .. Len(a) + Len(b) : (a \o b)[i] = IF i <= Len(a) THEN a[i] ELSE b[i - Len(a)]
  BY <1>5, ConcatProperties
<1>7. c \in Seq(S) /\ Len(c) = Len(s) - 1
  BY <1>1, <1>5, <1>6
<1>8. ASSUME NEW i \in 1 .. Len(s) - 1
      PROVE  c[i] = IF i < k THEN s[i] ELSE s[i + 1]
  <2>0. i \in 1 .. Len(a) + Len(b)
    BY <1>1, <1>5
  <2>1. CASE i < k
    <3>1. i \in 1 .. k - 1 /\ i <= Len(a)
      BY <2>1, <1>1, <1>5
    <3>2. c[i] = a[i]
      BY <2>0, <3>1, <1>5, <1>6
    <3>3. a[i] = s[i]
      BY <3>1, <1>5
    <3>4. QED
      BY <2>1, <3>2, <3>3
  <2>2. CASE i >= k
    <3>1. i - (k - 1) \in 1 .. Len(s) - k /\ k + (i - (k - 1)) = i + 1
      BY <2>2, <1>1
    <3>2. c[i] = b[i - (k - 1)]
      BY <2>0, <2>2, <1>1, <1>5, <1>6
    <3>3. PICK j \in 1 .. Len(s) - k : j = i - (k - 1)
      BY <3>1
    <3>4. b[j] = s[k + j] /\ k + j = i + 1
      BY <3>1, <3>3, <1>5
    <3>5. ~(i < k)
      BY <2>2, <1>1
    <3>6. QED
      BY <3>2, <3>3, <3>4, <3>5
  <2>3. QED
    BY <1>1, <2>1, <2>2
<1>9. QED
  BY <1>7, <1>8 DEF c

\* The nodes of the lists are told apart.
LEMMA NodesApart ==
  /\ Sys \in Procs /\ ActiveHead \notin Procs /\ Null \notin Procs /\ Null # ActiveHead
  /\ Exe \in NativeEntries /\ Exe \in ModNodes /\ LdrHead \in ModNodes
  /\ WowHead \in ModNodes /\ WowEntry \in ModNodes /\ NativeEntries \subseteq ModNodes
  /\ LdrHead \notin NativeEntries /\ WowHead \notin NativeEntries /\ WowEntry \notin NativeEntries
  /\ WowHead # WowEntry /\ LdrHead # WowHead /\ LdrHead # WowEntry
  /\ Null \notin ModNodes
  /\ MaxIter \in Nat \ {0}
BY ListAssumption DEF ModNodes, NativeEntries

\* The lists of a new address space, and of none.
LEMMA Entries ==
  /\ NoModules \in [ModNodes -> ModNodes \cup {Null}]
  /\ OnlyExe \in [ModNodes -> ModNodes \cup {Null}]
  /\ OnlyExe[LdrHead] = Exe /\ OnlyExe[Exe] = LdrHead
  /\ OnlyExe[WowHead] = WowEntry /\ OnlyExe[WowEntry] = WowHead
<1>1. NoModules \in [ModNodes -> ModNodes \cup {Null}]
  BY DEF NoModules
<1>2. QED
  BY <1>1, NodesApart DEF OnlyExe

-----------------------------------------------------------------------------
(* Types                                                                   *)

\* Every step of the guest keeps the types.
LEMMA GuestTypes ==
  ASSUME GuestType, ClientType, Guest
  PROVE  GuestType' /\ ClientType'
<1>0. PICK p \in Procs :
        \/ CreateProcess(p) \/ ExitProcess(p) \/ ReclaimProcess(p)
        \/ \E e \in NativeEntries : LoadModule(p, e)
        \/ \E i \in DOMAIN mlinked[p] : UnloadModule(p, i)
  BY DEF Guest
<1>a. p \in ProcNodes /\ ActiveHead \in ProcNodes /\ mlink[p] \in [ModNodes -> ModNodes \cup {Null}]
      /\ mlinked[p] \in Seq(NativeEntries)
  BY DEF ProcNodes, GuestType
<1>1. CASE CreateProcess(p)
  <2>1. UNCHANGED clientVars
    BY <1>1 DEF CreateProcess, GuestStep
  <2>2. flink' \in [ProcNodes -> ProcNodes \cup {Null}] /\ blink' \in [ProcNodes -> ProcNodes \cup {Null}]
    BY <1>1, <1>a DEF CreateProcess, GuestType
  <2>3. mlink' \in [Procs -> [ModNodes -> ModNodes \cup {Null}]]
    BY <1>1, Entries DEF CreateProcess, GuestType
  <2>4. <<Exe>> \in Seq(NativeEntries)
    BY NodesApart
  <2>5. mlinked' \in [Procs -> Seq(NativeEntries)]
    BY <1>1, <2>4 DEF CreateProcess, GuestType
  <2>6. linked' \subseteq Procs
    BY <1>1 DEF CreateProcess, GuestType
  <2>7. ghost' \in [always : SUBSET Procs, ever : SUBSET Procs, disturbed : BOOLEAN,
                failed : BOOLEAN, unloaded : SUBSET (Procs \X NativeEntries),
                loaded : SUBSET NativeEntries]
    BY <1>1 DEF CreateProcess, GuestType, Observe
  <2>8. QED
    BY <2>1, <2>2, <2>3, <2>5, <2>6, <2>7 DEF GuestType, ClientType, clientVars
<1>2. CASE ExitProcess(p)
  <2>1. UNCHANGED clientVars
    BY <1>2 DEF ExitProcess, GuestStep
  <2>2. flink' \in [ProcNodes -> ProcNodes \cup {Null}] /\ blink' \in [ProcNodes -> ProcNodes \cup {Null}]
    BY <1>2, <1>a DEF ExitProcess, GuestType
  <2>6. linked' \subseteq Procs /\ UNCHANGED <<mlink, mlinked>>
    BY <1>2 DEF ExitProcess, GuestType
  <2>7. ghost' \in [always : SUBSET Procs, ever : SUBSET Procs, disturbed : BOOLEAN,
                failed : BOOLEAN, unloaded : SUBSET (Procs \X NativeEntries),
                loaded : SUBSET NativeEntries]
    BY <1>2 DEF ExitProcess, GuestType, Observe
  <2>8. QED
    BY <2>1, <2>2, <2>6, <2>7 DEF GuestType, ClientType, clientVars
<1>3. CASE ReclaimProcess(p)
  <2>1. UNCHANGED clientVars
    BY <1>3 DEF ReclaimProcess, GuestStep
  <2>2. flink' \in [ProcNodes -> ProcNodes \cup {Null}] /\ blink' \in [ProcNodes -> ProcNodes \cup {Null}]
    BY <1>3, <1>a DEF ReclaimProcess, GuestType
  <2>3. mlink' \in [Procs -> [ModNodes -> ModNodes \cup {Null}]]
    BY <1>3, Entries DEF ReclaimProcess, GuestType
  <2>5. mlinked' \in [Procs -> Seq(NativeEntries)]
    BY <1>3 DEF ReclaimProcess, GuestType
  <2>6. linked' \subseteq Procs
    BY <1>3 DEF ReclaimProcess, GuestType
  <2>7. ghost' \in [always : SUBSET Procs, ever : SUBSET Procs, disturbed : BOOLEAN,
                failed : BOOLEAN, unloaded : SUBSET (Procs \X NativeEntries),
                loaded : SUBSET NativeEntries]
    BY <1>3 DEF ReclaimProcess, GuestType, Observe
  <2>8. QED
    BY <2>1, <2>2, <2>3, <2>5, <2>6, <2>7 DEF GuestType, ClientType, clientVars
<1>4. ASSUME NEW e \in NativeEntries, LoadModule(p, e) PROVE GuestType' /\ ClientType'
  <2>1. UNCHANGED clientVars /\ UNCHANGED <<flink, blink, linked, ghost>>
    BY <1>4 DEF LoadModule, GuestStep
  <2> DEFINE last == IF mlinked[p] = <<>> THEN LdrHead ELSE mlinked[p][Len(mlinked[p])]
  <2>2. /\ mlink' = [mlink EXCEPT ![p] = [mlink[p] EXCEPT ![last] = e, ![e] = LdrHead]]
        /\ mlinked' = [mlinked EXCEPT ![p] = Append(mlinked[p], e)]
    BY <1>4 DEF LoadModule, GuestType
  <2> HIDE DEF last
  <2>3. [mlink[p] EXCEPT ![last] = e, ![e] = LdrHead] \in [ModNodes -> ModNodes \cup {Null}]
    BY <1>a, NodesApart
  <2>4. Append(mlinked[p], e) \in Seq(NativeEntries)
    BY <1>a, AppendSeq
  <2>5. /\ mlink' \in [Procs -> [ModNodes -> ModNodes \cup {Null}]]
        /\ mlinked' \in [Procs -> Seq(NativeEntries)]
    BY <2>2, <2>3, <2>4 DEF GuestType
  <2>6. QED
    BY <2>1, <2>5 DEF GuestType, ClientType, clientVars
<1>5. ASSUME NEW i \in DOMAIN mlinked[p], UnloadModule(p, i) PROVE GuestType' /\ ClientType'
  <2>1. UNCHANGED clientVars /\ UNCHANGED <<flink, blink, linked>>
    BY <1>5 DEF UnloadModule, GuestStep
  <2> DEFINE before == IF i = 1 THEN LdrHead ELSE mlinked[p][i - 1]
  <2>2. /\ mlink' = [mlink EXCEPT ![p] = [mlink[p] EXCEPT ![before] = mlink[p][mlinked[p][i]]]]
        /\ mlinked' = [mlinked EXCEPT ![p] = RemoveAt(mlinked[p], i)]
        /\ ghost' = [ghost EXCEPT !.unloaded = @ \cup {<<p, mlinked[p][i]>>}]
    BY <1>5 DEF UnloadModule, GuestType
  <2>a. mlinked[p][i] \in NativeEntries /\ mlinked[p][i] \in ModNodes
    BY <1>a, NodesApart
  <2> HIDE DEF before
  <2>3. [mlink[p] EXCEPT ![before] = mlink[p][mlinked[p][i]]] \in [ModNodes -> ModNodes \cup {Null}]
    BY <1>a, <2>a
  <2>4. RemoveAt(mlinked[p], i) \in Seq(NativeEntries)
    BY <1>a, RemoveSeq
  <2>5. /\ mlink' \in [Procs -> [ModNodes -> ModNodes \cup {Null}]]
        /\ mlinked' \in [Procs -> Seq(NativeEntries)]
    BY <2>2, <2>3, <2>4 DEF GuestType
  <2>7. ghost' \in [always : SUBSET Procs, ever : SUBSET Procs, disturbed : BOOLEAN,
                failed : BOOLEAN, unloaded : SUBSET (Procs \X NativeEntries),
                loaded : SUBSET NativeEntries]
    <3>1. <<p, mlinked[p][i]>> \in Procs \X NativeEntries
      BY <2>a
    <3>2. ghost.unloaded \cup {<<p, mlinked[p][i]>>} \subseteq Procs \X NativeEntries
      BY <3>1 DEF GuestType
    <3> DEFINE u == ghost.unloaded \cup {<<p, mlinked[p][i]>>}
    <3>3. ghost' = [ghost EXCEPT !.unloaded = u]
      BY <2>2
    <3> HIDE DEF u
    <3>4. u \in SUBSET (Procs \X NativeEntries)
      BY <3>2 DEF u
    <3>5. QED
      BY <3>3, <3>4 DEF GuestType
  <2>6. QED
    BY <2>1, <2>5, <2>7 DEF GuestType, ClientType, clientVars
<1>6. QED
  BY <1>0, <1>1, <1>2, <1>3, <1>4, <1>5

\* Begin starts what a walk is measured against.
LEMMA Started ==
  ASSUME GuestType, ClientType, NEW kind \in ListOps, Begin(kind),
         kind = "module_list" => held # Null
  PROVE  ghost' \in [always : SUBSET Procs, ever : SUBSET Procs, disturbed : BOOLEAN,
                failed : BOOLEAN, unloaded : SUBSET (Procs \X NativeEntries),
                loaded : SUBSET NativeEntries]
<1> DEFINE loaded == IF kind = "module_list" THEN ToSet(mlinked[held.proc]) ELSE {}
<1>1. ghost' = [ghost EXCEPT !.always = linked, !.ever = linked, !.disturbed = FALSE,
                             !.failed = FALSE, !.loaded = loaded]
  BY DEF Begin
<1>2. loaded \subseteq NativeEntries
  <2>1. CASE kind = "module_list"
    <3>1. held.proc \in Procs
      BY <2>1 DEF ClientType, Infos
    <3>2. mlinked[held.proc] \in Seq(NativeEntries)
      BY <3>1 DEF GuestType
    <3>3. ToSet(mlinked[held.proc]) \subseteq NativeEntries
      BY <3>2 DEF ToSet
    <3>4. QED
      BY <2>1, <3>3
  <2>2. QED
    BY <2>1
<1> HIDE DEF loaded
<1>3. QED
  BY <1>1, <1>2 DEF GuestType

\* A failed read is remembered, and nothing else of the ghost changes.
LEMMA Failed ==
  ASSUME GuestType, ReadFails
  PROVE  ghost' = [ghost EXCEPT !.failed = TRUE]
         /\ ghost' \in [always : SUBSET Procs, ever : SUBSET Procs, disturbed : BOOLEAN,
                failed : BOOLEAN, unloaded : SUBSET (Procs \X NativeEntries),
                loaded : SUBSET NativeEntries]
BY DEF GuestType, ReadFails

\* The client that does nothing.
LEMMA IdleCall == Idle \in CallType
BY NodesApart DEF Idle, CallType, ListOps, ListPlaces

\* Return ends an operation and keeps what it found.
LEMMA Returned ==
  ASSUME ClientType, NEW result \in {"none", "ok", "err"}, Return(result)
  PROVE  /\ call' \in CallType /\ call'.pc = "done" /\ call'.result = result
         /\ call'.kind = call.kind /\ call'.arg = call.arg /\ call'.eprocs = call.eprocs
         /\ call'.infos = call.infos /\ call'.modules = call.modules
<1>1. <<>> \in Seq(Procs) \cup Seq(Infos) /\ <<>> \in Seq(ModNodes) /\ "done" \in ListPlaces
  BY DEF ListPlaces
<1> DEFINE todos == Seq(Procs) \cup Seq(Infos)
<1>2. <<>> \in todos /\ CallType = [kind : ListOps, arg : Queries \cup Procs \cup {Null}, pc : ListPlaces,
   result : {"none", "ok", "err"}, cur : ProcNodes \cup ModNodes \cup {Null},
   next : ProcNodes \cup {Null}, eprocs : Seq(ProcNodes), infos : Seq(Infos),
   todo : todos, info : Infos \cup {Null}, bases : Seq(ModNodes),
   entries : Seq(ModNodes), modules : Seq(ModNodes)]
  BY <1>1 DEF CallType
<1>3. call' = [call EXCEPT !.pc = "done", !.result = result, !.cur = Null, !.next = Null,
                   !.todo = <<>>, !.info = Null, !.bases = <<>>]
  BY DEF Return
<1>4. call \in CallType
  BY DEF ClientType
<1> HIDE DEF todos
<1>5. QED
  BY <1>1, <1>2, <1>3, <1>4

\* process_info_from_eprocess of a block that is there finds its lists.
LEMMA BasesFound ==
  ASSUME GuestType, ModuleLists, NEW p \in Procs, flink[p] # Null
  PROVE  InfoOf(p) \in Infos /\ InfoOf(p).proc = p
         /\ InfoOf(p).bases[1] = mlink[p][LdrHead]
<1>1. mlink[p] \in [ModNodes -> ModNodes \cup {Null}]
  BY DEF GuestType
<1>2. mlink[p][LdrHead] \in ModNodes
  BY <1>1, NodesApart DEF ModuleLists, NativeList
<1>3. mlink[p][WowHead] = WowEntry
  BY DEF ModuleLists
<1>4. CASE p \in Wow64 /\ HasTeb
  <2>1. Bases(p) = <<mlink[p][LdrHead]>> \o <<WowEntry>>
    BY <1>3, <1>4 DEF Bases, WithPeb
  <2> DEFINE a == <<mlink[p][LdrHead]>>
             b == <<WowEntry>>
  <2>2. /\ a \in Seq(ModNodes) /\ Len(a) = 1 /\ a[1] = mlink[p][LdrHead]
        /\ b \in Seq(ModNodes) /\ Len(b) = 1 /\ b[1] = WowEntry /\ Bases(p) = a \o b
    BY <1>2, <2>1, NodesApart
  <2> HIDE DEF a, b
  <2>3. /\ a \o b \in Seq(ModNodes) /\ Len(a \o b) = Len(a) + Len(b)
        /\ \A i \in 1 .. Len(a) + Len(b) : (a \o b)[i] = IF i <= Len(a) THEN a[i] ELSE b[i - Len(a)]
    BY <2>2, ConcatProperties
  <2>4. /\ Bases(p) \in Seq(ModNodes) /\ Len(Bases(p)) = 2
        /\ Bases(p)[1] = mlink[p][LdrHead] /\ Bases(p)[2] = WowEntry
    BY <2>2, <2>3
  <2>5. QED
    BY <2>4 DEF InfoOf, Infos
<1>5. CASE ~(p \in Wow64 /\ HasTeb)
  <2>1. Bases(p) = <<mlink[p][LdrHead]>> \o <<>>
    BY <1>5 DEF Bases, WithPeb
  <2>2. Bases(p) = <<mlink[p][LdrHead]>>
    BY <1>2, <2>1
  <2>3. Bases(p) \in Seq(ModNodes) /\ Len(Bases(p)) = 1
    BY <1>2, <2>2
  <2>4. QED
    BY <2>2, <2>3 DEF InfoOf, Infos
<1>6. QED
  BY <1>4, <1>5

\* WalkModules stands at the base the client keeps.
LEMMA WalkBegins ==
  ASSUME NEW o \in CallType, NEW info \in Infos
  PROVE  /\ WalkModules(o, info) \in CallType
         /\ WalkModules(o, info).info = info /\ WalkModules(o, info).bases = info.bases
         /\ WalkModules(o, info).cur = info.bases[1] /\ info.bases[1] \in ModNodes
         /\ WalkModules(o, info).entries = <<>> /\ WalkModules(o, info).modules = <<>>
         /\ WalkModules(o, info).pc = "entry"
         /\ WalkModules(o, info).kind = o.kind /\ WalkModules(o, info).arg = o.arg
         /\ WalkModules(o, info).result = o.result /\ WalkModules(o, info).todo = o.todo
         /\ WalkModules(o, info).infos = o.infos /\ WalkModules(o, info).eprocs = o.eprocs
<1>1. info.bases \in Seq(ModNodes) /\ info.bases[1] \in ModNodes
  BY DEF Infos
<1>2. "entry" \in ListPlaces /\ <<>> \in Seq(ModNodes)
  BY DEF ListPlaces
<1>3. QED
  BY <1>1, <1>2 DEF WalkModules, CallType

\* What each operation starts with.
LEMMA ListStarts ==
  ASSUME Types, NEW kind \in ListKinds, NEW arg \in Queries \cup Procs \cup {Null},
         BeginEprocessList(kind, arg)
  PROVE  /\ Types' /\ UNCHANGED <<held, guestVars>>
         /\ call' = [Idle EXCEPT !.kind = kind, !.arg = arg, !.pc = "flink", !.cur = Sys]
         /\ ghost' = [ghost EXCEPT !.always = linked, !.ever = linked, !.disturbed = FALSE,
                                   !.failed = FALSE, !.loaded = {}]
<1>1. /\ UNCHANGED <<held, guestVars>> /\ Begin(kind)
      /\ call' = [Idle EXCEPT !.kind = kind, !.arg = arg, !.pc = "flink", !.cur = Sys]
  BY DEF BeginEprocessList
<1>2. kind \in ListOps /\ kind # "module_list" /\ "flink" \in ListPlaces
  BY DEF ListKinds, ListOps, ListPlaces
<1>3. call' \in CallType
  BY <1>1, <1>2, IdleCall, NodesApart DEF CallType, ProcNodes
<1>4. GuestType'
  BY <1>1, <1>2, Started DEF GuestType, guestVars, Types
<1>5. QED
  BY <1>1, <1>2, <1>3, <1>4 DEF Types, ClientType, Begin

\* An operation of another kind, with another result.
LEMMA CallChanged ==
  ASSUME NEW o \in CallType, NEW kind \in ListOps, NEW result \in {"none", "ok", "err"}
  PROVE  [o EXCEPT !.kind = kind, !.result = result] \in CallType
BY DEF CallType

LEMMA KernelStarts ==
  ASSUME Types, ModuleLists, Ring, KernelProcessInfo
  PROVE  /\ Types' /\ UNCHANGED guestVars
         /\ ghost' = [ghost EXCEPT !.always = linked, !.ever = linked, !.disturbed = FALSE,
                                   !.failed = FALSE, !.loaded = {}]
         /\ \/ /\ call' = [Idle EXCEPT !.kind = "kernel_process_info", !.result = "ok"]
               /\ held' = [proc |-> Sys, bases |-> <<mlink[Sys][LdrHead]>>]
            \/ /\ call' = [Idle EXCEPT !.kind = "kernel_process_info", !.result = "err"]
               /\ UNCHANGED held
<1>1. /\ UNCHANGED guestVars /\ Begin("kernel_process_info")
      /\ \/ /\ call' = [Idle EXCEPT !.kind = "kernel_process_info", !.result = "ok"]
            /\ held' = [proc |-> Sys, bases |-> <<mlink[Sys][LdrHead]>>]
         \/ /\ call' = [Idle EXCEPT !.kind = "kernel_process_info", !.result = "err"]
            /\ UNCHANGED held
  BY DEF KernelProcessInfo
<1>2. "kernel_process_info" \in ListOps
  BY DEF ListOps
<1>3. call' \in CallType
  <2>1. PICK o \in CallType : o = Idle
    BY IdleCall
  <2>2. PICK kind \in ListOps : kind = "kernel_process_info"
    BY <1>2
  <2>3. \/ call' = [o EXCEPT !.kind = kind, !.result = "ok"]
        \/ call' = [o EXCEPT !.kind = kind, !.result = "err"]
    BY <1>1, <2>1, <2>2
  <2>4. QED
    BY <2>3, CallChanged
<1>4. GuestType'
  BY <1>1, <1>2, Started DEF GuestType, guestVars, Types
<1>5. flink[Sys] # Null
  BY NodesApart DEF Ring, Types, GuestType
<1>6. mlink[Sys] \in [ModNodes -> ModNodes \cup {Null}]
  BY NodesApart DEF Types, GuestType
<1>7. mlink[Sys][LdrHead] \in ModNodes
  BY <1>5, <1>6, NodesApart DEF ModuleLists, NativeList
<1>8. [proc |-> Sys, bases |-> <<mlink[Sys][LdrHead]>>] \in Infos
  <2>1. <<mlink[Sys][LdrHead]>> \in Seq(ModNodes) /\ Len(<<mlink[Sys][LdrHead]>>) = 1
    BY <1>7
  <2>2. QED
    BY <2>1, NodesApart DEF Infos
<1>9. held' \in Infos \cup {Null}
  BY <1>1, <1>8 DEF Types, ClientType
<1>10. QED
  BY <1>1, <1>3, <1>4, <1>9 DEF Types, ClientType, Begin

LEMMA ModulesStart ==
  ASSUME Types, NEW kind \in {"module_list", "module_info"},
         NEW arg \in Queries \cup Procs \cup {Null}, BeginModules(kind, arg)
  PROVE  /\ Types' /\ UNCHANGED <<held, guestVars>>
         /\ held \in Infos
         /\ call' = WalkModules([Idle EXCEPT !.kind = kind, !.arg = arg], held)
         /\ [Idle EXCEPT !.kind = kind, !.arg = arg] \in CallType
         /\ ghost' = [ghost EXCEPT !.always = linked, !.ever = linked, !.disturbed = FALSE,
                                   !.failed = FALSE,
                                   !.loaded = IF kind = "module_list"
                                              THEN ToSet(mlinked[held.proc]) ELSE {}]
<1>1. /\ held # Null /\ Begin(kind) /\ UNCHANGED <<held, guestVars>>
      /\ call' = WalkModules([Idle EXCEPT !.kind = kind, !.arg = arg], held)
  BY DEF BeginModules
<1>2. kind \in ListOps /\ held \in Infos
  BY <1>1 DEF ListOps, Types, ClientType
<1>3. [Idle EXCEPT !.kind = kind, !.arg = arg] \in CallType
  BY <1>2, IdleCall DEF CallType
<1>4. call' \in CallType
  BY <1>1, <1>2, <1>3, WalkBegins
<1>5. GuestType'
  BY <1>1, <1>2, Started DEF GuestType, guestVars, Types
<1>6. QED
  BY <1>1, <1>2, <1>3, <1>4, <1>5 DEF Types, ClientType, Begin

\* What each read of the client leaves: its types and its outcomes.
LEMMA FlinkRead ==
  ASSUME Types, Stands, ReadFlink
  PROVE  Types' /\ UNCHANGED <<held, guestVars>>
<1>1. UNCHANGED <<held, guestVars>> /\ call.cur \in ProcNodes
  BY DEF ReadFlink, Stands, Walking, Types, GuestType, ProcNodes
<1>2. CASE call' = [call EXCEPT !.next = flink[call.cur], !.pc = "blink"] /\ UNCHANGED ghost
  <2>1. flink[call.cur] \in ProcNodes \cup {Null} /\ "blink" \in ListPlaces
    BY <1>1 DEF Types, GuestType, ListPlaces
  <2>2. call' \in CallType
    BY <1>2, <2>1 DEF Types, ClientType, CallType
  <2>3. QED
    BY <1>1, <1>2, <2>2 DEF Types, GuestType, ClientType, guestVars
<1>3. CASE ReadFails /\ Return("err")
  <2>1. GuestType'
    BY <1>1, <1>3, Failed DEF Types, GuestType, guestVars
  <2>2. call' \in CallType
    BY <1>3, Returned DEF Types
  <2>3. QED
    BY <1>1, <2>1, <2>2 DEF Types, ClientType
<1>4. QED
  BY <1>2, <1>3 DEF ReadFlink

\* A sequence of members of T is one over T.
LEMMA SeqWithin ==
  ASSUME NEW S, NEW T, NEW s \in Seq(S), ToSet(s) \subseteq T
  PROVE  s \in Seq(T)
<1>1. s \in [1 .. Len(s) -> S] /\ Len(s) \in Nat
  OBVIOUS
<1>2. \A i \in 1 .. Len(s) : s[i] \in T
  BY <1>1 DEF ToSet
<1>3. s \in [1 .. Len(s) -> T]
  BY <1>1, <1>2
<1>4. QED
  BY <1>1, <1>3

\* The walk ends with the list it collected.
LEMMA WalkedList ==
  ASSUME ClientType, NEW eprocs \in Seq(ProcNodes), eprocs \in Seq(Procs), ListWalked(eprocs)
  PROVE  /\ call' \in CallType
         /\ call'.eprocs = eprocs /\ call'.todo = eprocs /\ call'.kind = call.kind
         /\ call'.arg = call.arg /\ call'.infos = call.infos
         /\ IF call.kind = "eprocess_list" THEN call'.pc = "done" /\ call'.result = "ok"
            ELSE call'.pc = "infos" /\ call'.result = "none"
<1> DEFINE pc == IF call.kind = "eprocess_list" THEN "done" ELSE "infos"
           result == IF call.kind = "eprocess_list" THEN "ok" ELSE "none"
           todos == Seq(Procs) \cup Seq(Infos)
<1>1. call' = [call EXCEPT !.eprocs = eprocs, !.cur = Null, !.next = Null, !.todo = eprocs,
                           !.pc = pc, !.result = result]
  BY DEF ListWalked
<1>2. pc \in ListPlaces /\ result \in {"none", "ok", "err"} /\ eprocs \in todos
  BY DEF ListPlaces
<1>3. CallType = [kind : ListOps, arg : Queries \cup Procs \cup {Null}, pc : ListPlaces,
   result : {"none", "ok", "err"}, cur : ProcNodes \cup ModNodes \cup {Null},
   next : ProcNodes \cup {Null}, eprocs : Seq(ProcNodes), infos : Seq(Infos),
   todo : todos, info : Infos \cup {Null}, bases : Seq(ModNodes),
   entries : Seq(ModNodes), modules : Seq(ModNodes)]
  BY DEF CallType
<1> HIDE DEF pc, result, todos
<1>4. call \in CallType
  BY DEF ClientType
<1>5. /\ call' \in CallType
      /\ call'.eprocs = eprocs /\ call'.todo = eprocs /\ call'.kind = call.kind
      /\ call'.arg = call.arg /\ call'.infos = call.infos
      /\ call'.pc = pc /\ call'.result = result
  BY <1>1, <1>2, <1>3, <1>4
<1>6. QED
  BY <1>5 DEF pc, result

LEMMA BlinkRead ==
  ASSUME Types, Stands, ReadBlink
  PROVE  /\ Types' /\ UNCHANGED <<held, guestVars>>
         /\ call.eprocs \in Seq(Procs)
         /\ ~ListEnds(blink[call.cur]) =>
              call.cur \in Procs /\ call.cur \in ghost.ever
              /\ Append(call.eprocs, call.cur) \in Seq(Procs)
<1>1. /\ UNCHANGED <<held, guestVars>> /\ call.cur \in ProcNodes /\ call.pc = "blink"
      /\ call.cur \in ghost.ever \cup {ActiveHead}
      /\ call.cur = ActiveHead => call.next = Sys
      /\ ToSet(call.eprocs) \subseteq Procs
  BY DEF ReadBlink, Stands, Walking, Types, GuestType, ProcNodes
<1>2. call.eprocs \in Seq(ProcNodes) /\ call.eprocs \in Seq(Procs)
  BY <1>1, SeqWithin DEF Types, ClientType, CallType
<1>3. ASSUME ~ListEnds(blink[call.cur])
      PROVE  call.cur \in Procs /\ call.cur \in ghost.ever
             /\ Append(call.eprocs, call.cur) \in Seq(Procs)
             /\ Append(call.eprocs, call.cur) \in Seq(ProcNodes)
  <2>1. call.cur \in Procs /\ call.cur \in ghost.ever
    BY <1>1, <1>3 DEF ListEnds, Types, GuestType
  <2>2. QED
    BY <1>1, <1>2, <2>1, AppendSeq
<1>4. ASSUME UNCHANGED ghost PROVE GuestType'
  BY <1>1, <1>4 DEF Types, GuestType, guestVars
<1>5. CASE ReadFails /\ Return("err")
  <2>1. GuestType'
    BY <1>1, <1>5, Failed DEF Types, GuestType, guestVars
  <2>2. call' \in CallType
    BY <1>5, Returned DEF Types
  <2>3. QED
    BY <1>1, <1>2, <1>3, <2>1, <2>2 DEF Types, ClientType
<1>6. CASE ListEnds(blink[call.cur]) /\ ListWalked(call.eprocs) /\ UNCHANGED ghost
  <2>1. call' \in CallType
    BY <1>2, <1>6, WalkedList DEF Types
  <2>2. QED
    BY <1>1, <1>2, <1>3, <1>4, <1>6, <2>1 DEF Types, ClientType
<1>7. CASE ~ListEnds(blink[call.cur]) /\ ListWalked(Append(call.eprocs, call.cur)) /\ UNCHANGED ghost
  <2>1. call' \in CallType
    BY <1>3, <1>7, WalkedList DEF Types
  <2>2. QED
    BY <1>1, <1>2, <1>3, <1>4, <1>7, <2>1 DEF Types, ClientType
<1>8. CASE /\ ~ListEnds(blink[call.cur]) /\ UNCHANGED ghost
           /\ call' = [call EXCEPT !.eprocs = Append(call.eprocs, call.cur), !.cur = call.next,
                                    !.next = Null, !.pc = "flink"]
  <2>1. Append(call.eprocs, call.cur) \in Seq(ProcNodes) /\ "flink" \in ListPlaces
    BY <1>3, <1>8 DEF ListPlaces
  <2>2. call' \in CallType
    BY <2>1, <1>8 DEF Types, ClientType, CallType
  <2>3. QED
    BY <1>1, <1>2, <1>3, <1>4, <1>8, <2>2 DEF Types, ClientType
<1>9. QED
  BY <1>5, <1>6, <1>7, <1>8 DEF ReadBlink

LEMMA InfoRead ==
  ASSUME Types, Phases, ModuleLists, ReadInfo
  PROVE  /\ Types' /\ UNCHANGED <<held, guestVars>>
         /\ call.todo \in Seq(Procs) /\ call.todo # <<>> /\ Head(call.todo) \in Procs
         /\ HasPeb(Head(call.todo)) => InfoOf(Head(call.todo)) \in Infos
         /\ \/ /\ HasPeb(Head(call.todo)) /\ UNCHANGED ghost
               /\ call' = [call EXCEPT !.todo = Tail(call.todo),
                                       !.infos = Append(call.infos, InfoOf(Head(call.todo)))]
            \/ /\ ~HasPeb(Head(call.todo)) /\ UNCHANGED ghost
               /\ call' = [call EXCEPT !.todo = Tail(call.todo)]
            \/ ReadFails /\ call' = [call EXCEPT !.todo = Tail(call.todo)]
<1>1. call.todo \in Seq(Procs) /\ call.todo # <<>> /\ UNCHANGED <<held, guestVars>>
  BY DEF ReadInfo, Phases
<1>2. Head(call.todo) \in Procs /\ Tail(call.todo) \in Seq(Procs)
  BY <1>1, TailSeq
<1>3. HasPeb(Head(call.todo)) => InfoOf(Head(call.todo)) \in Infos
  BY <1>2, BasesFound DEF HasPeb, Types
<1>4. ASSUME UNCHANGED ghost PROVE GuestType'
  BY <1>1, <1>4 DEF Types, GuestType, guestVars
<1>5. CASE /\ HasPeb(Head(call.todo)) /\ UNCHANGED ghost
           /\ call' = [call EXCEPT !.todo = Tail(call.todo),
                                   !.infos = Append(call.infos, InfoOf(Head(call.todo)))]
  <2>1. Append(call.infos, InfoOf(Head(call.todo))) \in Seq(Infos)
    BY <1>3, <1>5, AppendSeq DEF Types, ClientType, CallType
  <2>2. call' \in CallType
    BY <2>1, <1>2, <1>5 DEF Types, ClientType, CallType
  <2>3. QED
    BY <1>1, <1>2, <1>3, <1>4, <1>5, <2>2 DEF Types, ClientType
<1>6. ASSUME call' = [call EXCEPT !.todo = Tail(call.todo)] PROVE call' \in CallType
  BY <1>2, <1>6 DEF Types, ClientType, CallType
<1>7. CASE /\ ~HasPeb(Head(call.todo)) /\ UNCHANGED ghost
           /\ call' = [call EXCEPT !.todo = Tail(call.todo)]
  BY <1>1, <1>2, <1>3, <1>4, <1>6, <1>7 DEF Types, ClientType
<1>8. CASE ReadFails /\ call' = [call EXCEPT !.todo = Tail(call.todo)]
  <2>1. GuestType'
    BY <1>1, <1>8, Failed DEF Types, GuestType, guestVars
  <2>2. QED
    BY <1>1, <1>2, <1>3, <1>6, <1>8, <2>1 DEF Types, ClientType
<1>9. QED
  <2>1. \/ /\ HasPeb(Head(call.todo)) /\ UNCHANGED ghost
           /\ call' = [call EXCEPT !.todo = Tail(call.todo),
                                   !.infos = Append(call.infos, InfoOf(Head(call.todo)))]
        \/ /\ ~HasPeb(Head(call.todo)) /\ UNCHANGED ghost
           /\ call' = [call EXCEPT !.todo = Tail(call.todo)]
        \/ ReadFails /\ call' = [call EXCEPT !.todo = Tail(call.todo)]
    BY DEF ReadInfo
  <2>2. QED
    BY <2>1, <1>5, <1>7, <1>8

LEMMA InfosKept ==
  ASSUME Types, InfosRead
  PROVE  /\ Types' /\ UNCHANGED <<ghost, guestVars>>
         /\ held' = held \/ \E i \in DOMAIN call.infos : held' = call.infos[i]
<1>1. UNCHANGED <<ghost, guestVars>>
  BY DEF InfosRead
<1>2. GuestType'
  BY <1>1 DEF Types, GuestType, guestVars
<1>3. ASSUME NEW i \in DOMAIN call.infos PROVE call.infos[i] \in Infos
  BY DEF Types, ClientType, CallType
<1>4. held' = held \/ \E i \in DOMAIN call.infos : held' = call.infos[i]
  BY DEF InfosRead
<1>5. held' \in Infos \cup {Null}
  BY <1>3, <1>4 DEF Types, ClientType
<1>6. CASE call' = [call EXCEPT !.todo = call.infos, !.pc = "probe"]
  <2>1. "probe" \in ListPlaces /\ call.infos \in Seq(Infos)
    BY DEF ListPlaces, Types, ClientType, CallType
  <2>2. call' \in CallType
    BY <1>6, <2>1 DEF Types, ClientType, CallType
  <2>3. QED
    BY <1>1, <1>2, <1>4, <1>5, <2>2 DEF Types, ClientType
<1>7. ASSUME NEW result \in {"ok", "err"}, Return(result) PROVE call' \in CallType
  BY <1>7, Returned DEF Types
<1>8. Return("ok") \/ Return("err") \/ call' = [call EXCEPT !.todo = call.infos, !.pc = "probe"]
  BY DEF InfosRead
<1>9. QED
  BY <1>1, <1>2, <1>4, <1>5, <1>6, <1>7, <1>8 DEF Types, ClientType

LEMMA Probed ==
  ASSUME Types, Phases, Probe
  PROVE  /\ Types' /\ UNCHANGED <<held, ghost, guestVars>>
         /\ call.todo \in Seq(Infos)
         /\ call.todo # <<>> =>
              /\ [call EXCEPT !.todo = Tail(call.todo)] \in CallType
              /\ Head(call.todo) \in Infos
<1>1. UNCHANGED <<held, ghost, guestVars>> /\ call.todo \in Seq(Infos)
  BY DEF Probe, Phases
<1>2. GuestType'
  BY <1>1 DEF Types, GuestType, guestVars
<1>3. CASE call.todo = <<>> /\ Return("err")
  <2>1. call' \in CallType
    BY <1>3, Returned DEF Types
  <2>2. QED
    BY <1>1, <1>2, <1>3, <2>1 DEF Types, ClientType
<1>4. CASE call.todo # <<>>
  <2>1. Head(call.todo) \in Infos /\ Tail(call.todo) \in Seq(Infos)
    BY <1>1, <1>4, TailSeq
  <2>2. [call EXCEPT !.todo = Tail(call.todo)] \in CallType
    BY <2>1 DEF Types, ClientType, CallType
  <2>3. WalkModules([call EXCEPT !.todo = Tail(call.todo)], Head(call.todo)) \in CallType
    BY <2>1, <2>2, WalkBegins
  <2>4. call' \in CallType
    BY <1>4, <2>2, <2>3 DEF Probe
  <2>5. QED
    BY <1>1, <1>2, <1>4, <2>1, <2>2, <2>4 DEF Types, ClientType
<1>5. QED
  BY <1>3, <1>4 DEF Probe

LEMMA LinkRead ==
  ASSUME Types, Phases, ReadEntryLink
  PROVE  /\ Types' /\ UNCHANGED <<held, guestVars>>
         /\ call.info \in Infos /\ call.info.proc \in Procs /\ call.cur \in ModNodes
         /\ call.entries \in Seq(ModNodes)
         /\ mlink[call.info.proc][call.cur] \in ModNodes \cup {Null}
<1>1. /\ UNCHANGED <<held, guestVars>> /\ call.info \in Infos /\ call.cur \in ModNodes
      /\ call.entries \in Seq(ModNodes) /\ call.pc = "entry"
  BY DEF ReadEntryLink, Phases, Types, ClientType, CallType
<1>2. call.info.proc \in Procs
  BY <1>1 DEF Infos
<1>3. mlink[call.info.proc] \in [ModNodes -> ModNodes \cup {Null}]
  BY <1>2 DEF Types, GuestType
<1> DEFINE next == mlink[call.info.proc][call.cur]
<1>4. next \in ModNodes \cup {Null}
  BY <1>1, <1>3
<1> DEFINE entries == Append(call.entries, call.cur)
           pc == IF EntriesEnd(next) \/ Len(entries) = MaxIter THEN "names" ELSE "entry"
<1>5. entries \in Seq(ModNodes) /\ pc \in ListPlaces
  BY <1>1, AppendSeq DEF ListPlaces
<1>6. CASE ReadFails /\ Return("err")
  <2>1. GuestType'
    BY <1>1, <1>6, Failed DEF Types, GuestType, guestVars
  <2>2. call' \in CallType
    BY <1>6, Returned DEF Types
  <2>3. QED
    BY <1>1, <1>2, <1>4, <2>1, <2>2 DEF Types, ClientType
<1>7. CASE UNCHANGED ghost /\ call' = [call EXCEPT !.entries = entries, !.cur = next, !.pc = pc]
  <2>1. GuestType'
    BY <1>1, <1>7 DEF Types, GuestType, guestVars
  <2> HIDE DEF next, entries, pc
  <2>2. call' \in CallType
    BY <1>4, <1>5, <1>7 DEF Types, ClientType, CallType
  <2>3. QED
    BY <1>1, <1>2, <1>4, <2>1, <2>2 DEF Types, ClientType, next
<1>8. QED
  BY <1>6, <1>7 DEF ReadEntryLink

LEMMA NameRead ==
  ASSUME Types, ReadName
  PROVE  /\ Types' /\ UNCHANGED <<held, guestVars>>
         /\ call.entries \in Seq(ModNodes) /\ call.entries # <<>> /\ Head(call.entries) \in ModNodes
         /\ call.modules \in Seq(ModNodes)
         /\ \/ /\ Readable(call.info.proc, Head(call.entries)) /\ UNCHANGED ghost
               /\ call' = [call EXCEPT !.entries = Tail(call.entries),
                                       !.modules = Append(call.modules, Head(call.entries))]
            \/ /\ ~Readable(call.info.proc, Head(call.entries)) /\ UNCHANGED ghost
               /\ call' = [call EXCEPT !.entries = Tail(call.entries)]
            \/ ReadFails /\ call' = [call EXCEPT !.entries = Tail(call.entries)]
<1>1. /\ UNCHANGED <<held, guestVars>> /\ call.entries \in Seq(ModNodes) /\ call.entries # <<>>
      /\ call.modules \in Seq(ModNodes)
  BY DEF ReadName, Types, ClientType, CallType
<1>2. Head(call.entries) \in ModNodes /\ Tail(call.entries) \in Seq(ModNodes)
  BY <1>1, TailSeq
<1>3. [call EXCEPT !.entries = Tail(call.entries)] \in CallType
  BY <1>2 DEF Types, ClientType, CallType
<1>4. Append(call.modules, Head(call.entries)) \in Seq(ModNodes)
  BY <1>1, <1>2, AppendSeq
<1>5. [call EXCEPT !.entries = Tail(call.entries),
                   !.modules = Append(call.modules, Head(call.entries))] \in CallType
  BY <1>2, <1>4 DEF Types, ClientType, CallType
<1>6. \/ /\ Readable(call.info.proc, Head(call.entries)) /\ UNCHANGED ghost
         /\ call' = [call EXCEPT !.entries = Tail(call.entries),
                                 !.modules = Append(call.modules, Head(call.entries))]
      \/ /\ ~Readable(call.info.proc, Head(call.entries)) /\ UNCHANGED ghost
         /\ call' = [call EXCEPT !.entries = Tail(call.entries)]
      \/ ReadFails /\ call' = [call EXCEPT !.entries = Tail(call.entries)]
  BY DEF ReadName, Types, ClientType, CallType
<1>7. call' \in CallType
  BY <1>3, <1>5, <1>6
<1>8. GuestType'
  <2>1. CASE UNCHANGED ghost
    BY <1>1, <2>1 DEF Types, GuestType, guestVars
  <2>2. CASE ReadFails
    BY <1>1, <2>2, Failed DEF Types, GuestType, guestVars
  <2>3. QED
    BY <1>6, <2>1, <2>2
<1>9. QED
  BY <1>1, <1>2, <1>6, <1>7, <1>8 DEF Types, ClientType

LEMMA ListsRead ==
  ASSUME Types, NamesRead
  PROVE  /\ Types' /\ UNCHANGED <<ghost, guestVars>>
         /\ \/ /\ Len(call.bases) > 1 /\ UNCHANGED held
               /\ call' = [call EXCEPT !.bases = Tail(call.bases), !.cur = call.bases[2], !.pc = "entry"]
               /\ Tail(call.bases) \in Seq(ModNodes) /\ call.bases[2] \in ModNodes
               /\ Len(Tail(call.bases)) = Len(call.bases) - 1
               /\ Tail(call.bases)[1] = call.bases[2]
            \/ Len(call.bases) = 1 /\ ModulesRead
<1>1. UNCHANGED <<ghost, guestVars>> /\ call.bases \in Seq(ModNodes)
  BY DEF NamesRead, Types, ClientType, CallType
<1>2. GuestType'
  BY <1>1 DEF Types, GuestType, guestVars
<1>3. CASE /\ Len(call.bases) > 1 /\ UNCHANGED held
           /\ call' = [call EXCEPT !.bases = Tail(@), !.cur = call.bases[2], !.pc = "entry"]
  <2>1. call.bases # <<>> /\ Len(call.bases) \in Nat
    BY <1>1, <1>3
  <2>2. /\ Tail(call.bases) \in Seq(ModNodes) /\ Len(Tail(call.bases)) = Len(call.bases) - 1
        /\ Tail(call.bases)[1] = call.bases[2] /\ call.bases[2] \in ModNodes
    BY <1>1, <1>3, <2>1, TailSeq
  <2>3. call' = [call EXCEPT !.bases = Tail(call.bases), !.cur = call.bases[2], !.pc = "entry"]
    BY <1>3 DEF Types, ClientType, CallType
  <2>4. "entry" \in ListPlaces
    BY DEF ListPlaces
  <2>5. call' \in CallType
    BY <2>2, <2>3, <2>4 DEF Types, ClientType, CallType
  <2>6. QED
    BY <1>1, <1>2, <1>3, <2>2, <2>3, <2>5 DEF Types, ClientType
<1>4. CASE Len(call.bases) = 1 /\ ModulesRead
  <2>1. ASSUME NEW result \in {"ok", "err"}, Return(result) PROVE call' \in CallType
    BY <2>1, Returned DEF Types
  <2>2. \/ Return("ok") \/ Return("err")
        \/ call' = [call EXCEPT !.pc = "probe"]
    BY <1>4 DEF ModulesRead
  <2>3. "probe" \in ListPlaces
    BY DEF ListPlaces
  <2>4. call' \in CallType
    BY <2>1, <2>2, <2>3 DEF Types, ClientType, CallType
  <2>5. held' = held \/ held' = call.info
    BY <1>4 DEF ModulesRead
  <2>6. held' \in Infos \cup {Null}
    BY <2>5 DEF Types, ClientType, CallType
  <2>7. QED
    BY <1>1, <1>2, <1>4, <2>4, <2>6 DEF Types, ClientType
<1>5. QED
  BY <1>3, <1>4 DEF NamesRead

-----------------------------------------------------------------------------
(* The ring of processes                                                   *)

\* InsertTailList: the new process stands before the head.
LEMMA LinkedAtTail ==
  ASSUME GuestType, Ring, NEW p \in Procs, CreateProcess(p)
  PROVE  LET t == blink[ActiveHead] IN
         /\ p \notin linked /\ t \in linked /\ t # p /\ flink[t] = ActiveHead
         /\ linked' = linked \cup {p}
         /\ \A n \in ProcNodes :
              /\ flink'[n] = IF n = p THEN ActiveHead ELSE IF n = t THEN p ELSE flink[n]
              /\ blink'[n] = IF n = p THEN t ELSE IF n = ActiveHead THEN p ELSE blink[n]
<1> DEFINE t == blink[ActiveHead]
<1>1. p \notin linked /\ linked' = linked \cup {p}
  BY DEF CreateProcess
<1>2. t \in linked \cup {ActiveHead} /\ flink[t] = ActiveHead /\ flink[ActiveHead] = Sys
  BY DEF Ring
<1>3. t \in linked /\ t # p /\ t \in ProcNodes /\ p \in ProcNodes /\ p # ActiveHead
  BY <1>1, <1>2, NodesApart DEF GuestType, ProcNodes
<1>4. /\ flink' = [flink EXCEPT ![t] = p, ![p] = ActiveHead]
      /\ blink' = [blink EXCEPT ![ActiveHead] = p, ![p] = t]
  BY DEF CreateProcess
<1> HIDE DEF t
<1>5. \A n \in ProcNodes :
        /\ flink'[n] = IF n = p THEN ActiveHead ELSE IF n = t THEN p ELSE flink[n]
        /\ blink'[n] = IF n = p THEN t ELSE IF n = ActiveHead THEN p ELSE blink[n]
  BY <1>3, <1>4 DEF GuestType
<1>6. QED
  BY <1>1, <1>2, <1>3, <1>5 DEF t

\* The ring is whole again.
LEMMA CreateRing ==
  ASSUME GuestType, Ring, NEW p \in Procs, CreateProcess(p)
  PROVE  Ring'
<1>1. PICK t : t = blink[ActiveHead]
  OBVIOUS
<1>2. /\ p \notin linked /\ t \in linked /\ t # p /\ flink[t] = ActiveHead
      /\ linked' = linked \cup {p}
      /\ \A n \in ProcNodes :
           /\ flink'[n] = IF n = p THEN ActiveHead ELSE IF n = t THEN p ELSE flink[n]
           /\ blink'[n] = IF n = p THEN t ELSE IF n = ActiveHead THEN p ELSE blink[n]
  BY <1>1, LinkedAtTail
<1>3. linked \subseteq ProcNodes /\ p \in ProcNodes /\ ActiveHead \in ProcNodes /\ p # ActiveHead
      /\ t # ActiveHead /\ Sys # ActiveHead /\ ActiveHead \notin linked
  BY <1>2, NodesApart DEF GuestType, ProcNodes
<1>4. Sys \in linked' /\ flink'[ActiveHead] = Sys
  BY <1>2, <1>3 DEF Ring
<1>5. ASSUME NEW n \in linked' \cup {ActiveHead}
      PROVE  /\ flink'[n] \in linked' \cup {ActiveHead} /\ blink'[flink'[n]] = n
             /\ blink'[n] \in linked' \cup {ActiveHead} /\ flink'[blink'[n]] = n
  <2>1. CASE n = p
    BY <2>1, <1>2, <1>3
  <2>2. CASE n = ActiveHead
    <3>1. flink'[n] = Sys /\ blink'[n] = p
      BY <2>2, <1>2, <1>3, <1>4
    <3>2. blink'[Sys] = ActiveHead
      BY <1>2, <1>3 DEF Ring
    <3>3. QED
      BY <2>2, <3>1, <3>2, <1>2, <1>3, <1>4
  <2>3. CASE n \in linked
    <3>1. n # p /\ n # ActiveHead /\ n \in ProcNodes
      BY <2>3, <1>2, <1>3
    <3>2. /\ flink[n] \in linked \cup {ActiveHead} /\ blink[flink[n]] = n
          /\ blink[n] \in linked \cup {ActiveHead} /\ flink[blink[n]] = n
      BY <2>3 DEF Ring
    <3>3. flink'[n] \in linked' \cup {ActiveHead} /\ blink'[flink'[n]] = n
      <4>1. CASE n = t
        BY <4>1, <3>1, <1>2, <1>3
      <4>2. CASE n # t
        <5>1. flink'[n] = flink[n] /\ flink[n] # ActiveHead /\ flink[n] \in linked
          BY <4>2, <3>1, <3>2, <1>1, <1>2
        <5>2. QED
          BY <5>1, <3>2, <1>2, <1>3
      <4>3. QED
        BY <4>1, <4>2
    <3>4. blink'[n] \in linked' \cup {ActiveHead} /\ flink'[blink'[n]] = n
      <4>1. blink'[n] = blink[n] /\ blink[n] # p /\ blink[n] # t /\ blink[n] \in ProcNodes
        BY <3>1, <3>2, <1>2, <1>3
      <4>2. QED
        BY <4>1, <3>2, <1>2, <1>3
    <3>5. QED
      BY <3>3, <3>4
  <2>4. QED
    BY <2>1, <2>2, <2>3, <1>2
<1>6. QED
  BY <1>4, <1>5 DEF Ring

\* RemoveEntryList: the neighbours are joined.
LEMMA Unlinked ==
  ASSUME GuestType, Ring, NEW p \in Procs, ExitProcess(p),
         NEW m, NEW rank, Ranked(rank, m)
  PROVE  LET a == blink[p]
             b == flink[p] IN
         /\ p \in linked /\ p # Sys /\ linked' = linked \ {p}
         /\ a \in linked \cup {ActiveHead} /\ b \in linked \cup {ActiveHead}
         /\ a # ActiveHead /\ a # p /\ b # p /\ flink[a] = p /\ blink[b] = p
         /\ \A n \in ProcNodes :
              /\ flink'[n] = IF n = a THEN b ELSE flink[n]
              /\ blink'[n] = IF n = b THEN a ELSE blink[n]
<1> DEFINE a == blink[p]
           b == flink[p]
<1>1. p \in linked /\ p # Sys /\ linked' = linked \ {p}
  BY DEF ExitProcess
<1>2. /\ a \in linked \cup {ActiveHead} /\ b \in linked \cup {ActiveHead}
      /\ flink[a] = p /\ blink[b] = p /\ flink[ActiveHead] = Sys
  BY <1>1 DEF Ring
<1>3. a # ActiveHead
  BY <1>1, <1>2
<1>b. b # p /\ a # p
  <2>1. p # ActiveHead
    BY NodesApart
  <2>2. b # p
    BY <1>1, <2>1 DEF Ranked
  <2>3. QED
    BY <2>2, <1>2
<1>4. flink' = [flink EXCEPT ![a] = b] /\ blink' = [blink EXCEPT ![b] = a]
  BY DEF ExitProcess
<1> HIDE DEF a, b
<1>5. \A n \in ProcNodes :
        /\ flink'[n] = IF n = a THEN b ELSE flink[n]
        /\ blink'[n] = IF n = b THEN a ELSE blink[n]
  BY <1>4 DEF GuestType
<1>6. QED
  BY <1>1, <1>2, <1>3, <1>b, <1>5 DEF a, b

\* The ring is whole without it.
LEMMA ExitRing ==
  ASSUME GuestType, Ring, NEW p \in Procs, ExitProcess(p),
         NEW m, NEW rank, Ranked(rank, m)
  PROVE  Ring'
<1>1. PICK a, b : a = blink[p] /\ b = flink[p]
  OBVIOUS
<1>2. /\ p \in linked /\ p # Sys /\ linked' = linked \ {p}
      /\ a \in linked \cup {ActiveHead} /\ b \in linked \cup {ActiveHead}
      /\ a # ActiveHead /\ a # p /\ b # p /\ flink[a] = p /\ blink[b] = p
      /\ \A n \in ProcNodes :
           /\ flink'[n] = IF n = a THEN b ELSE flink[n]
           /\ blink'[n] = IF n = b THEN a ELSE blink[n]
  BY <1>1, Unlinked
<1>3. linked \subseteq ProcNodes /\ ActiveHead \in ProcNodes /\ p # ActiveHead /\ ActiveHead \notin linked
  BY <1>2, NodesApart DEF GuestType, ProcNodes
<1>4. Sys \in linked' /\ flink'[ActiveHead] = Sys
  BY <1>2, <1>3 DEF Ring
<1>5. ASSUME NEW n \in linked' \cup {ActiveHead}
      PROVE  /\ flink'[n] \in linked' \cup {ActiveHead} /\ blink'[flink'[n]] = n
             /\ blink'[n] \in linked' \cup {ActiveHead} /\ flink'[blink'[n]] = n
  <2>1. n \in linked \cup {ActiveHead} /\ n # p /\ n \in ProcNodes
    BY <1>2, <1>3
  <2>2. /\ flink[n] \in linked \cup {ActiveHead} /\ blink[flink[n]] = n
        /\ blink[n] \in linked \cup {ActiveHead} /\ flink[blink[n]] = n
    BY <2>1 DEF Ring
  <2>3. a \in ProcNodes /\ b \in ProcNodes /\ flink[n] \in ProcNodes /\ blink[n] \in ProcNodes
    BY <2>2, <1>2, <1>3
  <2>4. flink'[n] \in linked' \cup {ActiveHead} /\ blink'[flink'[n]] = n
    <3>1. CASE n = a
      BY <3>1, <2>1, <2>3, <1>2
    <3>2. CASE n # a
      <4>1. flink'[n] = flink[n] /\ flink[n] # p /\ flink[n] # b
        BY <3>2, <2>1, <2>2, <1>1, <1>2
      <4>2. QED
        BY <4>1, <2>2, <2>3, <1>2
    <3>3. QED
      BY <3>1, <3>2
  <2>5. blink'[n] \in linked' \cup {ActiveHead} /\ flink'[blink'[n]] = n
    <3>1. CASE n = b
      BY <3>1, <2>1, <2>3, <1>2
    <3>2. CASE n # b
      <4>1. blink'[n] = blink[n] /\ blink[n] # p /\ blink[n] # a
        BY <3>2, <2>1, <2>2, <1>1, <1>2
      <4>2. QED
        BY <4>1, <2>2, <2>3, <1>2
    <3>3. QED
      BY <3>1, <3>2
  <2>6. QED
    BY <2>4, <2>5
<1>6. QED
  BY <1>4, <1>5 DEF Ring

\* A block that is given back was in no ring.
LEMMA ReclaimRing ==
  ASSUME GuestType, Ring, NEW p \in Procs, ReclaimProcess(p)
  PROVE  /\ Ring' /\ linked' = linked /\ p \notin linked
         /\ \A n \in ProcNodes :
              /\ flink'[n] = IF n = p THEN Null ELSE flink[n]
              /\ blink'[n] = IF n = p THEN Null ELSE blink[n]
<1>1. /\ p \notin linked /\ linked' = linked /\ p # ActiveHead
      /\ flink' = [flink EXCEPT ![p] = Null] /\ blink' = [blink EXCEPT ![p] = Null]
  BY NodesApart DEF ReclaimProcess
<1>2. \A n \in ProcNodes :
        /\ flink'[n] = IF n = p THEN Null ELSE flink[n]
        /\ blink'[n] = IF n = p THEN Null ELSE blink[n]
  BY <1>1 DEF GuestType
<1>3. linked \subseteq ProcNodes /\ ActiveHead \in ProcNodes
  BY DEF GuestType, ProcNodes
<1>4. \A n \in linked \cup {ActiveHead} : flink'[n] = flink[n] /\ blink'[n] = blink[n]
  BY <1>1, <1>2, <1>3
<1>5. QED
  BY <1>1, <1>2, <1>4 DEF Ring

-----------------------------------------------------------------------------
(* The order a walk follows                                                *)

\* A new process comes after all the others, so its rank is one more.
LEMMA CreateOrder ==
  ASSUME Types, Ring, Links, Stands, NEW p \in Procs, CreateProcess(p),
         NEW m \in Nat, NEW rank \in [Procs -> 0 .. m], InOrder(rank, m)
  PROVE  Links' /\ Stands' /\ WalkInOrder'
<1>1. PICK t : t = blink[ActiveHead]
  OBVIOUS
<1>2. /\ p \notin linked /\ t \in linked /\ t # p /\ flink[t] = ActiveHead
      /\ linked' = linked \cup {p}
      /\ \A n \in ProcNodes :
           /\ flink'[n] = IF n = p THEN ActiveHead ELSE IF n = t THEN p ELSE flink[n]
           /\ blink'[n] = IF n = p THEN t ELSE IF n = ActiveHead THEN p ELSE blink[n]
  BY <1>1, LinkedAtTail DEF Types
<1>3. /\ linked \subseteq Procs /\ ghost.ever \subseteq Procs /\ ghost.always \subseteq linked
      /\ linked \subseteq ghost.ever /\ Sys \in linked /\ Sys \in ghost.always
      /\ ActiveHead \notin Procs /\ Null \notin Procs /\ Null # ActiveHead
      /\ Procs \subseteq ProcNodes /\ p # Sys
  BY <1>2, NodesApart DEF Types, GuestType, ProcNodes, Links
<1>4. /\ ghost'.always = ghost.always /\ ghost'.ever = ghost.ever \cup {p}
      /\ ghost'.disturbed = (ghost.disturbed \/ p \in ghost.ever)
  BY <1>2, <1>3 DEF CreateProcess, Observe, Types, GuestType
<1>5. call' = call
  BY DEF CreateProcess, GuestStep, clientVars
<1>6. \A n \in ghost.ever : flink[n] \in ghost.ever \cup {ActiveHead, Null}
  BY DEF Links
<1>7. Links'
  <2>1. \A n \in ghost'.ever : flink'[n] \in ghost'.ever \cup {ActiveHead, Null}
    BY <1>2, <1>3, <1>4, <1>6
  <2>2. QED
    BY <2>1, <1>2, <1>3, <1>4 DEF Links
<1>8. Stands'
  BY <1>4, <1>5 DEF Stands, Walking
<1>9. PICK rank2 \in [Procs -> 0 .. m + 1] : rank2 = [rank EXCEPT ![p] = m + 1]
  <2>1. [rank EXCEPT ![p] = m + 1] \in [Procs -> 0 .. m + 1]
    OBVIOUS
  <2>2. QED
    BY <2>1
<1>10. /\ rank2[p] = m + 1 /\ \A q \in Procs \ {p} : rank2[q] = rank[q]
       /\ \A q \in Procs : rank[q] \in 0 .. m /\ rank[q] \in Int /\ rank2[q] \in Int
  BY <1>9
<1>11. Ranked(rank2, m + 1)'
  <2>1. ASSUME NEW x \in linked'
        PROVE  /\ rank2[Sys] <= rank2[x]
               /\ flink'[x] # ActiveHead => rank2[x] < rank2[flink'[x]]
    <3>1. CASE x = p
      BY <3>1, <1>2, <1>3, <1>10
    <3>2. CASE x # p
      <4>1. x \in linked /\ x \in Procs /\ x \in ProcNodes
        BY <3>2, <1>2, <1>3
      <4>2. /\ rank[Sys] <= rank[x]
            /\ flink[x] # ActiveHead => rank[x] < rank[flink[x]]
            /\ flink[x] \in linked \cup {ActiveHead}
        BY <4>1 DEF InOrder, Ranked, Ring
      <4>3. CASE x = t
        BY <4>1, <4>2, <4>3, <3>2, <1>2, <1>3, <1>10
      <4>4. CASE x # t
        <5>1. flink'[x] = flink[x] /\ flink[x] # p
          BY <4>1, <4>2, <4>4, <3>2, <1>2, <1>3
        <5>2. QED
          BY <5>1, <4>1, <4>2, <3>2, <1>3, <1>10
      <4>5. QED
        BY <4>3, <4>4
    <3>3. QED
      BY <3>1, <3>2
  <2>2. ASSUME NEW x \in linked', NEW q \in linked'
        PROVE  /\ rank2[x] = rank2[q] => x = q
               /\ rank2[x] < rank2[q] => flink'[x] # ActiveHead /\ rank2[flink'[x]] <= rank2[q]
    <3>1. x \in Procs /\ q \in Procs /\ x \in ProcNodes
      BY <1>2, <1>3
    <3>2. CASE x = p
      BY <3>1, <3>2, <1>2, <1>10
    <3>3. CASE x # p /\ q = p
      <4>1. x \in linked
        BY <3>3, <1>2
      <4>2. CASE x = t
        BY <4>2, <3>1, <3>3, <1>2, <1>3, <1>10
      <4>3. CASE x # t
        <5>1. flink[x] \in linked \cup {ActiveHead} /\ blink[flink[x]] = x
          BY <4>1 DEF Ring
        <5>2. flink'[x] = flink[x] /\ flink[x] # ActiveHead /\ flink[x] \in linked /\ flink[x] # p
          BY <5>1, <4>3, <3>1, <3>3, <1>1, <1>2
        <5>3. QED
          BY <5>2, <3>1, <3>3, <1>3, <1>10
      <4>4. QED
        BY <4>2, <4>3
    <3>4. CASE x # p /\ q # p
      <4>1. x \in linked /\ q \in linked
        BY <3>4, <1>2
      <4>2. /\ rank[x] = rank[q] => x = q
            /\ rank[x] < rank[q] => flink[x] # ActiveHead /\ rank[flink[x]] <= rank[q]
            /\ flink[x] \in linked \cup {ActiveHead}
        BY <4>1 DEF InOrder, Ranked, Ring
      <4>3. rank2[x] = rank[x] /\ rank2[q] = rank[q]
        BY <3>1, <3>4, <1>10
      <4>4. CASE rank[x] < rank[q]
        <5>1. x # t /\ flink[x] # ActiveHead /\ flink[x] # p /\ flink[x] \in Procs
          BY <4>2, <4>4, <1>2, <1>3
        <5>2. flink'[x] = flink[x] /\ rank2[flink[x]] = rank[flink[x]]
          BY <5>1, <3>1, <3>4, <1>2, <1>10
        <5>3. QED
          BY <5>1, <5>2, <4>2, <4>3, <4>4
      <4>5. QED
        BY <4>2, <4>3, <4>4
    <3>5. QED
      BY <3>2, <3>3, <3>4
  <2>3. QED
    BY <2>1, <2>2, <1>9 DEF Ranked
<1>12. ASSUME ~ghost'.disturbed
       PROVE  ~ghost.disturbed /\ p \notin ghost.ever
  BY <1>4, <1>12
<1>13. Ahead(rank2)'
  <2>1. SUFFICES ASSUME ~ghost'.disturbed, NEW x \in ghost'.ever
                 PROVE  /\ flink'[x] # Null /\ blink'[x] # Null
                        /\ rank2[Sys] <= rank2[x]
                        /\ flink'[x] # ActiveHead => rank2[x] < rank2[flink'[x]]
                        /\ \A q \in ghost'.ever : rank2[x] = rank2[q] => x = q
                        /\ \A r \in ghost'.always :
                             rank2[x] < rank2[r] => flink'[x] # ActiveHead /\ rank2[flink'[x]] <= rank2[r]
    BY DEF Ahead
  <2>2. ~ghost.disturbed /\ p \notin ghost.ever
    BY <1>12, <2>1
  <2>3. CASE x = p
    <3>1. flink'[x] = ActiveHead /\ blink'[x] = t /\ t # Null
      BY <2>3, <1>2, <1>3
    <3>2. \A q \in ghost'.ever : rank2[x] = rank2[q] => x = q
      BY <2>3, <1>3, <1>4, <1>10
    <3>3. \A r \in ghost'.always : ~(rank2[x] < rank2[r])
      BY <2>2, <2>3, <1>3, <1>4, <1>10
    <3>4. rank2[Sys] <= rank2[x]
      BY <2>3, <1>3, <1>10
    <3>5. QED
      BY <3>1, <3>2, <3>3, <3>4, <1>3
  <2>4. CASE x # p
    <3>1. x \in ghost.ever /\ x \in Procs /\ x \in ProcNodes
      BY <2>4, <1>3, <1>4
    <3>2. /\ flink[x] # Null /\ blink[x] # Null
          /\ rank[Sys] <= rank[x]
          /\ flink[x] # ActiveHead => rank[x] < rank[flink[x]]
          /\ \A q \in ghost.ever : rank[x] = rank[q] => x = q
          /\ \A r \in ghost.always :
               rank[x] < rank[r] => flink[x] # ActiveHead /\ rank[flink[x]] <= rank[r]
      BY <2>2, <3>1 DEF InOrder, Ahead
    <3>3. rank2[x] = rank[x] /\ rank2[Sys] = rank[Sys]
      BY <2>4, <3>1, <1>3, <1>10
    <3>4. \A q \in ghost'.ever : rank2[x] = rank2[q] => x = q
      BY <3>1, <3>2, <3>3, <1>3, <1>4, <1>10
    <3>5. blink'[x] # Null
      BY <3>1, <3>2, <2>4, <1>2, <1>3
    <3>6. CASE x = t
      <4>1. flink'[x] = p
        BY <3>6, <3>1, <2>4, <1>2
      <4>2. \A r \in ghost.always : r # p /\ r \in Procs /\ ~(rank[x] < rank[r])
        BY <3>2, <3>6, <2>2, <1>2, <1>3
      <4>3. \A r \in ghost'.always : ~(rank2[x] < rank2[r])
        BY <4>2, <3>3, <1>4, <1>10
      <4>4. rank2[x] < rank2[p]
        BY <3>1, <3>3, <1>10
      <4>5. QED
        BY <4>1, <4>3, <4>4, <3>2, <3>3, <3>4, <3>5, <1>3
    <3>7. CASE x # t
      <4>1. flink'[x] = flink[x] /\ flink[x] # p /\ flink[x] \in Procs \cup {ActiveHead}
        BY <3>1, <3>2, <3>7, <2>2, <2>4, <1>2, <1>3, <1>6
      <4>2. flink[x] # ActiveHead => rank2[flink[x]] = rank[flink[x]]
        BY <4>1, <1>10
      <4>3. \A r \in ghost'.always : r \in Procs /\ rank2[r] = rank[r]
        BY <2>2, <1>3, <1>4, <1>10
      <4>4. \A r \in ghost'.always :
              rank2[x] < rank2[r] => flink'[x] # ActiveHead /\ rank2[flink'[x]] <= rank2[r]
        BY <4>1, <4>2, <4>3, <3>2, <3>3, <1>4
      <4>5. QED
        BY <4>1, <4>2, <4>4, <3>2, <3>3, <3>4, <3>5
    <3>8. QED
      BY <3>6, <3>7
  <2>5. QED
    BY <2>3, <2>4
<1>14. Reported(rank2)'
  <2>1. SUFFICES ASSUME Walking, ~ghost'.disturbed
                 PROVE Reported(rank2)'
    BY <1>5 DEF Reported, Walking
  <2>2. ~ghost.disturbed /\ p \notin ghost.ever
    BY <1>12, <2>1
  <2>3. \A r \in ghost.always : r # p /\ r \in Procs /\ rank2[r] = rank[r]
    BY <2>2, <1>3, <1>10
  <2>4. call.cur \in ghost.ever \cup {ActiveHead}
        /\ (call.pc = "blink" => call.next \in ghost.ever \cup {ActiveHead, Null})
    BY <2>1 DEF Stands
  <2>5. call.cur # ActiveHead => rank2[call.cur] = rank[call.cur]
    BY <2>2, <2>4, <1>3, <1>10
  <2>6. call.pc = "blink" /\ call.next # ActiveHead /\ call.next # Null => rank2[call.next] = rank[call.next]
    BY <2>2, <2>4, <1>3, <1>10
  <2>7. Reported(rank)
    BY DEF InOrder
  <2>8. /\ \A r \in ghost.always :
             call.cur = ActiveHead \/ rank[r] < rank[call.cur] => r \in ToSet(call.eprocs)
        /\ call.pc = "blink" /\ call.cur # ActiveHead =>
             /\ call.next # Null
             /\ call.next # ActiveHead => rank[call.cur] < rank[call.next]
             /\ \A r \in ghost.always :
                  rank[call.cur] < rank[r]
                    => call.next # ActiveHead /\ rank[call.next] <= rank[r]
    BY <2>1, <2>2, <2>7 DEF Reported
  <2>9. \A r \in ghost.always :
             call.cur = ActiveHead \/ rank2[r] < rank2[call.cur] => r \in ToSet(call.eprocs)
    BY <2>3, <2>5, <2>8
  <2>10. call.pc = "blink" /\ call.cur # ActiveHead =>
             /\ call.next # Null
             /\ call.next # ActiveHead => rank2[call.cur] < rank2[call.next]
             /\ \A r \in ghost.always :
                  rank2[call.cur] < rank2[r]
                    => call.next # ActiveHead /\ rank2[call.next] <= rank2[r]
    BY <2>3, <2>5, <2>6, <2>8
  <2>11. QED
    BY <2>9, <2>10, <1>4, <1>5 DEF Reported
<1>15. WalkInOrder'
  <2>1. m + 1 \in Nat
    OBVIOUS
  <2>2. QED
    BY <2>1, <1>11, <1>13, <1>14 DEF WalkInOrder
<1>16. QED
  BY <1>7, <1>8, <1>15

\* What a step of the guest that links nothing means for a walk under way.
LEMMA ReportedKept ==
  ASSUME NEW rank, Reported(rank), call' = call, ghost'.always \subseteq ghost.always,
         ghost.disturbed => ghost'.disturbed
  PROVE  Reported(rank)'
BY DEF Reported, Walking

\* A process that leaves keeps its rank: a walk that stands on it goes on.
LEMMA ExitOrder ==
  ASSUME Types, Ring, Links, Stands, NEW p \in Procs, ExitProcess(p),
         NEW m \in Nat, NEW rank \in [Procs -> 0 .. m], InOrder(rank, m)
  PROVE  Links' /\ Stands' /\ WalkInOrder'
<1>1. PICK a, b : a = blink[p] /\ b = flink[p]
  OBVIOUS
<1>2. /\ p \in linked /\ p # Sys /\ linked' = linked \ {p}
      /\ a \in linked \cup {ActiveHead} /\ b \in linked \cup {ActiveHead}
      /\ a # ActiveHead /\ a # p /\ b # p /\ flink[a] = p /\ blink[b] = p
      /\ \A n \in ProcNodes :
           /\ flink'[n] = IF n = a THEN b ELSE flink[n]
           /\ blink'[n] = IF n = b THEN a ELSE blink[n]
  BY <1>1, Unlinked DEF Types, InOrder
<1>3. /\ linked \subseteq Procs /\ ghost.ever \subseteq Procs /\ ghost.always \subseteq linked
      /\ linked \subseteq ghost.ever /\ Sys \in linked /\ Sys \in ghost.always
      /\ ActiveHead \notin Procs /\ Null \notin Procs /\ Null # ActiveHead
      /\ Procs \subseteq ProcNodes
  BY NodesApart DEF Types, GuestType, ProcNodes, Links
<1>4. /\ ghost'.always = ghost.always \ {p} /\ ghost'.ever = ghost.ever
      /\ ghost'.disturbed = ghost.disturbed
  BY <1>2, <1>3 DEF ExitProcess, Observe, Types, GuestType
<1>5. call' = call
  BY DEF ExitProcess, GuestStep, clientVars
<1>6. \A n \in ghost.ever : flink[n] \in ghost.ever \cup {ActiveHead, Null}
  BY DEF Links
<1>7. Links'
  <2>1. \A n \in ghost'.ever : flink'[n] \in ghost'.ever \cup {ActiveHead, Null}
    BY <1>2, <1>3, <1>4, <1>6
  <2>2. QED
    BY <2>1, <1>2, <1>3, <1>4 DEF Links
<1>8. Stands'
  BY <1>4, <1>5 DEF Stands, Walking
<1>9. /\ \A q \in Procs : rank[q] \in Int
      /\ \A x \in linked :
           /\ rank[Sys] <= rank[x]
           /\ flink[x] # ActiveHead => rank[x] < rank[flink[x]]
           /\ \A q \in linked :
                /\ rank[x] = rank[q] => x = q
                /\ rank[x] < rank[q] => flink[x] # ActiveHead /\ rank[flink[x]] <= rank[q]
  BY DEF InOrder, Ranked
\* Joined over p, the list is still in order; p is passed, no other is.
<1>10. /\ rank[a] < rank[p] /\ (b # ActiveHead => rank[a] < rank[b])
       /\ \A q \in linked \ {p} : rank[a] < rank[q] => b # ActiveHead /\ rank[b] <= rank[q]
  <2>1. rank[a] < rank[p] /\ a \in linked /\ a \in Procs /\ p \in Procs
    BY <1>2, <1>3, <1>9
  <2>2. b # ActiveHead => rank[a] < rank[b]
    <3>1. CASE b # ActiveHead
      <4>1. rank[p] < rank[b] /\ b \in Procs
        BY <3>1, <1>1, <1>2, <1>3, <1>9
      <4>2. QED
        BY <4>1, <2>1, <1>9
    <3>2. QED
      BY <3>1
  <2>3. ASSUME NEW q \in linked \ {p}, rank[a] < rank[q]
        PROVE  b # ActiveHead /\ rank[b] <= rank[q]
    <3>1. rank[p] <= rank[q] /\ q \in Procs
      BY <2>1, <2>3, <1>2, <1>3, <1>9
    <3>2. rank[p] < rank[q]
      BY <3>1, <2>1, <2>3, <1>2, <1>9
    <3>3. QED
      BY <3>2, <1>1, <1>2, <1>9
  <2>4. QED
    BY <2>1, <2>2, <2>3
<1>11. Ranked(rank, m)'
  <2>1. ASSUME NEW x \in linked'
        PROVE  /\ rank[Sys] <= rank[x]
               /\ flink'[x] # ActiveHead => rank[x] < rank[flink'[x]]
               /\ \A q \in linked' :
                    /\ rank[x] = rank[q] => x = q
                    /\ rank[x] < rank[q] => flink'[x] # ActiveHead /\ rank[flink'[x]] <= rank[q]
    <3>1. x \in linked /\ x \in ProcNodes /\ linked' \subseteq linked
      BY <1>2, <1>3
    <3>2. CASE x = a
      BY <3>1, <3>2, <1>2, <1>9, <1>10
    <3>3. CASE x # a
      BY <3>1, <3>3, <1>2, <1>9
    <3>4. QED
      BY <3>2, <3>3
  <2>2. QED
    BY <2>1 DEF Ranked
<1>12. Ahead(rank)'
  <2>1. SUFFICES ASSUME ~ghost'.disturbed, NEW x \in ghost'.ever
                 PROVE  /\ flink'[x] # Null /\ blink'[x] # Null
                        /\ rank[Sys] <= rank[x]
                        /\ flink'[x] # ActiveHead => rank[x] < rank[flink'[x]]
                        /\ \A q \in ghost'.ever : rank[x] = rank[q] => x = q
                        /\ \A r \in ghost'.always :
                             rank[x] < rank[r] => flink'[x] # ActiveHead /\ rank[flink'[x]] <= rank[r]
    BY DEF Ahead
  <2>2. x \in ghost.ever /\ x \in ProcNodes
    BY <1>3, <1>4
  <2>3. /\ flink[x] # Null /\ blink[x] # Null
        /\ rank[Sys] <= rank[x]
        /\ flink[x] # ActiveHead => rank[x] < rank[flink[x]]
        /\ \A q \in ghost.ever : rank[x] = rank[q] => x = q
        /\ \A r \in ghost.always :
             rank[x] < rank[r] => flink[x] # ActiveHead /\ rank[flink[x]] <= rank[r]
    BY <2>1, <2>2, <1>4 DEF InOrder, Ahead
  <2>4. blink'[x] # Null
    BY <2>2, <2>3, <1>2, <1>3
  <2>5. CASE x = a
    <3>1. flink'[x] = b /\ b # Null
      BY <2>2, <2>5, <1>2, <1>3
    <3>2. \A r \in ghost'.always : r \in linked \ {p}
      BY <1>3, <1>4
    <3>3. QED
      BY <3>1, <3>2, <2>3, <2>4, <2>5, <1>4, <1>10
  <2>6. CASE x # a
    BY <2>2, <2>3, <2>4, <2>6, <1>2, <1>4
  <2>7. QED
    BY <2>5, <2>6
<1>13. Reported(rank)'
  BY <1>4, <1>5, ReportedKept DEF InOrder
<1>14. QED
  BY <1>7, <1>8, <1>11, <1>12, <1>13 DEF WalkInOrder

\* A block given back disturbs the walks that could stand on it.
LEMMA ReclaimOrder ==
  ASSUME Types, Ring, Links, Stands, NEW p \in Procs, ReclaimProcess(p),
         NEW m \in Nat, NEW rank \in [Procs -> 0 .. m], InOrder(rank, m)
  PROVE  Links' /\ Stands' /\ WalkInOrder'
<1>2. /\ linked' = linked /\ p \notin linked
      /\ \A n \in ProcNodes :
           /\ flink'[n] = IF n = p THEN Null ELSE flink[n]
           /\ blink'[n] = IF n = p THEN Null ELSE blink[n]
  BY ReclaimRing DEF Types
<1>3. /\ linked \subseteq Procs /\ ghost.ever \subseteq Procs /\ ghost.always \subseteq linked
      /\ linked \subseteq ghost.ever /\ Sys \in linked /\ Sys \in ghost.always
      /\ ActiveHead \notin Procs /\ Null \notin Procs /\ Null # ActiveHead
      /\ Procs \subseteq ProcNodes
  BY NodesApart DEF Types, GuestType, ProcNodes, Links
<1>4. /\ ghost'.always = ghost.always /\ ghost'.ever = ghost.ever
      /\ ghost'.disturbed = (ghost.disturbed \/ p \in ghost.ever)
  BY <1>2, <1>3 DEF ReclaimProcess, Observe, Types, GuestType
<1>5. call' = call
  BY DEF ReclaimProcess, GuestStep, clientVars
<1>6. \A n \in ghost.ever : flink[n] \in ghost.ever \cup {ActiveHead, Null}
  BY DEF Links
<1>7. Links'
  <2>1. \A n \in ghost'.ever : flink'[n] \in ghost'.ever \cup {ActiveHead, Null}
    BY <1>2, <1>3, <1>4, <1>6
  <2>2. QED
    BY <2>1, <1>2, <1>3, <1>4 DEF Links
<1>8. Stands'
  BY <1>4, <1>5 DEF Stands, Walking
<1>9. \A x \in linked : flink'[x] = flink[x]
  BY <1>2, <1>3
<1>10. Ranked(rank, m)'
  BY <1>2, <1>9 DEF InOrder, Ranked
<1>11. Ahead(rank)'
  <2>1. SUFFICES ASSUME ~ghost'.disturbed PROVE Ahead(rank)'
    BY DEF Ahead
  <2>2. ~ghost.disturbed /\ p \notin ghost.ever
    BY <2>1, <1>4
  <2>3. \A x \in ghost.ever : flink'[x] = flink[x] /\ blink'[x] = blink[x]
    BY <2>2, <1>2, <1>3
  <2>4. QED
    BY <2>2, <2>3, <1>4 DEF InOrder, Ahead
<1>12. Reported(rank)'
  BY <1>4, <1>5, ReportedKept DEF InOrder
<1>13. QED
  BY <1>7, <1>8, <1>10, <1>11, <1>12 DEF WalkInOrder

\* A step that links nothing and is no step of the walk.
LEMMA NotWalking ==
  ASSUME Ring, Links, WalkInOrder, UNCHANGED <<flink, blink, linked>>,
         ghost'.always = ghost.always, ghost'.ever = ghost.ever,
         ghost'.disturbed = ghost.disturbed, ~Walking'
  PROVE  Ring' /\ Links' /\ Stands' /\ WalkInOrder'
<1>1. PICK m \in Nat : \E rank \in [Procs -> 0 .. m] : Ranked(rank, m) /\ Ahead(rank) /\ Reported(rank)
  BY DEF WalkInOrder
<1>2. PICK rank \in [Procs -> 0 .. m] : Ranked(rank, m) /\ Ahead(rank) /\ Reported(rank)
  BY <1>1
<1>3. Ranked(rank, m)'
  BY <1>2 DEF Ranked
<1>4. Ahead(rank)'
  BY <1>2 DEF Ahead
<1>5. Reported(rank)'
  BY DEF Reported
<1>6. Ring' /\ Links' /\ Stands'
  BY DEF Ring, Links, Stands
<1>7. QED
  BY <1>3, <1>4, <1>5, <1>6 DEF WalkInOrder

\* A step that changes nothing of it.
LEMMA WalkUntouched ==
  ASSUME Ring, Links, Stands, WalkInOrder, UNCHANGED <<flink, blink, linked, call>>,
         ghost'.always = ghost.always, ghost'.ever = ghost.ever,
         ghost'.disturbed = ghost.disturbed
  PROVE  Ring' /\ Links' /\ Stands' /\ WalkInOrder'
<1>1. PICK m \in Nat : \E rank \in [Procs -> 0 .. m] : Ranked(rank, m) /\ Ahead(rank) /\ Reported(rank)
  BY DEF WalkInOrder
<1>2. PICK rank \in [Procs -> 0 .. m] : Ranked(rank, m) /\ Ahead(rank) /\ Reported(rank)
  BY <1>1
<1>3. Ranked(rank, m)'
  BY <1>2 DEF Ranked
<1>4. Ahead(rank)'
  BY <1>2 DEF Ahead
<1>5. Reported(rank)'
  BY <1>2 DEF Reported, Walking
<1>6. Ring' /\ Links' /\ Stands'
  BY DEF Ring, Links, Stands, Walking
<1>7. QED
  BY <1>3, <1>4, <1>5, <1>6 DEF WalkInOrder

\* A walk begins at System, before every process that is linked.
LEMMA WalkFresh ==
  ASSUME Types, Ring, WalkInOrder, UNCHANGED guestVars,
         ghost'.always = linked, ghost'.ever = linked, ghost'.disturbed = FALSE,
         ~Walking' \/ /\ call'.pc = "flink" /\ call'.cur = Sys /\ call'.eprocs = <<>>
                      /\ call'.infos = <<>> /\ call'.kind \in ListKinds /\ call'.result = "none"
  PROVE  Ring' /\ Links' /\ Stands' /\ WalkInOrder'
<1>1. PICK m \in Nat : \E rank \in [Procs -> 0 .. m] : Ranked(rank, m) /\ Ahead(rank) /\ Reported(rank)
  BY DEF WalkInOrder
<1>2. PICK rank \in [Procs -> 0 .. m] : Ranked(rank, m) /\ Ahead(rank) /\ Reported(rank)
  BY <1>1
<1>3. UNCHANGED <<flink, blink, linked>>
  BY DEF guestVars
<1>4. /\ linked \subseteq Procs /\ ActiveHead \notin Procs /\ Null \notin Procs /\ Null # ActiveHead
      /\ Sys \in linked
  BY NodesApart DEF Types, GuestType, Ring
<1>5. \A n \in linked : flink[n] \in linked \cup {ActiveHead} /\ blink[n] \in linked \cup {ActiveHead}
  BY DEF Ring
<1>6. Ring'
  BY <1>3 DEF Ring
<1>7. Links'
  BY <1>3, <1>4, <1>5 DEF Links
<1>8. Stands'
  <2>1. ToSet(<<>>) = {}
    BY DEF ToSet
  <2>2. QED
    BY <2>1, <1>4 DEF Stands, Walking
<1>9. Ranked(rank, m)'
  BY <1>2, <1>3 DEF Ranked
<1>10. Ahead(rank)'
  <2>1. \A n \in linked : flink[n] # Null /\ blink[n] # Null
    BY <1>4, <1>5
  <2>2. QED
    BY <2>1, <1>2, <1>3 DEF Ahead, Ranked
<1>11. Reported(rank)'
  <2>1. \A r \in linked : ~(rank[r] < rank[Sys])
    BY <1>2, <1>4 DEF Ranked
  <2>2. QED
    BY <2>1, <1>4 DEF Reported, Walking
<1>12. QED
  BY <1>6, <1>7, <1>8, <1>9, <1>10, <1>11 DEF WalkInOrder

\* A read of a flink leads to a process with a higher rank, or to the head.
LEMMA FlinkOrder ==
  ASSUME Types, Ring, Links, Stands, WalkInOrder, ReadFlink
  PROVE  Ring' /\ Links' /\ Stands' /\ WalkInOrder'
<1>0. UNCHANGED <<flink, blink, linked>> /\ call.pc = "flink" /\ Walking
  BY DEF ReadFlink, guestVars, Walking
<1>1. CASE ReadFails /\ Return("err")
  <2>1. /\ ghost'.always = ghost.always /\ ghost'.ever = ghost.ever
        /\ ghost'.disturbed = ghost.disturbed
    BY <1>1, Failed DEF Types, GuestType
  <2>2. ~Walking'
    BY <1>1, Returned DEF Types, Walking
  <2>3. QED
    BY <1>0, <2>1, <2>2, NotWalking
<1>2. CASE call' = [call EXCEPT !.next = flink[call.cur], !.pc = "blink"] /\ UNCHANGED ghost
  <2>1. PICK m \in Nat : \E rank \in [Procs -> 0 .. m] : Ranked(rank, m) /\ Ahead(rank) /\ Reported(rank)
    BY DEF WalkInOrder
  <2>2. PICK rank \in [Procs -> 0 .. m] : Ranked(rank, m) /\ Ahead(rank) /\ Reported(rank)
    BY <2>1
  <2>3. /\ call'.next = flink[call.cur] /\ call'.pc = "blink" /\ call'.cur = call.cur
        /\ call'.eprocs = call.eprocs /\ call'.infos = call.infos
        /\ call'.kind = call.kind /\ call'.result = call.result
    BY <1>2 DEF Types, ClientType, CallType
  <2>4. /\ call.kind \in ListKinds /\ call.result = "none"
        /\ call.cur \in ghost.ever \cup {ActiveHead}
        /\ ToSet(call.eprocs) \subseteq ghost.ever /\ call.infos = <<>>
    BY <1>0 DEF Stands
  <2>5. flink[ActiveHead] = Sys /\ Sys \in ghost.ever
    BY DEF Ring, Links
  <2>6. flink[call.cur] \in ghost.ever \cup {ActiveHead, Null}
    BY <2>4, <2>5 DEF Links
  <2>7. Ring' /\ Links'
    BY <1>0, <1>2 DEF Ring, Links
  <2>8. Stands'
    BY <1>2, <2>3, <2>4, <2>5, <2>6 DEF Stands
  <2>9. Ranked(rank, m)' /\ Ahead(rank)'
    BY <1>0, <1>2, <2>2 DEF Ranked, Ahead
  <2>10. Reported(rank)'
    <3>1. SUFFICES ASSUME ~ghost.disturbed PROVE Reported(rank)'
      BY <1>2 DEF Reported
    <3>2. \A r \in ghost.always :
            call.cur = ActiveHead \/ rank[r] < rank[call.cur] => r \in ToSet(call.eprocs)
      BY <1>0, <2>2, <3>1 DEF Reported
    <3>3. call.cur # ActiveHead =>
             /\ flink[call.cur] # Null
             /\ flink[call.cur] # ActiveHead => rank[call.cur] < rank[flink[call.cur]]
             /\ \A r \in ghost.always :
                  rank[call.cur] < rank[r]
                    => flink[call.cur] # ActiveHead /\ rank[flink[call.cur]] <= rank[r]
      BY <2>2, <2>4, <3>1 DEF Ahead
    <3>4. QED
      BY <1>2, <2>3, <3>2, <3>3 DEF Reported
  <2>11. QED
    BY <2>7, <2>8, <2>9, <2>10 DEF WalkInOrder
<1>3. QED
  BY <1>1, <1>2 DEF ReadFlink

\* A walk that ends has passed every process that was linked all the time.
LEMMA BlinkOrder ==
  ASSUME Types, Ring, Links, Stands, WalkInOrder, ReadBlink
  PROVE  Ring' /\ Links' /\ Stands' /\ WalkInOrder' /\ ListFaithful'
<1>0. UNCHANGED <<flink, blink, linked>> /\ call.pc = "blink" /\ Walking
  BY DEF ReadBlink, guestVars, Walking
<1>a. /\ call.eprocs \in Seq(Procs)
      /\ ~ListEnds(blink[call.cur]) =>
           call.cur \in Procs /\ call.cur \in ghost.ever
           /\ Append(call.eprocs, call.cur) \in Seq(Procs)
  BY BlinkRead
<1>b. /\ call.kind \in ListKinds /\ call.result = "none"
      /\ call.cur \in ghost.ever \cup {ActiveHead}
      /\ ToSet(call.eprocs) \subseteq ghost.ever /\ call.infos = <<>>
      /\ call.next \in ghost.ever \cup {ActiveHead, Null}
      /\ call.cur = ActiveHead => call.next = Sys
      /\ call.eprocs \in Seq(ProcNodes) /\ call.pc = "blink"
  BY <1>0 DEF Stands, Types, ClientType, CallType
<1>1. CASE ReadFails /\ Return("err")
  <2>1. /\ ghost'.always = ghost.always /\ ghost'.ever = ghost.ever
        /\ ghost'.disturbed = ghost.disturbed
    BY <1>1, Failed DEF Types, GuestType
  <2>2. ~Walking' /\ call'.result = "err"
    BY <1>1, Returned DEF Types, Walking
  <2>3. ListFaithful'
    BY <2>2 DEF ListFaithful
  <2>4. QED
    BY <1>0, <2>1, <2>2, <2>3, NotWalking
<1>2. PICK m \in Nat : \E rank \in [Procs -> 0 .. m] : Ranked(rank, m) /\ Ahead(rank) /\ Reported(rank)
  BY DEF WalkInOrder
<1>3. PICK rank \in [Procs -> 0 .. m] : Ranked(rank, m) /\ Ahead(rank) /\ Reported(rank)
  BY <1>2
<1>4. ASSUME ~ghost.disturbed
      PROVE  /\ \A r \in ghost.always :
                  call.cur = ActiveHead \/ rank[r] < rank[call.cur] => r \in ToSet(call.eprocs)
             /\ call.cur # ActiveHead =>
                  /\ call.next # Null
                  /\ call.next # ActiveHead => rank[call.cur] < rank[call.next]
                  /\ \A r \in ghost.always :
                       rank[call.cur] < rank[r]
                         => call.next # ActiveHead /\ rank[call.next] <= rank[r]
  BY <1>0, <1>3, <1>4, <1>b DEF Reported
<1>5. /\ \A q \in Procs : rank[q] \in Int
      /\ ghost.ever \subseteq Procs /\ ghost.always \subseteq ghost.ever /\ Sys \in ghost.ever
      /\ Sys \in Procs /\ ActiveHead \notin Procs
  BY NodesApart DEF Links, Types, GuestType
\* Only at the head does an undisturbed walk end.
<1>6. ASSUME ~ghost.disturbed, ListEnds(blink[call.cur]) PROVE call.cur = ActiveHead
  <2>1. SUFFICES ASSUME call.cur # ActiveHead PROVE FALSE
    OBVIOUS
  <2>2. call.cur \in ghost.ever /\ call.cur \in Procs
    BY <1>5, <1>b, <2>1
  <2>3. blink[call.cur] # Null /\ rank[Sys] <= rank[call.cur]
    BY <1>3, <1>6, <2>2 DEF Ahead
  <2>4. call.next # Null /\ (call.next # ActiveHead => rank[call.cur] < rank[call.next])
    BY <1>4, <1>6, <2>1
  <2>5. call.next # Sys
    BY <1>5, <2>2, <2>3, <2>4
  <2>6. call.next # call.cur
    BY <1>5, <2>1, <2>2, <2>4
  <2>7. QED
    BY <1>6, <2>3, <2>4, <2>5, <2>6 DEF ListEnds
<1>7. CASE ListEnds(blink[call.cur]) /\ ListWalked(call.eprocs) /\ UNCHANGED ghost
  <2>1. call'.eprocs = call.eprocs /\ call'.pc \in {"done", "infos"}
    BY <1>7, <1>a, <1>b, WalkedList DEF Types
  <2>2. ~Walking'
    BY <2>1 DEF Walking
  <2>3. ListFaithful'
    BY <1>4, <1>6, <1>7, <1>b, <2>1 DEF ListFaithful
  <2>4. QED
    BY <1>0, <1>7, <2>2, <2>3, NotWalking
<1>8. ASSUME ~ListEnds(blink[call.cur])
      PROVE  /\ call.cur \in ghost.ever /\ call.cur \in Procs /\ call.cur # ActiveHead
             /\ ToSet(Append(call.eprocs, call.cur)) = ToSet(call.eprocs) \cup {call.cur}
             /\ Len(Append(call.eprocs, call.cur)) \in Nat
  BY <1>8, <1>a, <1>5, AppendSeq
<1>9. CASE /\ ~ListEnds(blink[call.cur]) /\ Len(Append(call.eprocs, call.cur)) = MaxIter
           /\ ListWalked(Append(call.eprocs, call.cur)) /\ UNCHANGED ghost
  <2>0. Append(call.eprocs, call.cur) \in Seq(ProcNodes) /\ Append(call.eprocs, call.cur) \in Seq(Procs)
    BY <1>9, <1>a, <1>8, AppendSeq, <1>b DEF ProcNodes
  <2>1. call'.eprocs = Append(call.eprocs, call.cur) /\ call'.pc \in {"done", "infos"}
    BY <1>9, <2>0, WalkedList DEF Types
  <2>2. ~Walking'
    BY <2>1 DEF Walking
  <2>3. ListFaithful'
    <3>1. ToSet(call'.eprocs) \subseteq ghost.ever
      BY <1>8, <1>9, <1>b, <2>1
    <3>2. ~(Len(call'.eprocs) < MaxIter)
      BY <1>9, <2>1, NodesApart
    <3>3. QED
      BY <1>9, <3>1, <3>2 DEF ListFaithful
  <2>4. QED
    BY <1>0, <1>9, <2>2, <2>3, NotWalking
<1>10. CASE /\ ~ListEnds(blink[call.cur]) /\ UNCHANGED ghost
            /\ call' = [call EXCEPT !.eprocs = Append(call.eprocs, call.cur), !.cur = call.next,
                                    !.next = Null, !.pc = "flink"]
  <2>1. /\ call'.eprocs = Append(call.eprocs, call.cur) /\ call'.cur = call.next
        /\ call'.pc = "flink" /\ call'.infos = call.infos
        /\ call'.kind = call.kind /\ call'.result = call.result
    BY <1>10 DEF Types, ClientType, CallType
  <2>2. call.next # Null
    BY <1>10 DEF ListEnds
  <2>3. Ring' /\ Links'
    BY <1>0, <1>10 DEF Ring, Links
  <2>4. Stands'
    BY <1>8, <1>10, <1>b, <2>1, <2>2 DEF Stands
  <2>5. Ranked(rank, m)' /\ Ahead(rank)'
    BY <1>0, <1>10, <1>3 DEF Ranked, Ahead
  <2>6. Reported(rank)'
    <3>1. SUFFICES ASSUME ~ghost.disturbed, NEW r \in ghost.always,
                          call.next = ActiveHead \/ rank[r] < rank[call.next]
                   PROVE  r \in ToSet(call.eprocs) \cup {call.cur}
      BY <1>8, <1>10, <2>1 DEF Reported
    <3>2. r \in ghost.ever /\ r \in Procs /\ call.cur \in ghost.ever /\ call.cur \in Procs
          /\ call.cur # ActiveHead /\ call.next \in Procs \cup {ActiveHead}
      BY <1>5, <1>8, <1>10, <1>b, <2>2
    <3>3. ~(rank[call.cur] < rank[r])
      BY <1>4, <1>5, <3>1, <3>2
    <3>4. CASE rank[r] = rank[call.cur]
      BY <1>3, <3>1, <3>2, <3>4 DEF Ahead
    <3>5. CASE rank[r] < rank[call.cur]
      BY <1>4, <3>1, <3>5
    <3>6. QED
      BY <1>5, <3>2, <3>3, <3>4, <3>5
  <2>7. ListFaithful'
    BY <2>1 DEF ListFaithful
  <2>8. QED
    BY <2>3, <2>4, <2>5, <2>6, <2>7 DEF WalkInOrder
<1>11. QED
  BY <1>1, <1>7, <1>9, <1>10 DEF ReadBlink

-----------------------------------------------------------------------------
(* The module lists                                                        *)

\* The lists of one process.
ListsOf(p) ==
  flink[p] # Null =>
    /\ NativeList(p, mlinked[p])
    /\ mlink[p][WowHead] = WowEntry /\ mlink[p][WowEntry] = WowHead

\* A step on one process leaves the module lists of the others.
LEMMA OthersLists ==
  ASSUME NEW q \in Procs, ListsOf(q), flink'[q] # Null => flink[q] # Null,
         mlink'[q] = mlink[q], mlinked'[q] = mlinked[q],
         \A e \in NativeEntries : <<q, e>> \in ghost'.unloaded <=> <<q, e>> \in ghost.unloaded
  PROVE  ListsOf(q)'
<1>1. Exe \in NativeEntries
  BY NodesApart
<1>2. NoneUnloaded(q)' <=> NoneUnloaded(q)
  BY DEF NoneUnloaded
<1>3. NativeList(q, mlinked[q]) => NativeList(q, mlinked[q])'
  BY <1>1, <1>2 DEF NativeList
<1>4. QED
  BY <1>3 DEF ListsOf

\* The steps on the ring keep the module lists of what is not given back.
LEMMA LinksLists ==
  ASSUME Types, Ring, ModuleLists, NEW p \in Procs, NEW m, NEW rank, Ranked(rank, m),
         CreateProcess(p) \/ ExitProcess(p) \/ ReclaimProcess(p)
  PROVE  ModuleLists'
<1>0. \A q \in Procs : ListsOf(q)
  BY DEF ModuleLists, ListsOf
<1>a. ghost'.unloaded = ghost.unloaded
  BY DEF CreateProcess, ExitProcess, ReclaimProcess, Observe, Types, GuestType
<1>b. Procs \subseteq ProcNodes /\ Null \notin Procs /\ Null # ActiveHead
  BY NodesApart DEF ProcNodes
<1>1. CASE CreateProcess(p)
  <2>1. PICK t : t = blink[ActiveHead]
    OBVIOUS
  <2>2. /\ t \in linked /\ flink[t] = ActiveHead
        /\ \A n \in ProcNodes : flink'[n] = IF n = p THEN ActiveHead ELSE IF n = t THEN p ELSE flink[n]
    BY <1>1, <2>1, LinkedAtTail DEF Types
  <2>3. /\ mlink' = [mlink EXCEPT ![p] = OnlyExe] /\ mlinked' = [mlinked EXCEPT ![p] = <<Exe>>]
    BY <1>1 DEF CreateProcess
  <2>4. ASSUME NEW q \in Procs, q # p PROVE ListsOf(q)'
    <3>1. flink'[q] # Null => flink[q] # Null
      BY <1>b, <2>2, <2>4
    <3>2. mlink'[q] = mlink[q] /\ mlinked'[q] = mlinked[q]
      BY <2>3, <2>4 DEF Types, GuestType
    <3>3. QED
      BY <1>0, <1>a, <3>1, <3>2, OthersLists
  <2>5. ListsOf(p)'
    <3>1. mlink'[p] = OnlyExe /\ mlinked'[p] = <<Exe>>
      BY <2>3 DEF Types, GuestType
    <3>2. Len(<<Exe>>) = 1 /\ <<Exe>>[1] = Exe /\ DOMAIN <<Exe>> = {1}
      OBVIOUS
    <3>3. NativeList(p, <<Exe>>)'
      BY <3>1, <3>2, Entries, NodesApart DEF NativeList
    <3>4. QED
      BY <3>1, <3>3, Entries DEF ListsOf
  <2>6. QED
    BY <2>4, <2>5 DEF ModuleLists, ListsOf
<1>2. CASE ExitProcess(p)
  <2>1. PICK a, b : a = blink[p] /\ b = flink[p]
    OBVIOUS
  <2>2. /\ flink[a] = p /\ \A n \in ProcNodes : flink'[n] = IF n = a THEN b ELSE flink[n]
    BY <1>2, <2>1, Unlinked DEF Types
  <2>3. mlink' = mlink /\ mlinked' = mlinked
    BY <1>2 DEF ExitProcess
  <2>4. ASSUME NEW q \in Procs PROVE ListsOf(q)'
    <3>1. flink'[q] # Null => flink[q] # Null
      BY <1>b, <2>2
    <3>2. QED
      BY <1>0, <1>a, <2>3, <3>1, OthersLists
  <2>5. QED
    BY <2>4 DEF ModuleLists, ListsOf
<1>3. CASE ReclaimProcess(p)
  <2>1. \A n \in ProcNodes : flink'[n] = IF n = p THEN Null ELSE flink[n]
    BY <1>3, ReclaimRing DEF Types
  <2>2. mlink' = [mlink EXCEPT ![p] = NoModules] /\ mlinked' = [mlinked EXCEPT ![p] = <<>>]
    BY <1>3 DEF ReclaimProcess
  <2>3. ASSUME NEW q \in Procs, q # p PROVE ListsOf(q)'
    <3>1. flink'[q] # Null => flink[q] # Null
      BY <1>b, <2>1, <2>3
    <3>2. mlink'[q] = mlink[q] /\ mlinked'[q] = mlinked[q]
      BY <2>2, <2>3 DEF Types, GuestType
    <3>3. QED
      BY <1>0, <1>a, <3>1, <3>2, OthersLists
  <2>4. flink'[p] = Null
    BY <1>b, <2>1
  <2>5. QED
    BY <2>3, <2>4 DEF ModuleLists, ListsOf
<1>4. QED
  BY <1>1, <1>2, <1>3

\* A loaded module stands before the head of its list.
LEMMA LoadLists ==
  ASSUME Types, Ring, ModuleLists, NEW p \in Procs, NEW e \in NativeEntries, LoadModule(p, e)
  PROVE  ModuleLists' /\ mlinked'[p] = Append(mlinked[p], e)
         /\ \A q \in Procs \ {p} : mlinked'[q] = mlinked[q]
<1>0. \A q \in Procs : ListsOf(q)
  BY DEF ModuleLists, ListsOf
<1> DEFINE last == IF mlinked[p] = <<>> THEN LdrHead ELSE mlinked[p][Len(mlinked[p])]
<1>1. /\ UNCHANGED <<flink, blink, linked, ghost>> /\ p \in linked /\ e \notin ToSet(mlinked[p])
      /\ mlink' = [mlink EXCEPT ![p] = [mlink[p] EXCEPT ![last] = e, ![e] = LdrHead]]
      /\ mlinked' = [mlinked EXCEPT ![p] = Append(mlinked[p], e)]
  BY DEF LoadModule, Types, GuestType
<1> HIDE DEF last
<1>2. PICK s \in Seq(NativeEntries) : s = mlinked[p]
  BY DEF Types, GuestType
<1>3. mlink[p] \in [ModNodes -> ModNodes \cup {Null}]
  BY DEF Types, GuestType
<1>4. /\ mlinked'[p] = Append(s, e) /\ mlink'[p] = [mlink[p] EXCEPT ![last] = e, ![e] = LdrHead]
      /\ \A q \in Procs \ {p} : mlinked'[q] = mlinked[q] /\ mlink'[q] = mlink[q]
  BY <1>1, <1>2 DEF Types, GuestType
<1>5. ASSUME NEW q \in Procs \ {p} PROVE ListsOf(q)'
  BY <1>0, <1>1, <1>4, OthersLists
<1>6. flink[p] # Null
  BY <1>1, NodesApart DEF Ring, Types, GuestType
<1>7. NativeList(p, s) /\ mlink[p][WowHead] = WowEntry /\ mlink[p][WowEntry] = WowHead
  BY <1>0, <1>2, <1>6 DEF ListsOf
<1>8. /\ Len(s) \in Nat /\ DOMAIN s = 1 .. Len(s)
      /\ \A j \in DOMAIN s : s[j] \in NativeEntries
      /\ Append(s, e) \in Seq(NativeEntries) /\ Len(Append(s, e)) = Len(s) + 1
      /\ DOMAIN Append(s, e) = 1 .. Len(s) + 1
      /\ \A j \in DOMAIN s : Append(s, e)[j] = s[j]
      /\ Append(s, e)[Len(s) + 1] = e
      /\ \A j \in DOMAIN s : s[j] # e
  <2>1. \A j \in DOMAIN s : s[j] # e
    BY <1>1, <1>2 DEF ToSet
  <2>2. QED
    BY <2>1
<1>9. last = (IF Len(s) = 0 THEN LdrHead ELSE s[Len(s)])
  <2>1. s = <<>> <=> Len(s) = 0
    OBVIOUS
  <2>2. QED
    BY <1>2, <2>1 DEF last
<1>10. last \in ModNodes /\ last # e /\ last # WowHead /\ last # WowEntry
  BY <1>8, <1>9, NodesApart
<1>11. \A n \in ModNodes :
         mlink'[p][n] = IF n = e THEN LdrHead ELSE IF n = last THEN e ELSE mlink[p][n]
  BY <1>3, <1>4, <1>10, NodesApart
<1>12. NativeList(p, Append(s, e))'
  <2>1. \A j \in DOMAIN Append(s, e) : Append(s, e)[j] \in ModNodes
    BY <1>8, NodesApart
  <2>2. mlink'[p][LdrHead] # Null
    BY <1>7, <1>11, NodesApart DEF NativeList
  <2>3. \A j \in DOMAIN Append(s, e) : mlink'[p][Append(s, e)[j]] # Null
    <3>1. SUFFICES ASSUME NEW j \in 1 .. Len(s) + 1 PROVE mlink'[p][Append(s, e)[j]] # Null
      BY <1>8
    <3>2. CASE j = Len(s) + 1
      BY <3>2, <1>8, <1>11, NodesApart
    <3>3. CASE j \in 1 .. Len(s)
      BY <3>3, <1>7, <1>8, <1>11, NodesApart DEF NativeList
    <3>4. QED
      BY <1>8, <3>2, <3>3
  <2>4. ASSUME <<p, Exe>> \notin ghost'.unloaded
        PROVE  Len(Append(s, e)) > 0 /\ Append(s, e)[1] = Exe /\ mlink'[p][LdrHead] = Exe
    <3>1. Len(s) > 0 /\ s[1] = Exe /\ mlink[p][LdrHead] = Exe
      BY <1>1, <1>7, <2>4 DEF NativeList
    <3>2. 1 \in DOMAIN s /\ Len(s) # 0 /\ Len(s) \in DOMAIN s
      BY <1>8, <3>1
    <3>3. last # LdrHead /\ e # LdrHead
      BY <1>8, <1>9, <3>2, NodesApart
    <3>4. QED
      BY <3>1, <3>2, <3>3, <1>8, <1>11, NodesApart
  <2>5. ASSUME NoneUnloaded(p)'
        PROVE  /\ \A i, j \in DOMAIN Append(s, e) : Append(s, e)[i] = Append(s, e)[j] => i = j
               /\ \A j \in DOMAIN Append(s, e) :
                    mlink'[p][Append(s, e)[j]] =
                      IF j < Len(Append(s, e)) THEN Append(s, e)[j + 1] ELSE LdrHead
    <3>1. NoneUnloaded(p)
      BY <1>1, <2>5 DEF NoneUnloaded
    <3>2. /\ \A i, j \in DOMAIN s : s[i] = s[j] => i = j
          /\ \A j \in DOMAIN s : mlink[p][s[j]] = IF j < Len(s) THEN s[j + 1] ELSE LdrHead
      BY <1>7, <3>1 DEF NativeList
    <3>3. ASSUME NEW i \in 1 .. Len(s) + 1, NEW j \in 1 .. Len(s) + 1,
                 Append(s, e)[i] = Append(s, e)[j]
          PROVE  i = j
      <4>1. i \in 1 .. Len(s) \/ i = Len(s) + 1
        BY <1>8
      <4>2. j \in 1 .. Len(s) \/ j = Len(s) + 1
        BY <1>8
      <4>3. QED
        BY <3>2, <3>3, <4>1, <4>2, <1>8
    <3>4. ASSUME NEW j \in 1 .. Len(s) + 1
          PROVE  mlink'[p][Append(s, e)[j]] = IF j < Len(s) + 1 THEN Append(s, e)[j + 1] ELSE LdrHead
      <4>1. CASE j = Len(s) + 1
        BY <4>1, <1>8, <1>11, NodesApart
      <4>2. CASE j = Len(s)
        <5>1. Append(s, e)[j] = s[j] /\ s[j] = last /\ Append(s, e)[j + 1] = e
          BY <4>2, <1>8, <1>9
        <5>2. mlink'[p][last] = e
          BY <1>10, <1>11
        <5>3. j < Len(s) + 1
          BY <4>2, <1>8
        <5>4. QED
          BY <5>1, <5>2, <5>3
      <4>3. CASE j < Len(s)
        <5>1. j \in DOMAIN s /\ j + 1 \in DOMAIN s /\ Len(s) \in DOMAIN s
          BY <4>3, <1>8
        <5>2. last = s[Len(s)] /\ s[j] # last
          BY <4>3, <5>1, <3>2, <1>8, <1>9
        <5>3. mlink[p][s[j]] = s[j + 1] /\ Append(s, e)[j + 1] = s[j + 1] /\ Append(s, e)[j] = s[j]
          BY <4>3, <5>1, <3>2, <1>8
        <5>4. s[j] # e /\ s[j] \in ModNodes
          BY <5>1, <1>8, NodesApart
        <5>5. QED
          BY <4>3, <5>1, <5>2, <5>3, <5>4, <1>8, <1>11
      <4>4. j = Len(s) + 1 \/ j = Len(s) \/ j < Len(s)
        <5>1. Len(s) \in Nat
          BY <1>8
        <5>2. QED
          BY <5>1
      <4>5. QED
        BY <4>1, <4>2, <4>3, <4>4
    <3>5. QED
      BY <3>3, <3>4, <1>8
  <2>6. QED
    BY <2>2, <2>3, <2>4, <2>5 DEF NativeList
<1>13. ListsOf(p)'
  <2>1. mlink'[p][WowHead] = WowEntry /\ mlink'[p][WowEntry] = WowHead
    BY <1>7, <1>10, <1>11, NodesApart
  <2>2. QED
    BY <1>4, <1>12, <2>1 DEF ListsOf
<1>14. QED
  BY <1>1, <1>2, <1>4, <1>5, <1>13 DEF ModuleLists, ListsOf

\* An unloaded module leaves its list, and is known to have left it.
LEMMA UnloadLists ==
  ASSUME Types, ModuleLists, NEW p \in Procs, NEW k \in DOMAIN mlinked[p], UnloadModule(p, k)
  PROVE  /\ ModuleLists'
         /\ ghost' = [ghost EXCEPT !.unloaded = @ \cup {<<p, mlinked[p][k]>>}]
         /\ mlinked[p][k] \in NativeEntries
         /\ \A q \in Procs \ {p} : mlinked'[q] = mlinked[q]
<1>0. \A q \in Procs : ListsOf(q)
  BY DEF ModuleLists, ListsOf
<1> DEFINE before == IF k = 1 THEN LdrHead ELSE mlinked[p][k - 1]
<1>1. /\ UNCHANGED <<flink, blink, linked>>
      /\ ghost' = [ghost EXCEPT !.unloaded = @ \cup {<<p, mlinked[p][k]>>}]
      /\ mlink' = [mlink EXCEPT ![p] = [mlink[p] EXCEPT ![before] = mlink[p][mlinked[p][k]]]]
      /\ mlinked' = [mlinked EXCEPT ![p] = RemoveAt(mlinked[p], k)]
  BY DEF UnloadModule, Types, GuestType
<1> HIDE DEF before
<1>2. PICK s \in Seq(NativeEntries) : s = mlinked[p]
  BY DEF Types, GuestType
<1>3. mlink[p] \in [ModNodes -> ModNodes \cup {Null}]
  BY DEF Types, GuestType
<1>4. /\ mlinked'[p] = RemoveAt(s, k) /\ mlink'[p] = [mlink[p] EXCEPT ![before] = mlink[p][s[k]]]
      /\ \A q \in Procs \ {p} : mlinked'[q] = mlinked[q] /\ mlink'[q] = mlink[q]
  BY <1>1, <1>2 DEF Types, GuestType
<1>5. /\ Len(s) \in Nat /\ DOMAIN s = 1 .. Len(s) /\ k \in 1 .. Len(s)
      /\ \A j \in DOMAIN s : s[j] \in NativeEntries /\ s[j] \in ModNodes
  BY <1>2, NodesApart
<1>6. ghost'.unloaded = ghost.unloaded \cup {<<p, s[k]>>}
  BY <1>1, <1>2 DEF Types, GuestType
<1>7. ASSUME NEW q \in Procs \ {p} PROVE ListsOf(q)'
  <2>1. \A e \in NativeEntries : <<q, e>> \in ghost'.unloaded <=> <<q, e>> \in ghost.unloaded
    BY <1>6
  <2>2. QED
    BY <1>0, <1>1, <1>4, <2>1, OthersLists
<1>8. ListsOf(p)'
  <2>1. SUFFICES ASSUME flink[p] # Null
                 PROVE  NativeList(p, RemoveAt(s, k))'
                        /\ mlink'[p][WowHead] = WowEntry /\ mlink'[p][WowEntry] = WowHead
    BY <1>1, <1>4 DEF ListsOf
  <2>2. NativeList(p, s) /\ mlink[p][WowHead] = WowEntry /\ mlink[p][WowEntry] = WowHead
    BY <1>0, <1>2, <2>1 DEF ListsOf
  <2>3. before = (IF k = 1 THEN LdrHead ELSE s[k - 1])
    BY <1>2 DEF before
  <2>4. before \in ModNodes /\ before # WowHead /\ before # WowEntry
    BY <1>5, <2>3, NodesApart
  <2>5. \A n \in ModNodes : mlink'[p][n] = IF n = before THEN mlink[p][s[k]] ELSE mlink[p][n]
    BY <1>3, <1>4, <2>4
  <2>6. mlink[p][s[k]] # Null /\ mlink[p][LdrHead] # Null
        /\ \A j \in 1 .. Len(s) : mlink[p][s[j]] # Null
    BY <1>5, <2>2 DEF NativeList
  <2>7. mlink'[p][LdrHead] # Null
    BY <2>5, <2>6, NodesApart
  <2>8. PICK r : r = RemoveAt(s, k)
    OBVIOUS
  <2>9. /\ r \in Seq(NativeEntries) /\ Len(r) = Len(s) - 1
        /\ \A i \in 1 .. Len(s) - 1 : r[i] = IF i < k THEN s[i] ELSE s[i + 1]
    BY <1>5, <2>8, RemoveSeq
  <2>10. \A j \in DOMAIN r : mlink'[p][r[j]] # Null
    <3>1. SUFFICES ASSUME NEW j \in 1 .. Len(s) - 1 PROVE mlink'[p][r[j]] # Null
      BY <2>9
    <3>2. PICK i \in 1 .. Len(s) : r[j] = s[i]
      BY <1>5, <2>9
    <3>3. QED
      BY <1>5, <2>5, <2>6, <3>2
  <2>11. ASSUME <<p, Exe>> \notin ghost'.unloaded
         PROVE  Len(r) > 0 /\ r[1] = Exe /\ mlink'[p][LdrHead] = Exe
    <3>1. <<p, Exe>> \notin ghost.unloaded /\ s[k] # Exe
      BY <1>6, <2>11
    <3>2. Len(s) > 0 /\ s[1] = Exe /\ mlink[p][LdrHead] = Exe
      BY <2>2, <3>1 DEF NativeList
    <3>3. k # 1 /\ Len(s) > 1
      BY <1>5, <3>1, <3>2
    <3>4. before \in NativeEntries /\ before # LdrHead
      BY <1>5, <2>3, <3>3, NodesApart
    <3>5. QED
      BY <1>5, <2>5, <2>9, <3>2, <3>3, <3>4, NodesApart
  <2>12. ~NoneUnloaded(p)'
    BY <1>5, <1>6 DEF NoneUnloaded
  <2>13. NativeList(p, r)'
    BY <2>7, <2>10, <2>11, <2>12 DEF NativeList
  <2>14. QED
    BY <2>2, <2>4, <2>5, <2>8, <2>13, NodesApart
<1>9. QED
  BY <1>1, <1>2, <1>4, <1>5, <1>7, <1>8 DEF ModuleLists, ListsOf

-----------------------------------------------------------------------------
(* The client's promises                                                   *)

\* A list that grows at its end keeps what a walk knows of it.
LEMMA SoFarAppended ==
  ASSUME Types, NEW s \in Seq(NativeEntries), NEW e \in NativeEntries
  PROVE  /\ ToSet(s) \subseteq ToSet(Append(s, e)) /\ Len(s) <= Len(Append(s, e))
         /\ ModulesSoFar(s) => ModulesSoFar(Append(s, e))
<1>1. /\ Len(s) \in Nat /\ Len(Append(s, e)) = Len(s) + 1
      /\ \A i \in 1 .. Len(s) : Append(s, e)[i] = s[i]
      /\ ToSet(Append(s, e)) = ToSet(s) \cup {e}
  BY AppendSeq
<1>2. MaxIter \in Nat /\ call.entries \in Seq(ModNodes) /\ Len(call.entries) \in Nat
      /\ DOMAIN call.entries = 1 .. Len(call.entries)
  BY NodesApart DEF Types, ClientType, CallType
<1>3. Within(s) => Within(Append(s, e))
  <2>1. SUFFICES ASSUME Within(s) PROVE Within(Append(s, e))
    OBVIOUS
  <2>2. /\ Len(call.entries) <= Len(s)
        /\ \A i \in DOMAIN call.entries : call.entries[i] = s[i]
    BY <2>1 DEF Within
  <2>3. /\ Len(call.entries) <= Len(Append(s, e))
        /\ \A i \in DOMAIN call.entries : call.entries[i] = Append(s, e)[i]
    BY <2>2, <1>1, <1>2
  <2>4. CASE /\ call.cur = LdrHead
             /\ ghost.loaded \subseteq ToSet(call.entries) \/ Len(s) >= MaxIter
    BY <2>3, <2>4, <1>1, <1>2 DEF Within
  <2>5. CASE Len(call.entries) < Len(s) /\ call.cur = s[Len(call.entries) + 1]
    <3>1. Len(call.entries) + 1 \in 1 .. Len(s) /\ Len(call.entries) < Len(Append(s, e))
      BY <2>5, <1>1, <1>2
    <3>2. call.cur = Append(s, e)[Len(call.entries) + 1]
      BY <3>1, <2>5, <1>1
    <3>3. QED
      BY <2>3, <3>1, <3>2 DEF Within
  <2>6. QED
    BY <2>1, <2>4, <2>5 DEF Within
<1>4. \A found : HasLoaded(s, found) => HasLoaded(Append(s, e), found)
  BY <1>1, <1>2 DEF HasLoaded
<1>5. ModulesSoFar(s) => ModulesSoFar(Append(s, e))
  BY <1>3, <1>4 DEF ModulesSoFar
<1>6. QED
  BY <1>1, <1>5

\* No step of the guest takes from a walk what it needs.
LEMMA GuestKeeps ==
  ASSUME Types, Links, CallInv, ListClaims, call' = call, held' = held,
         ghost'.always \subseteq ghost.always, ghost.ever \subseteq ghost'.ever,
         ghost.unloaded \subseteq ghost'.unloaded,
         ghost'.failed = ghost.failed, ghost'.loaded = ghost.loaded,
         ghost.disturbed => ghost'.disturbed,
         \A p \in ghost'.always :
           ~NoneUnloaded(p)' \/ mlinked'[p] = mlinked[p]
           \/ \E e \in NativeEntries : mlinked'[p] = Append(mlinked[p], e)
  PROVE  CallInv' /\ ListClaims'
<1>0. Exe \in NativeEntries
  BY NodesApart
<1>1. Phases'
  BY DEF CallInv, Phases
<1>2. BasesExe'
  BY DEF CallInv, BasesExe, BaseIsExe
<1>3. LookupGoesOn'
  BY DEF CallInv, LookupGoesOn, ToBeFound, SeesExe
<1>4. ListFaithful'
  BY DEF ListClaims, ListFaithful
<1>5. LookupFinds'
  BY DEF ListClaims, LookupFinds
<1>6. \A p : NoneUnloaded(p)' => NoneUnloaded(p)
  BY DEF NoneUnloaded
\* The list of the process a client holds has grown at its end at most.
<1>7. ASSUME held # Null, held.proc \in ghost'.always, NoneUnloaded(held.proc)'
      PROVE  /\ ToSet(mlinked[held.proc]) \subseteq ToSet(mlinked'[held.proc])
             /\ Len(mlinked[held.proc]) \in Nat /\ Len(mlinked[held.proc]) <= Len(mlinked'[held.proc])
             /\ Len(mlinked'[held.proc]) \in Nat
             /\ ModulesSoFar(mlinked[held.proc]) => ModulesSoFar(mlinked'[held.proc])
  <2>1. held.proc \in Procs
    BY <1>7 DEF Types, ClientType, Infos
  <2>2. mlinked[held.proc] \in Seq(NativeEntries)
    BY <2>1 DEF Types, GuestType
  <2>3. CASE mlinked'[held.proc] = mlinked[held.proc]
    BY <2>2, <2>3
  <2>4. CASE \E e \in NativeEntries : mlinked'[held.proc] = Append(mlinked[held.proc], e)
    <3>1. PICK e \in NativeEntries : mlinked'[held.proc] = Append(mlinked[held.proc], e)
      BY <2>4
    <3>2. Append(mlinked[held.proc], e) \in Seq(NativeEntries)
      BY <2>2, AppendSeq
    <3>3. QED
      BY <2>2, <3>1, <3>2, SoFarAppended
  <2>5. QED
    BY <1>7, <2>3, <2>4
<1>9. ModuleWalk'
  <2>1. SUFFICES ASSUME call.kind = "module_list" PROVE ModuleWalk'
    BY DEF ModuleWalk
  <2>2. /\ held # Null
        /\ call.pc # "done" => call.pc \in {"entry", "names"} /\ call.info = held
        /\ held.proc \in ghost.always /\ NoneUnloaded(held.proc) =>
             /\ ghost.loaded \subseteq ToSet(mlinked[held.proc])
             /\ call.pc # "done" /\ ~ghost.failed => ModulesSoFar(mlinked[held.proc])
    BY <2>1 DEF CallInv, ModuleWalk
  <2>3. ASSUME held.proc \in ghost'.always, NoneUnloaded(held.proc)'
        PROVE  /\ ghost'.loaded \subseteq ToSet(mlinked'[held.proc])
               /\ call.pc # "done" /\ ~ghost'.failed => ModulesSoFar(mlinked[held.proc])'
    <3>1. NoneUnloaded(held.proc) /\ held.proc \in ghost.always
      BY <1>6, <2>3
    <3>2. /\ ghost.loaded \subseteq ToSet(mlinked[held.proc])
          /\ call.pc # "done" /\ ~ghost.failed => ModulesSoFar(mlinked[held.proc])
      BY <2>2, <3>1
    <3>3. /\ ToSet(mlinked[held.proc]) \subseteq ToSet(mlinked'[held.proc])
          /\ ModulesSoFar(mlinked[held.proc]) => ModulesSoFar(mlinked'[held.proc])
      BY <1>7, <2>2, <2>3
    <3>4. ModulesSoFar(mlinked[held.proc])' <=> ModulesSoFar(mlinked'[held.proc])
      BY DEF ModulesSoFar, Within, HasLoaded, NoneTwice, Distinct
    <3>5. QED
      BY <3>2, <3>3, <3>4
  <2>4. QED
    BY <2>2, <2>3 DEF ModuleWalk
<1>10. ModulesFaithful'
  <2>1. SUFFICES ASSUME /\ call.kind = "module_list" /\ call.pc = "done" /\ call.result = "ok"
                        /\ held.proc \in ghost'.always /\ ~ghost'.failed
                        /\ NoneUnloaded(held.proc)'
                 PROVE  /\ \A i, j \in DOMAIN call.modules : call.modules[i] = call.modules[j] => i = j
                        /\ Len(mlinked'[held.proc]) < MaxIter => ghost'.loaded \subseteq ToSet(call.modules)
    BY DEF ModulesFaithful, NoneUnloaded
  <2>2. NoneUnloaded(held.proc)
    BY <1>6, <2>1
  <2>3. held # Null
    BY <2>1 DEF CallInv, ModuleWalk
  <2>4. /\ \A i, j \in DOMAIN call.modules : call.modules[i] = call.modules[j] => i = j
        /\ Len(mlinked[held.proc]) < MaxIter => ghost.loaded \subseteq ToSet(call.modules)
    BY <2>1, <2>2 DEF ListClaims, ModulesFaithful, NoneUnloaded
  <2>5. Len(mlinked'[held.proc]) < MaxIter => Len(mlinked[held.proc]) < MaxIter
    BY <1>7, <2>1, <2>3, NodesApart
  <2>6. QED
    BY <2>4, <2>5
<1>11. QED
  BY <1>1, <1>2, <1>3, <1>4, <1>5, <1>9, <1>10 DEF CallInv, ListClaims

\* An operation starts with nothing found and nothing promised.
LEMMA ListsStartInv ==
  ASSUME Types, CallInv, NEW kind \in ListKinds, NEW arg \in Queries \cup Procs \cup {Null},
         BeginEprocessList(kind, arg)
  PROVE  CallInv' /\ ListClaims'
<1>1. /\ held' = held
      /\ call' = [Idle EXCEPT !.kind = kind, !.arg = arg, !.pc = "flink", !.cur = Sys]
      /\ ghost'.unloaded = ghost.unloaded
  <2>1. /\ UNCHANGED held
        /\ call' = [Idle EXCEPT !.kind = kind, !.arg = arg, !.pc = "flink", !.cur = Sys]
        /\ ghost' = [ghost EXCEPT !.always = linked, !.ever = linked, !.disturbed = FALSE,
                                  !.failed = FALSE, !.loaded = {}]
    BY ListStarts
  <2>2. QED
    BY <2>1 DEF Types, GuestType
<1>2. /\ call'.kind = kind /\ call'.pc = "flink" /\ call'.result = "none" /\ call'.infos = <<>>
      /\ kind # "module_list" /\ kind # "none"
  BY <1>1 DEF Idle, ListKinds
<1>3. Phases' /\ LookupGoesOn' /\ ModuleWalk' /\ ListClaims'
  BY <1>2 DEF Phases, LookupGoesOn, ToBeFound, ModuleWalk, ListClaims, ListFaithful, LookupFinds,
              ModulesFaithful
<1>4. BasesExe'
  BY <1>1, <1>2 DEF CallInv, BasesExe, BaseIsExe
<1>5. QED
  BY <1>3, <1>4 DEF CallInv

\* The base of a native list is the executable's entry.
LEMMA BaseRead ==
  ASSUME Types, ModuleLists, NEW p \in Procs, flink[p] # Null, <<p, Exe>> \notin ghost.unloaded
  PROVE  mlink[p][LdrHead] = Exe
BY DEF ModuleLists, NativeList

LEMMA KernelInv ==
  ASSUME Types, Ring, ModuleLists, CallInv, KernelProcessInfo
  PROVE  CallInv' /\ ListClaims'
<1>1. /\ ghost'.unloaded = ghost.unloaded
      /\ \/ /\ call' = [Idle EXCEPT !.kind = "kernel_process_info", !.result = "ok"]
            /\ held' = [proc |-> Sys, bases |-> <<mlink[Sys][LdrHead]>>]
         \/ /\ call' = [Idle EXCEPT !.kind = "kernel_process_info", !.result = "err"]
            /\ UNCHANGED held
  BY KernelStarts DEF Types, GuestType
<1>2. call'.kind = "kernel_process_info" /\ call'.pc = "done" /\ call'.infos = <<>>
  BY <1>1 DEF Idle
<1>3. Phases' /\ LookupGoesOn' /\ ModuleWalk' /\ ListClaims'
  BY <1>2 DEF Phases, LookupGoesOn, ModuleWalk, ListClaims, ListFaithful, LookupFinds,
              ModulesFaithful, ListKinds
<1>4. Sys \in Procs /\ flink[Sys] # Null
  BY NodesApart DEF Ring, Types, GuestType
<1>5. held' # Null => BaseIsExe(held)'
  <2>1. CASE held' = held
    BY <2>1, <1>1 DEF CallInv, BasesExe, BaseIsExe
  <2>2. CASE held' = [proc |-> Sys, bases |-> <<mlink[Sys][LdrHead]>>]
    BY <2>2, <1>1, <1>4, BaseRead DEF BaseIsExe
  <2>3. QED
    BY <1>1, <2>1, <2>2
<1>6. BasesExe'
  BY <1>2, <1>5 DEF BasesExe
<1>7. QED
  BY <1>3, <1>6 DEF CallInv

LEMMA ModulesStartInv ==
  ASSUME Types, Ring, ModuleLists, CallInv, NEW kind \in {"module_list", "module_info"},
         NEW arg \in Queries \cup Procs \cup {Null}, BeginModules(kind, arg)
  PROVE  CallInv' /\ ListClaims'
<1>1. /\ Types' /\ held' = held /\ held \in Infos /\ held # Null /\ UNCHANGED guestVars
      /\ call' = WalkModules([Idle EXCEPT !.kind = kind, !.arg = arg], held)
      /\ [Idle EXCEPT !.kind = kind, !.arg = arg] \in CallType
      /\ ghost' = [ghost EXCEPT !.always = linked, !.ever = linked, !.disturbed = FALSE,
                                !.failed = FALSE,
                                !.loaded = IF kind = "module_list"
                                           THEN ToSet(mlinked[held.proc]) ELSE {}]
  BY ModulesStart DEF BeginModules
<1>2. /\ ghost'.unloaded = ghost.unloaded /\ ghost'.always = linked
      /\ kind = "module_list" => ghost'.loaded = ToSet(mlinked[held.proc])
  BY <1>1 DEF Types, GuestType
<1>3. /\ call'.kind = kind /\ call'.pc = "entry" /\ call'.result = "none" /\ call'.infos = <<>>
      /\ call'.todo = <<>> /\ call'.info = held /\ call'.bases = held.bases
      /\ call'.cur = held.bases[1] /\ held.bases[1] \in ModNodes
      /\ call'.entries = <<>> /\ call'.modules = <<>>
  <2> DEFINE o == [Idle EXCEPT !.kind = kind, !.arg = arg]
  <2>1. o.kind = kind /\ o.result = "none" /\ o.infos = <<>> /\ o.todo = <<>>
    BY DEF Idle
  <2>2. call' = WalkModules(o, held) /\ o \in CallType /\ held \in Infos
    BY <1>1
  <2> HIDE DEF o
  <2>3. QED
    BY <2>1, <2>2, WalkBegins
<1>4. kind # "none" /\ kind \notin ListKinds /\ held.bases # <<>> /\ held.proc \in Procs
  <2>1. kind # "none" /\ kind \notin ListKinds
    BY DEF ListKinds
  <2>2. held.proc \in Procs /\ Len(held.bases) \in {1, 2}
    BY <1>1 DEF Infos
  <2>3. Len(<<>>) = 0
    OBVIOUS
  <2>4. QED
    BY <2>1, <2>2, <2>3
<1>5. Phases'
  <2>1. call'.todo \in Seq(Infos) /\ Len(call'.entries) < MaxIter
    BY <1>3, NodesApart
  <2>2. QED
    BY <2>1, <1>1, <1>3, <1>4 DEF Phases
<1>6. BasesExe'
  BY <1>1, <1>2, <1>3 DEF CallInv, BasesExe, BaseIsExe
<1>7. LookupGoesOn' /\ ListClaims'
  BY <1>3, <1>4 DEF LookupGoesOn, ListClaims, ListFaithful, LookupFinds, ModulesFaithful
<1>8. ASSUME kind = "module_list", held.proc \in linked, NoneUnloaded(held.proc)
      PROVE  ModulesSoFar(mlinked[held.proc])'
  <2>1. PICK s \in Seq(NativeEntries) : s = mlinked[held.proc] /\ s = mlinked'[held.proc]
    BY <1>1, <1>4 DEF Types, GuestType, guestVars
  <2>2. flink[held.proc] # Null
    BY <1>8, NodesApart DEF Ring, Types, GuestType
  <2>3. <<held.proc, Exe>> \notin ghost.unloaded
    BY <1>8, NodesApart DEF NoneUnloaded
  <2>4. Len(s) > 0 /\ s[1] = Exe
    BY <1>4, <2>1, <2>2, <2>3 DEF ModuleLists, NativeList
  <2>5. held.bases[1] = Exe
    BY <1>1, <2>3 DEF CallInv, BasesExe, BaseIsExe
  <2>6. Within(s)'
    <3>1. Len(call'.entries) = 0 /\ DOMAIN call'.entries = {}
      BY <1>3
    <3>2. QED
      BY <3>1, <1>3, <2>1, <2>4, <2>5 DEF Within
  <2>7. QED
    BY <1>1, <1>3, <2>1, <2>6 DEF ModulesSoFar
<1>9. NoneUnloaded(held.proc)' <=> NoneUnloaded(held.proc)
  BY <1>1, <1>2 DEF NoneUnloaded
<1>10. ModuleWalk'
  BY <1>1, <1>2, <1>3, <1>8, <1>9 DEF ModuleWalk, guestVars
<1>11. QED
  BY <1>5, <1>6, <1>7, <1>10 DEF CallInv

\* The reads of the walk of the process list.
LEMMA FlinkInv ==
  ASSUME Types, Stands, CallInv, ReadFlink
  PROVE  CallInv' /\ ListClaims'
<1>1. held' = held /\ Walking /\ call.kind \in ListKinds /\ call.infos = <<>> /\ call.result = "none"
  BY DEF ReadFlink, Stands, Walking
<1>2. call.kind # "none" /\ call.kind # "module_list"
  BY <1>1 DEF ListKinds
<1>3. /\ call'.kind = call.kind /\ call'.infos = <<>> /\ ghost'.unloaded = ghost.unloaded
      /\ \/ call'.pc = "blink" /\ call'.result = "none"
         \/ call'.pc = "done" /\ call'.result = "err" /\ ghost'.failed
  <2>1. CASE ReadFails /\ Return("err")
    BY <1>1, <2>1, Failed, Returned DEF Types, GuestType
  <2>2. CASE call' = [call EXCEPT !.next = flink[call.cur], !.pc = "blink"] /\ UNCHANGED ghost
    BY <1>1, <2>2 DEF Types, ClientType, CallType
  <2>3. QED
    BY <2>1, <2>2 DEF ReadFlink
<1>4. Phases' /\ LookupGoesOn' /\ ModuleWalk' /\ ListClaims'
  BY <1>2, <1>3 DEF Phases, LookupGoesOn, ToBeFound, ModuleWalk, ListClaims, ListFaithful,
                    LookupFinds, ModulesFaithful
<1>5. BasesExe'
  BY <1>1, <1>3 DEF CallInv, BasesExe, BaseIsExe
<1>6. QED
  BY <1>4, <1>5 DEF CallInv

LEMMA BlinkInv ==
  ASSUME Types, Ring, Links, Stands, WalkInOrder, CallInv, ReadBlink
  PROVE  CallInv' /\ ListClaims'
<1>1. held' = held /\ Walking /\ call.kind \in ListKinds /\ call.infos = <<>> /\ call.result = "none"
  BY DEF ReadBlink, Stands, Walking
<1>2. call.kind # "none" /\ call.kind # "module_list"
  BY <1>1 DEF ListKinds
<1>3. /\ call.eprocs \in Seq(Procs) /\ call.eprocs \in Seq(ProcNodes)
      /\ ~ListEnds(blink[call.cur]) =>
           /\ Append(call.eprocs, call.cur) \in Seq(Procs)
           /\ Append(call.eprocs, call.cur) \in Seq(ProcNodes)
  <2>1. Procs \subseteq ProcNodes
    BY DEF ProcNodes
  <2>2. QED
    BY <2>1, BlinkRead, AppendSeq DEF Types, ClientType, CallType
<1>4. ListFaithful'
  BY BlinkOrder
<1>5. /\ call'.kind = call.kind /\ call'.infos = <<>> /\ ghost'.unloaded = ghost.unloaded
      /\ \/ call'.pc = "flink" /\ call'.result = "none"
         \/ call'.pc = "done" /\ call'.result = "err" /\ ghost'.failed
         \/ call'.pc = "done" /\ call'.result = "ok"
         \/ /\ call'.pc = "infos" /\ call'.result = "none" /\ call.kind # "eprocess_list"
            /\ call'.todo \in Seq(Procs) /\ call'.todo = call'.eprocs
  <2>1. CASE ReadFails /\ Return("err")
    BY <1>1, <2>1, Failed, Returned DEF Types, GuestType
  <2>2. CASE ListEnds(blink[call.cur]) /\ ListWalked(call.eprocs) /\ UNCHANGED ghost
    BY <1>1, <1>3, <2>2, WalkedList DEF Types
  <2>3. CASE ~ListEnds(blink[call.cur]) /\ ListWalked(Append(call.eprocs, call.cur)) /\ UNCHANGED ghost
    BY <1>1, <1>3, <2>3, WalkedList DEF Types
  <2>4. CASE /\ ~ListEnds(blink[call.cur]) /\ UNCHANGED ghost
             /\ call' = [call EXCEPT !.eprocs = Append(call.eprocs, call.cur), !.cur = call.next,
                                     !.next = Null, !.pc = "flink"]
    BY <1>1, <2>4 DEF Types, ClientType, CallType
  <2>5. QED
    BY <2>1, <2>2, <2>3, <2>4 DEF ReadBlink
<1>6. Phases' /\ ModuleWalk' /\ LookupFinds' /\ ModulesFaithful'
  BY <1>1, <1>2, <1>5 DEF Phases, ModuleWalk, LookupFinds, ModulesFaithful
<1>7. LookupGoesOn'
  BY <1>1, <1>4, <1>5 DEF LookupGoesOn, ToBeFound, ListFaithful
<1>8. BasesExe'
  BY <1>1, <1>5 DEF CallInv, BasesExe, BaseIsExe
<1>9. QED
  BY <1>4, <1>6, <1>7, <1>8 DEF CallInv, ListClaims

\* process_info_list_extend leaves out no process that still has a PEB.
LEMMA InfoInv ==
  ASSUME Types, Ring, Links, ModuleLists, CallInv, ListClaims, ReadInfo
  PROVE  ~Walking' /\ CallInv' /\ ListClaims'
<1>1. /\ call.todo \in Seq(Procs) /\ call.todo # <<>> /\ Head(call.todo) \in Procs
      /\ HasPeb(Head(call.todo)) => InfoOf(Head(call.todo)) \in Infos
      /\ \/ /\ HasPeb(Head(call.todo)) /\ UNCHANGED ghost
            /\ call' = [call EXCEPT !.todo = Tail(call.todo),
                                    !.infos = Append(call.infos, InfoOf(Head(call.todo)))]
         \/ /\ ~HasPeb(Head(call.todo)) /\ UNCHANGED ghost
            /\ call' = [call EXCEPT !.todo = Tail(call.todo)]
         \/ ReadFails /\ call' = [call EXCEPT !.todo = Tail(call.todo)]
  BY InfoRead DEF CallInv
<1> DEFINE p == Head(call.todo)
<1>2. /\ call.pc = "infos" /\ held' = held /\ call.kind \in ListKinds \ {"eprocess_list"}
      /\ call.result = "none" /\ call.kind # "module_list" /\ call.kind # "none"
  BY DEF ReadInfo, CallInv, Phases, ListKinds
<1>3. /\ ghost'.unloaded = ghost.unloaded /\ ghost'.always = ghost.always /\ ghost'.ever = ghost.ever
      /\ ghost'.disturbed = ghost.disturbed /\ (ghost.failed => ghost'.failed)
      /\ ReadFails => ghost'.failed
  <2>1. CASE UNCHANGED ghost
    BY <2>1 DEF ReadFails, Types, GuestType
  <2>2. CASE ReadFails
    BY <2>2, Failed DEF Types, GuestType
  <2>3. QED
    BY <1>1, <2>1, <2>2
<1>4. /\ call'.kind = call.kind /\ call'.arg = call.arg /\ call'.pc = "infos" /\ call'.result = "none"
      /\ call'.eprocs = call.eprocs /\ call'.todo = Tail(call.todo)
      /\ \/ call'.infos = call.infos
         \/ HasPeb(p) /\ call'.infos = Append(call.infos, InfoOf(p))
      /\ call'.infos = Append(call.infos, InfoOf(p)) \/ ~HasPeb(p) \/ ReadFails
  BY <1>1, <1>2 DEF Types, ClientType, CallType
<1>5. /\ Tail(call.todo) \in Seq(Procs)
      /\ ToSet(call.todo) = ToSet(Tail(call.todo)) \cup {p}
  BY <1>1, TailSeq
<1>6. Phases' /\ ModuleWalk' /\ ModulesFaithful' /\ LookupFinds' /\ ~Walking'
  BY <1>2, <1>4, <1>5 DEF Phases, ModuleWalk, LookupFinds, ModulesFaithful, Walking
<1>7. ListFaithful'
  BY <1>2, <1>3, <1>4 DEF ListClaims, ListFaithful
<1>8. HasPeb(p) =>
        /\ InfoOf(p) \in Infos /\ InfoOf(p).proc = p
        /\ <<p, Exe>> \notin ghost.unloaded => InfoOf(p).bases[1] = Exe
  BY <1>1, BasesFound, BaseRead DEF HasPeb, Types
<1>9. call.infos \in Seq(Infos)
  BY DEF Types, ClientType, CallType
<1>10. BasesExe'
  <2>1. held' # Null => BaseIsExe(held)'
    BY <1>2, <1>3 DEF CallInv, BasesExe, BaseIsExe
  <2>2. ASSUME NEW i \in DOMAIN call'.infos
        PROVE  <<call'.infos[i].proc, Exe>> \notin ghost'.unloaded => call'.infos[i].bases[1] = Exe
    <3>1. CASE call'.infos = call.infos
      BY <3>1, <1>3 DEF CallInv, BasesExe, BaseIsExe
    <3>2. CASE HasPeb(p) /\ call'.infos = Append(call.infos, InfoOf(p))
      <4>1. DOMAIN call'.infos = 1 .. Len(call.infos) + 1 /\ DOMAIN call.infos = 1 .. Len(call.infos)
            /\ Len(call.infos) \in Nat
        BY <3>2, <1>8, <1>9
      <4>2. CASE i = Len(call.infos) + 1
        <5>1. call'.infos[i] = InfoOf(p)
          BY <3>2, <4>2, <1>8, <1>9
        <5>2. QED
          BY <5>1, <3>2, <1>3, <1>8
      <4>3. CASE i \in DOMAIN call.infos
        <5>1. call'.infos[i] = call.infos[i]
          BY <3>2, <4>3, <1>8, <1>9
        <5>2. QED
          BY <5>1, <4>3, <1>3 DEF CallInv, BasesExe, BaseIsExe
      <4>4. QED
        BY <4>1, <4>2, <4>3
    <3>3. QED
      BY <3>1, <3>2, <1>4
  <2>3. QED
    BY <2>1, <2>2, <1>4 DEF BasesExe, BaseIsExe
<1>11. LookupGoesOn'
  <2>1. SUFFICES ASSUME ~ghost'.failed, ~ghost'.disturbed, Len(call'.eprocs) < MaxIter,
                        NEW q \in ghost'.always \ {Sys}
                 PROVE  q \in ToSet(call'.todo)
                        \/ \E i \in DOMAIN call'.infos : call'.infos[i].proc = q
    BY <1>4 DEF LookupGoesOn, ToBeFound
  <2>2. q \in ToSet(call.todo) \/ \E i \in DOMAIN call.infos : call.infos[i].proc = q
    BY <2>1, <1>2, <1>3, <1>4 DEF CallInv, LookupGoesOn, ToBeFound
  <2>3. CASE q \in ToSet(Tail(call.todo))
    BY <2>3, <1>4
  <2>4. CASE q = p
    <3>1. HasPeb(p)
      <4>1. q \in linked /\ flink[q] # Null
        BY <2>1, <1>3, NodesApart DEF Links, Ring, Types, GuestType
      <4>2. QED
        BY <4>1, <2>1, <2>4 DEF HasPeb
    <3>2. call'.infos = Append(call.infos, InfoOf(p))
      BY <3>1, <2>1, <1>3, <1>4
    <3>3. Len(call.infos) + 1 \in DOMAIN call'.infos /\ call'.infos[Len(call.infos) + 1] = InfoOf(p)
      BY <3>1, <3>2, <1>8, <1>9
    <3>4. QED
      BY <2>4, <3>1, <3>3, <1>8
  <2>5. CASE \E i \in DOMAIN call.infos : call.infos[i].proc = q
    <3>1. PICK i \in DOMAIN call.infos : call.infos[i].proc = q
      BY <2>5
    <3>2. i \in DOMAIN call'.infos /\ call'.infos[i] = call.infos[i]
      <4>1. CASE call'.infos = call.infos
        BY <4>1, <3>1
      <4>2. CASE HasPeb(p) /\ call'.infos = Append(call.infos, InfoOf(p))
        BY <4>2, <3>1, <1>8, <1>9
      <4>3. QED
        BY <4>1, <4>2, <1>4
    <3>3. QED
      BY <3>1, <3>2
  <2>6. QED
    BY <2>2, <2>3, <2>4, <2>5, <1>5
<1>12. QED
  BY <1>6, <1>7, <1>10, <1>11 DEF CallInv, ListClaims

\* An unknown pid fails; a name goes on to be probed.
LEMMA InfosInv ==
  ASSUME Types, CallInv, ListClaims, InfosRead
  PROVE  ~Walking' /\ CallInv' /\ ListClaims'
<1>1. /\ call.pc = "infos" /\ ghost' = ghost /\ call.todo = <<>>
      /\ call.kind \in ListKinds \ {"eprocess_list"}
      /\ call.result = "none" /\ call.kind # "module_list" /\ call.kind # "none"
      /\ call.infos \in Seq(Infos)
  BY DEF InfosRead, CallInv, Phases, ListKinds, Types, ClientType, CallType
<1>2. held' = held \/ \E i \in DOMAIN call.infos : held' = call.infos[i]
  BY InfosKept
<1>3. held' # Null => BaseIsExe(held)'
  BY <1>1, <1>2 DEF CallInv, BasesExe, BaseIsExe
<1>4. ToSet(<<>>) = {}
  BY DEF ToSet
<1>5. LookupGoesOn
  BY DEF CallInv
<1>6. ListFaithful
  BY DEF ListClaims
<1>7. CASE \E result \in {"ok", "err"} :
             /\ Return(result)
             /\ result = "err" => /\ call.kind = "process_info_pid"
                                  /\ \A i \in DOMAIN call.infos : call.infos[i].proc # call.arg
  <2>1. PICK result \in {"ok", "err"} :
             /\ Return(result)
             /\ result = "err" => /\ call.kind = "process_info_pid"
                                  /\ \A i \in DOMAIN call.infos : call.infos[i].proc # call.arg
    BY <1>7
  <2>2. /\ call'.pc = "done" /\ call'.result = result /\ call'.kind = call.kind
        /\ call'.arg = call.arg /\ call'.eprocs = call.eprocs /\ call'.infos = call.infos
    BY <2>1, Returned DEF Types
  <2>3. Phases' /\ ModuleWalk' /\ ModulesFaithful' /\ LookupGoesOn' /\ ~Walking'
    BY <1>1, <2>2 DEF Phases, ModuleWalk, ModulesFaithful, LookupGoesOn, ToBeFound, Walking
  <2>4. BasesExe'
    BY <1>1, <1>3, <2>2 DEF CallInv, BasesExe, BaseIsExe
  <2>5. ListFaithful'
    BY <1>1, <1>6, <2>2 DEF ListFaithful
  <2>6. LookupFinds'
    BY <1>1, <1>4, <1>5, <2>1, <2>2 DEF LookupFinds, LookupGoesOn, ToBeFound
  <2>7. QED
    BY <2>3, <2>4, <2>5, <2>6 DEF CallInv, ListClaims
<1>8. CASE /\ call.kind = "process_info"
           /\ call' = [call EXCEPT !.todo = call.infos, !.pc = "probe"]
  <2>1. /\ call'.pc = "probe" /\ call'.result = "none" /\ call'.kind = "process_info"
        /\ call'.arg = call.arg /\ call'.eprocs = call.eprocs /\ call'.infos = call.infos
        /\ call'.todo = call.infos
    BY <1>1, <1>8 DEF Types, ClientType, CallType
  <2>2. Phases' /\ ModuleWalk' /\ ModulesFaithful' /\ LookupFinds' /\ ~Walking'
    BY <1>1, <2>1 DEF Phases, ModuleWalk, ModulesFaithful, LookupFinds, Walking
  <2>3. BasesExe'
    BY <1>1, <1>3, <2>1 DEF CallInv, BasesExe, BaseIsExe
  <2>4. ListFaithful'
    BY <1>1, <1>6, <1>8, <2>1 DEF ListFaithful
  <2>5. LookupGoesOn'
    BY <1>1, <1>4, <1>5, <1>8, <2>1 DEF LookupGoesOn, ToBeFound
  <2>6. QED
    BY <2>2, <2>3, <2>4, <2>5 DEF CallInv, ListClaims
<1>9. QED
  <2>1. \/ Return("ok")
        \/ /\ Return("err") /\ call.kind = "process_info_pid"
           /\ \A i \in DOMAIN call.infos : call.infos[i].proc # call.arg
        \/ /\ call.kind = "process_info"
           /\ call' = [call EXCEPT !.todo = call.infos, !.pc = "probe"]
    BY DEF InfosRead
  <2>2. "ok" # "err"
    OBVIOUS
  <2>3. QED
    BY <2>1, <2>2, <1>7, <1>8

\* An operation whose read failed promises nothing any more.
LEMMA GaveUp ==
  ASSUME Types, CallInv, ReadFails, Return("err"), held' = held, mlinked' = mlinked
  PROVE  ~Walking' /\ CallInv' /\ ListClaims'
<1>1. /\ call'.pc = "done" /\ call'.result = "err" /\ call'.kind = call.kind
      /\ call'.infos = call.infos
  BY Returned DEF Types
<1>2. /\ ghost'.failed /\ ghost'.unloaded = ghost.unloaded /\ ghost'.always = ghost.always
      /\ ghost'.loaded = ghost.loaded
  BY Failed DEF Types, GuestType
<1>3. ~Walking' /\ Phases' /\ LookupGoesOn' /\ ListClaims'
  BY <1>1, <1>2 DEF Walking, Phases, LookupGoesOn, ListClaims, ListFaithful, LookupFinds,
                    ModulesFaithful
<1>4. BasesExe'
  BY <1>1, <1>2 DEF CallInv, BasesExe, BaseIsExe
<1>5. ModuleWalk'
  BY <1>1, <1>2 DEF CallInv, ModuleWalk, NoneUnloaded
<1>6. QED
  BY <1>3, <1>4, <1>5 DEF CallInv

\* A candidate's module list is walked from the executable's entry.
LEMMA ProbeInv ==
  ASSUME Types, CallInv, ListClaims, Probe
  PROVE  ~Walking' /\ CallInv' /\ ListClaims'
<1>1. /\ call.pc = "probe" /\ held' = held /\ ghost' = ghost
      /\ call.kind = "process_info" /\ call.kind \in ListKinds /\ call.result = "none"
      /\ call.todo \in Seq(Infos)
  BY Probed DEF Probe, CallInv, Phases, ListKinds
<1>2. LookupGoesOn /\ ListFaithful /\ BasesExe
  BY DEF CallInv, ListClaims
<1>3. CASE call.todo = <<>> /\ Return("err")
  <2>1. /\ call'.pc = "done" /\ call'.result = "err" /\ call'.kind = call.kind
        /\ call'.arg = call.arg /\ call'.eprocs = call.eprocs /\ call'.infos = call.infos
    BY <1>3, Returned DEF Types
  <2>2. Phases' /\ ModuleWalk' /\ ModulesFaithful' /\ LookupGoesOn' /\ ListFaithful' /\ ~Walking'
    BY <1>1, <2>1 DEF Phases, ModuleWalk, ModulesFaithful, LookupGoesOn, ToBeFound, ListFaithful,
                      Walking
  <2>3. BasesExe'
    BY <1>1, <1>2, <2>1 DEF BasesExe, BaseIsExe
  <2>4. LookupFinds'
    <3>1. DOMAIN call.todo = {}
      BY <1>3
    <3>2. QED
      BY <1>1, <1>2, <2>1, <3>1 DEF LookupFinds, LookupGoesOn, ToBeFound
  <2>5. QED
    BY <2>2, <2>3, <2>4 DEF CallInv, ListClaims
<1>4. CASE call.todo # <<>>
  <2> DEFINE info == Head(call.todo)
             rest == [call EXCEPT !.todo = Tail(call.todo)]
  <2>1. /\ rest \in CallType /\ info \in Infos /\ info = call.todo[1]
        /\ Tail(call.todo) \in Seq(Infos) /\ Len(call.todo) \in Nat \ {0}
        /\ Len(Tail(call.todo)) = Len(call.todo) - 1
        /\ \A i \in 1 .. Len(call.todo) - 1 : Tail(call.todo)[i] = call.todo[i + 1]
    BY <1>1, <1>4, Probed, TailSeq DEF CallInv
  <2>2. /\ rest.kind = call.kind /\ rest.arg = call.arg /\ rest.eprocs = call.eprocs
        /\ rest.infos = call.infos /\ rest.result = call.result /\ rest.pc = "probe"
        /\ rest.todo = Tail(call.todo)
    BY <1>1 DEF Types, ClientType, CallType
  <2>3. call' = IF Candidate(info, call.arg) THEN WalkModules(rest, info) ELSE rest
    BY <1>4 DEF Probe
  <2> HIDE DEF info, rest
  <2>4. /\ call'.kind = call.kind /\ call'.arg = call.arg /\ call'.eprocs = call.eprocs
        /\ call'.infos = call.infos /\ call'.result = "none" /\ call'.todo = Tail(call.todo)
        /\ \/ call'.pc = "probe" /\ ~Candidate(info, call.arg)
           \/ /\ call'.pc = "entry" /\ call'.info = info /\ call'.bases = info.bases
              /\ call'.cur = info.bases[1] /\ call'.entries = <<>> /\ info.bases[1] \in ModNodes
    BY <1>1, <2>1, <2>2, <2>3, WalkBegins
  <2>5. call'.pc # "probe" => call'.info \in Infos /\ call'.bases # <<>> /\ Len(call'.entries) < MaxIter
    <3>1. Len(info.bases) \in {1, 2} /\ Len(<<>>) = 0
      BY <2>1 DEF Infos
    <3>2. info.bases # <<>>
      BY <3>1
    <3>3. QED
      BY <2>1, <2>4, <3>1, <3>2, NodesApart
  <2>6. Phases' /\ ModuleWalk' /\ ModulesFaithful' /\ LookupFinds' /\ ListFaithful' /\ ~Walking'
    BY <1>1, <1>2, <2>1, <2>4, <2>5 DEF Phases, ModuleWalk, ModulesFaithful, LookupFinds,
       ListFaithful, Walking
  <2>7. BasesExe'
    <3>1. held' # Null => BaseIsExe(held)'
      BY <1>1, <1>2 DEF BasesExe, BaseIsExe
    <3>2. \A i \in DOMAIN call'.infos :
            <<call'.infos[i].proc, Exe>> \notin ghost'.unloaded => call'.infos[i].bases[1] = Exe
      BY <1>1, <1>2, <2>4 DEF BasesExe, BaseIsExe
    <3>3. \A i \in DOMAIN call.todo :
            <<call.todo[i].proc, Exe>> \notin ghost.unloaded => call.todo[i].bases[1] = Exe
      BY <1>1, <1>2 DEF BasesExe, BaseIsExe
    <3>4. \A i \in DOMAIN call'.todo :
            <<call'.todo[i].proc, Exe>> \notin ghost'.unloaded => call'.todo[i].bases[1] = Exe
      <4>1. SUFFICES ASSUME NEW i \in DOMAIN Tail(call.todo),
                            <<Tail(call.todo)[i].proc, Exe>> \notin ghost.unloaded
                     PROVE  Tail(call.todo)[i].bases[1] = Exe
        BY <1>1, <2>4
      <4>2. i \in 1 .. Len(call.todo) - 1 /\ i + 1 \in DOMAIN call.todo
        BY <1>1, <2>1
      <4>3. Tail(call.todo)[i] = call.todo[i + 1]
        BY <2>1, <4>2
      <4>4. QED
        BY <3>3, <4>1, <4>2, <4>3
    <3>5. <<info.proc, Exe>> \notin ghost.unloaded => info.bases[1] = Exe
      <4>1. 1 \in DOMAIN call.todo
        BY <1>1, <2>1
      <4>2. QED
        BY <2>1, <3>3, <4>1
    <3>6. QED
      BY <1>1, <2>4, <3>1, <3>2, <3>4, <3>5 DEF BasesExe, BaseIsExe
  <2>8. LookupGoesOn'
    <3>1. SUFFICES ASSUME ~ghost.failed, ~ghost.disturbed, Len(call.eprocs) < MaxIter,
                          NEW p \in ghost.always \ {Sys},
                          SameName(FullName[p], call.arg), <<p, Exe>> \notin ghost.unloaded
                   PROVE  \/ \E i \in DOMAIN call'.todo : call'.todo[i].proc = p
                          \/ call'.pc # "probe" /\ call'.info.proc = p /\ SeesExe'
      BY <1>1, <2>4 DEF LookupGoesOn, ToBeFound
    <3>2. PICK i \in DOMAIN call.todo : call.todo[i].proc = p
      BY <1>1, <1>2, <3>1 DEF LookupGoesOn, ToBeFound
    <3>3. i \in 1 .. Len(call.todo)
      BY <1>1
    <3>4. CASE i = 1
      <4>1. info.proc = p /\ Candidate(info, call.arg)
        BY <2>1, <3>1, <3>2, <3>4 DEF SameName, Candidate
      <4>2. info.bases[1] = Exe
        BY <1>1, <1>2, <2>1, <3>1, <3>2, <3>4 DEF BasesExe, BaseIsExe
      <4>3. QED
        BY <2>4, <4>1, <4>2 DEF SeesExe
    <3>5. CASE i # 1
      <4>1. i - 1 \in 1 .. Len(call.todo) - 1
        BY <2>1, <3>3, <3>5
      <4>2. Tail(call.todo)[i - 1] = call.todo[(i - 1) + 1]
        BY <2>1, <4>1
      <4>3. i - 1 \in DOMAIN Tail(call.todo) /\ Tail(call.todo)[i - 1] = call.todo[i]
        BY <2>1, <3>3, <4>1, <4>2
      <4>4. QED
        BY <2>4, <3>2, <4>3
    <3>6. QED
      BY <3>4, <3>5
  <2>9. QED
    BY <2>6, <2>7, <2>8 DEF CallInv, ListClaims
<1>5. QED
  BY <1>3, <1>4 DEF Probe

\* What a list holds when its end has been appended to.
LEMMA EntryTaken ==
  ASSUME NEW S, NEW s \in Seq(S), NEW e \in S
  PROVE  /\ e \notin ToSet(s) /\ Distinct(s) => Distinct(Append(s, e))
         /\ DOMAIN s = 1 .. Len(s) /\ DOMAIN Append(s, e) = 1 .. Len(s) + 1 /\ Len(s) \in Nat
         /\ \A i \in DOMAIN s : Append(s, e)[i] = s[i]
         /\ Append(s, e)[Len(s) + 1] = e
<1>1. /\ DOMAIN s = 1 .. Len(s) /\ DOMAIN Append(s, e) = 1 .. Len(s) + 1 /\ Len(s) \in Nat
      /\ \A i \in DOMAIN s : Append(s, e)[i] = s[i]
      /\ Append(s, e)[Len(s) + 1] = e
  OBVIOUS
<1>2. \A i \in DOMAIN s : s[i] \in ToSet(s)
  BY <1>1 DEF ToSet
<1>3. ASSUME e \notin ToSet(s), Distinct(s),
             NEW i \in DOMAIN Append(s, e), NEW j \in DOMAIN Append(s, e),
             Append(s, e)[i] = Append(s, e)[j]
      PROVE  i = j
  <2>1. (i \in DOMAIN s \/ i = Len(s) + 1) /\ (j \in DOMAIN s \/ j = Len(s) + 1)
    BY <1>1
  <2>2. QED
    BY <1>1, <1>2, <1>3, <2>1 DEF Distinct
<1>4. QED
  BY <1>1, <1>3 DEF Distinct

\* What the walk of the native list does at one entry.
LEMMA NativeStep ==
  ASSUME Types, Ring, Links, ModuleLists, CallInv, ReadEntryLink, UNCHANGED ghost,
         NEW entries, entries = Append(call.entries, call.cur),
         NEW next, next = mlink[call.info.proc][call.cur],
         call' = [call EXCEPT !.entries = entries, !.cur = next,
                   !.pc = IF EntriesEnd(next) \/ Len(entries) = MaxIter THEN "names" ELSE "entry"],
         NEW s \in Seq(NativeEntries), s = mlinked[call.info.proc],
         call.info.proc \in ghost.always, NoneUnloaded(call.info.proc),
         ghost.loaded \subseteq ToSet(s),
         call.bases = call.info.bases, call.modules = <<>>, Within(s)
  PROVE  ModulesSoFar(s)'
<1> DEFINE p == call.info.proc
           n == Len(call.entries)
<1>1. /\ call.info \in Infos /\ p \in Procs /\ call.cur \in ModNodes
      /\ call.entries \in Seq(ModNodes) /\ next \in ModNodes \cup {Null}
      /\ call.pc = "entry" /\ n < MaxIter /\ n \in Nat /\ Len(s) \in Nat
  BY LinkRead DEF ReadEntryLink, CallInv, Phases
<1>n. n \in Nat /\ Len(s) \in Nat /\ n < MaxIter /\ MaxIter \in Nat
  BY <1>1, NodesApart
<1>2. flink[p] # Null
  BY NodesApart DEF Ring, Links, Types, GuestType
<1>3. <<p, Exe>> \notin ghost.unloaded
  BY NodesApart DEF NoneUnloaded
<1>4. /\ Len(s) > 0 /\ s[1] = Exe /\ mlink[p][LdrHead] = Exe /\ Distinct(s)
      /\ \A j \in DOMAIN s : mlink[p][s[j]] = IF j < Len(s) THEN s[j + 1] ELSE LdrHead
  BY <1>1, <1>2, <1>3 DEF ModuleLists, NativeList, Distinct
<1>5. call.bases # <<>> /\ Head(call.bases) = Exe
  <2>1. call.bases # <<>> /\ call.bases \in Seq(ModNodes) /\ BaseIsExe(call.info)
    BY <1>1 DEF CallInv, Phases, BasesExe, Infos
  <2>2. call.bases[1] = Exe
    BY <1>3, <2>1 DEF BaseIsExe
  <2>3. QED
    BY <2>1, <2>2, TailSeq
<1>6. /\ call'.entries = entries /\ call'.cur = next /\ call'.modules = <<>>
      /\ call'.bases = call'.info.bases
      /\ call'.pc = IF EntriesEnd(next) \/ Len(entries) = MaxIter THEN "names" ELSE "entry"
  BY DEF Types, ClientType, CallType
<1>7. /\ entries \in Seq(ModNodes) /\ Len(entries) = n + 1
      /\ ToSet(entries) = ToSet(call.entries) \cup {call.cur}
      /\ DOMAIN entries = 1 .. n + 1 /\ DOMAIN call.entries = 1 .. n
      /\ \A i \in 1 .. n : entries[i] = call.entries[i]
      /\ entries[n + 1] = call.cur
      /\ call.cur \notin ToSet(call.entries) /\ Distinct(call.entries) => Distinct(entries)
  BY <1>1, AppendSeq, EntryTaken
<1>l. Len(entries) = n + 1
  BY <1>7
<1>d. /\ ToSet(entries) = ToSet(call.entries) \cup {call.cur}
      /\ call.cur \notin ToSet(call.entries) /\ Distinct(call.entries) => Distinct(entries)
  BY <1>7
<1>8. n <= Len(s) /\ \A i \in 1 .. n : call.entries[i] = s[i]
  BY <1>7 DEF Within
<1>9. DOMAIN s = 1 .. Len(s) /\ \A i \in 1 .. Len(s) : s[i] \in NativeEntries
  OBVIOUS
<1>10. ToSet(call.entries) \subseteq NativeEntries
  BY <1>1, <1>7, <1>8, <1>9 DEF ToSet
<1>11. Distinct(call.entries)
  <2>1. SUFFICES ASSUME NEW i \in 1 .. n, NEW j \in 1 .. n, call.entries[i] = call.entries[j]
                 PROVE  i = j
    BY <1>7 DEF Distinct
  <2>2. i \in DOMAIN s /\ j \in DOMAIN s
    BY <1>n, <1>8, <1>9
  <2>3. s[i] = s[j]
    BY <1>8, <2>1
  <2>4. QED
    BY <1>4, <2>2, <2>3 DEF Distinct
<1>12. ToSet(<<>>) = {} /\ Distinct(<<>>)
  BY DEF ToSet, Distinct
<1>13. ASSUME Distinct(entries), ToSet(entries) \subseteq NativeEntries \cup {LdrHead},
              ghost.loaded \subseteq ToSet(entries) \/ Len(s) >= MaxIter, call'.pc = "names"
       PROVE  ModulesSoFar(s)'
  <2>1. NoneTwice'
    BY <1>6, <1>12, <1>13 DEF NoneTwice
  <2>2. HasLoaded(s, ToSet(call.modules) \cup ToSet(call.entries))'
    BY <1>1, <1>6, <1>12, <1>13, NodesApart DEF HasLoaded
  <2>3. QED
    BY <1>6, <1>12, <1>13, <2>1, <2>2 DEF ModulesSoFar
<1> HIDE DEF p, n
<1>14. CASE /\ call.cur = LdrHead
            /\ ghost.loaded \subseteq ToSet(call.entries) \/ Len(s) >= MaxIter
  <2>1. next = Exe
    BY <1>4, <1>14 DEF p
  <2>2. call'.pc = "names"
    BY <1>5, <1>6, <2>1 DEF EntriesEnd
  <2>3. Distinct(entries) /\ ToSet(entries) \subseteq NativeEntries \cup {LdrHead}
    BY <1>d, <1>10, <1>11, <1>14, NodesApart
  <2>4. QED
    BY <1>7, <1>13, <1>14, <2>2, <2>3
<1>15. CASE n < Len(s) /\ call.cur = s[n + 1]
  <2>0. n + 1 \in 1 .. Len(s)
    BY <1>n, <1>15, SMTT(20)
  <2>1. n + 1 \in 1 .. Len(s) /\ call.cur \in NativeEntries
    BY <2>0, <1>9, <1>15
  <2>2. next = IF n + 1 < Len(s) THEN s[(n + 1) + 1] ELSE LdrHead
    BY <1>4, <1>9, <1>15, <2>1 DEF p
  <2>3. next # Null /\ next # Exe
    <3>1. CASE n + 1 < Len(s)
      <4>1. (n + 1) + 1 \in DOMAIN s /\ 1 \in DOMAIN s /\ (n + 1) + 1 # 1
        BY <1>1, <1>9, <3>1
      <4>2. s[(n + 1) + 1] # s[1]
        BY <1>4, <4>1 DEF Distinct
      <4>3. s[(n + 1) + 1] \in NativeEntries
        BY <1>9, <4>1
      <4>4. QED
        BY <1>4, <2>2, <3>1, <4>2, <4>3, NodesApart
    <3>2. CASE ~(n + 1 < Len(s))
      BY <2>2, <3>2, NodesApart
    <3>3. QED
      BY <3>1, <3>2
  <2>4. call'.pc = IF Len(entries) = MaxIter THEN "names" ELSE "entry"
    BY <1>5, <1>6, <2>3 DEF EntriesEnd
  <2>5. \A i \in 1 .. n + 1 : entries[i] = s[i]
    <3>1. SUFFICES ASSUME NEW i \in 1 .. n + 1 PROVE entries[i] = s[i]
      OBVIOUS
    <3>2. i \in 1 .. n \/ i = n + 1
      BY <1>n
    <3>3. QED
      BY <3>2, <1>7, <1>8, <1>15
  <2>6. call.cur \notin ToSet(call.entries)
    <3>1. SUFFICES ASSUME NEW i \in 1 .. n, call.entries[i] = call.cur PROVE FALSE
      BY <1>7 DEF ToSet
    <3>2. i \in DOMAIN s /\ n + 1 \in DOMAIN s /\ i # n + 1
      BY <1>n, <1>9, <2>1
    <3>3. s[i] = s[n + 1]
      BY <1>8, <1>15, <3>1
    <3>4. QED
      BY <1>4, <3>2, <3>3 DEF Distinct
  <2>7. Distinct(entries) /\ ToSet(entries) \subseteq NativeEntries
    BY <1>d, <1>10, <1>11, <2>1, <2>6
  <2>8. CASE Len(entries) = MaxIter
    <3>1. Len(s) >= MaxIter
      BY <1>n, <1>l, <1>15, <2>8, SMTT(20)
    <3>2. QED
      BY <1>13, <2>4, <2>7, <2>8, <3>1
  <2>9. CASE Len(entries) # MaxIter
    <3>1. call'.pc = "entry"
      BY <2>4, <2>9
    <3>2. \/ next = LdrHead /\ ghost.loaded \subseteq ToSet(entries)
          \/ Len(entries) < Len(s) /\ next = s[Len(entries) + 1]
      <4>1. CASE n + 1 < Len(s)
        BY <1>l, <2>2, <4>1, SMTT(20)
      <4>2. CASE ~(n + 1 < Len(s))
        <5>1. n + 1 = Len(s)
          BY <1>n, <1>15, <4>2
        <5>2. ToSet(s) \subseteq ToSet(entries)
          BY <1>7, <1>9, <2>5, <5>1 DEF ToSet
        <5>3. QED
          BY <2>2, <4>2, <5>2
      <4>3. QED
        BY <4>1, <4>2
    <3>3. Len(entries) <= Len(s) /\ \A i \in DOMAIN entries : entries[i] = s[i]
      <4>1. n + 1 <= Len(s)
        BY <1>n, <1>15
      <4>2. Len(entries) <= Len(s)
        BY <1>7, <4>1
      <4>3. \A i \in DOMAIN entries : entries[i] = s[i]
        BY <1>7, <2>5
      <4>4. QED
        BY <4>2, <4>3
    <3>4. Within(s)'
      BY <1>6, <3>2, <3>3 DEF Within
    <3>5. QED
      BY <1>6, <3>1, <3>4 DEF ModulesSoFar
  <2>10. QED
    BY <2>8, <2>9
<1>16. QED
  BY <1>14, <1>15 DEF Within, n

\* And what that of the WoW64 list does.
LEMMA WowStep ==
  ASSUME Types, Ring, Links, ModuleLists, CallInv, ReadEntryLink, UNCHANGED ghost,
         NEW entries, entries = Append(call.entries, call.cur),
         NEW next, next = mlink[call.info.proc][call.cur],
         call' = [call EXCEPT !.entries = entries, !.cur = next,
                   !.pc = IF EntriesEnd(next) \/ Len(entries) = MaxIter THEN "names" ELSE "entry"],
         NEW s, call.info.proc \in ghost.always,
         call.bases = <<WowEntry>>,
         Distinct(call.modules), ToSet(call.modules) \subseteq NativeEntries,
         HasLoaded(s, ToSet(call.modules)),
         \/ call.entries = <<>> /\ call.cur = WowEntry
         \/ call.entries = <<WowEntry>> /\ call.cur = WowHead
  PROVE  ModulesSoFar(s)'
<1>1. flink[call.info.proc] # Null /\ call.info.proc \in Procs
  BY LinkRead, NodesApart DEF Ring, Links, Types, GuestType, CallInv
<1>2. mlink[call.info.proc][WowHead] = WowEntry /\ mlink[call.info.proc][WowEntry] = WowHead
  BY <1>1 DEF ModuleLists
<1>3. Head(call.bases) = WowEntry
  OBVIOUS
<1>4. /\ call'.entries = entries /\ call'.cur = next /\ call'.modules = call.modules
      /\ call'.bases = <<WowEntry>>
      /\ call'.pc = IF EntriesEnd(next) \/ Len(entries) = MaxIter THEN "names" ELSE "entry"
  BY DEF Types, ClientType, CallType
<1>5. HasLoaded(s, ToSet(call.modules))'
  BY <1>4 DEF HasLoaded
<1>6. ASSUME call'.pc = "names", Distinct(entries), ToSet(entries) \subseteq {WowHead, WowEntry}
      PROVE  ModulesSoFar(s)'
  <2>1. NoneTwice'
    BY <1>4, <1>6, NodesApart DEF NoneTwice
  <2>2. HasLoaded(s, ToSet(call.modules) \cup ToSet(call.entries))'
    BY <1>5 DEF HasLoaded
  <2>3. QED
    BY <1>4, <1>6, <2>1, <2>2 DEF ModulesSoFar
<1>7. CASE call.entries = <<>> /\ call.cur = WowEntry
  <2>1. entries = <<WowEntry>> /\ next = WowHead
    BY <1>2, <1>7
  <2>2. ~EntriesEnd(next)
    BY <1>3, <2>1, NodesApart DEF EntriesEnd
  <2>3. Distinct(entries) /\ ToSet(entries) = {WowEntry}
    BY <2>1 DEF Distinct, ToSet
  <2>4. CASE call'.pc = "names"
    BY <1>6, <2>3, <2>4
  <2>5. CASE call'.pc = "entry"
    BY <1>4, <1>5, <2>1, <2>5 DEF ModulesSoFar
  <2>6. QED
    BY <1>4, <2>4, <2>5
<1>8. CASE call.entries = <<WowEntry>> /\ call.cur = WowHead
  <2>1. next = WowEntry
    BY <1>2, <1>8
  <2>2. call'.pc = "names"
    BY <1>3, <1>4, <2>1 DEF EntriesEnd
  <2>3. Distinct(entries) /\ ToSet(entries) = {WowEntry, WowHead}
    <3>1. <<WowEntry>> \in Seq(ModNodes) /\ WowHead \in ModNodes /\ WowHead \notin {WowEntry}
      BY NodesApart
    <3>2. ToSet(<<WowEntry>>) = {WowEntry} /\ Distinct(<<WowEntry>>)
      BY DEF ToSet, Distinct
    <3>3. ToSet(entries) = ToSet(<<WowEntry>>) \cup {WowHead}
      <4>1. call.entries \in Seq(ModNodes) /\ call.cur \in ModNodes
        BY <1>8, <3>1
      <4>2. ToSet(entries) = ToSet(call.entries) \cup {call.cur}
        BY <4>1, AppendSeq
      <4>3. QED
        BY <1>8, <4>2
    <3>4. Distinct(entries)
      <4>1. call.entries \in Seq(ModNodes) /\ call.cur \in ModNodes
        BY <1>8, <3>1
      <4>2. call.cur \notin ToSet(call.entries) /\ Distinct(call.entries)
        BY <1>8, <3>2, NodesApart
      <4>3. QED
        BY <4>1, <4>2, EntryTaken
    <3>5. QED
      BY <3>2, <3>3, <3>4
  <2>4. QED
    BY <1>6, <2>2, <2>3
<1>9. QED
  BY <1>7, <1>8

\* A module entry is collected before its link is read.
LEMMA LinkInv ==
  ASSUME Types, Ring, Links, ModuleLists, CallInv, ListClaims, ReadEntryLink
  PROVE  ~Walking' /\ CallInv' /\ ListClaims'
<1> DEFINE next == mlink[call.info.proc][call.cur]
           entries == Append(call.entries, call.cur)
<1>1. /\ call.pc = "entry" /\ held' = held /\ mlinked' = mlinked /\ call.result = "none"
      /\ call.kind \in {"process_info", "module_list", "module_info"} /\ call.kind # "none"
      /\ call.todo \in Seq(Infos) /\ call.info \in Infos /\ call.bases # <<>>
      /\ call.entries \in Seq(ModNodes) /\ call.cur \in ModNodes /\ next \in ModNodes \cup {Null}
      /\ Len(call.entries) < MaxIter
  BY LinkRead DEF CallInv, Phases, ReadEntryLink, guestVars
<1>2. /\ entries \in Seq(ModNodes) /\ Len(entries) = Len(call.entries) + 1
      /\ ToSet(entries) = ToSet(call.entries) \cup {call.cur} /\ Len(call.entries) \in Nat
  BY <1>1, AppendSeq
<1>3. CASE ReadFails /\ Return("err")
  BY <1>1, <1>3, GaveUp
<1>4. CASE /\ UNCHANGED ghost
           /\ call' = [call EXCEPT !.entries = entries, !.cur = next,
                 !.pc = IF EntriesEnd(next) \/ Len(entries) = MaxIter THEN "names" ELSE "entry"]
  <2> HIDE DEF next, entries
  <2>1. /\ call'.entries = entries /\ call'.cur = next /\ call'.modules = call.modules
        /\ call'.bases = call.bases /\ call'.info = call.info /\ call'.kind = call.kind
        /\ call'.arg = call.arg /\ call'.eprocs = call.eprocs /\ call'.infos = call.infos
        /\ call'.result = "none" /\ call'.todo = call.todo
        /\ call'.pc = IF EntriesEnd(next) \/ Len(entries) = MaxIter THEN "names" ELSE "entry"
    BY <1>1, <1>4 DEF Types, ClientType, CallType
  <2>2. call'.pc \in {"entry", "names"}
    BY <2>1
  <2>3. Phases'
    <3>1. ASSUME call'.pc = "entry" PROVE next \in ModNodes /\ Len(entries) < MaxIter
      <4>1. ~EntriesEnd(next) /\ Len(entries) # MaxIter
        BY <2>1, <3>1
      <4>2. next # Null
        BY <4>1 DEF EntriesEnd
      <4>3. QED
        BY <1>1, <1>2, <4>1, <4>2, NodesApart
    <3>2. QED
      BY <1>1, <2>1, <2>2, <3>1 DEF Phases
  <2>4. ~Walking' /\ LookupFinds' /\ ModulesFaithful'
    BY <2>2 DEF Walking, LookupFinds, ModulesFaithful
  <2>5. ListFaithful'
    BY <1>1, <1>4, <2>1 DEF ListClaims, ListFaithful
  <2>6. BasesExe'
    BY <1>1, <1>4, <2>1, <2>2 DEF CallInv, BasesExe, BaseIsExe
  <2>7. LookupGoesOn'
    <3>1. call.pc \in {"probe", "entry", "names"} /\ SeesExe => SeesExe'
      BY <1>1, <1>2, <2>1 DEF SeesExe
    <3>2. QED
      BY <1>1, <1>4, <2>1, <2>2, <3>1 DEF CallInv, LookupGoesOn, ToBeFound
  <2>8. ModuleWalk'
    <3>1. SUFFICES ASSUME call.kind = "module_list"
                   PROVE  /\ held # Null /\ call.info = held
                          /\ held.proc \in ghost.always /\ NoneUnloaded(held.proc) =>
                               /\ ghost.loaded \subseteq ToSet(mlinked[held.proc])
                               /\ ~ghost.failed => ModulesSoFar(mlinked[held.proc])'
      BY <1>1, <1>4, <2>1, <2>2 DEF ModuleWalk, NoneUnloaded
    <3>2. /\ held # Null /\ call.info = held
          /\ held.proc \in ghost.always /\ NoneUnloaded(held.proc) =>
               /\ ghost.loaded \subseteq ToSet(mlinked[held.proc])
               /\ ~ghost.failed => ModulesSoFar(mlinked[held.proc])
      BY <1>1, <3>1 DEF CallInv, ModuleWalk
    <3>3. SUFFICES ASSUME held.proc \in ghost.always, NoneUnloaded(held.proc), ~ghost.failed
                   PROVE  ModulesSoFar(mlinked[held.proc])'
      BY <3>2
    <3>4. held.proc \in Procs
      BY <1>1, <3>2 DEF Infos
    <3>5. PICK s \in Seq(NativeEntries) : s = mlinked[held.proc]
      BY <3>4 DEF Types, GuestType
    <3>6. s = mlinked'[held'.proc]
      BY <1>1, <3>5
    <3>7. ModulesSoFar(s)
      BY <3>2, <3>3, <3>5
    <3>8. CASE call.bases = call.info.bases /\ call.modules = <<>> /\ Within(s)
      <4>1. ModulesSoFar(s)'
        BY <1>4, <3>2, <3>3, <3>5, <3>8, NativeStep DEF next, entries
      <4>2. QED
        BY <3>6, <4>1
    <3>9. CASE /\ call.bases = <<WowEntry>>
               /\ Distinct(call.modules) /\ ToSet(call.modules) \subseteq NativeEntries
               /\ HasLoaded(s, ToSet(call.modules))
               /\ \/ call.entries = <<>> /\ call.cur = WowEntry
                  \/ call.entries = <<WowEntry>> /\ call.cur = WowHead
      <4>1. ModulesSoFar(s)'
        BY <1>4, <3>2, <3>3, <3>9, WowStep DEF next, entries
      <4>2. QED
        BY <3>6, <4>1
    <3>10. QED
      BY <1>1, <3>7, <3>8, <3>9 DEF ModulesSoFar
  <2>9. QED
    BY <2>3, <2>4, <2>5, <2>6, <2>7, <2>8 DEF CallInv, ListClaims
<1>5. QED
  BY <1>3, <1>4 DEF ReadEntryLink

\* A module of a list whose links are there has a name.
LEMMA ListReadable ==
  ASSUME Types, ModuleLists, NEW p \in Procs, flink[p] # Null
  PROVE  /\ <<p, Exe>> \notin ghost.unloaded => Readable(p, Exe)
         /\ \A e \in ToSet(mlinked[p]) : Readable(p, e)
<1>1. /\ \A j \in DOMAIN mlinked[p] : mlink[p][mlinked[p][j]] # Null
      /\ <<p, Exe>> \notin ghost.unloaded => Len(mlinked[p]) > 0 /\ mlinked[p][1] = Exe
  BY DEF ModuleLists, NativeList
<1>2. mlinked[p] \in Seq(NativeEntries)
  BY DEF Types, GuestType
<1>3. ASSUME NEW e \in ToSet(mlinked[p]) PROVE Readable(p, e)
  BY <1>1, <1>2 DEF Readable, ToSet
<1>4. ASSUME <<p, Exe>> \notin ghost.unloaded PROVE Exe \in ToSet(mlinked[p])
  BY <1>1, <1>2, <1>4 DEF ToSet
<1>5. QED
  BY <1>3, <1>4

\* What is left of a list when its first entry is taken off.
LEMMA EntryLeft ==
  ASSUME NEW S, NEW s \in Seq(S), s # <<>>, Distinct(s)
  PROVE  Distinct(Tail(s)) /\ Head(s) \notin ToSet(Tail(s))
<1>1. /\ Tail(s) \in Seq(S) /\ Head(s) = s[1] /\ Len(Tail(s)) = Len(s) - 1
      /\ \A i \in 1 .. Len(s) - 1 : Tail(s)[i] = s[i + 1]
  BY TailSeq
<1>2. /\ Len(s) \in Nat \ {0} /\ DOMAIN s = 1 .. Len(s)
      /\ DOMAIN Tail(s) = 1 .. Len(s) - 1
  BY <1>1
<1>3. ASSUME NEW i \in DOMAIN Tail(s), NEW j \in DOMAIN Tail(s), Tail(s)[i] = Tail(s)[j]
      PROVE  i = j
  <2>1. s[i + 1] = s[j + 1] /\ i + 1 \in DOMAIN s /\ j + 1 \in DOMAIN s
    BY <1>1, <1>2, <1>3
  <2>2. i + 1 = j + 1
    BY <2>1 DEF Distinct
  <2>3. QED
    BY <1>2, <2>2
<1>4. ASSUME NEW i \in DOMAIN Tail(s) PROVE Tail(s)[i] # Head(s)
  <2>1. Tail(s)[i] = s[i + 1] /\ i + 1 \in DOMAIN s /\ 1 \in DOMAIN s /\ i + 1 # 1
    BY <1>1, <1>2, <1>4
  <2>2. QED
    BY <1>1, <2>1 DEF Distinct
<1>5. QED
  BY <1>3, <1>4 DEF Distinct, ToSet

\* A module entry that is there is named.
LEMMA NameInv ==
  ASSUME Types, Ring, Links, ModuleLists, CallInv, ListClaims, ReadName
  PROVE  ~Walking' /\ CallInv' /\ ListClaims'
<1> DEFINE e == Head(call.entries)
<1>1. /\ held' = held /\ mlinked' = mlinked
      /\ call.entries \in Seq(ModNodes) /\ call.entries # <<>> /\ e \in ModNodes
      /\ call.modules \in Seq(ModNodes)
      /\ \/ /\ Readable(call.info.proc, e) /\ UNCHANGED ghost
            /\ call' = [call EXCEPT !.entries = Tail(call.entries),
                                    !.modules = Append(call.modules, e)]
         \/ /\ ~Readable(call.info.proc, e) /\ UNCHANGED ghost
            /\ call' = [call EXCEPT !.entries = Tail(call.entries)]
         \/ ReadFails /\ call' = [call EXCEPT !.entries = Tail(call.entries)]
  BY NameRead DEF guestVars
<1>2. /\ call.pc = "names" /\ call.result = "none" /\ call.kind # "none"
      /\ call.kind \in {"process_info", "module_list", "module_info"}
      /\ call.todo \in Seq(Infos) /\ call.info \in Infos /\ call.bases # <<>>
      /\ call.info.proc \in Procs
  BY DEF ReadName, CallInv, Phases, Infos
<1>3. /\ ghost'.unloaded = ghost.unloaded /\ ghost'.always = ghost.always /\ ghost'.ever = ghost.ever
      /\ ghost'.disturbed = ghost.disturbed /\ (ghost.failed => ghost'.failed)
      /\ ghost'.loaded = ghost.loaded /\ (ReadFails => ghost'.failed)
  <2>1. CASE UNCHANGED ghost
    BY <2>1 DEF ReadFails, Types, GuestType
  <2>2. CASE ReadFails
    BY <2>2, Failed DEF Types, GuestType
  <2>3. QED
    BY <1>1, <2>1, <2>2
<1>a. held' = held /\ mlinked' = mlinked
  BY <1>1
<1>4. /\ call'.entries = Tail(call.entries)
      /\ call'.bases = call.bases /\ call'.info = call.info /\ call'.kind = call.kind
      /\ call'.arg = call.arg /\ call'.eprocs = call.eprocs /\ call'.infos = call.infos
      /\ call'.result = "none" /\ call'.todo = call.todo /\ call'.pc = "names"
  <2>1. \/ call' = [call EXCEPT !.entries = Tail(call.entries), !.modules = Append(call.modules, e)]
        \/ call' = [call EXCEPT !.entries = Tail(call.entries)]
    BY <1>1
  <2> HIDE DEF e
  <2>2. QED
    BY <1>2, <2>1 DEF Types, ClientType, CallType
<1>b. \/ Readable(call.info.proc, e) /\ call'.modules = Append(call.modules, e)
      \/ ~Readable(call.info.proc, e) /\ call'.modules = call.modules
      \/ ghost'.failed /\ call'.modules = call.modules
  <2> HIDE DEF e
  <2>1. CASE call' = [call EXCEPT !.entries = Tail(call.entries), !.modules = Append(call.modules, e)]
             /\ Readable(call.info.proc, e)
    BY <2>1 DEF Types, ClientType, CallType
  <2>2. CASE call' = [call EXCEPT !.entries = Tail(call.entries)]
             /\ ~Readable(call.info.proc, e)
    BY <2>2 DEF Types, ClientType, CallType
  <2>3. CASE call' = [call EXCEPT !.entries = Tail(call.entries)] /\ ReadFails
    BY <1>3, <2>3 DEF Types, ClientType, CallType
  <2>4. QED
    BY <1>1, <2>1, <2>2, <2>3
<1>5. /\ ToSet(call.entries) = ToSet(Tail(call.entries)) \cup {e}
      /\ ToSet(Append(call.modules, e)) = ToSet(call.modules) \cup {e}
  BY <1>1, TailSeq, AppendSeq
<1> HIDE DEF e
<1>6. ~Walking' /\ Phases' /\ LookupFinds' /\ ModulesFaithful'
  BY <1>2, <1>4 DEF Walking, Phases, LookupFinds, ModulesFaithful
<1>7. ListFaithful'
  <2>1. ListFaithful
    BY DEF ListClaims
  <2>2. /\ call'.kind = call.kind /\ call'.eprocs = call.eprocs /\ call.pc = "names"
        /\ call.result # "err"
    BY <1>2, <1>4
  <2>3. QED
    BY <1>3, <2>1, <2>2, SMTT(20) DEF ListFaithful
<1>8. BasesExe'
  BY <1>a, <1>2, <1>3, <1>4 DEF CallInv, BasesExe, BaseIsExe
\* A process that was linked all the time still has its lists.
<1>9. ASSUME call.info.proc \in ghost.always
      PROVE  /\ <<call.info.proc, Exe>> \notin ghost.unloaded => Readable(call.info.proc, Exe)
             /\ \A m \in ToSet(mlinked[call.info.proc]) : Readable(call.info.proc, m)
  <2>1. flink[call.info.proc] # Null
    BY <1>9, NodesApart DEF Ring, Links, Types, GuestType
  <2>2. QED
    BY <1>2, <2>1, ListReadable
<1>10. LookupGoesOn'
  <2>1. SUFFICES ASSUME call.kind \in ListKinds, ~ghost'.failed, ~ghost.disturbed,
                        Len(call.eprocs) < MaxIter, NEW p \in ghost.always \ {Sys},
                        SameName(FullName[p], call.arg), <<p, Exe>> \notin ghost.unloaded
                 PROVE  \/ \E i \in DOMAIN call.todo : call.todo[i].proc = p
                        \/ call.info.proc = p /\ SeesExe'
    BY <1>3, <1>4 DEF LookupGoesOn, ToBeFound
  <2>2. \/ \E i \in DOMAIN call.todo : call.todo[i].proc = p
        \/ call.info.proc = p /\ SeesExe
    BY <2>1, <1>2, <1>3 DEF CallInv, LookupGoesOn, ToBeFound
  <2>3. CASE call.info.proc = p /\ SeesExe
    <3>1. Exe \in ToSet(call.modules) \/ Exe \in ToSet(call.entries)
      BY <2>3, <1>2 DEF SeesExe
    <3>2. Exe = e => Readable(call.info.proc, e)
      BY <1>9, <2>1, <2>3
    <3>3. Exe \in ToSet(call'.modules) \/ Exe \in ToSet(call'.entries)
      BY <1>b, <1>4, <1>5, <2>1, <3>1, <3>2
    <3>4. QED
      BY <2>3, <3>3 DEF SeesExe
  <2>4. QED
    BY <2>2, <2>3
<1>11. ModuleWalk'
  <2>1. SUFFICES ASSUME call.kind = "module_list"
                 PROVE  /\ held # Null /\ call.info = held
                        /\ held.proc \in ghost.always /\ NoneUnloaded(held.proc) =>
                             /\ ghost.loaded \subseteq ToSet(mlinked[held.proc])
                             /\ ~ghost'.failed => ModulesSoFar(mlinked[held.proc])'
    <3>1. NoneUnloaded(held.proc)' <=> NoneUnloaded(held.proc)
      BY <1>a, <1>3 DEF NoneUnloaded
    <3>2. call'.kind = call.kind /\ call'.pc = "names" /\ call'.info = call.info
      BY <1>4
    <3>3. ghost'.always = ghost.always /\ ghost'.loaded = ghost.loaded
      BY <1>3
    <3>4. QED
      BY <1>a, <3>1, <3>2, <3>3 DEF ModuleWalk
  <2>2. /\ held # Null /\ call.info = held
        /\ held.proc \in ghost.always /\ NoneUnloaded(held.proc) =>
             /\ ghost.loaded \subseteq ToSet(mlinked[held.proc])
             /\ ~ghost.failed => ModulesSoFar(mlinked[held.proc])
    BY <1>2, <2>1 DEF CallInv, ModuleWalk
  <2>3. SUFFICES ASSUME held.proc \in ghost.always, NoneUnloaded(held.proc), ~ghost'.failed
                 PROVE  ModulesSoFar(mlinked[held.proc])'
    BY <2>2
  <2>4. PICK s \in Seq(NativeEntries) : s = mlinked[held.proc] /\ s = mlinked'[held'.proc]
    BY <1>a, <1>2, <2>2 DEF Types, GuestType
  <2>5. /\ NoneTwice /\ HasLoaded(s, ToSet(call.modules) \cup ToSet(call.entries))
        /\ \/ call.bases = <<WowEntry>>
           \/ /\ call.bases = call.info.bases
              /\ ToSet(call.modules) \subseteq NativeEntries
              /\ ToSet(call.entries) \subseteq NativeEntries \cup {LdrHead}
    BY <1>2, <1>3, <2>2, <2>3, <2>4 DEF ModulesSoFar
  <2>6. Distinct(Tail(call.entries)) /\ e \notin ToSet(Tail(call.entries))
        /\ e \notin ToSet(call.modules)
    BY <1>1, <1>5, <2>5, EntryLeft DEF NoneTwice, e
  <2>7. Distinct(Append(call.modules, e))
    BY <1>1, <2>5, <2>6, EntryTaken DEF NoneTwice, e
  <2>8. NoneTwice'
    BY <1>b, <1>4, <1>5, <2>5, <2>6, <2>7 DEF NoneTwice
  <2>9. ghost.loaded \subseteq ToSet(s) /\ \A m \in ToSet(s) : Readable(call.info.proc, m)
    BY <1>9, <2>2, <2>3, <2>4
  <2>10. HasLoaded(s, ToSet(call.modules) \cup ToSet(call.entries))'
    <3>1. e \in ghost.loaded => Readable(call.info.proc, e)
      BY <2>9
    <3>2. \A m \in ghost.loaded : m \in ToSet(call.modules) \cup ToSet(call.entries)
             => m \in ToSet(call'.modules) \cup ToSet(call'.entries)
      BY <1>b, <1>4, <1>5, <2>3, <3>1
    <3>3. QED
      <4>1. HasLoaded(s, ToSet(call.modules) \cup ToSet(call.entries)) /\ ghost'.loaded = ghost.loaded
        BY <1>3, <2>5
      <4>2. QED
        BY <4>1, <3>2 DEF HasLoaded
  <2>11. /\ ToSet(call'.entries) \subseteq ToSet(call.entries)
         /\ ToSet(call'.modules) \subseteq
              ToSet(call.modules) \cup (ToSet(call.entries) \ {LdrHead})
    <3>1. Readable(call.info.proc, e) => e # LdrHead
      BY NodesApart DEF Readable
    <3>2. QED
      BY <1>b, <1>4, <1>5, <2>3, <3>1
  <2>12. ModulesSoFar(s)'
    BY <1>4, <2>5, <2>8, <2>10, <2>11 DEF ModulesSoFar
  <2>13. QED
    BY <2>4, <2>12
<1>12. QED
  BY <1>6, <1>7, <1>8, <1>10, <1>11 DEF CallInv, ListClaims

\* After the last list the operation returns, or goes on to the next candidate.
LEMMA ListsReadInv ==
  ASSUME Types, Ring, Links, CallInv, ListClaims, NamesRead
  PROVE  ~Walking' /\ CallInv' /\ ListClaims'
<1>1. /\ call.pc = "names" /\ call.entries = <<>> /\ ghost' = ghost /\ mlinked' = mlinked
      /\ call.result = "none" /\ call.kind # "none"
      /\ call.kind \in {"process_info", "module_list", "module_info"}
      /\ call.todo \in Seq(Infos) /\ call.info \in Infos /\ call.bases # <<>>
      /\ BaseIsExe(call.info)
  BY ListsRead DEF NamesRead, CallInv, Phases, BasesExe, guestVars
<1>2. ToSet(<<>>) = {} /\ Len(<<>>) = 0
  BY DEF ToSet
<1>3. LookupGoesOn /\ BasesExe /\ ModuleWalk /\ ListFaithful
  BY DEF CallInv, ListClaims
<1>4. CASE /\ Len(call.bases) > 1 /\ UNCHANGED held
           /\ call' = [call EXCEPT !.bases = Tail(call.bases), !.cur = call.bases[2], !.pc = "entry"]
           /\ Tail(call.bases) \in Seq(ModNodes) /\ call.bases[2] \in ModNodes
           /\ Len(Tail(call.bases)) = Len(call.bases) - 1
           /\ Tail(call.bases)[1] = call.bases[2]
  <2>0. call.bases \in Seq(ModNodes) /\ Len(call.bases) \in Nat
    BY DEF Types, ClientType, CallType
  <2> DEFINE wow == Tail(call.bases)
  <2>a. /\ wow \in Seq(ModNodes) /\ call.bases[2] \in ModNodes
        /\ Len(wow) = Len(call.bases) - 1 /\ Len(call.bases) > 1
        /\ wow[1] = call.bases[2] /\ held' = held
    BY <1>4
  <2>1. /\ call'.entries = <<>> /\ call'.cur = call.bases[2] /\ call'.modules = call.modules
        /\ call'.bases = wow /\ call'.info = call.info /\ call'.kind = call.kind
        /\ call'.arg = call.arg /\ call'.eprocs = call.eprocs /\ call'.infos = call.infos
        /\ call'.result = "none" /\ call'.todo = call.todo /\ call'.pc = "entry"
    BY <1>1, <1>4 DEF Types, ClientType, CallType
  <2> HIDE DEF wow
  <2>2. Phases'
    <3>1. wow # <<>>
      BY <1>2, <2>0, <2>a
    <3>2. QED
      BY <1>1, <1>2, <2>a, <2>1, <3>1, NodesApart DEF Phases
  <2>3. ~Walking' /\ LookupFinds' /\ ModulesFaithful'
    BY <2>1 DEF Walking, LookupFinds, ModulesFaithful
  <2>4. ListFaithful'
    BY <1>1, <1>3, <2>1 DEF ListFaithful
  <2>5. BasesExe'
    BY <1>1, <1>3, <2>a, <2>1 DEF BasesExe, BaseIsExe
  <2>6. LookupGoesOn'
    <3>1. SeesExe => SeesExe'
      BY <1>1, <2>1 DEF SeesExe
    <3>2. QED
      BY <1>1, <1>3, <2>1, <3>1 DEF LookupGoesOn, ToBeFound
  <2>7. ModuleWalk'
    <3>1. SUFFICES ASSUME call.kind = "module_list"
                   PROVE  /\ held # Null /\ call.info = held
                          /\ held.proc \in ghost.always /\ NoneUnloaded(held.proc) =>
                               /\ ghost.loaded \subseteq ToSet(mlinked[held.proc])
                               /\ ~ghost.failed => ModulesSoFar(mlinked[held.proc])'
      <4>1. NoneUnloaded(held.proc)' <=> NoneUnloaded(held.proc)
        BY <1>1, <2>a DEF NoneUnloaded
      <4>2. QED
        BY <1>1, <2>a, <2>1, <4>1 DEF ModuleWalk
    <3>2. /\ held # Null /\ call.info = held
          /\ held.proc \in ghost.always /\ NoneUnloaded(held.proc) =>
               /\ ghost.loaded \subseteq ToSet(mlinked[held.proc])
               /\ ~ghost.failed => ModulesSoFar(mlinked[held.proc])
      BY <1>1, <1>3, <3>1 DEF ModuleWalk
    <3>3. SUFFICES ASSUME held.proc \in ghost.always, NoneUnloaded(held.proc), ~ghost.failed
                   PROVE  ModulesSoFar(mlinked[held.proc])'
      BY <3>2
    <3>4. held.proc \in Procs
      BY <1>1, <3>2 DEF Infos
    <3>5. PICK s \in Seq(NativeEntries) : s = mlinked[held.proc] /\ s = mlinked'[held'.proc]
      BY <1>1, <2>a, <3>4 DEF Types, GuestType
    <3>6. /\ NoneTwice /\ HasLoaded(s, ToSet(call.modules) \cup ToSet(call.entries))
          /\ \/ call.bases = <<WowEntry>>
             \/ /\ call.bases = call.info.bases
                /\ ToSet(call.modules) \subseteq NativeEntries
      BY <1>1, <3>2, <3>3, <3>5 DEF ModulesSoFar
    <3>7. call.bases = call.info.bases /\ ToSet(call.modules) \subseteq NativeEntries
      <4>1. Len(<<WowEntry>>) = 1
        OBVIOUS
      <4>2. QED
        BY <2>0, <2>a, <3>6, <4>1
    <3>8. Len(call.bases) = 2 /\ call.bases[2] = WowEntry
      BY <1>1, <2>a, <3>7 DEF Infos
    <3>9. wow = <<WowEntry>>
      <4>1. Len(wow) = 1 /\ wow[1] = WowEntry
        BY <2>a, <3>8
      <4>2. <<WowEntry>> \in Seq(ModNodes) /\ Len(<<WowEntry>>) = 1
        BY NodesApart
      <4>3. \A i \in 1 .. Len(wow) : wow[i] = <<WowEntry>>[i]
        BY <4>1
      <4>4. QED
        BY <2>a, <4>1, <4>2, <4>3, SeqEqual
    <3>10. Distinct(call.modules)
      BY <3>6 DEF NoneTwice
    <3>11. HasLoaded(s, ToSet(call.modules))'
      BY <1>1, <1>2, <2>1, <3>6 DEF HasLoaded
    <3>12. ModulesSoFar(s)'
      BY <2>1, <3>7, <3>8, <3>9, <3>10, <3>11 DEF ModulesSoFar
    <3>13. QED
      BY <3>5, <3>12
  <2>8. QED
    BY <2>2, <2>3, <2>4, <2>5, <2>6, <2>7 DEF CallInv, ListClaims
<1>5. CASE ModulesRead
  <2>1. ASSUME NEW result \in {"ok", "err"}, Return(result)
        PROVE  /\ call'.pc = "done" /\ call'.result = result /\ call'.kind = call.kind
               /\ call'.arg = call.arg /\ call'.eprocs = call.eprocs /\ call'.infos = call.infos
               /\ call'.modules = call.modules
               /\ ~Walking' /\ Phases' /\ LookupGoesOn'
    <3>1. /\ call'.pc = "done" /\ call'.result = result /\ call'.kind = call.kind
          /\ call'.arg = call.arg /\ call'.eprocs = call.eprocs /\ call'.infos = call.infos
          /\ call'.modules = call.modules
      BY <2>1, Returned DEF Types
    <3>2. QED
      BY <3>1 DEF Walking, Phases, LookupGoesOn, ToBeFound
  <2>2. CASE call.kind = "module_list" /\ Return("ok") /\ held' = held
    <3>1. /\ call'.pc = "done" /\ call'.result = "ok" /\ call'.kind = "module_list"
          /\ call'.infos = call.infos /\ call'.modules = call.modules
          /\ ~Walking' /\ Phases' /\ LookupGoesOn'
      BY <2>1, <2>2
    <3>2. BasesExe'
      BY <1>1, <1>3, <2>2, <3>1 DEF BasesExe, BaseIsExe
    <3>3. ModuleWalk'
      <4>1. held' = held /\ call.kind = "module_list"
        BY <2>2
      <4>2. QED
        BY <1>1, <1>3, <3>1, <4>1 DEF ModuleWalk, NoneUnloaded
    <3>4. ListFaithful' /\ LookupFinds'
      BY <3>1 DEF ListFaithful, LookupFinds, ListKinds
    <3>5. ModulesFaithful'
      <4>1. SUFFICES ASSUME held.proc \in ghost.always, ~ghost.failed, NoneUnloaded(held.proc)
                     PROVE  /\ Distinct(call.modules)
                            /\ Len(mlinked[held.proc]) < MaxIter
                                 => ghost.loaded \subseteq ToSet(call.modules)
        BY <1>1, <2>2, <3>1 DEF ModulesFaithful, NoneUnloaded, Distinct
      <4>2. ModulesSoFar(mlinked[held.proc])
        BY <1>1, <1>3, <2>2, <4>1 DEF ModuleWalk
      <4>3. NoneTwice /\ HasLoaded(mlinked[held.proc], ToSet(call.modules) \cup ToSet(call.entries))
        BY <1>1, <4>2 DEF ModulesSoFar
      <4>4. QED
        BY <1>1, <1>2, <4>3 DEF NoneTwice, HasLoaded
    <3>6. QED
      BY <3>1, <3>2, <3>3, <3>4, <3>5 DEF CallInv, ListClaims
  <2>3. CASE /\ call.kind = "module_info" /\ held' = held
             /\ \E result \in {"ok", "err"} : Return(result)
    <3>1. /\ call'.pc = "done" /\ call'.kind = "module_info" /\ call'.infos = call.infos
          /\ ~Walking' /\ Phases' /\ LookupGoesOn'
      BY <2>1, <2>3
    <3>2. BasesExe'
      BY <1>1, <1>3, <2>3, <3>1 DEF BasesExe, BaseIsExe
    <3>3. ModuleWalk' /\ ListClaims'
      BY <3>1 DEF ModuleWalk, ListClaims, ListFaithful, LookupFinds, ModulesFaithful, ListKinds
    <3>4. QED
      BY <3>1, <3>2, <3>3 DEF CallInv
  <2>4. CASE call.kind = "process_info" /\ Return("ok") /\ held' = call.info
    <3>1. /\ call'.pc = "done" /\ call'.result = "ok" /\ call'.kind = "process_info"
          /\ call'.eprocs = call.eprocs /\ call'.infos = call.infos
          /\ ~Walking' /\ Phases' /\ LookupGoesOn'
      BY <2>1, <2>4
    <3>2. BasesExe'
      BY <1>1, <1>3, <2>4, <3>1 DEF BasesExe, BaseIsExe
    <3>3. ModuleWalk' /\ LookupFinds' /\ ModulesFaithful'
      BY <3>1 DEF ModuleWalk, LookupFinds, ModulesFaithful
    <3>4. ListFaithful'
      BY <1>1, <1>3, <2>4, <3>1 DEF ListFaithful
    <3>5. QED
      BY <3>1, <3>2, <3>3, <3>4 DEF CallInv, ListClaims
  <2>5. CASE /\ call.kind = "process_info" /\ call' = [call EXCEPT !.pc = "probe"] /\ held' = held
             /\ ~\E i \in DOMAIN call.modules :
                   SameName(NameOf(call.info.proc, call.modules[i]), call.arg)
    <3>1. /\ call'.pc = "probe" /\ call'.result = "none" /\ call'.kind = "process_info"
          /\ call'.arg = call.arg /\ call'.todo = call.todo /\ call.kind = "process_info"
          /\ call'.eprocs = call.eprocs /\ call'.infos = call.infos /\ held' = held
      BY <1>1, <2>5 DEF Types, ClientType, CallType
    <3>2. BasesExe'
      BY <1>1, <1>3, <3>1 DEF BasesExe, BaseIsExe
    <3>3. ~Walking' /\ Phases' /\ ModuleWalk' /\ LookupFinds' /\ ModulesFaithful'
      BY <1>1, <3>1 DEF Walking, Phases, ModuleWalk, LookupFinds, ModulesFaithful
    <3>4. ListFaithful'
      BY <1>1, <1>3, <3>1 DEF ListFaithful
    <3>5. LookupGoesOn'
      <4>1. SUFFICES ASSUME ~ghost.failed, ~ghost.disturbed, Len(call.eprocs) < MaxIter,
                            NEW p \in ghost.always \ {Sys}, SameName(FullName[p], call.arg),
                            <<p, Exe>> \notin ghost.unloaded
                     PROVE  \E i \in DOMAIN call.todo : call.todo[i].proc = p
        BY <1>1, <3>1 DEF LookupGoesOn, ToBeFound
      <4>2. \/ \E i \in DOMAIN call.todo : call.todo[i].proc = p
            \/ call.info.proc = p /\ SeesExe
        BY <1>1, <1>3, <3>1, <4>1 DEF LookupGoesOn, ToBeFound, ListKinds
      <4>3. ASSUME call.info.proc = p, SeesExe PROVE FALSE
        <5>1. Exe \in ToSet(call.modules)
          BY <1>1, <1>2, <4>3 DEF SeesExe
        <5>2. PICK i \in DOMAIN call.modules : call.modules[i] = Exe
          BY <5>1 DEF ToSet
        <5>3. NameOf(p, Exe) = FullName[p]
          BY DEF NameOf
        <5>4. QED
          BY <2>5, <4>1, <4>3, <5>2, <5>3
      <4>4. QED
        BY <4>2, <4>3
    <3>6. QED
      BY <3>2, <3>3, <3>4, <3>5 DEF CallInv, ListClaims
  <2>6. QED
    BY <1>5, <2>2, <2>3, <2>4, <2>5 DEF ModulesRead
<1>6. QED
  BY <1>4, <1>5, ListsRead

-----------------------------------------------------------------------------
(* The invariant is inductive                                              *)

\* The client changes nothing of the guest.
LEMMA ClientLists ==
  ASSUME ModuleLists, UNCHANGED guestVars, ghost'.unloaded = ghost.unloaded
  PROVE  ModuleLists'
<1>1. flink' = flink /\ mlink' = mlink /\ mlinked' = mlinked
  BY DEF guestVars
<1>2. ASSUME NEW p \in Procs, flink'[p] # Null
      PROVE  /\ NativeList(p, mlinked[p])'
             /\ mlink'[p][WowHead] = WowEntry /\ mlink'[p][WowEntry] = WowHead
  BY <1>1, <1>2 DEF ModuleLists, NativeList, NoneUnloaded
<1>3. QED
  BY <1>2 DEF ModuleLists

\* The invariant is inductive: the guest, the starts, the reads.
LEMMA GuestInv ==
  ASSUME ListsInv, Guest
  PROVE  ListsInv'
<1>0. Types /\ Ring /\ Links /\ Stands /\ WalkInOrder /\ ModuleLists /\ CallInv /\ ListClaims
  BY DEF ListsInv
<1>1. Types'
  BY <1>0, GuestTypes DEF Types
<1>2. PICK p \in Procs :
        \/ CreateProcess(p) \/ ExitProcess(p) \/ ReclaimProcess(p)
        \/ \E e \in NativeEntries : LoadModule(p, e)
        \/ \E i \in DOMAIN mlinked[p] : UnloadModule(p, i)
  BY DEF Guest
<1>3. GuestStep /\ call' = call /\ held' = held
  BY <1>2 DEF CreateProcess, ExitProcess, ReclaimProcess, LoadModule, UnloadModule, GuestStep,
              clientVars
<1>4. PICK m \in Nat : \E rank \in [Procs -> 0 .. m] : InOrder(rank, m)
  BY <1>0 DEF WalkInOrder, InOrder
<1>5. PICK rank \in [Procs -> 0 .. m] : InOrder(rank, m)
  BY <1>4
<1>6. Ranked(rank, m)
  BY <1>5 DEF InOrder
<1>7. linked \subseteq Procs /\ ghost.always \subseteq linked /\ mlinked[p] \in Seq(NativeEntries)
  BY <1>0 DEF Types, GuestType, Links
<1>8. CASE CreateProcess(p)
  <2>1. Ring' /\ Links' /\ Stands' /\ WalkInOrder' /\ ModuleLists'
    BY <1>0, <1>5, <1>6, <1>8, CreateRing, CreateOrder, LinksLists DEF Types
  <2>2. /\ ghost'.always \subseteq ghost.always /\ ghost.ever \subseteq ghost'.ever
        /\ ghost'.unloaded = ghost.unloaded /\ ghost'.failed = ghost.failed
        /\ ghost'.loaded = ghost.loaded /\ (ghost.disturbed => ghost'.disturbed)
    BY <1>0, <1>8 DEF CreateProcess, Observe, Types, GuestType
  <2>3. \A q \in ghost'.always : mlinked'[q] = mlinked[q]
    BY <1>0, <1>7, <1>8, <2>2 DEF CreateProcess, Types, GuestType
  <2>4. CallInv' /\ ListClaims'
    BY <1>0, <1>3, <2>2, <2>3, GuestKeeps
  <2>5. QED
    BY <1>1, <2>1, <2>4 DEF ListsInv
<1>9. CASE ExitProcess(p)
  <2>1. Ring' /\ Links' /\ Stands' /\ WalkInOrder' /\ ModuleLists'
    BY <1>0, <1>5, <1>6, <1>9, ExitRing, ExitOrder, LinksLists DEF Types
  <2>2. /\ ghost'.always \subseteq ghost.always /\ ghost.ever \subseteq ghost'.ever
        /\ ghost'.unloaded = ghost.unloaded /\ ghost'.failed = ghost.failed
        /\ ghost'.loaded = ghost.loaded /\ (ghost.disturbed => ghost'.disturbed)
    BY <1>0, <1>9 DEF ExitProcess, Observe, Types, GuestType
  <2>3. mlinked' = mlinked
    BY <1>9 DEF ExitProcess
  <2>4. CallInv' /\ ListClaims'
    BY <1>0, <1>3, <2>2, <2>3, GuestKeeps
  <2>5. QED
    BY <1>1, <2>1, <2>4 DEF ListsInv
<1>10. CASE ReclaimProcess(p)
  <2>1. Ring' /\ Links' /\ Stands' /\ WalkInOrder' /\ ModuleLists'
    BY <1>0, <1>5, <1>6, <1>10, ReclaimRing, ReclaimOrder, LinksLists DEF Types
  <2>2. /\ ghost'.always \subseteq ghost.always /\ ghost.ever \subseteq ghost'.ever
        /\ ghost'.unloaded = ghost.unloaded /\ ghost'.failed = ghost.failed
        /\ ghost'.loaded = ghost.loaded /\ (ghost.disturbed => ghost'.disturbed)
    BY <1>0, <1>10 DEF ReclaimProcess, Observe, Types, GuestType
  <2>3. \A q \in ghost'.always : mlinked'[q] = mlinked[q]
    BY <1>0, <1>7, <1>10, <2>2 DEF ReclaimProcess, Types, GuestType
  <2>4. CallInv' /\ ListClaims'
    BY <1>0, <1>3, <2>2, <2>3, GuestKeeps
  <2>5. QED
    BY <1>1, <2>1, <2>4 DEF ListsInv
<1>11. CASE \E e \in NativeEntries : LoadModule(p, e)
  <2>1. PICK e \in NativeEntries : LoadModule(p, e)
    BY <1>11
  <2>2. ModuleLists' /\ mlinked'[p] = Append(mlinked[p], e)
        /\ \A q \in Procs \ {p} : mlinked'[q] = mlinked[q]
    BY <1>0, <2>1, LoadLists
  <2>3. UNCHANGED <<flink, blink, linked, ghost>>
    BY <2>1 DEF LoadModule
  <2>4. Ring' /\ Links' /\ Stands' /\ WalkInOrder'
    BY <1>0, <1>3, <2>3, WalkUntouched
  <2>5. \A q \in ghost'.always : mlinked'[q] = mlinked[q]
                                \/ \E x \in NativeEntries : mlinked'[q] = Append(mlinked[q], x)
    BY <1>7, <2>2, <2>3
  <2>6. CallInv' /\ ListClaims'
    BY <1>0, <1>3, <2>3, <2>5, GuestKeeps
  <2>7. QED
    BY <1>1, <2>2, <2>4, <2>6 DEF ListsInv
<1>12. CASE \E i \in DOMAIN mlinked[p] : UnloadModule(p, i)
  <2>1. PICK k \in DOMAIN mlinked[p] : UnloadModule(p, k)
    BY <1>12
  <2>2. /\ ModuleLists'
        /\ ghost' = [ghost EXCEPT !.unloaded = @ \cup {<<p, mlinked[p][k]>>}]
        /\ mlinked[p][k] \in NativeEntries
        /\ \A q \in Procs \ {p} : mlinked'[q] = mlinked[q]
    BY <1>0, <2>1, UnloadLists
  <2>3. UNCHANGED <<flink, blink, linked>>
    BY <2>1 DEF UnloadModule
  <2>4. /\ ghost'.always = ghost.always /\ ghost.ever = ghost'.ever
        /\ ghost.unloaded \subseteq ghost'.unloaded /\ <<p, mlinked[p][k]>> \in ghost'.unloaded
        /\ ghost'.failed = ghost.failed
        /\ ghost'.loaded = ghost.loaded /\ ghost'.disturbed = ghost.disturbed
    BY <1>0, <2>2 DEF Types, GuestType
  <2>5. Ring' /\ Links' /\ Stands' /\ WalkInOrder'
    BY <1>0, <1>3, <2>3, <2>4, WalkUntouched
  <2>6. ~NoneUnloaded(p)'
    BY <2>2, <2>4 DEF NoneUnloaded
  <2>7. \A q \in ghost'.always : ~NoneUnloaded(q)' \/ mlinked'[q] = mlinked[q]
    BY <1>7, <2>2, <2>4, <2>6
  <2>8. CallInv' /\ ListClaims'
    BY <1>0, <1>3, <2>4, <2>7, GuestKeeps
  <2>9. QED
    BY <1>1, <2>2, <2>5, <2>8 DEF ListsInv
<1>13. QED
  BY <1>2, <1>8, <1>9, <1>10, <1>11, <1>12

\* A client's step reads the guest; a read may fail.
LEMMA GhostRead ==
  ASSUME Types, UNCHANGED ghost \/ ReadFails
  PROVE  /\ ghost'.always = ghost.always /\ ghost'.ever = ghost.ever
         /\ ghost'.disturbed = ghost.disturbed /\ ghost'.unloaded = ghost.unloaded
<1>1. CASE UNCHANGED ghost
  BY <1>1
<1>2. CASE ReadFails
  BY <1>2, Failed DEF Types, GuestType
<1>3. QED
  BY <1>1, <1>2

LEMMA StartInv ==
  ASSUME ListsInv,
         \/ \E kind \in ListKinds, arg \in Queries \cup Procs \cup {Null} :
              BeginEprocessList(kind, arg)
         \/ KernelProcessInfo
         \/ \E kind \in {"module_list", "module_info"}, arg \in Queries \cup Procs \cup {Null} :
              BeginModules(kind, arg)
  PROVE  ListsInv'
<1>0. Types /\ Ring /\ Links /\ Stands /\ WalkInOrder /\ ModuleLists /\ CallInv /\ ListClaims
  BY DEF ListsInv
<1>1. CASE \E kind \in ListKinds, arg \in Queries \cup Procs \cup {Null} :
             BeginEprocessList(kind, arg)
  <2>1. PICK kind \in ListKinds, arg \in Queries \cup Procs \cup {Null} :
               BeginEprocessList(kind, arg)
    BY <1>1
  <2>2. /\ Types' /\ UNCHANGED <<held, guestVars>>
        /\ call' = [Idle EXCEPT !.kind = kind, !.arg = arg, !.pc = "flink", !.cur = Sys]
        /\ ghost' = [ghost EXCEPT !.always = linked, !.ever = linked, !.disturbed = FALSE,
                                  !.failed = FALSE, !.loaded = {}]
    BY <1>0, <2>1, ListStarts
  <2>3. /\ ghost'.always = linked /\ ghost'.ever = linked /\ ghost'.disturbed = FALSE
        /\ ghost'.unloaded = ghost.unloaded
    BY <1>0, <2>2 DEF Types, GuestType
  <2>4. /\ call'.pc = "flink" /\ call'.cur = Sys /\ call'.eprocs = <<>>
        /\ call'.infos = <<>> /\ call'.kind \in ListKinds /\ call'.result = "none"
    BY <2>2 DEF Idle
  <2>5. Ring' /\ Links' /\ Stands' /\ WalkInOrder'
    BY <1>0, <2>2, <2>3, <2>4, WalkFresh
  <2>6. CallInv' /\ ListClaims'
    BY <1>0, <2>1, ListsStartInv
  <2>7. QED
    BY <1>0, <2>2, <2>3, <2>5, <2>6, ClientLists DEF ListsInv
<1>2. CASE KernelProcessInfo
  <2>1. /\ Types' /\ UNCHANGED guestVars
        /\ ghost' = [ghost EXCEPT !.always = linked, !.ever = linked, !.disturbed = FALSE,
                                  !.failed = FALSE, !.loaded = {}]
        /\ call'.pc = "done"
    BY <1>0, <1>2, KernelStarts DEF Idle
  <2>2. /\ ghost'.always = linked /\ ghost'.ever = linked /\ ghost'.disturbed = FALSE
        /\ ghost'.unloaded = ghost.unloaded
    BY <1>0, <2>1 DEF Types, GuestType
  <2>3. ~Walking'
    BY <2>1 DEF Walking
  <2>4. Ring' /\ Links' /\ Stands' /\ WalkInOrder'
    BY <1>0, <2>1, <2>2, <2>3, WalkFresh
  <2>5. CallInv' /\ ListClaims'
    BY <1>0, <1>2, KernelInv
  <2>6. QED
    BY <1>0, <2>1, <2>2, <2>4, <2>5, ClientLists DEF ListsInv
<1>3. CASE \E kind \in {"module_list", "module_info"}, arg \in Queries \cup Procs \cup {Null} :
             BeginModules(kind, arg)
  <2>1. PICK kind \in {"module_list", "module_info"}, arg \in Queries \cup Procs \cup {Null} :
               BeginModules(kind, arg)
    BY <1>3
  <2>2. /\ Types' /\ UNCHANGED <<held, guestVars>> /\ held \in Infos
        /\ call' = WalkModules([Idle EXCEPT !.kind = kind, !.arg = arg], held)
        /\ [Idle EXCEPT !.kind = kind, !.arg = arg] \in CallType
        /\ ghost' = [ghost EXCEPT !.always = linked, !.ever = linked, !.disturbed = FALSE,
                                  !.failed = FALSE,
                                  !.loaded = IF kind = "module_list"
                                             THEN ToSet(mlinked[held.proc]) ELSE {}]
    BY <1>0, <2>1, ModulesStart
  <2>3. /\ ghost'.always = linked /\ ghost'.ever = linked /\ ghost'.disturbed = FALSE
        /\ ghost'.unloaded = ghost.unloaded
    BY <1>0, <2>2 DEF Types, GuestType
  <2>4. ~Walking'
    BY <2>2, WalkBegins DEF Walking
  <2>5. Ring' /\ Links' /\ Stands' /\ WalkInOrder'
    BY <1>0, <2>2, <2>3, <2>4, WalkFresh
  <2>6. CallInv' /\ ListClaims'
    BY <1>0, <2>1, ModulesStartInv
  <2>7. QED
    BY <1>0, <2>2, <2>3, <2>5, <2>6, ClientLists DEF ListsInv
<1>4. QED
  BY <1>1, <1>2, <1>3

LEMMA ReadInv ==
  ASSUME ListsInv,
         \/ ReadFlink \/ ReadBlink \/ ReadInfo \/ InfosRead
         \/ Probe \/ ReadEntryLink \/ ReadName \/ NamesRead
  PROVE  ListsInv'
<1>0. /\ Types /\ Ring /\ Links /\ Stands /\ WalkInOrder /\ ModuleLists /\ CallInv /\ ListClaims
      /\ Phases
  BY DEF ListsInv, CallInv
<1>1. Types' /\ UNCHANGED guestVars
  <2>1. CASE ReadFlink \/ ReadBlink
    BY <1>0, <2>1, FlinkRead, BlinkRead
  <2>2. CASE ReadInfo \/ InfosRead
    BY <1>0, <2>2, InfoRead, InfosKept
  <2>3. CASE Probe \/ ReadEntryLink
    BY <1>0, <2>3, Probed, LinkRead
  <2>4. CASE ReadName \/ NamesRead
    BY <1>0, <2>4, NameRead, ListsRead
  <2>5. QED
    BY <2>1, <2>2, <2>3, <2>4
<1>2. UNCHANGED ghost \/ ReadFails
  BY DEF ReadFlink, ReadBlink, ReadInfo, InfosRead, Probe, ReadEntryLink, ReadName, NamesRead
<1>3. /\ ghost'.always = ghost.always /\ ghost'.ever = ghost.ever
      /\ ghost'.disturbed = ghost.disturbed /\ ghost'.unloaded = ghost.unloaded
  BY <1>0, <1>2, GhostRead
<1>4. ModuleLists'
  BY <1>0, <1>1, <1>3, ClientLists
<1>5. CallInv' /\ ListClaims' /\ (ReadFlink \/ ReadBlink \/ ~Walking')
  <2>1. CASE ReadFlink \/ ReadBlink
    BY <1>0, <2>1, FlinkInv, BlinkInv
  <2>2. CASE ReadInfo \/ InfosRead
    BY <1>0, <2>2, InfoInv, InfosInv
  <2>3. CASE Probe \/ ReadEntryLink
    BY <1>0, <2>3, ProbeInv, LinkInv
  <2>4. CASE ReadName \/ NamesRead
    BY <1>0, <2>4, NameInv, ListsReadInv
  <2>5. QED
    BY <2>1, <2>2, <2>3, <2>4
<1>6. Ring' /\ Links' /\ Stands' /\ WalkInOrder'
  <2>1. CASE ReadFlink \/ ReadBlink
    BY <1>0, <2>1, FlinkOrder, BlinkOrder
  <2>2. CASE ~Walking'
    <3>1. UNCHANGED <<flink, blink, linked>>
      BY <1>1 DEF guestVars
    <3>2. QED
      BY <1>0, <1>3, <2>2, <3>1, NotWalking
  <2>3. QED
    BY <1>5, <2>1, <2>2
<1>7. QED
  BY <1>1, <1>4, <1>5, <1>6 DEF ListsInv

LEMMA ClientStepInv ==
  ASSUME ListsInv, Client
  PROVE  ListsInv'
<1>1. ListKinds = {"eprocess_list", "process_info_list", "process_info", "process_info_pid"}
  BY DEF ListKinds
<1>2. CASE EprocessList \/ ProcessInfoList \/ KernelProcessInfo \/ ModuleList
  BY <1>1, <1>2, StartInv DEF EprocessList, ProcessInfoList, ModuleList
<1>3. CASE \E name \in Queries : ProcessInfoByName(name) \/ ModuleInfo(name)
  BY <1>1, <1>3, StartInv DEF ProcessInfoByName, ModuleInfo
<1>4. CASE \E p \in Procs : ProcessInfoByPid(p)
  BY <1>1, <1>4, StartInv DEF ProcessInfoByPid
<1>5. CASE \/ ReadFlink \/ ReadBlink \/ ReadInfo \/ InfosRead
           \/ Probe \/ ReadEntryLink \/ ReadName \/ NamesRead
  BY <1>5, ReadInv
<1>6. QED
  BY <1>2, <1>3, <1>4, <1>5 DEF Client

LEMMA ListStep ==
  ASSUME ListsInv, [ListNext]_listVars
  PROVE  ListsInv'
<1>1. CASE Guest
  BY <1>1, GuestInv
<1>2. CASE Client
  BY <1>2, ClientStepInv
<1>3. CASE UNCHANGED listVars
  <2>1. UNCHANGED <<flink, blink, linked, mlink, mlinked, call, held, ghost>>
    BY <1>3 DEF listVars
  <2>2. Types /\ Ring /\ Links /\ Stands /\ WalkInOrder /\ ModuleLists /\ CallInv /\ ListClaims
    BY DEF ListsInv
  <2>3. Types'
    BY <2>1, <2>2 DEF Types, GuestType, ClientType
  <2>4. Ring' /\ Links' /\ Stands' /\ WalkInOrder'
    BY <2>1, <2>2, WalkUntouched
  <2>5. ModuleLists'
    BY <2>1, <2>2 DEF ModuleLists, NativeList, NoneUnloaded
  <2>6. CallInv' /\ ListClaims'
    BY <2>1, <2>2, GuestKeeps
  <2>7. QED
    BY <2>3, <2>4, <2>5, <2>6 DEF ListsInv
<1>4. QED
  BY <1>1, <1>2, <1>3 DEF ListNext

\* The list a guest runs with: its nodes one after the other.
LEMMA FirstOrder ==
  ASSUME NEW s \in InitialOrders
  PROVE  /\ s \in Seq(Procs) /\ Len(s) \in Nat \ {0} /\ DOMAIN s = 1 .. Len(s) /\ s[1] = Sys
         /\ \A i \in 1 .. Len(s) :
              /\ PlaceOf(s, s[i]) = i
              /\ NextIn(s, s[i]) = IF i < Len(s) THEN s[i + 1] ELSE ActiveHead
              /\ BeforeIn(s, s[i]) = IF 1 < i THEN s[i - 1] ELSE ActiveHead
         /\ NextIn(s, ActiveHead) = Sys /\ BeforeIn(s, ActiveHead) = s[Len(s)]
         /\ \A p \in Procs \ ToSet(s) : NextIn(s, p) = Null /\ BeforeIn(s, p) = Null
<1>1. PICK n \in 1 .. Cardinality(Procs) : s \in [1 .. n -> Procs]
  BY DEF InitialOrders
<1>2. n \in Nat \ {0}
  BY <1>1, FS_CardinalityType, ListAssumption
<1>3. s \in Seq(Procs) /\ Len(s) = n /\ DOMAIN s = 1 .. n
  BY <1>1, <1>2
<1>4. s[1] = Sys /\ \A i, j \in 1 .. n : s[i] = s[j] => i = j
  BY <1>3 DEF InitialOrders
<1>5. ActiveHead \notin Procs
  BY NodesApart
<1>6. ASSUME NEW i \in 1 .. n PROVE PlaceOf(s, s[i]) = i /\ InList(s, s[i]) /\ s[i] # ActiveHead
  <2>1. s[i] # ActiveHead
    BY <1>1, <1>5, <1>6
  <2>2. \E k \in DOMAIN s : s[k] = s[i]
    BY <1>3, <1>6
  <2>3. PlaceOf(s, s[i]) \in DOMAIN s /\ s[PlaceOf(s, s[i])] = s[i]
    BY <2>1, <2>2 DEF PlaceOf
  <2>4. InList(s, s[i])
    BY <1>3, <1>6 DEF InList, ToSet
  <2>5. QED
    BY <1>3, <1>4, <1>6, <2>1, <2>3, <2>4
<1>7. PlaceOf(s, ActiveHead) = 0 /\ InList(s, ActiveHead)
  BY DEF PlaceOf, InList
<1>8. NextIn(s, ActiveHead) = Sys /\ BeforeIn(s, ActiveHead) = s[Len(s)]
  <2>1. NodeAt(s, 0 + 1) = Sys
    BY <1>2, <1>3, <1>4 DEF NodeAt
  <2>2. QED
    BY <1>7, <2>1 DEF NextIn, BeforeIn
<1>9. ASSUME NEW i \in 1 .. n
      PROVE  /\ NextIn(s, s[i]) = IF i < n THEN s[i + 1] ELSE ActiveHead
             /\ BeforeIn(s, s[i]) = IF 1 < i THEN s[i - 1] ELSE ActiveHead
  <2>1. NextIn(s, s[i]) = NodeAt(s, i + 1) /\ BeforeIn(s, s[i]) = NodeAt(s, i - 1)
    BY <1>6, <1>9 DEF NextIn, BeforeIn
  <2>2. (i + 1 \in DOMAIN s <=> i < n) /\ (i - 1 \in DOMAIN s <=> 1 < i)
    BY <1>2, <1>3, <1>9
  <2>3. QED
    BY <2>1, <2>2 DEF NodeAt
<1>10. ASSUME NEW p \in Procs \ ToSet(s) PROVE NextIn(s, p) = Null /\ BeforeIn(s, p) = Null
  BY <1>5, <1>10 DEF NextIn, BeforeIn, InList
<1>11. QED
  BY <1>2, <1>3, <1>4, <1>6, <1>8, <1>9, <1>10

\* A guest that runs satisfies the invariant.
LEMMA ListsStart == ListInit => ListsInv
<1> SUFFICES ASSUME ListInit PROVE ListsInv
  OBVIOUS
<1>1. PICK s \in InitialOrders :
        /\ linked = ToSet(s)
        /\ flink = [n \in ProcNodes |-> NextIn(s, n)]
        /\ blink = [n \in ProcNodes |-> BeforeIn(s, n)]
  BY DEF ListInit
<1>2. /\ mlinked = [p \in Procs |-> IF p \in linked THEN <<Exe>> ELSE <<>>]
      /\ mlink = [p \in Procs |-> IF p \in linked THEN OnlyExe ELSE NoModules]
      /\ ghost = [always |-> linked, ever |-> linked, disturbed |-> FALSE,
                  failed |-> FALSE, unloaded |-> {}, loaded |-> {}]
      /\ call = Idle /\ held = Null
  BY DEF ListInit
<1>3. PICK m \in Nat \ {0} : m = Len(s)
  BY FirstOrder
<1>4. /\ s \in Seq(Procs) /\ DOMAIN s = 1 .. m /\ s[1] = Sys
      /\ \A i \in 1 .. m :
           /\ PlaceOf(s, s[i]) = i
           /\ NextIn(s, s[i]) = IF i < m THEN s[i + 1] ELSE ActiveHead
           /\ BeforeIn(s, s[i]) = IF 1 < i THEN s[i - 1] ELSE ActiveHead
      /\ NextIn(s, ActiveHead) = Sys /\ BeforeIn(s, ActiveHead) = s[m]
      /\ \A p \in Procs \ ToSet(s) : NextIn(s, p) = Null /\ BeforeIn(s, p) = Null
  BY <1>3, FirstOrder
<1>5. /\ \A i \in 1 .. m : s[i] \in Procs /\ s[i] \in linked
      /\ \A p \in linked : p \in Procs /\ \E i \in 1 .. m : p = s[i]
      /\ Procs \subseteq ProcNodes /\ ActiveHead \in ProcNodes
  <2>1. s \in Seq(Procs) /\ DOMAIN s = 1 .. m
    BY <1>4
  <2>2. \A i \in 1 .. m : s[i] \in Procs
    BY <2>1
  <2>3. linked = {s[i] : i \in 1 .. m}
    BY <1>1, <2>1 DEF ToSet
  <2>4. QED
    BY <2>2, <2>3 DEF ProcNodes
<1>6. /\ \A i \in 1 .. m :
           /\ flink[s[i]] = IF i < m THEN s[i + 1] ELSE ActiveHead
           /\ blink[s[i]] = IF 1 < i THEN s[i - 1] ELSE ActiveHead
      /\ flink[ActiveHead] = Sys /\ blink[ActiveHead] = s[m]
      /\ \A p \in Procs \ linked : flink[p] = Null /\ blink[p] = Null
  BY <1>1, <1>4, <1>5
<1>7. ActiveHead \notin Procs /\ Null \notin Procs /\ Null # ActiveHead /\ Sys \in linked
      /\ 1 \in 1 .. m /\ m \in 1 .. m
  BY <1>3, <1>4, <1>5, NodesApart
<1>8. \A i \in 1 .. m : (i < m => i + 1 \in 1 .. m) /\ (1 < i => i - 1 \in 1 .. m)
  BY <1>3
<1>9. ASSUME NEW p \in linked
      PROVE  /\ flink[p] \in linked \cup {ActiveHead} /\ blink[flink[p]] = p
             /\ blink[p] \in linked \cup {ActiveHead} /\ flink[blink[p]] = p
             /\ flink[p] # Null /\ blink[p] # Null
  <2>1. PICK i \in 1 .. m : p = s[i]
    BY <1>5
  <2>2. flink[p] \in linked \cup {ActiveHead} /\ blink[flink[p]] = p
    <3>1. CASE i < m
      <4>1. i + 1 \in 1 .. m /\ flink[p] = s[i + 1]
        BY <1>6, <1>8, <2>1, <3>1
      <4>2. blink[s[i + 1]] = s[(i + 1) - 1]
        BY <1>3, <1>6, <4>1
      <4>3. QED
        BY <1>5, <2>1, <4>1, <4>2
    <3>2. CASE ~(i < m)
      <4>1. i = m /\ flink[p] = ActiveHead
        BY <1>3, <1>6, <2>1, <3>2
      <4>2. QED
        BY <1>6, <2>1, <4>1
    <3>3. QED
      BY <3>1, <3>2
  <2>3. blink[p] \in linked \cup {ActiveHead} /\ flink[blink[p]] = p
    <3>1. CASE 1 < i
      <4>1. i - 1 \in 1 .. m /\ blink[p] = s[i - 1] /\ i - 1 < m
        BY <1>3, <1>6, <1>8, <2>1, <3>1
      <4>2. flink[s[i - 1]] = s[(i - 1) + 1]
        BY <1>6, <4>1
      <4>3. QED
        BY <1>5, <2>1, <4>1, <4>2
    <3>2. CASE ~(1 < i)
      <4>1. i = 1 /\ blink[p] = ActiveHead
        BY <1>3, <1>6, <2>1, <3>2
      <4>2. QED
        BY <1>4, <1>6, <2>1, <4>1
    <3>3. QED
      BY <3>1, <3>2
  <2>4. QED
    BY <1>5, <1>7, <2>2, <2>3
<1>10. Ring
  <2>1. /\ flink[ActiveHead] \in linked \cup {ActiveHead} /\ blink[flink[ActiveHead]] = ActiveHead
        /\ blink[ActiveHead] \in linked \cup {ActiveHead} /\ flink[blink[ActiveHead]] = ActiveHead
    <3>1. blink[Sys] = ActiveHead /\ flink[s[m]] = ActiveHead
      BY <1>3, <1>4, <1>6, <1>7
    <3>2. QED
      BY <1>5, <1>6, <1>7, <3>1
  <2>2. QED
    BY <1>6, <1>7, <1>9, <2>1 DEF Ring
<1>11. GuestType
  <2>1. \A n \in ProcNodes : flink[n] \in ProcNodes \cup {Null} /\ blink[n] \in ProcNodes \cup {Null}
    <3>1. \A n \in linked \cup {ActiveHead} :
            flink[n] \in ProcNodes \cup {Null} /\ blink[n] \in ProcNodes \cup {Null}
      BY <1>5, <1>10 DEF Ring
    <3>2. QED
      BY <1>6, <3>1 DEF ProcNodes
  <2>2. flink \in [ProcNodes -> ProcNodes \cup {Null}] /\ blink \in [ProcNodes -> ProcNodes \cup {Null}]
    BY <1>1, <2>1
  <2>3. mlink \in [Procs -> [ModNodes -> ModNodes \cup {Null}]]
    BY <1>2, Entries
  <2>4. mlinked \in [Procs -> Seq(NativeEntries)]
    <3>1. <<Exe>> \in Seq(NativeEntries) /\ <<>> \in Seq(NativeEntries)
      BY NodesApart
    <3>2. QED
      BY <1>2, <3>1
  <2>5. linked \subseteq Procs
    BY <1>5
  <2>6. ghost \in [always : SUBSET Procs, ever : SUBSET Procs, disturbed : BOOLEAN,
                   failed : BOOLEAN, unloaded : SUBSET (Procs \X NativeEntries),
                   loaded : SUBSET NativeEntries]
    BY <1>2, <2>5
  <2>7. QED
    BY <2>2, <2>3, <2>4, <2>5, <2>6 DEF GuestType
<1>12. ClientType
  BY <1>2, IdleCall DEF ClientType
<1>13. /\ ghost.always = linked /\ ghost.ever = linked /\ ghost.disturbed = FALSE
       /\ ghost.unloaded = {}
  BY <1>2
<1>14. Links
  BY <1>7, <1>9, <1>13 DEF Links
<1>15. /\ call.pc = "done" /\ call.kind = "none" /\ call.result = "none" /\ call.infos = <<>>
  BY <1>2 DEF Idle
<1>16. ~Walking /\ Stands
  BY <1>15 DEF Walking, Stands
<1>17. WalkInOrder
  <2> DEFINE rank == [p \in Procs |-> IF p \in linked THEN PlaceOf(s, p) ELSE 0]
  <2>1. \A i \in 1 .. m : rank[s[i]] = i
    BY <1>4, <1>5
  <2>2. rank \in [Procs -> 0 .. m]
    <3>1. \A p \in linked : PlaceOf(s, p) \in 0 .. m
      BY <1>3, <1>4, <1>5
    <3>2. QED
      BY <1>3, <3>1
  <2> HIDE DEF rank
  <2>3. ASSUME NEW p \in linked
        PROVE  /\ rank[Sys] <= rank[p]
               /\ flink[p] # ActiveHead => rank[p] < rank[flink[p]]
               /\ \A q \in linked :
                    /\ rank[p] = rank[q] => p = q
                    /\ rank[p] < rank[q] => flink[p] # ActiveHead /\ rank[flink[p]] <= rank[q]
    <3>1. PICK i \in 1 .. m : p = s[i]
      BY <1>5
    <3>2. rank[p] = i /\ rank[Sys] = 1 /\ i \in Nat
      BY <1>3, <1>4, <1>7, <2>1, <3>1
    <3>3. flink[p] # ActiveHead => rank[p] < rank[flink[p]]
      <4>1. i < m => flink[p] = s[i + 1] /\ rank[s[i + 1]] = i + 1
        BY <1>6, <1>8, <2>1, <3>1
      <4>2. QED
        BY <1>6, <3>1, <3>2, <4>1
    <3>4. ASSUME NEW q \in linked
          PROVE  /\ rank[p] = rank[q] => p = q
                 /\ rank[p] < rank[q] => flink[p] # ActiveHead /\ rank[flink[p]] <= rank[q]
      <4>1. PICK j \in 1 .. m : q = s[j]
        BY <1>5
      <4>2. rank[q] = j
        BY <2>1, <4>1
      <4>3. ASSUME i < j PROVE flink[p] # ActiveHead /\ rank[flink[p]] <= rank[q]
        <5>1. i < m /\ i + 1 \in 1 .. m /\ i + 1 <= j
          BY <1>3, <4>3
        <5>2. flink[p] = s[i + 1] /\ rank[s[i + 1]] = i + 1 /\ s[i + 1] \in Procs
          BY <1>5, <1>6, <2>1, <3>1, <5>1
        <5>3. QED
          BY <1>7, <4>2, <5>1, <5>2
      <4>4. QED
        BY <3>1, <3>2, <4>1, <4>2, <4>3
    <3>5. QED
      BY <1>3, <3>2, <3>3, <3>4
  <2>4. Ranked(rank, m)
    BY <1>3, <2>2, <2>3 DEF Ranked
  <2>5. Ahead(rank)
    BY <1>9, <1>13, <2>3 DEF Ahead
  <2>6. Reported(rank)
    BY <1>16 DEF Reported
  <2>7. QED
    BY <1>3, <2>2, <2>4, <2>5, <2>6 DEF WalkInOrder
<1>18. ModuleLists
  <2>1. SUFFICES ASSUME NEW p \in linked
                 PROVE  /\ NativeList(p, mlinked[p])
                        /\ mlink[p][WowHead] = WowEntry /\ mlink[p][WowEntry] = WowHead
    BY <1>6 DEF ModuleLists
  <2>2. mlinked[p] = <<Exe>> /\ mlink[p] = OnlyExe
    BY <1>2, <1>5
  <2>3. OnlyExe[LdrHead] = Exe /\ OnlyExe[Exe] = LdrHead
    BY Entries
  <2>4. DOMAIN <<Exe>> = {1} /\ Len(<<Exe>>) = 1 /\ <<Exe>>[1] = Exe
    OBVIOUS
  <2>5. NativeList(p, mlinked[p])
    BY <2>2, <2>3, <2>4, NodesApart DEF NativeList
  <2>6. QED
    BY <2>2, <2>5, Entries
<1>19. CallInv
  BY <1>2, <1>15 DEF CallInv, Phases, BasesExe, LookupGoesOn, ModuleWalk, ListKinds
<1>20. ListClaims
  BY <1>15 DEF ListClaims, ListFaithful, LookupFinds, ModulesFaithful, ListKinds
<1>21. QED
  BY <1>10, <1>11, <1>12, <1>14, <1>16, <1>17, <1>18, <1>19, <1>20 DEF ListsInv, Types

\* So it holds throughout.
LEMMA ListsAlways == ListSpec => []ListsInv
<1>1. ListsInv /\ [ListNext]_listVars => ListsInv'
  BY ListStep
<1>2. QED
  BY <1>1, ListsStart, PTL DEF ListSpec

-----------------------------------------------------------------------------
(* The theorems                                                            *)

\* The lists of the guest and what a client holds of them keep their types
\* through every step of kernel.rs and process.rs and of the guest.
THEOREM Win32ListTypes == ListSpec => []Types
<1>1. ListsInv => Types
  BY DEF ListsInv
<1>2. QED
  BY <1>1, ListsAlways, PTL

\* eprocess_list_extend, and the listings built on it, of any number of
\* processes and however long the guest goes on linking and unlinking them:
\* nothing is reported that was not linked at some time of the walk, and
\* nothing is left out that was linked all the time, unless a block the walk
\* could stand on was given back or used again or MAX_ITER_COUNT cut it.
THEOREM Win32ListFaithful == ListSpec => []ListFaithful
<1>1. ListsInv => ListFaithful
  BY DEF ListsInv, ListClaims
<1>2. QED
  BY <1>1, ListsAlways, PTL

\* process_info and process_info_pid find a process that was linked all the
\* time, under its whole name although _EPROCESS keeps a part, whatever the
\* candidates before it and whatever is loaded and unloaded meanwhile.
THEOREM Win32LookupFinds == ListSpec => []LookupFinds
<1>1. ListsInv => LookupFinds
  BY DEF ListsInv, ListClaims
<1>2. QED
  BY <1>1, ListsAlways, PTL

\* module_list of a process that unloads nothing lists no module twice and
\* every module that was loaded when it began, for native lists of any length
\* and those under WoW64, though it starts at an entry read earlier.
THEOREM Win32ModulesFaithful == ListSpec => []ModulesFaithful
<1>1. ListsInv => ModulesFaithful
  BY DEF ListsInv, ListClaims
<1>2. QED
  BY <1>1, ListsAlways, PTL
=============================================================================

----------------------------- MODULE FfiHandles -----------------------------
(***************************************************************************)
(* The C interface (memflow-ffi, memflow-win32-ffi) and the connector      *)
(* inventory under it (memflow/src/connector/inventory.rs): who owns what, *)
(* and how long the library of a connector stays loaded.                   *)
(*                                                                         *)
(* Every call that returns a reference puts a box on the heap (to_heap);   *)
(* the caller owns it until it passes it to a call that takes the box      *)
(* back.  An object made from another one may borrow it (of), own it, or   *)
(* be independent of it.  A library is a shared object with one Arc per    *)
(* owner; refs counts them.  What memory contains is left out: whether a   *)
(* call finds what it looks for is a choice.                               *)
(***************************************************************************)
EXTENDS Integers, Sequences, FiniteSets, SequencesExt, FiniteSetsExt

CONSTANTS
  Slots,        \* places on the heap, 1..n (a bound on live boxes)
  Libs,         \* connector libraries, loadable and of version 5
  NoLib,
  Paths,        \* directories an inventory may be told to search
  SearchPaths,  \* those try_new searches, in order
  Files,        \* [Paths -> sequence of entries, a library or NoLib], Invalid: no directory
  Invalid,
  NameOfLib,    \* [Libs -> the name in its descriptor]
  ConnectorNames, \* names a caller asks for
  MaxLen,       \* bound: elements a list call may return
  MaxCalls      \* bound: calls made

ASSUME HandleAssumption ==
  /\ Slots \subseteq Nat \ {0} /\ NoLib \notin Libs
  /\ Files \in [Paths -> Seq(Libs \cup {NoLib}) \cup {Invalid}]
  /\ Invalid \notin Seq(Libs \cup {NoLib}) /\ SearchPaths \in Seq(Paths)
  /\ MaxLen \in Nat /\ MaxCalls \in Nat

VARIABLES
  heap,   \* [Slots -> what the box there holds]
  refs,   \* [Libs -> the Arcs that keep it loaded]
  ret,    \* what the last call returned
  lost,   \* boxes no caller has a reference to
  calls

handleVars == <<heap, refs, ret, lost, calls>>

NoBox == [kind |-> "none", of |-> 0, lib |-> NoLib, libs |-> <<>>]

Box(kind) == [NoBox EXCEPT !.kind = kind]

Is(i, kind) == i \in Slots /\ heap[i].kind = kind

FreeSlots(h) == {i \in Slots : h[i].kind = "none"}

(* to_heap: the box goes to a free place; freeing an object leaves those    *)
(* that borrowed it dangling.                                               *)
ToHeap(h, box) == [h EXCEPT ![Min(FreeSlots(h))] = box]

Place(h) == Min(FreeSlots(h))

FromRaw(h, i) ==
  [j \in Slots |-> IF j = i THEN NoBox
                   ELSE IF h[j].of = i THEN [h[j] EXCEPT !.of = 0] ELSE h[j]]

(* The library arcs an object holds: one per connector of an inventory, one *)
(* in every connector instance, which kernels and processes carry along.    *)
Arcs(box, l) ==
  Cardinality({n \in DOMAIN box.libs : box.libs[n] = l}) + (IF box.lib = l THEN 1 ELSE 0)

Acquire(box) == refs' = [l \in Libs |-> refs[l] + Arcs(box, l)]
Release(box) == refs' = [l \in Libs |-> refs[l] - Arcs(box, l)]

Call(result) ==
  /\ calls < MaxCalls
  /\ calls' = calls + 1
  /\ ret' = result

(* A call that may return nothing and else boxes a new object. *)
Gives(box) ==
  /\ FreeSlots(heap) # {}
  /\ Call("ptr")
  /\ heap' = ToHeap(heap, box)
  /\ Acquire(box)
  /\ UNCHANGED lost

GivesNothing == Call("null") /\ UNCHANGED <<heap, refs, lost>>

(* A call that frees the box and the object in it. *)
Frees(i) ==
  /\ Call("void")
  /\ heap' = FromRaw(heap, i)
  /\ Release(heap[i])
  /\ UNCHANGED lost

(* A call that takes the box at i and puts another in its place, which     *)
(* carries on what the object owned.                                       *)
TurnsInto(i, box) ==
  /\ Call("ptr")
  /\ heap' = [FromRaw(heap, i) EXCEPT ![i] = box]
  /\ UNCHANGED <<refs, lost>>

----------------------------------------------------------------------------
(* Inventory. *)

(* The connectors among the first entries of a directory. *)
Loadable(files) ==
  LET found[n \in 0 .. Len(files)] ==
        IF n = 0 THEN <<>>
        ELSE IF files[n] \in Libs THEN Append(found[n - 1], files[n]) ELSE found[n - 1]
  IN  found

(* add_dir: what is no connector is skipped; an error reading the directory *)
(* ends it, and the connectors added so far stay.                           *)
AddDir(p, n) == IF Files[p] = Invalid THEN <<>> ELSE Loadable(Files[p])[n]

ScanLengths(p) == IF Files[p] = Invalid THEN {0} ELSE 0 .. Len(Files[p])

Complete(p, n) == Files[p] # Invalid /\ n = Len(Files[p])

InventoryWithPath(p) ==
  \E n \in ScanLengths(p) :
    IF Complete(p, n) THEN Gives([Box("inventory") EXCEPT !.libs = AddDir(p, n)])
    ELSE GivesNothing

(* try_new takes what every directory gives and ignores their errors. *)
Searched(n) ==
  LET found[k \in 0 .. Len(SearchPaths)] ==
        IF k = 0 THEN <<>> ELSE found[k - 1] \o AddDir(SearchPaths[k], n[k])
  IN  found[Len(SearchPaths)]

InventoryTryNew ==
  \E n \in [DOMAIN SearchPaths -> UNION {ScanLengths(p) : p \in Paths}] :
    /\ \A k \in DOMAIN SearchPaths : n[k] \in ScanLengths(SearchPaths[k])
    /\ Gives([Box("inventory") EXCEPT !.libs = Searched(n)])

InventoryAddDir(i, p) ==
  \E n \in ScanLengths(p) :
    LET added == [Box("inventory") EXCEPT !.libs = AddDir(p, n)]
    IN  /\ Call(IF Complete(p, n) THEN 0 ELSE -1)
        /\ heap' = [heap EXCEPT ![i].libs = @ \o added.libs]
        /\ Acquire(added)
        /\ UNCHANGED lost

InventoryFree(i) == Frees(i)

(* create_connector takes the first with that name; its factory may fail,   *)
(* and so may the arguments.                                                *)
FoundLib(i, name) == {n \in DOMAIN heap[i].libs : NameOfLib[heap[i].libs[n]] = name}

InventoryCreateConnector(i, name) ==
  \/ /\ FoundLib(i, name) # {}
     /\ Gives([Box("connector") EXCEPT !.lib = heap[i].libs[Min(FoundLib(i, name))]])
  \/ GivesNothing

ConnectorClone(c) == Gives(heap[c])

ConnectorFree(c) == Frees(c)

(* A PhysicalMemory borrows the connector it is made from. *)
DowncastCloneable(c) == Gives([Box("phys") EXCEPT !.of = c])

PhysFree(p) == Frees(p)

----------------------------------------------------------------------------
(* Kernel.  kernel_build and kernel_build_custom own the connector from the *)
(* start: when the build fails it is dropped.                               *)

BuildKernel(c) ==
  \/ TurnsInto(c, [heap[c] EXCEPT !.kind = "kernel"])
  \/ Call("null") /\ heap' = FromRaw(heap, c) /\ Release(heap[c]) /\ UNCHANGED lost

KernelClone(k) == Gives(heap[k])

KernelFree(k) == Frees(k)

KernelDestroy(k) == TurnsInto(k, [heap[k] EXCEPT !.kind = "connector"])

(* The lists fill at most max places of the caller's buffer, one box each.  *)
(* A failed list returns 0, whatever it has put there: the boxes are lost.  *)
FillList(kind, n, failed) ==
  LET filled == {i \in FreeSlots(heap) : Cardinality({j \in FreeSlots(heap) : j <= i}) <= n}
  IN  /\ Cardinality(FreeSlots(heap)) >= n
      /\ Call(IF failed THEN 0 ELSE n)
      /\ heap' = [i \in Slots |-> IF i \in filled THEN Box(kind) ELSE heap[i]]
      /\ lost' = IF failed THEN lost \cup filled ELSE lost
      /\ UNCHANGED refs

(* process_info_list_extend fails before it gives anything. *)
KernelProcessInfoList(k) ==
  \E n \in 0 .. MaxLen : FillList("info", n, FALSE)

(* module_list_extend may fail in the second list of a WoW64 process. *)
ProcessModuleList(p) ==
  \E n \in 0 .. MaxLen, failed \in BOOLEAN : FillList("module", n, failed)

(* A list of addresses: nothing is boxed. *)
KernelEprocessList(k) == \E n \in 0 .. MaxLen : Call(n) /\ UNCHANGED <<heap, refs, lost>>

(* kernel_process_info, _pid, _from_eprocess and kernel_kernel_process_info. *)
KernelProcessInfoNew(k) == Gives(Box("info")) \/ GivesNothing

\* Mutant of KernelIntoProcess: the kernel is forgotten when no process is found
KernelIntoProcessForgets(k) ==
  \/ TurnsInto(k, [heap[k] EXCEPT !.kind = "process"])
  \/ Call("null") /\ heap' = FromRaw(heap, k) /\ UNCHANGED <<refs, lost>>

(* kernel_into_process, _pid and kernel_into_kernel_process consume the     *)
(* kernel, whether they find the process or not.                            *)
KernelIntoProcess(k) ==
  \/ TurnsInto(k, [heap[k] EXCEPT !.kind = "process"])
  \/ Call("null") /\ heap' = FromRaw(heap, k) /\ Release(heap[k]) /\ UNCHANGED lost

ProcessInfoFree(i) == Frees(i)

ProcessInfoTrait(i) == Gives([Box("osinfo") EXCEPT !.of = i])

OsProcessInfoFree(o) == Frees(o)

(* os_process_info_sys_arch and _proc_arch box the architecture they return. *)
OsProcessInfoArch(o) == Gives(Box("arch"))

ArchFree(a) == Frees(a)

----------------------------------------------------------------------------
(* Process. *)

ProcessWithKernel(k, i) == TurnsInto(k, [heap[k] EXCEPT !.kind = "process"])

ProcessVirtMem(p) == Gives([Box("virt") EXCEPT !.of = p])

VirtFree(v) == Frees(v)

ProcessClone(p) == Gives(heap[p])

ProcessFree(p) == Frees(p)

ProcessModuleInfo(p) == Gives(Box("module")) \/ GivesNothing

ModuleInfoFree(m) == Frees(m)

ModuleInfoTrait(m) == Gives([Box("osmodule") EXCEPT !.of = m])

OsProcessModuleFree(o) == Frees(o)

(* The reads and writes return 0 or -1, a partial result being -1 as well;  *)
(* the ones of a single number return the number, 0 for an error.           *)
PhysAccess(p) == \E r \in {0, -1} : Call(r) /\ UNCHANGED <<heap, refs, lost>>

VirtAccess(v) == \E r \in {0, -1} : Call(r) /\ UNCHANGED <<heap, refs, lost>>

(* The calls that return a field of an object, or copy its name out. *)
Looks == Call(0) /\ UNCHANGED <<heap, refs, lost>>

KernelAccess(k) == Looks
InfoAccess(i) == Looks
OsInfoAccess(o) == Looks
OsModuleAccess(o) == Looks
ArchAccess(a) == Looks

----------------------------------------------------------------------------
(* A caller that keeps to the safety sections: it passes only references    *)
(* that are valid and its own, frees a borrower before or after its owner,  *)
(* but uses it only while the owner lives.                                  *)

Mine(i, kind) == Is(i, kind) /\ i \notin lost

Usable(i, kind) == Mine(i, kind) /\ heap[i].of # 0

Unborrowed(i) == \A j \in Slots : heap[j].of # i

HandleInit ==
  /\ heap = [i \in Slots |-> NoBox]
  /\ refs = [l \in Libs |-> 0]
  /\ ret = "void"
  /\ lost = {}
  /\ calls = 0

InventoryCalls ==
  \/ InventoryTryNew
  \/ \E p \in Paths : InventoryWithPath(p)
  \/ \E i \in Slots : Mine(i, "inventory") /\
       \/ InventoryFree(i)
       \/ \E p \in Paths : InventoryAddDir(i, p)
       \/ \E name \in ConnectorNames : InventoryCreateConnector(i, name)

ConnectorCalls(i) ==
  \/ Mine(i, "connector") /\ (ConnectorClone(i) \/ DowncastCloneable(i))
  \/ Mine(i, "connector") /\ Unborrowed(i) /\ (ConnectorFree(i) \/ BuildKernel(i))
  \/ Usable(i, "phys") /\ PhysAccess(i)
  \/ Mine(i, "phys") /\ PhysFree(i)

KernelCalls(i) ==
  /\ Mine(i, "kernel")
  /\ \/ KernelClone(i) \/ KernelFree(i) \/ KernelDestroy(i)
     \/ KernelEprocessList(i) \/ KernelProcessInfoList(i) \/ KernelProcessInfoNew(i)
     \/ KernelAccess(i) \/ KernelIntoProcess(i)
     \/ \E j \in Slots : Mine(j, "info") /\ ProcessWithKernel(i, j)

ProcessCalls(i) ==
  \/ Mine(i, "process") /\ (ProcessVirtMem(i) \/ ProcessClone(i) \/ ProcessFree(i)
                            \/ ProcessModuleInfo(i) \/ ProcessModuleList(i))
  \/ Usable(i, "virt") /\ VirtAccess(i)
  \/ Mine(i, "virt") /\ VirtFree(i)
  \/ Mine(i, "module") /\ (ModuleInfoFree(i) \/ ModuleInfoTrait(i))
  \/ Usable(i, "osmodule") /\ OsModuleAccess(i)
  \/ Mine(i, "osmodule") /\ OsProcessModuleFree(i)
  \/ Mine(i, "info") /\ (ProcessInfoFree(i) \/ ProcessInfoTrait(i) \/ InfoAccess(i))
  \/ Usable(i, "osinfo") /\ (OsProcessInfoArch(i) \/ OsInfoAccess(i))
  \/ Mine(i, "osinfo") /\ OsProcessInfoFree(i)
  \/ Mine(i, "arch") /\ (ArchFree(i) \/ ArchAccess(i))

HandleNext ==
  \/ InventoryCalls
  \/ \E i \in Slots : ConnectorCalls(i) \/ KernelCalls(i) \/ ProcessCalls(i)

HandleSpec == HandleInit /\ [][HandleNext]_handleVars

----------------------------------------------------------------------------
(* The library of a connector is loaded as long as anything runs its code,  *)
(* through clones, kernels, processes and a freed inventory; and a caller   *)
(* that has given back all its references has unloaded every library, even  *)
(* when the build or the lookup that took them failed.                      *)
LibraryLifetime ==
  /\ \A i \in Slots : heap[i].lib # NoLib => refs[heap[i].lib] > 0
  /\ (\A i \in Slots : heap[i].kind = "none" \/ i \in lost) => \A l \in Libs : refs[l] = 0
=============================================================================

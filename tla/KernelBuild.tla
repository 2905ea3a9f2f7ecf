----------------------------- MODULE KernelBuild -----------------------------
(***************************************************************************)
(* How memflow-win32 finds a Windows kernel in physical memory and builds  *)
(* its Kernel object: the start block (kernel/start_block*.rs), ntoskrnl   *)
(* (kernel/ntos*.rs), the System process (kernel/sysproc.rs), the order    *)
(* and the fallback between them (win32/kernel_info.rs), the offsets, and  *)
(* the directory table base the kernel works with (win32/kernel.rs).       *)
(*                                                                         *)
(* Signatures are features of a guest: which pages look like a low stub or *)
(* a page table, what is mapped under the right table.  A table is its     *)
(* base, Dtb for the kernel's own, Wrong for one that is none of its.      *)
(***************************************************************************)
EXTENDS OffsetTables, FiniteSets

CONSTANTS
  Guids, Builds,  \* GUIDs and builds kernels and offset files have
  MaxFiles,       \* bound: files in an offset list
  BuiltIn,        \* the offset list of the program that builds a kernel
  MaxFaults       \* bound: reads that fail

ListedFiles == OffsetFiles(Guids, Builds, {"X64", "X86"})

ASSUME BuildAssumption ==
  /\ Nothing \notin Guids /\ Builds \subseteq Nat \ {0}
  /\ BuiltIn \in Seq(ListedFiles) /\ MaxFiles \in Nat
  /\ Nothing \notin ListedFiles
  /\ Nothing \notin [from : {"pdb", "list"}, file : ListedFiles \cup {Nothing}]

Archs == {X64, X32Pae, X32}
Dtb == "dtb"
Wrong == "wrong"
Null0 == "null"

Guests ==
  [arch : Archs,
   stub : {"none", "right", "stale", "zero"},  \* dtb of the first low stub in 1 MB
   hint : {"near", "far"},   \* its kernel entry is within 16 MB of the image
   decoys : {{}, {X64}, {X32Pae}},  \* page tables seen before, or instead of, the right one
   table : BOOLEAN,          \* the right table is in the low 16 MB
   reach : BOOLEAN,          \* the image is where a search without a hint looks
   export : BOOLEAN]         \* PsInitialSystemProcess is a symbol, not a forward

VARIABLES
  guest,    \* what memory holds
  hints,    \* what the caller of the scanner gave: arch, dtb, kernel_hint
  scan,     \* where the scan is
  archs,    \* architectures start_block::find has still to try
  block,    \* the start block
  info,     \* the KernelInfo as far as it is known
  fallback, \* whether scan_block runs on the fallback block
  files,    \* the offset list
  faults

buildVars == <<guest, hints, scan, archs, block, info, fallback, files, faults>>

NoBlock == [arch |-> Nothing, hint |-> Null0, dtb |-> Null0]
NoInfo == [base |-> Nothing, guid |-> Nothing, winver |-> Nothing, eprocess |-> Nothing,
           offsets |-> Nothing, dtb |-> Nothing]

(* An error of the connector, possible at every read. *)
Fault == faults < MaxFaults /\ faults' = faults + 1

NoFault == UNCHANGED faults

BuildInit ==
  /\ scan = "boot"
  /\ guest = Nothing /\ hints = Nothing /\ archs = <<>> /\ block = NoBlock
  /\ info = NoInfo /\ fallback = FALSE /\ files = <<>> /\ faults = 0

Given == [arch : Archs \cup {Nothing}, dtb : {Nothing, Dtb, Wrong}, hint : {Nothing, "near", "far"}]

(* The guest and what the caller knows of it. *)
Boot ==
  /\ scan = "boot"
  /\ guest' \in {g \in Guests : g.arch # X64 => g.stub = "none" /\ g.hint = "far"}
  /\ hints' \in Given
  /\ scan' = "start"
  /\ UNCHANGED <<archs, block, info, fallback, files, faults>>

AllHints == hints.arch # Nothing /\ hints.dtb # Nothing /\ hints.hint # Nothing

(* scan: all three hints make the block, else it is searched. *)
StartScan ==
  /\ scan = "start"
  /\ IF AllHints
     THEN /\ block' = hints
          /\ scan' = "ntos"
          /\ UNCHANGED archs
     ELSE /\ archs' = IF hints.arch = Nothing THEN <<X64, X32Pae, X32>> ELSE <<hints.arch>>
          /\ scan' = "block"
          /\ UNCHANGED block
  /\ UNCHANGED <<guest, hints, info, fallback, files, faults>>

----------------------------------------------------------------------------
(* start_block *)

(* x64::find_lowstub; a stub without a table is none. *)
LowStub ==
  CASE guest.stub = "right" -> [arch |-> X64, hint |-> guest.hint, dtb |-> Dtb]
    [] guest.stub = "stale" -> [arch |-> X64, hint |-> guest.hint, dtb |-> Wrong]
    [] OTHER -> NoBlock

(* The first page of the low 16 MB that looks like a table. *)
FirstTable(arch) ==
  IF arch \in guest.decoys THEN [arch |-> arch, hint |-> Null0, dtb |-> Wrong]
  ELSE IF arch = guest.arch /\ guest.table
  THEN [arch |-> arch, hint |-> Null0, dtb |-> Dtb]
  ELSE NoBlock

(* x64::find with find_pt: a user entry first, an entry that refers to the  *)
(* page itself and five kernel ones in the second half.                     *)
FindX64 == FirstTable(X64)

(* x86pae::find with check_page: the four entries are the four next pages.  *)
FindX86Pae == FirstTable(X32Pae)

(* x86::find with check_page: an entry that refers to the page itself and   *)
(* sixteen kernel ones.                                                     *)
FindX86 == FirstTable(X32)

FindBlock(arch) ==
  CASE arch = X64 -> IF LowStub # NoBlock THEN LowStub ELSE FindX64
    [] arch = X32Pae -> FindX86Pae
    [] arch = X32 -> FindX86

WithHint(b) ==
  IF hints.hint # Nothing /\ b.hint = Null0 THEN [b EXCEPT !.hint = hints.hint] ELSE b

(* One architecture after the other, a failed read counting as not found. *)
TryArch ==
  /\ scan = "block" /\ archs # <<>>
  /\ archs' = Tail(archs)
  /\ \/ /\ NoFault
        /\ IF FindBlock(Head(archs)) # NoBlock
           THEN block' = WithHint(FindBlock(Head(archs))) /\ scan' = "ntos"
           ELSE UNCHANGED <<block, scan>>
     \/ Fault /\ UNCHANGED <<block, scan>>
  /\ UNCHANGED <<guest, hints, info, fallback, files>>

NoArchLeft ==
  /\ scan = "block" /\ archs = <<>>
  /\ scan' = "err"
  /\ UNCHANGED <<guest, hints, archs, block, info, fallback, files, faults>>

----------------------------------------------------------------------------
(* scan_block.  Only the kernel's own table, under its own architecture,    *)
(* shows the kernel.                                                        *)

Visible == block.dtb = Dtb /\ block.arch = guest.arch

(* x64::find_with_va_hint: the 16 MB below the hint. *)
FindWithVaHint == block.hint = "near" /\ Visible

(* x64::find: every whole 2 MB chunk of the upper half's page map. *)
FindInPageMap == guest.reach /\ Visible

(* x86::find: the first 256 MB of the upper half. *)
FindX86Image == guest.reach /\ Visible

NtosFound ==
  IF block.arch = X64 THEN FindWithVaHint \/ FindInPageMap ELSE FindX86Image

\* Mutant of ScanFails: the first error is final
ScanFailsAtOnce == scan' = "err"

(* An error of scan_block is followed, once, by the fallback block. *)
ScanFails == scan' = IF fallback THEN "err" ELSE "fallback"

(* A probe whose read fails is skipped, so that the search may still find   *)
(* the image elsewhere, or not.                                             *)
Ntos ==
  /\ scan = "ntos"
  /\ \/ /\ NoFault \/ Fault
        /\ NtosFound
        /\ info' = [info EXCEPT !.base = guest.arch] /\ scan' = "ident"
     \/ /\ (NoFault /\ ~NtosFound) \/ Fault
        /\ ScanFails /\ UNCHANGED info
  /\ UNCHANGED <<guest, hints, archs, block, fallback, files>>

(* find_guid and find_winver: what the image does not say, or cannot be     *)
(* read, is left unknown; a major version of 0 stays 0.                     *)
Identify ==
  /\ scan = "ident"
  /\ \E guid \in Guids \cup {Nothing}, 
        winver \in Versions(Builds) \cup [major : {0}, build : Builds] \cup {Nothing} :
       info' = [info EXCEPT !.guid = guid, !.winver = winver]
  /\ IF info'.guid = Nothing \/ info'.winver = Nothing THEN NoFault \/ Fault ELSE NoFault
  /\ scan' = "sysproc"
  /\ UNCHANGED <<guest, hints, archs, block, fallback, files>>

(* find_exported; find_in_section never finds anything. *)
Sysproc ==
  /\ scan = "sysproc"
  /\ \/ /\ NoFault /\ guest.export
        /\ info' = [info EXCEPT !.eprocess = guest.arch] /\ scan' = "offsets"
     \/ /\ (NoFault /\ ~guest.export) \/ Fault
        /\ ScanFails /\ UNCHANGED info
  /\ UNCHANGED <<guest, hints, archs, block, fallback, files>>

(* find_fallback is there for x64 only. *)
Fallback ==
  /\ scan = "fallback"
  /\ fallback' = TRUE
  /\ info' = NoInfo
  /\ \/ /\ NoFault
        /\ IF block.arch = X64 /\ FindX64 # NoBlock
           THEN block' = FindX64 /\ scan' = "ntos"
           ELSE scan' = "err" /\ UNCHANGED block
     \/ Fault /\ block.arch = X64 /\ scan' = "err" /\ UNCHANGED block
  /\ UNCHANGED <<guest, hints, archs, files>>

----------------------------------------------------------------------------
(* KernelBuilder::build *)

OffsetLists ==
  UNION {[1 .. n -> ListedFiles] : n \in 0 .. MaxFiles}

(* find_winver's version is unwrap_or_default: an unknown one is (0, 0, 0). *)
Winver == IF info.winver = Nothing THEN [major |-> 0, build |-> 0] ELSE info.winver

OffsetsFrom(guid, winver, arch, fs, pdb, next) ==
  LET o == BuildOffsets(pdb, fs, guid, winver, arch)
  IN  /\ files' = fs
      /\ info' = [info EXCEPT !.guid = guid, !.winver = winver, !.offsets = o]
      /\ scan' = IF o = Nothing THEN "no_offsets" ELSE next

Offsets ==
  /\ scan = "offsets"
  /\ \E pdb \in BOOLEAN :
       OffsetsFrom(info.guid, Winver, OffsetsArch(block.arch), BuiltIn, pdb, "kernel")
  /\ UNCHANGED <<guest, hints, archs, block, fallback, faults>>

(* The offset builder on its own, with any list. *)
OffsetsAlone ==
  /\ scan = "boot"
  /\ \E guid \in Guids \cup {Nothing}, winver \in Versions(Builds) \cup {Nothing},
        arch \in {X64, X32}, fs \in OffsetLists, pdb \in BOOLEAN :
       /\ OffsetsFrom(guid, winver, OffsetsArch(arch), fs, pdb, "alone")
       /\ block' = [NoBlock EXCEPT !.arch = arch]
  /\ UNCHANGED <<guest, hints, archs, fallback, faults>>

(* Kernel::new reads the table base of the System process; memory that is   *)
(* not mapped reads as 0, a failed read leaves the block's.                 *)
NewKernel ==
  /\ scan = "kernel"
  /\ \/ NoFault /\ \E dtb \in {Dtb, Null0} : info' = [info EXCEPT !.dtb = dtb]
     \/ Fault /\ info' = [info EXCEPT !.dtb = block.dtb]
  /\ scan' = "ok"
  /\ UNCHANGED <<guest, hints, archs, block, fallback, files>>

BuildNext ==
  \/ Boot \/ StartScan \/ TryArch \/ NoArchLeft \/ Ntos \/ Identify \/ Sysproc \/ Fallback
  \/ Offsets \/ OffsetsAlone \/ NewKernel

BuildSpec == BuildInit /\ [][BuildNext]_buildVars

----------------------------------------------------------------------------
(* A guest whose kernel the scan can find whatever its low stub says: the   *)
(* System process is exported, the first page table of its architecture is  *)
(* its own, a 32-bit guest has nothing a 64-bit scan takes for one unless   *)
(* the architecture was given, and a table given is right or has a fallback.*)
Findable ==
  /\ guest.export /\ guest.table /\ guest.reach /\ guest.arch \notin guest.decoys
  /\ hints.arch \in {guest.arch, Nothing}
  /\ AllHints /\ guest.arch # X64 => hints.dtb = Dtb
  /\ hints.arch = Nothing =>
       CASE guest.arch = X64 -> TRUE
         [] guest.arch = X32Pae -> X64 \notin guest.decoys
         [] guest.arch = X32 -> guest.decoys = {}

(* Without a failed read, the scan finds the kernel of such a guest through *)
(* stale stubs, hints that lead nowhere and the fallback.                   *)
ScanFinds == scan = "err" /\ faults = 0 => ~Findable

(* The offsets come from the PDB of the very GUID, or from the file that is *)
(* right for the kernel, whatever the order of the list; and they are not   *)
(* found only if the list has none.                                         *)
OffsetsRight ==
  /\ scan \in {"alone", "kernel", "ok"} /\ info.offsets.from = "list" =>
       RightFile(files, info.guid, info.winver, OffsetsArch(block.arch), info.offsets.file)
  /\ scan = "no_offsets" /\ info.winver # Nothing =>
       RightFile(files, info.guid, info.winver, OffsetsArch(block.arch), Nothing)
=============================================================================

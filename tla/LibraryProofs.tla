----------------------------- MODULE LibraryProofs -----------------------------
(***************************************************************************)
(* Theorems about the parts of the libraries that MCLibrary checks side by *)
(* side and that have no proof module of their own: how a Windows kernel   *)
(* is found and its offsets chosen (KernelBuild), what the symbols of a    *)
(* PDB hold (PdbStruct), how long the library of a connector stays loaded  *)
(* (FfiHandles), and which frames the memory of the tests hands out        *)
(* (DummyMemory).                                                          *)
(***************************************************************************)
EXTENDS KernelBuild, PdbStruct, FfiHandles, DummyMemory, SequenceTheorems, FiniteSetTheorems,
        WellFoundedInduction, NaturalsInduction, TLAPS

-----------------------------------------------------------------------------
(* The scan for a kernel                                                   *)

Scanning == {"start", "block", "ntos", "ident", "sysproc", "fallback", "err"}

\* What the scan knows of the guest, once there is one.
ScanType ==
  /\ faults \in Nat
  /\ scan \in Scanning =>
       /\ guest \in Guests /\ hints \in Given
       /\ guest.arch # X64 => guest.stub = "none"
  /\ scan \in {"boot", "start", "block"} => fallback = FALSE

\* The lists of architectures that start_block::find works through.
Rests == {<<X64, X32Pae, X32>>, <<X32Pae, X32>>, <<X32>>}

\* As long as no read failed, the scan of a findable guest has its own
\* architecture still before it, or works under the right one; and it works
\* with the right table, or can still fall back to it.
ScanOn ==
  faults = 0 /\ scan \in Scanning /\ Findable =>
    /\ scan # "err"
    /\ scan = "block" =>
         \/ archs = <<guest.arch>>
         \/ /\ hints.arch = Nothing /\ archs \in Rests
            /\ \E n \in DOMAIN archs : archs[n] = guest.arch
    /\ scan \in {"ntos", "ident", "sysproc"} =>
         /\ block.arch = guest.arch
         /\ fallback \/ block.arch # X64 => block.dtb = Dtb
    /\ scan = "fallback" => block.arch = guest.arch /\ block.arch = X64 /\ ~fallback

ScanInv == ScanType /\ ScanOn

LEMMA ArchsApart == X64 # X32 /\ X64 # X32Pae /\ X32 # X32Pae /\ Dtb # Null0 /\ Dtb # Wrong /\ Wrong # Null0
BY DEF X64, X32, X32Pae, Dtb, Null0, Wrong

\* The right table is found where nothing before it looks like one.
LEMMA TableFound ==
  ASSUME NEW arch, guest.table, arch \notin guest.decoys
  PROVE  /\ arch = guest.arch => FirstTable(arch) = [arch |-> arch, hint |-> Null0, dtb |-> Dtb]
         /\ arch # guest.arch => FirstTable(arch) = NoBlock
BY DEF FirstTable

\* A block that is one has a table.
LEMMA BlockHasTable ==
  ASSUME NEW b, b.dtb \in {Dtb, Wrong}
  PROVE  b # NoBlock
BY ArchsApart DEF NoBlock


\* Findable and what it says stay the same while the scan runs.
LEMMA FindableSays ==
  ASSUME ScanType, scan \in Scanning, Findable
  PROVE  /\ guest.arch \in Archs /\ guest.export /\ guest.table /\ guest.reach
         /\ guest.arch \notin guest.decoys /\ hints.arch \in {guest.arch, Nothing}
         /\ AllHints /\ guest.arch # X64 => hints.dtb = Dtb
         /\ hints.arch = Nothing /\ guest.arch = X32Pae => X64 \notin guest.decoys
         /\ hints.arch = Nothing /\ guest.arch = X32 => guest.decoys = {}
         /\ guest.arch # X64 => guest.stub = "none"
<1>1. guest.arch \in Archs /\ (guest.arch # X64 => guest.stub = "none")
  BY DEF ScanType, Guests
<1>2. /\ guest.export /\ guest.table /\ guest.reach
      /\ guest.arch \notin guest.decoys /\ hints.arch \in {guest.arch, Nothing}
      /\ AllHints /\ guest.arch # X64 => hints.dtb = Dtb
  BY DEF Findable
<1>3. hints.arch = Nothing /\ guest.arch = X32Pae => X64 \notin guest.decoys
  BY ArchsApart DEF Findable
<1>4. hints.arch = Nothing /\ guest.arch = X32 => guest.decoys = {}
  BY ArchsApart DEF Findable
<1>. QED  BY <1>1, <1>2, <1>3, <1>4

\* One round of start_block::find on a findable guest: under its own
\* architecture a block is found; before that one, none.
LEMMA FindBlockOK ==
  ASSUME ScanType, scan \in Scanning, Findable, NEW arch \in Archs
  PROVE  /\ arch = guest.arch => /\ FindBlock(arch) # NoBlock /\ FindBlock(arch).arch = guest.arch
                                 /\ arch # X64 => FindBlock(arch).dtb = Dtb
         /\ hints.arch = Nothing /\ arch # guest.arch /\ guest.arch # X64
            /\ (arch = X32 => guest.arch = X32) => FindBlock(arch) = NoBlock
<1> USE FindableSays
<1>1. LowStub = NoBlock \/ (LowStub.arch = X64 /\ LowStub.dtb \in {Dtb, Wrong})
  BY DEF LowStub
<1>2. ASSUME arch = guest.arch
      PROVE  /\ FindBlock(arch) # NoBlock /\ FindBlock(arch).arch = guest.arch
             /\ arch # X64 => FindBlock(arch).dtb = Dtb
  <2>1. FirstTable(arch) = [arch |-> arch, hint |-> Null0, dtb |-> Dtb]
    BY <1>2, TableFound
  <2>2. FirstTable(arch) # NoBlock
    BY <2>1, BlockHasTable
  <2>3. CASE arch = X64
    BY <1>1, <1>2, <2>1, <2>2, <2>3, ArchsApart, BlockHasTable DEF FindBlock, FindX64
  <2>4. CASE arch = X32Pae
    BY <1>2, <2>1, <2>2, <2>4, ArchsApart DEF FindBlock, FindX86Pae
  <2>5. CASE arch = X32
    BY <1>2, <2>1, <2>2, <2>5, ArchsApart DEF FindBlock, FindX86
  <2>. QED  BY <2>3, <2>4, <2>5 DEF Archs
<1>3. ASSUME hints.arch = Nothing, arch # guest.arch, guest.arch # X64, arch = X32 => guest.arch = X32
      PROVE  FindBlock(arch) = NoBlock
  <2>1. guest.arch \in {X32Pae, X32} /\ arch \in {X64, X32Pae}
    BY <1>3 DEF Archs
  <2>2. CASE arch = X64
    <3>1. FirstTable(X64) = NoBlock
      BY <1>3, <2>1, <2>2, TableFound
    <3>2. LowStub = NoBlock
      BY <1>3 DEF LowStub
    <3>3. FindBlock(X64) = IF LowStub # NoBlock THEN LowStub ELSE FindX64
      BY ArchsApart DEF FindBlock
    <3>. QED  BY <2>2, <3>1, <3>2, <3>3 DEF FindX64
  <2>3. CASE arch = X32Pae
    <3>1. guest.arch = X32
      BY <1>3, <2>1, <2>3
    <3>2. FirstTable(X32Pae) = NoBlock
      BY <1>3, <2>3, <3>1, TableFound
    <3>. QED  BY <2>3, <3>2, ArchsApart DEF FindBlock, FindX86Pae
  <2>. QED  BY <2>1, <2>2, <2>3
<1>. QED  BY <1>2, <1>3

\* What a step leaves alone of guest and hints leaves Findable alone.
LEMMA FindableKept ==
  ASSUME UNCHANGED <<guest, hints>>
  PROVE  Findable' <=> Findable
BY DEF Findable, AllHints

\* The steps that read, with and without a fault.
LEMMA FaultCounts ==
  ASSUME faults \in Nat
  PROVE  /\ Fault => faults' \in Nat /\ faults' # 0
         /\ NoFault => faults' = faults
BY DEF Fault, NoFault


LEMMA ScanInitOK == BuildInit => ScanInv
BY DEF BuildInit, ScanInv, ScanType, ScanOn, Scanning

LEMMA ScanTypeStep ==
  ASSUME ScanType, [BuildNext]_buildVars
  PROVE  ScanType'
<1>1. CASE Boot
  <2>1. /\ guest' \in Guests /\ hints' \in Given /\ (guest'.arch # X64 => guest'.stub = "none")
        /\ scan' = "start" /\ scan = "boot" /\ UNCHANGED <<fallback, faults>>
    BY <1>1 DEF Boot
  <2>. QED  BY <2>1 DEF ScanType
<1>2. ASSUME UNCHANGED <<guest, hints, fallback>>, scan \in Scanning, faults' \in Nat,
             scan' # "boot", scan' \in {"start", "block"} => scan \in {"start", "block"}
      PROVE  ScanType'
  BY <1>2 DEF ScanType
<1>3. ASSUME scan' \notin Scanning \cup {"boot"}, faults' \in Nat
      PROVE  ScanType'
  BY <1>3 DEF ScanType, Scanning
<1>4. CASE StartScan
  BY <1>2, <1>4 DEF StartScan, Scanning, ScanType
<1>5. faults \in Nat /\ (Fault \/ NoFault => faults' \in Nat)
  BY FaultCounts DEF ScanType
<1>6. CASE TryArch
  BY <1>2, <1>5, <1>6 DEF TryArch, Scanning
<1>7. CASE NoArchLeft
  BY <1>2, <1>5, <1>7 DEF NoArchLeft, Scanning
<1>8. CASE Ntos
  BY <1>2, <1>5, <1>8 DEF Ntos, ScanFails, Scanning
<1>9. CASE Identify
  BY <1>2, <1>5, <1>9 DEF Identify, Scanning
<1>10. CASE Sysproc
  <2>1. UNCHANGED <<guest, hints, fallback>> /\ scan \in Scanning /\ faults' \in Nat
        /\ scan' \in {"offsets", "err", "fallback"}
    BY <1>5, <1>10 DEF Sysproc, ScanFails, Scanning
  <2>. QED  BY <1>2, <2>1
<1>11. CASE Fallback
  <2>1. UNCHANGED <<guest, hints>> /\ scan \in Scanning /\ faults' \in Nat /\ scan' \in {"ntos", "err"}
    BY <1>5, <1>11 DEF Fallback, Scanning
  <2>. QED  BY <2>1 DEF ScanType
<1>12. CASE Offsets
  BY <1>3, <1>5, <1>12 DEF Offsets, OffsetsFrom, Scanning
<1>13. CASE OffsetsAlone
  BY <1>3, <1>5, <1>13 DEF OffsetsAlone, OffsetsFrom, Scanning
<1>14. CASE NewKernel
  BY <1>3, <1>5, <1>14 DEF NewKernel, Scanning
<1>15. CASE UNCHANGED buildVars
  BY <1>15 DEF buildVars, ScanType
<1>. QED  BY <1>1, <1>4, <1>6, <1>7, <1>8, <1>9, <1>10, <1>11, <1>12, <1>13, <1>14, <1>15
          DEF BuildNext

\* The heads and the rests of the lists of architectures.
LEMMA RestsOK ==
  ASSUME NEW s \in Rests
  PROVE  /\ s # <<>> /\ Head(s) \in Archs
         /\ Head(s) = X64 => Tail(s) = <<X32Pae, X32>> /\ DOMAIN s = {1, 2, 3}
                             /\ s[1] = X64 /\ s[2] = X32Pae /\ s[3] = X32
         /\ Head(s) = X32Pae => Tail(s) = <<X32>> /\ DOMAIN s = {1, 2} /\ s[1] = X32Pae /\ s[2] = X32
         /\ Head(s) = X32 => Tail(s) = <<>> /\ DOMAIN s = {1} /\ s[1] = X32
<1>1. CASE s = <<X64, X32Pae, X32>>
  BY <1>1, ArchsApart DEF Archs
<1>2. CASE s = <<X32Pae, X32>>
  BY <1>2, ArchsApart DEF Archs
<1>3. CASE s = <<X32>>
  BY <1>3, ArchsApart DEF Archs
<1>. QED  BY <1>1, <1>2, <1>3 DEF Rests


LEMMA ScanOnStep ==
  ASSUME ScanType, ScanType', ScanOn, [BuildNext]_buildVars
  PROVE  ScanOn'
<1> SUFFICES ASSUME faults' = 0, scan' \in Scanning, Findable'
             PROVE  /\ scan' # "err"
                    /\ scan' = "block" =>
                         \/ archs' = <<guest'.arch>>
                         \/ /\ hints'.arch = Nothing /\ archs' \in Rests
                            /\ \E n \in DOMAIN archs' : archs'[n] = guest'.arch
                    /\ scan' \in {"ntos", "ident", "sysproc"} =>
                         /\ block'.arch = guest'.arch
                         /\ fallback' \/ block'.arch # X64 => block'.dtb = Dtb
                    /\ scan' = "fallback" => /\ block'.arch = guest'.arch /\ block'.arch = X64
                                             /\ ~fallback'
  BY DEF ScanOn
<1>0. faults \in Nat /\ (NoFault => faults = 0) /\ ~Fault
  BY FaultCounts DEF ScanType
<1>1. CASE Boot
  BY <1>1 DEF Boot
<1>2. ASSUME scan \in Scanning, UNCHANGED <<guest, hints>>, faults = 0
      PROVE  /\ Findable /\ guest' = guest /\ hints' = hints
             /\ scan # "err"
             /\ scan = "block" =>
                  \/ archs = <<guest.arch>>
                  \/ /\ hints.arch = Nothing /\ archs \in Rests
                     /\ \E n \in DOMAIN archs : archs[n] = guest.arch
             /\ scan \in {"ntos", "ident", "sysproc"} =>
                  /\ block.arch = guest.arch
                  /\ fallback \/ block.arch # X64 => block.dtb = Dtb
             /\ scan = "fallback" => block.arch = guest.arch /\ block.arch = X64 /\ ~fallback
  BY <1>2, FindableKept DEF ScanOn
<1>3. CASE StartScan
  <2>1. scan \in Scanning /\ UNCHANGED <<guest, hints, faults, fallback>> /\ faults = 0 /\ scan = "start"
    BY <1>3 DEF StartScan, Scanning
  <2>2. Findable
    BY <1>2, <2>1
  <2>3. /\ guest.arch \in Archs /\ hints.arch \in {guest.arch, Nothing}
        /\ AllHints /\ guest.arch # X64 => hints.dtb = Dtb
    BY <2>1, <2>2, FindableSays
  <2>4. fallback' = FALSE
    BY <2>1 DEF ScanType
  <2>5. CASE AllHints
    <3>1. block' = hints /\ scan' = "ntos" /\ hints.arch # Nothing
      BY <1>3, <2>5 DEF StartScan, AllHints
    <3>. QED  BY <2>1, <2>3, <2>4, <2>5, <3>1
  <2>6. CASE ~AllHints
    <3>1. /\ scan' = "block"
          /\ archs' = IF hints.arch = Nothing THEN <<X64, X32Pae, X32>> ELSE <<hints.arch>>
      BY <1>3, <2>6 DEF StartScan
    <3>2. CASE hints.arch # Nothing
      BY <2>1, <2>3, <3>1, <3>2
    <3>3. CASE hints.arch = Nothing
      <4>1. archs' = <<X64, X32Pae, X32>>
        BY <3>1, <3>3
      <4>2. \E n \in DOMAIN archs' : archs'[n] = guest.arch
        BY <2>3, <4>1 DEF Archs
      <4>. QED  BY <2>1, <3>1, <3>3, <4>1, <4>2 DEF Rests
    <3>. QED  BY <3>2, <3>3
  <2>. QED  BY <2>5, <2>6
<1>4. CASE TryArch
  <2>1. /\ scan = "block" /\ scan \in Scanning /\ UNCHANGED <<guest, hints, fallback>> /\ faults = 0
        /\ archs # <<>> /\ archs' = Tail(archs)
        /\ IF FindBlock(Head(archs)) # NoBlock
           THEN block' = WithHint(FindBlock(Head(archs))) /\ scan' = "ntos"
           ELSE UNCHANGED <<block, scan>>
    BY <1>0, <1>4 DEF TryArch, Scanning
  <2>2. /\ Findable
        /\ \/ archs = <<guest.arch>>
           \/ /\ hints.arch = Nothing /\ archs \in Rests
              /\ \E n \in DOMAIN archs : archs[n] = guest.arch
    BY <1>2, <2>1
  <2> DEFINE arch == Head(archs)
  <2>3. arch \in Archs
    <3>1. guest.arch \in Archs
      BY <2>1, <2>2, FindableSays
    <3>2. CASE archs = <<guest.arch>>
      BY <3>1, <3>2
    <3>3. CASE archs \in Rests
      BY <3>3, RestsOK
    <3>. QED  BY <2>2, <3>2, <3>3
  <2>4. fallback' = FALSE
    BY <2>1 DEF ScanType
  <2>5. CASE arch = guest.arch
    <3>1. /\ FindBlock(arch) # NoBlock /\ FindBlock(arch).arch = guest.arch
          /\ arch # X64 => FindBlock(arch).dtb = Dtb
      BY <2>1, <2>2, <2>3, <2>5, FindBlockOK
    <3>2. /\ WithHint(FindBlock(arch)).arch = FindBlock(arch).arch
          /\ WithHint(FindBlock(arch)).dtb = FindBlock(arch).dtb
      <4>1. \E d, h, a : FindBlock(arch) = [arch |-> a, hint |-> h, dtb |-> d]
        BY <2>3 DEF FindBlock, FindX64, FindX86, FindX86Pae, FirstTable, LowStub, NoBlock, Archs
      <4>. QED  BY <4>1 DEF WithHint
    <3>3. block' = WithHint(FindBlock(arch)) /\ scan' = "ntos"
      BY <2>1, <3>1
    <3>. QED  BY <2>1, <2>4, <2>5, <3>1, <3>2, <3>3
  <2>6. CASE arch # guest.arch
    <3>1. /\ hints.arch = Nothing /\ archs \in Rests
          /\ \E n \in DOMAIN archs : archs[n] = guest.arch
      BY <2>2, <2>6
    <3>2. guest.arch # X64 /\ arch # X32
      BY <2>6, <3>1, RestsOK, ArchsApart DEF Rests
    <3>3. FindBlock(arch) = NoBlock
      BY <2>1, <2>2, <2>3, <2>6, <3>1, <3>2, FindBlockOK
    <3>4. scan' = "block"
      BY <2>1, <3>3
    <3>5. archs' \in Rests /\ \E n \in DOMAIN archs' : archs'[n] = guest.arch
      <4>1. CASE arch = X64
        <5>1. archs' = <<X32Pae, X32>> /\ guest.arch \in {X32Pae, X32}
          BY <2>1, <3>1, <3>2, <4>1, RestsOK
        <5>. QED  BY <5>1 DEF Rests
      <4>2. CASE arch = X32Pae
        <5>1. archs' = <<X32>> /\ guest.arch = X32
          BY <2>1, <2>6, <3>1, <3>2, <4>2, RestsOK
        <5>. QED  BY <5>1 DEF Rests
      <4>. QED  BY <2>3, <3>2, <4>1, <4>2 DEF Archs
    <3>. QED  BY <2>1, <3>1, <3>4, <3>5
  <2>. QED  BY <2>5, <2>6
<1>5. CASE NoArchLeft
  <2>1. scan = "block" /\ scan \in Scanning /\ UNCHANGED <<guest, hints, faults>> /\ archs = <<>>
    BY <1>5 DEF NoArchLeft, Scanning
  <2>2. archs = <<guest.arch>> \/ archs \in Rests
    BY <1>2, <2>1
  <2>. QED  BY <2>1, <2>2, RestsOK
<1>6. CASE Ntos
  <2>1. /\ scan = "ntos" /\ scan \in Scanning /\ UNCHANGED <<guest, hints, fallback, block>> /\ faults = 0
        /\ (NtosFound /\ scan' = "ident") \/ (~NtosFound /\ ScanFails)
    BY <1>0, <1>6 DEF Ntos, Scanning
  <2>2. /\ Findable /\ block.arch = guest.arch
        /\ fallback \/ block.arch # X64 => block.dtb = Dtb
    BY <1>2, <2>1
  <2>3. guest.reach
    BY <2>1, <2>2, FindableSays
  <2>4. block.dtb = Dtb => NtosFound
    BY <2>2, <2>3 DEF NtosFound, FindInPageMap, FindX86Image, Visible
  <2>5. CASE NtosFound
    BY <2>1, <2>2, <2>5
  <2>6. CASE ~NtosFound
    <3>1. ~fallback /\ block.arch = X64
      BY <2>2, <2>4, <2>6
    <3>2. scan' = "fallback"
      BY <2>1, <2>6, <3>1 DEF ScanFails
    <3>. QED  BY <2>1, <2>2, <3>1, <3>2
  <2>. QED  BY <2>5, <2>6
<1>7. CASE Identify
  <2>1. /\ scan = "ident" /\ scan \in Scanning /\ UNCHANGED <<guest, hints, fallback, block>> /\ faults = 0
        /\ scan' = "sysproc"
    BY <1>0, <1>7 DEF Identify, Scanning
  <2>2. block.arch = guest.arch /\ (fallback \/ block.arch # X64 => block.dtb = Dtb)
    BY <1>2, <2>1
  <2>. QED  BY <2>1, <2>2
<1>8. CASE Sysproc
  <2>1. /\ scan = "sysproc" /\ scan \in Scanning /\ UNCHANGED <<guest, hints>> /\ faults = 0
        /\ (guest.export /\ scan' = "offsets") \/ ~guest.export
    BY <1>0, <1>8 DEF Sysproc, Scanning
  <2>2. Findable
    BY <1>2, <2>1
  <2>3. guest.export
    BY <2>1, <2>2, FindableSays
  <2>. QED  BY <2>1, <2>3
<1>9. CASE Fallback
  <2>1. /\ scan = "fallback" /\ scan \in Scanning /\ UNCHANGED <<guest, hints>> /\ faults = 0
        /\ IF block.arch = X64 /\ FindX64 # NoBlock
           THEN block' = FindX64 /\ scan' = "ntos"
           ELSE scan' = "err" /\ UNCHANGED block
    BY <1>0, <1>9 DEF Fallback, Scanning
  <2>2. Findable /\ block.arch = guest.arch /\ block.arch = X64
    BY <1>2, <2>1
  <2>3. guest.table /\ guest.arch \notin guest.decoys
    BY <2>1, <2>2, FindableSays
  <2>4. FindX64 = [arch |-> X64, hint |-> Null0, dtb |-> Dtb]
    BY <2>2, <2>3, TableFound DEF FindX64
  <2>5. FindX64 # NoBlock
    BY <2>4, BlockHasTable
  <2>. QED  BY <2>1, <2>2, <2>4, <2>5
<1>10. CASE Offsets \/ OffsetsAlone \/ NewKernel
  BY <1>10 DEF Offsets, OffsetsAlone, OffsetsFrom, NewKernel, Scanning
<1>11. CASE UNCHANGED buildVars
  BY <1>2, <1>11 DEF buildVars
<1>. QED  BY <1>1, <1>3, <1>4, <1>5, <1>6, <1>7, <1>8, <1>9, <1>10, <1>11 DEF BuildNext

\* Kernel::scanner().scan(): without a failed read the scan of a guest whose
\* kernel can be found does not end in an error, through stale stubs, hints
\* that lead nowhere, decoys of other architectures and the fallback.
THEOREM KernelScanFinds == BuildSpec => []ScanFinds
<1>1. ScanInv => ScanFinds
  BY DEF ScanInv, ScanOn, ScanFinds, Scanning
<1>2. ScanInv /\ [BuildNext]_buildVars => ScanInv'
  BY ScanTypeStep, ScanOnStep DEF ScanInv
<1>. QED  BY <1>1, <1>2, ScanInitOK, PTL DEF BuildSpec


-----------------------------------------------------------------------------
(* The choice of the offsets                                               *)

\* Every non-empty set of natural numbers has a least element.  It stands in
\* for induction: of the places where a claim fails there is a first one.
LEMMA LeastPlace == \A T \in SUBSET Nat : T # {} => \E m \in T : \A n \in T : m <= n
<1> DEFINE R == OpToRel(<, Nat)
<1>1. IsWellFoundedOn(R, Nat)
  BY NatLessThanWellFounded
<1>2. \A x, y \in Nat : <<x, y>> \in R <=> x < y
  BY DEF OpToRel
<1> HIDE DEF R
<1> SUFFICES ASSUME NEW T \in SUBSET Nat, T # {}
             PROVE  \E m \in T : \A n \in T : m <= n
  OBVIOUS
<1>3. PICK m \in T : \A y \in T : ~(<<y, m>> \in R)
  BY <1>1, WFMin
<1>4. m \in Nat /\ \A n \in T : n \in Nat /\ ~(n < m)
  BY <1>2, <1>3
<1>. QED  BY <1>3, <1>4

\* closest_match after each of the first k places.
Matches(fs, winver, arch, k, b) ==
  b = [n \in 0 .. k |->
         IF n = 0 THEN Nothing
         ELSE IF Closer(fs[n], winver, arch, b[n - 1]) THEN fs[n] ELSE b[n - 1]]

LEMMA MatchesExist ==
  ASSUME NEW fs, NEW winver, NEW arch, NEW K \in Nat
  PROVE  \E b : Matches(fs, winver, arch, K, b)
<1> DEFINE T == {k \in Nat : ~ \E b : Matches(fs, winver, arch, k, b)}
<1> SUFFICES T = {}
  OBVIOUS
<1>1. 0 \notin T
  <2> DEFINE b0 == [n \in 0 .. 0 |-> Nothing]
  <2>1. Matches(fs, winver, arch, 0, b0)
    <3>1. \A n \in 0 .. 0 : n = 0
      OBVIOUS
    <3>. QED  BY <3>1 DEF Matches
  <2>. QED  BY <2>1
<1>2. ASSUME NEW m \in Nat, m # 0, m - 1 \notin T
      PROVE  m \notin T
  <2>1. m - 1 \in Nat
    BY <1>2
  <2>2. PICK b : Matches(fs, winver, arch, m - 1, b)
    BY <1>2, <2>1
  <2> DEFINE top == IF Closer(fs[m], winver, arch, b[m - 1]) THEN fs[m] ELSE b[m - 1]
             c == [n \in 0 .. m |-> IF n = m THEN top ELSE b[n]]
  <2>3. \A n \in 0 .. m - 1 :
          /\ n \in 0 .. m /\ c[n] = b[n]
          /\ b[n] = IF n = 0 THEN Nothing
                    ELSE IF Closer(fs[n], winver, arch, b[n - 1]) THEN fs[n] ELSE b[n - 1]
    <3> HIDE DEF top
    <3>1. \A n \in 0 .. m - 1 : n \in 0 .. m /\ n # m
      OBVIOUS
    <3>2. \A n \in 0 .. m - 1 : c[n] = b[n]
      BY <3>1
    <3> HIDE DEF c
    <3>3. \A n \in 0 .. m - 1 :
            b[n] = IF n = 0 THEN Nothing
                   ELSE IF Closer(fs[n], winver, arch, b[n - 1]) THEN fs[n] ELSE b[n - 1]
      BY <2>2 DEF Matches
    <3>. QED  BY <3>1, <3>2, <3>3
  <2>4. c[m] = top
    OBVIOUS
  <2>5. c = [n \in 0 .. m |-> c[n]]
    OBVIOUS
  <2>6. ASSUME NEW n \in 0 .. m
        PROVE  c[n] = IF n = 0 THEN Nothing
                      ELSE IF Closer(fs[n], winver, arch, c[n - 1]) THEN fs[n] ELSE c[n - 1]
    <3> HIDE DEF c
    <3>1. CASE n = m
      <4>1. c[m - 1] = b[m - 1]
        BY <1>2, <2>3
      <4>. QED  BY <1>2, <2>4, <3>1, <4>1
    <3>2. CASE n # m
      <4>1. n \in 0 .. m - 1 /\ (n # 0 => n - 1 \in 0 .. m - 1)
        BY <3>2
      <4>2. /\ c[n] = b[n] /\ (n # 0 => c[n - 1] = b[n - 1])
            /\ b[n] = IF n = 0 THEN Nothing
                      ELSE IF Closer(fs[n], winver, arch, b[n - 1]) THEN fs[n] ELSE b[n - 1]
        BY <2>3, <4>1
      <4>. QED  BY <4>2
    <3>. QED  BY <3>1, <3>2
  <2> HIDE DEF c
  <2>7. Matches(fs, winver, arch, m, c)
    BY <2>5, <2>6 DEF Matches
  <2>. QED  BY <2>7
<1> HIDE DEF T
<1>3. T \in SUBSET Nat
  BY DEF T
<1> SUFFICES ASSUME T # {}
             PROVE  FALSE
  OBVIOUS
<1>4. PICK m \in T : \A n \in T : m <= n
  BY <1>3, LeastPlace
<1>5. m \in Nat /\ m # 0
  BY <1>1, <1>3, <1>4
<1>6. m - 1 \notin T
  BY <1>4, <1>5
<1>. QED  BY <1>2, <1>4, <1>5, <1>6

LEMMA ClosestMatchesOK ==
  ASSUME NEW fs, Len(fs) \in Nat, NEW winver, NEW arch
  PROVE  Matches(fs, winver, arch, Len(fs), ClosestMatches(fs, winver, arch))
<1>1. ClosestMatches(fs, winver, arch) = CHOOSE b : Matches(fs, winver, arch, Len(fs), b)
  BY DEF ClosestMatches, Matches
<1>2. \E b : Matches(fs, winver, arch, Len(fs), b)
  BY MatchesExist
<1>. QED  BY <1>1, <1>2


\* The files among the first k that are of the kernel's version and
\* architecture and not newer, and what the best of them is.
Fits(f, winver, arch) ==
  f.version.major = winver.major /\ f.version.build <= winver.build /\ f.arch = arch
Fitting(fs, winver, arch, k) == {n \in 1 .. k : Fits(fs[n], winver, arch)}
Best(fs, winver, arch, k, f) ==
  IF Fitting(fs, winver, arch, k) = {} THEN f = Nothing
  ELSE \E n \in Fitting(fs, winver, arch, k) :
         /\ f = fs[n]
         /\ \A j \in Fitting(fs, winver, arch, k) : fs[j].version.build <= fs[n].version.build

LEMMA ListedFile ==
  ASSUME NEW f \in ListedFiles
  PROVE  f.version.build \in Nat /\ f # Nothing
BY BuildAssumption DEF ListedFiles, OffsetFiles, Versions

\* One place further on, the best is still the best.
LEMMA BestStep ==
  ASSUME NEW fs \in Seq(ListedFiles), NEW winver, NEW arch, winver.build \in Nat,
         NEW k \in 1 .. Len(fs), NEW f, NEW g, Best(fs, winver, arch, k - 1, f),
         g = IF Closer(fs[k], winver, arch, f) THEN fs[k] ELSE f
  PROVE  Best(fs, winver, arch, k, g)
<1> DEFINE Old == Fitting(fs, winver, arch, k - 1)
           New == Fitting(fs, winver, arch, k)
<1>1. Len(fs) \in Nat /\ \A n \in 1 .. Len(fs) : fs[n] \in ListedFiles
  BY LenProperties, ElementOfSeq
<1>2. \A n \in 1 .. Len(fs) : fs[n].version.build \in Nat /\ fs[n] # Nothing
  BY <1>1, ListedFile
<1>3. /\ Old \subseteq 1 .. k - 1 /\ Old \subseteq New
      /\ \A n \in New : n \in Old \/ n = k
      /\ k \in New <=> Fits(fs[k], winver, arch)
      /\ New \subseteq 1 .. Len(fs)
  <2>1. \A n \in 1 .. k : n \in 1 .. k - 1 \/ n = k
    BY <1>1
  <2>2. \A n \in 1 .. k - 1 : n \in 1 .. k
    BY <1>1
  <2>3. k \in 1 .. k /\ 1 .. k \subseteq 1 .. Len(fs)
    BY <1>1
  <2>. QED  BY <2>1, <2>2, <2>3 DEF Fitting
<1>4. /\ Old = {} => f = Nothing
      /\ Old # {} => \E n \in Old : f = fs[n] /\ \A j \in Old : fs[j].version.build <= fs[n].version.build
  BY DEF Best
<1>5. SUFFICES IF New = {} THEN g = Nothing
               ELSE \E n \in New : g = fs[n] /\ \A j \in New : fs[j].version.build <= fs[n].version.build
  BY DEF Best
<1>6. Closer(fs[k], winver, arch, f) <=>
        Fits(fs[k], winver, arch) /\ (IF f = Nothing THEN 0 ELSE f.version.build) <= fs[k].version.build
  BY DEF Closer, Fits
<1> HIDE DEF Old, New
<1>7. CASE ~Fits(fs[k], winver, arch)
  <2>1. Old = New /\ g = f
    BY <1>3, <1>6, <1>7
  <2>. QED  BY <1>4, <2>1
<1>8. CASE Fits(fs[k], winver, arch) /\ Old = {}
  <2>1. f = Nothing /\ k \in New /\ \A n \in New : n = k
    BY <1>3, <1>4, <1>8
  <2>2. fs[k].version.build \in Nat
    BY <1>2
  <2>3. g = fs[k]
    BY <1>6, <1>8, <2>1, <2>2
  <2>4. fs[k].version.build <= fs[k].version.build
    BY <2>2
  <2>. QED  BY <2>1, <2>3, <2>4
<1>9. CASE Fits(fs[k], winver, arch) /\ Old # {}
  <2>1. PICK n \in Old : f = fs[n] /\ \A j \in Old : fs[j].version.build <= fs[n].version.build
    BY <1>4, <1>9
  <2>2. n \in New /\ k \in New /\ n \in 1 .. Len(fs) /\ f # Nothing
    BY <1>2, <1>3, <1>9, <2>1
  <2>3. fs[n].version.build \in Nat /\ fs[k].version.build \in Nat
    BY <1>2, <2>2
  <2>4. \A j \in Old : fs[j].version.build \in Nat
    BY <1>2, <1>3
  <2>5. CASE fs[n].version.build <= fs[k].version.build
    <3>1. g = fs[k]
      BY <1>6, <1>9, <2>1, <2>2, <2>5
    <3>2. \A j \in New : fs[j].version.build <= fs[k].version.build
      BY <1>3, <2>1, <2>3, <2>4, <2>5
    <3>. QED  BY <2>2, <3>1, <3>2
  <2>6. CASE ~(fs[n].version.build <= fs[k].version.build)
    <3>1. g = fs[n]
      BY <1>6, <1>9, <2>1, <2>2, <2>6
    <3>2. \A j \in New : fs[j].version.build <= fs[n].version.build
      BY <1>3, <2>1, <2>3, <2>4, <2>6
    <3>. QED  BY <2>2, <3>1, <3>2
  <2>. QED  BY <2>5, <2>6
<1>. QED  BY <1>7, <1>8, <1>9

LEMMA ClosestMatchBest ==
  ASSUME NEW fs \in Seq(ListedFiles), NEW winver, NEW arch, winver.build \in Nat
  PROVE  Best(fs, winver, arch, Len(fs), ClosestMatch(fs, winver, arch))
<1> DEFINE b == ClosestMatches(fs, winver, arch)
           T == {k \in 0 .. Len(fs) : ~Best(fs, winver, arch, k, b[k])}
<1>1. Len(fs) \in Nat
  BY LenProperties
<1>2. \A n \in 0 .. Len(fs) :
        b[n] = IF n = 0 THEN Nothing
               ELSE IF Closer(fs[n], winver, arch, b[n - 1]) THEN fs[n] ELSE b[n - 1]
  <2>1. Matches(fs, winver, arch, Len(fs), b)
    BY <1>1, ClosestMatchesOK
  <2> HIDE DEF b
  <2>. QED  BY <2>1 DEF Matches
<1> HIDE DEF b
<1>3. 0 \notin T
  <2>1. b[0] = Nothing
    BY <1>1, <1>2
  <2>2. 1 .. 0 = {} /\ Fitting(fs, winver, arch, 0) = {}
    BY DEF Fitting
  <2>. QED  BY <2>1, <2>2 DEF Best
<1>4. ASSUME NEW k \in T, k - 1 \notin T
      PROVE  FALSE
  <2>1. k \in 1 .. Len(fs) /\ k - 1 \in 0 .. Len(fs) /\ k \in 0 .. Len(fs) /\ k # 0
    BY <1>1, <1>3, <1>4
  <2>2. Best(fs, winver, arch, k - 1, b[k - 1])
    BY <1>4, <2>1
  <2>3. b[k] = IF Closer(fs[k], winver, arch, b[k - 1]) THEN fs[k] ELSE b[k - 1]
    BY <1>2, <2>1
  <2>4. Best(fs, winver, arch, k, b[k])
    BY <2>1, <2>2, <2>3, BestStep
  <2>. QED  BY <2>4
<1>5. T = {}
  <2> SUFFICES ASSUME T # {}
               PROVE  FALSE
    OBVIOUS
  <2>1. T \in SUBSET Nat
    BY <1>1
  <2> HIDE DEF T
  <2>2. PICK m \in T : \A n \in T : m <= n
    BY <2>1, LeastPlace
  <2>3. m - 1 \notin T
    BY <2>1, <2>2
  <2>. QED  BY <1>4, <2>3
<1>6. Best(fs, winver, arch, Len(fs), b[Len(fs)])
  BY <1>1, <1>5
<1>. QED  BY <1>6 DEF ClosestMatch, b


\* build_with_offset_list returns the right file, or none if there is none.
LEMMA ListRight ==
  ASSUME NEW fs \in Seq(ListedFiles), NEW guid, NEW winver, NEW arch,
         winver # Nothing => winver.build \in Nat,
         NEW f, f = BuildWithOffsetList(fs, guid, winver, arch), winver # Nothing \/ f # Nothing
  PROVE  RightFile(fs, guid, winver, arch, f) /\ f \in ListedFiles \cup {Nothing}
<1>1. Len(fs) \in Nat /\ DOMAIN fs = 1 .. Len(fs) /\ \A n \in 1 .. Len(fs) : fs[n] \in ListedFiles
  BY LenProperties, ElementOfSeq
<1>2. \A x : x \in ToSet(fs) <=> \E n \in DOMAIN fs : x = fs[n]
  BY DEF ToSet
<1>3. CASE ExactGuid(fs, guid) # {}
  <2> DEFINE S == ExactGuid(fs, guid)
             m == Min(S)
  <2>1. S \in SUBSET Nat /\ S # {}
    BY <1>1, <1>3 DEF ExactGuid
  <2>2. m \in S
    <3> HIDE DEF S
    <3>1. \E x \in S : \A y \in S : x <= y
      BY <2>1, LeastPlace
    <3>. QED  BY <3>1 DEF Min
  <2>3. m \in DOMAIN fs /\ guid # Nothing /\ fs[m].guid = guid
    <3> HIDE DEF m
    <3>. QED  BY <2>2 DEF ExactGuid
  <2>4. f = fs[m]
    BY <1>3 DEF BuildWithOffsetList
  <2> HIDE DEF m, S
  <2>5. f \in ToSet(fs) /\ f.guid = guid /\ f \in ListedFiles
    BY <1>1, <1>2, <2>3, <2>4
  <2>. QED  BY <2>3, <2>5 DEF RightFile
<1>4. CASE ExactGuid(fs, guid) = {}
  <2>1. winver # Nothing /\ f = ClosestMatch(fs, winver, arch)
    BY <1>4 DEF BuildWithOffsetList
  <2>2. Best(fs, winver, arch, Len(fs), f)
    BY <2>1, ClosestMatchBest
  <2>3. ~(guid # Nothing /\ \E x \in ToSet(fs) : x.guid = guid)
    BY <1>2, <1>4 DEF ExactGuid
  <2> DEFINE older == {x \in ToSet(fs) : /\ x.version.major = winver.major
                                         /\ x.version.build <= winver.build
                                         /\ x.arch = arch}
  <2>4. \A n \in Fitting(fs, winver, arch, Len(fs)) : fs[n] \in older /\ n \in 1 .. Len(fs)
    BY <1>1, <1>2 DEF Fitting, Fits
  <2>5. \A x \in older : \E n \in Fitting(fs, winver, arch, Len(fs)) : x = fs[n]
    BY <1>1, <1>2 DEF Fitting, Fits
  <2>6. RightFile(fs, guid, winver, arch, f) <=>
          IF older = {} THEN f = Nothing
          ELSE f \in older /\ \A x \in older : x.version.build <= f.version.build
    BY <2>3 DEF RightFile
  <2> HIDE DEF older
  <2>7. CASE older = {}
    <3>1. Fitting(fs, winver, arch, Len(fs)) = {}
      BY <2>4, <2>7
    <3>. QED  BY <2>2, <2>6, <2>7, <3>1 DEF Best
  <2>8. CASE older # {}
    <3>1. Fitting(fs, winver, arch, Len(fs)) # {}
      BY <2>5, <2>8
    <3>2. PICK n \in Fitting(fs, winver, arch, Len(fs)) :
            /\ f = fs[n]
            /\ \A j \in Fitting(fs, winver, arch, Len(fs)) : fs[j].version.build <= fs[n].version.build
      BY <2>2, <3>1 DEF Best
    <3>3. f \in older /\ f \in ListedFiles
      BY <1>1, <2>4, <3>2
    <3>4. \A x \in older : x.version.build <= f.version.build
      BY <2>5, <3>2
    <3>. QED  BY <2>6, <2>8, <3>3, <3>4
  <2>. QED  BY <2>7, <2>8
<1>. QED  BY <1>3, <1>4

\* A KernelInfo has its fields, and a version found in an image has a build.
InfoOK ==
  /\ \E b, g, w, e, o, d : info = [base |-> b, guid |-> g, winver |-> w, eprocess |-> e,
                                   offsets |-> o, dtb |-> d]
  /\ info.winver # Nothing => info.winver.build \in Nat

OffsetsInv == InfoOK /\ OffsetsRight

\* OffsetsFrom: the builder, for any list, GUID and version.
LEMMA OffsetsFromOK ==
  ASSUME InfoOK, NEW guid, NEW winver, NEW arch, NEW fs \in Seq(ListedFiles), NEW hasPdb, NEW next,
         winver # Nothing => winver.build \in Nat, next \in {"kernel", "alone"},
         OffsetsFrom(guid, winver, arch, fs, hasPdb, next), OffsetsArch(block'.arch) = arch
  PROVE  OffsetsInv'
<1> DEFINE o == BuildOffsets(hasPdb, fs, guid, winver, arch)
           f == BuildWithOffsetList(fs, guid, winver, arch)
<1>1. /\ files' = fs /\ info' = [info EXCEPT !.guid = guid, !.winver = winver, !.offsets = o]
      /\ scan' = IF o = Nothing THEN "no_offsets" ELSE next
  BY DEF OffsetsFrom
<1>2. \/ o = Nothing /\ guid = Nothing /\ winver = Nothing
      \/ o = [from |-> "pdb", file |-> Nothing]
      \/ o = IF f = Nothing THEN Nothing ELSE [from |-> "list", file |-> f]
  BY DEF BuildOffsets
<1>3. winver # Nothing \/ f # Nothing =>
        RightFile(fs, guid, winver, arch, f) /\ f \in ListedFiles \cup {Nothing}
  <2>1. f = BuildWithOffsetList(fs, guid, winver, arch)
    OBVIOUS
  <2> HIDE DEF f
  <2>. QED  BY <2>1, ListRight
<1> HIDE DEF o, f
<1>4. /\ info'.guid = guid /\ info'.winver = winver /\ info'.offsets = o
      /\ \E b, g, w, e, p, d : info' = [base |-> b, guid |-> g, winver |-> w, eprocess |-> e,
                                        offsets |-> p, dtb |-> d]
  BY <1>1 DEF InfoOK
<1>5. InfoOK'
  BY <1>4 DEF InfoOK
<1>6. ASSUME scan' # "no_offsets", o.from = "list"
      PROVE  RightFile(fs, guid, winver, arch, o.file)
  <2>1. o # Nothing
    BY <1>1, <1>6
  <2>2. o # [from |-> "pdb", file |-> Nothing]
    BY <1>6
  <2>3. f # Nothing /\ o = [from |-> "list", file |-> f]
    BY <1>2, <2>1, <2>2
  <2>. QED  BY <1>3, <2>3
<1>7. ASSUME scan' = "no_offsets", winver # Nothing
      PROVE  RightFile(fs, guid, winver, arch, Nothing)
  <2>1. o = Nothing
    BY <1>1, <1>7
  <2>2. o # [from |-> "pdb", file |-> Nothing]
    BY <2>1, BuildAssumption
  <2>3. f = Nothing
    <3> SUFFICES ASSUME f # Nothing
                 PROVE  FALSE
      OBVIOUS
    <3>1. o = [from |-> "list", file |-> f] /\ f \in ListedFiles
      BY <1>2, <1>3, <1>7, <2>2
    <3>. QED  BY <2>1, <3>1, BuildAssumption
  <2>. QED  BY <1>3, <1>7, <2>3
<1>8. OffsetsRight'
  BY <1>1, <1>4, <1>6, <1>7 DEF OffsetsRight
<1>. QED  BY <1>5, <1>8 DEF OffsetsInv

LEMMA OffsetsStep ==
  ASSUME OffsetsInv, [BuildNext]_buildVars
  PROVE  OffsetsInv'
<1>0. InfoOK /\ OffsetsRight
  BY DEF OffsetsInv
<1>1. ASSUME InfoOK', scan' \notin {"alone", "kernel", "ok", "no_offsets"}
      PROVE  OffsetsInv'
  BY <1>1 DEF OffsetsInv, OffsetsRight
<1>2. ASSUME UNCHANGED info
      PROVE  InfoOK'
  BY <1>0, <1>2 DEF InfoOK
<1>3. CASE Boot \/ StartScan \/ TryArch \/ NoArchLeft
  <2>1. UNCHANGED info /\ scan' \notin {"alone", "kernel", "ok", "no_offsets"}
    BY <1>3 DEF Boot, StartScan, TryArch, NoArchLeft
  <2>. QED  BY <1>1, <1>2, <2>1
<1>4. CASE Ntos
  <2>1. /\ info' = [info EXCEPT !.base = guest.arch] \/ UNCHANGED info
        /\ scan' \in {"ident", "err", "fallback"}
    BY <1>4 DEF Ntos, ScanFails
  <2>2. InfoOK'
    BY <1>0, <2>1 DEF InfoOK
  <2>. QED  BY <1>1, <2>1, <2>2
<1>5. CASE Identify
  <2>1. PICK guid \in Guids \cup {Nothing},
             winver \in Versions(Builds) \cup [major : {0}, build : Builds] \cup {Nothing} :
          info' = [info EXCEPT !.guid = guid, !.winver = winver]
    BY <1>5 DEF Identify
  <2>2. winver # Nothing => winver.build \in Nat
    <3>1. Builds \subseteq Nat
      BY BuildAssumption
    <3>2. winver \in [major : {6, 10}, build : Builds] \cup [major : {0}, build : Builds] \cup {Nothing}
      BY DEF Versions
    <3>. QED  BY <3>1, <3>2
  <2>3. /\ info'.winver = winver
        /\ \E b, g, w, e, o, d : info' = [base |-> b, guid |-> g, winver |-> w, eprocess |-> e,
                                          offsets |-> o, dtb |-> d]
    <3>1. PICK b, g, w, e, o, d : info = [base |-> b, guid |-> g, winver |-> w, eprocess |-> e,
                                          offsets |-> o, dtb |-> d]
      BY <1>0 DEF InfoOK
    <3>2. info' = [base |-> b, guid |-> guid, winver |-> winver, eprocess |-> e,
                   offsets |-> o, dtb |-> d]
      BY <2>1, <3>1
    <3>. QED  BY <3>2
  <2>5. InfoOK'
    BY <2>2, <2>3 DEF InfoOK
  <2>4. scan' = "sysproc"
    BY <1>5 DEF Identify
  <2>. QED  BY <1>1, <2>4, <2>5
<1>6. CASE Sysproc
  <2>1. /\ info' = [info EXCEPT !.eprocess = guest.arch] \/ UNCHANGED info
        /\ scan' \in {"offsets", "err", "fallback"}
    BY <1>6 DEF Sysproc, ScanFails
  <2>2. InfoOK'
    BY <1>0, <2>1 DEF InfoOK
  <2>. QED  BY <1>1, <2>1, <2>2
<1>7. CASE Fallback
  <2>1. info' = NoInfo /\ scan' \in {"ntos", "err"}
    BY <1>7 DEF Fallback
  <2>2. InfoOK'
    BY <2>1 DEF InfoOK, NoInfo
  <2>. QED  BY <1>1, <2>1, <2>2
<1>8. CASE Offsets
  <2>1. PICK hasPdb \in BOOLEAN :
          OffsetsFrom(info.guid, Winver, OffsetsArch(block.arch), BuiltIn, hasPdb, "kernel")
    BY <1>8 DEF Offsets
  <2> DEFINE guid == info.guid
             winver == Winver
             arch == OffsetsArch(block.arch)
             next == "kernel"
  <2>2. winver.build \in Nat
    BY <1>0 DEF InfoOK, Winver
  <2>3. OffsetsArch(block'.arch) = arch
    BY <1>8 DEF Offsets
  <2>4. BuiltIn \in Seq(ListedFiles)
    BY BuildAssumption
  <2>5. OffsetsFrom(guid, winver, arch, BuiltIn, hasPdb, next) /\ next \in {"kernel", "alone"}
    BY <2>1
  <2> HIDE DEF guid, winver, arch, next
  <2>. QED  BY <1>0, <2>2, <2>3, <2>4, <2>5, OffsetsFromOK
<1>9. CASE OffsetsAlone
  <2>1. PICK guid \in Guids \cup {Nothing}, winver \in Versions(Builds) \cup {Nothing},
             arch \in {X64, X32}, fs \in OffsetLists, hasPdb \in BOOLEAN :
          /\ OffsetsFrom(guid, winver, OffsetsArch(arch), fs, hasPdb, "alone")
          /\ block' = [NoBlock EXCEPT !.arch = arch]
    BY <1>9 DEF OffsetsAlone
  <2> DEFINE oarch == OffsetsArch(arch)
             next == "alone"
  <2>2. winver # Nothing => winver.build \in Nat
    BY <2>1, BuildAssumption DEF Versions
  <2>3. OffsetsArch(block'.arch) = oarch
    BY <2>1 DEF NoBlock
  <2>4. fs \in Seq(ListedFiles)
    <3>1. PICK n \in 0 .. MaxFiles : fs \in [1 .. n -> ListedFiles]
      BY <2>1 DEF OffsetLists
    <3>2. n \in Nat
      BY BuildAssumption
    <3>. QED  BY <3>1, <3>2
  <2>5. OffsetsFrom(guid, winver, oarch, fs, hasPdb, next) /\ next \in {"kernel", "alone"}
    BY <2>1
  <2> HIDE DEF oarch, next
  <2>. QED  BY <1>0, <2>2, <2>3, <2>4, <2>5, OffsetsFromOK
<1>10. CASE NewKernel
  <2>1. PICK d : info' = [info EXCEPT !.dtb = d]
    BY <1>10 DEF NewKernel
  <2>2. scan = "kernel" /\ scan' = "ok" /\ UNCHANGED <<files, block>>
    BY <1>10 DEF NewKernel
  <2>3. /\ info'.guid = info.guid /\ info'.winver = info.winver /\ info'.offsets = info.offsets
        /\ InfoOK'
    BY <1>0, <2>1 DEF InfoOK
  <2>4. OffsetsRight'
    BY <1>0, <2>2, <2>3 DEF OffsetsRight
  <2>. QED  BY <2>3, <2>4 DEF OffsetsInv
<1>11. CASE UNCHANGED buildVars
  BY <1>11 DEF buildVars, OffsetsInv, InfoOK, OffsetsRight
<1>. QED  BY <1>3, <1>4, <1>5, <1>6, <1>7, <1>8, <1>9, <1>10, <1>11 DEF BuildNext

\* Win32OffsetBuilder::build, for offset lists of any length and order: the
\* file taken has the kernel's GUID, or else is of its version and
\* architecture with the newest build that is not newer; and nothing is found
\* only where the list has no such file.
THEOREM KernelOffsetsRight == BuildSpec => []OffsetsRight
<1>1. BuildInit => OffsetsInv
  <2> SUFFICES ASSUME BuildInit
               PROVE  OffsetsInv
    OBVIOUS
  <2>1. InfoOK
    BY DEF BuildInit, InfoOK, NoInfo
  <2>2. OffsetsRight
    BY DEF BuildInit, OffsetsRight
  <2>. QED  BY <2>1, <2>2 DEF OffsetsInv
<1>2. OffsetsInv /\ [BuildNext]_buildVars => OffsetsInv'
  BY OffsetsStep
<1>3. OffsetsInv => OffsetsRight
  BY DEF OffsetsInv
<1>. QED  BY <1>1, <1>2, <1>3, PTL DEF BuildSpec

-----------------------------------------------------------------------------
(* The heap of the C interface                                             *)

Kinds == {"none", "inventory", "connector", "phys", "kernel", "process", "virt", "info", "osinfo",
          "arch", "module", "osmodule"}
BoxType == [kind : Kinds, of : Nat, lib : Libs \cup {NoLib}, libs : Seq(Libs)]

\* The arcs of a library in a box: the places in its list, and 0 for its own.
ArcsIn(box, l) ==
  {n \in Nat : (n \in DOMAIN box.libs /\ box.libs[n] = l) \/ (n = 0 /\ box.lib = l)}

\* All of them, on a heap.
ArcsOn(h, l) == {a \in Slots \X Nat : a[2] \in ArcsIn(h[a[1]], l)}

\* Those outside one box.
ArcsElsewhere(h, l, p) == {a \in ArcsOn(h, l) : a[1] # p}

Empty(box) == box.lib = NoLib /\ box.libs = <<>>

\* Free places and the boxes nobody can give back hold no arc.
HeapInv ==
  /\ heap \in [Slots -> BoxType]
  /\ \A i \in Slots : heap[i].kind = "none" => Empty(heap[i])
  /\ lost \subseteq Slots
  /\ \A i \in lost : heap[i].kind # "none" /\ Empty(heap[i])

\* refs counts the arcs there are.
RefsInv ==
  /\ refs \in [Libs -> Nat]
  /\ \A l \in Libs : IsFiniteSet(ArcsOn(heap, l)) /\ refs[l] = Cardinality(ArcsOn(heap, l))

HandleInv == HeapInv /\ RefsInv

LEMMA ArcsCounted ==
  ASSUME NEW box \in BoxType, NEW l \in Libs
  PROVE  /\ IsFiniteSet(ArcsIn(box, l)) /\ Cardinality(ArcsIn(box, l)) = Arcs(box, l)
         /\ Arcs(box, l) \in Nat
<1> DEFINE L == {n \in DOMAIN box.libs : box.libs[n] = l}
<1>1. box.libs \in Seq(Libs) /\ DOMAIN box.libs = 1 .. Len(box.libs) /\ Len(box.libs) \in Nat
  BY DEF BoxType
<1>2. IsFiniteSet(1 .. Len(box.libs))
  BY <1>1, FS_Interval
<1>3. IsFiniteSet(L)
  BY <1>1, <1>2, FS_Subset
<1>4. Cardinality(L) \in Nat
  BY <1>3, FS_CardinalityType
<1>5. 0 \notin L /\ L \subseteq Nat
  BY <1>1
<1>6. /\ box.lib = l => ArcsIn(box, l) = L \cup {0}
      /\ box.lib # l => ArcsIn(box, l) = L
  BY <1>5 DEF ArcsIn
<1>7. Arcs(box, l) = Cardinality(L) + (IF box.lib = l THEN 1 ELSE 0)
  BY DEF Arcs
<1> HIDE DEF L
<1>8. IsFiniteSet(L \cup {0}) /\ Cardinality(L \cup {0}) = Cardinality(L) + 1
  BY <1>3, <1>5, FS_AddElement
<1>9. CASE box.lib = l
  <2>1. ArcsIn(box, l) = L \cup {0} /\ Arcs(box, l) = Cardinality(L) + 1
    BY <1>6, <1>7, <1>9
  <2>. QED  BY <1>4, <1>8, <2>1
<1>10. CASE box.lib # l
  <2>1. ArcsIn(box, l) = L /\ Arcs(box, l) = Cardinality(L)
    BY <1>4, <1>6, <1>7, <1>10
  <2>. QED  BY <1>3, <1>4, <2>1
<1>. QED  BY <1>9, <1>10

\* What is on the heap is what is in one box and elsewhere.
LEMMA ArcsSplit ==
  ASSUME NEW h \in [Slots -> BoxType], NEW l \in Libs, NEW p \in Slots
  PROVE  /\ IsFiniteSet(ArcsOn(h, l)) <=> IsFiniteSet(ArcsElsewhere(h, l, p))
         /\ IsFiniteSet(ArcsOn(h, l)) =>
              /\ Cardinality(ArcsOn(h, l)) = Cardinality(ArcsElsewhere(h, l, p)) + Arcs(h[p], l)
              /\ Cardinality(ArcsElsewhere(h, l, p)) \in Nat
<1> DEFINE A == ArcsIn(h[p], l)
           P == {<<p, n>> : n \in A}
           E == ArcsElsewhere(h, l, p)
<1>1. h[p] \in BoxType
  OBVIOUS
<1>2. IsFiniteSet(A) /\ Cardinality(A) = Arcs(h[p], l) /\ Arcs(h[p], l) \in Nat
  BY <1>1, ArcsCounted
<1>3. ExistsBijection(A, P)
  <2> DEFINE f == [n \in A |-> <<p, n>>]
  <2> HIDE DEF A
  <2>1. f \in [A -> P]
    OBVIOUS
  <2>2. \A m, n \in A : f[m] = f[n] => m = n
    OBVIOUS
  <2>3. \A a \in P : \E n \in A : f[n] = a
    OBVIOUS
  <2> HIDE DEF f, P
  <2>4. f \in Bijection(A, P)
    BY <2>1, <2>2, <2>3 DEF Bijection, Injection, Surjection, IsInjective
  <2>. QED  BY <2>4 DEF ExistsBijection
<1>4. IsFiniteSet(P) /\ Cardinality(P) = Arcs(h[p], l)
  BY <1>2, <1>3, FS_Bijection
<1>5. ArcsOn(h, l) = E \cup P /\ E \cap P = {} /\ E \subseteq ArcsOn(h, l)
  BY DEF ArcsOn, ArcsElsewhere, ArcsIn
<1> HIDE DEF A, P, E
<1>6. IsFiniteSet(ArcsOn(h, l)) => IsFiniteSet(E)
  BY <1>5, FS_Subset
<1>7. IsFiniteSet(E) =>
        /\ IsFiniteSet(E \cup P)
        /\ Cardinality(E \cup P) = Cardinality(E) + Cardinality(P) - Cardinality(E \cap P)
        /\ Cardinality(E) \in Nat
  BY <1>4, FS_Union, FS_CardinalityType
<1>8. Cardinality(E \cap P) = 0
  BY <1>5, FS_EmptySet
<1>. QED  BY <1>2, <1>4, <1>5, <1>6, <1>7, <1>8 DEF E

\* A step that changes the arcs of one box and counts what it changes.
LEMMA RefsOneBox ==
  ASSUME NEW g \in [Slots -> BoxType], NEW h \in [Slots -> BoxType], NEW p \in Slots, NEW l \in Libs,
         \A j \in Slots \ {p} : g[j].lib = h[j].lib /\ g[j].libs = h[j].libs,
         IsFiniteSet(ArcsOn(g, l))
  PROVE  /\ IsFiniteSet(ArcsOn(h, l))
         /\ Cardinality(ArcsOn(h, l)) = Cardinality(ArcsOn(g, l)) - Arcs(g[p], l) + Arcs(h[p], l)
         /\ Cardinality(ArcsOn(h, l)) >= Arcs(h[p], l)
         /\ Cardinality(ArcsOn(h, l)) \in Nat
<1>1. ArcsElsewhere(g, l, p) = ArcsElsewhere(h, l, p)
  BY DEF ArcsElsewhere, ArcsOn, ArcsIn
<1>2. Arcs(g[p], l) \in Nat /\ Arcs(h[p], l) \in Nat
  BY ArcsCounted
<1>3. IsFiniteSet(ArcsOn(h, l))
  BY <1>1, ArcsSplit
<1>4. /\ Cardinality(ArcsOn(g, l)) = Cardinality(ArcsElsewhere(g, l, p)) + Arcs(g[p], l)
      /\ Cardinality(ArcsOn(h, l)) = Cardinality(ArcsElsewhere(h, l, p)) + Arcs(h[p], l)
      /\ Cardinality(ArcsElsewhere(g, l, p)) \in Nat
  BY <1>3, ArcsSplit
<1>. QED  BY <1>1, <1>2, <1>3, <1>4


\* b is computed place by place: from e on with G.
Computed(S, e, G, K, b) ==
  b \in [0 .. K -> S] /\ b[0] = e /\ \A n \in 1 .. K : b[n] = G[<<b[n - 1], n>>]

\* Such a function exists, and what each place keeps, all of them have.
LEMMA RecursionExists ==
  ASSUME NEW S, NEW e \in S, NEW G \in [S \X Nat -> S], NEW K \in Nat
  PROVE  \E b : Computed(S, e, G, K, b)
<1> DEFINE P(k) == \E b : Computed(S, e, G, k, b)
           T == {k \in Nat : ~P(k)}
<1> SUFFICES T = {}
  OBVIOUS
<1>1. 0 \notin T
  <2> DEFINE b == [n \in 0 .. 0 |-> e]
  <2>1. b \in [0 .. 0 -> S] /\ b[0] = e /\ 1 .. 0 = {}
    OBVIOUS
  <2> HIDE DEF b
  <2>2. P(0)
    BY <2>1 DEF Computed
  <2>. QED  BY <2>2
<1>2. ASSUME NEW m \in Nat, m # 0, P(m - 1)
      PROVE  P(m)
  <2>1. PICK b \in [0 .. m - 1 -> S] :
          b[0] = e /\ \A n \in 1 .. m - 1 : b[n] = G[<<b[n - 1], n>>]
    BY <1>2 DEF Computed
  <2>2. m - 1 \in 0 .. m - 1 /\ b[m - 1] \in S
    BY <1>2
  <2>3. <<b[m - 1], m>> \in S \X Nat
    BY <2>2
  <2>4. G[<<b[m - 1], m>>] \in S
    BY <2>3
  <2> DEFINE c == [n \in 0 .. m |-> IF n = m THEN G[<<b[m - 1], m>>] ELSE b[n]]
  <2>5. \A n \in 0 .. m : n # m => n \in 0 .. m - 1
    OBVIOUS
  <2>6. c \in [0 .. m -> S]
    BY <2>4, <2>5
  <2>7. c[m] = G[<<b[m - 1], m>>] /\ \A n \in 0 .. m - 1 : c[n] = b[n]
    OBVIOUS
  <2> HIDE DEF c
  <2>8. c[0] = e
    BY <1>2, <2>1, <2>7
  <2>9. ASSUME NEW n \in 1 .. m
        PROVE  c[n] = G[<<c[n - 1], n>>]
    <3>1. c[n - 1] = b[n - 1]
      BY <2>7
    <3>2. CASE n = m
      BY <2>7, <3>1, <3>2
    <3>3. CASE n # m
      <4>1. n \in 1 .. m - 1 /\ n \in 0 .. m - 1
        BY <3>3
      <4>. QED  BY <2>1, <2>7, <3>1, <4>1
    <3>. QED  BY <3>2, <3>3
  <2>10. Computed(S, e, G, m, c)
    BY <2>6, <2>8, <2>9 DEF Computed
  <2>. QED  BY <2>10
<1> HIDE DEF P
<1> SUFFICES ASSUME T # {}
             PROVE  FALSE
  OBVIOUS
<1>3. T \in SUBSET Nat
  OBVIOUS
<1> HIDE DEF T
<1>4. PICK m \in T : \A n \in T : m <= n
  BY <1>3, LeastPlace
<1>5. m \in Nat /\ m # 0
  BY <1>1, <1>3, <1>4
<1>6. m - 1 \notin T /\ m - 1 \in Nat
  BY <1>4, <1>5
<1>. QED  BY <1>2, <1>5, <1>6 DEF T

LEMMA RecursionKeeps ==
  ASSUME NEW S, NEW K \in Nat, NEW b, b[0] \in S,
         \A n \in 1 .. K : b[n - 1] \in S => b[n] \in S
  PROVE  \A n \in 0 .. K : b[n] \in S
<1> DEFINE T == {n \in 0 .. K : b[n] \notin S}
<1> SUFFICES ASSUME T # {}
             PROVE  FALSE
  OBVIOUS
<1>1. T \in SUBSET Nat
  OBVIOUS
<1>2. PICK m \in T : \A n \in T : m <= n
  BY <1>1, LeastPlace
<1>3. m \in 1 .. K /\ m - 1 \in 0 .. K
  BY <1>2
<1>4. m - 1 \notin T
  BY <1>1, <1>2, <1>3
<1>. QED  BY <1>2, <1>3, <1>4

FoundUpTo(dir, b) ==
  b = [n \in 0 .. Len(dir) |->
         IF n = 0 THEN <<>>
         ELSE IF dir[n] \in Libs THEN Append(b[n - 1], dir[n]) ELSE b[n - 1]]

\* What add_dir finds are connectors.
LEMMA LoadableOK ==
  ASSUME NEW dir \in Seq(Libs \cup {NoLib})
  PROVE  \A n \in 0 .. Len(dir) : Loadable(dir)[n] \in Seq(Libs)
<1>1. Len(dir) \in Nat
  OBVIOUS
<1>2. Loadable(dir) = CHOOSE b : FoundUpTo(dir, b)
  BY DEF Loadable, FoundUpTo
<1> DEFINE G == [x \in Seq(Libs) \X Nat |->
                   IF dir[x[2]] \in Libs THEN Append(x[1], dir[x[2]]) ELSE x[1]]
<1>3. G \in [Seq(Libs) \X Nat -> Seq(Libs)]
  OBVIOUS
<1>4. \A s \in Seq(Libs), n \in Nat :
        G[<<s, n>>] = IF dir[n] \in Libs THEN Append(s, dir[n]) ELSE s
  OBVIOUS
<1>5. <<>> \in Seq(Libs)
  OBVIOUS
<1> HIDE DEF G
<1>6. PICK b \in [0 .. Len(dir) -> Seq(Libs)] :
        b[0] = <<>> /\ \A n \in 1 .. Len(dir) : b[n] = G[<<b[n - 1], n>>]
  <2> DEFINE S == Seq(Libs)
             K == Len(dir)
             e == <<>>
  <2>1. e \in S /\ G \in [S \X Nat -> S] /\ K \in Nat
    BY <1>1, <1>3, <1>5
  <2> HIDE DEF S, K, e
  <2>2. \E b : Computed(S, e, G, K, b)
    BY <2>1, RecursionExists
  <2>. QED  BY <2>2 DEF S, K, e, Computed
<1>7. FoundUpTo(dir, b)
  <2>1. b = [n \in 0 .. Len(dir) |-> b[n]]
    BY <1>6
  <2>2. ASSUME NEW n \in 0 .. Len(dir)
        PROVE  b[n] = IF n = 0 THEN <<>>
                      ELSE IF dir[n] \in Libs THEN Append(b[n - 1], dir[n]) ELSE b[n - 1]
    <3>1. CASE n = 0
      BY <1>6, <3>1
    <3>2. CASE n # 0
      <4>1. n \in 1 .. Len(dir) /\ n - 1 \in 0 .. Len(dir) /\ n \in Nat
        BY <1>1, <3>2
      <4>2. b[n - 1] \in Seq(Libs) /\ b[n] = G[<<b[n - 1], n>>]
        BY <1>6, <4>1
      <4>. QED  BY <1>4, <3>2, <4>1, <4>2
    <3>. QED  BY <3>1, <3>2
  <2>. QED  BY <2>1, <2>2 DEF FoundUpTo
<1>8. FoundUpTo(dir, Loadable(dir))
  BY <1>2, <1>7
<1> DEFINE f == Loadable(dir)
<1> HIDE DEF f
<1>9. \A n \in 0 .. Len(dir) :
        f[n] = IF n = 0 THEN <<>>
               ELSE IF dir[n] \in Libs THEN Append(f[n - 1], dir[n]) ELSE f[n - 1]
  BY <1>8 DEF FoundUpTo, f
<1>10. f[0] \in Seq(Libs)
  <2>1. 0 \in 0 .. Len(dir)
    BY <1>1
  <2>2. f[0] = <<>>
    BY <1>9, <2>1
  <2>. QED  BY <1>5, <2>2
<1>11. ASSUME NEW n \in 1 .. Len(dir), f[n - 1] \in Seq(Libs)
       PROVE  f[n] \in Seq(Libs)
  <2>1. n \in 0 .. Len(dir) /\ n # 0
    BY <1>1
  <2>2. f[n] = IF dir[n] \in Libs THEN Append(f[n - 1], dir[n]) ELSE f[n - 1]
    BY <1>9, <2>1
  <2>. QED  BY <1>11, <2>2
<1>12. \A n \in 0 .. Len(dir) : f[n] \in Seq(Libs)
  BY <1>1, <1>10, <1>11, RecursionKeeps
<1>. QED  BY <1>12 DEF f

LEMMA AddDirOK ==
  ASSUME NEW p \in Paths, NEW n \in ScanLengths(p)
  PROVE  AddDir(p, n) \in Seq(Libs)
<1>1. CASE Files[p] = Invalid
  BY <1>1 DEF AddDir
<1>2. CASE Files[p] # Invalid
  <2>1. Files[p] \in Seq(Libs \cup {NoLib})
    BY <1>2, HandleAssumption
  <2>2. n \in 0 .. Len(Files[p])
    BY <1>2 DEF ScanLengths
  <2>. QED  BY <1>2, <2>1, <2>2, LoadableOK DEF AddDir
<1>. QED  BY <1>1, <1>2


SearchedUpTo(n, b) ==
  b = [k \in 0 .. Len(SearchPaths) |->
         IF k = 0 THEN <<>> ELSE b[k - 1] \o AddDir(SearchPaths[k], n[k])]

\* try_new, too, collects connectors.
LEMMA SearchedOK ==
  ASSUME NEW n, \A k \in DOMAIN SearchPaths : n[k] \in ScanLengths(SearchPaths[k])
  PROVE  Searched(n) \in Seq(Libs)
<1> DEFINE K == Len(SearchPaths)
           S == Seq(Libs)
           e == <<>>
           D == [k \in 1 .. K |-> AddDir(SearchPaths[k], n[k])]
           G == [x \in S \X Nat |-> IF x[2] \in 1 .. K THEN x[1] \o D[x[2]] ELSE x[1]]
<1>1. K \in Nat /\ \A k \in 1 .. K : SearchPaths[k] \in Paths /\ k \in DOMAIN SearchPaths
  BY HandleAssumption
<1>2. \A k \in 1 .. K : AddDir(SearchPaths[k], n[k]) \in S
  BY <1>1, AddDirOK
<1>3. \A k \in 1 .. K : D[k] \in S /\ D[k] = AddDir(SearchPaths[k], n[k])
  BY <1>2
<1> HIDE DEF D
<1>4. \A s \in S, t \in S : s \o t \in S
  OBVIOUS
<1>5. e \in S
  OBVIOUS
<1> HIDE DEF S
<1>6. G \in [S \X Nat -> S]
  BY <1>3, <1>4
<1>7. ASSUME NEW s \in S, NEW k \in 1 .. K
      PROVE  G[<<s, k>>] = s \o D[k]
  <2>1. <<s, k>> \in S \X Nat /\ <<s, k>>[1] = s /\ <<s, k>>[2] = k
    BY <1>1
  <2>. QED  BY <2>1
<1> HIDE DEF G, K, e
<1>8. \E b : Computed(S, e, G, K, b)
  BY <1>1, <1>5, <1>6, RecursionExists
<1>9. PICK b : Computed(S, e, G, K, b)
  BY <1>8
<1>10. SearchedUpTo(n, b)
  <2>1. b = [k \in 0 .. K |-> b[k]]
    BY <1>9 DEF Computed
  <2>2. ASSUME NEW k \in 0 .. K
        PROVE  b[k] = IF k = 0 THEN <<>> ELSE b[k - 1] \o AddDir(SearchPaths[k], n[k])
    <3>1. CASE k = 0
      BY <1>9, <3>1 DEF Computed, e
    <3>2. CASE k # 0
      <4>1. k \in 1 .. K /\ k - 1 \in 0 .. K
        BY <1>1, <3>2
      <4>2. b[k - 1] \in S /\ b[k] = G[<<b[k - 1], k>>]
        BY <1>9, <4>1 DEF Computed
      <4>3. b[k] = b[k - 1] \o D[k]
        BY <1>7, <4>1, <4>2
      <4>. QED  BY <1>3, <3>2, <4>1, <4>3
    <3>. QED  BY <3>1, <3>2
  <2>. QED  BY <2>1, <2>2 DEF SearchedUpTo, K
<1> DEFINE f == CHOOSE c : SearchedUpTo(n, c)
<1>11. Searched(n) = f[K]
  BY DEF Searched, SearchedUpTo, K
<1>12. SearchedUpTo(n, f)
  BY <1>10
<1> HIDE DEF f
<1>13. \A k \in 0 .. K : f[k] = IF k = 0 THEN <<>> ELSE f[k - 1] \o AddDir(SearchPaths[k], n[k])
  BY <1>12 DEF SearchedUpTo, K
<1>14. f[0] \in S
  <2>1. 0 \in 0 .. K
    BY <1>1
  <2>2. f[0] = <<>>
    BY <1>13, <2>1
  <2>. QED  BY <1>5, <2>2 DEF e
<1>15. ASSUME NEW k \in 1 .. K, f[k - 1] \in S
       PROVE  f[k] \in S
  <2>1. k \in 0 .. K /\ k # 0
    BY <1>1
  <2>2. f[k] = f[k - 1] \o AddDir(SearchPaths[k], n[k])
    BY <1>13, <2>1
  <2>. QED  BY <1>2, <1>4, <1>15, <2>2
<1>16. \A k \in 0 .. K : f[k] \in S
  BY <1>1, <1>14, <1>15, RecursionKeeps
<1>17. K \in 0 .. K
  BY <1>1
<1>. QED  BY <1>11, <1>16, <1>17 DEF S

-----------------------------------------------------------------------------
(* The calls                                                               *)

\* to_heap puts the box on a free place.
LEMMA PlaceFree ==
  ASSUME HeapInv, FreeSlots(heap) # {}
  PROVE  Place(heap) \in Slots /\ heap[Place(heap)].kind = "none"
<1>1. FreeSlots(heap) \in SUBSET Nat
  BY HandleAssumption DEF FreeSlots
<1>2. \E m \in FreeSlots(heap) : \A n \in FreeSlots(heap) : m <= n
  BY <1>1, LeastPlace
<1>3. Place(heap) \in FreeSlots(heap)
  BY <1>2 DEF Place, Min
<1>. QED  BY <1>3 DEF FreeSlots

LEMMA NoBoxOK == NoBox.kind = "none" /\ Empty(NoBox) /\ NoBox \in BoxType
<1>1. <<>> \in Seq(Libs)
  OBVIOUS
<1> DEFINE e == <<>>
<1>2. e \in Seq(Libs)
  BY <1>1
<1>3. NoBox = [kind |-> "none", of |-> 0, lib |-> NoLib, libs |-> e]
  BY DEF NoBox
<1> HIDE DEF e
<1>4. NoBox \in BoxType
  <2>1. "none" \in Kinds
    BY DEF Kinds
  <2>. QED  BY <1>2, <1>3, <2>1 DEF BoxType
<1>. QED  BY <1>3, <1>4 DEF Empty, e

LEMMA BoxOK ==
  ASSUME NEW kind \in Kinds
  PROVE  Box(kind) \in BoxType /\ Box(kind).kind = kind /\ Empty(Box(kind))
BY NoBoxOK DEF Box, BoxType, Empty

LEMMA EmptyArcs ==
  ASSUME NEW box \in BoxType, Empty(box), NEW l \in Libs
  PROVE  Arcs(box, l) = 0 /\ ArcsIn(box, l) = {}
<1>1. NoLib # l
  BY HandleAssumption
<1>2. DOMAIN box.libs = {}
  BY DEF Empty
<1>3. ArcsIn(box, l) = {}
  BY <1>1, <1>2 DEF Empty, ArcsIn
<1>. QED  BY <1>3, ArcsCounted, FS_EmptySet

LEMMA GivesKeeps ==
  ASSUME HandleInv, NEW box \in BoxType, box.kind # "none", Gives(box)
  PROVE  HandleInv'
<1> DEFINE p == Place(heap)
<1>1. p \in Slots /\ heap[p].kind = "none"
  BY PlaceFree DEF HandleInv, Gives
<1>2. heap' = [heap EXCEPT ![p] = box] /\ lost' = lost /\ refs' = [l \in Libs |-> refs[l] + Arcs(box, l)]
  BY DEF Gives, ToHeap, Place, Acquire
<1> HIDE DEF p
<1>3. heap \in [Slots -> BoxType] /\ Empty(heap[p]) /\ p \notin lost
  BY <1>1 DEF HandleInv, HeapInv
<1>4. heap' \in [Slots -> BoxType] /\ heap'[p] = box /\ \A j \in Slots \ {p} : heap'[j] = heap[j]
  BY <1>1, <1>2, <1>3
<1>5. HeapInv'
  <2>1. \A i \in Slots : heap'[i].kind = "none" => Empty(heap'[i])
    BY <1>4 DEF HandleInv, HeapInv
  <2>2. \A i \in lost : i \in Slots \ {p} /\ heap[i].kind # "none" /\ Empty(heap[i])
    BY <1>3 DEF HandleInv, HeapInv
  <2>. QED  BY <1>2, <1>4, <2>1, <2>2 DEF HandleInv, HeapInv, Empty
<1>6. ASSUME NEW l \in Libs
      PROVE  /\ refs'[l] \in Nat /\ IsFiniteSet(ArcsOn(heap', l))
             /\ refs'[l] = Cardinality(ArcsOn(heap', l))
  <2>1. IsFiniteSet(ArcsOn(heap, l)) /\ refs[l] = Cardinality(ArcsOn(heap, l)) /\ refs[l] \in Nat
    BY DEF HandleInv, RefsInv
  <2>2. /\ IsFiniteSet(ArcsOn(heap', l)) /\ Cardinality(ArcsOn(heap', l)) \in Nat
        /\ Cardinality(ArcsOn(heap', l)) = Cardinality(ArcsOn(heap, l)) - Arcs(heap[p], l) + Arcs(heap'[p], l)
    BY <1>1, <1>3, <1>4, <2>1, RefsOneBox
  <2>3. Arcs(heap[p], l) = 0 /\ Arcs(box, l) \in Nat
    BY <1>1, <1>3, EmptyArcs, ArcsCounted
  <2>4. refs'[l] = refs[l] + Arcs(box, l)
    BY <1>2
  <2>. QED  BY <1>4, <2>1, <2>2, <2>3, <2>4
<1>7. RefsInv'
  BY <1>2, <1>6 DEF RefsInv
<1>. QED  BY <1>5, <1>7 DEF HandleInv

\* The other places, after the box at i is gone.
LEMMA FromRawOthers ==
  ASSUME HeapInv, NEW i \in Slots
  PROVE  /\ FromRaw(heap, i) \in [Slots -> BoxType]
         /\ FromRaw(heap, i)[i] = NoBox
         /\ \A j \in Slots \ {i} :
              /\ FromRaw(heap, i)[j].kind = heap[j].kind
              /\ FromRaw(heap, i)[j].lib = heap[j].lib
              /\ FromRaw(heap, i)[j].libs = heap[j].libs
<1>1. NoBox \in BoxType
  BY NoBoxOK
<1>2. ASSUME NEW b \in BoxType
      PROVE  /\ [b EXCEPT !.of = 0] \in BoxType
             /\ [b EXCEPT !.of = 0].kind = b.kind
             /\ [b EXCEPT !.of = 0].lib = b.lib
             /\ [b EXCEPT !.of = 0].libs = b.libs
  BY DEF BoxType
<1>3. \A j \in Slots : heap[j] \in BoxType
  BY DEF HeapInv
<1>. QED  BY <1>1, <1>2, <1>3 DEF FromRaw

LEMMA FreesKeeps ==
  ASSUME HandleInv, NEW i \in Slots \ lost,
         heap' = FromRaw(heap, i), Release(heap[i]), lost' = lost
  PROVE  HandleInv'
<1> DEFINE h == FromRaw(heap, i)
<1>1. /\ heap \in [Slots -> BoxType] /\ h \in [Slots -> BoxType] /\ h[i] = NoBox
      /\ \A j \in Slots \ {i} : h[j].kind = heap[j].kind /\ h[j].lib = heap[j].lib /\ h[j].libs = heap[j].libs
  BY FromRawOthers DEF HandleInv, HeapInv
<1> HIDE DEF h
<1>2. heap' = h
  BY DEF h
<1>3. NoBox.kind = "none" /\ Empty(NoBox) /\ NoBox \in BoxType
  BY NoBoxOK
<1>4. HeapInv'
  <2>1. \A j \in Slots : h[j].kind = "none" => Empty(h[j])
    BY <1>1, <1>3 DEF HandleInv, HeapInv, Empty
  <2>2. \A j \in lost : j \in Slots \ {i} /\ heap[j].kind # "none" /\ Empty(heap[j])
    BY DEF HandleInv, HeapInv
  <2>3. \A j \in lost : h[j].kind # "none" /\ Empty(h[j])
    BY <1>1, <2>2 DEF Empty
  <2>. QED  BY <1>1, <1>2, <2>1, <2>3 DEF HandleInv, HeapInv, Empty
<1>5. ASSUME NEW l \in Libs
      PROVE  /\ refs'[l] \in Nat /\ IsFiniteSet(ArcsOn(h, l))
             /\ refs'[l] = Cardinality(ArcsOn(h, l))
  <2>1. IsFiniteSet(ArcsOn(heap, l)) /\ refs[l] = Cardinality(ArcsOn(heap, l)) /\ refs[l] \in Nat
    BY DEF HandleInv, RefsInv
  <2>2. /\ IsFiniteSet(ArcsOn(h, l)) /\ Cardinality(ArcsOn(h, l)) \in Nat
        /\ Cardinality(ArcsOn(h, l)) = Cardinality(ArcsOn(heap, l)) - Arcs(heap[i], l) + Arcs(h[i], l)
    <3>1. \A j \in Slots \ {i} : heap[j].lib = h[j].lib /\ heap[j].libs = h[j].libs
      BY <1>1
    <3>. QED  BY <1>1, <2>1, <3>1, RefsOneBox
  <2>3. Arcs(h[i], l) = 0 /\ Arcs(heap[i], l) \in Nat
    BY <1>1, <1>3, EmptyArcs, ArcsCounted
  <2>4. refs'[l] = refs[l] - Arcs(heap[i], l)
    BY DEF Release
  <2>. QED  BY <2>1, <2>2, <2>3, <2>4
<1>6. RefsInv'
  BY <1>2, <1>5 DEF RefsInv, Release
<1>. QED  BY <1>4, <1>6 DEF HandleInv

LEMMA TurnsKeeps ==
  ASSUME HandleInv, NEW i \in Slots \ lost, heap[i].kind # "none", NEW box \in BoxType, box.kind # "none",
         box.lib = heap[i].lib, box.libs = heap[i].libs, TurnsInto(i, box)
  PROVE  HandleInv'
<1> DEFINE h == [FromRaw(heap, i) EXCEPT ![i] = box]
<1>1. /\ heap \in [Slots -> BoxType] /\ h \in [Slots -> BoxType] /\ h[i] = box
      /\ \A j \in Slots \ {i} : h[j].kind = heap[j].kind /\ h[j].lib = heap[j].lib /\ h[j].libs = heap[j].libs
  BY FromRawOthers DEF HandleInv, HeapInv
<1>2. heap' = h /\ lost' = lost /\ refs' = refs
  BY DEF TurnsInto
<1> HIDE DEF h
<1>3. HeapInv'
  <2>1. \A j \in Slots : h[j].kind = "none" => Empty(h[j])
    BY <1>1 DEF HandleInv, HeapInv, Empty
  <2>2. \A j \in lost : j \in Slots \ {i} /\ heap[j].kind # "none" /\ Empty(heap[j])
    BY DEF HandleInv, HeapInv
  <2>3. \A j \in lost : h[j].kind # "none" /\ Empty(h[j])
    BY <1>1, <2>2 DEF Empty
  <2>. QED  BY <1>1, <1>2, <2>1, <2>3 DEF HandleInv, HeapInv, Empty
<1>4. \A l \in Libs : ArcsOn(h, l) = ArcsOn(heap, l)
  <2>1. \A j \in Slots : h[j].lib = heap[j].lib /\ h[j].libs = heap[j].libs
    BY <1>1
  <2>. QED  BY <2>1 DEF ArcsOn, ArcsIn
<1>5. RefsInv'
  BY <1>2, <1>4 DEF HandleInv, RefsInv
<1>. QED  BY <1>3, <1>5 DEF HandleInv

LEMMA FillKeeps ==
  ASSUME HandleInv, NEW kind \in Kinds, kind # "none", NEW n, NEW failed, FillList(kind, n, failed)
  PROVE  HandleInv'
<1> DEFINE filled == {i \in FreeSlots(heap) : Cardinality({j \in FreeSlots(heap) : j <= i}) <= n}
           h == [i \in Slots |-> IF i \in filled THEN Box(kind) ELSE heap[i]]
<1>1. heap' = h /\ refs' = refs /\ (lost' = lost \/ lost' = lost \cup filled)
  BY DEF FillList
<1>2. filled \subseteq Slots /\ \A i \in filled : heap[i].kind = "none"
  BY DEF FreeSlots
<1> HIDE DEF filled
<1>3. Box(kind) \in BoxType /\ Box(kind).kind = kind /\ Empty(Box(kind))
  BY BoxOK
<1>4. heap \in [Slots -> BoxType] /\ h \in [Slots -> BoxType]
  BY <1>3 DEF HandleInv, HeapInv
<1>5. /\ \A i \in filled : h[i] = Box(kind) /\ Empty(heap[i])
      /\ \A i \in Slots \ filled : h[i] = heap[i]
  BY <1>2 DEF HandleInv, HeapInv
<1> HIDE DEF h
<1>6. HeapInv'
  <2>1. \A j \in Slots : h[j].kind = "none" => Empty(h[j])
    BY <1>3, <1>5 DEF HandleInv, HeapInv
  <2>2. \A j \in lost : j \in Slots /\ j \notin filled /\ heap[j].kind # "none" /\ Empty(heap[j])
    BY <1>2 DEF HandleInv, HeapInv
  <2>3. \A j \in lost \cup filled : j \in Slots /\ h[j].kind # "none" /\ Empty(h[j])
    BY <1>2, <1>3, <1>5, <2>2
  <2>. QED  BY <1>1, <1>4, <2>1, <2>3 DEF HandleInv, HeapInv, Empty
<1>7. \A l \in Libs : ArcsOn(h, l) = ArcsOn(heap, l)
  <2>1. \A j \in Slots : h[j].lib = heap[j].lib /\ h[j].libs = heap[j].libs
    BY <1>3, <1>5 DEF Empty
  <2>. QED  BY <2>1 DEF ArcsOn, ArcsIn
<1>8. RefsInv'
  BY <1>1, <1>7 DEF HandleInv, RefsInv
<1>. QED  BY <1>6, <1>8 DEF HandleInv


\* Connectors added to a list add to its arcs.
LEMMA ConcatArcs ==
  ASSUME NEW t \in Seq(Libs), NEW s \in Seq(Libs), NEW l \in Libs
  PROVE  LET Of(q) == {n \in DOMAIN q : q[n] = l}
         IN  /\ Cardinality(Of(t \o s)) = Cardinality(Of(t)) + Cardinality(Of(s))
             /\ Cardinality(Of(t)) \in Nat /\ Cardinality(Of(s)) \in Nat
<1> DEFINE A == {n \in DOMAIN t : t[n] = l}
           B == {n \in DOMAIN s : s[n] = l}
           C == {n \in DOMAIN (t \o s) : (t \o s)[n] = l}
           U == {Len(t) + n : n \in B}
<1>1. /\ DOMAIN t = 1 .. Len(t) /\ DOMAIN s = 1 .. Len(s) /\ Len(t) \in Nat /\ Len(s) \in Nat
      /\ DOMAIN (t \o s) = 1 .. Len(t) + Len(s)
  OBVIOUS
<1>2. /\ \A n \in 1 .. Len(t) : (t \o s)[n] = t[n]
      /\ \A n \in 1 .. Len(s) : (t \o s)[Len(t) + n] = s[n]
  <2>1. ASSUME NEW n \in 1 .. Len(t)
        PROVE  (t \o s)[n] = t[n]
    BY ConcatProperties
  <2>2. ASSUME NEW n \in 1 .. Len(s)
        PROVE  (t \o s)[Len(t) + n] = s[n]
    <3>1. Len(t) + n \in 1 .. Len(t) + Len(s) /\ ~(Len(t) + n <= Len(t)) /\ (Len(t) + n) - Len(t) = n
      BY <1>1
    <3>. QED  BY <3>1, ConcatProperties
  <2>. QED  BY <2>1, <2>2
<1>3. IsFiniteSet(A) /\ IsFiniteSet(B) /\ Cardinality(A) \in Nat /\ Cardinality(B) \in Nat
  <2>1. IsFiniteSet(1 .. Len(t)) /\ IsFiniteSet(1 .. Len(s))
    BY <1>1, FS_Interval
  <2>2. A \in SUBSET (1 .. Len(t)) /\ B \in SUBSET (1 .. Len(s))
    BY <1>1
  <2> HIDE DEF A, B
  <2>. QED  BY <2>1, <2>2, FS_Subset, FS_CardinalityType
<1>4. C = A \cup U /\ A \cap U = {}
  <2>1. \A n \in A : n \in C /\ n <= Len(t)
    BY <1>1, <1>2
  <2>2. \A n \in U : n \in C /\ n > Len(t)
    BY <1>1, <1>2
  <2>3. \A n \in C : n \in A \/ n \in U
    <3> SUFFICES ASSUME NEW n \in C, n \notin A
                 PROVE  n \in U
      OBVIOUS
    <3>1. n \in 1 .. Len(t) + Len(s) /\ n \notin 1 .. Len(t)
      BY <1>1, <1>2
    <3>2. n - Len(t) \in 1 .. Len(s) /\ n = Len(t) + (n - Len(t))
      BY <1>1, <3>1
    <3>3. s[n - Len(t)] = l
      BY <1>2, <3>2
    <3>. QED  BY <1>1, <3>2, <3>3
  <2> HIDE DEF A, U, C
  <2>4. \A n : ~(n \in A /\ n \in U)
    <3>1. \A n \in A : n \in Nat
      BY <1>1 DEF A
    <3>. QED  BY <1>1, <2>1, <2>2, <3>1
  <2>. QED  BY <2>1, <2>2, <2>3, <2>4
<1>5. ExistsBijection(B, U)
  <2> DEFINE f == [n \in B |-> Len(t) + n]
  <2>1. B \subseteq Nat
    BY <1>1
  <2> HIDE DEF B
  <2>2. f \in [B -> U] /\ \A a \in U : \E n \in B : f[n] = a
    OBVIOUS
  <2>3. \A m, n \in B : f[m] = f[n] => m = n
    BY <1>1, <2>1
  <2> HIDE DEF f, U
  <2>4. f \in Bijection(B, U)
    BY <2>2, <2>3 DEF Bijection, Injection, Surjection, IsInjective
  <2>. QED  BY <2>4 DEF ExistsBijection
<1> HIDE DEF A, B, C, U
<1>6. IsFiniteSet(U) /\ Cardinality(U) = Cardinality(B)
  BY <1>3, <1>5, FS_Bijection
<1>7. Cardinality(A \cup U) = Cardinality(A) + Cardinality(U) - Cardinality(A \cap U)
  BY <1>3, <1>6, FS_Union
<1>8. Cardinality(A \cap U) = 0
  BY <1>4, FS_EmptySet
<1>9. Cardinality(C) = Cardinality(A) + Cardinality(B)
  BY <1>3, <1>4, <1>6, <1>7, <1>8
<1>. QED  BY <1>3, <1>9 DEF A, B, C

LEMMA AddDirKeeps ==
  ASSUME HandleInv, NEW i \in Slots, Mine(i, "inventory"), NEW p \in Paths, InventoryAddDir(i, p)
  PROVE  HandleInv'
<1>1. PICK n \in ScanLengths(p) :
        /\ heap' = [heap EXCEPT ![i].libs = @ \o [Box("inventory") EXCEPT !.libs = AddDir(p, n)].libs]
        /\ Acquire([Box("inventory") EXCEPT !.libs = AddDir(p, n)])
        /\ lost' = lost
  BY DEF InventoryAddDir
<1> DEFINE s == AddDir(p, n)
           extra == [Box("inventory") EXCEPT !.libs = s]
           t == heap[i].libs
<1>2. s \in Seq(Libs)
  BY AddDirOK
<1> HIDE DEF s
<1>3. heap \in [Slots -> BoxType] /\ heap[i] \in BoxType /\ heap[i].kind = "inventory" /\ t \in Seq(Libs)
  BY DEF HandleInv, HeapInv, Mine, Is, BoxType
<1>4. extra.libs = s /\ extra.lib = NoLib
  <2>1. Box("inventory") \in BoxType /\ Empty(Box("inventory"))
    BY BoxOK DEF Kinds
  <2>. QED  BY <2>1 DEF BoxType, Empty
<1>5. heap' = [heap EXCEPT ![i] = [heap[i] EXCEPT !.libs = t \o s]]
  BY <1>1, <1>3, <1>4 DEF s
<1> DEFINE b == [heap[i] EXCEPT !.libs = t \o s]
<1>6. b \in BoxType /\ b.libs = t \o s /\ b.lib = heap[i].lib /\ b.kind = heap[i].kind
  <2>1. t \o s \in Seq(Libs)
    BY <1>2, <1>3
  <2> DEFINE u == t \o s
  <2> HIDE DEF u
  <2>2. u \in Seq(Libs)
    BY <2>1 DEF u
  <2>3. b = [heap[i] EXCEPT !.libs = u]
    BY DEF u
  <2>4. b \in BoxType /\ b.libs = u /\ b.lib = heap[i].lib /\ b.kind = heap[i].kind
    BY <1>3, <2>2, <2>3 DEF BoxType
  <2>. QED  BY <2>4 DEF u
<1> HIDE DEF b
<1>7. heap' = [heap EXCEPT ![i] = b]
  BY <1>5 DEF b
<1>8. heap' \in [Slots -> BoxType] /\ heap'[i] = b /\ \A j \in Slots \ {i} : heap'[j] = heap[j]
  BY <1>3, <1>6, <1>7
<1>9. HeapInv'
  <2>1. i \notin lost /\ b.kind # "none"
    BY <1>3, <1>6 DEF Mine
  <2>2. \A j \in Slots : heap'[j].kind = "none" => Empty(heap'[j])
    BY <1>8, <2>1 DEF HandleInv, HeapInv
  <2>3. \A j \in lost : j \in Slots \ {i} /\ heap[j].kind # "none" /\ Empty(heap[j])
    BY <2>1 DEF HandleInv, HeapInv
  <2>. QED  BY <1>1, <1>8, <2>2, <2>3 DEF HandleInv, HeapInv, Empty
<1>10. ASSUME NEW l \in Libs
       PROVE  /\ refs'[l] \in Nat /\ IsFiniteSet(ArcsOn(heap', l))
              /\ refs'[l] = Cardinality(ArcsOn(heap', l))
  <2>1. IsFiniteSet(ArcsOn(heap, l)) /\ refs[l] = Cardinality(ArcsOn(heap, l)) /\ refs[l] \in Nat
    BY DEF HandleInv, RefsInv
  <2>2. /\ IsFiniteSet(ArcsOn(heap', l)) /\ Cardinality(ArcsOn(heap', l)) \in Nat
        /\ Cardinality(ArcsOn(heap', l)) = Cardinality(ArcsOn(heap, l)) - Arcs(heap[i], l) + Arcs(heap'[i], l)
    BY <1>3, <1>8, <2>1, RefsOneBox
  <2>3. Arcs(heap[i], l) \in Nat /\ Arcs(b, l) \in Nat
    BY <1>3, <1>6, ArcsCounted
  <2> DEFINE Of(q) == {m \in DOMAIN q : q[m] = l}
             one == IF heap[i].lib = l THEN 1 ELSE 0
  <2>4. /\ Cardinality(Of(t \o s)) = Cardinality(Of(t)) + Cardinality(Of(s))
        /\ Cardinality(Of(t)) \in Nat /\ Cardinality(Of(s)) \in Nat
    BY <1>2, <1>3, ConcatArcs
  <2>5. /\ Arcs(heap[i], l) = Cardinality(Of(t)) + one
        /\ Arcs(b, l) = Cardinality(Of(t \o s)) + one
    BY <1>6 DEF Arcs
  <2>6. Arcs(extra, l) = Cardinality(Of(s)) + 0
    <3>1. NoLib # l
      BY HandleAssumption
    <3> HIDE DEF extra
    <3>. QED  BY <1>4, <3>1 DEF Arcs
  <2>7. refs'[l] = refs[l] + Arcs(extra, l)
    BY <1>1 DEF Acquire, s
  <2>8. one \in Nat
    OBVIOUS
  <2> HIDE DEF Of, one, extra
  <2>. QED  BY <1>8, <2>1, <2>2, <2>3, <2>4, <2>5, <2>6, <2>7, <2>8
<1>11. RefsInv'
  <2>1. refs' = [l \in Libs |-> refs[l] + Arcs(extra, l)]
    BY <1>1 DEF Acquire, s
  <2>. QED  BY <2>1, <1>10 DEF RefsInv
<1>. QED  BY <1>9, <1>11 DEF HandleInv


\* A step that leaves heap, counts and lost boxes alone.
LEMMA LooksKeep ==
  ASSUME HandleInv, UNCHANGED <<heap, refs, lost>>
  PROVE  HandleInv'
<1>1. HeapInv'
  BY DEF HandleInv, HeapInv, Empty
<1>2. RefsInv'
  BY DEF HandleInv, RefsInv, ArcsOn, ArcsIn
<1>. QED  BY <1>1, <1>2 DEF HandleInv

\* A new box that borrows, or is one of the given kind with some list or library.
LEMMA NewBoxes ==
  ASSUME NEW kind \in Kinds
  PROVE  /\ \A n \in Nat : [Box(kind) EXCEPT !.of = n] \in BoxType /\ [Box(kind) EXCEPT !.of = n].kind = kind
         /\ \A l \in Libs : [Box(kind) EXCEPT !.lib = l] \in BoxType /\ [Box(kind) EXCEPT !.lib = l].kind = kind
         /\ \A s \in Seq(Libs) : [Box(kind) EXCEPT !.libs = s] \in BoxType /\ [Box(kind) EXCEPT !.libs = s].kind = kind
BY BoxOK DEF BoxType

LEMMA KindsDiffer ==
  /\ Kinds \ {"none"} = {"inventory", "connector", "phys", "kernel", "process", "virt", "info", "osinfo",
                         "arch", "module", "osmodule"}
  /\ \A k \in Kinds \ {"none"} : k \in Kinds /\ k # "none"
BY DEF Kinds

LEMMA GivesBorrower ==
  ASSUME HandleInv, NEW kind \in Kinds \ {"none"}, NEW i \in Slots, Gives([Box(kind) EXCEPT !.of = i])
  PROVE  HandleInv'
<1>1. i \in Nat
  BY HandleAssumption
<1>2. [Box(kind) EXCEPT !.of = i] \in BoxType /\ [Box(kind) EXCEPT !.of = i].kind # "none"
  BY <1>1, NewBoxes
<1>. QED  BY <1>2, GivesKeeps

LEMMA GivesPlain ==
  ASSUME HandleInv, NEW kind \in Kinds \ {"none"}, Gives(Box(kind))
  PROVE  HandleInv'
<1>1. Box(kind) \in BoxType /\ Box(kind).kind # "none"
  BY BoxOK
<1>. QED  BY <1>1, GivesKeeps

LEMMA GivesCopy ==
  ASSUME HandleInv, NEW i \in Slots, heap[i].kind # "none", Gives(heap[i])
  PROVE  HandleInv'
<1>1. heap[i] \in BoxType
  BY DEF HandleInv, HeapInv
<1>. QED  BY <1>1, GivesKeeps

LEMMA TurnsKindKeeps ==
  ASSUME HandleInv, NEW i \in Slots \ lost, heap[i].kind # "none", NEW kind \in Kinds \ {"none"},
         TurnsInto(i, [heap[i] EXCEPT !.kind = kind])
  PROVE  HandleInv'
<1> DEFINE box == [heap[i] EXCEPT !.kind = kind]
<1>1. heap[i] \in BoxType
  BY DEF HandleInv, HeapInv
<1>2. box \in BoxType /\ box.kind # "none" /\ box.lib = heap[i].lib /\ box.libs = heap[i].libs
  BY <1>1 DEF BoxType
<1> HIDE DEF box
<1>3. TurnsInto(i, box)
  BY DEF box
<1>. QED  BY <1>2, <1>3, TurnsKeeps

LEMMA FreedKeeps ==
  ASSUME HandleInv, NEW i \in Slots \ lost, Frees(i)
  PROVE  HandleInv'
BY FreesKeeps DEF Frees

LEMMA NothingKeeps ==
  ASSUME HandleInv, GivesNothing
  PROVE  HandleInv'
BY LooksKeep DEF GivesNothing

LEMMA InventoryKeeps ==
  ASSUME HandleInv, InventoryCalls
  PROVE  HandleInv'
<1>1. "inventory" \in Kinds \ {"none"} /\ "connector" \in Kinds \ {"none"}
  BY KindsDiffer
<1>2. CASE InventoryTryNew
  <2>1. PICK n : /\ \A k \in DOMAIN SearchPaths : n[k] \in ScanLengths(SearchPaths[k])
                 /\ Gives([Box("inventory") EXCEPT !.libs = Searched(n)])
    BY <1>2 DEF InventoryTryNew
  <2>2. Searched(n) \in Seq(Libs)
    BY <2>1, SearchedOK
  <2>3. /\ [Box("inventory") EXCEPT !.libs = Searched(n)] \in BoxType
        /\ [Box("inventory") EXCEPT !.libs = Searched(n)].kind # "none"
    BY <1>1, <2>2, NewBoxes
  <2>. QED  BY <2>1, <2>3, GivesKeeps
<1>3. ASSUME NEW p \in Paths, InventoryWithPath(p)
      PROVE  HandleInv'
  <2>1. PICK n \in ScanLengths(p) :
          Gives([Box("inventory") EXCEPT !.libs = AddDir(p, n)]) \/ GivesNothing
    BY <1>3 DEF InventoryWithPath
  <2>2. AddDir(p, n) \in Seq(Libs)
    BY AddDirOK
  <2>3. /\ [Box("inventory") EXCEPT !.libs = AddDir(p, n)] \in BoxType
        /\ [Box("inventory") EXCEPT !.libs = AddDir(p, n)].kind # "none"
    BY <1>1, <2>2, NewBoxes
  <2>. QED  BY <2>1, <2>3, GivesKeeps, NothingKeeps
<1>4. ASSUME NEW i \in Slots, Mine(i, "inventory"), InventoryFree(i)
      PROVE  HandleInv'
  BY <1>4, FreedKeeps DEF InventoryFree, Mine
<1>5. ASSUME NEW i \in Slots, Mine(i, "inventory"), NEW p \in Paths, InventoryAddDir(i, p)
      PROVE  HandleInv'
  BY <1>5, AddDirKeeps
<1>6. ASSUME NEW i \in Slots, Mine(i, "inventory"), NEW name \in ConnectorNames,
             InventoryCreateConnector(i, name)
      PROVE  HandleInv'
  <2>1. CASE GivesNothing
    BY <2>1, NothingKeeps
  <2>2. CASE /\ FoundLib(i, name) # {}
             /\ Gives([Box("connector") EXCEPT !.lib = heap[i].libs[Min(FoundLib(i, name))]])
    <3>1. heap[i].libs \in Seq(Libs)
      BY DEF HandleInv, HeapInv, BoxType
    <3>2. FoundLib(i, name) \in SUBSET Nat
      BY <3>1 DEF FoundLib
    <3>3. \E m \in FoundLib(i, name) : \A n \in FoundLib(i, name) : m <= n
      BY <2>2, <3>2, LeastPlace
    <3>4. Min(FoundLib(i, name)) \in FoundLib(i, name)
      BY <3>3 DEF Min
    <3>5. heap[i].libs[Min(FoundLib(i, name))] \in Libs
      <4> DEFINE s == heap[i].libs
                 m == Min(FoundLib(i, name))
      <4>1. s \in Seq(Libs) /\ m \in DOMAIN s
        BY <3>1, <3>4 DEF FoundLib
      <4> HIDE DEF s, m
      <4>2. s[m] \in Libs
        BY <4>1
      <4>. QED  BY <4>2 DEF s, m
    <3> DEFINE l == heap[i].libs[Min(FoundLib(i, name))]
    <3> HIDE DEF l
    <3>6. l \in Libs /\ Gives([Box("connector") EXCEPT !.lib = l])
      BY <2>2, <3>5 DEF l
    <3>7. [Box("connector") EXCEPT !.lib = l] \in BoxType /\ [Box("connector") EXCEPT !.lib = l].kind # "none"
      BY <1>1, <3>6, NewBoxes
    <3>. QED  BY <3>6, <3>7, GivesKeeps
  <2>. QED  BY <1>6, <2>1, <2>2 DEF InventoryCreateConnector
<1>. QED  BY <1>2, <1>3, <1>4, <1>5, <1>6 DEF InventoryCalls

LEMMA ConnectorKeeps ==
  ASSUME HandleInv, NEW i \in Slots, ConnectorCalls(i)
  PROVE  HandleInv'
<1>1. "phys" \in Kinds \ {"none"} /\ "kernel" \in Kinds \ {"none"}
  BY KindsDiffer
<1>2. \A kind : Mine(i, kind) => i \in Slots \ lost /\ heap[i].kind = kind
  BY DEF Mine, Is
<1>3. CASE Mine(i, "connector") /\ (ConnectorClone(i) \/ DowncastCloneable(i))
  BY <1>1, <1>2, <1>3, GivesCopy, GivesBorrower DEF ConnectorClone, DowncastCloneable
<1>4. CASE Mine(i, "connector") /\ ConnectorFree(i)
  BY <1>2, <1>4, FreedKeeps DEF ConnectorFree
<1>5. CASE Mine(i, "connector") /\ BuildKernel(i)
  BY <1>1, <1>2, <1>5, TurnsKindKeeps, FreesKeeps DEF BuildKernel
<1>6. CASE Usable(i, "phys") /\ PhysAccess(i)
  BY <1>6, LooksKeep DEF PhysAccess
<1>7. CASE Mine(i, "phys") /\ PhysFree(i)
  BY <1>2, <1>7, FreedKeeps DEF PhysFree
<1>. QED  BY <1>3, <1>4, <1>5, <1>6, <1>7 DEF ConnectorCalls

LEMMA KernelKeeps ==
  ASSUME HandleInv, NEW i \in Slots, KernelCalls(i)
  PROVE  HandleInv'
<1>1. "connector" \in Kinds \ {"none"} /\ "process" \in Kinds \ {"none"} /\ "info" \in Kinds \ {"none"}
  BY KindsDiffer
<1>2. i \in Slots \ lost /\ heap[i].kind = "kernel"
  BY DEF KernelCalls, Mine, Is
<1>3. CASE KernelClone(i)
  BY <1>2, <1>3, GivesCopy DEF KernelClone
<1>4. CASE KernelFree(i)
  BY <1>2, <1>4, FreedKeeps DEF KernelFree
<1>5. CASE KernelDestroy(i)
  BY <1>1, <1>2, <1>5, TurnsKindKeeps DEF KernelDestroy
<1>6. CASE KernelEprocessList(i) \/ KernelAccess(i)
  BY <1>6, LooksKeep DEF KernelEprocessList, KernelAccess, Looks
<1>7. CASE KernelProcessInfoList(i)
  BY <1>1, <1>7, FillKeeps DEF KernelProcessInfoList
<1>8. CASE KernelProcessInfoNew(i)
  BY <1>1, <1>8, GivesPlain, NothingKeeps DEF KernelProcessInfoNew
<1>9. CASE KernelIntoProcess(i)
  BY <1>1, <1>2, <1>9, TurnsKindKeeps, FreesKeeps DEF KernelIntoProcess
<1>10. CASE \E j \in Slots : Mine(j, "info") /\ ProcessWithKernel(i, j)
  BY <1>1, <1>2, <1>10, TurnsKindKeeps DEF ProcessWithKernel
<1>. QED  BY <1>3, <1>4, <1>5, <1>6, <1>7, <1>8, <1>9, <1>10 DEF KernelCalls

LEMMA ProcessKeeps ==
  ASSUME HandleInv, NEW i \in Slots, ProcessCalls(i)
  PROVE  HandleInv'
<1>1. /\ "virt" \in Kinds \ {"none"} /\ "module" \in Kinds \ {"none"} /\ "osmodule" \in Kinds \ {"none"}
      /\ "osinfo" \in Kinds \ {"none"} /\ "arch" \in Kinds \ {"none"}
  BY KindsDiffer
<1>2. \A kind : Mine(i, kind) => i \in Slots \ lost /\ heap[i].kind = kind
  BY DEF Mine, Is
<1>3. CASE Mine(i, "process") /\ (ProcessVirtMem(i) \/ ProcessClone(i))
  BY <1>1, <1>2, <1>3, GivesBorrower, GivesCopy DEF ProcessVirtMem, ProcessClone
<1>4. CASE Mine(i, "process") /\ ProcessFree(i)
  BY <1>2, <1>4, FreedKeeps DEF ProcessFree
<1>5. CASE Mine(i, "process") /\ ProcessModuleInfo(i)
  BY <1>1, <1>5, GivesPlain, NothingKeeps DEF ProcessModuleInfo
<1>6. CASE Mine(i, "process") /\ ProcessModuleList(i)
  BY <1>1, <1>6, FillKeeps DEF ProcessModuleList
<1>7. CASE (Usable(i, "virt") /\ VirtAccess(i)) \/ (Usable(i, "osmodule") /\ OsModuleAccess(i))
           \/ (Mine(i, "info") /\ InfoAccess(i)) \/ (Usable(i, "osinfo") /\ OsInfoAccess(i))
           \/ (Mine(i, "arch") /\ ArchAccess(i))
  BY <1>7, LooksKeep DEF VirtAccess, OsModuleAccess, InfoAccess, OsInfoAccess, ArchAccess, Looks
<1>8. CASE (Mine(i, "virt") /\ VirtFree(i)) \/ (Mine(i, "module") /\ ModuleInfoFree(i))
           \/ (Mine(i, "osmodule") /\ OsProcessModuleFree(i)) \/ (Mine(i, "info") /\ ProcessInfoFree(i))
           \/ (Mine(i, "osinfo") /\ OsProcessInfoFree(i)) \/ (Mine(i, "arch") /\ ArchFree(i))
  BY <1>2, <1>8, FreedKeeps
     DEF VirtFree, ModuleInfoFree, OsProcessModuleFree, ProcessInfoFree, OsProcessInfoFree, ArchFree
<1>9. CASE (Mine(i, "module") /\ ModuleInfoTrait(i)) \/ (Mine(i, "info") /\ ProcessInfoTrait(i))
  BY <1>1, <1>9, GivesBorrower DEF ModuleInfoTrait, ProcessInfoTrait
<1>10. CASE Usable(i, "osinfo") /\ OsProcessInfoArch(i)
  BY <1>1, <1>10, GivesPlain DEF OsProcessInfoArch
<1>. QED  BY <1>3, <1>4, <1>5, <1>6, <1>7, <1>8, <1>9, <1>10 DEF ProcessCalls

LEMMA HandleInitial == HandleInit => HandleInv
<1> SUFFICES ASSUME HandleInit
             PROVE  HandleInv
  OBVIOUS
<1>1. HeapInv
  BY NoBoxOK DEF HandleInit, HeapInv
<1>2. ASSUME NEW l \in Libs
      PROVE  ArcsOn(heap, l) = {}
  <2>1. ArcsIn(NoBox, l) = {}
    BY NoBoxOK, EmptyArcs
  <2>. QED  BY <2>1 DEF HandleInit, ArcsOn
<1>3. RefsInv
  <2>1. refs = [l \in Libs |-> 0]
    BY DEF HandleInit
  <2>. QED  BY <1>2, <2>1, FS_EmptySet DEF RefsInv
<1>. QED  BY <1>1, <1>3 DEF HandleInv

LEMMA HandleNextKeeps == HandleInv /\ [HandleNext]_handleVars => HandleInv'
<1>1. HandleInv /\ UNCHANGED handleVars => HandleInv'
  BY LooksKeep DEF handleVars
<1>. QED  BY <1>1, InventoryKeeps, ConnectorKeeps, KernelKeeps, ProcessKeeps DEF HandleNext

\* A library stays loaded while a connector, kernel or process runs its code,
\* whatever was cloned, converted or freed before; and when the caller has
\* given everything back, none is loaded any more: for any number of boxes,
\* libraries, directories and calls.
THEOREM LibrariesLive == HandleSpec => []LibraryLifetime
<1>1. HandleInv => LibraryLifetime
  <2> SUFFICES ASSUME HandleInv
               PROVE  LibraryLifetime
    OBVIOUS
  <2>1. ASSUME NEW i \in Slots, heap[i].lib # NoLib
        PROVE  refs[heap[i].lib] > 0
    <3> DEFINE l == heap[i].lib
               A == ArcsOn(heap, l)
    <3>1. l \in Libs
      BY <2>1 DEF HandleInv, HeapInv, BoxType
    <3>2. <<i, 0>> \in A
      BY DEF ArcsOn, ArcsIn
    <3>3. IsFiniteSet(A) /\ refs[l] = Cardinality(A)
      BY <3>1 DEF HandleInv, RefsInv
    <3> HIDE DEF A, l
    <3>4. Cardinality(A) \in Nat /\ Cardinality(A) # 0
      BY <3>2, <3>3, FS_CardinalityType, FS_EmptySet
    <3>. QED  BY <3>3, <3>4 DEF l
  <2>2. ASSUME \A i \in Slots : heap[i].kind = "none" \/ i \in lost, NEW l \in Libs
        PROVE  refs[l] = 0
    <3>1. \A i \in Slots : heap[i] \in BoxType /\ Empty(heap[i])
      BY <2>2 DEF HandleInv, HeapInv
    <3>2. \A i \in Slots : ArcsIn(heap[i], l) = {}
      BY <3>1, EmptyArcs
    <3>3. ArcsOn(heap, l) = {}
      BY <3>2 DEF ArcsOn
    <3>. QED  BY <3>3, FS_EmptySet DEF HandleInv, RefsInv
  <2>. QED  BY <2>1, <2>2 DEF LibraryLifetime
<1>. QED  BY <1>1, HandleInitial, HandleNextKeeps, PTL DEF HandleSpec

-----------------------------------------------------------------------------
(* The fields of a class                                                   *)

\* A type refers to types before it.
Backwards(t, j) ==
  /\ t.kind \in {"class", "enum"} => t.refs \subseteq 0 .. j - 1
  /\ t.kind = "pointer" => t.to \in 1 .. j - 1

AllTypes == UNION {Types(i) : i \in Nat}

PdbOK == pdb \in Seq(AllTypes) /\ \A j \in 1 .. Len(pdb) : Backwards(pdb[j], j)

\* The types added are ever earlier ones, and so are those still needed.
AddedInv ==
  /\ added \in Seq(Nat) /\ \A k, n \in 1 .. Len(added) : k < n => added[n] < added[k]
  /\ needed \subseteq 1 .. Len(pdb)
  /\ stage \notin {"add", "failed"} => needed = {} /\ classes = <<>> /\ added = <<>>
  /\ stage = "add" => \A n \in needed : \A k \in 1 .. Len(added) : n < added[k]

\* The class asked for, if there is one, is the last in the list.
OwnClassLast ==
  /\ classes \in Seq(Nat)
  /\ stage = "add" =>
       LET defs == Definitions(Wanted[asking].class)
       IN  IF defs = {} THEN classes = <<>> /\ needed = {}
           ELSE classes # <<>> /\ classes[Len(classes)] = Min(defs)

\* One result for each element of Wanted that is done.
ResultsInv ==
  /\ asking \in Nat /\ offsets \in Seq(Nat)
  /\ stage = "write" => offsets = <<>> /\ asking = 0
  /\ stage = "ask" => asking = Len(offsets)
  /\ stage \in {"add", "failed"} => asking = Len(offsets) + 1

OwnOffsets ==
  \A k \in 1 .. Len(offsets) :
    LET defs == Definitions(Wanted[k].class)
    IN  offsets[k] # 0 /\ defs # {} /\ Wanted[k].field \in pdb[Min(defs)].fields
        => offsets[k] = Min(defs)

PdbInv == PdbOK /\ AddedInv /\ OwnClassLast /\ ResultsInv /\ OwnOffsets

LEMMA TypesBackwards ==
  ASSUME NEW j \in Nat, NEW t \in Types(j)
  PROVE  Backwards(t, j) /\ t \in AllTypes
<1>1. t \in AllTypes
  BY DEF AllTypes
<1>2. CASE t \in Classes(j)
  BY <1>1, <1>2 DEF Classes, Backwards
<1>3. CASE t \in Forwards
  BY <1>1, <1>3 DEF Forwards, Backwards
<1>4. CASE t \in Enums
  BY <1>1, <1>4 DEF Enums, Backwards
<1>5. CASE t \in Unions
  BY <1>1, <1>5 DEF Unions, Backwards
<1>6. CASE t \in Pointers(j)
  BY <1>1, <1>6 DEF Pointers, Backwards
<1>7. CASE t \in Primitives
  BY <1>1, <1>7 DEF Primitives, Backwards
<1>. QED  BY <1>2, <1>3, <1>4, <1>5, <1>6, <1>7 DEF Types

\* What naming the type at j adds.
NameAt(b, j) ==
  IF j = 0 THEN {0}
  ELSE IF pdb[j].kind \in {"class", "enum", "union"} THEN {j}
  ELSE IF pdb[j].kind = "pointer" THEN b[pdb[j].to] ELSE {}

NamesUpTo(k, b) == b = [j \in 0 .. k |-> NameAt(b, j)]

LEMMA NamesExist ==
  ASSUME PdbOK
  PROVE  \E b : NamesUpTo(Len(pdb), b)
<1> DEFINE P(k) == k <= Len(pdb) => \E b : b = [j \in 0 .. k |-> NameAt(b, j)]
           T == {k \in Nat : ~P(k)}
<1>1. Len(pdb) \in Nat
  BY DEF PdbOK
<1>2. P(0)
  <2> DEFINE b == [j \in 0 .. 0 |-> {0}]
  <2>1. b = [j \in 0 .. 0 |-> NameAt(b, j)]
    <3> HIDE DEF b
    <3>1. \A j \in 0 .. 0 : NameAt(b, j) = {0}
      BY DEF NameAt
    <3>. QED  BY <3>1 DEF b
  <2>. QED  BY <2>1
<1>3. ASSUME NEW m \in Nat, m # 0, P(m - 1)
      PROVE  P(m)
  <2> SUFFICES ASSUME m <= Len(pdb)
               PROVE  \E c : c = [j \in 0 .. m |-> NameAt(c, j)]
    OBVIOUS
  <2>1. m - 1 \in Nat /\ m - 1 <= Len(pdb)
    BY <1>1, <1>3
  <2>2. PICK b : b = [j \in 0 .. m - 1 |-> NameAt(b, j)]
    BY <1>3, <2>1
  <2> DEFINE c == [j \in 0 .. m |-> NameAt(b, j)]
  <2>3. \A j \in 0 .. m - 1 : c[j] = b[j]
    <3>1. \A j \in 0 .. m - 1 : j \in 0 .. m /\ b[j] = NameAt(b, j)
      BY <2>2
    <3>. QED  BY <3>1
  <2>4. ASSUME NEW j \in 0 .. m
        PROVE  NameAt(b, j) = NameAt(c, j)
    <3> HIDE DEF c
    <3>1. CASE j # 0 /\ pdb[j].kind = "pointer"
      <4>1. j \in 1 .. Len(pdb)
        BY <1>1, <3>1
      <4>2. pdb[j].to \in 1 .. j - 1
        BY <3>1, <4>1 DEF PdbOK, Backwards
      <4>3. pdb[j].to \in 0 .. m - 1
        BY <4>2
      <4>. QED  BY <2>3, <3>1, <4>3 DEF NameAt
    <3>2. CASE ~(j # 0 /\ pdb[j].kind = "pointer")
      BY <3>2 DEF NameAt
    <3>. QED  BY <3>1, <3>2
  <2>5. c = [j \in 0 .. m |-> NameAt(c, j)]
    <3> DEFINE d == c
    <3>1. \A j \in 0 .. m : c[j] = NameAt(d, j)
      <4> HIDE DEF d
      <4>1. \A j \in 0 .. m : NameAt(b, j) = NameAt(d, j)
        BY <2>4 DEF d
      <4>. QED  BY <4>1
    <3>2. c = [j \in 0 .. m |-> c[j]]
      OBVIOUS
    <3> HIDE DEF c
    <3>. QED  BY <3>1, <3>2
  <2>. QED  BY <2>5
<1> HIDE DEF P
<1>4. T = {}
  <2> SUFFICES ASSUME T # {}
               PROVE  FALSE
    OBVIOUS
  <2>1. T \in SUBSET Nat
    OBVIOUS
  <2> HIDE DEF T
  <2>2. PICK m \in T : \A n \in T : m <= n
    BY <2>1, LeastPlace
  <2>3. m \in Nat /\ m # 0
    BY <1>2, <2>1, <2>2 DEF T
  <2>4. m - 1 \notin T /\ m - 1 \in Nat
    BY <2>2, <2>3
  <2>. QED  BY <1>3, <2>2, <2>3, <2>4 DEF T
<1>5. P(Len(pdb))
  BY <1>1, <1>4
<1>6. PICK b : b = [j \in 0 .. Len(pdb) |-> NameAt(b, j)]
  BY <1>1, <1>5 DEF P
<1>. QED  BY <1>6 DEF NamesUpTo

\* Naming a type needs none behind it.
LEMMA TypeNameBackwards ==
  ASSUME PdbOK, NEW i \in 0 .. Len(pdb)
  PROVE  TypeName(i) \subseteq 0 .. i
<1> DEFINE b == CHOOSE x : NamesUpTo(Len(pdb), x)
<1>1. Len(pdb) \in Nat
  BY DEF PdbOK
<1>2. TypeName(i) = b[i]
  BY DEF TypeName, NamesUpTo, NameAt
<1>3. NamesUpTo(Len(pdb), b)
  BY NamesExist
<1> HIDE DEF b
<1>4. b = [j \in 0 .. Len(pdb) |-> NameAt(b, j)]
  BY <1>3 DEF NamesUpTo
<1>5. \A j \in 0 .. Len(pdb) : b[j] = NameAt(b, j)
  BY <1>4
<1> DEFINE T == {j \in 0 .. Len(pdb) : ~(b[j] \subseteq 0 .. j)}
<1>6. T = {}
  <2> SUFFICES ASSUME T # {}
               PROVE  FALSE
    OBVIOUS
  <2>1. T \in SUBSET Nat
    OBVIOUS
  <2>2. PICK m \in T : \A n \in T : m <= n
    BY <2>1, LeastPlace
  <2>3. m \in 0 .. Len(pdb) /\ ~(b[m] \subseteq 0 .. m) /\ b[m] = NameAt(b, m)
    BY <1>5, <2>2
  <2>4. CASE m = 0
    BY <2>3, <2>4 DEF NameAt
  <2>5. CASE m # 0 /\ pdb[m].kind = "pointer"
    <3>1. m \in 1 .. Len(pdb)
      BY <2>3, <2>5
    <3>2. pdb[m].to \in 1 .. m - 1
      BY <2>5, <3>1 DEF PdbOK, Backwards
    <3> DEFINE n == pdb[m].to
    <3> HIDE DEF n
    <3>3. n \in 1 .. m - 1 /\ n \in 0 .. Len(pdb) /\ n < m
      BY <1>1, <3>1, <3>2 DEF n
    <3>4. n \notin T
      BY <2>1, <2>2, <3>3
    <3>5. b[n] \subseteq 0 .. n
      BY <3>3, <3>4
    <3>6. b[m] = b[n]
      BY <2>3, <2>5 DEF NameAt, n
    <3>. QED  BY <2>3, <3>3, <3>5, <3>6
  <2>6. CASE m # 0 /\ pdb[m].kind # "pointer"
    BY <2>3, <2>6 DEF NameAt
  <2>. QED  BY <2>4, <2>5, <2>6
<1>. QED  BY <1>2, <1>6

\* What Data::add finds in a type lies before it.
LEMMA NamesBackwards ==
  ASSUME PdbOK, NEW i \in 1 .. Len(pdb), pdb[i].kind \in {"class", "enum"}
  PROVE  Names(pdb[i].refs) \subseteq 0 .. i - 1
<1>1. pdb[i].refs \subseteq 0 .. i - 1 /\ Len(pdb) \in Nat
  BY DEF PdbOK, Backwards
<1>2. ASSUME NEW j \in pdb[i].refs
      PROVE  TypeName(j) \subseteq 0 .. i - 1
  <2>1. j \in 0 .. i - 1 /\ j \in 0 .. Len(pdb)
    BY <1>1
  <2>2. TypeName(j) \subseteq 0 .. j
    BY <2>1, TypeNameBackwards
  <2>. QED  BY <2>1, <2>2
<1>. QED  BY <1>2 DEF Names

\* A set of places has a last one.
LEMMA LastPlace ==
  ASSUME NEW K \in Nat, NEW T \in SUBSET (0 .. K), T # {}
  PROVE  Max(T) \in T /\ \A n \in T : n <= Max(T)
<1> DEFINE U == {K - n : n \in T}
<1>1. U \in SUBSET Nat /\ U # {}
  <2>1. \A n \in T : K - n \in Nat
    OBVIOUS
  <2>2. PICK t \in T : TRUE
    OBVIOUS
  <2>3. K - t \in U
    OBVIOUS
  <2>. QED  BY <2>1, <2>3
<1>2. PICK u \in U : \A v \in U : u <= v
  BY <1>1, LeastPlace
<1>3. PICK m \in T : u = K - m
  BY <1>2
<1>4. ASSUME NEW n \in T
      PROVE  n <= m
  <2>1. K - n \in U
    OBVIOUS
  <2>2. K - m <= K - n
    BY <1>2, <1>3, <2>1
  <2>3. m \in Nat /\ n \in Nat
    OBVIOUS
  <2>. QED  BY <2>2, <2>3
<1>5. \E x \in T : \A y \in T : x >= y
  BY <1>4
<1>6. Max(T) \in T /\ \A y \in T : Max(T) >= y
  BY <1>5 DEF Max
<1>. QED  BY <1>6

LEMMA FirstDefinition ==
  ASSUME PdbOK, NEW name, Definitions(name) # {}
  PROVE  Min(Definitions(name)) \in Definitions(name) /\ Min(Definitions(name)) \in 1 .. Len(pdb)
<1>1. Definitions(name) \in SUBSET Nat /\ Definitions(name) \subseteq 1 .. Len(pdb)
  BY DEF Definitions, PdbOK
<1>2. \E m \in Definitions(name) : \A n \in Definitions(name) : m <= n
  BY <1>1, LeastPlace
<1>. QED  BY <1>1, <1>2 DEF Min

\* One Data::add: the type goes behind the earlier ones, what it needs lies
\* before it, and a class goes to the front.
LEMMA AddKeeps ==
  ASSUME PdbOK, added \in Seq(Nat), classes \in Seq(Nat),
         \A k, n \in 1 .. Len(added) : k < n => added[n] < added[k],
         NEW i \in 1 .. Len(pdb), \A k \in 1 .. Len(added) : i < added[k],
         NEW rest \in SUBSET (1 .. i - 1), Add(i, rest)
  PROVE  /\ added' \in Seq(Nat) /\ \A k, n \in 1 .. Len(added') : k < n => added'[n] < added'[k]
         /\ \/ stage' = "failed" /\ needed' = needed /\ classes' = classes
            \/ /\ stage' = "add" /\ needed' \subseteq 1 .. i - 1
               /\ \A m \in needed' : \A k \in 1 .. Len(added') : m < added'[k]
               /\ classes' = IF pdb[i].kind = "class" /\ ~pdb[i].forward THEN <<i>> \o classes ELSE classes
<1> DEFINE found == IF pdb[i].kind \in {"class", "enum"} THEN Names(pdb[i].refs) ELSE {}
<1>1. Len(pdb) \in Nat /\ i \in Nat /\ Len(added) \in Nat
  BY DEF PdbOK
<1>2. added' = Append(added, i) /\ Len(added') = Len(added) + 1 /\ added' \in Seq(Nat)
      /\ added'[Len(added) + 1] = i /\ \A k \in 1 .. Len(added) : added'[k] = added[k] /\ added[k] \in Nat
  <2>1. added' = Append(added, i)
    BY DEF Add
  <2>. QED  BY <1>1, <2>1, AppendProperties
<1>3. ASSUME NEW k \in 1 .. Len(added'), NEW n \in 1 .. Len(added'), k < n
      PROVE  added'[n] < added'[k]
  <2>1. k \in 1 .. Len(added)
    BY <1>1, <1>2, <1>3
  <2>2. CASE n = Len(added) + 1
    BY <1>2, <2>1, <2>2
  <2>3. CASE n # Len(added) + 1
    <3>1. n \in 1 .. Len(added)
      BY <1>1, <1>2, <2>3
    <3>2. added[n] < added[k]
      BY <1>3, <2>1, <3>1
    <3>. QED  BY <1>2, <2>1, <3>1, <3>2
  <2>. QED  BY <2>2, <2>3
<1>4. ASSUME NEW k \in 1 .. Len(added')
      PROVE  i <= added'[k] /\ added'[k] \in Nat
  <2>1. CASE k = Len(added) + 1
    BY <1>1, <1>2, <2>1
  <2>2. CASE k # Len(added) + 1
    <3>1. k \in 1 .. Len(added)
      BY <1>1, <1>2, <2>2
    <3>2. i < added[k] /\ added'[k] = added[k] /\ added[k] \in Nat
      BY <1>2, <3>1
    <3>. QED  BY <1>1, <3>2
  <2>. QED  BY <2>1, <2>2
<1>5. found \subseteq 0 .. i - 1
  BY NamesBackwards
<1> HIDE DEF found
<1>6. \/ stage' = "failed" /\ needed' = needed /\ classes' = classes
      \/ /\ 0 \notin found /\ stage' = "add" /\ needed' = rest \cup found
         /\ classes' = IF pdb[i].kind = "class" /\ ~pdb[i].forward THEN AddClass(i) ELSE classes
  BY DEF Add, found
<1>7. CASE stage' = "failed" /\ needed' = needed /\ classes' = classes
  BY <1>2, <1>3, <1>7
<1>8. CASE /\ 0 \notin found /\ stage' = "add" /\ needed' = rest \cup found
           /\ classes' = IF pdb[i].kind = "class" /\ ~pdb[i].forward THEN AddClass(i) ELSE classes
  <2>1. \A m \in found : m \in 1 .. i - 1
    <3>1. \A m \in found : m \in 0 .. i - 1 /\ m # 0
      BY <1>5, <1>8
    <3>. QED  BY <1>1, <3>1
  <2>2. needed' \subseteq 1 .. i - 1
    BY <1>8, <2>1
  <2>3. ASSUME NEW m \in needed', NEW k \in 1 .. Len(added')
        PROVE  m < added'[k]
    <3>1. m \in Nat /\ m < i
      BY <1>1, <2>2
    <3>2. i <= added'[k] /\ added'[k] \in Nat
      BY <1>4
    <3>. QED  BY <1>1, <3>1, <3>2
  <2>. QED  BY <1>2, <1>3, <1>8, <2>2, <2>3 DEF AddClass
<1>. QED  BY <1>6, <1>7, <1>8

LEMMA PdbInitial == PdbInit => PdbInv
<1> SUFFICES ASSUME PdbInit PROVE PdbInv
  OBVIOUS
<1>1. <<>> \in Seq(AllTypes) /\ <<>> \in Seq(Nat) /\ Len(<<>>) = 0
  OBVIOUS
<1>2. PdbOK
  <2>1. pdb = <<>>
    BY DEF PdbInit
  <2>2. pdb \in Seq(AllTypes) /\ 1 .. Len(pdb) = {}
    BY <1>1, <2>1
  <2>. QED  BY <2>2 DEF PdbOK
<1>3. AddedInv
  <2>1. added = <<>> /\ needed = {} /\ classes = <<>> /\ stage = "write"
    BY DEF PdbInit
  <2>2. added \in Seq(Nat) /\ 1 .. Len(added) = {}
    BY <1>1, <2>1
  <2>. QED  BY <2>1, <2>2 DEF AddedInv
<1>4. OwnClassLast
  BY <1>1 DEF PdbInit, OwnClassLast
<1>5. ResultsInv /\ OwnOffsets
  <2>1. offsets = <<>> /\ asking = 0 /\ stage = "write"
    BY DEF PdbInit
  <2>2. offsets \in Seq(Nat) /\ 1 .. Len(offsets) = {}
    BY <1>1, <2>1
  <2>. QED  BY <2>1, <2>2 DEF ResultsInv, OwnOffsets
<1>. QED  BY <1>2, <1>3, <1>4, <1>5 DEF PdbInv

LEMMA WriteTypeKeeps ==
  ASSUME PdbInv, WriteType
  PROVE  PdbInv'
<1>1. stage = "write" /\ stage' = stage /\ UNCHANGED <<asking, needed, classes, added, offsets>>
  BY DEF WriteType
<1>2. PICK t \in Types(Len(pdb) + 1) : pdb' = Append(pdb, t)
  BY DEF WriteType
<1>3. pdb \in Seq(AllTypes) /\ Len(pdb) \in Nat /\ \A j \in 1 .. Len(pdb) : Backwards(pdb[j], j)
  BY DEF PdbInv, PdbOK
<1>4. Backwards(t, Len(pdb) + 1) /\ t \in AllTypes
  BY <1>3, TypesBackwards
<1>5. /\ pdb' \in Seq(AllTypes) /\ Len(pdb') = Len(pdb) + 1 /\ pdb'[Len(pdb) + 1] = t
      /\ \A j \in 1 .. Len(pdb) : pdb'[j] = pdb[j]
  BY <1>2, <1>3, <1>4, AppendProperties
<1>6. PdbOK'
  <2>1. ASSUME NEW j \in 1 .. Len(pdb')
        PROVE  Backwards(pdb'[j], j)
    <3>1. j = Len(pdb) + 1 \/ j \in 1 .. Len(pdb)
      BY <1>3, <1>5
    <3>. QED  BY <1>3, <1>4, <1>5, <3>1
  <2>. QED  BY <1>5, <2>1 DEF PdbOK, Backwards
<1>7. AddedInv'
  <2>1. needed' = {} /\ classes' = <<>> /\ added' = <<>> /\ added \in Seq(Nat)
    BY <1>1 DEF PdbInv, AddedInv
  <2>2. added' \in Seq(Nat) /\ 1 .. Len(added') = {}
    BY <2>1
  <2>. QED  BY <1>1, <2>1, <2>2 DEF AddedInv
<1>8. OwnClassLast'
  BY <1>1 DEF PdbInv, OwnClassLast
<1>9. ResultsInv' /\ OwnOffsets'
  <2>1. offsets' = <<>> /\ asking' = 0 /\ offsets \in Seq(Nat) /\ asking \in Nat
    BY <1>1 DEF PdbInv, ResultsInv
  <2>2. offsets' \in Seq(Nat) /\ 1 .. Len(offsets') = {}
    BY <2>1
  <2>. QED  BY <1>1, <2>1, <2>2 DEF ResultsInv, OwnOffsets
<1>. QED  BY <1>6, <1>7, <1>8, <1>9 DEF PdbInv

\* Results stay right while nothing new is known.
LEMMA OffsetsStay ==
  ASSUME OwnOffsets, UNCHANGED <<pdb, offsets>>
  PROVE  OwnOffsets'
<1>1. \A name : Definitions(name)' = Definitions(name)
  BY DEF Definitions
<1>. QED  BY <1>1 DEF OwnOffsets

LEMMA WithKeeps ==
  ASSUME PdbInv, With
  PROVE  PdbInv'
<1>0. PICK name : name = Wanted[asking + 1].class
  OBVIOUS
<1> DEFINE defs == Definitions(name)
<1>1. /\ stage = "ask" /\ asking' = asking + 1 /\ UNCHANGED <<pdb, offsets>>
      /\ \/ defs = {} /\ stage' = "add" /\ UNCHANGED <<needed, classes, added>>
         \/ defs # {} /\ Add(Min(defs), needed)
  BY <1>0 DEF With
<1>2. /\ PdbOK /\ needed = {} /\ classes = <<>> /\ added = <<>> /\ added \in Seq(Nat) /\ classes \in Seq(Nat)
      /\ asking \in Nat /\ offsets \in Seq(Nat) /\ asking = Len(offsets) /\ 1 .. Len(added) = {}
  <2>1. added = <<>> /\ needed = {} /\ classes = <<>>
    BY <1>1 DEF PdbInv, AddedInv
  <2>. QED  BY <1>1, <2>1 DEF PdbInv, AddedInv, OwnClassLast, ResultsInv
<1>3. PdbOK' /\ OwnOffsets'
  BY <1>1, OffsetsStay DEF PdbInv, PdbOK
<1>7. /\ Definitions(Wanted[asking].class)' = defs
      /\ OwnClassLast' <=>
           /\ classes' \in Seq(Nat)
           /\ stage' = "add" =>
                IF defs = {} THEN classes' = <<>> /\ needed' = {}
                ELSE classes' # <<>> /\ classes'[Len(classes')] = Min(defs)
  <2>1. Definitions(Wanted[asking].class)' = defs
    <3>1. Wanted[asking'].class = name
      BY <1>0, <1>1
    <3>. QED  BY <1>1, <3>1 DEF Definitions
  <2>. QED  BY <2>1 DEF OwnClassLast
<1>4. stage' \in {"add", "failed"} => ResultsInv'
  BY <1>1, <1>2 DEF ResultsInv
<1>5. CASE defs = {} /\ stage' = "add" /\ UNCHANGED <<needed, classes, added>>
  <2>1. AddedInv'
    BY <1>2, <1>5 DEF AddedInv
  <2>2. OwnClassLast'
    BY <1>2, <1>5, <1>7
  <2>. QED  BY <1>3, <1>4, <1>5, <2>1, <2>2 DEF PdbInv
<1>6. CASE defs # {} /\ Add(Min(defs), needed)
  <2> DEFINE i == Min(defs)
  <2>1. i \in defs /\ i \in 1 .. Len(pdb) /\ pdb[i].kind = "class" /\ ~pdb[i].forward /\ Len(pdb) \in Nat
    <3>1. i \in defs /\ i \in 1 .. Len(pdb)
      BY <1>2, <1>6, FirstDefinition
    <3> HIDE DEF i
    <3>. QED  BY <1>2, <3>1 DEF Definitions, PdbOK
  <2>2. needed \in SUBSET (1 .. i - 1) /\ \A k \in 1 .. Len(added) : i < added[k]
    BY <1>2
  <2>3. \A k, n \in 1 .. Len(added) : k < n => added[n] < added[k]
    BY <1>2
  <2> HIDE DEF i
  <2>4. Add(i, needed)
    BY <1>6 DEF i
  <2>5. /\ added' \in Seq(Nat) /\ \A k, n \in 1 .. Len(added') : k < n => added'[n] < added'[k]
        /\ \/ stage' = "failed" /\ needed' = needed /\ classes' = classes
           \/ /\ stage' = "add" /\ needed' \subseteq 1 .. i - 1
              /\ \A m \in needed' : \A k \in 1 .. Len(added') : m < added'[k]
              /\ classes' = IF pdb[i].kind = "class" /\ ~pdb[i].forward THEN <<i>> \o classes ELSE classes
    BY <1>2, <2>1, <2>2, <2>3, <2>4, AddKeeps
  <2>6. needed' \subseteq 1 .. Len(pdb') /\ stage' \in {"add", "failed"}
    <3>1. \A n \in 1 .. i - 1 : n \in 1 .. Len(pdb)
      BY <2>1
    <3>. QED  BY <1>1, <1>2, <2>5, <3>1
  <2>7. AddedInv'
    BY <2>5, <2>6 DEF AddedInv
  <2>8. classes' \in Seq(Nat) /\ (stage' = "add" => classes' # <<>> /\ classes'[Len(classes')] = i)
    <3>1. <<i>> \o <<>> = <<i>> /\ <<i>> \in Seq(Nat) /\ Len(<<i>>) = 1 /\ <<i>>[1] = i /\ <<i>> # <<>>
      BY <2>1
    <3>. QED  BY <1>2, <2>1, <2>5, <3>1
  <2>9. OwnClassLast'
    BY <1>6, <1>7, <2>8 DEF i
  <2>. QED  BY <1>3, <1>4, <2>6, <2>7, <2>9 DEF PdbInv
<1>. QED  BY <1>1, <1>5, <1>6

LEMMA AddNeededKeeps ==
  ASSUME PdbInv, AddNeeded
  PROVE  PdbInv'
<1> DEFINE i == Max(needed)
<1>1. stage = "add" /\ needed # {} /\ Add(i, needed \ {i}) /\ UNCHANGED <<pdb, asking, offsets>>
  BY DEF AddNeeded
<1>2. /\ PdbOK /\ Len(pdb) \in Nat /\ added \in Seq(Nat) /\ classes \in Seq(Nat)
      /\ needed \subseteq 1 .. Len(pdb)
      /\ \A k, n \in 1 .. Len(added) : k < n => added[n] < added[k]
      /\ \A n \in needed : \A k \in 1 .. Len(added) : n < added[k]
  BY <1>1 DEF PdbInv, AddedInv, OwnClassLast, PdbOK
<1>3. needed \in SUBSET (0 .. Len(pdb))
  BY <1>2
<1>4. i \in needed /\ \A n \in needed : n <= i
  BY <1>1, <1>2, <1>3, LastPlace
<1>5. needed \ {i} \in SUBSET (1 .. i - 1) /\ i \in 1 .. Len(pdb)
  <2>1. \A n \in needed \ {i} : n \in 1 .. i - 1
    <3> HIDE DEF i
    <3>1. \A n \in needed \ {i} : n \in Nat /\ n >= 1 /\ n <= i /\ n # i
      BY <1>2, <1>4
    <3>2. i \in Nat
      BY <1>2, <1>4
    <3>. QED  BY <3>1, <3>2
  <2>. QED  BY <1>2, <1>4, <2>1
<1>6. \A k \in 1 .. Len(added) : i < added[k]
  BY <1>2, <1>4
<1> DEFINE defs == Definitions(Wanted[asking].class)
<1>7. defs # {} /\ classes # <<>> /\ classes[Len(classes)] = Min(defs)
  BY <1>1 DEF PdbInv, OwnClassLast
<1> DEFINE rest == needed \ {i}
<1> HIDE DEF i, rest
<1>8. rest \in SUBSET (1 .. i - 1) /\ Add(i, rest)
  BY <1>1, <1>5 DEF rest
<1>9. /\ added' \in Seq(Nat) /\ \A k, n \in 1 .. Len(added') : k < n => added'[n] < added'[k]
      /\ \/ stage' = "failed" /\ needed' = needed /\ classes' = classes
         \/ /\ stage' = "add" /\ needed' \subseteq 1 .. i - 1
            /\ \A m \in needed' : \A k \in 1 .. Len(added') : m < added'[k]
            /\ classes' = IF pdb[i].kind = "class" /\ ~pdb[i].forward THEN <<i>> \o classes ELSE classes
  BY <1>2, <1>5, <1>6, <1>8, AddKeeps
<1>10. needed' \subseteq 1 .. Len(pdb') /\ stage' \in {"add", "failed"}
  <2>1. \A n \in 1 .. i - 1 : n \in 1 .. Len(pdb)
    BY <1>2, <1>5
  <2>. QED  BY <1>1, <1>2, <1>9, <2>1
<1>11. AddedInv'
  BY <1>9, <1>10 DEF AddedInv
<1>12. classes' \in Seq(Nat) /\ classes' # <<>> /\ classes'[Len(classes')] = classes[Len(classes)]
  <2>1. CASE classes' = classes
    BY <1>2, <1>7, <2>1
  <2>2. CASE classes' = <<i>> \o classes
    <3>1. i \in Nat /\ Len(classes) \in Nat /\ Len(classes) # 0
      BY <1>2, <1>5, <1>7, EmptySeq
    <3>2. <<i>> \in Seq(Nat) /\ Len(<<i>>) = 1
      BY <3>1
    <3> DEFINE s == <<i>>
    <3> HIDE DEF s
    <3>3. s \in Seq(Nat) /\ Len(s) = 1 /\ classes' = s \o classes
      BY <2>2, <3>2 DEF s
    <3>4. s \o classes \in Seq(Nat) /\ Len(s \o classes) = Len(classes) + 1
      <4> DEFINE c == classes
      <4> HIDE DEF c
      <4>1. c \in Seq(Nat) /\ Len(c) \in Nat
        BY <1>2, <3>1 DEF c
      <4>2. s \o c \in Seq(Nat) /\ Len(s \o c) = Len(s) + Len(c)
        BY <3>3, <4>1, ConcatProperties
      <4>3. Len(s \o c) = Len(c) + 1
        BY <3>3, <4>1, <4>2
      <4>. QED  BY <4>2, <4>3 DEF c
    <3>5. (s \o classes)[Len(classes) + 1] = classes[Len(classes)]
      <4>1. Len(classes) + 1 \in 1 .. Len(s) + Len(classes) /\ ~(Len(classes) + 1 <= Len(s))
            /\ (Len(classes) + 1) - Len(s) = Len(classes)
        BY <3>1, <3>3
      <4>2. \A k \in 1 .. Len(s) + Len(classes) :
              (s \o classes)[k] = IF k <= Len(s) THEN s[k] ELSE classes[k - Len(s)]
        BY <1>2, <3>3, ConcatProperties
      <4>. QED  BY <4>1, <4>2
    <3>6. s \o classes # <<>>
      BY <3>1, <3>4
    <3>. QED  BY <3>3, <3>4, <3>5, <3>6
  <2>. QED  BY <1>9, <2>1, <2>2
<1>13. OwnClassLast'
  <2>1. Definitions(Wanted[asking].class)' = defs /\ asking' = asking
    BY <1>1 DEF Definitions
  <2>. QED  BY <1>7, <1>12, <2>1 DEF OwnClassLast
<1>14. ResultsInv'
  BY <1>1, <1>10 DEF PdbInv, ResultsInv
<1>15. PdbOK' /\ OwnOffsets'
  BY <1>1, OffsetsStay DEF PdbInv, PdbOK
<1>. QED  BY <1>11, <1>13, <1>14, <1>15 DEF PdbInv

\* One more result, with what was collected dropped.
LEMMA ResultKeeps ==
  ASSUME PdbInv, stage \in {"add", "failed"}, UNCHANGED <<pdb, asking>>, Drop,
         NEW o \in Nat,
         \/ stage' = "err" /\ offsets' = offsets
         \/ stage' = "ask" /\ offsets' = Append(offsets, o),
         LET defs == Definitions(Wanted[asking].class)
         IN  o # 0 /\ defs # {} /\ Wanted[asking].field \in pdb[Min(defs)].fields => o = Min(defs)
  PROVE  PdbInv'
<1>1. offsets \in Seq(Nat) /\ asking \in Nat /\ asking = Len(offsets) + 1 /\ Len(offsets) \in Nat
  BY DEF PdbInv, ResultsInv
<1>2. PdbOK'
  BY DEF PdbInv, PdbOK
<1>3. AddedInv'
  <2>1. needed' = {} /\ classes' = <<>> /\ added' = <<>> /\ added \in Seq(Nat)
    BY DEF Drop, PdbInv, AddedInv
  <2>2. added' \in Seq(Nat) /\ 1 .. Len(added') = {}
    BY <2>1
  <2>. QED  BY <2>1, <2>2 DEF AddedInv
<1>4. OwnClassLast'
  <2>1. classes' = <<>>
    BY DEF Drop
  <2>2. classes' \in Seq(Nat)
    BY <2>1
  <2>. QED  BY <2>2 DEF OwnClassLast
<1>5. CASE stage' = "err" /\ offsets' = offsets
  <2>1. ResultsInv'
    BY <1>1, <1>5 DEF ResultsInv
  <2>2. OwnOffsets'
    BY <1>5, OffsetsStay DEF PdbInv
  <2>. QED  BY <1>2, <1>3, <1>4, <2>1, <2>2 DEF PdbInv
<1>6. CASE stage' = "ask" /\ offsets' = Append(offsets, o)
  <2>1. /\ offsets' \in Seq(Nat) /\ Len(offsets') = Len(offsets) + 1 /\ offsets'[Len(offsets) + 1] = o
        /\ \A k \in 1 .. Len(offsets) : offsets'[k] = offsets[k]
    BY <1>1, <1>6, AppendProperties
  <2>2. ResultsInv'
    BY <1>1, <1>6, <2>1 DEF ResultsInv
  <2>3. \A name : Definitions(name)' = Definitions(name)
    BY DEF Definitions
  <2>4. ASSUME NEW k \in 1 .. Len(offsets'),
               offsets'[k] # 0, Definitions(Wanted[k].class) # {},
               Wanted[k].field \in pdb[Min(Definitions(Wanted[k].class))].fields
        PROVE  offsets'[k] = Min(Definitions(Wanted[k].class))
    <3>1. CASE k = Len(offsets) + 1
      BY <1>1, <2>1, <2>4, <3>1
    <3>2. CASE k # Len(offsets) + 1
      <4>1. k \in 1 .. Len(offsets)
        BY <1>1, <2>1, <3>2
      <4>. QED  BY <2>1, <2>4, <4>1 DEF PdbInv, OwnOffsets
    <3>. QED  BY <3>1, <3>2
  <2>5. OwnOffsets'
    BY <2>3, <2>4 DEF OwnOffsets
  <2>. QED  BY <1>2, <1>3, <1>4, <2>2, <2>5 DEF PdbInv
<1>. QED  BY <1>5, <1>6

LEMMA TakeOffsetKeeps ==
  ASSUME PdbInv, TakeOffset
  PROVE  PdbInv'
<1> DEFINE field == Wanted[asking].field
           o == FindField(field)
           having == {k \in DOMAIN classes : field \in pdb[classes[k]].fields}
           defs == Definitions(Wanted[asking].class)
<1>1. /\ stage = "add" /\ UNCHANGED <<pdb, asking>> /\ Drop
      /\ \/ stage' = "err" /\ offsets' = offsets
         \/ stage' = "ask" /\ offsets' = Append(offsets, o)
  BY DEF TakeOffset
<1>2. classes \in Seq(Nat) /\ DOMAIN classes = 1 .. Len(classes) /\ Len(classes) \in Nat
  BY DEF PdbInv, OwnClassLast
<1>3. o = IF having = {} THEN 0 ELSE classes[Max(having)]
  BY DEF FindField
<1>4. having # {} => Max(having) \in having /\ \A n \in having : n <= Max(having)
  <2>1. having \in SUBSET (0 .. Len(classes))
    BY <1>2
  <2> HIDE DEF having
  <2>. QED  BY <1>2, <2>1, LastPlace
<1>5. having \subseteq 1 .. Len(classes)
  BY <1>2
<1>6. \A k \in 1 .. Len(classes) : classes[k] \in Nat
  BY <1>2
<1>7. o \in Nat
  <2> HIDE DEF o, having
  <2>. QED  BY <1>3, <1>4, <1>5, <1>6
<1>8. ASSUME defs # {}, field \in pdb[Min(defs)].fields
      PROVE  o = Min(defs)
  <2>1. classes # <<>> /\ classes[Len(classes)] = Min(defs)
    BY <1>1, <1>8 DEF PdbInv, OwnClassLast
  <2>2. Len(classes) \in 1 .. Len(classes)
    BY <1>2, <2>1, EmptySeq
  <2>3. Len(classes) \in having
    BY <1>2, <1>8, <2>1, <2>2
  <2> HIDE DEF having, o, defs
  <2>4. Max(having) \in having /\ Len(classes) <= Max(having)
    BY <1>4, <2>3
  <2>5. Max(having) = Len(classes)
    <3>1. Max(having) \in 1 .. Len(classes)
      BY <1>5, <2>4
    <3>. QED  BY <1>2, <2>4, <3>1
  <2>. QED  BY <1>3, <2>1, <2>3, <2>5
<1> HIDE DEF o
<1>. QED  BY <1>1, <1>7, <1>8, ResultKeeps

LEMMA WithFailedKeeps ==
  ASSUME PdbInv, WithFailed
  PROVE  PdbInv'
<1>1. /\ stage = "failed" /\ UNCHANGED <<pdb, asking>> /\ Drop
      /\ \/ stage' = "err" /\ offsets' = offsets
         \/ stage' = "ask" /\ offsets' = Append(offsets, 0)
  BY DEF WithFailed
<1>2. 0 \in Nat
  OBVIOUS
<1>. QED  BY <1>1, <1>2, ResultKeeps

\* A step between the stages that collects nothing.
LEMMA StageKeeps ==
  ASSUME PdbInv, UNCHANGED <<pdb, asking, needed, classes, added, offsets>>,
         stage' = stage \/ (stage = "write" /\ stage' = "ask") \/ (stage = "ask" /\ stage' = "ok")
  PROVE  PdbInv'
<1>1. PdbOK' /\ OwnOffsets'
  BY OffsetsStay DEF PdbInv, PdbOK
<1>2. AddedInv'
  BY DEF PdbInv, AddedInv
<1>3. OwnClassLast'
  <2>1. \A name : Definitions(name)' = Definitions(name)
    BY DEF Definitions
  <2>. QED  BY <2>1 DEF PdbInv, OwnClassLast
<1>4. ResultsInv'
  <2>1. offsets = <<>> => Len(offsets) = 0
    OBVIOUS
  <2>. QED  BY <2>1 DEF PdbInv, ResultsInv
<1>. QED  BY <1>1, <1>2, <1>3, <1>4 DEF PdbInv

\* In a PDB of any size each type is added once, and a field of the class
\* that was asked for is found there, not in a class it contains.
THEOREM PdbOwnFieldWins == PdbSpec => []OwnFieldWins
<1>1. PdbInv => OwnFieldWins
  <2> SUFFICES ASSUME PdbInv
               PROVE  OwnFieldWins
    OBVIOUS
  <2>1. added \in Seq(Nat) /\ DOMAIN added = 1 .. Len(added) /\ Len(added) \in Nat
        /\ \A k, n \in 1 .. Len(added) : k < n => added[n] < added[k]
    BY DEF PdbInv, AddedInv
  <2>2. IsInjective(added)
    <3> SUFFICES ASSUME NEW k \in 1 .. Len(added), NEW n \in 1 .. Len(added), added[k] = added[n]
                 PROVE  k = n
      BY <2>1 DEF IsInjective
    <3>1. added[k] \in Nat /\ added[n] \in Nat
      BY <2>1
    <3>. QED  BY <2>1, <3>1
  <2>. QED  BY <2>2 DEF OwnFieldWins, PdbInv, OwnOffsets
<1>2. PdbInv /\ [PdbNext]_pdbVars => PdbInv'
  <2> SUFFICES ASSUME PdbInv, [PdbNext]_pdbVars
               PROVE  PdbInv'
    OBVIOUS
  <2>1. CASE OpenPdb
    BY <2>1, StageKeeps DEF OpenPdb
  <2>2. CASE FromPdbDone
    BY <2>2, StageKeeps DEF FromPdbDone
  <2>3. CASE UNCHANGED pdbVars
    BY <2>3, StageKeeps DEF pdbVars
  <2>. QED  BY <2>1, <2>2, <2>3, WriteTypeKeeps, WithKeeps, AddNeededKeeps, TakeOffsetKeeps,
               WithFailedKeeps DEF PdbNext
<1>. QED  BY <1>1, <1>2, PdbInitial, PTL DEF PdbSpec

-----------------------------------------------------------------------------
(* The pages of the test memory                                            *)

\* The addresses in a page.
Covers(p) == p.addr .. p.addr + p.size - 1

\* Pages that lie apart and fill a memory of n.
Tiles(pages, n) ==
  /\ \A p \in pages : p.addr \in Nat /\ p.size \in {P4k, P2m, P1g} /\ Covers(p) \subseteq 0 .. n - 1
  /\ \A u \in 0 .. n - 1 : \E p \in pages : u \in Covers(p)
  /\ \A p, q \in pages : \A u \in Nat : u \in Covers(p) /\ u \in Covers(q) => p = q

LEMMA Times ==
  ASSUME NEW a \in Nat, NEW b \in Nat, NEW c \in Nat, a <= b
  PROVE  c * a <= c * b /\ c * a \in Nat
<1>1. \A x, y, z \in Nat : x <= y => z * x <= z * y
  BY Z3
<1>. QED  BY <1>1

\* Blocks of d addresses: each address is in one of them.
LEMMA Blocks ==
  ASSUME NEW d \in Nat \ {0}, NEW v \in Nat
  PROVE  /\ v \div d \in Nat /\ v % d \in 0 .. d - 1 /\ v = d * (v \div d) + (v % d)
         /\ \A k \in Nat : d * k <= v /\ v < d * k + d => k = v \div d
         /\ \A k \in Nat, r \in 0 .. d - 1 : v = d * k + r => v \div d = k /\ v % d = r
<1>1. v \div d \in Nat /\ v % d \in 0 .. d - 1 /\ v = d * (v \div d) + (v % d)
  OBVIOUS
<1> DEFINE q == v \div d
           m == v % d
<1>2. q \in Nat /\ m \in 0 .. d - 1 /\ v = d * q + m
  BY <1>1
<1> HIDE DEF q, m
<1>3. ASSUME NEW k \in Nat, d * k <= v, v < d * k + d
      PROVE  k = q
  <2>1. CASE k < q
    <3>1. k + 1 \in Nat /\ k + 1 <= q
      BY <1>2, <2>1
    <3>2. d * (k + 1) <= d * q
      BY <1>2, <3>1, Times
    <3>3. d * (k + 1) = d * k + d
      OBVIOUS
    <3>. QED  BY <1>2, <1>3, <3>2, <3>3
  <2>2. CASE q < k
    <3>1. q + 1 \in Nat /\ q + 1 <= k
      BY <1>2, <2>2
    <3>2. d * (q + 1) <= d * k
      BY <1>2, <3>1, Times
    <3>3. d * (q + 1) = d * q + d
      BY <1>2
    <3>. QED  BY <1>2, <1>3, <3>2, <3>3
  <2>. QED  BY <1>2, <2>1, <2>2
<1>4. ASSUME NEW k \in Nat, NEW r \in 0 .. d - 1, v = d * k + r
      PROVE  q = k /\ m = r
  <2>1. d * k \in Nat
    OBVIOUS
  <2>2. d * k <= v /\ v < d * k + d
    BY <1>4, <2>1
  <2>3. k = q
    BY <1>3, <2>2
  <2>. QED  BY <1>2, <1>4, <2>1, <2>3
<1>. QED  BY <1>1, <1>3, <1>4 DEF q, m

LEMMA Division ==
  ASSUME NEW d \in Nat \ {0}, NEW v \in Nat
  PROVE  v \div d \in Nat /\ v % d \in Nat /\ v % d < d /\ v = d * (v \div d) + (v % d)
<1>1. v \div d \in Nat /\ v % d \in 0 .. d - 1 /\ v = d * (v \div d) + (v % d)
  BY Blocks
<1> DEFINE m == v % d
<1>2. m \in 0 .. d - 1
  BY <1>1
<1> HIDE DEF m
<1>3. m \in Nat /\ m < d
  BY <1>2
<1>. QED  BY <1>1, <1>3 DEF m

LEMMA PageSizes ==
  /\ Ratio \in Nat /\ Ratio >= 2 /\ P2m \in Nat /\ P2m >= 2 /\ P1g \in Nat /\ P1g >= 2
  /\ P4k = 1 /\ P2m = Ratio * P4k /\ P1g = Ratio * P2m
  /\ P2m \div Ratio = P4k /\ P1g \div Ratio = P2m
  /\ P2m \div P4k = Ratio /\ P1g \div P2m = Ratio
<1>1. Ratio \in Nat /\ Ratio >= 2 /\ Ratio \in Nat \ {0}
  BY DummyAssumption
<1>2. P2m = Ratio /\ P1g = Ratio * Ratio /\ P4k = 1
  BY DEF P2m, P1g, P4k
<1>3. Ratio * Ratio \in Nat /\ Ratio * 2 <= Ratio * Ratio
  BY <1>1, Times
<1>4. (Ratio * Ratio) \div Ratio = Ratio
  <2>1. Ratio * Ratio = Ratio * Ratio + 0 /\ 0 \in 0 .. Ratio - 1
    BY <1>1, <1>3
  <2>. QED  BY <1>1, <1>3, <2>1, Blocks
<1>5. Ratio \div Ratio = 1
  <2>1. Ratio = Ratio * 1 + 0 /\ 0 \in 0 .. Ratio - 1 /\ 1 \in Nat
    BY <1>1
  <2>. QED  BY <1>1, <2>1, Blocks
<1>6. Ratio \div 1 = Ratio
  BY <1>1
<1>. QED  BY <1>1, <1>2, <1>3, <1>4, <1>5, <1>6


\* A page of a larger size is cut into pages of the next smaller one.
LEMMA PieceOfPage ==
  ASSUME NEW p, p.addr \in Nat, p.size \in {P2m, P1g}
  PROVE  LET t == p.size \div Ratio
         IN  /\ t \in {P4k, P2m} /\ t \in Nat \ {0} /\ p.size = t * Ratio /\ p.size \div t = Ratio
             /\ p.size \in Nat /\ Ratio \in Nat
             /\ SplitDown(p) = {Page(p.addr + t * (o - 1), t) : o \in 1 .. Ratio}
<1> DEFINE t == p.size \div Ratio
<1>1. t \in {P4k, P2m} /\ t \in Nat \ {0} /\ p.size = t * Ratio /\ p.size \div t = Ratio
      /\ p.size \in Nat /\ Ratio \in Nat
  <2>1. CASE p.size = P2m
    BY <2>1, PageSizes
  <2>2. CASE p.size = P1g
    <3>1. P1g = P2m * Ratio
      BY PageSizes
    <3>. QED  BY <2>2, <3>1, PageSizes
  <2>. QED  BY <2>1, <2>2
<1> HIDE DEF t
<1>2. SplitDown(p) = {SplitToSize(p, t)[o] : o \in DOMAIN SplitToSize(p, t)}
  BY DEF SplitDown, ToSet, t
<1>3. SplitToSize(p, t) = [o \in 1 .. Ratio |-> Page(p.addr + t * (o - 1), t)]
  BY <1>1 DEF SplitToSize
<1>4. SplitDown(p) = {Page(p.addr + t * (o - 1), t) : o \in 1 .. Ratio}
  BY <1>2, <1>3
<1>. QED  BY <1>1, <1>4 DEF t

LEMMA SplitTiles ==
  ASSUME NEW p, p.addr \in Nat, p.size \in {P2m, P1g}
  PROVE  /\ \A q \in SplitDown(p) : q.addr \in Nat /\ q.size \in {P4k, P2m} /\ Covers(q) \subseteq Covers(p)
         /\ \A u \in Covers(p) : \E q \in SplitDown(p) : u \in Covers(q)
         /\ \A q, r \in SplitDown(p) : \A u \in Nat : u \in Covers(q) /\ u \in Covers(r) => q = r
<1> DEFINE t == p.size \div Ratio
           a == p.addr
<1>1. t \in {P4k, P2m} /\ t \in Nat \ {0} /\ p.size = t * Ratio /\ p.size \in Nat /\ Ratio \in Nat
  BY PieceOfPage
<1>2. SplitDown(p) = {Page(a + t * (o - 1), t) : o \in 1 .. Ratio}
  BY PieceOfPage
<1> HIDE DEF t, a
<1>3. a = p.addr /\ a \in Nat
  BY DEF a
<1> DEFINE piece(k) == Page(a + t * k, t)
<1>4. \A q \in SplitDown(p) : \E k \in 0 .. Ratio - 1 : q = piece(k)
  <2> SUFFICES ASSUME NEW o \in 1 .. Ratio
               PROVE  \E k \in 0 .. Ratio - 1 : Page(a + t * (o - 1), t) = piece(k)
    BY <1>2
  <2>1. o - 1 \in 0 .. Ratio - 1
    BY <1>1
  <2>. QED  BY <2>1
<1>5. \A k \in 0 .. Ratio - 1 : piece(k) \in SplitDown(p)
  <2> SUFFICES ASSUME NEW k \in 0 .. Ratio - 1
               PROVE  \E o \in 1 .. Ratio : piece(k) = Page(a + t * (o - 1), t)
    BY <1>2
  <2>1. k + 1 \in 1 .. Ratio /\ (k + 1) - 1 = k
    BY <1>1
  <2>. QED  BY <2>1
<1>6. ASSUME NEW k \in 0 .. Ratio - 1
      PROVE  /\ piece(k).addr = a + t * k /\ piece(k).size = t /\ t * k \in Nat
             /\ Covers(piece(k)) = a + t * k .. (a + t * k) + t - 1
             /\ t * k + t <= p.size
  <2>1. t * k \in Nat
    BY <1>1
  <2>2. k + 1 \in Nat /\ k + 1 <= Ratio /\ k \in Nat
    BY <1>1
  <2>3. t * (k + 1) <= t * Ratio /\ t * (k + 1) = t * k + t
    BY <1>1, <2>2, Times
  <2>4. piece(k).addr = a + t * k /\ piece(k).size = t
    BY DEF Page
  <2>. QED  BY <1>1, <2>1, <2>3, <2>4 DEF Covers
<1> HIDE DEF piece
<1>7. ASSUME NEW q \in SplitDown(p)
      PROVE  q.addr \in Nat /\ q.size \in {P4k, P2m} /\ Covers(q) \subseteq Covers(p)
  <2>1. PICK k \in 0 .. Ratio - 1 : q = piece(k)
    BY <1>4
  <2>2. q.addr = a + t * k /\ q.size = t /\ t * k \in Nat /\ t * k + t <= p.size
        /\ Covers(q) = a + t * k .. (a + t * k) + t - 1
    BY <1>6, <2>1
  <2>3. \A u \in Covers(q) : u \in a .. a + p.size - 1
    <3> DEFINE x == t * k
    <3>1. x \in Nat /\ x + t <= p.size /\ Covers(q) = a + x .. (a + x) + t - 1
      BY <2>2
    <3> HIDE DEF x
    <3>. QED  BY <1>1, <1>3, <3>1
  <2>. QED  BY <1>1, <1>3, <2>2, <2>3 DEF Covers
<1>8. ASSUME NEW u \in Covers(p)
      PROVE  \E q \in SplitDown(p) : u \in Covers(q)
  <2> DEFINE v == u - a
             k == v \div t
  <2>1. v \in Nat /\ v < t * Ratio /\ u = a + v
    BY <1>1, <1>3 DEF Covers
  <2> HIDE DEF v
  <2>2. k \in Nat /\ v % t \in 0 .. t - 1 /\ v = t * k + (v % t)
    BY <1>1, <2>1, Blocks
  <2> HIDE DEF k
  <2>3. k < Ratio
    <3> SUFFICES ASSUME Ratio <= k
                 PROVE  FALSE
      BY <1>1, <2>2
    <3>1. t * Ratio <= t * k /\ t * k \in Nat
      BY <1>1, <2>2, Times
    <3>. QED  BY <1>1, <2>1, <2>2, <3>1
  <2>4. k \in 0 .. Ratio - 1
    BY <1>1, <2>2, <2>3
  <2>5. u \in Covers(piece(k))
    <3>1. t * k \in Nat /\ Covers(piece(k)) = a + t * k .. (a + t * k) + t - 1
      BY <1>6, <2>4
    <3>. QED  BY <1>1, <1>3, <2>1, <2>2, <3>1
  <2>. QED  BY <1>5, <2>4, <2>5
<1>9. ASSUME NEW q \in SplitDown(p), NEW r \in SplitDown(p), NEW u \in Nat, u \in Covers(q), u \in Covers(r)
      PROVE  q = r
  <2>1. PICK k \in 0 .. Ratio - 1 : q = piece(k)
    BY <1>4
  <2>2. PICK j \in 0 .. Ratio - 1 : r = piece(j)
    BY <1>4
  <2>3. /\ t * k \in Nat /\ a + t * k <= u /\ u < (a + t * k) + t
        /\ t * j \in Nat /\ a + t * j <= u /\ u < (a + t * j) + t
    <3>1. ASSUME NEW i \in 0 .. Ratio - 1, u \in Covers(piece(i))
          PROVE  t * i \in Nat /\ a + t * i <= u /\ u < (a + t * i) + t
      <4> DEFINE x == t * i
      <4>1. x \in Nat /\ u \in a + x .. (a + x) + t - 1
        BY <1>6, <3>1
      <4> HIDE DEF x
      <4>2. x \in Nat /\ a + x <= u /\ u < (a + x) + t
        BY <1>1, <1>3, <4>1
      <4>. QED  BY <4>2 DEF x
    <3>. QED  BY <1>9, <2>1, <2>2, <3>1
  <2> DEFINE v == u - a
  <2>4. v \in Nat /\ t * k <= v /\ v < t * k + t /\ t * j <= v /\ v < t * j + t
    BY <1>1, <1>3, <2>3
  <2> HIDE DEF v
  <2>5. k \in Nat /\ j \in Nat
    OBVIOUS
  <2>6. k = v \div t /\ j = v \div t
    BY <1>1, <2>4, <2>5, Blocks
  <2>. QED  BY <2>1, <2>2, <2>6
<1>. QED  BY <1>7, <1>8, <1>9

\* A round leaves pages that lie apart and fill the memory.
LEMMA RoundTiles ==
  ASSUME NEW pages, NEW n \in Nat, Tiles(pages, n), NEW before, NEW chosen \in Splits(pages, before)
  PROVE  Tiles(RoundOf(pages, chosen), n)
<1>1. chosen \subseteq pages /\ \A p \in chosen : p.size # P4k
  BY DEF Splits
<1>2. \A p \in pages : p.addr \in Nat /\ p.size \in {P4k, P2m, P1g} /\ Covers(p) \subseteq 0 .. n - 1
  BY DEF Tiles
<1>3. \A p \in chosen : p.addr \in Nat /\ p.size \in {P2m, P1g}
  BY <1>1, <1>2
<1>4. \A p, q \in pages : \A u \in Nat : u \in Covers(p) /\ u \in Covers(q) => p = q
  BY DEF Tiles
<1> DEFINE new == RoundOf(pages, chosen)
<1>5. \A q \in new : q \in pages \ chosen \/ \E p \in chosen : q \in SplitDown(p)
  BY DEF RoundOf
<1>6. \A q : q \in pages \ chosen \/ (\E p \in chosen : q \in SplitDown(p)) => q \in new
  BY DEF RoundOf
<1> HIDE DEF new
\* every page lies within an old one
<1>7. ASSUME NEW q \in new
      PROVE  /\ q.addr \in Nat /\ q.size \in {P4k, P2m, P1g}
             /\ \E p \in pages : /\ Covers(q) \subseteq Covers(p)
                                 /\ IF p \in chosen THEN q \in SplitDown(p) ELSE q = p
  <2>1. CASE q \in pages \ chosen
    BY <1>2, <2>1
  <2>2. CASE \E p \in chosen : q \in SplitDown(p)
    <3>1. PICK p \in chosen : q \in SplitDown(p)
      BY <2>2
    <3>2. q.addr \in Nat /\ q.size \in {P4k, P2m} /\ Covers(q) \subseteq Covers(p)
      BY <1>3, <3>1, SplitTiles
    <3>. QED  BY <1>1, <3>1, <3>2
  <2>. QED  BY <1>5, <2>1, <2>2
<1>8. \A q \in new : Covers(q) \subseteq 0 .. n - 1
  BY <1>2, <1>7
<1>9. ASSUME NEW u \in 0 .. n - 1
      PROVE  \E q \in new : u \in Covers(q)
  <2>1. PICK p \in pages : u \in Covers(p)
    BY DEF Tiles
  <2>2. CASE p \in chosen
    <3>1. \E q \in SplitDown(p) : u \in Covers(q)
      BY <1>3, <2>1, <2>2, SplitTiles
    <3>. QED  BY <1>6, <2>2, <3>1
  <2>3. CASE p \notin chosen
    BY <1>6, <2>1, <2>3
  <2>. QED  BY <2>2, <2>3
<1>10. ASSUME NEW q \in new, NEW r \in new, NEW u \in Nat, u \in Covers(q), u \in Covers(r)
       PROVE  q = r
  <2>1. PICK p \in pages : Covers(q) \subseteq Covers(p) /\ IF p \in chosen THEN q \in SplitDown(p) ELSE q = p
    BY <1>7
  <2>2. PICK o \in pages : Covers(r) \subseteq Covers(o) /\ IF o \in chosen THEN r \in SplitDown(o) ELSE r = o
    BY <1>7
  <2>3. p = o
    BY <1>4, <1>10, <2>1, <2>2
  <2>4. CASE p \in chosen
    <3>1. q \in SplitDown(p) /\ r \in SplitDown(p)
      BY <2>1, <2>2, <2>3, <2>4
    <3>. QED  BY <1>3, <1>10, <2>4, <3>1, SplitTiles
  <2>5. CASE p \notin chosen
    BY <2>1, <2>2, <2>3, <2>5
  <2>. QED  BY <2>4, <2>5
<1>11. Tiles(new, n)
  BY <1>7, <1>8, <1>9, <1>10 DEF Tiles
<1>. QED  BY <1>11 DEF new

\* So do the pages of with_rng before the rounds.
LEMMA PrelistTiles ==
  ASSUME NEW n \in Nat
  PROVE  Tiles(PagePrelist(n), n)
<1> DEFINE L == n \div P1g
           m == n % P1g
           M == m \div P2m
           s == m % P2m
           Large == {Page(P1g * k, P1g) : k \in 0 .. L - 1}
           Middle == {Page(L * P1g + P2m * k, P2m) : k \in 0 .. M - 1}
           Small == {Page((L * P1g + M * P2m) + k, P4k) : k \in 0 .. s - 1}
<1>1. P1g \in Nat \ {0} /\ P2m \in Nat \ {0} /\ P4k = 1 /\ Ratio \in Nat /\ P1g = Ratio * P2m
  BY PageSizes
<1>2. L \in Nat /\ m \in Nat /\ m < P1g /\ n = P1g * L + m
  BY <1>1, Division
<1>3. M \in Nat /\ s \in Nat /\ s < P2m /\ m = P2m * M + s
  <2>1. m \in Nat
    BY <1>2
  <2> HIDE DEF m
  <2>. QED  BY <1>1, <2>1, Division
<1>4. n % P2m = s
  <2> HIDE DEF L, M, m, s
  <2> DEFINE q == Ratio * L + M
  <2>1. q \in Nat /\ P2m * q = P1g * L + P2m * M
    <3>1. Ratio * L \in Nat
      BY <1>1, <1>2
    <3>2. P2m * (Ratio * L + M) = P2m * (Ratio * L) + P2m * M
      <4>1. \A x, y, z \in Nat : x * (y + z) = x * y + x * z
        BY Z3
      <4>. QED  BY <1>1, <1>3, <3>1, <4>1
    <3>3. P2m * (Ratio * L) = (Ratio * P2m) * L
      <4>1. \A x, y, z \in Nat : x * (y * z) = (y * x) * z
        BY Z3
      <4>. QED  BY <1>1, <1>2, <4>1
    <3>. QED  BY <1>1, <1>3, <3>1, <3>2, <3>3
  <2> HIDE DEF q
  <2>2. n = P2m * q + s /\ s \in 0 .. P2m - 1
    <3>1. P1g * L \in Nat /\ P2m * M \in Nat
      BY <1>1, <1>2, <1>3
    <3>. QED  BY <1>1, <1>2, <1>3, <2>1, <3>1
  <2>3. \A k \in Nat, r \in 0 .. P2m - 1 : n = P2m * k + r => n \div P2m = k /\ n % P2m = r
    BY <1>1, Blocks
  <2>4. q \in Nat /\ n = P2m * q + s /\ s \in 0 .. P2m - 1
    BY <2>1, <2>2
  <2>. QED  BY <2>3, <2>4
<1>5. PagePrelist(n) = (Large \cup Middle) \cup Small
  BY <1>4 DEF PagePrelist
<1> DEFINE A == P1g * L
           B == P2m * M
<1>6. A \in Nat /\ B \in Nat /\ L * P1g = A /\ M * P2m = B /\ n = (A + B) + s
  <2> HIDE DEF L, M, m, s
  <2>1. A \in Nat /\ B \in Nat
    BY <1>1, <1>2, <1>3
  <2>2. L * P1g = A /\ M * P2m = B
    BY <1>1, <1>2, <1>3
  <2> HIDE DEF A, B
  <2>3. n = A + m /\ m = B + s
    BY <1>2, <1>3 DEF A, B
  <2>. QED  BY <1>2, <1>3, <2>1, <2>2, <2>3
<1>7. /\ \A p \in Large : \E k \in 0 .. L - 1 : p = Page(P1g * k, P1g)
      /\ \A p \in Middle : \E k \in 0 .. M - 1 : p = Page(A + P2m * k, P2m)
      /\ \A p \in Small : \E k \in 0 .. s - 1 : p = Page((A + B) + k, P4k)
      /\ \A k \in 0 .. L - 1 : Page(P1g * k, P1g) \in Large
      /\ \A k \in 0 .. M - 1 : Page(A + P2m * k, P2m) \in Middle
      /\ \A k \in 0 .. s - 1 : Page((A + B) + k, P4k) \in Small
  <2>1. L * P1g = A /\ M * P2m = B
    BY <1>6
  <2> HIDE DEF A, B, L, M, s
  <2>. QED  BY <2>1
<1> HIDE DEF Large, Middle, Small, A, B, L, M, m, s
<1>8. ASSUME NEW k \in 0 .. L - 1
      PROVE  LET p == Page(P1g * k, P1g)
             IN  /\ p.addr = P1g * k /\ p.addr \in Nat /\ p.size = P1g
                 /\ Covers(p) = P1g * k .. P1g * k + P1g - 1 /\ P1g * k + P1g <= A
  <2>1. P1g * k \in Nat /\ k \in Nat /\ k + 1 \in Nat /\ k + 1 <= L
    BY <1>1, <1>2
  <2>2. P1g * (k + 1) <= P1g * L /\ P1g * (k + 1) = P1g * k + P1g
    BY <1>1, <1>2, <2>1, Times
  <2>. QED  BY <2>1, <2>2 DEF Page, Covers, A
<1>9. ASSUME NEW k \in 0 .. M - 1
      PROVE  LET p == Page(A + P2m * k, P2m)
             IN  /\ p.addr = A + P2m * k /\ p.addr \in Nat /\ p.size = P2m /\ P2m * k \in Nat
                 /\ Covers(p) = A + P2m * k .. (A + P2m * k) + P2m - 1 /\ P2m * k + P2m <= B
  <2>1. P2m * k \in Nat /\ k \in Nat /\ k + 1 \in Nat /\ k + 1 <= M
    BY <1>1, <1>3
  <2>2. P2m * (k + 1) <= P2m * M /\ P2m * (k + 1) = P2m * k + P2m
    BY <1>1, <1>3, <2>1, Times
  <2>. QED  BY <1>6, <2>1, <2>2 DEF Page, Covers, B
<1>10. ASSUME NEW k \in 0 .. s - 1
       PROVE  LET p == Page((A + B) + k, P4k)
              IN  p.addr = (A + B) + k /\ p.addr \in Nat /\ p.size = P4k /\ Covers(p) = {(A + B) + k}
  BY <1>1, <1>3, <1>6 DEF Page, Covers
\* pages of the three sizes lie one size behind the other
<1>11. ASSUME NEW p \in (Large \cup Middle) \cup Small
       PROVE  /\ p.addr \in Nat /\ p.size \in {P4k, P2m, P1g} /\ Covers(p) \subseteq 0 .. n - 1
              /\ p \in Large => \A u \in Covers(p) : u < A
              /\ p \in Middle => \A u \in Covers(p) : A <= u /\ u < A + B
              /\ p \in Small => \A u \in Covers(p) : A + B <= u
  <2>1. ASSUME p \in Large
        PROVE  p.addr \in Nat /\ p.size = P1g /\ \A u \in Covers(p) : u \in Nat /\ u < A
    <3>1. PICK k \in 0 .. L - 1 : p = Page(P1g * k, P1g)
      BY <1>7, <2>1
    <3>2. p.addr \in Nat /\ p.size = P1g /\ P1g * k \in Nat
          /\ Covers(p) = P1g * k .. P1g * k + P1g - 1 /\ P1g * k + P1g <= A
      BY <1>8, <3>1
    <3>. QED  BY <1>1, <1>6, <3>2
  <2>2. ASSUME p \in Middle
        PROVE  p.addr \in Nat /\ p.size = P2m /\ \A u \in Covers(p) : u \in Nat /\ A <= u /\ u < A + B
    <3>1. PICK k \in 0 .. M - 1 : p = Page(A + P2m * k, P2m)
      BY <1>7, <2>2
    <3>2. p.addr \in Nat /\ p.size = P2m /\ P2m * k \in Nat
          /\ Covers(p) = A + P2m * k .. (A + P2m * k) + P2m - 1 /\ P2m * k + P2m <= B
      BY <1>9, <3>1
    <3>. QED  BY <1>1, <1>6, <3>2
  <2>3. ASSUME p \in Small
        PROVE  p.addr \in Nat /\ p.size = P4k /\ \A u \in Covers(p) : u \in Nat /\ A + B <= u /\ u < n
    <3>1. PICK k \in 0 .. s - 1 : p = Page((A + B) + k, P4k)
      BY <1>7, <2>3
    <3>2. p.addr \in Nat /\ p.size = P4k /\ Covers(p) = {(A + B) + k}
      BY <1>10, <3>1
    <3>. QED  BY <1>3, <1>6, <3>2
  <2>4. \A u : u \in Covers(p) => u \in 0 .. n - 1
    BY <1>3, <1>6, <2>1, <2>2, <2>3
  <2>5. Covers(p) \subseteq 0 .. n - 1
    BY <2>4
  <2>6. p \in Large \/ p \in Middle \/ p \in Small
    OBVIOUS
  <2>7. p.addr \in Nat /\ p.size \in {P4k, P2m, P1g}
    BY <2>1, <2>2, <2>3, <2>6
  <2>. QED  BY <2>1, <2>2, <2>3, <2>5, <2>7
<1>12. ASSUME NEW u \in 0 .. n - 1
       PROVE  \E p \in (Large \cup Middle) \cup Small : u \in Covers(p)
  <2>1. CASE u < A
    <3> DEFINE k == u \div P1g
    <3>0. u \in Nat
      OBVIOUS
    <3>1. u \in Nat /\ k \in Nat /\ u % P1g \in 0 .. P1g - 1 /\ u = P1g * k + (u % P1g)
      BY <1>1, <3>0, Blocks
    <3> HIDE DEF k
    <3>2. k < L
      <4> SUFFICES ASSUME L <= k
                   PROVE  FALSE
        BY <1>2, <3>1
      <4>1. P1g * L <= P1g * k /\ P1g * k \in Nat
        BY <1>1, <1>2, <3>1, Times
      <4>. QED  BY <1>1, <1>6, <2>1, <3>1, <4>1 DEF A
    <3>3. k \in 0 .. L - 1
      BY <1>2, <3>1, <3>2
    <3>4. Page(P1g * k, P1g) \in Large /\ Covers(Page(P1g * k, P1g)) = P1g * k .. P1g * k + P1g - 1
      BY <1>7, <1>8, <3>3
    <3>5. P1g * k \in Nat
      BY <1>1, <3>1
    <3>6. u \in P1g * k .. P1g * k + P1g - 1
      BY <1>1, <3>1, <3>5
    <3>. QED  BY <3>4, <3>6
  <2>2. CASE A <= u /\ u < A + B
    <3> DEFINE v == u - A
               k == v \div P2m
    <3>0. v \in Nat /\ v < B /\ u = A + v
      BY <1>6, <2>2
    <3> HIDE DEF v
    <3>1. k \in Nat /\ v % P2m \in 0 .. P2m - 1 /\ v = P2m * k + (v % P2m)
      BY <1>1, <3>0, Blocks
    <3> HIDE DEF k
    <3>2. k < M
      <4> SUFFICES ASSUME M <= k
                   PROVE  FALSE
        BY <1>3, <3>1
      <4>1. P2m * M <= P2m * k /\ P2m * k \in Nat
        BY <1>1, <1>3, <3>1, Times
      <4>. QED  BY <1>1, <1>6, <3>0, <3>1, <4>1 DEF B
    <3>3. k \in 0 .. M - 1
      BY <1>3, <3>1, <3>2
    <3>4. /\ Page(A + P2m * k, P2m) \in Middle
          /\ Covers(Page(A + P2m * k, P2m)) = A + P2m * k .. (A + P2m * k) + P2m - 1
      BY <1>7, <1>9, <3>3
    <3>5. P2m * k \in Nat
      BY <1>1, <3>1
    <3>6. u \in A + P2m * k .. (A + P2m * k) + P2m - 1
      BY <1>1, <1>6, <3>0, <3>1, <3>5
    <3>. QED  BY <3>4, <3>6
  <2>3. CASE A + B <= u
    <3> DEFINE k == u - (A + B)
    <3>1. k \in 0 .. s - 1 /\ u = (A + B) + k
      BY <1>3, <1>6, <2>3
    <3> HIDE DEF k
    <3>2. Page((A + B) + k, P4k) \in Small /\ Covers(Page((A + B) + k, P4k)) = {(A + B) + k}
      BY <1>7, <1>10, <3>1
    <3>. QED  BY <3>1, <3>2
  <2>. QED  BY <1>6, <2>1, <2>2, <2>3
<1>13. ASSUME NEW p \in (Large \cup Middle) \cup Small, NEW q \in (Large \cup Middle) \cup Small,
              NEW u \in Nat, u \in Covers(p), u \in Covers(q)
       PROVE  p = q
  <2>1. (p \in Large /\ q \in Large) \/ (p \in Middle /\ q \in Middle) \/ (p \in Small /\ q \in Small)
    BY <1>6, <1>11, <1>13
  <2>2. CASE p \in Large /\ q \in Large
    <3>1. PICK k \in 0 .. L - 1 : p = Page(P1g * k, P1g)
      BY <1>7, <2>2
    <3>2. PICK j \in 0 .. L - 1 : q = Page(P1g * j, P1g)
      BY <1>7, <2>2
    <3>3. P1g * k \in Nat /\ P1g * j \in Nat /\ k \in Nat /\ j \in Nat
      BY <1>1, <1>2
    <3>4. P1g * k <= u /\ u < P1g * k + P1g /\ P1g * j <= u /\ u < P1g * j + P1g
      BY <1>1, <1>8, <1>13, <3>1, <3>2, <3>3
    <3>5. k = u \div P1g /\ j = u \div P1g
      BY <1>1, <3>3, <3>4, Blocks
    <3>. QED  BY <3>1, <3>2, <3>5
  <2>3. CASE p \in Middle /\ q \in Middle
    <3>1. PICK k \in 0 .. M - 1 : p = Page(A + P2m * k, P2m)
      BY <1>7, <2>3
    <3>2. PICK j \in 0 .. M - 1 : q = Page(A + P2m * j, P2m)
      BY <1>7, <2>3
    <3>3. P2m * k \in Nat /\ P2m * j \in Nat /\ k \in Nat /\ j \in Nat
      BY <1>1, <1>3
    <3>4. A + P2m * k <= u /\ u < (A + P2m * k) + P2m /\ A + P2m * j <= u /\ u < (A + P2m * j) + P2m
      BY <1>1, <1>6, <1>9, <1>13, <3>1, <3>2, <3>3
    <3> DEFINE v == u - A
    <3>5. v \in Nat /\ P2m * k <= v /\ v < P2m * k + P2m /\ P2m * j <= v /\ v < P2m * j + P2m
      BY <1>1, <1>6, <3>3, <3>4
    <3> HIDE DEF v
    <3>6. k = v \div P2m /\ j = v \div P2m
      BY <1>1, <3>3, <3>5, Blocks
    <3>. QED  BY <3>1, <3>2, <3>6
  <2>4. CASE p \in Small /\ q \in Small
    <3>1. PICK k \in 0 .. s - 1 : p = Page((A + B) + k, P4k)
      BY <1>7, <2>4
    <3>2. PICK j \in 0 .. s - 1 : q = Page((A + B) + j, P4k)
      BY <1>7, <2>4
    <3>3. u = (A + B) + k /\ u = (A + B) + j
      BY <1>10, <1>13, <3>1, <3>2
    <3>4. k = j
      BY <1>6, <3>3
    <3>. QED  BY <3>1, <3>2, <3>4
  <2>. QED  BY <2>1, <2>2, <2>3, <2>4
<1>. QED  BY <1>5, <1>11, <1>12, <1>13 DEF Tiles


-----------------------------------------------------------------------------
(* Frames are handed out once                                              *)

PageType == [addr : Nat, size : Nat]

Handed == {handed[i] : i \in 1 .. Len(handed)}
Cut == {pt_pages[k].addr : k \in 1 .. Len(pt_pages)}
LeftOver == {u \in Nat : \E p \in page_list[1] : u \in Covers(p)}

\* While the first round lasts, each frame is handed out once, or is part of
\* the page being used up, or of a page of the list.
FirstRound ==
  /\ \A i, j \in 1 .. Len(handed) : handed[i] = handed[j] => i = j
  /\ \A k, n \in 1 .. Len(pt_pages) : pt_pages[k].addr = pt_pages[n].addr => k = n
  /\ \A p, q \in page_list[1] : \A u \in Nat : u \in Covers(p) /\ u \in Covers(q) => p = q
  /\ Handed \cap Cut = {} /\ Handed \cap LeftOver = {} /\ Cut \cap LeftOver = {}
  /\ 0 .. size - 1 = (Handed \cup Cut) \cup LeftOver

PageLists ==
  /\ page_list = <<page_list[1], page_list[2]>>
  /\ \A r \in {1, 2} : \A p \in page_list[r] :
       p.addr \in Nat /\ p.size \in {P4k, P2m, P1g} /\ Covers(p) \subseteq 0 .. size - 1

FrameTypes ==
  /\ size \in Nat
  /\ handed \in Seq(Nat) /\ \A i \in 1 .. Len(handed) : handed[i] \in 0 .. size - 1
  /\ pt_pages \in Seq(PageType) /\ \A k \in 1 .. Len(pt_pages) : pt_pages[k].addr \in 0 .. size - 1

FrameInv ==
  /\ FrameTypes
  /\ size = 0 => handed = <<>> /\ pt_pages = <<>> /\ ~out /\ mapping = [left |-> 0, tables |-> 0]
  /\ size > 0 => PageLists /\ (Len(handed) <= size => FirstRound) /\ (out => Len(handed) >= size)

\* When all frames of the first round are used up, as many are handed out as
\* the memory has.
LEMMA RoundOver ==
  ASSUME NEW n \in Nat, NEW s \in Seq(Nat), \A i, j \in 1 .. Len(s) : s[i] = s[j] => i = j,
         {s[i] : i \in 1 .. Len(s)} = 0 .. n - 1
  PROVE  Len(s) = n
<1> DEFINE S == 1 .. Len(s)
           T == 0 .. n - 1
<1>1. s \in [S -> T] /\ Len(s) \in Nat
  <2>1. DOMAIN s = S /\ Len(s) \in Nat /\ s = [i \in S |-> s[i]]
    OBVIOUS
  <2>2. \A i \in S : s[i] \in T
    OBVIOUS
  <2>. QED  BY <2>1, <2>2
<1>2. s \in Bijection(S, T)
  <2>1. \A t \in T : \E i \in S : s[i] = t
    OBVIOUS
  <2>2. \A i, j \in S : s[i] = s[j] => i = j
    OBVIOUS
  <2>3. DOMAIN s = S
    BY <1>1
  <2> HIDE DEF S, T
  <2>. QED  BY <1>1, <2>1, <2>2, <2>3 DEF Bijection, Injection, Surjection, IsInjective
<1>3. ExistsBijection(S, T)
  BY <1>2 DEF ExistsBijection
<1>4. IsFiniteSet(S) /\ Cardinality(S) = Len(s)
  <2>1. IsFiniteSet(1 .. Len(s)) /\ Cardinality(1 .. Len(s)) = IF 1 > Len(s) THEN 0 ELSE Len(s) - 1 + 1
    BY <1>1, FS_Interval
  <2>. QED  BY <1>1, <2>1
<1>5. Cardinality(T) = n
  <2>1. Cardinality(0 .. n - 1) = IF 0 > n - 1 THEN 0 ELSE (n - 1) - 0 + 1
    BY FS_Interval
  <2>. QED  BY <2>1
<1>6. Cardinality(T) = Cardinality(S)
  BY <1>3, <1>4, FS_Bijection
<1>. QED  BY <1>4, <1>5, <1>6

LEMMA LastAndFront ==
  ASSUME NEW S, NEW s \in Seq(S), s # <<>>
  PROVE  /\ Len(s) \in Nat \ {0} /\ Last(s) = s[Len(s)] /\ Last(s) \in S
         /\ Front(s) \in Seq(S) /\ Len(Front(s)) = Len(s) - 1
         /\ \A i \in 1 .. Len(s) - 1 : Front(s)[i] = s[i]
<1>1. Len(s) \in Nat \ {0}
  BY EmptySeq
<1>2. Last(s) = s[Len(s)] /\ Last(s) \in S
  BY <1>1 DEF Last
<1>3. Front(s) \in Seq(S) /\ Len(Front(s)) = Len(s) - 1 /\ \A i \in 1 .. Len(s) - 1 : Front(s)[i] = s[i]
  <2> DEFINE n == Len(s) - 1
  <2>1. n \in Nat /\ n <= Len(s) /\ \A i \in 1 .. n : i \in 1 .. Len(s)
    BY <1>1
  <2>2. SubSeq(s, 1, n) = [i \in 1 .. (n - 1 + 1) |-> s[i + 1 - 1]]
    BY <1>1, <2>1
  <2>3. n - 1 + 1 = n
    BY <2>1
  <2>4. SubSeq(s, 1, n) = [i \in 1 .. n |-> s[i]]
    BY <2>1, <2>2, <2>3
  <2>5. \A i \in 1 .. n : s[i] \in S
    BY <2>1
  <2>6. Front(s) = [i \in 1 .. n |-> s[i]]
    BY <2>4 DEF Front
  <2> HIDE DEF n
  <2>7. Front(s) \in Seq(S) /\ Len(Front(s)) = n /\ \A i \in 1 .. n : Front(s)[i] = s[i]
    BY <2>1, <2>5, <2>6
  <2>. QED  BY <2>7 DEF n
<1>. QED  BY <1>1, <1>2, <1>3

\* What handing out a frame does to the list of those handed out.
LEMMA HandedMore ==
  ASSUME FrameTypes, NEW a \in 0 .. size - 1, handed' = Append(handed, a)
  PROVE  /\ handed' \in Seq(Nat) /\ Len(handed') = Len(handed) + 1 /\ Len(handed) \in Nat
         /\ \A i \in 1 .. Len(handed') : handed'[i] \in 0 .. size - 1
         /\ Handed' = Handed \cup {a}
         /\ (\A i, j \in 1 .. Len(handed) : handed[i] = handed[j] => i = j) /\ a \notin Handed =>
              \A i, j \in 1 .. Len(handed') : handed'[i] = handed'[j] => i = j
<1>1. handed \in Seq(Nat) /\ Len(handed) \in Nat /\ a \in Nat /\ size \in Nat
  BY DEF FrameTypes
<1>2. /\ handed' \in Seq(Nat) /\ Len(handed') = Len(handed) + 1 /\ handed'[Len(handed) + 1] = a
      /\ \A i \in 1 .. Len(handed) : handed'[i] = handed[i]
  BY <1>1, AppendProperties
<1>3. \A i \in 1 .. Len(handed') : i \in 1 .. Len(handed) \/ i = Len(handed) + 1
  BY <1>1, <1>2
<1>4. \A i \in 1 .. Len(handed) : i \in 1 .. Len(handed') /\ i # Len(handed) + 1
  BY <1>1, <1>2
<1>5. Len(handed) + 1 \in 1 .. Len(handed')
  BY <1>1, <1>2
<1>6. \A i \in 1 .. Len(handed') : handed'[i] \in 0 .. size - 1
  BY <1>2, <1>3 DEF FrameTypes
<1>7. Handed' = Handed \cup {a}
  BY <1>2, <1>3, <1>4, <1>5 DEF Handed
<1>8. ASSUME \A i, j \in 1 .. Len(handed) : handed[i] = handed[j] => i = j, a \notin Handed,
             NEW i \in 1 .. Len(handed'), NEW j \in 1 .. Len(handed'), handed'[i] = handed'[j]
      PROVE  i = j
  BY <1>2, <1>3, <1>8 DEF Handed
<1>. QED  BY <1>1, <1>2, <1>6, <1>7, <1>8

\* A frame of the page in use.
LEMMA AllocFromCut ==
  ASSUME FrameInv, size > 0, ~out, pt_pages # <<>>,
         handed' = Append(handed, Last(pt_pages).addr), pt_pages' = Front(pt_pages),
         UNCHANGED <<page_list, out, size>>
  PROVE  FrameInv'
<1> DEFINE n == Len(pt_pages)
           a == Last(pt_pages).addr
<1>1. FrameTypes /\ PageLists /\ pt_pages \in Seq(PageType)
  BY DEF FrameInv, FrameTypes
<1>2. /\ n \in Nat \ {0} /\ a = pt_pages[n].addr /\ pt_pages' \in Seq(PageType) /\ Len(pt_pages') = n - 1
      /\ \A i \in 1 .. n - 1 : pt_pages'[i] = pt_pages[i]
  BY <1>1, LastAndFront
<1>3. a \in 0 .. size - 1
  BY <1>1, <1>2 DEF FrameTypes
<1>4. Cut = Cut' \cup {a} /\ a \in Cut
  <2>1. \A i \in 1 .. n : i \in 1 .. n - 1 \/ i = n
    BY <1>2
  <2>2. \A i \in 1 .. n - 1 : i \in 1 .. n
    BY <1>2
  <2>3. n \in 1 .. n
    BY <1>2
  <2>. QED  BY <1>2, <2>1, <2>2, <2>3 DEF Cut
<1>5. FrameTypes'
  <2>1. handed' \in Seq(Nat) /\ \A i \in 1 .. Len(handed') : handed'[i] \in 0 .. size - 1
    BY <1>1, <1>3, HandedMore
  <2>2. ASSUME NEW k \in 1 .. Len(pt_pages')
        PROVE  pt_pages'[k].addr \in 0 .. size - 1
    <3>1. k \in 1 .. n - 1 /\ k \in 1 .. n
      BY <1>2
    <3>. QED  BY <1>1, <1>2, <3>1 DEF FrameTypes
  <2>. QED  BY <1>1, <1>2, <2>1, <2>2 DEF FrameTypes
<1>6. ASSUME FirstRound
      PROVE  FirstRound'
  <2>1. a \notin Handed /\ a \notin LeftOver /\ a \notin Cut'
    <3>1. a \notin Handed /\ a \notin LeftOver
      BY <1>4, <1>6 DEF FirstRound
    <3>2. ASSUME NEW k \in 1 .. Len(pt_pages'), pt_pages'[k].addr = a
          PROVE  FALSE
      <4>1. k \in 1 .. n /\ n \in 1 .. n /\ k # n /\ pt_pages'[k] = pt_pages[k]
        BY <1>2
      <4>. QED  BY <1>2, <1>6, <3>2, <4>1 DEF FirstRound
    <3>. QED  BY <3>1, <3>2 DEF Cut
  <2>2. Handed' = Handed \cup {a} /\ \A i, j \in 1 .. Len(handed') : handed'[i] = handed'[j] => i = j
    BY <1>1, <1>3, <1>6, <2>1, HandedMore DEF FirstRound
  <2>3. LeftOver' = LeftOver
    BY DEF LeftOver
  <2>4. ASSUME NEW k \in 1 .. Len(pt_pages'), NEW m \in 1 .. Len(pt_pages'),
               pt_pages'[k].addr = pt_pages'[m].addr
        PROVE  k = m
    <3>1. k \in 1 .. n /\ m \in 1 .. n /\ pt_pages'[k] = pt_pages[k] /\ pt_pages'[m] = pt_pages[m]
      BY <1>2
    <3>. QED  BY <1>6, <2>4, <3>1 DEF FirstRound
  <2>5. /\ Handed' \cap Cut' = {} /\ Handed' \cap LeftOver' = {} /\ Cut' \cap LeftOver' = {}
        /\ (Handed' \cup Cut') \cup LeftOver' = (Handed \cup Cut) \cup LeftOver
    <3> DEFINE C == Cut'
    <3> HIDE DEF C, a
    <3>1. Cut' = C /\ Cut = C \cup {a} /\ a \notin C /\ a \notin Handed /\ a \notin LeftOver
      BY <1>4, <2>1 DEF C
    <3>2. Handed \cap Cut = {} /\ Handed \cap LeftOver = {} /\ Cut \cap LeftOver = {}
      BY <1>6 DEF FirstRound
    <3>. QED  BY <2>2, <2>3, <3>1, <3>2
  <2>6. 0 .. size' - 1 = (Handed' \cup Cut') \cup LeftOver'
    BY <1>6, <2>5 DEF FirstRound
  <2>7. \A p, q \in page_list[1]' : \A u \in Nat : u \in Covers(p) /\ u \in Covers(q) => p = q
    BY <1>6 DEF FirstRound
  <2>. QED  BY <2>2, <2>4, <2>5, <2>6, <2>7 DEF FirstRound
<1>7. PageLists'
  BY <1>1 DEF PageLists
<1>8. Len(handed') = Len(handed) + 1 /\ Len(handed) \in Nat /\ size \in Nat
  BY <1>1, <1>3, HandedMore DEF FrameTypes
<1>9. Len(handed') <= size => FirstRound'
  BY <1>6, <1>8 DEF FrameInv
<1>. QED  BY <1>5, <1>7, <1>8, <1>9 DEF FrameInv

\* No page is left.
LEMMA AllocPanics ==
  ASSUME FrameInv, size > 0, pt_pages = <<>>, \A r \in DOMAIN page_list : page_list[r] = {},
         UNCHANGED <<handed, pt_pages, page_list, size>>
  PROVE  FrameInv'
<1>1. FrameTypes /\ PageLists /\ size \in Nat /\ handed \in Seq(Nat) /\ Len(handed) \in Nat
  BY DEF FrameInv, FrameTypes
<1>2. FrameTypes' /\ PageLists'
  BY <1>1 DEF FrameTypes, PageLists
<1>3. ASSUME FirstRound
      PROVE  Len(handed) = size
  <2>1. page_list[1] = {}
    BY <1>1 DEF PageLists
  <2>2. LeftOver = {} /\ Cut = {}
    BY <2>1 DEF LeftOver, Cut
  <2>3. Handed = 0 .. size - 1
    BY <1>3, <2>2 DEF FirstRound
  <2>4. {handed[i] : i \in 1 .. Len(handed)} = 0 .. size - 1
    BY <2>3 DEF Handed
  <2>. QED  BY <1>1, <1>3, <2>4, RoundOver DEF FirstRound
<1>4. Len(handed) >= size
  BY <1>1, <1>3 DEF FrameInv
<1>5. FirstRound => FirstRound'
  BY DEF FirstRound, Handed, Cut, LeftOver
<1>. QED  BY <1>1, <1>2, <1>4, <1>5 DEF FrameInv


\* A page cut into pages of 4 kB.
LEMMA CutPage ==
  ASSUME NEW p, p.addr \in Nat, p.size \in {P4k, P2m, P1g}
  PROVE  /\ p.size \in Nat \ {0}
         /\ SplitToSize(p, P4k) \in Seq(PageType) /\ SplitToSize(p, P4k) # <<>>
         /\ Len(SplitToSize(p, P4k)) = p.size
         /\ \A o \in 1 .. p.size : SplitToSize(p, P4k)[o].addr = p.addr + (o - 1)
<1> DEFINE z == p.size
           b == p.addr
           f == [o \in 1 .. z |-> Page(b + (o - 1), 1)]
<1>1. z \in Nat \ {0} /\ b \in Nat /\ z \div 1 = z
  BY PageSizes
<1>2. SplitToSize(p, P4k) = f
  <2>1. SplitToSize(p, P4k) = [o \in 1 .. z \div 1 |-> Page(b + 1 * (o - 1), 1)]
    BY DEF SplitToSize, P4k
  <2>2. \A o \in 1 .. z : b + 1 * (o - 1) = b + (o - 1)
    BY <1>1
  <2>. QED  BY <1>1, <2>1, <2>2
<1> HIDE DEF z, b
<1>3. \A o \in 1 .. z : Page(b + (o - 1), 1) \in PageType /\ Page(b + (o - 1), 1).addr = b + (o - 1)
  BY <1>1 DEF Page, PageType
<1> DEFINE pg(o) == Page(b + (o - 1), 1)
<1> HIDE DEF pg
<1>4. f = [o \in 1 .. z |-> pg(o)] /\ \A o \in 1 .. z : pg(o) \in PageType /\ pg(o).addr = b + (o - 1)
  BY <1>3 DEF pg
<1> HIDE DEF f
<1>5. f \in Seq(PageType) /\ Len(f) = z /\ f # <<>> /\ \A o \in 1 .. z : f[o].addr = b + (o - 1)
  BY <1>1, <1>4
<1>. QED  BY <1>1, <1>2, <1>5 DEF z, b

\* A frame of the next page of the lists, which is cut up.
LEMMA AllocFromPage ==
  ASSUME FrameInv, size > 0, ~out, pt_pages = <<>>,
         NEW r \in {1, 2}, r = 1 \/ page_list[1] = {}, NEW p \in page_list[r],
         page_list' = [page_list EXCEPT ![r] = @ \ {p}],
         pt_pages' = Front(SplitToSize(p, P4k)),
         handed' = Append(handed, Last(SplitToSize(p, P4k)).addr),
         UNCHANGED <<out, size>>
  PROVE  FrameInv'
<1> DEFINE pages == SplitToSize(p, P4k)
           z == p.size
           b == p.addr
           a == Last(pages).addr
<1>1. FrameTypes /\ PageLists
  BY DEF FrameInv
<1>2. /\ z \in Nat \ {0} /\ b \in Nat /\ Covers(p) \subseteq 0 .. size - 1 /\ Covers(p) = b .. b + z - 1
      /\ size \in Nat
      /\ pages \in Seq(PageType) /\ pages # <<>> /\ Len(pages) = z
      /\ \A o \in 1 .. z : pages[o].addr = b + (o - 1)
  <2>1. p.addr \in Nat /\ p.size \in {P4k, P2m, P1g} /\ Covers(p) \subseteq 0 .. size - 1
    BY <1>1 DEF PageLists
  <2>. QED  BY <1>1, <2>1, CutPage DEF Covers, FrameTypes
<1> HIDE DEF z, b, pages
<1>3. /\ pt_pages' \in Seq(PageType) /\ Len(pt_pages') = z - 1 /\ a = b + (z - 1)
      /\ \A o \in 1 .. z - 1 : pt_pages'[o].addr = b + (o - 1)
  <2>1. pt_pages' = Front(pages)
    BY DEF pages
  <2>2. /\ Last(pages) = pages[z] /\ Front(pages) \in Seq(PageType) /\ Len(Front(pages)) = z - 1
        /\ \A o \in 1 .. z - 1 : Front(pages)[o] = pages[o]
    BY <1>2, LastAndFront
  <2>3. z \in 1 .. z /\ \A o \in 1 .. z - 1 : o \in 1 .. z
    BY <1>2
  <2>. QED  BY <1>2, <2>1, <2>2, <2>3
<1>4. handed' = Append(handed, a)
  BY DEF pages
<1> HIDE DEF a
<1>5. a \in Covers(p) /\ a \in 0 .. size - 1 /\ a \in Nat
  <2>1. \A u : u \in Nat /\ b <= u /\ u < b + z => u \in Covers(p)
    BY <1>2
  <2>2. a \in Nat /\ b <= a /\ a < b + z
    BY <1>2, <1>3
  <2>3. a \in Covers(p)
    BY <2>1, <2>2
  <2>. QED  BY <1>2, <2>2, <2>3
<1>6. /\ handed' \in Seq(Nat) /\ Len(handed') = Len(handed) + 1 /\ Len(handed) \in Nat
      /\ \A i \in 1 .. Len(handed') : handed'[i] \in 0 .. size - 1
      /\ Handed' = Handed \cup {a}
      /\ (\A i, j \in 1 .. Len(handed) : handed[i] = handed[j] => i = j) /\ a \notin Handed =>
           \A i, j \in 1 .. Len(handed') : handed'[i] = handed'[j] => i = j
  BY <1>1, <1>4, <1>5, HandedMore
<1>7. Covers(p) = Cut' \cup {a} /\ a \notin Cut'
  <2>1. ASSUME NEW u \in Covers(p), u # a
        PROVE  u \in Cut'
    <3>1. u \in Nat /\ b <= u /\ u < a
      <4>1. u \in b .. b + z - 1
        BY <1>2
      <4>2. u \in Int /\ b <= u /\ u <= b + (z - 1)
        BY <1>2, <4>1
      <4>. QED  BY <1>2, <1>3, <2>1, <4>2
    <3>2. PICK o \in 1 .. z - 1 : b + (o - 1) = u
      <4> DEFINE o == (u - b) + 1
      <4>1. o \in 1 .. z - 1
        BY <1>2, <1>3, <3>1
      <4>2. b + (o - 1) = u
        BY <1>2, <3>1
      <4>. QED  BY <4>1, <4>2
    <3>. QED  BY <1>3, <3>2 DEF Cut
  <2>2. ASSUME NEW o \in 1 .. z - 1
        PROVE  pt_pages'[o].addr \in Covers(p) /\ pt_pages'[o].addr # a
    BY <1>2, <1>3
  <2>3. Cut' = {pt_pages'[o].addr : o \in 1 .. z - 1}
    BY <1>3 DEF Cut
  <2>. QED  BY <1>5, <2>1, <2>2, <2>3
<1>8. FrameTypes'
  <2>1. ASSUME NEW k \in 1 .. Len(pt_pages')
        PROVE  pt_pages'[k].addr \in 0 .. size - 1
    BY <1>2, <1>7 DEF Cut
  <2>. QED  BY <1>2, <1>3, <1>6, <2>1 DEF FrameTypes
<1>9. PageLists' /\ page_list'[r] = page_list[r] \ {p} /\ \A x \in {1, 2} : x # r => page_list'[x] = page_list[x]
  <2>1. page_list = <<page_list[1], page_list[2]>>
    BY <1>1 DEF PageLists
  <2>2. page_list' = <<page_list'[1], page_list'[2]>> /\ page_list'[r] = page_list[r] \ {p}
        /\ \A x \in {1, 2} : x # r => page_list'[x] = page_list[x]
    <3> DEFINE l1 == page_list[1]
               l2 == page_list[2]
    <3>1. page_list = <<l1, l2>>
      BY <2>1
    <3> HIDE DEF l1, l2
    <3>2. CASE r = 1
      <4>1. page_list' = <<l1 \ {p}, l2>>
        BY <3>1, <3>2
      <4>. QED  BY <3>1, <3>2, <4>1
    <3>3. CASE r = 2
      <4>1. page_list' = <<l1, l2 \ {p}>>
        BY <3>1, <3>3
      <4>. QED  BY <3>1, <3>3, <4>1
    <3>. QED  BY <3>2, <3>3
  <2>3. \A x \in {1, 2} : page_list'[x] \subseteq page_list[x]
    BY <2>2
  <2>. QED  BY <1>1, <2>2, <2>3 DEF PageLists
<1>10. ASSUME FirstRound, r = 1
       PROVE  FirstRound'
  <2>1. /\ \A x, y \in page_list[1] : \A u \in Nat : u \in Covers(x) /\ u \in Covers(y) => x = y
        /\ Handed \cap LeftOver = {} /\ 0 .. size - 1 = (Handed \cup Cut) \cup LeftOver
    BY <1>10 DEF FirstRound
  <2>2. page_list'[1] = page_list[1] \ {p} /\ p \in page_list[1]
    BY <1>9, <1>10
  <2>3. \A u \in Covers(p) : u \in Nat
    BY <1>2
  <2>4. LeftOver = LeftOver' \cup Covers(p) /\ LeftOver' \cap Covers(p) = {}
    <3>1. LeftOver' = {u \in Nat : \E x \in page_list'[1] : u \in Covers(x)}
      BY DEF LeftOver, Covers
    <3>. QED  BY <2>1, <2>2, <2>3, <3>1 DEF LeftOver
  <2>5. Cut = {}
    BY DEF Cut
  <2>6. a \notin Handed
    BY <1>5, <2>1, <2>4
  <2>7. \A i, j \in 1 .. Len(handed') : handed'[i] = handed'[j] => i = j
    BY <1>6, <1>10, <2>6 DEF FirstRound
  <2>8. ASSUME NEW k \in 1 .. Len(pt_pages'), NEW m \in 1 .. Len(pt_pages'),
               pt_pages'[k].addr = pt_pages'[m].addr
        PROVE  k = m
    <3>1. k \in 1 .. z - 1 /\ m \in 1 .. z - 1
      BY <1>3
    <3>2. b + (k - 1) = b + (m - 1)
      BY <1>3, <2>8, <3>1
    <3>. QED  BY <1>2, <3>1, <3>2
  <2>9. /\ Handed' \cap Cut' = {} /\ Handed' \cap LeftOver' = {} /\ Cut' \cap LeftOver' = {}
        /\ 0 .. size - 1 = (Handed' \cup Cut') \cup LeftOver'
    <3> DEFINE C == Cut'
               L == LeftOver'
               H == Handed'
    <3>1. H = Handed \cup {a} /\ LeftOver = L \cup Covers(p) /\ L \cap Covers(p) = {}
          /\ Covers(p) = C \cup {a} /\ a \notin C /\ Handed \cap LeftOver = {}
          /\ 0 .. size - 1 = Handed \cup LeftOver
      BY <1>6, <1>7, <2>1, <2>4, <2>5
    <3> HIDE DEF C, L, H
    <3>2. H \cap C = {} /\ H \cap L = {} /\ C \cap L = {} /\ 0 .. size - 1 = (H \cup C) \cup L
      BY <3>1
    <3>. QED  BY <3>2 DEF H, C, L
  <2>10. \A x, y \in page_list'[1] : \A u \in Nat : u \in Covers(x) /\ u \in Covers(y) => x = y
    BY <2>1, <2>2
  <2>11. \A x, y \in page_list[1]' : \A u \in Nat : u \in Covers(x)' /\ u \in Covers(y)' => x = y
    BY <2>10 DEF Covers
  <2>12. size' = size
    OBVIOUS
  <2>. QED  BY <2>7, <2>8, <2>9, <2>10, <2>12 DEF FirstRound
<1>11. ASSUME FirstRound, r = 2
       PROVE  Len(handed) = size
  <2>1. page_list[1] = {}
    BY <1>11
  <2>2. LeftOver = {} /\ Cut = {}
    BY <2>1 DEF LeftOver, Cut
  <2>3. {handed[i] : i \in 1 .. Len(handed)} = 0 .. size - 1
    BY <1>11, <2>2 DEF FirstRound, Handed
  <2>4. handed \in Seq(Nat) /\ size \in Nat
    BY <1>1 DEF FrameTypes
  <2>. QED  BY <1>11, <2>3, <2>4, RoundOver DEF FirstRound
<1>12. Len(handed') <= size => FirstRound'
  <2> SUFFICES ASSUME Len(handed') <= size
               PROVE  FirstRound'
    OBVIOUS
  <2>1. Len(handed) <= size /\ Len(handed) # size
    BY <1>2, <1>6
  <2>2. FirstRound
    BY <2>1 DEF FrameInv
  <2>. QED  BY <1>10, <1>11, <2>1, <2>2
<1>. QED  BY <1>8, <1>9, <1>12 DEF FrameInv


LEMMA AllocKeeps ==
  ASSUME FrameInv, size > 0, ~out, AllocPtPage, size' = size
  PROVE  FrameInv'
<1>1. CASE pt_pages # <<>>
  <2>1. handed' = Append(handed, Last(pt_pages).addr) /\ pt_pages' = Front(pt_pages)
        /\ UNCHANGED <<page_list, out>>
    BY <1>1 DEF AllocPtPage
  <2>. QED  BY <1>1, <2>1, AllocFromCut
<1>2. CASE pt_pages = <<>> /\ \A r \in DOMAIN page_list : page_list[r] = {}
  <2>1. UNCHANGED <<handed, pt_pages, page_list>>
    BY <1>2 DEF AllocPtPage
  <2>. QED  BY <1>2, <2>1, AllocPanics
<1>3. CASE pt_pages = <<>> /\ ~ \A r \in DOMAIN page_list : page_list[r] = {}
  <2>1. PICK r \in {1, 2} : /\ r = 1 \/ page_list[1] = {}
                            /\ \E p \in page_list[r] :
                                 /\ page_list' = [page_list EXCEPT ![r] = @ \ {p}]
                                 /\ pt_pages' = Front(SplitToSize(p, P4k))
                                 /\ handed' = Append(handed, Last(SplitToSize(p, P4k)).addr)
                                 /\ UNCHANGED out
    <3>1. CASE page_list[1] # {}
      BY <1>3, <3>1 DEF AllocPtPage
    <3>2. CASE page_list[1] = {}
      BY <1>3, <3>2 DEF AllocPtPage
    <3>. QED  BY <3>1, <3>2
  <2>2. PICK p \in page_list[r] :
          /\ page_list' = [page_list EXCEPT ![r] = @ \ {p}]
          /\ pt_pages' = Front(SplitToSize(p, P4k))
          /\ handed' = Append(handed, Last(SplitToSize(p, P4k)).addr)
          /\ UNCHANGED out
    BY <2>1
  <2>. QED  BY <1>3, <2>1, <2>2, AllocFromPage
<1>. QED  BY <1>1, <1>2, <1>3

\* The lists with_rng makes: of each, the pages lie apart and fill the memory.
LEMMA WithRngStarts ==
  ASSUME FrameInv, WithRng
  PROVE  FrameInv'
<1>1. /\ size = 0 /\ size' \in Nat /\ handed = <<>> /\ pt_pages = <<>> /\ ~out
      /\ mapping = [left |-> 0, tables |-> 0]
      /\ UNCHANGED <<pt_pages, handed, mapping, last_pid, out>>
  BY DummyAssumption DEF WithRng, FrameInv
<1> DEFINE n == size'
           pre == PagePrelist(n)
           seen == {p.size : p \in pre}
<1>a. PICK c1 \in Splits(pre, {}) :
        \E c2 \in Splits(RoundOf(pre, c1), seen) :
          page_list' = <<RoundOf(pre, c1), RoundOf(RoundOf(pre, c1), c2)>>
  BY DEF WithRng
<1>2. PICK c2 \in Splits(RoundOf(pre, c1), seen) :
        page_list' = <<RoundOf(pre, c1), RoundOf(RoundOf(pre, c1), c2)>>
  BY <1>a
<1> HIDE DEF n, seen
<1>3. n = size' /\ n \in Nat
  BY <1>1 DEF n
<1>4. Tiles(pre, n)
  BY <1>3, PrelistTiles
<1> HIDE DEF pre
<1>5. Tiles(RoundOf(pre, c1), n)
  BY <1>3, <1>4, RoundTiles
<1> DEFINE R1 == RoundOf(pre, c1)
           R2 == RoundOf(R1, c2)
<1>6. Tiles(R2, n)
  BY <1>3, <1>5, RoundTiles
<1>7. Tiles(R1, n) /\ page_list' = <<R1, R2>>
  BY <1>2, <1>5
<1> HIDE DEF R1, R2
<1>8. page_list'[1] = R1 /\ page_list'[2] = R2
  BY <1>7
<1>9. FrameTypes'
  BY <1>1 DEF FrameTypes
<1>10. PageLists'
  <2>1. \A p \in R1 \cup R2 : p.addr \in Nat /\ p.size \in {P4k, P2m, P1g} /\ Covers(p) \subseteq 0 .. n - 1
    BY <1>6, <1>7 DEF Tiles
  <2>. QED  BY <1>3, <1>7, <1>8, <2>1 DEF PageLists
<1>11. FirstRound'
  <2>1. Handed' = {} /\ Cut' = {} /\ Len(handed') = 0 /\ Len(pt_pages') = 0
    BY <1>1 DEF Handed, Cut
  <2>2. LeftOver' = {u \in Nat : \E p \in R1 : u \in Covers(p)}
    BY <1>8 DEF LeftOver, Covers
  <2>3. /\ \A p \in R1 : Covers(p) \subseteq 0 .. n - 1
        /\ \A u \in 0 .. n - 1 : \E p \in R1 : u \in Covers(p)
        /\ \A p, q \in R1 : \A u \in Nat : u \in Covers(p) /\ u \in Covers(q) => p = q
    BY <1>7 DEF Tiles
  <2>4. LeftOver' = 0 .. n - 1
    <3>1. \A u \in LeftOver' : u \in 0 .. n - 1
      BY <2>2, <2>3
    <3>2. \A u \in 0 .. n - 1 : u \in Nat
      BY <1>3
    <3>3. \A u \in 0 .. n - 1 : u \in LeftOver'
      BY <2>2, <2>3, <3>2
    <3>. QED  BY <3>1, <3>3
  <2>5. \A i, j \in 1 .. Len(handed') : handed'[i] = handed'[j] => i = j
    BY <2>1
  <2>6. \A k, m \in 1 .. Len(pt_pages') : pt_pages'[k].addr = pt_pages'[m].addr => k = m
    BY <2>1
  <2>. QED  BY <1>3, <1>8, <2>1, <2>3, <2>4, <2>5, <2>6 DEF FirstRound
<1>. QED  BY <1>1, <1>9, <1>10, <1>11 DEF FrameInv

LEMMA FrameInvariant == DummySpec => []FrameInv
<1>1. DummyInit => FrameInv
  BY DEF DummyInit, FrameInv, FrameTypes
<1>2. ASSUME FrameInv, [DummyNext]_dummyVars
      PROVE  FrameInv'
  <2>0. size \in Nat
    BY <1>2 DEF FrameInv, FrameTypes
  <2>1. CASE WithRng
    BY <1>2, <2>1, WithRngStarts
  <2>2. CASE AllocProcess
    BY <1>2, <2>2, AllocKeeps DEF AllocProcess, AllocDtb
  <2>3. CASE MapPage
    <3>1. size > 0
      BY <1>2, <2>0, <2>3 DEF FrameInv, MapPage
    <3>. QED  BY <1>2, <2>3, <3>1, AllocKeeps DEF MapPage
  <2>4. CASE AllocateFrame
    <3>1. size > 0
      BY <1>2, <2>0, <2>4 DEF FrameInv, AllocateFrame
    <3>. QED  BY <1>2, <2>4, <3>1, AllocKeeps DEF AllocateFrame
  <2>5. CASE UNCHANGED dummyVars
    <3>1. UNCHANGED <<size, page_list, pt_pages, handed, mapping, out>>
      BY <2>5 DEF dummyVars
    <3>2. (FrameTypes => FrameTypes') /\ (PageLists => PageLists')
      BY <3>1 DEF FrameTypes, PageLists, Covers
    <3>3. Handed' = Handed /\ Cut' = Cut /\ LeftOver' = LeftOver
      BY <3>1 DEF Handed, Cut, LeftOver, Covers
    <3>4. FirstRound => FirstRound'
      BY <3>1, <3>3 DEF FirstRound, Covers
    <3>. QED  BY <1>2, <3>1, <3>2, <3>4 DEF FrameInv
  <2>. QED  BY <1>2, <2>1, <2>2, <2>3, <2>4, <2>5 DEF DummyNext
<1>. QED  BY <1>1, <1>2, PTL DEF DummySpec

\* Until as many frames are handed out as the memory has pages, none was
\* handed out twice, though the lists have every page twice; every frame is
\* one of the memory's; and alloc_pt_page panics no sooner.
THEOREM FramesOnce == DummySpec => []FramesApart
<1>1. FrameInv => FramesApart
  <2> SUFFICES ASSUME FrameInv
               PROVE  FramesApart
    OBVIOUS
  <2>1. FrameTypes /\ DOMAIN handed = 1 .. Len(handed) /\ Len(handed) \in Nat /\ size \in Nat
    BY DEF FrameInv, FrameTypes
  <2>2. Len(handed) <= size => IsInjective(handed)
    <3> SUFFICES ASSUME Len(handed) <= size
                 PROVE  IsInjective(handed)
      OBVIOUS
    <3>1. \A i, j \in 1 .. Len(handed) : handed[i] = handed[j] => i = j
      <4>1. CASE size = 0
        BY <2>1, <4>1
      <4>2. CASE size > 0
        BY <2>1, <4>2 DEF FrameInv, FirstRound
      <4>. QED  BY <2>1, <4>1, <4>2
    <3>. QED  BY <2>1, <3>1 DEF IsInjective
  <2>3. \A i \in DOMAIN handed : handed[i] \in 0 .. size - 1
    BY <2>1 DEF FrameTypes
  <2>4. out => Len(handed) >= size
    BY <2>1 DEF FrameInv
  <2>. QED  BY <2>2, <2>3, <2>4 DEF FramesApart
<1>. QED  BY <1>1, FrameInvariant, PTL
=============================================================================

----------------------------- MODULE MCLibrary -----------------------------
(***************************************************************************)
(* The components of the libraries whose instances are small, one at a     *)
(* time: part says which one a behavior is about, the others stay as they  *)
(* begin.                                                                  *)
(***************************************************************************)
EXTENDS CachedVat, MemoryMap, DummyMemory, KernelBuild, PdbStruct, Win32Lists, FfiHandles, TLC

(* The translation cache: one page at a time, two that share a slot. *)
MCVPages == 0 .. 3
Buf(from, to) == [from |-> from, to |-> to]
NarrowBatches == {<<Buf(0, 4)>>, <<Buf(8, 11)>>}

(* The memory map: regions that touch, overlap and contain each other, with *)
(* outputs in another order than the regions, and elements that begin and   *)
(* end before, in, between and behind them.                                 *)
Reals == (0 :> 4) @@ (1 :> 9) @@ (2 :> 0) @@ (5 :> 6)
MCRegions == {[base |-> r, size |-> z, real |-> Reals[r]] : r \in DOMAIN Reals, z \in {1, 4}}
MCElements ==
  {[addr |-> 0, len |-> 8], [addr |-> 2, len |-> 4],
   [addr |-> 6, len |-> 3]}
MCLimits == {8, 20}

(* The offset list built into the program. *)
File(guid, major, build, arch) ==
  [guid |-> guid, version |-> [major |-> major, build |-> build], arch |-> arch]
MCBuiltIn ==
  <<File(Nothing, 10, 2, "X64"), File("g", 6, 1, "X86"), File(Nothing, 10, 1, "X64")>>

(* The fields from_pdb_slice asks for: one that must be there, one that     *)
(* need not, one of a class that need not.                                  *)
MCWanted ==
  <<[class |-> "EPROCESS", field |-> "Peb", missing |-> "err"],
    [class |-> "EPROCESS", field |-> "Wow", missing |-> "zero"],
    [class |-> "TEB32", field |-> "Peb", missing |-> "class"]>>

(* Three processes; two with names of more than 14 bytes that differ only   *)
(* behind them are asked for.                                               *)
CONSTANTS p0, p1, p2, exe, dll, wowdll

Name(short, rest) == [short |-> short, rest |-> rest, upper |-> FALSE]

MCProcs == {p0, p1, p2}
MCDlls == {dll}
MCFullName == (p0 :> Name("System", "") @@ p1 :> Name("diabotical.exe", "")
               @@ p2 :> Name("longest_server", ".exe"))
MCDllName == (dll :> Name("ntdll.dll", "") @@ wowdll :> Name("wow64.dll", ""))
MCWow64 == {p2}
MCQueries == {Name("longest_server", ".exe"), Name("longest_server", "2.exe")}

(* Two libraries in one directory, with a file that is none; a directory    *)
(* that is not there.                                                       *)
CONSTANTS la, lb

MCFiles == [p \in {"d", "x"} |-> IF p = "d" THEN <<la, NoLib, lb>> ELSE Invalid]
MCNames == [l \in {la, lb} |-> "qemu"]
MCSearch == <<"d", "x">>

----------------------------------------------------------------------------
VARIABLE part


libraryVars == <<part, vars, memoryMapVars, dummyVars, buildVars, pdbVars, listVars, handleVars>>

LibraryInit ==
  /\ part \in {"tlb", "map", "dummy", "build", "pdb", "lists", "handles"}
  /\ Init /\ (part # "tlb" => root = 0)
  /\ MapInit /\ DummyInit /\ BuildInit /\ PdbInit
  /\ ListInit /\ (part # "lists" => linked = {p0})
  /\ HandleInit

LibraryNext ==
  \/ /\ part = "tlb" /\ Next
     /\ UNCHANGED <<part, memoryMapVars, dummyVars, buildVars, pdbVars, listVars, handleVars>>
  \/ /\ part = "map" /\ MapNext
     /\ UNCHANGED <<part, vars, dummyVars, buildVars, pdbVars, listVars, handleVars>>
  \/ /\ part = "dummy" /\ DummyNext
     /\ UNCHANGED <<part, vars, memoryMapVars, buildVars, pdbVars, listVars, handleVars>>
  \/ /\ part = "build" /\ BuildNext
     /\ UNCHANGED <<part, vars, memoryMapVars, dummyVars, pdbVars, listVars, handleVars>>
  \/ /\ part = "pdb" /\ PdbNext
     /\ UNCHANGED <<part, vars, memoryMapVars, dummyVars, buildVars, listVars, handleVars>>
  \/ /\ part = "lists" /\ ListNext
     /\ UNCHANGED <<part, vars, memoryMapVars, dummyVars, buildVars, pdbVars, handleVars>>
  \/ /\ part = "handles" /\ HandleNext
     /\ UNCHANGED <<part, vars, memoryMapVars, dummyVars, buildVars, pdbVars, listVars>>

LibrarySpec == LibraryInit /\ [][LibraryNext]_libraryVars
=============================================================================

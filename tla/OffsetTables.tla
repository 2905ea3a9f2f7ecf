---------------------------- MODULE OffsetTables ----------------------------
(***************************************************************************)
(* How the offsets for a Windows kernel are chosen                         *)
(* (memflow-win32/src/offsets/mod.rs): from the PDB in the symbol store if *)
(* the kernel's GUID is known, else from the list built into the program.  *)
(* A table of offsets is the name of where it comes from.                  *)
(***************************************************************************)
EXTENDS Integers, Sequences, SequencesExt

CONSTANT Nothing   \* nothing: a GUID or a version that is not known, no file

X64 == "x64"
X32 == "x32"
X32Pae == "x32_pae"

(* Win32OffsetsArchitecture has one name for both 32-bit architectures. *)
OffsetsArch(arch) == IF arch = X64 THEN "X64" ELSE "X86"

Versions(builds) == [major : {6, 10}, build : builds]

(* An element of the list, Win32OffsetFile; a file may come without a GUID. *)
OffsetFiles(guids, builds, archs) ==
  [guid : guids \cup {Nothing}, version : Versions(builds), arch : archs]

(* The list is searched for the GUID first: the places that have it. *)
ExactGuid(files, guid) == {n \in DOMAIN files : guid # Nothing /\ files[n].guid = guid}

\* Mutant of Closer: the last match counts, however old
CloserLast(f, winver, arch, best) ==
  /\ f.version.major = winver.major
  /\ f.version.build <= winver.build
  /\ f.arch = arch

(* f replaces the best match so far: the same version and architecture, not *)
(* newer than the kernel, and not older than the best match.                *)
Closer(f, winver, arch, best) ==
  /\ f.version.major = winver.major
  /\ f.version.build <= winver.build
  /\ (IF best = Nothing THEN 0 ELSE best.version.build) <= f.version.build
  /\ f.arch = arch

(* closest_match after each place of the list. *)
ClosestMatches(files, winver, arch) ==
  LET best[n \in 0 .. Len(files)] ==
        IF n = 0 THEN Nothing
        ELSE IF Closer(files[n], winver, arch, best[n - 1]) THEN files[n] ELSE best[n - 1]
  IN  best

ClosestMatch(files, winver, arch) == ClosestMatches(files, winver, arch)[Len(files)]

(* build_with_offset_list: the file whose table is taken, or Nothing. *)
BuildWithOffsetList(files, guid, winver, arch) ==
  IF ExactGuid(files, guid) # {} THEN files[Min(ExactGuid(files, guid))]
  ELSE IF winver = Nothing THEN Nothing
  ELSE ClosestMatch(files, winver, arch)

(* build_with_symbol_store: a store, if there is one, is asked with a GUID  *)
(* only; pdb says whether it gives a PDB that has every field.              *)
BuildWithSymbolStore(pdb, guid) == guid # Nothing /\ pdb

BuildOffsets(pdb, files, guid, winver, arch) ==
  CASE guid = Nothing /\ winver = Nothing -> Nothing
    [] BuildWithSymbolStore(pdb, guid) -> [from |-> "pdb", file |-> Nothing]
    [] OTHER ->
         LET f == BuildWithOffsetList(files, guid, winver, arch)
         IN  IF f = Nothing THEN Nothing ELSE [from |-> "list", file |-> f]

----------------------------------------------------------------------------
(* What the list is asked for, without the order of its search: the exact   *)
(* GUID if some file has it; else a file of the kernel's version and        *)
(* architecture with the newest build that is not newer than the kernel.    *)
RightFile(files, guid, winver, arch, f) ==
  LET listed == ToSet(files)
      older == {x \in listed : /\ x.version.major = winver.major
                               /\ x.version.build <= winver.build
                               /\ x.arch = arch}
  IN  IF guid # Nothing /\ \E x \in listed : x.guid = guid
      THEN f \in listed /\ f.guid = guid
      ELSE IF older = {} THEN f = Nothing
      ELSE f \in older /\ \A x \in older : x.version.build <= f.version.build
=============================================================================

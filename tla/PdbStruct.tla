----------------------------- MODULE PdbStruct -----------------------------
(***************************************************************************)
(* How the offset of a field is found in a PDB                             *)
(* (memflow-win32/src/offsets/pdb_struct.rs, pdb_struct/data.rs, and       *)
(* from_pdb_slice of offsets/mod.rs): the class is looked for, all types   *)
(* it needs are added, and the fields of all of them go into one map.      *)
(*                                                                         *)
(* A PDB is a sequence of types, a type refers to types before it; 0 is an *)
(* index that does not exist.  The offset of a field of type i is i.       *)
(***************************************************************************)
EXTENDS Integers, Sequences, SequencesExt, FiniteSetsExt

CONSTANTS
  ClassNames, FieldNames,
  Wanted,      \* the classes and fields that are asked for, in order
  MaxTypes     \* bound: types in a PDB

VARIABLES
  pdb,      \* the types
  asking,   \* elements of Wanted asked for so far
  stage,    \* "write", "ask", "add", "err", "ok"
  needed,   \* needed_types
  classes,  \* data.classes, by index
  added,    \* every index given to Data::add, in order
  offsets   \* results so far, 0 for a field taken as absent

pdbVars == <<pdb, asking, stage, needed, classes, added, offsets>>

(* A field list with its continuations is one set of fields; refs are the   *)
(* types of fields, base classes, methods and their arguments.              *)
Classes(i) == [kind : {"class"}, name : ClassNames, forward : {FALSE},
               fields : SUBSET FieldNames, refs : SUBSET (0 .. i - 1)]
Forwards == [kind : {"class"}, name : ClassNames, forward : {TRUE}, fields : {{}}, refs : {{}}]
Enums == [kind : {"enum"}, refs : {{}}]   \* of a primitive type
Unions == [kind : {"union"}]
Pointers(i) == [kind : {"pointer"}, to : 1 .. i - 1]   \* also const, volatile, arrays
Primitives == [kind : {"primitive"}]

Types(i) == Classes(i) \cup Forwards \cup Enums \cup Unions \cup Pointers(i) \cup Primitives

PdbInit ==
  /\ pdb = <<>> /\ asking = 0 /\ stage = "write"
  /\ needed = {} /\ classes = <<>> /\ added = <<>> /\ offsets = <<>>

WriteType ==
  /\ stage = "write" /\ Len(pdb) < MaxTypes
  /\ \E t \in Types(Len(pdb) + 1) : pdb' = Append(pdb, t)
  /\ UNCHANGED <<asking, stage, needed, classes, added, offsets>>

OpenPdb ==
  /\ stage = "write"
  /\ stage' = "ask"
  /\ UNCHANGED <<pdb, asking, needed, classes, added, offsets>>

----------------------------------------------------------------------------
(* type_name: what naming a type adds to needed_types; 0 if there is none. *)
TypeName(i) ==
  LET names[j \in 0 .. Len(pdb)] ==
        IF j = 0 THEN {0}
        ELSE IF pdb[j].kind \in {"class", "enum", "union"} THEN {j}
        ELSE IF pdb[j].kind = "pointer" THEN names[pdb[j].to] ELSE {}
  IN  names[i]

Names(refs) == UNION {TypeName(i) : i \in refs}

\* Mutant of AddClass: pushed at the end
AddClassLast(i) == Append(classes, i)

AddClass(i) == <<i>> \o classes

(* Data::add; a reference that is not there is an error. *)
Add(i, rest) ==
  LET found == IF pdb[i].kind \in {"class", "enum"} THEN Names(pdb[i].refs) ELSE {}
  IN  /\ added' = Append(added, i)
      /\ IF 0 \in found
         THEN stage' = "failed" /\ UNCHANGED <<needed, classes>>
         ELSE /\ stage' = "add"
              /\ needed' = rest \cup found
              /\ classes' = IF pdb[i].kind = "class" /\ ~pdb[i].forward
                            THEN AddClass(i) ELSE classes

(* PdbStruct::with: the first definition of the class, if any. *)
Definitions(name) ==
  {i \in 1 .. Len(pdb) : pdb[i].kind = "class" /\ pdb[i].name = name /\ ~pdb[i].forward}

With ==
  /\ stage = "ask" /\ asking < Len(Wanted)
  /\ asking' = asking + 1
  /\ LET defs == Definitions(Wanted[asking + 1].class)
     IN  IF defs = {}
         THEN stage' = "add" /\ UNCHANGED <<needed, classes, added>>
         ELSE Add(Min(defs), needed)
  /\ UNCHANGED <<pdb, offsets>>

(* The needed type with the highest index is next. *)
AddNeeded ==
  /\ stage = "add" /\ needed # {}
  /\ Add(Max(needed), needed \ {Max(needed)})
  /\ UNCHANGED <<pdb, asking, offsets>>

(* The classes go into field_map in order, a later one over an earlier. *)
FindField(field) ==
  LET having == {k \in DOMAIN classes : field \in pdb[classes[k]].fields}
  IN  IF having = {} THEN 0 ELSE classes[Max(having)]

Drop == needed' = {} /\ classes' = <<>> /\ added' = <<>>

(* from_pdb_slice: a field that is not found is an error, or 0 for the one  *)
(* that only some versions have.  A class that is not found is an empty     *)
(* one, also where it may be missing.                                       *)
TakeOffset ==
  /\ stage = "add" /\ needed = {}
  /\ LET w == Wanted[asking]
         o == FindField(w.field)
     IN  IF o = 0 /\ w.missing # "zero"
         THEN stage' = "err" /\ UNCHANGED offsets
         ELSE stage' = "ask" /\ offsets' = Append(offsets, o)
  /\ Drop
  /\ UNCHANGED <<pdb, asking>>

(* An error of with is one of from_pdb_slice, except for _TEB32. *)
WithFailed ==
  /\ stage = "failed"
  /\ IF Wanted[asking].missing = "class"
     THEN stage' = "ask" /\ offsets' = Append(offsets, 0)
     ELSE stage' = "err" /\ UNCHANGED offsets
  /\ Drop
  /\ UNCHANGED <<pdb, asking>>

FromPdbDone ==
  /\ stage = "ask" /\ asking = Len(Wanted)
  /\ stage' = "ok"
  /\ UNCHANGED <<pdb, asking, needed, classes, added, offsets>>

PdbNext ==
  \/ WriteType \/ OpenPdb \/ With \/ AddNeeded \/ TakeOffset \/ WithFailed \/ FromPdbDone

PdbSpec == PdbInit /\ [][PdbNext]_pdbVars

----------------------------------------------------------------------------
(* A type is added once, however often and by whatever paths it is needed;  *)
(* and where the class asked for has the field, it is that field's offset    *)
(* that counts, not the one of a class it contains or points to.            *)
OwnFieldWins ==
  /\ IsInjective(added)
  /\ \A k \in 1 .. Len(offsets) :
       LET defs == Definitions(Wanted[k].class)
       IN  offsets[k] # 0 /\ defs # {} /\ Wanted[k].field \in pdb[Min(defs)].fields
           => offsets[k] = Min(defs)
=============================================================================

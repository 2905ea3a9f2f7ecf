----------------------------- MODULE MCPrograms -----------------------------
(***************************************************************************)
(* jiaa and the machinery with threads or loops of its own, one at a time: *)
(* part says which one a behavior is about, the others stay as they begin. *)
(***************************************************************************)
EXTENDS Jiaa, SymbolStore, EntityWalk, ValidatorSlots

CONSTANTS la

MCFiles == [p \in {"d", "x"} |-> IF p = "d" THEN <<la, NoLib>> ELSE Invalid]
MCNames == [l \in {la} |-> "qemu"]
MCSearch == <<"d", "x">>

VARIABLE part

programVars == <<part, jiaaVars, storeVars, walkVars, slotsVars>>

ProgramsInit ==
  /\ part \in {"jiaa", "store", "walk", "slots"}
  /\ JiaaInit /\ StoreInit /\ WalkInit
  /\ SlotsInit /\ (part # "slots" => validatorKind = "count")

ProgramsNext ==
  \/ part = "jiaa" /\ JiaaNext /\ UNCHANGED <<part, storeVars, walkVars, slotsVars>>
  \/ part = "store" /\ StoreNext /\ UNCHANGED <<part, jiaaVars, walkVars, slotsVars>>
  \/ part = "walk" /\ WalkNext /\ UNCHANGED <<part, jiaaVars, storeVars, slotsVars>>
  \/ part = "slots" /\ SlotsNext /\ UNCHANGED <<part, jiaaVars, storeVars, walkVars>>

(* The fairness each of them has; a part that does not run asks for none. *)
ProgramsSpec ==
  /\ ProgramsInit /\ [][ProgramsNext]_programVars
  /\ WF_jiaaVars(part = "jiaa" /\ Main) /\ WF_jiaaVars(part = "jiaa" /\ InputThread)
  /\ \A p \in Programs : /\ WF_storeVars(part = "store" /\ LoadStep(p))
                         /\ WF_storeVars(part = "store" /\ Progress(p))
  /\ WF_walkVars(part = "walk" /\ WalkStep)
=============================================================================

--------------------------- MODULE ValidatorSlots ---------------------------
(***************************************************************************)
(* The CacheValidator interface as a state machine: what its users may     *)
(* call, in any order, on the slots of one validator.  The counter of      *)
(* CountCacheValidator wraps; invalidate_slot is the one place where it is *)
(* computed without wrapping_sub, so a build with overflow checks panics   *)
(* there where a build without them wraps.  Which of the two validators    *)
(* is in use is chosen once, in the initial state.                         *)
(***************************************************************************)
EXTENDS Integers

CONSTANTS
  ValidFor,        \* valid_count / valid_time
  CounterMod,      \* 2^w for the w-bit usize of CountCacheValidator
  SlotCount,       \* slot_count
  MaxTime          \* bound: instants / calls of update_validity

ASSUME SlotsAssumption ==
  /\ SlotCount \in Nat \ {0} /\ MaxTime \in Nat
  /\ ValidFor \in Nat /\ CounterMod \in Nat /\ ValidFor < CounterMod

Count == INSTANCE CacheValidator WITH ValidatorKind <- "count"
Timed == INSTANCE CacheValidator WITH ValidatorKind <- "timed"

SlotIds == 0 .. SlotCount - 1

VARIABLES
  validatorKind,      \* "count" or "timed"
  last,      \* last_count / last_time
  stamp,     \* count / time
  clock,     \* Instant::now()
  halted,    \* the process panicked
  updates,   \* history: instants or calls so far, unwrapped
  event      \* history: what was last done to a slot, and when

slotsVars == <<validatorKind, last, stamp, clock, halted, updates, event>>

Counting == validatorKind = "count"
UpdateValidity(l, now) ==
  IF Counting THEN Count!UpdateValidity(l, now) ELSE Timed!UpdateValidity(l, now)
IsSlotValid(l, s) ==
  IF Counting THEN Count!IsSlotValid(l, s) ELSE Timed!IsSlotValid(l, s)
AllocatedStamp(l) ==
  IF Counting THEN Count!AllocatedStamp(l) ELSE Timed!AllocatedStamp(l)

SlotsInit ==
  /\ validatorKind \in {"count", "timed"}
  /\ last = 0 /\ clock = 0 /\ updates = 0
  /\ stamp = [i \in SlotIds |-> AllocatedStamp(0)]
  /\ halted = FALSE
  /\ event = [i \in SlotIds |-> [what |-> "allocate", at |-> 0]]

\* update_validity
Update ==
  /\ ~halted
  /\ Counting => updates < MaxTime
  /\ last' = UpdateValidity(last, clock)
  /\ updates' = IF Counting THEN updates + 1 ELSE clock
  /\ UNCHANGED <<validatorKind, stamp, clock, halted, event>>

\* validate_slot
Validate(i) ==
  /\ ~halted
  /\ stamp' = [stamp EXCEPT ![i] = last]
  /\ event' = [event EXCEPT ![i] = [what |-> "validate", at |-> updates]]
  /\ UNCHANGED <<validatorKind, last, clock, halted, updates>>

\* invalidate_slot, where the subtraction does not underflow or wraps
Invalidate(i) ==
  /\ ~halted
  /\ stamp' = [stamp EXCEPT ![i] = AllocatedStamp(last)]
  /\ event' = [event EXCEPT ![i] = [what |-> "invalidate", at |-> updates]]
  /\ UNCHANGED <<validatorKind, last, clock, halted, updates>>

\* invalidate_slot in a build with overflow checks, before valid_count calls
\* of update_validity
InvalidatePanics ==
  /\ ~halted
  /\ Counting /\ last < ValidFor
  /\ halted' = TRUE
  /\ UNCHANGED <<validatorKind, last, stamp, clock, updates, event>>

Tick ==
  /\ ~Counting /\ clock < MaxTime
  /\ clock' = clock + 1
  /\ UNCHANGED <<validatorKind, last, stamp, halted, updates, event>>

SlotsNext ==
  \/ Update
  \/ \E i \in SlotIds : Validate(i)
  \/ \E i \in SlotIds : Invalidate(i)
  \/ InvalidatePanics
  \/ Tick

SlotsSpec == SlotsInit /\ [][SlotsNext]_slotsVars

-----------------------------------------------------------------------------
\* How long ago the slot was last touched, in instants or calls.
Age(i) == updates - event[i].at

\* Until the counter has gone all the way round, a slot that was filled is
\* valid for exactly the first valid_count calls of update_validity, or up to
\* and including valid_time.
ValidInWindow ==
  \A i \in SlotIds :
    event[i].what = "validate" /\ Age(i) < CounterMod =>
      (IsSlotValid(last, stamp[i]) <=>
         IF Counting THEN Age(i) < ValidFor ELSE Age(i) <= ValidFor)

\* A slot that was allocated or invalidated is not valid before the counter
\* has gone round; with the clock it is valid until the clock moves on.
EmptyNotValid ==
  \A i \in SlotIds :
    event[i].what # "validate" /\ IsSlotValid(last, stamp[i]) =>
      IF Counting THEN Age(i) + ValidFor >= CounterMod ELSE Age(i) = 0

\* Both: a slot is valid for as long as it should be and no longer, whatever
\* was done to it and however often the counter wraps.
SlotWindows == ValidInWindow /\ EmptyNotValid
=============================================================================

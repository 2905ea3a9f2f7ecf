--------------------------- MODULE CacheValidator ---------------------------
(***************************************************************************)
(* The two cache validators of memflow/src/mem/cache: a slot carries a     *)
(* stamp, the validator carries the instant of its last update, and a slot *)
(* is valid while the distance between the two is small enough.            *)
(*                                                                         *)
(* CountCacheValidator counts operations in a wrapping machine word,       *)
(* TimedCacheValidator reads a coarse monotonic clock.  Both are given as  *)
(* operators on (last, stamp), so that the page cache and the TLB can be   *)
(* stated over either of them.                                             *)
(***************************************************************************)
EXTENDS Integers

CONSTANTS
  ValidatorKind,   \* "count" or "timed"
  ValidFor,        \* valid_count / valid_time
  CounterMod       \* 2^w for the w-bit usize of CountCacheValidator

ASSUME ValidatorAssumption ==
  /\ ValidatorKind \in {"count", "timed"}
  /\ ValidFor \in Nat
  /\ CounterMod \in Nat \ {0}

Counting == ValidatorKind = "count"

WrappingSub(a, b) == (a - b) % CounterMod

\* CountCacheValidator: update_validity, is_slot_valid, allocate_slots
CountUpdate(last) == (last + 1) % CounterMod
CountIsSlotValid(last, stamp) == WrappingSub(last, stamp) < ValidFor
CountAllocatedStamp(last) == WrappingSub(last, ValidFor)

\* TimedCacheValidator: is_slot_valid, allocate_slots.  Note <= for the clock
\* and < for the counter.
TimedIsSlotValid(last, stamp) == last - stamp <= ValidFor
TimedAllocatedStamp(last) == last - ValidFor

\* update_validity: one more operation, or the present instant.
UpdateValidity(last, now) == IF Counting THEN CountUpdate(last) ELSE now

\* Mutant of IsSlotValid: the slot stays valid one operation or instant longer.
IsSlotValidLate(last, stamp) ==
  IF Counting THEN WrappingSub(last, stamp) <= ValidFor
              ELSE last - stamp <= ValidFor + 1

\* is_slot_valid
IsSlotValid(last, stamp) ==
  IF Counting THEN CountIsSlotValid(last, stamp) ELSE TimedIsSlotValid(last, stamp)

\* allocate_slots: the stamp given to a slot that was never filled.
AllocatedStamp(last) ==
  IF Counting THEN CountAllocatedStamp(last) ELSE TimedAllocatedStamp(last)

\* The values a stamp can have.
Stamps == IF Counting THEN 0 .. CounterMod - 1 ELSE Int
=============================================================================

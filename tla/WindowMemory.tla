---------------------------- MODULE WindowMemory ----------------------------
(***************************************************************************)
(* What a cached memory promises, and nothing of how: a memory that is     *)
(* read and written by lists, changed by others at any time, and whose     *)
(* answers may be a window old.  An answer, once given, stays; a list that *)
(* is answered Ok is answered in full; and what the caller wrote itself it *)
(* reads back as long as nobody else wrote the page.                       *)
(***************************************************************************)
EXTENDS Integers, Sequences

CONSTANTS
  Pages, Vals, None,
  Window           \* how old an answer may be when its operation begins

VARIABLES
  mem,             \* the memory
  now,             \* the instant
  began,           \* the instant at which the operation began
  busy,            \* does one run?
  answers,         \* of the read list: page and content, None if not yet known
  result,          \* "none", "ok" or "err"
  lastHeld,        \* when a page was last known to have a content
  mine             \* what the caller knows a page to have, or None

vars == <<mem, now, began, busy, answers, result, lastHeld, mine>>

Init ==
  /\ mem \in [Pages -> Vals]
  /\ now = 0 /\ began = 0
  /\ busy = FALSE /\ answers = <<>> /\ result = "none"
  /\ lastHeld = [p \in Pages |-> [v \in Vals |-> None]]
  /\ mine = [p \in Pages |-> None]

(* What may be answered for a page. *)
Recent(p, v) == mem[p] = v \/ (lastHeld[p][v] # None /\ lastHeld[p][v] + Window >= began)

Allowed(p, v) == Recent(p, v) /\ mine[p] \in {v, None}

(* An operation begins; one on an empty list is over at once. *)
Begin ==
  /\ ~busy
  /\ began' >= began /\ now' >= now
  /\ answers' = <<>>
  /\ \/ busy' = TRUE /\ result' = "none"
     \/ busy' = FALSE /\ result' = "ok"
  /\ UNCHANGED <<mem, lastHeld, mine>>

(* The next page of the list is looked at, and answered now or later. *)
Ask ==
  /\ busy
  /\ \E p \in Pages, v \in Vals \cup {None} :
       /\ v = None \/ Allowed(p, v)
       /\ answers' = Append(answers, [page |-> p, val |-> v])
  /\ UNCHANGED <<mem, now, began, busy, result, lastHeld, mine>>

Answer ==
  /\ busy
  /\ \E id \in DOMAIN answers, v \in Vals :
       /\ answers[id].val = None /\ Allowed(answers[id].page, v)
       /\ answers' = [answers EXCEPT ![id].val = v]
  /\ UNCHANGED <<mem, now, began, busy, result, lastHeld, mine>>

ReturnOk ==
  /\ busy
  /\ \A id \in DOMAIN answers : answers[id].val # None
  /\ busy' = FALSE /\ result' = "ok"
  /\ UNCHANGED <<mem, now, began, answers, lastHeld, mine>>

(* A failed operation may have changed any part of what it was to write. *)
ReturnErr ==
  /\ busy
  /\ busy' = FALSE /\ result' = "err"
  /\ \A p \in Pages : mine'[p] \in {mine[p], None}
  /\ UNCHANGED <<mem, now, began, answers, lastHeld>>

(* A content that is to be written may be answered before the memory has it, *)
(* and the caller can rely on neither the old nor the new one until then.    *)
Announce ==
  /\ busy
  /\ \E p \in Pages, v \in Vals :
       /\ lastHeld' = [lastHeld EXCEPT ![p][v] = now]
       /\ mine' = [mine EXCEPT ![p] = None]
  /\ UNCHANGED <<mem, now, began, busy, answers, result>>

(* A page changes, and the old content begins to age.  It is the caller's   *)
(* own write, or somebody else's.                                           *)
Changes(p, v, known) ==
  /\ mem' = [mem EXCEPT ![p] = v]
  /\ lastHeld' = [lastHeld EXCEPT ![p][mem[p]] = now]
  /\ mine' = [mine EXCEPT ![p] = known]
  /\ UNCHANGED <<now, began, busy, answers, result>>

Write == busy /\ \E p \in Pages, v \in Vals : \E known \in {v, None} : Changes(p, v, known)

Other == \E p \in Pages, v \in Vals : Changes(p, v, None)

(* A copy of the memory has answered nothing yet. *)
Copy ==
  /\ ~busy
  /\ answers' = <<>> /\ result' = "none"
  /\ UNCHANGED <<mem, now, began, busy, lastHeld, mine>>

TimePasses == now' > now /\ UNCHANGED <<mem, began, busy, answers, result, lastHeld, mine>>

Next ==
  \/ Begin \/ Ask \/ Answer \/ ReturnOk \/ ReturnErr
  \/ Announce \/ Write \/ Other \/ Copy \/ TimePasses

Spec == Init /\ [][Next]_vars
=============================================================================

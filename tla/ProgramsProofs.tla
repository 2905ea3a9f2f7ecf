---------------------------- MODULE ProgramsProofs ----------------------------
(***************************************************************************)
(* Theorems about SymbolStore, for any number of programs and parts, and   *)
(* about ValidatorSlots, for any width of the counter, any window and any  *)
(* number of slots.                                                        *)
(***************************************************************************)
EXTENDS SymbolStore, ValidatorSlots, TLAPS

-----------------------------------------------------------------------------
(* The symbol store: the inductive invariant                               *)

Places == {"idle", "open", "read", "get", "get_ptr", "body", "body_ptr", "join", "create", "write"}

StoreType ==
  /\ file \in [len : -1 .. Parts, good : SUBSET Whole]
  /\ \A n \in file.good : n <= file.len
  /\ at \in [Programs -> Places] /\ cached \in [Programs -> BOOLEAN]
  /\ pos \in [Programs -> 0 .. Parts] /\ buffer \in [Programs -> SUBSET Whole]
  /\ torn \in [Programs -> BOOLEAN] /\ shared \in [Programs -> BOOLEAN]
  /\ broken \in BOOLEAN

\* A program that writes the cache file has the whole PDB in hand, and one
\* that is still to create it begins at its first part.
WritersReady ==
  \A p \in Programs :
    /\ at[p] \in {"create", "write"} => buffer[p] = Whole
    /\ at[p] \in {"get", "get_ptr", "body", "body_ptr", "join", "create"} => pos[p] = 0
    /\ at[p] \in {"open", "read", "write"} => file # Absent

\* A file that has a hole has a writer that will fill it: all that this one
\* has written since the file was last cut is still there.
HoleHasWriter ==
  ~broken => \/ file = Absent
             \/ file.good = Whole
             \/ \E p \in Programs : Writing(p) /\ 1 .. pos[p] \subseteq file.good

\* A program that reads while nobody writes has what it read so far.
ReadersWhole ==
  \A p \in Programs :
    /\ at[p] \in {"open", "read"} /\ ~shared[p] => \A q \in Programs : ~Writing(q)
    /\ at[p] = "open" => pos[p] = 0
    /\ at[p] = "read" /\ ~shared[p] /\ ~broken => 1 .. pos[p] \subseteq buffer[p]

TornExcused == \A p \in Programs : torn[p] => broken \/ shared[p]

StoreInv == StoreType /\ WritersReady /\ HoleHasWriter /\ ReadersWhole /\ TornExcused


-----------------------------------------------------------------------------
(* The symbol store: every step keeps the invariant                        *)

LEMMA StoreStep ==
  ASSUME StoreInv, [StoreNext]_storeVars
  PROVE  StoreInv'
<1>0. StoreType /\ WritersReady /\ HoleHasWriter /\ ReadersWhole /\ TornExcused
  BY DEF StoreInv
<1>a. Parts \in Nat \ {0}
  BY StoreAssumption
<1>1. CASE Publish
  BY <1>0, <1>1 DEF Publish, StoreInv, StoreType, WritersReady, HoleHasWriter, ReadersWhole, TornExcused, Writing, Whole
<1>2. ASSUME NEW p \in Programs, Load(p)
      PROVE  StoreInv'
  <2>1. StoreType'
    BY <1>0, <1>a, <1>2 DEF Load, Go, StoreType, Writing, Whole, Absent, Places
  <2>2. WritersReady'
    BY <1>0, <1>a, <1>2 DEF Load, Go, StoreType, WritersReady, Writing, Whole, Absent, Places
  <2>3. HoleHasWriter'
    BY <1>0, <1>a, <1>2 DEF Load, Go, StoreType, WritersReady, HoleHasWriter, Writing, Whole, Absent, Places
  <2>4. ReadersWhole'
    BY <1>0, <1>a, <1>2 DEF Load, Go, StoreType, WritersReady, HoleHasWriter, ReadersWhole, Writing, Whole, Absent, Places
  <2>5. TornExcused'
    BY <1>0, <1>a, <1>2 DEF Load, Go, StoreType, WritersReady, HoleHasWriter, ReadersWhole, TornExcused, Writing, Whole, Absent, Places
  <2>. QED  BY <2>1, <2>2, <2>3, <2>4, <2>5 DEF StoreInv
<1>3. ASSUME NEW p \in Programs, OpenCache(p)
      PROVE  StoreInv'
  <2>1. StoreType'
    BY <1>0, <1>a, <1>3 DEF OpenCache, Go, Return, StoreType, Writing, Whole, Absent, Places
  <2>2. WritersReady'
    BY <1>0, <1>a, <1>3 DEF OpenCache, Go, Return, StoreType, WritersReady, Writing, Whole, Absent, Places
  <2>3. HoleHasWriter'
    BY <1>0, <1>a, <1>3 DEF OpenCache, Go, Return, StoreType, WritersReady, HoleHasWriter, Writing, Whole, Absent, Places
  <2>4. ReadersWhole'
    <3>1. \/ at' = [at EXCEPT ![p] = "read"] \/ at' = [at EXCEPT ![p] = "idle"]
      BY <1>3 DEF OpenCache, Go, Return
    <3>2. at[p] = "open" /\ UNCHANGED <<file, pos, buffer, shared, broken>>
      BY <1>3 DEF OpenCache
    <3>3. pos[p] = 0 /\ 1 .. pos[p] = {}
      BY <1>0, <3>2 DEF ReadersWhole
    <3>. QED  BY <1>0, <3>1, <3>2, <3>3 DEF StoreType, ReadersWhole, Writing
  <2>5. TornExcused'
    BY <1>0, <1>a, <1>3 DEF OpenCache, Go, Return, StoreType, WritersReady, HoleHasWriter, ReadersWhole, TornExcused, Writing, Whole, Absent, Places
  <2>. QED  BY <2>1, <2>2, <2>3, <2>4, <2>5 DEF StoreInv
<1>4. ASSUME NEW p \in Programs, ReadCache(p)
      PROVE  StoreInv'
  <2>1. StoreType'
    <3>1. at' \in [Programs -> Places] /\ torn' \in [Programs -> BOOLEAN]
      BY <1>0, <1>4 DEF ReadCache, Go, Return, StoreType, Places
    <3>2. file \in [len : -1 .. Parts, good : SUBSET Whole] /\ pos[p] \in 0 .. Parts
      BY <1>0 DEF StoreType
    <3>3. \/ UNCHANGED <<pos, buffer>>
          \/ /\ pos[p] < file.len /\ pos' = [pos EXCEPT ![p] = @ + 1]
             /\ buffer' = [buffer EXCEPT ![p] = @ \cup (file.good \cap {pos[p] + 1})]
      BY <1>4 DEF ReadCache
    <3>4. pos' \in [Programs -> 0 .. Parts]
      BY <1>0, <1>a, <3>2, <3>3 DEF StoreType
    <3>5. buffer' \in [Programs -> SUBSET Whole]
      <4>1. file.good \subseteq Whole
        BY <3>2
      <4>. QED  BY <1>0, <3>3, <4>1 DEF StoreType
    <3>. QED  BY <1>0, <1>4, <3>1, <3>4, <3>5 DEF ReadCache, StoreType
  <2>2. WritersReady'
    BY <1>0, <1>a, <1>4 DEF ReadCache, Go, Return, StoreType, WritersReady, Writing, Whole, Absent, Places
  <2>3. HoleHasWriter'
    BY <1>0, <1>a, <1>4 DEF ReadCache, Go, Return, StoreType, WritersReady, HoleHasWriter, Writing, Whole, Absent, Places
  <2>4. ReadersWhole'
    BY <1>0, <1>a, <1>4 DEF ReadCache, Go, Return, StoreType, WritersReady, HoleHasWriter, ReadersWhole, Writing, Whole, Absent, Places
  <2>5. TornExcused'
    <3>1. UNCHANGED <<broken, shared>> /\ at[p] = "read"
      BY <1>4 DEF ReadCache
    <3>2. CASE torn' = torn
      BY <1>0, <3>1, <3>2 DEF TornExcused
    <3>3. CASE torn' = [torn EXCEPT ![p] = FALSE]
      BY <1>0, <3>1, <3>3 DEF TornExcused, StoreType
    <3>4. CASE pos[p] >= file.len /\ torn' = [torn EXCEPT ![p] = buffer[p] # Whole]
      <4>1. ASSUME ~broken, ~shared[p]
            PROVE  buffer[p] = Whole
        <5>1. /\ \A q \in Programs : ~Writing(q)
              /\ 1 .. pos[p] \subseteq buffer[p] /\ file # Absent
          BY <1>0, <3>1, <4>1 DEF ReadersWhole, WritersReady
        <5>2. file.good = Whole
          BY <1>0, <4>1, <5>1 DEF HoleHasWriter
        <5>3. Parts \in Whole /\ Parts <= file.len /\ file.len \in Int
          BY <1>0, <1>a, <5>2 DEF StoreType, Whole
        <5>4. Whole \subseteq 1 .. pos[p]
          BY <1>0, <1>a, <3>4, <5>3 DEF StoreType, Whole
        <5>. QED  BY <1>0, <5>1, <5>4 DEF StoreType
      <4>. QED  BY <1>0, <3>1, <3>4, <4>1 DEF TornExcused, StoreType
    <3>. QED  BY <1>4, <3>2, <3>3, <3>4 DEF ReadCache, Return
  <2>. QED  BY <2>1, <2>2, <2>3, <2>4, <2>5 DEF StoreInv
<1>5. ASSUME NEW p \in Programs, Request(p)
      PROVE  StoreInv'
  <2>1. StoreType'
    BY <1>0, <1>a, <1>5 DEF Request, Otherwise, Go, Return, StoreType, Writing, Whole, Absent, Places
  <2>2. WritersReady'
    BY <1>0, <1>a, <1>5 DEF Request, Otherwise, Go, Return, StoreType, WritersReady, Writing, Whole, Absent, Places
  <2>3. HoleHasWriter'
    BY <1>0, <1>a, <1>5 DEF Request, Otherwise, Go, Return, StoreType, WritersReady, HoleHasWriter, Writing, Whole, Absent, Places
  <2>4. ReadersWhole'
    BY <1>0, <1>a, <1>5 DEF Request, Otherwise, Go, Return, StoreType, WritersReady, HoleHasWriter, ReadersWhole, Writing, Whole, Absent, Places
  <2>5. TornExcused'
    BY <1>0, <1>a, <1>5 DEF Request, Otherwise, Go, Return, StoreType, WritersReady, HoleHasWriter, ReadersWhole, TornExcused, Writing, Whole, Absent, Places
  <2>. QED  BY <2>1, <2>2, <2>3, <2>4, <2>5 DEF StoreInv
<1>6. ASSUME NEW p \in Programs, ReadBody(p)
      PROVE  StoreInv'
  <2>1. StoreType'
    <3>1. \/ buffer' = buffer \/ \E n \in 0 .. Parts : buffer' = [buffer EXCEPT ![p] = 1 .. n]
      BY <1>6 DEF ReadBody
    <3>2. \A n \in 0 .. Parts : 1 .. n \subseteq Whole
      BY <1>a DEF Whole
    <3>3. buffer' \in [Programs -> SUBSET Whole]
      BY <1>0, <3>1, <3>2 DEF StoreType
    <3>4. at' \in [Programs -> Places] /\ torn' \in [Programs -> BOOLEAN]
      BY <1>0, <1>6 DEF ReadBody, Otherwise, Go, Return, StoreType, Places
    <3>. QED  BY <1>0, <1>6, <3>3, <3>4 DEF ReadBody, StoreType
  <2>2. WritersReady'
    BY <1>0, <1>a, <1>6 DEF ReadBody, Otherwise, Go, Return, StoreType, WritersReady, Writing, Whole, Absent, Places
  <2>3. HoleHasWriter'
    BY <1>0, <1>a, <1>6 DEF ReadBody, Otherwise, Go, Return, StoreType, WritersReady, HoleHasWriter, Writing, Whole, Absent, Places
  <2>4. ReadersWhole'
    BY <1>0, <1>a, <1>6 DEF ReadBody, Otherwise, Go, Return, StoreType, WritersReady, HoleHasWriter, ReadersWhole, Writing, Whole, Absent, Places
  <2>5. TornExcused'
    BY <1>0, <1>a, <1>6 DEF ReadBody, Otherwise, Go, Return, StoreType, WritersReady, HoleHasWriter, ReadersWhole, TornExcused, Writing, Whole, Absent, Places
  <2>. QED  BY <2>1, <2>2, <2>3, <2>4, <2>5 DEF StoreInv
<1>7. ASSUME NEW p \in Programs, Progress(p)
      PROVE  StoreInv'
  <2>1. StoreType'
    BY <1>0, <1>a, <1>7 DEF Progress, StoreType, Writing, Whole, Absent, Places
  <2>2. WritersReady'
    BY <1>0, <1>a, <1>7 DEF Progress, StoreType, WritersReady, Writing, Whole, Absent, Places
  <2>3. HoleHasWriter'
    BY <1>0, <1>a, <1>7 DEF Progress, StoreType, WritersReady, HoleHasWriter, Writing, Whole, Absent, Places
  <2>4. ReadersWhole'
    BY <1>0, <1>a, <1>7 DEF Progress, StoreType, WritersReady, HoleHasWriter, ReadersWhole, Writing, Whole, Absent, Places
  <2>5. TornExcused'
    BY <1>0, <1>a, <1>7 DEF Progress, StoreType, WritersReady, HoleHasWriter, ReadersWhole, TornExcused, Writing, Whole, Absent, Places
  <2>. QED  BY <2>1, <2>2, <2>3, <2>4, <2>5 DEF StoreInv
<1>8. ASSUME NEW p \in Programs, JoinProgress(p)
      PROVE  StoreInv'
  <2>1. StoreType'
    BY <1>0, <1>a, <1>8 DEF JoinProgress, Go, Return, StoreType, Writing, Whole, Absent, Places
  <2>2. WritersReady'
    BY <1>0, <1>a, <1>8 DEF JoinProgress, Go, Return, StoreType, WritersReady, Writing, Whole, Absent, Places
  <2>3. HoleHasWriter'
    BY <1>0, <1>a, <1>8 DEF JoinProgress, Go, Return, StoreType, WritersReady, HoleHasWriter, Writing, Whole, Absent, Places
  <2>4. ReadersWhole'
    BY <1>0, <1>a, <1>8 DEF JoinProgress, Go, Return, StoreType, WritersReady, HoleHasWriter, ReadersWhole, Writing, Whole, Absent, Places
  <2>5. TornExcused'
    BY <1>0, <1>a, <1>8 DEF JoinProgress, Go, Return, StoreType, WritersReady, HoleHasWriter, ReadersWhole, TornExcused, Writing, Whole, Absent, Places
  <2>. QED  BY <2>1, <2>2, <2>3, <2>4, <2>5 DEF StoreInv
<1>9. ASSUME NEW p \in Programs, CreateCache(p)
      PROVE  StoreInv'
  <2>1. StoreType'
    <3>1. CASE /\ at' = [at EXCEPT ![p] = "idle"] /\ torn' = [torn EXCEPT ![p] = FALSE]
               /\ UNCHANGED <<file, shared, cached, pos, buffer, broken>>
      BY <1>0, <1>9, <3>1 DEF CreateCache, StoreType, Places
    <3>2. CASE /\ file' = [len |-> 0, good |-> {}] /\ at' = [at EXCEPT ![p] = "write"]
               /\ shared' = [q \in Programs |-> shared[q] \/ (q # p /\ at[q] \in {"open", "read"})]
               /\ UNCHANGED <<torn, cached, pos, buffer, broken>>
      <4>1. file' \in [len : -1 .. Parts, good : SUBSET Whole] /\ file'.good = {}
        BY <1>a, <3>2
      <4>2. shared' \in [Programs -> BOOLEAN] /\ at' \in [Programs -> Places]
        BY <1>0, <3>2 DEF StoreType, Places
      <4>. QED  BY <1>0, <3>2, <4>1, <4>2 DEF StoreType
    <3>. QED  BY <1>9, <3>1, <3>2 DEF CreateCache, Go, Return
  <2>2. WritersReady'
    BY <1>0, <1>a, <1>9 DEF CreateCache, Go, Return, StoreType, WritersReady, Writing, Whole, Absent, Places
  <2>3. HoleHasWriter'
    <3>1. CASE /\ at' = [at EXCEPT ![p] = "idle"] /\ torn' = [torn EXCEPT ![p] = FALSE]
               /\ UNCHANGED <<file, shared, cached, pos, buffer, broken>>
      BY <1>0, <1>9, <3>1 DEF CreateCache, StoreType, HoleHasWriter, Writing
    <3>2. CASE /\ file' = [len |-> 0, good |-> {}] /\ at' = [at EXCEPT ![p] = "write"]
               /\ shared' = [q \in Programs |-> shared[q] \/ (q # p /\ at[q] \in {"open", "read"})]
               /\ UNCHANGED <<torn, cached, pos, buffer, broken>>
      <4>1. at'[p] = "write" /\ pos'[p] = 0
        BY <1>0, <1>9, <3>2 DEF CreateCache, StoreType, WritersReady
      <4>2. 1 .. pos'[p] \subseteq file'.good
        BY <4>1
      <4>. QED  BY <4>1, <4>2 DEF HoleHasWriter, Writing
    <3>. QED  BY <1>9, <3>1, <3>2 DEF CreateCache, Go, Return
  <2>4. ReadersWhole'
    <3>1. CASE /\ at' = [at EXCEPT ![p] = "idle"] /\ torn' = [torn EXCEPT ![p] = FALSE]
               /\ UNCHANGED <<file, shared, cached, pos, buffer, broken>>
      BY <1>0, <1>9, <3>1 DEF CreateCache, StoreType, ReadersWhole, Writing
    <3>2. CASE /\ file' = [len |-> 0, good |-> {}] /\ at' = [at EXCEPT ![p] = "write"]
               /\ shared' = [q \in Programs |-> shared[q] \/ (q # p /\ at[q] \in {"open", "read"})]
               /\ UNCHANGED <<torn, cached, pos, buffer, broken>>
      <4>1. \A q \in Programs : at'[q] \in {"open", "read"} => at[q] = at'[q] /\ q # p /\ shared'[q]
        BY <1>0, <3>2 DEF StoreType
      <4>. QED  BY <4>1, <3>2, <1>0 DEF ReadersWhole, StoreType
    <3>. QED  BY <1>9, <3>1, <3>2 DEF CreateCache, Go, Return
  <2>5. TornExcused'
    BY <1>0, <1>a, <1>9 DEF CreateCache, Go, Return, StoreType, WritersReady, HoleHasWriter, ReadersWhole, TornExcused, Writing, Whole, Absent, Places
  <2>. QED  BY <2>1, <2>2, <2>3, <2>4, <2>5 DEF StoreInv
<1>10. ASSUME NEW p \in Programs, WriteCache(p)
      PROVE  StoreInv'
  <2>1. StoreType'
    <3>1. CASE UNCHANGED <<pos, file>>
      <4>1. at' \in [Programs -> Places] /\ torn' \in [Programs -> BOOLEAN] /\ broken' \in BOOLEAN
        BY <1>0, <1>10 DEF WriteCache, Go, Return, StoreType, Places
      <4>. QED  BY <1>0, <1>10, <3>1, <4>1 DEF WriteCache, StoreType
    <3>2. CASE /\ ~Written(p) /\ pos' = [pos EXCEPT ![p] = @ + 1]
               /\ file' = [len |-> IF pos[p] + 1 > file.len THEN pos[p] + 1 ELSE file.len,
                           good |-> file.good \cup {pos[p] + 1}]
               /\ UNCHANGED <<at, torn, broken>>
      <4>1. pos[p] \in 0 .. Parts /\ pos[p] # Parts /\ file.len \in -1 .. Parts
        BY <1>0, <3>2 DEF StoreType, Written
      <4>2. pos[p] + 1 \in Whole /\ pos[p] + 1 \in 0 .. Parts
        BY <1>a, <4>1 DEF Whole
      <4>3. file' \in [len : -1 .. Parts, good : SUBSET Whole]
        BY <1>0, <1>a, <3>2, <4>1, <4>2 DEF StoreType
      <4>4. \A n \in file'.good : n <= file'.len
        <5>1. \A n \in file.good : n \in Int /\ n <= file.len
          BY <1>0, <1>a DEF StoreType, Whole
        <5>. QED  BY <3>2, <4>1, <5>1
      <4>5. pos' \in [Programs -> 0 .. Parts]
        BY <1>0, <3>2, <4>2 DEF StoreType
      <4>. QED  BY <1>0, <1>10, <3>2, <4>3, <4>4, <4>5 DEF StoreType, WriteCache
    <3>. QED  BY <1>10, <3>1, <3>2 DEF WriteCache
  <2>2. WritersReady'
    BY <1>0, <1>a, <1>10 DEF WriteCache, Written, Go, Return, StoreType, WritersReady, Writing, Whole, Absent, Places
  <2>3. HoleHasWriter'
    <3>1. CASE UNCHANGED <<pos, file>>
      <4>1. CASE broken'
        BY <4>1 DEF HoleHasWriter
      <4>2. CASE UNCHANGED <<at, pos, broken>>
        BY <1>0, <3>1, <4>2 DEF HoleHasWriter, Writing
      <4>3. CASE Written(p) /\ at' = [at EXCEPT ![p] = "idle"] /\ UNCHANGED <<pos, broken>>
        <5>1. 1 .. pos[p] \subseteq file.good => file.good = Whole
          BY <1>0, <4>3 DEF Written, StoreType, Whole
        <5>. QED  BY <1>0, <3>1, <4>3, <5>1 DEF HoleHasWriter, Writing, StoreType
      <4>4. CASE ~Written(p) /\ broken' = TRUE
        BY <4>4 DEF HoleHasWriter
      <4>5. pos[p] + 1 # pos[p] /\ pos[p] \in Int
        BY <1>0 DEF StoreType
      <4>6. pos' # [pos EXCEPT ![p] = @ + 1]
        BY <1>0, <3>1, <4>5 DEF StoreType
      <4>. QED  BY <1>10, <4>1, <4>2, <4>3, <4>4, <4>6 DEF WriteCache, Go, Return
    <3>2. CASE /\ ~Written(p) /\ pos' = [pos EXCEPT ![p] = @ + 1]
               /\ file' = [len |-> IF pos[p] + 1 > file.len THEN pos[p] + 1 ELSE file.len,
                           good |-> file.good \cup {pos[p] + 1}]
               /\ UNCHANGED <<at, torn, broken>>
      <4>1. pos[p] \in 0 .. Parts /\ file \in [len : -1 .. Parts, good : SUBSET Whole]
        BY <1>0 DEF StoreType
      <4>2. file'.good = file.good \cup {pos[p] + 1} /\ file.good \subseteq Whole
            /\ file'.len >= 0
        BY <1>a, <3>2, <4>1
      <4>3. pos[p] + 1 \in Whole
        BY <1>a, <3>2, <4>1 DEF Whole, Written
      <4>4. CASE file.good = Whole
        BY <4>2, <4>3, <4>4 DEF HoleHasWriter
      <4>5. ASSUME NEW q \in Programs, Writing(q), 1 .. pos[q] \subseteq file.good
            PROVE  HoleHasWriter'
        <5>1. Writing(q)'
          BY <3>2, <4>5 DEF Writing
        <5>2. 1 .. pos'[q] \subseteq file'.good
          <6>1. CASE q = p
            <7>1. pos'[p] = pos[p] + 1
              BY <1>0, <3>2 DEF StoreType
            <7>2. 1 .. pos[p] + 1 = 1 .. pos[p] \cup {pos[p] + 1}
              BY <4>1, <1>a
            <7>. QED  BY <4>2, <4>5, <6>1, <7>1, <7>2
          <6>2. CASE q # p
            BY <1>0, <3>2, <4>2, <4>5, <6>2 DEF StoreType
          <6>. QED  BY <6>1, <6>2
        <5>. QED  BY <5>1, <5>2 DEF HoleHasWriter
      <4>6. file # Absent
        BY <1>0, <1>10 DEF WriteCache, WritersReady
      <4>. QED  BY <1>0, <3>2, <4>4, <4>5, <4>6 DEF HoleHasWriter
    <3>. QED  BY <1>10, <3>1, <3>2 DEF WriteCache
  <2>4. ReadersWhole'
    BY <1>0, <1>a, <1>10 DEF WriteCache, Written, Go, Return, StoreType, WritersReady, HoleHasWriter, ReadersWhole, Writing, Whole, Absent, Places
  <2>5. TornExcused'
    BY <1>0, <1>a, <1>10 DEF WriteCache, Written, Go, Return, StoreType, WritersReady, HoleHasWriter, ReadersWhole, TornExcused, Writing, Whole, Absent, Places
  <2>. QED  BY <2>1, <2>2, <2>3, <2>4, <2>5 DEF StoreInv
<1>11. ASSUME NEW p \in Programs, Crash(p)
      PROVE  StoreInv'
  <2>1. StoreType'
    BY <1>0, <1>a, <1>11 DEF Crash, Go, Return, StoreType, Writing, Whole, Absent, Places
  <2>2. WritersReady'
    BY <1>0, <1>a, <1>11 DEF Crash, Go, Return, StoreType, WritersReady, Writing, Whole, Absent, Places
  <2>3. HoleHasWriter'
    BY <1>0, <1>a, <1>11 DEF Crash, Go, Return, StoreType, WritersReady, HoleHasWriter, Writing, Whole, Absent, Places
  <2>4. ReadersWhole'
    BY <1>0, <1>a, <1>11 DEF Crash, Go, Return, StoreType, WritersReady, HoleHasWriter, ReadersWhole, Writing, Whole, Absent, Places
  <2>5. TornExcused'
    BY <1>0, <1>a, <1>11 DEF Crash, Go, Return, StoreType, WritersReady, HoleHasWriter, ReadersWhole, TornExcused, Writing, Whole, Absent, Places
  <2>. QED  BY <2>1, <2>2, <2>3, <2>4, <2>5 DEF StoreInv
<1>12. CASE UNCHANGED storeVars
  BY <1>0, <1>12 DEF storeVars, StoreInv, StoreType, WritersReady, HoleHasWriter, ReadersWhole, TornExcused, Writing, Whole
<1>. QED  BY <1>1, <1>2, <1>3, <1>4, <1>5, <1>6, <1>7, <1>8, <1>9, <1>10, <1>11, <1>12
          DEF StoreNext, LoadStep


LEMMA StoreInitial == StoreInit => StoreInv
<1> SUFFICES ASSUME StoreInit PROVE StoreInv
  OBVIOUS
<1>1. file = [len |-> -1, good |-> {}] /\ Parts \in Nat
  BY StoreAssumption DEF StoreInit, Absent
<1>2. /\ file \in [len : -1 .. Parts, good : SUBSET Whole] /\ file.good = {}
      /\ pos \in [Programs -> 0 .. Parts]
  BY <1>1 DEF StoreInit
<1>3. StoreType
  BY <1>2 DEF StoreInit, StoreType, Places
<1>. QED  BY <1>3 DEF StoreInit, StoreInv, WritersReady, HoleHasWriter, ReadersWhole, TornExcused

\* However many programs share the cache of the symbol store, and wherever
\* they stop: as long as no write was cut short, the cache file is whole once
\* nobody writes it, and load returns less than the PDB only if a write was
\* cut short or another program wrote while it read.
THEOREM SymbolStoreSettles == StoreSpec => []CacheSettles
<1>1. StoreInv => CacheSettles
  BY DEF StoreInv, HoleHasWriter, TornExcused, CacheSettles
<1>2. StoreInv /\ [StoreNext]_storeVars => StoreInv'
  BY StoreStep
<1>. QED  BY <1>1, <1>2, StoreInitial, PTL DEF StoreSpec


-----------------------------------------------------------------------------
(* The validators: arithmetic that wraps                                   *)

LEMMA ModSmall == \A m \in Nat \ {0} : \A a \in 0 .. m - 1 : a % m = a
OBVIOUS

LEMMA ModBelow == \A m \in Nat \ {0} : \A a \in 1 - m .. -1 : a % m = a + m
OBVIOUS

LEMMA ModSelf == \A m \in Nat \ {0} : m % m = 0
OBVIOUS


\* wrapping_sub of two values of the counter, and the counter that moves on
Distance(l, s) == IF l >= s THEN l - s ELSE l - s + CounterMod
Step(l) == IF l + 1 = CounterMod THEN 0 ELSE l + 1
Back(l) == IF l >= ValidFor THEN l - ValidFor ELSE l - ValidFor + CounterMod

LEMMA CountOps ==
  ASSUME Counting, NEW l \in 0 .. CounterMod - 1, NEW s \in 0 .. CounterMod - 1, NEW now
  PROVE  /\ UpdateValidity(l, now) = Step(l) /\ Step(l) \in 0 .. CounterMod - 1
         /\ IsSlotValid(l, s) <=> Distance(l, s) < ValidFor
         /\ AllocatedStamp(l) = Back(l) /\ Back(l) \in 0 .. CounterMod - 1
<1>0. CounterMod \in Nat \ {0} /\ ValidFor \in 0 .. CounterMod - 1
  BY SlotsAssumption
<1>1. ASSUME NEW a \in 0 .. CounterMod - 1, NEW b \in 0 .. CounterMod - 1
      PROVE  (a - b) % CounterMod = IF a >= b THEN a - b ELSE a - b + CounterMod
  <2>1. CASE a >= b
    <3>1. a - b \in 0 .. CounterMod - 1
      BY <1>0, <2>1
    <3>. QED  BY <1>0, <2>1, <3>1, ModSmall
  <2>2. CASE ~(a >= b)
    <3>1. a - b \in 1 - CounterMod .. -1
      BY <1>0, <2>2
    <3>. QED  BY <1>0, <2>2, <3>1, ModBelow
  <2>. QED  BY <2>1, <2>2
<1>2. (l + 1) % CounterMod = Step(l) /\ Step(l) \in 0 .. CounterMod - 1
  <2>1. CASE l + 1 = CounterMod
    BY <1>0, <2>1, ModSelf DEF Step
  <2>2. CASE l + 1 # CounterMod
    <3>1. l + 1 \in 0 .. CounterMod - 1
      BY <1>0, <2>2
    <3>. QED  BY <1>0, <2>2, <3>1, ModSmall DEF Step
  <2>. QED  BY <2>1, <2>2
<1>3. (l - s) % CounterMod = Distance(l, s)
  BY <1>1 DEF Distance
<1>4. (l - ValidFor) % CounterMod = Back(l) /\ Back(l) \in 0 .. CounterMod - 1
  BY <1>0, <1>1 DEF Back
<1>5. /\ UpdateValidity(l, now) = (l + 1) % CounterMod
      /\ IsSlotValid(l, s) <=> (l - s) % CounterMod < ValidFor
      /\ AllocatedStamp(l) = (l - ValidFor) % CounterMod
  BY DEF UpdateValidity, IsSlotValid, AllocatedStamp, Count!UpdateValidity, Count!IsSlotValid,
         Count!AllocatedStamp, Count!Counting, Count!CountUpdate, Count!CountIsSlotValid,
         Count!CountAllocatedStamp, Count!WrappingSub
<1>. QED  BY <1>2, <1>3, <1>4, <1>5

LEMMA TimedOps ==
  ASSUME ~Counting, NEW l, NEW s, NEW now
  PROVE  /\ UpdateValidity(l, now) = now
         /\ IsSlotValid(l, s) <=> l - s <= ValidFor
         /\ AllocatedStamp(l) = l - ValidFor
BY DEF UpdateValidity, IsSlotValid, AllocatedStamp, Timed!UpdateValidity, Timed!IsSlotValid,
       Timed!AllocatedStamp, Timed!Counting, Timed!TimedIsSlotValid, Timed!TimedAllocatedStamp

-----------------------------------------------------------------------------
(* The validators: the inductive invariant                                 *)

SlotsType ==
  /\ validatorKind \in {"count", "timed"} /\ halted \in BOOLEAN
  /\ updates \in Nat /\ clock \in Nat
  /\ event \in [SlotIds -> [what : {"allocate", "validate", "invalidate"}, at : Nat]]
  /\ \A i \in SlotIds : event[i].at <= updates
  /\ Counting => last \in 0 .. CounterMod - 1 /\ stamp \in [SlotIds -> 0 .. CounterMod - 1]
  /\ ~Counting => last = updates /\ updates <= clock /\ stamp \in [SlotIds -> Int]

\* The counter's distance from a stamp is the slot's age, for one that was
\* filled, and valid_count more for one that was not, until it goes round.
CountInv ==
  Counting => \A i \in SlotIds :
    /\ event[i].what = "validate" /\ Age(i) < CounterMod =>
         Distance(last, stamp[i]) = Age(i)
    /\ event[i].what # "validate" /\ Age(i) + ValidFor < CounterMod =>
         Distance(last, stamp[i]) = Age(i) + ValidFor

TimedInv ==
  ~Counting => \A i \in SlotIds :
    stamp[i] = IF event[i].what = "validate" THEN event[i].at ELSE event[i].at - ValidFor

SlotsInv == SlotsType /\ CountInv /\ TimedInv

LEMMA SlotsInitial == SlotsInit => SlotsInv
<1> SUFFICES ASSUME SlotsInit PROVE SlotsInv
  OBVIOUS
<1>0. CounterMod \in Nat \ {0} /\ ValidFor \in 0 .. CounterMod - 1
  BY SlotsAssumption
<1>1. /\ validatorKind \in {"count", "timed"} /\ last = 0 /\ clock = 0 /\ updates = 0
      /\ stamp = [i \in SlotIds |-> AllocatedStamp(0)] /\ halted = FALSE
      /\ event = [i \in SlotIds |-> [what |-> "allocate", at |-> 0]]
  BY DEF SlotsInit
<1>a. /\ event \in [SlotIds -> [what : {"allocate", "validate", "invalidate"}, at : Nat]]
      /\ \A i \in SlotIds : event[i].at <= updates
  BY <1>1
<1>2. CASE Counting
  <2>1. AllocatedStamp(0) = Back(0) /\ Back(0) \in 0 .. CounterMod - 1
    <3>1. 0 \in 0 .. CounterMod - 1
      BY <1>0
    <3>. QED  BY <1>2, <3>1, CountOps
  <2>2. SlotsType
    <3>1. stamp \in [SlotIds -> 0 .. CounterMod - 1] /\ 0 \in 0 .. CounterMod - 1
      BY <1>0, <1>1, <2>1
    <3>. QED  BY <1>1, <1>a, <1>2, <3>1 DEF SlotsType
  <2>3. CountInv
    BY <1>0, <1>1, <2>1 DEF CountInv, Back, Distance, Age
  <2>. QED  BY <1>2, <2>2, <2>3 DEF SlotsInv, TimedInv
<1>3. CASE ~Counting
  <2>1. AllocatedStamp(0) = 0 - ValidFor
    BY <1>3, TimedOps
  <2>2. SlotsType
    <3>1. stamp \in [SlotIds -> Int]
      BY <1>0, <1>1, <2>1
    <3>2. updates \in Nat /\ clock \in Nat /\ last = updates /\ updates <= clock
      BY <1>1
    <3>3. halted \in BOOLEAN
      BY <1>1
    <3>. QED  BY <1>1, <1>a, <1>3, <3>1, <3>2, <3>3 DEF SlotsType
  <2>3. TimedInv
    BY <1>0, <1>1, <2>1 DEF TimedInv
  <2>. QED  BY <1>3, <2>2, <2>3 DEF SlotsInv, CountInv
<1>. QED  BY <1>2, <1>3


\* A slot that is touched: validate_slot, and invalidate_slot where it wraps.
LEMMA SlotTouched ==
  ASSUME SlotsInv, NEW i \in SlotIds, NEW w \in {"validate", "invalidate"}, NEW s,
         s = IF w = "validate" THEN last ELSE AllocatedStamp(last),
         stamp' = [stamp EXCEPT ![i] = s],
         event' = [event EXCEPT ![i] = [what |-> w, at |-> updates]],
         UNCHANGED <<validatorKind, last, clock, halted, updates>>
  PROVE  SlotsInv'
<1>0. CounterMod \in Nat \ {0} /\ ValidFor \in 0 .. CounterMod - 1 /\ updates \in Nat
  BY SlotsAssumption DEF SlotsInv, SlotsType
<1>1. /\ event' \in [SlotIds -> [what : {"allocate", "validate", "invalidate"}, at : Nat]]
      /\ \A j \in SlotIds : event'[j].at <= updates'
      /\ event'[i].what = w /\ event'[i].at = updates
      /\ \A j \in SlotIds \ {i} : event'[j] = event[j] /\ stamp'[j] = stamp[j]
  <2>1. event \in [SlotIds -> [what : {"allocate", "validate", "invalidate"}, at : Nat]]
    BY DEF SlotsInv, SlotsType
  <2>2. \A j \in SlotIds \ {i} : event'[j] = event[j]
    BY <2>1
  <2>3. event'[i] = [what |-> w, at |-> updates]
    BY <2>1
  <2>4. \A j \in SlotIds : event'[j].at <= updates'
    BY <1>0, <2>2, <2>3 DEF SlotsInv, SlotsType
  <2>5. stamp \in [SlotIds -> Int] \/ stamp \in [SlotIds -> 0 .. CounterMod - 1]
    BY DEF SlotsInv, SlotsType
  <2>6. \A j \in SlotIds \ {i} : stamp'[j] = stamp[j]
    BY <2>5
  <2>7. event' \in [SlotIds -> [what : {"allocate", "validate", "invalidate"}, at : Nat]]
    BY <1>0, <2>1
  <2>. QED  BY <2>2, <2>3, <2>4, <2>6, <2>7
<1>2. CASE Counting
  <2>1. last \in 0 .. CounterMod - 1 /\ stamp \in [SlotIds -> 0 .. CounterMod - 1]
    BY <1>2 DEF SlotsInv, SlotsType
  <2>2. AllocatedStamp(last) = Back(last) /\ Back(last) \in 0 .. CounterMod - 1
    BY <1>2, <2>1, CountOps
  <2>3. s \in 0 .. CounterMod - 1
    BY <2>1, <2>2
  <2>4. stamp' \in [SlotIds -> 0 .. CounterMod - 1] /\ stamp'[i] = s
    BY <2>1, <2>3
  <2>5. SlotsType'
    BY <1>1, <1>2, <2>1, <2>4 DEF SlotsInv, SlotsType, Counting
  <2>6. /\ w = "validate" => Distance(last, s) = 0
        /\ w # "validate" => Distance(last, s) = ValidFor
    BY <1>0, <2>1, <2>2 DEF Distance, Back
  <2>7. ASSUME NEW j \in SlotIds
        PROVE  /\ event'[j].what = "validate" /\ Age(j)' < CounterMod =>
                    Distance(last', stamp'[j]) = Age(j)'
               /\ event'[j].what # "validate" /\ Age(j)' + ValidFor < CounterMod =>
                    Distance(last', stamp'[j]) = Age(j)' + ValidFor
    <3>1. CASE j = i
      <4>1. Age(j)' = 0
        BY <1>0, <1>1, <3>1 DEF Age
      <4>. QED  BY <1>0, <1>1, <2>4, <2>6, <3>1, <4>1
    <3>2. CASE j # i
      <4>1. Age(j)' = Age(j) /\ event'[j] = event[j] /\ stamp'[j] = stamp[j]
        BY <1>1, <3>2 DEF Age
      <4>. QED  BY <1>2, <4>1 DEF SlotsInv, CountInv
    <3>. QED  BY <3>1, <3>2
  <2>. QED  BY <1>2, <2>5, <2>7 DEF SlotsInv, CountInv, TimedInv, Counting
<1>3. CASE ~Counting
  <2>1. last = updates /\ stamp \in [SlotIds -> Int]
    BY <1>3 DEF SlotsInv, SlotsType
  <2>2. AllocatedStamp(last) = last - ValidFor
    BY <1>3, TimedOps
  <2>3. s \in Int /\ s = IF w = "validate" THEN updates ELSE updates - ValidFor
    BY <1>0, <2>1, <2>2
  <2>4. stamp' \in [SlotIds -> Int] /\ stamp'[i] = s
    BY <2>1, <2>3
  <2>5. SlotsType'
    BY <1>1, <1>3, <2>1, <2>4 DEF SlotsInv, SlotsType, Counting
  <2>6. TimedInv'
    BY <1>1, <1>3, <2>3, <2>4 DEF SlotsInv, TimedInv, Counting
  <2>. QED  BY <1>3, <2>5, <2>6 DEF SlotsInv, CountInv, Counting
<1>. QED  BY <1>2, <1>3

LEMMA SlotsStep ==
  ASSUME SlotsInv, [SlotsNext]_slotsVars
  PROVE  SlotsInv'
<1>0. CounterMod \in Nat \ {0} /\ ValidFor \in 0 .. CounterMod - 1 /\ updates \in Nat
  BY SlotsAssumption DEF SlotsInv, SlotsType
<1>1. CASE Update
  <2>1. /\ last' = UpdateValidity(last, clock)
        /\ updates' = IF Counting THEN updates + 1 ELSE clock
        /\ UNCHANGED <<validatorKind, stamp, clock, halted, event>>
    BY <1>1 DEF Update
  <2>2. event \in [SlotIds -> [what : {"allocate", "validate", "invalidate"}, at : Nat]]
    BY DEF SlotsInv, SlotsType
  <2>3. CASE Counting
    <3>1. last \in 0 .. CounterMod - 1 /\ stamp \in [SlotIds -> 0 .. CounterMod - 1]
      BY <2>3 DEF SlotsInv, SlotsType
    <3>2. last' = Step(last) /\ Step(last) \in 0 .. CounterMod - 1 /\ updates' = updates + 1
      BY <2>1, <2>3, <3>1, CountOps
    <3>3. SlotsType'
      BY <1>0, <2>1, <2>2, <2>3, <3>1, <3>2 DEF SlotsInv, SlotsType, Counting
    <3>4. ASSUME NEW j \in SlotIds
          PROVE  /\ event'[j].what = "validate" /\ Age(j)' < CounterMod =>
                      Distance(last', stamp'[j]) = Age(j)'
                 /\ event'[j].what # "validate" /\ Age(j)' + ValidFor < CounterMod =>
                      Distance(last', stamp'[j]) = Age(j)' + ValidFor
      <4>1. Age(j) \in Nat /\ Age(j)' = Age(j) + 1 /\ stamp[j] \in 0 .. CounterMod - 1
        BY <1>0, <2>1, <2>2, <3>1, <3>2 DEF Age, SlotsInv, SlotsType
      <4>2. Distance(last', stamp[j]) = IF Distance(last, stamp[j]) + 1 = CounterMod
                                          THEN 0 ELSE Distance(last, stamp[j]) + 1
        BY <1>0, <3>1, <3>2, <4>1 DEF Distance, Step
      <4>. QED  BY <1>0, <2>1, <2>3, <4>1, <4>2 DEF SlotsInv, CountInv
    <3>. QED  BY <2>1, <2>3, <3>3, <3>4 DEF SlotsInv, CountInv, TimedInv, Counting
  <2>4. CASE ~Counting
    <3>1. last' = clock /\ updates' = clock /\ updates <= clock
      BY <2>1, <2>4, TimedOps DEF SlotsInv, SlotsType
    <3>2. SlotsType'
      BY <1>0, <2>1, <2>2, <2>4, <3>1 DEF SlotsInv, SlotsType, Counting
    <3>. QED  BY <2>1, <2>4, <3>2 DEF SlotsInv, CountInv, TimedInv, Counting
  <2>. QED  BY <2>3, <2>4
<1>2. ASSUME NEW i \in SlotIds, Validate(i)
      PROVE  SlotsInv'
  <2> DEFINE s == last
  <2>1. /\ stamp' = [stamp EXCEPT ![i] = s]
        /\ event' = [event EXCEPT ![i] = [what |-> "validate", at |-> updates]]
        /\ UNCHANGED <<validatorKind, last, clock, halted, updates>>
    BY <1>2 DEF Validate
  <2>. QED  BY <2>1, SlotTouched
<1>3. ASSUME NEW i \in SlotIds, Invalidate(i)
      PROVE  SlotsInv'
  <2>1. /\ stamp' = [stamp EXCEPT ![i] = AllocatedStamp(last)]
        /\ event' = [event EXCEPT ![i] = [what |-> "invalidate", at |-> updates]]
        /\ UNCHANGED <<validatorKind, last, clock, halted, updates>>
    BY <1>3 DEF Invalidate
  <2>. QED  BY <2>1, SlotTouched
<1>4. CASE InvalidatePanics \/ Tick \/ UNCHANGED slotsVars
  <2>1. /\ UNCHANGED <<validatorKind, last, stamp, updates, event>>
        /\ halted' \in {TRUE, halted} /\ clock' \in {clock, clock + 1}
    BY <1>4 DEF InvalidatePanics, Tick, slotsVars
  <2>2. clock' \in Nat /\ clock <= clock' /\ clock \in Nat
    BY <2>1 DEF SlotsInv, SlotsType
  <2>3. ~Counting => updates <= clock'
    BY <1>0, <2>2 DEF SlotsInv, SlotsType
  <2>4. halted' \in BOOLEAN
    BY <2>1 DEF SlotsInv, SlotsType
  <2>5. SlotsType'
    BY <2>1, <2>2, <2>3, <2>4 DEF SlotsInv, SlotsType, Counting
  <2>. QED  BY <2>1, <2>5 DEF SlotsInv, CountInv, TimedInv, Counting, Age
<1>. QED  BY <1>1, <1>2, <1>3, <1>4 DEF SlotsNext

\* For counters of any width, any window and any number of slots: a slot that
\* was filled is valid for exactly valid_count calls of update_validity, or up
\* to valid_time, until the counter has gone all the way round, and one that
\* was never filled or was invalidated is not valid before that, whatever was
\* done to the slots in whatever order.
THEOREM ValidatorWindows == SlotsSpec => []SlotWindows
<1>1. SlotsInv => SlotWindows
  <2> SUFFICES ASSUME SlotsInv, NEW i \in SlotIds
               PROVE  /\ event[i].what = "validate" /\ Age(i) < CounterMod =>
                           (IsSlotValid(last, stamp[i]) <=>
                              IF Counting THEN Age(i) < ValidFor ELSE Age(i) <= ValidFor)
                      /\ event[i].what # "validate" /\ IsSlotValid(last, stamp[i]) =>
                           IF Counting THEN Age(i) + ValidFor >= CounterMod ELSE Age(i) = 0
    BY DEF SlotWindows, ValidInWindow, EmptyNotValid
  <2>1. /\ CounterMod \in Nat \ {0} /\ ValidFor \in 0 .. CounterMod - 1
        /\ updates \in Nat /\ event[i].at \in Nat /\ event[i].at <= updates
    BY SlotsAssumption DEF SlotsInv, SlotsType
  <2>2. Age(i) \in Nat
    BY <2>1 DEF Age
  <2>3. CASE Counting
    <3>1. last \in 0 .. CounterMod - 1 /\ stamp[i] \in 0 .. CounterMod - 1
      BY <2>3 DEF SlotsInv, SlotsType
    <3>2. IsSlotValid(last, stamp[i]) <=> Distance(last, stamp[i]) < ValidFor
      BY <2>3, <3>1, CountOps
    <3>3. Distance(last, stamp[i]) \in Nat
      BY <2>1, <3>1 DEF Distance
    <3>. QED  BY <2>1, <2>2, <2>3, <3>2, <3>3 DEF SlotsInv, CountInv
  <2>4. CASE ~Counting
    <3>1. IsSlotValid(last, stamp[i]) <=> last - stamp[i] <= ValidFor
      BY <2>4, TimedOps
    <3>2. /\ last = updates
          /\ stamp[i] = IF event[i].what = "validate" THEN event[i].at ELSE event[i].at - ValidFor
      BY <2>4 DEF SlotsInv, SlotsType, TimedInv
    <3>. QED  BY <2>1, <2>4, <3>1, <3>2 DEF Age
  <2>. QED  BY <2>3, <2>4
<1>2. SlotsInv /\ [SlotsNext]_slotsVars => SlotsInv'
  BY SlotsStep
<1>. QED  BY <1>1, <1>2, SlotsInitial, PTL DEF SlotsSpec
=============================================================================

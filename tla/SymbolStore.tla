---------------------------- MODULE SymbolStore ----------------------------
(***************************************************************************)
(* The symbol store (memflow-win32/src/offsets/symstore.rs): programs load *)
(* the PDB of one kernel, from a file of the cache they share or, if there *)
(* is none, from the server and then into the file.  Files are read and    *)
(* written a part at a time; a program can stop between any two steps.     *)
(* A file is the set of the parts that hold what was downloaded and its    *)
(* length: a part below the length that is not in the set is a hole.       *)
(***************************************************************************)
EXTENDS Integers, FiniteSets

CONSTANTS
  Programs,
  Parts,      \* number of parts of the PDB
  MaxLoads    \* bound: loads begun

ASSUME StoreAssumption == Parts \in Nat \ {0} /\ IsFiniteSet(Programs)

VARIABLES
  server,    \* what the server has: "pdb", "ptr", "none"; "unset" at first
  file,      \* the cache file
  at,        \* program -> its place in load
  cached,    \* program -> whether its store has a cache_path
  pos,       \* program -> parts read or written
  buffer,    \* program -> the parts that came out right
  progress,  \* program -> its progress thread: "none", "run", "told"
  torn,      \* program -> whether its last load returned less than the PDB
  shared,    \* program -> another one was writing while it read
  broken,    \* a write was cut short
  loads

storeVars == <<server, file, at, cached, pos, buffer, progress, torn, shared, broken, loads>>

Absent == [len |-> -1, good |-> {}]
Whole == 1 .. Parts

StoreInit ==
  /\ server = "unset" /\ file = Absent /\ broken = FALSE /\ loads = 0
  /\ at = [p \in Programs |-> "idle"]
  /\ cached = [p \in Programs |-> TRUE]
  /\ pos = [p \in Programs |-> 0]
  /\ buffer = [p \in Programs |-> {}]
  /\ progress = [p \in Programs |-> "none"]
  /\ torn = [p \in Programs |-> FALSE]
  /\ shared = [p \in Programs |-> FALSE]

Writing(p) == at[p] = "write"

Go(p, place) == at' = [at EXCEPT ![p] = place]

Publish ==
  /\ server = "unset"
  /\ server' \in {"pdb", "ptr", "none"}
  /\ UNCHANGED <<file, at, cached, pos, buffer, progress, torn, shared, broken, loads>>

(* load: a file that exists is read. *)
Load(p) ==
  /\ at[p] = "idle" /\ loads < MaxLoads /\ server # "unset"
  /\ loads' = loads + 1
  /\ \E c \in BOOLEAN :
       /\ cached' = [cached EXCEPT ![p] = c]
       /\ Go(p, IF c /\ file # Absent THEN "open" ELSE "get")
  /\ pos' = [pos EXCEPT ![p] = 0]
  /\ buffer' = [buffer EXCEPT ![p] = {}]
  /\ torn' = [torn EXCEPT ![p] = FALSE]
  /\ shared' = [shared EXCEPT ![p] = \E q \in Programs \ {p} : Writing(q)]
  /\ UNCHANGED <<server, file, progress, broken>>

Return(p, result) ==
  /\ Go(p, "idle")
  /\ torn' = [torn EXCEPT ![p] = result = "ok" /\ buffer[p] # Whole]

OpenCache(p) ==
  /\ at[p] = "open"
  /\ \/ Go(p, "read") /\ UNCHANGED torn
     \/ Return(p, "err")
  /\ UNCHANGED <<server, file, cached, pos, buffer, progress, shared, broken, loads>>

(* read_to_end on the file, which may be growing or cut meanwhile. *)
ReadCache(p) ==
  /\ at[p] = "read"
  /\ \/ /\ pos[p] < file.len
        /\ pos' = [pos EXCEPT ![p] = @ + 1]
        /\ buffer' = [buffer EXCEPT ![p] = @ \cup (file.good \cap {pos[p] + 1})]
        /\ UNCHANGED <<at, torn>>
     \/ pos[p] >= file.len /\ Return(p, "ok") /\ UNCHANGED <<pos, buffer>>
     \/ Return(p, "err") /\ UNCHANGED <<pos, buffer>>
  /\ UNCHANGED <<server, file, cached, progress, shared, broken, loads>>

----------------------------------------------------------------------------
(* download: the PDB, or else file.ptr, whose text counts as the PDB *)

Otherwise(p) ==
  IF at[p] \in {"get", "body"} THEN Go(p, "get_ptr") /\ UNCHANGED torn ELSE Return(p, "err")

(* The server may also not be reached. *)
Request(p) ==
  /\ at[p] \in {"get", "get_ptr"}
  /\ \/ /\ server = IF at[p] = "get" THEN "pdb" ELSE "ptr"
        /\ Go(p, IF at[p] = "get" THEN "body" ELSE "body_ptr")
        /\ progress' = [progress EXCEPT ![p] = "run"]
        /\ UNCHANGED torn
     \/ Otherwise(p) /\ UNCHANGED progress
  /\ UNCHANGED <<server, file, cached, pos, buffer, shared, broken, loads>>

\* Mutant of Finish: the thread is joined before it is told to finish
FinishLate(p) == UNCHANGED progress

Finish(p) == progress' = [progress EXCEPT ![p] = "told"]

(* read_to_end on the reply.  It may end early; if it fails, the progress   *)
(* thread is left running and file.ptr is tried.                            *)
ReadBody(p) ==
  /\ at[p] \in {"body", "body_ptr"}
  /\ \/ /\ \E n \in 0 .. Parts : buffer' = [buffer EXCEPT ![p] = 1 .. n]
        /\ Finish(p)
        /\ Go(p, "join")
        /\ UNCHANGED torn
     \/ Otherwise(p) /\ UNCHANGED <<buffer, progress>>
  /\ UNCHANGED <<server, file, cached, pos, shared, broken, loads>>

(* The progress thread looks at the flag every 10 ms. *)
Progress(p) ==
  /\ progress[p] = "told"
  /\ progress' = [progress EXCEPT ![p] = "none"]
  /\ UNCHANGED <<server, file, at, cached, pos, buffer, torn, shared, broken, loads>>

(* A reply that is not as long as its Content-Length panics. *)
JoinProgress(p) ==
  /\ at[p] = "join" /\ progress[p] = "none"
  /\ CASE buffer[p] # Whole -> Return(p, "panic")
       [] buffer[p] = Whole /\ cached[p] -> Go(p, "create") /\ UNCHANGED torn
       [] OTHER -> Return(p, "ok")
  /\ UNCHANGED <<server, file, cached, pos, buffer, progress, shared, broken, loads>>

----------------------------------------------------------------------------
(* The directory, then File::create, which cuts a file that is there. *)
CreateCache(p) ==
  /\ at[p] = "create"
  /\ \/ /\ file' = [len |-> 0, good |-> {}]
        /\ Go(p, "write")
        /\ shared' = [q \in Programs |-> shared[q] \/ (q # p /\ at[q] \in {"open", "read"})]
        /\ UNCHANGED torn
     \/ Return(p, "err") /\ UNCHANGED <<file, shared>>
  /\ UNCHANGED <<server, cached, pos, buffer, progress, broken, loads>>

\* Mutant of Written: write in place of write_all
WrittenSome(p) == pos[p] > 0

Written(p) == pos[p] = Parts

(* write_all, at the offset of this program's own descriptor. *)
WriteCache(p) ==
  /\ at[p] = "write"
  /\ \/ /\ ~Written(p)
        /\ pos' = [pos EXCEPT ![p] = @ + 1]
        /\ file' = [len |-> IF pos[p] + 1 > file.len THEN pos[p] + 1 ELSE file.len,
                    good |-> file.good \cup {pos[p] + 1}]
        /\ UNCHANGED <<at, torn, broken>>
     \/ Written(p) /\ Return(p, "ok") /\ UNCHANGED <<pos, file, broken>>
     \/ /\ ~Written(p) /\ Return(p, "err") /\ broken' = TRUE
        /\ UNCHANGED <<pos, file>>
  /\ UNCHANGED <<server, cached, buffer, progress, shared, loads>>

(* The program ends, its threads with it; it may be started again. *)
Crash(p) ==
  /\ at[p] # "idle"
  /\ Return(p, "err")
  /\ progress' = [progress EXCEPT ![p] = "none"]
  /\ broken' = (broken \/ Writing(p))
  /\ UNCHANGED <<server, file, cached, pos, buffer, shared, loads>>

LoadStep(p) ==
  \/ OpenCache(p) \/ ReadCache(p) \/ Request(p) \/ ReadBody(p) \/ JoinProgress(p)
  \/ CreateCache(p) \/ WriteCache(p)

StoreNext ==
  \/ Publish
  \/ \E p \in Programs : Load(p) \/ LoadStep(p) \/ Progress(p) \/ Crash(p)

StoreFairness ==
  \A p \in Programs : WF_storeVars(LoadStep(p)) /\ WF_storeVars(Progress(p))

StoreSpec == StoreInit /\ [][StoreNext]_storeVars /\ StoreFairness

----------------------------------------------------------------------------
(* As long as no write was cut short, the cache file is whole whenever      *)
(* nobody writes, though two programs that both missed cut it under each    *)
(* other; and a load returns less than the PDB only if a write was cut      *)
(* short or another program wrote while it read.                            *)
CacheSettles ==
  /\ ~broken /\ (\A p \in Programs : ~Writing(p)) => file = Absent \/ file.good = Whole
  /\ \A p \in Programs : torn[p] => broken \/ shared[p]

(* Every load ends, whatever the server sends: the progress thread it joins *)
(* is always told to finish first.                                          *)
LoadReturns == \A p \in Programs : (at[p] # "idle") ~> (at[p] = "idle")
=============================================================================

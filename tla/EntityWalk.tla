----------------------------- MODULE EntityWalk -----------------------------
(***************************************************************************)
(* IterateEntities (jiaa-src/egggame.c): jiaa walks the game's map of      *)
(* entities, a search tree with a head node, one read of guest memory at a *)
(* time, while the game rebalances the tree or goes away.  type2_child is  *)
(* the left child, type1_ents the parent, type2_entry the right child and  *)
(* last_entry the mark of the head, which stands for no child.             *)
(*                                                                         *)
(* virt_read_raw_into leaves the buffer alone when it fails, which nobody  *)
(* asks: the walk goes on with what the buffer held.                       *)
(*                                                                         *)
(* Nodes are 1, 2, ... in the order of their keys and 0 is the head.       *)
(***************************************************************************)
EXTENDS Integers, Sequences, FiniteSets, FiniteSetsExt

CONSTANTS
  MaxNodes,     \* bound: nodes of the tree
  MaxRotations, \* bound: changes of the tree during a walk
  MaxFailures   \* bound: failed reads during a walk

VARIABLES
  nodes,      \* node -> its fields in the guest
  copies,     \* history: every content a node has had
  mapped,     \* the game's memory is still there
  rotations, failures,
  step,       \* where the walk is
  entity_list, child, parent,  \* its buffers: entity_list; type2_entry, then n; m
  blank,      \* history: a failed read left zeros where the walk takes a node
  visited     \* nodes whose entities were drawn

readVars == <<failures, entity_list, child, parent, blank>>
walkVars == <<nodes, copies, mapped, rotations, step, visited, readVars>>

MaxDrawn == 2 * MaxNodes   \* bound: nodes remembered as drawn

EmptyHead == [id |-> 0, left |-> 0, up |-> 0, right |-> 0, last_entry |-> TRUE, entity |-> 0]

(* Memory that is gone reads as zeros, which stand for all bytes that lead *)
(* to no node; -1 is the null address.                                     *)
Zeros == [id |-> -1, left |-> -1, up |-> -1, right |-> -1, last_entry |-> FALSE, entity |-> 0]

(* A buffer nothing was written to. *)
Unfilled == [Zeros EXCEPT !.id = -2]

WalkInit ==
  /\ nodes = <<>> /\ copies = {} /\ mapped = TRUE /\ rotations = 0 /\ failures = 0 /\ step = "boot"
  /\ entity_list = Unfilled /\ child = Unfilled /\ parent = Unfilled
  /\ blank = FALSE /\ visited = <<>>

----------------------------------------------------------------------------
(* The game: a search tree of n nodes has the shape its priorities give it, *)
(* a smaller one above a larger.                                            *)
Tree(n, prio, ents) ==
  LET Top(lo, hi) == IF lo > hi THEN 0
                     ELSE CHOOSE k \in lo .. hi : \A j \in lo .. hi : prio[k] <= prio[j]
      Under(k) == {j \in 1 .. n : \A i \in 1 .. n :
                     (j <= i /\ i <= k) \/ (k <= i /\ i <= j) => prio[k] <= prio[i]}
      Left(k) == Top(Min(Under(k)), k - 1)
      Right(k) == Top(k + 1, Max(Under(k)))
      Up(k) == CHOOSE p \in 0 .. n : \/ p > 0 /\ k \in {Left(p), Right(p)}
                                     \/ p = 0 /\ k = Top(1, n)
  IN  [k \in 0 .. n |->
         IF k = 0 THEN [EmptyHead EXCEPT !.up = Top(1, n), !.left = IF n = 0 THEN 0 ELSE 1,
                                     !.right = n, !.entity = ents[0]]
         ELSE [id |-> k, left |-> Left(k), up |-> Up(k), right |-> Right(k),
               last_entry |-> FALSE, entity |-> ents[k]]]

Priorities(n) == {f \in [1 .. n -> 1 .. n] : \A i, j \in 1 .. n : f[i] = f[j] => i = j}

(* The entities are all different, or two of them are the same, or one is   *)
(* what the head holds in that place: null.                                 *)
Entities(n) ==
  LET apart == [i \in 0 .. n |-> i]
  IN  {apart} \cup {[apart EXCEPT ![j] = i] : i \in 0 .. n, j \in 0 .. n}

PlantTree ==
  /\ step = "boot"
  /\ \E n \in 0 .. MaxNodes : \E prio \in Priorities(n), ents \in Entities(n) :
       nodes' = Tree(n, prio, ents)
  /\ copies' = {nodes'[i] : i \in DOMAIN nodes'}
  /\ step' = "start"
  /\ UNCHANGED <<mapped, rotations, visited, readVars>>

Relink(t, p, old, new) ==
  CASE p = 0 -> [t EXCEPT ![0].up = new]
    [] p > 0 /\ t[p].left = old -> [t EXCEPT ![p].left = new]
    [] OTHER -> [t EXCEPT ![p].right = new]

SetUp(t, k, p) == IF k = 0 THEN t ELSE [t EXCEPT ![k].up = p]

(* One rotation of a node with its right child, or the mirror of it. *)
Rotate ==
  /\ step \notin {"boot", "done"} /\ mapped /\ rotations < MaxRotations
  /\ rotations' = rotations + 1
  /\ \E x \in DOMAIN nodes \ {0} :
       \/ LET y == nodes[x].right
              moved == [nodes EXCEPT ![x].right = nodes[y].left, ![x].up = y,
                                     ![y].left = x, ![y].up = nodes[x].up]
          IN  y # 0 /\ nodes' = SetUp(Relink(moved, nodes[x].up, x, y), nodes[y].left, x)
       \/ LET y == nodes[x].left
              moved == [nodes EXCEPT ![x].left = nodes[y].right, ![x].up = y,
                                     ![y].right = x, ![y].up = nodes[x].up]
          IN  y # 0 /\ nodes' = SetUp(Relink(moved, nodes[x].up, x, y), nodes[y].right, x)
  /\ copies' = copies \cup {nodes'[i] : i \in DOMAIN nodes'}
  /\ UNCHANGED <<mapped, step, visited, readVars>>

Unmap ==
  /\ step \notin {"boot", "done"} /\ mapped
  /\ mapped' = FALSE
  /\ UNCHANGED <<nodes, copies, rotations, step, visited, readVars>>

----------------------------------------------------------------------------
(* virt_read_raw_into *)

(* What a buffer on the stack may hold that was not initialised: the copy   *)
(* of a node, taken at any time, or what leads nowhere.                     *)
Copies == copies \cup {Zeros}

Kept(buffer) == IF buffer = Unfilled THEN Copies ELSE {buffer}

Found(i) == IF mapped /\ i \in DOMAIN nodes THEN nodes[i] ELSE Zeros

(* A read of node i gives got; if it fails, got is what the buffer kept.    *)
Read(i, kept, got) ==
  \/ got = Found(i) /\ UNCHANGED failures
  \/ failures < MaxFailures /\ got \in kept /\ failures' = failures + 1

(* The walk goes on from got. *)
Follow(got) == blank' = (blank \/ (failures' # failures /\ got = Zeros))

----------------------------------------------------------------------------
(* IterateEntities *)

(* The do-while ends at the head. *)
Arrive(node) == step' = IF node.last_entry THEN "done" ELSE "visit"

(* The walk starts at the root: what the head names as its parent. *)
ReadHead ==
  /\ step = "start"
  /\ \E head \in Copies \cup {Found(0)} :
       /\ Read(0, Copies, head)
       /\ child' = head
       /\ step' = IF head.up = -1 THEN "done" ELSE "root"
  /\ UNCHANGED <<nodes, copies, mapped, rotations, entity_list, parent, blank, visited>>

ReadRoot ==
  /\ step = "root"
  /\ \E got \in Copies \cup {Found(child.up)} :
       Read(child.up, Copies, got) /\ Follow(got) /\ entity_list' = got
  /\ step' = "visit"
  /\ UNCHANGED <<nodes, copies, mapped, rotations, child, parent, visited>>

Visit ==
  /\ step = "visit"
  /\ visited' = IF ~entity_list.last_entry /\ entity_list.entity # 0 /\ Len(visited) <= MaxDrawn
                THEN Append(visited, entity_list.id) ELSE visited
  /\ \E got \in Copies \cup {Found(entity_list.right)} :
       /\ Read(entity_list.right, Copies, got) /\ Follow(got) /\ child' = got
       /\ step' = IF got.last_entry THEN "up" ELSE "right"
  /\ UNCHANGED <<nodes, copies, mapped, rotations, entity_list, parent>>

Up ==
  /\ step = "up"
  /\ \E got \in Kept(parent) \cup {Found(entity_list.up)} :
       Read(entity_list.up, Kept(parent), got) /\ Follow(got) /\ parent' = got
  /\ step' = "climb"
  /\ UNCHANGED <<nodes, copies, mapped, rotations, entity_list, child, visited>>

\* Mutant of Compared: the other child
ComparedLeft(m) == m.left

Compared(m) == m.right

(* Two nodes are the same if their entities are. *)
Climb ==
  /\ step = "climb"
  /\ entity_list' = parent
  /\ IF parent.last_entry
     THEN Arrive(parent) /\ UNCHANGED failures
     ELSE \E temp \in Copies \cup {Found(Compared(parent))} :
            /\ Read(Compared(parent), Copies, temp)
            /\ IF entity_list.entity = temp.entity THEN step' = "up" ELSE Arrive(parent)
  /\ UNCHANGED <<nodes, copies, mapped, rotations, child, parent, blank, visited>>

(* The right child is read a second time. *)
GoRight ==
  /\ step = "right"
  /\ \E got \in {entity_list, Found(entity_list.right)} :
       Read(entity_list.right, {entity_list}, got) /\ Follow(got) /\ entity_list' = got
  /\ step' = "first"
  /\ UNCHANGED <<nodes, copies, mapped, rotations, child, parent, visited>>

(* n is new for the first left child, then it is read over itself. *)
GoLeft ==
  /\ step \in {"first", "left"}
  /\ LET kept == IF step = "first" THEN Copies ELSE {child}
     IN  \E got \in kept \cup {Found(child.left)} :
           /\ Read(child.left, kept, got) /\ Follow(got) /\ child' = got
           /\ IF got.last_entry THEN Arrive(entity_list) /\ UNCHANGED entity_list
              ELSE entity_list' = got /\ step' = "left"
  /\ UNCHANGED <<nodes, copies, mapped, rotations, parent, visited>>

WalkStep == ReadHead \/ ReadRoot \/ Visit \/ Up \/ Climb \/ GoRight \/ GoLeft

WalkNext == PlantTree \/ Rotate \/ Unmap \/ WalkStep

WalkSpec == WalkInit /\ [][WalkNext]_walkVars /\ WF_walkVars(WalkStep)

----------------------------------------------------------------------------
Different == \A i, j \in DOMAIN nodes : nodes[i].entity = nodes[j].entity => i = j

FromRoot ==
  LET root == nodes[0].up
  IN  IF root = 0 THEN <<>>
      ELSE [k \in 1 .. Cardinality(DOMAIN nodes) - root |-> root + k - 1]

(* As long as the game's memory is there, a walk ends, also over a tree     *)
(* that is rebalanced under it and after a read that failed, unless that    *)
(* read left zeros for a node: null leads to null for ever.  Over a tree    *)
(* that is left alone, and is read, it draws, once each and in order, the   *)
(* root and all nodes behind it.                                            *)
WalkEnds ==
  (step = "start") ~>
    \/ ~mapped \/ blank
    \/ /\ step = "done"
       /\ rotations = 0 /\ failures = 0 /\ Different => visited = FromRoot
=============================================================================

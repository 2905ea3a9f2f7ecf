---------------------------- MODULE MCVirtualDma -----------------------------
(***************************************************************************)
(* A small instance of VirtualDma: lists of up to two elements of one or   *)
(* two pages, and every way to map five pages onto four frames, in pieces  *)
(* of one page or of two that lie next to each other.                      *)
(***************************************************************************)
EXTENDS VirtualDma

MCSpans == {1, 2}
MCGaps == {0, 1, 2}

\* f maps the pages, 9 stands for a page that is not mapped; a page of the
\* set large is one piece with the page behind it.
MCPieces(f, large) ==
  {[virt |-> p, len |-> IF p \in large THEN 2 ELSE 1, phys |-> f[p]] :
     p \in {q \in DOMAIN f : f[q] # 9 /\ q - 1 \notin large}}
MCPieceSets ==
  UNION {{MCPieces(f, large) :
            large \in {{}} \cup {{p} : p \in {q \in 0 .. 3 : f[q] # 9 /\ f[q + 1] = f[q] + 1}}}
         : f \in [0 .. 4 -> {1, 2, 3, 9}]}
=============================================================================

----------------------------- MODULE MCPageCache -----------------------------
(***************************************************************************)
(* Small instances of PageCache: three pages on two slots, so that pages 0 *)
(* and 2 compete for slot 0, and one cached and one uncached page type.    *)
(***************************************************************************)
EXTENDS PageCache, TLC

CONSTANTS v0, v1

MCVals == {v0, v1}
MCPages == 0 .. 2
MCGuestPages == {0}
NoPages == {}
MCMask == {"PAGE_TABLE", "READ_ONLY"}
ReadOnly == {"READ_ONLY"}
Writeable == {"WRITEABLE"}

MCRequests ==
  {[page |-> 0, span |-> 1, type |-> ReadOnly],
   [page |-> 2, span |-> 1, type |-> ReadOnly],
   [page |-> 0, span |-> 2, type |-> ReadOnly],
   [page |-> 0, span |-> 1, type |-> Writeable]}

MCWrites ==
  [page : {0}, type : {ReadOnly, Writeable}, val : MCVals]

\* Only what the clock and the flush in the middle of a batch need.
FewRequests ==
  {[page |-> 2, span |-> 1, type |-> ReadOnly],
   [page |-> 0, span |-> 2, type |-> ReadOnly]}
FewWrites == [page : {0}, type : {ReadOnly}, val : MCVals]

ValSymmetry == Permutations(MCVals)
=============================================================================

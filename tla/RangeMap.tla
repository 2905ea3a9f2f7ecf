------------------------------ MODULE RangeMap -------------------------------
(***************************************************************************)
(* The range maps of VirtualDMA: virt_translation_map_range and            *)
(* virt_page_map_range sort what the translator gave and coalesce          *)
(* neighbours.  A piece is [virt, len, phys], in pages.                    *)
(***************************************************************************)
EXTENDS Integers, Sequences, FiniteSets

Pieces == [virt : Nat, len : Nat \ {0}, phys : Nat]

\* What a translator gives for a range: no page twice (MmuWalk, AnsweredOnce).
ApartPieces(pieces) ==
  /\ IsFiniteSet(pieces) /\ pieces \subseteq Pieces
  /\ \A a, b \in pieces : a = b \/ a.virt + a.len <= b.virt \/ b.virt + b.len <= a.virt

\* out.sort_by(...): a piece has before it those that begin before it.
SortedPieces(pieces) ==
  [i \in 1 .. Cardinality(pieces) |->
     CHOOSE p \in pieces : Cardinality({q \in pieces : q.virt < p.virt}) = i - 1]

\* The last range reaches to the end of p.
Extended(ranges, p) ==
  LET n == Len(ranges)
  IN  [ranges EXCEPT ![n] = [@ EXCEPT !.len = p.virt + p.len - ranges[n].virt]]

\* coalesce: the last range and the next piece become one, or two.
Coalesce(s, Joins(_, _)) ==
  LET coalesced[i \in 0 .. Len(s)] ==
        IF i = 0 THEN <<>>
        ELSE LET ranges == coalesced[i - 1]
             IN  IF ranges # <<>> /\ Joins(ranges[Len(ranges)], s[i])
                   THEN Extended(ranges, s[i])
                   ELSE Append(ranges, s[i])
  IN  coalesced[Len(s)]

ContiguousPieces(a, b) == b.virt = a.virt + a.len /\ b.phys = a.phys + a.len

\* virt_translation_map_range
TranslationMap(pieces) == Coalesce(SortedPieces(pieces), ContiguousPieces)

\* Mutant of WithinGap: the gap is measured from the start of the range.
WithinGapOfStart(gap, a, b) == b.virt - a.virt <= gap

WithinGap(gap, a, b) == b.virt - (a.virt + a.len) <= gap

\* virt_page_map_range
PageMap(pieces, gap) ==
  Coalesce(SortedPieces(pieces), LAMBDA a, b : WithinGap(gap, a, b))
=============================================================================

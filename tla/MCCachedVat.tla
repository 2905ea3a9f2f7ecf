----------------------------- MODULE MCCachedVat -----------------------------
(***************************************************************************)
(* Two slots for four pages of four bytes, two processes.                  *)
(***************************************************************************)
EXTENDS CachedVat, TLC

MCVPages == 0 .. 3
Buf(from, to) == [from |-> from, to |-> to]

\* Three pages, the first from its second byte, so that a cut may fall within
\* the third; two pages, the second not to its end; two buffers whose pages
\* share a slot, one lacking a byte; one page twice; a buffer that is too long.
MCBatches ==
  {<<Buf(1, 12)>>, <<Buf(2, 6)>>, <<Buf(0, 4), Buf(8, 11)>>, <<Buf(0, 4), Buf(1, 4)>>, <<Buf(0, 12)>>}
=============================================================================

------------------------------ MODULE MCMmuWalk ------------------------------
(***************************************************************************)
(* A small x86: a directory of two entries, two tables of four entries,    *)
(* pages of two units.                                                     *)
(***************************************************************************)
EXTENDS MmuWalk, TLC

Entry(to) == [present |-> TRUE, large |-> FALSE, write |-> TRUE, to |-> to]
Large(to) == [Entry(to) EXCEPT !.large = TRUE]
ReadOnly(to) == [Entry(to) EXCEPT !.write = FALSE]
Absent    == [present |-> FALSE, large |-> FALSE, write |-> FALSE, to |-> "f0"]

MCSplits == <<2, 4, 2>>
MCFinalSteps == {1, 2}
MCTables == {"r", "a", "b"}
MCFrames == {"f0", "f1", "f2", "f3", "f4", "f5"}

MCData == {Absent, Entry("f1")}

Fill(s) == [i \in Indexes |-> s[i + 1]]

\* The first page of table b is an alias of the third of table a.
MCMemories ==
  {[t \in MCTables |->
      CASE t = "r" -> Fill(<<Entry("a"), Entry("b"), Absent, Absent>>)
        [] t = "a" -> Fill(<<Entry("f0"), Entry("f1"), Entry("f2"), Entry("f3")>>)
        [] t = "b" -> Fill(<<Entry("f2"), Absent, ReadOnly("f5"), Entry("f4")>>)]}

\* The guest swaps a page, unmaps a table, maps a large page, or points a
\* directory entry to the directory, to another entry's table or to a page.
MCRemaps ==
  [table : {"a"}, index : {3}, pte : {Entry("f5"), Absent}]
  \cup [table : {"r"}, index : {1},
        pte : {Entry("b"), Large("f4"), Entry("r"), Entry("a"), Entry("f0"), Absent}]

Range1(addr, len) == [addr |-> addr, len |-> len]

NoGaps ==
  {<<Range1(a, n)>> : a \in {0, 1, 5, 7}, n \in {1, 2, 4, 7}}
  \cup {<<Range1(5, 2), Range1(7, 3)>>, <<Range1(6, 3), Range1(5, 3)>>}
Gaps ==
  {<<Range1(0, 1), Range1(5, 2)>>, <<Range1(5, 1), Range1(0, 1), Range1(6, 1)>>,
   <<Range1(0, 2), Range1(8, 4)>>}

MCBatches == NoGaps \cup Gaps
NoRemaps == {}
=============================================================================

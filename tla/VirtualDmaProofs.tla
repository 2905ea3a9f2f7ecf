--------------------------- MODULE VirtualDmaProofs ---------------------------
(***************************************************************************)
(* Theorems about VirtualDma, for lists and buffers of any length and      *)
(* whatever the translator and the physical memory do.                     *)
(***************************************************************************)
EXTENDS VirtualDma, SequenceTheorems, FiniteSetTheorems, FunctionTheorems,
        WellFoundedInduction, TLAPS

Units == (1 .. MaxList) \X (0 .. MaxSpan - 1)

-----------------------------------------------------------------------------
(* The inductive invariant                                                 *)

\* What is in the lists: a caller that has gone leaves none behind, and every
\* write has its own place in the history.
ListsInv ==
  /\ Len(read_list) <= MaxList /\ Len(issued) <= MaxWrites
  /\ caller = "none" => read_list = <<>> /\ write_list = <<>>
  /\ \A k \in DOMAIN write_list : write_list[k].span = issued[write_list[k].wid]
  /\ \A k, m \in DOMAIN write_list : write_list[k].wid = write_list[m].wid => k = m

\* The course of a read: nothing translated yet; translated and to be read;
\* read.
ReadInv ==
  /\ asked \subseteq Units
  /\ phase \notin {"read", "write"} => todo = {} /\ translation = {}
  /\ phase = "read" =>
       /\ readResult = "none"
       /\ todo # {} => todo = asked /\ translation = {} /\ failed = {} /\ partial = FALSE
       /\ todo = {} =>
            /\ failed \subseteq asked /\ (partial = FALSE => failed = {})
            /\ partial = TRUE => failed # {}
            /\ \A u \in failed : outs[u] = "zero"
            /\ translation # {} => translation = asked \ failed
            /\ translation = {} => \A u \in asked \ failed : outs[u] = "data"
  /\ ReadsFilled

\* The course of a write.  A write that no list holds has been applied, once;
\* one that waits has not been, until the whole of its list is translated and
\* written.  Nothing is claimed of the writes that the application got an error
\* for or that a failing drop gave up, nor of a list that translated partly,
\* between the access and the error.
WriteInv ==
  /\ \A w \in 1 .. MaxWrites : \A j \in 0 .. MaxSpan - 1 :
       w > Len(issued) => applied[<<w, j>>] = 0
  /\ \A w \in 1 .. Len(issued) \ (reported \cup lost) : \A j \in 0 .. issued[w] - 1 :
       /\ w \notin WidsOf(write_list) => applied[<<w, j>>] = 1
       /\ w \in WidsOf(write_list) =>
            /\ phase # "write" \/ todo # {} \/ translation # {} => applied[<<w, j>>] = 0
            /\ phase = "write" /\ todo = {} /\ translation = {} /\ partial = FALSE =>
                 applied[<<w, j>>] = 1
  /\ phase = "write" =>
       /\ todo # {} => todo = WriteUnits(write_list) /\ translation = {} /\ partial = FALSE
       /\ todo = {} /\ translation # {} /\ partial = FALSE =>
            translation = WriteUnits(write_list)

-----------------------------------------------------------------------------
(* Lists and units                                                         *)

LEMMA MaxSpanOK == MaxSpan \in Spans /\ MaxSpan \in Nat \ {0} /\ \A n \in Spans : n \in Nat /\ n <= MaxSpan
<1>1. \E n \in Spans : \A m \in Spans : m <= n
  BY DmaAssumption
<1>2. MaxSpan \in Spans /\ \A m \in Spans : m <= MaxSpan
  BY <1>1 DEF MaxSpan
<1>. QED  BY <1>2, DmaAssumption

LEMMA ReadUnitsMember ==
  \A list, u : u \in ReadUnits(list) <=>
    \E k \in DOMAIN list : \E j \in 0 .. list[k] - 1 : u = <<k, j>>
BY DEF ReadUnits

LEMMA WriteUnitsMember ==
  \A list, u : u \in WriteUnits(list) <=>
    \E k \in DOMAIN list : \E j \in 0 .. list[k].span - 1 : u = <<k, j>>
BY DEF WriteUnits

LEMMA SeqIndex ==
  ASSUME NEW S, NEW s \in Seq(S)
  PROVE  Len(s) \in Nat /\ DOMAIN s = 1 .. Len(s) /\ \A k \in DOMAIN s : k \in Nat /\ s[k] \in S
<1>1. Len(s) \in Nat /\ DOMAIN s = 1 .. Len(s)
  BY LenProperties
<1>2. \A k \in 1 .. Len(s) : k \in Nat /\ s[k] \in S
  BY <1>1, ElementOfSeq
<1>. QED  BY <1>1, <1>2

LEMMA ReadUnitsOK ==
  ASSUME NEW list \in Seq(Spans), Len(list) <= MaxList
  PROVE  ReadUnits(list) \subseteq Units
<1> SUFFICES ASSUME NEW k \in DOMAIN list, NEW j \in 0 .. list[k] - 1
             PROVE  <<k, j>> \in Units
  BY ReadUnitsMember
<1>1. Len(list) \in Nat /\ DOMAIN list = 1 .. Len(list) /\ list[k] \in Spans /\ k \in Nat
  BY SeqIndex
<1>2. MaxList \in Nat /\ k \in 1 .. MaxList
  BY <1>1, DmaAssumption
<1>3. list[k] \in Nat /\ list[k] <= MaxSpan /\ MaxSpan \in Nat
  BY <1>1, MaxSpanOK
<1>4. j \in 0 .. MaxSpan - 1
  BY <1>3
<1>. QED  BY <1>2, <1>4 DEF Units

-----------------------------------------------------------------------------
(* The course of a read                                                    *)

LEMMA ReadStep ==
  ASSUME TypeOK, ListsInv, ReadInv, [Next]_vars
  PROVE  ReadInv'
<1>0. /\ outs \in [Units -> {"old", "zero", "data"}] /\ DOMAIN outs = Units
      /\ partial \in BOOLEAN /\ read_list \in Seq(Spans) /\ Len(read_list) <= MaxList
  BY DEF TypeOK, ListsInv, Units
<1>1. ASSUME NEW ok \in SUBSET todo, Translate(ok)
      PROVE  ReadInv'
  <2>1. /\ todo # {} /\ todo' = {} /\ translation' = ok /\ partial' = (ok # todo)
        /\ phase' = phase /\ asked' = asked /\ readResult' = readResult
    BY <1>1 DEF Translate
  <2>2. CASE phase = "read"
    <3>1. /\ outs' = [u \in Units |-> IF u \in todo \ ok THEN "zero" ELSE outs[u]]
          /\ failed' = todo \ ok
      BY <1>0, <1>1, <2>2 DEF Translate
    <3>2. todo = asked /\ readResult = "none" /\ asked \subseteq Units
      BY <2>1, <2>2 DEF ReadInv
    <3>3. \A u \in failed' : outs'[u] = "zero"
      BY <3>1, <3>2
    <3>4. /\ partial' = FALSE => failed' = {}
          /\ partial' = TRUE => failed' # {}
      <4>1. partial' = (failed' # {})
        BY <1>1, <2>1, <3>1
      <4>. QED  BY <4>1
    <3>5. translation' = asked \ failed' /\ failed' \subseteq asked
      BY <1>1, <2>1, <3>1, <3>2
    <3>. QED  BY <2>1, <2>2, <3>2, <3>3, <3>4, <3>5 DEF ReadInv, ReadsFilled
  <2>3. CASE phase # "read"
    <3>1. phase = "write"
      BY <2>1, <2>3 DEF ReadInv, TypeOK
    <3>2. outs' = outs /\ failed' = failed
      BY <1>1, <2>3 DEF Translate
    <3>. QED  BY <2>1, <3>1, <3>2 DEF ReadInv, ReadsFilled
  <2>. QED  BY <2>2, <2>3
<1>2. CASE Access
  <2>1. /\ phase \in {"read", "write"} /\ todo = {} /\ translation # {} /\ translation' = {}
        /\ Perform(translation)
        /\ UNCHANGED <<phase, todo, partial, asked, failed, readResult>>
    BY <1>2 DEF Access
  <2>2. outs' = [u \in Units |-> IF phase = "read" /\ u \in translation THEN "data" ELSE outs[u]]
    BY <1>0, <2>1 DEF Perform
  <2>3. CASE phase = "read"
    <3>1. translation = asked \ failed /\ asked \subseteq Units /\ failed \subseteq asked
      BY <2>1, <2>3 DEF ReadInv
    <3>2. \A u \in failed : outs'[u] = "zero"
      BY <2>1, <2>2, <2>3, <3>1 DEF ReadInv
    <3>3. \A u \in asked \ failed : outs'[u] = "data"
      BY <2>2, <2>3, <3>1
    <3>. QED  BY <2>1, <2>3, <3>1, <3>2, <3>3 DEF ReadInv, ReadsFilled
  <2>4. CASE phase = "write"
    <3>1. outs' = outs
      BY <1>0, <2>2, <2>4
    <3>. QED  BY <2>1, <2>4, <3>1 DEF ReadInv, ReadsFilled
  <2>. QED  BY <2>1, <2>3, <2>4
<1>3. ASSUME NEW done \in SUBSET translation, AccessFails(done)
      PROVE  ReadInv'
  <2>1. /\ phase \in {"read", "write"} /\ Perform(done)
        /\ phase' = "idle" /\ todo' = {} /\ translation' = {}
        /\ readResult' = IF phase = "read" THEN "err" ELSE readResult
        /\ UNCHANGED <<asked, failed>>
    BY <1>3 DEF AccessFails, GiveBack
  <2>2. CASE phase = "read"
    BY <2>1, <2>2 DEF ReadInv, ReadsFilled
  <2>3. CASE phase = "write"
    <3>1. outs' = outs
      BY <1>0, <2>1, <2>3 DEF Perform
    <3>. QED  BY <2>1, <2>3, <3>1 DEF ReadInv, ReadsFilled
  <2>. QED  BY <2>1, <2>2, <2>3
<1>4. CASE PartlyDone
  <2>1. /\ phase \in {"read", "write"} /\ todo = {} /\ translation = {} /\ partial = TRUE
        /\ phase' = "idle" /\ todo' = {} /\ translation' = {}
        /\ readResult' = IF phase = "read" THEN "partial" ELSE readResult
        /\ UNCHANGED <<outs, asked, failed>>
    BY <1>0, <1>4 DEF PartlyDone, Accessed, GiveBack
  <2>. QED  BY <2>1 DEF ReadInv, ReadsFilled
<1>5. CASE ReadDone
  <2>1. /\ phase = "read" /\ todo = {} /\ translation = {} /\ partial = FALSE
        /\ readResult' = "ok" /\ UNCHANGED <<outs, asked, failed>>
        /\ \/ phase' = "write"
           \/ phase' = "idle" /\ todo' = {} /\ translation' = {}
    BY <1>0, <1>5 DEF ReadDone, Accessed, GiveBack
  <2>. QED  BY <2>1 DEF ReadInv, ReadsFilled
<1>6. CASE WriteDone
  <2>1. /\ phase = "write" /\ phase' = "idle" /\ todo' = {} /\ translation' = {}
        /\ UNCHANGED <<outs, asked, failed, readResult>>
    BY <1>6 DEF WriteDone, Accessed, GiveBack, readVars
  <2>. QED  BY <2>1 DEF ReadInv, ReadsFilled
<1>7. ASSUME NEW list \in Seq(Spans), Len(list) <= MaxList, BeginRead(list)
      PROVE  ReadInv'
  <2>1. /\ phase' = "read" /\ todo' = ReadUnits(list) /\ translation' = {} /\ partial' = FALSE
        /\ asked' = ReadUnits(list) /\ failed' = {} /\ readResult' = "none"
    BY <1>7 DEF BeginRead
  <2>2. ReadUnits(list) \subseteq Units
    BY <1>7, ReadUnitsOK
  <2>. QED  BY <2>1, <2>2 DEF ReadInv, ReadsFilled
<1>8. ASSUME NEW list, BeginWrite(list)
      PROVE  ReadInv'
  BY <1>8 DEF BeginWrite, ForgetRead, ReadInv, ReadsFilled
<1>9. ASSUME NEW who, NEW n \in Spans, Read(who, <<n>>)
      PROVE  ReadInv'
  <2>1. BeginRead(<<n>>)
    BY <1>9 DEF Read
  <2>2. <<n>> \in Seq(Spans) /\ Len(<<n>>) <= MaxList
    BY DmaAssumption
  <2>. QED  BY <1>7, <2>1, <2>2
<1>10. ASSUME NEW n \in Spans, WriteOne(n)
       PROVE  ReadInv'
  BY <1>8, <1>10 DEF WriteOne
<1>11. ASSUME NEW drop \in BOOLEAN, Commit(drop)
       PROVE  ReadInv'
  <2>1. CASE BeginRead(read_list)
    BY <1>0, <1>7, <2>1
  <2>2. CASE BeginWrite(write_list)
    BY <1>8, <2>2
  <2>3. CASE ForgetRead /\ UNCHANGED callVars /\ phase = "idle"
    BY <2>3 DEF ForgetRead, callVars, ReadInv, ReadsFilled
  <2>. QED  BY <1>11, <2>1, <2>2, <2>3 DEF Commit, Idle
<1>12. CASE UNCHANGED <<phase, todo, translation, partial, outs, asked, failed, readResult>>
  BY <1>12 DEF ReadInv, ReadsFilled
<1>13. ASSUME NEW given, NEW answer, NEW g, MapRange(given, answer, g), Idle("none")
       PROVE  ReadInv'
  <2>1. /\ phase = "idle" /\ phase' = "answered"
        /\ UNCHANGED <<todo, translation, outs, asked, failed, readResult>>
    BY <1>13 DEF MapRange, readVars, Idle
  <2>. QED  BY <2>1 DEF ReadInv, ReadsFilled
<1>14. NewBatcher \/ (\E n \in Spans : AddRead(n) \/ AddWrite(n)) \/ UNCHANGED vars =>
         UNCHANGED <<phase, todo, translation, partial, outs, asked, failed, readResult>>
  BY DEF NewBatcher, AddRead, AddWrite, vars, callVars, readVars
<1>. QED  BY <1>1, <1>2, <1>3, <1>4, <1>5, <1>6, <1>9, <1>10, <1>11, <1>12, <1>13, <1>14
          DEF Next, Finish


-----------------------------------------------------------------------------
(* The lists and the history                                               *)

Elements(n) == [span : Spans, wid : 1 .. n]

ListsType ==
  /\ read_list \in Seq(Spans) /\ issued \in Seq(Spans)
  /\ write_list \in Seq(Elements(Len(issued)))
  /\ reported \cup lost \subseteq 1 .. Len(issued)

LEMMA NoList == ASSUME NEW S PROVE <<>> \in Seq(S) /\ Len(<<>>) = 0 /\ DOMAIN <<>> = {}
OBVIOUS

LEMMA WidsOK ==
  ASSUME ListsType
  PROVE  /\ WidsOf(write_list) \subseteq 1 .. Len(issued)
         /\ WidsOf(<<>>) = {}
<1>1. \A k \in DOMAIN write_list : write_list[k] \in Elements(Len(issued))
  BY SeqIndex DEF ListsType
<1>. QED  BY <1>1 DEF WidsOf, Elements

\* A list that is kept or emptied keeps its invariant.
LEMMA ListsKept ==
  ASSUME ListsType, ListsInv, issued' = issued,
         read_list' \in {<<>>, read_list}, write_list' \in {<<>>, write_list},
         caller' = "none" => read_list' = <<>> /\ write_list' = <<>>,
         reported' \subseteq reported \cup WidsOf(write_list),
         lost' \subseteq lost \cup WidsOf(write_list)
  PROVE  ListsType' /\ ListsInv'
<1>1. /\ read_list' \in Seq(Spans) /\ Len(read_list') <= MaxList
      /\ write_list' \in Seq(Elements(Len(issued)))
  <2>1. read_list' \in Seq(Spans) /\ Len(read_list') <= MaxList
    <3>1. CASE read_list' = <<>>
      BY <3>1, DmaAssumption
    <3>2. CASE read_list' = read_list
      BY <3>2 DEF ListsType, ListsInv
    <3>. QED  BY <3>1, <3>2
  <2>2. write_list' \in Seq(Elements(Len(issued)))
    <3>1. CASE write_list' = <<>>
      BY <3>1, NoList
    <3>2. CASE write_list' = write_list
      BY <3>2 DEF ListsType
    <3>. QED  BY <3>1, <3>2
  <2>. QED  BY <2>1, <2>2
<1>2. reported' \cup lost' \subseteq 1 .. Len(issued)
  BY WidsOK DEF ListsType
<1>3. /\ \A k \in DOMAIN write_list' : write_list'[k].span = issued[write_list'[k].wid]
      /\ \A k, m \in DOMAIN write_list' : write_list'[k].wid = write_list'[m].wid => k = m
  BY DEF ListsInv
<1>. QED  BY <1>1, <1>2, <1>3 DEF ListsType, ListsInv

\* What a call gives back.
LEMMA GivenBack ==
  ASSUME ListsType, ListsInv, NEW r, NEW reads \in {<<>>, read_list},
         NEW writes \in {<<>>, write_list}, NEW kept \in {<<>>, write_list},
         GiveBack(r, writes), KeepLists(reads, kept)
  PROVE  ListsType' /\ ListsInv'
<1>1. WidsOf(writes) \subseteq WidsOf(write_list)
  BY DEF WidsOf
<1>2. /\ issued' = issued
      /\ reported' \subseteq reported \cup WidsOf(write_list)
      /\ lost' \subseteq lost \cup WidsOf(write_list)
  BY <1>1 DEF GiveBack
<1>3. /\ read_list' \in {<<>>, read_list} /\ write_list' \in {<<>>, write_list}
      /\ caller' = "none" => read_list' = <<>> /\ write_list' = <<>>
  BY DEF KeepLists, Gone
<1>. QED  BY <1>2, <1>3, ListsKept

\* A write that joins the list is the next of the history.
LEMMA ListsGrow ==
  ASSUME ListsType, ListsInv, NEW n \in Spans, Len(issued) < MaxWrites,
         NEW rest \in {<<>>, write_list},
         issued' = Append(issued, n),
         write_list' = Append(rest, [span |-> n, wid |-> Len(issued) + 1]),
         caller' # "none", UNCHANGED <<read_list, reported, lost>>
  PROVE  /\ ListsType' /\ ListsInv'
         /\ Len(issued') = Len(issued) + 1 /\ issued'[Len(issued) + 1] = n
         /\ \A w \in 1 .. Len(issued) : issued'[w] = issued[w]
         /\ WidsOf(write_list') = WidsOf(rest) \cup {Len(issued) + 1}
<1> DEFINE e == [span |-> n, wid |-> Len(issued) + 1]
<1>1. /\ issued \in Seq(Spans) /\ Len(issued) \in Nat /\ DOMAIN issued = 1 .. Len(issued)
      /\ MaxWrites \in Nat
  BY LenProperties, DmaAssumption DEF ListsType
<1>2. /\ issued' \in Seq(Spans) /\ Len(issued') = Len(issued) + 1
      /\ issued'[Len(issued) + 1] = n
      /\ \A w \in 1 .. Len(issued) : issued'[w] = issued[w]
  BY <1>1, AppendProperties
<1>3. /\ rest \in Seq(Elements(Len(issued))) /\ Len(rest) \in Nat
      /\ DOMAIN rest = 1 .. Len(rest)
      /\ \A k \in DOMAIN rest : rest[k] \in Elements(Len(issued))
  <2>1. rest \in Seq(Elements(Len(issued)))
    <3>1. CASE rest = <<>>
      BY <3>1, NoList
    <3>2. CASE rest = write_list
      BY <3>2 DEF ListsType
    <3>. QED  BY <3>1, <3>2
  <2>. QED  BY <2>1, SeqIndex
<1>4. Elements(Len(issued)) \subseteq Elements(Len(issued')) /\ e \in Elements(Len(issued'))
  <2>1. 1 .. Len(issued) \subseteq 1 .. Len(issued') /\ Len(issued) + 1 \in 1 .. Len(issued')
    BY <1>1, <1>2
  <2>. QED  BY <2>1 DEF Elements
<1>5. rest \in Seq(Elements(Len(issued')))
  <2>1. \A k \in 1 .. Len(rest) : rest[k] \in Elements(Len(issued'))
    BY <1>3, <1>4
  <2>. QED  BY <1>3, <1>4, SeqMonotonic
<1>6. /\ write_list' \in Seq(Elements(Len(issued')))
      /\ DOMAIN write_list' = 1 .. Len(rest) + 1
      /\ \A k \in 1 .. Len(rest) : write_list'[k] = rest[k]
      /\ write_list'[Len(rest) + 1] = e
  <2> HIDE DEF e
  <2>1. write_list' = Append(rest, e)
    BY DEF e
  <2>. QED  BY <1>3, <1>4, <1>5, <2>1, AppendProperties, LenProperties
<1> HIDE DEF e
<1>7. /\ \A k \in DOMAIN rest : rest[k].wid \in 1 .. Len(issued) /\ rest[k].span = issued[rest[k].wid]
      /\ \A k, m \in DOMAIN rest : rest[k].wid = rest[m].wid => k = m
      /\ e.wid = Len(issued) + 1 /\ e.span = n
  <2>1. \A k \in DOMAIN rest : rest[k].wid \in 1 .. Len(issued)
    BY <1>3 DEF Elements
  <2>2. /\ \A k \in DOMAIN rest : rest[k].span = issued[rest[k].wid]
        /\ \A k, m \in DOMAIN rest : rest[k].wid = rest[m].wid => k = m
    BY DEF ListsInv
  <2>3. e.wid = Len(issued) + 1 /\ e.span = n
    BY DEF e
  <2>. QED  BY <2>1, <2>2, <2>3
<1>8. /\ \A k \in DOMAIN write_list' : write_list'[k].span = issued'[write_list'[k].wid]
      /\ \A k, m \in DOMAIN write_list' : write_list'[k].wid = write_list'[m].wid => k = m
  <2>1. \A k \in DOMAIN write_list' : k \in DOMAIN rest \/ k = Len(rest) + 1
    BY <1>3, <1>6
  <2>2. \A k \in DOMAIN rest : write_list'[k] = rest[k]
    BY <1>3, <1>6
  <2>3. \A k \in DOMAIN rest : rest[k].wid # Len(issued) + 1
    BY <1>1, <1>7
  <2>4. \A k \in DOMAIN write_list' : write_list'[k].span = issued'[write_list'[k].wid]
    BY <1>2, <1>6, <1>7, <2>1, <2>2
  <2>. QED  BY <1>6, <1>7, <2>1, <2>2, <2>3, <2>4
<1>9. WidsOf(write_list') = WidsOf(rest) \cup {Len(issued) + 1}
  <2>1. DOMAIN write_list' = DOMAIN rest \cup {Len(rest) + 1}
    BY <1>3, <1>6
  <2>2. \A k \in DOMAIN rest : write_list'[k].wid = rest[k].wid
    BY <1>3, <1>6
  <2>3. write_list'[Len(rest) + 1].wid = Len(issued) + 1
    BY <1>6, <1>7
  <2>. QED  BY <2>1, <2>2, <2>3 DEF WidsOf
<1>10. Len(read_list') <= MaxList /\ read_list' \in Seq(Spans) /\ Len(issued') <= MaxWrites
  BY <1>1, <1>2 DEF ListsType, ListsInv
<1>11. reported' \cup lost' \subseteq 1 .. Len(issued')
  <2>1. 1 .. Len(issued) \subseteq 1 .. Len(issued')
    BY <1>1, <1>2
  <2>. QED  BY <2>1 DEF ListsType
<1>12. ListsType' /\ ListsInv'
  BY <1>2, <1>6, <1>8, <1>10, <1>11 DEF ListsType, ListsInv
<1>. QED  BY <1>2, <1>9, <1>12


LEMMA ListsStep ==
  ASSUME ListsType, ListsInv, [Next]_vars
  PROVE  ListsType' /\ ListsInv'
<1>1. CASE UNCHANGED <<caller, read_list, write_list, issued, reported, lost>>
  BY <1>1 DEF ListsType, ListsInv
<1>2. /\ \A ok \in SUBSET todo : Translate(ok) =>
           UNCHANGED <<caller, read_list, write_list, issued, reported, lost>>
      /\ Access \/ UNCHANGED vars =>
           UNCHANGED <<caller, read_list, write_list, issued, reported, lost>>
      /\ \A given, answer, g : MapRange(given, answer, g) =>
           UNCHANGED <<caller, read_list, write_list, issued, reported, lost>>
  BY DEF Translate, Access, MapRange, vars, listVars, ghostVars
<1>3. ASSUME NEW done \in SUBSET translation, AccessFails(done)
      PROVE  ListsType' /\ ListsInv'
  <2>1. GiveBack("err", write_list) /\ KeepLists(read_list, write_list)
    BY <1>3 DEF AccessFails
  <2>. QED  BY <2>1, GivenBack
<1>4. CASE PartlyDone
  <2>1. GiveBack("partial", write_list) /\ KeepLists(read_list, write_list)
    BY <1>4 DEF PartlyDone
  <2>. QED  BY <2>1, GivenBack
<1>5. CASE ReadDone
  <2>1. CASE GiveBack("ok", <<>>) /\ KeepLists(<<>>, <<>>)
    BY <2>1, GivenBack
  <2>2. CASE /\ write_list # <<>> /\ read_list' = <<>>
             /\ UNCHANGED <<caller, write_list, issued, reported, lost>>
    <3>1. caller # "none"
      BY <2>2 DEF ListsInv
    <3>. QED  BY <2>2, <3>1, ListsKept
  <2>. QED  BY <1>5, <2>1, <2>2 DEF ReadDone
<1>6. CASE WriteDone
  <2>1. GiveBack("ok", <<>>) /\ KeepLists(<<>>, <<>>)
    BY <1>6 DEF WriteDone
  <2>. QED  BY <2>1, GivenBack
<1>7. ASSUME NEW who \in {"list", "helper"}, NEW n \in Spans, Read(who, <<n>>)
      PROVE  ListsType' /\ ListsInv'
  <2>1. /\ caller' = who /\ read_list' = <<n>>
        /\ UNCHANGED <<write_list, issued, reported, lost>>
    BY <1>7 DEF Read, ghostVars
  <2>2. read_list' \in Seq(Spans) /\ Len(read_list') <= MaxList
    BY <2>1, DmaAssumption
  <2>. QED  BY <2>1, <2>2 DEF ListsType, ListsInv
<1>8. ASSUME NEW n \in Spans, WriteOne(n)
      PROVE  ListsType' /\ ListsInv'
  <2>1. /\ Len(issued) < MaxWrites /\ issued' = Append(issued, n)
        /\ write_list' = Append(<<>>, [span |-> n, wid |-> Len(issued) + 1])
        /\ caller' # "none" /\ UNCHANGED <<read_list, reported, lost>>
    BY <1>8 DEF WriteOne
  <2>. QED  BY <2>1, ListsGrow
<1>9. ASSUME NEW n \in Spans, AddRead(n)
      PROVE  ListsType' /\ ListsInv'
  <2>1. /\ caller' # "none" /\ Len(read_list) < MaxList /\ read_list' = Append(read_list, n)
        /\ UNCHANGED <<write_list, issued, reported, lost>>
    BY <1>9 DEF AddRead, Idle, ghostVars
  <2>2. read_list \in Seq(Spans) /\ Len(read_list) \in Nat
    BY LenProperties DEF ListsType
  <2>3. read_list' \in Seq(Spans) /\ Len(read_list') = Len(read_list) + 1
    BY <2>1, <2>2, AppendProperties
  <2>4. Len(read_list') <= MaxList
    BY <2>1, <2>2, <2>3, DmaAssumption
  <2>. QED  BY <2>1, <2>3, <2>4 DEF ListsType, ListsInv
<1>10. ASSUME NEW n \in Spans, AddWrite(n)
       PROVE  ListsType' /\ ListsInv'
  <2>1. /\ Len(issued) < MaxWrites /\ issued' = Append(issued, n)
        /\ write_list' = Append(write_list, [span |-> n, wid |-> Len(issued) + 1])
        /\ caller' # "none" /\ UNCHANGED <<read_list, reported, lost>>
    BY <1>10 DEF AddWrite, Idle
  <2>. QED  BY <2>1, ListsGrow
<1>11. CASE \/ NewBatcher
            \/ \E drop \in BOOLEAN : Commit(drop)
  <2>1. /\ UNCHANGED <<read_list, write_list, issued, reported, lost>>
        /\ caller' = "none" => read_list = <<>> /\ write_list = <<>>
    BY <1>11 DEF NewBatcher, Commit, Idle, ghostVars
  <2>. QED  BY <2>1 DEF ListsType, ListsInv
<1>. QED  BY <1>1, <1>2, <1>3, <1>4, <1>5, <1>6, <1>7, <1>8, <1>9, <1>10, <1>11
          DEF Next, Finish


-----------------------------------------------------------------------------
(* The course of a write                                                   *)

\* The units of done that are page x[2] of write x[1]
Hits(done, x) == {u \in done : <<write_list[u[1]].wid, u[2]>> = x}

\* A page of a write is in the list at most once, so an access applies it at
\* most once.
LEMMA HitCount ==
  ASSUME ListsInv, NEW done \in SUBSET WriteUnits(write_list), NEW x
  PROVE  /\ Hits(done, x) = {} => Cardinality(Hits(done, x)) = 0
         /\ Hits(done, x) # {} => Cardinality(Hits(done, x)) = 1
<1>1. ASSUME Hits(done, x) # {}
      PROVE  Cardinality(Hits(done, x)) = 1
  <2>1. PICK u : u \in Hits(done, x)
    BY <1>1
  <2>2. ASSUME NEW v \in Hits(done, x)
        PROVE  v = u
    <3>1. /\ u \in WriteUnits(write_list) /\ v \in WriteUnits(write_list)
          /\ write_list[u[1]].wid = write_list[v[1]].wid /\ u[2] = v[2]
      BY <2>1, <2>2 DEF Hits
    <3>2. PICK k \in DOMAIN write_list : u = <<k, u[2]>>
      BY <3>1, WriteUnitsMember
    <3>3. PICK m \in DOMAIN write_list : v = <<m, v[2]>>
      BY <3>1, WriteUnitsMember
    <3>4. k = m
      BY <3>1, <3>2, <3>3 DEF ListsInv
    <3>. QED  BY <3>1, <3>2, <3>3, <3>4
  <2>3. Hits(done, x) = {u}
    BY <2>1, <2>2
  <2>. QED  BY <2>3, FS_Singleton
<1>. QED  BY <1>1, FS_EmptySet

Targets == (1 .. MaxWrites) \X (0 .. MaxSpan - 1)

LEMMA Applied ==
  ASSUME ListsInv, applied \in [Targets -> Nat],
         NEW done, Perform(done),
         phase = "write" => done \subseteq WriteUnits(write_list)
  PROVE  /\ applied' \in [Targets -> Nat]
         /\ phase # "write" => applied' = applied
         /\ phase = "write" => \A x \in Targets :
              /\ Hits(done, x) = {} => applied'[x] = applied[x]
              /\ Hits(done, x) # {} => applied'[x] = applied[x] + 1
<1>1. CASE phase # "write"
  BY <1>1 DEF Perform
<1>2. CASE phase = "write"
  <2>1. applied' = [x \in Targets |-> applied[x] + Cardinality(Hits(done, x))]
    BY <1>2 DEF Perform, Hits
  <2>2. \A x \in Targets :
          /\ Hits(done, x) = {} => Cardinality(Hits(done, x)) = 0
          /\ Hits(done, x) # {} => Cardinality(Hits(done, x)) = 1
    BY <1>2, HitCount
  <2>. QED  BY <1>2, <2>1, <2>2
<1>. QED  BY <1>1, <1>2

LEMMA WriteUnitsSome ==
  ASSUME ListsType, write_list # <<>>
  PROVE  WriteUnits(write_list) # {}
<1>1. /\ Len(write_list) \in Nat /\ DOMAIN write_list = 1 .. Len(write_list)
      /\ \A k \in DOMAIN write_list : write_list[k] \in Elements(Len(issued))
      /\ Len(write_list) # 0
  <2>1. write_list \in Seq(Elements(Len(issued)))
    BY DEF ListsType
  <2>. QED  BY <2>1, SeqIndex, EmptySeq
<1>2. 1 \in DOMAIN write_list /\ write_list[1].span \in Spans
  BY <1>1 DEF Elements
<1>3. 0 \in 0 .. write_list[1].span - 1
  <2>1. write_list[1].span \in Nat \ {0}
    BY <1>2, DmaAssumption
  <2>. QED  BY <2>1
<1>4. <<1, 0>> \in WriteUnits(write_list)
  BY <1>2, <1>3, WriteUnitsMember
<1>. QED  BY <1>4

\* The page j of write w is in the list if the write is.
LEMMA ListedUnit ==
  ASSUME ListsInv, NEW w \in WidsOf(write_list), NEW j \in 0 .. issued[w] - 1
  PROVE  Hits(WriteUnits(write_list), <<w, j>>) # {}
<1>1. PICK k \in DOMAIN write_list : w = write_list[k].wid
  BY DEF WidsOf
<1>2. j \in 0 .. write_list[k].span - 1
  BY <1>1 DEF ListsInv
<1>3. <<k, j>> \in WriteUnits(write_list)
  BY <1>2, WriteUnitsMember
<1>4. <<k, j>> \in Hits(WriteUnits(write_list), <<w, j>>)
  BY <1>1, <1>3 DEF Hits
<1>. QED  BY <1>4

\* A page of a write that is not in the list is not applied.
LEMMA UnlistedUnit ==
  ASSUME NEW w, w \notin WidsOf(write_list), NEW j, NEW done \in SUBSET WriteUnits(write_list)
  PROVE  Hits(done, <<w, j>>) = {}
<1> SUFFICES ASSUME NEW u \in Hits(done, <<w, j>>) PROVE FALSE
  OBVIOUS
<1>1. u \in WriteUnits(write_list) /\ write_list[u[1]].wid = w
  BY DEF Hits
<1>2. PICK k \in DOMAIN write_list : u = <<k, u[2]>>
  BY <1>1, WriteUnitsMember
<1>. QED  BY <1>1, <1>2 DEF WidsOf


-----------------------------------------------------------------------------
(* Types                                                                   *)

Outcomes == {"none", "ok", "partial", "err"}

ScalarType ==
  /\ caller \in {"none", "batcher", "list", "helper"} /\ dropping \in BOOLEAN
  /\ phase \in {"idle", "read", "write", "answered"}
  /\ partial \in BOOLEAN /\ calls \in 0 .. MaxCalls
  /\ outs \in [Units -> {"old", "zero", "data"}]
  /\ readResult \in Outcomes /\ result \in Outcomes

\* The units that a write works on are units of its list.
UnitsInList ==
  phase = "write" => todo \cup translation \subseteq WriteUnits(write_list)

LEMMA TypeSplit ==
  ASSUME ReadInv
  PROVE  TypeOK <=> /\ ScalarType /\ ListsType /\ UnitsInList
                    /\ applied \in [Targets -> Nat]
<1>1. phase = "read" => todo \cup translation \subseteq Units
  BY DEF ReadInv
<1>2. ScalarType => DOMAIN outs = Units
  BY DEF ScalarType
<1>3. TypeOK => ScalarType
  BY DEF TypeOK, ScalarType, Outcomes, Units
<1>. QED  BY <1>1, <1>2, <1>3
          DEF TypeOK, ScalarType, ListsType, UnitsInList, Elements, Targets, Units, Outcomes

LEMMA ScalarGiven ==
  ASSUME ScalarType, NEW r \in {"ok", "partial", "err"}, NEW writes, NEW reads, NEW kept,
         GiveBack(r, writes), KeepLists(reads, kept)
  PROVE  /\ caller' \in {"none", "batcher", "list", "helper"} /\ dropping' \in BOOLEAN
         /\ phase' \in {"idle", "read", "write", "answered"}
         /\ partial' \in BOOLEAN /\ calls' \in 0 .. MaxCalls /\ result' \in Outcomes
BY DEF ScalarType, GiveBack, KeepLists, MapData, Outcomes

LEMMA ScalarBegins ==
  ASSUME ScalarType, NEW list, BeginRead(list) \/ BeginWrite(list)
  PROVE  /\ phase' \in {"idle", "read", "write", "answered"}
         /\ partial' \in BOOLEAN /\ calls' \in 0 .. MaxCalls
         /\ outs' \in [Units -> {"old", "zero", "data"}] /\ readResult' \in Outcomes
<1>1. /\ phase' \in {"read", "write"} /\ partial' = FALSE /\ calls < MaxCalls
      /\ calls' = calls + 1 /\ outs' = [u \in DOMAIN outs |-> "old"] /\ readResult' = "none"
  BY DEF BeginRead, BeginWrite, ForgetRead
<1>2. calls' \in 0 .. MaxCalls
  BY <1>1, DmaAssumption DEF ScalarType
<1>. QED  BY <1>1, <1>2 DEF ScalarType, Outcomes

LEMMA ScalarStep ==
  ASSUME ScalarType, [Next]_vars
  PROVE  ScalarType'
<1>1. ASSUME NEW ok \in SUBSET todo, Translate(ok)
      PROVE  ScalarType'
  <2>1. /\ UNCHANGED <<caller, dropping, phase, calls, readResult, result>>
        /\ partial' = (ok # todo)
        /\ \/ outs' = [u \in Units |-> IF u \in todo \ ok THEN "zero" ELSE outs[u]]
           \/ outs' = outs
    BY <1>1 DEF Translate, listVars, ScalarType
  <2>2. outs' \in [Units -> {"old", "zero", "data"}]
    BY <2>1 DEF ScalarType
  <2>. QED  BY <2>1, <2>2 DEF ScalarType
<1>2. ASSUME NEW done, Perform(done)
      PROVE  outs' \in [Units -> {"old", "zero", "data"}]
  <2>1. outs' = [u \in Units |-> IF phase = "read" /\ u \in done THEN "data" ELSE outs[u]]
    BY <1>2 DEF Perform, ScalarType
  <2>. QED  BY <2>1 DEF ScalarType
<1>3. CASE Access
  <2>1. /\ UNCHANGED <<caller, dropping, phase, partial, calls, readResult, result>>
        /\ Perform(translation)
    BY <1>3 DEF Access, listVars
  <2>. QED  BY <1>2, <2>1 DEF ScalarType
<1>4. ASSUME NEW done \in SUBSET translation, AccessFails(done)
      PROVE  ScalarType'
  <2>1. /\ GiveBack("err", write_list) /\ KeepLists(read_list, write_list) /\ Perform(done)
        /\ readResult' = IF phase = "read" THEN "err" ELSE readResult
    BY <1>4 DEF AccessFails
  <2>. QED  BY <1>2, <2>1, ScalarGiven DEF ScalarType, Outcomes
<1>5. CASE PartlyDone
  <2>1. /\ GiveBack("partial", write_list) /\ KeepLists(read_list, write_list)
        /\ outs' = outs /\ readResult' = IF phase = "read" THEN "partial" ELSE readResult
    BY <1>5 DEF PartlyDone
  <2>. QED  BY <2>1, ScalarGiven DEF ScalarType, Outcomes
<1>6. CASE ReadDone
  <2>1. readResult' = "ok" /\ outs' = outs
    BY <1>6 DEF ReadDone
  <2>2. CASE GiveBack("ok", <<>>) /\ KeepLists(<<>>, <<>>)
    BY <2>1, <2>2, ScalarGiven DEF ScalarType, Outcomes
  <2>3. CASE /\ calls < MaxCalls /\ calls' = calls + 1 /\ phase' = "write"
             /\ UNCHANGED <<caller, dropping, partial, result>>
    <3>1. calls' \in 0 .. MaxCalls
      BY <2>3, DmaAssumption DEF ScalarType
    <3>. QED  BY <2>1, <2>3, <3>1 DEF ScalarType, Outcomes
  <2>. QED  BY <1>6, <2>2, <2>3 DEF ReadDone
<1>7. CASE WriteDone
  <2>1. /\ GiveBack("ok", <<>>) /\ KeepLists(<<>>, <<>>)
        /\ UNCHANGED <<outs, readResult>>
    BY <1>7 DEF WriteDone, readVars
  <2>. QED  BY <2>1, ScalarGiven DEF ScalarType
<1>8. ASSUME NEW n \in Spans,
             Read("list", <<n>>) \/ Read("helper", <<n>>) \/ WriteOne(n)
      PROVE  ScalarType'
  <2>1. /\ \E list : BeginRead(list) \/ BeginWrite(list)
        /\ caller' \in {"list", "helper"} /\ dropping' = dropping /\ result' = "none"
    BY <1>8 DEF Read, WriteOne
  <2>. QED  BY <2>1, ScalarBegins DEF ScalarType, Outcomes
<1>9. CASE NewBatcher \/ \E n \in Spans : AddRead(n) \/ AddWrite(n)
  <2>1. /\ UNCHANGED <<dropping, phase, partial, calls, outs, readResult>>
        /\ caller' \in {"batcher", caller} /\ result' = "none"
    BY <1>9 DEF NewBatcher, AddRead, AddWrite, callVars, readVars
  <2>. QED  BY <2>1 DEF ScalarType, Outcomes
<1>10. ASSUME NEW drop \in BOOLEAN, Commit(drop)
       PROVE  ScalarType'
  <2>1. CASE /\ BeginRead(read_list) \/ BeginWrite(write_list)
             /\ dropping' = drop /\ result' = "none" /\ caller' = caller
    BY <2>1, ScalarBegins DEF ScalarType, Outcomes
  <2>2. CASE /\ caller' \in {"none", caller} /\ result' \in {"none", "ok"} /\ ForgetRead
             /\ dropping' = dropping /\ UNCHANGED callVars
    BY <2>2 DEF ForgetRead, callVars, ScalarType, Outcomes
  <2>. QED  BY <1>10, <2>1, <2>2 DEF Commit
<1>11. ASSUME NEW given, NEW answer, NEW g, MapRange(given, answer, g)
       PROVE  ScalarType'
  BY <1>11 DEF MapRange, listVars, readVars, ScalarType
<1>12. CASE UNCHANGED vars
  BY <1>12 DEF vars, listVars, callVars, readVars, ScalarType
<1>. QED  BY <1>1, <1>3, <1>4, <1>5, <1>6, <1>7, <1>8, <1>9, <1>10, <1>11, <1>12
          DEF Next, Finish


-----------------------------------------------------------------------------
(* Every write once                                                        *)

WritesInv == UnitsInList /\ applied \in [Targets -> Nat] /\ WriteInv

\* A step outside a write that touches neither the lists nor the history
LEMMA WritesQuiet ==
  ASSUME WritesInv, phase # "write", phase' # "write",
         UNCHANGED <<issued, write_list, applied, reported, lost>>
  PROVE  WritesInv'
BY DEF WritesInv, UnitsInList, WriteInv

\* A call that starts to write the list
LEMMA WritesBegin ==
  ASSUME WritesInv, ListsType, phase # "write", phase' = "write", write_list # <<>>,
         todo' = WriteUnits(write_list), translation' = {}, partial' = FALSE,
         UNCHANGED <<issued, write_list, applied, reported, lost>>
  PROVE  WritesInv'
<1>1. todo' # {}
  BY WriteUnitsSome
<1>. QED  BY <1>1 DEF WritesInv, UnitsInList, WriteInv

\* A call that ends with an error gives up what it says of the listed writes.
LEMMA WritesErr ==
  ASSUME WritesInv, ScalarType, ListsType, ListsInv, NEW r, r # "ok",
         GiveBack(r, write_list), KeepLists(read_list, write_list),
         applied' \in [Targets -> Nat],
         \A w \in 1 .. MaxWrites : \A j \in 0 .. MaxSpan - 1 :
           w \notin WidsOf(write_list) => applied'[<<w, j>>] = applied[<<w, j>>]
  PROVE  WritesInv'
<1>1. /\ phase' = "idle" /\ issued' = issued
      /\ reported' \cup lost' = reported \cup lost \cup WidsOf(write_list)
  BY DEF GiveBack, ScalarType
<1>2. write_list' \in {<<>>, write_list}
  BY DEF KeepLists
<1>3. WidsOf(write_list') \subseteq WidsOf(write_list)
  BY <1>2 DEF WidsOf
<1>4. WidsOf(write_list) \subseteq 1 .. Len(issued)
  BY WidsOK
<1>5. /\ Len(issued) \in Nat /\ Len(issued) <= MaxWrites /\ MaxWrites \in Nat
      /\ \A w \in 1 .. Len(issued) : issued[w] \in Spans
  BY SeqIndex, DmaAssumption DEF ListsType, ListsInv
<1>6. ASSUME NEW w \in 1 .. MaxWrites, NEW j \in 0 .. MaxSpan - 1, w > Len(issued)
      PROVE  applied'[<<w, j>>] = 0
  <2>1. w \notin WidsOf(write_list)
    BY <1>4, <1>5, <1>6
  <2>. QED  BY <1>6, <2>1 DEF WritesInv, WriteInv
<1>7. ASSUME NEW w \in 1 .. Len(issued) \ (reported' \cup lost'), NEW j \in 0 .. issued[w] - 1
      PROVE  w \notin WidsOf(write_list') /\ applied'[<<w, j>>] = 1
  <2>1. w \notin WidsOf(write_list) /\ w \notin reported \cup lost
    BY <1>1
  <2>2. applied[<<w, j>>] = 1
    BY <2>1 DEF WritesInv, WriteInv
  <2>3. issued[w] \in Nat /\ issued[w] <= MaxSpan /\ MaxSpan \in Nat
    BY <1>5, MaxSpanOK
  <2>4. w \in 1 .. MaxWrites /\ j \in 0 .. MaxSpan - 1
    BY <1>5, <2>3
  <2>. QED  BY <1>3, <2>1, <2>2, <2>4
<1>. QED  BY <1>1, <1>6, <1>7 DEF WritesInv, UnitsInList, WriteInv

\* A write that the application adds: nothing of it is applied yet.
LEMMA WritesGrow ==
  ASSUME WritesInv, ListsType, ListsInv, NEW n \in Spans, Len(issued) < MaxWrites,
         NEW rest \in {<<>>, write_list}, WidsOf(rest) = WidsOf(write_list),
         issued' = Append(issued, n),
         write_list' = Append(rest, [span |-> n, wid |-> Len(issued) + 1]),
         caller' # "none", UNCHANGED <<read_list, applied, reported, lost>>,
         phase # "write", phase' # "write" \/ todo' # {},
         phase' = "write" =>
           todo' = WriteUnits(write_list') /\ translation' = {} /\ partial' = FALSE
  PROVE  WritesInv'
<1>1. /\ ListsType' /\ ListsInv'
      /\ Len(issued') = Len(issued) + 1 /\ issued'[Len(issued) + 1] = n
      /\ \A w \in 1 .. Len(issued) : issued'[w] = issued[w]
      /\ WidsOf(write_list') = WidsOf(write_list) \cup {Len(issued) + 1}
  BY ListsGrow
<1>2. Len(issued) \in Nat /\ MaxWrites \in Nat /\ n \in Nat /\ n <= MaxSpan /\ MaxSpan \in Nat
  BY LenProperties, DmaAssumption, MaxSpanOK DEF ListsType
<1>3. \A w \in 1 .. MaxWrites : \A j \in 0 .. MaxSpan - 1 :
        w > Len(issued') => applied'[<<w, j>>] = 0
  BY <1>1, <1>2 DEF WritesInv, WriteInv
<1>4. ASSUME NEW w \in 1 .. Len(issued') \ (reported' \cup lost'), NEW j \in 0 .. issued'[w] - 1
      PROVE  /\ w \notin WidsOf(write_list') => applied'[<<w, j>>] = 1
             /\ w \in WidsOf(write_list') => applied'[<<w, j>>] = 0
  <2>1. CASE w = Len(issued) + 1
    <3>1. w \in 1 .. MaxWrites /\ j \in 0 .. MaxSpan - 1 /\ w > Len(issued)
      BY <1>1, <1>2, <2>1
    <3>2. applied[<<w, j>>] = 0
      BY <3>1 DEF WritesInv, WriteInv
    <3>. QED  BY <1>1, <2>1, <3>2
  <2>2. CASE w # Len(issued) + 1
    <3>1. w \in 1 .. Len(issued) \ (reported \cup lost)
      BY <1>1, <1>2, <2>2
    <3>2. issued'[w] = issued[w]
      BY <1>1, <3>1
    <3>3. w \in WidsOf(write_list') <=> w \in WidsOf(write_list)
      BY <1>1, <2>2
    <3>. QED  BY <3>1, <3>2, <3>3 DEF WritesInv, WriteInv
  <2>. QED  BY <2>1, <2>2
<1>. QED  BY <1>3, <1>4 DEF WritesInv, UnitsInList, WriteInv


LEMMA WritesStep ==
  ASSUME ScalarType, ListsType, ListsInv, ReadInv, WritesInv, [Next]_vars
  PROVE  WritesInv'
<1>0. /\ Len(issued) \in Nat /\ Len(issued) <= MaxWrites /\ MaxWrites \in Nat
      /\ \A w \in 1 .. Len(issued) : issued[w] \in Spans
      /\ WidsOf(write_list) \subseteq 1 .. Len(issued)
  BY SeqIndex, DmaAssumption, WidsOK DEF ListsType, ListsInv
<1>a. \A w \in 1 .. Len(issued) : \A j \in 0 .. issued[w] - 1 : <<w, j>> \in Targets
  <2> SUFFICES ASSUME NEW w \in 1 .. Len(issued), NEW j \in 0 .. issued[w] - 1
               PROVE  <<w, j>> \in Targets
    OBVIOUS
  <2>1. issued[w] \in Nat /\ issued[w] <= MaxSpan /\ MaxSpan \in Nat
    BY <1>0, MaxSpanOK
  <2>2. w \in 1 .. MaxWrites /\ j \in 0 .. MaxSpan - 1
    BY <1>0, <2>1
  <2>. QED  BY <2>2 DEF Targets
<1>1. ASSUME NEW ok \in SUBSET todo, Translate(ok)
      PROVE  WritesInv'
  <2>1. /\ todo # {} /\ todo' = {} /\ translation' = ok /\ partial' = (ok # todo)
        /\ UNCHANGED <<phase, issued, write_list, applied, reported, lost>>
    BY <1>1 DEF Translate, listVars, ghostVars
  <2>2. CASE phase # "write"
    BY <2>1, <2>2, WritesQuiet
  <2>3. CASE phase = "write"
    <3>1. todo = WriteUnits(write_list)
      BY <2>1, <2>3 DEF WritesInv, WriteInv
    <3>2. UnitsInList'
      BY <1>1, <2>1, <3>1 DEF UnitsInList
    <3>3. translation' = {} => partial' = TRUE
      BY <1>1, <2>1
    <3>4. partial' = FALSE => translation' = WriteUnits(write_list)
      BY <1>1, <2>1, <3>1
    <3>. QED  BY <2>1, <2>3, <3>2, <3>3, <3>4 DEF WritesInv, WriteInv
  <2>. QED  BY <2>2, <2>3
<1>2. ASSUME NEW done \in SUBSET translation, Perform(done)
      PROVE  /\ applied' \in [Targets -> Nat]
             /\ \A w \in 1 .. MaxWrites : \A j \in 0 .. MaxSpan - 1 :
                  w \notin WidsOf(write_list) => applied'[<<w, j>>] = applied[<<w, j>>]
  <2>1. phase = "write" => done \subseteq WriteUnits(write_list)
    BY <1>2 DEF WritesInv, UnitsInList
  <2>2. /\ applied' \in [Targets -> Nat]
        /\ phase # "write" => applied' = applied
        /\ phase = "write" => \A x \in Targets : Hits(done, x) = {} => applied'[x] = applied[x]
    BY <1>2, <2>1, Applied DEF WritesInv
  <2>3. ASSUME NEW w \in 1 .. MaxWrites, NEW j \in 0 .. MaxSpan - 1, w \notin WidsOf(write_list),
               phase = "write"
        PROVE  applied'[<<w, j>>] = applied[<<w, j>>]
    <3>1. Hits(done, <<w, j>>) = {}
      BY <2>1, <2>3, UnlistedUnit
    <3>2. <<w, j>> \in Targets
      BY <2>3 DEF Targets
    <3>. QED  BY <2>2, <2>3, <3>1, <3>2
  <2>. QED  BY <2>2, <2>3
<1>3. CASE Access
  <2>1. /\ phase \in {"read", "write"} /\ todo = {} /\ translation # {} /\ translation' = {}
        /\ Perform(translation)
        /\ UNCHANGED <<phase, todo, partial, issued, write_list, reported, lost>>
    BY <1>3 DEF Access, listVars
  <2>2. /\ applied' \in [Targets -> Nat]
        /\ \A w \in 1 .. MaxWrites : \A j \in 0 .. MaxSpan - 1 :
             w \notin WidsOf(write_list) => applied'[<<w, j>>] = applied[<<w, j>>]
    BY <1>2, <2>1
  <2>3. CASE phase = "read"
    <3>1. applied' = applied
      BY <2>1, <2>3 DEF Perform
    <3>. QED  BY <2>1, <2>3, <3>1, WritesQuiet
  <2>4. CASE phase = "write"
    <3>1. \A w \in 1 .. MaxWrites : \A j \in 0 .. MaxSpan - 1 :
            w > Len(issued) => applied'[<<w, j>>] = 0
      BY <1>0, <2>2 DEF WritesInv, WriteInv
    <3>2. ASSUME NEW w \in 1 .. Len(issued) \ (reported \cup lost), NEW j \in 0 .. issued[w] - 1,
                 w \notin WidsOf(write_list)
          PROVE  applied'[<<w, j>>] = 1
      <4>1. applied[<<w, j>>] = 1
        BY <3>2 DEF WritesInv, WriteInv
      <4>2. <<w, j>> \in Targets
        BY <1>a
      <4>3. w \in 1 .. MaxWrites /\ j \in 0 .. MaxSpan - 1
        BY <4>2 DEF Targets
      <4>. QED  BY <2>2, <3>2, <4>1, <4>3
    <3>3. ASSUME NEW w \in 1 .. Len(issued) \ (reported \cup lost), NEW j \in 0 .. issued[w] - 1,
                 w \in WidsOf(write_list), partial = FALSE
          PROVE  applied'[<<w, j>>] = 1
      <4>1. translation = WriteUnits(write_list)
        BY <2>1, <2>4, <3>3 DEF WritesInv, WriteInv
      <4>2. Hits(translation, <<w, j>>) # {}
        BY <3>3, <4>1, ListedUnit
      <4>3. applied[<<w, j>>] = 0
        BY <2>1, <3>3 DEF WritesInv, WriteInv
      <4>4. <<w, j>> \in Targets
        BY <1>a
      <4>5. \A x \in Targets : Hits(translation, x) # {} => applied'[x] = applied[x] + 1
        BY <2>1, <2>4, <4>1, Applied DEF WritesInv
      <4>. QED  BY <4>2, <4>3, <4>4, <4>5
    <3>4. UnitsInList'
      BY <2>1 DEF UnitsInList
    <3>5. \A w \in 1 .. Len(issued) \ (reported \cup lost) : \A j \in 0 .. issued[w] - 1 :
            /\ w \notin WidsOf(write_list) => applied'[<<w, j>>] = 1
            /\ w \in WidsOf(write_list) /\ partial = FALSE => applied'[<<w, j>>] = 1
      BY <3>2, <3>3
    <3>6. /\ todo' = {} /\ translation' = {} /\ partial' = partial /\ phase' = "write"
          /\ issued' = issued /\ write_list' = write_list
          /\ reported' = reported /\ lost' = lost
      BY <2>1, <2>4
    <3>7. WriteInv'
      BY <3>1, <3>5, <3>6 DEF WriteInv
    <3>. QED  BY <2>2, <3>4, <3>7 DEF WritesInv
  <2>. QED  BY <2>1, <2>3, <2>4
<1>4. ASSUME NEW done \in SUBSET translation, AccessFails(done)
      PROVE  WritesInv'
  <2>1. /\ Perform(done) /\ GiveBack("err", write_list) /\ KeepLists(read_list, write_list)
    BY <1>4 DEF AccessFails
  <2>. QED  BY <1>2, <2>1, WritesErr
<1>5. CASE PartlyDone
  <2>1. /\ applied' = applied
        /\ GiveBack("partial", write_list) /\ KeepLists(read_list, write_list)
    BY <1>5 DEF PartlyDone
  <2>2. applied' \in [Targets -> Nat]
    BY <2>1 DEF WritesInv
  <2>. QED  BY <2>1, <2>2, WritesErr
<1>6. CASE ReadDone
  <2>1. /\ phase = "read" /\ translation = {} /\ partial = FALSE /\ applied' = applied
    BY <1>6 DEF ReadDone, Accessed, ScalarType
  <2>2. CASE write_list # <<>>
    <3>1. /\ phase' = "write" /\ todo' = WriteUnits(write_list)
          /\ UNCHANGED <<translation, partial, issued, write_list, reported, lost>>
      BY <1>6, <2>2 DEF ReadDone
    <3>. QED  BY <2>1, <2>2, <3>1, WritesBegin
  <2>3. CASE write_list = <<>>
    <3>1. GiveBack("ok", <<>>) /\ KeepLists(<<>>, <<>>)
      BY <1>6, <2>3 DEF ReadDone
    <3>2. phase' = "idle" /\ issued' = issued /\ write_list' = write_list
      BY <2>3, <3>1 DEF GiveBack, KeepLists
    <3>3. reported' = reported /\ lost' = lost
      BY <3>1, WidsOK DEF GiveBack
    <3>. QED  BY <2>1, <3>2, <3>3, WritesQuiet
  <2>. QED  BY <2>2, <2>3
<1>7. CASE WriteDone
  <2>1. /\ phase = "write" /\ todo = {} /\ translation = {} /\ partial = FALSE
        /\ applied' = applied /\ GiveBack("ok", <<>>) /\ KeepLists(<<>>, <<>>)
    BY <1>7 DEF WriteDone, Accessed, ScalarType
  <2>2. phase' = "idle" /\ issued' = issued /\ write_list' = <<>>
    BY <2>1 DEF GiveBack, KeepLists
  <2>3. WidsOf(write_list') = {} /\ reported' = reported /\ lost' = lost
    BY <2>1, <2>2, WidsOK DEF GiveBack
  <2>. QED  BY <2>1, <2>2, <2>3 DEF WritesInv, WriteInv, UnitsInList
<1>8. ASSUME NEW who, NEW n \in Spans, Read(who, <<n>>)
      PROVE  WritesInv'
  <2>1. /\ phase = "idle" /\ phase' = "read"
        /\ UNCHANGED <<write_list, issued, applied, reported, lost>>
    BY <1>8 DEF Read, BeginRead, Idle, ghostVars
  <2>. QED  BY <2>1, WritesQuiet
<1>9. ASSUME NEW n \in Spans, WriteOne(n)
      PROVE  WritesInv'
  <2>1. /\ Idle("none") /\ Len(issued) < MaxWrites /\ issued' = Append(issued, n)
        /\ write_list' = Append(<<>>, [span |-> n, wid |-> Len(issued) + 1])
        /\ caller' # "none" /\ UNCHANGED <<read_list, applied, reported, lost>>
        /\ phase' = "write" /\ todo' = WriteUnits(write_list') /\ translation' = {}
        /\ partial' = FALSE
    BY <1>9 DEF WriteOne, BeginWrite
  <2>2. /\ write_list = <<>> /\ phase # "write"
        /\ write_list' = Append(write_list, [span |-> n, wid |-> Len(issued) + 1])
    BY <2>1 DEF ListsInv, Idle
  <2>3. todo' # {}
    <3>1. <<1, 0>> \in WriteUnits(write_list')
      <4>1. write_list' = <<[span |-> n, wid |-> Len(issued) + 1]>>
        BY <2>1
      <4>2. 1 \in DOMAIN write_list' /\ write_list'[1].span = n
        BY <4>1
      <4>3. 0 \in 0 .. n - 1
        BY DmaAssumption
      <4>. QED  BY <4>2, <4>3, WriteUnitsMember
    <3>. QED  BY <2>1, <3>1
  <2>4. /\ Len(issued) < MaxWrites /\ issued' = Append(issued, n)
        /\ write_list' = Append(write_list, [span |-> n, wid |-> Len(issued) + 1])
        /\ caller' # "none" /\ UNCHANGED <<read_list, applied, reported, lost>>
        /\ phase # "write" /\ phase' = "write" /\ todo' # {}
        /\ todo' = WriteUnits(write_list') /\ translation' = {} /\ partial' = FALSE
    BY <2>1, <2>2, <2>3
  <2>. QED  BY <2>4, WritesGrow
<1>10. ASSUME NEW n \in Spans, AddWrite(n)
       PROVE  WritesInv'
  <2>1. /\ Len(issued) < MaxWrites /\ issued' = Append(issued, n)
        /\ write_list' = Append(write_list, [span |-> n, wid |-> Len(issued) + 1])
        /\ caller' # "none" /\ UNCHANGED <<read_list, applied, reported, lost>>
        /\ phase = "idle" /\ phase' = "idle"
    BY <1>10 DEF AddWrite, Idle, callVars
  <2>. QED  BY <2>1, WritesGrow
<1>11. ASSUME NEW drop \in BOOLEAN, Commit(drop)
       PROVE  WritesInv'
  <2>1. phase = "idle" /\ UNCHANGED <<write_list, issued, applied, reported, lost>>
    BY <1>11 DEF Commit, Idle, ghostVars
  <2>2. CASE BeginRead(read_list) \/ UNCHANGED callVars
    <3>1. phase' # "write"
      BY <2>1, <2>2 DEF BeginRead, callVars
    <3>. QED  BY <2>1, <3>1, WritesQuiet
  <2>3. CASE BeginWrite(write_list) /\ write_list # <<>>
    <3>1. /\ phase' = "write" /\ todo' = WriteUnits(write_list) /\ translation' = {}
          /\ partial' = FALSE
      BY <2>3 DEF BeginWrite
    <3>. QED  BY <2>1, <2>3, <3>1, WritesBegin
  <2>. QED  BY <1>11, <2>2, <2>3 DEF Commit
<1>12. CASE NewBatcher \/ \E n \in Spans : AddRead(n)
  <2>1. /\ phase = "idle" /\ phase' = "idle"
        /\ UNCHANGED <<write_list, issued, applied, reported, lost>>
    BY <1>12 DEF NewBatcher, AddRead, Idle, callVars, ghostVars
  <2>. QED  BY <2>1, WritesQuiet
<1>13. ASSUME NEW given, NEW answer, NEW g, MapRange(given, answer, g), Idle("none")
       PROVE  WritesInv'
  <2>1. /\ phase = "idle" /\ phase' = "answered"
        /\ UNCHANGED <<write_list, issued, applied, reported, lost>>
    BY <1>13 DEF MapRange, Idle, listVars, ghostVars
  <2>. QED  BY <2>1, WritesQuiet
<1>14. CASE UNCHANGED vars
  BY <1>14 DEF vars, listVars, callVars, ghostVars, WritesInv, UnitsInList, WriteInv
<1>. QED  BY <1>1, <1>3, <1>4, <1>5, <1>6, <1>7, <1>8, <1>9, <1>10, <1>11, <1>12, <1>13, <1>14
          DEF Next, Finish

-----------------------------------------------------------------------------
(* The range maps: sorting                                                 *)

\* In a sorted list every piece ends before the next begins.
Ascending(s) ==
  /\ s \in Seq(Pieces)
  /\ \A i, j \in 1 .. Len(s) : i < j => s[i].virt + s[i].len <= s[j].virt

\* A list of the given pieces, in order.
SortingOf(given, s) ==
  /\ Ascending(s)
  /\ \A i \in 1 .. Len(s) : s[i] \in given
  /\ \A p \in given : \E i \in 1 .. Len(s) : s[i] = p

\* How many pieces begin before p.
Before(given, p) == {q \in given : q.virt < p.virt}

LEMMA PieceFields == \A p \in Pieces : p.virt \in Nat /\ p.len \in Nat /\ p.len > 0 /\ p.phys \in Nat
BY DEF Pieces

LEMMA BeforeGrows ==
  ASSUME NEW given, ApartPieces(given)
  PROVE  /\ Cardinality(given) \in Nat
         /\ \A p \in given : Cardinality(Before(given, p)) \in 0 .. Cardinality(given) - 1
         /\ \A p, q \in given : p.virt < q.virt =>
              Cardinality(Before(given, p)) < Cardinality(Before(given, q))
         /\ \A p, q \in given : p.virt = q.virt => p = q
<1>1. IsFiniteSet(given) /\ Cardinality(given) \in Nat
  BY FS_CardinalityType DEF ApartPieces
<1>2. \A p \in given : p.virt \in Nat /\ p.len \in Nat /\ p.len > 0
  BY PieceFields DEF ApartPieces
<1>3. ASSUME NEW p \in given
      PROVE  /\ IsFiniteSet(Before(given, p))
             /\ Cardinality(Before(given, p)) \in 0 .. Cardinality(given) - 1
  <2>1. IsFiniteSet(given \ {p}) /\ Cardinality(given \ {p}) = Cardinality(given) - 1
    BY <1>1, FS_RemoveElement
  <2>2. Before(given, p) \in SUBSET (given \ {p})
    BY <1>2 DEF Before
  <2>3. /\ IsFiniteSet(Before(given, p))
        /\ Cardinality(Before(given, p)) <= Cardinality(given \ {p})
    BY <2>1, <2>2, FS_Subset
  <2>4. Cardinality(Before(given, p)) \in Nat
    BY <2>3, FS_CardinalityType
  <2>. QED  BY <1>1, <2>1, <2>3, <2>4
<1>4. ASSUME NEW p \in given, NEW q \in given, p.virt < q.virt
      PROVE  Cardinality(Before(given, p)) < Cardinality(Before(given, q))
  <2>1. Before(given, p) \in SUBSET Before(given, q)
    BY <1>2, <1>4 DEF Before
  <2>2. p \in Before(given, q) /\ p \notin Before(given, p)
    BY <1>2, <1>4 DEF Before
  <2>3. IsFiniteSet(Before(given, q))
    BY <1>3
  <2>4. /\ Cardinality(Before(given, p)) <= Cardinality(Before(given, q))
        /\ Cardinality(Before(given, q)) = Cardinality(Before(given, p)) =>
             Before(given, q) = Before(given, p)
    BY <2>1, <2>3, FS_Subset
  <2>5. Cardinality(Before(given, p)) \in Nat /\ Cardinality(Before(given, q)) \in Nat
    BY <1>3
  <2>. QED  BY <2>2, <2>4, <2>5
<1>5. ASSUME NEW p \in given, NEW q \in given, p.virt = q.virt
      PROVE  p = q
  <2>1. p = q \/ p.virt + p.len <= q.virt \/ q.virt + q.len <= p.virt
    BY DEF ApartPieces
  <2>. QED  BY <1>2, <1>5, <2>1
<1>. QED  BY <1>1, <1>3, <1>4, <1>5

\* out.sort_by: every place of the list has its piece, by counting.
LEMMA SortedOK == ASSUME NEW given, ApartPieces(given) PROVE SortingOf(given, SortedPieces(given))
<1> DEFINE n == Cardinality(given)
           Rank(p) == Cardinality(Before(given, p))
           rank == [p \in given |-> Rank(p)]
           s == SortedPieces(given)
<1>1. /\ n \in Nat
      /\ \A p \in given : Rank(p) \in 0 .. n - 1
      /\ \A p, q \in given : p.virt < q.virt => Rank(p) < Rank(q)
      /\ \A p, q \in given : p.virt = q.virt => p = q
  BY BeforeGrows
<1>2. \A p \in given : p.virt \in Nat /\ p.len \in Nat /\ p.len > 0 /\ p \in Pieces
  BY PieceFields DEF ApartPieces
<1>3. s = [i \in 1 .. n |-> CHOOSE p \in given : Rank(p) = i - 1]
  BY DEF SortedPieces, Before
<1> HIDE DEF Rank, n, s
<1>4. \A p, q \in given : Rank(p) = Rank(q) => p = q
  <2>1. \A p \in given : Rank(p) \in Int
    BY <1>1
  <2>. QED  BY <1>1, <1>2, <2>1
<1>5. \A i \in 1 .. n : \E p \in given : Rank(p) = i - 1
  <2>1. rank \in Injection(given, 0 .. n - 1)
    BY <1>1, <1>4 DEF Injection, IsInjective
  <2>2. IsFiniteSet(0 .. n - 1) /\ Cardinality(0 .. n - 1) = n
    BY <1>1, FS_Interval
  <2>3. rank \in Surjection(given, 0 .. n - 1)
    BY <2>1, <2>2, FS_Injection DEF n
  <2>4. \A x \in 0 .. n - 1 : \E p \in given : rank[p] = x
    BY <2>3 DEF Surjection
  <2>. QED  BY <1>1, <2>4
<1>6. \A i \in 1 .. n : s[i] \in given /\ Rank(s[i]) = i - 1
  BY <1>3, <1>5
<1>7. s \in Seq(Pieces) /\ Len(s) = n
  <2>1. s \in [1 .. n -> Pieces]
    BY <1>2, <1>3, <1>6
  <2>2. s \in Seq(Pieces)
    BY <1>1, <2>1, SeqDef
  <2>3. DOMAIN s = 1 .. n /\ DOMAIN s = 1 .. Len(s) /\ Len(s) \in Nat
    BY <2>1, <2>2, LenProperties
  <2>4. \A a, b \in Nat : 1 .. a = 1 .. b => a = b
    OBVIOUS
  <2>. QED  BY <1>1, <2>2, <2>3, <2>4
<1>8. ASSUME NEW i \in 1 .. n, NEW j \in 1 .. n, i < j
      PROVE  s[i].virt + s[i].len <= s[j].virt
  <2>1. s[i] \in given /\ s[j] \in given /\ Rank(s[i]) = i - 1 /\ Rank(s[j]) = j - 1
    BY <1>6
  <2>2. s[i] # s[j] /\ ~(Rank(s[j]) < Rank(s[i]))
    BY <1>8, <2>1
  <2>3. ~(s[j].virt < s[i].virt)
    BY <1>1, <2>1, <2>2
  <2>4. s[i].virt + s[i].len <= s[j].virt \/ s[j].virt + s[j].len <= s[i].virt
    BY <2>1, <2>2 DEF ApartPieces
  <2>. QED  BY <1>2, <2>1, <2>3, <2>4
<1>9. ASSUME NEW p \in given
      PROVE  \E i \in 1 .. n : s[i] = p
  <2>1. Rank(p) + 1 \in 1 .. n /\ Rank(p) \in Int
    BY <1>1
  <2>2. s[Rank(p) + 1] \in given /\ Rank(s[Rank(p) + 1]) = Rank(p)
    BY <1>6, <2>1
  <2>. QED  BY <1>4, <2>1, <2>2
<1>. QED  BY <1>6, <1>7, <1>8, <1>9 DEF SortingOf, Ascending, s

-----------------------------------------------------------------------------
(* The range maps: coalescing                                              *)

\* Every non-empty set of natural numbers has a least element.  It stands in
\* for induction: of the places where a claim fails there is a first one.
LEMMA LeastPlace == \A T \in SUBSET Nat : T # {} => \E m \in T : \A n \in T : m <= n
<1> DEFINE R == OpToRel(<, Nat)
<1>1. IsWellFoundedOn(R, Nat)
  BY NatLessThanWellFounded
<1>2. \A x, y \in Nat : <<x, y>> \in R <=> x < y
  BY DEF OpToRel
<1> HIDE DEF R
<1> SUFFICES ASSUME NEW T \in SUBSET Nat, T # {}
             PROVE  \E m \in T : \A n \in T : m <= n
  OBVIOUS
<1>3. PICK m \in T : \A y \in T : ~(<<y, m>> \in R)
  BY <1>1, WFMin
<1>4. m \in Nat /\ \A n \in T : n \in Nat /\ ~(n < m)
  BY <1>2, <1>3
<1>. QED  BY <1>3, <1>4

\* b is computed place by place: from e on with G.
Computed(S, e, G, K, b) ==
  b \in [0 .. K -> S] /\ b[0] = e /\ \A n \in 1 .. K : b[n] = G[<<b[n - 1], n>>]

\* Such a function exists, and what each place keeps, all of them have.
LEMMA RecursionExists ==
  ASSUME NEW S, NEW e \in S, NEW G \in [S \X Nat -> S], NEW K \in Nat
  PROVE  \E b : Computed(S, e, G, K, b)
<1> DEFINE P(k) == \E b : Computed(S, e, G, k, b)
           T == {k \in Nat : ~P(k)}
<1> SUFFICES T = {}
  OBVIOUS
<1>1. 0 \notin T
  <2> DEFINE b == [n \in 0 .. 0 |-> e]
  <2>1. b \in [0 .. 0 -> S] /\ b[0] = e /\ 1 .. 0 = {}
    OBVIOUS
  <2> HIDE DEF b
  <2>2. P(0)
    BY <2>1 DEF Computed
  <2>. QED  BY <2>2
<1>2. ASSUME NEW m \in Nat, m # 0, P(m - 1)
      PROVE  P(m)
  <2>1. PICK b \in [0 .. m - 1 -> S] :
          b[0] = e /\ \A n \in 1 .. m - 1 : b[n] = G[<<b[n - 1], n>>]
    BY <1>2 DEF Computed
  <2>2. m - 1 \in 0 .. m - 1 /\ b[m - 1] \in S
    BY <1>2
  <2>3. <<b[m - 1], m>> \in S \X Nat
    BY <2>2
  <2>4. G[<<b[m - 1], m>>] \in S
    BY <2>3
  <2> DEFINE c == [n \in 0 .. m |-> IF n = m THEN G[<<b[m - 1], m>>] ELSE b[n]]
  <2>5. \A n \in 0 .. m : n # m => n \in 0 .. m - 1
    OBVIOUS
  <2>6. c \in [0 .. m -> S]
    BY <2>4, <2>5
  <2>7. c[m] = G[<<b[m - 1], m>>] /\ \A n \in 0 .. m - 1 : c[n] = b[n]
    OBVIOUS
  <2> HIDE DEF c
  <2>8. c[0] = e
    BY <1>2, <2>1, <2>7
  <2>9. ASSUME NEW n \in 1 .. m
        PROVE  c[n] = G[<<c[n - 1], n>>]
    <3>1. c[n - 1] = b[n - 1]
      BY <2>7
    <3>2. CASE n = m
      BY <2>7, <3>1, <3>2
    <3>3. CASE n # m
      <4>1. n \in 1 .. m - 1 /\ n \in 0 .. m - 1
        BY <3>3
      <4>. QED  BY <2>1, <2>7, <3>1, <4>1
    <3>. QED  BY <3>2, <3>3
  <2>10. Computed(S, e, G, m, c)
    BY <2>6, <2>8, <2>9 DEF Computed
  <2>. QED  BY <2>10
<1> HIDE DEF P
<1> SUFFICES ASSUME T # {}
             PROVE  FALSE
  OBVIOUS
<1>3. T \in SUBSET Nat
  OBVIOUS
<1> HIDE DEF T
<1>4. PICK m \in T : \A n \in T : m <= n
  BY <1>3, LeastPlace
<1>5. m \in Nat /\ m # 0
  BY <1>1, <1>3, <1>4
<1>6. m - 1 \notin T /\ m - 1 \in Nat
  BY <1>4, <1>5
<1>. QED  BY <1>2, <1>5, <1>6 DEF T

\* Induction over places, for a set of them.
LEMMA EveryPlace ==
  ASSUME NEW K \in Nat, NEW A, 0 \in A, \A i \in 1 .. K : i - 1 \in A => i \in A
  PROVE  \A i \in 0 .. K : i \in A
<1> DEFINE T == (0 .. K) \ A
<1> SUFFICES ASSUME T # {}
             PROVE  FALSE
  OBVIOUS
<1>1. T \in SUBSET Nat
  OBVIOUS
<1>2. PICK m \in T : \A n \in T : m <= n
  BY <1>1, LeastPlace
<1>3. m \in 1 .. K /\ m - 1 \notin T /\ m - 1 \in 0 .. K
  BY <1>2
<1>. QED  BY <1>2, <1>3

\* A range of an answer; that its length is positive is shown below.
Ranges == [virt : Nat, len : Int, phys : Nat]

\* What coalesce does with one more piece, for neighbours that join by J.
Step(rs, p, J) ==
  IF rs # <<>> /\ <<rs[Len(rs)], p>> \in J THEN Extended(rs, p) ELSE Append(rs, p)

\* The answers c after each piece of s.
Coalesced(s, J, c) ==
  /\ c \in [0 .. Len(s) -> Seq(Ranges)] /\ c[0] = <<>>
  /\ \A i \in 1 .. Len(s) : c[i] = Step(c[i - 1], s[i], J)

LEMMA PiecesAreRanges == Pieces \subseteq Ranges /\ \A r \in Ranges : r.virt \in Nat /\ r.len \in Int /\ r.phys \in Nat
BY DEF Pieces, Ranges

LEMMA LenChanged ==
  ASSUME NEW r \in Ranges, NEW v \in Int
  PROVE  LET x == [r EXCEPT !.len = v]
         IN  x \in Ranges /\ x.virt = r.virt /\ x.phys = r.phys /\ x.len = v
BY DEF Ranges

LEMMA ExtendedOK ==
  ASSUME NEW rs \in Seq(Ranges), rs # <<>>, NEW p \in Pieces
  PROVE  LET n == Len(rs)
             e == Extended(rs, p)
         IN  /\ n \in Nat \ {0} /\ rs[n] \in Ranges
             /\ e \in Seq(Ranges) /\ Len(e) = n
             /\ \A i \in 1 .. n : i # n => e[i] = rs[i]
             /\ e[n].virt = rs[n].virt /\ e[n].phys = rs[n].phys
             /\ e[n].len = p.virt + p.len - rs[n].virt
<1> DEFINE n == Len(rs)
           r == rs[n]
           x == [r EXCEPT !.len = p.virt + p.len - r.virt]
           e == [rs EXCEPT ![n] = x]
<1>1. n \in Nat \ {0} /\ n \in 1 .. n
  BY EmptySeq
<1>2. r \in Ranges
  BY <1>1, ElementOfSeq
<1>3. p.virt \in Nat /\ p.len \in Nat
  BY PieceFields
<1>4. x \in Ranges /\ x.virt = r.virt /\ x.phys = r.phys /\ x.len = p.virt + p.len - r.virt
  <2>1. p.virt + p.len - r.virt \in Int
    BY <1>2, <1>3, PiecesAreRanges
  <2> HIDE DEF r
  <2>. QED  BY <1>2, <2>1, LenChanged
<1>5. Extended(rs, p) = e
  <2>1. DOMAIN rs = 1 .. n
    BY LenProperties
  <2>. QED  BY <1>1, <2>1 DEF Extended
<1>6. e \in Seq(Ranges) /\ Len(e) = n /\ \A j \in 1 .. n : e[j] = IF j = n THEN x ELSE rs[j]
  <2> HIDE DEF x
  <2>. QED  BY <1>1, <1>4, ExceptSeq
<1>7. e[n] = x
  BY <1>1, <1>6
<1> HIDE DEF x, e
<1>. QED  BY <1>1, <1>2, <1>4, <1>5, <1>6, <1>7

LEMMA StepTypes ==
  ASSUME NEW rs \in Seq(Ranges), NEW p \in Pieces, NEW J
  PROVE  Step(rs, p, J) \in Seq(Ranges)
<1>1. Append(rs, p) \in Seq(Ranges)
  BY PiecesAreRanges
<1>2. rs # <<>> => Extended(rs, p) \in Seq(Ranges)
  BY ExtendedOK
<1>. QED  BY <1>1, <1>2 DEF Step

LEMMA CoalescedExists ==
  ASSUME NEW s \in Seq(Pieces), NEW J
  PROVE  \E c : Coalesced(s, J, c)
<1> DEFINE S == Seq(Ranges)
           K == Len(s)
           G == [x \in S \X Nat |-> IF x[2] \in 1 .. K THEN Step(x[1], s[x[2]], J) ELSE <<>>]
<1>1. K \in Nat /\ \A i \in 1 .. K : s[i] \in Pieces
  BY ElementOfSeq, LenProperties
<1>2. <<>> \in S
  OBVIOUS
<1> HIDE DEF S, K
<1>3. \A rs \in S, i \in 1 .. K : Step(rs, s[i], J) \in S
  BY <1>1, StepTypes DEF S
<1>4. G \in [S \X Nat -> S]
  BY <1>2, <1>3
<1>5. \A rs \in S, i \in 1 .. K : G[<<rs, i>>] = Step(rs, s[i], J)
  BY <1>1
<1> HIDE DEF G
<1>6. PICK c : Computed(S, <<>>, G, K, c)
  BY <1>1, <1>2, <1>4, RecursionExists
<1>7. c \in [0 .. K -> S] /\ c[0] = <<>> /\ \A i \in 1 .. K : c[i] = G[<<c[i - 1], i>>]
  BY <1>6 DEF Computed
<1>8. \A i \in 1 .. K : c[i - 1] \in S
  BY <1>1, <1>7
<1>9. \A i \in 1 .. K : c[i] = Step(c[i - 1], s[i], J)
  BY <1>5, <1>7, <1>8
<1>. QED  BY <1>7, <1>9 DEF Coalesced, S, K

\* The relations by which the two maps join.
Contiguous == {x \in Ranges \X Ranges : ContiguousPieces(x[1], x[2])}
Near(g) == {x \in Ranges \X Ranges : WithinGap(g, x[1], x[2])}

\* The last element of a list that is not empty is one of its type.
LEMMA LastRange == \A rs \in Seq(Ranges) : rs # <<>> => rs[Len(rs)] \in Ranges
<1> SUFFICES ASSUME NEW rs \in Seq(Ranges), rs # <<>>
             PROVE  rs[Len(rs)] \in Ranges
  OBVIOUS
<1>1. Len(rs) \in Nat \ {0}
  BY EmptySeq
<1>. QED  BY <1>1, ElementOfSeq

\* The recursion of Coalesce computes what it says.
LEMMA TranslationCoalesced ==
  ASSUME NEW s \in Seq(Pieces)
  PROVE  \E c : Coalesced(s, Contiguous, c) /\ Coalesce(s, ContiguousPieces) = c[Len(s)]
<1> DEFINE K == Len(s)
           Joined(rs, p) == IF rs # <<>> /\ ContiguousPieces(rs[Len(rs)], p)
                              THEN Extended(rs, p) ELSE Append(rs, p)
           f == CHOOSE f : f = [i \in 0 .. K |-> IF i = 0 THEN <<>> ELSE Joined(f[i - 1], s[i])]
<1>1. K \in Nat /\ \A i \in 1 .. K : s[i] \in Pieces
  BY ElementOfSeq, LenProperties
<1>2. Coalesce(s, ContiguousPieces) = f[K]
  BY DEF Coalesce
<1>3. \A rs \in Seq(Ranges), p \in Pieces : Joined(rs, p) = Step(rs, p, Contiguous)
  BY LastRange, PiecesAreRanges DEF Step, Contiguous
<1> HIDE DEF K, Joined
<1>4. PICK c : Coalesced(s, Contiguous, c)
  BY CoalescedExists
<1>5. c \in [0 .. K -> Seq(Ranges)] /\ c[0] = <<>> /\ \A i \in 1 .. K : c[i] = Joined(c[i - 1], s[i])
  <2>1. /\ c \in [0 .. K -> Seq(Ranges)] /\ c[0] = <<>>
        /\ \A i \in 1 .. K : c[i] = Step(c[i - 1], s[i], Contiguous)
    BY <1>4 DEF Coalesced, K
  <2>2. \A i \in 1 .. K : c[i - 1] \in Seq(Ranges)
    BY <1>1, <2>1
  <2>. QED  BY <1>1, <1>3, <2>1, <2>2
<1>6. c = [i \in 0 .. K |-> IF i = 0 THEN <<>> ELSE Joined(c[i - 1], s[i])]
  <2>1. \A i \in 0 .. K : c[i] = IF i = 0 THEN <<>> ELSE Joined(c[i - 1], s[i])
    BY <1>1, <1>5
  <2>. QED  BY <1>5, <2>1
<1>7. f = [i \in 0 .. K |-> IF i = 0 THEN <<>> ELSE Joined(f[i - 1], s[i])]
  BY <1>6
<1> HIDE DEF f
<1>8. f[0] = <<>> /\ \A i \in 1 .. K : f[i] = Joined(f[i - 1], s[i])
  BY <1>1, <1>7
<1> DEFINE A == {i \in Nat : f[i] = c[i]}
<1>9. 0 \in A /\ \A i \in 1 .. K : i - 1 \in A => i \in A
  BY <1>1, <1>5, <1>8
<1> HIDE DEF A
<1>10. \A i \in 0 .. K : i \in A
  BY <1>1, <1>9, EveryPlace
<1>11. K \in A
  BY <1>1, <1>10
<1>. QED  BY <1>2, <1>4, <1>11 DEF A, K

LEMMA PageCoalesced ==
  ASSUME NEW given, SortedPieces(given) \in Seq(Pieces), NEW g
  PROVE  LET s == SortedPieces(given)
         IN  \E c : Coalesced(s, Near(g), c) /\ PageMap(given, g) = c[Len(s)]
<1> DEFINE s == SortedPieces(given)
           K == Len(s)
           Joined(rs, p) == IF rs # <<>> /\ WithinGap(g, rs[Len(rs)], p)
                              THEN Extended(rs, p) ELSE Append(rs, p)
           f == CHOOSE f : f = [i \in 0 .. K |-> IF i = 0 THEN <<>> ELSE Joined(f[i - 1], s[i])]
<1>1. K \in Nat /\ \A i \in 1 .. K : s[i] \in Pieces
  BY ElementOfSeq, LenProperties
<1>2. PageMap(given, g) = f[K]
  BY DEF PageMap, Coalesce
<1>s. s \in Seq(Pieces)
  OBVIOUS
<1>3. \A rs \in Seq(Ranges), p \in Pieces : Joined(rs, p) = Step(rs, p, Near(g))
  BY LastRange, PiecesAreRanges DEF Step, Near
<1> HIDE DEF K, Joined, s
<1>4. PICK c : Coalesced(s, Near(g), c)
  BY <1>s, CoalescedExists
<1>5. c \in [0 .. K -> Seq(Ranges)] /\ c[0] = <<>> /\ \A i \in 1 .. K : c[i] = Joined(c[i - 1], s[i])
  <2>1. /\ c \in [0 .. K -> Seq(Ranges)] /\ c[0] = <<>>
        /\ \A i \in 1 .. K : c[i] = Step(c[i - 1], s[i], Near(g))
    BY <1>4 DEF Coalesced, K
  <2>2. \A i \in 1 .. K : c[i - 1] \in Seq(Ranges)
    BY <1>1, <2>1
  <2>. QED  BY <1>1, <1>3, <2>1, <2>2
<1>6. c = [i \in 0 .. K |-> IF i = 0 THEN <<>> ELSE Joined(c[i - 1], s[i])]
  <2>1. \A i \in 0 .. K : c[i] = IF i = 0 THEN <<>> ELSE Joined(c[i - 1], s[i])
    BY <1>1, <1>5
  <2>. QED  BY <1>5, <2>1
<1>7. f = [i \in 0 .. K |-> IF i = 0 THEN <<>> ELSE Joined(f[i - 1], s[i])]
  BY <1>6
<1> HIDE DEF f
<1>8. f[0] = <<>> /\ \A i \in 1 .. K : f[i] = Joined(f[i - 1], s[i])
  BY <1>1, <1>7
<1> DEFINE A == {i \in Nat : f[i] = c[i]}
<1>9. 0 \in A /\ \A i \in 1 .. K : i - 1 \in A => i \in A
  BY <1>1, <1>5, <1>8
<1> HIDE DEF A
<1>10. \A i \in 0 .. K : i \in A
  BY <1>1, <1>9, EveryPlace
<1>11. K \in A
  BY <1>1, <1>10
<1>. QED  BY <1>2, <1>4, <1>11 DEF A, K, s

\* What both maps keep after k pieces of s: the ranges ascend and are not
\* empty, the last one ends where piece k does, and every piece is in one.
SoFar(s, k, rs) ==
  /\ rs \in Seq(Ranges) /\ (k = 0 => rs = <<>>)
  /\ k > 0 => rs # <<>> /\ rs[Len(rs)].virt + rs[Len(rs)].len = s[k].virt + s[k].len
  /\ \A r \in 1 .. Len(rs) : rs[r].len > 0
  /\ \A r, t \in 1 .. Len(rs) : r < t => rs[r].virt + rs[r].len <= rs[t].virt
  /\ \A i \in 1 .. k : \E r \in 1 .. Len(rs) :
       rs[r].virt <= s[i].virt /\ s[i].virt + s[i].len <= rs[r].virt + rs[r].len

\* Numbers of a list of pieces, and of a list of ranges so far.
LEMMA AscendingNumbers ==
  ASSUME NEW s, Ascending(s)
  PROVE  /\ Len(s) \in Nat
         /\ \A i \in 1 .. Len(s) : /\ s[i] \in Pieces /\ s[i].virt \in Nat /\ s[i].len \in Nat
                                   /\ s[i].len > 0 /\ s[i].phys \in Nat
<1>1. Len(s) \in Nat /\ \A i \in 1 .. Len(s) : s[i] \in Pieces
  BY ElementOfSeq, LenProperties DEF Ascending
<1>. QED  BY <1>1, PieceFields

LEMMA RangeNumbers ==
  ASSUME NEW s, NEW k, NEW rs, SoFar(s, k, rs)
  PROVE  /\ Len(rs) \in Nat /\ (rs # <<>> <=> Len(rs) > 0)
         /\ \A r \in 1 .. Len(rs) : /\ rs[r].virt \in Nat /\ rs[r].len \in Nat /\ rs[r].len > 0
                                    /\ rs[r].phys \in Nat
<1>1. rs \in Seq(Ranges)
  BY DEF SoFar
<1>2. Len(rs) \in Nat /\ \A r \in 1 .. Len(rs) : rs[r] \in Ranges
  BY <1>1, ElementOfSeq, LenProperties
<1>3. rs # <<>> <=> Len(rs) > 0
  BY <1>1, <1>2, EmptySeq
<1>4. \A r \in 1 .. Len(rs) : rs[r].virt \in Nat /\ rs[r].len \in Int /\ rs[r].phys \in Nat
  BY <1>2, PiecesAreRanges
<1>5. \A r \in 1 .. Len(rs) : rs[r].len > 0
  BY DEF SoFar
<1>. QED  BY <1>2, <1>3, <1>4, <1>5

\* The next piece lies behind all ranges so far.
LEMMA NextPiece ==
  ASSUME NEW s, Ascending(s), NEW k \in 1 .. Len(s), NEW rs, SoFar(s, k - 1, rs)
  PROVE  /\ \A r \in 1 .. Len(rs) : rs[r].virt + rs[r].len <= s[k].virt
         /\ rs # <<>> => /\ k - 1 \in 1 .. Len(s)
                         /\ rs[Len(rs)].virt + rs[Len(rs)].len = s[k - 1].virt + s[k - 1].len
<1>1. Len(s) \in Nat /\ \A i \in 1 .. Len(s) : s[i].virt \in Nat /\ s[i].len \in Nat
  BY AscendingNumbers
<1>2. /\ Len(rs) \in Nat /\ (rs # <<>> <=> Len(rs) > 0)
      /\ \A r \in 1 .. Len(rs) : rs[r].virt \in Nat /\ rs[r].len \in Nat /\ rs[r].len > 0
  BY RangeNumbers
<1>3. rs # <<>> => /\ k - 1 \in 1 .. Len(s) /\ k - 1 < k
                   /\ rs[Len(rs)].virt + rs[Len(rs)].len = s[k - 1].virt + s[k - 1].len
  BY <1>1 DEF SoFar
<1>4. rs # <<>> => s[k - 1].virt + s[k - 1].len <= s[k].virt
  BY <1>3 DEF Ascending
<1>5. ASSUME NEW r \in 1 .. Len(rs)
      PROVE  rs[r].virt + rs[r].len <= s[k].virt
  <2>1. rs # <<>> /\ Len(rs) \in 1 .. Len(rs)
    BY <1>2
  <2>2. rs[Len(rs)].virt + rs[Len(rs)].len <= s[k].virt
    BY <1>3, <1>4, <2>1
  <2>3. CASE r = Len(rs)
    BY <2>2, <2>3
  <2>4. CASE r < Len(rs)
    <3>1. rs[r].virt + rs[r].len <= rs[Len(rs)].virt
      BY <2>1, <2>4 DEF SoFar
    <3>2. rs[r].virt \in Nat /\ rs[r].len \in Nat /\ rs[Len(rs)].virt \in Nat /\ rs[Len(rs)].len \in Nat
      BY <1>2, <2>1
    <3>3. s[k].virt \in Nat
      BY <1>1
    <3>4. rs[Len(rs)].len > 0
      BY <1>2, <2>1
    <3> DEFINE a == rs[r].virt + rs[r].len
               v == rs[Len(rs)].virt
               w == rs[Len(rs)].len
               b == s[k].virt
    <3>5. a \in Nat /\ v \in Nat /\ w \in Nat /\ b \in Nat
      <4>0. \A x, y \in Nat : x + y \in Nat
        OBVIOUS
      <4>1. a \in Nat
        BY <3>2, <4>0, Zenon
      <4>. QED  BY <3>2, <3>3, <4>1
    <3>6. a <= v /\ v + w <= b
      BY <2>2, <3>1
    <3> HIDE DEF a, v, w, b
    <3>7. a <= b
      BY <3>5, <3>6
    <3>. QED  BY <3>7 DEF a, b
  <2>. QED  BY <1>2, <2>3, <2>4
<1>. QED  BY <1>3, <1>5

\* One more piece, as a range of its own.
LEMMA SoFarAppend ==
  ASSUME NEW s, Ascending(s), NEW k \in 1 .. Len(s), NEW rs, SoFar(s, k - 1, rs)
  PROVE  LET e == Append(rs, s[k])
         IN  /\ SoFar(s, k, e) /\ Len(e) = Len(rs) + 1 /\ e[Len(e)] = s[k]
             /\ \A r \in 1 .. Len(rs) : e[r] = rs[r]
<1> DEFINE e == Append(rs, s[k])
           n == Len(rs)
<1>1. /\ Len(s) \in Nat /\ s[k] \in Pieces /\ s[k] \in Ranges
      /\ \A i \in 1 .. Len(s) : s[i].virt \in Nat /\ s[i].len \in Nat /\ s[i].len > 0
  BY AscendingNumbers, PiecesAreRanges
<1>2. n \in Nat /\ \A r \in 1 .. n : rs[r].virt \in Nat /\ rs[r].len \in Nat /\ rs[r].len > 0
  BY RangeNumbers
<1>3. \A r \in 1 .. n : rs[r].virt + rs[r].len <= s[k].virt
  BY NextPiece
<1>4. rs \in Seq(Ranges)
  BY DEF SoFar
<1>5. e \in Seq(Ranges) /\ Len(e) = n + 1 /\ e[n + 1] = s[k] /\ \A r \in 1 .. n : e[r] = rs[r]
  BY <1>1, <1>4
<1>6. e # <<>> /\ k \in Nat /\ k > 0
  BY <1>1, <1>2, <1>5
<1> HIDE DEF e, n
<1>7. \A r \in 1 .. n + 1 : e[r].len > 0
  <2>1. \A r \in 1 .. n + 1 : r \in 1 .. n \/ r = n + 1
    BY <1>2
  <2>. QED  BY <1>1, <1>2, <1>5, <2>1
<1>8. \A r, t \in 1 .. n + 1 : r < t => e[r].virt + e[r].len <= e[t].virt
  <2> SUFFICES ASSUME NEW r \in 1 .. n + 1, NEW t \in 1 .. n + 1, r < t
               PROVE  e[r].virt + e[r].len <= e[t].virt
    OBVIOUS
  <2>1. r \in 1 .. n /\ (t \in 1 .. n \/ t = n + 1)
    BY <1>2
  <2>2. CASE t \in 1 .. n
    BY <1>5, <2>1, <2>2 DEF SoFar, n
  <2>3. CASE t = n + 1
    BY <1>3, <1>5, <2>1, <2>3
  <2>. QED  BY <2>1, <2>2, <2>3
<1>9. \A i \in 1 .. k : \E r \in 1 .. n + 1 :
        e[r].virt <= s[i].virt /\ s[i].virt + s[i].len <= e[r].virt + e[r].len
  <2> SUFFICES ASSUME NEW i \in 1 .. k
               PROVE  \E r \in 1 .. n + 1 :
                        e[r].virt <= s[i].virt /\ s[i].virt + s[i].len <= e[r].virt + e[r].len
    OBVIOUS
  <2>1. CASE i = k
    <3>1. n + 1 \in 1 .. n + 1 /\ e[n + 1] = s[i]
      BY <1>2, <1>5, <2>1
    <3>2. s[i].virt \in Nat /\ s[i].len \in Nat
      BY <1>1, <2>1
    <3>. QED  BY <3>1, <3>2
  <2>2. CASE i # k
    <3>1. i \in 1 .. k - 1
      BY <1>6, <2>2
    <3>2. PICK r \in 1 .. n : rs[r].virt <= s[i].virt /\ s[i].virt + s[i].len <= rs[r].virt + rs[r].len
      BY <3>1 DEF SoFar, n
    <3>3. r \in 1 .. n + 1 /\ e[r] = rs[r]
      BY <1>2, <1>5
    <3>. QED  BY <3>2, <3>3
  <2>. QED  BY <2>1, <2>2
<1>10. SoFar(s, k, e)
  BY <1>5, <1>6, <1>7, <1>8, <1>9 DEF SoFar
<1>. QED  BY <1>5, <1>10 DEF e, n

\* One more piece, joined with the last range.
LEMMA SoFarExtended ==
  ASSUME NEW s, Ascending(s), NEW k \in 1 .. Len(s), NEW rs, SoFar(s, k - 1, rs), rs # <<>>
  PROVE  LET e == Extended(rs, s[k])
             n == Len(rs)
         IN  /\ SoFar(s, k, e) /\ Len(e) = n /\ n \in 1 .. n
             /\ \A r \in 1 .. n : r # n => e[r] = rs[r]
             /\ e[n].virt = rs[n].virt /\ e[n].phys = rs[n].phys
             /\ e[n].virt + e[n].len = s[k].virt + s[k].len
<1> DEFINE e == Extended(rs, s[k])
           n == Len(rs)
<1>1. /\ Len(s) \in Nat /\ s[k] \in Pieces
      /\ \A i \in 1 .. Len(s) : s[i].virt \in Nat /\ s[i].len \in Nat /\ s[i].len > 0
  BY AscendingNumbers
<1>2. n \in Nat /\ \A r \in 1 .. n : rs[r].virt \in Nat /\ rs[r].len \in Nat /\ rs[r].len > 0
  BY RangeNumbers
<1>3. \A r \in 1 .. n : rs[r].virt + rs[r].len <= s[k].virt
  BY NextPiece
<1>4. rs \in Seq(Ranges)
  BY DEF SoFar
<1>5. /\ n \in Nat \ {0} /\ e \in Seq(Ranges) /\ Len(e) = n
      /\ \A i \in 1 .. n : i # n => e[i] = rs[i]
      /\ e[n].virt = rs[n].virt /\ e[n].phys = rs[n].phys
      /\ e[n].len = s[k].virt + s[k].len - rs[n].virt
  BY <1>1, <1>4, ExtendedOK
<1>6. e # <<>> /\ k \in Nat /\ k > 0 /\ n \in 1 .. n
  <2>1. e = <<>> => Len(e) = 0
    OBVIOUS
  <2>. QED  BY <1>1, <1>5, <2>1
<1> HIDE DEF e, n
<1>7. /\ s[k].virt \in Nat /\ s[k].len \in Nat /\ s[k].len > 0 /\ rs[n].virt \in Nat /\ rs[n].len \in Nat
      /\ rs[n].len > 0 /\ rs[n].virt + rs[n].len <= s[k].virt
  BY <1>1, <1>2, <1>3, <1>6
<1>8. /\ e[n].virt + e[n].len = s[k].virt + s[k].len /\ e[n].len > rs[n].len
      /\ e[n].len \in Nat
  <2>1. PICK a, b : a = rs[n].virt /\ b = rs[n].len
    OBVIOUS
  <2>2. PICK c, d : c = s[k].virt /\ d = s[k].len
    OBVIOUS
  <2>3. a \in Nat /\ b \in Nat /\ c \in Nat /\ d \in Nat /\ d > 0 /\ a + b <= c
    BY <1>7, <2>1, <2>2
  <2>4. e[n].virt = a /\ e[n].len = c + d - a
    BY <1>5, <2>1, <2>2
  <2>5. a + (c + d - a) = c + d /\ c + d - a > b /\ c + d - a \in Nat
    BY <2>3
  <2>. QED  BY <2>1, <2>2, <2>4, <2>5
<1>9. \A r \in 1 .. n : e[r].virt = rs[r].virt /\ e[r].len >= rs[r].len /\ e[r].len > 0
  <2> SUFFICES ASSUME NEW r \in 1 .. n
               PROVE  e[r].virt = rs[r].virt /\ e[r].len >= rs[r].len /\ e[r].len > 0
    OBVIOUS
  <2>1. CASE r = n
    BY <1>5, <1>7, <1>8, <2>1
  <2>2. CASE r # n
    BY <1>2, <1>5, <2>2
  <2>. QED  BY <2>1, <2>2
<1>10. \A r, t \in 1 .. n : r < t => e[r].virt + e[r].len <= e[t].virt
  <2> SUFFICES ASSUME NEW r \in 1 .. n, NEW t \in 1 .. n, r < t
               PROVE  e[r].virt + e[r].len <= e[t].virt
    OBVIOUS
  <2>1. r # n
    BY <1>2
  <2>2. e[r] = rs[r] /\ e[t].virt = rs[t].virt
    BY <1>5, <1>9, <2>1
  <2>3. rs[r].virt + rs[r].len <= rs[t].virt
    BY DEF SoFar, n
  <2>. QED  BY <2>2, <2>3
<1>11. \A i \in 1 .. k : \E r \in 1 .. n :
         e[r].virt <= s[i].virt /\ s[i].virt + s[i].len <= e[r].virt + e[r].len
  <2> SUFFICES ASSUME NEW i \in 1 .. k
               PROVE  \E r \in 1 .. n :
                        e[r].virt <= s[i].virt /\ s[i].virt + s[i].len <= e[r].virt + e[r].len
    OBVIOUS
  <2>1. CASE i = k
    <3>1. e[n].virt = rs[n].virt
      BY <1>5
    <3>2. e[n].virt <= s[k].virt
      BY <1>7, <3>1
    <3>3. s[k].virt + s[k].len <= e[n].virt + e[n].len
      BY <1>7, <1>8
    <3>. QED  BY <1>6, <2>1, <3>2, <3>3
  <2>2. CASE i # k
    <3>1. i \in 1 .. k - 1 /\ i \in 1 .. Len(s)
      BY <1>1, <1>6, <2>2
    <3>2. PICK r \in 1 .. n : rs[r].virt <= s[i].virt /\ s[i].virt + s[i].len <= rs[r].virt + rs[r].len
      BY <3>1 DEF SoFar, n
    <3>3. e[r].virt = rs[r].virt /\ e[r].len >= rs[r].len /\ e[r].len \in Int /\ rs[r].virt \in Nat
          /\ rs[r].len \in Nat
      <4>1. e[r] \in Ranges
        BY <1>5, ElementOfSeq
      <4>. QED  BY <1>2, <1>9, <4>1, PiecesAreRanges
    <3>4. s[i].virt \in Nat /\ s[i].len \in Nat
      BY <1>1, <3>1
    <3>5. e[r].virt <= s[i].virt
      BY <3>2, <3>3
    <3>6. s[i].virt + s[i].len <= e[r].virt + e[r].len
      <4>1. \A a, b, c, d \in Int : a <= b + c /\ c <= d => a <= b + d
        OBVIOUS
      <4>2. /\ s[i].virt + s[i].len \in Int /\ s[i].virt + s[i].len <= rs[r].virt + rs[r].len
            /\ rs[r].virt \in Int /\ rs[r].len \in Int
        BY <3>2, <3>3, <3>4
      <4>3. s[i].virt + s[i].len <= rs[r].virt + e[r].len
        BY <3>3, <4>1, <4>2
      <4>. QED  BY <3>3, <4>3
    <3>. QED  BY <3>5, <3>6
  <2>. QED  BY <2>1, <2>2
<1>12. SoFar(s, k, e)
  BY <1>5, <1>6, <1>8, <1>9, <1>10, <1>11 DEF SoFar
<1>. QED  BY <1>5, <1>6, <1>8, <1>12 DEF e, n

-----------------------------------------------------------------------------
(* The range maps: what each keeps                                         *)

Inside(p, x) == x.virt <= p /\ p < x.virt + x.len
FrameAt(p, x) == x.phys + (p - x.virt)

\* Every page of a range is one of a piece so far, at its frame; neighbours
\* are not contiguous.
TranslationSoFar(s, k, rs) ==
  /\ SoFar(s, k, rs)
  /\ \A r \in 1 .. Len(rs), p \in Int : Inside(p, rs[r]) =>
       \E i \in 1 .. k : Inside(p, s[i]) /\ FrameAt(p, rs[r]) = FrameAt(p, s[i])
  /\ \A r \in 1 .. Len(rs) - 1 : ~ContiguousPieces(rs[r], rs[r + 1])

\* Every page of a range is one of a piece so far, or lies between two of them
\* that are near; neighbours are not near.
PageSoFar(s, k, rs, g) ==
  /\ SoFar(s, k, rs)
  /\ \A r \in 1 .. Len(rs), p \in Int : Inside(p, rs[r]) =>
       \/ \E i \in 1 .. k : Inside(p, s[i])
       \/ \E i \in 2 .. k : /\ s[i - 1].virt + s[i - 1].len <= p /\ p < s[i].virt
                            /\ s[i].virt - (s[i - 1].virt + s[i - 1].len) <= g
  /\ \A r \in 1 .. Len(rs) - 1 : ~WithinGap(g, rs[r], rs[r + 1])

LEMMA TranslationStep ==
  ASSUME NEW s, Ascending(s), NEW k \in 1 .. Len(s), NEW rs, TranslationSoFar(s, k - 1, rs)
  PROVE  TranslationSoFar(s, k, Step(rs, s[k], Contiguous))
<1> DEFINE n == Len(rs)
<1>1. SoFar(s, k - 1, rs)
  BY DEF TranslationSoFar
<1>2. /\ Len(s) \in Nat /\ k \in 1 .. k /\ s[k] \in Ranges
      /\ s[k].virt \in Nat /\ s[k].len \in Nat /\ s[k].len > 0 /\ s[k].phys \in Nat
  BY AscendingNumbers, PiecesAreRanges
<1>3. /\ n \in Nat /\ (rs # <<>> <=> n > 0)
      /\ \A r \in 1 .. n : /\ rs[r].virt \in Nat /\ rs[r].len \in Nat /\ rs[r].len > 0
                           /\ rs[r].phys \in Nat
  BY <1>1, RangeNumbers
<1>4. \A i \in 1 .. k - 1 : i \in 1 .. k
  BY <1>2
<1>5. rs # <<>> => (<<rs[n], s[k]>> \in Contiguous <=> ContiguousPieces(rs[n], s[k]))
  <2>1. rs # <<>> => rs[n] \in Ranges
    BY <1>1, LastRange DEF SoFar
  <2>. QED  BY <1>2, <2>1 DEF Contiguous
<1>6. CASE rs # <<>> /\ ContiguousPieces(rs[n], s[k])
  <2>1. PICK e : e = Extended(rs, s[k])
    OBVIOUS
  <2>2. Step(rs, s[k], Contiguous) = e
    BY <1>5, <1>6, <2>1 DEF Step
  <2>3. /\ SoFar(s, k, e) /\ Len(e) = n /\ n \in 1 .. n
        /\ \A r \in 1 .. n : r # n => e[r] = rs[r]
        /\ e[n].virt = rs[n].virt /\ e[n].phys = rs[n].phys
        /\ e[n].virt + e[n].len = s[k].virt + s[k].len
    BY <1>1, <1>6, <2>1, SoFarExtended
  <2>4. s[k].virt = rs[n].virt + rs[n].len /\ s[k].phys = rs[n].phys + rs[n].len
    BY <1>6 DEF ContiguousPieces
  <2>5. ASSUME NEW r \in 1 .. n, NEW p \in Int, Inside(p, e[r])
        PROVE  \E i \in 1 .. k : Inside(p, s[i]) /\ FrameAt(p, e[r]) = FrameAt(p, s[i])
    <3>1. CASE Inside(p, rs[r]) /\ FrameAt(p, e[r]) = FrameAt(p, rs[r])
      BY <1>4, <3>1 DEF TranslationSoFar
    <3>2. CASE r # n
      BY <2>3, <2>5, <3>1, <3>2
    <3>3. CASE r = n
      <4>1. FrameAt(p, e[r]) = FrameAt(p, rs[r])
        BY <2>3, <3>3 DEF FrameAt
      <4>2. Inside(p, rs[r]) \/ Inside(p, s[k])
        BY <1>2, <1>3, <2>3, <2>4, <2>5, <3>3 DEF Inside
      <4>3. FrameAt(p, rs[r]) = FrameAt(p, s[k])
        <5>1. \A a, b, l \in Nat, x \in Int : a + (x - b) = (a + l) + (x - (b + l))
          OBVIOUS
        <5>2. rs[n].phys \in Nat /\ rs[n].virt \in Nat /\ rs[n].len \in Nat
          BY <1>3, <2>3
        <5>3. rs[n].phys + (p - rs[n].virt) = s[k].phys + (p - s[k].virt)
          <6>1. PICK a, b, l : a = rs[n].phys /\ b = rs[n].virt /\ l = rs[n].len
            OBVIOUS
          <6>2. a + (p - b) = (a + l) + (p - (b + l))
            <7>1. a \in Nat /\ b \in Nat /\ l \in Nat
              BY <5>2, <6>1
            <7>. QED  BY <5>1, <7>1, Zenon
          <6>3. s[k].phys = a + l /\ s[k].virt = b + l
            BY <2>4, <6>1
          <6>. QED  BY <6>1, <6>2, <6>3
        <5>. QED  BY <3>3, <5>3 DEF FrameAt
      <4>. QED  BY <1>2, <3>1, <4>1, <4>2, <4>3
    <3>. QED  BY <3>2, <3>3
  <2>6. ASSUME NEW r \in 1 .. n - 1
        PROVE  ~ContiguousPieces(e[r], e[r + 1])
    <3>1. r \in 1 .. n /\ r + 1 \in 1 .. n /\ r # n
      BY <1>3
    <3>2. e[r] = rs[r] /\ e[r + 1].virt = rs[r + 1].virt /\ e[r + 1].phys = rs[r + 1].phys
      BY <2>3, <3>1
    <3>3. ~ContiguousPieces(rs[r], rs[r + 1])
      BY DEF TranslationSoFar
    <3>. QED  BY <3>2, <3>3 DEF ContiguousPieces
  <2>. QED  BY <2>2, <2>3, <2>5, <2>6 DEF TranslationSoFar
<1>7. CASE ~(rs # <<>> /\ ContiguousPieces(rs[n], s[k]))
  <2>1. PICK e : e = Append(rs, s[k])
    OBVIOUS
  <2>2. Step(rs, s[k], Contiguous) = e
    BY <1>5, <1>7, <2>1 DEF Step
  <2>3. /\ SoFar(s, k, e) /\ Len(e) = n + 1 /\ e[n + 1] = s[k]
        /\ \A r \in 1 .. n : e[r] = rs[r]
    <3>1. /\ SoFar(s, k, e) /\ Len(e) = n + 1 /\ e[Len(e)] = s[k]
          /\ \A r \in 1 .. n : e[r] = rs[r]
      BY <1>1, <2>1, SoFarAppend
    <3>. QED  BY <3>1
  <2>4. ASSUME NEW r \in 1 .. n + 1, NEW p \in Int, Inside(p, e[r])
        PROVE  \E i \in 1 .. k : Inside(p, s[i]) /\ FrameAt(p, e[r]) = FrameAt(p, s[i])
    <3>1. CASE r = n + 1
      BY <1>2, <2>3, <2>4, <3>1
    <3>2. CASE r \in 1 .. n
      BY <1>4, <2>3, <2>4, <3>2 DEF TranslationSoFar
    <3>. QED  BY <1>3, <3>1, <3>2
  <2>5. ASSUME NEW r \in 1 .. n
        PROVE  ~ContiguousPieces(e[r], e[r + 1])
    <3>1. CASE r = n
      BY <1>3, <1>7, <2>3, <3>1
    <3>2. CASE r # n
      <4>1. r \in 1 .. n - 1 /\ r + 1 \in 1 .. n
        BY <1>3, <3>2
      <4>. QED  BY <2>3, <4>1 DEF TranslationSoFar
    <3>. QED  BY <3>1, <3>2
  <2>6. Len(e) = n + 1 /\ Len(e) - 1 = n
    BY <1>3, <2>3
  <2>. QED  BY <2>2, <2>3, <2>4, <2>5, <2>6 DEF TranslationSoFar
<1>. QED  BY <1>6, <1>7

LEMMA PageStep ==
  ASSUME NEW s, Ascending(s), NEW k \in 1 .. Len(s), NEW rs, NEW g \in Nat,
         PageSoFar(s, k - 1, rs, g)
  PROVE  PageSoFar(s, k, Step(rs, s[k], Near(g)), g)
<1> DEFINE n == Len(rs)
<1>1. SoFar(s, k - 1, rs)
  BY DEF PageSoFar
<1>2. /\ Len(s) \in Nat /\ k \in 1 .. k /\ s[k] \in Ranges
      /\ s[k].virt \in Nat /\ s[k].len \in Nat /\ s[k].len > 0 /\ s[k].phys \in Nat
  BY AscendingNumbers, PiecesAreRanges
<1>3. /\ n \in Nat /\ (rs # <<>> <=> n > 0)
      /\ \A r \in 1 .. n : /\ rs[r].virt \in Nat /\ rs[r].len \in Nat /\ rs[r].len > 0
                           /\ rs[r].phys \in Nat
  BY <1>1, RangeNumbers
<1>4. (\A i \in 1 .. k - 1 : i \in 1 .. k) /\ \A i \in 2 .. k - 1 : i \in 2 .. k
  BY <1>2
<1>5. rs # <<>> => (<<rs[n], s[k]>> \in Near(g) <=> WithinGap(g, rs[n], s[k]))
  <2>1. rs # <<>> => rs[n] \in Ranges
    BY <1>1, LastRange DEF SoFar
  <2>. QED  BY <1>2, <2>1 DEF Near
<1> DEFINE Found(p) == \/ \E i \in 1 .. k : Inside(p, s[i])
                       \/ \E i \in 2 .. k : /\ s[i - 1].virt + s[i - 1].len <= p /\ p < s[i].virt
                                            /\ s[i].virt - (s[i - 1].virt + s[i - 1].len) <= g
<1>0. \A r \in 1 .. n, p \in Int : Inside(p, rs[r]) => Found(p)
  <2>1. ASSUME NEW r \in 1 .. n, NEW p \in Int, Inside(p, rs[r])
        PROVE  \/ \E i \in 1 .. k - 1 : Inside(p, s[i])
               \/ \E i \in 2 .. k - 1 : /\ s[i - 1].virt + s[i - 1].len <= p /\ p < s[i].virt
                                        /\ s[i].virt - (s[i - 1].virt + s[i - 1].len) <= g
    BY <2>1 DEF PageSoFar
  <2>. QED  BY <1>4, <2>1
<1>6. CASE rs # <<>> /\ WithinGap(g, rs[n], s[k])
  <2>1. PICK e : e = Extended(rs, s[k])
    OBVIOUS
  <2>2. Step(rs, s[k], Near(g)) = e
    BY <1>5, <1>6, <2>1 DEF Step
  <2>3. /\ SoFar(s, k, e) /\ Len(e) = n /\ n \in 1 .. n
        /\ \A r \in 1 .. n : r # n => e[r] = rs[r]
        /\ e[n].virt = rs[n].virt /\ e[n].phys = rs[n].phys
        /\ e[n].virt + e[n].len = s[k].virt + s[k].len
    BY <1>1, <1>6, <2>1, SoFarExtended
  <2>4. k \in 2 .. k /\ rs[n].virt + rs[n].len = s[k - 1].virt + s[k - 1].len
    <3>1. k - 1 \in 1 .. Len(s) /\ rs[n].virt + rs[n].len = s[k - 1].virt + s[k - 1].len
      BY <1>1, <1>6, NextPiece
    <3>. QED  BY <1>2, <3>1
  <2>5. s[k].virt - (s[k - 1].virt + s[k - 1].len) <= g
    BY <1>6, <2>4 DEF WithinGap
  <2>6. ASSUME NEW r \in 1 .. n, NEW p \in Int, Inside(p, e[r])
        PROVE  Found(p)
    <3>1. CASE r # n
      BY <1>0, <2>3, <2>6, <3>1
    <3>2. CASE r = n
      <4>1. \/ Inside(p, rs[n]) \/ Inside(p, s[k])
            \/ s[k - 1].virt + s[k - 1].len <= p /\ p < s[k].virt
        <5>1. rs[n].virt <= p /\ p < s[k].virt + s[k].len
          BY <2>3, <2>6, <3>2 DEF Inside
        <5>2. rs[n].virt + rs[n].len = s[k - 1].virt + s[k - 1].len
          BY <2>4
        <5>3. rs[n].virt + rs[n].len \in Int /\ s[k].virt \in Int /\ s[k].virt + s[k].len \in Int
          <6>1. rs[n].virt \in Nat /\ rs[n].len \in Nat
            BY <1>3, <2>3
          <6>2. s[k].virt \in Nat /\ s[k].len \in Nat
            BY <1>2
          <6>3. \A a, b \in Nat : a \in Int /\ a + b \in Int
            OBVIOUS
          <6>. QED  BY <6>1, <6>2, <6>3
        <5>4. \/ p < rs[n].virt + rs[n].len \/ s[k].virt <= p
              \/ rs[n].virt + rs[n].len <= p /\ p < s[k].virt
          BY <5>3
        <5>. QED  BY <5>1, <5>2, <5>4 DEF Inside
      <4>2. CASE Inside(p, rs[n])
        BY <1>0, <2>3, <4>2
      <4>3. CASE Inside(p, s[k])
        BY <1>2, <4>3
      <4>4. CASE s[k - 1].virt + s[k - 1].len <= p /\ p < s[k].virt
        BY <2>4, <2>5, <4>4
      <4>. QED  BY <4>1, <4>2, <4>3, <4>4
    <3>. QED  BY <3>1, <3>2
  <2>7. ASSUME NEW r \in 1 .. n - 1
        PROVE  ~WithinGap(g, e[r], e[r + 1])
    <3>1. r \in 1 .. n /\ r + 1 \in 1 .. n /\ r # n
      BY <1>3
    <3>2. e[r] = rs[r] /\ e[r + 1].virt = rs[r + 1].virt
      BY <2>3, <3>1
    <3>3. ~WithinGap(g, rs[r], rs[r + 1])
      BY DEF PageSoFar
    <3>. QED  BY <3>2, <3>3 DEF WithinGap
  <2>. QED  BY <2>2, <2>3, <2>6, <2>7 DEF PageSoFar
<1>7. CASE ~(rs # <<>> /\ WithinGap(g, rs[n], s[k]))
  <2>1. PICK e : e = Append(rs, s[k])
    OBVIOUS
  <2>2. Step(rs, s[k], Near(g)) = e
    BY <1>5, <1>7, <2>1 DEF Step
  <2>3. /\ SoFar(s, k, e) /\ Len(e) = n + 1 /\ e[n + 1] = s[k]
        /\ \A r \in 1 .. n : e[r] = rs[r]
    <3>1. /\ SoFar(s, k, e) /\ Len(e) = n + 1 /\ e[Len(e)] = s[k]
          /\ \A r \in 1 .. n : e[r] = rs[r]
      BY <1>1, <2>1, SoFarAppend
    <3>. QED  BY <3>1
  <2>4. ASSUME NEW r \in 1 .. n + 1, NEW p \in Int, Inside(p, e[r])
        PROVE  Found(p)
    <3>1. CASE r = n + 1
      BY <1>2, <2>3, <2>4, <3>1
    <3>2. CASE r \in 1 .. n
      BY <1>0, <2>3, <2>4, <3>2
    <3>. QED  BY <1>3, <3>1, <3>2
  <2>5. ASSUME NEW r \in 1 .. n
        PROVE  ~WithinGap(g, e[r], e[r + 1])
    <3>1. CASE r = n
      BY <1>3, <1>7, <2>3, <3>1
    <3>2. CASE r # n
      <4>1. r \in 1 .. n - 1 /\ r + 1 \in 1 .. n
        BY <1>3, <3>2
      <4>. QED  BY <2>3, <4>1 DEF PageSoFar
    <3>. QED  BY <3>1, <3>2
  <2>6. Len(e) = n + 1 /\ Len(e) - 1 = n
    BY <1>3, <2>3
  <2>. QED  BY <2>2, <2>3, <2>4, <2>5, <2>6 DEF PageSoFar
<1>. QED  BY <1>6, <1>7

LEMMA NothingYet == ASSUME NEW s, NEW g
                    PROVE  TranslationSoFar(s, 0, <<>>) /\ PageSoFar(s, 0, <<>>, g)
<1>1. <<>> \in Seq(Ranges) /\ Len(<<>>) = 0
  OBVIOUS
<1>2. SoFar(s, 0, <<>>)
  BY <1>1 DEF SoFar
<1>. QED  BY <1>1, <1>2 DEF TranslationSoFar, PageSoFar

\* virt_translation_map_range and virt_page_map_range, run to their ends.
LEMMA TranslationMapOK ==
  ASSUME NEW given, ApartPieces(given)
  PROVE  LET s == SortedPieces(given)
         IN  SortingOf(given, s) /\ TranslationSoFar(s, Len(s), TranslationMap(given))
<1>1. PICK s : s = SortedPieces(given)
  OBVIOUS
<1>2. SortingOf(given, s) /\ Ascending(s) /\ s \in Seq(Pieces)
  BY <1>1, SortedOK DEF SortingOf, Ascending
<1>3. PICK c : Coalesced(s, Contiguous, c) /\ Coalesce(s, ContiguousPieces) = c[Len(s)]
  BY <1>2, TranslationCoalesced
<1>4. Len(s) \in Nat
  BY <1>2, LenProperties
<1> DEFINE A == {k \in 0 .. Len(s) : TranslationSoFar(s, k, c[k])}
<1>5. 0 \in A
  BY <1>3, <1>4, NothingYet DEF Coalesced
<1>6. ASSUME NEW k \in 1 .. Len(s), k - 1 \in A
      PROVE  k \in A
  <2>1. TranslationSoFar(s, k - 1, c[k - 1])
    BY <1>6
  <2>2. c[k] = Step(c[k - 1], s[k], Contiguous)
    BY <1>3 DEF Coalesced
  <2>3. TranslationSoFar(s, k, c[k])
    BY <1>2, <2>1, <2>2, TranslationStep
  <2>. QED  BY <1>4, <2>3
<1> HIDE DEF A
<1>7. \A k \in 0 .. Len(s) : k \in A
  BY <1>4, <1>5, <1>6, EveryPlace
<1>8. TranslationSoFar(s, Len(s), c[Len(s)])
  BY <1>4, <1>7 DEF A
<1>. QED  BY <1>1, <1>2, <1>3, <1>8 DEF TranslationMap

LEMMA PageMapOK ==
  ASSUME NEW given, ApartPieces(given), NEW g \in Nat
  PROVE  LET s == SortedPieces(given)
         IN  SortingOf(given, s) /\ PageSoFar(s, Len(s), PageMap(given, g), g)
<1>1. PICK s : s = SortedPieces(given)
  OBVIOUS
<1>2. SortingOf(given, s) /\ Ascending(s) /\ s \in Seq(Pieces)
  BY <1>1, SortedOK DEF SortingOf, Ascending
<1>3. PICK c : Coalesced(s, Near(g), c) /\ PageMap(given, g) = c[Len(s)]
  BY <1>1, <1>2, PageCoalesced
<1>4. Len(s) \in Nat
  BY <1>2, LenProperties
<1> DEFINE A == {k \in 0 .. Len(s) : PageSoFar(s, k, c[k], g)}
<1>5. 0 \in A
  BY <1>3, <1>4, NothingYet DEF Coalesced
<1>6. ASSUME NEW k \in 1 .. Len(s), k - 1 \in A
      PROVE  k \in A
  <2>1. PageSoFar(s, k - 1, c[k - 1], g)
    BY <1>6
  <2>2. c[k] = Step(c[k - 1], s[k], Near(g))
    BY <1>3 DEF Coalesced
  <2>3. PageSoFar(s, k, c[k], g)
    BY <1>2, <2>1, <2>2, PageStep
  <2>. QED  BY <1>4, <2>3
<1> HIDE DEF A
<1>7. \A k \in 0 .. Len(s) : k \in A
  BY <1>4, <1>5, <1>6, EveryPlace
<1>8. PageSoFar(s, Len(s), c[Len(s)], g)
  BY <1>4, <1>7 DEF A
<1>. QED  BY <1>1, <1>2, <1>3, <1>8

-----------------------------------------------------------------------------
(* The range maps: exact                                                   *)

\* The answer of a range map is that of its operator, for what was given.
AnswerInv ==
  phase = "answered" => /\ pieces \in PieceSets
                        /\ \/ gap = -1 /\ ranges = TranslationMap(pieces)
                           \/ gap \in Nat /\ ranges = PageMap(pieces, gap)

LEMMA AnswerStep ==
  ASSUME ReadInv, AnswerInv, [Next]_vars
  PROVE  AnswerInv'
<1>1. phase \notin {"read", "write"} => todo = {} /\ translation = {}
  BY DEF ReadInv
<1>2. CASE phase' # "answered"
  BY <1>2 DEF AnswerInv
<1>3. CASE UNCHANGED vars
  BY <1>3 DEF vars, callVars, mapVars, AnswerInv
<1>4. ASSUME NEW given \in PieceSets, NEW answer, NEW g, MapRange(given, answer, g),
             \/ g = -1 /\ answer = TranslationMap(given)
             \/ g \in Gaps /\ answer = PageMap(given, g)
      PROVE  AnswerInv'
  <2>1. pieces' = given /\ ranges' = answer /\ gap' = g
    BY <1>4 DEF MapRange
  <2>2. g \in Gaps => g \in Nat
    BY DmaAssumption
  <2>. QED  BY <1>4, <2>1, <2>2 DEF AnswerInv
<1>5. ASSUME NEW ok \in SUBSET todo, Translate(ok)
      PROVE  phase' # "answered"
  BY <1>1, <1>5 DEF Translate
<1>6. Access => phase' # "answered"
  BY DEF Access
<1>7. ASSUME NEW done \in SUBSET translation, AccessFails(done)
      PROVE  phase' # "answered"
  BY <1>7 DEF AccessFails, GiveBack
<1>8. Finish => phase' # "answered"
  BY DEF Finish, PartlyDone, ReadDone, WriteDone, GiveBack
<1>9. ASSUME NEW n \in Spans, Read("list", <<n>>) \/ Read("helper", <<n>>) \/ WriteOne(n)
      PROVE  phase' # "answered"
  BY <1>9 DEF Read, WriteOne, BeginRead, BeginWrite
<1>10. NewBatcher => phase' # "answered"
  BY DEF NewBatcher, Idle, callVars
<1>11. ASSUME NEW n \in Spans, AddRead(n) \/ AddWrite(n)
       PROVE  phase' # "answered"
  BY <1>11 DEF AddRead, AddWrite, Idle, callVars
<1>12. ASSUME NEW drop \in BOOLEAN, Commit(drop)
       PROVE  phase' # "answered"
  BY <1>12 DEF Commit, Idle, BeginRead, BeginWrite, callVars
<1>. QED  BY <1>2, <1>3, <1>4, <1>5, <1>6, <1>7, <1>8, <1>9, <1>10, <1>11, <1>12 DEF Next

\* The pages of a list of ranges, and the mapped ones.
LEMMA PagesMember ==
  ASSUME NEW S, NEW list \in Seq(S)
  PROVE  \A p : p \in PagesOf(list) <=>
           \E i \in 1 .. Len(list) : p \in list[i].virt .. list[i].virt + list[i].len - 1
<1>1. DOMAIN list = 1 .. Len(list)
  BY LenProperties
<1>. QED  BY <1>1 DEF PagesOf

\* A page is in at most one piece.
LEMMA PieceOfPage ==
  ASSUME ApartPieces(pieces), NEW p \in Int, NEW q \in pieces, Inside(p, q)
  PROVE  PhysOf(p) = FrameAt(p, q)
<1>1. \A x \in pieces : x.virt \in Nat /\ x.len \in Nat /\ x.len > 0
  BY PieceFields DEF ApartPieces
<1>2. \A x \in pieces : Inside(p, x) => x = q
  <2> SUFFICES ASSUME NEW x \in pieces, Inside(p, x), x # q
               PROVE  FALSE
    OBVIOUS
  <2>1. x.virt + x.len <= q.virt \/ q.virt + q.len <= x.virt
    BY DEF ApartPieces
  <2>. QED  BY <1>1, <2>1 DEF Inside
<1> DEFINE c == CHOOSE x \in pieces : x.virt <= p /\ p < x.virt + x.len
<1>3. \E x \in pieces : x.virt <= p /\ p < x.virt + x.len
  BY DEF Inside
<1>4. c \in pieces /\ c.virt <= p /\ p < c.virt + c.len
  BY <1>3
<1>5. PhysOf(p) = c.phys + (p - c.virt)
  BY DEF PhysOf
<1> HIDE DEF c
<1>6. c = q
  BY <1>2, <1>4 DEF Inside
<1>. QED  BY <1>5, <1>6 DEF FrameAt

\* The mapped pages are those of the pieces in a sorting of them.
LEMMA MappedMember ==
  ASSUME NEW s, ApartPieces(pieces), SortingOf(pieces, s)
  PROVE  \A p : p \in MappedPages <=> p \in Int /\ \E i \in 1 .. Len(s) : Inside(p, s[i])
<1>1. \A q \in pieces : q.virt \in Nat /\ q.len \in Nat
  BY PieceFields DEF ApartPieces
<1>2. \A q \in pieces : \A p : p \in q.virt .. q.virt + q.len - 1 <=> p \in Int /\ Inside(p, q)
  BY <1>1 DEF Inside
<1>3. \A p : p \in MappedPages <=> \E q \in pieces : p \in q.virt .. q.virt + q.len - 1
  BY DEF MappedPages
<1>. QED  BY <1>2, <1>3 DEF SortingOf

\* What SoFar says of a finished map, in terms of pages.
LEMMA FinishedMap ==
  ASSUME NEW s, ApartPieces(pieces), SortingOf(pieces, s), SoFar(s, Len(s), ranges)
  PROVE  /\ MappedPages \subseteq PagesOf(ranges)
         /\ \A p : p \in PagesOf(ranges) <=> p \in Int /\ \E r \in 1 .. Len(ranges) : Inside(p, ranges[r])
         /\ \A r \in 1 .. Len(ranges) : \A p : p \in PagesOf(<<ranges[r]>>) <=> p \in Int /\ Inside(p, ranges[r])
         /\ DOMAIN ranges = 1 .. Len(ranges)
<1>1. /\ Len(ranges) \in Nat /\ (ranges # <<>> <=> Len(ranges) > 0)
      /\ \A r \in 1 .. Len(ranges) : /\ ranges[r].virt \in Nat /\ ranges[r].len \in Nat
                                     /\ ranges[r].len > 0 /\ ranges[r].phys \in Nat
  BY RangeNumbers
<1>2. ranges \in Seq(Ranges) /\ DOMAIN ranges = 1 .. Len(ranges)
  BY LenProperties DEF SoFar
<1>3. \A r \in 1 .. Len(ranges) : \A p :
        p \in ranges[r].virt .. ranges[r].virt + ranges[r].len - 1 <=> p \in Int /\ Inside(p, ranges[r])
  BY <1>1 DEF Inside
<1>4. \A p : p \in PagesOf(ranges) <=> p \in Int /\ \E r \in 1 .. Len(ranges) : Inside(p, ranges[r])
  BY <1>2, <1>3, PagesMember
<1>5. ASSUME NEW r \in 1 .. Len(ranges), NEW p
      PROVE  p \in PagesOf(<<ranges[r]>>) <=> p \in Int /\ Inside(p, ranges[r])
  <2>1. PICK x : x = ranges[r]
    OBVIOUS
  <2>2. PagesOf(<<x>>) = UNION {x.virt .. x.virt + x.len - 1 : i \in {1}}
    BY DEF PagesOf
  <2>. QED  BY <1>3, <2>1, <2>2
<1>6. ASSUME NEW p \in MappedPages
      PROVE  p \in PagesOf(ranges)
  <2>1. p \in Int /\ \E i \in 1 .. Len(s) : Inside(p, s[i])
    BY MappedMember
  <2>2. PICK i \in 1 .. Len(s) : Inside(p, s[i])
    BY <2>1
  <2>3. PICK r \in 1 .. Len(ranges) :
          ranges[r].virt <= s[i].virt /\ s[i].virt + s[i].len <= ranges[r].virt + ranges[r].len
    BY DEF SoFar
  <2>4. s[i].virt \in Nat /\ s[i].len \in Nat
    BY AscendingNumbers DEF SortingOf
  <2>5. ranges[r].virt \in Nat /\ ranges[r].len \in Nat
    BY <1>1
  <2>6. Inside(p, ranges[r])
    <3>1. s[i].virt <= p /\ p < s[i].virt + s[i].len
      BY <2>2 DEF Inside
    <3>2. ranges[r].virt <= p
      BY <2>1, <2>3, <2>4, <2>5, <3>1
    <3>3. p < ranges[r].virt + ranges[r].len
      <4>1. \A a, b, c \in Int : a < b /\ b <= c => a < c
        OBVIOUS
      <4>2. s[i].virt + s[i].len \in Int /\ ranges[r].virt + ranges[r].len \in Int
        BY <2>4, <2>5
      <4>. QED  BY <2>1, <2>3, <3>1, <4>1, <4>2
    <3>. QED  BY <3>2, <3>3 DEF Inside
  <2>. QED  BY <1>4, <2>1, <2>6
<1>. QED  BY <1>2, <1>4, <1>5, <1>6

LEMMA TranslationExact ==
  ASSUME ApartPieces(pieces), ranges = TranslationMap(pieces), gap = -1
  PROVE  TranslationRangesExact
<1>1. PICK s : s = SortedPieces(pieces)
  OBVIOUS
<1>2. SortingOf(pieces, s) /\ TranslationSoFar(s, Len(s), ranges)
  BY <1>1, TranslationMapOK
<1>3. SoFar(s, Len(s), ranges)
  BY <1>2 DEF TranslationSoFar
<1>4. /\ MappedPages \subseteq PagesOf(ranges)
      /\ \A p : p \in PagesOf(ranges) <=> p \in Int /\ \E r \in 1 .. Len(ranges) : Inside(p, ranges[r])
      /\ \A r \in 1 .. Len(ranges) : \A p : p \in PagesOf(<<ranges[r]>>) <=> p \in Int /\ Inside(p, ranges[r])
      /\ DOMAIN ranges = 1 .. Len(ranges)
  BY <1>2, <1>3, FinishedMap
<1>5. ASSUME NEW r \in 1 .. Len(ranges), NEW p \in Int, Inside(p, ranges[r])
      PROVE  p \in MappedPages /\ PhysOf(p) = FrameAt(p, ranges[r])
  <2>1. PICK i \in 1 .. Len(s) : Inside(p, s[i]) /\ FrameAt(p, ranges[r]) = FrameAt(p, s[i])
    BY <1>2, <1>5 DEF TranslationSoFar
  <2>2. s[i] \in pieces
    BY <1>2 DEF SortingOf
  <2>3. PhysOf(p) = FrameAt(p, s[i])
    BY <2>1, <2>2, PieceOfPage
  <2>. QED  BY <1>2, <2>1, <2>3, MappedMember
<1>6. PagesOf(ranges) = MappedPages
  BY <1>4, <1>5
<1>7. ASSUME NEW i \in DOMAIN ranges, NEW p \in PagesOf(<<ranges[i]>>)
      PROVE  PhysOf(p) = ranges[i].phys + (p - ranges[i].virt)
  BY <1>4, <1>5 DEF FrameAt
<1>8. ASSUME NEW i \in DOMAIN ranges, NEW j \in DOMAIN ranges, i < j
      PROVE  /\ ranges[i].virt + ranges[i].len <= ranges[j].virt
             /\ ~ContiguousPieces(ranges[i], ranges[j])
  <2>1. Len(ranges) \in Nat /\ i \in 1 .. Len(ranges) /\ j \in 1 .. Len(ranges)
    BY <1>3, <1>4, RangeNumbers
  <2>2. ranges[i].virt + ranges[i].len <= ranges[j].virt
    BY <1>3, <1>8, <2>1 DEF SoFar
  <2>3. CASE j = i + 1
    <3>1. i \in 1 .. Len(ranges) - 1
      BY <2>1, <2>3
    <3>. QED  BY <1>2, <2>2, <2>3, <3>1 DEF TranslationSoFar
  <2>4. CASE j # i + 1
    <3>1. i + 1 \in 1 .. Len(ranges) /\ i < i + 1 /\ i + 1 < j
      BY <1>8, <2>1, <2>4
    <3>2. /\ ranges[i].virt + ranges[i].len <= ranges[i + 1].virt
          /\ ranges[i + 1].virt + ranges[i + 1].len <= ranges[j].virt
      BY <1>3, <2>1, <3>1 DEF SoFar
    <3>3. /\ ranges[i + 1].len > 0 /\ ranges[i + 1].virt \in Nat /\ ranges[i + 1].len \in Nat
          /\ ranges[i].virt \in Nat /\ ranges[i].len \in Nat /\ ranges[j].virt \in Nat
      BY <1>3, <2>1, <3>1, RangeNumbers
    <3>4. ranges[j].virt # ranges[i].virt + ranges[i].len
      BY <3>2, <3>3
    <3>. QED  BY <2>2, <3>4 DEF ContiguousPieces
  <2>. QED  BY <2>3, <2>4
<1>. QED  BY <1>6, <1>7, <1>8 DEF TranslationRangesExact

LEMMA PageExact ==
  ASSUME ApartPieces(pieces), gap \in Nat, ranges = PageMap(pieces, gap)
  PROVE  PageRangesExact
<1>1. PICK s : s = SortedPieces(pieces)
  OBVIOUS
<1>2. SortingOf(pieces, s) /\ PageSoFar(s, Len(s), ranges, gap)
  BY <1>1, PageMapOK
<1>3. SoFar(s, Len(s), ranges)
  BY <1>2 DEF PageSoFar
<1>4. /\ MappedPages \subseteq PagesOf(ranges)
      /\ \A p : p \in PagesOf(ranges) <=> p \in Int /\ \E r \in 1 .. Len(ranges) : Inside(p, ranges[r])
      /\ DOMAIN ranges = 1 .. Len(ranges)
  BY <1>2, <1>3, FinishedMap
<1>5. ASSUME NEW p \in PagesOf(ranges) \ MappedPages
      PROVE  \E a, b \in MappedPages : /\ a < p /\ p < b /\ b - a - 1 <= gap
                                       /\ MappedPages \cap a + 1 .. b - 1 = {}
  <2>1. p \in Int /\ \E r \in 1 .. Len(ranges) : Inside(p, ranges[r])
    BY <1>4
  <2>2. \A i \in 1 .. Len(s) : ~Inside(p, s[i])
    BY <1>2, <2>1, MappedMember
  <2>3. PICK i \in 2 .. Len(s) : /\ s[i - 1].virt + s[i - 1].len <= p /\ p < s[i].virt
                                 /\ s[i].virt - (s[i - 1].virt + s[i - 1].len) <= gap
    BY <1>2, <2>1, <2>2 DEF PageSoFar
  <2>4. Ascending(s)
    BY <1>2 DEF SortingOf
  <2>5. /\ Len(s) \in Nat
        /\ \A m \in 1 .. Len(s) : s[m].virt \in Nat /\ s[m].len \in Nat /\ s[m].len > 0
    BY <2>4, AscendingNumbers
  <2>6. i \in 1 .. Len(s) /\ i - 1 \in 1 .. Len(s) /\ i \in Nat
    BY <2>5
  <2>7. /\ s[i - 1].virt \in Nat /\ s[i - 1].len \in Nat /\ s[i - 1].len > 0
        /\ s[i].virt \in Nat /\ s[i].len \in Nat /\ s[i].len > 0
    BY <2>5, <2>6
  <2>a. PICK a : a = s[i - 1].virt + s[i - 1].len - 1
    OBVIOUS
  <2>b. PICK b : b = s[i].virt
    OBVIOUS
  <2>c. a \in Int /\ b \in Int
    BY <2>7, <2>a, <2>b
  <2>8. Inside(a, s[i - 1]) /\ Inside(b, s[i])
    <3>1. s[i - 1].virt <= a /\ a < s[i - 1].virt + s[i - 1].len
      <4>1. \A x, y \in Nat : y > 0 => x <= x + y - 1 /\ x + y - 1 < x + y
        OBVIOUS
      <4>. QED  BY <2>7, <2>a, <4>1
    <3>2. s[i].virt <= b /\ b < s[i].virt + s[i].len
      BY <2>7, <2>b
    <3>. QED  BY <3>1, <3>2 DEF Inside
  <2>9. a \in MappedPages /\ b \in MappedPages
    BY <1>2, <2>6, <2>8, <2>c, MappedMember
  <2>d. s[i - 1].virt + s[i - 1].len = a + 1
    BY <2>7, <2>a
  <2>10. a < p /\ p < b /\ b - a - 1 <= gap
    <3>1. a + 1 <= p /\ p < b /\ b - (a + 1) <= gap
      BY <2>3, <2>b, <2>d
    <3>. QED  BY <2>1, <2>c, <3>1
  <2>11. ASSUME NEW x \in MappedPages
         PROVE  x \notin a + 1 .. b - 1
    <3>1. x \in Int /\ \E m \in 1 .. Len(s) : Inside(x, s[m])
      BY <1>2, MappedMember
    <3>2. PICK m \in 1 .. Len(s) : Inside(x, s[m])
      BY <3>1
    <3>3. s[m].virt \in Nat /\ s[m].len \in Nat /\ s[m].virt <= x /\ x < s[m].virt + s[m].len /\ m \in Nat
      BY <2>5, <3>2 DEF Inside
    <3>4. CASE m < i
      <4>1. s[m].virt + s[m].len <= a + 1
        <5>1. CASE m = i - 1
          BY <2>d, <2>c, <5>1
        <5>2. CASE m # i - 1
          <6>1. m < i - 1
            BY <2>6, <3>3, <3>4, <5>2
          <6>2. s[m].virt + s[m].len <= s[i - 1].virt
            BY <2>4, <2>6, <6>1 DEF Ascending
          <6>3. s[i - 1].virt <= a + 1
            BY <2>7, <2>d
          <6>. QED  BY <2>7, <2>c, <3>3, <6>2, <6>3
        <5>. QED  BY <5>1, <5>2
      <4>2. x < a + 1
        BY <2>c, <3>1, <3>3, <4>1
      <4>. QED  BY <2>c, <3>1, <4>2
    <3>5. CASE m >= i
      <4>1. b <= s[m].virt
        <5>1. CASE m = i
          BY <2>b, <2>c, <5>1
        <5>2. CASE m # i
          <6>1. i < m
            BY <2>6, <3>3, <3>5, <5>2
          <6>2. s[i].virt + s[i].len <= s[m].virt
            BY <2>4, <2>6, <6>1 DEF Ascending
          <6>. QED  BY <2>7, <2>b, <3>3, <6>2
        <5>. QED  BY <5>1, <5>2
      <4>2. b <= x
        BY <2>c, <3>1, <3>3, <4>1
      <4>. QED  BY <2>c, <3>1, <4>2
    <3>. QED  BY <2>6, <3>3, <3>4, <3>5
  <2>12. MappedPages \cap a + 1 .. b - 1 = {}
    BY <2>11
  <2>. QED  BY <2>9, <2>10, <2>12
<1>6. ASSUME NEW i \in DOMAIN ranges, NEW j \in DOMAIN ranges, i < j
      PROVE  ranges[j].virt - (ranges[i].virt + ranges[i].len) > gap
  <2>1. Len(ranges) \in Nat /\ i \in 1 .. Len(ranges) /\ j \in 1 .. Len(ranges)
    BY <1>3, <1>4, RangeNumbers
  <2>2. i \in 1 .. Len(ranges) - 1 /\ i + 1 \in 1 .. Len(ranges) /\ i + 1 <= j
    BY <1>6, <2>1
  <2>3. ~(ranges[i + 1].virt - (ranges[i].virt + ranges[i].len) <= gap)
    BY <1>2, <2>2 DEF PageSoFar, WithinGap
  <2>4. /\ ranges[i + 1].len > 0 /\ ranges[i + 1].virt \in Nat /\ ranges[i + 1].len \in Nat
        /\ ranges[i].virt \in Nat /\ ranges[i].len \in Nat /\ ranges[j].virt \in Nat
    BY <1>3, <2>1, <2>2, RangeNumbers
  <2>5. ranges[i + 1].virt <= ranges[j].virt
    <3>1. CASE i + 1 = j
      BY <2>4, <3>1
    <3>2. CASE i + 1 < j
      <4>1. ranges[i + 1].virt + ranges[i + 1].len <= ranges[j].virt
        BY <1>3, <2>1, <2>2, <3>2 DEF SoFar
      <4>. QED  BY <2>4, <4>1
    <3>. QED  BY <2>1, <2>2, <3>1, <3>2
  <2>. QED  BY <2>3, <2>4, <2>5
<1>. QED  BY <1>4, <1>5, <1>6 DEF PageRangesExact

LEMMA AnswerExact == AnswerInv => RangesExact
<1> SUFFICES ASSUME AnswerInv
             PROVE  RangesExact
  OBVIOUS
<1>1. CASE phase # "answered"
  BY <1>1 DEF RangesExact, TranslationRangesExact, PageRangesExact
<1>2. CASE phase = "answered"
  <2>1. ApartPieces(pieces)
    BY <1>2, DmaAssumption DEF AnswerInv
  <2>2. CASE gap = -1 /\ ranges = TranslationMap(pieces)
    <3>1. PageRangesExact
      BY <2>2 DEF PageRangesExact
    <3>. QED  BY <2>1, <2>2, <3>1, TranslationExact DEF RangesExact
  <2>3. CASE gap \in Nat /\ ranges = PageMap(pieces, gap)
    <3>1. TranslationRangesExact
      BY <2>3 DEF TranslationRangesExact
    <3>. QED  BY <2>1, <2>3, <3>1, PageExact DEF RangesExact
  <2>. QED  BY <1>2, <2>2, <2>3 DEF AnswerInv
<1>. QED  BY <1>1, <1>2

-----------------------------------------------------------------------------
(* The theorems                                                            *)

DmaInv == ScalarType /\ ListsType /\ ListsInv /\ ReadInv /\ WritesInv

LEMMA DmaInit == Init => DmaInv
<1> SUFFICES ASSUME Init PROVE DmaInv
  OBVIOUS
<1>1. ScalarType
  <2>1. outs \in [Units -> {"old", "zero", "data"}] /\ 0 \in 0 .. MaxCalls
    BY DmaAssumption DEF Init, Units
  <2>. QED  BY <2>1 DEF Init, ScalarType, Outcomes
<1>2. ListsType /\ ListsInv
  <2>1. read_list \in Seq(Spans) /\ issued \in Seq(Spans) /\ Len(issued) = 0 /\ Len(read_list) = 0
    BY DEF Init
  <2>2. write_list \in Seq(Elements(Len(issued))) /\ DOMAIN write_list = {}
    BY NoList DEF Init
  <2>. QED  BY <2>1, <2>2, DmaAssumption DEF Init, ListsType, ListsInv
<1>3. ReadInv
  BY DEF Init, ReadInv, ReadsFilled
<1>4. WritesInv
  <2>1. 1 .. Len(issued) = {} /\ applied = [x \in Targets |-> 0]
    BY DEF Init, Targets
  <2>2. \A w \in 1 .. MaxWrites : \A j \in 0 .. MaxSpan - 1 : <<w, j>> \in Targets
    BY DEF Targets
  <2>. QED  BY <2>1, <2>2 DEF Init, WritesInv, WriteInv, UnitsInList
<1>. QED  BY <1>1, <1>2, <1>3, <1>4 DEF DmaInv

LEMMA DmaNext == DmaInv /\ [Next]_vars => DmaInv'
<1> SUFFICES ASSUME DmaInv, [Next]_vars PROVE DmaInv'
  OBVIOUS
<1>1. ScalarType /\ ListsType /\ ListsInv /\ ReadInv /\ WritesInv
  BY DEF DmaInv
<1>2. TypeOK
  BY <1>1, TypeSplit DEF WritesInv
<1>3. ScalarType'
  BY <1>1, ScalarStep
<1>4. ListsType' /\ ListsInv'
  BY <1>1, ListsStep
<1>5. ReadInv'
  BY <1>1, <1>2, ReadStep
<1>6. WritesInv'
  BY <1>1, WritesStep
<1>. QED  BY <1>3, <1>4, <1>5, <1>6 DEF DmaInv

LEMMA DmaInvariant == Spec => []DmaInv
BY DmaInit, DmaNext, PTL DEF Spec

\* The lists of the batcher and of a call hold writes that were issued, the
\* units in hand have a buffer in the list in hand, and every counter is what
\* it should be, in every reachable state of VirtualDMA and its batcher.
THEOREM VirtualDmaTypes == Spec => []TypeOK
<1>1. DmaInv => TypeOK
  BY TypeSplit DEF DmaInv, WritesInv
<1>. QED  BY <1>1, DmaInvariant, PTL

\* virt_read_raw_list returns Ok only if every page of every buffer has been
\* filled from the physical memory, and a partial error only with exactly the
\* pages that did not translate zeroed, for lists of any length, for whatever
\* part of them translates and however often a batcher commits again.
THEOREM VirtualDmaReadsFilled == Spec => []ReadsFilled
<1>1. DmaInv => ReadsFilled
  BY DEF DmaInv, ReadInv
<1>. QED  BY <1>1, DmaInvariant, PTL

\* VirtualMemoryBatcher and the direct calls write every page of every write
\* once: not twice when a commit is followed by another or by the drop, and
\* not never, unless the application got an error or a failing drop gave up.
THEOREM VirtualDmaWritesOnce == Spec => []WritesOnce
<1>1. DmaInv => WritesOnce
  BY DEF DmaInv, WritesInv, WriteInv, WritesOnce
<1>. QED  BY <1>1, DmaInvariant, PTL

\* virt_translation_map_range and virt_page_map_range answer with exactly the
\* pages that are mapped, at their frames, or with those and the holes of at
\* most gap_length between them, in ascending order and in as few ranges as can
\* be: for any number of pieces of any size that the translator gives, in any
\* order, as long as it gives no page twice.
THEOREM VirtualDmaRangesExact == Spec => []RangesExact
<1>1. Init => AnswerInv
  BY DEF Init, AnswerInv
<1>2. DmaInv /\ AnswerInv /\ [Next]_vars => AnswerInv'
  BY AnswerStep DEF DmaInv
<1>. QED  BY <1>1, <1>2, DmaInvariant, AnswerExact, PTL DEF Spec
=============================================================================

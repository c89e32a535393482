------------------------- MODULE WriterPartsProofs -------------------------
(***************************************************************************)
(* Theorems about StreamingWriter, for every set of names, texts and rows  *)
(* and every number of sheets, and about WriterParts, which adds to it,    *)
(* for every set of styles, rules and images and every mixture of calls.   *)
(***************************************************************************)
EXTENDS WriterParts, DataInduction

-----------------------------------------------------------------------------
(* Types.                                                                  *)

\* What a failing stream has written of a buffer is rows and a torn one at most.
LEMMA PieceType ==
    ASSUME NEW buffer \in Seq(XmlRows), NEW piece \in Pieces(buffer)
    PROVE  piece \in Seq(XmlRows \cup {Torn})
<1>1. PICK n \in 0 .. Len(buffer) - 1 :
         \/ piece = SubSeq(buffer, 1, n)
         \/ piece = Append(SubSeq(buffer, 1, n), Torn)
  BY DEF Pieces
<1>2. SubSeq(buffer, 1, n) \in Seq(XmlRows \cup {Torn})
  OBVIOUS
<1> QED BY <1>1, <1>2

LEMMA XmlSeqs == \A rows \in Seq(XmlRows) : rows \in Seq(XmlRows \cup {Torn})
OBVIOUS

\* The row that is complete, as it goes to the stream.
LEMMA RowXmlType ==
    ASSUME TypeOK, row # Nothing
    PROVE  RowXml \in XmlRows /\ row.sheet \in Sheets /\ row.cells \in Rows
BY WriterBounds DEF TypeOK, RowXml, XmlRows

\* The index of a text is its position in the table or the one after its end.
LEMMA IndexType ==
    ASSUME values \in Seq(Texts), NEW text
    PROVE  /\ SharedStringIndex(text) \in Nat
           /\ \/ /\ SharedStringIndex(text) \in DOMAIN values
                 /\ values[SharedStringIndex(text)] = text
              \/ SharedStringIndex(text) = Len(values) + 1
<1>1. CASE \E i \in DOMAIN values : values[i] = text
  <2>1. /\ (CHOOSE i \in DOMAIN values : values[i] = text) \in DOMAIN values
        /\ values[CHOOSE i \in DOMAIN values : values[i] = text] = text
    BY <1>1
  <2>2. SharedStringIndex(text) \in DOMAIN values /\ values[SharedStringIndex(text)] = text
    BY <1>1, <2>1 DEF SharedStringIndex
  <2> QED BY <2>2
<1>2. CASE ~ \E i \in DOMAIN values : values[i] = text
  BY <1>2 DEF SharedStringIndex
<1> QED BY <1>1, <1>2

\* The next cell of the row in the making.
LEMMA CellType ==
    ASSUME TypeOK, row # Nothing, Len(row.done) < Len(row.cells)
    PROVE  /\ Len(row.done) + 1 \in DOMAIN row.cells
           /\ row.cells[Len(row.done) + 1] \in Columns \X Cells
           /\ row.done \in Seq(Written)
<1>1. row \in [sheet : Sheets, cells : Rows, done : Seq(Written)]
  BY DEF TypeOK
<1>2. row.cells \in Seq(Columns \X Cells) /\ row.done \in Seq(Written)
  BY <1>1, RowsAssumption
<1> QED BY <1>2

LEMMA WriteCellType ==
    ASSUME TypeOK, WriteCell
    PROVE  /\ row' \in [sheet : Sheets, cells : Rows, done : Seq(Written)]
           /\ values' \in Seq(Texts) /\ count' \in Nat
<1> DEFINE cell == row.cells[Len(row.done) + 1]
           index == SharedStringIndex(cell[2])
<1>1. cell \in Columns \X Cells /\ row.done \in Seq(Written)
  BY CellType DEF WriteCell
<1>2. row.sheet \in Sheets /\ row.cells \in Rows
  BY RowXmlType DEF WriteCell
<1>3. CASE SharedStrings /\ cell[2] \in Texts
  <2>1. index \in Nat
    BY IndexType DEF TypeOK
  <2>2. /\ count' = Counted(index)
        /\ values' = IF index > Len(values) THEN Append(values, cell[2]) ELSE values
        /\ row' = [sheet |-> row.sheet, cells |-> row.cells,
                   done |-> Append(row.done, <<cell[1], index>>)]
    BY <1>3 DEF WriteCell
  <2>3. <<cell[1], index>> \in Written
    BY <1>1, <2>1 DEF Written
  <2> HIDE DEF cell, index
  <2>4. Append(row.done, <<cell[1], index>>) \in Seq(Written)
    BY <1>1, <2>3
  <2>5. row' \in [sheet : Sheets, cells : Rows, done : Seq(Written)]
    BY <1>2, <2>2, <2>4
  <2>6. values' \in Seq(Texts) /\ count' \in Nat
    BY <1>3, <2>2 DEF TypeOK, Counted
  <2> QED
    BY <2>5, <2>6
<1>4. CASE ~ (SharedStrings /\ cell[2] \in Texts)
  <2>1. /\ row' = [sheet |-> row.sheet, cells |-> row.cells,
                   done |-> Append(row.done, cell)]
        /\ UNCHANGED strings
    BY <1>4 DEF WriteCell
  <2>2. cell \in Written
    BY <1>1 DEF Written
  <2> HIDE DEF cell
  <2>3. row' \in [sheet : Sheets, cells : Rows, done : Seq(Written)]
    BY <1>1, <1>2, <2>1, <2>2
  <2> QED
    BY <2>1, <2>3 DEF TypeOK, strings
<1> QED BY <1>3, <1>4

LEMMA MaxColumnType ==
    ASSUME NEW max \in Nat, NEW cells \in Rows
    PROVE  MaxColumn(max, cells) \in Nat
<1>1. cells \in Seq(Columns \X Cells)
  BY RowsAssumption
<1>2. CASE cells # <<>>
  <2>1. cells[Len(cells)] \in Columns \X Cells
    BY <1>1, <1>2
  <2> QED BY <2>1 DEF MaxColumn, Columns
<1>3. CASE cells = <<>>
  BY <1>3 DEF MaxColumn
<1> QED BY <1>2, <1>3

\* What the closing of the bodies does to their types.
LEMMA CloseBodiesType ==
    ASSUME TypeOK, CloseBodies
    PROVE  /\ body' \in [Sheets -> Seq(XmlRows \cup {Torn})]
           /\ pending' \in [Sheets -> Seq(XmlRows)]
           /\ stream' \in [Sheets -> {"good", "bad", "closed", "lost"}]
<1>1. PICK flushed \in [Sheets -> UNION {{pending[s]} \cup Pieces(pending[s]) : s \in Sheets}] :
         /\ \A s \in Sheets :
               \/ flushed[s] = pending[s]
               \/ "flush" \in Faults /\ flushed[s] \in Pieces(pending[s])
         /\ body' = [s \in Sheets |-> body[s] \o flushed[s]]
         /\ pending' = [s \in Sheets |-> <<>>]
         /\ stream' = [s \in Sheets |->
                           IF s \notin DOMAIN sheets THEN stream[s]
                           ELSE IF stream[s] \in {"good", "closed"} /\ flushed[s] = pending[s]
                                THEN "closed" ELSE "lost"]
  BY DEF CloseBodies
<1>2. ASSUME NEW s \in Sheets PROVE body[s] \o flushed[s] \in Seq(XmlRows \cup {Torn})
  <2>1. body[s] \in Seq(XmlRows \cup {Torn}) /\ pending[s] \in Seq(XmlRows)
    BY DEF TypeOK
  <2>2. flushed[s] \in Seq(XmlRows \cup {Torn})
    BY <1>1, <2>1, XmlSeqs, PieceType
  <2> QED BY <2>1, <2>2
<1>3. stream' \in [Sheets -> {"good", "bad", "closed", "lost"}]
  BY <1>1 DEF TypeOK
<1> QED BY <1>1, <1>2, <1>3

LEMMA TypeInit == Init => TypeOK
<1> SUFFICES ASSUME Init PROVE TypeOK
  OBVIOUS
<1>1. row_count \in [Sheets -> 0 .. MaxRows]
  BY WriterBounds DEF Init
<1>2. /\ <<>> \in Seq(Names) /\ <<>> \in Seq(Texts) /\ <<>> \in Seq(Rows) /\ <<>> \in Seq(Nat)
      /\ <<>> \in Seq(XmlRows) /\ <<>> \in Seq(XmlRows \cup {Torn})
  OBVIOUS
<1>3. Len(<<>>) <= MaxSheets
  BY WriterBounds
<1>4. /\ body \in [Sheets -> Seq(XmlRows \cup {Torn})]
      /\ pending \in [Sheets -> Seq(XmlRows)]
      /\ handed \in [Sheets -> Seq(Rows)]
      /\ appended \in [Sheets -> Seq(Nat)]
  BY <1>2 DEF Init
<1>5. /\ max_column \in [Sheets -> Nat]
      /\ has_formula \in [Sheets -> BOOLEAN]
      /\ stream \in [Sheets -> {"good", "bad", "closed", "lost"}]
  BY DEF Init
<1> QED BY <1>1, <1>2, <1>3, <1>4, <1>5 DEF Init, TypeOK

THEOREM TypeStep == TypeOK /\ [Next]_vars => TypeOK'
<1> SUFFICES ASSUME TypeOK, [Next]_vars PROVE TypeOK'
  OBVIOUS
<1> USE WriterBounds
<1>1. ASSUME NEW name \in Names, AddWorksheet(name) PROVE TypeOK'
  BY <1>1 DEF AddWorksheet, TypeOK, counters, streams, strings, histories
<1>2. ASSUME NEW s \in Sheets, NEW cells \in Rows, StartRow(s, cells) PROVE TypeOK'
  <2>1. row_count' \in [Sheets -> 0 .. MaxRows]
    BY <1>2 DEF StartRow, TypeOK
  <2>2. max_column' \in [Sheets -> Nat]
    BY <1>2, MaxColumnType DEF StartRow, TypeOK
  <2>3. has_formula' \in [Sheets -> BOOLEAN]
    BY <1>2 DEF StartRow, TypeOK
  <2>4. row' \in [sheet : Sheets, cells : Rows, done : Seq(Written)]
    BY <1>2 DEF StartRow
  <2>5. handed' \in [Sheets -> Seq(Rows)]
    BY <1>2 DEF StartRow, TypeOK
  <2> QED
    BY <1>2, <2>1, <2>2, <2>3, <2>4, <2>5 DEF StartRow, TypeOK, streams, strings
<1>3. CASE WriteCell
  BY <1>3, WriteCellType DEF WriteCell, TypeOK, counters, streams, histories
<1>4. CASE EndRow
  <2> DEFINE s == row.sheet
             buffer == Append(pending[s], RowXml)
  <2>1. s \in Sheets /\ RowXml \in XmlRows
    BY <1>4, RowXmlType DEF EndRow, RowDone
  <2>2. pending[s] \in Seq(XmlRows) /\ body[s] \in Seq(XmlRows \cup {Torn})
    BY <2>1 DEF TypeOK
  <2>3. buffer \in Seq(XmlRows)
    BY <2>1, <2>2
  <2>4. body[s] \o buffer \in Seq(XmlRows \cup {Torn})
    BY <2>2, <2>3, XmlSeqs
  <2>5. \/ pending' = [pending EXCEPT ![s] = buffer] /\ UNCHANGED body
        \/ /\ body' = [body EXCEPT ![s] = body[s] \o buffer]
           /\ pending' = [pending EXCEPT ![s] = <<>>]
    BY <1>4 DEF EndRow
  <2>6. appended' \in [Sheets -> Seq(Nat)]
    <3>1. appended' = [appended EXCEPT ![s] = Append(appended[s], row_count[s])]
      BY <1>4 DEF EndRow
    <3>2. Append(appended[s], row_count[s]) \in Seq(Nat)
      BY <2>1 DEF TypeOK
    <3> QED BY <2>1, <3>1, <3>2 DEF TypeOK
  <2> HIDE DEF s, buffer
  <2>7. /\ body' \in [Sheets -> Seq(XmlRows \cup {Torn})]
        /\ pending' \in [Sheets -> Seq(XmlRows)]
    <3>1. <<>> \in Seq(XmlRows)
      OBVIOUS
    <3>2. body \in [Sheets -> Seq(XmlRows \cup {Torn})] /\ pending \in [Sheets -> Seq(XmlRows)]
      BY DEF TypeOK
    <3>3. CASE pending' = [pending EXCEPT ![s] = buffer] /\ UNCHANGED body
      BY <2>3, <3>2, <3>3
    <3>4. CASE /\ body' = [body EXCEPT ![s] = body[s] \o buffer]
               /\ pending' = [pending EXCEPT ![s] = <<>>]
      BY <2>4, <3>1, <3>2, <3>4
    <3> QED BY <2>5, <3>3, <3>4
  <2> QED BY <1>4, <2>6, <2>7 DEF EndRow, TypeOK, counters, strings
<1>5. CASE EndRowFails
  <2> DEFINE s == row.sheet
             buffer == Append(pending[s], RowXml)
  <2>1. s \in Sheets /\ RowXml \in XmlRows
    BY <1>5, RowXmlType DEF EndRowFails, RowDone
  <2>2. pending[s] \in Seq(XmlRows) /\ body[s] \in Seq(XmlRows \cup {Torn})
    BY <2>1 DEF TypeOK
  <2>3. buffer \in Seq(XmlRows)
    BY <2>1, <2>2
  <2>4. /\ \E piece \in Pieces(buffer) : body' = [body EXCEPT ![s] = body[s] \o piece]
        /\ \E held \in {<<>>, pending[s], buffer} : pending' = [pending EXCEPT ![s] = held]
    BY <1>5 DEF EndRowFails
  <2> HIDE DEF s, buffer
  <2>5. body' \in [Sheets -> Seq(XmlRows \cup {Torn})]
    <3>1. PICK piece \in Pieces(buffer) : body' = [body EXCEPT ![s] = body[s] \o piece]
      BY <2>4
    <3>2. body[s] \o piece \in Seq(XmlRows \cup {Torn})
      BY <2>2, <2>3, PieceType
    <3> QED BY <3>1, <3>2 DEF TypeOK
  <2>6. pending' \in [Sheets -> Seq(XmlRows)]
    <3>1. PICK held \in {<<>>, pending[s], buffer} : pending' = [pending EXCEPT ![s] = held]
      BY <2>4
    <3>2. <<>> \in Seq(XmlRows)
      OBVIOUS
    <3>3. held \in Seq(XmlRows)
      BY <2>2, <2>3, <3>2
    <3> QED BY <3>1, <3>3 DEF TypeOK
  <2> QED BY <1>5, <2>5, <2>6 DEF EndRowFails, TypeOK, counters, strings, histories
<1>6. CASE EndRowRefused
  BY <1>6 DEF EndRowRefused, TypeOK, counters, streams, strings, histories
<1>7. CASE Close
  BY <1>7, CloseBodiesType DEF Close, TypeOK, counters, strings, histories
<1>8. CASE CloseFails
  BY <1>8, CloseBodiesType DEF CloseFails, TypeOK, counters, strings, histories
<1>9. CASE UNCHANGED vars
  BY <1>9 DEF vars, TypeOK, counters, streams, strings, histories
<1> QED
  BY <1>1, <1>2, <1>3, <1>4, <1>5, <1>6, <1>7, <1>8, <1>9 DEF Next

\* The variables keep their types; a row is never counted beyond the row limit,
\* whatever fails and however often close() is tried (append_row checks first).
THEOREM TypeCorrect == Spec => []TypeOK
BY TypeInit, TypeStep, PTL DEF Spec

-----------------------------------------------------------------------------
(***************************************************************************)
(* What the rows on their way to the package say.  The invariant relates   *)
(* the three places a row can be in, the table that only grows, and the    *)
(* counters that run ahead of the rows when a write fails.                 *)
(***************************************************************************)

\* A cell that is or can be read.
Readable(table, cell) == cell[2] \in Cells \cup DOMAIN table

\* The cells done say what the cells appended said.
SaysSame(done, cells) ==
    \A i \in DOMAIN done : Readable(values, done[i]) /\ Read(values, done[i]) = cells[i]

GoodRow(s, xml) == /\ xml.r \in DOMAIN handed[s]
                   /\ Len(xml.cells) = Len(handed[s][xml.r])
                   /\ SaysSame(xml.cells, handed[s][xml.r])

\* The row in the making is the last one counted.
RowCounted ==
    /\ \A s \in Sheets : Len(handed[s]) = row_count[s]
    /\ row # Nothing => /\ row_count[row.sheet] \in DOMAIN handed[row.sheet]
                        /\ handed[row.sheet][row_count[row.sheet]] = row.cells
                        /\ Len(row.done) <= Len(row.cells)
                        /\ SaysSame(row.done, row.cells)

\* Whole rows say what was appended under their number.
RowsGood ==
    \A s \in Sheets :
       /\ \A k \in DOMAIN body[s] : body[s][k] # Torn => GoodRow(s, body[s][k])
       /\ \A k \in DOMAIN pending[s] : GoodRow(s, pending[s][k])

\* The package was made of what the files and the table hold since.
PackageFinal ==
    closed => /\ package.rows = body
              /\ package.values = values
              /\ \A s \in Sheets : pending[s] = <<>>
              /\ row = Nothing

RowsInv == TypeOK /\ RowCounted /\ RowsGood /\ PackageFinal

\* In a step that forgets neither texts nor rows, a good row stays good.
Grows == /\ values' \in Seq(Texts)
         /\ Len(values) <= Len(values')
         /\ \A i \in DOMAIN values : values'[i] = values[i]
         /\ handed' \in [Sheets -> Seq(Rows)]
         /\ \A s \in Sheets : /\ Len(handed[s]) <= Len(handed'[s])
                              /\ \A k \in DOMAIN handed[s] : handed'[s][k] = handed[s][k]

LEMMA SaysSameStays ==
    ASSUME TypeOK, Grows, NEW done, NEW cells, SaysSame(done, cells)
    PROVE  SaysSame(done, cells)'
<1> SUFFICES ASSUME NEW i \in DOMAIN done
             PROVE  Readable(values', done[i]) /\ Read(values', done[i]) = cells[i]
  BY DEF SaysSame
<1>1. Readable(values, done[i]) /\ Read(values, done[i]) = cells[i]
  BY DEF SaysSame
<1>2. ASSUME NEW j \in DOMAIN values PROVE j \in DOMAIN values' /\ values'[j] = values[j]
  BY DEF Grows, TypeOK
<1> QED BY <1>1, <1>2 DEF Readable, Read

LEMMA GoodRowStays ==
    ASSUME TypeOK, Grows, NEW s \in Sheets, NEW xml, GoodRow(s, xml)
    PROVE  GoodRow(s, xml)'
<1>1. /\ xml.r \in DOMAIN handed'[s]
      /\ handed'[s][xml.r] = handed[s][xml.r]
  BY DEF Grows, GoodRow, TypeOK
<1>2. SaysSame(xml.cells, handed[s][xml.r])'
  <2> DEFINE cells == handed[s][xml.r]
  <2>1. SaysSame(xml.cells, cells)
    BY DEF GoodRow
  <2> HIDE DEF cells
  <2>2. ASSUME NEW i \in DOMAIN xml.cells
        PROVE  Readable(values', xml.cells[i]) /\ Read(values', xml.cells[i]) = cells[i]
    <3>1. Readable(values, xml.cells[i]) /\ Read(values, xml.cells[i]) = cells[i]
      BY <2>1 DEF SaysSame
    <3>2. ASSUME NEW j \in DOMAIN values PROVE j \in DOMAIN values' /\ values'[j] = values[j]
      BY DEF Grows, TypeOK
    <3> QED BY <3>1, <3>2 DEF Readable, Read
  <2> QED BY <1>1, <2>2 DEF SaysSame, cells
<1> QED BY <1>1, <1>2 DEF GoodRow

LEMMA RowsGoodStays ==
    ASSUME TypeOK, Grows, RowsGood, UNCHANGED <<body, pending>>
    PROVE  RowsGood'
<1> SUFFICES ASSUME NEW s \in Sheets
             PROVE  /\ \A k \in DOMAIN body[s] : body[s][k] # Torn => GoodRow(s, body[s][k])'
                    /\ \A k \in DOMAIN pending[s] : GoodRow(s, pending[s][k])'
  BY DEF RowsGood
<1>1. ASSUME NEW k \in DOMAIN body[s], body[s][k] # Torn PROVE GoodRow(s, body[s][k])'
  <2>1. PICK xml : xml = body[s][k]
    OBVIOUS
  <2>2. GoodRow(s, xml)
    BY <1>1, <2>1 DEF RowsGood
  <2>3. GoodRow(s, xml)'
    BY <2>2, GoodRowStays
  <2> QED BY <2>1, <2>3 DEF GoodRow
<1>2. ASSUME NEW k \in DOMAIN pending[s] PROVE GoodRow(s, pending[s][k])'
  <2>1. PICK xml : xml = pending[s][k]
    OBVIOUS
  <2>2. GoodRow(s, xml)
    BY <1>2, <2>1 DEF RowsGood
  <2>3. GoodRow(s, xml)'
    BY <2>2, GoodRowStays
  <2> QED BY <2>1, <2>3 DEF GoodRow
<1> QED BY <1>1, <1>2

\* Steps that leave table and counted rows alone move good rows around.
LEMMA GoodRowKept ==
    ASSUME UNCHANGED <<values, handed>>, NEW s, NEW xml, GoodRow(s, xml)
    PROVE  GoodRow(s, xml)'
BY DEF GoodRow, SaysSame, Readable, Read

\* The complete row is a good one.
LEMMA RowXmlGood ==
    ASSUME TypeOK, RowCounted, RowDone
    PROVE  GoodRow(row.sheet, RowXml)
BY DEF RowDone, RowCounted, GoodRow, RowXml

\* The rows of what a stream has written of a buffer are rows of the buffer.
LEMMA PieceRows ==
    ASSUME NEW S, NEW buffer \in Seq(S), NEW piece \in Pieces(buffer),
           NEW k \in DOMAIN piece, piece[k] # Torn
    PROVE  k \in DOMAIN buffer /\ piece[k] = buffer[k]
<1>1. PICK n \in 0 .. Len(buffer) - 1 :
         \/ piece = SubSeq(buffer, 1, n)
         \/ piece = Append(SubSeq(buffer, 1, n), Torn)
  BY DEF Pieces
<1>2. n \in Nat /\ n < Len(buffer)
  BY <1>1
<1>3. /\ SubSeq(buffer, 1, n) \in Seq(S)
      /\ Len(SubSeq(buffer, 1, n)) = n
      /\ \A j \in 1 .. n : SubSeq(buffer, 1, n)[j] = buffer[j]
  BY <1>2
<1>4. CASE piece = SubSeq(buffer, 1, n)
  BY <1>2, <1>3, <1>4
<1>5. CASE piece = Append(SubSeq(buffer, 1, n), Torn)
  <2> DEFINE prefix == SubSeq(buffer, 1, n)
  <2> HIDE DEF prefix
  <2>1. prefix \in Seq(S) /\ Len(prefix) = n /\ \A j \in 1 .. n : prefix[j] = buffer[j]
    BY <1>3 DEF prefix
  <2>2. piece = Append(prefix, Torn)
    BY <1>5 DEF prefix
  <2>3. prefix \in Seq(S \cup {Torn})
    BY <2>1
  <2>4. k \in 1 .. n + 1 /\ piece[n + 1] = Torn /\ \A j \in 1 .. n : piece[j] = prefix[j]
    BY <1>2, <2>1, <2>2, <2>3
  <2>5. k \in 1 .. n
    BY <1>2, <2>4
  <2> QED BY <1>2, <2>1, <2>4, <2>5
<1> QED BY <1>1, <1>4, <1>5

LEMMA ConcatRows ==
    ASSUME NEW S, NEW s1 \in Seq(S), NEW s2 \in Seq(S), NEW k \in DOMAIN (s1 \o s2)
    PROVE  \/ k \in DOMAIN s1 /\ (s1 \o s2)[k] = s1[k]
           \/ k - Len(s1) \in DOMAIN s2 /\ (s1 \o s2)[k] = s2[k - Len(s1)]
OBVIOUS

\* The closing of the bodies puts rows of the buffers, or torn ones, behind those
\* of the files and leaves the buffers empty.
LEMMA CloseBodiesRows ==
    ASSUME TypeOK, CloseBodies
    PROVE  \A s \in Sheets :
              /\ pending'[s] = <<>>
              /\ \A k \in DOMAIN body'[s] :
                    \/ k \in DOMAIN body[s] /\ body'[s][k] = body[s][k]
                    \/ body'[s][k] = Torn
                    \/ \E j \in DOMAIN pending[s] : body'[s][k] = pending[s][j]
              /\ stream'[s] \in {"good", "closed"} =>
                    stream[s] \in {"good", "closed"}
              /\ s \in DOMAIN sheets /\ stream'[s] \in {"good", "closed"} =>
                    body'[s] = body[s] \o pending[s]
              /\ s \in DOMAIN sheets => stream'[s] # "good"
              /\ s \notin DOMAIN sheets => stream'[s] = stream[s]
              /\ pending[s] = <<>> => body'[s] = body[s]
<1>1. PICK flushed \in [Sheets -> UNION {{pending[s]} \cup Pieces(pending[s]) : s \in Sheets}] :
         /\ \A s \in Sheets :
               \/ flushed[s] = pending[s]
               \/ "flush" \in Faults /\ flushed[s] \in Pieces(pending[s])
         /\ body' = [s \in Sheets |-> body[s] \o flushed[s]]
         /\ pending' = [s \in Sheets |-> <<>>]
         /\ stream' = [s \in Sheets |->
                           IF s \notin DOMAIN sheets THEN stream[s]
                           ELSE IF stream[s] \in {"good", "closed"} /\ flushed[s] = pending[s]
                                THEN "closed" ELSE "lost"]
  BY DEF CloseBodies
<1> TAKE s \in Sheets
<1>2. /\ body[s] \in Seq(XmlRows \cup {Torn})
      /\ pending[s] \in Seq(XmlRows)
      /\ flushed[s] \in Seq(XmlRows \cup {Torn})
  <2>1. body[s] \in Seq(XmlRows \cup {Torn}) /\ pending[s] \in Seq(XmlRows)
    BY DEF TypeOK
  <2> QED BY <1>1, <2>1, XmlSeqs, PieceType
<1>3. ASSUME NEW k \in DOMAIN body'[s]
      PROVE  \/ k \in DOMAIN body[s] /\ body'[s][k] = body[s][k]
             \/ body'[s][k] = Torn
             \/ \E j \in DOMAIN pending[s] : body'[s][k] = pending[s][j]
  <2>1. body'[s] = body[s] \o flushed[s]
    BY <1>1
  <2>2. CASE k \in DOMAIN body[s] /\ body'[s][k] = body[s][k]
    BY <2>2
  <2>3. ASSUME NEW j \in DOMAIN flushed[s], body'[s][k] = flushed[s][j]
        PROVE  \/ body'[s][k] = Torn
               \/ \E i \in DOMAIN pending[s] : body'[s][k] = pending[s][i]
    <3>1. CASE flushed[s] = pending[s]
      BY <2>3, <3>1
    <3>2. CASE flushed[s] \in Pieces(pending[s])
      BY <1>2, <2>3, <3>2, PieceRows
    <3> QED BY <1>1, <3>1, <3>2
  <2>4. \/ k \in DOMAIN body[s] /\ body'[s][k] = body[s][k]
        \/ k - Len(body[s]) \in DOMAIN flushed[s] /\ body'[s][k] = flushed[s][k - Len(body[s])]
    BY <1>2, <2>1, ConcatRows
  <2> QED BY <2>2, <2>3, <2>4
<1>4. ASSUME pending[s] = <<>> PROVE body'[s] = body[s]
  <2>1. Pieces(pending[s]) = {}
    BY <1>4 DEF Pieces
  <2>2. flushed[s] = <<>>
    BY <1>1, <1>4, <2>1
  <2> QED BY <1>1, <1>2, <2>2
<1>5. CASE s \notin DOMAIN sheets
  BY <1>1, <1>3, <1>4, <1>5
<1>6. CASE s \in DOMAIN sheets
  BY <1>1, <1>3, <1>4, <1>6
<1> QED BY <1>5, <1>6

LEMMA CloseBodiesGood ==
    ASSUME TypeOK, RowsGood, CloseBodies, UNCHANGED <<values, handed>>
    PROVE  RowsGood'
<1> SUFFICES ASSUME NEW s \in Sheets
             PROVE  /\ \A k \in DOMAIN body'[s] : body'[s][k] # Torn => GoodRow(s, body[s][k])'
                    /\ \A k \in DOMAIN pending'[s] : GoodRow(s, pending[s][k])'
  BY DEF RowsGood
<1>1. ASSUME NEW k \in DOMAIN body'[s], body'[s][k] # Torn PROVE GoodRow(s, body[s][k])'
  <2>1. PICK xml : xml = body'[s][k]
    OBVIOUS
  <2>2. GoodRow(s, xml)
    BY <1>1, <2>1, CloseBodiesRows DEF RowsGood
  <2>3. GoodRow(s, xml)'
    BY <2>2, GoodRowKept
  <2> QED BY <2>1, <2>3 DEF GoodRow
<1>2. pending'[s] = <<>>
  BY CloseBodiesRows
<1> QED BY <1>1, <1>2

\* A step that changes neither table nor rows counted grows both.
LEMMA SameGrows == ASSUME TypeOK, UNCHANGED <<values, handed>> PROVE Grows
BY DEF TypeOK, Grows

LEMMA RowsStart ==
    ASSUME RowsInv, NEW s \in Sheets, NEW cells \in Rows, StartRow(s, cells)
    PROVE  RowCounted' /\ RowsGood' /\ PackageFinal'
<1> USE DEF RowsInv
<1>1. cells \in Seq(Columns \X Cells)
  BY RowsAssumption
<1>2. /\ handed[s] \in Seq(Rows) /\ row_count[s] \in Nat
      /\ handed' = [handed EXCEPT ![s] = Append(handed[s], cells)]
      /\ row_count' = [row_count EXCEPT ![s] = row_count[s] + 1]
  BY WriterBounds DEF StartRow, TypeOK
<1>3. Append(handed[s], cells) \in Seq(Rows)
  BY <1>2
<1>4. Grows
  BY <1>2, <1>3 DEF Grows, TypeOK, StartRow, strings
<1>5. RowCounted'
  <2>1. \A x \in Sheets : Len(handed'[x]) = row_count'[x]
    <3>1. \A x \in Sheets : /\ Len(handed[x]) = row_count[x]
                            /\ handed'[x] = IF x = s THEN Append(handed[s], cells) ELSE handed[x]
                            /\ row_count'[x] = IF x = s THEN row_count[s] + 1 ELSE row_count[x]
      BY <1>2 DEF RowCounted, TypeOK
    <3>2. Len(Append(handed[s], cells)) = Len(handed[s]) + 1
      BY <1>2
    <3> QED BY <3>1, <3>2
  <2>2. row' = [sheet |-> s, cells |-> cells, done |-> <<>>]
    BY DEF StartRow
  <2>3. row_count'[s] \in DOMAIN handed'[s] /\ handed'[s][row_count'[s]] = cells
    BY <1>2, <1>3, <2>1 DEF RowCounted, TypeOK
  <2>4. SaysSame(<<>>, cells)'
    BY DEF SaysSame
  <2> QED BY <1>1, <2>1, <2>2, <2>3, <2>4 DEF RowCounted
<1>6. RowsGood'
  BY <1>4, RowsGoodStays DEF StartRow, streams
<1>7. PackageFinal'
  BY DEF StartRow, Mutable, PackageFinal
<1> QED BY <1>5, <1>6, <1>7

LEMMA RowsCell ==
    ASSUME RowsInv, WriteCell
    PROVE  RowCounted' /\ RowsGood' /\ PackageFinal'
<1> USE DEF RowsInv
<1> DEFINE cell == row.cells[Len(row.done) + 1]
           index == SharedStringIndex(cell[2])
<1>1. /\ cell \in Columns \X Cells
      /\ row.done \in Seq(Written)
      /\ Len(row.done) + 1 \in DOMAIN row.cells
      /\ Len(row.done) + 1 <= Len(row.cells)
  BY CellType DEF WriteCell
<1>2. /\ Grows
      /\ \E new \in Written : /\ row' = [sheet |-> row.sheet, cells |-> row.cells,
                                         done |-> Append(row.done, new)]
                              /\ Readable(values', new)
                              /\ Read(values', new) = cell
  <2>1. CASE SharedStrings /\ cell[2] \in Texts
    <3> DEFINE new == <<cell[1], index>>
    <3>1. /\ values' = IF index > Len(values) THEN Append(values, cell[2]) ELSE values
          /\ row' = [sheet |-> row.sheet, cells |-> row.cells, done |-> Append(row.done, new)]
          /\ handed' = handed
      BY <2>1 DEF WriteCell, histories
    <3>2. /\ index \in Nat
          /\ \/ index \in DOMAIN values /\ values[index] = cell[2]
             \/ index = Len(values) + 1
      BY IndexType DEF TypeOK
    <3>3. new \in Written
      BY <1>1, <3>2 DEF Written
    <3> DEFINE text == cell[2]
    <3>4. text \in Texts /\ values \in Seq(Texts)
      BY <2>1 DEF TypeOK
    <3>5. cell = <<cell[1], text>> /\ cell[2] \in Cells
      BY <1>1
    <3> HIDE DEF cell, index, text
    <3>6. /\ index \in DOMAIN values' /\ values'[index] = text
          /\ values' \in Seq(Texts) /\ Len(values) <= Len(values')
          /\ \A i \in DOMAIN values : values'[i] = values[i]
      BY <3>1, <3>2, <3>4 DEF text
    <3>7. Grows
      BY <3>1, <3>6 DEF Grows, TypeOK
    <3>8. index \notin Cells
      BY <3>2, CellsAssumption
    <3>9. Readable(values', new) /\ Read(values', new) = cell
      BY <3>5, <3>6, <3>8 DEF Readable, Read
    <3> QED BY <3>1, <3>3, <3>7, <3>9
  <2>2. CASE ~ (SharedStrings /\ cell[2] \in Texts)
    <3>1. /\ row' = [sheet |-> row.sheet, cells |-> row.cells, done |-> Append(row.done, cell)]
          /\ UNCHANGED <<values, handed>>
      BY <2>2 DEF WriteCell, strings, histories
    <3>2. cell \in Written /\ cell[2] \in Cells
      BY <1>1 DEF Written
    <3>3. Readable(values', cell) /\ Read(values', cell) = cell
      BY <3>2 DEF Readable, Read
    <3> QED BY <3>1, <3>2, <3>3, SameGrows
  <2> QED BY <2>1, <2>2
<1>3. PICK new \in Written : /\ row' = [sheet |-> row.sheet, cells |-> row.cells,
                                        done |-> Append(row.done, new)]
                             /\ Readable(values', new)
                             /\ Read(values', new) = cell
  BY <1>2
<1>4. RowCounted'
  <2> DEFINE done == row.done
             cells == row.cells
  <2>1. /\ row' = [sheet |-> row.sheet, cells |-> cells, done |-> Append(done, new)]
        /\ done \in Seq(Written) /\ new \in Written
        /\ Len(done) + 1 <= Len(cells)
        /\ Len(done) \in Nat
    BY <1>1, <1>3
  <2>2. ASSUME NEW i \in DOMAIN Append(done, new)
        PROVE  /\ Readable(values', Append(done, new)[i])
               /\ Read(values', Append(done, new)[i]) = cells[i]
    <3>1. CASE i \in DOMAIN done
      <4>1. Append(done, new)[i] = done[i]
        BY <2>1, <3>1
      <4>2. Readable(values, done[i]) /\ Read(values, done[i]) = cells[i]
        BY <3>1 DEF WriteCell, RowCounted, SaysSame
      <4>3. ASSUME NEW k \in DOMAIN values PROVE k \in DOMAIN values' /\ values'[k] = values[k]
        BY <1>2 DEF Grows, TypeOK
      <4> QED BY <4>1, <4>2, <4>3 DEF Readable, Read
    <3>2. CASE i = Len(done) + 1
      BY <1>3, <2>1, <3>2
    <3> QED BY <2>1, <3>1, <3>2
  <2>3. UNCHANGED <<handed, row_count>>
    BY DEF WriteCell, counters, histories
  <2>4. /\ row.sheet' = row.sheet /\ row.cells' = cells /\ row.done' = Append(done, new)
        /\ Len(Append(done, new)) = Len(done) + 1
    BY <2>1
  <2> HIDE DEF done, cells
  <2>5. SaysSame(row.done, row.cells)'
    BY <2>2, <2>4 DEF SaysSame
  <2> QED
    BY <2>1, <2>3, <2>4, <2>5 DEF RowCounted, WriteCell, cells
<1>5. RowsGood'
  BY <1>2, RowsGoodStays DEF WriteCell, streams
<1>6. PackageFinal'
  BY DEF WriteCell, PackageFinal
<1> QED BY <1>4, <1>5, <1>6

LEMMA RowsEnd ==
    ASSUME RowsInv, EndRow \/ EndRowFails
    PROVE  RowCounted' /\ RowsGood' /\ PackageFinal'
<1> USE DEF RowsInv
<1> DEFINE s == row.sheet
           buffer == Append(pending[s], RowXml)
<1>1. /\ s \in Sheets /\ RowXml \in XmlRows
      /\ GoodRow(s, RowXml)
      /\ pending[s] \in Seq(XmlRows)
      /\ body[s] \in Seq(XmlRows \cup {Torn})
  BY RowXmlType, RowXmlGood DEF EndRow, EndRowFails, RowDone, TypeOK
<1>2. row' = Nothing /\ UNCHANGED <<row_count, values, handed, closed, package>>
  BY DEF EndRow, EndRowFails, counters, strings, histories
<1>3. RowCounted' /\ PackageFinal'
  BY <1>2 DEF RowCounted, PackageFinal, EndRow, EndRowFails, RowDone
<1>4. buffer \in Seq(XmlRows) /\ \A k \in DOMAIN buffer : GoodRow(s, buffer[k])
  <2>1. buffer \in Seq(XmlRows)
    BY <1>1
  <2>2. ASSUME NEW k \in DOMAIN buffer PROVE GoodRow(s, buffer[k])
    <3>1. CASE k \in DOMAIN pending[s]
      <4>1. buffer[k] = pending[s][k]
        BY <1>1, <3>1
      <4> QED BY <1>1, <3>1, <4>1 DEF RowsGood
    <3>2. CASE k = Len(pending[s]) + 1
      BY <1>1, <3>2
    <3> QED BY <1>1, <3>1, <3>2
  <2> QED BY <2>1, <2>2
<1>5. \E moved \in Seq(XmlRows \cup {Torn}), held \in Seq(XmlRows) :
         /\ body' = [body EXCEPT ![s] = body[s] \o moved] \/ body' = body
         /\ pending' = [pending EXCEPT ![s] = held]
         /\ \A k \in DOMAIN moved : moved[k] # Torn => GoodRow(s, moved[k])
         /\ \A k \in DOMAIN held : GoodRow(s, held[k])
  <2>1. /\ <<>> \in Seq(XmlRows) /\ <<>> \in Seq(XmlRows \cup {Torn})
        /\ buffer \in Seq(XmlRows \cup {Torn})
    BY <1>4, XmlSeqs
  <2>2. \A k \in DOMAIN pending[s] : GoodRow(s, pending[s][k])
    BY <1>1 DEF RowsGood
  <2>3. CASE EndRow
    <3>1. \/ pending' = [pending EXCEPT ![s] = buffer] /\ UNCHANGED body
          \/ /\ body' = [body EXCEPT ![s] = body[s] \o buffer]
             /\ pending' = [pending EXCEPT ![s] = <<>>]
      BY <2>3 DEF EndRow
    <3>2. CASE pending' = [pending EXCEPT ![s] = buffer] /\ UNCHANGED body
      <4> USE <1>4, <2>1
      <4> WITNESS <<>> \in Seq(XmlRows \cup {Torn}), buffer \in Seq(XmlRows)
      <4> QED BY <1>4, <3>2
    <3>3. CASE /\ body' = [body EXCEPT ![s] = body[s] \o buffer]
               /\ pending' = [pending EXCEPT ![s] = <<>>]
      <4> USE <1>4, <2>1
      <4> WITNESS buffer \in Seq(XmlRows \cup {Torn}), <<>> \in Seq(XmlRows)
      <4> QED BY <1>4, <3>3
    <3> QED BY <3>1, <3>2, <3>3
  <2>4. CASE EndRowFails
    <3>1. PICK piece \in Pieces(buffer) : body' = [body EXCEPT ![s] = body[s] \o piece]
      BY <2>4 DEF EndRowFails
    <3>2. PICK held \in {<<>>, pending[s], buffer} : pending' = [pending EXCEPT ![s] = held]
      BY <2>4 DEF EndRowFails
    <3>3. piece \in Seq(XmlRows \cup {Torn})
      BY <1>4, PieceType
    <3>4. \A k \in DOMAIN piece : piece[k] # Torn => GoodRow(s, piece[k])
      BY <1>4, PieceRows
    <3>5. held \in Seq(XmlRows) /\ \A k \in DOMAIN held : GoodRow(s, held[k])
      <4>1. \A k \in DOMAIN <<>> : GoodRow(s, <<>>[k])
        OBVIOUS
      <4> QED BY <1>1, <1>4, <2>1, <2>2, <4>1
    <3> USE <3>3, <3>5
    <3> WITNESS piece \in Seq(XmlRows \cup {Torn}), held \in Seq(XmlRows)
    <3> QED BY <3>1, <3>2, <3>4, <3>5
  <2> QED BY <2>3, <2>4
<1> HIDE DEF s, buffer
<1>6. PICK moved \in Seq(XmlRows \cup {Torn}), held \in Seq(XmlRows) :
         /\ body' = [body EXCEPT ![s] = body[s] \o moved] \/ body' = body
         /\ pending' = [pending EXCEPT ![s] = held]
         /\ \A k \in DOMAIN moved : moved[k] # Torn => GoodRow(s, moved[k])
         /\ \A k \in DOMAIN held : GoodRow(s, held[k])
  BY <1>5
<1>7. ASSUME NEW x \in Sheets, NEW k \in DOMAIN body'[x], body'[x][k] # Torn
      PROVE  GoodRow(x, body[x][k])'
  <2>1. PICK xml : xml = body'[x][k]
    OBVIOUS
  <2>2. GoodRow(x, xml)
    <3>1. CASE x = s /\ body' = [body EXCEPT ![s] = body[s] \o moved]
      <4>1. body'[x] = body[s] \o moved
        BY <1>1, <3>1 DEF TypeOK
      <4>2. \/ k \in DOMAIN body[s] /\ body'[x][k] = body[s][k]
            \/ k - Len(body[s]) \in DOMAIN moved /\ body'[x][k] = moved[k - Len(body[s])]
        BY <1>1, <1>7, <4>1, ConcatRows
      <4>3. CASE k \in DOMAIN body[s] /\ body'[x][k] = body[s][k]
        BY <1>1, <1>7, <2>1, <3>1, <4>3 DEF RowsGood
      <4>4. CASE k - Len(body[s]) \in DOMAIN moved /\ body'[x][k] = moved[k - Len(body[s])]
        BY <1>6, <1>7, <2>1, <3>1, <4>4
      <4> QED BY <4>2, <4>3, <4>4
    <3>2. CASE x # s \/ body' = body
      <4>1. body'[x] = body[x]
        BY <1>6, <3>2 DEF TypeOK
      <4> QED BY <1>7, <2>1, <4>1 DEF RowsGood
    <3> QED BY <1>6, <3>1, <3>2
  <2>3. GoodRow(x, xml)'
    BY <1>2, <2>2, GoodRowKept
  <2> QED BY <2>1, <2>3 DEF GoodRow
<1>8. ASSUME NEW x \in Sheets, NEW k \in DOMAIN pending'[x]
      PROVE  GoodRow(x, pending[x][k])'
  <2>1. PICK xml : xml = pending'[x][k]
    OBVIOUS
  <2>2. GoodRow(x, xml)
    <3>1. CASE x = s
      <4>1. pending'[x] = held
        BY <1>1, <1>6, <3>1 DEF TypeOK
      <4> QED BY <1>6, <1>8, <2>1, <3>1, <4>1
    <3>2. CASE x # s
      <4>1. pending'[x] = pending[x]
        BY <1>6, <3>2 DEF TypeOK
      <4> QED BY <1>8, <2>1, <4>1 DEF RowsGood
    <3> QED BY <3>1, <3>2
  <2>3. GoodRow(x, xml)'
    BY <1>2, <2>2, GoodRowKept
  <2> QED BY <2>1, <2>3 DEF GoodRow
<1>9. RowsGood'
  BY <1>7, <1>8 DEF RowsGood
<1> QED BY <1>3, <1>9

\* Closing, whether the package can be written or not.
LEMMA RowsClose ==
    ASSUME RowsInv, Close \/ CloseFails
    PROVE  RowCounted' /\ RowsGood' /\ PackageFinal'
<1> USE DEF RowsInv
<1>1. CloseBodies /\ UNCHANGED <<row_count, row, values, handed>> /\ row = Nothing
  BY DEF Close, CloseFails, Mutable, counters, strings, histories
<1>2. RowsGood'
  BY <1>1, CloseBodiesGood
<1>3. RowCounted'
  BY <1>1 DEF RowCounted
<1>4. PackageFinal'
  <2>1. CASE Close
    <3>1. package' = Package(body') /\ values' = values
      BY <1>1, <2>1 DEF Close
    <3>2. package'.rows = body' /\ package'.values = values'
      BY <3>1 DEF Package
    <3> QED BY <1>1, <3>2, CloseBodiesRows DEF PackageFinal
  <2>2. CASE CloseFails
    BY <2>2 DEF CloseFails, Mutable, PackageFinal
  <2> QED BY <2>1, <2>2
<1> QED BY <1>2, <1>3, <1>4

LEMMA RowsInit == Init => RowsInv
<1> SUFFICES ASSUME Init PROVE RowsInv
  OBVIOUS
<1>1. RowCounted
  BY DEF Init, RowCounted
<1>2. RowsGood
  BY DEF Init, RowsGood
<1>3. PackageFinal
  BY DEF Init, PackageFinal
<1> QED BY <1>1, <1>2, <1>3, TypeInit DEF RowsInv

THEOREM RowsStep == RowsInv /\ [Next]_vars => RowsInv'
<1> SUFFICES ASSUME RowsInv, [Next]_vars PROVE RowsInv'
  OBVIOUS
<1>1. TypeOK /\ TypeOK'
  BY TypeStep DEF RowsInv
<1>2. ASSUME UNCHANGED <<row_count, handed, body, pending, values, package, closed>>,
             row' = Nothing \/ row' = row
      PROVE  RowCounted' /\ RowsGood' /\ PackageFinal'
  <2>1. RowsGood'
    BY <1>1, <1>2, SameGrows, RowsGoodStays DEF RowsInv
  <2>2. RowCounted'
    BY <1>2 DEF RowsInv, RowCounted, SaysSame, Readable, Read
  <2>3. PackageFinal'
    BY <1>2 DEF RowsInv, PackageFinal
  <2> QED BY <2>1, <2>2, <2>3
<1>3. ASSUME NEW name \in Names, AddWorksheet(name) PROVE RowsInv'
  BY <1>1, <1>2, <1>3 DEF AddWorksheet, counters, streams, strings, histories, RowsInv
<1>4. CASE EndRowRefused
  BY <1>1, <1>2, <1>4 DEF EndRowRefused, counters, streams, strings, histories, RowsInv
<1>5. CASE UNCHANGED vars
  BY <1>1, <1>2, <1>5 DEF vars, counters, streams, strings, histories, RowsInv
<1>6. ASSUME NEW s \in Sheets, NEW cells \in Rows, StartRow(s, cells) PROVE RowsInv'
  BY <1>1, <1>6, RowsStart DEF RowsInv
<1>7. CASE WriteCell
  BY <1>1, <1>7, RowsCell DEF RowsInv
<1>8. CASE EndRow \/ EndRowFails
  BY <1>1, <1>8, RowsEnd DEF RowsInv
<1>9. CASE Close \/ CloseFails
  BY <1>1, <1>9, RowsClose DEF RowsInv
<1> QED BY <1>3, <1>4, <1>5, <1>6, <1>7, <1>8, <1>9 DEF Next

THEOREM RowsInvariant == Spec => []RowsInv
BY RowsInit, RowsStep, PTL DEF Spec

LEMMA RowsInvReads == RowsInv => RowsReadAsHanded
<1> SUFFICES ASSUME RowsInv, closed, NEW s \in DOMAIN sheets, NEW k \in DOMAIN package.rows[s],
                    package.rows[s][k] # Torn
             PROVE  LET xml == package.rows[s][k] IN
                    /\ xml.r \in DOMAIN handed[s]
                    /\ ReadRow(package.values, xml) = handed[s][xml.r]
  BY DEF RowsReadAsHanded
<1>1. package.rows = body /\ package.values = values
  BY DEF RowsInv, PackageFinal
<1>2. s \in Sheets
  <2>1. Len(sheets) \in Nat /\ DOMAIN sheets = 1 .. Len(sheets) /\ Len(sheets) <= MaxSheets
    BY DEF RowsInv, TypeOK
  <2> QED BY <2>1, WriterBounds DEF Sheets
<1> DEFINE xml == body[s][k]
<1>3. GoodRow(s, xml) /\ xml \in XmlRows
  BY <1>1, <1>2 DEF RowsInv, RowsGood, TypeOK
<1>4. xml.cells \in Seq(Written) /\ handed[s][xml.r] \in Seq(Columns \X Cells)
  BY <1>2, <1>3, RowsAssumption DEF XmlRows, GoodRow, RowsInv, TypeOK
<1> DEFINE done == xml.cells
           cells == handed[s][xml.r]
<1>5. /\ Len(done) = Len(cells)
      /\ \A i \in DOMAIN done : Read(values, done[i]) = cells[i]
  BY <1>3 DEF GoodRow, SaysSame
<1>6. ReadRow(values, xml) = cells
  <2>1. ReadRow(values, xml) = [i \in DOMAIN done |-> Read(values, done[i])]
    BY DEF ReadRow
  <2> HIDE DEF done, cells, xml
  <2>2. done \in Seq(Written) /\ cells \in Seq(Columns \X Cells)
    BY <1>4 DEF done, cells
  <2>3. cells = [i \in DOMAIN done |-> cells[i]]
    BY <1>5, <2>2
  <2> QED BY <1>5, <2>1, <2>3
<1> QED BY <1>1, <1>3, <1>6 DEF GoodRow

\* Whichever writes fail and whatever a stream holds back or writes twice, a
\* whole row of the package, read with its string table, is the row that was
\* appended under its number (shared_string_index, write_cell, append_row).
THEOREM RowsReadCorrectly == Spec => []RowsReadAsHanded
BY RowsInvariant, RowsInvReads, PTL

-----------------------------------------------------------------------------
(***************************************************************************)
(* What a sheet whose stream never failed holds: all rows whose append     *)
(* returned, and no other.  While the stream takes rows the counters agree *)
(* with them; afterwards they may run ahead, but no row is written.        *)
(***************************************************************************)

\* A sheet that is not there yet has written nothing.
SheetsFresh ==
    /\ \A s \in Sheets \ DOMAIN sheets :
          /\ body[s] = <<>> /\ pending[s] = <<>> /\ appended[s] = <<>>
          /\ row_count[s] = 0
    /\ row # Nothing => row.sheet \in DOMAIN sheets

\* File and buffer together hold the appended rows, numbered from 1.
Complete(file, buffer, numbers) ==
    /\ Len(numbers) = Len(file) + Len(buffer)
    /\ \A k \in DOMAIN numbers : numbers[k] = k
    /\ \A k \in DOMAIN file : file[k] # Torn /\ file[k].r = k
    /\ \A k \in DOMAIN buffer : buffer[k].r = Len(file) + k

SheetsComplete == \A s \in Sheets : stream[s] \in {"good", "closed"} =>
                      Complete(body[s], pending[s], appended[s])

InTheMaking(s) == IF row # Nothing /\ row.sheet = s THEN 1 ELSE 0

CountersAgree ==
    \A s \in Sheets : stream[s] = "good" =>
        row_count[s] = Len(appended[s]) + InTheMaking(s)

CompleteInv == SheetsFresh /\ SheetsComplete /\ CountersAgree

LEMMA CompleteAppend ==
    ASSUME NEW file \in Seq(XmlRows \cup {Torn}), NEW buffer \in Seq(XmlRows),
           NEW numbers \in Seq(Nat), NEW xml \in XmlRows,
           Complete(file, buffer, numbers), xml.r = Len(numbers) + 1
    PROVE  Complete(file, Append(buffer, xml), Append(numbers, xml.r))
<1>1. /\ Len(file) \in Nat /\ Len(buffer) \in Nat /\ Len(numbers) \in Nat
      /\ DOMAIN numbers = 1 .. Len(numbers) /\ DOMAIN buffer = 1 .. Len(buffer)
      /\ xml.r \in Nat
  BY DEF XmlRows
<1>2. /\ Append(buffer, xml) \in Seq(XmlRows) /\ Append(numbers, xml.r) \in Seq(Nat)
      /\ Len(Append(buffer, xml)) = Len(buffer) + 1
      /\ Len(Append(numbers, xml.r)) = Len(numbers) + 1
  BY <1>1
<1>3. ASSUME NEW k \in 1 .. Len(numbers) + 1 PROVE Append(numbers, xml.r)[k] = k
  <2>1. CASE k \in 1 .. Len(numbers)
    <3>1. Append(numbers, xml.r)[k] = numbers[k]
      BY <1>1, <2>1
    <3> QED BY <1>1, <2>1, <3>1 DEF Complete
  <2>2. CASE k = Len(numbers) + 1
    BY <1>1, <2>2
  <2> QED BY <1>1, <2>1, <2>2
<1>4. ASSUME NEW k \in 1 .. Len(buffer) + 1 PROVE Append(buffer, xml)[k].r = Len(file) + k
  <2>1. CASE k \in 1 .. Len(buffer)
    <3>1. Append(buffer, xml)[k] = buffer[k]
      BY <2>1
    <3> QED BY <1>1, <2>1, <3>1 DEF Complete
  <2>2. CASE k = Len(buffer) + 1
    <3>1. Append(buffer, xml)[k] = xml
      BY <1>1, <2>2
    <3> QED BY <1>1, <2>2, <3>1 DEF Complete
  <2> QED BY <1>1, <2>1, <2>2
<1>5. /\ DOMAIN Append(buffer, xml) = 1 .. Len(buffer) + 1
      /\ DOMAIN Append(numbers, xml.r) = 1 .. Len(numbers) + 1
  BY <1>2
<1> QED BY <1>1, <1>2, <1>3, <1>4, <1>5 DEF Complete

LEMMA CompleteFlush ==
    ASSUME NEW file \in Seq(XmlRows \cup {Torn}), NEW buffer \in Seq(XmlRows),
           NEW numbers \in Seq(Nat), Complete(file, buffer, numbers)
    PROVE  Complete(file \o buffer, <<>>, numbers)
<1>1. buffer \in Seq(XmlRows \cup {Torn})
  BY XmlSeqs
<1>2. /\ Len(file) \in Nat /\ Len(buffer) \in Nat
      /\ file \o buffer \in Seq(XmlRows \cup {Torn})
      /\ Len(file \o buffer) = Len(file) + Len(buffer)
  BY <1>1
<1>3. ASSUME NEW k \in DOMAIN (file \o buffer)
      PROVE  (file \o buffer)[k] # Torn /\ (file \o buffer)[k].r = k
  <2>1. CASE k \in DOMAIN file /\ (file \o buffer)[k] = file[k]
    BY <2>1 DEF Complete
  <2>2. CASE k - Len(file) \in DOMAIN buffer /\ (file \o buffer)[k] = buffer[k - Len(file)]
    <3>1. buffer[k - Len(file)] \in XmlRows
      BY <2>2
    <3>2. buffer[k - Len(file)].r = Len(file) + (k - Len(file))
      BY <2>2 DEF Complete
    <3>3. k \in Nat
      BY <1>2
    <3> QED BY <1>2, <2>2, <3>1, <3>2, <3>3, NothingAssumption
  <2> QED BY <1>1, <2>1, <2>2, ConcatRows
<1>4. Len(<<>>) = 0 /\ DOMAIN <<>> = {}
  OBVIOUS
<1> QED BY <1>2, <1>3, <1>4 DEF Complete

LEMMA CompleteInit == Init => CompleteInv
<1> SUFFICES ASSUME Init PROVE CompleteInv
  OBVIOUS
<1>1. SheetsFresh
  BY DEF Init, SheetsFresh
<1>2. SheetsComplete
  BY DEF Init, SheetsComplete, Complete
<1>3. CountersAgree
  BY DEF Init, CountersAgree, InTheMaking
<1> QED BY <1>1, <1>2, <1>3 DEF CompleteInv

LEMMA CompleteEnd ==
    ASSUME RowsInv, CompleteInv, EndRow
    PROVE  CompleteInv'
<1> DEFINE s == row.sheet
           buffer == Append(pending[s], RowXml)
<1>1. row # Nothing /\ stream[s] = "good"
  BY DEF EndRow, RowDone
<1>2. /\ s \in Sheets /\ RowXml \in XmlRows
      /\ pending[s] \in Seq(XmlRows)
      /\ body[s] \in Seq(XmlRows \cup {Torn})
      /\ appended[s] \in Seq(Nat) /\ row_count[s] \in Nat
      /\ s \in DOMAIN sheets
  <2>1. s \in Sheets /\ RowXml \in XmlRows
    BY <1>1, RowXmlType DEF RowsInv
  <2> QED BY <1>1, <2>1, WriterBounds DEF RowsInv, TypeOK, CompleteInv, SheetsFresh
<1>3. /\ row' = Nothing /\ UNCHANGED <<sheets, row_count, stream>>
      /\ \/ pending' = [pending EXCEPT ![s] = buffer] /\ body' = body
         \/ /\ body' = [body EXCEPT ![s] = body[s] \o buffer]
            /\ pending' = [pending EXCEPT ![s] = <<>>]
      /\ appended' = [appended EXCEPT ![s] = Append(appended[s], row_count[s])]
  BY DEF EndRow, counters
<1>4. Complete(body[s], pending[s], appended[s]) /\ row_count[s] = Len(appended[s]) + 1
  BY <1>1, <1>2 DEF CompleteInv, SheetsComplete, CountersAgree, InTheMaking
<1>5. RowXml.r = row_count[s] /\ buffer \in Seq(XmlRows)
  BY <1>2 DEF RowXml
<1>6. Complete(body[s], buffer, Append(appended[s], row_count[s]))
  BY <1>2, <1>4, <1>5, CompleteAppend
<1> DEFINE number == row_count[s]
<1> HIDE DEF s, buffer, number
<1>7. Append(appended[s], number) \in Seq(Nat) /\ Len(Append(appended[s], number)) = Len(appended[s]) + 1
  BY <1>2 DEF number
<1>8. Complete(body'[s], pending'[s], appended'[s]) /\ appended'[s] = Append(appended[s], number)
  <2>1. appended'[s] = Append(appended[s], number)
    BY <1>2, <1>3 DEF RowsInv, TypeOK, number
  <2>2. CASE pending' = [pending EXCEPT ![s] = buffer] /\ body' = body
    <3>1. pending'[s] = buffer /\ body'[s] = body[s]
      BY <1>2, <2>2 DEF RowsInv, TypeOK
    <3> QED BY <1>6, <2>1, <3>1 DEF number
  <2>3. CASE /\ body' = [body EXCEPT ![s] = body[s] \o buffer]
             /\ pending' = [pending EXCEPT ![s] = <<>>]
    <3>1. pending'[s] = <<>> /\ body'[s] = body[s] \o buffer
      BY <1>2, <2>3 DEF RowsInv, TypeOK
    <3>2. Complete(body[s] \o buffer, <<>>, Append(appended[s], number))
      BY <1>2, <1>5, <1>6, <1>7, CompleteFlush DEF number
    <3> QED BY <2>1, <3>1, <3>2
  <2> QED BY <1>3, <2>2, <2>3
<1>9. ASSUME NEW x \in Sheets, x # s
      PROVE  /\ body'[x] = body[x] /\ pending'[x] = pending[x] /\ appended'[x] = appended[x]
             /\ InTheMaking(x)' = InTheMaking(x)
  <2>1. body'[x] = body[x] /\ pending'[x] = pending[x] /\ appended'[x] = appended[x]
    BY <1>2, <1>3, <1>9 DEF RowsInv, TypeOK
  <2>2. InTheMaking(x)' = 0 /\ InTheMaking(x) = 0
    BY <1>1, <1>3, <1>9 DEF InTheMaking, s
  <2> QED BY <2>1, <2>2
<1>10. SheetsComplete'
  <2> SUFFICES ASSUME NEW x \in Sheets, stream'[x] \in {"good", "closed"}
               PROVE  Complete(body'[x], pending'[x], appended'[x])
    BY DEF SheetsComplete
  <2>1. CASE x = s
    BY <1>8, <2>1
  <2>2. CASE x # s
    BY <1>3, <1>9, <2>2 DEF CompleteInv, SheetsComplete
  <2> QED BY <2>1, <2>2
<1>11. CountersAgree'
  <2> SUFFICES ASSUME NEW x \in Sheets, stream'[x] = "good"
               PROVE  row_count'[x] = Len(appended'[x]) + InTheMaking(x)'
    BY DEF CountersAgree
  <2>1. CASE x = s
    <3>1. InTheMaking(x)' = 0
      BY <1>3 DEF InTheMaking
    <3>2. row_count'[x] = Len(appended'[x])
      BY <1>3, <1>4, <1>7, <1>8, <2>1
    <3>3. Len(appended'[x]) \in Nat
      BY <1>7, <1>8, <2>1
    <3> QED BY <3>1, <3>2, <3>3
  <2>2. CASE x # s
    BY <1>3, <1>9, <2>2 DEF CompleteInv, CountersAgree
  <2> QED BY <2>1, <2>2
<1>12. SheetsFresh'
  <2> SUFFICES ASSUME NEW x \in Sheets \ DOMAIN sheets
               PROVE  /\ body'[x] = <<>> /\ pending'[x] = <<>> /\ appended'[x] = <<>>
                      /\ row_count'[x] = 0
    BY <1>3 DEF SheetsFresh
  <2>1. x # s
    BY <1>2
  <2> QED BY <1>3, <1>9, <2>1 DEF CompleteInv, SheetsFresh
<1> QED BY <1>10, <1>11, <1>12 DEF CompleteInv

LEMMA CompleteStart ==
    ASSUME RowsInv, CompleteInv, NEW s \in Sheets, NEW cells \in Rows, StartRow(s, cells)
    PROVE  CompleteInv'
<1>1. /\ row = Nothing /\ s \in DOMAIN sheets
      /\ row_count' = [row_count EXCEPT ![s] = row_count[s] + 1]
      /\ row' = [sheet |-> s, cells |-> cells, done |-> <<>>]
      /\ UNCHANGED <<sheets, body, pending, stream, appended>>
  BY DEF StartRow, Mutable, streams
<1>2. row' # Nothing
  <2>1. <<>> \in Seq(Written)
    OBVIOUS
  <2>2. row' \in [sheet : Sheets, cells : Rows, done : Seq(Written)]
    BY <1>1, <2>1
  <2> QED BY <2>2, NothingAssumption
<1>3. SheetsFresh'
  BY <1>1 DEF CompleteInv, SheetsFresh, RowsInv, TypeOK
<1>4. SheetsComplete'
  BY <1>1 DEF CompleteInv, SheetsComplete
<1>5. ASSUME NEW x \in Sheets, stream'[x] = "good"
      PROVE  row_count'[x] = Len(appended'[x]) + InTheMaking(x)'
  <2>1. InTheMaking(x) = 0 /\ row_count[x] = Len(appended[x]) + InTheMaking(x)
    BY <1>1, <1>5 DEF CompleteInv, CountersAgree, InTheMaking
  <2>2. InTheMaking(x)' = IF x = s THEN 1 ELSE 0
    BY <1>1, <1>2 DEF InTheMaking
  <2>3. row_count'[x] = IF x = s THEN row_count[x] + 1 ELSE row_count[x]
    BY <1>1 DEF RowsInv, TypeOK
  <2>4. Len(appended[x]) \in Nat /\ appended' = appended
    BY <1>1 DEF RowsInv, TypeOK
  <2>5. row_count[x] = Len(appended[x])
    BY <2>1, <2>4
  <2> HIDE DEF InTheMaking
  <2>6. CASE x = s
    BY <2>2, <2>3, <2>4, <2>5, <2>6
  <2>7. CASE x # s
    BY <2>2, <2>3, <2>4, <2>5, <2>7
  <2> QED BY <2>6, <2>7
<1> QED BY <1>3, <1>4, <1>5 DEF CompleteInv, CountersAgree

LEMMA CompleteClose ==
    ASSUME RowsInv, CompleteInv, Close \/ CloseFails
    PROVE  CompleteInv'
<1>1. CloseBodies /\ UNCHANGED <<sheets, row_count, row, appended>>
  BY DEF Close, CloseFails, counters, histories
<1>2. TypeOK
  BY DEF RowsInv
<1>3. SheetsFresh'
  BY <1>1, <1>2, CloseBodiesRows DEF CompleteInv, SheetsFresh
<1>4. ASSUME NEW x \in Sheets, stream'[x] \in {"good", "closed"}
      PROVE  Complete(body'[x], pending'[x], appended'[x])
  <2>1. stream[x] \in {"good", "closed"} /\ pending'[x] = <<>> /\ appended' = appended
    BY <1>1, <1>2, <1>4, CloseBodiesRows
  <2>2. Complete(body[x], pending[x], appended[x])
    BY <2>1 DEF CompleteInv, SheetsComplete
  <2>3. CASE x \in DOMAIN sheets
    <3>1. body'[x] = body[x] \o pending[x]
      BY <1>1, <1>2, <1>4, <2>3, CloseBodiesRows
    <3>2. /\ body[x] \in Seq(XmlRows \cup {Torn}) /\ pending[x] \in Seq(XmlRows)
          /\ appended[x] \in Seq(Nat)
      BY <1>2 DEF TypeOK
    <3> QED BY <2>1, <2>2, <3>1, <3>2, CompleteFlush
  <2>4. CASE x \notin DOMAIN sheets
    <3>1. pending[x] = <<>>
      BY <2>4 DEF CompleteInv, SheetsFresh
    <3>2. body'[x] = body[x]
      BY <1>1, <1>2, <3>1, CloseBodiesRows
    <3> QED BY <2>1, <2>2, <3>1, <3>2
  <2> QED BY <2>3, <2>4
<1>5. ASSUME NEW x \in Sheets, stream'[x] = "good"
      PROVE  row_count'[x] = Len(appended'[x]) + InTheMaking(x)'
  <2>1. x \notin DOMAIN sheets /\ stream[x] = "good"
    BY <1>1, <1>2, <1>5, CloseBodiesRows
  <2> QED BY <1>1, <2>1 DEF CompleteInv, CountersAgree, InTheMaking
<1> QED BY <1>3, <1>4, <1>5 DEF CompleteInv, SheetsComplete, CountersAgree

\* Of a row that fails nothing is said any more; of one that is refused the
\* stream took nothing before either.
LEMMA CompleteFails ==
    ASSUME RowsInv, CompleteInv, EndRowFails \/ EndRowRefused
    PROVE  CompleteInv'
<1> DEFINE s == row.sheet
<1>1. /\ row # Nothing /\ row' = Nothing
      /\ UNCHANGED <<sheets, row_count, appended>>
      /\ stream'[s] # "good"
  <2>1. row # Nothing
    BY DEF EndRowFails, EndRowRefused, RowDone
  <2>2. s \in Sheets
    BY <2>1, RowXmlType DEF RowsInv
  <2>3. stream'[s] # "good"
    BY <2>2 DEF EndRowFails, EndRowRefused, streams, RowsInv, TypeOK
  <2> QED BY <2>1, <2>3 DEF EndRowFails, EndRowRefused, counters, histories
<1>2. s \in Sheets /\ s \in DOMAIN sheets
  BY <1>1, RowXmlType DEF RowsInv, CompleteInv, SheetsFresh
<1>3. \/ UNCHANGED <<body, pending, stream>>
      \/ /\ stream'[s] = "bad"
         /\ \A x \in Sheets : x # s => /\ body'[x] = body[x] /\ pending'[x] = pending[x]
                                       /\ stream'[x] = stream[x]
  <2>1. CASE EndRowRefused
    BY <2>1 DEF EndRowRefused, streams
  <2>2. CASE EndRowFails
    <3>1. PICK piece, held : /\ body' = [body EXCEPT ![s] = body[s] \o piece]
                            /\ pending' = [pending EXCEPT ![s] = held]
                            /\ stream' = [stream EXCEPT ![s] = "bad"]
      BY <2>2 DEF EndRowFails
    <3> HIDE DEF s
    <3> QED BY <1>2, <3>1 DEF RowsInv, TypeOK
  <2> QED BY <2>1, <2>2
<1>4. \A x \in Sheets : x # s => InTheMaking(x)' = 0 /\ InTheMaking(x) = 0
  BY <1>1 DEF InTheMaking
<1> HIDE DEF s
<1>5. SheetsFresh'
  BY <1>1, <1>2, <1>3 DEF CompleteInv, SheetsFresh
<1>6. SheetsComplete'
  BY <1>1, <1>3 DEF CompleteInv, SheetsComplete
<1>7. CountersAgree'
  BY <1>1, <1>3, <1>4 DEF CompleteInv, CountersAgree
<1> QED BY <1>5, <1>6, <1>7 DEF CompleteInv

THEOREM CompleteStep == RowsInv /\ CompleteInv /\ [Next]_vars => CompleteInv'
<1> SUFFICES ASSUME RowsInv, CompleteInv, [Next]_vars PROVE CompleteInv'
  OBVIOUS
<1>1. ASSUME NEW name \in Names, AddWorksheet(name) PROVE CompleteInv'
  <2>1. /\ UNCHANGED <<row_count, body, pending, stream, row, appended>>
        /\ sheets' = Append(sheets, name) /\ sheets \in Seq(Names)
    BY <1>1 DEF AddWorksheet, counters, streams, histories, RowsInv, TypeOK
  <2>2. DOMAIN sheets \subseteq DOMAIN sheets'
    BY <2>1
  <2> QED BY <2>1, <2>2
      DEF CompleteInv, SheetsFresh, SheetsComplete, CountersAgree, InTheMaking
<1>2. CASE WriteCell
  <2>1. UNCHANGED <<sheets, row_count, body, pending, stream, appended>> /\ row # Nothing
    BY <1>2 DEF WriteCell, counters, streams, histories
  <2>2. row' # Nothing
    BY <1>2, WriteCellType, NothingAssumption DEF RowsInv
  <2>3. row'.sheet = row.sheet
    BY <1>2 DEF WriteCell
  <2>4. \A x \in Sheets : InTheMaking(x)' = InTheMaking(x)
    BY <2>1, <2>2, <2>3 DEF InTheMaking
  <2> QED BY <2>1, <2>2, <2>3, <2>4
      DEF CompleteInv, SheetsFresh, SheetsComplete, CountersAgree
<1>3. CASE UNCHANGED vars
  BY <1>3 DEF vars, counters, streams, histories, CompleteInv, SheetsFresh, SheetsComplete,
              CountersAgree, InTheMaking
<1>4. ASSUME NEW s \in Sheets, NEW cells \in Rows, StartRow(s, cells) PROVE CompleteInv'
  BY <1>4, CompleteStart
<1>5. CASE EndRow
  BY <1>5, CompleteEnd
<1>6. CASE EndRowFails \/ EndRowRefused
  BY <1>6, CompleteFails
<1>7. CASE Close \/ CloseFails
  BY <1>7, CompleteClose
<1> QED BY <1>1, <1>2, <1>3, <1>4, <1>5, <1>6, <1>7 DEF Next

THEOREM CompleteInvariant == Spec => [](RowsInv /\ CompleteInv)
<1>1. Init => RowsInv /\ CompleteInv
  BY RowsInit, CompleteInit
<1>2. RowsInv /\ CompleteInv /\ [Next]_vars => RowsInv' /\ CompleteInv'
  BY RowsStep, CompleteStep
<1> QED BY <1>1, <1>2, PTL DEF Spec

LEMMA CompleteInvHolds == RowsInv /\ CompleteInv => ClosedHoldsAppendedRows
<1> SUFFICES ASSUME RowsInv, CompleteInv, closed, NEW s \in DOMAIN sheets,
                    stream[s] \in {"good", "closed"}
             PROVE  /\ DOMAIN package.rows[s] = DOMAIN appended[s]
                    /\ \A k \in DOMAIN appended[s] :
                          /\ package.rows[s][k] # Torn
                          /\ package.rows[s][k].r = k
                          /\ ReadRow(package.values, package.rows[s][k]) = handed[s][appended[s][k]]
  BY DEF ClosedHoldsAppendedRows
<1>1. s \in Sheets
  <2>1. Len(sheets) \in Nat /\ DOMAIN sheets = 1 .. Len(sheets) /\ Len(sheets) <= MaxSheets
    BY DEF RowsInv, TypeOK
  <2> QED BY <2>1, WriterBounds DEF Sheets
<1>2. package.rows = body /\ pending[s] = <<>>
  BY <1>1 DEF RowsInv, PackageFinal
<1>3. Complete(body[s], <<>>, appended[s])
  BY <1>1, <1>2 DEF CompleteInv, SheetsComplete
<1>4. /\ Len(appended[s]) = Len(body[s])
      /\ body[s] \in Seq(XmlRows \cup {Torn}) /\ appended[s] \in Seq(Nat)
  BY <1>1, <1>3 DEF Complete, RowsInv, TypeOK
<1>5. DOMAIN body[s] = DOMAIN appended[s]
  BY <1>4
<1>6. ASSUME NEW k \in DOMAIN appended[s]
      PROVE  /\ body[s][k] # Torn /\ body[s][k].r = k
             /\ ReadRow(package.values, body[s][k]) = handed[s][appended[s][k]]
  <2>1. /\ body[s][k] # Torn /\ body[s][k].r = k /\ appended[s][k] = k
    BY <1>3, <1>5 DEF Complete
  <2>2. ReadRow(package.values, body[s][k]) = handed[s][k]
    BY <1>2, <1>5, <2>1, RowsInvReads DEF RowsReadAsHanded
  <2> QED BY <2>1, <2>2
<1> QED BY <1>2, <1>5, <1>6

\* A closed workbook holds, of every sheet whose stream never failed, exactly the
\* rows whose append returned, in order and numbered from 1, whatever failed
\* elsewhere and however often close() had to be tried.
THEOREM ClosedIsComplete == Spec => []ClosedHoldsAppendedRows
BY CompleteInvariant, CompleteInvHolds, PTL

-----------------------------------------------------------------------------
(***************************************************************************)
(* What close() writes ahead of the rows.  The counters are advanced before *)
(* a row is formatted, so they cover the rows that were counted, whether    *)
(* these reached the file or not, and every row in a file was counted.      *)
(***************************************************************************)

\* The counters of a sheet take the cell into account.
Within(s, cell) == /\ cell[1] <= max_column[s]
                   /\ cell[2] = Formula => has_formula[s]

RowsWithin ==
    \A s \in Sheets : \A n \in DOMAIN handed[s] :
        \A i \in DOMAIN handed[s][n] : Within(s, handed[s][n][i])

\* No counter moves after a close() that succeeded.
CountersFinal ==
    closed => /\ \A s \in Sheets : package.dimensions[s] = Dimension(row_count[s], max_column[s])
              /\ package.full_calc_on_load = \E s \in DOMAIN sheets : has_formula[s]
              /\ package.count = count

DimensionInv == RowsWithin /\ CountersFinal

\* The last cell of a row is the rightmost one.
LEMMA MaxColumnCovers ==
    ASSUME NEW max \in Nat, NEW cells \in Rows, NEW i \in DOMAIN cells
    PROVE  cells[i][1] <= MaxColumn(max, cells)
<1>1. cells \in Seq(Columns \X Cells) /\ i \in 1 .. Len(cells) /\ Len(cells) \in Nat
  BY RowsAssumption
<1> DEFINE last == Len(cells)
<1>2. last \in DOMAIN cells /\ cells # <<>>
  BY <1>1
<1>3. cells[i][1] \in Nat /\ cells[last][1] \in Nat
  BY <1>1, <1>2 DEF Columns
<1>4. cells[i][1] <= cells[last][1]
  <2>1. CASE i = last
    BY <1>3, <2>1
  <2>2. CASE i # last
    <3>1. i < last
      BY <1>1, <2>2
    <3>2. cells[i][1] < cells[last][1]
      BY <1>1, <1>2, <3>1, ColumnsAssumption
    <3> QED BY <1>3, <3>2
  <2> QED BY <2>1, <2>2
<1> QED BY <1>2, <1>3, <1>4 DEF MaxColumn

\* What the counters had before, they still have.
LEMMA MaxColumnGrows ==
    ASSUME NEW max \in Nat, NEW cells \in Rows
    PROVE  max <= MaxColumn(max, cells) /\ MaxColumn(max, cells) \in Nat
<1>1. cells \in Seq(Columns \X Cells)
  BY RowsAssumption
<1>2. CASE cells = <<>>
  BY <1>2 DEF MaxColumn
<1>3. CASE cells # <<>>
  <2>1. Len(cells) \in DOMAIN cells
    BY <1>1, <1>3
  <2>2. cells[Len(cells)][1] \in Nat
    BY <1>1, <2>1 DEF Columns
  <2> QED BY <2>2 DEF MaxColumn
<1> QED BY <1>2, <1>3

LEMMA WithinStart ==
    ASSUME TypeOK, RowsWithin, NEW s \in Sheets, NEW cells \in Rows, StartRow(s, cells)
    PROVE  RowsWithin'
<1>1. /\ max_column' = [max_column EXCEPT ![s] = MaxColumn(max_column[s], cells)]
      /\ has_formula' = [has_formula EXCEPT ![s] =
                            has_formula[s] \/ \E i \in DOMAIN cells : cells[i][2] = Formula]
      /\ handed' = [handed EXCEPT ![s] = Append(handed[s], cells)]
  BY DEF StartRow
<1>2. max_column[s] \in Nat /\ handed[s] \in Seq(Rows)
  BY DEF TypeOK
<1> SUFFICES ASSUME NEW x \in Sheets, NEW n \in DOMAIN handed'[x], NEW i \in DOMAIN handed'[x][n]
             PROVE  /\ handed'[x][n][i][1] <= max_column'[x]
                    /\ handed'[x][n][i][2] = Formula => has_formula'[x]
  BY DEF RowsWithin, Within
<1>3. CASE x # s
  <2>1. /\ handed'[x] = handed[x] /\ max_column'[x] = max_column[x]
        /\ has_formula'[x] = has_formula[x]
    BY <1>1, <1>3 DEF TypeOK
  <2> QED BY <2>1 DEF RowsWithin, Within
<1>4. CASE x = s
  <2>1. /\ handed'[s] = Append(handed[s], cells)
        /\ max_column'[s] = MaxColumn(max_column[s], cells)
        /\ has_formula'[s] = (has_formula[s] \/ \E j \in DOMAIN cells : cells[j][2] = Formula)
    BY <1>1 DEF TypeOK
  <2>2. CASE n \in DOMAIN handed[s]
    <3>1. handed'[s][n] = handed[s][n]
      BY <1>2, <2>1, <2>2
    <3> DEFINE cell == handed[s][n][i]
    <3>2. cell[1] <= max_column[s] /\ (cell[2] = Formula => has_formula[s])
      BY <1>4, <2>2, <3>1 DEF RowsWithin, Within
    <3>3. cell[1] \in Nat
      <4>1. handed[s][n] \in Seq(Columns \X Cells)
        BY <1>2, <2>2, RowsAssumption
      <4> QED BY <1>4, <3>1, <4>1 DEF Columns
    <3> HIDE DEF cell
    <3>4. cell[1] <= max_column'[s]
      BY <1>2, <2>1, <3>2, <3>3, MaxColumnGrows
    <3> QED BY <1>4, <2>1, <3>1, <3>2, <3>4 DEF cell
  <2>3. CASE n = Len(handed[s]) + 1
    <3>1. handed'[s][n] = cells
      BY <1>2, <2>1, <2>3
    <3> QED BY <1>2, <1>4, <2>1, <3>1, MaxColumnCovers
  <2> QED BY <1>2, <1>4, <2>1, <2>2, <2>3
<1> QED BY <1>3, <1>4

LEMMA DimensionInit == Init => DimensionInv
<1> SUFFICES ASSUME Init PROVE DimensionInv
  OBVIOUS
<1>1. \A s \in Sheets : handed[s] = <<>>
  BY DEF Init
<1>2. RowsWithin
  BY <1>1 DEF RowsWithin
<1>3. ~ closed
  BY DEF Init
<1> QED BY <1>2, <1>3 DEF DimensionInv, CountersFinal

THEOREM DimensionStep == RowsInv /\ DimensionInv /\ [Next]_vars => DimensionInv'
<1> SUFFICES ASSUME RowsInv, DimensionInv, [Next]_vars PROVE DimensionInv'
  OBVIOUS
<1> USE DEF DimensionInv
<1>1. TypeOK /\ (closed => row = Nothing)
  BY DEF RowsInv, PackageFinal
<1>2. ASSUME NEW name \in Names, AddWorksheet(name) PROVE DimensionInv'
  BY <1>2 DEF AddWorksheet, Mutable, counters, histories, RowsWithin, Within, CountersFinal
<1>3. ASSUME NEW s \in Sheets, NEW cells \in Rows, StartRow(s, cells) PROVE DimensionInv'
  <2>1. CountersFinal'
    BY <1>3 DEF StartRow, Mutable, CountersFinal
  <2> QED BY <1>1, <1>3, <2>1, WithinStart
<1>4. CASE WriteCell
  BY <1>1, <1>4 DEF WriteCell, counters, histories, RowsWithin, Within, CountersFinal
<1>5. CASE EndRow \/ EndRowFails \/ EndRowRefused
  <2>1. UNCHANGED <<sheets, row_count, max_column, has_formula, count, handed, closed, package>>
    BY <1>5 DEF EndRow, EndRowFails, EndRowRefused, counters, strings, histories
  <2> QED BY <2>1 DEF RowsWithin, Within, CountersFinal
<1>6. CASE Close
  <2>1. UNCHANGED <<sheets, row_count, max_column, has_formula, count, handed>>
    BY <1>6 DEF Close, counters, strings, histories
  <2>2. package' = Package(body')
    BY <1>6 DEF Close
  <2>3. /\ package'.dimensions = [s \in Sheets |-> Dimension(row_count[s], max_column[s])]
        /\ package'.full_calc_on_load = \E s \in DOMAIN sheets : has_formula[s]
        /\ package'.count = count
    BY <2>2 DEF Package
  <2> QED BY <2>1, <2>3 DEF RowsWithin, Within, CountersFinal
<1>7. CASE CloseFails
  BY <1>7 DEF CloseFails, counters, strings, histories, RowsWithin, Within, CountersFinal
<1>8. CASE UNCHANGED vars
  BY <1>8 DEF vars, counters, strings, histories, RowsWithin, Within, CountersFinal
<1> QED BY <1>2, <1>3, <1>4, <1>5, <1>6, <1>7, <1>8 DEF Next

LEMMA DimensionInvHolds == RowsInv /\ DimensionInv => DimensionCoversRows
<1> SUFFICES ASSUME RowsInv, DimensionInv, closed, NEW s \in DOMAIN sheets,
                    NEW k \in DOMAIN package.rows[s], package.rows[s][k] # Torn
             PROVE  LET xml == package.rows[s][k] IN
                    \A i \in DOMAIN xml.cells :
                       /\ xml.r <= package.dimensions[s][1]
                       /\ xml.cells[i][1] <= package.dimensions[s][2]
                       /\ xml.cells[i][2] = Formula => package.full_calc_on_load
  BY DEF DimensionCoversRows
<1>1. s \in Sheets
  <2>1. Len(sheets) \in Nat /\ DOMAIN sheets = 1 .. Len(sheets) /\ Len(sheets) <= MaxSheets
    BY DEF RowsInv, TypeOK
  <2> QED BY <2>1, WriterBounds DEF Sheets
<1>2. /\ package.rows = body
      /\ package.dimensions[s] = Dimension(row_count[s], max_column[s])
      /\ package.full_calc_on_load = \E x \in DOMAIN sheets : has_formula[x]
  BY <1>1 DEF RowsInv, PackageFinal, DimensionInv, CountersFinal
<1> DEFINE xml == body[s][k]
<1>3. GoodRow(s, xml) /\ xml \in XmlRows
  BY <1>1, <1>2 DEF RowsInv, RowsGood, TypeOK
<1> HIDE DEF xml
<1>4. xml.r \in Nat /\ xml.r <= row_count[s] /\ row_count[s] \in Nat /\ max_column[s] \in Nat
  BY <1>1, <1>3 DEF GoodRow, RowsInv, RowCounted, TypeOK, XmlRows
<1>5. ASSUME NEW i \in DOMAIN xml.cells
      PROVE  /\ xml.cells[i][1] \in Columns /\ xml.cells[i][1] <= max_column[s]
             /\ xml.cells[i][2] = Formula => has_formula[s]
             /\ xml.r # 0
  <2> DEFINE cells == handed[s][xml.r]
             cell == xml.cells[i]
  <2>1. /\ xml.r \in DOMAIN handed[s]
        /\ Len(xml.cells) = Len(cells)
        /\ Readable(values, cell) /\ Read(values, cell) = cells[i]
    BY <1>3 DEF GoodRow, SaysSame
  <2>2. cells \in Seq(Columns \X Cells) /\ xml.cells \in Seq(Written)
    BY <1>1, <1>3, <2>1, RowsAssumption DEF XmlRows, RowsInv, TypeOK
  <2>3. i \in DOMAIN cells
    BY <2>1, <2>2
  <2>4. Within(s, cells[i])
    BY <1>1, <2>1, <2>3 DEF DimensionInv, RowsWithin
  <2>5. cell \in Written
    BY <2>2
  <2>6. cells[i][1] = cell[1]
    BY <2>1, <2>5 DEF Read, Written
  <2>7. cell[2] \in Cells => cells[i] = cell
    BY <2>1 DEF Read
  <2>8. Formula \in Cells
    BY DEF Cells
  <2>9. xml.r # 0
    BY <1>1, <2>1 DEF RowsInv, TypeOK
  <2>10. cell[1] \in Columns
    BY <2>5 DEF Written
  <2> HIDE DEF cells, cell
  <2> QED BY <2>4, <2>6, <2>7, <2>8, <2>9, <2>10 DEF Within, cell
\* A cell makes both counters positive: its sheet's dimension is not plain A1.
<1>6. ASSUME NEW i \in DOMAIN xml.cells
      PROVE  Dimension(row_count[s], max_column[s]) = <<row_count[s], max_column[s]>>
  <2>1. row_count[s] # 0
    BY <1>4, <1>5
  <2>2. xml.cells[i][1] \in Nat /\ xml.cells[i][1] # 0 /\ xml.cells[i][1] <= max_column[s]
    BY <1>5 DEF Columns
  <2>3. max_column[s] # 0
    BY <1>4, <2>2
  <2> QED BY <2>1, <2>3 DEF Dimension
<1> QED BY <1>2, <1>4, <1>5, <1>6 DEF xml

\* Whatever failed between appending and closing, the dimension written before
\* the rows covers every cell in them, and a formula in any row, written or not,
\* makes Excel calculate on loading.
THEOREM DimensionCovers == Spec => []DimensionCoversRows
<1>1. Init => RowsInv /\ DimensionInv
  BY RowsInit, DimensionInit
<1>2. RowsInv /\ DimensionInv /\ [Next]_vars => RowsInv' /\ DimensionInv'
  BY RowsStep, DimensionStep
<1> QED BY <1>1, <1>2, DimensionInvHolds, PTL DEF Spec

-----------------------------------------------------------------------------
(***************************************************************************)
(* The sharedStrings part.  count is compared with the cells that hold an  *)
(* index wherever they are: in a file, in a buffer or in the row being     *)
(* formatted.  Each such cell has been counted once, as long as no stream  *)
(* fails and writes its buffer a second time.                              *)
(***************************************************************************)

TextsDistinct == \A i, j \in DOMAIN values : values[i] = values[j] => i = j

NeverFailed == \A s \in DOMAIN sheets : stream[s] \in {"good", "closed"}

\* The rows of a sheet, the one in the making included.
Making(s) == IF row # Nothing /\ row.sheet = s THEN <<RowXml>> ELSE <<>>
AllRows(s) == body[s] \o pending[s] \o Making(s)

Uses ==
    UNION {UNION {{<<s, k, i>> : i \in Indexed(AllRows(s)[k])} :
                  k \in DOMAIN AllRows(s)} : s \in Sheets}

UsesCounted ==
    NeverFailed => /\ IsFiniteSet(Uses)
                   /\ Cardinality(Uses) <= count

TableInv == TextsDistinct /\ UsesCounted

LEMMA UsesMember ==
    ASSUME NEW u
    PROVE  u \in Uses <=> \E s \in Sheets : \E k \in DOMAIN AllRows(s) :
                             \E i \in Indexed(AllRows(s)[k]) : u = <<s, k, i>>
BY DEF Uses

\* A new text is appended where no text equals it.
LEMMA DistinctCell ==
    ASSUME TypeOK, TextsDistinct, WriteCell
    PROVE  TextsDistinct'
<1> DEFINE text == row.cells[Len(row.done) + 1][2]
           index == SharedStringIndex(text)
<1>1. values \in Seq(Texts)
  BY DEF TypeOK
<1>2. \/ values' = values
      \/ /\ values' = Append(values, text) /\ index > Len(values) /\ text \in Texts
  BY DEF WriteCell, strings
<1>3. CASE values' = values
  BY <1>3 DEF TextsDistinct
<1>4. CASE values' = Append(values, text) /\ index > Len(values) /\ text \in Texts
  <2>1. \A i \in DOMAIN values : values[i] # text
    <3> SUFFICES ASSUME NEW i \in DOMAIN values, values[i] = text PROVE FALSE
      OBVIOUS
    <3>1. index \in DOMAIN values
      BY DEF SharedStringIndex
    <3> QED BY <1>1, <1>4, <3>1
  <2> HIDE DEF text, index
  <2> SUFFICES ASSUME NEW i \in DOMAIN values', NEW j \in DOMAIN values', values'[i] = values'[j]
               PROVE  i = j
    BY DEF TextsDistinct
  <2>2. /\ DOMAIN values' = 1 .. Len(values) + 1 /\ values'[Len(values) + 1] = text
        /\ \A k \in DOMAIN values : values'[k] = values[k]
    BY <1>1, <1>4
  <2>3. DOMAIN values = 1 .. Len(values) /\ Len(values) \in Nat
    BY <1>1
  <2> QED BY <2>1, <2>2, <2>3 DEF TextsDistinct
<1> QED BY <1>2, <1>3, <1>4

\* Rows that move from the making to the buffer or from there to the file are
\* the same rows.
LEMMA MovedRows ==
    ASSUME NEW S, NEW file \in Seq(S), NEW buffer \in Seq(S), NEW xml \in S
    PROVE  /\ file \o Append(buffer, xml) \in Seq(S)
           /\ file \o buffer \o <<xml>> = file \o Append(buffer, xml)
<1>1. Append(buffer, xml) \in Seq(S) /\ <<xml>> \in Seq(S)
  OBVIOUS
<1>2. Append(buffer, xml) = buffer \o <<xml>>
  OBVIOUS
<1>3. file \o (buffer \o <<xml>>) = file \o buffer \o <<xml>>
  OBVIOUS
<1> QED BY <1>1, <1>2, <1>3

\* Uses of rows that are no others than before.
LEMMA SameRowsSameUses ==
    ASSUME \A s \in Sheets : AllRows(s)' = AllRows(s)
    PROVE  Uses' = Uses
BY DEF Uses, Indexed

LEMMA ConcatDomain ==
    ASSUME NEW S, NEW s1 \in Seq(S), NEW s2 \in Seq(S)
    PROVE  /\ DOMAIN (s1 \o s2) = 1 .. Len(s1) + Len(s2)
           /\ \A k \in 1 .. Len(s1) : (s1 \o s2)[k] = s1[k]
OBVIOUS

\* The row in the making is the last one.
LEMMA LastRow ==
    ASSUME NEW S, NEW file \in Seq(S), NEW buffer \in Seq(S), NEW making \in Seq(S)
    PROVE  /\ Len(file) + Len(buffer) \in Nat
           /\ DOMAIN (file \o buffer \o making) = 1 .. Len(file) + Len(buffer) + Len(making)
           /\ \A k \in 1 .. Len(file) + Len(buffer) :
                 (file \o buffer \o making)[k] = (file \o buffer)[k]
           /\ Len(making) = 1 =>
                 (file \o buffer \o making)[Len(file) + Len(buffer) + 1] = making[1]
BY ConcatDomain, ConcatProperties

FileRows == XmlRows \cup {Torn}

MakingKnown ==
    \A s \in Sheets :
        /\ body[s] \in Seq(FileRows) /\ pending[s] \in Seq(FileRows)
        /\ Making(s) \in Seq(FileRows)
        /\ IF row # Nothing /\ row.sheet = s
           THEN Len(Making(s)) = 1 /\ Making(s)[1] = RowXml ELSE Len(Making(s)) = 0

LEMMA MakingType == TypeOK => MakingKnown
<1> SUFFICES ASSUME TypeOK, NEW s \in Sheets
             PROVE  /\ body[s] \in Seq(FileRows) /\ pending[s] \in Seq(FileRows)
                    /\ Making(s) \in Seq(FileRows)
                    /\ IF row # Nothing /\ row.sheet = s
                       THEN Len(Making(s)) = 1 /\ Making(s)[1] = RowXml ELSE Len(Making(s)) = 0
  BY DEF MakingKnown
<1>1. body[s] \in Seq(FileRows) /\ pending[s] \in Seq(FileRows)
  BY XmlSeqs DEF TypeOK, FileRows
<1>2. CASE row # Nothing /\ row.sheet = s
  <2>1. RowXml \in FileRows /\ Making(s) = <<RowXml>>
    BY <1>2, RowXmlType DEF Making, FileRows
  <2> QED BY <1>1, <1>2, <2>1
<1>3. CASE ~ (row # Nothing /\ row.sheet = s)
  <2>1. Making(s) = <<>>
    BY <1>3 DEF Making
  <2> QED BY <1>1, <1>3, <2>1
<1> QED BY <1>2, <1>3

\* Steps that leave files and buffers alone change the row in the making only.
OnlyNewUse(new) ==
    row' # Nothing =>
       /\ row # Nothing => row'.sheet = row.sheet
       /\ \A i \in Indexed(RowXml)' :
             \/ row # Nothing /\ i \in Indexed(RowXml)
             \/ new = <<row'.sheet,
                        Len(body[row'.sheet]) + Len(pending[row'.sheet]) + 1, i>>

LEMMA MakingUses ==
    ASSUME TypeOK, TypeOK', UNCHANGED <<body, pending>>, NEW new, OnlyNewUse(new)
    PROVE  Uses' \subseteq Uses \cup {new}
<1> SUFFICES ASSUME NEW u \in Uses' PROVE u \in Uses \/ u = new
  OBVIOUS
<1>1. PICK s \in Sheets : \E k \in DOMAIN AllRows(s)' :
                             \E i \in Indexed(AllRows(s)'[k]) : u = <<s, k, i>>
  BY DEF Uses, Indexed
<1>2. PICK k \in DOMAIN AllRows(s)' : \E i \in Indexed(AllRows(s)'[k]) : u = <<s, k, i>>
  BY <1>1
<1>3. PICK i \in Indexed(AllRows(s)'[k]) : u = <<s, k, i>>
  BY <1>2
<1> DEFINE before == Len(body[s]) + Len(pending[s])
           whole == body[s] \o pending[s]
           now == AllRows(s)'
<1>4. /\ before \in Nat
      /\ \A j \in 1 .. before : AllRows(s)[j] = whole[j]
      /\ row # Nothing /\ row.sheet = s => /\ DOMAIN AllRows(s) = 1 .. before + 1
                                           /\ AllRows(s)[before + 1] = RowXml
      /\ 1 .. before \subseteq DOMAIN AllRows(s)
  <2>1. /\ body[s] \in Seq(FileRows) /\ pending[s] \in Seq(FileRows)
        /\ Making(s) \in Seq(FileRows)
    BY MakingType DEF MakingKnown
  <2>2. row # Nothing /\ row.sheet = s => Len(Making(s)) = 1 /\ Making(s)[1] = RowXml
    BY MakingType DEF MakingKnown
  <2>3. PICK f \in Seq(FileRows), b \in Seq(FileRows), m \in Seq(FileRows) :
           f = body[s] /\ b = pending[s] /\ m = Making(s)
    BY <2>1
  <2>4. AllRows(s) = f \o b \o m /\ before = Len(f) + Len(b) /\ whole = f \o b
    BY <2>3 DEF AllRows
  <2> HIDE DEF before, whole
  <2>5. /\ before \in Nat
        /\ DOMAIN AllRows(s) = 1 .. before + Len(m)
        /\ \A j \in 1 .. before : AllRows(s)[j] = whole[j]
        /\ Len(m) = 1 => AllRows(s)[before + 1] = m[1]
    BY <2>4, LastRow
  <2>6. 1 .. before \subseteq DOMAIN AllRows(s)
    <3>1. Len(m) \in Nat
      OBVIOUS
    <3> QED BY <2>5, <3>1
  <2> QED BY <2>2, <2>3, <2>5, <2>6
<1>5. /\ \A j \in 1 .. before : now[j] = whole[j]
      /\ row' # Nothing /\ row'.sheet = s => /\ DOMAIN now = 1 .. before + 1
                                             /\ now[before + 1] = RowXml'
      /\ ~ (row' # Nothing /\ row'.sheet = s) => DOMAIN now = 1 .. before
  <2>1. MakingKnown'
    BY MakingType, PTL
  <2>2. /\ body[s] \in Seq(FileRows) /\ pending[s] \in Seq(FileRows)
        /\ Making(s)' \in Seq(FileRows)
    BY <2>1 DEF MakingKnown
  <2>3. /\ row' # Nothing /\ row'.sheet = s => Len(Making(s)') = 1 /\ Making(s)'[1] = RowXml'
        /\ ~ (row' # Nothing /\ row'.sheet = s) => Len(Making(s)') = 0
    BY <2>1 DEF MakingKnown
  <2>4. PICK f \in Seq(FileRows), b \in Seq(FileRows), m \in Seq(FileRows) :
           f = body[s] /\ b = pending[s] /\ m = Making(s)'
    BY <2>2
  <2>5. now = f \o b \o m /\ before = Len(f) + Len(b) /\ whole = f \o b
    BY <2>4 DEF AllRows
  <2> HIDE DEF before, whole, now
  <2>6. /\ before \in Nat
        /\ DOMAIN now = 1 .. before + Len(m)
        /\ \A j \in 1 .. before : now[j] = whole[j]
        /\ Len(m) = 1 => now[before + 1] = m[1]
    BY <2>5, LastRow
  <2>7. CASE row' # Nothing /\ row'.sheet = s
    BY <2>3, <2>4, <2>6, <2>7
  <2>8. CASE ~ (row' # Nothing /\ row'.sheet = s)
    <3>1. DOMAIN now = 1 .. before
      BY <2>3, <2>4, <2>6, <2>8
    <3> QED BY <2>6, <2>8, <3>1, Zenon
  <2> QED BY <2>7, <2>8, Zenon
<1> HIDE DEF before, whole, now
<1>6. CASE k \in 1 .. before
  <2>1. k \in DOMAIN AllRows(s) /\ AllRows(s)[k] = now[k]
    BY <1>4, <1>5, <1>6
  <2> QED BY <1>3, <2>1, UsesMember DEF now
<1>7. CASE k \notin 1 .. before
  <2>1. row' # Nothing /\ row'.sheet = s /\ k = before + 1 /\ now[k] = RowXml'
    BY <1>2, <1>4, <1>5, <1>7 DEF now
  <2>5. /\ row # Nothing => row.sheet = s
        /\ \A j \in Indexed(RowXml)' :
              \/ row # Nothing /\ j \in Indexed(RowXml)
              \/ new = <<s, before + 1, j>>
    BY <2>1 DEF OnlyNewUse, before
  <2>2. i \in Indexed(RowXml)'
    BY <1>3, <2>1 DEF now, Indexed
  <2>3. CASE row # Nothing /\ i \in Indexed(RowXml)
    <3>1. row.sheet = s
      BY <2>3, <2>5
    <3>2. k \in DOMAIN AllRows(s) /\ AllRows(s)[k] = RowXml
      BY <1>4, <2>1, <2>3, <3>1
    <3> QED BY <1>3, <2>3, <3>2, UsesMember
  <2>4. CASE new = <<s, before + 1, i>>
    BY <1>3, <2>1, <2>4
  <2> QED BY <2>2, <2>3, <2>4, <2>5
<1> QED BY <1>6, <1>7

\* At most one more use, for which the count is advanced.
LEMMA OneMoreUse ==
    ASSUME NEW Old, IsFiniteSet(Old), NEW new, NEW Now, Now \subseteq Old \cup {new}
    PROVE  /\ IsFiniteSet(Now) /\ Cardinality(Now) <= Cardinality(Old) + 1
           /\ Cardinality(Now) \in Nat /\ Cardinality(Old) \in Nat
<1>1. /\ IsFiniteSet(Old \cup {new})
      /\ Cardinality(Old \cup {new}) = IF new \in Old THEN Cardinality(Old)
                                                      ELSE Cardinality(Old) + 1
  BY FS_AddElement
<1>2. IsFiniteSet(Now) /\ Cardinality(Now) <= Cardinality(Old \cup {new})
  BY <1>1, FS_Subset
<1>3. Cardinality(Now) \in Nat /\ Cardinality(Old) \in Nat
  BY <1>2, FS_CardinalityType
<1> QED BY <1>1, <1>2, <1>3

LEMMA FewerUses ==
    ASSUME NEW Old, IsFiniteSet(Old), NEW Now, Now \subseteq Old
    PROVE  /\ IsFiniteSet(Now) /\ Cardinality(Now) <= Cardinality(Old)
           /\ Cardinality(Now) \in Nat /\ Cardinality(Old) \in Nat
<1>1. IsFiniteSet(Now) /\ Cardinality(Now) <= Cardinality(Old)
  BY FS_Subset
<1> QED BY <1>1, FS_CardinalityType

\* A step after which no more cells are used than before it.
LEMMA NoMoreUses ==
    ASSUME UsesCounted, NeverFailed' => NeverFailed, NeverFailed' => Uses' \subseteq Uses,
           count \in Nat, count' = count
    PROVE  UsesCounted'
<1> SUFFICES ASSUME NeverFailed' PROVE IsFiniteSet(Uses') /\ Cardinality(Uses') <= count
  BY DEF UsesCounted
<1>1. IsFiniteSet(Uses) /\ Cardinality(Uses) <= count /\ Uses' \subseteq Uses
  BY DEF UsesCounted
<1>2. /\ IsFiniteSet(Uses') /\ Cardinality(Uses') <= Cardinality(Uses)
      /\ Cardinality(Uses') \in Nat /\ Cardinality(Uses) \in Nat
  BY <1>1, FewerUses
<1> QED BY <1>1, <1>2

LEMMA UsesStart ==
    ASSUME TypeOK, TypeOK', NEW s \in Sheets, NEW cells \in Rows, StartRow(s, cells)
    PROVE  Uses' \subseteq Uses
<1>1. UNCHANGED <<body, pending>> /\ row = Nothing /\ row'.done = <<>>
  BY DEF StartRow, Mutable, streams
<1>2. Indexed(RowXml)' = {}
  BY <1>1 DEF Indexed, RowXml
<1>3. \A u : OnlyNewUse(u)
  BY <1>1, <1>2 DEF OnlyNewUse
<1>4. Uses' \subseteq Uses \cup {1} /\ Uses' \subseteq Uses \cup {2}
  BY <1>1, <1>3, MakingUses
<1> QED BY <1>4

\* A cell that holds an index is one more use, and counted; no other cell is.
LEMMA UsesCell ==
    ASSUME TypeOK, TypeOK', WriteCell
    PROVE  \/ count' = count + 1 /\ \E new : Uses' \subseteq Uses \cup {new}
           \/ count' = count /\ Uses' \subseteq Uses
<1> DEFINE cell == row.cells[Len(row.done) + 1]
           index == SharedStringIndex(cell[2])
           new == <<row.sheet, Len(body[row.sheet]) + Len(pending[row.sheet]) + 1,
                    Len(row.done) + 1>>
<1>1. /\ UNCHANGED <<body, pending>> /\ row # Nothing /\ row'.sheet = row.sheet
      /\ row.done \in Seq(Written) /\ cell \in Columns \X Cells
  BY CellType DEF WriteCell, streams
<1>2. ASSUME NEW done, row'.done = Append(row.done, done), done \in Written,
             NEW i \in Indexed(RowXml)', i \notin Indexed(RowXml)
      PROVE  i = Len(row.done) + 1 /\ done[2] \notin Cells
  <2>1. i \in DOMAIN Append(row.done, done) /\ Append(row.done, done)[i][2] \notin Cells
    BY <1>2 DEF Indexed, RowXml
  <2>2. CASE i \in DOMAIN row.done
    <3>1. Append(row.done, done)[i] = row.done[i]
      BY <1>1, <1>2, <2>2
    <3> QED BY <1>2, <2>1, <2>2, <3>1 DEF Indexed, RowXml
  <2>3. CASE i = Len(row.done) + 1
    <3>1. Append(row.done, done)[i] = done
      BY <1>1, <1>2, <2>3
    <3> QED BY <2>1, <2>3, <3>1
  <2> QED BY <1>1, <1>2, <2>1, <2>2, <2>3
<1>3. CASE SharedStrings /\ cell[2] \in Texts
  <2>1. count' = Counted(index) /\ row'.done = Append(row.done, <<cell[1], index>>)
    BY <1>3 DEF WriteCell
  <2>2. index \in Nat
    BY IndexType DEF TypeOK
  <2>3. <<cell[1], index>> \in Written
    BY <1>1, <2>2 DEF Written
  <2>4. OnlyNewUse(new)
    BY <1>1, <1>2, <2>1, <2>3 DEF OnlyNewUse
  <2>5. Uses' \subseteq Uses \cup {new}
    BY <1>1, <2>4, MakingUses
  <2> QED BY <2>1, <2>5 DEF Counted
<1>4. CASE ~ (SharedStrings /\ cell[2] \in Texts)
  <2>1. count' = count /\ row'.done = Append(row.done, cell)
    BY <1>4 DEF WriteCell, strings
  <2>2. cell \in Written /\ cell[2] \in Cells
    BY <1>1 DEF Written
  <2>3. \A u : OnlyNewUse(u)
    BY <1>1, <1>2, <2>1, <2>2 DEF OnlyNewUse
  <2>4. Uses' \subseteq Uses \cup {1} /\ Uses' \subseteq Uses \cup {2}
    BY <1>1, <2>3, MakingUses
  <2> QED BY <2>1, <2>4
<1> QED BY <1>3, <1>4

LEMMA UsesEnd ==
    ASSUME TypeOK, EndRow
    PROVE  Uses' = Uses
<1>1. PICK s \in Sheets : s = row.sheet /\ RowXml \in FileRows /\ row # Nothing
  BY RowXmlType DEF EndRow, RowDone, FileRows
<1> DEFINE buffer == Append(pending[s], RowXml)
<1>2. /\ row' = Nothing
      /\ \/ pending' = [pending EXCEPT ![s] = buffer] /\ body' = body
         \/ /\ body' = [body EXCEPT ![s] = body[s] \o buffer]
            /\ pending' = [pending EXCEPT ![s] = <<>>]
  BY <1>1 DEF EndRow
<1>3. body[s] \in Seq(FileRows) /\ pending[s] \in Seq(FileRows)
  BY MakingType DEF MakingKnown
<1> SUFFICES ASSUME NEW x \in Sheets PROVE AllRows(x)' = AllRows(x)
  BY SameRowsSameUses
<1>4. Making(x)' = <<>> /\ Making(x) = IF x = s THEN <<RowXml>> ELSE <<>>
  BY <1>1, <1>2 DEF Making
<1>5. CASE x # s
  <2>1. body'[x] = body[x] /\ pending'[x] = pending[x]
    BY <1>2, <1>5 DEF TypeOK
  <2> QED BY <1>4, <1>5, <2>1 DEF AllRows
<1>6. CASE x = s
  <2>1. AllRows(x) = body[s] \o pending[s] \o <<RowXml>>
    BY <1>4, <1>6 DEF AllRows
  <2>2. \/ pending'[s] = buffer /\ body'[s] = body[s]
        \/ pending'[s] = <<>> /\ body'[s] = body[s] \o buffer
    BY <1>2 DEF TypeOK
  <2>3. AllRows(x)' = body'[s] \o pending'[s] \o <<>>
    BY <1>4, <1>6 DEF AllRows
  <2>4. PICK f \in Seq(FileRows), b \in Seq(FileRows), r \in FileRows :
           f = body[s] /\ b = pending[s] /\ r = RowXml
    BY <1>1, <1>3
  <2>5. /\ f \o b \o <<r>> = f \o Append(b, r) \o <<>>
        /\ f \o b \o <<r>> = (f \o Append(b, r)) \o <<>> \o <<>>
    <3>1. /\ f \o Append(b, r) \in Seq(FileRows)
          /\ f \o b \o <<r>> = f \o Append(b, r)
      BY MovedRows
    <3> DEFINE rows == f \o Append(b, r)
    <3>2. rows \o <<>> = rows
      BY <3>1, ConcatEmptySeq
    <3> QED BY <3>1, <3>2, Zenon
  <2>6. CASE pending'[s] = buffer /\ body'[s] = body[s]
    BY <2>1, <2>3, <2>4, <2>5, <2>6, Zenon
  <2>7. CASE pending'[s] = <<>> /\ body'[s] = body[s] \o buffer
    BY <2>1, <2>3, <2>4, <2>5, <2>7, Zenon
  <2> QED BY <2>2, <2>6, <2>7
<1> QED BY <1>5, <1>6

\* Bodies that could all be closed hold what they and their buffers held.
LEMMA UsesClose ==
    ASSUME TypeOK, SheetsFresh, CloseBodies, NeverFailed',
           row = Nothing, UNCHANGED <<sheets, row>>
    PROVE  NeverFailed /\ Uses' = Uses
<1>1. \A x \in Sheets : x \in DOMAIN sheets =>
         stream[x] \in {"good", "closed"} /\ body'[x] = body[x] \o pending[x]
  BY CloseBodiesRows DEF NeverFailed
<1>2. DOMAIN sheets \subseteq Sheets
  <2>1. Len(sheets) \in Nat /\ DOMAIN sheets = 1 .. Len(sheets) /\ Len(sheets) <= MaxSheets
    BY DEF TypeOK
  <2> QED BY <2>1, WriterBounds DEF Sheets
<1>3. NeverFailed
  BY <1>1, <1>2 DEF NeverFailed
<1>4. ASSUME NEW x \in Sheets PROVE AllRows(x)' = AllRows(x)
  <2>1. /\ body[x] \in Seq(FileRows) /\ pending[x] \in Seq(FileRows)
    BY MakingType DEF MakingKnown
  <2>2. Making(x) = <<>> /\ Making(x)' = <<>> /\ pending'[x] = <<>>
    BY CloseBodiesRows DEF Making
  <2>3. body'[x] = body[x] \o pending[x]
    <3>1. CASE x \in DOMAIN sheets
      BY <1>1, <3>1
    <3>2. CASE x \notin DOMAIN sheets
      <4>1. body[x] = <<>> /\ pending[x] = <<>>
        BY <3>2 DEF SheetsFresh
      <4>2. body'[x] = body[x] /\ body[x] \o pending[x] = <<>>
        <5>1. body'[x] = body[x]
          BY <4>1, CloseBodiesRows
        <5>2. <<>> \o <<>> = <<>>
          OBVIOUS
        <5> QED BY <4>1, <5>1, <5>2, Zenon
      <4> QED BY <4>1, <4>2
    <3> QED BY <3>1, <3>2
  <2>4. body[x] \o pending[x] \o <<>> = (body[x] \o pending[x]) \o <<>> \o <<>>
    <3>1. body[x] \o pending[x] \in Seq(FileRows)
      BY <2>1
    <3> QED BY <3>1, ConcatEmptySeq
  <2> QED BY <2>2, <2>3, <2>4 DEF AllRows
<1> QED BY <1>3, <1>4, SameRowsSameUses

LEMMA TableInit == Init => TableInv
<1> SUFFICES ASSUME Init PROVE TableInv
  OBVIOUS
<1>1. TextsDistinct
  BY DEF Init, TextsDistinct
<1>2. Uses = {}
  <2>1. \A s \in Sheets : AllRows(s) = <<>>
    <3>1. \A s \in Sheets : body[s] = <<>> /\ pending[s] = <<>> /\ Making(s) = <<>>
      BY DEF Init, Making
    <3>2. <<>> \o <<>> \o <<>> = <<>>
      OBVIOUS
    <3> QED BY <3>1, <3>2 DEF AllRows
  <2> QED BY <2>1 DEF Uses
<1>3. IsFiniteSet(Uses) /\ Cardinality(Uses) = 0 /\ count = 0
  BY <1>2, FS_EmptySet DEF Init
<1> QED BY <1>1, <1>3 DEF TableInv, UsesCounted

THEOREM TableStep == RowsInv /\ SheetsFresh /\ TableInv /\ [Next]_vars => TableInv'
<1> SUFFICES ASSUME RowsInv, SheetsFresh, TableInv, [Next]_vars PROVE TableInv'
  OBVIOUS
<1> USE DEF TableInv
<1>1. TypeOK /\ TypeOK' /\ count \in Nat
  BY TypeStep DEF RowsInv, TypeOK
<1>2. ASSUME UNCHANGED values PROVE TextsDistinct'
  BY <1>2 DEF TextsDistinct
<1>3. ASSUME UNCHANGED <<sheets, stream>> PROVE NeverFailed' = NeverFailed
  BY <1>3 DEF NeverFailed
<1>4. ASSUME NEW name \in Names, AddWorksheet(name) PROVE TableInv'
  <2>1. /\ UNCHANGED <<body, pending, stream, values, count, row, row_count>>
        /\ sheets' = Append(sheets, name) /\ sheets \in Seq(Names)
    BY <1>1, <1>4 DEF AddWorksheet, streams, strings, counters, TypeOK
  <2>2. NeverFailed' => NeverFailed
    <3>1. DOMAIN sheets \subseteq DOMAIN sheets'
      BY <2>1
    <3> QED BY <2>1, <3>1 DEF NeverFailed
  <2>3. Uses' = Uses
    <3>1. \A s \in Sheets : AllRows(s)' = AllRows(s)
      BY <2>1 DEF AllRows, Making, RowXml
    <3> QED BY <3>1, SameRowsSameUses
  <2> QED BY <1>1, <1>2, <2>1, <2>2, <2>3, NoMoreUses
<1>5. ASSUME NEW s \in Sheets, NEW cells \in Rows, StartRow(s, cells) PROVE TableInv'
  <2>1. UNCHANGED <<sheets, stream, values, count>>
    BY <1>5 DEF StartRow, streams, strings
  <2> QED BY <1>1, <1>2, <1>3, <1>5, <2>1, UsesStart, NoMoreUses
<1>6. CASE WriteCell
  <2>1. TextsDistinct'
    BY <1>1, <1>6, DistinctCell
  <2>2. NeverFailed' = NeverFailed
    BY <1>3, <1>6 DEF WriteCell, streams
  <2>3. CASE count' = count /\ Uses' \subseteq Uses
    BY <1>1, <2>1, <2>2, <2>3, NoMoreUses
  <2>4. ASSUME count' = count + 1, NEW new, Uses' \subseteq Uses \cup {new}
        PROVE  UsesCounted'
    <3> SUFFICES ASSUME NeverFailed PROVE IsFiniteSet(Uses') /\ Cardinality(Uses') <= count'
      BY <2>2 DEF UsesCounted
    <3>1. IsFiniteSet(Uses) /\ Cardinality(Uses) <= count
      BY DEF UsesCounted
    <3>2. /\ IsFiniteSet(Uses') /\ Cardinality(Uses') <= Cardinality(Uses) + 1
          /\ Cardinality(Uses') \in Nat /\ Cardinality(Uses) \in Nat
      BY <2>4, <3>1, OneMoreUse
    <3> QED BY <1>1, <2>4, <3>1, <3>2
  <2> QED BY <1>1, <1>6, <2>1, <2>3, <2>4, UsesCell
<1>7. CASE EndRow
  <2>1. UNCHANGED <<sheets, stream, values, count>>
    BY <1>7 DEF EndRow, strings
  <2>2. Uses' = Uses
    BY <1>1, <1>7, UsesEnd
  <2> QED BY <1>1, <1>2, <1>3, <2>1, <2>2, NoMoreUses
<1>8. CASE EndRowFails
  <2>1. /\ row # Nothing /\ row.sheet \in DOMAIN sheets
        /\ stream' = [stream EXCEPT ![row.sheet] = "bad"]
        /\ UNCHANGED <<sheets, values>>
    BY <1>8 DEF EndRowFails, RowDone, strings, SheetsFresh
  <2>2. row.sheet \in Sheets
    BY <1>1, <2>1, RowXmlType
  <2>3. stream'[row.sheet] = "bad"
    BY <1>1, <2>1, <2>2 DEF TypeOK
  <2>4. ~ NeverFailed'
    BY <2>1, <2>3 DEF NeverFailed
  <2> QED BY <1>2, <2>1, <2>4 DEF UsesCounted
<1>9. CASE EndRowRefused
  <2>1. UNCHANGED <<sheets, stream, values, count, body, pending>> /\ row' = Nothing
    BY <1>9 DEF EndRowRefused, streams, strings
  <2>2. \A u : OnlyNewUse(u)
    BY <2>1 DEF OnlyNewUse
  <2>3. Uses' \subseteq Uses \cup {1} /\ Uses' \subseteq Uses \cup {2}
    BY <1>1, <2>1, <2>2, MakingUses
  <2>4. Uses' \subseteq Uses
    BY <2>3
  <2> QED BY <1>1, <1>2, <1>3, <2>1, <2>4, NoMoreUses
<1>10. CASE Close \/ CloseFails
  <2>1. CloseBodies /\ row = Nothing /\ UNCHANGED <<sheets, row, values, count>>
    BY <1>10 DEF Close, CloseFails, Mutable, strings
  <2>2. NeverFailed' => NeverFailed /\ Uses' = Uses
    BY <1>1, <2>1, UsesClose
  <2> QED BY <1>1, <1>2, <2>1, <2>2, NoMoreUses
<1>11. CASE UNCHANGED vars
  <2>1. UNCHANGED <<sheets, stream, values, count, body, pending, row, row_count>>
    BY <1>11 DEF vars, streams, strings, counters
  <2>2. Uses' = Uses
    <3>1. \A s \in Sheets : AllRows(s)' = AllRows(s)
      BY <2>1 DEF AllRows, Making, RowXml
    <3> QED BY <3>1, SameRowsSameUses
  <2> QED BY <1>1, <1>2, <1>3, <2>1, <2>2, NoMoreUses
<1> QED BY <1>4, <1>5, <1>6, <1>7, <1>8, <1>9, <1>10, <1>11 DEF Next

LEMMA TableInvHolds == RowsInv /\ DimensionInv /\ TableInv => StringTableSound
<1> SUFFICES ASSUME RowsInv, DimensionInv, TableInv, closed PROVE
       /\ \A i, j \in DOMAIN package.values : package.values[i] = package.values[j] => i = j
       /\ NeverFailed => Cardinality(StringCells) <= package.count
  BY DEF StringTableSound, NeverFailed
<1>1. /\ package.rows = body /\ package.values = values /\ package.count = count
      /\ \A s \in Sheets : pending[s] = <<>> /\ Making(s) = <<>>
  BY DEF RowsInv, PackageFinal, DimensionInv, CountersFinal, Making
<1>2. StringCells = Uses
  <2>1. \A s \in Sheets : AllRows(s) = package.rows[s]
    <3> TAKE s \in Sheets
    <3>1. body[s] \in Seq(FileRows)
      BY DEF RowsInv, TypeOK, FileRows
    <3>2. body[s] \o <<>> \o <<>> = body[s]
      BY <3>1, ConcatEmptySeq
    <3> QED BY <1>1, <3>2 DEF AllRows
  <2> QED BY <2>1 DEF StringCells, Uses
<1> QED BY <1>1, <1>2 DEF TableInv, TextsDistinct, UsesCounted

\* The sharedStrings part lists each text once, and its count is at least the
\* number of cells that refer to it, whatever was appended between closes that
\* failed, as long as no stream did.
THEOREM StringTableCorrect == Spec => []StringTableSound
<1>1. Init => RowsInv /\ CompleteInv /\ DimensionInv /\ TableInv
  BY RowsInit, CompleteInit, DimensionInit, TableInit
<1>2. /\ RowsInv /\ CompleteInv /\ DimensionInv /\ TableInv /\ [Next]_vars
      => RowsInv' /\ CompleteInv' /\ DimensionInv' /\ TableInv'
  BY RowsStep, CompleteStep, DimensionStep, TableStep DEF CompleteInv
<1> QED BY <1>1, <1>2, TableInvHolds, PTL DEF Spec

-----------------------------------------------------------------------------
(* What is recorded beside rows leaves the writer of rows as it is.        *)

LEMMA RecordingStutters ==
    ASSUME PartStep
    PROVE  UNCHANGED vars \/ Close
BY DEF PartStep, AddExternalHyperlink, AddInternalHyperlink, AddTable, AddImage,
       AddDataValidation, AddColorScale, AddDataBar, AddIconSet, AddRule, Record, AddStyle,
       CloseWithParts

(* A writer that records parts is the writer of rows: what is proved of    *)
(* rows, dimensions and the string table holds with parts between them.    *)
THEOREM PartsLeaveRows == SpecWithParts => Spec
<1>1. InitWithParts => Init
  BY DEF InitWithParts
<1>2. [NextWithParts]_allvars => [Next]_vars
  <2>1. ASSUME RowStep PROVE Next
    BY <2>1 DEF RowStep, Next
  <2>2. ASSUME UNCHANGED allvars PROVE UNCHANGED vars
    BY <2>2 DEF allvars
  <2> QED BY <2>1, <2>2, RecordingStutters DEF NextWithParts, Next
<1> QED BY <1>1, <1>2, PTL DEF SpecWithParts, Spec

-----------------------------------------------------------------------------
(* Types.                                                                  *)

Lists == {"scales", "bars", "icons"}
Rules == ScaleRules \cup BarRules \cup IconRules
Ranked == [rule : Rules, priority : Nat]

Recordings ==
    [externals : Seq(Urls), internals : Seq(Locations), tables : Seq(Tables),
     images : Seq(Images), scales : Seq(Ranked), bars : Seq(Ranked), icons : Seq(Ranked),
     priority : Nat, validations : Seq(Validations)]

RecordsOK == /\ meta \in [Sheets -> Recordings]
             /\ ruled \in [Sheets -> Seq(Rules)]

LEMMA RecordsInit == InitParts => RecordsOK
<1> SUFFICES ASSUME InitParts PROVE RecordsOK
  OBVIOUS
<1>1. Unrecorded \in Recordings
  BY DEF Unrecorded, Recordings
<1> HIDE DEF Recordings
<1> QED BY <1>1 DEF InitParts, RecordsOK

\* A record of a sheet in which one field is replaced.
LEMMA RecordedType ==
    ASSUME NEW m \in Recordings
    PROVE  /\ \A q \in Seq(Urls) : [m EXCEPT !["externals"] = q] \in Recordings
           /\ \A q \in Seq(Locations) : [m EXCEPT !["internals"] = q] \in Recordings
           /\ \A q \in Seq(Tables) : [m EXCEPT !["tables"] = q] \in Recordings
           /\ \A q \in Seq(Images) : [m EXCEPT !["images"] = q] \in Recordings
           /\ \A q \in Seq(Validations) : [m EXCEPT !["validations"] = q] \in Recordings
           /\ \A q \in Seq(Ranked), list \in Lists, n \in Nat :
                 [m EXCEPT ![list] = q, !["priority"] = n] \in Recordings
<1>1. \A q \in Seq(Urls) : [m EXCEPT !["externals"] = q] \in Recordings
  BY DEF Recordings
<1>2. \A q \in Seq(Locations) : [m EXCEPT !["internals"] = q] \in Recordings
  BY DEF Recordings
<1>3. \A q \in Seq(Tables) : [m EXCEPT !["tables"] = q] \in Recordings
  BY DEF Recordings
<1>4. \A q \in Seq(Images) : [m EXCEPT !["images"] = q] \in Recordings
  BY DEF Recordings
<1>5. \A q \in Seq(Validations) : [m EXCEPT !["validations"] = q] \in Recordings
  BY DEF Recordings
<1>6. \A q \in Seq(Ranked), list \in Lists, n \in Nat :
         [m EXCEPT ![list] = q, !["priority"] = n] \in Recordings
  <2> TAKE q \in Seq(Ranked), list \in Lists, n \in Nat
  <2>1. CASE list = "scales" BY <2>1 DEF Recordings
  <2>2. CASE list = "bars" BY <2>2 DEF Recordings
  <2>3. CASE list = "icons" BY <2>3 DEF Recordings
  <2> QED BY <2>1, <2>2, <2>3 DEF Lists
<1> QED BY <1>1, <1>2, <1>3, <1>4, <1>5, <1>6

-----------------------------------------------------------------------------
(* The three lists of rules of a sheet hold, between them, every rule that *)
(* its calls added, each under the number of its call and in the order of  *)
(* the calls.  Merging them takes the numbers one after another.           *)

\* Rules n + 1, ... of r are spread over the lists of q.
Spread(q, r, n) ==
    /\ q \in [Lists -> Seq(Ranked)]
    /\ \A l \in Lists : \A i \in DOMAIN q[l] :
          /\ q[l][i].priority \in n + 1 .. Len(r)
          /\ q[l][i].rule = r[q[l][i].priority]
    /\ \A l \in Lists : \A i, j \in DOMAIN q[l] :
          i < j => q[l][i].priority < q[l][j].priority
    /\ \A l, o \in Lists : \A i \in DOMAIN q[l], j \in DOMAIN q[o] :
          q[l][i].priority = q[o][j].priority => l = o
    /\ \A p \in n + 1 .. Len(r) :
          \E l \in Lists : \E i \in DOMAIN q[l] : q[l][i].priority = p

\* The lists of a sheet hold the rules of r, and the next one follows them.
Ranking(m, r) ==
    /\ Spread([list \in Lists |-> m[list]], r, 0)
    /\ m.priority = Len(r) + 1
    /\ Len(m.scales) + Len(m.bars) + Len(m.icons) = Len(r)

\* The lowest number is at the head of a list, which NextRule picks.
LEMMA NextIsLowest ==
    ASSUME NEW q, NEW r \in Seq(Rules), NEW n \in Nat, n < Len(r), Spread(q, r, n)
    PROVE  /\ NextRule(q) \in Lists
           /\ q[NextRule(q)] # << >>
           /\ q[NextRule(q)][1].priority = n + 1
<1>1. PICK l \in Lists : \E i \in DOMAIN q[l] : q[l][i].priority = n + 1
  <2>1. n + 1 \in n + 1 .. Len(r) OBVIOUS
  <2> QED BY <2>1 DEF Spread
<1> PICK i \in DOMAIN q[l] : q[l][i].priority = n + 1
  BY <1>1
<1>2. \A o \in Lists : q[o] \in Seq(Ranked)
  BY DEF Spread
<1>3. \A o \in Lists : q[o] # << >> => 1 \in DOMAIN q[o] /\ q[o][1].priority >= n + 1
                                      /\ q[o][1].priority \in Nat
  <2> SUFFICES ASSUME NEW o \in Lists, q[o] # << >>
               PROVE  1 \in DOMAIN q[o] /\ q[o][1].priority >= n + 1
                      /\ q[o][1].priority \in Nat
    OBVIOUS
  <2>1. 1 \in DOMAIN q[o] BY <1>2
  <2>2. q[o][1].priority \in n + 1 .. Len(r) BY <2>1 DEF Spread
  <2> QED BY <2>1, <2>2
<1>4. q[l] # << >> /\ 1 \in DOMAIN q[l] /\ q[l][1].priority = n + 1
  <2>1. q[l] # << >> /\ 1 \in DOMAIN q[l] /\ i \in Nat /\ i >= 1 BY <1>2
  <2>2. CASE i = 1 BY <1>1, <2>1, <2>2
  <2>3. CASE 1 < i
    <3>1. q[l][1].priority < q[l][i].priority BY <2>1, <2>3 DEF Spread
    <3> QED BY <1>1, <1>3, <2>1, <3>1
  <2> QED BY <2>1, <2>2, <2>3
<1> DEFINE IsNext(o) == /\ q[o] # << >>
                      /\ \A p \in Lists : q[p] # << >> => q[o][1].priority <= q[p][1].priority
<1>5. IsNext(l)
  BY <1>3, <1>4
<1>6. NextRule(q) = CHOOSE o \in Lists : IsNext(o)
  BY DEF NextRule, Lists
<1>7. NextRule(q) \in Lists /\ IsNext(NextRule(q))
  <2> HIDE DEF IsNext
  <2> QED BY <1>5, <1>6
<1> QED BY <1>3, <1>4, <1>7

\* What is left once the head of a list is taken.
After(q) == [q EXCEPT ![NextRule(q)] = Tail(@)]

LEMMA SpreadStep ==
    ASSUME NEW q, NEW r \in Seq(Rules), NEW n \in Nat, n < Len(r), Spread(q, r, n)
    PROVE  /\ Spread(After(q), r, n + 1)
           /\ q[NextRule(q)][1].rule = r[n + 1]
<1> DEFINE l == NextRule(q)
           t == After(q)
<1>1. l \in Lists /\ q[l] # << >> /\ q[l][1].priority = n + 1
  BY NextIsLowest
<1>2. \A o \in Lists : q[o] \in Seq(Ranked)
  BY DEF Spread
<1>3. 1 \in DOMAIN q[l] /\ q[l][1].rule = r[n + 1]
  <2>1. 1 \in DOMAIN q[l] BY <1>1, <1>2
  <2> QED BY <1>1, <2>1 DEF Spread
<1>4. /\ t \in [Lists -> Seq(Ranked)]
      /\ t[l] = Tail(q[l])
      /\ \A o \in Lists \ {l} : t[o] = q[o]
  <2>1. q \in [Lists -> Seq(Ranked)] BY DEF Spread
  <2>2. Tail(q[l]) \in Seq(Ranked) BY <1>1, <1>2
  <2> HIDE DEF l
  <2>3. t = [q EXCEPT ![l] = Tail(q[l])] BY DEF After, l
  <2> HIDE DEF t
  <2> QED BY <1>1, <2>1, <2>2, <2>3
<1>5. /\ Len(t[l]) = Len(q[l]) - 1
      /\ \A i \in DOMAIN t[l] : i + 1 \in DOMAIN q[l] /\ t[l][i] = q[l][i + 1] /\ i \in Nat /\ i >= 1
  <2> HIDE DEF l, t
  <2> QED BY <1>1, <1>2, <1>4
\* A rule that is left was there, behind or beside the one that is taken.
<1>6. ASSUME NEW o \in Lists, NEW i \in DOMAIN t[o]
      PROVE  \E j \in DOMAIN q[o] : /\ t[o][i] = q[o][j]
                                    /\ j = IF o = l THEN i + 1 ELSE i
                                    /\ q[o][j].priority \in n + 2 .. Len(r)
                                    /\ q[o][j].rule = r[q[o][j].priority]
  <2>1. CASE o = l
    <3>1. i + 1 \in DOMAIN q[l] /\ t[l][i] = q[l][i + 1] /\ i \in Nat /\ 1 < i + 1
      BY <1>5, <2>1
    <3>2. q[l][1].priority < q[l][i + 1].priority
      <4> HIDE DEF l, t
      <4> QED BY <1>1, <1>3, <3>1 DEF Spread
    <3>3. /\ q[l][i + 1].priority \in n + 1 .. Len(r)
          /\ q[l][i + 1].rule = r[q[l][i + 1].priority]
      <4> HIDE DEF l, t
      <4> QED BY <1>1, <3>1 DEF Spread
    <3> HIDE DEF l, t
    <3> QED BY <1>1, <2>1, <3>1, <3>2, <3>3
  <2>2. CASE o # l
    <3>1. t[o] = q[o] BY <1>4, <2>2
    <3> HIDE DEF l, t
    <3>2. q[o][i].priority \in n + 1 .. Len(r) /\ q[o][i].rule = r[q[o][i].priority]
      BY <3>1 DEF Spread
    <3>3. q[o][i].priority # n + 1
      BY <1>1, <1>3, <2>2, <3>1 DEF Spread
    <3> QED BY <2>2, <3>1, <3>2, <3>3
  <2> QED BY <2>1, <2>2
<1>7. \A o \in Lists : \A i \in DOMAIN t[o] :
         /\ t[o][i].priority \in (n + 1) + 1 .. Len(r)
         /\ t[o][i].rule = r[t[o][i].priority]
  <2> HIDE DEF l, t
  <2> QED BY <1>6
<1>8. \A o \in Lists : \A i, j \in DOMAIN t[o] :
         i < j => t[o][i].priority < t[o][j].priority
  <2> SUFFICES ASSUME NEW o \in Lists, NEW i \in DOMAIN t[o], NEW j \in DOMAIN t[o], i < j
               PROVE  t[o][i].priority < t[o][j].priority
    OBVIOUS
  <2> HIDE DEF l, t
  <2>1. CASE o = l
    <3>1. /\ i + 1 \in DOMAIN q[l] /\ j + 1 \in DOMAIN q[l] /\ i + 1 < j + 1
          /\ t[l][i] = q[l][i + 1] /\ t[l][j] = q[l][j + 1]
      BY <1>5, <2>1
    <3> QED BY <1>1, <2>1, <3>1 DEF Spread
  <2>2. CASE o # l
    BY <1>4, <2>2 DEF Spread
  <2> QED BY <2>1, <2>2
<1>9. \A o, p \in Lists : \A i \in DOMAIN t[o], j \in DOMAIN t[p] :
         t[o][i].priority = t[p][j].priority => o = p
  <2> SUFFICES ASSUME NEW o \in Lists, NEW p \in Lists, NEW i \in DOMAIN t[o],
                      NEW j \in DOMAIN t[p], t[o][i].priority = t[p][j].priority
               PROVE  o = p
    OBVIOUS
  <2> HIDE DEF l, t
  <2>1. PICK k \in DOMAIN q[o] : t[o][i] = q[o][k] BY <1>6
  <2>2. PICK h \in DOMAIN q[p] : t[p][j] = q[p][h] BY <1>6
  <2> QED BY <2>1, <2>2 DEF Spread
<1>10. ASSUME NEW p \in (n + 1) + 1 .. Len(r)
       PROVE  \E o \in Lists : \E i \in DOMAIN t[o] : t[o][i].priority = p
  <2> HIDE DEF l, t
  <2>1. PICK o \in Lists : \E i \in DOMAIN q[o] : q[o][i].priority = p
    <3>1. p \in n + 1 .. Len(r) OBVIOUS
    <3> QED BY <3>1 DEF Spread
  <2>2. PICK i \in DOMAIN q[o] : q[o][i].priority = p
    BY <2>1
  <2>3. CASE o = l
    <3>1. i # 1 /\ i \in 1 .. Len(q[l]) BY <1>1, <1>2, <2>2, <2>3
    <3>2. i - 1 \in DOMAIN t[l] /\ (i - 1) + 1 = i
      BY <1>1, <1>2, <1>4, <1>5, <3>1
    <3>3. t[l][i - 1] = q[l][i] BY <1>5, <3>2
    <3> QED BY <2>2, <2>3, <3>2, <3>3
  <2>4. CASE o # l
    BY <1>4, <2>2, <2>4
  <2> QED BY <2>3, <2>4
<1> HIDE DEF l, t
<1>11. Spread(t, r, n + 1)
  BY <1>4, <1>7, <1>8, <1>9, <1>10 DEF Spread
<1> QED BY <1>3, <1>11 DEF l, t

\* The state of the merge: what is left of the lists and what is written.
Merging == [rest : [Lists -> Seq(Ranked)], written : Seq(Rules)]
MergeStart(m) == [rest |-> [list \in Lists |-> m[list]], written |-> << >>]
Ready(x) == NextRule(x.rest) \in Lists /\ x.rest[NextRule(x.rest)] # << >>
Taken(x) == [rest |-> After(x.rest),
             written |-> Append(x.written, x.rest[NextRule(x.rest)][1].rule)]

\* Any run of the merge has written the first n rules after n steps.
LEMMA MergeWrites ==
    ASSUME NEW m, NEW r \in Seq(Rules), Ranking(m, r), NEW f, f[0] = MergeStart(m),
           \A n \in 1 .. Len(r) : Ready(f[n - 1]) => f[n] = Taken(f[n - 1])
    PROVE  \A n \in 0 .. Len(r) : Spread(f[n].rest, r, n) /\ f[n].written = SubSeq(r, 1, n)
<1> DEFINE Good == {n \in 0 .. Len(r) :
                       Spread(f[n].rest, r, n) /\ f[n].written = SubSeq(r, 1, n)}
<1>1. 0 \in Good
  <2>1. SubSeq(r, 1, 0) = << >> OBVIOUS
  <2>2. Spread(f[0].rest, r, 0) BY DEF Ranking, MergeStart
  <2>3. f[0].written = << >> BY DEF MergeStart
  <2>4. 0 \in 0 .. Len(r) OBVIOUS
  <2> QED BY <2>1, <2>2, <2>3, <2>4
<1>2. ASSUME NEW n \in 0 .. Len(r) - 1, n \in Good PROVE n + 1 \in Good
  <2> DEFINE q == f[n].rest
  <2>1. n \in Nat /\ n < Len(r) /\ n + 1 \in 1 .. Len(r) /\ n + 1 \in 0 .. Len(r)
        /\ (n + 1) - 1 = n
    OBVIOUS
  <2>2. Spread(q, r, n) /\ f[n].written = SubSeq(r, 1, n)
    BY <1>2
  <2>3. Spread(After(q), r, n + 1) /\ q[NextRule(q)][1].rule = r[n + 1]
    <3> HIDE DEF q
    <3> QED BY <2>1, <2>2, SpreadStep
  <2>4. NextRule(q) \in Lists /\ q[NextRule(q)] # << >>
    <3> HIDE DEF q
    <3> QED BY <2>1, <2>2, NextIsLowest
  <2>5. f[n + 1] = Taken(f[n])
    <3>1. Ready(f[n]) BY <2>4 DEF Ready
    <3> QED BY <2>1, <3>1
  <2>6. f[n + 1].rest = After(q) /\ f[n + 1].written = Append(f[n].written, r[n + 1])
    BY <2>3, <2>5 DEF Taken
  <2>7. Append(SubSeq(r, 1, n), r[n + 1]) = SubSeq(r, 1, n + 1)
    BY <2>1
  <2> HIDE DEF q
  <2> QED BY <2>1, <2>2, <2>3, <2>6, <2>7
<1>3. Good \in SUBSET (0 .. Len(r)) OBVIOUS
<1>4. Good = 0 .. Len(r)
  <2> HIDE DEF Good
  <2>1. Len(r) \in Nat OBVIOUS
  <2> QED BY <1>1, <1>2, <1>3, <2>1, UpToBound
<1> QED BY <1>4

\* The merge writes the rules in the order of the calls.
LEMMA MergeInOrder ==
    ASSUME NEW m, NEW r \in Seq(Rules), Ranking(m, r)
    PROVE  ConditionalFormattings(m) = r
<1> DEFINE total == Len(m.scales) + Len(m.bars) + Len(m.icons)
           Value(h, n) == IF n = 0 THEN [rest |-> [list \in Lists |-> m[list]],
                                         written |-> << >>]
                          ELSE [rest |-> [h[n - 1].rest EXCEPT
                                             ![NextRule(h[n - 1].rest)] = Tail(@)],
                                written |-> Append(h[n - 1].written,
                                    h[n - 1].rest[NextRule(h[n - 1].rest)][1].rule)]
           Eq(h) == h = [n \in 0 .. total |-> Value(h, n)]
           step == [n \in 1 .. Len(r) |-> [x \in Merging |-> IF Ready(x) THEN Taken(x) ELSE x]]
<1>1. total = Len(r) /\ Len(r) \in Nat
  <2>1. Len(r) \in Nat OBVIOUS
  <2> QED BY <2>1 DEF Ranking
<1>2. ConditionalFormattings(m) = (CHOOSE h : Eq(h))[total].written
  BY DEF ConditionalFormattings, Lists
<1>3. MergeStart(m) \in Merging
  BY DEF Ranking, Spread, MergeStart, Merging
<1>4. step \in [1 .. Len(r) -> [Merging -> Merging]]
  <2>1. ASSUME NEW x \in Merging, Ready(x) PROVE Taken(x) \in Merging
    <3> DEFINE q == x.rest
               l == NextRule(q)
    <3>1. q \in [Lists -> Seq(Ranked)] /\ x.written \in Seq(Rules) BY DEF Merging
    <3>2. l \in Lists /\ q[l] # << >> BY <2>1 DEF Ready
    <3>3. Tail(q[l]) \in Seq(Ranked) /\ q[l][1] \in Ranked
      <4> HIDE DEF q, l
      <4> QED BY <3>1, <3>2
    <3>4. After(q) \in [Lists -> Seq(Ranked)] BY <3>1, <3>2, <3>3 DEF After
    <3>5. q[l][1].rule \in Rules BY <3>3 DEF Ranked
    <3>6. Append(x.written, q[l][1].rule) \in Seq(Rules)
      <4> HIDE DEF q, l
      <4> QED BY <3>1, <3>5
    <3> QED BY <3>4, <3>6 DEF Taken, Merging
  <2> HIDE DEF Merging
  <2> QED BY <2>1
<1>5. PICK g : Steps(g, Len(r), Merging, MergeStart(m), step)
  <2> HIDE DEF step, Merging
  <2> QED BY <1>1, <1>3, <1>4, RecursionExists
<1>6. /\ g \in [0 .. Len(r) -> Merging]
      /\ g[0] = MergeStart(m)
      /\ \A n \in 1 .. Len(r) : g[n] = IF Ready(g[n - 1]) THEN Taken(g[n - 1]) ELSE g[n - 1]
  <2>1. \A n \in 1 .. Len(r) : n - 1 \in 0 .. Len(r) OBVIOUS
  <2>2. \A n \in 1 .. Len(r) : g[n] = step[n][g[n - 1]] /\ g[n - 1] \in Merging
    BY <1>5, <2>1 DEF Steps
  <2> QED BY <1>5, <2>2 DEF Steps
<1>7. \A n \in 0 .. Len(r) : Spread(g[n].rest, r, n)
  BY <1>6, MergeWrites
<1>8. \A n \in 1 .. Len(r) : g[n] = Taken(g[n - 1])
  <2> SUFFICES ASSUME NEW n \in 1 .. Len(r) PROVE Ready(g[n - 1])
    BY <1>6
  <2>1. n - 1 \in 0 .. Len(r) /\ n - 1 \in Nat /\ n - 1 < Len(r) OBVIOUS
  <2>2. Spread(g[n - 1].rest, r, n - 1) BY <1>7, <2>1
  <2> QED BY <2>1, <2>2, NextIsLowest DEF Ready
<1>9. \A h : /\ Value(h, 0) = MergeStart(m)
             /\ \A n \in 1 .. Len(r) : Value(h, n) = Taken(h[n - 1])
  BY DEF Taken, After, MergeStart
<1> HIDE DEF Value
<1> SUFFICES ASSUME NEW merged, Eq(merged) PROVE ConditionalFormattings(m) = r
  <2>1. \A n \in 0 .. Len(r) : g[n] = Value(g, n)
    <3> TAKE n \in 0 .. Len(r)
    <3>1. CASE n = 0 BY <1>6, <1>9, <3>1
    <3>2. CASE n \in 1 .. Len(r) BY <1>8, <1>9, <3>2
    <3> QED BY <3>1, <3>2
  <2> HIDE DEF total
  <2>2. Eq(g) BY <1>1, <1>6, <2>1
  <2> QED BY <2>2
<1> DEFINE f == CHOOSE h : Eq(h)
<1>10. Eq(f)
  <2> HIDE DEF Eq
  <2> QED OBVIOUS
<1> HIDE DEF f
<1>11. f[0] = MergeStart(m) /\ \A n \in 1 .. Len(r) : f[n] = Taken(f[n - 1])
  <2> HIDE DEF total
  <2>1. \A n \in 0 .. Len(r) : f[n] = Value(f, n) BY <1>1, <1>10
  <2>2. 0 \in 0 .. Len(r) /\ \A n \in 1 .. Len(r) : n \in 0 .. Len(r) OBVIOUS
  <2> QED BY <1>9, <2>1, <2>2
<1>12. \A n \in 0 .. Len(r) : f[n].written = SubSeq(r, 1, n)
  BY <1>11, MergeWrites
<1>13. SubSeq(r, 1, Len(r)) = r
  OBVIOUS
<1>14. Len(r) \in 0 .. Len(r)
  OBVIOUS
<1> QED BY <1>1, <1>2, <1>12, <1>13, <1>14 DEF f

\* The invariant: the records are typed and the lists of each sheet hold its rules.
RulesInv == /\ RecordsOK
            /\ \A s \in Sheets : Ranking(meta[s], ruled[s])

\* A record of a sheet that gets one more rule.
WithRule(m, list, rule) ==
    [m EXCEPT ![list] = Append(@, [rule |-> rule, priority |-> m.priority]), !.priority = @ + 1]

LEMMA RankingAppend ==
    ASSUME NEW m \in Recordings, NEW r \in Seq(Rules), Ranking(m, r),
           NEW list \in Lists, NEW rule \in Rules
    PROVE  WithRule(m, list, rule) \in Recordings
           /\ Ranking(WithRule(m, list, rule), Append(r, rule))
<1> DEFINE n == Len(r) + 1
           item == [rule |-> rule, priority |-> n]
           e == Append(r, rule)
           w == WithRule(m, list, rule)
           q == [l \in Lists |-> m[l]]
           t == [l \in Lists |-> w[l]]
<1>1. m.priority = n /\ Len(r) \in Nat /\ n \in Nat
  <2>1. Len(r) \in Nat OBVIOUS
  <2> QED BY <2>1 DEF Ranking
<1>2. \A l \in Lists : m[l] \in Seq(Ranked)
  BY DEF Recordings, Lists
<1>3. item \in Ranked
  BY <1>1 DEF Ranked
<1>4. w = [m EXCEPT ![list] = Append(m[list], item), !["priority"] = n + 1]
  <2>1. w = [m EXCEPT ![list] = Append(m[list], item), !["priority"] = m.priority + 1]
    <3>1. CASE list = "scales" BY <1>1, <3>1 DEF WithRule, Recordings
    <3>2. CASE list = "bars" BY <1>1, <3>2 DEF WithRule, Recordings
    <3>3. CASE list = "icons" BY <1>1, <3>3 DEF WithRule, Recordings
    <3> QED BY <3>1, <3>2, <3>3 DEF Lists
  <2> QED BY <1>1, <2>1
<1>5. w \in Recordings
  <2>1. Append(m[list], item) \in Seq(Ranked)
    <3> HIDE DEF item
    <3> QED BY <1>2, <1>3
  <2>2. n + 1 \in Nat BY <1>1
  <2> HIDE DEF w, item, n
  <2> QED BY <1>4, <2>1, <2>2, RecordedType
<1>6. /\ w.priority = n + 1
      /\ w[list] = Append(m[list], item)
      /\ \A l \in Lists \ {list} : w[l] = m[l]
  <2> HIDE DEF w, item, n
  <2>1. CASE list = "scales" BY <1>4, <2>1 DEF Recordings, Lists
  <2>2. CASE list = "bars" BY <1>4, <2>2 DEF Recordings, Lists
  <2>3. CASE list = "icons" BY <1>4, <2>3 DEF Recordings, Lists
  <2> QED BY <2>1, <2>2, <2>3 DEF Lists
<1>7. e \in Seq(Rules) /\ Len(e) = n /\ e[n] = rule /\ \A p \in 1 .. Len(r) : e[p] = r[p]
  OBVIOUS
<1>8. Len(w.scales) + Len(w.bars) + Len(w.icons) = Len(e)
  <2>1. Len(m.scales) + Len(m.bars) + Len(m.icons) = Len(r) BY DEF Ranking
  <2>2. Len(m.scales) \in Nat /\ Len(m.bars) \in Nat /\ Len(m.icons) \in Nat
    BY <1>2 DEF Lists
  <2>3. Len(w[list]) = Len(m[list]) + 1
    <3> HIDE DEF w, item
    <3> QED BY <1>2, <1>3, <1>6
  <2> HIDE DEF w, item, e
  <2>4. CASE list = "scales"
    <3>1. w.bars = m.bars /\ w.icons = m.icons BY <1>6, <2>4 DEF Lists
    <3>2. Len(w.scales) = Len(m.scales) + 1 BY <2>3, <2>4
    <3> DEFINE sc == Len(m.scales)
               ba == Len(m.bars)
               ic == Len(m.icons)
    <3>3. sc \in Nat /\ ba \in Nat /\ ic \in Nat /\ sc + ba + ic = Len(r)
      BY <2>1, <2>2
    <3>4. Len(e) = Len(r) + 1 /\ Len(r) \in Nat BY <1>1, <1>7
    <3>5. Len(w.scales) + Len(w.bars) + Len(w.icons) = (sc + 1) + ba + ic
      BY <3>1, <3>2
    <3> HIDE DEF sc, ba, ic
    <3>6. (sc + 1) + ba + ic = Len(r) + 1 BY <3>3
    <3> QED BY <3>4, <3>5, <3>6
  <2>5. CASE list = "bars"
    <3>1. w.scales = m.scales /\ w.icons = m.icons BY <1>6, <2>5 DEF Lists
    <3>2. Len(w.bars) = Len(m.bars) + 1 BY <2>3, <2>5
    <3> DEFINE sc == Len(m.scales)
               ba == Len(m.bars)
               ic == Len(m.icons)
    <3>3. sc \in Nat /\ ba \in Nat /\ ic \in Nat /\ sc + ba + ic = Len(r)
      BY <2>1, <2>2
    <3>4. Len(e) = Len(r) + 1 /\ Len(r) \in Nat BY <1>1, <1>7
    <3>5. Len(w.scales) + Len(w.bars) + Len(w.icons) = sc + (ba + 1) + ic
      BY <3>1, <3>2
    <3> HIDE DEF sc, ba, ic
    <3>6. sc + (ba + 1) + ic = Len(r) + 1 BY <3>3
    <3> QED BY <3>4, <3>5, <3>6
  <2>6. CASE list = "icons"
    <3>1. w.scales = m.scales /\ w.bars = m.bars BY <1>6, <2>6 DEF Lists
    <3>2. Len(w.icons) = Len(m.icons) + 1 BY <2>3, <2>6
    <3> DEFINE sc == Len(m.scales)
               ba == Len(m.bars)
               ic == Len(m.icons)
    <3>3. sc \in Nat /\ ba \in Nat /\ ic \in Nat /\ sc + ba + ic = Len(r)
      BY <2>1, <2>2
    <3>4. Len(e) = Len(r) + 1 /\ Len(r) \in Nat BY <1>1, <1>7
    <3>5. Len(w.scales) + Len(w.bars) + Len(w.icons) = sc + ba + (ic + 1)
      BY <3>1, <3>2
    <3> HIDE DEF sc, ba, ic
    <3>6. sc + ba + (ic + 1) = Len(r) + 1 BY <3>3
    <3> QED BY <3>4, <3>5, <3>6
  <2> QED BY <2>4, <2>5, <2>6 DEF Lists
\* A rule of a list was there, or is the new one at the end of its list.
<1>9. ASSUME NEW l \in Lists, NEW i \in DOMAIN t[l]
      PROVE  /\ i \in Nat
             /\ \/ i \in DOMAIN q[l] /\ t[l][i] = q[l][i]
                \/ l = list /\ i = Len(q[l]) + 1 /\ t[l][i] = item
  <2>1. t[l] = w[l] /\ q[l] = m[l] /\ m[l] \in Seq(Ranked) BY <1>2
  <2> HIDE DEF t, q, w, item
  <2>2. CASE l = list BY <1>3, <1>6, <2>1, <2>2
  <2>3. CASE l # list BY <1>6, <2>1, <2>3
  <2> QED BY <2>2, <2>3
<1>10. Spread(q, r, 0)
  BY DEF Ranking
<1>11. \A l \in Lists : \A i \in DOMAIN q[l] :
          /\ q[l][i].priority \in 1 .. Len(r)
          /\ q[l][i].rule = r[q[l][i].priority]
  <2> HIDE DEF q
  <2> QED BY <1>10 DEF Spread
<1>12. \A l \in Lists : q[l] \in Seq(Ranked)
  BY <1>2
<1>13. item.priority = n /\ item.rule = rule
  OBVIOUS
<1> HIDE DEF t, q, w, item, e
<1>14. t \in [Lists -> Seq(Ranked)]
  <2>1. \A l \in Lists : w[l] \in Seq(Ranked)
    BY <1>5 DEF Recordings, Lists
  <2> QED BY <2>1 DEF t
<1>15. \A l \in Lists : \A i \in DOMAIN t[l] :
          /\ t[l][i].priority \in 0 + 1 .. Len(e)
          /\ t[l][i].rule = e[t[l][i].priority]
  <2> SUFFICES ASSUME NEW l \in Lists, NEW i \in DOMAIN t[l]
               PROVE  /\ t[l][i].priority \in 1 .. Len(e)
                      /\ t[l][i].rule = e[t[l][i].priority]
    OBVIOUS
  <2>1. CASE i \in DOMAIN q[l] /\ t[l][i] = q[l][i]
    BY <1>1, <1>7, <1>11, <2>1
  <2>2. CASE t[l][i] = item
    BY <1>1, <1>7, <1>13, <2>2
  <2> QED BY <1>9, <2>1, <2>2
<1>16. \A l \in Lists : \A i, j \in DOMAIN t[l] :
          i < j => t[l][i].priority < t[l][j].priority
  <2> SUFFICES ASSUME NEW l \in Lists, NEW i \in DOMAIN t[l], NEW j \in DOMAIN t[l], i < j
               PROVE  t[l][i].priority < t[l][j].priority
    OBVIOUS
  <2>1. i \in Nat /\ j \in Nat BY <1>9
  <2>2. i \in DOMAIN q[l] /\ t[l][i] = q[l][i]
    <3>1. CASE i = Len(q[l]) + 1
      <4>1. j \notin DOMAIN q[l] /\ j # Len(q[l]) + 1 BY <1>12, <2>1, <3>1
      <4> QED BY <1>9, <4>1
    <3> QED BY <1>9, <3>1
  <2>3. CASE j \in DOMAIN q[l] /\ t[l][j] = q[l][j]
    BY <1>10, <2>2, <2>3 DEF Spread
  <2>4. CASE t[l][j] = item
    BY <1>1, <1>11, <1>13, <2>2, <2>4
  <2> QED BY <1>9, <2>3, <2>4
<1>17. \A l, o \in Lists : \A i \in DOMAIN t[l], j \in DOMAIN t[o] :
          t[l][i].priority = t[o][j].priority => l = o
  <2> SUFFICES ASSUME NEW l \in Lists, NEW o \in Lists, NEW i \in DOMAIN t[l],
                      NEW j \in DOMAIN t[o], t[l][i].priority = t[o][j].priority
               PROVE  l = o
    OBVIOUS
  <2>1. CASE i \in DOMAIN q[l] /\ t[l][i] = q[l][i] /\ j \in DOMAIN q[o] /\ t[o][j] = q[o][j]
    BY <1>10, <2>1 DEF Spread
  <2>2. CASE i \in DOMAIN q[l] /\ t[l][i] = q[l][i] /\ t[o][j] = item
    BY <1>1, <1>11, <1>13, <2>2
  <2>3. CASE t[l][i] = item /\ j \in DOMAIN q[o] /\ t[o][j] = q[o][j]
    BY <1>1, <1>11, <1>13, <2>3
  <2>4. CASE l = list /\ o = list BY <2>4
  <2> QED BY <1>9, <2>1, <2>2, <2>3, <2>4
<1>18. ASSUME NEW p \in 0 + 1 .. Len(e)
       PROVE  \E l \in Lists : \E i \in DOMAIN t[l] : t[l][i].priority = p
  <2>1. CASE p = n
    <3>1. t[list] = Append(m[list], item) /\ m[list] \in Seq(Ranked) BY <1>2, <1>6 DEF t
    <3>2. Len(m[list]) + 1 \in DOMAIN t[list] /\ t[list][Len(m[list]) + 1] = item
      BY <1>3, <3>1
    <3> QED BY <1>13, <2>1, <3>2
  <2>2. CASE p \in 0 + 1 .. Len(r)
    <3>1. PICK l \in Lists : \E i \in DOMAIN q[l] : q[l][i].priority = p
      BY <1>10, <2>2 DEF Spread
    <3>2. PICK i \in DOMAIN q[l] : q[l][i].priority = p
      BY <3>1
    <3>3. i \in DOMAIN t[l] /\ t[l][i] = q[l][i]
      <4>1. q[l] = m[l] /\ t[l] = w[l] /\ m[l] \in Seq(Ranked) BY <1>2 DEF q, t
      <4>2. CASE l = list
        <5>1. t[l] = Append(q[l], item) /\ q[l] \in Seq(Ranked) BY <1>6, <4>1, <4>2
        <5> QED BY <1>3, <3>2, <5>1
      <4>3. CASE l # list BY <1>6, <4>1, <4>3
      <4> QED BY <4>2, <4>3
    <3> QED BY <3>2, <3>3
  <2> QED BY <1>1, <1>7, <2>1, <2>2
<1>19. Spread(t, e, 0)
  BY <1>14, <1>15, <1>16, <1>17, <1>18 DEF Spread
<1>20. Ranking(w, e)
  <2>1. w.priority = Len(e) + 1 BY <1>6, <1>7
  <2> QED BY <1>8, <1>19, <2>1 DEF Ranking, t
<1> QED BY <1>5, <1>20 DEF w, e

LEMMA RulesInit == InitParts => RulesInv
<1> SUFFICES ASSUME InitParts PROVE RulesInv
  OBVIOUS
<1>1. RecordsOK
  BY RecordsInit
<1>2. Ranking(Unrecorded, << >>)
  <2> DEFINE q == [list \in Lists |-> Unrecorded[list]]
  <2>1. \A l \in Lists : q[l] = << >>
    BY DEF Unrecorded, Lists
  <2>2. << >> \in Seq(Ranked) /\ DOMAIN << >> = {} /\ Len(<< >>) = 0
    OBVIOUS
  <2>3. q \in [Lists -> Seq(Ranked)]
    <3> HIDE DEF q
    <3>1. q = [l \in Lists |-> q[l]] BY DEF q
    <3> QED BY <2>1, <2>2, <3>1
  <2>4. Spread(q, << >>, 0)
    <3> HIDE DEF q
    <3> QED BY <2>1, <2>2, <2>3 DEF Spread
  <2>5. /\ Unrecorded.priority = Len(<< >>) + 1
        /\ Len(Unrecorded.scales) + Len(Unrecorded.bars) + Len(Unrecorded.icons) = Len(<< >>)
    BY DEF Unrecorded
  <2> QED BY <2>4, <2>5 DEF Ranking
<1>3. \A s \in Sheets : meta[s] = Unrecorded /\ ruled[s] = << >>
  BY DEF InitParts
<1> QED BY <1>1, <1>2, <1>3 DEF RulesInv

\* A call that records something else leaves the rules of every sheet.
LEMMA OthersKeepRules ==
    ASSUME RulesInv, NEW s \in Sheets, NEW w \in Recordings,
           \A l \in Lists \cup {"priority"} : w[l] = meta[s][l],
           meta' = [meta EXCEPT ![s] = w], UNCHANGED ruled
    PROVE  RulesInv'
<1>1. meta' \in [Sheets -> Recordings] /\ meta'[s] = w
      /\ \A o \in Sheets \ {s} : meta'[o] = meta[o]
  BY DEF RulesInv, RecordsOK
<1>2. Ranking(w, ruled[s])
  <2>1. Ranking(meta[s], ruled[s]) BY DEF RulesInv
  <2>2. [l \in Lists |-> w[l]] = [l \in Lists |-> meta[s][l]] /\ w.priority = meta[s].priority
    OBVIOUS
  <2>3. w.scales = meta[s].scales /\ w.bars = meta[s].bars /\ w.icons = meta[s].icons
    BY DEF Lists
  <2> QED BY <2>1, <2>2, <2>3 DEF Ranking
<1>3. \A o \in Sheets : Ranking(meta'[o], ruled'[o])
  BY <1>1, <1>2 DEF RulesInv
<1> QED BY <1>1, <1>3 DEF RulesInv, RecordsOK

LEMMA RuleKeepsRules ==
    ASSUME RulesInv, NEW s \in Sheets, NEW list \in Lists, NEW rule \in Rules,
           AddRule(s, list, rule)
    PROVE  RulesInv'
<1> DEFINE w == WithRule(meta[s], list, rule)
<1>1. meta \in [Sheets -> Recordings] /\ ruled \in [Sheets -> Seq(Rules)]
      /\ meta[s] \in Recordings /\ ruled[s] \in Seq(Rules) /\ Ranking(meta[s], ruled[s])
  BY DEF RulesInv, RecordsOK
<1>2. w \in Recordings /\ Ranking(w, Append(ruled[s], rule))
  BY <1>1, RankingAppend
<1>3. meta' = [meta EXCEPT ![s] = w] /\ ruled' = [ruled EXCEPT ![s] = Append(ruled[s], rule)]
  BY <1>1 DEF AddRule, WithRule
<1>4. Append(ruled[s], rule) \in Seq(Rules)
  BY <1>1
<1> HIDE DEF w
<1>5. /\ meta' \in [Sheets -> Recordings] /\ ruled' \in [Sheets -> Seq(Rules)]
      /\ meta'[s] = w /\ ruled'[s] = Append(ruled[s], rule)
      /\ \A o \in Sheets \ {s} : meta'[o] = meta[o] /\ ruled'[o] = ruled[o]
  BY <1>1, <1>2, <1>3, <1>4
<1>6. \A o \in Sheets : Ranking(meta'[o], ruled'[o])
  BY <1>2, <1>5 DEF RulesInv
<1> QED BY <1>5, <1>6 DEF RulesInv, RecordsOK

\* Recording an item in another list of the sheet.
LEMMA RecordKeepsRules ==
    ASSUME RulesInv, NEW s \in Sheets, NEW field, NEW item,
           \/ field = "externals" /\ item \in Urls
           \/ field = "internals" /\ item \in Locations
           \/ field = "tables" /\ item \in Tables
           \/ field = "images" /\ item \in Images
           \/ field = "validations" /\ item \in Validations,
           Record(s, field, item), UNCHANGED ruled
    PROVE  RulesInv'
<1> DEFINE q == Append(meta[s][field], item)
           w == [meta[s] EXCEPT ![field] = q]
<1>1. meta \in [Sheets -> Recordings] /\ meta[s] \in Recordings
  BY DEF RulesInv, RecordsOK
<1>2. meta' = [meta EXCEPT ![s] = w]
  BY <1>1 DEF Record
<1>3. w \in Recordings
  <2>1. CASE field = "externals" /\ item \in Urls
    <3>1. q \in Seq(Urls) BY <1>1, <2>1 DEF Recordings
    <3> HIDE DEF q
    <3> QED BY <1>1, <2>1, <3>1, RecordedType
  <2>2. CASE field = "internals" /\ item \in Locations
    <3>1. q \in Seq(Locations) BY <1>1, <2>2 DEF Recordings
    <3> HIDE DEF q
    <3> QED BY <1>1, <2>2, <3>1, RecordedType
  <2>3. CASE field = "tables" /\ item \in Tables
    <3>1. q \in Seq(Tables) BY <1>1, <2>3 DEF Recordings
    <3> HIDE DEF q
    <3> QED BY <1>1, <2>3, <3>1, RecordedType
  <2>4. CASE field = "images" /\ item \in Images
    <3>1. q \in Seq(Images) BY <1>1, <2>4 DEF Recordings
    <3> HIDE DEF q
    <3> QED BY <1>1, <2>4, <3>1, RecordedType
  <2>5. CASE field = "validations" /\ item \in Validations
    <3>1. q \in Seq(Validations) BY <1>1, <2>5 DEF Recordings
    <3> HIDE DEF q
    <3> QED BY <1>1, <2>5, <3>1, RecordedType
  <2> QED BY <2>1, <2>2, <2>3, <2>4, <2>5
<1>4. \A l \in Lists \cup {"priority"} : w[l] = meta[s][l]
  <2> HIDE DEF q
  <2>1. field \notin Lists \cup {"priority"} BY DEF Lists
  <2>2. DOMAIN meta[s] = DOMAIN Unrecorded /\ \A l \in Lists \cup {"priority"} : l \in DOMAIN meta[s]
    BY <1>1 DEF Recordings, Unrecorded, Lists
  <2> QED BY <2>1, <2>2
<1> HIDE DEF w
<1> QED BY <1>2, <1>3, <1>4, OthersKeepRules

THEOREM RulesStep == RulesInv /\ [NextWithParts]_allvars => RulesInv'
<1> SUFFICES ASSUME RulesInv, [NextWithParts]_allvars PROVE RulesInv'
  OBVIOUS
<1>1. CASE UNCHANGED <<meta, ruled>>
  BY <1>1 DEF RulesInv, RecordsOK
<1>2. CASE RowStep
  BY <1>1, <1>2 DEF RowStep, metadata
<1>3. CASE UNCHANGED allvars
  BY <1>1, <1>3 DEF allvars, metadata
<1>4. ASSUME NEW s \in Sheets, NEW url \in Urls, AddExternalHyperlink(s, url) PROVE RulesInv'
  BY <1>4, RecordKeepsRules DEF AddExternalHyperlink
<1>5. ASSUME NEW s \in Sheets, NEW l \in Locations, AddInternalHyperlink(s, l) PROVE RulesInv'
  BY <1>5, RecordKeepsRules DEF AddInternalHyperlink
<1>6. ASSUME NEW s \in Sheets, NEW table \in Tables, AddTable(s, table) PROVE RulesInv'
  BY <1>6, RecordKeepsRules DEF AddTable
<1>7. ASSUME NEW s \in Sheets, NEW image \in Images, AddImage(s, image) PROVE RulesInv'
  BY <1>7, RecordKeepsRules DEF AddImage
<1>8. ASSUME NEW s \in Sheets, NEW rule \in Validations, AddDataValidation(s, rule) PROVE RulesInv'
  BY <1>8, RecordKeepsRules DEF AddDataValidation
<1>9. ASSUME NEW s \in Sheets, NEW rule \in ScaleRules, AddColorScale(s, rule) PROVE RulesInv'
  BY <1>9, RuleKeepsRules DEF AddColorScale, Lists, Rules
<1>10. ASSUME NEW s \in Sheets, NEW rule \in BarRules, AddDataBar(s, rule) PROVE RulesInv'
  BY <1>10, RuleKeepsRules DEF AddDataBar, Lists, Rules
<1>11. ASSUME NEW s \in Sheets, NEW rule \in IconRules, AddIconSet(s, rule) PROVE RulesInv'
  BY <1>11, RuleKeepsRules DEF AddIconSet, Lists, Rules
<1>12. ASSUME NEW style \in CellStyles, AddStyle(style) PROVE RulesInv'
  BY <1>1, <1>12 DEF AddStyle
<1>13. CASE CloseWithParts
  BY <1>1, <1>13 DEF CloseWithParts
<1> QED BY <1>2, <1>3, <1>4, <1>5, <1>6, <1>7, <1>8, <1>9, <1>10, <1>11, <1>12, <1>13
        DEF NextWithParts, PartStep

(* The formatting rules of a sheet are written in the order of the calls   *)
(* that added them, whatever the kinds and however they alternate, though  *)
(* each kind is kept in a list of its own.                                 *)
THEOREM RulesInOrder == SpecWithParts => []RulesKeepTheirOrder
<1>1. InitWithParts => RulesInv
  BY RulesInit DEF InitWithParts
<1>2. RulesInv /\ TypeOK => RulesKeepTheirOrder
  <2> SUFFICES ASSUME RulesInv, TypeOK, NEW s \in DOMAIN sheets
               PROVE  ConditionalFormattings(meta[s]) = ruled[s]
    BY DEF RulesKeepTheirOrder
  <2>1. s \in Sheets
    <3>1. Len(sheets) \in Nat /\ DOMAIN sheets = 1 .. Len(sheets) /\ Len(sheets) <= MaxSheets
      BY DEF TypeOK
    <3> QED BY <3>1, WriterBounds DEF Sheets
  <2>2. ruled[s] \in Seq(Rules) /\ Ranking(meta[s], ruled[s])
    BY <2>1 DEF RulesInv, RecordsOK
  <2> QED BY <2>2, MergeInOrder
<1> QED BY <1>1, <1>2, RulesStep, PartsLeaveRows, TypeCorrect, PTL DEF SpecWithParts

-----------------------------------------------------------------------------
(* The positions in a finite set of naturals, in their order.              *)

Before(S, x) == {j \in S : j < x}
Rank(S, x) == Cardinality(Before(S, x))

\* An element comes behind fewer others than a later one.
LEMMA RankRises ==
    ASSUME NEW S \in SUBSET Nat, IsFiniteSet(S), NEW x \in S
    PROVE  /\ Rank(S, x) \in 0 .. Cardinality(S) - 1
           /\ \A y \in S : x < y => Rank(S, x) < Rank(S, y)
<1> DEFINE B == Before(S, x)
<1>1. IsFiniteSet(B) /\ Cardinality(B) \in Nat /\ x \notin B
  <2>1. B \in SUBSET S /\ x \notin B BY DEF Before
  <2> HIDE DEF B
  <2>2. IsFiniteSet(B) BY <2>1, FS_Subset
  <2> QED BY <2>1, <2>2, FS_CardinalityType
<1>2. IsFiniteSet(B \cup {x}) /\ Cardinality(B \cup {x}) = Cardinality(B) + 1
  <2> HIDE DEF B
  <2> QED BY <1>1, FS_AddElement
<1>3. ASSUME NEW T \in SUBSET S, B \cup {x} \subseteq T
      PROVE  Cardinality(T) \in Nat /\ Cardinality(B) < Cardinality(T)
  <2> HIDE DEF B
  <2>1. IsFiniteSet(T) BY FS_Subset
  <2>2. Cardinality(T) \in Nat BY <2>1, FS_CardinalityType
  <2>3. Cardinality(B \cup {x}) <= Cardinality(T) BY <1>3, <2>1, FS_Subset
  <2> QED BY <1>1, <1>2, <2>2, <2>3
<1>4. Cardinality(B) \in 0 .. Cardinality(S) - 1
  <2>1. B \cup {x} \subseteq S BY DEF Before
  <2> HIDE DEF B
  <2> QED BY <1>1, <1>3, <2>1
<1>5. ASSUME NEW y \in S, x < y PROVE Cardinality(B) < Cardinality(Before(S, y))
  <2>1. B \cup {x} \subseteq Before(S, y) /\ Before(S, y) \in SUBSET S
    <3>1. \A j \in S : j < x => j < y BY <1>5
    <3> QED BY <1>5, <3>1 DEF Before
  <2> HIDE DEF B
  <2> QED BY <1>3, <2>1
<1> QED BY <1>4, <1>5 DEF Rank

\* Each element stands at its place, and each place has one.
LEMMA OrderedPlaces ==
    ASSUME NEW S \in SUBSET Nat, IsFiniteSet(S)
    PROVE  /\ Cardinality(S) \in Nat
           /\ DOMAIN InOrder(S) = 1 .. Cardinality(S)
           /\ \A x \in S : /\ Rank(S, x) + 1 \in 1 .. Cardinality(S)
                           /\ InOrder(S)[Rank(S, x) + 1] = x
           /\ \A k \in 1 .. Cardinality(S) : /\ InOrder(S)[k] \in S
                                             /\ Rank(S, InOrder(S)[k]) = k - 1
<1> DEFINE N == Cardinality(S)
           rank == [x \in S |-> Rank(S, x)]
<1>1. N \in Nat
  BY FS_CardinalityType
<1>2. \A x \in S : Rank(S, x) \in 0 .. N - 1
  BY RankRises
<1>3. \A x, y \in S : Rank(S, x) = Rank(S, y) => x = y
  <2> SUFFICES ASSUME NEW x \in S, NEW y \in S, Rank(S, x) = Rank(S, y), x # y
               PROVE  FALSE
    OBVIOUS
  <2>1. \A z \in S : Rank(S, z) \in Int BY <1>2
  <2>2. CASE x < y
    <3>1. Rank(S, x) < Rank(S, y) BY <2>2, RankRises
    <3> QED BY <2>1, <3>1
  <2>3. CASE y < x
    <3>1. Rank(S, y) < Rank(S, x) BY <2>3, RankRises
    <3> QED BY <2>1, <3>1
  <2> QED BY <2>2, <2>3
<1>4. rank \in Injection(S, 0 .. N - 1)
  BY <1>2, <1>3 DEF Injection, IsInjective
<1>5. IsFiniteSet(0 .. N - 1) /\ Cardinality(0 .. N - 1) = N
  <2> HIDE DEF N
  <2>1. 0 \in Int /\ N - 1 \in Int BY <1>1
  <2>2. /\ IsFiniteSet(0 .. N - 1)
        /\ Cardinality(0 .. N - 1) = IF 0 > N - 1 THEN 0 ELSE (N - 1) - 0 + 1
    BY <2>1, FS_Interval
  <2> QED BY <1>1, <2>2
<1>6. rank \in Surjection(S, 0 .. N - 1)
  <2> DEFINE T == 0 .. N - 1
  <2>1. IsFiniteSet(T) /\ Cardinality(T) = Cardinality(S) /\ rank \in Injection(S, T)
    BY <1>4, <1>5
  <2> HIDE DEF T, rank
  <2>2. rank \in Surjection(S, T) BY <2>1, FS_Injection
  <2> QED BY <2>2 DEF T
<1>7. ASSUME NEW k \in 1 .. N PROVE \E i \in S : Rank(S, i) = k - 1
  <2>1. k - 1 \in 0 .. N - 1 BY <1>1
  <2> QED BY <1>6, <2>1 DEF Surjection
<1>8. InOrder(S) = [k \in 1 .. N |-> CHOOSE i \in S : Rank(S, i) = k - 1]
  BY DEF InOrder, Rank, Before
<1>9. \A k \in 1 .. N : InOrder(S)[k] \in S /\ Rank(S, InOrder(S)[k]) = k - 1
  BY <1>7, <1>8
<1>10. \A x \in S : Rank(S, x) + 1 \in 1 .. N /\ InOrder(S)[Rank(S, x) + 1] = x
  <2> TAKE x \in S
  <2> DEFINE k == Rank(S, x) + 1
  <2>1. k \in 1 .. N /\ k - 1 = Rank(S, x) BY <1>1, <1>2
  <2> HIDE DEF k
  <2>2. InOrder(S)[k] \in S /\ Rank(S, InOrder(S)[k]) = Rank(S, x) BY <1>9, <2>1
  <2>3. InOrder(S)[k] = x BY <1>3, <2>2
  <2> QED BY <2>1, <2>3 DEF k
<1> QED BY <1>1, <1>8, <1>9, <1>10

-----------------------------------------------------------------------------
(* Ids are given in the order of the values they stand for: the n-th value *)
(* that no earlier style has gets the n-th id.                             *)

Firsts(ids) == {i \in DOMAIN ids : ids[i] # 0 /\ \A j \in 1 .. i - 1 : ids[j] # ids[i]}

Numbered(ids, base) ==
    /\ ids \in Seq(Nat)
    /\ \A i \in Firsts(ids) : ids[i] = base + Rank(Firsts(ids), i)
    /\ \A i \in DOMAIN ids : ids[i] # 0 => \E j \in Firsts(ids) : ids[j] = ids[i]
    /\ {ids[i] : i \in DOMAIN ids} \ {0} = base .. base + Cardinality(Firsts(ids)) - 1

LEMMA FirstsFinite ==
    ASSUME NEW ids \in Seq(Nat)
    PROVE  /\ Firsts(ids) \in SUBSET Nat /\ IsFiniteSet(Firsts(ids))
           /\ Cardinality(Firsts(ids)) \in Nat
<1>1. Firsts(ids) \in SUBSET (1 .. Len(ids))
  BY DEF Firsts
<1>2. IsFiniteSet(1 .. Len(ids))
  BY FS_Interval
<1>3. Firsts(ids) \in SUBSET Nat
  BY <1>1
<1>4. IsFiniteSet(Firsts(ids))
  BY <1>1, <1>2, FS_Subset
<1> QED BY <1>3, <1>4, FS_CardinalityType

\* An id that is in use, or none, leaves the numbering as it is.
LEMMA NumberedAgain ==
    ASSUME NEW base \in Nat, base # 0, NEW ids, Numbered(ids, base), NEW x,
           x = 0 \/ \E i \in DOMAIN ids : ids[i] = x
    PROVE  Numbered(Append(ids, x), base)
<1> DEFINE e == Append(ids, x)
           n == Len(ids) + 1
<1>1. ids \in Seq(Nat) /\ Len(ids) \in Nat /\ DOMAIN ids = 1 .. Len(ids)
  BY DEF Numbered
<1>2. x \in Nat
  BY <1>1
<1>3. /\ e \in Seq(Nat) /\ DOMAIN e = 1 .. n /\ e[n] = x
      /\ \A i \in DOMAIN ids : i \in DOMAIN e /\ e[i] = ids[i] /\ i \in Nat /\ i # n
      /\ \A i \in DOMAIN e : i \in DOMAIN ids \/ i = n
  BY <1>1, <1>2
<1> HIDE DEF e
<1>4. Firsts(e) = Firsts(ids)
  <2>1. ASSUME NEW i \in DOMAIN ids PROVE i \in Firsts(e) <=> i \in Firsts(ids)
    <3>0. i \in 1 .. Len(ids) BY <1>1
    <3>1. \A j \in 1 .. i - 1 : j \in DOMAIN ids BY <1>1, <3>0
    <3> HIDE DEF n
    <3>2. \A j \in 1 .. i - 1 : e[j] = ids[j] BY <1>3, <3>1
    <3> QED BY <1>3, <3>1, <3>2 DEF Firsts
  <2>2. n \notin Firsts(e)
    <3>1. CASE x = 0 BY <1>3, <3>1 DEF Firsts
    <3>2. CASE x # 0
      <4>1. PICK i \in DOMAIN ids : ids[i] = x BY <3>2
      <4>2. i \in 1 .. n - 1 /\ e[i] = e[n] BY <1>1, <1>3, <4>1
      <4> QED BY <4>2 DEF Firsts
    <3> QED BY <3>1, <3>2
  <2>3. \A i \in Firsts(e) : i \in DOMAIN e BY DEF Firsts
  <2>4. \A i \in Firsts(ids) : i \in DOMAIN ids BY DEF Firsts
  <2> HIDE DEF n
  <2> QED BY <1>3, <2>1, <2>2, <2>3, <2>4
<1>5. \A i \in Firsts(e) : e[i] = base + Rank(Firsts(e), i)
  <2>1. \A i \in Firsts(ids) : i \in DOMAIN ids BY DEF Firsts
  <2> QED BY <1>3, <1>4, <2>1 DEF Numbered
<1>6. ASSUME NEW i \in DOMAIN e, e[i] # 0 PROVE \E j \in Firsts(e) : e[j] = e[i]
  <2>1. \A j \in Firsts(ids) : e[j] = ids[j] BY <1>3 DEF Firsts
  <2>2. PICK k \in DOMAIN ids : ids[k] = e[i]
    <3>1. CASE i \in DOMAIN ids BY <1>3, <3>1
    <3>2. CASE i = n
      <4>1. x # 0 BY <1>3, <1>6, <3>2
      <4> QED BY <1>3, <3>2, <4>1
    <3> QED BY <1>3, <3>1, <3>2
  <2>3. PICK j \in Firsts(ids) : ids[j] = ids[k] BY <1>6, <2>2 DEF Numbered
  <2> QED BY <1>4, <2>1, <2>2, <2>3
<1>7. {e[i] : i \in DOMAIN e} \ {0} = {ids[i] : i \in DOMAIN ids} \ {0}
  <2>1. \A i \in DOMAIN ids : e[i] \in {e[j] : j \in DOMAIN e} /\ e[i] = ids[i] BY <1>3
  <2>2. ASSUME NEW i \in DOMAIN e, e[i] # 0 PROVE e[i] \in {ids[j] : j \in DOMAIN ids}
    <3>1. CASE i \in DOMAIN ids BY <1>3, <3>1
    <3>2. CASE i = n
      <4>1. x # 0 BY <1>3, <2>2, <3>2
      <4> QED BY <1>3, <3>2, <4>1
    <3> QED BY <1>3, <3>1, <3>2
  <2> HIDE DEF n
  <2> QED BY <2>1, <2>2
<1>8. Numbered(e, base)
  <2>1. {ids[i] : i \in DOMAIN ids} \ {0} = base .. base + Cardinality(Firsts(ids)) - 1
    BY DEF Numbered
  <2> QED BY <1>3, <1>4, <1>5, <1>6, <1>7, <2>1 DEF Numbered
<1> QED BY <1>8 DEF e

\* The next id continues the numbering.
LEMMA NumberedNext ==
    ASSUME NEW base \in Nat, base # 0, NEW ids, Numbered(ids, base)
    PROVE  Numbered(Append(ids, base + Cardinality(Firsts(ids))), base)
<1> DEFINE F == Firsts(ids)
           x == base + Cardinality(F)
           e == Append(ids, x)
           n == Len(ids) + 1
<1>1. ids \in Seq(Nat) /\ Len(ids) \in Nat /\ DOMAIN ids = 1 .. Len(ids)
  BY DEF Numbered
<1>2. F \in SUBSET Nat /\ IsFiniteSet(F) /\ Cardinality(F) \in Nat
  BY <1>1, FirstsFinite
<1>3. x \in Nat /\ x # 0
  BY <1>2
<1>4. \A i \in DOMAIN ids : ids[i] # x
  <2>1. {ids[i] : i \in DOMAIN ids} \ {0} = base .. base + Cardinality(F) - 1
    BY DEF Numbered
  <2>2. x \notin base .. base + Cardinality(F) - 1 BY <1>2
  <2> QED BY <1>3, <2>1, <2>2
<1>5. \A i \in F : i \in DOMAIN ids
  BY DEF Firsts
<1> HIDE DEF F
<1>6. /\ e \in Seq(Nat) /\ DOMAIN e = 1 .. n /\ e[n] = x
      /\ \A i \in DOMAIN ids : i \in DOMAIN e /\ e[i] = ids[i] /\ i \in Nat /\ i < n
      /\ \A i \in DOMAIN e : i \in DOMAIN ids \/ i = n
      /\ n \in DOMAIN e /\ n \in Nat /\ n \notin DOMAIN ids
  <2> HIDE DEF x
  <2> QED BY <1>1, <1>3
<1> HIDE DEF e, n
<1>7. Firsts(e) = F \cup {n}
  <2>1. ASSUME NEW i \in DOMAIN ids PROVE i \in Firsts(e) <=> i \in F
    <3>1. \A j \in 1 .. i - 1 : j \in DOMAIN ids /\ e[j] = ids[j] BY <1>1, <1>6, SMTT(30)
    <3> QED BY <1>6, <3>1 DEF Firsts, F
  <2>2. n \in Firsts(e)
    <3>1. \A j \in 1 .. n - 1 : j \in DOMAIN ids BY <1>1 DEF n
    <3> QED BY <1>3, <1>4, <1>6, <3>1 DEF Firsts
  <2>3. \A i \in Firsts(e) : i \in DOMAIN e BY DEF Firsts
  <2> QED BY <1>5, <1>6, <2>1, <2>2, <2>3
<1>8. n \notin F
  BY <1>5, <1>6
<1>9. IsFiniteSet(F \cup {n}) /\ Cardinality(F \cup {n}) = Cardinality(F) + 1
  BY <1>2, <1>8, FS_AddElement
<1>10. \A i \in F : Before(F \cup {n}, i) = Before(F, i)
  <2> SUFFICES ASSUME NEW i \in F PROVE Before(F \cup {n}, i) = Before(F, i)
    OBVIOUS
  <2>1. ~(n < i) BY <1>5, <1>6
  <2> QED BY <2>1 DEF Before
<1>11. Before(F \cup {n}, n) = F
  <2>1. \A i \in F : i < n BY <1>5, <1>6
  <2>2. ~(n < n) BY <1>6
  <2> QED BY <2>1, <2>2 DEF Before
<1>12. \A i \in Firsts(e) : e[i] = base + Rank(Firsts(e), i)
  <2> SUFFICES ASSUME NEW i \in F \cup {n} PROVE e[i] = base + Rank(F \cup {n}, i)
    BY <1>7
  <2>1. CASE i \in F
    <3>1. ids[i] = base + Rank(F, i) BY <2>1 DEF Numbered, F
    <3> QED BY <1>5, <1>6, <1>10, <2>1, <3>1 DEF Rank
  <2>2. CASE i = n
    BY <1>6, <1>11, <2>2 DEF Rank
  <2> QED BY <2>1, <2>2
<1>13. ASSUME NEW i \in DOMAIN e, e[i] # 0 PROVE \E j \in Firsts(e) : e[j] = e[i]
  <2>1. CASE i = n BY <1>7, <2>1
  <2>2. CASE i \in DOMAIN ids
    <3>1. PICK j \in F : ids[j] = ids[i] BY <1>6, <1>13, <2>2 DEF Numbered, F
    <3> QED BY <1>5, <1>6, <1>7, <2>2, <3>1
  <2> QED BY <1>6, <2>1, <2>2
<1>14. {e[i] : i \in DOMAIN e} \ {0} = base .. base + Cardinality(Firsts(e)) - 1
  <2>1. {ids[i] : i \in DOMAIN ids} \ {0} = base .. base + Cardinality(F) - 1
    BY DEF Numbered, F
  <2>2. {e[i] : i \in DOMAIN e} = {ids[i] : i \in DOMAIN ids} \cup {x}
    <3> HIDE DEF x
    <3>1. \A i \in DOMAIN e : e[i] \in {ids[j] : j \in DOMAIN ids} \cup {x} BY <1>6
    <3>2. \A i \in DOMAIN ids : ids[i] \in {e[j] : j \in DOMAIN e} BY <1>6
    <3>3. x \in {e[j] : j \in DOMAIN e} BY <1>6
    <3> QED BY <3>1, <3>2, <3>3
  <2>3. (base .. base + Cardinality(F) - 1) \cup {x} = base .. base + (Cardinality(F) + 1) - 1
    BY <1>2
  <2>4. {e[i] : i \in DOMAIN e} \ {0} = ({ids[i] : i \in DOMAIN ids} \ {0}) \cup {x}
    <3> HIDE DEF x
    <3> QED BY <1>3, <2>2
  <2> HIDE DEF x
  <2> QED BY <1>7, <1>9, <2>1, <2>3, <2>4
<1>15. Numbered(e, base)
  BY <1>6, <1>12, <1>13, <1>14 DEF Numbered
<1> QED BY <1>15 DEF e, F

-----------------------------------------------------------------------------
(* Styles.                                                                 *)

RegisteredStyles == [style : CellStyles, numFmt : Nat, font : Nat, fill : Nat]
Kinds == {"numFmt", "font", "fill"}
IdList(kind) == [i \in DOMAIN styles |-> styles[i][kind]]

\* The ids of a kind are numbered, 0 stands for no value and any other id for
\* the one value that all styles with it have.
KindInv(kind, base) ==
    /\ Numbered(IdList(kind), base)
    /\ \A i \in DOMAIN styles :
          styles[i][kind] = 0 <=> ValueOf(kind, styles[i].style) = None
    /\ \A i, j \in DOMAIN styles :
          styles[i][kind] # 0 =>
             (styles[j][kind] = styles[i][kind]
              <=> ValueOf(kind, styles[j].style) = ValueOf(kind, styles[i].style))

\* The invariant: all three kinds, and an answered id stands for a style that
\* is equivalent to the one asked for.
StylesInv ==
    /\ styles \in Seq(RegisteredStyles)
    /\ KindInv("numFmt", FirstNumberFormat)
    /\ KindInv("font", 1)
    /\ KindInv("fill", 2)
    /\ \A answer \in issued :
          /\ answer[2] \in DOMAIN styles
          /\ Equivalent(styles[answer[2]].style, answer[1])

LEMMA StylesInit == InitParts => StylesInv
<1> SUFFICES ASSUME InitParts PROVE StylesInv
  OBVIOUS
<1>1. styles = << >> /\ issued = {} /\ DOMAIN styles = {}
  BY DEF InitParts
<1>2. ASSUME NEW kind, NEW base \in Nat, base # 0 PROVE KindInv(kind, base)
  <2>1. IdList(kind) = << >> /\ << >> \in Seq(Nat) /\ DOMAIN << >> = {}
    BY <1>1 DEF IdList
  <2>2. Firsts(<< >>) = {} BY DEF Firsts
  <2>3. Cardinality({}) = 0 BY FS_EmptySet
  <2>4. base .. base + Cardinality({}) - 1 = {} BY <2>3
  <2>5. Numbered(<< >>, base) BY <2>1, <2>2, <2>4 DEF Numbered
  <2> QED BY <1>1, <2>1, <2>5 DEF KindInv
<1>3. styles \in Seq(RegisteredStyles)
  BY <1>1
<1> QED BY <1>1, <1>2, <1>3 DEF StylesInv, FirstNumberFormat

\* The value of a style of each kind that has an id is given the same id.
LEMMA IdForSays ==
    ASSUME NEW kind \in Kinds, NEW base \in Nat, base # 0, KindInv(kind, base), NEW style,
           styles \in Seq(RegisteredStyles)
    PROVE  \/ IdFor(kind, base, style) = 0 /\ ValueOf(kind, style) = None
           \/ /\ ValueOf(kind, style) # None
              /\ \E i \in DOMAIN styles :
                    /\ styles[i][kind] # 0
                    /\ IdFor(kind, base, style) = styles[i][kind]
                    /\ ValueOf(kind, styles[i].style) = ValueOf(kind, style)
           \/ /\ ValueOf(kind, style) # None
              /\ IdFor(kind, base, style) = base + Cardinality(Firsts(IdList(kind)))
              /\ \A i \in DOMAIN styles :
                    /\ styles[i][kind] # IdFor(kind, base, style)
                    /\ ValueOf(kind, styles[i].style) # ValueOf(kind, style)
<1> DEFINE same == {i \in DOMAIN styles :
                       /\ styles[i][kind] # 0
                       /\ ValueOf(kind, styles[i].style) = ValueOf(kind, style)}
           F == Firsts(IdList(kind))
<1>1. DOMAIN styles = 1 .. Len(styles) /\ Len(styles) \in Nat
  OBVIOUS
<1>2. CASE ValueOf(kind, style) = None
  BY <1>2 DEF IdFor
<1>3. CASE ValueOf(kind, style) # None /\ same # {}
  <2>1. same \in SUBSET (1 .. Len(styles)) /\ 1 .. Len(styles) \in SUBSET Int
    BY <1>1
  <2>2. IsFiniteSet(1 .. Len(styles))
    BY <1>1, FS_Interval
  <2>3. Min(same) \in same
    <3> HIDE DEF same
    <3> QED BY <1>3, <2>1, <2>2, MinProperty
  <2>4. IdFor(kind, base, style) = styles[Min(same)][kind]
    BY <1>3 DEF IdFor
  <2> QED BY <1>3, <2>3, <2>4
<1>4. CASE ValueOf(kind, style) # None /\ same = {}
  <2>1. IdFor(kind, base, style) = base + Cardinality(IdsOf(kind))
    BY <1>4 DEF IdFor, NextId
  <2>2. IdsOf(kind) = {IdList(kind)[i] : i \in DOMAIN IdList(kind)} \ {0}
    BY DEF IdsOf, IdList
  <2>3. IdsOf(kind) = base .. base + Cardinality(F) - 1 /\ Cardinality(F) \in Nat
    BY <2>2, FirstsFinite DEF KindInv, Numbered
  <2> HIDE DEF F
  <2>4. Cardinality(base .. base + Cardinality(F) - 1) = Cardinality(F)
    <3> DEFINE top == base + Cardinality(F) - 1
    <3>1. top \in Int BY <2>3
    <3>2. Cardinality(base .. top) = IF base > top THEN 0 ELSE top - base + 1
      <4> HIDE DEF top
      <4> QED BY <3>1, FS_Interval
    <3> QED BY <2>3, <3>2
  <2>5. IdFor(kind, base, style) = base + Cardinality(F)
    BY <2>1, <2>3, <2>4
  <2>6. base + Cardinality(F) # 0 /\ base + Cardinality(F) \notin IdsOf(kind)
    BY <2>3
  <2>7. \A i \in DOMAIN styles : styles[i][kind] # base + Cardinality(F)
    BY <2>6 DEF IdsOf
  <2>8. ASSUME NEW i \in DOMAIN styles PROVE ValueOf(kind, styles[i].style) # ValueOf(kind, style)
    <3>1. CASE styles[i][kind] = 0 BY <1>4, <3>1 DEF KindInv
    <3>2. CASE styles[i][kind] # 0 BY <1>4, <3>2
    <3> QED BY <3>1, <3>2
  <2> QED BY <1>4, <2>5, <2>7, <2>8 DEF F
<1> QED BY <1>2, <1>3, <1>4

LEMMA KindStep ==
    ASSUME NEW kind \in Kinds, NEW base \in Nat, base # 0, KindInv(kind, base),
           styles \in Seq(RegisteredStyles), NEW style, NEW entry \in RegisteredStyles,
           entry.style = style, entry[kind] = IdFor(kind, base, style),
           styles' = Append(styles, entry)
    PROVE  KindInv(kind, base)'
<1> DEFINE x == IdFor(kind, base, style)
           n == Len(styles) + 1
           V(i) == ValueOf(kind, styles[i].style)
           v == ValueOf(kind, style)
<1>1. /\ DOMAIN styles' = 1 .. n /\ styles'[n] = entry /\ DOMAIN styles = 1 .. Len(styles)
      /\ \A i \in DOMAIN styles : i \in DOMAIN styles' /\ styles'[i] = styles[i]
      /\ \A i \in DOMAIN styles' : i \in DOMAIN styles \/ i = n
      /\ n \in DOMAIN styles'
  OBVIOUS
<1>2. IdList(kind)' = Append(IdList(kind), x)
  <2>1. IdList(kind) \in Seq(Nat) BY DEF KindInv, Numbered
  <2>2. DOMAIN IdList(kind) = 1 .. Len(styles) /\ Len(IdList(kind)) = Len(styles)
    BY <1>1, <2>1 DEF IdList
  <2> DEFINE ids == IdList(kind)
             e == Append(ids, x)
  <2>0. x \in Nat
    <3> HIDE DEF x
    <3>1. entry[kind] = x BY DEF x
    <3> QED BY <3>1 DEF RegisteredStyles, Kinds
  <2>3. /\ e \in Seq(Nat) /\ DOMAIN e = 1 .. n /\ e[n] = x
        /\ \A i \in 1 .. Len(styles) : e[i] = ids[i]
    <3>1. ids \in Seq(Nat) /\ Len(ids) = Len(styles) BY <2>1, <2>2
    <3> HIDE DEF ids, x
    <3>2. e \in Seq(Nat) /\ Len(e) = n /\ DOMAIN e = 1 .. Len(e)
      BY <2>0, <3>1
    <3>3. e[n] = x /\ \A i \in 1 .. Len(styles) : e[i] = ids[i]
      BY <2>0, <3>1
    <3> QED BY <3>2, <3>3
  <2>4. \A i \in 1 .. n : styles'[i][kind] = e[i]
    <3> TAKE i \in 1 .. n
    <3>1. CASE i = n BY <1>1, <2>3, <3>1
    <3>2. CASE i \in 1 .. Len(styles)
      <4>1. styles'[i] = styles[i] /\ ids[i] = styles[i][kind] BY <1>1, <3>2 DEF IdList
      <4> HIDE DEF e, ids
      <4> QED BY <2>3, <3>2, <4>1
    <3>3. Len(styles) \in Nat OBVIOUS
    <3>4. i = n \/ i \in 1 .. Len(styles) BY <3>3
    <3> QED BY <3>1, <3>2, <3>4
  <2>5. e = [i \in 1 .. n |-> e[i]]
    <3> HIDE DEF e
    <3> QED BY <2>3
  <2>6. IdList(kind)' = [i \in 1 .. n |-> styles'[i][kind]] BY <1>1 DEF IdList
  <2> HIDE DEF e, n
  <2> QED BY <2>4, <2>5, <2>6 DEF e
<1>3. \/ x = 0 /\ v = None
      \/ /\ v # None
         /\ \E i \in DOMAIN styles : styles[i][kind] # 0 /\ x = styles[i][kind] /\ V(i) = v
      \/ /\ v # None
         /\ x = base + Cardinality(Firsts(IdList(kind)))
         /\ \A i \in DOMAIN styles : styles[i][kind] # x /\ V(i) # v
  BY IdForSays
<1> HIDE DEF x, v
<1>4. Numbered(IdList(kind)', base)
  <2>1. Numbered(IdList(kind), base) BY DEF KindInv
  <2>2. CASE x = 0 BY <1>2, <2>1, <2>2, NumberedAgain
  <2>3. CASE \E i \in DOMAIN styles : x = styles[i][kind]
    <3>1. \E i \in DOMAIN IdList(kind) : IdList(kind)[i] = x BY <2>3 DEF IdList
    <3> QED BY <1>2, <2>1, <3>1, NumberedAgain
  <2>4. CASE x = base + Cardinality(Firsts(IdList(kind)))
    BY <1>2, <2>1, <2>4, NumberedNext
  <2> QED BY <1>3, <2>2, <2>3, <2>4
\* What the new style has of the kind, beside the others.
<1>5. /\ x = 0 <=> v = None
      /\ \A i \in DOMAIN styles :
            /\ x # 0 => (styles[i][kind] = x <=> V(i) = v)
            /\ styles[i][kind] # 0 => (x = styles[i][kind] <=> v = V(i))
  <2>1. /\ \A i \in DOMAIN styles : styles[i][kind] = 0 <=> V(i) = None
        /\ \A i, j \in DOMAIN styles :
              styles[i][kind] # 0 => (styles[j][kind] = styles[i][kind] <=> V(j) = V(i))
    BY DEF KindInv
  <2> HIDE DEF V
  <2>2. CASE x = 0 /\ v = None BY <2>1, <2>2
  <2>3. CASE /\ v # None
             /\ \E i \in DOMAIN styles : styles[i][kind] # 0 /\ x = styles[i][kind] /\ V(i) = v
    BY <2>1, <2>3
  <2>4. CASE /\ v # None
             /\ x = base + Cardinality(Firsts(IdList(kind)))
             /\ \A i \in DOMAIN styles : styles[i][kind] # x /\ V(i) # v
    <3>1. x # 0
      <4>1. IdList(kind) \in Seq(Nat) BY DEF KindInv, Numbered
      <4>2. Cardinality(Firsts(IdList(kind))) \in Nat BY <4>1, FirstsFinite
      <4> QED BY <2>4, <4>2
    <3> QED BY <2>4, <3>1
  <2> QED BY <1>3, <2>2, <2>3, <2>4
<1>6. /\ \A i \in DOMAIN styles : /\ styles'[i][kind] = styles[i][kind]
                                  /\ ValueOf(kind, styles'[i].style) = V(i)
      /\ styles'[n][kind] = x /\ ValueOf(kind, styles'[n].style) = v
  BY <1>1 DEF x, v
<1> DEFINE W(i) == ValueOf(kind, styles'[i].style)
<1>7. \A i \in DOMAIN styles' : styles'[i][kind] = 0 <=> W(i) = None
  <2> TAKE i \in DOMAIN styles'
  <2>1. CASE i = n BY <1>5, <1>6, <2>1
  <2>2. CASE i \in DOMAIN styles
    BY <1>6, <2>2 DEF KindInv
  <2> QED BY <1>1, <2>1, <2>2
<1>8. \A i, j \in DOMAIN styles' :
         styles'[i][kind] # 0 => (styles'[j][kind] = styles'[i][kind] <=> W(j) = W(i))
  <2> TAKE i, j \in DOMAIN styles'
  <2>1. CASE i \in DOMAIN styles /\ j \in DOMAIN styles
    BY <1>6, <2>1 DEF KindInv
  <2> HIDE DEF V, W, n
  <2>2. CASE i = n /\ j = n BY <2>2
  <2>3. CASE i = n /\ j \in DOMAIN styles BY <1>5, <1>6, <2>3 DEF W
  <2>4. CASE i \in DOMAIN styles /\ j = n BY <1>5, <1>6, <2>4 DEF W
  <2> QED BY <1>1, <2>1, <2>2, <2>3, <2>4
<1> QED BY <1>4, <1>7, <1>8 DEF KindInv

LEMMA IdForType ==
    ASSUME NEW kind \in Kinds, NEW base \in Nat, base # 0, KindInv(kind, base), NEW style,
           styles \in Seq(RegisteredStyles)
    PROVE  IdFor(kind, base, style) \in Nat
<1>1. \A i \in DOMAIN styles : styles[i][kind] \in Nat
  <2>1. \A i \in DOMAIN styles : styles[i] \in RegisteredStyles OBVIOUS
  <2>2. \A r \in RegisteredStyles : r[kind] \in Nat BY DEF RegisteredStyles, Kinds
  <2> QED BY <2>1, <2>2
<1>2. Cardinality(Firsts(IdList(kind))) \in Nat
  BY FirstsFinite DEF KindInv, Numbered
<1> QED BY <1>1, <1>2, IdForSays

LEMMA StyleKeepsStyles ==
    ASSUME StylesInv, NEW style \in CellStyles, AddStyle(style)
    PROVE  StylesInv'
<1> DEFINE existing == {i \in DOMAIN styles : Equivalent(styles[i].style, style)}
           entry == Registered(style)
<1>1. styles \in Seq(RegisteredStyles) /\ DOMAIN styles = 1 .. Len(styles) /\ Len(styles) \in Nat
  BY DEF StylesInv
<1>2. CASE existing # {}
  <2>1. issued' = issued \cup {<<style, Min(existing)>>} /\ styles' = styles
    BY <1>2 DEF AddStyle
  <2>2. Min(existing) \in existing
    <3>1. existing \in SUBSET (1 .. Len(styles)) /\ 1 .. Len(styles) \in SUBSET Int
      BY <1>1
    <3>2. IsFiniteSet(1 .. Len(styles)) BY <1>1, FS_Interval
    <3> HIDE DEF existing
    <3> QED BY <1>2, <3>1, <3>2, MinProperty
  <2>3. \A answer \in issued' : /\ answer[2] \in DOMAIN styles
                                /\ Equivalent(styles[answer[2]].style, answer[1])
    <3>1. /\ Min(existing) \in DOMAIN styles
          /\ Equivalent(styles[Min(existing)].style, style)
      BY <2>2
    <3> HIDE DEF existing
    <3> QED BY <2>1, <3>1 DEF StylesInv
  <2>4. \A kind, base : KindInv(kind, base) => KindInv(kind, base)'
    BY <2>1 DEF KindInv, IdList
  <2> HIDE DEF existing
  <2> QED BY <2>1, <2>3, <2>4 DEF StylesInv
<1>3. CASE existing = {}
  <2>1. styles' = Append(styles, entry) /\ issued' = issued \cup {<<style, Len(styles')>>}
    BY <1>3 DEF AddStyle
  <2>2. /\ KindInv("numFmt", FirstNumberFormat) /\ KindInv("font", 1) /\ KindInv("fill", 2)
        /\ FirstNumberFormat \in Nat /\ FirstNumberFormat # 0
    BY DEF StylesInv, FirstNumberFormat
  <2>3. /\ IdFor("numFmt", FirstNumberFormat, style) \in Nat
        /\ IdFor("font", 1, style) \in Nat
        /\ IdFor("fill", 2, style) \in Nat
    <3>1. "numFmt" \in Kinds /\ "font" \in Kinds /\ "fill" \in Kinds BY DEF Kinds
    <3>2. IdFor("numFmt", FirstNumberFormat, style) \in Nat
      BY <1>1, <2>2, <3>1, IdForType
    <3>3. IdFor("font", 1, style) \in Nat
      BY <1>1, <2>2, <3>1, IdForType
    <3>4. IdFor("fill", 2, style) \in Nat
      BY <1>1, <2>2, <3>1, IdForType
    <3> QED BY <3>2, <3>3, <3>4
  <2>4. /\ entry \in RegisteredStyles /\ entry.style = style
        /\ entry["numFmt"] = IdFor("numFmt", FirstNumberFormat, style)
        /\ entry["font"] = IdFor("font", 1, style)
        /\ entry["fill"] = IdFor("fill", 2, style)
    BY <2>3 DEF Registered, RegisteredStyles
  <2> HIDE DEF entry
  <2>5. KindInv("numFmt", FirstNumberFormat)'
    <3>1. "numFmt" \in Kinds BY DEF Kinds
    <3> QED BY <1>1, <2>1, <2>2, <2>4, <3>1, KindStep
  <2>6. KindInv("font", 1)'
    <3>1. "font" \in Kinds BY DEF Kinds
    <3> QED BY <1>1, <2>1, <2>2, <2>4, <3>1, KindStep
  <2>7. KindInv("fill", 2)'
    <3>1. "fill" \in Kinds BY DEF Kinds
    <3> QED BY <1>1, <2>1, <2>2, <2>4, <3>1, KindStep
  <2>8. /\ styles' \in Seq(RegisteredStyles) /\ Len(styles') \in DOMAIN styles'
        /\ styles'[Len(styles')] = entry
        /\ \A i \in DOMAIN styles : i \in DOMAIN styles' /\ styles'[i] = styles[i]
    BY <1>1, <2>1, <2>4
  <2>9. \A answer \in issued' : /\ answer[2] \in DOMAIN styles'
                                /\ Equivalent(styles'[answer[2]].style, answer[1])
    <3>1. Equivalent(entry.style, style) BY <2>4 DEF Equivalent
    <3>2. ASSUME NEW answer \in issued'
          PROVE  answer \in issued \/ (answer[1] = style /\ answer[2] = Len(styles'))
      BY <2>1
    <3>3. ASSUME NEW answer \in issued
          PROVE  /\ answer[2] \in DOMAIN styles'
                 /\ Equivalent(styles'[answer[2]].style, answer[1])
      BY <2>8 DEF StylesInv
    <3>4. ASSUME NEW answer, answer[1] = style, answer[2] = Len(styles')
          PROVE  /\ answer[2] \in DOMAIN styles'
                 /\ Equivalent(styles'[answer[2]].style, answer[1])
      BY <2>8, <3>1, <3>4
    <3> QED BY <3>2, <3>3, <3>4
  <2> QED BY <2>5, <2>6, <2>7, <2>8, <2>9 DEF StylesInv
<1> QED BY <1>2, <1>3

THEOREM StylesStep == StylesInv /\ [NextWithParts]_allvars => StylesInv'
<1> SUFFICES ASSUME StylesInv, [NextWithParts]_allvars PROVE StylesInv'
  OBVIOUS
<1>1. CASE UNCHANGED <<styles, issued>>
  BY <1>1 DEF StylesInv, KindInv, IdList
<1>2. CASE RowStep
  BY <1>1, <1>2 DEF RowStep, metadata
<1>3. CASE UNCHANGED allvars
  BY <1>1, <1>3 DEF allvars, metadata
<1>4. ASSUME PartStep PROVE UNCHANGED <<styles, issued>> \/ \E style \in CellStyles : AddStyle(style)
  BY <1>4 DEF PartStep, AddExternalHyperlink, AddInternalHyperlink, AddTable, AddImage,
       AddDataValidation, AddColorScale, AddDataBar, AddIconSet, AddRule, Record, CloseWithParts
<1> QED BY <1>1, <1>2, <1>3, <1>4, StyleKeepsStyles DEF NextWithParts

\* The parts that the styles file lists of a kind stand at the places of their ids.
LEMMA FirstUsesPlaces ==
    ASSUME NEW kind \in Kinds, NEW base \in Nat, base # 0, KindInv(kind, base),
           styles \in Seq(RegisteredStyles)
    PROVE  LET places == FirstUses(kind) IN
           /\ \E n \in Nat : DOMAIN places = 1 .. n
           /\ \A k \in DOMAIN places : /\ places[k] \in DOMAIN styles
                                       /\ styles[places[k]][kind] = base + (k - 1)
           /\ \A i \in DOMAIN styles : styles[i][kind] # 0 =>
                 \E k \in DOMAIN places : styles[i][kind] = base + (k - 1)
<1> DEFINE ids == IdList(kind)
           F == Firsts(ids)
           places == FirstUses(kind)
<1>1. ids \in Seq(Nat) /\ DOMAIN ids = DOMAIN styles
      /\ \A i \in DOMAIN styles : ids[i] = styles[i][kind]
  BY DEF KindInv, Numbered, IdList
<1>2. \A i \in DOMAIN styles : \A j \in 1 .. i - 1 : j \in DOMAIN styles
  <2>1. DOMAIN styles = 1 .. Len(styles) /\ Len(styles) \in Nat OBVIOUS
  <2> QED BY <2>1
<1>3. places = InOrder(F)
  <2>1. F = {i \in DOMAIN styles : /\ styles[i][kind] # 0
                                   /\ \A j \in 1 .. i - 1 : styles[j][kind] # styles[i][kind]}
    <3> HIDE DEF ids
    <3> QED BY <1>1, <1>2 DEF Firsts
  <2> QED BY <2>1 DEF FirstUses
<1>4. F \in SUBSET Nat /\ IsFiniteSet(F)
  <2> HIDE DEF ids
  <2> QED BY <1>1, FirstsFinite
<1>5. /\ \A i \in F : i \in DOMAIN ids /\ ids[i] = base + Rank(F, i)
      /\ \A i \in DOMAIN ids : ids[i] # 0 => \E j \in F : ids[j] = ids[i]
  BY DEF KindInv, Numbered, Firsts
<1> HIDE DEF ids, F, places
<1>6. /\ Cardinality(F) \in Nat
      /\ DOMAIN places = 1 .. Cardinality(F)
      /\ \A x \in F : /\ Rank(F, x) + 1 \in 1 .. Cardinality(F)
                      /\ places[Rank(F, x) + 1] = x
      /\ \A k \in 1 .. Cardinality(F) : /\ places[k] \in F
                                        /\ Rank(F, places[k]) = k - 1
  BY <1>3, <1>4, OrderedPlaces
<1>7. \A k \in DOMAIN places : /\ places[k] \in DOMAIN styles
                               /\ styles[places[k]][kind] = base + (k - 1)
  BY <1>1, <1>5, <1>6
<1>8. ASSUME NEW i \in DOMAIN styles, styles[i][kind] # 0
      PROVE  \E k \in DOMAIN places : styles[i][kind] = base + (k - 1)
  <2>1. PICK j \in F : ids[j] = ids[i] BY <1>1, <1>5, <1>8
  <2>2. ids[i] = base + Rank(F, j) BY <1>5, <2>1
  <2>3. Rank(F, j) \in Nat BY <1>4, RankRises
  <2>4. (Rank(F, j) + 1) - 1 = Rank(F, j) BY <2>3
  <2> QED BY <1>1, <1>6, <2>2, <2>4
<1> QED BY <1>6, <1>7, <1>8 DEF places

\* A style is found, of each kind, where its id says.
LEMMA FindsKind ==
    ASSUME NEW kind \in Kinds, NEW base \in Nat, base # 0, KindInv(kind, base),
           styles \in Seq(RegisteredStyles), NEW id \in DOMAIN styles
    PROVE  LET places == FirstUses(kind)
               v == ValueOf(kind, styles[id].style) IN
           \/ styles[id][kind] = 0 /\ v = None
           \/ /\ v # None
              /\ styles[id][kind] # 0
              /\ \E k \in DOMAIN places :
                    /\ styles[id][kind] = base + (k - 1)
                    /\ places[k] \in DOMAIN styles
              /\ \A k \in DOMAIN places :
                    styles[id][kind] = base + (k - 1) =>
                       /\ ValueOf(kind, styles[places[k]].style) = v
                       /\ styles[places[k]][kind] = styles[id][kind]
<1> DEFINE places == FirstUses(kind)
           V(i) == ValueOf(kind, styles[i].style)
<1>1. /\ \A k \in DOMAIN places : /\ places[k] \in DOMAIN styles
                                  /\ styles[places[k]][kind] = base + (k - 1)
      /\ \A i \in DOMAIN styles : styles[i][kind] # 0 =>
            \E k \in DOMAIN places : styles[i][kind] = base + (k - 1)
  BY FirstUsesPlaces
<1>2. /\ \A i \in DOMAIN styles : styles[i][kind] = 0 <=> V(i) = None
      /\ \A i, j \in DOMAIN styles :
            styles[i][kind] # 0 => (styles[j][kind] = styles[i][kind] <=> V(j) = V(i))
  BY DEF KindInv
<1> HIDE DEF places, V
<1>3. CASE styles[id][kind] = 0
  BY <1>2, <1>3 DEF V
<1>4. CASE styles[id][kind] # 0
  <2>1. V(id) # None /\ \E k \in DOMAIN places : /\ styles[id][kind] = base + (k - 1)
                                                 /\ places[k] \in DOMAIN styles
    BY <1>1, <1>2, <1>4
  <2>2. ASSUME NEW k \in DOMAIN places, styles[id][kind] = base + (k - 1)
        PROVE  V(places[k]) = V(id) /\ styles[places[k]][kind] = styles[id][kind]
    BY <1>1, <1>2, <1>4, <2>2
  <2> QED BY <1>4, <2>1, <2>2 DEF places, V
<1> QED BY <1>3, <1>4

\* A list of n values behind one of m.
LEMMA ListBehind ==
    ASSUME NEW m \in Nat, NEW n \in Nat, NEW first, NEW list,
           first = [i \in 1 .. m |-> first[i]], list = [i \in 1 .. n |-> list[i]]
    PROVE  /\ DOMAIN (first \o list) = 1 .. m + n
           /\ \A i \in 1 .. m : (first \o list)[i] = first[i]
           /\ \A k \in 1 .. n : m + k \in 1 .. m + n /\ (first \o list)[m + k] = list[k]
<1> DEFINE S == {first[i] : i \in 1 .. m} \cup {list[i] : i \in 1 .. n}
<1>1. first \in Seq(S) /\ Len(first) = m
  <2>1. \A i \in 1 .. m : first[i] \in S OBVIOUS
  <2> HIDE DEF S
  <2>2. first \in [1 .. m -> S] BY <2>1
  <2> QED BY <2>2
<1>2. list \in Seq(S) /\ Len(list) = n
  <2>1. \A i \in 1 .. n : list[i] \in S OBVIOUS
  <2> HIDE DEF S
  <2>2. list \in [1 .. n -> S] BY <2>1
  <2> QED BY <2>2
<1> HIDE DEF S
<1>3. DOMAIN (first \o list) = 1 .. m + n
      /\ \A i \in 1 .. m : (first \o list)[i] = first[i]
  BY <1>1, <1>2, ConcatDomain
<1>4. \A i \in 1 .. m + n : (first \o list)[i] = IF i <= m THEN first[i] ELSE list[i - m]
  BY <1>1, <1>2, ConcatProperties
<1>5. \A k \in 1 .. n : m + k \in 1 .. m + n /\ ~(m + k <= m) /\ (m + k) - m = k
  OBVIOUS
<1> QED BY <1>3, <1>4, <1>5

(* A style id that add_style returned stands, in the styles part as it     *)
(* would be written at any later time, for the font, fill, number format   *)
(* and alignment that were asked for.                                      *)
THEOREM StylesAreFound == SpecWithParts => []StylesReadBack
<1>1. InitWithParts => StylesInv
  BY StylesInit DEF InitWithParts
<1>2. StylesInv => StylesReadBack
  <2> SUFFICES ASSUME StylesInv, NEW answer \in issued
               PROVE  LET style == answer[1]
                          xf == StylesXml.xfs[answer[2]]
                          formats == {i \in DOMAIN StylesXml.numFmts :
                                         StylesXml.numFmts[i][1] = xf.numFmt}
                      IN  /\ xf.font + 1 \in DOMAIN StylesXml.fonts
                          /\ xf.fill + 1 \in DOMAIN StylesXml.fills
                          /\ StylesXml.fonts[xf.font + 1] = EffectiveFont(style)
                          /\ StylesXml.fills[xf.fill + 1] = style.fill
                          /\ xf.alignment = style.alignment
                          /\ IF style.format = None THEN xf.numFmt = 0
                             ELSE {StylesXml.numFmts[i][2] : i \in formats} = {style.format}
    BY DEF StylesReadBack
  <2> DEFINE style == answer[1]
             id == answer[2]
             found == styles[id].style
             formats == FirstUses("numFmt")
             fonts == FirstUses("font")
             fills == FirstUses("fill")
             fontList == [i \in DOMAIN fonts |-> styles[fonts[i]].style.font]
             fillList == [i \in DOMAIN fills |-> styles[fills[i]].style.fill]
  <2>1. id \in DOMAIN styles /\ Equivalent(found, style)
        /\ styles \in Seq(RegisteredStyles)
    BY DEF StylesInv
  <2>2. /\ StylesXml.xfs[id].numFmt = styles[id].numFmt
        /\ StylesXml.xfs[id].font = styles[id].font
        /\ StylesXml.xfs[id].fill = styles[id].fill
        /\ StylesXml.xfs[id].alignment = found.alignment
    BY <2>1 DEF StylesXml
  <2>3. /\ StylesXml.fonts = <<None>> \o fontList
        /\ StylesXml.fills = <<None, "gray125">> \o fillList
        /\ StylesXml.numFmts = [i \in DOMAIN formats |->
              <<styles[formats[i]].numFmt, styles[formats[i]].style.format>>]
    BY DEF StylesXml
  <2>4. /\ \A s : ValueOf("numFmt", s) = s.format
        /\ \A s : ValueOf("font", s) = EffectiveFont(s)
        /\ \A s : ValueOf("fill", s) = s.fill
    BY DEF ValueOf
  <2>5. /\ found.format = style.format /\ found.fill = style.fill
        /\ found.alignment = style.alignment /\ EffectiveFont(found) = EffectiveFont(style)
    BY <2>1 DEF Equivalent
  <2>6. FirstNumberFormat \in Nat /\ FirstNumberFormat # 0
        /\ KindInv("numFmt", FirstNumberFormat) /\ KindInv("font", 1) /\ KindInv("fill", 2)
        /\ "numFmt" \in Kinds /\ "font" \in Kinds /\ "fill" \in Kinds
    BY DEF StylesInv, FirstNumberFormat, Kinds
  <2> HIDE DEF found, formats, fonts, fills, fontList, fillList
  <2>7. /\ styles[id].font + 1 \in DOMAIN (<<None>> \o fontList)
        /\ (<<None>> \o fontList)[styles[id].font + 1] = EffectiveFont(found)
    <3>1. PICK n \in Nat : DOMAIN fonts = 1 .. n
      BY <2>1, <2>6, FirstUsesPlaces DEF fonts
    <3>2. fontList = [i \in 1 .. n |-> fontList[i]]
          /\ \A i \in 1 .. n : fontList[i] = styles[fonts[i]].style.font
      BY <3>1 DEF fontList
    <3>3. <<None>> = [i \in 1 .. 1 |-> <<None>>[i]] /\ <<None>>[1] = None OBVIOUS
    <3>4. /\ DOMAIN (<<None>> \o fontList) = 1 .. 1 + n
          /\ (<<None>> \o fontList)[1] = None
          /\ \A k \in 1 .. n : /\ 1 + k \in 1 .. 1 + n
                                /\ (<<None>> \o fontList)[1 + k] = fontList[k]
      <4> DEFINE first == <<None>>
      <4>1. first = [i \in 1 .. 1 |-> first[i]] /\ first[1] = None BY <3>3
      <4> HIDE DEF first
      <4>2. /\ DOMAIN (first \o fontList) = 1 .. 1 + n
            /\ \A i \in 1 .. 1 : (first \o fontList)[i] = first[i]
            /\ \A k \in 1 .. n : /\ 1 + k \in 1 .. 1 + n
                                  /\ (first \o fontList)[1 + k] = fontList[k]
        BY <3>2, <4>1, ListBehind
      <4> QED BY <4>1, <4>2 DEF first
    <3> DEFINE v == EffectiveFont(found)
    <3>5. \/ styles[id].font = 0 /\ v = None
          \/ /\ v # None
             /\ \E k \in DOMAIN fonts : styles[id].font = 1 + (k - 1)
             /\ \A k \in DOMAIN fonts : styles[id].font = 1 + (k - 1) =>
                   EffectiveFont(styles[fonts[k]].style) = v
      <4>1. ValueOf("font", found) = v BY <2>4
      <4> HIDE DEF v
      <4> QED BY <2>1, <2>4, <2>6, <4>1, FindsKind DEF fonts, found
    <3>6. CASE styles[id].font = 0 /\ v = None
      <4>1. 0 + 1 \in 1 .. 1 + n BY <3>1
      <4> QED BY <3>4, <3>6, <4>1
    <3>7. CASE v # None
      <4>1. PICK k \in 1 .. n : styles[id].font = 1 + (k - 1) BY <3>1, <3>5, <3>7
      <4>2. EffectiveFont(styles[fonts[k]].style) = v BY <3>1, <3>5, <3>7, <4>1
      <4>3. styles[fonts[k]].style.font = v BY <3>7, <4>2 DEF EffectiveFont
      <4>4. styles[id].font + 1 = 1 + k BY <4>1
      <4> QED BY <3>2, <3>4, <4>3, <4>4
    <3> QED BY <3>5, <3>6, <3>7
  <2>8. /\ styles[id].fill + 1 \in DOMAIN (<<None, "gray125">> \o fillList)
        /\ (<<None, "gray125">> \o fillList)[styles[id].fill + 1] = found.fill
    <3>1. PICK n \in Nat : DOMAIN fills = 1 .. n
      BY <2>1, <2>6, FirstUsesPlaces DEF fills
    <3>2. fillList = [i \in 1 .. n |-> fillList[i]]
          /\ \A i \in 1 .. n : fillList[i] = styles[fills[i]].style.fill
      BY <3>1 DEF fillList
    <3> DEFINE first == <<None, "gray125">>
    <3>3. first = [i \in 1 .. 2 |-> first[i]] /\ first[1] = None OBVIOUS
    <3> HIDE DEF first
    <3>4. /\ DOMAIN (first \o fillList) = 1 .. 2 + n
          /\ (first \o fillList)[1] = None
          /\ \A k \in 1 .. n : /\ 2 + k \in 1 .. 2 + n
                                /\ (first \o fillList)[2 + k] = fillList[k]
      <4>1. /\ DOMAIN (first \o fillList) = 1 .. 2 + n
            /\ \A i \in 1 .. 2 : (first \o fillList)[i] = first[i]
            /\ \A k \in 1 .. n : /\ 2 + k \in 1 .. 2 + n
                                  /\ (first \o fillList)[2 + k] = fillList[k]
        BY <3>2, <3>3, ListBehind
      <4> QED BY <3>3, <4>1
    <3>5. \/ styles[id].fill = 0 /\ found.fill = None
          \/ /\ \E k \in DOMAIN fills : styles[id].fill = 2 + (k - 1)
             /\ \A k \in DOMAIN fills : styles[id].fill = 2 + (k - 1) =>
                   styles[fills[k]].style.fill = found.fill
      <4> DEFINE v == ValueOf("fill", styles[id].style)
      <4>1. /\ 2 \in Nat /\ 2 # 0 OBVIOUS
      <4>2. \/ styles[id]["fill"] = 0 /\ v = None
            \/ /\ \E k \in DOMAIN fills : styles[id]["fill"] = 2 + (k - 1)
               /\ \A k \in DOMAIN fills : styles[id]["fill"] = 2 + (k - 1) =>
                     ValueOf("fill", styles[fills[k]].style) = v
        BY <2>1, <2>6, <4>1, FindsKind DEF fills
      <4> QED BY <2>4, <4>2 DEF found
    <3>6. CASE styles[id].fill = 0 /\ found.fill = None
      <4>1. 0 + 1 \in 1 .. 2 + n BY <3>1
      <4> QED BY <3>4, <3>6, <4>1 DEF first
    <3>7. CASE /\ \E k \in DOMAIN fills : styles[id].fill = 2 + (k - 1)
               /\ \A k \in DOMAIN fills : styles[id].fill = 2 + (k - 1) =>
                     styles[fills[k]].style.fill = found.fill
      <4>1. PICK k \in 1 .. n : styles[id].fill = 2 + (k - 1) BY <3>1, <3>7
      <4>2. styles[fills[k]].style.fill = found.fill BY <3>1, <3>7, <4>1
      <4>3. styles[id].fill + 1 = 2 + k BY <4>1
      <4> QED BY <3>2, <3>4, <4>2, <4>3 DEF first
    <3> QED BY <3>5, <3>6, <3>7
  <2>9. LET matching == {i \in DOMAIN StylesXml.numFmts :
                            StylesXml.numFmts[i][1] = styles[id].numFmt} IN
        IF style.format = None THEN styles[id].numFmt = 0
        ELSE {StylesXml.numFmts[i][2] : i \in matching} = {style.format}
    <3> DEFINE rows == StylesXml.numFmts
               matching == {i \in DOMAIN rows : rows[i][1] = styles[id].numFmt}
    <3>1. /\ DOMAIN rows = DOMAIN formats
          /\ \A i \in DOMAIN formats : /\ rows[i][1] = styles[formats[i]].numFmt
                                        /\ rows[i][2] = styles[formats[i]].style.format
      BY <2>3
    <3> HIDE DEF rows
    <3>2. \/ styles[id].numFmt = 0 /\ found.format = None
          \/ /\ found.format # None
             /\ \E k \in DOMAIN formats : styles[id].numFmt = FirstNumberFormat + (k - 1)
             /\ \A k \in DOMAIN formats :
                   styles[id].numFmt = FirstNumberFormat + (k - 1) =>
                      /\ styles[formats[k]].style.format = found.format
                      /\ styles[formats[k]].numFmt = styles[id].numFmt
      BY <2>1, <2>4, <2>6, FindsKind, SMTT(30) DEF formats, found
    <3>3. \A k \in DOMAIN formats : styles[formats[k]].numFmt = FirstNumberFormat + (k - 1)
      BY <2>1, <2>6, FirstUsesPlaces DEF formats
    <3>4. CASE styles[id].numFmt = 0 /\ found.format = None
      BY <2>5, <3>4
    <3>5. CASE /\ found.format # None
               /\ \E k \in DOMAIN formats : styles[id].numFmt = FirstNumberFormat + (k - 1)
               /\ \A k \in DOMAIN formats :
                     styles[id].numFmt = FirstNumberFormat + (k - 1) =>
                        /\ styles[formats[k]].style.format = found.format
                        /\ styles[formats[k]].numFmt = styles[id].numFmt
      <4>1. matching # {} BY <3>1, <3>5
      <4>2. \A i \in matching : rows[i][2] = found.format BY <3>1, <3>3, <3>5
      <4>3. {rows[i][2] : i \in matching} = {found.format}
        <5> HIDE DEF matching
        <5> QED BY <4>1, <4>2
      <4> QED BY <2>5, <3>5, <4>3 DEF rows
    <3> QED BY <3>2, <3>4, <3>5
  <2> QED BY <2>2, <2>3, <2>5, <2>7, <2>8, <2>9, ZenonT(30)
<1> QED BY <1>1, <1>2, StylesStep, PTL DEF SpecWithParts

-----------------------------------------------------------------------------
(* Lists of package entries.                                               *)

Distinct(q) == \A j, k \in DOMAIN q : q[j].name = q[k].name => j = k

\* No entry of one set has a name of the other.
Apart(X, Y) == \A x \in X, y \in Y : x.name # y.name

LEMMA OneEntry ==
    ASSUME NEW e
    PROVE  <<e>> \in Seq({e}) /\ Range(<<e>>) = {e} /\ Distinct(<<e>>)
BY DEF Range, Distinct

LEMMA NoEntry ==
    ASSUME NEW S
    PROVE  << >> \in Seq(S) /\ Range(<< >>) = {} /\ Distinct(<< >>)
BY DEF Range, Distinct

LEMMA ConcatEntries ==
    ASSUME NEW S, NEW a \in Seq(S), NEW b \in Seq(S)
    PROVE  /\ a \o b \in Seq(S)
           /\ Range(a \o b) = Range(a) \cup Range(b)
           /\ Distinct(a) /\ Distinct(b) /\ Apart(Range(a), Range(b)) => Distinct(a \o b)
<1> DEFINE c == a \o b
<1>1. /\ c \in Seq(S) /\ DOMAIN c = 1 .. Len(a) + Len(b)
      /\ \A i \in DOMAIN a : i \in DOMAIN c /\ c[i] = a[i]
      /\ \A k \in DOMAIN b : Len(a) + k \in DOMAIN c /\ c[Len(a) + k] = b[k]
      /\ \A i \in DOMAIN c : i \in DOMAIN a \/ \E k \in DOMAIN b : i = Len(a) + k
  <2>1. /\ Len(a) \in Nat /\ Len(b) \in Nat /\ DOMAIN a = 1 .. Len(a) /\ DOMAIN b = 1 .. Len(b)
        /\ a = [i \in 1 .. Len(a) |-> a[i]] /\ b = [i \in 1 .. Len(b) |-> b[i]]
    OBVIOUS
  <2>2. c \in Seq(S) OBVIOUS
  <2> DEFINE m == Len(a)
             n == Len(b)
  <2>3. /\ DOMAIN c = 1 .. m + n
        /\ \A i \in 1 .. m : c[i] = a[i]
        /\ \A k \in 1 .. n : m + k \in 1 .. m + n /\ c[m + k] = b[k]
    <3> HIDE DEF m, n
    <3> QED BY <2>1, ListBehind DEF m, n
  <2> HIDE DEF c
  <2>4. \A i \in DOMAIN c : i \in DOMAIN a \/ \E k \in DOMAIN b : i = Len(a) + k
    <3> TAKE i \in DOMAIN c
    <3>1. CASE i <= m BY <2>1, <2>3, <3>1
    <3>2. CASE i > m
      <4>1. i - m \in 1 .. n /\ i = m + (i - m) BY <2>1, <2>3, <3>2
      <4> QED BY <2>1, <4>1
    <3> QED BY <2>1, <2>3, <3>1, <3>2
  <2> QED BY <2>1, <2>2, <2>3, <2>4
<1> HIDE DEF c
<1>2. Range(c) = Range(a) \cup Range(b)
  <2>1. \A i \in DOMAIN c : c[i] \in Range(a) \cup Range(b) BY <1>1 DEF Range
  <2>2. \A i \in DOMAIN a : a[i] \in Range(c) BY <1>1 DEF Range
  <2>3. \A i \in DOMAIN b : b[i] \in Range(c) BY <1>1 DEF Range
  <2> QED BY <2>1, <2>2, <2>3 DEF Range
<1>3. ASSUME Distinct(a), Distinct(b), Apart(Range(a), Range(b)) PROVE Distinct(c)
  <2> SUFFICES ASSUME NEW j \in DOMAIN c, NEW k \in DOMAIN c, c[j].name = c[k].name
               PROVE  j = k
    BY DEF Distinct
  <2>0. \A x \in DOMAIN a, y \in DOMAIN b : a[x].name # b[y].name
    BY <1>3 DEF Apart, Range
  <2>1. CASE j \in DOMAIN a /\ k \in DOMAIN a BY <1>1, <1>3, <2>1 DEF Distinct
  <2>2. CASE j \in DOMAIN a /\ \E y \in DOMAIN b : k = Len(a) + y BY <1>1, <2>0, <2>2
  <2>3. CASE k \in DOMAIN a /\ \E y \in DOMAIN b : j = Len(a) + y BY <1>1, <2>0, <2>3
  <2>4. CASE (\E y \in DOMAIN b : j = Len(a) + y) /\ (\E y \in DOMAIN b : k = Len(a) + y)
    <3>1. PICK x \in DOMAIN b : j = Len(a) + x BY <2>4
    <3>2. PICK y \in DOMAIN b : k = Len(a) + y BY <2>4
    <3>3. b[x].name = b[y].name BY <1>1, <3>1, <3>2
    <3> QED BY <1>3, <3>1, <3>2, <3>3 DEF Distinct
  <2> QED BY <1>1, <2>1, <2>2, <2>3, <2>4
<1> QED BY <1>1, <1>2, <1>3 DEF c

\* A list of n entries with a name each.
LEMMA ListedEntries ==
    ASSUME NEW n \in Nat, NEW q, q = [i \in 1 .. n |-> q[i]],
           \A i, j \in 1 .. n : q[i].name = q[j].name => i = j
    PROVE  /\ q \in Seq(Range(q)) /\ Range(q) = {q[i] : i \in 1 .. n}
           /\ Distinct(q)
<1>1. DOMAIN q = 1 .. n
  OBVIOUS
<1>2. q \in [1 .. n -> Range(q)]
  BY <1>1, SMTT(30) DEF Range
<1> QED BY <1>1, <1>2 DEF Range, Distinct

\* Lists with names of their own, joined.
LEMMA FlattenEntries ==
    ASSUME NEW S, NEW ss \in Seq(Seq(S)), \A i \in DOMAIN ss : Distinct(ss[i]),
           \A i, j \in DOMAIN ss : i < j => Apart(Range(ss[i]), Range(ss[j]))
    PROVE  /\ FlattenSeq(ss) \in Seq(S)
           /\ Range(FlattenSeq(ss)) = UNION {Range(ss[i]) : i \in DOMAIN ss}
           /\ Distinct(FlattenSeq(ss))
<1> DEFINE F(k) == FlattenSeq(SubSeq(ss, 1, k))
           Good == {k \in 0 .. Len(ss) :
                       /\ F(k) \in Seq(S) /\ Distinct(F(k))
                       /\ Range(F(k)) = UNION {Range(ss[i]) : i \in 1 .. k}}
<1>1. Len(ss) \in Nat /\ DOMAIN ss = 1 .. Len(ss) /\ \A i \in 1 .. Len(ss) : ss[i] \in Seq(S)
  OBVIOUS
<1>2. 0 \in Good
  <2>1. SubSeq(ss, 1, 0) = << >> OBVIOUS
  <2>2. F(0) = << >> BY <2>1, FlattenEmpty
  <2>3. UNION {Range(ss[i]) : i \in 1 .. 0} = {}
    <3>1. 1 .. 0 = {} OBVIOUS
    <3> QED BY <3>1
  <2>4. << >> \in Seq(S) /\ Range(<< >>) = {} /\ Distinct(<< >>) BY NoEntry
  <2> HIDE DEF F
  <2>5. F(0) \in Seq(S) /\ Distinct(F(0)) /\ Range(F(0)) = {} BY <2>2, <2>4
  <2>6. 0 \in 0 .. Len(ss) BY <1>1
  <2> QED BY <2>3, <2>5, <2>6
<1>3. ASSUME NEW k \in 0 .. Len(ss) - 1, k \in Good PROVE k + 1 \in Good
  <2>1. k + 1 \in 1 .. Len(ss) /\ (k + 1) - 1 = k /\ k \in Nat BY <1>1
  <2>2. F(k + 1) = F(k) \o ss[k + 1]
    <3>1. FlattenSeq(SubSeq(ss, 1, k + 1))
             = FlattenSeq(SubSeq(ss, 1, (k + 1) - 1)) \o ss[k + 1]
      BY <2>1, FlattenPrefix
    <3> QED BY <2>1, <3>1
  <2> HIDE DEF F
  <2>3. /\ F(k) \in Seq(S) /\ Distinct(F(k))
        /\ Range(F(k)) = UNION {Range(ss[i]) : i \in 1 .. k}
    BY <1>3
  <2>4. ss[k + 1] \in Seq(S) /\ Distinct(ss[k + 1]) BY <1>1, <2>1
  <2>5. Apart(Range(F(k)), Range(ss[k + 1]))
    <3> SUFFICES ASSUME NEW x \in Range(F(k)), NEW y \in Range(ss[k + 1]) PROVE x.name # y.name
      BY DEF Apart
    <3>1. PICK i \in 1 .. k : x \in Range(ss[i]) BY <2>3
    <3>2. i \in DOMAIN ss /\ k + 1 \in DOMAIN ss /\ i < k + 1 BY <1>1, <2>1
    <3>3. Apart(Range(ss[i]), Range(ss[k + 1])) BY <3>2
    <3> QED BY <3>1, <3>3 DEF Apart
  <2>6. /\ F(k + 1) \in Seq(S) /\ Distinct(F(k + 1))
        /\ Range(F(k + 1)) = Range(F(k)) \cup Range(ss[k + 1])
    <3> DEFINE a == F(k)
               b == ss[k + 1]
    <3>1. a \in Seq(S) /\ b \in Seq(S) /\ Distinct(a) /\ Distinct(b) /\ Apart(Range(a), Range(b))
      BY <2>3, <2>4, <2>5
    <3> HIDE DEF a, b
    <3>2. a \o b \in Seq(S) /\ Distinct(a \o b) /\ Range(a \o b) = Range(a) \cup Range(b)
      BY <3>1, ConcatEntries
    <3> QED BY <2>2, <3>2 DEF a, b
  <2>7. UNION {Range(ss[i]) : i \in 1 .. k + 1}
           = (UNION {Range(ss[i]) : i \in 1 .. k}) \cup Range(ss[k + 1])
    <3>1. 1 .. k + 1 = (1 .. k) \cup {k + 1} BY <2>1
    <3> QED BY <3>1
  <2>8. k + 1 \in 0 .. Len(ss) BY <2>1
  <2> QED BY <2>3, <2>6, <2>7, <2>8
<1>4. Len(ss) \in Good
  <2> HIDE DEF Good
  <2>1. Good \in SUBSET (0 .. Len(ss)) BY DEF Good
  <2>2. Good = 0 .. Len(ss) BY <1>1, <1>2, <1>3, <2>1, UpToBound
  <2> QED BY <1>1, <2>2
<1>5. SubSeq(ss, 1, Len(ss)) = ss
  OBVIOUS
<1>6. FlattenSeq(ss) = F(Len(ss))
  BY <1>5
<1> HIDE DEF F
<1> QED BY <1>1, <1>4, <1>6

-----------------------------------------------------------------------------
(* Numbers over the workbook.  The items of the sheets, counted one sheet  *)
(* after the other, have the numbers from 1 to their count, each once.     *)

LEMMA PrefixPlaces ==
    ASSUME NEW N \in Nat, NEW w \in [1 .. N -> Nat], NEW P \in [0 .. N -> Nat], P[0] = 0,
           \A o \in 1 .. N : P[o] = P[o - 1] + w[o]
    PROVE  /\ \A s, t \in 1 .. N : s < t => P[s] <= P[t - 1]
           /\ \A n \in 0 .. N : \A k \in 1 .. P[n] :
                 \E s \in 1 .. n : \E i \in 1 .. w[s] : k = P[s - 1] + i
<1>1. ASSUME NEW s \in 1 .. N PROVE \A t \in 1 .. N : s < t => P[s] <= P[t - 1]
  <2> DEFINE Good == {n \in 0 .. N : s <= n => P[s] <= P[n]}
  <2>1. 0 \in Good OBVIOUS
  <2>2. ASSUME NEW n \in 0 .. N - 1, n \in Good PROVE n + 1 \in Good
    <3>1. n + 1 \in 1 .. N /\ n + 1 \in 0 .. N /\ (n + 1) - 1 = n /\ n \in 0 .. N OBVIOUS
    <3>2. P[n + 1] = P[n] + w[n + 1] /\ P[n] \in Nat /\ w[n + 1] \in Nat BY <3>1
    <3>3. CASE s <= n
      <4>1. P[s] <= P[n] /\ P[s] \in Nat BY <2>2, <3>3
      <4> QED BY <3>1, <3>2, <4>1
    <3>4. CASE s = n + 1
      <4>1. P[s] \in Nat OBVIOUS
      <4> QED BY <3>1, <3>4, <4>1
    <3>5. CASE s > n + 1 BY <3>1, <3>5
    <3> QED BY <3>1, <3>3, <3>4, <3>5
  <2>3. Good \in SUBSET (0 .. N) OBVIOUS
  <2>4. Good = 0 .. N
    <3> HIDE DEF Good
    <3> QED BY <2>1, <2>2, <2>3, UpToBound
  <2>5. ASSUME NEW t \in 1 .. N, s < t PROVE P[s] <= P[t - 1]
    <3>1. t - 1 \in 0 .. N /\ s <= t - 1 BY <2>5
    <3> QED BY <2>4, <3>1
  <2> QED BY <2>5
<1>2. \A n \in 0 .. N : \A k \in 1 .. P[n] :
         \E s \in 1 .. n : \E i \in 1 .. w[s] : k = P[s - 1] + i
  <2> DEFINE Good == {n \in 0 .. N : \A k \in 1 .. P[n] :
                         \E s \in 1 .. n : \E i \in 1 .. w[s] : k = P[s - 1] + i}
  <2>1. 0 \in Good OBVIOUS
  <2>2. ASSUME NEW n \in 0 .. N - 1, n \in Good PROVE n + 1 \in Good
    <3>1. n + 1 \in 1 .. N /\ n + 1 \in 0 .. N /\ (n + 1) - 1 = n /\ n \in 0 .. N /\ n \in Nat
      OBVIOUS
    <3>2. P[n + 1] = P[n] + w[n + 1] /\ P[n] \in Nat /\ w[n + 1] \in Nat BY <3>1
    <3>3. ASSUME NEW k \in 1 .. P[n + 1]
          PROVE  \E s \in 1 .. n + 1 : \E i \in 1 .. w[s] : k = P[s - 1] + i
      <4>1. CASE k <= P[n]
        <5>1. k \in 1 .. P[n] BY <3>2, <4>1
        <5>2. PICK s \in 1 .. n : \E i \in 1 .. w[s] : k = P[s - 1] + i BY <2>2, <5>1
        <5>3. s \in 1 .. n + 1 BY <3>1
        <5> QED BY <5>2, <5>3
      <4>2. CASE k > P[n]
        <5>1. k - P[n] \in 1 .. w[n + 1] /\ k = P[(n + 1) - 1] + (k - P[n])
          BY <3>1, <3>2, <4>2
        <5>2. n + 1 \in 1 .. n + 1 BY <3>1
        <5> QED BY <5>1, <5>2
      <4> QED BY <3>2, <4>1, <4>2
    <3> QED BY <3>1, <3>3
  <2>3. Good \in SUBSET (0 .. N) OBVIOUS
  <2>4. Good = 0 .. N
    <3> HIDE DEF Good
    <3> QED BY <2>1, <2>2, <2>3, UpToBound
  <2> QED BY <2>4
<1> QED BY <1>1, <1>2

NumberedLists == {"tables", "images"}

LEMMA ListType ==
    ASSUME RecordsOK, NEW s \in Sheets, NEW list \in NumberedLists
    PROVE  /\ Len(meta[s][list]) \in Nat
           /\ DOMAIN meta[s][list] = 1 .. Len(meta[s][list])
<1>1. meta[s] \in Recordings
  BY DEF RecordsOK
<1>2. meta[s].tables \in Seq(Tables) /\ meta[s].images \in Seq(Images)
  BY <1>1 DEF Recordings
<1> QED BY <1>2 DEF NumberedLists

\* ItemsBefore adds up the lengths of the lists of the sheets in front.
LEMMA ItemsBeforeAdds ==
    ASSUME RecordsOK, NEW list \in NumberedLists
    PROVE  \E P \in [0 .. MaxSheets -> Nat] :
              /\ P[0] = 0
              /\ \A o \in Sheets : P[o] = P[o - 1] + Len(meta[o][list])
              /\ \A n \in 0 .. MaxSheets : ItemsBefore(list, n + 1) = P[n]
<1> DEFINE N == MaxSheets
           w == [o \in 1 .. N |-> Len(meta[o][list])]
           step == [o \in 1 .. N |-> [x \in Nat |-> x + w[o]]]
<1>1. N \in Nat /\ w \in [1 .. N -> Nat]
  BY WriterBounds, ListType DEF Sheets
<1>2. PICK P : Steps(P, N, Nat, 0, step)
  <2>1. step \in [1 .. N -> [Nat -> Nat]]
    <3> HIDE DEF w
    <3> QED BY <1>1
  <2> HIDE DEF step, w
  <2> QED BY <1>1, <2>1, RecursionExists
<1>3. /\ P \in [0 .. N -> Nat] /\ P[0] = 0
      /\ \A o \in 1 .. N : P[o] = P[o - 1] + w[o]
  <2>1. P \in [0 .. N -> Nat] /\ P[0] = 0 BY <1>2 DEF Steps
  <2>2. ASSUME NEW o \in 1 .. N PROVE P[o] = P[o - 1] + w[o]
    <3>1. P[o] = step[o][P[o - 1]] BY <1>2 DEF Steps
    <3>2. P[o - 1] \in Nat BY <1>1, <2>1
    <3> HIDE DEF w
    <3> QED BY <3>1, <3>2
  <2> QED BY <2>1, <2>2
<1>4. ASSUME NEW n \in 0 .. N PROVE ItemsBefore(list, n + 1) = P[n]
  <2> DEFINE Value(h, o) == IF o = 0 THEN 0 ELSE h[o - 1] + Len(meta[o][list])
             Eq(h, m) == h = [o \in 0 .. m |-> Value(h, o)]
             f == CHOOSE h : Eq(h, n)
  <2>1. (n + 1) - 1 = n BY <1>1
  <2>2. ItemsBefore(list, n + 1) = (CHOOSE h : Eq(h, (n + 1) - 1))[(n + 1) - 1]
    BY DEF ItemsBefore
  <2>3. ItemsBefore(list, n + 1) = f[n]
    <3> HIDE DEF Eq
    <3> QED BY <2>1, <2>2
  <2>4. \E h : Eq(h, n)
    <3> DEFINE h == [o \in 0 .. n |-> P[o]]
    <3>1. ASSUME NEW o \in 0 .. n PROVE h[o] = Value(h, o)
      <4>1. CASE o = 0 BY <1>3, <4>1
      <4>2. CASE o # 0
        <5>1. o \in 1 .. N /\ o - 1 \in 0 .. n BY <1>1, <4>2
        <5>2. P[o] = P[o - 1] + w[o] BY <1>3, <5>1
        <5> QED BY <4>2, <5>1, <5>2
      <4> QED BY <4>1, <4>2
    <3>2. h = [o \in 0 .. n |-> h[o]] OBVIOUS
    <3>3. Eq(h, n)
      <4> HIDE DEF h, Value
      <4> QED BY <3>1, <3>2
    <3> QED BY <3>3
  <2>5. Eq(f, n)
    <3> HIDE DEF Eq
    <3> QED BY <2>4
  <2> HIDE DEF f
  <2>6. \A o \in 0 .. n : f[o] = Value(f, o)
    <3> HIDE DEF Value
    <3> QED BY <2>5
  <2> DEFINE Good == {o \in 0 .. n : f[o] = P[o]}
  <2>7. 0 \in Good
    <3>1. 0 \in 0 .. n BY <1>1
    <3> QED BY <1>3, <2>6, <3>1
  <2>8. ASSUME NEW o \in 0 .. n - 1, o \in Good PROVE o + 1 \in Good
    <3>1. o + 1 \in 0 .. n /\ o + 1 \in 1 .. N /\ o + 1 # 0 /\ (o + 1) - 1 = o BY <1>1
    <3>2. f[o + 1] = f[o] + Len(meta[o + 1][list]) BY <2>6, <3>1
    <3>3. P[o + 1] = P[o] + w[o + 1] BY <1>3, <3>1
    <3> QED BY <2>8, <3>1, <3>2, <3>3
  <2>9. Good = 0 .. n
    <3>1. Good \in SUBSET (0 .. n) OBVIOUS
    <3> HIDE DEF Good
    <3>2. n \in Nat BY <1>1
    <3> QED BY <2>7, <2>8, <3>1, <3>2, UpToBound
  <2>10. n \in 0 .. n BY <1>1
  <2> QED BY <2>3, <2>9, <2>10
<1>5. \A o \in Sheets : P[o] = P[o - 1] + Len(meta[o][list])
  BY <1>3 DEF Sheets
<1> QED BY <1>3, <1>4, <1>5

LEMMA ItemPlaces ==
    ASSUME RecordsOK, NEW list \in NumberedLists
    PROVE  /\ \A s \in Sheets : ItemsBefore(list, s) \in Nat
           /\ \A s, t \in Sheets :
                 \A i \in DOMAIN meta[s][list], j \in DOMAIN meta[t][list] :
                    ItemsBefore(list, s) + i = ItemsBefore(list, t) + j => s = t /\ i = j
           /\ \A n \in 0 .. MaxSheets :
                 1 .. ItemsBefore(list, n + 1)
                    = {k \in Nat : \E s \in 1 .. n : \E i \in DOMAIN meta[s][list] :
                                      k = ItemsBefore(list, s) + i}
<1> DEFINE N == MaxSheets
           w == [o \in 1 .. N |-> Len(meta[o][list])]
<1>1. N \in Nat /\ w \in [1 .. N -> Nat] /\ Sheets = 1 .. N
      /\ \A s \in Sheets : DOMAIN meta[s][list] = 1 .. w[s]
  BY WriterBounds, ListType DEF Sheets
<1>2. PICK P \in [0 .. N -> Nat] :
         /\ P[0] = 0
         /\ \A o \in 1 .. N : P[o] = P[o - 1] + w[o]
         /\ \A n \in 0 .. N : ItemsBefore(list, n + 1) = P[n]
  BY ItemsBeforeAdds DEF Sheets
<1> HIDE DEF w
<1>3. \A s \in 1 .. N : s - 1 \in 0 .. N /\ ItemsBefore(list, s) = P[s - 1]
  <2> TAKE s \in 1 .. N
  <2>1. s - 1 \in 0 .. N /\ (s - 1) + 1 = s BY <1>1
  <2> QED BY <1>2, <2>1
<1>4. /\ \A s, t \in 1 .. N : s < t => P[s] <= P[t - 1]
      /\ \A n \in 0 .. N : \A k \in 1 .. P[n] :
            \E s \in 1 .. n : \E i \in 1 .. w[s] : k = P[s - 1] + i
  BY <1>1, <1>2, PrefixPlaces
<1>5. ASSUME NEW s \in 1 .. N, NEW t \in 1 .. N, NEW i \in 1 .. w[s], NEW j \in 1 .. w[t], s < t
      PROVE  P[s - 1] + i < P[t - 1] + j
  <2>1. P[s] = P[s - 1] + w[s] /\ P[s] <= P[t - 1] BY <1>2, <1>4, <1>5
  <2>2. P[s - 1] \in Nat /\ P[t - 1] \in Nat /\ P[s] \in Nat /\ w[s] \in Nat /\ w[t] \in Nat
    BY <1>1, <1>3
  <2> QED BY <2>1, <2>2
<1>6. ASSUME NEW s \in 1 .. N, NEW t \in 1 .. N, NEW i \in 1 .. w[s], NEW j \in 1 .. w[t],
             P[s - 1] + i = P[t - 1] + j
      PROVE  s = t /\ i = j
  <2>1. P[s - 1] \in Nat /\ P[t - 1] \in Nat /\ w[s] \in Nat /\ w[t] \in Nat BY <1>1, <1>3
  <2>2. CASE s < t
    <3>1. P[s - 1] + i < P[t - 1] + j BY <1>5, <2>2
    <3> QED BY <1>6, <2>1, <3>1
  <2>3. CASE t < s
    <3>1. P[t - 1] + j < P[s - 1] + i BY <1>5, <2>3
    <3> QED BY <1>6, <2>1, <3>1
  <2>4. CASE s = t BY <1>6, <2>1, <2>4
  <2> QED BY <2>2, <2>3, <2>4
<1>7. ASSUME NEW n \in 0 .. N
      PROVE  1 .. ItemsBefore(list, n + 1)
                = {k \in Nat : \E s \in 1 .. n : \E i \in DOMAIN meta[s][list] :
                                  k = ItemsBefore(list, s) + i}
  <2> DEFINE K == {k \in Nat : \E s \in 1 .. n : \E i \in DOMAIN meta[s][list] :
                                  k = ItemsBefore(list, s) + i}
  <2>1. ItemsBefore(list, n + 1) = P[n] /\ P[n] \in Nat BY <1>2
  <2>2. \A s \in 1 .. n : s \in 1 .. N /\ DOMAIN meta[s][list] = 1 .. w[s] /\ w[s] \in Nat
                          /\ ItemsBefore(list, s) = P[s - 1] /\ P[s - 1] \in Nat
    <3> TAKE s \in 1 .. n
    <3>1. s \in 1 .. N BY <1>1
    <3>2. s - 1 \in 0 .. N BY <1>3, <3>1
    <3> QED BY <1>1, <1>2, <1>3, <3>1, <3>2
  <2>3. ASSUME NEW k \in 1 .. P[n] PROVE k \in K
    <3>1. PICK s \in 1 .. n : \E i \in 1 .. w[s] : k = P[s - 1] + i BY <1>4
    <3>2. PICK i \in 1 .. w[s] : k = P[s - 1] + i BY <3>1
    <3>3. i \in DOMAIN meta[s][list] /\ k = ItemsBefore(list, s) + i /\ k \in Nat
      BY <2>1, <2>2, <3>2
    <3> QED BY <3>3
  <2>4. ASSUME NEW k \in K PROVE k \in 1 .. P[n]
    <3>1. PICK s \in 1 .. n : \E i \in DOMAIN meta[s][list] : k = ItemsBefore(list, s) + i
      OBVIOUS
    <3>2. PICK i \in DOMAIN meta[s][list] : k = ItemsBefore(list, s) + i BY <3>1
    <3>3. i \in 1 .. w[s] /\ k = P[s - 1] + i /\ s \in 1 .. N /\ w[s] \in Nat /\ P[s - 1] \in Nat
      BY <2>2, <3>2
    <3>4. P[s] = P[s - 1] + w[s] BY <1>2, <3>3
    <3>5. P[s] <= P[n]
      <4>1. CASE s = n BY <2>1, <4>1
      <4>2. CASE s < n
        <5>1. n \in 1 .. N /\ (n = N \/ n + 1 \in 1 .. N) BY <1>1, <4>2
        <5>2. P[s] <= P[n - 1] BY <1>4, <3>3, <4>2, <5>1
        <5>3. P[n] = P[n - 1] + w[n] /\ w[n] \in Nat /\ P[n - 1] \in Nat /\ P[s] \in Nat
          <6>1. P[n] = P[n - 1] + w[n] BY <1>2, <5>1
          <6>2. w[n] \in Nat BY <1>1, <5>1
          <6>3. n - 1 \in 0 .. N /\ s \in 0 .. N BY <1>1, <3>3, <5>1
          <6> QED BY <1>2, <6>1, <6>2, <6>3
        <5> QED BY <5>2, <5>3
      <4> QED BY <1>1, <4>1, <4>2
    <3> QED BY <2>1, <3>3, <3>4, <3>5
  <2> HIDE DEF K
  <2>5. 1 .. P[n] = K
    <3>1. \A k \in 1 .. P[n] : k \in K BY <2>3
    <3>2. \A k \in K : k \in 1 .. P[n] BY <2>4
    <3> QED BY <3>1, <3>2
  <2> QED BY <2>1, <2>5 DEF K
<1>8. \A s \in Sheets : ItemsBefore(list, s) \in Nat
  BY <1>1, <1>3
<1>9. \A s, t \in Sheets :
         \A i \in DOMAIN meta[s][list], j \in DOMAIN meta[t][list] :
            ItemsBefore(list, s) + i = ItemsBefore(list, t) + j => s = t /\ i = j
  <2> SUFFICES ASSUME NEW s \in Sheets, NEW t \in Sheets, NEW i \in DOMAIN meta[s][list],
                      NEW j \in DOMAIN meta[t][list],
                      ItemsBefore(list, s) + i = ItemsBefore(list, t) + j
               PROVE  s = t /\ i = j
    OBVIOUS
  <2>1. s \in 1 .. N /\ t \in 1 .. N /\ i \in 1 .. w[s] /\ j \in 1 .. w[t] BY <1>1
  <2>2. P[s - 1] + i = P[t - 1] + j BY <1>3, <2>1
  <2> QED BY <1>6, <2>1, <2>2
<1> QED BY <1>7, <1>8, <1>9

-----------------------------------------------------------------------------
(* Relationship ids.  Each relationship of a part has its position as id.  *)

Positional(rels) == \A p \in DOMAIN rels : rels[p].id = p

LEMMA PositionalAccepted ==
    ASSUME NEW rels, Positional(rels)
    PROVE  RelationshipsAccepted(rels)
BY DEF Positional, RelationshipsAccepted, IsInjective

LEMMA FollowPosition ==
    ASSUME NEW rels, Positional(rels), NEW p \in DOMAIN rels
    PROVE  Follow(rels, p, rels[p].type) = {rels[p].target}
BY DEF Positional, Follow

DrawingCount(m) == IF m.images # << >> THEN 1 ELSE 0

LEMMA SheetRelationships ==
    ASSUME RecordsOK, NEW s \in Sheets
    PROVE  LET m == meta[s]
               rels == WorksheetRelationships(s)
               E == Len(m.externals)
               D == DrawingCount(m)
               T == Len(m.tables) IN
           /\ E \in Nat /\ T \in Nat /\ DOMAIN m.externals = 1 .. E /\ DOMAIN m.tables = 1 .. T
           /\ DOMAIN rels = 1 .. E + D + T
           /\ \A i \in 1 .. E : rels[i] = Relation(i, "hyperlink", m.externals[i])
           /\ D = 1 => rels[E + 1] = Relation(E + 1, "drawing", DrawingName(s))
           /\ \A i \in 1 .. T : /\ TableRelationshipId(m, i) = E + D + i
                                /\ rels[E + D + i]
                                      = Relation(E + D + i, "table", TableName(s, i))
           /\ Positional(rels)
<1> DEFINE m == meta[s]
           rels == WorksheetRelationships(s)
           E == Len(m.externals)
           D == DrawingCount(m)
           T == Len(m.tables)
           a == [i \in 1 .. E |-> Relation(i, "hyperlink", m.externals[i])]
           b == IF m.images = << >> THEN << >>
                ELSE <<Relation(E + 1, "drawing", DrawingName(s))>>
           c == [i \in 1 .. T |-> Relation(E + D + i, "table", TableName(s, i))]
<1>1. /\ E \in Nat /\ T \in Nat /\ DOMAIN m.externals = 1 .. E /\ DOMAIN m.tables = 1 .. T
  <2>1. m \in Recordings BY DEF RecordsOK
  <2>2. m.externals \in Seq(Urls) /\ m.tables \in Seq(Tables) BY <2>1 DEF Recordings
  <2> QED BY <2>2
<1>2. D \in Nat /\ (D = 0 \/ D = 1) /\ (D = 1 <=> m.images # << >>)
  BY DEF DrawingCount
<1>3. \A i \in 1 .. T : TableRelationshipId(m, i) = E + D + i
  BY DEF TableRelationshipId, DrawingCount
<1>4. rels = a \o b \o c
  <2>1. DrawingRelationshipId(m) = E + 1 BY DEF DrawingRelationshipId
  <2>2. c = [i \in 1 .. T |-> Relation(TableRelationshipId(m, i), "table", TableName(s, i))]
    BY <1>3
  <2> HIDE DEF c, D, E, T
  <2>3. rels = [i \in DOMAIN m.externals |-> Relation(i, "hyperlink", m.externals[i])]
               \o (IF m.images = << >> THEN << >>
                   ELSE <<Relation(DrawingRelationshipId(m), "drawing", DrawingName(s))>>)
               \o [i \in DOMAIN m.tables |->
                      Relation(TableRelationshipId(m, i), "table", TableName(s, i))]
    BY DEF WorksheetRelationships
  <2> QED BY <1>1, <2>1, <2>2, <2>3
<1>5. b = [i \in 1 .. D |-> b[i]] /\ (D = 1 => b[1] = Relation(E + 1, "drawing", DrawingName(s)))
  <2>1. CASE m.images = << >>
    <3>1. b = << >> /\ D = 0 BY <1>2, <2>1
    <3> QED BY <3>1
  <2>2. CASE m.images # << >>
    <3>1. b = <<Relation(E + 1, "drawing", DrawingName(s))>> /\ D = 1 BY <1>2, <2>2
    <3> HIDE DEF b
    <3> QED BY <3>1
  <2> QED BY <2>1, <2>2
<1> HIDE DEF rels, E, D, T
<1>6. /\ \A i \in 1 .. E : a[i] = Relation(i, "hyperlink", m.externals[i])
      /\ \A i \in 1 .. T : c[i] = Relation(E + D + i, "table", TableName(s, i))
      /\ a = [i \in 1 .. E |-> a[i]] /\ c = [i \in 1 .. T |-> c[i]]
  OBVIOUS
<1> HIDE DEF a, b, c
<1> DEFINE ab == a \o b
<1>7. /\ DOMAIN ab = 1 .. E + D
      /\ \A i \in 1 .. E : ab[i] = a[i]
      /\ \A k \in 1 .. D : E + k \in 1 .. E + D /\ ab[E + k] = b[k]
  BY <1>1, <1>2, <1>5, <1>6, ListBehind
<1>8. E + D \in Nat /\ ab = [i \in 1 .. E + D |-> ab[i]]
  <2>1. ab = [i \in DOMAIN ab |-> ab[i]]
    <3> DEFINE S == Range(a) \cup Range(b)
    <3>1. a \in Seq(S) /\ b \in Seq(S)
      <4>1. a \in [1 .. E -> S] BY <1>6 DEF Range
      <4>2. b \in [1 .. D -> S] BY <1>5 DEF Range
      <4> HIDE DEF S
      <4> QED BY <1>1, <1>2, <4>1, <4>2
    <3> HIDE DEF S
    <3>2. ab \in Seq(S) BY <3>1
    <3> HIDE DEF ab
    <3> QED BY <3>2
  <2> HIDE DEF ab
  <2> QED BY <1>1, <1>2, <1>7, <2>1
<1> HIDE DEF ab
<1> DEFINE M == E + D
<1>9. /\ DOMAIN (ab \o c) = 1 .. M + T
      /\ \A i \in 1 .. M : (ab \o c)[i] = ab[i]
      /\ \A k \in 1 .. T : M + k \in 1 .. M + T /\ (ab \o c)[M + k] = c[k]
  <2>1. M \in Nat /\ ab = [i \in 1 .. M |-> ab[i]] BY <1>8
  <2> HIDE DEF M
  <2> QED BY <1>1, <1>6, <2>1, ListBehind
<1>10. rels = ab \o c
  BY <1>4 DEF ab
<1>11. /\ DOMAIN rels = 1 .. E + D + T
       /\ \A i \in 1 .. E : rels[i] = Relation(i, "hyperlink", m.externals[i])
       /\ D = 1 => rels[E + 1] = Relation(E + 1, "drawing", DrawingName(s))
       /\ \A i \in 1 .. T : rels[E + D + i] = Relation(E + D + i, "table", TableName(s, i))
  <2>1. \A i \in 1 .. E : i \in 1 .. M BY <1>1, <1>2
  <2>2. \A i \in 1 .. E : rels[i] = Relation(i, "hyperlink", m.externals[i])
    BY <1>6, <1>7, <1>9, <1>10, <2>1
  <2>3. D = 1 => rels[E + 1] = Relation(E + 1, "drawing", DrawingName(s))
    BY <1>1, <1>5, <1>7, <1>9, <1>10
  <2>4. \A i \in 1 .. T : rels[E + D + i] = Relation(E + D + i, "table", TableName(s, i))
    BY <1>6, <1>9, <1>10
  <2> QED BY <1>9, <1>10, <2>2, <2>3, <2>4
<1>12. Positional(rels)
  <2>0. \A i, t, x : Relation(i, t, x).id = i BY DEF Relation
  <2> SUFFICES ASSUME NEW p \in 1 .. E + D + T PROVE rels[p].id = p
    BY <1>11 DEF Positional
  <2>1. CASE p \in 1 .. E
    <3>1. rels[p] = Relation(p, "hyperlink", m.externals[p]) BY <1>11, <2>1
    <3> QED BY <2>0, <3>1
  <2>2. CASE D = 1 /\ p = E + 1
    <3>1. rels[p] = Relation(p, "drawing", DrawingName(s)) BY <1>11, <2>2
    <3> QED BY <2>0, <3>1
  <2>3. CASE p > E + D
    <3>1. p - (E + D) \in 1 .. T /\ p = E + D + (p - (E + D)) BY <1>1, <1>2, <2>3
    <3>2. PICK i \in 1 .. T : p = E + D + i BY <3>1
    <3>3. rels[p] = Relation(p, "table", TableName(s, i)) BY <1>11, <3>2
    <3> QED BY <2>0, <3>3
  <2> QED BY <1>1, <1>2, <2>1, <2>2, <2>3
<1> QED BY <1>1, <1>3, <1>11, <1>12 DEF rels, E, D, T

\* The ids of a drawing's relationships: the images', then those of the
\* hyperlinks, which the drawing part counts again for each image.
LEMMA ImageRelationships ==
    ASSUME RecordsOK, NEW s \in Sheets
    PROVE  LET images == meta[s].images
               rels == DrawingRelationships(s)
               N == Len(images) IN
           /\ N \in Nat /\ DOMAIN images = 1 .. N
           /\ \A i \in 1 .. N : /\ i \in DOMAIN rels
                                /\ rels[i] = Relation(i, "image", MediaName(s, i))
           /\ \A i \in 1 .. N : images[i].url # None =>
                 LET k == DrawingLinkId(images, i) IN
                 k \in DOMAIN rels /\ rels[k] = Relation(k, "hyperlink", images[i].url)
           /\ Positional(rels)
<1> DEFINE images == meta[s].images
           rels == DrawingRelationships(s)
           N == Len(images)
           L == {i \in DOMAIN images : images[i].url # None}
           linked == InOrder(L)
           H == Cardinality(L)
           Link(i) == DrawingLinkId(images, i)
           a == [i \in 1 .. N |-> Relation(i, "image", MediaName(s, i))]
           b == [k \in 1 .. H |-> Relation(Link(linked[k]), "hyperlink", images[linked[k]].url)]
<1>1. N \in Nat /\ DOMAIN images = 1 .. N
  <2>1. meta[s] \in Recordings BY DEF RecordsOK
  <2>2. images \in Seq(Images) BY <2>1 DEF Recordings
  <2> HIDE DEF images
  <2> QED BY <2>2
<1>2. L \in SUBSET Nat /\ IsFiniteSet(L) /\ L \in SUBSET (1 .. N)
  <2>1. L \in SUBSET (1 .. N) BY <1>1
  <2> HIDE DEF L, N
  <2>2. IsFiniteSet(1 .. N) BY <1>1, FS_Interval
  <2>3. L \in SUBSET Nat BY <1>1, <2>1
  <2> QED BY <2>1, <2>2, <2>3, FS_Subset
<1>3. /\ H \in Nat /\ DOMAIN linked = 1 .. H
      /\ \A x \in L : Rank(L, x) + 1 \in 1 .. H /\ linked[Rank(L, x) + 1] = x
      /\ \A k \in 1 .. H : linked[k] \in L /\ Rank(L, linked[k]) = k - 1
  <2> HIDE DEF L
  <2> QED BY <1>2, OrderedPlaces
<1>4. \A i \in L : Link(i) = N + (Rank(L, i) + 1)
  <2> TAKE i \in L
  <2>1. {j \in 1 .. i - 1 : images[j].url # None} = Before(L, i)
    <3>1. i \in 1 .. N BY <1>2
    <3>2. \A j : j \in 1 .. i - 1 <=> j \in 1 .. N /\ j < i BY <1>1, <3>1
    <3> HIDE DEF images, N
    <3> QED BY <1>1, <3>2 DEF Before
  <2>2. LinksBefore(images, i) = Rank(L, i) BY <2>1 DEF LinksBefore, Rank
  <2>3. Rank(L, i) \in Nat
    <3> HIDE DEF L
    <3> QED BY <1>2, RankRises
  <2> HIDE DEF L, images
  <2>4. Link(i) = N + LinksBefore(images, i) + 1 BY DEF DrawingLinkId
  <2> QED BY <1>1, <2>2, <2>3, <2>4
<1>5. rels = a \o b
  <2>1. rels = [i \in DOMAIN images |-> Relation(i, "image", MediaName(s, i))]
               \o [k \in DOMAIN linked |->
                      Relation(Link(linked[k]), "hyperlink", images[linked[k]].url)]
    BY DEF DrawingRelationships
  <2> HIDE DEF rels, images, linked, N, H
  <2> QED BY <1>1, <1>3, <2>1
<1>6. /\ \A i \in 1 .. N : a[i] = Relation(i, "image", MediaName(s, i))
      /\ \A k \in 1 .. H :
            b[k] = Relation(Link(linked[k]), "hyperlink", images[linked[k]].url)
      /\ a = [i \in 1 .. N |-> a[i]] /\ b = [i \in 1 .. H |-> b[i]]
  OBVIOUS
<1> HIDE DEF a, b, images, rels, N, H, linked, L, Link
<1>7. /\ DOMAIN rels = 1 .. N + H
      /\ \A i \in 1 .. N : rels[i] = a[i]
      /\ \A k \in 1 .. H : N + k \in 1 .. N + H /\ rels[N + k] = b[k]
  BY <1>1, <1>3, <1>5, <1>6, ListBehind
<1>8. \A i \in 1 .. N : i \in DOMAIN rels /\ rels[i] = Relation(i, "image", MediaName(s, i))
  <2>1. \A i \in 1 .. N : i \in 1 .. N + H BY <1>1, <1>3
  <2> QED BY <1>6, <1>7, <2>1
<1>9. ASSUME NEW i \in 1 .. N, images[i].url # None
      PROVE  Link(i) \in DOMAIN rels /\ rels[Link(i)] = Relation(Link(i), "hyperlink", images[i].url)
  <2>1. i \in L BY <1>1, <1>9 DEF L
  <2>2. PICK k \in 1 .. H : k = Rank(L, i) + 1 /\ linked[k] = i BY <1>3, <2>1
  <2>3. Link(i) = N + k BY <1>4, <2>1, <2>2
  <2>4. rels[N + k] = Relation(Link(linked[k]), "hyperlink", images[linked[k]].url)
    BY <1>6, <1>7, <2>2
  <2> QED BY <1>7, <2>2, <2>3, <2>4
<1>10. Positional(rels)
  <2>0. \A i, t, x : Relation(i, t, x).id = i BY DEF Relation
  <2> SUFFICES ASSUME NEW p \in 1 .. N + H PROVE rels[p].id = p
    BY <1>7 DEF Positional
  <2>1. CASE p \in 1 .. N
    <3>1. rels[p] = Relation(p, "image", MediaName(s, p)) BY <1>8, <2>1
    <3> QED BY <2>0, <3>1
  <2>2. CASE p > N
    <3>1. p - N \in 1 .. H /\ p = N + (p - N) BY <1>1, <1>3, <2>2
    <3>2. PICK k \in 1 .. H : p = N + k BY <3>1
    <3>3. linked[k] \in L /\ Rank(L, linked[k]) = k - 1 BY <1>3
    <3>4. Link(linked[k]) = N + ((k - 1) + 1) BY <1>4, <3>3
    <3>5. (k - 1) + 1 = k OBVIOUS
    <3>6. rels[p] = Relation(p, "hyperlink", images[linked[k]].url)
      BY <1>6, <1>7, <3>2, <3>4, <3>5
    <3> QED BY <2>0, <3>6
  <2> QED BY <1>1, <1>3, <2>1, <2>2
<1> QED BY <1>1, <1>8, <1>9, <1>10 DEF images, rels, N, Link

LEMMA BookRelationships ==
    ASSUME sheets \in Seq(Names)
    PROVE  LET rels == WorkbookRelationships IN
           /\ \A s \in DOMAIN sheets :
                 s \in DOMAIN rels /\ rels[s] = Relation(s, "worksheet", <<"worksheet", s>>)
           /\ Positional(rels)
<1> DEFINE rels == WorkbookRelationships
           N == Len(sheets)
           h == IF HasStrings THEN 1 ELSE 0
           y == IF styles # << >> THEN 1 ELSE 0
           string == Relation(N + 1, "sharedStrings", <<"sharedStrings">>)
           style == Relation(N + 1 + h, "styles", <<"styles">>)
           a == [s \in 1 .. N |-> Relation(s, "worksheet", <<"worksheet", s>>)]
           b == IF HasStrings THEN <<string>> ELSE << >>
           c == IF styles # << >> THEN <<style>> ELSE << >>
<1>1. N \in Nat /\ DOMAIN sheets = 1 .. N /\ h \in Nat /\ y \in Nat
  OBVIOUS
<1>2. rels = a \o b \o c
  BY <1>1 DEF WorkbookRelationships
<1>3. /\ \A s \in 1 .. N : a[s] = Relation(s, "worksheet", <<"worksheet", s>>)
      /\ a = [s \in 1 .. N |-> a[s]]
  OBVIOUS
<1>4. b = [i \in 1 .. h |-> b[i]] /\ \A i \in 1 .. h : b[i] = string /\ i = 1
  <2>1. CASE HasStrings
    <3>1. b = <<string>> /\ h = 1 BY <2>1
    <3> HIDE DEF b, h, string
    <3> QED BY <3>1
  <2>2. CASE ~ HasStrings
    <3>1. b = << >> /\ h = 0 BY <2>2
    <3> HIDE DEF b, h
    <3> QED BY <3>1
  <2> QED BY <2>1, <2>2
<1>5. c = [i \in 1 .. y |-> c[i]] /\ \A i \in 1 .. y : c[i] = style /\ i = 1
  <2>1. CASE styles # << >>
    <3>1. c = <<style>> /\ y = 1 BY <2>1
    <3> HIDE DEF c, y, style
    <3> QED BY <3>1
  <2>2. CASE styles = << >>
    <3>1. c = << >> /\ y = 0 BY <2>2
    <3> HIDE DEF c, y
    <3> QED BY <3>1
  <2> QED BY <2>1, <2>2
<1>6. string.id = N + 1 /\ style.id = N + h + 1
  <2>1. N + 1 + h = N + h + 1 BY <1>1
  <2> HIDE DEF h, N
  <2> QED BY <2>1 DEF Relation
<1> HIDE DEF a, b, c, rels, N, h, y, string, style
<1> DEFINE ab == a \o b
           M == N + h
<1>7. /\ DOMAIN ab = 1 .. M
      /\ \A i \in 1 .. N : ab[i] = a[i]
      /\ \A k \in 1 .. h : N + k \in 1 .. M /\ ab[N + k] = b[k]
  BY <1>1, <1>3, <1>4, ListBehind
<1>8. M \in Nat /\ ab = [i \in 1 .. M |-> ab[i]]
  <2>1. ab = [i \in DOMAIN ab |-> ab[i]]
    <3> DEFINE S == Range(a) \cup Range(b)
    <3>1. a \in Seq(S) /\ b \in Seq(S)
      <4>1. a \in [1 .. N -> S] BY <1>3 DEF Range
      <4>2. b \in [1 .. h -> S] BY <1>4 DEF Range
      <4> HIDE DEF S
      <4> QED BY <1>1, <4>1, <4>2
    <3> HIDE DEF S
    <3>2. ab \in Seq(S) BY <3>1
    <3> HIDE DEF ab
    <3> QED BY <3>2
  <2> HIDE DEF ab
  <2> QED BY <1>1, <1>7, <2>1
<1>9. M = N + h
  OBVIOUS
<1>10. rels = ab \o c
  BY <1>2
<1> HIDE DEF ab, M
<1>11. /\ DOMAIN rels = 1 .. M + y
       /\ \A i \in 1 .. M : rels[i] = ab[i]
       /\ \A k \in 1 .. y : M + k \in 1 .. M + y /\ rels[M + k] = c[k]
  BY <1>1, <1>5, <1>8, <1>10, ListBehind
<1>12. ASSUME NEW s \in 1 .. N
       PROVE  s \in DOMAIN rels /\ rels[s] = Relation(s, "worksheet", <<"worksheet", s>>)
  <2>1. s \in 1 .. M /\ s \in 1 .. M + y BY <1>1, <1>9
  <2> QED BY <1>3, <1>7, <1>11, <2>1
<1>13. ASSUME NEW p \in 1 .. M + y PROVE rels[p].id = p
  <2>1. CASE p \in 1 .. N
    <3>1. rels[p] = Relation(p, "worksheet", <<"worksheet", p>>) BY <1>12, <2>1
    <3> QED BY <3>1 DEF Relation
  <2>2. CASE p > N /\ p <= M
    <3>1. p - N \in 1 .. h /\ p = N + (p - N) BY <1>1, <1>9, <2>2
    <3>2. PICK k \in 1 .. h : p = N + k BY <3>1
    <3>3. k = 1 /\ b[k] = string BY <1>4
    <3>4. p \in 1 .. M BY <2>2
    <3>5. h \in 1 .. h BY <1>1, <3>1
    <3> QED BY <1>4, <1>6, <1>7, <1>11, <3>2, <3>3, <3>4
  <2>3. CASE p > M
    <3>1. p - M \in 1 .. y /\ p = M + (p - M) BY <1>1, <1>8, <2>3
    <3>2. PICK k \in 1 .. y : p = M + k BY <3>1
    <3>3. k = 1 /\ c[k] = style BY <1>5
    <3>4. p = N + h + 1 BY <1>1, <1>9, <3>2, <3>3
    <3> QED BY <1>6, <1>11, <3>2, <3>3, <3>4
  <2> QED BY <1>1, <1>9, <2>1, <2>2, <2>3
<1> QED BY <1>1, <1>11, <1>12, <1>13 DEF Positional, rels

\* The drawings of the sheets are numbered like the items of a list.
LEMMA DrawingPlaces ==
    ASSUME NEW n \in Nat
    PROVE  /\ \A s \in 1 .. n : meta[s].images # << >> => DrawingsBefore(s) \in Nat
           /\ \A s, t \in 1 .. n :
                 /\ meta[s].images # << >> /\ meta[t].images # << >>
                 /\ DrawingsBefore(s) = DrawingsBefore(t)
                 => s = t
           /\ 1 .. DrawingsBefore(n + 1)
                 = {DrawingsBefore(s) + 1 : s \in {o \in 1 .. n : meta[o].images # << >>}}
<1> DEFINE S == {o \in 1 .. n : meta[o].images # << >>}
<1>1. S \in SUBSET Nat /\ S \in SUBSET (1 .. n) /\ IsFiniteSet(S)
  <2>1. S \in SUBSET (1 .. n) OBVIOUS
  <2> HIDE DEF S
  <2>2. IsFiniteSet(1 .. n) BY FS_Interval
  <2>3. S \in SUBSET Nat BY <2>1
  <2> QED BY <2>1, <2>2, <2>3, FS_Subset
<1>2. \A s \in S : DrawingsBefore(s) = Rank(S, s)
  <2> TAKE s \in S
  <2>1. \A j : j \in 1 .. s - 1 <=> j \in 1 .. n /\ j < s BY <1>1
  <2>2. {o \in 1 .. s - 1 : meta[o].images # << >>} = Before(S, s) BY <2>1 DEF Before
  <2> QED BY <2>2 DEF DrawingsBefore, Rank
<1>3. DrawingsBefore(n + 1) = Cardinality(S)
  <2>1. (n + 1) - 1 = n OBVIOUS
  <2> QED BY <2>1 DEF DrawingsBefore
<1>4. \A s \in 1 .. n : meta[s].images # << >> <=> s \in S
  OBVIOUS
<1> HIDE DEF S
<1>5. /\ Cardinality(S) \in Nat
      /\ DOMAIN InOrder(S) = 1 .. Cardinality(S)
      /\ \A x \in S : /\ Rank(S, x) + 1 \in 1 .. Cardinality(S)
                      /\ InOrder(S)[Rank(S, x) + 1] = x
      /\ \A k \in 1 .. Cardinality(S) : /\ InOrder(S)[k] \in S
                                        /\ Rank(S, InOrder(S)[k]) = k - 1
  BY <1>1, OrderedPlaces
<1>6. \A x \in S : Rank(S, x) \in Nat
  BY <1>1, RankRises
<1>7. 1 .. Cardinality(S) = {Rank(S, x) + 1 : x \in S}
  <2>1. \A x \in S : Rank(S, x) + 1 \in 1 .. Cardinality(S) BY <1>5
  <2>2. ASSUME NEW k \in 1 .. Cardinality(S) PROVE \E x \in S : k = Rank(S, x) + 1
    <3>1. InOrder(S)[k] \in S /\ Rank(S, InOrder(S)[k]) = k - 1 BY <1>5
    <3>2. (k - 1) + 1 = k OBVIOUS
    <3> QED BY <3>1, <3>2
  <2> QED BY <2>1, <2>2
<1>8. {Rank(S, x) + 1 : x \in S} = {DrawingsBefore(s) + 1 : s \in S}
  BY <1>2
<1>9. \A s, t \in S : DrawingsBefore(s) = DrawingsBefore(t) => s = t
  BY <1>2, <1>5
<1>10. \A s \in S : DrawingsBefore(s) \in Nat
  BY <1>2, <1>6
<1>11. 1 .. DrawingsBefore(n + 1) = {DrawingsBefore(s) + 1 : s \in S}
  BY <1>3, <1>7, <1>8
<1> QED BY <1>4, <1>9, <1>10, <1>11 DEF S

-----------------------------------------------------------------------------
(* The entries of the package.  An entry is known by the tag and the       *)
(* number in its name, and no two entries have both in common.             *)

Tag(n) == IF n[1] # "rels" THEN n[1]
          ELSE IF n[2][1] = "drawing" THEN "drawing rels"
          ELSE IF n[2][1] = "worksheet" THEN "worksheet rels"
          ELSE "workbook rels"
Number(n) == IF n[1] = "rels" THEN n[2][2] ELSE n[2]

Tagged(X, T) == \A x \in X : Tag(x.name) \in T

\* A list of the entries of a set, each once and under a name of its own.
Listing(q, X) == q \in Seq(X) /\ Range(q) = X /\ Distinct(q)

LEMMA TagsApart ==
    ASSUME NEW X, NEW Y, NEW T, NEW U, Tagged(X, T), Tagged(Y, U), T \cap U = {}
    PROVE  Apart(X, Y)
BY DEF Tagged, Apart

LEMMA Joined ==
    ASSUME NEW X, NEW Y, NEW a, NEW b, Listing(a, X), Listing(b, Y), Apart(X, Y)
    PROVE  Listing(a \o b, X \cup Y)
<1> DEFINE S == X \cup Y
<1>1. X \in SUBSET S /\ Y \in SUBSET S
  OBVIOUS
<1> HIDE DEF S
<1>2. a \in Seq(S) /\ b \in Seq(S)
  BY <1>1 DEF Listing
<1>3. a \o b \in Seq(S) /\ Range(a \o b) = X \cup Y /\ Distinct(a \o b)
  <2>1. /\ a \o b \in Seq(S)
        /\ Range(a \o b) = Range(a) \cup Range(b)
        /\ Distinct(a) /\ Distinct(b) /\ Apart(Range(a), Range(b)) => Distinct(a \o b)
    BY <1>2, ConcatEntries
  <2> QED BY <2>1 DEF Listing
<1> QED BY <1>3 DEF Listing, S

\* What may be left out.
LEMMA Optional ==
    ASSUME NEW X, NEW q, Listing(q, X), NEW there \in BOOLEAN
    PROVE  Listing(IF there THEN q ELSE << >>, IF there THEN X ELSE {})
<1>1. Listing(<< >>, {})
  BY NoEntry DEF Listing
<1> QED BY <1>1

LEMMA SheetNames ==
    ASSUME NEW s, NEW i
    PROVE  /\ Tag(<<"worksheet", s>>) = "worksheet" /\ Number(<<"worksheet", s>>) = s
           /\ Tag(Rels(<<"worksheet", s>>)) = "worksheet rels"
           /\ Number(Rels(<<"worksheet", s>>)) = s
           /\ Tag(DrawingName(s)) = "drawing" /\ Number(DrawingName(s)) = DrawingsBefore(s) + 1
           /\ Tag(Rels(DrawingName(s))) = "drawing rels"
           /\ Number(Rels(DrawingName(s))) = DrawingsBefore(s) + 1
           /\ Tag(MediaName(s, i)) = "media" /\ Number(MediaName(s, i)) = ImagesBefore(s) + i
           /\ Tag(TableName(s, i)) = "table" /\ Number(TableName(s, i)) = TablesBefore(s) + i
<1>1. Tag(<<"worksheet", s>>) = "worksheet" /\ Number(<<"worksheet", s>>) = s
  BY DEF Tag, Number
<1>2. /\ Tag(Rels(<<"worksheet", s>>)) = "worksheet rels"
      /\ Number(Rels(<<"worksheet", s>>)) = s
  BY DEF Tag, Number, Rels
<1>3. Tag(DrawingName(s)) = "drawing" /\ Number(DrawingName(s)) = DrawingsBefore(s) + 1
  BY DEF Tag, Number, DrawingName
<1>4. /\ Tag(Rels(DrawingName(s))) = "drawing rels"
      /\ Number(Rels(DrawingName(s))) = DrawingsBefore(s) + 1
  BY DEF Tag, Number, DrawingName, Rels
<1>5. Tag(MediaName(s, i)) = "media" /\ Number(MediaName(s, i)) = ImagesBefore(s) + i
  BY DEF Tag, Number, MediaName
<1>6. Tag(TableName(s, i)) = "table" /\ Number(TableName(s, i)) = TablesBefore(s) + i
  BY DEF Tag, Number, TableName
<1> QED BY <1>1, <1>2, <1>3, <1>4, <1>5, <1>6

SheetEntry(s) == Entry(<<"worksheet", s>>, WorksheetXml(s))
LinksEntry(s) == Entry(Rels(<<"worksheet", s>>), WorksheetRelationships(s))
DrawingEntry(s) == Entry(DrawingName(s), DrawingXml(s))
DrawingLinksEntry(s) == Entry(Rels(DrawingName(s)), DrawingRelationships(s))
ImageEntry(s, i) == Entry(MediaName(s, i), meta[s].images[i].bytes)
TableEntry(s, i) == Entry(TableName(s, i), TableXml(s, i))

LEMMA EntryNames ==
    ASSUME NEW s, NEW i
    PROVE  /\ SheetEntry(s).name = <<"worksheet", s>>
           /\ LinksEntry(s).name = Rels(<<"worksheet", s>>)
           /\ DrawingEntry(s).name = DrawingName(s)
           /\ DrawingLinksEntry(s).name = Rels(DrawingName(s))
           /\ ImageEntry(s, i).name = MediaName(s, i)
           /\ TableEntry(s, i).name = TableName(s, i)
BY DEF SheetEntry, LinksEntry, DrawingEntry, DrawingLinksEntry, ImageEntry, TableEntry, Entry

DrawingSet(s) == {DrawingEntry(s), DrawingLinksEntry(s)}
                 \cup {ImageEntry(s, i) : i \in DOMAIN meta[s].images}

SheetSet(s) ==
    {SheetEntry(s)}
    \cup (IF HasRelationships(meta[s]) THEN {LinksEntry(s)} ELSE {})
    \cup (IF meta[s].images = << >> THEN {} ELSE DrawingSet(s))
    \cup {TableEntry(s, i) : i \in DOMAIN meta[s].tables}

LEMMA SheetListing ==
    ASSUME RecordsOK, NEW s \in Sheets
    PROVE  Listing(SheetEntries(s), SheetSet(s))
<1> DEFINE images == meta[s].images
           tables == meta[s].tables
           N == Len(images)
           T == Len(tables)
           media == [i \in 1 .. N |-> ImageEntry(s, i)]
           rows == [i \in 1 .. T |-> TableEntry(s, i)]
           M == {ImageEntry(s, i) : i \in 1 .. N}
           R == {TableEntry(s, i) : i \in 1 .. T}
           linked == HasRelationships(meta[s])
           drawn == images # << >>
<1>1. N \in Nat /\ DOMAIN images = 1 .. N /\ T \in Nat /\ DOMAIN tables = 1 .. T
  BY ListType DEF NumberedLists
<1>2. \A i : /\ ImageEntry(s, i).name = MediaName(s, i)
             /\ TableEntry(s, i).name = TableName(s, i)
  BY EntryNames
<1>3. Listing(media, M)
  <2>1. \A i, j \in 1 .. N : media[i].name = media[j].name => i = j
    <3> SUFFICES ASSUME NEW i \in 1 .. N, NEW j \in 1 .. N, media[i].name = media[j].name
                 PROVE  i = j
      OBVIOUS
    <3>1. media[i].name = MediaName(s, i) /\ media[j].name = MediaName(s, j)
      BY <1>2
    <3>2. ItemsBefore("images", s) + i = ItemsBefore("images", s) + j
      <4>1. Number(MediaName(s, i)) = ImagesBefore(s) + i BY SheetNames
      <4>2. Number(MediaName(s, j)) = ImagesBefore(s) + j BY SheetNames
      <4> QED BY <3>1, <4>1, <4>2 DEF ImagesBefore
    <3>3. i \in DOMAIN meta[s]["images"] /\ j \in DOMAIN meta[s]["images"] BY <1>1
    <3>4. "images" \in NumberedLists BY DEF NumberedLists
    <3> QED BY <3>2, <3>3, <3>4, ItemPlaces
  <2>2. media = [i \in 1 .. N |-> media[i]] /\ M = {media[i] : i \in 1 .. N} OBVIOUS
  <2> HIDE DEF media, M, N
  <2>3. /\ media \in Seq(Range(media)) /\ Range(media) = {media[i] : i \in 1 .. N}
        /\ Distinct(media)
    BY <1>1, <2>1, <2>2, ListedEntries
  <2> QED BY <2>2, <2>3 DEF Listing
<1>4. Listing(rows, R)
  <2>1. \A i, j \in 1 .. T : rows[i].name = rows[j].name => i = j
    <3> SUFFICES ASSUME NEW i \in 1 .. T, NEW j \in 1 .. T, rows[i].name = rows[j].name
                 PROVE  i = j
      OBVIOUS
    <3>1. rows[i].name = TableName(s, i) /\ rows[j].name = TableName(s, j)
      BY <1>2
    <3>2. ItemsBefore("tables", s) + i = ItemsBefore("tables", s) + j
      <4>1. Number(TableName(s, i)) = TablesBefore(s) + i BY SheetNames
      <4>2. Number(TableName(s, j)) = TablesBefore(s) + j BY SheetNames
      <4> QED BY <3>1, <4>1, <4>2 DEF TablesBefore
    <3>3. i \in DOMAIN meta[s]["tables"] /\ j \in DOMAIN meta[s]["tables"] BY <1>1
    <3>4. "tables" \in NumberedLists BY DEF NumberedLists
    <3> QED BY <3>2, <3>3, <3>4, ItemPlaces
  <2>2. rows = [i \in 1 .. T |-> rows[i]] /\ R = {rows[i] : i \in 1 .. T} OBVIOUS
  <2> HIDE DEF rows, R, T
  <2>3. /\ rows \in Seq(Range(rows)) /\ Range(rows) = {rows[i] : i \in 1 .. T}
        /\ Distinct(rows)
    BY <1>1, <2>1, <2>2, ListedEntries
  <2> QED BY <2>2, <2>3 DEF Listing
<1>5. /\ Tag(SheetEntry(s).name) = "worksheet" /\ Tag(LinksEntry(s).name) = "worksheet rels"
      /\ Tag(DrawingEntry(s).name) = "drawing"
      /\ Tag(DrawingLinksEntry(s).name) = "drawing rels"
      /\ \A i : Tag(ImageEntry(s, i).name) = "media"
      /\ \A i : Tag(TableEntry(s, i).name) = "table"
  <2>1. /\ SheetEntry(s).name = <<"worksheet", s>>
        /\ LinksEntry(s).name = Rels(<<"worksheet", s>>)
        /\ DrawingEntry(s).name = DrawingName(s)
        /\ DrawingLinksEntry(s).name = Rels(DrawingName(s))
        /\ \A i : ImageEntry(s, i).name = MediaName(s, i)
        /\ \A i : TableEntry(s, i).name = TableName(s, i)
    BY EntryNames
  <2>2. \A i : Tag(MediaName(s, i)) = "media" /\ Tag(TableName(s, i)) = "table"
    BY SheetNames
  <2>3. /\ Tag(<<"worksheet", s>>) = "worksheet"
        /\ Tag(Rels(<<"worksheet", s>>)) = "worksheet rels"
        /\ Tag(DrawingName(s)) = "drawing" /\ Tag(Rels(DrawingName(s))) = "drawing rels"
    BY SheetNames
  <2> QED BY <2>1, <2>2, <2>3
<1> DEFINE pair == <<DrawingEntry(s), DrawingLinksEntry(s)>>
           P == {DrawingEntry(s), DrawingLinksEntry(s)}
<1>6. Listing(pair, P)
  <2> DEFINE x == DrawingEntry(s)
             y == DrawingLinksEntry(s)
  <2>1. x.name # y.name BY <1>5
  <2> HIDE DEF x, y
  <2>2. pair = <<x, y>> BY DEF x, y
  <2>3. P = {x, y} BY DEF x, y
  <2> HIDE DEF pair, P
  <2> QED BY <2>1, <2>2, <2>3 DEF Listing, Range, Distinct
<1>7. Listing(<<SheetEntry(s)>>, {SheetEntry(s)}) /\ Listing(<<LinksEntry(s)>>, {LinksEntry(s)})
  BY OneEntry DEF Listing
<1> DEFINE a == <<SheetEntry(s)>>
           A == {SheetEntry(s)}
           b == IF linked THEN <<LinksEntry(s)>> ELSE << >>
           B == IF linked THEN {LinksEntry(s)} ELSE {}
           c == IF drawn THEN pair \o media ELSE << >>
           C == IF drawn THEN P \cup M ELSE {}
<1>8. /\ Tagged(A, {"worksheet"}) /\ Tagged(B, {"worksheet rels"})
      /\ Tagged(P, {"drawing", "drawing rels"}) /\ Tagged(M, {"media"})
      /\ Tagged(R, {"table"})
  BY <1>5 DEF Tagged
<1>9. Tagged(C, {"drawing", "drawing rels", "media"})
  BY <1>8 DEF Tagged
<1>10. SheetEntries(s) = a \o b \o c \o rows
  <2>1. c = IF images = << >> THEN << >>
            ELSE pair \o [i \in DOMAIN images |-> ImageEntry(s, i)]
    BY <1>1
  <2>2. rows = [i \in DOMAIN tables |-> TableEntry(s, i)] BY <1>1
  <2> HIDE DEF c, rows
  <2> QED BY <2>1, <2>2 DEF SheetEntries, SheetEntry, LinksEntry, DrawingEntry,
             DrawingLinksEntry, ImageEntry, TableEntry
<1>11. SheetSet(s) = ((A \cup B) \cup C) \cup R
  BY <1>1 DEF SheetSet, DrawingSet
<1>12. Listing(b, B)
  <2>1. linked \in BOOLEAN BY DEF HasRelationships
  <2> HIDE DEF linked
  <2> QED BY <1>7, <2>1, Optional
<1>13. Listing(c, C)
  <2> HIDE DEF pair, media, P, M
  <2>1. Apart(P, M)
    <3>1. {"drawing", "drawing rels"} \cap {"media"} = {} OBVIOUS
    <3> QED BY <1>8, <3>1, TagsApart
  <2>2. Listing(pair \o media, P \cup M) BY <1>3, <1>6, <2>1, Joined
  <2>3. drawn \in BOOLEAN OBVIOUS
  <2> HIDE DEF drawn
  <2> QED BY <2>2, <2>3, Optional
<1>14. Listing(a, A)
  BY <1>7
<1> HIDE DEF a, b, c, rows, A, B, C, R
<1>15. Listing(a \o b, A \cup B)
  <2>1. {"worksheet"} \cap {"worksheet rels"} = {} OBVIOUS
  <2>2. Apart(A, B) BY <1>8, <2>1, TagsApart
  <2> QED BY <1>12, <1>14, <2>2, Joined
<1>16. Listing((a \o b) \o c, (A \cup B) \cup C)
  <2>1. {"worksheet", "worksheet rels"} \cap {"drawing", "drawing rels", "media"} = {} OBVIOUS
  <2>2. Tagged(A \cup B, {"worksheet", "worksheet rels"}) BY <1>8 DEF Tagged
  <2>3. Apart(A \cup B, C) BY <1>9, <2>1, <2>2, TagsApart
  <2> QED BY <1>13, <1>15, <2>3, Joined
<1>17. Listing(((a \o b) \o c) \o rows, ((A \cup B) \cup C) \cup R)
  <2>1. {"worksheet", "worksheet rels", "drawing", "drawing rels", "media"} \cap {"table"} = {}
    OBVIOUS
  <2>2. Tagged((A \cup B) \cup C,
               {"worksheet", "worksheet rels", "drawing", "drawing rels", "media"})
    BY <1>8, <1>9 DEF Tagged
  <2>3. Apart((A \cup B) \cup C, R) BY <1>8, <2>1, <2>2, TagsApart
  <2> QED BY <1>4, <1>16, <2>3, Joined
<1> QED BY <1>10, <1>11, <1>17

\* What the name of a sheet's entry says.
EntryOf(n, s) ==
    \/ Tag(n) = "worksheet" /\ Number(n) = s
    \/ Tag(n) = "worksheet rels" /\ Number(n) = s /\ HasRelationships(meta[s])
    \/ /\ Tag(n) \in {"drawing", "drawing rels"} /\ meta[s].images # << >>
       /\ Number(n) = DrawingsBefore(s) + 1
    \/ /\ Tag(n) = "media"
       /\ \E i \in DOMAIN meta[s].images : Number(n) = ImagesBefore(s) + i
    \/ /\ Tag(n) = "table"
       /\ \E i \in DOMAIN meta[s].tables : Number(n) = TablesBefore(s) + i

LEMMA SheetEntryNames ==
    ASSUME NEW s, NEW x \in SheetSet(s)
    PROVE  EntryOf(x.name, s)
<1>1. /\ \A i : /\ Tag(MediaName(s, i)) = "media" /\ Tag(TableName(s, i)) = "table"
                /\ Number(MediaName(s, i)) = ImagesBefore(s) + i
                /\ Number(TableName(s, i)) = TablesBefore(s) + i
      /\ Tag(<<"worksheet", s>>) = "worksheet" /\ Number(<<"worksheet", s>>) = s
      /\ Tag(Rels(<<"worksheet", s>>)) = "worksheet rels"
      /\ Number(Rels(<<"worksheet", s>>)) = s
      /\ Tag(DrawingName(s)) = "drawing" /\ Number(DrawingName(s)) = DrawingsBefore(s) + 1
      /\ Tag(Rels(DrawingName(s))) = "drawing rels"
      /\ Number(Rels(DrawingName(s))) = DrawingsBefore(s) + 1
  BY SheetNames
<1>2. /\ SheetEntry(s).name = <<"worksheet", s>>
      /\ LinksEntry(s).name = Rels(<<"worksheet", s>>)
      /\ DrawingEntry(s).name = DrawingName(s)
      /\ DrawingLinksEntry(s).name = Rels(DrawingName(s))
      /\ \A i : ImageEntry(s, i).name = MediaName(s, i)
      /\ \A i : TableEntry(s, i).name = TableName(s, i)
  BY EntryNames
<1>3. CASE x = SheetEntry(s) BY <1>1, <1>2, <1>3 DEF EntryOf
<1>4. CASE x = LinksEntry(s) /\ HasRelationships(meta[s]) BY <1>1, <1>2, <1>4 DEF EntryOf
<1>5. CASE x = DrawingEntry(s) /\ meta[s].images # << >> BY <1>1, <1>2, <1>5 DEF EntryOf
<1>6. CASE x = DrawingLinksEntry(s) /\ meta[s].images # << >> BY <1>1, <1>2, <1>6 DEF EntryOf
<1>7. CASE \E i \in DOMAIN meta[s].images : x = ImageEntry(s, i)
  <2>1. PICK i \in DOMAIN meta[s].images : x = ImageEntry(s, i) BY <1>7
  <2>2. Tag(x.name) = "media" /\ Number(x.name) = ImagesBefore(s) + i BY <1>1, <1>2, <2>1
  <2> QED BY <2>2 DEF EntryOf
<1>8. CASE \E i \in DOMAIN meta[s].tables : x = TableEntry(s, i)
  <2>1. PICK i \in DOMAIN meta[s].tables : x = TableEntry(s, i) BY <1>8
  <2>2. Tag(x.name) = "table" /\ Number(x.name) = TablesBefore(s) + i BY <1>1, <1>2, <2>1
  <2> QED BY <2>2 DEF EntryOf
<1> QED BY <1>3, <1>4, <1>5, <1>6, <1>7, <1>8 DEF SheetSet, DrawingSet

LEMMA SheetsApart ==
    ASSUME RecordsOK, NEW s \in Sheets, NEW t \in Sheets, s # t
    PROVE  Apart(SheetSet(s), SheetSet(t))
<1> SUFFICES ASSUME NEW x \in SheetSet(s), NEW y \in SheetSet(t), x.name = y.name
             PROVE  FALSE
  BY DEF Apart
<1> DEFINE n == x.name
<1>1. EntryOf(n, s) /\ EntryOf(n, t)
  BY SheetEntryNames
<1> HIDE DEF n
<1>2. CASE Tag(n) \in {"worksheet", "worksheet rels"}
  BY <1>1, <1>2 DEF EntryOf
<1>3. CASE Tag(n) \in {"drawing", "drawing rels"}
  <2>1. /\ meta[s].images # << >> /\ meta[t].images # << >>
        /\ DrawingsBefore(s) + 1 = DrawingsBefore(t) + 1
    BY <1>1, <1>3 DEF EntryOf
  <2>2. MaxSheets \in Nat /\ s \in 1 .. MaxSheets /\ t \in 1 .. MaxSheets
    BY WriterBounds DEF Sheets
  <2>3. DrawingsBefore(s) \in Nat /\ DrawingsBefore(t) \in Nat BY <2>1, <2>2, DrawingPlaces
  <2>4. DrawingsBefore(s) = DrawingsBefore(t) BY <2>1, <2>3
  <2> QED BY <2>1, <2>2, <2>4, DrawingPlaces
<1>4. CASE Tag(n) = "media"
  <2>1. PICK i \in DOMAIN meta[s].images : Number(n) = ImagesBefore(s) + i
    BY <1>1, <1>4 DEF EntryOf
  <2>2. PICK j \in DOMAIN meta[t].images : Number(n) = ImagesBefore(t) + j
    BY <1>1, <1>4 DEF EntryOf
  <2>3. ItemsBefore("images", s) + i = ItemsBefore("images", t) + j
    BY <2>1, <2>2 DEF ImagesBefore
  <2>4. i \in DOMAIN meta[s]["images"] /\ j \in DOMAIN meta[t]["images"] OBVIOUS
  <2>5. "images" \in NumberedLists BY DEF NumberedLists
  <2> QED BY <2>3, <2>4, <2>5, ItemPlaces
<1>5. CASE Tag(n) = "table"
  <2>1. PICK i \in DOMAIN meta[s].tables : Number(n) = TablesBefore(s) + i
    BY <1>1, <1>5 DEF EntryOf
  <2>2. PICK j \in DOMAIN meta[t].tables : Number(n) = TablesBefore(t) + j
    BY <1>1, <1>5 DEF EntryOf
  <2>3. ItemsBefore("tables", s) + i = ItemsBefore("tables", t) + j
    BY <2>1, <2>2 DEF TablesBefore
  <2>4. i \in DOMAIN meta[s]["tables"] /\ j \in DOMAIN meta[t]["tables"] OBVIOUS
  <2>5. "tables" \in NumberedLists BY DEF NumberedLists
  <2> QED BY <2>3, <2>4, <2>5, ItemPlaces
<1> QED BY <1>1, <1>2, <1>3, <1>4, <1>5 DEF EntryOf

FixedSet == {Entry(<<"types">>, ContentTypes), Entry(<<"core">>, None), Entry(<<"app">>, None),
             Entry(<<"workbook">>, [s \in DOMAIN sheets |-> s]),
             Entry(Rels(<<"workbook">>), WorkbookRelationships)}
StringsEntry == Entry(<<"sharedStrings">>, None)
StylesEntry == Entry(<<"styles">>, StylesXml)

PackageSet == FixedSet
              \cup (IF HasStrings THEN {StringsEntry} ELSE {})
              \cup (IF styles # << >> THEN {StylesEntry} ELSE {})
              \cup UNION {SheetSet(s) : s \in DOMAIN sheets}

FixedTags == {"types", "core", "app", "workbook", "workbook rels"}
SheetTags == {"worksheet", "worksheet rels", "drawing", "drawing rels", "media", "table"}

LEMMA FixedNames ==
    /\ Tag(<<"types">>) = "types" /\ Tag(<<"core">>) = "core" /\ Tag(<<"app">>) = "app"
    /\ Tag(<<"workbook">>) = "workbook" /\ Tag(Rels(<<"workbook">>)) = "workbook rels"
    /\ Tag(<<"sharedStrings">>) = "sharedStrings" /\ Tag(<<"styles">>) = "styles"
<1>1. Tag(<<"types">>) = "types" /\ Tag(<<"core">>) = "core" /\ Tag(<<"app">>) = "app"
  BY DEF Tag
<1>2. Tag(<<"workbook">>) = "workbook"
  BY DEF Tag
<1>3. Tag(Rels(<<"workbook">>)) = "workbook rels"
  BY DEF Tag, Rels
<1>4. Tag(<<"sharedStrings">>) = "sharedStrings" /\ Tag(<<"styles">>) = "styles"
  BY DEF Tag
<1> QED BY <1>1, <1>2, <1>3, <1>4

LEMMA FixedListing ==
    Listing(<<Entry(<<"types">>, ContentTypes), Entry(<<"core">>, None),
              Entry(<<"app">>, None), Entry(<<"workbook">>, [s \in DOMAIN sheets |-> s]),
              Entry(Rels(<<"workbook">>), WorkbookRelationships)>>, FixedSet)
<1> DEFINE types == Entry(<<"types">>, ContentTypes)
           core == Entry(<<"core">>, None)
           app == Entry(<<"app">>, None)
           book == Entry(<<"workbook">>, [s \in DOMAIN sheets |-> s])
           links == Entry(Rels(<<"workbook">>), WorkbookRelationships)
           Place(n) == IF Tag(n) = "types" THEN 1 ELSE IF Tag(n) = "core" THEN 2
                       ELSE IF Tag(n) = "app" THEN 3 ELSE IF Tag(n) = "workbook" THEN 4 ELSE 5
           q == <<types, core, app, book, links>>
<1>1. /\ Tag(types.name) = "types" /\ Tag(core.name) = "core" /\ Tag(app.name) = "app"
      /\ Tag(book.name) = "workbook" /\ Tag(links.name) = "workbook rels"
  <2>1. \A n, c : Entry(n, c).name = n BY DEF Entry
  <2> QED BY <2>1, FixedNames
<1>2. FixedSet = {types, core, app, book, links}
  BY DEF FixedSet
<1> HIDE DEF types, core, app, book, links
<1>3. q = [i \in 1 .. 5 |-> q[i]] /\ Range(q) = FixedSet
      /\ q[1] = types /\ q[2] = core /\ q[3] = app /\ q[4] = book /\ q[5] = links
  <2>1. DOMAIN q = 1 .. 5 OBVIOUS
  <2>2. /\ q[1] = types /\ q[2] = core /\ q[3] = app /\ q[4] = book /\ q[5] = links OBVIOUS
  <2>3. q = [i \in DOMAIN q |-> q[i]] OBVIOUS
  <2> HIDE DEF q
  <2> QED BY <1>2, <2>1, <2>2, <2>3 DEF Range
<1> HIDE DEF q
<1>4. /\ Place(q[1].name) = 1 /\ Place(q[2].name) = 2 /\ Place(q[3].name) = 3
      /\ Place(q[4].name) = 4 /\ Place(q[5].name) = 5
  BY <1>1, <1>3
<1> HIDE DEF Place
<1>5. \A i \in 1 .. 5 : Place(q[i].name) = i
  BY <1>4
<1>6. /\ q \in Seq(Range(q)) /\ Distinct(q)
  <2>1. \A i, j \in 1 .. 5 : q[i].name = q[j].name => i = j
    BY <1>5
  <2>2. 5 \in Nat OBVIOUS
  <2> QED BY <1>3, <2>1, <2>2, ListedEntries
<1>7. Listing(q, FixedSet)
  BY <1>3, <1>6 DEF Listing
<1> QED BY <1>7 DEF q, types, core, app, book, links

LEMMA SheetsTagged ==
    ASSUME NEW S
    PROVE  Tagged(UNION {SheetSet(s) : s \in S}, SheetTags)
BY SheetEntryNames DEF Tagged, SheetTags, EntryOf

LEMMA SheetsListing ==
    ASSUME RecordsOK, NEW n \in Nat, n <= MaxSheets
    PROVE  Listing(FlattenSeq([s \in 1 .. n |-> SheetEntries(s)]),
                   UNION {SheetSet(s) : s \in 1 .. n})
<1> DEFINE ss == [s \in 1 .. n |-> SheetEntries(s)]
           S == UNION {SheetSet(s) : s \in 1 .. n}
<1>1. 1 .. n \in SUBSET Sheets
  BY WriterBounds DEF Sheets
<1>2. \A s \in 1 .. n : Listing(ss[s], SheetSet(s))
  BY <1>1, SheetListing
<1>3. ss \in Seq(Seq(S)) /\ DOMAIN ss = 1 .. n
  <2>1. ASSUME NEW s \in 1 .. n PROVE SheetEntries(s) \in Seq(S)
    <3>1. SheetEntries(s) \in Seq(SheetSet(s)) BY <1>2 DEF Listing
    <3>2. SheetSet(s) \in SUBSET S OBVIOUS
    <3> HIDE DEF S
    <3> QED BY <3>1, <3>2
  <2> HIDE DEF S
  <2> QED BY <2>1
<1>4. /\ \A i \in DOMAIN ss : Distinct(ss[i]) /\ Range(ss[i]) = SheetSet(i)
      /\ \A i, j \in DOMAIN ss : i < j => Apart(Range(ss[i]), Range(ss[j]))
  <2>1. \A i \in 1 .. n : Distinct(ss[i]) /\ Range(ss[i]) = SheetSet(i)
    BY <1>2 DEF Listing
  <2>2. \A i, j \in 1 .. n : i < j => Apart(SheetSet(i), SheetSet(j))
    <3> SUFFICES ASSUME NEW i \in 1 .. n, NEW j \in 1 .. n, i < j
                 PROVE  Apart(SheetSet(i), SheetSet(j))
      OBVIOUS
    <3>1. i \in Sheets /\ j \in Sheets /\ i # j BY <1>1
    <3> QED BY <3>1, SheetsApart
  <2> HIDE DEF ss
  <2> QED BY <1>3, <2>1, <2>2
<1> HIDE DEF ss
<1>5. /\ FlattenSeq(ss) \in Seq(S)
      /\ Range(FlattenSeq(ss)) = UNION {Range(ss[i]) : i \in DOMAIN ss}
      /\ Distinct(FlattenSeq(ss))
  <2> HIDE DEF S
  <2> QED BY <1>3, <1>4, FlattenEntries
<1>6. UNION {Range(ss[i]) : i \in DOMAIN ss} = S
  <2>1. {Range(ss[i]) : i \in DOMAIN ss} = {SheetSet(s) : s \in 1 .. n} BY <1>3, <1>4
  <2> QED BY <2>1
<1>7. Listing(FlattenSeq(ss), S)
  BY <1>5, <1>6 DEF Listing
<1> QED BY <1>7 DEF ss

BookOK == /\ RecordsOK
          /\ sheets \in Seq(Names) /\ Len(sheets) <= MaxSheets

LEMMA PackageListing ==
    ASSUME BookOK
    PROVE  Listing(PackageParts, PackageSet)
<1> DEFINE fixed == <<Entry(<<"types">>, ContentTypes), Entry(<<"core">>, None),
                      Entry(<<"app">>, None), Entry(<<"workbook">>, [s \in DOMAIN sheets |-> s]),
                      Entry(Rels(<<"workbook">>), WorkbookRelationships)>>
           a == IF HasStrings THEN <<StringsEntry>> ELSE << >>
           A == IF HasStrings THEN {StringsEntry} ELSE {}
           b == IF styles # << >> THEN <<StylesEntry>> ELSE << >>
           B == IF styles # << >> THEN {StylesEntry} ELSE {}
           c == FlattenSeq([s \in DOMAIN sheets |-> SheetEntries(s)])
           C == UNION {SheetSet(s) : s \in DOMAIN sheets}
<1>1. Listing(fixed, FixedSet)
  BY FixedListing
<1>2. Listing(a, A) /\ Listing(b, B)
  <2>1. Listing(<<StringsEntry>>, {StringsEntry}) /\ Listing(<<StylesEntry>>, {StylesEntry})
    BY OneEntry DEF Listing
  <2> DEFINE pooled == HasStrings
             styled == styles # << >>
  <2>2. pooled \in BOOLEAN /\ styled \in BOOLEAN BY StrategyAssumption DEF HasStrings
  <2> HIDE DEF pooled, styled
  <2>3. /\ Listing(IF pooled THEN <<StringsEntry>> ELSE << >>,
                   IF pooled THEN {StringsEntry} ELSE {})
        /\ Listing(IF styled THEN <<StylesEntry>> ELSE << >>,
                   IF styled THEN {StylesEntry} ELSE {})
    BY <2>1, <2>2, Optional
  <2> QED BY <2>3 DEF pooled, styled
<1>3. Listing(c, C)
  <2> DEFINE n == Len(sheets)
  <2>1. n \in Nat /\ n <= MaxSheets /\ DOMAIN sheets = 1 .. n BY DEF BookOK
  <2> HIDE DEF n
  <2>2. RecordsOK BY DEF BookOK
  <2> QED BY <2>1, <2>2, SheetsListing
<1>4. /\ Tagged(FixedSet, FixedTags) /\ Tagged(A, {"sharedStrings"})
      /\ Tagged(B, {"styles"}) /\ Tagged(C, SheetTags)
  <2>1. Tagged(C, SheetTags) BY SheetsTagged
  <2>2. \A n, x : Entry(n, x).name = n BY DEF Entry
  <2>3. Tagged(FixedSet, FixedTags) BY <2>2, FixedNames DEF Tagged, FixedSet, FixedTags
  <2>4. Tag(StringsEntry.name) = "sharedStrings" /\ Tag(StylesEntry.name) = "styles"
    BY <2>2, FixedNames DEF StringsEntry, StylesEntry
  <2>5. Tagged(A, {"sharedStrings"}) /\ Tagged(B, {"styles"}) BY <2>4 DEF Tagged
  <2> QED BY <2>1, <2>3, <2>5
<1>5. PackageParts = fixed \o a \o b \o c
  BY DEF PackageParts, StringsEntry, StylesEntry
<1>6. PackageSet = ((FixedSet \cup A) \cup B) \cup C
  BY DEF PackageSet
<1> HIDE DEF fixed, a, b, c, A, B, C
<1>7. Listing(fixed \o a, FixedSet \cup A)
  <2>1. FixedTags \cap {"sharedStrings"} = {} BY DEF FixedTags
  <2>2. Apart(FixedSet, A) BY <1>4, <2>1, TagsApart
  <2> QED BY <1>1, <1>2, <2>2, Joined
<1>8. Listing((fixed \o a) \o b, (FixedSet \cup A) \cup B)
  <2>1. (FixedTags \cup {"sharedStrings"}) \cap {"styles"} = {} BY DEF FixedTags
  <2>2. Tagged(FixedSet \cup A, FixedTags \cup {"sharedStrings"}) BY <1>4 DEF Tagged
  <2>3. Apart(FixedSet \cup A, B) BY <1>4, <2>1, <2>2, TagsApart
  <2> QED BY <1>2, <1>7, <2>3, Joined
<1>9. Listing(((fixed \o a) \o b) \o c, ((FixedSet \cup A) \cup B) \cup C)
  <2>1. (FixedTags \cup {"sharedStrings", "styles"}) \cap SheetTags = {}
    BY DEF FixedTags, SheetTags
  <2>2. Tagged((FixedSet \cup A) \cup B, FixedTags \cup {"sharedStrings", "styles"})
    BY <1>4 DEF Tagged
  <2>3. Apart((FixedSet \cup A) \cup B, C) BY <1>4, <2>1, <2>2, TagsApart
  <2> QED BY <1>3, <1>8, <2>3, Joined
<1> QED BY <1>5, <1>6, <1>9

-----------------------------------------------------------------------------
(* What was made of the calls at the closing stays.                        *)

LEMMA PackageStays ==
    ASSUME UNCHANGED <<meta, styles, sheets, count>>
    PROVE  PackageParts' = PackageParts
<1>1. HasStrings' = HasStrings /\ StylesXml' = StylesXml
  BY DEF HasStrings, StylesXml, FirstUses
<1>2. \A list, s : ItemsBefore(list, s)' = ItemsBefore(list, s)
  BY DEF ItemsBefore
<1>3. \A s : /\ DrawingsBefore(s)' = DrawingsBefore(s)
             /\ TablesBefore(s)' = TablesBefore(s) /\ ImagesBefore(s)' = ImagesBefore(s)
  BY <1>2 DEF TablesBefore, ImagesBefore, DrawingsBefore
<1>4. WorkbookRelationships' = WorkbookRelationships
  BY <1>1 DEF WorkbookRelationships
<1>5. ContentTypes' = ContentTypes
  <2> DEFINE n == Len(sheets) + 1
  <2>1. TablesBefore(n)' = TablesBefore(n) /\ DrawingsBefore(n)' = DrawingsBefore(n)
    BY DEF TablesBefore, ItemsBefore, DrawingsBefore
  <2> DEFINE T == TablesBefore(n)
             D == DrawingsBefore(n)
             all == DOMAIN sheets
             pooled == HasStrings
             styled == styles # << >>
             formats == UNION {{meta[s].images[i].format : i \in DOMAIN meta[s].images} : s \in all}
             named == {<<"workbook">>, <<"core">>, <<"app">>}
                      \cup {<<"worksheet", s>> : s \in all}
                      \cup (IF pooled THEN {<<"sharedStrings">>} ELSE {})
                      \cup (IF styled THEN {<<"styles">>} ELSE {})
                      \cup {<<"table", k>> : k \in 1 .. T}
                      \cup {<<"drawing", k>> : k \in 1 .. D}
  <2>2. all' = all /\ formats' = formats /\ styled' = styled OBVIOUS
  <2>3. T' = T /\ D' = D /\ pooled' = pooled BY <1>1, <2>1
  <2>4. ContentTypes = [named |-> named, extensions |-> {"rels", "xml"} \cup formats]
    BY DEF ContentTypes
  <2>5. ContentTypes' = [named |-> named', extensions |-> {"rels", "xml"} \cup formats']
    BY DEF ContentTypes
  <2>6. named' = named
    <3> HIDE DEF T, D, all, pooled, styled
    <3> QED BY <2>2, <2>3
  <2> HIDE DEF named, formats
  <2> QED BY <2>2, <2>4, <2>5, <2>6
<1>6. \A s : SheetEntries(s)' = SheetEntries(s)
  <2> TAKE s
  <2>1. /\ DrawingName(s)' = DrawingName(s)
        /\ \A i : /\ MediaName(s, i)' = MediaName(s, i)
                  /\ TableName(s, i)' = TableName(s, i)
    BY <1>3 DEF DrawingName, MediaName, TableName
  <2>2. WorksheetXml(s)' = WorksheetXml(s) BY DEF WorksheetXml
  <2>3. WorksheetRelationships(s)' = WorksheetRelationships(s)
    BY <2>1 DEF WorksheetRelationships
  <2>4. DrawingXml(s)' = DrawingXml(s) BY <1>3 DEF DrawingXml
  <2>5. DrawingRelationships(s)' = DrawingRelationships(s)
    BY <2>1 DEF DrawingRelationships
  <2>6. \A i : TableXml(s, i)' = TableXml(s, i) BY <1>3 DEF TableXml
  <2> QED BY <2>1, <2>2, <2>3, <2>4, <2>5, <2>6 DEF SheetEntries
<1> QED BY <1>1, <1>4, <1>5, <1>6 DEF PackageParts

ClosedInv == closed => parts = PackageParts

LEMMA ClosedStep ==
    RowsInv /\ ClosedInv /\ [NextWithParts]_allvars => ClosedInv'
<1> SUFFICES ASSUME RowsInv, ClosedInv, [NextWithParts]_allvars, closed' PROVE parts' = PackageParts'
  BY DEF ClosedInv
<1>1. CASE UNCHANGED allvars
  <2>1. UNCHANGED <<meta, styles, sheets, count, closed, parts>>
    BY <1>1 DEF allvars, metadata, vars, strings
  <2> QED BY <2>1, PackageStays DEF ClosedInv
<1>2. CASE CloseWithParts
  <2>1. UNCHANGED <<meta, styles, sheets, count>> /\ parts' = PackageParts
    BY <1>2 DEF CloseWithParts, Close, strings
  <2> QED BY <2>1, PackageStays
<1>3. CASE ~ closed
  <2>1. CASE RowStep
    BY <1>3, <2>1 DEF RowStep, AddWorksheet, StartRow, WriteCell, EndRow, EndRowFails,
                      EndRowRefused, CloseFails
  <2>2. CASE PartStep /\ ~ CloseWithParts
    BY <1>3, <2>2 DEF PartStep, AddExternalHyperlink, AddInternalHyperlink, AddTable, AddImage,
                      AddDataValidation, AddColorScale, AddDataBar, AddIconSet, AddRule, Record,
                      AddStyle, vars
  <2> QED BY <1>1, <1>2, <2>1, <2>2 DEF NextWithParts
<1>4. CASE closed
  <2>1. ~ Mutable /\ row = Nothing BY <1>4 DEF RowsInv, PackageFinal, Mutable
  <2>2. ~ RowStep
    BY <2>1 DEF RowStep, AddWorksheet, StartRow, WriteCell, EndRow, EndRowFails, EndRowRefused,
                RowDone, CloseFails
  <2>3. ~ PartStep
    BY <2>1 DEF PartStep, AddExternalHyperlink, AddInternalHyperlink, AddTable, AddImage,
                AddDataValidation, AddColorScale, AddDataBar, AddIconSet, AddRule, Changeable,
                AddStyle, CloseWithParts, Close
  <2> QED BY <1>1, <2>2, <2>3 DEF NextWithParts
<1> QED BY <1>3, <1>4

-----------------------------------------------------------------------------
(* What a closed package holds.                                            *)

LEMMA EntryFound ==
    ASSUME BookOK, parts = PackageParts
    PROVE  /\ IsInjective([k \in DOMAIN parts |-> parts[k].name])
           /\ PartNames = {x.name : x \in PackageSet}
           /\ \A x \in PackageSet : Content(x.name) = x.content
<1>1. Range(parts) = PackageSet /\ Distinct(parts)
  BY PackageListing DEF Listing
<1>2. IsInjective([k \in DOMAIN parts |-> parts[k].name])
  BY <1>1 DEF IsInjective, Distinct
<1>3. PartNames = {x.name : x \in PackageSet}
  BY <1>1 DEF PartNames, Range
<1>4. ASSUME NEW x \in PackageSet PROVE Content(x.name) = x.content
  <2> DEFINE k == CHOOSE j \in DOMAIN parts : parts[j].name = x.name
  <2>1. PICK j \in DOMAIN parts : parts[j] = x BY <1>1 DEF Range
  <2>2. k \in DOMAIN parts /\ parts[k].name = x.name BY <2>1
  <2>3. Content(x.name) = parts[k].content BY DEF Content
  <2> HIDE DEF k
  <2>4. k = j BY <1>1, <2>1, <2>2 DEF Distinct
  <2> QED BY <2>1, <2>3, <2>4
<1> QED BY <1>2, <1>3, <1>4

\* The names of the parts, spelt out.
FixedName(n) ==
    \/ n \in {<<"types">>, <<"core">>, <<"app">>, <<"workbook">>, Rels(<<"workbook">>)}
    \/ HasStrings /\ n = <<"sharedStrings">>
    \/ styles # << >> /\ n = <<"styles">>
SheetName(n, s) ==
    \/ n = <<"worksheet", s>>
    \/ HasRelationships(meta[s]) /\ n = Rels(<<"worksheet", s>>)
    \/ meta[s].images # << >> /\ n \in {DrawingName(s), Rels(DrawingName(s))}
    \/ meta[s].images # << >> /\ \E i \in DOMAIN meta[s].images : n = MediaName(s, i)
    \/ \E i \in DOMAIN meta[s].tables : n = TableName(s, i)

LEMMA SheetSetNames ==
    ASSUME NEW s
    PROVE  \A n : SheetName(n, s) <=> \E x \in SheetSet(s) : n = x.name
<1>1. /\ SheetEntry(s).name = <<"worksheet", s>>
      /\ LinksEntry(s).name = Rels(<<"worksheet", s>>)
      /\ DrawingEntry(s).name = DrawingName(s)
      /\ DrawingLinksEntry(s).name = Rels(DrawingName(s))
      /\ \A i : ImageEntry(s, i).name = MediaName(s, i)
      /\ \A i : TableEntry(s, i).name = TableName(s, i)
  BY EntryNames
<1>2. ASSUME NEW x \in SheetSet(s) PROVE SheetName(x.name, s)
  BY <1>1 DEF SheetSet, DrawingSet, SheetName
<1>3. ASSUME NEW n, SheetName(n, s) PROVE \E x \in SheetSet(s) : n = x.name
  BY <1>1, <1>3 DEF SheetSet, DrawingSet, SheetName
<1> QED BY <1>2, <1>3

LEMMA PackageNames ==
    ASSUME BookOK, parts = PackageParts, NEW n
    PROVE  n \in PartNames <=> FixedName(n) \/ \E s \in DOMAIN sheets : SheetName(n, s)
<1>1. \A m, c : Entry(m, c).name = m
  BY DEF Entry
<1> DEFINE A == IF HasStrings THEN {StringsEntry} ELSE {}
           B == IF styles # << >> THEN {StylesEntry} ELSE {}
           C == UNION {SheetSet(s) : s \in DOMAIN sheets}
           F == FixedSet \cup A \cup B
<1>2. PackageSet = F \cup C
  BY DEF PackageSet
<1>3. FixedName(n) <=> \E x \in F : n = x.name
  BY <1>1 DEF FixedName, FixedSet, StringsEntry, StylesEntry
<1>4. (\E s \in DOMAIN sheets : SheetName(n, s)) <=> \E x \in C : n = x.name
  <2>1. \A s : SheetName(n, s) <=> \E x \in SheetSet(s) : n = x.name BY SheetSetNames
  <2> QED BY <2>1
<1> HIDE DEF F, C
<1>5. n \in PartNames <=> \E x \in PackageSet : n = x.name
  BY EntryFound
<1> QED BY <1>2, <1>3, <1>4, <1>5

LEMMA BookSheets ==
    ASSUME BookOK
    PROVE  /\ Len(sheets) \in Nat /\ DOMAIN sheets = 1 .. Len(sheets)
           /\ Len(sheets) \in 0 .. MaxSheets /\ DOMAIN sheets \in SUBSET Sheets
<1>1. Len(sheets) \in Nat /\ DOMAIN sheets = 1 .. Len(sheets) /\ Len(sheets) <= MaxSheets
  BY DEF BookOK
<1> QED BY <1>1, WriterBounds DEF Sheets

LEMMA TablesNumbered ==
    ASSUME BookOK, NEW n
    PROVE  n \in {<<"table", k>> : k \in 1 .. TablesBefore(Len(sheets) + 1)} <=>
              \E s \in DOMAIN sheets : \E i \in DOMAIN meta[s].tables : n = TableName(s, i)
<1> DEFINE N == Len(sheets)
           K == {k \in Nat : \E s \in 1 .. N : \E i \in DOMAIN meta[s]["tables"] :
                                k = ItemsBefore("tables", s) + i}
<1>1. N \in 0 .. MaxSheets /\ DOMAIN sheets = 1 .. N /\ DOMAIN sheets \in SUBSET Sheets
  BY BookSheets
<1>2. RecordsOK /\ "tables" \in NumberedLists
  BY DEF BookOK, NumberedLists
<1>3. /\ 1 .. ItemsBefore("tables", N + 1) = K
      /\ \A s \in Sheets : ItemsBefore("tables", s) \in Nat
  <2> HIDE DEF N
  <2> QED BY <1>1, <1>2, ItemPlaces
<1>4. \A s \in 1 .. N : \A i \in DOMAIN meta[s]["tables"] :
         ItemsBefore("tables", s) + i \in K
  <2> SUFFICES ASSUME NEW s \in 1 .. N, NEW i \in DOMAIN meta[s]["tables"]
               PROVE  ItemsBefore("tables", s) + i \in K
    OBVIOUS
  <2>1. s \in Sheets BY <1>1
  <2>2. i \in Nat BY <1>2, <2>1, ListType
  <2>3. ItemsBefore("tables", s) + i \in Nat BY <1>3, <2>1, <2>2
  <2> QED BY <2>3
<1>5. \A s, i : TableName(s, i) = <<"table", ItemsBefore("tables", s) + i>>
  BY DEF TableName, TablesBefore
<1>6. TablesBefore(N + 1) = ItemsBefore("tables", N + 1)
  BY DEF TablesBefore
<1>7. n \in {<<"table", k>> : k \in K} <=>
         \E s \in 1 .. N : \E i \in DOMAIN meta[s].tables : n = TableName(s, i)
  <2>1. ASSUME NEW k \in K, n = <<"table", k>>
        PROVE  \E s \in 1 .. N : \E i \in DOMAIN meta[s].tables : n = TableName(s, i)
    BY <1>5, <2>1
  <2>2. ASSUME NEW s \in 1 .. N, NEW i \in DOMAIN meta[s].tables, n = TableName(s, i)
        PROVE  n \in {<<"table", k>> : k \in K}
    BY <1>4, <1>5, <2>2
  <2> HIDE DEF K, N
  <2> QED BY <2>1, <2>2
<1> HIDE DEF K, N
<1>8. n \in {<<"table", k>> : k \in 1 .. TablesBefore(N + 1)} <=>
         \E s \in DOMAIN sheets : \E i \in DOMAIN meta[s].tables : n = TableName(s, i)
  BY <1>1, <1>3, <1>6, <1>7
<1> QED BY <1>8 DEF N

LEMMA DrawingsNumbered ==
    ASSUME BookOK, NEW n
    PROVE  n \in {<<"drawing", k>> : k \in 1 .. DrawingsBefore(Len(sheets) + 1)} <=>
              \E s \in DOMAIN sheets : meta[s].images # << >> /\ n = DrawingName(s)
<1> DEFINE N == Len(sheets)
           drawn == {o \in 1 .. N : meta[o].images # << >>}
<1>1. N \in Nat /\ DOMAIN sheets = 1 .. N
  BY BookSheets
<1>2. 1 .. DrawingsBefore(N + 1) = {DrawingsBefore(s) + 1 : s \in drawn}
  <2> HIDE DEF N
  <2> QED BY <1>1, DrawingPlaces
<1>3. \A s : DrawingName(s) = <<"drawing", DrawingsBefore(s) + 1>>
  BY DEF DrawingName
<1>4. n \in {<<"drawing", k>> : k \in {DrawingsBefore(s) + 1 : s \in drawn}} <=>
         \E s \in drawn : n = DrawingName(s)
  BY <1>3
<1>5. n \in {<<"drawing", k>> : k \in 1 .. DrawingsBefore(N + 1)} <=>
         \E s \in drawn : n = DrawingName(s)
  <2> HIDE DEF N, drawn
  <2> QED BY <1>2, <1>4
<1> QED BY <1>1, <1>5

LEMMA NamesSay ==
    /\ \A s : /\ <<"worksheet", s>>[1] = "worksheet" /\ Rels(<<"worksheet", s>>)[1] = "rels"
              /\ DrawingName(s)[1] = "drawing" /\ Rels(DrawingName(s))[1] = "rels"
    /\ \A s, i : /\ TableName(s, i)[1] = "table" /\ MediaName(s, i)[1] = "media"
                 /\ MediaName(s, i)[3] = meta[s].images[i].format
    /\ <<"types">>[1] = "types" /\ <<"core">>[1] = "core" /\ <<"app">>[1] = "app"
    /\ <<"workbook">>[1] = "workbook" /\ Rels(<<"workbook">>)[1] = "rels"
    /\ <<"sharedStrings">>[1] = "sharedStrings" /\ <<"styles">>[1] = "styles"
<1>1. \A s : /\ <<"worksheet", s>>[1] = "worksheet" /\ Rels(<<"worksheet", s>>)[1] = "rels"
             /\ DrawingName(s)[1] = "drawing" /\ Rels(DrawingName(s))[1] = "rels"
  BY DEF Rels, DrawingName
<1>2. \A s, i : /\ TableName(s, i)[1] = "table" /\ MediaName(s, i)[1] = "media"
                /\ MediaName(s, i)[3] = meta[s].images[i].format
  BY DEF TableName, MediaName
<1>3. /\ <<"types">>[1] = "types" /\ <<"core">>[1] = "core" /\ <<"app">>[1] = "app"
      /\ <<"workbook">>[1] = "workbook" /\ Rels(<<"workbook">>)[1] = "rels"
      /\ <<"sharedStrings">>[1] = "sharedStrings" /\ <<"styles">>[1] = "styles"
  BY DEF Rels
<1> QED BY <1>1, <1>2, <1>3

\* Exactly the parts that are there have a content type.
LEMMA TypesNeeded ==
    ASSUME BookOK, parts = PackageParts
    PROVE  /\ ContentTypes.named = NeedType
           /\ \A n \in PartNames : n[1] = "media" => n[3] \in ContentTypes.extensions
<1> DEFINE Named(n) ==
              \/ n \in {<<"workbook">>, <<"core">>, <<"app">>}
              \/ \E s \in DOMAIN sheets : n = <<"worksheet", s>>
              \/ HasStrings /\ n = <<"sharedStrings">>
              \/ styles # << >> /\ n = <<"styles">>
              \/ \E s \in DOMAIN sheets : \E i \in DOMAIN meta[s].tables : n = TableName(s, i)
              \/ \E s \in DOMAIN sheets : meta[s].images # << >> /\ n = DrawingName(s)
<1>1. \A n : n \in ContentTypes.named <=> Named(n)
  <2> TAKE n
  <2> DEFINE tables == {<<"table", k>> : k \in 1 .. TablesBefore(Len(sheets) + 1)}
             drawings == {<<"drawing", k>> : k \in 1 .. DrawingsBefore(Len(sheets) + 1)}
  <2>1. ContentTypes.named = {<<"workbook">>, <<"core">>, <<"app">>}
                             \cup {<<"worksheet", s>> : s \in DOMAIN sheets}
                             \cup (IF HasStrings THEN {<<"sharedStrings">>} ELSE {})
                             \cup (IF styles # << >> THEN {<<"styles">>} ELSE {})
                             \cup tables \cup drawings
    BY DEF ContentTypes
  <2>2. n \in tables <=>
           \E s \in DOMAIN sheets : \E i \in DOMAIN meta[s].tables : n = TableName(s, i)
    BY TablesNumbered
  <2>3. n \in drawings <=>
           \E s \in DOMAIN sheets : meta[s].images # << >> /\ n = DrawingName(s)
    BY DrawingsNumbered
  <2> HIDE DEF tables, drawings
  <2> QED BY <2>1, <2>2, <2>3
<1>2. \A n : n \in PartNames <=> FixedName(n) \/ \E s \in DOMAIN sheets : SheetName(n, s)
  BY PackageNames
<1>3. ASSUME NEW n, Named(n) PROVE n \in NeedType
  <2>1. n \in PartNames BY <1>2, <1>3 DEF FixedName, SheetName
  <2>2. n[1] \notin {"types", "rels", "media"} BY <1>3, NamesSay
  <2> QED BY <2>1, <2>2 DEF NeedType
<1>4. ASSUME NEW n \in NeedType PROVE Named(n)
  <2>1. n \in PartNames /\ n[1] \notin {"types", "rels", "media"} BY DEF NeedType
  <2>2. CASE FixedName(n) BY <2>1, <2>2, NamesSay DEF FixedName
  <2>3. ASSUME NEW s \in DOMAIN sheets, SheetName(n, s) PROVE Named(n)
    BY <2>1, <2>3, NamesSay DEF SheetName
  <2> QED BY <1>2, <2>1, <2>2, <2>3
<1> HIDE DEF Named
<1>5. ContentTypes.named = NeedType
  <2>1. \A n : n \in ContentTypes.named <=> n \in NeedType BY <1>1, <1>3, <1>4
  <2>2. ContentTypes.named = {n \in ContentTypes.named : n \in NeedType} BY <2>1
  <2> QED BY <2>1
<1>6. ASSUME NEW n \in PartNames, n[1] = "media" PROVE n[3] \in ContentTypes.extensions
  <2>1. ~ FixedName(n) BY <1>6, NamesSay DEF FixedName
  <2>2. PICK s \in DOMAIN sheets : SheetName(n, s) BY <1>2, <2>1
  <2>3. PICK i \in DOMAIN meta[s].images : n = MediaName(s, i)
    BY <1>6, <2>2, NamesSay DEF SheetName
  <2>4. n[3] = meta[s].images[i].format BY <2>3, NamesSay
  <2>5. ContentTypes.extensions
           = {"rels", "xml"} \cup
             UNION {{meta[o].images[j].format : j \in DOMAIN meta[o].images} : o \in DOMAIN sheets}
    BY DEF ContentTypes
  <2> QED BY <2>4, <2>5
<1> QED BY <1>5, <1>6

\* A part of a sheet is found, under its name, with its content.
LEMMA SheetPartsFound ==
    ASSUME BookOK, parts = PackageParts, NEW s \in DOMAIN sheets
    PROVE  /\ Content(<<"worksheet", s>>) = WorksheetXml(s)
           /\ Rels(<<"worksheet", s>>) \in PartNames <=> HasRelationships(meta[s])
           /\ HasRelationships(meta[s]) =>
                 Content(Rels(<<"worksheet", s>>)) = WorksheetRelationships(s)
           /\ meta[s].images # << >> =>
                 /\ DrawingName(s) \in PartNames
                 /\ Content(DrawingName(s)) = DrawingXml(s)
                 /\ Content(Rels(DrawingName(s))) = DrawingRelationships(s)
                 /\ \A i \in DOMAIN meta[s].images :
                       /\ MediaName(s, i) \in PartNames
                       /\ Content(MediaName(s, i)) = meta[s].images[i].bytes
           /\ \A i \in DOMAIN meta[s].tables :
                 /\ TableName(s, i) \in PartNames
                 /\ Content(TableName(s, i)) = TableXml(s, i)
<1>1. \A x \in SheetSet(s) : x.name \in PartNames /\ Content(x.name) = x.content
  <2>1. \A x \in SheetSet(s) : x \in PackageSet BY DEF PackageSet
  <2> QED BY <2>1, EntryFound
<1>2. \A n, c : Entry(n, c) \in SheetSet(s) => n \in PartNames /\ Content(n) = c
  <2>1. \A n, c : Entry(n, c).name = n /\ Entry(n, c).content = c BY DEF Entry
  <2> QED BY <1>1, <2>1
<1>3. Content(<<"worksheet", s>>) = WorksheetXml(s)
  <2>1. SheetEntry(s) \in SheetSet(s) BY DEF SheetSet
  <2> QED BY <1>2, <2>1 DEF SheetEntry
<1>4. ASSUME HasRelationships(meta[s])
      PROVE  /\ Rels(<<"worksheet", s>>) \in PartNames
             /\ Content(Rels(<<"worksheet", s>>)) = WorksheetRelationships(s)
  <2>1. LinksEntry(s) \in SheetSet(s) BY <1>4 DEF SheetSet
  <2> QED BY <1>2, <2>1 DEF LinksEntry
<1>5. ASSUME Rels(<<"worksheet", s>>) \in PartNames PROVE HasRelationships(meta[s])
  <2> DEFINE n == Rels(<<"worksheet", s>>)
  <2>1. PICK x \in PackageSet : x.name = n BY <1>5, EntryFound
  <2>2. Tag(n) = "worksheet rels" /\ Number(n) = s BY SheetNames
  <2>3. ~ FixedName(n)
    <3>1. Tag(n) \notin {"types", "core", "app", "workbook", "workbook rels",
                         "sharedStrings", "styles"}
      BY <2>2
    <3> HIDE DEF n
    <3> QED BY <3>1, FixedNames DEF FixedName
  <2>4. PICK t \in DOMAIN sheets : SheetName(n, t) BY <1>5, <2>3, PackageNames
  <2>5. PICK y \in SheetSet(t) : y.name = n BY <2>4, SheetSetNames
  <2>6. EntryOf(n, t) BY <2>5, SheetEntryNames
  <2> HIDE DEF n
  <2> QED BY <2>2, <2>6 DEF EntryOf
<1>6. ASSUME meta[s].images # << >>
      PROVE  /\ DrawingName(s) \in PartNames
             /\ Content(DrawingName(s)) = DrawingXml(s)
             /\ Content(Rels(DrawingName(s))) = DrawingRelationships(s)
             /\ \A i \in DOMAIN meta[s].images :
                   /\ MediaName(s, i) \in PartNames
                   /\ Content(MediaName(s, i)) = meta[s].images[i].bytes
  <2>1. /\ DrawingEntry(s) \in SheetSet(s) /\ DrawingLinksEntry(s) \in SheetSet(s)
        /\ \A i \in DOMAIN meta[s].images : ImageEntry(s, i) \in SheetSet(s)
    BY <1>6 DEF SheetSet, DrawingSet
  <2> QED BY <1>2, <2>1 DEF DrawingEntry, DrawingLinksEntry, ImageEntry
<1>7. \A i \in DOMAIN meta[s].tables : /\ TableName(s, i) \in PartNames
                                       /\ Content(TableName(s, i)) = TableXml(s, i)
  <2>1. \A i \in DOMAIN meta[s].tables : TableEntry(s, i) \in SheetSet(s) BY DEF SheetSet
  <2> QED BY <1>2, <2>1 DEF TableEntry
<1> QED BY <1>3, <1>4, <1>5, <1>6, <1>7

LEMMA FollowAt ==
    ASSUME NEW rels, Positional(rels), NEW p \in DOMAIN rels, NEW t, NEW x,
           rels[p] = Relation(p, t, x)
    PROVE  Follow(rels, p, t) = {x}
<1>1. rels[p].type = t /\ rels[p].target = x
  BY DEF Relation
<1> QED BY <1>1, FollowPosition

\* From a drawing, the images and the hyperlinks that were added are reached.
LEMMA DrawingLinked ==
    ASSUME BookOK, parts = PackageParts, NEW s \in DOMAIN sheets, meta[s].images # << >>
    PROVE  ShowsImages(DrawingName(s), meta[s].images)
<1> DEFINE images == meta[s].images
           xml == DrawingXml(s)
           rels == DrawingRelationships(s)
           N == Len(images)
<1>1. s \in Sheets /\ RecordsOK
  BY BookSheets DEF BookOK
<1>2. Content(DrawingName(s)) = xml /\ Content(Rels(DrawingName(s))) = rels
  BY SheetPartsFound
<1>3. \A i \in DOMAIN images : /\ MediaName(s, i) \in PartNames
                               /\ Content(MediaName(s, i)) = images[i].bytes
  BY SheetPartsFound
<1>4. /\ N \in Nat /\ DOMAIN images = 1 .. N
      /\ \A i \in 1 .. N : /\ i \in DOMAIN rels
                           /\ rels[i] = Relation(i, "image", MediaName(s, i))
      /\ \A i \in 1 .. N : images[i].url # None =>
            LET k == DrawingLinkId(images, i) IN
            k \in DOMAIN rels /\ rels[k] = Relation(k, "hyperlink", images[i].url)
      /\ Positional(rels)
  BY <1>1, ImageRelationships
<1>5. /\ DOMAIN xml = DOMAIN images
      /\ \A i \in DOMAIN images :
            /\ xml[i].embed = i
            /\ xml[i].link = IF images[i].url = None THEN None ELSE DrawingLinkId(images, i)
  BY DEF DrawingXml
<1> HIDE DEF xml, rels, N
<1>6. ASSUME NEW i \in DOMAIN images
      PROVE  /\ \E media \in Follow(rels, xml[i].embed, "image") :
                   /\ media \in PartNames
                   /\ media[3] = images[i].format
                   /\ Content(media) = images[i].bytes
             /\ IF images[i].url = None THEN xml[i].link = None
                ELSE Follow(rels, xml[i].link, "hyperlink") = {images[i].url}
  <2>1. Follow(rels, i, "image") = {MediaName(s, i)} BY <1>4, FollowAt
  <2>2. MediaName(s, i)[3] = images[i].format BY NamesSay
  <2>3. \E media \in Follow(rels, xml[i].embed, "image") :
           /\ media \in PartNames
           /\ media[3] = images[i].format
           /\ Content(media) = images[i].bytes
    BY <1>3, <1>5, <2>1, <2>2
  <2>4. CASE images[i].url = None BY <1>5, <2>3, <2>4
  <2>5. CASE images[i].url # None
    <3> DEFINE k == DrawingLinkId(images, i)
    <3>1. k \in DOMAIN rels /\ rels[k] = Relation(k, "hyperlink", images[i].url)
      BY <1>4, <2>5
    <3>2. xml[i].link = k BY <1>5, <2>5
    <3> HIDE DEF k
    <3>3. Follow(rels, k, "hyperlink") = {images[i].url} BY <1>4, <3>1, FollowAt
    <3> QED BY <2>3, <2>5, <3>2, <3>3
  <2> QED BY <2>4, <2>5
<1> QED BY <1>2, <1>5, <1>6 DEF ShowsImages

\* Every id that the part of a sheet mentions leads where the caller wanted.
LEMMA SheetLinked ==
    ASSUME BookOK, parts = PackageParts, NEW s \in DOMAIN sheets
    PROVE  SheetIsLinked(s)
<1> DEFINE m == meta[s]
           xml == WorksheetXml(s)
           all == WorksheetRelationships(s)
           rels == IF Rels(<<"worksheet", s>>) \in PartNames
                   THEN Content(Rels(<<"worksheet", s>>)) ELSE << >>
           E == Len(m.externals)
           D == DrawingCount(m)
           T == Len(m.tables)
<1>1. s \in Sheets /\ RecordsOK
  BY BookSheets DEF BookOK
<1>2. /\ Content(<<"worksheet", s>>) = xml
      /\ Rels(<<"worksheet", s>>) \in PartNames <=> HasRelationships(m)
      /\ HasRelationships(m) => Content(Rels(<<"worksheet", s>>)) = all
      /\ m.images # << >> => DrawingName(s) \in PartNames
      /\ \A i \in DOMAIN m.tables : /\ TableName(s, i) \in PartNames
                                    /\ Content(TableName(s, i)) = TableXml(s, i)
  BY SheetPartsFound
<1>3. /\ E \in Nat /\ T \in Nat /\ DOMAIN m.externals = 1 .. E /\ DOMAIN m.tables = 1 .. T
      /\ DOMAIN all = 1 .. E + D + T
      /\ \A i \in 1 .. E : all[i] = Relation(i, "hyperlink", m.externals[i])
      /\ D = 1 => all[E + 1] = Relation(E + 1, "drawing", DrawingName(s))
      /\ \A i \in 1 .. T : /\ TableRelationshipId(m, i) = E + D + i
                           /\ all[E + D + i] = Relation(E + D + i, "table", TableName(s, i))
      /\ Positional(all)
  BY <1>1, SheetRelationships
<1>4. /\ rels # << >> => HasRelationships(m)
      /\ HasRelationships(m) => rels = all
  BY <1>2
<1>5. /\ m.externals # << >> => HasRelationships(m)
      /\ m.tables # << >> => HasRelationships(m)
      /\ m.images # << >> => HasRelationships(m)
  BY DEF HasRelationships
<1>6. /\ xml.names_relationships = HasRelationships(m)
      /\ xml.hyperlinks = [i \in DOMAIN m.externals |-> i]
      /\ xml.tables = [i \in DOMAIN m.tables |-> TableRelationshipId(m, i)]
      /\ xml.drawings = IF m.images = << >> THEN << >> ELSE <<DrawingRelationshipId(m)>>
  BY DEF WorksheetXml
<1>7. D = 0 \/ (D = 1 /\ m.images # << >>)
  BY DEF DrawingCount
<1>8. m.images # << >> => D = 1
  BY DEF DrawingCount
<1> HIDE DEF rels, all, xml, E, D, T
<1>ids. Positional(all)
  BY <1>3
<1>9. ASSUME NEW i \in 1 .. E PROVE Follow(rels, i, "hyperlink") = {m.externals[i]}
  <2>1. m.externals # << >> BY <1>3
  <2>2. rels = all BY <1>4, <1>5, <2>1
  <2>3. i \in DOMAIN all /\ all[i] = Relation(i, "hyperlink", m.externals[i])
    <3>1. i \in 1 .. E + D + T BY <1>3, <1>7
    <3> QED BY <1>3, <3>1
  <2>4. Follow(all, i, "hyperlink") = {m.externals[i]} BY <1>ids, <2>3, FollowAt
  <2> QED BY <2>2, <2>4
<1>10. ASSUME NEW i \in 1 .. T
       PROVE  Follow(rels, TableRelationshipId(m, i), "table") = {TableName(s, i)}
  <2>1. m.tables # << >> BY <1>3
  <2>2. rels = all BY <1>4, <1>5, <2>1
  <2> DEFINE k == E + D + i
  <2>3. k \in DOMAIN all /\ all[k] = Relation(k, "table", TableName(s, i))
    <3>1. k \in 1 .. E + D + T BY <1>3, <1>7
    <3> QED BY <1>3, <3>1
  <2>4. TableRelationshipId(m, i) = k BY <1>3
  <2> HIDE DEF k
  <2>5. Follow(all, k, "table") = {TableName(s, i)} BY <1>ids, <2>3, FollowAt
  <2> QED BY <2>2, <2>4, <2>5
<1>11. ASSUME m.images # << >>
       PROVE  Follow(rels, DrawingRelationshipId(m), "drawing") = {DrawingName(s)}
  <2>1. rels = all BY <1>4, <1>5, <1>11
  <2> DEFINE k == E + 1
  <2>2. k \in DOMAIN all /\ all[k] = Relation(k, "drawing", DrawingName(s))
    <3>1. k \in 1 .. E + D + T BY <1>3, <1>8, <1>11
    <3> QED BY <1>3, <1>8, <1>11, <3>1
  <2>3. DrawingRelationshipId(m) = k BY DEF DrawingRelationshipId, E
  <2> HIDE DEF k
  <2>4. Follow(all, k, "drawing") = {DrawingName(s)} BY <1>ids, <2>2, FollowAt
  <2> QED BY <2>1, <2>3, <2>4
<1>12. [i \in DOMAIN xml.hyperlinks |-> Follow(rels, xml.hyperlinks[i], "hyperlink")]
          = [i \in DOMAIN m.externals |-> {m.externals[i]}]
  <2>1. DOMAIN xml.hyperlinks = 1 .. E /\ \A i \in 1 .. E : xml.hyperlinks[i] = i
    BY <1>3, <1>6
  <2>2. \A i \in 1 .. E :
           Follow(rels, xml.hyperlinks[i], "hyperlink") = {m.externals[i]}
    BY <1>9, <2>1
  <2> QED BY <1>3, <2>1, <2>2
<1>13. /\ DOMAIN xml.tables = DOMAIN m.tables
       /\ \A i \in DOMAIN m.tables :
             \E table \in Follow(rels, xml.tables[i], "table") :
                table \in PartNames /\ Content(table).table = m.tables[i]
  <2>1. DOMAIN xml.tables = DOMAIN m.tables
        /\ \A i \in DOMAIN m.tables : xml.tables[i] = TableRelationshipId(m, i)
    BY <1>6
  <2>2. \A i : TableXml(s, i).table = m.tables[i] BY DEF TableXml
  <2> QED BY <1>2, <1>3, <1>10, <2>1, <2>2
<1>14. /\ xml.drawings = << >> <=> m.images = << >>
       /\ \A i \in DOMAIN xml.drawings :
             \E drawing \in Follow(rels, xml.drawings[i], "drawing") :
                drawing \in PartNames /\ ShowsImages(drawing, m.images)
  <2>1. CASE m.images = << >>
    <3>1. xml.drawings = << >> BY <1>6, <2>1
    <3> QED BY <2>1, <3>1
  <2>2. CASE m.images # << >>
    <3>1. xml.drawings = <<DrawingRelationshipId(m)>> BY <1>6, <2>2
    <3>2. ShowsImages(DrawingName(s), m.images) BY <2>2, DrawingLinked
    <3>3. /\ xml.drawings # << >>
          /\ \A i \in DOMAIN xml.drawings : xml.drawings[i] = DrawingRelationshipId(m)
      BY <3>1
    <3> QED BY <1>2, <1>11, <2>2, <3>2, <3>3
  <2> QED BY <2>1, <2>2
<1>15. rels # << >> => xml.names_relationships
  BY <1>4, <1>6
<1> QED BY <1>2, <1>12, <1>13, <1>14, <1>15 DEF SheetIsLinked, rels

(* However tables, images and hyperlinks are spread over the sheets and    *)
(* mixed within one: close() is never refused for a relationship id used   *)
(* twice, no two parts have one name, exactly the parts that are there     *)
(* have a content type, and every id a part mentions leads to what the     *)
(* caller added there.                                                     *)
THEOREM PartsLinked == SpecWithParts => []PartsAreLinked
<1>1. BookOK => AllRelationshipsAccepted
  <2> SUFFICES ASSUME BookOK, NEW s \in DOMAIN sheets
               PROVE  /\ RelationshipsAccepted(WorksheetRelationships(s))
                      /\ RelationshipsAccepted(DrawingRelationships(s))
    BY DEF AllRelationshipsAccepted
  <2>1. s \in Sheets /\ RecordsOK BY BookSheets DEF BookOK
  <2>2. Positional(WorksheetRelationships(s)) BY <2>1, SheetRelationships
  <2>3. Positional(DrawingRelationships(s)) BY <2>1, ImageRelationships
  <2> QED BY <2>2, <2>3, PositionalAccepted
<1>2. ASSUME BookOK, parts = PackageParts
      PROVE  /\ IsInjective([k \in DOMAIN parts |-> parts[k].name])
             /\ Content(<<"types">>).named = NeedType
             /\ \A n \in PartNames : n[1] = "media" => n[3] \in Content(<<"types">>).extensions
             /\ RelationshipsAccepted(WorkbookRelationships)
             /\ \A s \in DOMAIN sheets :
                   /\ Follow(Content(Rels(<<"workbook">>)), Content(<<"workbook">>)[s], "worksheet")
                         = {<<"worksheet", s>>}
                   /\ SheetIsLinked(s)
  <2>1. /\ \A x \in FixedSet : Content(x.name) = x.content
        /\ IsInjective([k \in DOMAIN parts |-> parts[k].name])
    BY <1>2, EntryFound DEF PackageSet
  <2>2. \A n, c : Entry(n, c).name = n /\ Entry(n, c).content = c BY DEF Entry
  <2>3. /\ Content(<<"types">>) = ContentTypes
        /\ Content(<<"workbook">>) = [s \in DOMAIN sheets |-> s]
        /\ Content(Rels(<<"workbook">>)) = WorkbookRelationships
    BY <2>1, <2>2 DEF FixedSet
  <2>4. /\ \A s \in DOMAIN sheets :
              /\ s \in DOMAIN WorkbookRelationships
              /\ WorkbookRelationships[s] = Relation(s, "worksheet", <<"worksheet", s>>)
        /\ Positional(WorkbookRelationships)
    BY <1>2, BookRelationships DEF BookOK
  <2>5. \A s \in DOMAIN sheets :
           Follow(WorkbookRelationships, s, "worksheet") = {<<"worksheet", s>>}
    <3> TAKE s \in DOMAIN sheets
    <3> DEFINE rels == WorkbookRelationships
    <3>1. /\ s \in DOMAIN rels /\ rels[s] = Relation(s, "worksheet", <<"worksheet", s>>)
          /\ Positional(rels)
      BY <2>4
    <3> HIDE DEF rels
    <3>2. Follow(rels, s, "worksheet") = {<<"worksheet", s>>} BY <3>1, FollowAt
    <3> QED BY <3>2 DEF rels
  <2> QED BY <1>2, <2>1, <2>3, <2>4, <2>5, PositionalAccepted, SheetLinked, TypesNeeded
<1>3. InitWithParts => RulesInv /\ ClosedInv
  BY RulesInit DEF InitWithParts, Init, ClosedInv
<1>4. RulesInv /\ TypeOK => BookOK
  BY DEF RulesInv, TypeOK, BookOK
<1>5. RulesInv /\ TypeOK /\ ClosedInv => PartsAreLinked
  BY <1>1, <1>2, <1>4 DEF ClosedInv, PartsAreLinked
<1>6. RowsInv => TypeOK
  BY DEF RowsInv
<1> QED BY <1>3, <1>5, <1>6, RulesStep, ClosedStep, PartsLeaveRows, RowsInvariant,
           PTL DEF SpecWithParts

=============================================================================

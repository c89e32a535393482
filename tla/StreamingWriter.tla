-------------------------- MODULE StreamingWriter --------------------------
(***************************************************************************)
(* WorkbookWriter and WorksheetWriter (src/src/streaming_writer.cpp):      *)
(* rows are formatted as they are appended and go through a buffered       *)
(* stream into one temporary file per sheet; close() puts prefix, file and *)
(* suffix of every sheet into the package, with the sharedStrings table    *)
(* kept in memory until then.  Streams and the package may fail to be      *)
(* written; a failed append or close throws, and the caller may go on.     *)
(*                                                                         *)
(* append_row and append_sparse_row are one operation here: a row is the   *)
(* sequence of its cells, each with its column.  Calls that are rejected   *)
(* by a validation change nothing and are not modelled.                    *)
(***************************************************************************)
EXTENDS Naturals, Sequences, FiniteSets

CONSTANTS Names, CaseKey,  \* sheet names, and what of them ignores case
          Texts,           \* string payloads
          Formula, Other,  \* a formula cell; a number, boolean or blank cell
          Rows,            \* rows a caller appends
          SharedStrings,   \* options.string_strategy is SharedString
          Faults,          \* what cannot be written: "body", a buffer of rows; "flush",
                           \* the last one, at the closing of a body; "package"
          MaxRows,         \* Excel's row limit
          MaxSheets,       \* bound: sheets of the workbook
          Nothing,         \* no row in the making, no package
          Torn             \* the beginning of a row

Columns == Nat \ {0}
Cells == Texts \cup {Formula, Other}
Sheets == 1 .. MaxSheets

\* Formatted cells, where a number is an index, and formatted rows.
Written == Columns \X (Nat \cup Cells)
XmlRows == [r : Nat, cells : Seq(Written)]

ASSUME NamesAssumption == \A n \in Names : CaseKey[n] \in Names
ASSUME CellsAssumption == \A c \in Cells : c \notin Nat
ASSUME RowsAssumption == Rows \subseteq Seq(Columns \X Cells)
\* A row's columns are numbered by append_row, and checked to increase by
\* append_sparse_row.
ASSUME ColumnsAssumption ==
    \A cells \in Rows : \A i, j \in DOMAIN cells : i < j => cells[i][1] < cells[j][1]
ASSUME StrategyAssumption == SharedStrings \in BOOLEAN
ASSUME NothingAssumption ==
    /\ Nothing \notin [sheet : Sheets, cells : Rows, done : Seq(Written)]
    /\ Torn \notin XmlRows
ASSUME WriterBounds == MaxRows \in Nat /\ MaxSheets \in Nat

VARIABLES sheets,       \* names of the worksheets in the order of creation
          row_count,    \* of each sheet
          max_column,   \* of each sheet
          has_formula,  \* of each sheet
          body,         \* rows of each sheet that are in its temporary file
          pending,      \* rows of each sheet that are in its stream's buffer
          stream,       \* state of each body's stream: "good"; "bad" after a failed
                        \* write; "closed" with all it was given in the file, or "lost"
          values,       \* shared_strings.values
          count,        \* shared_strings.count
          row,          \* the row being formatted: its sheet, cells to come, cells done
          closed,       \* close() has succeeded
          package,      \* what the last successful close wrote
          handed,       \* rows of each sheet in the order they were counted (history)
          appended      \* numbers of the rows of each sheet whose append returned (history)

counters == <<row_count, max_column, has_formula>>
streams == <<body, pending, stream>>
strings == <<values, count>>
histories == <<handed, appended>>
vars == <<sheets, counters, streams, strings, row, closed, package, histories>>

Init == /\ sheets = <<>>
        /\ row_count = [s \in Sheets |-> 0]
        /\ max_column = [s \in Sheets |-> 0]
        /\ has_formula = [s \in Sheets |-> FALSE]
        /\ body = [s \in Sheets |-> <<>>]
        /\ pending = [s \in Sheets |-> <<>>]
        /\ stream = [s \in Sheets |-> "good"]
        /\ values = <<>>
        /\ count = 0
        /\ row = Nothing
        /\ closed = FALSE
        /\ package = Nothing
        /\ handed = [s \in Sheets |-> <<>>]
        /\ appended = [s \in Sheets |-> <<>>]

\* The caller is between two calls and close() has not succeeded.
Mutable == ~ closed /\ row = Nothing

\* WorkbookWriter::add_worksheet.
AddWorksheet(name) ==
    /\ Mutable
    /\ Len(sheets) < MaxSheets
    /\ \A i \in DOMAIN sheets : CaseKey[sheets[i]] # CaseKey[name]
    /\ sheets' = Append(sheets, name)
    /\ UNCHANGED <<counters, streams, strings, row, closed, package, histories>>

-----------------------------------------------------------------------------
(* append_row and append_sparse_row.                                       *)

\* Mutant of MaxColumn: the last row decides.
LastColumn(max, cells) == IF cells = <<>> THEN max ELSE cells[Len(cells)][1]

\* The columns of a row increase.
MaxColumn(max, cells) ==
    IF cells # <<>> /\ cells[Len(cells)][1] > max THEN cells[Len(cells)][1] ELSE max

\* The counters are advanced before the row is formatted.
StartRow(s, cells) ==
    /\ Mutable
    /\ s \in DOMAIN sheets
    /\ row_count[s] < MaxRows
    /\ row_count' = [row_count EXCEPT ![s] = @ + 1]
    /\ max_column' = [max_column EXCEPT ![s] = MaxColumn(@, cells)]
    /\ has_formula' = [has_formula EXCEPT ![s] =
                          @ \/ \E i \in DOMAIN cells : cells[i][2] = Formula]
    /\ row' = [sheet |-> s, cells |-> cells, done |-> <<>>]
    /\ handed' = [handed EXCEPT ![s] = Append(@, cells)]
    /\ UNCHANGED <<sheets, streams, strings, closed, package, appended>>

\* Mutant of SharedStringIndex: the index is the size before the text is added.
SizeBefore(text) == IF \E i \in DOMAIN values : values[i] = text
                    THEN CHOOSE i \in DOMAIN values : values[i] = text
                    ELSE Len(values)

\* shared_string_index: the position of the text in the table, where it is
\* appended if it is new.
SharedStringIndex(text) ==
    IF \E i \in DOMAIN values : values[i] = text
    THEN CHOOSE i \in DOMAIN values : values[i] = text
    ELSE Len(values) + 1

\* Mutant of Counted: only new texts are counted.
NewCounted(index) == IF index > Len(values) THEN count + 1 ELSE count

\* Every string cell counts, whether its text is new or not.
Counted(index) == count + 1

\* write_cell.  A text is written as its index in the table, or inline.
WriteCell ==
    /\ row # Nothing
    /\ Len(row.done) < Len(row.cells)
    /\ LET cell == row.cells[Len(row.done) + 1] IN
       IF SharedStrings /\ cell[2] \in Texts
       THEN LET index == SharedStringIndex(cell[2]) IN
            /\ count' = Counted(index)
            /\ values' = IF index > Len(values) THEN Append(values, cell[2]) ELSE values
            /\ row' = [sheet |-> row.sheet, cells |-> row.cells,
                       done |-> Append(row.done, <<cell[1], index>>)]
       ELSE /\ row' = [sheet |-> row.sheet, cells |-> row.cells,
                       done |-> Append(row.done, cell)]
            /\ UNCHANGED strings
    /\ UNCHANGED <<sheets, counters, streams, closed, package, histories>>

RowDone == row # Nothing /\ Len(row.done) = Len(row.cells)
RowXml == [r |-> row_count[row.sheet], cells |-> row.done]

\* body.write: the row goes to the buffer, and the buffer to the file when the
\* stream finds it full.
EndRow ==
    /\ RowDone
    /\ stream[row.sheet] = "good"
    /\ LET s == row.sheet
           buffer == Append(pending[s], RowXml) IN
       /\ \/ pending' = [pending EXCEPT ![s] = buffer] /\ UNCHANGED body
          \/ /\ body' = [body EXCEPT ![s] = @ \o buffer]
             /\ pending' = [pending EXCEPT ![s] = <<>>]
       /\ appended' = [appended EXCEPT ![s] = Append(@, row_count[s])]
    /\ row' = Nothing
    /\ UNCHANGED <<sheets, counters, stream, strings, closed, package, handed>>

\* What a stream that fails may have written of a buffer.
Pieces(buffer) ==
    {SubSeq(buffer, 1, n) : n \in 0 .. Len(buffer) - 1} \cup
    {Append(SubSeq(buffer, 1, n), Torn) : n \in 0 .. Len(buffer) - 1}

\* The buffer cannot be written out: a piece of it may be, and what the library
\* still holds of it will be tried again at the closing.  The stream stays bad
\* and append_row throws.
EndRowFails ==
    /\ RowDone
    /\ stream[row.sheet] = "good"
    /\ "body" \in Faults
    /\ LET s == row.sheet
           buffer == Append(pending[s], RowXml) IN
       /\ \E piece \in Pieces(buffer) : body' = [body EXCEPT ![s] = @ \o piece]
       /\ \E held \in {<<>>, pending[s], buffer} : pending' = [pending EXCEPT ![s] = held]
    /\ stream' = [stream EXCEPT ![row.sheet] = "bad"]
    /\ row' = Nothing
    /\ UNCHANGED <<sheets, counters, strings, closed, package, histories>>

\* A stream that is bad, or was closed by a close() that failed, takes nothing
\* and append_row throws.
EndRowRefused ==
    /\ RowDone
    /\ stream[row.sheet] # "good"
    /\ row' = Nothing
    /\ UNCHANGED <<sheets, counters, streams, strings, closed, package, histories>>

-----------------------------------------------------------------------------
(* WorkbookWriter::close.                                                  *)

\* Mutant of CloseBodies: the files are read while the streams are open.
BodiesLeftOpen == UNCHANGED streams

\* build_worksheet_entry closes every open body; nobody asks whether what was
\* left in the buffer could be written.
CloseBodies ==
    \E flushed \in [Sheets -> UNION {{pending[s]} \cup Pieces(pending[s]) : s \in Sheets}] :
       /\ \A s \in Sheets :
             \/ flushed[s] = pending[s]
             \/ "flush" \in Faults /\ flushed[s] \in Pieces(pending[s])
       /\ body' = [s \in Sheets |-> body[s] \o flushed[s]]
       /\ pending' = [s \in Sheets |-> <<>>]
       /\ stream' = [s \in Sheets |->
                         IF s \notin DOMAIN sheets THEN stream[s]
                         ELSE IF stream[s] \in {"good", "closed"} /\ flushed[s] = pending[s]
                              THEN "closed" ELSE "lost"]

\* worksheet_dimension, as the last cell it takes in: rows that are all empty are
\* not counted, but empty rows below a cell are.
Dimension(rows, columns) == IF rows = 0 \/ columns = 0 THEN <<1, 1>> ELSE <<rows, columns>>

\* The parts of the package: names, dimensions and rows of the sheets, the
\* sharedStrings part, and whether Excel is to calculate on loading.
Package(rows) ==
    [names |-> sheets,
     dimensions |-> [s \in Sheets |-> Dimension(row_count[s], max_column[s])],
     rows |-> rows,
     count |-> count,
     values |-> values,
     full_calc_on_load |-> \E s \in DOMAIN sheets : has_formula[s]]

Close ==
    /\ Mutable
    /\ sheets # <<>>
    /\ CloseBodies
    /\ package' = Package(body')
    /\ closed' = TRUE
    /\ UNCHANGED <<sheets, counters, strings, row, histories>>

\* write_package throws after the bodies were closed; close() may be tried again.
CloseFails ==
    /\ Mutable
    /\ sheets # <<>>
    /\ "package" \in Faults
    /\ CloseBodies
    /\ UNCHANGED <<sheets, counters, strings, row, closed, package, histories>>

-----------------------------------------------------------------------------
Next == \/ \E name \in Names : AddWorksheet(name)
        \/ \E s \in Sheets, cells \in Rows : StartRow(s, cells)
        \/ WriteCell \/ EndRow \/ EndRowFails \/ EndRowRefused
        \/ Close \/ CloseFails

Spec == Init /\ [][Next]_vars

-----------------------------------------------------------------------------
(* Properties.                                                             *)

TypeOK == /\ sheets \in Seq(Names)
          /\ Len(sheets) <= MaxSheets
          /\ row_count \in [Sheets -> 0 .. MaxRows]
          /\ max_column \in [Sheets -> Nat]
          /\ has_formula \in [Sheets -> BOOLEAN]
          /\ body \in [Sheets -> Seq(XmlRows \cup {Torn})]
          /\ pending \in [Sheets -> Seq(XmlRows)]
          /\ stream \in [Sheets -> {"good", "bad", "closed", "lost"}]
          /\ values \in Seq(Texts)
          /\ count \in Nat
          /\ row \in [sheet : Sheets, cells : Rows, done : Seq(Written)] \cup {Nothing}
          /\ closed \in BOOLEAN
          /\ handed \in [Sheets -> Seq(Rows)]
          /\ appended \in [Sheets -> Seq(Nat)]

\* What a reader of the package makes of a cell: an index stands for the item
\* at that position of the sharedStrings part.
Read(table, cell) ==
    IF cell[2] \in Cells THEN cell
    ELSE <<cell[1], IF cell[2] \in DOMAIN table THEN table[cell[2]] ELSE Nothing>>
ReadRow(table, xml) == [i \in DOMAIN xml.cells |-> Read(table, xml.cells[i])]

\* However the writing of bodies fails, and whatever stays in a buffer or is
\* written a second time: a whole row of the package reads as the row that was
\* appended under its number.
RowsReadAsHanded ==
    closed => \A s \in DOMAIN sheets : \A k \in DOMAIN package.rows[s] :
        LET xml == package.rows[s][k] IN
        xml # Torn => /\ xml.r \in DOMAIN handed[s]
                      /\ ReadRow(package.values, xml) = handed[s][xml.r]

\* Every cell of the package lies within the dimension written before the rows,
\* and a formula anywhere makes Excel calculate on loading.  A row without cells
\* may lie outside: where no row of a sheet has one, the dimension is A1.
DimensionCoversRows ==
    closed => \A s \in DOMAIN sheets : \A k \in DOMAIN package.rows[s] :
        LET xml == package.rows[s][k] IN
        xml # Torn => \A i \in DOMAIN xml.cells :
                         /\ xml.r <= package.dimensions[s][1]
                         /\ xml.cells[i][1] <= package.dimensions[s][2]
                         /\ xml.cells[i][2] = Formula => package.full_calc_on_load

\* A sheet whose stream never failed to write holds in the package the rows
\* whose append returned, numbered from 1, and nothing else; also when other
\* streams failed, or a close() did and rows were appended to no avail after it.
ClosedHoldsAppendedRows ==
    closed => \A s \in DOMAIN sheets :
        stream[s] \in {"good", "closed"} =>
            /\ DOMAIN package.rows[s] = DOMAIN appended[s]
            /\ \A k \in DOMAIN appended[s] :
                  /\ package.rows[s][k] # Torn
                  /\ package.rows[s][k].r = k
                  /\ ReadRow(package.values, package.rows[s][k]) = handed[s][appended[s][k]]

\* The cells of a row that hold an index, and those of the package.
Indexed(xml) == {i \in DOMAIN xml.cells : xml.cells[i][2] \notin Cells}
StringCells ==
    UNION {UNION {{<<s, k, i>> : i \in Indexed(package.rows[s][k])} :
                  k \in DOMAIN package.rows[s]} : s \in Sheets}

\* The items of the sharedStrings part are distinct, and count, which a reader
\* may reserve space by, is not less than the cells that use them unless a
\* failing stream wrote some of them twice.
StringTableSound ==
    closed => /\ \A i, j \in DOMAIN package.values :
                    package.values[i] = package.values[j] => i = j
              /\ (\A s \in DOMAIN sheets : stream[s] \in {"good", "closed"})
                    => Cardinality(StringCells) <= package.count
=============================================================================

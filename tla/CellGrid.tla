------------------------------ MODULE CellGrid ------------------------------
(***************************************************************************)
(* WorksheetEditor (src/workbook_editor_worksheet_facade.cpp): the public  *)
(* calls on the cells of the worksheets of one WorkbookEditor, each with   *)
(* the checks it makes before the session sees it.  A sheet has cells once *)
(* it is opened, which loads them from the source package.  A call that    *)
(* throws changes no cell: it is a stuttering step.                        *)
(*                                                                         *)
(* saved holds what was planned and written in place of source parts:      *)
(* worksheets, the shared strings if they had to be appended to, and of    *)
(* each sheet that was written the table its texts refer to.  done         *)
(* describes the last call, for the properties alone, and edits is how     *)
(* many calls may still change a sheet.                                    *)
(***************************************************************************)
EXTENDS SheetReading, SheetSaving

CONSTANTS Sheets,
          Packages,     \* a sequence of [sheets, strings, edits]: worksheets,
                        \* shared strings, and a bound on the number of calls
                        \* that change a sheet
          Values,       \* cell values, without a style, as callers pass them
          Rows,         \* sequences of them for rows and columns
          Batches,      \* sequences of [at, value]
          Ranges        \* [first, last]

VARIABLES package, sessions, saved, done, edits

vars == <<package, sessions, saved, done, edits>>

Positions == (1..MaxRow) \X (1..MaxColumn)

IsSequence(s) == Len(s) \in Nat /\ s = [i \in 1..Len(s) |-> s[i]]

\* Of a record, only its shape matters and that its text and formula have a length.
IsRecord(r) ==
    /\ r = Record(r.kind, r.text, r.formula, r.style)
    /\ IsSequence(r.text) /\ IsSequence(r.formula)

\* A part is a sequence of pieces; the reference of a cell beyond the last row
\* or column is one that cannot be read.
IsPart(pieces) ==
    /\ IsSequence(pieces)
    /\ \A i \in DOMAIN pieces :
           /\ IsSequence(pieces[i].text)
           /\ pieces[i].name = "c" /\ Readable(pieces[i].ref) =>
                  Spot(pieces[i].ref) \in Positions

ASSUME GridAssumption ==
    /\ MaxRow \in Nat \ {0} /\ MaxColumn \in Nat \ {0}
    /\ MaxCells \in Nat /\ Budget \in Nat

ASSUME ArgumentsAssumption ==
    /\ \A value \in Values : IsRecord(value) /\ value.style = NoStyle
    /\ \A values \in Rows :
           IsSequence(values) /\ \A i \in DOMAIN values : IsRecord(values[i])
    /\ \A updates \in Batches :
           /\ IsSequence(updates)
           /\ \A i \in DOMAIN updates :
                  updates[i].at \in Positions /\ IsRecord(updates[i].value)
    /\ Ranges \subseteq [first : Positions, last : Positions]

ASSUME PackagesAssumption ==
    /\ Indexes \in [DOMAIN Indexes -> Nat]
    /\ \A p \in DOMAIN Packages :
           /\ Packages[p].edits \in Nat
           /\ IsPart(Packages[p].strings)
           /\ \A s \in Sheets : IsPart(Packages[p].sheets[s])

Lines(rows) == IF rows THEN 1..MaxRow ELSE 1..MaxColumn

\* A description of the call, with the sheets it reads and writes.
Call(what, from, to, argument) ==
    [what |-> what, from |-> from, to |-> to, argument |-> argument]

Source == Packages[package]

\* The parts of the package as it is planned: the source's but for replacements.
CurrentSheet(s) == IF s \in DOMAIN saved.sheets THEN saved.sheets[s] ELSE Source.sheets[s]
CurrentStrings == IF saved.strings # << >> THEN saved.strings ELSE Source.strings

Init ==
    /\ package \in DOMAIN Packages
    /\ sessions = << >>
    /\ saved = [sheets |-> << >>, strings |-> << >>, tables |-> << >>]
    /\ done = Call("open package", Here, Here, 0)
    /\ edits = Source.edits

Opened == DOMAIN sessions

\* worksheet(): a sheet that is open already is not read again, and one that
\* cannot be loaded stays closed.
Worksheet(s, strict) ==
    LET session == Loaded(Source.sheets[s], Source.strings, strict)
    IN  /\ s \notin Opened
        /\ session # Refused
        /\ sessions' = Only(s, session) ++ sessions
        /\ done' = Call("open", s, s, strict)
        /\ UNCHANGED <<package, saved, edits>>

\* The call returns; one that throws leaves everything as it is.
Returns(s, session, call) ==
    /\ edits > 0
    /\ session # Refused
    /\ sessions' = [sessions EXCEPT ![s] = session]
    /\ done' = call
    /\ edits' = edits - 1
    /\ UNCHANGED <<package, saved>>

ReturnsBoth(s, t, both, call) ==
    /\ edits > 0
    /\ both # Refused
    /\ sessions' = [sessions EXCEPT ![s] = both.source, ![t] = both.session]
    /\ done' = call
    /\ edits' = edits - 1
    /\ UNCHANGED <<package, saved>>

Edits(s, session) == Returns(s, session, Call("edit", s, s, 0))

(***************************************************************************)
(* Writing cells                                                           *)
(***************************************************************************)
RowUpdates(row, values) ==
    [i \in DOMAIN values |-> [at |-> <<row, i>>, value |-> values[i]]]
ColumnUpdates(column, values) ==
    [i \in DOMAIN values |-> [at |-> <<i, column>>, value |-> values[i]]]

InRow(s, row) == {p \in DOMAIN sessions[s].cells : p[1] = row}
InColumn(s, column) == {p \in DOMAIN sessions[s].cells : p[2] = column}

SetCell(s) == \E p \in Positions, value \in Values :
    Edits(s, CellSet(sessions[s], p, value))

SetCells(s) == \E updates \in Batches :
    Edits(s, CellsSet(sessions[s], updates, FALSE))

\* The row after the last represented one.
AppendRow(s) == \E values \in Rows :
    LET last == Max({0} \union {p[1] : p \in DOMAIN sessions[s].cells})
    IN  /\ values # << >> => last < MaxRow
        /\ Len(values) <= MaxColumn
        /\ Edits(s, CellsSet(sessions[s], RowUpdates(last + 1, values), FALSE))

SetRow(s) == \E row \in 1..MaxRow, values \in Rows :
    /\ Len(values) <= MaxColumn
    /\ Edits(s, CellsEdited(sessions[s], InRow(s, row), RowUpdates(row, values), FALSE))

SetColumn(s) == \E column \in 1..MaxColumn, values \in Rows :
    /\ Len(values) <= MaxRow
    /\ Edits(s, CellsEdited(sessions[s], InColumn(s, column),
                            ColumnUpdates(column, values), FALSE))

\* The value forms keep the style of the cell they write.
SetCellValue(s) == \E p \in Positions, value \in Values :
    Edits(s, CellSet(sessions[s], p, Styled(value, StyleAt(sessions[s].cells, p))))

SetCellValues(s) == \E updates \in Batches :
    Edits(s, CellsSet(sessions[s], updates, TRUE))

SetRowValues(s) == \E row \in 1..MaxRow, values \in Rows :
    /\ Len(values) <= MaxColumn
    /\ Edits(s, CellsSet(sessions[s], RowUpdates(row, values), TRUE))

SetColumnValues(s) == \E column \in 1..MaxColumn, values \in Rows :
    /\ Len(values) <= MaxRow
    /\ Edits(s, CellsSet(sessions[s], ColumnUpdates(column, values), TRUE))

(***************************************************************************)
(* Clearing and erasing                                                    *)
(***************************************************************************)
RowRange(first, last) == [first |-> <<first, 1>>, last |-> <<last, MaxColumn>>]
ColumnRange(first, last) == [first |-> <<1, first>>, last |-> <<MaxRow, last>>]

EraseRows(s) == \E first, last \in 1..MaxRow :
    /\ first <= last
    /\ Edits(s, CellsErased(sessions[s], Within(sessions[s].cells, RowRange(first, last))))

EraseColumns(s) == \E first, last \in 1..MaxColumn :
    /\ first <= last
    /\ Edits(s, CellsErased(sessions[s], Within(sessions[s].cells, ColumnRange(first, last))))

EraseCell(s) == \E p \in Positions : Edits(s, CellErased(sessions[s], p))

\* The range form, the list form and the form for the whole sheet.
EraseCells(s) ==
    \/ \E range \in Ranges :
           Edits(s, CellsErased(sessions[s], Within(sessions[s].cells, range)))
    \/ \E updates \in Batches :
           Edits(s, CellsErased(sessions[s],
                                {updates[i].at : i \in DOMAIN updates} \cap DOMAIN sessions[s].cells))
    \/ Edits(s, CellsErased(sessions[s], DOMAIN sessions[s].cells))

ClearRows(s) == \E first, last \in 1..MaxRow :
    /\ first <= last
    /\ Edits(s, ValuesCleared(sessions[s], Within(sessions[s].cells, RowRange(first, last))))

ClearColumns(s) == \E first, last \in 1..MaxColumn :
    /\ first <= last
    /\ Edits(s, ValuesCleared(sessions[s], Within(sessions[s].cells, ColumnRange(first, last))))

ClearCellValue(s) == \E p \in Positions : Edits(s, ValuesCleared(sessions[s], {p}))

ClearCellValues(s) ==
    \/ \E range \in Ranges :
           Edits(s, ValuesCleared(sessions[s], Within(sessions[s].cells, range)))
    \/ \E updates \in Batches :
           Edits(s, ValuesCleared(sessions[s], {updates[i].at : i \in DOMAIN updates}))
    \/ Edits(s, ValuesCleared(sessions[s], DOMAIN sessions[s].cells))

ClearCellStyle(s) == \E p \in Positions : Edits(s, CellStyleCleared(sessions[s], p))

ClearCellStyles(s) == \E range \in Ranges : Edits(s, StylesCleared(sessions[s], range))

(***************************************************************************)
(* Inserting and deleting rows and columns                                 *)
(***************************************************************************)
Restructures(s, session, rows, insert, first, count) ==
    /\ ValidSpan(first, count, IF rows THEN MaxRow ELSE MaxColumn)
    /\ Returns(s, session, Call("shift", s, s,
           [rows |-> rows, insert |-> insert, first |-> first, count |-> count]))

InsertRows(s) == \E first, count \in Lines(TRUE) :
    Restructures(s, RowsInserted(sessions[s], first, count), TRUE, TRUE, first, count)

DeleteRows(s) == \E first, count \in Lines(TRUE) :
    Restructures(s, RowsDeleted(sessions[s], first, count), TRUE, FALSE, first, count)

InsertColumns(s) == \E first, count \in Lines(FALSE) :
    Restructures(s, ColumnsInserted(sessions[s], first, count), FALSE, TRUE, first, count)

DeleteColumns(s) == \E first, count \in Lines(FALSE) :
    Restructures(s, ColumnsDeleted(sessions[s], first, count), FALSE, FALSE, first, count)

(***************************************************************************)
(* Copying and moving cells, values and styles, on one sheet (from = to)   *)
(* and between two                                                         *)
(***************************************************************************)
Moves == {move \in [range : Ranges, to : Positions] : ValidMove(move)}

CopyCells(s) == \E move \in Moves :
    Returns(s, CellsCopied(sessions[s], sessions[s], move, TRUE), Call("copy", s, s, move))

CopyCellsFrom(s, t) == \E move \in Moves :
    Returns(t, CellsCopied(sessions[s], sessions[t], move, FALSE), Call("copy", s, t, move))

CopyCellValues(s) == \E move \in Moves :
    Returns(s, ValuesCopied(sessions[s], sessions[s], move, TRUE),
            Call("copy values", s, s, move))

CopyCellValuesFrom(s, t) == \E move \in Moves :
    Returns(t, ValuesCopied(sessions[s], sessions[t], move, FALSE),
            Call("copy values", s, t, move))

CopyCellStyle(s) == \E from, to \in Positions :
    Returns(s, CellStyleCopied(sessions[s], from, to),
            Call("copy styles", s, s, [range |-> [first |-> from, last |-> from], to |-> to]))

CopyCellStyles(s) == \E move \in Moves :
    Returns(s, StylesCopied(sessions[s], sessions[s], move, TRUE),
            Call("copy styles", s, s, move))

CopyCellStylesFrom(s, t) == \E move \in Moves :
    Returns(t, StylesCopied(sessions[s], sessions[t], move, FALSE),
            Call("copy styles", s, t, move))

MoveCells(s) == \E move \in Moves :
    Returns(s, CellsMoved(sessions[s], move), Call("move", s, s, move))

MoveCellsFrom(s, t) == \E move \in Moves :
    ReturnsBoth(s, t, CellsMovedBetween(sessions[s], sessions[t], move),
                Call("move", s, t, move))

MoveCellValues(s) == \E move \in Moves :
    Returns(s, ValuesMoved(sessions[s], move), Call("move values", s, s, move))

MoveCellValuesFrom(s, t) == \E move \in Moves :
    ReturnsBoth(s, t, ValuesMovedBetween(sessions[s], sessions[t], move),
                Call("move values", s, t, move))

MoveCellStyle(s) == \E from, to \in Positions :
    Returns(s, CellStyleMoved(sessions[s], from, to),
            Call("move styles", s, s, [range |-> [first |-> from, last |-> from], to |-> to]))

MoveCellStyles(s) == \E move \in Moves :
    Returns(s, StylesMoved(sessions[s], move), Call("move styles", s, s, move))

MoveCellStylesFrom(s, t) == \E move \in Moves :
    ReturnsBoth(s, t, StylesMovedBetween(sessions[s], sessions[t], move),
                Call("move styles", s, t, move))

(***************************************************************************)
(* save_as puts the cells of the dirty sheets into the planned worksheets  *)
(* and clears the flags; the sessions stay as they are.  What the shared   *)
(* strings lack is always worked out from those of the source.             *)
(***************************************************************************)
Dirty == {s \in Opened : sessions[s].dirty}
DirtyStores == [s \in Dirty |-> sessions[s].cells]

Flushed == [s \in Opened |-> Session(sessions[s].cells, FALSE)]

Planned(table) ==
    [s \in Dirty |-> Rewritten(CurrentSheet(s), sessions[s].cells, table)]

Save ==
    LET strings == Projection(Source.strings, DirtyStores)
        planned == Planned(strings.table)
    IN  /\ Dirty # {}
        /\ \A s \in Dirty : planned[s] # Refused
        /\ saved' = [sheets |-> planned @@ saved.sheets,
                     strings |-> IF strings.part = << >> THEN saved.strings ELSE strings.part,
                     tables |-> [s \in Dirty |-> strings.table] @@ saved.tables]
        /\ sessions' = Flushed
        /\ done' = Call("save", Here, Here, 0)
        /\ UNCHANGED <<package, edits>>

Write(s) ==
    \/ SetCell(s) \/ SetCells(s) \/ AppendRow(s) \/ SetRow(s) \/ SetColumn(s)
    \/ SetCellValue(s) \/ SetCellValues(s) \/ SetRowValues(s) \/ SetColumnValues(s)

Clear(s) ==
    \/ EraseRows(s) \/ EraseColumns(s) \/ EraseCell(s) \/ EraseCells(s)
    \/ ClearRows(s) \/ ClearColumns(s) \/ ClearCellValue(s) \/ ClearCellValues(s)
    \/ ClearCellStyle(s) \/ ClearCellStyles(s)

Restructure(s) == InsertRows(s) \/ DeleteRows(s) \/ InsertColumns(s) \/ DeleteColumns(s)

Transfer(s) ==
    \/ CopyCells(s) \/ CopyCellValues(s) \/ CopyCellStyle(s) \/ CopyCellStyles(s)
    \/ MoveCells(s) \/ MoveCellValues(s) \/ MoveCellStyle(s) \/ MoveCellStyles(s)

TransferFrom(s, t) ==
    \/ CopyCellsFrom(s, t) \/ CopyCellValuesFrom(s, t) \/ CopyCellStylesFrom(s, t)
    \/ MoveCellsFrom(s, t) \/ MoveCellValuesFrom(s, t) \/ MoveCellStylesFrom(s, t)

Next ==
    \/ \E s \in Sheets, strict \in BOOLEAN : Worksheet(s, strict)
    \/ \E s \in Opened : Write(s) \/ Clear(s) \/ Restructure(s) \/ Transfer(s)
    \/ \E s \in Opened : \E t \in Opened \ {s} : TransferFrom(s, t)
    \/ Save

Spec == Init /\ [][Next]_vars

(***************************************************************************)
(* Properties                                                              *)
(***************************************************************************)
\* What no call may leave behind, whatever it loads, replaces, erases, shifts or
\* moves in one go: a store above one of its guardrails (they are checked
\* against counts worked out beforehand), or a saved <dimension> that misses a
\* cell or is wider than the cells.
StoresAreSound ==
    \A s \in Opened :
        LET cells == sessions[s].cells
            box == Dimension(cells)
        IN  /\ DOMAIN cells \subseteq Positions
            /\ Cardinality(DOMAIN cells) <= MaxCells /\ Usage(cells) <= Budget
            /\ \A p \in DOMAIN cells : Inside(p, box)
            /\ cells # << >> =>
                   \A i \in {1, 2} : {box.first[i], box.last[i]}
                                        \subseteq {p[i] : p \in DOMAIN cells}

Saved == DOMAIN saved.tables

\* The table a sheet was written for is still where it was: a later save may
\* have planned other additions to the strings of the source.
TableStands(s) ==
    s \in Saved /\ saved.tables[s] # << >> =>
        IsPrefix(saved.tables[s], Texts(SharedStringItems(CurrentStrings)))

\* A plain text gets the index of an item with that text, which may have more
\* to it: then the cell is one of those the strict policy rejects.
GainsMarkup(s) ==
    /\ saved.tables[s] # << >>
    /\ LET items == SharedStringItems(CurrentStrings)
       IN  \E i \in DOMAIN items :
               /\ items[i].saw \cap {"run", "phonetic", "extension"} # {}
               /\ items[i].text \in TextsIn(sessions[s].cells)

\* Where the element of a name is that a worksheet has at most once.
Extent(pieces, name) ==
    LET tags == {i \in DOMAIN pieces : pieces[i].name = name}
    IN  IF tags = {} THEN {} ELSE Min(tags)..Max(tags)

Rest(pieces) ==
    LET within == Extent(pieces, "sheetData") \union Extent(pieces, "dimension")
    IN  FlattenSeq([i \in DOMAIN pieces |-> IF i \in within THEN << >> ELSE <<pieces[i]>>])

\* A part that was written is that of the source with other cells: all around
\* them is as it was, and one dimension tells where they are.
KeepsTheRest(written, source, box) ==
    /\ Rest(written) = Rest(source)
    /\ \E i \in DOMAIN written :
           /\ {j \in DOMAIN written : Begins(written, j, "dimension")} = {i}
           /\ written[i].range = box

Reloads(s, strict) == Loaded(CurrentSheet(s), CurrentStrings, strict) = sessions[s]

CanAppend(part) == Appendable(part, SharedStringItems(part))

\* A sheet that says it has no changes has none: reading its worksheet part
\* again with the strings planned beside it, as the next editor will, gives the
\* cells the session holds, with no refusal and, where the source's items do
\* not bring any, no loss.  This is so as long as the table it was written for
\* stands.  A save replaces nothing but cells and dimension, and leaves strings
\* that can be appended to again.
CleanSheetsReload ==
    /\ \A s \in Opened :
           ~sessions[s].dirty /\ TableStands(s) =>
               /\ Reloads(s, FALSE)
               /\ s \in Saved /\ ~GainsMarkup(s) => Reloads(s, TRUE)
    /\ done.what = "save" =>
           /\ \A s \in Saved : KeepsTheRest(saved.sheets[s], Source.sheets[s],
                                            Dimension(sessions[s].cells))
           /\ CanAppend(Source.strings) => CanAppend(CurrentStrings)

\* What the worksheets of the packages say: those that open, and that a tree of
\* elements gives one reading.
Readings ==
    LET packages == Packages
        Sheet(x) == packages[x[1]].sheets[x[2]]
        Strings(x) == packages[x[1]].strings
        Reads == {x \in (DOMAIN packages) \X Sheets :
                     /\ Loaded(Sheet(x), Strings(x), FALSE) # Refused
                     /\ WellNested(Sheet(x)) /\ Unambiguous(Sheet(x))}
    IN  {[package |-> x[1], sheet |-> x[2],
          cells |-> SheetRead(Sheet(x), Strings(x)),
          whole |-> NothingLost(Sheet(x), Strings(x))] : x \in Reads}

\* A worksheet that opens gives the cells it has as a tree of elements, with
\* formulas that share a definition translated to where they stand; one that
\* opens under the strict policy has lost nothing.
LoadedSheetReads ==
    [][done'.what = "open" =>
           \A reading \in Readings :
               reading.package = package /\ reading.sheet = done'.to =>
                   /\ sessions'[done'.to].cells = reading.cells
                   /\ done'.argument => reading.whole
      ]_vars

\* What a formula's references to its own sheet cover.
Between(i, j) == (IF i < j THEN i ELSE j)..(IF i < j THEN j ELSE i)

Covers(r) ==
    {p \in Positions :
        /\ r.kind # "column" => p[1] \in Between(r.first.row, r.last.row)
        /\ r.kind # "row" => p[2] \in Between(r.first.column, r.last.column)}

OwnReferences(formula) == {r \in ToSet(References(formula)) : r.sheet = Here}

Covered(formula) == UNION {Covers(r) : r \in OwnReferences(formula)}

\* The ends of references that a deletion takes away or an insertion pushes off
\* the sheet; a whole-row reference has none among the columns.
EndGone(end, edit) ==
    LET p == <<end.row, end.column>>
    IN  \/ Deleted(p, edit)
        \/ edit.insert /\ Along(p, edit) \in (edit.first..Limit(edit))
                       /\ Along(Shift(p, edit), edit) > Limit(edit)

LosesEnd(formula, edit) ==
    \E r \in OwnReferences(formula) : EndGone(r.first, edit) \/ EndGone(r.last, edit)

\* After rows or columns were inserted or deleted, a formula that survived
\* refers to the cells it referred to before, wherever they are now, and to
\* nothing else but rows or columns that are new; it may stop referring to a
\* cell only if an end of one of its references has gone.
FollowsCells(old, new, edit) ==
    LET survivors == {p \in Positions : ~Deleted(p, edit) /\ Shift(p, edit) \in Positions}
        images == {Shift(p, edit) : p \in survivors \cap Covered(old)}
        fresh == Positions \ {Shift(p, edit) : p \in survivors}
    IN  /\ Covered(new) \subseteq images \union fresh
        /\ ~LosesEnd(old, edit) => images \subseteq Covered(new)

\* What formulas are made of: the coordinates of what can be a reference are on
\* the sheet.
IsLexeme(l) ==
    /\ l = Lexeme(l.kind, l.name, l.row, l.column, l.rowFixed, l.columnFixed)
    /\ l.kind \in {"address", "row"} => l.row \in 1..MaxRow
    /\ l.kind \in {"address", "column"} => l.column \in 1..MaxColumn

IsFormula(formula) == \A i \in DOMAIN formula : IsLexeme(formula[i])

\* A translation takes an end of the reference off the sheet.
LedOff(r, delta) ==
    \E end \in {r.first, r.last} :
        \/ /\ r.kind # "column" /\ ~end.rowFixed
           /\ end.row + delta.rows \notin 1..MaxRow
        \/ /\ r.kind # "row" /\ ~end.columnFixed
           /\ end.column + delta.columns \notin 1..MaxColumn

\* A reference stands at the distance it stood at, or where it stood if fixed.
AtDistance(was, now, delta) ==
    LET Far(value, fixed, distance) == IF fixed THEN value ELSE value + distance
        Stands(end, new) ==
            /\ was.kind # "column" => new.row = Far(end.row, end.rowFixed, delta.rows)
            /\ was.kind # "row" =>
                   new.column = Far(end.column, end.columnFixed, delta.columns)
    IN  Stands(was.first, now.first) /\ Stands(was.last, now.last)

\* A formula says that it has lost a reference, or reads as before with each
\* reference where its distance takes it.
KeepsDistance(old, new, delta) ==
    LET was == Tokens(old)
        now == Tokens(new)
    IN  IF \E i \in DOMAIN was : IsReference(was[i]) /\ LedOff(was[i], delta)
        THEN Lost \in ToSet(new)
        ELSE /\ Len(now) = Len(was)
             /\ \A i \in DOMAIN was :
                    /\ now[i].kind = was[i].kind /\ now[i].sheet = was[i].sheet
                    /\ IF IsReference(was[i]) THEN AtDistance(was[i], now[i], delta)
                       ELSE now[i].first = was[i].first

\* Formulas follow the cells: through every insertion and deletion of rows and
\* columns (rewrite_formula_references_for_structural_edit), with the text of
\* a formula scanned again after each rewriting.
ReferencesFollowCells ==
    [][done'.what = "shift" /\ edits' # edits =>
           LET s == done'.to
               edit == done'.argument
               old == sessions[s].cells
               new == sessions'[s].cells
           IN  \A p \in DOMAIN old :
                   IF Deleted(p, edit) THEN TRUE
                   ELSE /\ Shift(p, edit) \in DOMAIN new
                        /\ FollowsCells(old[p].formula, new[Shift(p, edit)].formula, edit)
      ]_vars

\* The record that a transfer writes at q, for what stood at its origin.
Arrived(call, source, cells, q, record) ==
    LET move == call.argument
        was == source[Origin(q, move)]
    IN  IF call.what \in {"copy styles", "move styles"}
        THEN record = Styled(cells[q], was.style)
        ELSE /\ record.kind = was.kind /\ record.text = was.text
             /\ record.style = IF call.what \in {"copy", "move"} THEN was.style
                               ELSE StyleAt(cells, q)
             /\ IsFormula(was.formula) =>
                    KeepsDistance(was.formula, record.formula, Delta(move))

\* What a move leaves behind at q.
Vacated(call, cells, q, new) ==
    CASE call.what = "move" -> q \notin DOMAIN new
      [] call.what = "move values" ->
             q \in DOMAIN new /\ new[q] = Styled(Blank, cells[q].style)
      [] OTHER -> q \in DOMAIN new /\ new[q] = Styled(cells[q], NoStyle)

Untouched(cells, q, new) ==
    /\ q \in DOMAIN new <=> q \in DOMAIN cells
    /\ q \in DOMAIN cells => new[q] = cells[q]

\* The cells of sheet x after a transfer, at q, against those before it.
TransferredTo(x, q, call, before, after) ==
    LET move == call.argument
        source == before[call.from].cells
        cells == before[x].cells
        new == after[x].cells
        arrives == x = call.to /\ Origin(q, move) \in Within(source, move.range)
        leaves == /\ call.what \in {"move", "move values", "move styles"}
                  /\ x = call.from /\ q \in Within(source, move.range)
                  /\ ~(call.from = call.to /\ InPlace(move))
    IN  IF arrives THEN q \in DOMAIN new /\ Arrived(call, source, cells, q, new[q])
        ELSE IF leaves THEN Vacated(call, cells, q, new)
        ELSE Untouched(cells, q, new)

\* A copy or move is one simultaneous assignment, whether source and
\* destination overlap, are the same sheet or two: every cell that is written
\* gets what its source held before the call (a formula with its relative
\* references at the same distance), every cell moved away is left as the form
\* of the call says, and no other cell changes.
TransfersConserve ==
    [][done'.what \in {"copy", "copy values", "copy styles",
                       "move", "move values", "move styles"} /\ edits' # edits =>
           \A x \in Opened, q \in Positions :
               TransferredTo(x, q, done', sessions, sessions')
      ]_vars
=============================================================================

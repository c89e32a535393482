---------------------------- MODULE CellSession ----------------------------
(***************************************************************************)
(* The sparse cells of one worksheet while it is edited: CellStore         *)
(* (src/cell_store.cpp) with its two guardrails, and the operations of     *)
(* MaterializedWorksheetSession on it.                                     *)
(*                                                                         *)
(* A store is a partial function from positions <<row, column>> to         *)
(* records, a session a store with its dirty flag.  Every operation is     *)
(* given as the session it leaves, or as Refused when it throws: then the  *)
(* session is what it was.  An operation on two sessions gives both.       *)
(***************************************************************************)
EXTENDS FormulaShift, FiniteSets, FiniteSetsExt, Functions

CONSTANTS NoStyle, MaxCells, Budget, Refused

\* The function f and, where f has no value, g; the function of one argument.
f ++ g == [x \in DOMAIN f \union DOMAIN g |-> IF x \in DOMAIN f THEN f[x] ELSE g[x]]
Only(x, y) == [z \in {x} |-> y]

Record(kind, text, formula, style) ==
    [kind |-> kind, text |-> text, formula |-> formula, style |-> style]

\* A text is a sequence of letters, a number the letter it is written as.
Blank == Record("blank", << >>, << >>, NoStyle)
Number(numeral) == Record("number", <<numeral>>, << >>, NoStyle)
Text(text) == Record("text", text, << >>, NoStyle)
Boolean(numeral) == Record("boolean", <<numeral>>, << >>, NoStyle)
Formula(lexemes) == Record("formula", << >>, lexemes, NoStyle)
Error(text) == Record("error", text, << >>, NoStyle)

\* CellValue::with_style, without_style, CellRecord::from_value, to_value.
Styled(record, style) == [record EXCEPT !.style = style]
StyleAt(cells, p) == IF p \in DOMAIN cells THEN cells[p].style ELSE NoStyle

Session(cells, dirty) == [cells |-> cells, dirty |-> dirty]

(***************************************************************************)
(* CellStore                                                               *)
(***************************************************************************)
\* entry_memory_usage: a constant part and the text.
Weight(record) ==
    1 + Len(record.formula)
      + (IF record.kind \in {"text", "error"} THEN Len(record.text) ELSE 0)

WeightOf(cells, positions) == MapThenSumSet(LAMBDA p : Weight(cells[p]), positions)
Usage(cells) == WeightOf(cells, DOMAIN cells)

Allowed(count, usage) == count <= MaxCells /\ usage <= Budget

CellSet(session, p, record) ==
    LET cells == session.cells
        old == {p} \cap DOMAIN cells
        count == Cardinality(DOMAIN cells \union {p})
        usage == Usage(cells) - WeightOf(cells, old) + Weight(record)
    IN  IF Allowed(count, usage) THEN Session(Only(p, record) ++ cells, TRUE)
        ELSE Refused

\* The record of each updated position: the last update wins, and with
\* PreserveExistingStyles takes the style of what it replaces, which an
\* earlier update of the batch may have put there and an erasure has removed.
FinalUpdates(cells, erasures, updates, keepStyles) ==
    LET final[i \in 0..Len(updates)] ==
            IF i = 0 THEN << >>
            ELSE LET staged == final[i - 1]
                     u == updates[i]
                     style == IF u.at \in DOMAIN staged THEN staged[u.at].style
                              ELSE IF u.at \in erasures THEN NoStyle
                              ELSE StyleAt(cells, u.at)
                 IN  Only(u.at, IF keepStyles THEN Styled(u.value, style) ELSE u.value)
                         ++ staged
    IN  final[Len(updates)]

\* Mutant of NextCount: a record that is erased and written again is taken off.
ErasedTwice(cells, erasures, final) ==
    Cardinality(DOMAIN cells) - Cardinality(erasures \cap DOMAIN cells)
        + Cardinality(DOMAIN final \ DOMAIN cells)

NextCount(cells, erasures, final) ==
    Cardinality(DOMAIN cells)
        - Cardinality((erasures \ DOMAIN final) \cap DOMAIN cells)
        + Cardinality(DOMAIN final \ DOMAIN cells)

NextUsage(cells, erasures, final) ==
    Usage(cells) - WeightOf(cells, (erasures \union DOMAIN final) \cap DOMAIN cells)
        + Usage(final)

\* apply_cell_edits.
CellsEdited(session, erasures, updates, keepStyles) ==
    LET cells == session.cells
        final == FinalUpdates(cells, erasures, updates, keepStyles)
        changed == erasures \cap DOMAIN cells # {} \/ updates # << >>
    IN  IF Allowed(NextCount(cells, erasures, final), NextUsage(cells, erasures, final))
        THEN Session(final ++ Restrict(cells, DOMAIN cells \ erasures),
                     session.dirty \/ changed)
        ELSE Refused

\* set_cells.
CellsSet(session, updates, keepStyles) == CellsEdited(session, {}, updates, keepStyles)

RecordsReplaced(cells) ==
    IF Allowed(Cardinality(DOMAIN cells), Usage(cells)) THEN Session(cells, TRUE)
    ELSE Refused

\* cell_store_dimension_reference; used_range has no value for an empty store.
Dimension(cells) ==
    LET rows == {p[1] : p \in DOMAIN cells}
        columns == {p[2] : p \in DOMAIN cells}
    IN  IF cells = << >> THEN [first |-> <<1, 1>>, last |-> <<1, 1>>]
        ELSE [first |-> <<Min(rows), Min(columns)>>, last |-> <<Max(rows), Max(columns)>>]

(***************************************************************************)
(* Single cells and ranges                                                 *)
(***************************************************************************)
Inside(p, range) ==
    /\ p[1] \in range.first[1]..range.last[1]
    /\ p[2] \in range.first[2]..range.last[2]

Within(cells, range) == {p \in DOMAIN cells : Inside(p, range)}

CellErased(session, p) ==
    Session(Restrict(session.cells, DOMAIN session.cells \ {p}),
            session.dirty \/ p \in DOMAIN session.cells)

\* clear_cell_value, clear_cell_values: the records stay, blank and styled.
ValuesCleared(session, positions) ==
    LET cells == session.cells
        cleared == positions \cap DOMAIN cells
        blanks == [p \in cleared |-> Styled(Blank, cells[p].style)]
    IN  IF cleared = {} THEN session ELSE RecordsReplaced(blanks ++ cells)

CellsErased(session, positions) ==
    IF positions \cap DOMAIN session.cells = {} THEN session
    ELSE CellsEdited(session, positions, << >>, FALSE)

(***************************************************************************)
(* Rows and columns inserted and deleted                                   *)
(***************************************************************************)
ValidSpan(first, count, limit) == first \in 1..limit /\ count <= limit - first + 1

Along(p, edit) == IF edit.rows THEN p[1] ELSE p[2]
Displaced(p, edit, distance) ==
    IF edit.rows THEN <<p[1] + distance, p[2]>> ELSE <<p[1], p[2] + distance>>

Deleted(p, edit) ==
    ~edit.insert /\ Along(p, edit) \in edit.first..(edit.first + edit.count - 1)

Shift(p, edit) ==
    IF Along(p, edit) < edit.first THEN p
    ELSE Displaced(p, edit, IF edit.insert THEN edit.count ELSE 0 - edit.count)

\* insert_shifted_record.
ShiftedRecord(record, edit) ==
    [record EXCEPT !.formula = RewrittenFormula(@, edit)]

PushedOff(cells, edit) ==
    /\ edit.insert
    /\ \E p \in DOMAIN cells : /\ Along(p, edit) >= edit.first
                               /\ Along(p, edit) > Limit(edit) - edit.count

Shifted(session, edit) ==
    LET cells == session.cells
        kept == {p \in DOMAIN cells : ~Deleted(p, edit)}
        next == [q \in {Shift(p, edit) : p \in kept} |->
                    ShiftedRecord(cells[CHOOSE p \in kept : Shift(p, edit) = q], edit)]
    IN  IF edit.count = 0 THEN session
        ELSE IF PushedOff(cells, edit) THEN Refused
        ELSE IF next = cells THEN session ELSE RecordsReplaced(next)

RowsInserted(session, first, count) ==
    Shifted(session, [rows |-> TRUE, insert |-> TRUE, first |-> first, count |-> count])
RowsDeleted(session, first, count) ==
    Shifted(session, [rows |-> TRUE, insert |-> FALSE, first |-> first, count |-> count])
ColumnsInserted(session, first, count) ==
    Shifted(session, [rows |-> FALSE, insert |-> TRUE, first |-> first, count |-> count])
ColumnsDeleted(session, first, count) ==
    Shifted(session, [rows |-> FALSE, insert |-> FALSE, first |-> first, count |-> count])

(***************************************************************************)
(* Copying and moving: move = [range, to].  Overlays are what the          *)
(* destination gets; the records are all planned before one is written.    *)
(***************************************************************************)
ValidMove(move) ==
    /\ move.to[1] + (move.range.last[1] - move.range.first[1]) <= MaxRow
    /\ move.to[2] + (move.range.last[2] - move.range.first[2]) <= MaxColumn

Delta(move) == [rows |-> move.to[1] - move.range.first[1],
                columns |-> move.to[2] - move.range.first[2]]

Target(p, move) == <<p[1] + Delta(move).rows, p[2] + Delta(move).columns>>
Origin(q, move) == <<q[1] - Delta(move).rows, q[2] - Delta(move).columns>>

InPlace(move) == move.to = move.range.first

Targets(source, move) == {Target(p, move) : p \in Within(source.cells, move.range)}

Translated(record, move) ==
    [record EXCEPT !.formula = TranslatedFormula(@, Delta(move))]

CellOverlay(source, move) ==
    [q \in Targets(source, move) |-> Translated(source.cells[Origin(q, move)], move)]

\* Values leave the styles where they are.
ValueOverlay(source, session, move) ==
    [q \in Targets(source, move) |->
        Styled(Translated(source.cells[Origin(q, move)], move), StyleAt(session.cells, q))]

StyleOverlay(source, session, move) ==
    [q \in Targets(source, move) |->
        Styled(session.cells[q], StyleAt(source.cells, Origin(q, move)))]

Emptied(source, move) ==
    [p \in Within(source.cells, move.range) |-> Styled(Blank, StyleAt(source.cells, p))]

Unstyled(source, move) ==
    [p \in Within(source.cells, move.range) |-> Styled(source.cells[p], NoStyle)]

Remaining(source, move) ==
    Restrict(source.cells, DOMAIN source.cells \ Within(source.cells, move.range))

\* Onto itself, within one sheet, or from cells that are not there.
NothingToDo(source, move, own) ==
    (own /\ InPlace(move)) \/ Within(source.cells, move.range) = {}

\* A styles operation wants every destination represented.
Represented(source, session, move) == Targets(source, move) \subseteq DOMAIN session.cells

Both(source, session) ==
    IF Refused \in {source, session} THEN Refused
    ELSE [source |-> source, session |-> session]

CellsCopied(source, session, move, own) ==
    IF NothingToDo(source, move, own) THEN session
    ELSE RecordsReplaced(CellOverlay(source, move) ++ session.cells)

ValuesCopied(source, session, move, own) ==
    IF NothingToDo(source, move, own) THEN session
    ELSE RecordsReplaced(ValueOverlay(source, session, move) ++ session.cells)

StylesCopied(source, session, move, own) ==
    IF NothingToDo(source, move, own) THEN session
    ELSE IF ~Represented(source, session, move) THEN Refused
    ELSE LET next == StyleOverlay(source, session, move) ++ session.cells
         IN  IF next = session.cells THEN session ELSE RecordsReplaced(next)

\* Mutant of CellsMoved: the sources are erased after the destinations are
\* written.
ErasesLast(session, move) ==
    LET overlaid == CellOverlay(session, move) ++ session.cells
    IN  IF NothingToDo(session, move, TRUE) THEN session
        ELSE RecordsReplaced(
                 Restrict(overlaid, DOMAIN overlaid \ Within(session.cells, move.range)))

CellsMoved(session, move) ==
    IF NothingToDo(session, move, TRUE) THEN session
    ELSE RecordsReplaced(CellOverlay(session, move) ++ Remaining(session, move))

ValuesMoved(session, move) ==
    IF NothingToDo(session, move, TRUE) THEN session
    ELSE RecordsReplaced(ValueOverlay(session, session, move)
                         ++ Emptied(session, move) ++ session.cells)

StylesMoved(session, move) ==
    IF NothingToDo(session, move, TRUE) THEN session
    ELSE IF ~Represented(session, session, move) THEN Refused
    ELSE LET unstyled == Unstyled(session, move) ++ session.cells
             next == [q \in Targets(session, move) |->
                         Styled(unstyled[q], StyleAt(session.cells, Origin(q, move)))]
                     ++ unstyled
         IN  IF next = session.cells THEN session ELSE RecordsReplaced(next)

CellsMovedBetween(source, session, move) ==
    IF NothingToDo(source, move, FALSE) THEN Both(source, session)
    ELSE Both(RecordsReplaced(Remaining(source, move)),
              RecordsReplaced(CellOverlay(source, move) ++ session.cells))

ValuesMovedBetween(source, session, move) ==
    IF NothingToDo(source, move, FALSE) THEN Both(source, session)
    ELSE Both(RecordsReplaced(Emptied(source, move) ++ source.cells),
              RecordsReplaced(ValueOverlay(source, session, move) ++ session.cells))

\* A session whose styles stay what they were is not touched.
StylesMovedBetween(source, session, move) ==
    LET Changed(was, cells) == IF cells = was.cells THEN was ELSE RecordsReplaced(cells)
    IN  IF ~Represented(source, session, move) THEN Refused
        ELSE Both(Changed(source, Unstyled(source, move) ++ source.cells),
                  Changed(session, StyleOverlay(source, session, move) ++ session.cells))

\* The single-cell forms also want their source represented.
CellStyleCopied(session, from, to) ==
    LET cells == session.cells
    IN  IF ~({from, to} \subseteq DOMAIN cells) THEN Refused
        ELSE IF StyleAt(cells, from) = StyleAt(cells, to) THEN session
        ELSE CellSet(session, to, Styled(cells[to], StyleAt(cells, from)))

CellStyleMoved(session, from, to) ==
    IF {from, to} \subseteq DOMAIN session.cells
    THEN StylesMoved(session, [range |-> [first |-> from, last |-> from], to |-> to])
    ELSE Refused

CellStyleCleared(session, p) ==
    IF StyleAt(session.cells, p) = NoStyle THEN session
    ELSE CellSet(session, p, Styled(session.cells[p], NoStyle))

StylesCleared(session, range) ==
    LET styled == {p \in Within(session.cells, range) : session.cells[p].style # NoStyle}
    IN  IF styled = {} THEN session
        ELSE RecordsReplaced([p \in styled |-> Styled(session.cells[p], NoStyle)]
                             ++ session.cells)
=============================================================================

---------------------------- MODULE FormulaShift ----------------------------
(***************************************************************************)
(* src/formula.cpp: what it takes for a reference in the text of a         *)
(* formula, and its two rewritings.  A formula that is copied or moved has *)
(* its references translated; one that stays on a sheet whose rows or      *)
(* columns are inserted or deleted has them follow the cells.              *)
(*                                                                         *)
(* A formula is a sequence of lexemes: maximal words, of which "A1", "$A"  *)
(* and "3" are told apart as address, column and row, string literals,     *)
(* quoted names and bracketed text as a whole, the symbols that decide     *)
(* (":", "!" and "("), and the rest as "other".  A rewriting changes the   *)
(* lexemes, so the next one scans what this one wrote.                     *)
(***************************************************************************)
EXTENDS Integers, Sequences, SequencesExt

CONSTANTS MaxRow, MaxColumn,    \* excel_max_row and excel_max_column
          Here                  \* no sheet qualifier, and the name of no word

Lexeme(kind, name, row, column, rowFixed, columnFixed) ==
    [kind |-> kind, name |-> name, row |-> row, column |-> column,
     rowFixed |-> rowFixed, columnFixed |-> columnFixed]

Address(row, column, rowFixed, columnFixed) ==
    Lexeme("address", Here, row, column, rowFixed, columnFixed)
RowWord(row, fixed) == Lexeme("row", Here, row, 0, fixed, FALSE)
ColumnWord(column, fixed) == Lexeme("column", Here, 0, column, FALSE, fixed)
Symbol(kind) == Lexeme(kind, Here, 0, 0, FALSE, FALSE)
Word(name) == Lexeme("name", name, 0, 0, FALSE, FALSE)
Quoted(name) == Lexeme("quoted", name, 0, 0, FALSE, FALSE)
Lost == Symbol("lost")          \* "#REF!"

(***************************************************************************)
(* Scanning                                                                *)
(***************************************************************************)
KindAt(formula, i) == IF i \in DOMAIN formula THEN formula[i].kind ELSE "none"

\* "A1(" is the name of a function and "A1!" that of a sheet.
RightBoundary(formula, i) == KindAt(formula, i) \notin {"paren", "bang"}

\* detect_sheet_qualifier.
SheetQualifier(formula, i) ==
    IF i > 2 /\ KindAt(formula, i - 1) = "bang" THEN formula[i - 2].name ELSE Here

IsAxisRange(formula, i) ==
    /\ KindAt(formula, i) \in {"row", "column"}
    /\ KindAt(formula, i + 1) = "colon"
    /\ KindAt(formula, i + 2) = KindAt(formula, i)
    /\ RightBoundary(formula, i + 3)

IsCell(formula, i) ==
    /\ KindAt(formula, i) = "address"
    /\ RightBoundary(formula, i + 1)

IsCellRange(formula, i) ==
    /\ IsCell(formula, i)
    /\ KindAt(formula, i + 1) = "colon"
    /\ IsCell(formula, i + 2)

Token(formula, i, kind, length) ==
    [kind |-> kind, at |-> i, length |-> length,
     first |-> formula[i], last |-> formula[i + length - 1],
     sheet |-> SheetQualifier(formula, i)]

TokenAt(formula, i) ==
    IF IsAxisRange(formula, i) THEN Token(formula, i, formula[i].kind, 3)
    ELSE IF IsCellRange(formula, i) THEN Token(formula, i, "range", 3)
    ELSE IF IsCell(formula, i) THEN Token(formula, i, "cell", 1)
    ELSE Token(formula, i, "text", 1)

\* tokenize_formula.
Tokens(formula) ==
    LET from[i \in 1..(Len(formula) + 3)] ==
            IF i > Len(formula) THEN << >>
            ELSE LET token == TokenAt(formula, i)
                 IN  <<token>> \o from[i + token.length]
    IN  from[1]

IsReference(token) == token.kind # "text"

\* scan_formula_references.
References(formula) == SelectSeq(Tokens(formula), IsReference)

TokenText(formula, token) ==
    SubSeq(formula, token.at, token.at + token.length - 1)

RewrittenTokens(formula, Rewrite(_)) ==
    LET tokens == Tokens(formula)
    IN  FlattenSeq([i \in DOMAIN tokens |->
            IF IsReference(tokens[i]) THEN Rewrite(tokens[i])
            ELSE TokenText(formula, tokens[i])])

(***************************************************************************)
(* Writing.  Each end of a cell range is lost on its own; a whole-row or   *)
(* whole-column range is lost as one.                                      *)
(***************************************************************************)
RangeText(first, last) == <<first, Symbol("colon"), last>>

AxisRangeText(first, last) ==
    IF Lost \in {first, last} THEN <<Lost>> ELSE RangeText(first, last)

\* One coordinate of an end replaced, Lost when it is 0.
WithRow(end, row) == IF row = 0 THEN Lost ELSE [end EXCEPT !.row = row]
WithColumn(end, column) == IF column = 0 THEN Lost ELSE [end EXCEPT !.column = column]

(***************************************************************************)
(* Translation: delta = [rows, columns].  0 stands for no value.           *)
(***************************************************************************)
TranslatedAxis(value, delta, fixed, limit) ==
    IF fixed THEN value
    ELSE IF value + delta \in 1..limit THEN value + delta
    ELSE 0

TranslatedRow(end, delta) == TranslatedAxis(end.row, delta.rows, end.rowFixed, MaxRow)
TranslatedColumn(end, delta) ==
    TranslatedAxis(end.column, delta.columns, end.columnFixed, MaxColumn)

TranslatedEnd(end, delta) ==
    LET row == TranslatedRow(end, delta)
        column == TranslatedColumn(end, delta)
    IN  IF 0 \in {row, column} THEN Lost
        ELSE [end EXCEPT !.row = row, !.column = column]

TranslatedRange(r, delta) ==
    RangeText(TranslatedEnd(r.first, delta), TranslatedEnd(r.last, delta))

TranslatedAxisRange(r, delta) ==
    LET Moved(end) == IF r.kind = "row" THEN WithRow(end, TranslatedRow(end, delta))
                      ELSE WithColumn(end, TranslatedColumn(end, delta))
    IN  AxisRangeText(Moved(r.first), Moved(r.last))

TranslatedFormula(formula, delta) ==
    LET Rewrite(r) ==
            CASE r.kind = "cell"  -> <<TranslatedEnd(r.first, delta)>>
              [] r.kind = "range" -> TranslatedRange(r, delta)
              [] OTHER            -> TranslatedAxisRange(r, delta)
    IN  IF delta.rows = 0 /\ delta.columns = 0 THEN formula
        ELSE RewrittenTokens(formula, Rewrite)

(***************************************************************************)
(* Structural edits: edit = [rows, insert, first, count].  "$" makes no    *)
(* difference, and neither does the sheet the reference is qualified with. *)
(***************************************************************************)
\* structural_edit_targets_rows, structural_edit_targets_columns.
Axis(end, edit) == IF edit.rows THEN end.row ELSE end.column
WithAxis(end, edit, value) ==
    IF edit.rows THEN WithRow(end, value) ELSE WithColumn(end, value)
Limit(edit) == IF edit.rows THEN MaxRow ELSE MaxColumn

AxisAffected(value, edit) == edit.count # 0 /\ value >= edit.first

\* Mutant of StructuralAxis: the last deleted row or column survives.
DeletesOneTooFew(value, edit) ==
    IF ~AxisAffected(value, edit) THEN value
    ELSE IF edit.insert THEN IF value > Limit(edit) - edit.count THEN 0
                             ELSE value + edit.count
    ELSE IF value < edit.first + edit.count - 1 THEN 0
    ELSE value - edit.count

StructuralAxis(value, edit) ==
    IF ~AxisAffected(value, edit) THEN value
    ELSE IF edit.insert THEN IF value > Limit(edit) - edit.count THEN 0
                             ELSE value + edit.count
    ELSE IF value <= edit.first + edit.count - 1 THEN 0
    ELSE value - edit.count

EndAffected(end, edit) == AxisAffected(Axis(end, edit), edit)

\* formula_axis_range_needs_structural_edit.
AxisRangeAffected(r, edit) ==
    /\ (r.kind = "row") = edit.rows
    /\ EndAffected(r.first, edit) \/ EndAffected(r.last, edit)

Affected(r, edit) ==
    IF r.kind \in {"row", "column"} THEN AxisRangeAffected(r, edit)
    ELSE EndAffected(r.first, edit) \/ EndAffected(r.last, edit)

StructuralEnd(end, edit) ==
    WithAxis(end, edit, StructuralAxis(Axis(end, edit), edit))

StructuralRange(r, edit) ==
    RangeText(StructuralEnd(r.first, edit), StructuralEnd(r.last, edit))

StructuralAxisRange(r, edit) ==
    AxisRangeText(StructuralEnd(r.first, edit), StructuralEnd(r.last, edit))

\* rewrite_formula_references_for_structural_edit.
RewrittenFormula(formula, edit) ==
    LET Rewrite(r) ==
            IF ~Affected(r, edit) THEN TokenText(formula, r)
            ELSE CASE r.kind = "cell"  -> <<StructuralEnd(r.first, edit)>>
                   [] r.kind = "range" -> StructuralRange(r, edit)
                   [] OTHER            -> StructuralAxisRange(r, edit)
    IN  RewrittenTokens(formula, Rewrite)
=============================================================================

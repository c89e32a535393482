---------------------------- MODULE SheetSaving ----------------------------
(***************************************************************************)
(* What save_as writes for the sheets with changes: their cells in place   *)
(* of the sheetData of the worksheet part that is planned, a new dimension *)
(* (src/package_editor.cpp), and the texts the shared strings lack at the  *)
(* end of that part (src/workbook_editor_materialized_edits.cpp).          *)
(*                                                                         *)
(* The root of the shared strings may have the attributes count and        *)
(* uniqueCount; other stands for any that are not expected there.  Stores  *)
(* are the cells of several sheets, a table is a sequence of texts.        *)
(***************************************************************************)
EXTENDS CellLoader

TextMarkup(text) ==
    IF text = << >> THEN << >> ELSE <<[Markup("text", "words") EXCEPT !.text = text]>>

Element(name, content) == <<Markup("open", name)>> \o content \o <<Markup("close", name)>>

(***************************************************************************)
(* The plan for the shared strings                                         *)
(***************************************************************************)
Texts(items) == [i \in DOMAIN items |-> items[i].text]

Root(part) == Min({i \in DOMAIN part : IsTag(part[i])})

\* shared_strings_snapshot_supports_projection, items being what the part holds.
Appendable(part, items) ==
    LET root == part[Root(part)]
    IN  /\ items # Refused
        /\ root.form = "open" /\ root.other = ""
        /\ {"count", "uniqueCount"} \subseteq DOMAIN root
        /\ root.uniqueCount = Len(items) /\ root.count >= root.uniqueCount

TextCells(cells) == {p \in DOMAIN cells : cells[p].kind = "text"}
TextsIn(cells) == {cells[p].text : p \in TextCells(cells)}
TextsOf(stores) == UNION {TextsIn(stores[s]) : s \in DOMAIN stores}

UsesOf(texts, stores) ==
    MapThenSumSet(LAMBDA s : Cardinality({p \in TextCells(stores[s]) : stores[s][p].text \in texts}),
                  DOMAIN stores)

\* try_build_shared_strings_append_xml.
Appended(part, added, uses) ==
    LET counted == [part EXCEPT ![Root(part)].count = @ + uses,
                                ![Root(part)].uniqueCount = @ + Len(added)]
        end == Max({i \in DOMAIN part : part[i].form = "close" /\ part[i].name = "sst"})
    IN  SubSeq(counted, 1, end - 1)
        \o FlattenSeq([i \in DOMAIN added |-> Element("si", Element("t", TextMarkup(added[i])))])
        \o SubSeq(counted, end, Len(part))

\* The table that the cells of the stores are written for, of which a text takes
\* the first index (none if they are to hold their texts themselves), and the
\* part that replaces the strings (none if no text is new).  New texts come in
\* the order of the cells, which is not kept here.
Projection(part, stores) ==
    LET items == SharedStringItems(part)
        added == SetToSeq(TextsOf(stores) \ ToSet(Texts(items)))
    IN  IF TextsOf(stores) = {} \/ ~Appendable(part, items)
        THEN [table |-> << >>, part |-> << >>]
        ELSE [table |-> Texts(items) \o added,
              part |-> IF added = << >> THEN << >>
                       ELSE Appended(part, added, UsesOf(ToSet(added), stores))]

(***************************************************************************)
(* The cells                                                               *)
(***************************************************************************)
Numeral(index) == CHOOSE text \in DOMAIN Indexes : Indexes[text] = index

IndexMarkup(text, table) ==
    TextMarkup(Numeral(Min({i \in DOMAIN table : table[i] = text}) - 1))

ContentMarkup(record, table) ==
    CASE record.kind = "text" ->
            IF table # << >> THEN Element("v", IndexMarkup(record.text, table))
            ELSE Element("is", Element("t", TextMarkup(record.text)))
      [] record.kind = "formula" -> Element("f", TextMarkup(record.formula))
      [] OTHER -> Element("v", TextMarkup(record.text))

TypeMarkup(kind, table) ==
    CASE kind = "text" -> IF table # << >> THEN "s" ELSE "inlineStr"
      [] kind = "boolean" -> "b"
      [] kind = "error" -> "e"
      [] OTHER -> ""

\* Mutant of CellMarkup: a blank cell is written without its style.
BlankUnstyled(p, record, table) ==
    LET Tag(form) == [Markup(form, "c") EXCEPT !.ref = Ref(p[1], p[2]),
                                               !.type = TypeMarkup(record.kind, table)]
    IN  IF record.kind = "blank" THEN <<Tag("self")>>
        ELSE <<[Tag("open") EXCEPT !.style = record.style]>>
             \o ContentMarkup(record, table) \o <<Markup("close", "c")>>

\* append_cell_xml.
CellMarkup(p, record, table) ==
    LET Tag(form) == [Markup(form, "c") EXCEPT !.ref = Ref(p[1], p[2]),
                                               !.style = record.style,
                                               !.type = TypeMarkup(record.kind, table)]
    IN  IF record.kind = "blank" THEN <<Tag("self")>>
        ELSE <<Tag("open")>> \o ContentMarkup(record, table) \o <<Markup("close", "c")>>

RowMarkup(cells, row, table) ==
    LET Cell(column) == IF <<row, column>> \notin DOMAIN cells THEN << >>
                        ELSE CellMarkup(<<row, column>>, cells[<<row, column>>], table)
    IN  IF \A p \in DOMAIN cells : p[1] # row THEN << >>
        ELSE <<[Markup("open", "row") EXCEPT !.ref = Ref(row, 0)]>>
             \o FlattenSeq([column \in 1..MaxColumn |-> Cell(column)])
             \o <<Markup("close", "row")>>

SheetDataMarkup(cells, table) ==
    Element("sheetData", FlattenSeq([row \in 1..MaxRow |-> RowMarkup(cells, row, table)]))

DimensionMarkup(cells) ==
    [range |-> Dimension(cells)] ++ Markup("self", "dimension")

(***************************************************************************)
(* The worksheet: its events, copied but for the data and the dimension    *)
(***************************************************************************)
\* All events of a worksheet, or Refused.
Reported(pieces) ==
    LET after[i \in 0..Len(pieces)] ==
            IF i = 0 THEN [ctx |-> Outset, events |-> << >>]
            ELSE LET before == after[i - 1]
                     piece == pieces[i]
                 IN  IF before = Refused THEN Refused
                     ELSE IF Refuses(before.ctx, piece) THEN Refused
                     ELSE [ctx |-> After(before.ctx, piece),
                           events |-> before.events \o Events(before.ctx, i, piece)]
        end == after[Len(pieces)]
    IN  IF end = Refused THEN Refused
        ELSE IF RefusesEnd(end.ctx) THEN Refused
        ELSE end.events

IsDimension(event) == event.kind = "Metadata" /\ event.name = "dimension"

\* A writer w is what it has written, which of dimension and sheetData it is
\* skipping, and whether it has written data.  The first is skipped until its
\* closing tag, the second until the reader reports its end.
Skipped(w, event) ==
    \/ w.skips = "dimension" /\ ~(IsDimension(event) /\ event.closing)
    \/ w.skips = "sheetData" /\ event.kind # "SheetDataEnd"

SkipsNoMore(w, event) == w.skips = "dimension" \/ event.kind = "SheetDataEnd"

Emitted(w, event, piece, new) ==
    LET Writes(markup) == [w EXCEPT !.out = @ \o markup]
    IN  IF Skipped(w, event) THEN w
        ELSE IF SkipsNoMore(w, event) THEN [w EXCEPT !.skips = ""]
        ELSE CASE event.kind = "SheetDataStart" ->
                    [Writes(new.data) EXCEPT !.skips = "sheetData", !.data = TRUE]
               [] event.kind = "WorksheetStart" ->
                    Writes(<<piece>> \o IF new.replaces THEN << >> ELSE <<new.dimension>>)
               [] IsDimension(event) /\ ~event.closing ->
                    [Writes(<<new.dimension>>) EXCEPT !.skips = IF event.self THEN "" ELSE "dimension"]
               [] event.kind = "WorksheetEnd" /\ ~w.data ->
                    [Writes(new.data \o <<piece>>) EXCEPT !.data = TRUE]
               [] OTHER -> Writes(<<piece>>)

\* What is written for the events, where new is what replaces the data and the
\* dimension, and whether there is a dimension to replace.
Copied(pieces, events, new) ==
    LET after[i \in 0..Len(events)] ==
            IF i = 0 THEN [out |-> << >>, skips |-> "", data |-> FALSE]
            ELSE Emitted(after[i - 1], events[i], pieces[events[i].at], new)
        end == after[Len(events)]
    IN  IF end.data THEN end.out ELSE Refused

\* worksheet_source_has_dimension_metadata.
Replacement(events, cells, table) ==
    [data |-> SheetDataMarkup(cells, table), dimension |-> DimensionMarkup(cells),
     replaces |-> \E i \in DOMAIN events : IsDimension(events[i]) /\ ~events[i].closing]

\* write_worksheet_sheet_data_replacement_stream_from_chunk_source.
Rewritten(pieces, cells, table) ==
    LET events == Reported(pieces)
    IN  IF events = Refused THEN Refused
        ELSE Copied(pieces, events, Replacement(events, cells, table))
=============

----------------------------- MODULE CellLoader -----------------------------
(***************************************************************************)
(* CellStoreWorksheetLoader (src/cell_store.cpp): the cells of a store     *)
(* from the events of the worksheet reader, item by item with the shared   *)
(* strings the worksheet refers to.                                        *)
(*                                                                         *)
(* A piece of markup has, beside what the reader tells apart, the          *)
(* attributes type (t), style (s), si, one other, and its text: letters,   *)
(* or lexemes within f.  A loader is a record; every step gives the next   *)
(* one or Refused, when it throws.                                         *)
(***************************************************************************)
EXTENDS WorksheetMarkup, CellSession

CONSTANTS Styles,       \* the ids of the styles part's cell formats, but 0
          Numerals,     \* of the texts that are numbers, the number written
          Indexes,      \* of the texts that are indexes, the index
          NoCell        \* no cell is open

Markup(form, name) ==
    [form |-> form, name |-> name, ref |-> NoRef, type |-> "", style |-> NoStyle,
     si |-> "", other |-> "", text |-> << >>]

HasAttributes(piece) == piece.type # "" \/ piece.si # "" \/ piece.other # ""

\* What an element adds to the depth of what follows it.
Level(piece) ==
    CASE piece.form = "open" -> 1
      [] piece.form = "close" -> -1
      [] OTHER -> 0

Stacked(stack, piece) ==
    CASE piece.form = "open" -> Append(stack, piece.name)
      [] piece.form = "close" -> Front(stack)
      [] OTHER -> stack

\* Phonetic text and extensions are read over.
IgnoredNames == {"rPh", "phoneticPr", "extLst"}

LossOf(name) ==
    CASE name = "extLst" -> {"extension"}
      [] name \in {"rPh", "phoneticPr"} -> {"phonetic"}
      [] OTHER -> {}

(***************************************************************************)
(* The shared strings part                                                 *)
(***************************************************************************)
NoItem == [text |-> << >>, saw |-> {}]
NoTable == [stack |-> << >>, item |-> NoItem, items |-> << >>, root |-> FALSE,
            declared |-> FALSE, prolog |-> FALSE]

Top(stack) == IF stack = << >> THEN "" ELSE Last(stack)
Under(stack, names) == ToSet(stack) \cap names # {}
ReadOver(stack) == Under(stack, IgnoredNames \union {"rPr"})

RefusesItemChild(table, name) ==
    LET saw == table.item.saw
    IN  CASE Top(table.stack) = "sst" -> name \notin {"si", "extLst", "phoneticPr"}
          [] Top(table.stack) = "si" ->
                \/ name \notin {"t", "r"} \union IgnoredNames
                \/ name = "t" /\ "run" \in saw
                \/ name = "r" /\ "direct" \in saw
          [] Top(table.stack) = "r" -> name \notin {"t", "rPr"}
          [] OTHER -> FALSE

RefusesItemElement(table, name) ==
    LET stack == table.stack
    IN  IF ~table.root THEN name # "sst"
        ELSE \/ stack = << >>
             \/ name = "si" /\ stack # <<"sst">>
             \/ Top(stack) = "t"
             \/ IF ReadOver(stack) THEN Under(stack, {"rPr"}) /\ name = "t"
                ELSE RefusesItemChild(table, name)

RefusesInTable(table, piece) ==
    LET top == Top(table.stack)
    IN  CASE piece.form = "text" ->
                /\ piece.name # "blank" /\ top # "t"
                /\ ~Under(table.stack, IgnoredNames)
          [] piece.form \in {"comment", "pi"} -> top = "t"
          [] piece.form = "decl" -> table.root \/ table.declared \/ table.prolog
          [] piece.form = "close" -> top # piece.name
          [] piece.form \in {"open", "self"} -> RefusesItemElement(table, piece.name)
          [] OTHER -> TRUE

ItemFinished(table) ==
    [table EXCEPT !.items = Append(@, table.item), !.item = NoItem]

SeenInItem(table, name) ==
    (IF Under(table.stack, {"si"}) THEN LossOf(name) ELSE {})
    \union (IF Top(table.stack) # "si" THEN {}
            ELSE CASE name = "t" -> {"direct"}
                   [] name = "r" -> {"run"}
                   [] OTHER -> {})

AfterItemElement(table, piece) ==
    LET next == [table EXCEPT !.root = TRUE, !.stack = Stacked(@, piece),
                              !.item.saw = @ \union SeenInItem(table, piece.name)]
    IN  IF piece.name = "si" /\ piece.form = "self" THEN ItemFinished(next) ELSE next

InTable(table, piece) ==
    LET stack == table.stack
    IN  CASE piece.form = "text" ->
                IF Top(stack) = "t" /\ ~Under(stack, IgnoredNames)
                THEN [table EXCEPT !.item.text = @ \o piece.text]
                ELSE [table EXCEPT !.prolog = @ \/ ~table.root]
          [] piece.form \in {"comment", "pi"} -> [table EXCEPT !.prolog = @ \/ ~table.root]
          [] piece.form = "decl" -> [table EXCEPT !.declared = TRUE]
          [] piece.form = "close" ->
                LET next == [table EXCEPT !.stack = Stacked(@, piece)]
                IN  IF piece.name = "si" THEN ItemFinished(next) ELSE next
          [] OTHER -> AfterItemElement(table, piece)

\* parse_shared_strings_xml; a part without pieces is a part that is not there.
SharedStringItems(part) ==
    LET after[i \in 0..Len(part)] ==
            IF i = 0 THEN NoTable
            ELSE LET table == after[i - 1]
                 IN  IF table = Refused THEN Refused
                     ELSE IF RefusesInTable(table, part[i]) THEN Refused
                     ELSE InTable(table, part[i])
        table == after[Len(part)]
    IN  IF table = Refused THEN Refused
        ELSE IF ~table.root \/ table.stack # << >> THEN Refused
        ELSE table.items

(***************************************************************************)
(* Rows and the beginning of a cell                                        *)
(***************************************************************************)
Loader == [session |-> Session(<< >>, FALSE), row |-> NoRef, lastRow |-> 0,
           lastCell |-> <<0, 0>>, depth |-> 0, cell |-> NoCell, shared |-> << >>]

RefusesRow(loader, piece) ==
    \/ piece.other = "unknown"
    \/ piece.ref # NoRef /\ ~Readable(piece.ref)
    \/ piece.ref # NoRef /\ piece.ref.row <= loader.lastRow

RowBegun(loader, piece) ==
    IF RefusesRow(loader, piece) THEN Refused
    ELSE [loader EXCEPT !.row = piece.ref,
                        !.lastRow = IF piece.ref = NoRef THEN @ ELSE piece.ref.row]

RefusesCell(loader, piece) ==
    \/ piece.style \notin Styles \union {NoStyle}
    \/ piece.other \notin {"", "ph"}
    \/ ~Readable(piece.ref)
    \/ loader.row # NoRef /\ loader.row.row # piece.ref.row
    \/ ~Before(loader.lastCell, Spot(piece.ref))
    \/ piece.type \notin {"", "n", "str", "b", "inlineStr", "e", "s"}

CellBegun(loader, piece) ==
    IF RefusesCell(loader, piece) THEN Refused
    ELSE [loader EXCEPT
             !.lastCell = Spot(piece.ref),
             !.cell = [at |-> Spot(piece.ref), type |-> piece.type, style |-> piece.style,
                       element |-> "", scalar |-> << >>, inline |-> << >>,
                       formula |-> << >>, si |-> "", shared |-> FALSE,
                       runs |-> 0, properties |-> 0, ignored |-> << >>, ignoredText |-> 0,
                       saw |-> IF piece.other = "ph" THEN {"phonetic"} ELSE {}]]

(***************************************************************************)
(* Inside a cell                                                           *)
(***************************************************************************)
IsInline(cell) == cell.type = "inlineStr"
Ignoring(cell) == IsInline(cell) /\ cell.ignored # << >>

\* reject_unsupported_value_shape.
RefusesShape(cell, name) ==
    CASE name = "f" -> cell.type \in {"inlineStr", "s"}
      [] name = "t" -> ~IsInline(cell)
      [] OTHER -> IsInline(cell)

RefusesValueAttributes(piece) ==
    CASE piece.name = "f" -> piece.other = "unknown" \/ piece.si = "bad"
      [] piece.name = "v" -> HasAttributes(piece)
      [] OTHER -> piece.other \notin {"", "space"}

\* remember_value_element.
RefusesAgain(cell, name) ==
    IF name = "t" /\ cell.runs > 0 THEN "direct" \in cell.saw ELSE name \in cell.saw

RefusesValueTag(cell, piece) ==
    IF Ignoring(cell)
    THEN IF piece.name = "t" /\ piece.form = "close" THEN cell.ignoredText = 0
         ELSE cell.ignoredText > 0
    ELSE \/ IsInline(cell) /\ cell.properties > 0
         \/ /\ piece.form # "close"
            /\ \/ RefusesShape(cell, piece.name)
               \/ RefusesValueAttributes(piece)
               \/ RefusesAgain(cell, piece.name)

SeenInValue(cell, piece) ==
    {piece.name}
    \union (IF piece.name = "f" /\ HasAttributes(piece) THEN {"meta"} ELSE {})
    \union (IF piece.name = "t" /\ cell.runs = 0 THEN {"direct"} ELSE {})

AfterValueTag(cell, piece) ==
    IF Ignoring(cell)
    THEN [cell EXCEPT !.ignoredText = IF piece.name = "t" THEN @ + Level(piece) ELSE @]
    ELSE IF piece.form = "close" THEN [cell EXCEPT !.element = ""]
    ELSE [cell EXCEPT
             !.element = IF piece.form = "open" THEN piece.name ELSE @,
             !.saw = @ \union SeenInValue(cell, piece),
             !.shared = @ \/ (piece.name = "f" /\ piece.type = "shared"),
             !.si = IF piece.name = "f" /\ piece.si # "" THEN piece.si ELSE @]

\* consume_cell_metadata, consume_inline_string_metadata.
RefusesMetadata(cell, piece) ==
    LET closing == piece.form = "close"
    IN  \/ ~IsInline(cell)
        \/ /\ piece.name # "is"
           /\ IF Ignoring(cell)
              THEN \/ cell.ignoredText > 0
                   \/ piece.name = "si"
                   \/ closing /\ Last(cell.ignored) # piece.name
              ELSE IF cell.properties > 0 THEN closing /\ piece.name = "r"
              ELSE CASE piece.name \in IgnoredNames -> closing
                     [] piece.name = "rPr" -> closing \/ cell.runs = 0
                     [] piece.name = "r" -> closing /\ cell.runs = 0
                     [] OTHER -> TRUE

AfterMetadata(cell, piece) ==
    IF piece.name = "is" THEN cell
    ELSE IF Ignoring(cell) THEN [cell EXCEPT !.ignored = Stacked(@, piece)]
    ELSE IF cell.properties > 0 THEN [cell EXCEPT !.properties = @ + Level(piece)]
    ELSE CASE piece.name \in IgnoredNames ->
                 [cell EXCEPT !.ignored = Stacked(@, piece),
                              !.saw = @ \union LossOf(piece.name)]
           [] piece.name = "rPr" -> [cell EXCEPT !.properties = @ + Level(piece)]
           [] OTHER -> [cell EXCEPT !.runs = @ + Level(piece), !.saw = @ \union {"run"}]

InCell(loader, piece) ==
    LET cell == loader.cell
    IN  IF IsValueName(piece.name)
        THEN IF RefusesValueTag(cell, piece) THEN Refused
             ELSE [loader EXCEPT !.cell = AfterValueTag(cell, piece)]
        ELSE IF RefusesMetadata(cell, piece) THEN Refused
             ELSE [loader EXCEPT !.cell = AfterMetadata(cell, piece)]

(***************************************************************************)
(* Text and metadata                                                       *)
(***************************************************************************)
RefusesText(loader, ctx, piece) ==
    IF ctx.value # "" THEN ~Ignoring(loader.cell) /\ loader.cell.element = ""
    ELSE /\ piece.name # "blank"
         /\ IF ctx.inCell THEN ~Ignoring(loader.cell)
            ELSE ctx.inData \/ loader.depth = 0

WithText(cell, text) ==
    CASE cell.element = "f" -> [cell EXCEPT !.formula = @ \o text]
      [] cell.element = "v" -> [cell EXCEPT !.scalar = @ \o text]
      [] OTHER -> [cell EXCEPT !.inline = @ \o text]

TextRead(loader, ctx, piece) ==
    IF RefusesText(loader, ctx, piece) THEN Refused
    ELSE IF ctx.value = "" THEN loader
    ELSE IF Ignoring(loader.cell) THEN loader
    ELSE [loader EXCEPT !.cell = WithText(@, piece.text)]

WorksheetMetadata(loader, piece) ==
    IF piece.form = "close" /\ loader.depth = 0 THEN Refused
    ELSE [loader EXCEPT !.depth = @ + Level(piece)]

(***************************************************************************)
(* The end of a cell                                                       *)
(***************************************************************************)
\* materialize_cell_value: the text of its own, or that of the last shared
\* definition before it.
FormulaOf(cell, shared) ==
    IF cell.formula # << >> THEN cell.formula
    ELSE IF cell.shared /\ cell.si \in DOMAIN shared
    THEN LET base == shared[cell.si].base
         IN  TranslatedFormula(shared[cell.si].formula,
                 [rows |-> cell.at[1] - base[1], columns |-> cell.at[2] - base[2]])
    ELSE << >>

SharedString(text, items) ==
    IF text \notin DOMAIN Indexes THEN Refused
    ELSE IF items = Refused THEN Refused
    ELSE IF Indexes[text] >= Len(items) THEN Refused
    ELSE Text(items[Indexes[text] + 1].text)

\* An empty number or boolean is no value.
CachedValue(cell, items) ==
    LET text == cell.scalar
        empty == cell.type \notin {"s", "e"}
                 /\ IF cell.type \in {"str", "inlineStr"} THEN cell.saw \cap {"v", "t"} = {}
                    ELSE text = << >>
    IN  IF empty THEN Blank
        ELSE CASE cell.type = "str" -> Text(text)
               [] cell.type = "inlineStr" -> Text(cell.inline)
               [] cell.type = "b" -> IF text \in {<<"0">>, <<"1">>} THEN Boolean(text[1])
                                     ELSE Refused
               [] cell.type = "e" -> IF text = << >> THEN Refused ELSE Error(text)
               [] cell.type = "s" -> SharedString(text, items)
               [] OTHER -> IF text \in DOMAIN Numerals THEN Number(Numerals[text])
                           ELSE Refused

FormulaValue(formula, cell, cached) ==
    CASE formula # << >> -> Formula(formula)
      [] formula = << >> /\ "meta" \notin cell.saw -> Refused
      [] OTHER -> IF cached = Blank THEN Refused ELSE cached

CellValueOf(cell, shared, items) ==
    IF "f" \in cell.saw
    THEN FormulaValue(FormulaOf(cell, shared), cell, CachedValue(cell, items))
    ELSE CachedValue(cell, items)

\* What CellStoreMaterializationPolicy::RejectKnownLosses rejects.
KnownLosses(cell, items) ==
    (cell.saw \cap {"run", "phonetic", "extension", "meta"})
    \union (IF {"f", "v"} \subseteq cell.saw THEN {"cached"} ELSE {})
    \union (IF cell.type = "s"
            THEN items[Indexes[cell.scalar] + 1].saw \cap {"run", "phonetic", "extension"}
            ELSE {})

Unclosed(cell) ==
    \/ cell.runs # 0 \/ cell.properties # 0
    \/ cell.ignored # << >> \/ cell.ignoredText # 0

\* Mutant of WithDefinition: an index that is defined keeps its definition.
FirstDefinitionStays(shared, cell) ==
    IF cell.shared /\ cell.si # "" /\ cell.formula # << >>
    THEN shared ++ Only(cell.si, [base |-> cell.at, formula |-> cell.formula])
    ELSE shared

WithDefinition(shared, cell) ==
    IF cell.shared /\ cell.si # "" /\ cell.formula # << >>
    THEN Only(cell.si, [base |-> cell.at, formula |-> cell.formula]) ++ shared
    ELSE shared

CellStored(loader, value, items, strict) ==
    LET cell == loader.cell
        next == CellSet(loader.session, cell.at, Styled(value, cell.style))
    IN  IF value = Refused THEN Refused
        ELSE IF strict /\ KnownLosses(cell, items) # {} THEN Refused
        ELSE IF next = Refused THEN Refused
        ELSE [loader EXCEPT !.session = next, !.cell = NoCell,
                            !.shared = WithDefinition(@, cell)]

CellEnded(loader, items, strict) ==
    IF Unclosed(loader.cell) THEN Refused
    ELSE CellStored(loader, CellValueOf(loader.cell, loader.shared, items), items, strict)

(***************************************************************************)
(* Loading                                                                 *)
(***************************************************************************)
\* consume().
Consumed(loader, ctx, kind, piece, items, strict) ==
    CASE kind = "SheetDataStart" -> IF loader.depth # 0 THEN Refused ELSE loader
      [] kind = "RowStart" -> RowBegun(loader, piece)
      [] kind = "CellStart" -> CellBegun(loader, piece)
      [] kind = "CellEnd" -> CellEnded(loader, items, strict)
      [] kind = "CellValueMarkup" -> InCell(loader, piece)
      [] kind = "Metadata" -> IF ctx.inCell THEN InCell(loader, piece)
                              ELSE WorksheetMetadata(loader, piece)
      [] kind = "Other" -> IF piece.form = "text" THEN TextRead(loader, ctx, piece)
                           ELSE IF ctx.inCell THEN Refused ELSE loader
      [] OTHER -> loader

\* At most two events come of a piece.
AfterPiece(loader, ctx, i, piece, items, strict) ==
    LET events == Events(ctx, i, piece)
        after[j \in 0..Len(events)] ==
            IF j = 0 THEN loader
            ELSE LET l == after[j - 1]
                 IN  IF l = Refused THEN Refused
                     ELSE Consumed(l, ctx, events[j].kind, piece, items, strict)
    IN  after[Len(events)]

\* load_cell_store_from_workbook_sheet: the shared strings are read when the
\* first cell needs them.
Loaded(pieces, part, strict) ==
    LET items == SharedStringItems(part)
        after[i \in 0..Len(pieces)] ==
            IF i = 0 THEN [ctx |-> Outset, loader |-> Loader]
            ELSE LET before == after[i - 1]
                     piece == pieces[i]
                 IN  IF before.loader = Refused THEN before
                     ELSE IF Refuses(before.ctx, piece)
                     THEN [before EXCEPT !.loader = Refused]
                     ELSE [ctx |-> After(before.ctx, piece),
                           loader |-> AfterPiece(before.loader, before.ctx, i, piece,
                                                 items, strict)]
        end == after[Len(pieces)]
    IN  IF end.loader = Refused THEN Refused
        ELSE IF RefusesEnd(end.ctx) \/ end.loader.depth # 0 THEN Refused
        ELSE Session(end.loader.session.cells, FALSE)
=============================================================================

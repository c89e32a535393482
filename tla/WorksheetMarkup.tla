--------------------------- MODULE WorksheetMarkup ---------------------------
(***************************************************************************)
(* The markup of a worksheet part and the grammar its two readers enforce: *)
(* the event reader that feeds the streamed rewrite                        *)
(* (src/worksheet_event_reader.cpp) and the scanner that looks for the     *)
(* byte ranges of the cells to patch (src/worksheet_cell_index.cpp).       *)
(*                                                                         *)
(* A worksheet is the sequence of the pieces of markup both readers cut it *)
(* into.  A piece has a form, the local name of its element, the reference *)
(* its r attribute holds and a number of bytes, all that either reader     *)
(* tells apart.                                                            *)
(***************************************************************************)
EXTENDS Integers, Sequences, SequencesExt

(* r attributes: the coordinate and how the text spells it.                *)
Ref(row, col) == [row |-> row, col |-> col, text |-> "upper"]
LowerRef(row, col) == [row |-> row, col |-> col, text |-> "lower"]
NoRef == [row |-> 0, col |-> 0, text |-> "missing"]
BadRef == [row |-> 0, col |-> 0, text |-> "bad"]

Readable(ref) == ref.text \in {"upper", "lower"}
Spot(ref) == <<ref.row, ref.col>>
Before(a, b) == a[1] < b[1] \/ (a[1] = b[1] /\ a[2] < b[2])

Piece(form, name, ref, bytes) == [form |-> form, name |-> name, ref |-> ref, bytes |-> bytes]

IsTag(piece) == piece.form \in {"open", "close", "self"}
IsValueName(name) == name \in {"v", "t", "f"}

(***************************************************************************)
(* Where the reader is                                                     *)
(***************************************************************************)
Outset == [opened |-> FALSE, closed |-> FALSE, seenData |-> FALSE, inData |-> FALSE,
           inRow |-> FALSE, inCell |-> FALSE, value |-> ""]

Outside(ctx) == ~ctx.opened \/ ctx.closed
TopLevel(ctx) == ctx.opened /\ ~ctx.closed /\ ~ctx.inData

RefusesClosing(ctx, name) ==
    CASE IsValueName(name) /\ ctx.inCell -> ctx.value # name
      [] name = "c" -> ~ctx.inCell \/ ctx.value # ""
      [] name = "row" -> ~ctx.inRow \/ ctx.inCell
      [] name = "sheetData" -> ~ctx.inData \/ ctx.inRow \/ ctx.inCell
      [] name = "worksheet" -> ctx.inData \/ ctx.inRow \/ ctx.inCell
      [] OTHER -> FALSE

RefusesOpening(ctx, name) ==
    CASE name = "worksheet" -> ctx.opened
      [] name = "sheetData" -> ctx.seenData \/ ctx.inData
      [] name = "row" -> ~ctx.inData \/ ctx.inRow \/ ctx.inCell
      [] name = "c" -> ~ctx.inRow \/ ctx.inCell
      [] IsValueName(name) /\ ctx.inCell -> ctx.value # ""
      [] OTHER -> FALSE

(* What the event reader throws on.                                        *)
Refuses(ctx, piece) ==
    CASE piece.form = "comment" -> ctx.closed
      [] piece.form = "pi" -> ctx.closed
      [] piece.form = "decl" -> ctx.closed \/ ctx.opened
      [] piece.form = "markup" -> Outside(ctx)
      [] piece.form = "text" -> piece.name # "blank" /\ Outside(ctx)
      [] piece.form = "cut" -> TRUE
      [] OTHER -> \/ IF piece.name = "worksheet" THEN ctx.closed ELSE Outside(ctx)
                  \/ IF piece.form = "close" THEN RefusesClosing(ctx, piece.name)
                                             ELSE RefusesOpening(ctx, piece.name)

AfterClosing(ctx, name) ==
    CASE IsValueName(name) /\ ctx.inCell -> [ctx EXCEPT !.value = ""]
      [] name = "c" -> [ctx EXCEPT !.inCell = FALSE]
      [] name = "row" -> [ctx EXCEPT !.inRow = FALSE]
      [] name = "sheetData" -> [ctx EXCEPT !.inData = FALSE]
      [] name = "worksheet" -> [ctx EXCEPT !.closed = TRUE]
      [] OTHER -> ctx

AfterOpening(ctx, name, selfClosing) ==
    CASE name = "worksheet" -> [ctx EXCEPT !.opened = TRUE, !.closed = selfClosing]
      [] name = "sheetData" -> [ctx EXCEPT !.seenData = TRUE, !.inData = ~selfClosing]
      [] name = "row" -> [ctx EXCEPT !.inRow = ~selfClosing]
      [] name = "c" -> [ctx EXCEPT !.inCell = ~selfClosing]
      [] IsValueName(name) /\ ctx.inCell /\ ~selfClosing -> [ctx EXCEPT !.value = name]
      [] OTHER -> ctx

After(ctx, piece) ==
    CASE piece.form = "close" -> AfterClosing(ctx, piece.name)
      [] piece.form \in {"open", "self"} ->
            AfterOpening(ctx, piece.name, piece.form = "self")
      [] OTHER -> ctx

(* finish(): the document has to be one closed worksheet element.          *)
RefusesEnd(ctx) ==
    ~ctx.opened \/ ~ctx.closed \/ ctx.inData \/ ctx.inRow \/ ctx.inCell \/ ctx.value # ""

(***************************************************************************)
(* The events of one piece.  A self-closing boundary is reported as a      *)
(* start and an end that both carry its markup.  An element inside         *)
(* sheetData that is neither a boundary nor inside a cell is not reported. *)
(***************************************************************************)
StartKind == [worksheet |-> "WorksheetStart", sheetData |-> "SheetDataStart",
            row |-> "RowStart", c |-> "CellStart"]
EndKind == [worksheet |-> "WorksheetEnd", sheetData |-> "SheetDataEnd",
          row |-> "RowEnd", c |-> "CellEnd"]

Event(kind, at, piece) ==
    [kind |-> kind, at |-> at, name |-> piece.name, ref |-> piece.ref,
     self |-> piece.form = "self", closing |-> piece.form = "close"]

Events(ctx, at, piece) ==
    IF ~IsTag(piece) THEN <<Event("Other", at, piece)>>
    ELSE IF piece.name \in DOMAIN StartKind
    THEN (IF piece.form = "close" THEN << >> ELSE <<Event(StartKind[piece.name], at, piece)>>)
         \o (IF piece.form = "open" THEN << >> ELSE <<Event(EndKind[piece.name], at, piece)>>)
    ELSE IF ctx.inCell /\ IsValueName(piece.name) THEN <<Event("CellValueMarkup", at, piece)>>
    ELSE IF ctx.inCell \/ TopLevel(ctx) THEN <<Event("Metadata", at, piece)>>
    ELSE << >>

(***************************************************************************)
(* The scanner that plans byte ranges has the grammar of the event reader, *)
(* copied by hand, and needs a readable reference on every cell.           *)
(***************************************************************************)
ScannerRefuses(ctx, piece) ==
    \/ Refuses(ctx, piece)
    \/ piece.form \in {"open", "self"} /\ piece.name = "c" /\ ~Readable(piece.ref)

ScannerSeesDimension(ctx, piece) ==
    IsTag(piece) /\ piece.name = "dimension" /\ TopLevel(ctx)

=============================================================================

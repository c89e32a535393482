--------------------------- MODULE WorksheetRewrite ---------------------------
(***************************************************************************)
(* PackageEditor's replacement of cells in one worksheet                   *)
(* (replace_worksheet_cells_impl, src/package_editor.cpp): a scan that     *)
(* tries to plan byte ranges, then, when that fails, a pass over the       *)
(* worksheet that analyses the patch and a second one that writes it.      *)
(* Every pass reads the worksheet in chunks cut anywhere, through a window *)
(* of bounded size.                                                        *)
(***************************************************************************)
EXTENDS CellPatch

CONSTANTS
    Requests,     \* [source, size, targets, upsert, entry, related, linked, sizes]
    MaxWindow,    \* package_editor_cell_replacement_event_window_byte_limit
    MaxPayload    \* worksheet_replacement_cell_xml_materialization_byte_limit

ASSUME WindowAssumption == MaxWindow \in Nat \ {0} /\ MaxPayload \in Nat

Refs == [row : Nat, col : Nat, text : {"upper", "lower", "missing", "bad"}]
Forms == {"open", "close", "self", "text", "comment", "pi", "decl", "markup", "cut"}
Markup == Seq([form : Forms, name : STRING, ref : Refs, bytes : Nat])

Extent(pieces) == FoldLeft(+, 0, [i \in DOMAIN pieces |-> pieces[i].bytes])

(* A worksheet is as long as its pieces, what is cut off ends it, and rows *)
(* are numbered from 1.                                                    *)
ASSUME RequestsAssumption ==
    \A r \in Requests :
        /\ r.source \in Markup /\ r.size = Extent(r.source)
        /\ \A i \in 1..(Len(r.source) - 1) : r.source[i].form # "cut"
        /\ r.targets \in Seq([ref : Refs, payload : Markup])
        /\ \A i \in DOMAIN r.targets : Readable(r.targets[i].ref) => r.targets[i].ref.row > 0
        /\ r.upsert \in BOOLEAN /\ r.sizes \subseteq Nat

VARIABLES
    request,
    pass,      \* "start", "index", "analyze", "write" or how it ended
    scan,      \* [at, begin, fed, pending, final, ctx] of the running pass
    plan,      \* the byte ranges planned
    patch,     \* the transformer
    analysis,  \* what the first pass found
    output     \* the rewritten worksheet: its items, and whether the writer is
               \* dropping the content of the old dimension

vars == <<request, pass, scan, plan, patch, analysis, output>>

Passes == {"index", "analyze", "write"}
Endings == {"refused", "failed", "rejected", "indexed", "streamed"}

source == request.source
wanted == Wanted(request.targets)

NoAnalysis == [cells |-> {}, dimension |-> "none"]
Blank == [items |-> << >>, skipping |-> FALSE]
Fresh == [at |-> 0, begin |-> 0, fed |-> 0, pending |-> 0, final |-> FALSE, ctx |-> Outset]

Init ==
    /\ request \in Requests
    /\ pass = "start"
    /\ scan = Fresh
    /\ plan = NoPlan
    /\ patch = Idle
    /\ analysis = NoAnalysis
    /\ output = Blank

(***************************************************************************)
(* The window: the bytes read and not yet cut into pieces                  *)
(***************************************************************************)
Window == scan.fed - scan.begin

(* A text ends where the next piece begins.                                *)
Complete(piece) ==
    IF piece.form = "text" THEN Window > piece.bytes \/ scan.final
    ELSE Window >= piece.bytes /\ (piece.form = "cut" => scan.final)

Starved == scan.at < Len(source) => ~Complete(source[scan.at + 1])
Smaller(a, b) == IF a < b THEN a ELSE b

(* The scanner reads a chunk in place while its window is empty; the event *)
(* reader moves every byte through the window.                             *)
InPlace == pass = "index" /\ Window = 0
TailTooLong == pass = "index" /\ scan.pending = 0 /\ Window > MaxWindow

\* Mutant of WindowFull: the last byte of the window is never used.
WindowAlmostFull == ~InPlace /\ Window + 1 >= MaxWindow

\* Mutant of WindowFull: the loop waits for room that no one makes.
WindowNeverFull == FALSE

WindowFull == ~InPlace /\ Window >= MaxWindow

Filled == [scan EXCEPT !.fed = @ + Smaller(MaxWindow - Window, scan.pending),
                       !.pending = @ - Smaller(MaxWindow - Window, scan.pending)]
FilledInPlace == [scan EXCEPT !.fed = @ + scan.pending, !.pending = 0]

(***************************************************************************)
(* Starting and leaving a pass                                             *)
(***************************************************************************)
Indexable ==
    /\ request.entry = "stored" \/ (request.entry = "deflated" /\ ~request.upsert)
    /\ ~request.related
    /\ request.linked # "fail"

Enter(next) ==
    /\ pass' = next
    /\ scan' = Fresh
    /\ patch' = Idle

End(ending) ==
    /\ pass' = ending
    /\ UNCHANGED <<scan, patch>>

(* A failed plan falls back on the two passes; a failed pass is an error.  *)
Fail ==
    /\ IF pass = "index" THEN Enter("analyze") ELSE End("failed")
    /\ UNCHANGED <<request, plan, analysis, output>>

Start ==
    /\ pass = "start"
    /\ IF request.targets = << >> \/ PlanRefuses(request.targets, MaxPayload) THEN End("refused")
       ELSE Enter(IF Indexable THEN "index" ELSE "analyze")
    /\ UNCHANGED <<request, plan, analysis, output>>

(* A compressed worksheet is inflated to a file before it is planned.      *)
InflateFails ==
    /\ pass = "start" /\ Indexable /\ request.entry = "deflated"
    /\ request.targets # << >> /\ ~PlanRefuses(request.targets, MaxPayload)
    /\ End("failed")
    /\ UNCHANGED <<request, plan, analysis, output>>

(***************************************************************************)
(* Reading                                                                 *)
(***************************************************************************)
ReadChunk ==
    /\ pass \in Passes /\ Starved /\ scan.pending = 0 /\ ~scan.final /\ ~TailTooLong
    /\ \/ \E size \in request.sizes \cup {request.size - scan.fed} :
            /\ 0 < size /\ scan.fed + size <= request.size
            /\ scan' = [scan EXCEPT !.pending = size]
       \/ scan.fed = request.size /\ scan' = [scan EXCEPT !.final = TRUE]
    /\ UNCHANGED <<request, pass, plan, patch, analysis, output>>

(* The entry's bytes turn out damaged, or its file cannot be read.         *)
ReadFails ==
    /\ pass \in Passes /\ Starved /\ scan.pending = 0 /\ ~scan.final
    /\ Fail

Refill ==
    /\ pass \in Passes /\ Starved /\ scan.pending > 0 /\ ~WindowFull
    /\ scan' = IF InPlace THEN FilledInPlace ELSE Filled
    /\ UNCHANGED <<request, pass, plan, patch, analysis, output>>

Overflow ==
    /\ pass \in Passes /\ Starved
    /\ TailTooLong \/ (scan.pending > 0 /\ WindowFull)
    /\ Fail

(***************************************************************************)
(* What each pass does with an action of the transformer                   *)
(***************************************************************************)
IsDimension(action) == action.kind = "Metadata" /\ action.name = "dimension"

(* What the first pass learns: the cells written, for the dimension, and   *)
(* whether the worksheet has a dimension and closes it.                    *)
CellActions(actions) == {a \in ToSet(actions) : a.kind = "CellStart"}

DimensionAfter(found, actions) ==
    CASE \E a \in ToSet(actions) : IsDimension(a) /\ ~a.closing /\ found = "none" ->
            IF \E a \in ToSet(actions) : IsDimension(a) /\ a.self THEN "closed" ELSE "open"
      [] \E a \in ToSet(actions) : IsDimension(a) /\ a.closing /\ found = "open" -> "closed"
      [] OTHER -> found

\* Mutant of Analysed: only cells of the source count for the dimension.
AnalysedSourceCells(actions) ==
    [cells |-> analysis.cells
        \cup {Spot(a.ref) : a \in {c \in CellActions(actions) :
                 Readable(c.ref) /\ c.item # "insert"}},
     dimension |-> DimensionAfter(analysis.dimension, actions)]

Analysed(actions) ==
    [cells |-> analysis.cells
        \cup {Spot(a.ref) : a \in {c \in CellActions(actions) : Readable(c.ref)}},
     dimension |-> DimensionAfter(analysis.dimension, actions)]

UnreadableCell(actions) == \E a \in CellActions(actions) : a.ref.text = "bad"

(* write_worksheet_cell_replacement_action: the dimension is replaced at   *)
(* its opening tag and what it held dropped up to its closing tag; without *)
(* one it is written behind the root.                                      *)
Dimension == Synthetic("dimension", "Metadata", "dimension", NoRef, FALSE)

WrittenAs(action) ==
    CASE action.kind = "WorksheetStart" /\ analysis.dimension = "none" -> <<action, Dimension>>
      [] IsDimension(action) /\ ~action.closing -> <<Dimension>>
      [] OTHER -> <<action>>

Written(actions) ==
    IF output.skipping
    THEN [output EXCEPT !.skipping =
             ~\E a \in ToSet(actions) : IsDimension(a) /\ a.closing]
    ELSE [items |-> output.items \o FlattenSeq([i \in DOMAIN actions |-> WrittenAs(actions[i])]),
          skipping |-> \E a \in ToSet(actions) : IsDimension(a) /\ ~a.closing /\ ~a.self]

Passed ==
    LET piece == source[scan.at + 1]
    IN  [scan EXCEPT !.at = @ + 1, !.begin = @ + piece.bytes, !.ctx = After(@, piece)]

(***************************************************************************)
(* One piece of markup                                                     *)
(***************************************************************************)
ScanPiece ==
    LET piece == source[scan.at + 1]
        next == Planned(plan, wanted, scan.at + 1, piece)
    IN  /\ pass = "index" /\ ~Starved
        /\ IF ScannerRefuses(scan.ctx, piece) \/ next.refused THEN Fail
           ELSE /\ plan' = [next EXCEPT !.dimension = @ \/ ScannerSeesDimension(scan.ctx, piece)]
                /\ scan' = Passed
                /\ UNCHANGED <<request, pass, patch, analysis, output>>

TransformPiece ==
    LET piece == source[scan.at + 1]
        next == Transformed(patch, request.upsert, wanted,
                            Events(scan.ctx, scan.at + 1, piece))
    IN  /\ pass \in {"analyze", "write"} /\ ~Starved
        /\ IF \/ Refuses(scan.ctx, piece) \/ next.refused
              \/ pass = "analyze" /\ UnreadableCell(next.actions)
           THEN Fail
           ELSE /\ patch' = next
                /\ scan' = Passed
                /\ IF pass = "analyze" THEN analysis' = Analysed(next.actions) /\ UNCHANGED output
                                       ELSE output' = Written(next.actions) /\ UNCHANGED analysis
                /\ UNCHANGED <<request, pass, plan>>

(***************************************************************************)
(* The end of a pass                                                       *)
(***************************************************************************)
Ended == scan.final /\ scan.at = Len(source)

EndPlan ==
    /\ pass = "index" /\ Ended
    /\ IF RefusesEnd(scan.ctx) \/ PlanMissing(plan, wanted) # {} \/ ~plan.dimension
       THEN Fail
       ELSE /\ output' = [Blank EXCEPT !.items = RangedOutput(plan, source)]
            /\ End("indexed")
            /\ UNCHANGED <<request, plan, analysis>>

EndAnalysis ==
    /\ pass = "analyze" /\ Ended
    /\ IF RefusesEnd(scan.ctx) \/ analysis.dimension = "open" \/ Missing(patch, wanted) # {}
       THEN Fail
       ELSE Enter("write") /\ UNCHANGED <<request, plan, analysis, output>>

(* The analysis always reports the dimension as dependent metadata, so a   *)
(* policy that fails on dependencies rejects every streamed patch.         *)
EndWrite ==
    /\ pass = "write" /\ Ended
    /\ IF RefusesEnd(scan.ctx) THEN Fail
       ELSE /\ End(IF request.linked = "fail" THEN "rejected" ELSE "streamed")
            /\ UNCHANGED <<request, plan, analysis, output>>

Done == pass \in Endings /\ UNCHANGED vars

Step ==
    \/ Start \/ InflateFails
    \/ ReadChunk \/ ReadFails \/ Refill \/ Overflow
    \/ ScanPiece \/ TransformPiece
    \/ EndPlan \/ EndAnalysis \/ EndWrite

Next == Step \/ Done

Spec == Init /\ [][Next]_vars

(* The call runs on its caller's thread until it returns.                  *)
FairSpec == Spec /\ WF_vars(Step)

(***************************************************************************)
(* What the patch promises                                                 *)
(***************************************************************************)
Rewritten == pass \in {"indexed", "streamed"}

(* The output read back as pieces of markup.                               *)
PieceOf(item) ==
    CASE item.item = "copy" -> source[item.at]
      [] item.item = "opened" -> [source[item.at] EXCEPT !.form = "open"]
      [] item.item = "closed" -> [source[item.at] EXCEPT !.form = "close"]
      [] item.item = "new" -> Piece(IF item.closing THEN "close" ELSE "open",
                                    item.name, item.ref, 1)
      [] OTHER -> Piece("self", item.name, item.ref, 1)

Accepted(pieces) ==
    LET ctx[i \in 0..Len(pieces)] ==
            IF i = 0 THEN Outset ELSE LET before == ctx[i - 1] IN After(before, pieces[i])
    IN  /\ \A i \in DOMAIN pieces : ~Refuses(ctx[i - 1], pieces[i])
        /\ ~RefusesEnd(ctx[Len(pieces)])

IsCell(piece) == piece.name = "c" /\ piece.form \in {"open", "self"}

(* Each cell with the piece of the source it is, or 0 for a payload.       *)
CellsOf(items) ==
    LET cells == SelectSeq(items, LAMBDA item : IsCell(PieceOf(item)))
    IN  [i \in DOMAIN cells |->
            <<Spot(cells[i].ref), IF cells[i].item = "copy" THEN cells[i].at ELSE 0>>]

CopiesOf(items) ==
    LET copies == SelectSeq(items, LAMBDA item : item.item \in {"copy", "opened"})
    IN  [i \in DOMAIN copies |-> copies[i].at]

(***************************************************************************)
(* The reference: cells by coordinate, each target's payload in its place  *)
(* and every other piece of the source once and in order.                  *)
(***************************************************************************)
SourceCells == {at \in DOMAIN source : IsCell(source[at])}
SpotsWanted == {Spot(r) : r \in wanted}

ExpectedCells ==
    LET kept == {<<Spot(source[at].ref), at>> :
                    at \in {a \in SourceCells : Spot(source[a].ref) \notin SpotsWanted}}
    IN  Ranked(kept \cup {<<spot, 0>> : spot \in SpotsWanted},
               LAMBDA a, b : Before(a[1], b[1]))

CellEnd(at) ==
    IF source[at].form = "self" THEN at
    ELSE CHOOSE e \in at..Len(source) :
            /\ source[e].name = "c" /\ source[e].form = "close"
            /\ \A k \in (at + 1)..(e - 1) : ~(source[k].name = "c" /\ source[k].form = "close")

InTarget(at) ==
    \E c \in SourceCells : Spot(source[c].ref) \in SpotsWanted /\ c <= at /\ at <= CellEnd(c)

(* The old dimension, from its opening tag to its closing one.             *)
IsDimensionPiece(at) ==
    \E d \in 1..at :
        /\ source[d].name = "dimension" /\ source[d].form \in {"open", "self"}
        /\ source[d].form = "self" => d = at
        /\ \A k \in d..(at - 1) : source[k].name = "dimension" => source[k].form = "open"

ExpectedCopies ==
    SelectSeq([i \in DOMAIN source |-> i], LAMBDA at : ~InTarget(at) /\ ~IsDimensionPiece(at))

(* Rows and cells that carry their references, in ascending order and      *)
(* spelt as the selectors are.                                             *)
Sorted ==
    LET rows == SelectSeq(source, LAMBDA p : p.name = "row" /\ p.form \in {"open", "self"})
        cells == SelectSeq(source, IsCell)
    IN  /\ \A r \in wanted : r.text = "upper"
        /\ \A i \in DOMAIN rows : rows[i].ref.text = "upper"
        /\ \A i \in DOMAIN cells : cells[i].ref.text = "upper"
        /\ \A i \in 1..(Len(rows) - 1) : rows[i].ref.row < rows[i + 1].ref.row
        /\ \A i \in 1..(Len(cells) - 1) : Before(Spot(cells[i].ref), Spot(cells[i + 1].ref))
        /\ \A at \in SourceCells : \E r \in 1..at :
              /\ source[r].name = "row" /\ source[r].form = "open"
              /\ source[r].ref.row = source[at].ref.row
              /\ \A k \in (r + 1)..at : source[k].name # "row"

Undimensioned(items) ==
    SelectSeq(CopiesOf(items), LAMBDA at : ~IsDimensionPiece(at))

(* Cells and rows that the streamed writer is known to lose or to write    *)
(* twice, see NonTargetsAreKept: those the reader reports with two events, *)
(* and elements it does not report.                                        *)
Plain ==
    LET ctx[i \in 0..Len(source)] ==
            IF i = 0 THEN Outset ELSE LET before == ctx[i - 1] IN After(before, source[i])
    IN  \A at \in DOMAIN source :
            /\ source[at].form = "self" => source[at].name \notin {"row", "c"} \/ InTarget(at)
            /\ Events(ctx[at - 1], at, source[at]) # << >>

(* A dimension holds no elements.  Neither reader checks it, and what an   *)
(* opened dimension holds is not written.                                  *)
DimensionsHoldNoTags ==
    \A d \in DOMAIN source :
        (source[d].name = "dimension" /\ source[d].form = "open") =>
            \E e \in (d + 1)..Len(source) :
                /\ source[e].name = "dimension" /\ source[e].form = "close"
                /\ \A k \in (d + 1)..(e - 1) : ~IsTag(source[k])

(* A sheet whose rows and cells are in order reads, once patched, as the   *)
(* source with each target's payload at its coordinate: no cell twice,     *)
(* none lost, none out of order, and every other piece of markup kept.     *)
(* Both ways of patching promise it: the transformer emits the targets at  *)
(* the right moment of one forward pass (src/worksheet_transformer.cpp:    *)
(* 701-1051), the planner finds the right byte ranges.                     *)
PatchedSheetReads ==
    (Rewritten /\ Sorted /\ Plain /\ DimensionsHoldNoTags) =>
        /\ CellsOf(output.items) = ExpectedCells
        /\ Undimensioned(output.items) = ExpectedCopies

(* The output with the payloads spelt out.                                 *)
PayloadOf(ref) ==
    (CHOOSE t \in ToSet(request.targets) : t.ref = ref).payload

PiecesOf(item) ==
    IF item.item \in {"cell", "insert"}
    THEN PayloadOf(CHOOSE r \in wanted : Spot(r) = Spot(item.ref))
    ELSE <<PieceOf(item)>>

OutputPieces == FlattenSeq([i \in DOMAIN output.items |-> PiecesOf(output.items[i])])

(* A payload is checked as one element, not against the grammar: a cell    *)
(* nested in it or an XML declaration passes.                              *)
InRow(payload) ==
    LET element(form, name) == Piece(form, name, NoRef, 1)
        within(names, form) == [i \in DOMAIN names |-> element(form, names[i])]
    IN  within(<<"worksheet", "sheetData", "row">>, "open") \o payload
        \o within(<<"row", "sheetData", "worksheet">>, "close")

(* Whatever else the source was, a worksheet rewritten with payloads that  *)
(* are cells is one the reader takes again: the next patch of the sheet    *)
(* scans it (make_worksheet_cell_replacement_plan, emit of synthetic       *)
(* elements, src/worksheet_transformer.cpp:309-422, 582-599, 817-1051).    *)
OutputIsAWorksheet ==
    (/\ Rewritten /\ DimensionsHoldNoTags
     /\ \A t \in ToSet(request.targets) : Accepted(InRow(t.payload))) =>
        Accepted(OutputPieces)

(* The dimension written covers every cell of the streamed output, kept,   *)
(* replaced or inserted, and there is one to cover them                    *)
(* (include_dimension_cell, src/package_editor.cpp:4000).                  *)
DimensionCoversCells ==
    pass = "streamed" =>
        /\ \E i \in DOMAIN output.items : output.items[i].item = "dimension"
        /\ \A i \in DOMAIN output.items :
              LET item == output.items[i]
              IN  (IsCell(PieceOf(item)) /\ Readable(item.ref)) =>
                    /\ \E s \in analysis.cells : s[1] <= item.ref.row
                    /\ \E s \in analysis.cells : s[1] >= item.ref.row
                    /\ \E s \in analysis.cells : s[2] <= item.ref.col
                    /\ \E s \in analysis.cells : s[2] >= item.ref.col

(* Only a piece that does not fit the window overflows it: where the       *)
(* chunks were cut does not matter to the passes that decide.  A text      *)
(* needs the byte behind it as well.                                       *)
OnlyLargePiecesOverflow ==
    (pass \in Passes /\ Starved /\ (TailTooLong \/ (scan.pending > 0 /\ WindowFull))) =>
        LET piece == source[scan.at + 1]
        IN  IF piece.form = "text" THEN piece.bytes >= MaxWindow ELSE piece.bytes > MaxWindow

(* Every call returns: the loop that moves bytes through the window ends   *)
(* for every way of cutting the worksheet into chunks                      *)
(* (src/worksheet_event_reader.cpp:740-767).                               *)
ScanEnds == <>(pass \in Endings)

(* A patch leaves every cell it was not asked for as it was, once          *)
(* (tests/test_package_editor_c5_linked.cpp:2022).                         *)
NonTargetsAreKept ==
    (Rewritten /\ Sorted) =>
        /\ CellsOf(output.items) = ExpectedCells
        /\ Undimensioned(output.items) = ExpectedCopies

=============================================================================

------------------------------ MODULE CellPatch ------------------------------
(***************************************************************************)
(* Patching the cells of a worksheet while its events go by                *)
(* (src/worksheet_transformer.cpp), and planning the same patch as byte    *)
(* ranges of the source (src/worksheet_cell_index.cpp and the chunk ranges *)
(* of src/package_editor.cpp).  Pure operators: the transformer's state is *)
(* a record they map to the next one.                                      *)
(***************************************************************************)
EXTENDS WorksheetMarkup, FiniteSets, FiniteSetsExt

(***************************************************************************)
(* A payload is markup too: one cell element, whose elements nest and      *)
(* which nothing but comments, instructions and blanks may surround.  The  *)
(* check knows nothing of the worksheet's grammar.                         *)
(***************************************************************************)
StartsAsCell(payload) ==
    LET first == IF payload # << >> /\ payload[1].name = "blank" THEN Tail(payload) ELSE payload
    IN  first # << >> /\ first[1].name = "c" /\ first[1].form \in {"open", "self"}

PayloadRef(payload) ==
    IF payload[1].name = "blank" THEN payload[2].ref ELSE payload[1].ref

Nested == [stack |-> << >>, closed |-> FALSE, refused |-> FALSE]

AfterNesting(nest, piece) ==
    LET outer == nest.stack = << >>
        popped == Front(nest.stack)
    IN  CASE piece.form = "text" -> [nest EXCEPT !.refused = @ \/ (outer /\ piece.name # "blank")]
          [] piece.form \in {"comment", "pi", "decl"} -> nest
          [] piece.form = "markup" -> [nest EXCEPT !.refused = @ \/ outer \/ piece.name # "cdata"]
          [] piece.form = "cut" -> [nest EXCEPT !.refused = TRUE]
          [] piece.form = "close" ->
                IF outer \/ Last(nest.stack) # piece.name THEN [nest EXCEPT !.refused = TRUE]
                ELSE [nest EXCEPT !.stack = popped, !.closed = popped = << >>]
          [] OTHER ->
                IF nest.closed THEN [nest EXCEPT !.refused = TRUE]
                ELSE IF piece.form = "self" THEN [nest EXCEPT !.closed = outer]
                ELSE [nest EXCEPT !.stack = Append(@, piece.name)]

OneElement(payload) ==
    LET nest[i \in 0..Len(payload)] ==
            IF i = 0 THEN Nested
            ELSE LET before == nest[i - 1]
                 IN  IF before.refused THEN before ELSE AfterNesting(before, payload[i])
    IN  ~nest[Len(payload)].refused /\ nest[Len(payload)].stack = << >>

PayloadBytes(payload) == FoldLeft(LAMBDA n, piece : n + piece.bytes, 0, payload)

(***************************************************************************)
(* make_worksheet_cell_replacement_plan: a target is a selector with a     *)
(* payload of bounded size whose own cell carries the selector's reference.*)
(***************************************************************************)
PlanRefuses(targets, maxPayload) ==
    \E i \in DOMAIN targets :
        LET target == targets[i]
        IN  \/ ~Readable(target.ref)
            \/ PayloadBytes(target.payload) > maxPayload
            \/ ~StartsAsCell(target.payload)
            \/ PayloadRef(target.payload) # target.ref
            \/ ~OneElement(target.payload)
            \/ \E j \in 1..(i - 1) : Spot(targets[j].ref) = Spot(target.ref)

Wanted(targets) == {targets[i].ref : i \in DOMAIN targets}

(***************************************************************************)
(* What the transformer hands to its callback: a piece of the source, a    *)
(* payload, or markup of its own.                                          *)
(***************************************************************************)
Action(item, event) ==
    [item |-> item, at |-> event.at, kind |-> event.kind, name |-> event.name,
     ref |-> event.ref, self |-> event.self, closing |-> event.closing]

Synthetic(item, kind, name, ref, closing) ==
    [item |-> item, at |-> 0, kind |-> kind, name |-> name, ref |-> ref,
     self |-> FALSE, closing |-> closing]

PassThrough(event) == <<Action("copy", event)>>

(* A self-closing boundary rewritten as an opening tag and a closing one.  *)
Expanded(event, end, inside) ==
    <<[Action("opened", event) EXCEPT !.self = FALSE]>>
    \o inside
    \o <<[Action("closed", event) EXCEPT !.kind = end, !.self = FALSE, !.closing = TRUE]>>

(* A finite set as the sequence a strict order gives.                      *)
Ranked(set, Less(_, _)) ==
    [i \in 1..Cardinality(set) |->
        CHOOSE x \in set : Cardinality({y \in set : Less(y, x)}) = i - 1]

InPosition(refs) == Ranked(refs, LAMBDA a, b : Before(Spot(a), Spot(b)))

Inserts(refs) ==
    [i \in 1..Cardinality(refs) |->
        Synthetic("insert", "CellStart", "c", InPosition(refs)[i], FALSE)]

SyntheticRow(refs, row) ==
    <<Synthetic("new", "RowStart", "row", Ref(row, 0), FALSE)>>
    \o Inserts({r \in refs : r.row = row})
    \o <<Synthetic("new", "RowEnd", "row", Ref(row, 0), TRUE)>>

SyntheticRows(refs) ==
    LET rows == Ranked({r.row : r \in refs}, <)
    IN  FlattenSeq([i \in DOMAIN rows |-> SyntheticRow(refs, rows[i])])

SyntheticData(refs) ==
    IF refs = {} THEN << >>
    ELSE <<Synthetic("new", "SheetDataStart", "sheetData", NoRef, FALSE)>>
         \o SyntheticRows(refs)
         \o <<Synthetic("new", "SheetDataEnd", "sheetData", NoRef, TRUE)>>

(***************************************************************************)
(* The transformer's state and its two modes                               *)
(***************************************************************************)
Idle == [matched |-> {}, inserted |-> {}, replacing |-> FALSE, tail |-> FALSE,
         seenData |-> FALSE, suppress |-> "", row |-> 0, refused |-> FALSE, actions |-> << >>]

Does(patch, actions) == [patch EXCEPT !.actions = @ \o actions]
Inserting(patch, refs, actions) ==
    [patch EXCEPT !.inserted = @ \cup refs, !.actions = @ \o actions]

Pending(patch, wanted) == wanted \ (patch.matched \cup patch.inserted)

(* The targets taken while the first pending one satisfies a condition.    *)
Leading(refs, Taken(_)) ==
    {r \in refs : \A o \in refs : (o = r \/ Before(Spot(o), Spot(r))) => Taken(o)}

(* consume_replacement_event: only cells whose reference is spelt as the   *)
(* selector are replaced, and the search ends once every target was met    *)
(* and a cell behind the last one is seen.                                 *)
LastWanted(wanted) == CHOOSE r \in wanted : \A o \in wanted : ~Before(Spot(r), Spot(o))

EndsSearch(patch, wanted, event) ==
    \/ patch.tail
    \/ /\ wanted \subseteq patch.matched
       /\ Readable(event.ref) /\ Before(Spot(LastWanted(wanted)), Spot(event.ref))

Replacing(patch, wanted, event) ==
    IF event.kind = "CellStart" /\ ~EndsSearch(patch, wanted, event) /\ event.ref \in wanted
    THEN [Does(patch, <<Action("cell", event)>>) EXCEPT
             !.matched = @ \cup {event.ref}, !.replacing = TRUE]
    ELSE LET met == [patch EXCEPT !.tail = @ \/ (event.kind = "CellStart"
                                                 /\ EndsSearch(patch, wanted, event))]
         IN  IF patch.replacing THEN [met EXCEPT !.replacing = event.kind # "CellEnd"]
                                ELSE Does(met, PassThrough(event))

(* WorksheetCellUpsertActionEmitter, one operator per consumed event.      *)
UpsertWorksheetStart(patch, pending, event) ==
    IF event.self /\ pending # {}
    THEN [Inserting(patch, pending,
                    Expanded(event, "WorksheetEnd", SyntheticData(pending))) EXCEPT
             !.suppress = "WorksheetEnd"]
    ELSE Does(patch, PassThrough(event))

UpsertWorksheetEnd(patch, pending, event) ==
    IF patch.suppress = event.kind THEN [patch EXCEPT !.suppress = ""]
    ELSE IF patch.seenData THEN Does(patch, PassThrough(event))
    ELSE Inserting(patch, pending, SyntheticData(pending) \o PassThrough(event))

UpsertDataStart(patch, pending, event) ==
    IF event.self /\ pending # {}
    THEN [Inserting(patch, pending,
                    Expanded(event, "SheetDataEnd", SyntheticRows(pending))) EXCEPT
             !.seenData = TRUE, !.suppress = "SheetDataEnd"]
    ELSE [Does(patch, PassThrough(event)) EXCEPT !.seenData = TRUE]

\* Mutant of UpsertDataEnd: the end event of an expanded sheetData is passed on.
UnsuppressedDataEnd(patch, pending, event) ==
    IF event.self THEN Does(patch, PassThrough(event))
    ELSE Inserting(patch, pending, SyntheticRows(pending) \o PassThrough(event))

UpsertDataEnd(patch, pending, event) ==
    IF patch.suppress = event.kind THEN [patch EXCEPT !.suppress = ""]
    ELSE IF event.self THEN Does(patch, PassThrough(event))
    ELSE Inserting(patch, pending, SyntheticRows(pending) \o PassThrough(event))

(* A row without a number inserts nothing by itself.                       *)
UpsertRowStart(patch, pending, event) ==
    LET row == event.ref.row
        earlier == Leading(pending, LAMBDA r : r.row < row)
        within == {r \in pending : r.row = row}
        before == Inserting(patch, earlier, SyntheticRows(earlier))
    IN  CASE event.ref.text = "bad" -> [patch EXCEPT !.refused = TRUE]
          [] event.ref.text = "missing" -> [Does(patch, PassThrough(event)) EXCEPT !.row = 0]
          [] OTHER ->
                IF event.self /\ within # {}
                THEN [Inserting(before, within, Expanded(event, "RowEnd", Inserts(within)))
                         EXCEPT !.row = 0, !.suppress = "RowEnd"]
                ELSE [Does(before, PassThrough(event)) EXCEPT !.row = row]

UpsertRowEnd(patch, pending, event) ==
    LET within == Leading(pending, LAMBDA r : r.row = patch.row)
    IN  IF patch.suppress = event.kind THEN [patch EXCEPT !.suppress = ""]
        ELSE [Inserting(patch, within, Inserts(within) \o PassThrough(event)) EXCEPT !.row = 0]

\* Mutant of UpsertCellStart: missing cells wait for the end of their row.
PatientCellStart(patch, pending, event) ==
    IF event.ref.text = "bad" THEN [patch EXCEPT !.refused = TRUE]
    ELSE IF event.ref \in pending
    THEN [Does(patch, <<Action("cell", event)>>) EXCEPT
             !.matched = @ \cup {event.ref}, !.replacing = TRUE]
    ELSE Does(patch, PassThrough(event))

UpsertCellStart(patch, pending, event) ==
    LET row == IF patch.row = 0 THEN event.ref.row ELSE patch.row
        ahead == IF Readable(event.ref) /\ row = event.ref.row
                 THEN Leading(pending, LAMBDA r : r.row = row /\ r.col < event.ref.col)
                 ELSE {}
        before == Inserting(patch, ahead, Inserts(ahead))
    IN  IF event.ref.text = "bad" THEN [patch EXCEPT !.refused = TRUE]
        ELSE IF event.ref \in pending
        THEN [Does(before, <<Action("cell", event)>>) EXCEPT
                 !.matched = @ \cup {event.ref}, !.replacing = TRUE]
        ELSE Does(before, PassThrough(event))

Upserting(patch, wanted, event) ==
    LET pending == Pending(patch, wanted)
    IN  IF patch.replacing THEN [patch EXCEPT !.replacing = event.kind # "CellEnd"]
        ELSE CASE event.kind = "WorksheetStart" -> UpsertWorksheetStart(patch, pending, event)
               [] event.kind = "WorksheetEnd" -> UpsertWorksheetEnd(patch, pending, event)
               [] event.kind = "SheetDataStart" -> UpsertDataStart(patch, pending, event)
               [] event.kind = "SheetDataEnd" -> UpsertDataEnd(patch, pending, event)
               [] event.kind = "RowStart" -> UpsertRowStart(patch, pending, event)
               [] event.kind = "RowEnd" -> UpsertRowEnd(patch, pending, event)
               [] event.kind = "CellStart" -> UpsertCellStart(patch, pending, event)
               [] OTHER -> Does(patch, PassThrough(event))

Consumed(patch, upsert, wanted, event) ==
    IF upsert THEN Upserting(patch, wanted, event) ELSE Replacing(patch, wanted, event)

(* The events of one piece, at most two; an exception leaves the second.   *)
Transformed(patch, upsert, wanted, events) ==
    LET idle == [patch EXCEPT !.actions = << >>]
        first == Consumed(idle, upsert, wanted, events[1])
    IN  IF events = << >> THEN idle
        ELSE IF Len(events) = 1 \/ first.refused THEN first
        ELSE Consumed(first, upsert, wanted, events[2])

(* build_summary                                                           *)
Missing(patch, wanted) == wanted \ (patch.matched \cup patch.inserted)

(***************************************************************************)
(* The planner of byte ranges: cells are met by coordinate, however they   *)
(* are spelt, and a target met twice ends the plan.                        *)
(***************************************************************************)
NoPlan == [found |-> << >>, active |-> <<0, NoRef>>, dimension |-> FALSE, refused |-> FALSE]

TargetAt(wanted, ref) == {r \in wanted : Spot(r) = Spot(ref)}

Ranged(plan, wanted, ref, first, last) ==
    LET hit == TargetAt(wanted, ref)
        found == [r \in DOMAIN plan.found \cup hit |->
                    IF r \in hit THEN <<first, last>> ELSE plan.found[r]]
    IN  IF hit \cap DOMAIN plan.found # {} THEN [plan EXCEPT !.refused = TRUE]
        ELSE [plan EXCEPT !.found = found]

Planned(plan, wanted, at, piece) ==
    IF piece.name # "c" \/ ~IsTag(piece) THEN plan
    ELSE CASE piece.form = "self" -> Ranged(plan, wanted, piece.ref, at, at)
           [] piece.form = "open" -> [plan EXCEPT !.active = <<at, piece.ref>>]
           [] OTHER -> [Ranged(plan, wanted, plan.active[2], plan.active[1], at) EXCEPT
                           !.active = <<0, NoRef>>]

PlanMissing(plan, wanted) == wanted \ DOMAIN plan.found

(* Pieces of the source between the targets, and a payload at each target. *)
CopyOf(source, at) ==
    [item |-> "copy", at |-> at, kind |-> "Other", name |-> source[at].name,
     ref |-> source[at].ref, self |-> source[at].form = "self",
     closing |-> source[at].form = "close"]

RangedOutput(plan, source) ==
    LET hits == DOMAIN plan.found
        inside(at) == {r \in hits : plan.found[r][1] <= at /\ at <= plan.found[r][2]}
    IN  FlattenSeq([at \in DOMAIN source |->
            CASE inside(at) = {} -> <<CopyOf(source, at)>>
              [] \E r \in hits : plan.found[r][1] = at ->
                    <<Synthetic("cell", "CellStart", "c",
                                CHOOSE r \in hits : plan.found[r][1] = at, FALSE)>>
              [] OTHER -> << >>])

=============================================================================

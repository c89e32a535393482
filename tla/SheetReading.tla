---------------------------- MODULE SheetReading ----------------------------
(***************************************************************************)
(* What the cells of a worksheet are: the reference CellLoader is checked  *)
(* against.  It looks at the whole part at once, as a tree of elements,    *)
(* and counts nothing while it reads.                                      *)
(***************************************************************************)
EXTENDS CellLoader

\* Of each piece, the elements around it: those opened and not closed before.
Elements(pieces) ==
    LET depth == [i \in 0..Len(pieces) |->
                     Cardinality({j \in 1..i : pieces[j].form = "open"})
                     - Cardinality({j \in 1..i : pieces[j].form = "close"})]
    IN  [i \in DOMAIN pieces |->
            {j \in 1..(i - 1) : pieces[j].form = "open"
                                /\ \A k \in j..(i - 1) : depth[k] >= depth[j]}]

\* Every closing tag closes the innermost open element, and none stays open.
WellNested(pieces) ==
    LET around == Elements(pieces)
    IN  /\ \A i \in DOMAIN pieces :
               pieces[i].form = "close" =>
                   /\ around[i] # {}
                   /\ pieces[Max(around[i])].name = pieces[i].name
        /\ Cardinality({i \in DOMAIN pieces : pieces[i].form = "open"})
               = Cardinality({i \in DOMAIN pieces : pieces[i].form = "close"})

\* An element that opens or is empty.
Begins(pieces, i, name) == pieces[i].name = name /\ pieces[i].form \in {"open", "self"}

Plain(pieces, around, i) == \A j \in around[i] : pieces[j].name \notin IgnoredNames

\* The text directly within elements of a name in element e, but for phonetic
\* text and extensions.
TextWithin(pieces, around, e, name) ==
    LET texts == {i \in DOMAIN pieces :
                     /\ pieces[i].form = "text" /\ e \in around[i]
                     /\ pieces[Max(around[i])].name = name
                     /\ Plain(pieces, around, i)}
    IN  FlattenSeq([i \in DOMAIN pieces |-> IF i \in texts THEN pieces[i].text ELSE << >>])

\* The elements of a name within element e.
ElementsWithin(pieces, around, e, name) ==
    {i \in DOMAIN pieces :
        Begins(pieces, i, name) /\ e \in around[i] /\ Plain(pieces, around, i)}

\* The items of the shared strings, as their text and whether it is all there
\* is to them.
ItemTexts(part) ==
    LET around == Elements(part)
        items == {i \in DOMAIN part : Begins(part, i, "si")}
        Nth(n) == CHOOSE i \in items : Cardinality({j \in items : j <= i}) = n
    IN  [n \in 1..Cardinality(items) |->
            [text |-> TextWithin(part, around, Nth(n), "t"),
             whole |-> \A i \in DOMAIN part : Nth(n) \in around[i] =>
                           part[i].name \notin {"r"} \union IgnoredNames]]

CellsIn(pieces) == {i \in DOMAIN pieces : Begins(pieces, i, "c")}

\* The shared definition a cell takes part in: the last one before it.
SharedDefinitions(pieces, around, c, si) ==
    {d \in CellsIn(pieces) :
        /\ d < c
        /\ \E f \in ElementsWithin(pieces, around, d, "f") :
               pieces[f].type = "shared" /\ pieces[f].si = si
        /\ TextWithin(pieces, around, d, "f") # << >>}

FormulaRead(pieces, around, c) ==
    LET formulas == ElementsWithin(pieces, around, c, "f")
        own == TextWithin(pieces, around, c, "f")
        f == CHOOSE f \in formulas : TRUE
        definitions == SharedDefinitions(pieces, around, c, pieces[f].si)
        d == Max(definitions)
    IN  IF formulas = {} \/ own # << >> THEN own
        ELSE IF pieces[f].type # "shared" \/ pieces[f].si = "" \/ definitions = {} THEN << >>
        ELSE TranslatedFormula(TextWithin(pieces, around, d, "f"),
                 [rows |-> pieces[c].ref.row - pieces[d].ref.row,
                  columns |-> pieces[c].ref.col - pieces[d].ref.col])

ValueRead(pieces, around, c, part) ==
    LET type == pieces[c].type
        scalar == TextWithin(pieces, around, c, "v")
        Has(name) == ElementsWithin(pieces, around, c, name) # {}
    IN  CASE type = "inlineStr" ->
                IF Has("t") THEN Text(TextWithin(pieces, around, c, "t")) ELSE Blank
          [] type = "str" -> IF Has("v") THEN Text(scalar) ELSE Blank
          [] OTHER ->
                IF scalar = << >> THEN Blank
                ELSE CASE type = "b" -> Boolean(scalar[1])
                       [] type = "e" -> Error(scalar)
                       [] type = "s" -> Text(ItemTexts(part)[Indexes[scalar] + 1].text)
                       [] OTHER -> Number(Numerals[scalar])

CellRead(pieces, around, c, part) ==
    LET formula == FormulaRead(pieces, around, c)
    IN  Styled(IF formula # << >> THEN Formula(formula)
               ELSE ValueRead(pieces, around, c, part),
               pieces[c].style)

\* The cells of a worksheet, by position.
SheetRead(pieces, part) ==
    LET around == Elements(pieces)
        At(p) == CHOOSE c \in CellsIn(pieces) : Spot(pieces[c].ref) = p
    IN  [p \in {Spot(pieces[c].ref) : c \in CellsIn(pieces)} |->
            CellRead(pieces, around, At(p), part)]

\* Each cell at a place of its own, one formula, one value and one form of
\* text in it, and no markup within a text.
Unambiguous(pieces) ==
    LET around == Elements(pieces)
        Within1(c, name) == Cardinality(ElementsWithin(pieces, around, c, name)) <= 1
    IN  /\ \A c, d \in CellsIn(pieces) : c # d => Spot(pieces[c].ref) # Spot(pieces[d].ref)
        /\ \A c \in CellsIn(pieces) :
               /\ Within1(c, "f") /\ Within1(c, "v")
               /\ ElementsWithin(pieces, around, c, "r") = {} => Within1(c, "t")
        /\ \A i \in DOMAIN pieces :
               IsTag(pieces[i]) /\ around[i] # {} /\ pieces[i].form # "close" =>
                   ~IsValueName(pieces[Max(around[i])].name)

\* Nothing of a cell is lost with the store's kinds of values: no runs of rich
\* text, no phonetic text or extension, no shared or array formula and no
\* result beside a formula.
NothingLost(pieces, part) ==
    LET around == Elements(pieces)
    IN  \A c \in CellsIn(pieces) :
            LET inner == {i \in DOMAIN pieces : IsTag(pieces[i]) /\ c \in around[i]}
                names == {pieces[i].name : i \in inner}
            IN  /\ names \cap ({"r"} \union IgnoredNames) = {} /\ pieces[c].other # "ph"
                /\ \A i \in inner : pieces[i].name = "f" => ~HasAttributes(pieces[i])
                /\ ~({"f", "v"} \subseteq names)
                /\ pieces[c].type = "s" =>
                       ItemTexts(part)[Indexes[TextWithin(pieces, around, c, "v")] + 1].whole
=============================================================================

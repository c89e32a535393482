---------------------------- MODULE MCCellGrid ----------------------------
(***************************************************************************)
(* CellGrid on two sheets of three rows and two columns: three packages    *)
(* that are edited, and many whose first sheet is only opened.             *)
(***************************************************************************)
EXTENDS CellGrid

CONSTANTS MaxEdits      \* how many calls change a sheet of an edited package

A1 == Address(1, 1, FALSE, FALSE)
A2 == Address(2, 1, FALSE, FALSE)
A3 == Address(3, 1, FALSE, FALSE)
B2Fixed == Address(2, 2, TRUE, TRUE)
B3FixedRow == Address(3, 2, TRUE, FALSE)
Colon == Symbol("colon")
Plus == Symbol("other")

\* SUM(A1:A3), $B$2+'other'!A2, A2(2:$3), A:$B+"text"+B$3
SumOfRange == <<Word("SUM"), Symbol("paren"), A1, Colon, A3>>
FixedAndOther == <<B2Fixed, Plus, Quoted("other"), Symbol("bang"), A2>>
CallOfRows == <<A2, Symbol("paren"), RowWord(2, FALSE), Colon, RowWord(3, TRUE)>>
ColumnsAndText == <<ColumnWord(1, FALSE), Colon, ColumnWord(2, TRUE), Plus,
                    Symbol("text"), Plus, B3FixedRow>>

(***************************************************************************)
(* Markup as other programs write it                                       *)
(***************************************************************************)
Tag(form, name, attributes) == attributes @@ Markup(form, name)
Open(name) == Markup("open", name)
Close(name) == Markup("close", name)
Self(name) == Markup("self", name)
Wrap(name, attributes, content) ==
    <<Tag("open", name, attributes)>> \o content \o <<Close(name)>>
Letters(text) == TextMarkup(text)
V(text) == Element("v", Letters(text))
T(text) == Element("t", Letters(text))
Is(content) == Element("is", content)
SharedF(si, text) == Wrap("f", [type |-> "shared", si |-> si], Letters(text))
Run(text) == Element("r", <<Open("rPr"), Self("b"), Close("rPr")>> \o T(text))
Phonetic(text) == Element("rPh", T(text))
Extension(content) == Element("extLst", Element("ext", content))

\* What a cell can be, by its attributes and its content.
Form(type, style, content) == [attributes |-> [type |-> type, style |-> style],
                               content |-> content]
Forms ==
    <<Form("", NoStyle, V(<<"2.0">>)), Form("n", "bold", V(<<"x">>)),
     Form("", "bold", << >>), Form("", NoStyle, V(<< >>) \o V(<<"1">>)),
     Form("str", NoStyle, V(<< >>)), Form("b", NoStyle, V(<<"1">>)),
     Form("b", NoStyle, V(<<"2">>)), Form("e", NoStyle, V(<<"x">>)),
     Form("e", NoStyle, << >>), Form("", "gone", << >>), Form("d", NoStyle, V(<<"1">>)),
     Form("s", NoStyle, V(<<"0">>)), Form("s", NoStyle, V(<<"1">>)),
     Form("s", NoStyle, V(<<"2">>)), Form("s", NoStyle, << >>),
     Form("inlineStr", "bold", Is(T(<<"x">>))),
     Form("inlineStr", NoStyle, Is(Run(<<"x">>) \o Run(<<"y">>))),
     Form("inlineStr", NoStyle, Is(T(<<"x">>) \o Run(<<"y">>))),
     Form("inlineStr", NoStyle, Is(Phonetic(<<"y">>) \o T(<<"x">>) \o <<Self("phoneticPr")>>)),
     Form("inlineStr", NoStyle, Is(T(<<"x">>) \o Extension(Phonetic(<<"y">>) \o Letters(<<"z">>)))),
     Form("inlineStr", NoStyle, Is(<<Open("r")>> \o T(<<"x">>))),
     Form("inlineStr", NoStyle, Is(Wrap("rPh", << >>, Element("rPr", T(<<"y">>)) \o T(<<"z">>))
                                   \o T(<<"x">>))),
     Form("", NoStyle, Element("f", Letters(<<A2>>)) \o V(<<"2">>)),
     Form("str", NoStyle, SharedF("0", <<A2, Plus, B3FixedRow>>)),
     Form("", NoStyle, SharedF("0", <<A1>>) \o V(<<"1">>)),
     Form("", NoStyle, SharedF("0", << >>) \o V(<<"2">>)),
     Form("", NoStyle, SharedF("0", << >>)),
     Form("b", NoStyle, Wrap("f", [type |-> "array"], << >>) \o V(<<"0">>)),
     Form("", NoStyle, Element("f", << >>) \o V(<<"2">>)),
     Form("", NoStyle, <<Markup("comment", "x")>> \o V(<<"2">>)),
     Form("", NoStyle, Letters(<<"x">>) \o V(<<"2">>))>>

CellOf(form, row, col) ==
    Wrap("c", [ref |-> Ref(row, col)] @@ form.attributes, form.content)
RowOf(row, content) == Wrap("row", [ref |-> Ref(row, 0)], content)
SheetOf(content) ==
    Element("worksheet", Element("sheetData", content))

\* Two cells of any form, the second in another row and column.
Pair(f, g) == SheetOf(RowOf(1, CellOf(f, 1, 1)) \o RowOf(3, CellOf(g, 3, 2)))

SharedOnce == Form("", NoStyle, SharedF("0", <<A2, Plus, B3FixedRow>>))
SharedUse == Form("", NoStyle, SharedF("0", << >>) \o V(<<"2">>))
Two == Form("", NoStyle, V(<<"2">>))
NoRow(content) == Element("row", content)

\* Definitions that are used before, between and after; rows and cells out of
\* order, twice or without a number; text and metadata around them.
Arrangements ==
    <<SheetOf(RowOf(1, CellOf(SharedOnce, 1, 1) \o CellOf(SharedUse, 1, 2))
             \o RowOf(2, CellOf(Form("", NoStyle, SharedF("0", <<A1>>)), 2, 1)
                         \o CellOf(SharedUse, 2, 2))),
     SheetOf(RowOf(1, CellOf(SharedUse, 1, 1))
             \o RowOf(2, CellOf(SharedOnce, 2, 1) \o CellOf(SharedUse, 2, 2))),
     SheetOf(RowOf(1, CellOf(SharedOnce, 1, 1)
                      \o CellOf(Form("", NoStyle, SharedF("1", << >>) \o V(<<"2">>)), 1, 2))),
     SheetOf(RowOf(1, CellOf(Two, 1, 2) \o CellOf(Two, 1, 1))),
     SheetOf(RowOf(1, CellOf(Two, 1, 1) \o CellOf(Two, 1, 1))),
     SheetOf(RowOf(2, CellOf(Two, 2, 1)) \o RowOf(1, CellOf(Two, 1, 1))),
     SheetOf(RowOf(2, << >>) \o RowOf(2, CellOf(Two, 2, 1))),
     SheetOf(NoRow(CellOf(Two, 1, 1)) \o NoRow(CellOf(Two, 1, 2))),
     SheetOf(NoRow(CellOf(Two, 1, 1)) \o RowOf(1, CellOf(Two, 1, 2))),
     SheetOf(RowOf(2, CellOf(Two, 1, 1))),
     SheetOf(RowOf(1, Letters(<<"x">>) \o CellOf(Two, 1, 1))),
     SheetOf(Wrap("row", [other |-> "unknown"], << >>)),
     SheetOf(RowOf(1, <<Tag("self", "c", [ref |-> LowerRef(1, 1), other |-> "ph"])>>)),
     SheetOf(RowOf(1, <<Tag("self", "c", [ref |-> BadRef])>>)),
     Element("worksheet", <<Open("cols")>> \o Element("sheetData", << >>) \o <<Close("cols")>>),
     Element("worksheet", Element("cols", Letters(<<"x">>)) \o <<Self("sheetData")>>),
     Element("worksheet", <<Self("sheetData"), Open("cols")>>),
     Element("worksheet", Letters(<<"x">>) \o <<Self("sheetData")>>)>>

Si(content) == Element("si", content)
Sst(content) == Element("sst", content)
Table == Sst(Si(T(<<"x">>)) \o Si(Run(<<"x">>) \o Run(<<"y">>)))

\* The shared strings are read when the first cell refers to them.
Tables ==
    <<<< >>, Sst(<<Self("si")>> \o Si(T(<<"x">>) \o T(<<"y">>))),
     Sst(Si(Phonetic(<<"y">>) \o T(<<"x">>)) \o Si(Extension(T(<<"y">>)) \o T(<<"x">>))),
     Sst(Si(T(<<"x">>) \o Run(<<"y">>))), Sst(Si(Letters(<<"x">>))), Sst(T(<<"x">>)),
     Sst(Si(Si(T(<<"x">>)))), Si(T(<<"x">>)), <<Open("sst"), Open("si")>>,
     Sst(Si(<<Open("t"), Markup("comment", "x"), Close("t")>>)),
     <<Markup("comment", "x"), Markup("decl", "xml")>> \o Table,
     <<Markup("decl", "xml")>> \o Table \o <<Self("sst")>>,
     Sst(Si(Run(<<"y">>)) \o Si(T(<<"x">>)) \o <<Self("phoneticPr")>>)>>

UsesNone == SheetOf(RowOf(1, CellOf(Two, 1, 1)))
Uses ==
    <<SheetOf(RowOf(1, CellOf(Form("s", NoStyle, V(<<"0">>)), 1, 1)
                       \o CellOf(Form("s", "bold", V(<<"1">>)), 1, 2))),
      SheetOf(RowOf(1, CellOf(Form("s", NoStyle, V(<<"1">>)), 1, 1))),
      UsesNone>>

Opening(sheet, part) ==
    [sheets |-> ("left" :> sheet) @@ ("right" :> UsesNone), strings |-> part, edits |-> 0]

(***************************************************************************)
(* The packages that are edited                                            *)
(***************************************************************************)
Edited(left, right, part, bound) ==
    [sheets |-> ("left" :> left) @@ ("right" :> right), strings |-> part, edits |-> bound]

Counted(count, unique, items) ==
    Wrap("sst", [count |-> count, uniqueCount |-> unique], items)

StyledAs(style, row, col) == <<Tag("self", "c", [ref |-> Ref(row, col), style |-> style])>>

\* A worksheet as the library itself writes it.
Standalone ==
    <<Markup("decl", "xml"), Open("worksheet"),
      Tag("self", "dimension", [range |-> [first |-> <<1, 1>>, last |-> <<2, 2>>]])>>
    \o Element("sheetData",
           RowOf(1, StyledAs("thin", 1, 1))
           \o RowOf(2, CellOf(Form("e", NoStyle, V(<<"a">>)), 2, 2)))
    \o <<Close("worksheet")>>

\* Items with runs and without; cells that use them, between an old dimension
\* and other metadata.
RichTable == Counted(4, 3, Si(Run(<<"a">>) \o Run(<<"b", "c">>)) \o Si(T(<<"x">>)) \o Si(T(<<"a">>)))
UsesItems ==
    <<Markup("decl", "xml"), Markup("comment", "x")>>
    \o Element("worksheet",
           Element("dimension", << >>) \o Element("cols", <<Self("col")>>)
           \o Element("sheetData",
                  RowOf(1, CellOf(Form("", "bold", Element("f", Letters(FixedAndOther))), 1, 2))
                  \o RowOf(2, CellOf(Form("", NoStyle, Element("f", Letters(CallOfRows))), 2, 1)
                              \o CellOf(Form("s", NoStyle, V(<<"2">>)), 2, 2)))
           \o <<Self("pageMargins")>>)
NoDimension ==
    Element("worksheet",
        <<Self("sheetPr")>>
        \o Element("sheetData",
               RowOf(2, CellOf(Form("", "thin", Element("f", Letters(ColumnsAndText))), 2, 1))))

\* Worksheets without data or with an empty element for it.
EmptyData ==
    Element("worksheet", <<Self("dimension"), Self("sheetData")>> \o Element("cols", << >>))
NoData == Element("worksheet", Element("cols", <<Self("col")>>))

\* In the first package no text can be appended, as the counts are missing.
EditedPackages ==
    <<Edited(SheetOf(RowOf(1, CellOf(Form("", NoStyle, Element("f", Letters(SumOfRange))), 1, 1))
                     \o RowOf(2, CellOf(Form("s", "bold", V(<<"1">>)), 2, 1))),
             Standalone, Table, MaxEdits),
      Edited(UsesItems, NoDimension, RichTable, MaxEdits),
      Edited(EmptyData, NoData, Counted(0, 0, << >>), 1)>>

\* What combines the members of two sequences, one after the other.
Combined(first, second, Combine(_, _)) ==
    FlattenSeq([i \in DOMAIN first |-> [j \in DOMAIN second |-> Combine(first[i], second[j])]])

AllPackages ==
    EditedPackages
    \o Combined(Forms, Forms, LAMBDA f, g : Opening(Pair(f, g), Table))
    \o Combined(Arrangements, <<Table>>, Opening)
    \o Combined(Uses, Tables, Opening)

MCPackages == AllPackages       \* TLC evaluates a definition of the module once
MCSheets == {"left", "right"}
MCStyles == {"bold", "thin"}
MCNumerals == (<<"0">> :> "0") @@ (<<"1">> :> "1") @@ (<<"2">> :> "2") @@ (<<"2.0">> :> "2")
MCIndexes ==
    (<<"0">> :> 0) @@ (<<"1">> :> 1) @@ (<<"2">> :> 2) @@ (<<"3">> :> 3) @@ (<<"4">> :> 4)
        @@ (<<"5">> :> 5) @@ (<<"6">> :> 6)
MCValues == {Text(<<"a", "b", "c">>), Formula(<<A2>>)}
MCRows == {<<Blank>>, <<Text(<<"d">>), Number("2")>>}
MCBatches ==
    {<<[at |-> <<1, 1>>, value |-> Text(<<"a", "b", "c">>)], [at |-> <<1, 1>>, value |-> Blank],
       [at |-> <<3, 1>>, value |-> Text(<<"e">>)]>>}
MCRanges ==
    {[first |-> <<1, 1>>, last |-> <<2, 1>>], [first |-> <<1, 1>>, last |-> <<2, 2>>],
     [first |-> <<2, 1>>, last |-> <<3, 2>>]}
=============================================================================

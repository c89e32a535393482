----------------------------- MODULE WriterParts -----------------------------
(***************************************************************************)
(* The parts of a streamed workbook beside its rows                        *)
(* (src/src/streaming_writer.cpp): hyperlinks, tables, images, conditional *)
(* formats, validations and cell styles are recorded per sheet, or per     *)
(* workbook, and close() makes numbered parts and relationships of them.   *)
(* Parts are numbered over all sheets, relationship ids within the part    *)
(* that holds them, and both are counted again wherever they are written.  *)
(*                                                                         *)
(* A call is what append_row is in StreamingWriter, which this module      *)
(* extends: one step that happens as a whole or is refused.                *)
(***************************************************************************)
EXTENDS StreamingWriter, FiniteSetsExt, SequencesExt

CONSTANTS Urls,           \* what external hyperlinks lead to
          Locations,      \* what internal hyperlinks lead to
          Tables,         \* ranges and options handed to add_table
          ReferenceLike,  \* names that validate_table_name refuses
          TableKey,       \* what of a table or column name ignores case
          Images,         \* format, bytes and hyperlink of the images added
          ScaleRules, BarRules, IconRules, Validations,
          CellStyles,     \* styles handed to add_style
          Plain,          \* a font that sets nothing
          None,           \* an optional that is empty
          Mixes           \* bound: how many rows come with how many other calls

VARIABLES meta,     \* of each sheet, what its calls recorded
          styles,   \* registered styles in the order of their ids
          issued,   \* styles handed to add_style and the ids it returned (history)
          ruled,    \* of each sheet, the formatting rules in the order of the calls (history)
          parts     \* entries of the package besides rows: name and content

metadata == <<meta, styles, issued, ruled, parts>>
allvars == <<vars, metadata>>

Unrecorded ==
    [externals |-> <<>>, internals |-> <<>>, tables |-> <<>>, images |-> <<>>,
     scales |-> <<>>, bars |-> <<>>, icons |-> <<>>, priority |-> 1,
     validations |-> <<>>]

InitParts ==
    /\ meta = [s \in Sheets |-> Unrecorded]
    /\ styles = <<>>
    /\ issued = {}
    /\ ruled = [s \in Sheets |-> <<>>]
    /\ parts = <<>>

-----------------------------------------------------------------------------
(* What the calls record.                                                  *)

RowsHanded == MapThenSumSet(LAMBDA s : Len(handed[s]), Sheets)
Recorded(m) == Len(m.externals) + Len(m.internals) + Len(m.tables) + Len(m.images)
               + Len(m.scales) + Len(m.bars) + Len(m.icons) + Len(m.validations)
CallsMade == Len(styles) + MapThenSumSet(LAMBDA s : Recorded(meta[s]), Sheets)

\* The worksheet may be changed, and the bound leaves room for the call.
Changeable(s) ==
    /\ Mutable
    /\ s \in DOMAIN sheets
    /\ <<RowsHanded, CallsMade + 1>> \in Mixes

Record(s, field, item) ==
    /\ meta' = [meta EXCEPT ![s][field] = Append(@, item)]
    /\ UNCHANGED <<vars, styles, issued, parts>>

AddExternalHyperlink(s, url) ==
    Changeable(s) /\ Record(s, "externals", url) /\ UNCHANGED ruled

AddInternalHyperlink(s, location) ==
    Changeable(s) /\ Record(s, "internals", location) /\ UNCHANGED ruled

\* validate_table_options.
TableAccepted(table) ==
    LET width == table.right - table.left + 1 IN
    /\ table.top < table.bottom
    /\ table.totals => table.top + 1 < table.bottom
    /\ table.name \notin ReferenceLike
    /\ Len(table.columns) = width
    /\ Len(table.functions) \in {0, width}
    /\ table.totals <=> \E i \in DOMAIN table.functions : table.functions[i] # None
    /\ ~ table.totals => table.functions = <<>>
    /\ IsInjective([i \in DOMAIN table.columns |-> TableKey[table.columns[i]]])

Overlap(a, b) == /\ a.top <= b.bottom /\ b.top <= a.bottom
                 /\ a.left <= b.right /\ b.left <= a.right

AddTable(s, table) ==
    /\ Changeable(s)
    /\ TableAccepted(table)
    /\ \A i \in DOMAIN meta[s].tables : ~ Overlap(table, meta[s].tables[i])
    /\ \A o \in Sheets : \A i \in DOMAIN meta[o].tables :
          TableKey[meta[o].tables[i].name] # TableKey[table.name]
    /\ Record(s, "tables", table)
    /\ UNCHANGED ruled

\* The image is copied to a temporary file of the sheet before the call returns.
AddImage(s, image) ==
    Changeable(s) /\ Record(s, "images", image) /\ UNCHANGED ruled

\* validate_data_validation_rule; formula2 is there or not.
ValidationAccepted(rule) ==
    /\ rule.formula1
    /\ rule.hides_arrow => rule.type = "list"
    /\ IF rule.type \in {"list", "custom"}
       THEN rule.operator = None /\ ~ rule.formula2
       ELSE /\ rule.operator # None
            /\ rule.formula2 <=> rule.operator \in {"between", "notBetween"}

AddDataValidation(s, rule) ==
    /\ Changeable(s)
    /\ ValidationAccepted(rule)
    /\ Record(s, "validations", rule)
    /\ UNCHANGED ruled

\* The validators of colour scales, data bars and icon sets: endpoints by type,
\* a scale with or without a midpoint; thresholds that rise.
ScaleAccepted(rule) == /\ rule.lower # "max"
                       /\ rule.middle \notin {"min", "max"}
                       /\ rule.upper # "min"
BarAccepted(rule) == rule.lower # "max" /\ rule.upper # "min"
IconAccepted(rule) == \A i, j \in DOMAIN rule.thresholds :
                         i < j => rule.thresholds[i] < rule.thresholds[j]

\* A rule takes the sheet's next priority, whatever its kind.
AddRule(s, list, rule) ==
    /\ Changeable(s)
    /\ meta' = [meta EXCEPT ![s][list] = Append(@, [rule |-> rule, priority |-> meta[s].priority]),
                            ![s].priority = @ + 1]
    /\ ruled' = [ruled EXCEPT ![s] = Append(@, rule)]
    /\ UNCHANGED <<vars, styles, issued, parts>>

AddColorScale(s, rule) == ScaleAccepted(rule) /\ AddRule(s, "scales", rule)
AddDataBar(s, rule) == BarAccepted(rule) /\ AddRule(s, "bars", rule)
AddIconSet(s, rule) == IconAccepted(rule) /\ AddRule(s, "icons", rule)

-----------------------------------------------------------------------------
(* Styles.                                                                 *)

HasFont(style) == style.font \notin {None, Plain}
EffectiveFont(style) == IF HasFont(style) THEN style.font ELSE None

\* validate_cell_style: a style sets something.
StyleAccepted(style) == \/ style.format # None \/ HasFont(style)
                        \/ style.fill # None \/ style.alignment # None

Equivalent(a, b) == /\ a.format = b.format /\ a.fill = b.fill
                    /\ a.alignment = b.alignment
                    /\ EffectiveFont(a) = EffectiveFont(b)

\* The ids of one kind that registered styles use; 0 is the default's.
IdsOf(kind) == {styles[i][kind] : i \in DOMAIN styles} \ {0}

\* Mutant of NextId: every style that sets the property counts.
IdPerStyle(kind, first) ==
    first + Cardinality({i \in DOMAIN styles : styles[i][kind] # 0})

\* The next id of a kind follows the distinct ones in use.
NextId(kind, first) == first + Cardinality(IdsOf(kind))

\* What a style sets of a kind.
ValueOf(kind, style) == CASE kind = "numFmt" -> style.format
                          [] kind = "font" -> EffectiveFont(style)
                          [] kind = "fill" -> style.fill

\* find_number_format_id, find_font_id, find_fill_id: the id under which the
\* same value is registered, or the next one.
IdFor(kind, first, style) ==
    LET same == {i \in DOMAIN styles :
                    /\ styles[i][kind] # 0
                    /\ ValueOf(kind, styles[i].style) = ValueOf(kind, style)} IN
    IF ValueOf(kind, style) = None THEN 0
    ELSE IF same # {} THEN styles[Min(same)][kind]
    ELSE NextId(kind, first)

FirstNumberFormat == 164

Registered(style) ==
    [style |-> style,
     numFmt |-> IdFor("numFmt", FirstNumberFormat, style),
     font |-> IdFor("font", 1, style),
     fill |-> IdFor("fill", 2, style)]

\* An equivalent style is registered once and its id is returned again.
AddStyle(style) ==
    LET existing == {i \in DOMAIN styles : Equivalent(styles[i].style, style)} IN
    /\ Mutable
    /\ StyleAccepted(style)
    /\ <<RowsHanded, CallsMade + 1>> \in Mixes
    /\ IF existing # {}
       THEN /\ issued' = issued \cup {<<style, Min(existing)>>}
            /\ UNCHANGED styles
       ELSE /\ styles' = Append(styles, Registered(style))
            /\ issued' = issued \cup {<<style, Len(styles')>>}
    /\ UNCHANGED <<vars, meta, ruled, parts>>

\* The positions in a set, in their order.
InOrder(S) == [k \in 1 .. Cardinality(S) |->
                  CHOOSE i \in S : Cardinality({j \in S : j < i}) = k - 1]

\* The registered styles that are the first with their id of a kind.
FirstUses(kind) ==
    InOrder({i \in DOMAIN styles :
                /\ styles[i][kind] # 0
                /\ \A j \in 1 .. i - 1 : styles[j][kind] # styles[i][kind]})

\* build_styles_xml.  Fonts and fills are found by their position, counted from
\* 0, behind one default font and two default fills; number formats by their id.
StylesXml ==
    LET formats == FirstUses("numFmt")
        fonts == FirstUses("font")
        fills == FirstUses("fill")
    IN  [numFmts |-> [i \in DOMAIN formats |->
                         <<styles[formats[i]].numFmt, styles[formats[i]].style.format>>],
         fonts |-> <<None>> \o [i \in DOMAIN fonts |-> styles[fonts[i]].style.font],
         fills |-> <<None, "gray125">>
                   \o [i \in DOMAIN fills |-> styles[fills[i]].style.fill],
         xfs |-> [i \in DOMAIN styles |->
                     [numFmt |-> styles[i].numFmt, font |-> styles[i].font,
                      fill |-> styles[i].fill, alignment |-> styles[i].style.alignment]]]

-----------------------------------------------------------------------------
(* The parts of the package.                                               *)

HasRelationships(m) == m.externals # <<>> \/ m.tables # <<>> \/ m.images # <<>>

DrawingRelationshipId(m) == Len(m.externals) + 1

\* Mutant of TableRelationshipId: the drawing has an id only where there are no
\* hyperlinks.
TableIdAfterLinks(m, i) ==
    Len(m.externals) + (IF m.images # <<>> /\ m.externals = <<>> THEN 1 ELSE 0) + i

TableRelationshipId(m, i) ==
    Len(m.externals) + (IF m.images # <<>> THEN 1 ELSE 0) + i

\* table_start_indexes, image_start_indexes, worksheet_drawing_indexes: what the
\* sheets in front of a sheet have of a list.
ItemsBefore(list, s) ==
    LET before[o \in 0 .. s - 1] ==
            IF o = 0 THEN 0 ELSE before[o - 1] + Len(meta[o][list])
    IN  before[s - 1]
TablesBefore(s) == ItemsBefore("tables", s)
ImagesBefore(s) == ItemsBefore("images", s)

DrawingsBefore(s) == Cardinality({o \in 1 .. s - 1 : meta[o].images # <<>>})

Relation(id, type, target) == [id |-> id, type |-> type, target |-> target]
DrawingName(s) == <<"drawing", DrawingsBefore(s) + 1>>
TableName(s, i) == <<"table", TablesBefore(s) + i>>
MediaName(s, i) == <<"media", ImagesBefore(s) + i, meta[s].images[i].format>>

WorksheetRelationships(s) ==
    LET m == meta[s] IN
    [i \in DOMAIN m.externals |-> Relation(i, "hyperlink", m.externals[i])]
    \o (IF m.images = <<>> THEN <<>>
        ELSE <<Relation(DrawingRelationshipId(m), "drawing", DrawingName(s))>>)
    \o [i \in DOMAIN m.tables |->
            Relation(TableRelationshipId(m, i), "table", TableName(s, i))]

\* Mutant of NextRule: data bars come before colour scales of a higher priority.
BarsFirst(rest) ==
    IF rest.bars # <<>> THEN "bars" ELSE IF rest.scales # <<>> THEN "scales" ELSE "icons"

\* The list whose first rule has the lowest priority.
NextRule(rest) ==
    CHOOSE list \in {"scales", "bars", "icons"} :
        /\ rest[list] # <<>>
        /\ \A o \in {"scales", "bars", "icons"} :
              rest[o] # <<>> => rest[list][1].priority <= rest[o][1].priority

\* build_conditional_formattings merges the three lists.
ConditionalFormattings(m) ==
    LET lists == {"scales", "bars", "icons"}
        total == Len(m.scales) + Len(m.bars) + Len(m.icons)
        merged[n \in 0 .. total] ==
            IF n = 0
            THEN [rest |-> [list \in lists |-> m[list]], written |-> <<>>]
            ELSE LET before == merged[n - 1]
                     list == NextRule(before.rest)
                 IN  [rest |-> [before.rest EXCEPT ![list] = Tail(@)],
                      written |-> Append(before.written, before.rest[list][1].rule)]
    IN  merged[total].written

\* What prefix and suffix of the worksheet part hold.
WorksheetXml(s) ==
    LET m == meta[s] IN
    [names_relationships |-> HasRelationships(m),
     formattings |-> ConditionalFormattings(m),
     validations |-> m.validations,
     hyperlinks |-> [i \in DOMAIN m.externals |-> i],
     locations |-> m.internals,
     drawings |-> IF m.images = <<>> THEN <<>> ELSE <<DrawingRelationshipId(m)>>,
     tables |-> [i \in DOMAIN m.tables |-> TableRelationshipId(m, i)]]

LinksBefore(images, i) == Cardinality({j \in 1 .. i - 1 : images[j].url # None})

DrawingLinkId(images, i) == Len(images) + LinksBefore(images, i) + 1

\* Pictures are numbered over the workbook, their relationships within the
\* drawing: the images first, then the hyperlinks of those that have one.
DrawingXml(s) ==
    LET images == meta[s].images IN
    [i \in DOMAIN images |->
        [number |-> ImagesBefore(s) + i, embed |-> i,
         link |-> IF images[i].url = None THEN None
                  ELSE DrawingLinkId(images, i)]]

DrawingRelationships(s) ==
    LET images == meta[s].images
        linked == InOrder({i \in DOMAIN images : images[i].url # None})
    IN  [i \in DOMAIN images |-> Relation(i, "image", MediaName(s, i))]
        \o [k \in DOMAIN linked |->
               Relation(DrawingLinkId(images, linked[k]), "hyperlink", images[linked[k]].url)]

\* The table part holds its own number as the table's id.
TableXml(s, i) == [id |-> TablesBefore(s) + i, table |-> meta[s].tables[i]]

HasStrings == SharedStrings /\ count > 0

\* make_minimal_workbook_manifest: ids of the sheets, then strings, then styles.
WorkbookRelationships ==
    [s \in DOMAIN sheets |-> Relation(s, "worksheet", <<"worksheet", s>>)]
    \o (IF HasStrings
        THEN <<Relation(Len(sheets) + 1, "sharedStrings", <<"sharedStrings">>)>> ELSE <<>>)
    \o (IF styles # <<>>
        THEN <<Relation(Len(sheets) + 1 + (IF HasStrings THEN 1 ELSE 0),
                        "styles", <<"styles">>)>> ELSE <<>>)

\* Content types: by name for the parts that are counted over the workbook, by
\* extension for media and relationships.
ContentTypes ==
    LET all == DOMAIN sheets IN
    [named |->
        {<<"workbook">>, <<"core">>, <<"app">>}
        \cup {<<"worksheet", s>> : s \in all}
        \cup (IF HasStrings THEN {<<"sharedStrings">>} ELSE {})
        \cup (IF styles # <<>> THEN {<<"styles">>} ELSE {})
        \cup {<<"table", k>> : k \in 1 .. TablesBefore(Len(sheets) + 1)}
        \cup {<<"drawing", k>> : k \in 1 .. DrawingsBefore(Len(sheets) + 1)},
     extensions |-> {"rels", "xml"} \cup
                    UNION {{meta[s].images[i].format : i \in DOMAIN meta[s].images} : s \in all}]

Entry(name, content) == [name |-> name, content |-> content]
Rels(name) == <<"rels", name>>

SheetEntries(s) ==
    LET m == meta[s] IN
    <<Entry(<<"worksheet", s>>, WorksheetXml(s))>>
    \o (IF HasRelationships(m)
        THEN <<Entry(Rels(<<"worksheet", s>>), WorksheetRelationships(s))>> ELSE <<>>)
    \o (IF m.images = <<>> THEN <<>>
        ELSE <<Entry(DrawingName(s), DrawingXml(s)),
               Entry(Rels(DrawingName(s)), DrawingRelationships(s))>>
             \o [i \in DOMAIN m.images |-> Entry(MediaName(s, i), m.images[i].bytes)])
    \o [i \in DOMAIN m.tables |-> Entry(TableName(s, i), TableXml(s, i))]

\* The entries close() hands to the package writer, rows left out.
PackageParts ==
    <<Entry(<<"types">>, ContentTypes),
      Entry(<<"core">>, None), Entry(<<"app">>, None),
      Entry(<<"workbook">>, [s \in DOMAIN sheets |-> s]),
      Entry(Rels(<<"workbook">>), WorkbookRelationships)>>
    \o (IF HasStrings THEN <<Entry(<<"sharedStrings">>, None)>> ELSE <<>>)
    \o (IF styles # <<>> THEN <<Entry(<<"styles">>, StylesXml)>> ELSE <<>>)
    \o FlattenSeq([s \in DOMAIN sheets |-> SheetEntries(s)])

\* RelationshipSet::add refuses an id that the set has.
RelationshipsAccepted(relationships) ==
    IsInjective([i \in DOMAIN relationships |-> relationships[i].id])

AllRelationshipsAccepted ==
    \A s \in DOMAIN sheets : /\ RelationshipsAccepted(WorksheetRelationships(s))
                             /\ RelationshipsAccepted(DrawingRelationships(s))

CloseWithParts ==
    /\ AllRelationshipsAccepted
    /\ Close
    /\ parts' = PackageParts
    /\ UNCHANGED <<meta, styles, issued, ruled>>

-----------------------------------------------------------------------------
(* A step on rows leaves the recorded parts alone.                         *)
RowStep ==
    /\ \/ \E name \in Names : AddWorksheet(name)
       \/ \E s \in Sheets, cells \in Rows :
             <<RowsHanded + 1, CallsMade>> \in Mixes /\ StartRow(s, cells)
       \/ WriteCell \/ EndRow \/ EndRowFails \/ EndRowRefused
       \/ CloseFails
    /\ UNCHANGED metadata

PartStep ==
    \/ \E s \in Sheets :
          \/ \E url \in Urls : AddExternalHyperlink(s, url)
          \/ \E location \in Locations : AddInternalHyperlink(s, location)
          \/ \E table \in Tables : AddTable(s, table)
          \/ \E image \in Images : AddImage(s, image)
          \/ \E rule \in Validations : AddDataValidation(s, rule)
          \/ \E rule \in ScaleRules : AddColorScale(s, rule)
          \/ \E rule \in BarRules : AddDataBar(s, rule)
          \/ \E rule \in IconRules : AddIconSet(s, rule)
    \/ \E style \in CellStyles : AddStyle(style)
    \/ CloseWithParts

InitWithParts == Init /\ InitParts
NextWithParts == RowStep \/ PartStep
SpecWithParts == InitWithParts /\ [][NextWithParts]_allvars

-----------------------------------------------------------------------------
(* Properties.                                                             *)

PartNames == {parts[k].name : k \in DOMAIN parts}
Content(name) == parts[CHOOSE k \in DOMAIN parts : parts[k].name = name].content

\* Where a relationship with this id and type leads.
Follow(relationships, id, type) ==
    {relationships[i].target : i \in {k \in DOMAIN relationships :
        relationships[k].id = id /\ relationships[k].type = type}}

\* The parts reached from a drawing are the images that were added.
ShowsImages(drawing, images) ==
    LET xml == Content(drawing)
        rels == Content(Rels(drawing))
    IN  /\ DOMAIN xml = DOMAIN images
        /\ \A i \in DOMAIN images :
              /\ \E media \in Follow(rels, xml[i].embed, "image") :
                    /\ media \in PartNames
                    /\ media[3] = images[i].format
                    /\ Content(media) = images[i].bytes
              /\ IF images[i].url = None THEN xml[i].link = None
                 ELSE Follow(rels, xml[i].link, "hyperlink") = {images[i].url}

SheetIsLinked(s) ==
    LET m == meta[s]
        xml == Content(<<"worksheet", s>>)
        rels == IF Rels(<<"worksheet", s>>) \in PartNames
                THEN Content(Rels(<<"worksheet", s>>)) ELSE <<>>
    IN  /\ rels # <<>> => xml.names_relationships
        /\ [i \in DOMAIN xml.hyperlinks |-> Follow(rels, xml.hyperlinks[i], "hyperlink")]
              = [i \in DOMAIN m.externals |-> {m.externals[i]}]
        /\ DOMAIN xml.tables = DOMAIN m.tables
        /\ \A i \in DOMAIN m.tables :
              \E table \in Follow(rels, xml.tables[i], "table") :
                 table \in PartNames /\ Content(table).table = m.tables[i]
        /\ xml.drawings = <<>> <=> m.images = <<>>
        /\ \A i \in DOMAIN xml.drawings :
              \E drawing \in Follow(rels, xml.drawings[i], "drawing") :
                 drawing \in PartNames /\ ShowsImages(drawing, m.images)

\* The names that need a content type of their own.
NeedType == {n \in PartNames : n[1] \notin {"types", "rels", "media"}}

\* However tables, images and hyperlinks are spread over the sheets and mixed
\* within one: close() is never refused for a relationship id used twice, no two
\* parts have one name, exactly the parts that are there have a content type,
\* and every id a part mentions leads to what the caller added there.
PartsAreLinked ==
    /\ AllRelationshipsAccepted
    /\ closed =>
          /\ IsInjective([k \in DOMAIN parts |-> parts[k].name])
          /\ Content(<<"types">>).named = NeedType
          /\ \A n \in PartNames : n[1] = "media" => n[3] \in Content(<<"types">>).extensions
          /\ RelationshipsAccepted(WorkbookRelationships)
          /\ \A s \in DOMAIN sheets :
                /\ Follow(Content(Rels(<<"workbook">>)), Content(<<"workbook">>)[s], "worksheet")
                      = {<<"worksheet", s>>}
                /\ SheetIsLinked(s)

\* A style id returned by add_style stands, in the styles part as it would be
\* written at any later time, for the font, fill, number format and alignment
\* that were asked for, whatever ids of each kind were shared or skipped since.
StylesReadBack ==
    \A answer \in issued :
        LET style == answer[1]
            xf == StylesXml.xfs[answer[2]]
            formats == {i \in DOMAIN StylesXml.numFmts : StylesXml.numFmts[i][1] = xf.numFmt}
        IN  /\ xf.font + 1 \in DOMAIN StylesXml.fonts
            /\ xf.fill + 1 \in DOMAIN StylesXml.fills
            /\ StylesXml.fonts[xf.font + 1] = EffectiveFont(style)
            /\ StylesXml.fills[xf.fill + 1] = style.fill
            /\ xf.alignment = style.alignment
            /\ IF style.format = None THEN xf.numFmt = 0
               ELSE {StylesXml.numFmts[i][2] : i \in formats} = {style.format}

\* The formatting rules of a sheet are written in the order of the calls that
\* added them, though each kind is kept in a list of its own: Excel gives the
\* rule written with the lowest priority precedence.
RulesKeepTheirOrder ==
    \A s \in DOMAIN sheets : ConditionalFormattings(meta[s]) = ruled[s]
=============================================================================

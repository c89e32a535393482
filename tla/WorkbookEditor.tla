--------------------------- MODULE WorkbookEditor ---------------------------
(***************************************************************************)
(* WorkbookEditor, the editor of an existing .xlsx package.                *)
(*                                                                         *)
(* The editor keeps the same workbook in three places that every operation *)
(* must keep in step: the facade's own bookkeeping (the sheet catalog, the *)
(* materialized worksheet sessions, the diagnostics of queued edits and    *)
(* the two edit counters), the planned package of the PackageEditor (the   *)
(* workbook.xml catalog, the worksheet parts, the sharedStrings part), and *)
(* the package last written by save_as.  Each public operation is one      *)
(* action; a call that throws is the matching ...Fails action.             *)
(*                                                                         *)
(* A worksheet is identified by its source name, which never changes while *)
(* the package is open, so a sheet is the name it had in the source.       *)
(***************************************************************************)
EXTENDS Integers, Sequences, FiniteSets, SequencesExt

CONSTANTS
    Sheets,          \* the worksheets of the source package, by source name
    Names,           \* every worksheet name a caller may use
    CaseKey,         \* name -> its ASCII-lowercase form
    Cells,           \* cell positions
    Texts,           \* cell texts
    Numbers,         \* cell values that are neither text nor formula
    Inputs,          \* the cell values callers write
    DefinedNames,    \* the definedName entries of workbook.xml
    Properties,      \* document property sets callers write
    Images,          \* bytes a caller may store in the media part
    SourceXml,       \* sheet -> the cells of its worksheet part in the source
    SourceStrings,   \* the source sharedStrings table
    SourceRefs,      \* definedName -> the sheet name it refers to
    Projectable,     \* the source table has a shape the projection can extend
    MaxEdits         \* bound on pending_public_edit_count

TextCell(t) == [kind |-> "text", of |-> t]
FormulaCell(n) == [kind |-> "formula", of |-> n]
SharedCell(i) == [kind |-> "shared", of |-> i]

\* A cell without a record, and a t="s" cell whose index is outside the table.
NoCell == [kind |-> "none", of |-> 0]
BrokenCell == [kind |-> "broken", of |-> 0]

\* A formula is abstracted to the one sheet name it mentions.
CellValues == [kind : {"text"}, of : Texts]
                 \cup [kind : {"number"}, of : Numbers]
                 \cup [kind : {"formula"}, of : Names]
XmlCells == CellValues \cup [kind : {"shared"}, of : Nat] \cup {NoCell}
SheetData == [Cells -> CellValues \cup {NoCell, BrokenCell}]
SheetXml == [Cells -> XmlCells \cup {BrokenCell}]

SourceProps == "source"
SourceImage == "source"

ASSUME NamesAssumption ==
    /\ IsFiniteSet(Names)
    /\ Sheets \subseteq Names
    /\ CaseKey \in [Names -> Names]
    /\ \A s1, s2 \in Sheets : CaseKey[s1] = CaseKey[s2] => s1 = s2

ASSUME SourceAssumption ==
    /\ IsFiniteSet(Texts)
    /\ Inputs \subseteq CellValues
    /\ SourceStrings \in Seq(Texts)
    /\ SourceXml \in [Sheets -> [Cells -> XmlCells]]
    /\ \A s \in Sheets, c \in Cells :
          SourceXml[s][c].kind = "shared"
             => SourceXml[s][c].of \in DOMAIN SourceStrings
    /\ SourceRefs \in [DefinedNames -> Names]
    /\ Projectable \in BOOLEAN
    /\ MaxEdits \in Nat
-----------------------------------------------------------------------------
VARIABLES
    catalog,       \* sheet_catalog: sheet -> planned name
    materialized,  \* the keys of materialized_sessions
    store,         \* planned name -> the CellStore of its session
    dirty,         \* the sessions whose dirty_ flag is set
    payloads,      \* the keys of pending_sheet_data_payloads
    targeted,      \* planned name -> cells in pending_targeted_cell_replacements
    pending,       \* pending_public_edit_count
    saved,         \* saved_public_edit_count
    lastError      \* last_public_edit_error has a value

VARIABLES
    planNames,     \* <sheet name="..."> of the planned workbook.xml
    planRefs,      \* definedName formulas of the planned workbook.xml
    planFullCalc,  \* fullCalcOnLoad is set in the planned workbook.xml
    planXml,       \* sheet -> the cells of its planned worksheet part
    planStrings,   \* the planned sharedStrings table
    planProps,     \* planned docProps parts
    planImage      \* planned bytes of the media part

VARIABLE
    output         \* the package last written, at first the source package

sessionVars == <<materialized, store, dirty>>
queueVars == <<payloads, targeted>>
countVars == <<pending, saved>>
workbookVars == <<planNames, planRefs, planFullCalc>>
planVars == <<workbookVars, planXml, planStrings, planProps, planImage>>
vars == <<catalog, sessionVars, queueVars, countVars, lastError, planVars, output>>
-----------------------------------------------------------------------------
(***************************************************************************)
(* Reading worksheets and packages.                                        *)
(***************************************************************************)

\* The value a reader of a package sees in one cell of a worksheet part.
DecodeCell(x, strings) ==
    IF x.kind # "shared" THEN x
    ELSE IF x.of \in DOMAIN strings THEN TextCell(strings[x.of])
    ELSE BrokenCell

DecodeSheet(xml, strings) == [c \in Cells |-> DecodeCell(xml[c], strings)]

\* Materialization reads the worksheet part and the sharedStrings part of the
\* source package, never those of the plan.
SourceData(s) == DecodeSheet(SourceXml[s], SourceStrings)

CurrentNames == {catalog[s] : s \in Sheets}
SheetOf(n) == CHOOSE s \in Sheets : catalog[s] = n
PlannedSheetOf(n) == CHOOSE s \in Sheets : planNames[s] = n

PlannedPackage ==
    [names |-> planNames, refs |-> planRefs, fullCalc |-> planFullCalc,
     xml |-> planXml, strings |-> planStrings, props |-> planProps,
     image |-> planImage]

\* WorkbookEditor::Impl::has_unsaved_changes
HasUnsavedChanges == pending # saved \/ dirty # {}

Init ==
    /\ catalog = [s \in Sheets |-> s]
    /\ materialized = {}
    /\ store = [n \in Names |-> [c \in Cells |-> NoCell]]
    /\ dirty = {}
    /\ payloads = {}
    /\ targeted = [n \in Names |-> {}]
    /\ pending = 0
    /\ saved = 0
    /\ lastError = FALSE
    /\ planNames = [s \in Sheets |-> s]
    /\ planRefs = SourceRefs
    /\ planFullCalc = FALSE
    /\ planXml = SourceXml
    /\ planStrings = SourceStrings
    /\ planProps = SourceProps
    /\ planImage = SourceImage
    /\ output = PlannedPackage
-----------------------------------------------------------------------------
(***************************************************************************)
(* How an edit ends.  A successful edit of the patch plan is counted and   *)
(* clears the last error; an edit of a session only marks the session; a   *)
(* failed edit records its message and leaves everything else as it was.   *)
(***************************************************************************)

EditCounted ==
    /\ pending < MaxEdits
    /\ pending' = pending + 1
    /\ lastError' = FALSE
    /\ UNCHANGED <<saved, output>>

SessionEdited ==
    /\ lastError' = FALSE
    /\ UNCHANGED <<catalog, materialized, queueVars, countVars, planVars, output>>

\* Any public edit may throw: a rejected argument, a guardrail, a package that
\* cannot be read.  Every one of them validates and stages on copies first.
EditFails ==
    /\ lastError' = TRUE
    /\ UNCHANGED <<catalog, sessionVars, queueVars, countVars, planVars, output>>
-----------------------------------------------------------------------------
(***************************************************************************)
(* What PackageEditor does to the planned package.  Each operation stages  *)
(* copies of its manifest, edit plan and replacements and swaps them in at *)
(* the end, so it changes the plan completely or not at all.               *)
(***************************************************************************)

\* Worksheet parts are replaced one by one; every replacement also makes the
\* planned workbook.xml ask for a full calculation on load.
PlanWorksheets(replaced, xml) ==
    /\ planXml' = [s \in Sheets |-> IF s \in replaced THEN xml[s] ELSE planXml[s]]
    /\ planFullCalc' = (planFullCalc \/ replaced # {})

\* A replacement of <sheetData> by inline cells.
PlanSheetData(s, data) ==
    /\ PlanWorksheets({s}, [t \in {s} |-> data])
    /\ UNCHANGED <<planNames, planRefs, planStrings, planProps, planImage>>

\* A replacement of single cells in the worksheet as it is planned now, which
\* must have every target unless missing cells are inserted.
PlanCells(s, patch, insertMissing) ==
    /\ DOMAIN patch # {}
    /\ insertMissing \/ \A c \in DOMAIN patch : planXml[s][c] # NoCell
    /\ PlanSheetData(s, [c \in Cells |-> IF c \in DOMAIN patch THEN patch[c]
                                         ELSE planXml[s][c]])

PlanFullCalculation ==
    /\ planFullCalc' = TRUE
    /\ UNCHANGED <<planNames, planRefs, planXml, planStrings, planProps, planImage>>

PlanDocumentProperties(p) ==
    /\ planProps' = p
    /\ UNCHANGED <<workbookVars, planXml, planStrings, planImage>>

PlanMediaPart(bytes) ==
    /\ planImage' = bytes
    /\ UNCHANGED <<workbookVars, planXml, planStrings, planProps>>

-----------------------------------------------------------------------------
(***************************************************************************)
(* Materialized worksheet sessions.                                        *)
(***************************************************************************)

\* worksheet(): a session already open is returned as it is, and a call that
\* throws changes nothing, not even the last error.
Worksheet(n) ==
    /\ n \in CurrentNames
    /\ n \notin payloads
    /\ targeted[n] = {}
    /\ n \notin materialized
    /\ materialized' = materialized \cup {n}
    /\ store' = [store EXCEPT ![n] = SourceData(SheetOf(n))]
    /\ UNCHANGED <<catalog, dirty, queueVars, countVars, lastError, planVars, output>>

SetCell(n, c, v) ==
    /\ n \in materialized
    /\ store' = [store EXCEPT ![n][c] = v]
    /\ dirty' = dirty \cup {n}
    /\ SessionEdited

\* Mutant of EraseCell: the record is looked for after it has been erased.
EraseThenFind(n, c) ==
    /\ n \in materialized
    /\ store' = [store EXCEPT ![n][c] = NoCell]
    /\ dirty' = IF store'[n][c] # NoCell THEN dirty \cup {n} ELSE dirty
    /\ SessionEdited

\* Erasing a cell that has no record leaves the session clean.
EraseCell(n, c) ==
    /\ n \in materialized
    /\ store' = [store EXCEPT ![n][c] = NoCell]
    /\ dirty' = IF store[n][c] # NoCell THEN dirty \cup {n} ELSE dirty
    /\ SessionEdited

\* Mutant of MoveCellsFrom: only the session that gets the cell is marked.
MoveMarksDestination(n, c, m, d) ==
    /\ {n, m} \subseteq materialized
    /\ n # m
    /\ IF store[n][c] = NoCell
       THEN UNCHANGED <<store, dirty>>
       ELSE /\ store' = [store EXCEPT ![n][c] = NoCell, ![m][d] = store[n][c]]
            /\ dirty' = dirty \cup {m}
    /\ SessionEdited

\* move_cells_from over one cell: a source cell without a record moves nothing.
\* Both candidate stores are complete before either session changes, so the
\* call takes effect in both sessions or in neither.
MoveCellsFrom(n, c, m, d) ==
    /\ {n, m} \subseteq materialized
    /\ n # m
    /\ IF store[n][c] = NoCell
       THEN UNCHANGED <<store, dirty>>
       ELSE /\ store' = [store EXCEPT ![n][c] = NoCell, ![m][d] = store[n][c]]
            /\ dirty' = dirty \cup {n, m}
    /\ SessionEdited
-----------------------------------------------------------------------------
(***************************************************************************)
(* Queued edits of the planned package.                                    *)
(***************************************************************************)

\* A whole-sheet replacement may be repeated; it is refused once the sheet has
\* a session or cell patches.
ReplaceSheetData(n, data) ==
    /\ targeted[n] = {}
    /\ n \in CurrentNames
    /\ n \notin materialized
    /\ PlanSheetData(PlannedSheetOf(n), data)
    /\ payloads' = payloads \cup {n}
    /\ EditCounted
    /\ UNCHANGED <<catalog, sessionVars, targeted>>

\* `patch` maps the distinct target cells to their values.
ReplaceCells(n, patch, insertMissing) ==
    /\ n \in CurrentNames
    /\ n \notin payloads
    /\ n \notin materialized
    /\ PlanCells(PlannedSheetOf(n), patch, insertMissing)
    /\ targeted' = [targeted EXCEPT ![n] = @ \cup DOMAIN patch]
    /\ EditCounted
    /\ UNCHANGED <<catalog, sessionVars, payloads>>

\* An empty patch on a legal target is a successful call that queues nothing.
ReplaceNoCells(n) ==
    /\ n \in CurrentNames
    /\ n \notin payloads
    /\ n \notin materialized
    /\ lastError' = FALSE
    /\ UNCHANGED <<catalog, sessionVars, queueVars, countVars, planVars, output>>

RequestFullCalculation ==
    /\ PlanFullCalculation
    /\ EditCounted
    /\ UNCHANGED <<catalog, sessionVars, queueVars>>

SetDocumentProperties(p) ==
    /\ PlanDocumentProperties(p)
    /\ EditCounted
    /\ UNCHANGED <<catalog, sessionVars, queueVars>>

ReplaceImage(bytes) ==
    /\ PlanMediaPart(bytes)
    /\ EditCounted
    /\ UNCHANGED <<catalog, sessionVars, queueVars>>
-----------------------------------------------------------------------------
(***************************************************************************)
(* rename_sheet.                                                           *)
(***************************************************************************)
AuditOnly == "AuditOnly"
RewriteDefinedNames == "RewriteDefinedNames"
RewriteAll == "RewriteDefinedNamesAndMaterializedWorksheetFormulas"
FormulaPolicies == {AuditOnly, RewriteDefinedNames, RewriteAll}

\* Mutant of RewritesName: references are compared case by case.
RewritesSameCase(s, old, new, name) ==
    name = old \/ (s \notin {old, new} /\ name = s)

\* Renaming sheet s from old to new rewrites the references to old and, in a
\* rename chain, the references to the name that s had in the source.
RewritesName(s, old, new, name) ==
    \/ CaseKey[name] = CaseKey[old]
    \/ s \notin {old, new} /\ CaseKey[name] = CaseKey[s]

RewrittenName(s, old, new, name) ==
    IF RewritesName(s, old, new, name) THEN new ELSE name

RewrittenCell(s, old, new, x) ==
    IF x.kind = "formula" THEN FormulaCell(RewrittenName(s, old, new, x.of)) ELSE x

\* The sessions' stores after the formula policy has been applied.
RewrittenStore(s, old, new, policy) ==
    [n \in Names |->
       IF policy = RewriteAll /\ n \in materialized
       THEN [c \in Cells |-> RewrittenCell(s, old, new, store[n][c])]
       ELSE store[n]]

\* A rewritten reference is always quoted, so a formula that spells the new
\* name already, without quotes, is new text as well.
Requotable(s, old, new, policy) ==
    {n \in materialized :
       /\ policy = RewriteAll
       /\ \E c \in Cells : /\ store[n][c] = FormulaCell(new)
                            /\ RewritesName(s, old, new, new)}

\* Mutant of RenameAccepted: only the exact name counts as taken.
RenameAcceptedByCase(old, new) ==
    /\ \E s \in Sheets : planNames[s] = old
    /\ \A s \in Sheets : planNames[s] # new

\* The planned catalog accepts new for the sheet named old: no other sheet has
\* the name in any case, and the sheet itself does not have it already.
RenameAccepted(old, new) ==
    /\ \E s \in Sheets : planNames[s] = old
    /\ \A s \in Sheets :
          /\ planNames[s] # new
          /\ planNames[s] # old => CaseKey[planNames[s]] # CaseKey[new]

\* The name attribute and, if the policy asks for it, the definedNames of the
\* planned workbook.xml.
PlanRename(s, old, new, policy) ==
    /\ RenameAccepted(old, new)
    /\ planNames' = [planNames EXCEPT ![PlannedSheetOf(old)] = new]
    /\ planRefs' = [d \in DefinedNames |->
                      IF policy = AuditOnly THEN planRefs[d]
                      ELSE RewrittenName(s, old, new, planRefs[d])]
    /\ UNCHANGED <<planFullCalc, planXml, planStrings, planProps, planImage>>

\* Mutants of MigratedPayloads and MigratedPatches: the old name keeps its
\* payload, or gives up its patches to nobody.
PayloadsStay(old, new) == payloads
PatchesLost(old, new) == [targeted EXCEPT ![old] = {}]

MigratedPayloads(old, new) ==
    IF old \in payloads THEN (payloads \ {old}) \cup {new} ELSE payloads

MigratedPatches(old, new) ==
    [targeted EXCEPT ![old] = {}, ![new] = targeted[new] \cup targeted[old]]

RenameSheet(old, new, policy) ==
    LET s == SheetOf(old)
        rewritten == RewrittenStore(s, old, new, policy)
    IN
    /\ old \in CurrentNames
    /\ old \notin materialized
    /\ catalog' = [catalog EXCEPT ![s] = new]
    /\ PlanRename(s, old, new, policy)
    /\ payloads' = MigratedPayloads(old, new)
    /\ targeted' = MigratedPatches(old, new)
    /\ store' = rewritten
    /\ \E requoted \in SUBSET Requotable(s, old, new, policy) :
          dirty' = dirty \cup requoted
                         \cup {n \in materialized : rewritten[n] # store[n]}
    /\ EditCounted
    /\ UNCHANGED materialized
-----------------------------------------------------------------------------
(***************************************************************************)
(* save_as.                                                                *)
(***************************************************************************)

\* The distinct texts of the dirty sessions.
DirtyTexts ==
    {t \in Texts : \E n \in dirty, c \in Cells : store[n][c] = TextCell(t)}

\* The sharedStrings projection.  It is planned from the SOURCE table and the
\* sessions that are dirty now; without one, texts are written inline.
UsesSharedStrings == Projectable /\ DirtyTexts # {}
AppendedStrings == SetToSeq(DirtyTexts \ Range(SourceStrings))

\* Mutant of ProjectedStrings: new texts are put in front.
PrependedStrings == AppendedStrings \o SourceStrings

ProjectedStrings == SourceStrings \o AppendedStrings

FirstIndex(strings, t) ==
    CHOOSE i \in DOMAIN strings :
        /\ strings[i] = t
        /\ \A j \in DOMAIN strings : strings[j] = t => i <= j

ProjectedCell(x) ==
    IF x.kind = "text" /\ UsesSharedStrings
    THEN SharedCell(FirstIndex(ProjectedStrings, x.of)) ELSE x

\* The worksheet part projected from the session of sheet s.
ProjectedXml(s) == [c \in Cells |-> ProjectedCell(store[planNames[s]][c])]

\* Mutant of StagedStrings: the part is extended by the first save only.
StagedOnce ==
    IF UsesSharedStrings /\ planStrings = SourceStrings
    THEN ProjectedStrings ELSE planStrings

\* The sharedStrings part is replaced only when the table has grown.
StagedStrings ==
    IF UsesSharedStrings /\ AppendedStrings # <<>>
    THEN ProjectedStrings ELSE planStrings

StageSessions(staged, strings) ==
    LET sheets == {s \in Sheets : planNames[s] \in staged} IN
    /\ dirty \subseteq CurrentNames
    /\ PlanWorksheets(sheets, [s \in sheets |-> ProjectedXml(s)])
    /\ planStrings' = strings
    /\ UNCHANGED <<catalog, materialized, store, queueVars, lastError,
                   planNames, planRefs, planProps, planImage>>

SaveAs ==
    /\ pending + Cardinality(dirty) <= MaxEdits
    /\ StageSessions(dirty, StagedStrings)
    /\ output' = PlannedPackage'
    /\ dirty' = {}
    /\ pending' = pending + Cardinality(dirty)
    /\ saved' = pending'

\* A save that throws while the sessions are being staged has staged some of
\* them (any of them, as the order of their names is not modelled); the
\* sharedStrings part is staged last.
SaveAsFailsStaging(staged) ==
    /\ StageSessions(staged, planStrings)
    /\ UNCHANGED <<dirty, countVars, output>>

\* Mutant of SaveAsFailsWriting: the stage is committed before the package is
\* written.
SaveAsCommitsFirst ==
    /\ pending + Cardinality(dirty) <= MaxEdits
    /\ StageSessions(dirty, StagedStrings)
    /\ dirty' = {}
    /\ pending' = pending + Cardinality(dirty)
    /\ saved' = pending'
    /\ UNCHANGED output

\* A save that throws after staging leaves the old output in place.
SaveAsFailsWriting ==
    /\ StageSessions(dirty, StagedStrings)
    /\ UNCHANGED <<dirty, countVars, output>>
-----------------------------------------------------------------------------
Patches == UNION {[C -> Inputs] : C \in SUBSET Cells}

Next ==
    \/ \E n \in Names :
          \/ Worksheet(n)
          \/ ReplaceNoCells(n)
          \/ \E c \in Cells :
                \/ EraseCell(n, c)
                \/ \E v \in Inputs : SetCell(n, c, v)
                \/ \E m \in Names, d \in Cells : MoveCellsFrom(n, c, m, d)
          \/ \E data \in [Cells -> Inputs \cup {NoCell}] : ReplaceSheetData(n, data)
          \/ \E patch \in Patches, insertMissing \in BOOLEAN :
                ReplaceCells(n, patch, insertMissing)
          \/ \E new \in Names, policy \in FormulaPolicies :
                RenameSheet(n, new, policy)
    \/ RequestFullCalculation
    \/ \E p \in Properties : SetDocumentProperties(p)
    \/ \E bytes \in Images : ReplaceImage(bytes)
    \/ EditFails
    \/ SaveAs
    \/ \E staged \in SUBSET dirty : SaveAsFailsStaging(staged)
    \/ SaveAsFailsWriting

Spec == Init /\ [][Next]_vars
-----------------------------------------------------------------------------
(***************************************************************************)
(* The document a caller edits: what the sessions hold, where there are    *)
(* sessions, and what the planned package holds everywhere else.           *)
(***************************************************************************)
DocumentSheet(s) ==
    IF catalog[s] \in materialized
    THEN store[catalog[s]]
    ELSE DecodeSheet(planXml[s], planStrings)

Document ==
    [names |-> catalog, refs |-> planRefs,
     sheets |-> [s \in Sheets |-> DocumentSheet(s)],
     recalculate |-> planFullCalc \/ dirty # {},
     props |-> planProps, image |-> planImage]

\* The document a reader finds in a package.
Decoded(package) ==
    [names |-> package.names, refs |-> package.refs,
     sheets |-> [s \in Sheets |-> DecodeSheet(package.xml[s], package.strings)],
     recalculate |-> package.fullCalc,
     props |-> package.props, image |-> package.image]
-----------------------------------------------------------------------------
(***************************************************************************)
(* Properties.                                                             *)
(***************************************************************************)
Packages ==
    [names : [Sheets -> Names], refs : [DefinedNames -> Names],
     fullCalc : BOOLEAN, xml : [Sheets -> SheetXml], strings : Seq(Texts),
     props : Properties \cup {SourceProps}, image : Images \cup {SourceImage}]

\* Every variable has its type: the facade's maps are keyed by names, the plan
\* and the output are packages of the source's worksheets.
TypeOK ==
    /\ catalog \in [Sheets -> Names]
    /\ materialized \subseteq Names
    /\ store \in [Names -> SheetData]
    /\ dirty \subseteq materialized
    /\ payloads \subseteq Names
    /\ targeted \in [Names -> SUBSET Cells]
    /\ pending \in 0..MaxEdits
    /\ saved \in 0..pending
    /\ lastError \in BOOLEAN
    /\ PlannedPackage \in Packages
    /\ output \in Packages

\* The facade's sheet catalog and the catalog in the planned workbook.xml are
\* renamed separately and never disagree, and no two sheets have names that
\* Excel takes for the same.
CatalogsAgree ==
    /\ catalog = planNames
    /\ \A s1, s2 \in Sheets :
          CaseKey[catalog[s1]] = CaseKey[catalog[s2]] => s1 = s2

\* A worksheet is edited in one way only: through a session, by a whole-sheet
\* replacement or by targeted cell patches.  A name that a rename has freed
\* takes no session, payload or patch along to the sheet that gets it next.
OneStagingMode ==
    /\ materialized \cup payloads \cup {n \in Names : targeted[n] # {}}
          \subseteq CurrentNames
    /\ \A n \in materialized : n \notin payloads /\ targeted[n] = {}
    /\ \A n \in payloads : targeted[n] = {}

\* worksheet() reads the source package.  That loses no queued edit, because
\* a sheet it may open still has its source part in the planned package.
OpenedSheetsReadThePlan ==
    \A s \in Sheets :
       catalog[s] \notin payloads /\ targeted[catalog[s]] = {}
          => catalog[s] \in materialized \/ planXml[s] = SourceXml[s]

\* A clean session and the worksheet part planned for its sheet hold the same
\* cells: nothing is left to flush.
CleanSessionsArePlanned ==
    \A s \in Sheets :
       catalog[s] \in materialized \ dirty
          => DecodeSheet(planXml[s], planStrings) = store[catalog[s]]

\* When has_unsaved_changes() is false, the package last written reads back as
\* the document the caller has edited.
SavedOutputIsDocument ==
    ~HasUnsavedChanges => Decoded(output) = Document

\* The sharedStrings table only grows at its end: the t="s" cells of the parts
\* that are copied from the source keep their texts.
SourceStringsKept == IsPrefix(SourceStrings, planStrings)

\* Every session flushed by a save is read back from the written package with
\* the cells it holds, whatever the form its texts were written in.
FlushedSheetsAreWritten ==
    [][\A s \in Sheets :
          catalog[s] \in dirty \ dirty'
             => Decoded(output').sheets[s] = store[catalog[s]]]_vars

\* The sheet a reference resolves to, by Excel's case-insensitive match.
Targets(names, name) == {s \in Sheets : CaseKey[names[s]] = CaseKey[name]}

SessionFormulas ==
    {f \in materialized \X Cells : store[f[1]][f[2]].kind = "formula"}

\* A rename with a rewriting policy takes the references to the renamed sheet
\* along, in definedNames and, if the policy asks for it, in open sessions.
RenameFollowsSheet ==
    [][catalog' # catalog => \A old, new \in Names :
          LET renamed == {s \in Sheets : catalog[s] = old} IN
          /\ RenameSheet(old, new, RewriteDefinedNames) =>
                \A d \in DefinedNames :
                   Targets(catalog, planRefs[d]) = renamed
                      => Targets(catalog', planRefs'[d]) = renamed
          /\ RenameSheet(old, new, RewriteAll) =>
                \A f \in SessionFormulas :
                   Targets(catalog, store[f[1]][f[2]].of) = renamed
                      => Targets(catalog', store'[f[1]][f[2]].of) = renamed]_vars

\* A rename with a rewriting policy rewrites references "from the old sheet
\* qualifier to the new sheet qualifier": one that resolves to another sheet by
\* its current name stays on that sheet.
RenameKeepsOtherTargets ==
    [][\A old, new \in Names :
          RenameSheet(old, new, RewriteDefinedNames) =>
             \A d \in DefinedNames :
                LET target == Targets(catalog, planRefs[d]) IN
                target # {} /\ SheetOf(old) \notin target
                   => Targets(catalog', planRefs'[d]) = target]_vars
=============================================================================

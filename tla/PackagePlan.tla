---------------------------- MODULE PackagePlan ----------------------------
(***************************************************************************)
(* The plan of a PackageEditor: which entries of the opened package are    *)
(* copied, replaced, generated or left out by the next save.  Five copies  *)
(* of one truth have to agree: the manifest (parts, content types and      *)
(* relationships), the edit plan that audits report, the part              *)
(* replacements, the replaced metadata entries and the omitted entries.    *)
(* Every operation stages new values of all of them and swaps them in at   *)
(* its end, so an operation that throws is a step that changes nothing and *)
(* has no action here.                                                     *)
(***************************************************************************)
EXTENDS Naturals, FiniteSets

CONSTANTS
    Package,     \* the owner of _rels/.rels
    Workbook,    \* the part of the officeDocument relationship
    Sheet,       \* a worksheet part
    CalcChain,   \* /xl/calcChain.xml
    Core,        \* /docProps/core.xml
    App,         \* /docProps/app.xml
    Media,       \* any other part: a drawing, an image, a table, styles
    Sources,     \* the packages that may be opened
    MaxEdits     \* bound: operations in a behaviour

Parts == {Workbook, Sheet, CalcChain, Core, App, Media}
SmallParts == {Workbook, Core, App}      \* materialized small-XML boundary
Modes == {"copy", "generate", "stream", "dom"}
Actions == {"none", "preserve", "remove"}
Types == {"office", "core", "app", "sheet", "calc", "other"}

(* A relationship is a triple of owner, type and target; a package has its *)
(* parts, the parts with a content-type override (the others are typed by  *)
(* a default), whether [Content_Types].xml is there, and relationships.    *)
(* Document properties have none: where they do, a removed property part   *)
(* that is generated and then replaced gets its old ones back.             *)
Owner(l) == l[1]
TypeOf(l) == l[2]
Target(l) == l[3]
Link == (Parts \cup {Package}) \X Types \X Parts

IsSource(s) ==
    /\ s.parts \subseteq Parts
    /\ s.overrides \subseteq Parts
    /\ s.types \in BOOLEAN
    /\ s.links \subseteq Link
    /\ \A l \in s.links : Owner(l) \notin {Core, App}
    /\ s.parts \cap (SmallParts \cup {Sheet}) \subseteq s.overrides

ASSUME PartsAssumption ==
    /\ LET owners == <<Package, Workbook, Sheet, CalcChain, Core, App, Media>>
       IN  \A i, j \in 1..7 : owners[i] = owners[j] => i = j
    /\ MaxEdits \in Nat
ASSUME SourcesAssumption == \A s \in Sources : IsSource(s)

VARIABLES
    source,    \* the package in the file
    opened,    \* "no", "yes" or "rejected"
    manifest,  \* parts with their write mode, overrides, relationships
    plan,      \* the edit plan
    replaced,  \* part replacements, by part
    entries,   \* replaced metadata entries, by entry name
    omitted,   \* entry names left out of the output
    files,     \* the temporary files this editor owns
    edits      \* operations done, which also number the temporary files

vars == <<source, opened, manifest, plan, replaced, entries, omitted, files, edits>>

(***************************************************************************)
(* Entry names                                                             *)
(***************************************************************************)
PartEntry(p) == <<"part", p>>
RelsEntry(o) == <<"rels", o>>
TypesEntry == <<"types", Package>>

LinksOf(links, o) == {l \in links : Owner(l) = o}

SourceEntries ==
    {PartEntry(p) : p \in source.parts} \cup {RelsEntry(Owner(l)) : l \in source.links}
        \cup {e \in {TypesEntry} : source.types}

With(f, x, v) == [y \in DOMAIN f \cup {x} |-> IF y = x THEN v ELSE f[y]]
Without(f, x) == [y \in DOMAIN f \ {x} |-> f[y]]

(***************************************************************************)
(* PackageManifest                                                         *)
(***************************************************************************)
Manifest(parts, overrides, links) ==
    [parts |-> parts, overrides |-> overrides, links |-> links]

Known(m) == DOMAIN m.parts

SetMode(m, p, mode) == Manifest(With(m.parts, p, mode), m.overrides, m.links)

Restored(m, p) ==
    Manifest(With(m.parts, p, "copy"), m.overrides \cup ({p} \cap source.overrides),
             m.links \cup LinksOf(source.links, p))

Removed(m, p) ==
    Manifest(Without(m.parts, p), m.overrides \ {p}, m.links \ LinksOf(m.links, p))

WithoutCalcLinks(m) ==
    Manifest(m.parts, m.overrides,
             {l \in m.links : ~(Owner(l) = Workbook /\ TypeOf(l) = "calc")})

Generated(m, p) ==
    Manifest(With(m.parts, p, "generate"), m.overrides \cup {p}, m.links)

Inbound(m, p) == {l \in m.links : Target(l) = p}

(* The parts a worksheet depends on: those its relationships lead to and,  *)
(* as long as the manifest has them, the ones theirs lead to.              *)
DependencyParts(m) ==
    LET step(S) == S \cup {Target(l) : l \in {k \in m.links : /\ Owner(k) \in S
                                                           /\ Target(k) \in DOMAIN m.parts}}
    IN  step(step(step(step(step({Sheet})))))

\* Mutant of Unresolved: targets are looked up in the source package.
UnresolvedInSource(m) ==
    {l \in m.links : Owner(l) \in DependencyParts(m) /\ Target(l) \notin source.parts}

Unresolved(m) ==
    {l \in m.links : Owner(l) \in DependencyParts(m) /\ Target(l) \notin DOMAIN m.parts}

WithPackageLink(m, type, p) ==
    IF \E l \in LinksOf(m.links, Package) : TypeOf(l) = type
    THEN m
    ELSE Manifest(m.parts, m.overrides, m.links \cup {<<Package, type, p>>})

(***************************************************************************)
(* EditPlan                                                                *)
(***************************************************************************)
EditPlan(parts, removed, planned, gone, unresolved, full, action) ==
    [parts |-> parts, removed |-> removed, entries |-> planned, removedEntries |-> gone,
     unresolved |-> unresolved, full |-> full, action |-> action]

WithParts(pl, parts, removed) ==
    EditPlan(parts, removed, pl.entries, pl.removedEntries, pl.unresolved, pl.full, pl.action)

WithEntries(pl, planned, gone) ==
    EditPlan(pl.parts, pl.removed, planned, gone, pl.unresolved, pl.full, pl.action)

\* Mutant of PlanPart: a restored part stays among the removed ones.
PlanPartOnly(pl, p, mode) == WithParts(pl, With(pl.parts, p, mode), pl.removed)

PlanPart(pl, p, mode) == WithParts(pl, With(pl.parts, p, mode), Without(pl.removed, p))

\* A removed part keeps the relationships that were found to lead to it.
PlanRemoval(pl, p, inbound) ==
    WithParts(pl, Without(pl.parts, p), With(pl.removed, p, inbound))

PlanEntry(pl, e, mode) ==
    WithEntries(pl, With(pl.entries, e, mode), pl.removedEntries \ {e})

PlanEntryRemoval(pl, e) ==
    IF e \in SourceEntries
    THEN WithEntries(pl, Without(pl.entries, e), pl.removedEntries \cup {e})
    ELSE pl

PlanUnresolved(pl, links) ==
    EditPlan(pl.parts, pl.removed, pl.entries, pl.removedEntries,
             pl.unresolved \cup links, pl.full, pl.action)

PlanRecalculation(pl, action) ==
    EditPlan(pl.parts, pl.removed, pl.entries, pl.removedEntries, pl.unresolved, TRUE, action)

PreservedRels(pl, owners) ==
    LET kept == {RelsEntry(o) : o \in owners} \cap SourceEntries
    IN  WithEntries(pl, [e \in DOMAIN pl.entries \cup kept |->
                            IF e \in kept THEN "copy" ELSE pl.entries[e]],
                    pl.removedEntries \ kept)

(***************************************************************************)
(* Opening: the metadata PackageReader requires, and the first plan        *)
(***************************************************************************)
Readable(s) ==
    /\ s.types
    /\ \A l \in s.links : Owner(l) \in s.parts \cup {Package}

CopyManifest(s) == Manifest([p \in s.parts |-> "copy"], s.overrides, s.links)

CopyPlan(s) == EditPlan([p \in s.parts |-> "copy"], <<>>, <<>>, {}, {}, FALSE, "none")

Init ==
    /\ source \in Sources
    /\ opened = "no"
    /\ manifest = CopyManifest(source)
    /\ plan = CopyPlan(source)
    /\ replaced = <<>> /\ entries = <<>> /\ omitted = {} /\ files = {} /\ edits = 0

Open ==
    /\ opened = "no"
    /\ opened' = IF Readable(source) THEN "yes" ELSE "rejected"
    /\ UNCHANGED <<source, manifest, plan, replaced, entries, omitted, files, edits>>

\* reader_.workbook_part(): exactly one officeDocument relationship.
HasWorkbook ==
    {Target(l) : l \in {k \in LinksOf(source.links, Package) : TypeOf(k) = "office"}}
        = {Workbook}

(***************************************************************************)
(* Staging                                                                 *)
(***************************************************************************)
Xml(mode, full) == [form |-> "xml", mode |-> mode, full |-> full, files |-> {}]
Chunks(mode, owned) == [form |-> "chunks", mode |-> mode, full |-> FALSE, files |-> owned]

Unomitted(o, p) == o \ {PartEntry(p)}

\* Mutant of OwnedFiles: the file stays with the operation, which removes it.
OnlyEarlierFiles(f, payload) == f

OwnedFiles(f, payload) == f \cup payload.files

CurrentFull == Workbook \in DOMAIN replaced /\ replaced[Workbook].full

\* Mutant of SyncedTypes: an existing replacement is kept as it is.
SyncedTypesKept(e, m) ==
    IF m.overrides = source.overrides THEN Without(e, TypesEntry) ELSE e

SyncedTypes(e, m) ==
    IF TypesEntry \notin DOMAIN e THEN e
    ELSE IF m.overrides = source.overrides THEN Without(e, TypesEntry)
    ELSE With(e, TypesEntry, m.overrides)

SyncedTypesPlan(pl, e, m) ==
    IF TypesEntry \notin DOMAIN e THEN pl
    ELSE PlanEntry(pl, TypesEntry, IF m.overrides = source.overrides THEN "copy" ELSE "dom")

ActivePlan(pl, e, m, p) ==
    SyncedTypesPlan(IF RelsEntry(p) \in DOMAIN e THEN pl ELSE PreservedRels(pl, {p}), e, m)

PlannedManifest(p) == IF p \in Known(manifest) THEN manifest ELSE Restored(manifest, p)

Commit(m, pl, r, e, o, f) ==
    /\ manifest' = m /\ plan' = pl /\ replaced' = r
    /\ entries' = e /\ omitted' = o /\ files' = f
    /\ edits' = edits + 1
    /\ UNCHANGED <<source, opened>>

Ready == opened = "yes" /\ edits < MaxEdits

StagePart(p, payload) ==
    LET m == SetMode(PlannedManifest(p), p, payload.mode)
    IN  Commit(m, ActivePlan(PlanPart(plan, p, payload.mode), entries, m, p),
               With(replaced, p, payload), SyncedTypes(entries, m),
               omitted \ {PartEntry(p), RelsEntry(p)}, files)

\* Mutant of ReplacePart: the caller's workbook is staged as it is.
ReplacePartAsGiven(p, mode) ==
    /\ Ready
    /\ p \in Known(manifest) \cup source.parts
    /\ p \in SmallParts
    /\ mode \in {"generate", "dom"}
    /\ p = Workbook => HasWorkbook
    /\ StagePart(p, Xml(mode, FALSE))

(***************************************************************************)
(* Ordinary parts                                                          *)
(***************************************************************************)
ReplacePart(p, mode) ==
    /\ Ready
    /\ p \in Known(manifest) \cup source.parts
    /\ p \in SmallParts
    /\ mode \in {"generate", "dom"}
    /\ p = Workbook => HasWorkbook
    /\ StagePart(p, Xml(mode, p = Workbook /\ plan.full))

\* A worksheet among the targets is routed to ReplaceWorksheet.
ReplacePartChunks(p) ==
    /\ Ready
    /\ p \in Known(manifest) \cup source.parts
    /\ p \notin SmallParts \cup {Sheet}
    /\ StagePart(p, Chunks("stream", {}))

RemovePart(p, fail) ==
    /\ Ready
    /\ p \in Known(manifest) \cap source.parts
    /\ fail => Inbound(manifest, p) = {}
    /\ LET m == Removed(manifest, p)
           e == Without(entries, RelsEntry(p))
           pl == PlanEntryRemoval(PlanRemoval(plan, p, Inbound(manifest, p)), RelsEntry(p))
           gone == {PartEntry(p)} \cup ({RelsEntry(p)} \cap SourceEntries)
       IN  IF p \in manifest.overrides
           THEN Commit(m, PlanEntry(pl, TypesEntry, "dom"), Without(replaced, p),
                       With(e, TypesEntry, m.overrides), omitted \cup gone, files)
           ELSE Commit(m, pl, Without(replaced, p), e, omitted \cup gone, files)

(***************************************************************************)
(* Calculation metadata, shared by the worksheet and workbook operations   *)
(***************************************************************************)
TypesNameCalcChain(m) == CalcChain \in Known(m) \cup m.overrides
CalcLinks(m) == {l \in LinksOf(m.links, Workbook) : TypeOf(l) = "calc"}

DropsTypes(m, action) == action = "remove" /\ TypesNameCalcChain(m)
DropsLinks(m, action) == action = "remove" /\ CalcLinks(m) # {}

CalcManifest(m, action) ==
    IF action = "remove" THEN WithoutCalcLinks(Removed(m, CalcChain)) ELSE m

CalcEntries(e, m, action) ==
    LET after == CalcManifest(m, action)
        typed == IF DropsTypes(m, action) THEN With(e, TypesEntry, after.overrides) ELSE e
    IN  IF DropsLinks(m, action)
        THEN With(typed, RelsEntry(Workbook), LinksOf(after.links, Workbook))
        ELSE typed

CalcOmitted(o, action) ==
    IF action = "remove" /\ CalcChain \in source.parts
    THEN o \cup {PartEntry(CalcChain), RelsEntry(CalcChain)} ELSE o

CalcEntriesPlan(pl, m, action) ==
    LET gone  == IF action = "remove" /\ CalcChain \in source.parts
                 THEN PlanEntryRemoval(pl, RelsEntry(CalcChain)) ELSE pl
        typed == IF DropsTypes(m, action) THEN PlanEntry(gone, TypesEntry, "dom") ELSE gone
    IN  IF DropsLinks(m, action) THEN PlanEntry(typed, RelsEntry(Workbook), "dom") ELSE typed

CalcRemovalPlan(pl, m, action, inbound) ==
    IF action = "remove" /\ CalcChain \in Known(m)
    THEN PlanRemoval(pl, CalcChain, inbound) ELSE pl

WorkbookReady == HasWorkbook /\ Workbook \in Known(manifest) \cap source.parts

(***************************************************************************)
(* Worksheets.  policy is the ReferencePolicy: what linked parts cause,    *)
(* whether a recalculation is requested and what becomes of calcChain.     *)
(* StageWorksheet is the commit all worksheet operations end in; its       *)
(* chunks may be a temporary file, which the editor then owns.             *)
(***************************************************************************)
RequestsFull(policy, m) ==
    policy.full \/ (policy.linked = "recalculate" /\ LinksOf(m.links, Sheet) # {})

\* The owners whose relationships the rewrite reports as preserved.
Copied(m, policy) == Known(m) \ (IF policy.calc = "remove" THEN {CalcChain} ELSE {})

WorksheetPlan(policy, m, mode, full) ==
    LET target == ActivePlan(PlanPart(plan, Sheet, mode), entries,
                             CalcManifest(m, policy.calc), Sheet)
        sheet == PreservedRels(target, Copied(m, policy))
        book  == IF full
                 THEN PlanPart(PlanRecalculation(sheet, policy.calc), Workbook, "dom")
                 ELSE sheet
        audited == PlanUnresolved(book, Unresolved(m))
    IN  CalcEntriesPlan(CalcRemovalPlan(audited, m, policy.calc, {}), m, policy.calc)

StageWorksheet(policy, mode, owned) ==
    /\ WorkbookReady
    /\ LET m == PlannedManifest(Sheet)
           full == RequestsFull(policy, m)
           after == SetMode(CalcManifest(m, policy.calc), Sheet, mode)
           sheet == Chunks(mode, IF owned THEN {edits + 1} ELSE {})
           calcGone == policy.calc = "remove" /\ CalcChain \in Known(m)
           back == omitted \ {PartEntry(Sheet), RelsEntry(Sheet)}
           r1 == With(replaced, Sheet, sheet)
           r2 == IF full THEN With(r1, Workbook, Xml("dom", TRUE)) ELSE r1
       IN  /\ policy.linked = "fail" => LinksOf(m.links, Sheet) = {}
           /\ Commit(IF full THEN SetMode(after, Workbook, "dom") ELSE after,
                     WorksheetPlan(policy, m, mode, full),
                     IF calcGone THEN Without(r2, CalcChain) ELSE r2,
                     CalcEntries(SyncedTypes(entries, after), m, policy.calc),
                     CalcOmitted(IF full THEN Unomitted(back, Workbook) ELSE back,
                                 policy.calc),
                     OwnedFiles(files, sheet))

ReplaceWorksheetFromChunkSource(policy) ==
    /\ Ready
    /\ Sheet \in Known(manifest) \cup source.parts
    /\ StageWorksheet(policy, "stream", TRUE)

ReplaceWorksheetChunks(policy) ==
    /\ Ready
    /\ Sheet \in Known(manifest) \cup source.parts
    /\ StageWorksheet(policy, "stream", FALSE)

\* A patch reads the source entry or the chunks an earlier edit staged.
CurrentInput ==
    IF Sheet \in DOMAIN replaced THEN replaced[Sheet].form = "chunks"
    ELSE Sheet \in source.parts

ReplaceWorksheetSheetData(policy) ==
    /\ Ready /\ CurrentInput
    /\ Sheet \in Known(manifest)
    /\ StageWorksheet(policy, "dom", TRUE)

\* The streamed patch always reports the dimension as dependent metadata.
ReplaceWorksheetCells(policy) ==
    /\ Ready /\ CurrentInput
    /\ Sheet \in Known(manifest)
    /\ policy.linked # "fail"
    /\ StageWorksheet(policy, "stream", TRUE)

(* A worksheet without relationships that is still the source's is kept as *)
(* ranges of the source file or, if compressed, of an inflated copy.       *)
ReplaceWorksheetCellsIndexed(policy, inflated) ==
    /\ Ready /\ CurrentInput
    /\ Sheet \in Known(manifest) \ DOMAIN replaced
    /\ policy.linked # "fail" /\ LinksOf(source.links, Sheet) = {}
    /\ StageWorksheet(policy, "stream", inflated)

RequestFullCalculation(action) ==
    /\ Ready /\ WorkbookReady
    /\ LET m == manifest
           r == With(replaced, Workbook, Xml("dom", TRUE))
           book == PlanPart(PlanRecalculation(plan, action), Workbook, "dom")
           calc == CalcEntriesPlan(CalcRemovalPlan(book, m, action, Inbound(m, CalcChain)),
                                   m, action)
       IN  Commit(SetMode(CalcManifest(m, action), Workbook, "dom"),
                  IF action # "remove"
                  THEN PreservedRels(book, {Workbook, CalcChain})
                  ELSE IF DropsLinks(m, action) THEN calc
                  ELSE PreservedRels(calc, {Workbook}),
                  IF action = "remove" THEN Without(r, CalcChain) ELSE r,
                  CalcEntries(entries, m, action),
                  CalcOmitted(Unomitted(omitted, Workbook), action), files)

(***************************************************************************)
(* Catalog rename and document properties                                  *)
(***************************************************************************)
RenameSheetCatalogEntry ==
    /\ Ready /\ HasWorkbook /\ Workbook \in Known(manifest)
    /\ Commit(SetMode(manifest, Workbook, "dom"),
              PreservedRels(PlanPart(plan, Workbook, "dom"), {Workbook}),
              With(replaced, Workbook, Xml("dom", CurrentFull)), entries,
              Unomitted(omitted, Workbook), files)

PropertiesLinkable ==
    \A l \in LinksOf(manifest.links, Package) :
        /\ TypeOf(l) = "core" => Target(l) = Core
        /\ TypeOf(l) = "app" => Target(l) = App

SetDocumentProperties ==
    /\ Ready /\ PropertiesLinkable
    /\ LET typed == Generated(Generated(manifest, Core), App)
           m == WithPackageLink(WithPackageLink(typed, "core", Core), "app", App)
           newTypes == ~({Core, App} \subseteq Known(manifest) \cap manifest.overrides)
           newLinks == m.links # manifest.links
           e1 == IF newTypes THEN With(entries, TypesEntry, m.overrides) ELSE entries
           p1 == PlanPart(PlanPart(plan, Core, "generate"), App, "generate")
           p2 == IF newTypes THEN PlanEntry(p1, TypesEntry, "dom") ELSE p1
           props == Xml("generate", FALSE)
       IN  Commit(m, IF newLinks THEN PlanEntry(p2, RelsEntry(Package), "dom") ELSE p2,
                  With(With(replaced, Core, props), App, props),
                  IF newLinks
                  THEN With(e1, RelsEntry(Package), LinksOf(m.links, Package)) ELSE e1,
                  Unomitted(Unomitted(omitted, Core), App), files)

Policies ==
    [linked : {"preserve", "recalculate", "fail"}, full : BOOLEAN, calc : {"preserve", "remove"}]

Next ==
    \/ Open
    \/ \E p \in Parts, mode \in Modes : ReplacePart(p, mode)
    \/ \E p \in Parts : ReplacePartChunks(p)
    \/ \E p \in Parts, fail \in BOOLEAN : RemovePart(p, fail)
    \/ \E policy \in Policies :
           \/ ReplaceWorksheetFromChunkSource(policy)
           \/ ReplaceWorksheetChunks(policy)
           \/ ReplaceWorksheetSheetData(policy)
           \/ ReplaceWorksheetCells(policy)
           \/ \E inflated \in BOOLEAN : ReplaceWorksheetCellsIndexed(policy, inflated)
    \/ \E action \in {"preserve", "remove"} : RequestFullCalculation(action)
    \/ RenameSheetCatalogEntry
    \/ SetDocumentProperties

Spec == Init /\ [][Next]_vars

(***************************************************************************)
(* planned_output(): what a save writes                                    *)
(***************************************************************************)
Planned == SourceEntries \cup DOMAIN entries \cup {PartEntry(p) : p \in DOMAIN replaced}
Written == Planned \ omitted

OutputTypes == IF TypesEntry \in DOMAIN entries THEN entries[TypesEntry] ELSE source.overrides

OutputLinks(o) ==
    IF RelsEntry(o) \notin Written THEN {}
    ELSE IF RelsEntry(o) \in DOMAIN entries THEN entries[RelsEntry(o)]
    ELSE LinksOf(source.links, o)

OutputMode(p) ==
    IF p \in DOMAIN replaced THEN replaced[p].mode ELSE "copy"

(***************************************************************************)
(* Properties                                                              *)
(***************************************************************************)
Payload == [form : {"xml", "chunks"}, mode : Modes, full : BOOLEAN,
            files : SUBSET (1 .. MaxEdits)]

(* The maps are over parts and entry names, small parts are staged as XML  *)
(* and all others as chunks, so that a later patch can read them.          *)
TypeOK ==
    /\ IsSource(source) /\ opened \in {"no", "yes", "rejected"}
    /\ manifest.overrides \subseteq Parts /\ manifest.links \subseteq Link
    /\ Known(manifest) \subseteq Parts
    /\ \A p \in DOMAIN replaced :
           replaced[p] \in Payload /\ (replaced[p].form = "xml" <=> p \in SmallParts)
    /\ DOMAIN entries \subseteq {TypesEntry, RelsEntry(Package), RelsEntry(Workbook)}
    /\ files \subseteq 1 .. edits /\ edits \in 0 .. MaxEdits
    /\ plan.action \in Actions

(* The package a save would write is the one the manifest describes: the   *)
(* same parts, the same content-type overrides and, for every owner, the   *)
(* same relationships, however parts were removed, restored, generated and *)
(* replaced before.                                                        *)
OutputFollowsManifest ==
    opened # "yes" \/
    /\ {p \in Parts : PartEntry(p) \in Written} = Known(manifest)
    /\ OutputTypes = manifest.overrides
    /\ \A o \in Known(manifest) \cup {Package} : OutputLinks(o) = LinksOf(manifest.links, o)
    /\ \A o \in Parts \ Known(manifest) : OutputLinks(o) = {}

(* The edit plan audits report is the one that is carried out: each part   *)
(* with the mode it is written in, as removed exactly the source parts the *)
(* package has lost, and no entry as removed that is written.              *)
PlanFollowsOutput ==
    opened # "yes" \/
    /\ plan.parts = manifest.parts
    /\ \A p \in Known(manifest) : plan.parts[p] = OutputMode(p)
    /\ DOMAIN plan.removed = source.parts \ Known(manifest)
    /\ {PartEntry(p) : p \in DOMAIN plan.removed} \cup plan.removedEntries \subseteq omitted

(* A requested recalculation reaches the output: while there is a workbook *)
(* part it carries fullCalcOnLoad, also after a caller replaced, renamed   *)
(* or removed and restored it.                                             *)
FullCalculationKept ==
    plan.full /\ Workbook \in Known(manifest)
        => Workbook \in DOMAIN replaced /\ replaced[Workbook].full

(* Every temporary file a planned part would be read from belongs to the   *)
(* editor, which keeps it until it is destroyed.                           *)
StagedFilesOwned == \A p \in DOMAIN replaced : replaced[p].files \subseteq files

(* A replaced worksheet keeps its relationships even when their targets    *)
(* are gone.  Each of them was reported, as unresolved by a rewrite or as  *)
(* inbound when its target was removed, in whatever order the two came.    *)
DanglingSheetLinksReported ==
    Sheet \in DOMAIN replaced =>
        \A l \in LinksOf(manifest.links, Sheet) :
            \/ Target(l) \in Known(manifest)
            \/ l \in plan.unresolved
            \/ Target(l) \in DOMAIN plan.removed /\ l \in plan.removed[Target(l)]
=============================================================================

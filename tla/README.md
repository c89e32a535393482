# FastXLSX: a TLA+ model of its editing and writing core

FastXLSX is a C++20 library that writes new `.xlsx` packages (`WorkbookWriter`, `Workbook`) and
edits existing ones (`WorkbookEditor`). It is single-threaded and synchronous: every call runs to
its end, returns or throws, and nothing happens between calls. What makes it hard is not
concurrency but *copies*. The same workbook is kept in several places (the source package, worksheet
sessions in memory, a queue of edits, a planned package, temporary files, the file last written),
an operation has to keep all of them in step, and almost every operation can throw half-way.

This directory holds TLA+ specifications of that core, TLC configurations that check them on small workbooks, and
TLAPS proofs of what matters most for every workbook. The models follow a workbook through the library: a package is
opened and read (`PackageInput`), its worksheets become cells (`CellGrid`) or are patched as they stream by
(`WorksheetRewrite`), the edits are gathered in a plan (`WorkbookEditor`, `PackagePlan`), and the plan, or rows handed
to the streaming writer (`StreamingWriter`, `WriterParts`), becomes a file (`PackageSave`). `PROJECT.json` lists runs,
mutants, the source lines each definition translates, hazards, findings and theorems.

## Inventory of the system

Paths are relative to the repository (`src/` there is the library's source directory).

| Component | State it keeps | Operations | What is hard |
|---|---|---|---|
| `WorkbookEditor` (`src/workbook_editor.cpp`, `workbook_editor_state.hpp`) | sheet catalog, sessions, edit queues, two edit counters, last error | `open`, `worksheet`, `replace_sheet_data`, `replace_cells`, `rename_sheet`, `replace_image`, `set_document_properties`, `request_full_calculation`, `save_as` | every call updates the facade *and* the plan; a save stages into the plan before it writes |
| Sheet catalog and queues (`workbook_editor_sheet_catalog.cpp`, `_pending_edits.cpp`, `_sheet_rename.cpp`) | source name -> planned name; payload and patch diagnostics keyed by planned name | rename migrates five maps | a key left behind attaches to the next sheet that takes the name |
| Worksheet sessions (`materialized_worksheet_session.hpp`, `worksheet_facade.cpp`) | one `CellStore` and one dirty flag per opened sheet | cell and range writes, erasures, row/column shifts, moves and copies, also between two sheets | all-or-nothing over two sessions; the dirty flag is the only trace of an erased cell |
| `CellStore` (`cell_store.cpp`) | sparse map of cells with guardrails on count and bytes | load from XML, set, erase, shift, project to XML | a limit reached half-way through a batch |
| Shared-strings projection (`workbook_editor_materialized_edits.cpp`) | none: planned anew by each save | append plan, index of a text, staging of the part | worksheet parts point into the table by position |
| Formula audit, rewriting, translation (`formula_reference_audit.cpp`, `formula.cpp`) | none | which references a rename or a shift rewrites | names match without case, quoted or not |
| `PackageEditor` (`package_editor.cpp`) | manifest, edit plan, part and entry replacements, omitted entries, temporary files | staged replacement of parts, catalog rename, calc metadata, `save_as` | five containers that change together; output replaced by two renames |
| OPC model (`opc.cpp`) | content types, relationships, part index, edit plan | add/remove parts, serialise, plan removals | the parts that mention a part have to agree |
| `PackageReader` (`package_reader.cpp`) | ZIP directory and part index of the source | open, read and extract entries | malformed input |
| Package writer, ZIP writer (`package_writer.cpp`, `zip_store_writer.cpp`) | output stream, offsets, CRCs | write entries from memory and files | files that change between staging and writing; buffered writes; 32-bit fields |
| Worksheet event reader, transformer, cell index | parser state, pending bytes | streaming rewrite of single cells | XML split at any byte between chunks |
| `WorkbookWriter`/`WorksheetWriter` (`streaming_writer.cpp`) | row count, body file, shared strings, styles, tables, images; closed flag | `add_worksheet`, `append_row`, metadata calls, `close` | a failed `append_row` or `close` after state has advanced; retry |
| `Workbook` (`workbook.cpp`) | worksheets with all their cells | in-memory building, one `save` | little: sequential |
| `image.cpp`, `xml.cpp` | none | header sniffing, escaping | pure conversions |

How they interact: the facade calls `PackageEditor` for every queued edit and keeps its own
diagnostics of what it queued; a session reads the *source* package through `PackageReader`, never
the plan; `save_as` projects dirty sessions into the plan, lets `PackageEditor` turn the plan into
package entries, and `write_package` streams these into a temporary file that is renamed over the
output. Only when that has succeeded are the sessions marked clean and the counters copied.

What makes each component correct:

* editor: it behaves like one document; a save writes that document or nothing; a failed call leaves
  the document as it was; `has_unsaved_changes()` is false only if the file holds the document;
* catalog and queues: the facade's names and the planned ones agree, names stay unique without
  case, a freed name carries nothing to its next owner, references follow a renamed sheet;
* sessions: no edit queued before a session is lost, none made through it is missed by the flush;
* string table: entries keep their positions; a flushed text reads back as itself;
* cells: a worksheet that opens gives the cells it has; a batch, shift or transfer happens as a whole, within the guardrails;
  formulas follow the cells; a sheet without changes reloads as it is;
* package plan: manifest, edit plan, replacements and omissions describe one package, and it is the one written;
* package reader and staged chunks: what is read without an error is what was written or promised;
* streamed patches: the sheet with its targets replaced, whatever the chunks, and a worksheet again;
* package save: at the output path there is always the old package or the new one, complete;
* streaming writer: what `close` writes is what `append_row` accepted, and its string indexes,
  counts and row numbers agree with it; the ids its parts mention lead to the parts they were made for.

## Modules

| Module | Models | Extends or instantiates |
|---|---|---|
| `WorkbookEditor` | the facade, its sessions and queues, the planned package as the facade sees it, saves and their failures | |
| `WorkbookDocument` | the abstract promise: one document, `unsaved`, a save that is all or nothing | |
| `WorkbookEditorRefinement` | the mapping from the editor to the document | both |
| `WorkbookEditorProofs` | theorems about the editor and its refinement | the above |
| `PackagePlan` | the plan of `PackageEditor`: manifest, edit plan, replacements, omitted entries | |
| `PackagePlanProofs` | theorems | `PackagePlan` |
| `PackageSave` | `PackageEditor::save_as`, the package writer and the commit, one file system call at a time, with crashes | `PackageOutput` |
| `PackageOutput` | the abstract promise: one package, replaced whole or not at all | |
| `PackageSaveProofs` | theorems | `PackageSave` |
| `StreamingWriter` | `WorkbookWriter`: rows, shared strings, buffered bodies, `close` and its retry | |
| `WriterParts` | hyperlinks, tables, images, formatting rules, validations, styles; the parts and relationships `close` makes of them | `StreamingWriter` |
| `WriterPartsProofs` | theorems about both | `WriterParts`, `DataInduction` |
| `FormulaShift` | references in formulas: what is one, translation, structural edits | |
| `CellSession` | the sparse store with its guardrails and the session operations on it | `FormulaShift` |
| `WorksheetMarkup` | the pieces of a worksheet part and the grammar its readers enforce | |
| `CellLoader` | cells from the reader's events and the shared strings | `WorksheetMarkup`, `CellSession` |
| `SheetReading` | the reference: cells of a worksheet seen as a tree of elements | `CellLoader` |
| `SheetSaving` | what a save writes: cells in place of a worksheet's data, a dimension, texts at the end of the shared strings | `CellLoader` |
| `CellGrid` | the public calls on cells over several sheets, with saves | `SheetReading`, `SheetSaving` |
| `CellGridProofs` | theorems | `CellGrid`, `DataInduction` |
| `CellPatch` | replacing cells as events go by; planning the same as byte ranges | `WorksheetMarkup` |
| `WorksheetRewrite` | the three passes of a patch over a worksheet in chunks, through a bounded window | `CellPatch` |
| `WorksheetRewriteProofs` | theorems | `WorksheetRewrite`, `DataInduction` |
| `EntryChunks` | staged parts as pieces of memory, files and ranges of files: cutting, measuring, checking | |
| `ZipArchive` | the ZIP files written and the checks on the ones opened | `EntryChunks` |
| `PackageInput` | opening a package, reading and extracting entries, staging, patching and replaying chunks | `ZipArchive` |
| `PackageInputProofs` | theorems | `PackageInput`, `DataInduction` |
| `DataInduction` | induction over the numbers, finite sets and sequences of the models, as lemmas | |
| `MC...` | small instances for TLC | the module they are named after |

The models are composed where one component's answer decides what another does next: `WorkbookEditor` holds
the facade *and* the plan, `CellGrid` runs loader, store, formulas and writing in one loop, `WorksheetRewrite`
runs reader, planner and transformer on one worksheet, `PackageInput` runs the reader against the bytes the
writer produces, `WriterParts` adds its calls between the rows of `StreamingWriter`. Elsewhere the border is
the result of one component, taken as an input of the next: the packages `PackagePlan` opens are manifests,
its writes are whole entries, and `PackageSave` takes such entries with nothing known of them but how their
bytes are checked.

### WorkbookEditor

A sheet is identified by the name it had in the source, as in `WorkbookEditorSheetCatalog`.

| Variable | In the code |
|---|---|
| `catalog` | `WorkbookEditor::Impl::sheet_catalog` |
| `materialized`, `store`, `dirty` | the keys of `materialized_sessions`, the `CellStore` of each, the `dirty_` flags |
| `payloads`, `targeted` | `pending_sheet_data_payloads`, `pending_targeted_cell_replacements` |
| `pending`, `saved`, `lastError` | `pending_public_edit_count`, `saved_public_edit_count`, `last_public_edit_error` |
| `planNames`, `planRefs`, `planFullCalc` | the planned `xl/workbook.xml`: sheet names, definedNames, `fullCalcOnLoad` |
| `planXml`, `planStrings`, `planProps`, `planImage` | replacements recorded in `PackageEditor::replacements_`, else the source parts |
| `output` | the package at the path given to the last successful `save_as` |

Every public editing call is one action (`Worksheet`, `SetCell`, `EraseCell`, `MoveCellsFrom`,
`ReplaceSheetData`, `ReplaceCells`, `ReplaceNoCells`, `RequestFullCalculation`,
`SetDocumentProperties`, `ReplaceImage`, `RenameSheet`, `SaveAs`), since nothing runs between its
steps. A call that throws before it changes the plan is `EditFails`: the code validates and stages on
copies and swaps at its end. `save_as` is the one call whose failure leaves a trace, so its failures are
actions of their own: `SaveAsFailsStaging` (some sessions staged, the string table not) and
`SaveAsFailsWriting` (all staged, nothing written).

Abstractions: a cell holds a text, a number, a shared-string index or a formula reduced to the one
sheet name it mentions; `CaseKey` stands for ASCII lower-casing; a guardrail or a malformed part is
the choice to throw. What must not be abstracted is kept: indexes against tables, source against plan,
planned names against source names, and the order in which a save stages, writes and commits.

### Runs

| Run | Question | Result |
|---|---|---|
| `inline` | Does the editor implement the abstract document, whatever fails, when no table is extended (`Projectable = FALSE`)? Are clean sessions planned, is a saved output the document? | passes |
| `rename` | Do both catalogs, the queues and the references follow renames over freed names and case variants? While saves extend the string table again and again, do source indexes keep their texts, and does each save write the sessions it flushes? | passes |
| `drift` | Is a saved output the document when a second save appends a new text? | violated: a finding |
| `reused_name` | Does a rename leave references to *other* sheets alone? | violated: a finding |

Bounds. `MaxEdits = 3` bounds the counted edits (`pending`): with three, a rename, a second rename over
the freed name and a save, or two saves with an edit between them, fit. Two sheets are enough for
one to take the other's name and for moves between sessions; three or four names give a free name and a case
variant. One cell per sheet suffices because operations on different cells of a sheet do not interact in
this model except through the sheet's dirty flag, which `EraseCell` and `MoveCellsFrom` reach with one cell.
Three texts are an old one and two new ones, which is what two extending saves need.

### Findings of WorkbookEditor

* `drift` (`workbook_editor_materialized_edits.cpp:37`): each save plans the string table from the *source*
  and the sessions dirty now. A second save with a new text replaces the table of the first, whose
  worksheets keep indexes into it: their cells change text. The trace is six calls long.
* `reused_name` (`workbook_editor_sheet_rename.cpp:62`): a rename also rewrites references to the
  sheet's source name. If another sheet has taken that name since, its references are retargeted.

### Proofs of WorkbookEditor

All theorems hold for every finite set of names, every source package and every input set that
satisfies the named assumptions `NamesAssumption` and `SourceAssumption`.

No property is inductive alone. The proofs build one chain of inductive invariants, each using the one before:

1. `CatalogInv` = `TypeOK /\ CatalogsAgree`. A rename updates the catalog and the plan separately; that
   `planNames = catalog` is what makes `SheetOf` and `PlannedSheetOf` pick the same sheet later on.
2. `StagingInv` adds `OneStagingMode`: names are unique without case, so a migrated key cannot collide.
3. `SourceInv` adds `OpenedSheetsReadThePlan`: a sheet without session, payload or patch still has its source part.
4. `SessionInv` adds, under `NoStringsAdded`, that the planned table is the source's and that clean
   sessions are planned (`CleanSessionsArePlanned`).
5. `OutputInv` adds that with equal counters and no dirty session the output is the plan.

`TypeCorrect`, `CatalogsStayInStep`, `StagingModesExclude`, `MaterializationReadsThePlan` and
`SourceIndexesAreStable` follow for all sources; `FlushedSheetsReadBack` and `ReferencesFollowRenames` are
action properties proved from `SourceInv` and `CatalogInv`. `CleanSessionsPlanned`, `SavedMeansWritten` and
`EditorImplementsDocument` assume `NoStringsAdded`: either the source table cannot be extended, or it has every
text already. Without it they are false, which is what `drift` shows; the assumption is the exact extent of that finding.

The refinement `Spec => Abstract!Spec` is proved step by step: the initial states map, and every action maps to the
abstract edit of the same name, to `Save`, or to a stutter (`Worksheet`, failed saves).

### PackageSave

`WorkbookEditor` takes a save as one step with three outcomes. `PackageSave` opens that step: it models
`PackageEditor::save_as` and the writer below it call by call of the file system, because that is the one
place where other actors take part (whoever changes the source files, and a process that ends).

| Variable | In the code |
|---|---|
| `pc`, `saves`, `outcome` | where `save_as` stands, how many calls were made, how the last one ended |
| `source` | the bytes behind each planned entry: in the source package or in a file a streaming edit has staged |
| `temps` | `temporary_source_files`: entries inflated before writing |
| `out` | the file under the output path |
| `outputs`, `backups` | the siblings `<output>.fastxlsx-output-<i>` and `-backup-<i>` |
| `temp`, `aside`, `has_backup` | `temporary_output_path`, `backup_path`, `has_backup` |

| Steps | Actions |
|---|---|
| gather the entries, find a sibling name | `Begin`, `Extract`, `ExtractFails`, `ChooseSibling`, `NoSibling` |
| `write_package` | `OpenOutput`, `OpenFails`, `WriteEntry`, `WriteFails`, `CloseOutput`, `CloseFails` |
| `commit_package_editor_output_file` | `Displace`, `DisplaceFails`, `Replace`, `ReplaceFails`, `Restore`, `RestoreFails`, `DropBackup` |
| return or catch | `Succeed`, `CleanUp` |
| environment | `Change` (a file's bytes change), `Crash` (memory is lost, files stay) |

An entry has one of three kinds, by what the writer can compare its bytes with: `checked` (size and CRC-32),
`extracted` (compared while inflating, then a staged file), `unchecked` (size only; the ranges of the indexed
cell replacement). Bytes are `planned`, `rewritten` at the same length, or `resized`; a CRC-32 is taken to tell
`rewritten` from `planned`. `Faults` names the file system calls that may fail in a run. A crash is the end of the
process; the library never calls `fsync`, and loss of power is not modelled.

`PackageOutput` is the promise: at every moment one package can be found under the path or beside it; a call that
returns has replaced it by a complete one, a call that throws has not. `Output` in `PackageSave` is its
instance; `Kept` maps the files to that one package: it is `out`, or the backup while the path is empty.

| Run | Question | Result |
|---|---|---|
| `save_stored` | Do three saves over one path, with every reported fault, crashes anywhere and files changed meanwhile, amount to whole replacements? Are leftovers of earlier calls left alone? | passes |
| `save_minizip` | Without crashes: is what a returning call leaves complete, under its own name, and nothing else left? | passes |

Bounds. Two entries, one compared and one not, cover the writer's cases (`save_stored`); three include an
extracted one (`save_minizip`). Two candidate names instead of 1024 are enough to be used up by crashes, so
`NoSibling` and `DisplaceFails` happen; three saves let the third meet leftovers of two. Without crashes
nothing is left over, so `save_minizip` has one candidate and two saves.

A limit (`zip_store_writer.cpp:601`): `write_stored_zip` tests its stream after the last write but never
flushes it. What is still buffered, normally the whole central directory, is written by the destructor, which
reports nothing; the file without its directory is then renamed over the output, and the backup is removed. No
test or document of the repository says what happens then, so no run is given for it; `save_stored` leaves the
fault `"flush"` out, and the theorems that need this say so.

Proofs (`PackageSaveProofs`). The invariants are chained: types; `FilesInv`, that every entry written was
accepted and the sibling is complete once the commit begins; `SiblingOwned`, that the sibling being written is
this call's and was free when chosen; `LeftInv` and `NameInv` for the last two properties.
`SaveImplementsOutput` and `SavedMeansComplete` assume `FlushesReported` (`Backend = "minizip" \/ "flush"
\notin Faults`), which is the limit above; the others need no more than the constants' types, and
`TemporariesRemoved` and `NameKept` that nothing crashes and removals or restores do not fail.

### StreamingWriter

`WorkbookWriter` appends rows to one temporary file per sheet through a buffered stream, while counters, dimension and
shared strings are kept in memory, and packs everything in `close()`.

| Variable | In the code |
|---|---|
| `sheets` | `WorkbookWriterState::worksheets`, by name |
| `row_count`, `max_column`, `has_formula` | the members of that name of `WorksheetWriterState` |
| `body`, `pending`, `stream` | the body file, what its `std::ofstream` still buffers, and the stream's state |
| `values`, `count` | `SharedStringTable` |
| `row` | the row a call is formatting; cells are written one action at a time, since each may extend the table |
| `closed`, `package` | `WorkbookWriterState::closed`, what the last successful `close` wrote |
| `handed`, `appended` | histories: rows counted, and numbers of the rows whose append returned |

`append_row` is `StartRow` (limits, counters), `WriteCell` per cell, and `EndRow`, `EndRowFails` or
`EndRowRefused`. `close` is `Close` or, if `write_package` throws, `CloseFails`, after which the caller may
append and close again. The file stream is external: `Pieces` is what it may have written of a buffer when it
fails (a prefix, maybe with a torn row), and what it still holds may be written once more when it is closed.

| Run | Question | Result |
|---|---|---|
| `writer_disk` | With rows, last buffers and packages failing anywhere: does what is in the package read as appended, lie within the dimension, and is it complete where no stream failed? Is the string table sound? (And three questions about `WriterParts`.) | passes |

Bounds. Two sheets share one string table; two rows reach the row limit (`MaxRows` stands for 1,048,576); the
rows repeat a text within a row, across rows and across sheets, skip a column, and are empty. A caller that
stops is allowed, so the run does not check for deadlock.

A limit (`streaming_writer.cpp:1873`): `close()` closes each body stream and ignores the outcome. If the last
buffer cannot be written, the package lacks rows and the call returns. `ClosedHoldsAppendedRows` therefore
speaks of the sheets whose stream has not failed, and `RowsReadAsHanded` of the rows that are there, under
every fault.

Proofs (the first part of `WriterPartsProofs`). `RowsInv` relates each row in a file or buffer to the row handed under
its number through the table of now, which works because the table only grows at its end; it gives `RowsReadAsHanded`
under every fault. `CompleteInv` adds that for a stream that has not failed, file and buffer together are the rows
whose append returned; it gives `ClosedHoldsAppendedRows`. `DimensionInv` keeps every row, in whatever file or buffer
it is, within the counters of now, which only grow, and so every cell within the dimension that `close` writes from
them (`Dimension`: `A1` while no cell was appended, so that rows without cells may lie outside, as in
`worksheet_dimension`); with it `DimensionCovers` needs the rows' columns to increase (`ColumnsAssumption`, what
`append_sparse_row` checks). `TableInv` gives each use of a text an index and a call of its own and compares their
number with `count`: a failing stream can only lose rows, or write them twice, and a sheet it did that to is left out
of the claim (`StringTableCorrect`).

### WriterParts

What `WorksheetWriter` and `WorkbookWriter` record beside rows, and what `close()` makes of it. Each kind has
a list of its own; parts are numbered over all sheets, relationship ids within each part, and both are counted
again in every function that writes them.

| Variable | In the code |
|---|---|
| `meta` | of each sheet: hyperlinks, tables, images, the three lists of formatting rules and the next priority, validations |
| `styles` | the registered styles, in the order of their ids |
| `issued`, `ruled` | histories: styles with the ids returned for them, rules in the order of the calls |
| `parts` | the entries of the package beside rows, by name |

Actions: `AddExternalHyperlink`, `AddInternalHyperlink`, `AddTable`, `AddImage`, `AddDataValidation`,
`AddColorScale`, `AddDataBar`, `AddIconSet`, `AddStyle`, and `CloseWithParts`, which is `Close` of
`StreamingWriter` and the parts. A call happens as a whole or is refused. Images are copied to temporary files
by the call; what fails while copying is not modelled. `RelationshipSet::add` refuses an id used twice; the
model has that as the guard `AllRelationshipsAccepted`, and `PartsAreLinked` demands that it never bites.

`writer_disk` checks, over every reachable mixture: every relationship id leads to what the caller added there
and exactly the parts that are there have a content type (`PartsAreLinked`), an id returned by `add_style`
stands for the style asked for in whatever styles part is written later (`StylesReadBack`), and rules of the
three kinds come out in the order of their calls (`RulesKeepTheirOrder`). `Mixes` bounds the mixture: up to
three rows alone, up to four other calls alone, one row with up to two. Four calls put two images with
hyperlinks and two tables on two sheets, where numbering over the package and within a sheet part differ; rows
and calls share only the closed flag and the sheets.

Proofs (`WriterPartsProofs`). `PartsLeaveRows`: `SpecWithParts` implements `Spec` of `StreamingWriter`, so what is proved
of rows holds with calls between them. The three properties are proved for any number of sheets and calls:

* `RulesInOrder`. `RulesInv` says that the three lists hold the rules of a sheet, each under the number of its
  call, in rising order (`Spread`). The merge has then always written the first `n` calls, and the next number
  is at the head of a list (`SpreadStep`); lists in rising order alone would not do, since nothing would say
  that no number is missing.
* `StylesAreFound`. `StylesInv` says of each kind that ids are numbered in the order of their first use, that
  equal ids stand for equal values, and that every answer given stands for its style. `InOrder` lists the first
  uses again at the close, and an element's place in it is the number of those before it (`OrderedPlaces`).
* `PartsLinked`. Every relationship has its position as id (`Positional`), so no id occurs twice and an id is
  followed to one target. Items counted over the sheets have the numbers from 1 to their count, each once
  (`ItemPlaces`, `DrawingPlaces`), so names are distinct across the sheets and the content types, which count
  once more, name the same parts. The induction over the sheets is in `PrefixPlaces` and `FlattenEntries`. All this
  is about what `close()` computes; over time, only `ClosedInv` is needed: nothing changes after the close.

### PackagePlan

What `PackageEditor` keeps between its calls. Every operation works on copies and swaps them in at its end, so
a call that throws is a stutter; what can go wrong is that the containers stop describing one package.

| Variable | In the code |
|---|---|
| `source`, `opened` | what `open()` found; whether it succeeded |
| `manifest` | `manifest_`: parts with their write modes, content-type overrides, relationships by owner |
| `plan` | `edit_plan_`: parts, removals with their reasons, removed entries, recalculation, relationships reported as unresolved or inbound |
| `replaced` | `replacements_`: what a part is written from, and the temporary files this needs |
| `entries`, `omitted` | `entry_replacements_`, `omitted_entries_` |
| `files` | `temporary_files_` |
| `edits` | the bound: operations so far |

Actions: `Open`, `ReplacePart`, `ReplacePartChunks`, `RemovePart`, `ReplaceWorksheetFromChunkSource`,
`ReplaceWorksheetChunks`, `ReplaceWorksheetSheetData`, `ReplaceWorksheetCells`,
`ReplaceWorksheetCellsIndexed`, `RequestFullCalculation`, `RenameSheetCatalogEntry`, `SetDocumentProperties`.
`planned_output()` is `Written`, `OutputTypes`, `OutputLinks` and `OutputMode`: they say what a save writes
from `replaced`, `entries`, `omitted` and the source alone, without looking at the manifest.
`OutputFollowsManifest` compares the two.

`plan` opens five packages: complete; with a calcChain override and relationship whose part is absent; with a
core-properties relationship that leads elsewhere and relationships of a calcChain that is absent; with
relationships of an absent worksheet; without content types. The last two cannot be opened. `MaxEdits = 4`
lets a part be removed, restored, replaced and removed again with the operation that should notice in between.
One part of each role is enough: operations treat the parts of one role alike.

Abstractions: a part's content is the facts the plan asks of it (full calculation, own temporary files); sizes
that are refused are rejections like any other; targets of relationships are parts. Sources have small parts
and the worksheet typed by an override and no relationships owned by document properties (`IsSource`,
`SourcesAssumption`): generating such a part, then replacing it, would give it back old relationships. A
removed and restored workbook part takes its source relationships back, the one to a removed calcChain
included, which the properties allow for by speaking of the manifest.

Proofs (`PackagePlanProofs`). Two inductive invariants. `AgreementInv` says container by container how
manifest and output agree (`PartsAgree`, `TypesAgree`, `LinksAgree`, `RemovedGone`, `EntriesNamed`); it
implies `OutputFollowsManifest`. `PlanInv` adds that the edit plan agrees with the manifest (`PlanAgrees`),
that replacements keep a requested recalculation and only use files the editor owns, and types. Each operation
is decomposed into the few ways it changes the containers (a part is written, lost, or an entry is replaced),
and has one lemma for its effect on each group of conjuncts. `OutputIsTheManifest`, `PlanIsCarriedOut`,
`RecalculationIsKept`, `TemporariesAreOwned` and `TypeCorrect` hold for every set of sources and every number
of operations. `DanglingLinksAreReported` assumes that no worksheet of a source is related to the calcChain
(`SheetsAvoidCalcChain`): a rewrite that drops the calcChain looks for dangling relationships of the worksheet
before it drops the part, so without the assumption the property is false. Its invariant ties every report to
the relationship that is still planned.

### PackageInput, ZipArchive, EntryChunks

Reading, and what a save reads later. A file is a sequence of units, one per header record and one per byte
elsewhere, so that offsets are indexes; a CRC-32 stands for the bytes it was computed from.

| Variable | In the code |
|---|---|
| `files` | the package, a staged file, the output of an extraction with its temporary and backup siblings |
| `reader` | `PackageReader`: status and entries by name |
| `feed`, `task`, `result`, `kept` | the entry being streamed; the call streaming it; how it ended; the output before |
| `chunks`, `promised` | the staged part as `PackageEntryChunk`s; what they held when their CRC-32 was taken |
| `replay` | `PackageEntryChunkReader` |
| `scene`, `calls`, `changes` | the package and arguments of this behaviour; bounds |

Actions: `Open` (all checks, one step), `ReadEntry`, `ExtractEntry`, `OpenStream`, `Take`, `FinishRead`,
`FailEntry`, `Commit`, `CommitFails`, `Stage`, `StageEntry`, `Patch`, `OpenReplay`, `ReplayMemory`,
`ReplayFile`, `ReplayChunkEnd`, `ReplayEnd`, `ReplayFails`, and `Change`: somebody rewrites a file between any
two steps.

`input` opens packages written by this program, one of them holding a package as a part, and a foreign one (directory
entry, data descriptors, deflate, extra fields, comment); each as it is and with every unit damaged, deleted, cut off
or appended. `PackagesReadAsWritten`: an entry read without an error is what was written under its name, and an
undamaged package opens and can be read. `ExtractionIsWhole`: the output is replaced whole or not at all.
`ReplayIsPromised`: a replay that ends is what was promised, or one state of the file, never a mixture.
`PatchIsTheSplice`: cutting chunks into ranges without reading them gives the bytes that splicing the content gives.

Bounds: two calls on damaged packages (open, read), four when staging (stage, patch, change, replay), one
change, one byte per read, so that a change falls between any two. One backup name stands for 1024. `Open` is
atomic: a package that changes *while* it is opened is not modelled, one that changes after it is. `MaxField`
is above every size of the instances: the program writes packages with 65,535 entries, or sizes of 0xFFFFFFFF,
that its reader refuses (`package_writer.cpp:324`); both checks are there, no property speaks of it.

Proofs (`PackageInputProofs`). `InputInv` is the conjunction of what holds of files, reader, call, staged chunks and
replay (`SceneInv`, `ReaderInv`, `TaskInv`, `StagedInv`, `ReplayInv`); the part that carries `ReplayPromised` is
that a replay has the sizes and CRC-32 values of the chunks it was opened with, while the files under it change.
`ExtractionInv` says where the output, its temporary sibling and its backup stand during an extraction, and gives
`ExtractionWhole`. `PatchesSplice` is about the operator that cuts chunks into ranges: what a chunk list
holds, as bytes, commutes with cutting and joining, for every list of chunks and every list of ranges.
Assumed is what the instances are: files are sequences of records with numbers in their fields
(`ScenesAssumption`, `RecordsAssumption`, `FieldsAssumption`).

An arbitrary damage may well turn a package into another valid one, so `ReadAsWritten` proves `PackagesReadAsWritten` for
the scenes that are `Genuine`: whatever the package holds, before it is opened or after, is refused or has in its
directory the names and checksums that were written, and an undamaged package is one that `write_package` wrote. All
but three of the scenes TLC checks are: the three open a package of another program, undamaged or with a checksum
that a data descriptor leaves uncompared. Two arguments meet here. `ReadingInv` follows the entries: what is
listed was listed by a content of the package (`OpenedInv`), what ended well has the checksum listed (`ResultInv`), and
what has been taken from an intact package is a prefix of the entry, so that neither the file nor the consumer can
stop it (`FlowInv`). And `WrittenArchivesOpen` is the round trip: for every list of entries, the archive's end record is
found though an entry may hold one itself, the directory is where it says, each local header at its offset
(`ArchiveLaid`), and no check of the reader refuses it. The one premise beyond what the writer admits is `Fits`:
that the package has content types, and that no count, size or offset equals the greatest value of its field, which the
writer admits and the reader takes for Zip64 (`package_writer.cpp:324`).

### WorksheetMarkup, CellPatch, WorksheetRewrite

A patch of cells scans the worksheet for byte ranges; if the scan refuses, one pass over the sheet analyses
and a second one writes. All three read chunks cut anywhere through a window that holds `MaxWindow` bytes. A
worksheet is a sequence of pieces of markup with form, name, reference and size.

| Variable | In the code |
|---|---|
| `request` | worksheet, chunk sizes, targets with payloads, replace or upsert |
| `pass`, `scan` | the pass, and the reader: window, position, grammar state |
| `plan`, `patch`, `analysis` | `WorksheetCellIndex` ranges; the transformer; what the first streamed pass found |
| `output` | what has been written |

Actions: `Start`, `InflateFails`, `ReadChunk`, `ReadFails`, `Refill`, `Overflow`, `ScanPiece` (planner),
`TransformPiece` (both streamed passes), `EndPlan`, `EndAnalysis`, `EndWrite`, `Done`.

`rewrite` patches 87 worksheets with one to three targets, given out of order too, and refused ones: sorted
worksheets, unusual ones (comments, foreign elements, self-closing rows and cells, no dimension, no
`sheetData` content), malformed ones, and chunks of every size around the window. `PatchedSheetReads` is the
reference definition of a patch, for sheets in order with readable references; `OutputIsAWorksheet` asks of the
source only that a dimension holds no elements; `DimensionCoversCells`; and `OnlyLargePiecesOverflow`: where the
chunks were cut decides nothing. `MaxWindow = 3` is smaller than some pieces and not others, `MaxPayload = 8` admits
every payload but the one meant to exceed it.

Liveness: `ScanEnds` states that every call ends. It is checked under `FairSpec`, that is `Spec` and
`WF_vars(Step)` for the disjunction of the pass's own steps: the call runs synchronously on its caller's
thread and returns to nobody before it is done, so as long as the process lives it takes its next step. It is
worth stating because the loop that moves bytes through the window decides for itself whether to parse, refill
or give up, and a wrong decision is an endless loop, not an exception.

Finding `rewrite_kept` (`package_editor.cpp:4331`): the reader reports `<c r="B1"/>` as a start and an end
event with the same markup. The writer of a streamed patch writes both, so an empty cell or row that is not a
target comes out twice; an element of a row that is not a cell (its `extLst`) is reported by no event and gets
lost. `PatchedSheetReads` therefore excludes them (`Plain`).

Two properties assume `DimensionsHoldNoTags`. Neither reader looks into a `dimension`: `<dimension><sheetData>
</dimension></sheetData>`, which no XML parser would take, is read as a worksheet, and the writer drops the opening
tag of `sheetData` with what the old dimension held and keeps its closing tag.

Proofs (`WorksheetRewriteProofs`). `WindowInv`: the window begins where a piece of the worksheet does (`Marks` are the
ends of the pieces), and what is read, pending and still to come is the worksheet, of which only the last piece can be
cut off (`RequestsAssumption`). A piece that is not complete in a full window is then larger than the window:
`OverflowingPiecesAreLarge`. `CoverInv` relates the two streamed passes, which read the same worksheet into the same
transformer: there is a history (`Run`) of reader and transformer, piece by piece, of which the analysis has reached
some piece (`Learnt`), and the writing pass repeats it (`WrittenSoFar`). Every cell written is in an action of that
history, and whatever an event is rewritten to, no cell is among its actions without one that starts a cell
(`Follows`, `TakesPiece`); inserted cells have references of the patch (`PositionsTaken`). So the dimension covers what
the second pass writes though only the first one looked: `DimensionCoversEveryCell`, for every worksheet the reader
accepts, patch and way of cutting.

`RewrittenIsAWorksheet` proves `OutputIsAWorksheet`. That the output is accepted is not inductive, for it says nothing
before the last piece is out. `RereadInv` therefore puts two readers side by side: the one of the source, and a second
one of what has been written so far. While no cell is being replaced the second is where the first is; while one is,
it is in the row, between cells (`Sees`). When the source's reader has left a worksheet the transformer inserts into,
the two differ only in what no later piece asks about. The transformer's own state is tied to the reader it listens to
(`Steady`): it replaces only inside a cell, it is never left with an end event to swallow, and it has matched or
inserted nothing before the data begins. `Goes` is the step: whatever a piece makes the transformer do, the actions lead
the second reader along (`From`, a `Path` of pieces none of which it refuses). Worksheets whose rewriting must fail in
the end, because they have no data or not the target asked for, are set aside (`Doomed`): the analysis finds that out
before anything is written, which `CoverInv` carries over to the writing pass. What is kept between targets is a
range of bytes, and it has to be shown that a range begins and ends between the cells of a row (`Planning`). The
theorem's own premises are those of the property: a dimension holds no tags, and each payload is accepted in a row.
The proof needs that a target that can be read names a row above 0 (`RequestsAssumption`), as the code's parser of
references ensures (`worksheet_transformer.cpp:99`): the transformer keeps row 0 for a row that has no number, and
must find no target in it.

### FormulaShift, CellSession, CellLoader, SheetReading, SheetSaving, CellGrid

One opened package: worksheets are loaded into stores, edited by the public calls, and saved as worksheets again.

| Variable | In the code |
|---|---|
| `package` | the package that was opened |
| `sessions` | of each opened sheet, the `CellStore` (position -> kind, text, formula, style) and `dirty_` |
| `saved` | what replaces source parts in the plan: worksheets, the shared strings; of each written sheet, the table its texts were given indexes of (none: texts inline) |
| `done` | history: the last call with its arguments |
| `edits` | the bound: how many calls may still change a sheet |

There is one action for each public call, with its checks before the session sees it: `Worksheet` (strict or
lenient), `SetCell`, `SetCells`, `AppendRow`, `SetRow`, `SetColumn`, the `...Values` forms that keep styles,
erasing and clearing of cells, values, styles, rows and columns, `InsertRows` ... `DeleteColumns`, copies and
moves of cells, values and styles on one sheet and between two, `Save`. The operators of `CellSession` give
the session a call leaves, or `Refused` if it throws: limits are compared with counts worked out beforehand,
as in the code. `CellLoader` steps through the reader's events with the loader's state, shared formulas and
shared strings. `SheetReading` defines the same cells from the tree of elements, with no state.

`SheetSaving` is the save. The strings are planned from those of the *source* and the texts of the dirty sheets
(`Projection`): if the source's part has counts that agree with its items, texts are written as indexes into its items
and the ones to be added behind them (`t="s"`), and otherwise, or without such a part, in their cells (`inlineStr`).
`Rewritten` then copies the events of the worksheet that is planned, the source's or what an earlier save made of
it, with new data in the place of the old (at the end, if there was none) and one new dimension. `Appended` is staged
if a text is new; a save that adds none leaves the planned strings as they are.

`grid` opens 1,021 packages. 1,018 of them are only opened, under both policies: all pairs of 31 forms of cells, 18
arrangements of rows and cells, three uses of 13 shared-strings parts; `LoadedSheetReads` compares each with
`SheetReading`. In two others, every sequence of two changing calls runs with openings and saves between them, and in
the last, with worksheets that have an empty or no `sheetData`, every single one. The first of the three has strings
that cannot be appended to, as they lack counts, the second strings that can, with runs in one item, and a worksheet
with metadata on both sides of its data and an old dimension with a closing tag. Two calls reach what needs a first
one to be set up (a full store, a formula to be shifted, an overlap of a moved range with what is there, a saved sheet
to be cleaned); three rows, two columns and two sheets let ranges overlap in part, fall off the sheet, and cross
sheets. `MaxCells = 4` and `Budget = 16` are met by batches and transfers, not only by single cells.

* `StoresAreSound`: no call leaves a store over a guardrail, and a saved `<dimension>` is exactly that of the cells;
* `CleanSheetsReload`: the planned worksheet of a clean sheet, read with the planned strings, loads as its session,
  and without loss if it was written. A save keeps everything around the data and the dimension, and strings that
  could be appended to still can. The claim is about sheets whose table stands (`TableStands`): after a save with
  one new text and a save of another sheet with another new one, the first sheet's indexes lead to the wrong texts. This
  is the finding `drift`, and without the premise this run finds it too. Nor is "without loss" claimed where a text
  equals that of an item with runs, phonetic text or an extension (`GainsMarkup`): the plan looks for the text
  only and gives the cell that item (`workbook_editor_materialized_edits.cpp:72`), so that a plain text comes back rich;
* `ReferencesFollowCells`: after insertions and deletions each reference to the own sheet covers the cells it
  covered and new lines between them, and loses a cell only if one of its ends has gone;
* `TransfersConserve`: copies and moves, overlapping or not, are simultaneous assignments. Of a formula that is
  transferred (`KeepsDistance`): it says `#REF!` if a reference was led off the sheet, and otherwise the scan finds
  in it the tokens it found before, each reference at its distance or, if fixed, where it was.

Abstractions: texts are sequences of letters, conversions of numbers and indexes are the functions `Numerals` and
`Indexes`, the styles part is its set of ids, the budget counts text sizes (the code counts capacities, which may
exceed them). Which loss category a strict refusal names is left out. The loader accepts elements inside an inline `t`
that the shared-strings parser refuses: the reference leaves such sheets out (`Unambiguous`). New texts are added in
the order of sheets and cells; here the order is arbitrary. A worksheet whose root is an empty element is written with
that element twice (`package_editor.cpp:4227` and `4257`) and is not among the edited packages. The limit on the size
of written data is left out, and what a save leaves behind that fails half-way is the subject of `WorkbookEditor`.
References qualified with another sheet's name are shifted too by a structural edit (`formula.cpp:1075`): the model
does the same, and `ReferencesFollowCells` speaks of unqualified references only. Sheets named like addresses,
reopening with other options, and the generation check of handles are not modelled.

Proofs (`CellGridProofs`). `StoresSound` proves `StoresAreSound` for every grid, every limit and budget, every package
of parts and every list of values a call may bring. The invariant `GridInv` is that the cells of every opened
sheet are `Guarded`: records at positions of the grid, no more of them and no heavier than allowed. It holds
because of a loop (`CellLoader`), where store, shared formulas and weights are coupled (`Together`), and of some
thirty operations, each of which compares counts worked out beforehand; the proofs show that what is compared is
what the store has afterwards. Sums of weights over finite sets are `MapThenSumSet`, and how it changes with one
element is a lemma by induction. The assumptions say that limits are numbers, that values are cells, and that
parts are sequences of markup (`GridAssumption`, `ArgumentsAssumption`, `PackagesAssumption`).

`TransfersAreSimultaneous` proves `TransfersConserve` under the same assumptions, from `GridInv` alone. One half is
about stores: the positions a transfer writes are those whose origin is a cell of the range (`TargetsAre`), so that
an overlay is read off position by position (`OverlayArrives`), over the cells that were there or over what a
move leaves of them (`SourcesDepart`, `OverlayExchanges`). The other half is about formulas, which are scanned
again after each rewriting, so that a translation might make a reference of what was none. The tokens of a formula
tile it (`TokensTile`, `TilesCover`), a translation that leads nothing off the sheet writes pieces of the same
length and kinds in their places (`TranslatedAlike`), and the scan looks only at kinds and at the names before a
bang (`AlikeTokens`, `AlikeTile`); if something is led off, its `#REF!` is in the text that is joined
(`LostIsKept`). What is claimed of formulas is claimed of sequences of lexemes whose coordinates are on the sheet
(`IsFormula`), which is what the scanner takes for a reference in the first place.

## What is checked and what is proved

TLC explores the instances above exhaustively; the theorems hold for all constants that satisfy the named assumptions.

| Module | Proved for every instance | Only model-checked |
|---|---|---|
| `WorkbookEditor` | types, all invariants and action properties of `inline` and `rename`, the refinement of `WorkbookDocument`; three of them under `NoStringsAdded` | |
| `PackageSave` | types, both properties of each run, the refinement of `PackageOutput`; under `FlushesReported` where completeness is claimed | |
| `StreamingWriter` | types, `RowsReadAsHanded`, `ClosedHoldsAppendedRows`, `DimensionCoversRows`, `StringTableSound` | |
| `WriterParts` | that it implements `StreamingWriter`, `PartsAreLinked`, `StylesReadBack`, `RulesKeepTheirOrder` | |
| `PackagePlan` | types, `OutputFollowsManifest`, `PlanFollowsOutput`, `FullCalculationKept`, `StagedFilesOwned`; `DanglingSheetLinksReported` under `SheetsAvoidCalcChain` | |
| `PackageInput` | types, `ReplayIsPromised`, `PatchIsTheSplice`, `ExtractionIsWhole`; `PackagesReadAsWritten` for `Genuine` scenes; what is written opens | |
| `CellGrid` | `StoresAreSound`, `TransfersConserve` | `CleanSheetsReload`, `LoadedSheetReads`, `ReferencesFollowCells` |
| `WorksheetRewrite` | `OnlyLargePiecesOverflow`, `DimensionCoversCells`, `OutputIsAWorksheet` | `PatchedSheetReads`, `ScanEnds` |

What several of these theorems are about is what a recursive definition computes for every input, and the induction
theorems of the library take the statement as a parameter, which the provers cannot instantiate. `DataInduction`
states them about sets: a set of naturals that has 0 and, with every `n`, `n + 1` is all of them (`UpTo`, `UpToBound`,
and `SubsetInduction` for finite sets), proved from the well-foundedness of the order. The statement to be proved
becomes the set of the inputs for which it holds. From it follow what `FlattenSeq`, `FoldLeft` and
`MapThenSumSet` compute, and that a recursive function is what its equation says (`RecursionExists`).

Three kinds of properties stay with the model checker. `ScanEnds` is liveness under fairness. The properties of
`CellGrid` and `WorksheetRewrite` in the last column compare two readings of a worksheet, event by event and as a tree;
a proof would need, for each of the two, an induction over nested elements. `OutputIsAWorksheet` could be proved because
it asks only for the reader of events, whose state is a handful of flags. And `ReferencesFollowCells` is true of the
formulas of the run, not of all: where a range that is qualified with another sheet, or is part of a chain like
`A1:A2:A5`, loses one end, the next scan takes the other end for a reference of its own.
`RenameKeepsOtherTargets`, `NonTargetsAreKept` and, without its assumption, `SavedOutputIsDocument` are false:
they are the findings.

## Plan

What would extend this project, in the order of its worth.

1. Handles and moves: editors that are moved, sessions and the handles that outlive both
   (`workbook_editor_worksheet_facade.cpp:54`).
2. `PackagePlan` below `WorkbookEditor`: `planXml`, `planProps` and `planImage` as functions of the plan, in one instance.
3. A form of `ReferencesFollowCells` that holds of every formula, with its proof: the tokens of a formula that loses
   references against those before, when the lengths differ; then proofs of what a worksheet reads as.
4. Merged ranges, column widths, frozen panes and auto filters of the streaming writer.
5. `Workbook`, the in-memory builder, as a refinement of what the streaming writer writes.

Runs are kept few: where components share an instance, one run checks the properties of several.

## Not modelled, and why

* Liveness beyond `ScanEnds`: the library runs no thread, callback queue or timer of its own. Its other calls
  are loops over finite collections, and what a caller does next is the caller's choice; there is nothing more
  a fairness assumption could be justified for.
* Loss of power and order of writes below the file system: the code makes no attempt at them (no `fsync`).
* XML syntax below the level of tags and the attributes named above (entities, quoting, namespaces), the XML
  builders of `workbook.xml`, styles and properties, escaping, image headers, CRC-32 and deflate: conversions
  without state, tested by examples.
* The minizip-ng backend is external: only which of its calls may fail.
* The last flush of the shared-strings file (`streaming_writer.cpp:1245`): the limit of the body streams once more.
* A `StyleId` that outlives its writer and is used with one created at the same address
  (`streaming_writer.cpp:2477`): writers have no identity in the model.
* Diagnostics and read-only views: they restate variables of the model.
* `Workbook`: vectors of cells that one save writes; it keeps no second copy of anything and has no step that
  could be half done.
* Examples, benchmarks, tools and tests.

---------------------- MODULE WorkbookEditorRefinement ----------------------
(***************************************************************************)
(* The editor implements WorkbookDocument: sessions, plan and counters     *)
(* together are the one document, and save_as writes it in one step.       *)
(***************************************************************************)
EXTENDS WorkbookEditor

SourceDocument ==
    [names |-> [s \in Sheets |-> s], refs |-> SourceRefs,
     sheets |-> [s \in Sheets |-> SourceData(s)], recalculate |-> FALSE,
     props |-> SourceProps, image |-> SourceImage]

Abstract == INSTANCE WorkbookDocument WITH
    CellContents <- CellValues \cup {NoCell, BrokenCell},
    Source <- SourceDocument,
    names <- catalog,
    refs <- planRefs,
    sheets <- [s \in Sheets |-> DocumentSheet(s)],
    recalculate <- (planFullCalc \/ dirty # {}),
    props <- planProps,
    image <- planImage,
    disk <- Decoded(output),
    unsaved <- HasUnsavedChanges

\* Every run of the editor is a run of WorkbookDocument.
ImplementsDocument == Abstract!Spec
=============================================================================

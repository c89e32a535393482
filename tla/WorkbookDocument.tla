-------------------------- MODULE WorkbookDocument --------------------------
(***************************************************************************)
(* What the workbook editor promises a caller: one document that edits     *)
(* change sheet by sheet, a flag that says whether the document has been   *)
(* saved, and a save that writes exactly the document, or nothing at all.  *)
(* There are no sessions, no plan, no shared strings and no counters here. *)
(***************************************************************************)
CONSTANTS
    Sheets, Names, Cells, DefinedNames,
    CaseKey,       \* name -> its ASCII-lowercase form
    CellContents,  \* what a reader may find in a cell
    Properties,
    Images,
    Source         \* the document in the source package

VARIABLES
    names,        \* sheet -> its name
    refs,         \* definedName -> the sheet name it refers to
    sheets,       \* sheet -> its cells
    recalculate,  \* a reader has to recalculate the formulas
    props,
    image,
    disk,         \* the document in the package last written
    unsaved       \* has_unsaved_changes()

document == <<names, refs, sheets, recalculate, props, image>>
vars == <<document, disk, unsaved>>

Document ==
    [names |-> names, refs |-> refs, sheets |-> sheets,
     recalculate |-> recalculate, props |-> props, image |-> image]

FormulaCell(n) == [kind |-> "formula", of |-> n]

Init ==
    /\ Document = Source
    /\ disk = Source
    /\ unsaved = FALSE

Edited == unsaved' = TRUE /\ UNCHANGED disk

\* The cells of the sheets outside S stay as they are.
OnlySheets(S) ==
    /\ sheets' \in [Sheets -> [Cells -> CellContents]]
    /\ \A s \in Sheets \ S : sheets'[s] = sheets[s]

\* An edit of cells touches the sheets it names and asks for recalculation.
EditSheets(S) ==
    /\ OnlySheets(S)
    /\ recalculate' = TRUE
    /\ Edited
    /\ UNCHANGED <<names, refs, props, image>>

\* A renamed sheet gets a name no other sheet has.  References, and formulas of
\* the sheets in S, change at most into references to the new name.
RenameSheet(s, new, S) ==
    /\ \A t \in Sheets \ {s} : CaseKey[names[t]] # CaseKey[new]
    /\ names' = [names EXCEPT ![s] = new]
    /\ refs' \in [DefinedNames -> Names]
    /\ \A d \in DefinedNames : refs'[d] \in {refs[d], new}
    /\ OnlySheets(S)
    /\ \A t \in S, c \in Cells :
          \/ sheets'[t][c] = sheets[t][c]
          \/ sheets[t][c].kind = "formula" /\ sheets'[t][c] = FormulaCell(new)
    /\ recalculate' = (recalculate \/ S # {})
    /\ Edited
    /\ UNCHANGED <<props, image>>

RequestFullCalculation ==
    /\ recalculate' = TRUE
    /\ Edited
    /\ UNCHANGED <<names, refs, sheets, props, image>>

SetDocumentProperties(p) ==
    /\ props' = p
    /\ Edited
    /\ UNCHANGED <<names, refs, sheets, recalculate, image>>

ReplaceImage(bytes) ==
    /\ image' = bytes
    /\ Edited
    /\ UNCHANGED <<names, refs, sheets, recalculate, props>>

Save ==
    /\ disk' = Document
    /\ unsaved' = FALSE
    /\ UNCHANGED document

\* An edit addresses one sheet, or two when cells move between them.
EditedSheets == {S \in SUBSET Sheets : \E s, t \in Sheets : S = {s, t}}

Next ==
    \/ \E S \in EditedSheets : EditSheets(S)
    \/ \E s \in Sheets, new \in Names, S \in SUBSET Sheets : RenameSheet(s, new, S)
    \/ RequestFullCalculation
    \/ \E p \in Properties : SetDocumentProperties(p)
    \/ \E bytes \in Images : ReplaceImage(bytes)
    \/ Save

Spec == Init /\ [][Next]_vars
=============================================================================

--------------------------- MODULE MCWorkbookEditor ---------------------------
(***************************************************************************)
(* Small packages for TLC to check WorkbookEditor on.                      *)
(***************************************************************************)
EXTENDS WorkbookEditorRefinement

A == "A"
B == "B"
C == "C"
D == "D"
LowerA == "a"

\* "a" is the one name that differs from another only in case.
MCCaseKey == [n \in Names |-> IF n = A /\ LowerA \in Names THEN LowerA ELSE n]

\* The first cell of A is a shared string, every other cell is empty.
SharedXml ==
    [s \in Sheets |->
       [c \in Cells |-> IF s = A /\ c = 1 THEN SharedCell(1) ELSE NoCell]]

\* Sheet A refers to B and sheet B to A.
CrossXml ==
    [s \in Sheets |-> [c \in Cells |-> FormulaCell(IF s = A THEN B ELSE A)]]

RefsToA == [d \in DefinedNames |-> A]
RefsToB == [d \in DefinedNames |-> B]

\* A reference written in another case than the name of its sheet.
RefsToLowerA == [d \in DefinedNames |-> LowerA]

OneString == <<"old">>
TextInputs == {TextCell(t) : t \in Texts}
NewTexts == {TextCell("new"), TextCell("newer")}
Number == [kind |-> "number", of |-> 1]
TextAndNumber == {TextCell("new"), Number}
NoInputs == {}
===============================================================================

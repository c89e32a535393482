------------------------ MODULE WorkbookEditorProofs ------------------------
(***************************************************************************)
(* Theorems about WorkbookEditor, for every source package and every set   *)
(* of names, cells and inputs.                                             *)
(***************************************************************************)
EXTENDS WorkbookEditorRefinement, TLAPS, FiniteSetTheorems, SequenceTheorems

(***************************************************************************)
(* Lemmas about the shared-strings projection.                             *)
(***************************************************************************)

\* SetToSeq lists a finite set completely.
LEMMA SetToSeqLists ==
    ASSUME NEW S, IsFiniteSet(S)
    PROVE  SetToSeq(S) \in Seq(S) /\ Range(SetToSeq(S)) = S
<1> DEFINE n == Cardinality(S)
<1>1. n \in Nat /\ ExistsBijection(1..n, S)
  BY FS_CardinalityType
<1>2. PICK f \in [1..n -> S] : f \in Bijection(1..n, S)
  BY <1>1 DEF ExistsBijection, Bijection, Injection
<1>3. IsInjective(f)
  BY <1>2 DEF Bijection, Injection
<1>4. SetToSeq(S) \in [1..n -> S] /\ IsInjective(SetToSeq(S))
  BY <1>2, <1>3 DEF SetToSeq
<1> DEFINE q == SetToSeq(S)
<1>5. q \in Injection(1..n, S)
  BY <1>4 DEF Injection
<1>6. Cardinality(1..n) = n /\ IsFiniteSet(1..n)
  BY <1>1, FS_Interval
<1>7. q \in Surjection(1..n, S)
  BY <1>5, <1>6, FS_Injection
<1>8. Range(q) = S
  BY <1>4, <1>7 DEF Surjection, Range
<1>9. q \in Seq(S)
  BY <1>1, <1>4
<1> QED BY <1>8, <1>9

LEMMA DirtyTextsFinite == IsFiniteSet(DirtyTexts \ Range(SourceStrings))
BY SourceAssumption, FS_Subset DEF DirtyTexts

\* The planned table holds the source texts and the texts of the dirty sessions.
LEMMA ProjectedStringsLists ==
    /\ AppendedStrings \in Seq(Texts)
    /\ ProjectedStrings \in Seq(Texts)
    /\ \A t \in DirtyTexts : \E i \in DOMAIN ProjectedStrings : ProjectedStrings[i] = t
<1> DEFINE new == DirtyTexts \ Range(SourceStrings)
<1>1. AppendedStrings \in Seq(new) /\ Range(AppendedStrings) = new
  BY DirtyTextsFinite, SetToSeqLists DEF AppendedStrings
<1>2. new \subseteq Texts
  BY DEF DirtyTexts
<1>3. AppendedStrings \in Seq(Texts)
  BY <1>1, <1>2, SeqMonotonic
<1>4. /\ ProjectedStrings \in Seq(Texts)
      /\ Len(ProjectedStrings) = Len(SourceStrings) + Len(AppendedStrings)
      /\ \A i \in 1..Len(SourceStrings) + Len(AppendedStrings) :
            ProjectedStrings[i] = IF i <= Len(SourceStrings) THEN SourceStrings[i]
                                  ELSE AppendedStrings[i - Len(SourceStrings)]
  BY <1>3, SourceAssumption, ConcatProperties DEF ProjectedStrings
<1>5. ASSUME NEW t \in DirtyTexts
      PROVE  \E i \in DOMAIN ProjectedStrings : ProjectedStrings[i] = t
  <2>1. Len(SourceStrings) \in Nat /\ Len(AppendedStrings) \in Nat
    BY <1>3, SourceAssumption
  <2>2. CASE t \in Range(SourceStrings)
    <3>1. PICK i \in DOMAIN SourceStrings : SourceStrings[i] = t
      BY <2>2 DEF Range
    <3>2. i \in 1..Len(SourceStrings)
      BY SourceAssumption
    <3>3. ProjectedStrings[i] = t /\ i \in DOMAIN ProjectedStrings
      BY <1>4, <2>1, <3>1, <3>2
    <3> QED BY <3>3
  <2>3. CASE t \in new
    <3>1. PICK i \in DOMAIN AppendedStrings : AppendedStrings[i] = t
      BY <1>1, <2>3 DEF Range
    <3>2. i \in 1..Len(AppendedStrings)
      BY <1>3
    <3> DEFINE j == Len(SourceStrings) + i
    <3>3. j \in 1..Len(SourceStrings) + Len(AppendedStrings)
          /\ ~(j <= Len(SourceStrings)) /\ j - Len(SourceStrings) = i
      BY <2>1, <3>2
    <3>4. ProjectedStrings[j] = t
      BY <1>4, <3>1, <3>3
    <3>5. j \in DOMAIN ProjectedStrings
      BY <1>4, <3>3
    <3> QED BY <3>4, <3>5
  <2> QED BY <2>2, <2>3
<1> QED BY <1>3, <1>4, <1>5

\* A text of the table has a first index, and the table has the text there.
LEMMA FirstIndexFinds ==
    ASSUME NEW strings \in Seq(Texts), NEW t,
           \E i \in DOMAIN strings : strings[i] = t
    PROVE  FirstIndex(strings, t) \in DOMAIN strings /\ strings[FirstIndex(strings, t)] = t
<1> DEFINE I == {i \in DOMAIN strings : strings[i] = t}
           Less == OpToRel(<, Nat)
<1>1. I \subseteq Nat /\ I # {}
  OBVIOUS
<1>2. PICK i \in I : \A j \in I : <<j, i>> \notin Less
  BY <1>1, WFMin, NatLessThanWellFounded
<1>3. ASSUME NEW j \in I
      PROVE  i <= j
  <2>1. i \in Nat /\ j \in Nat
    BY <1>1
  <2>2. CASE j < i
    <3>1. <<j, i>> \in Nat \X Nat
      BY <2>1
    <3>2. <<j, i>> \in Less
      BY <2>2, <3>1 DEF OpToRel
    <3> QED BY <1>2, <3>2
  <2> QED BY <2>1, <2>2
<1>4. \E k \in DOMAIN strings :
         /\ strings[k] = t
         /\ \A j \in DOMAIN strings : strings[j] = t => k <= j
  BY <1>3
<1> QED BY <1>4 DEF FirstIndex
-----------------------------------------------------------------------------
(***************************************************************************)
(* Type correctness.                                                       *)
(***************************************************************************)
\* A planned package has its type when each of its parts has.
PlanTypeOK ==
    /\ planNames \in [Sheets -> Names]
    /\ planRefs \in [DefinedNames -> Names]
    /\ planFullCalc \in BOOLEAN
    /\ planXml \in [Sheets -> SheetXml]
    /\ planStrings \in Seq(Texts)
    /\ planProps \in Properties \cup {SourceProps}
    /\ planImage \in Images \cup {SourceImage}

LEMMA PlannedPackageType == PlanTypeOK <=> PlannedPackage \in Packages
BY DEF PlanTypeOK, PlannedPackage, Packages

\* Cells read from a part of the source package have the type of a store.
LEMMA SourceDataType == \A s \in Sheets : SourceData(s) \in SheetData
<1>1. ASSUME NEW x \in XmlCells
      PROVE  DecodeCell(x, SourceStrings) \in CellValues \cup {NoCell, BrokenCell}
  <2>1. CASE x.kind # "shared"
    BY <2>1 DEF DecodeCell, XmlCells
  <2>2. CASE x.kind = "shared" /\ x.of \in DOMAIN SourceStrings
    <3>1. SourceStrings[x.of] \in Texts
      BY <2>2, SourceAssumption, ElementOfSeq
    <3> QED BY <2>2, <3>1 DEF DecodeCell, TextCell, CellValues
  <2>3. CASE x.kind = "shared" /\ x.of \notin DOMAIN SourceStrings
    BY <2>3 DEF DecodeCell
  <2> QED BY <2>1, <2>2, <2>3
<1>2. \A s \in Sheets, c \in Cells : SourceXml[s][c] \in XmlCells
  BY SourceAssumption
<1> QED BY <1>1, <1>2 DEF SourceData, DecodeSheet, SheetData

LEMMA SheetOfType ==
    ASSUME TypeOK, NEW n \in CurrentNames
    PROVE  SheetOf(n) \in Sheets /\ catalog[SheetOf(n)] = n
BY DEF CurrentNames, SheetOf

LEMMA InitType == Init => TypeOK
<1> SUFFICES ASSUME Init PROVE TypeOK
  OBVIOUS
<1> USE DEF Init
<1>1. PlanTypeOK
  BY NamesAssumption, SourceAssumption, ZenonT(30) DEF PlanTypeOK, SheetXml
<1>2. store \in [Names -> SheetData]
  BY DEF SheetData
<1>3. catalog \in [Sheets -> Names] /\ pending \in 0..MaxEdits /\ saved \in 0..pending
  BY NamesAssumption, SourceAssumption
<1> QED BY <1>1, <1>2, <1>3, PlannedPackageType DEF TypeOK

\* What the facade's part of the state must keep.
FacadeTypeOK ==
    /\ catalog \in [Sheets -> Names]
    /\ materialized \subseteq Names
    /\ store \in [Names -> SheetData]
    /\ dirty \subseteq materialized
    /\ payloads \subseteq Names
    /\ targeted \in [Names -> SUBSET Cells]
    /\ pending \in 0..MaxEdits
    /\ saved \in 0..pending
    /\ lastError \in BOOLEAN

LEMMA TypeOKParts == TypeOK <=> FacadeTypeOK /\ PlanTypeOK /\ output \in Packages
BY PlannedPackageType DEF TypeOK, FacadeTypeOK

LEMMA TypeOKPartsNext == FacadeTypeOK' /\ PlanTypeOK' /\ output' \in Packages => TypeOK'
<1> USE DEF TypeOK, FacadeTypeOK, PlanTypeOK, PlannedPackage, Packages
<1> QED OBVIOUS

\* Replacing a worksheet part by cells of the right type keeps the plan's type.
LEMMA PlanSheetDataType ==
    ASSUME PlanTypeOK, NEW s \in Sheets, NEW data \in SheetXml, PlanSheetData(s, data)
    PROVE  PlanTypeOK'
BY DEF PlanTypeOK, PlanSheetData, PlanWorksheets

LEMMA CountType ==
    ASSUME EditCounted, pending \in 0..MaxEdits, saved \in 0..pending
    PROVE  pending' \in 0..MaxEdits /\ saved' \in 0..pending' /\ lastError' \in BOOLEAN
<1>1. MaxEdits \in Nat /\ pending \in Nat /\ saved \in Nat /\ saved <= pending
  BY SourceAssumption
<1>2. pending < MaxEdits /\ pending' = pending + 1 /\ saved' = saved
  BY DEF EditCounted
<1>3. lastError' \in BOOLEAN
  BY DEF EditCounted
<1>4. pending' \in 0..MaxEdits /\ saved' \in 0..pending'
  BY <1>1, <1>2
<1> QED BY <1>3, <1>4

LEMMA PlannedSheetOfType ==
    ASSUME CatalogsAgree, NEW n \in CurrentNames
    PROVE  PlannedSheetOf(n) \in Sheets /\ planNames[PlannedSheetOf(n)] = n
BY DEF CurrentNames, PlannedSheetOf, CatalogsAgree

-----------------------------------------------------------------------------
(***************************************************************************)
(* The two catalogs, the queues and the sessions: TypeOK and CatalogsAgree *)
(* are one inductive invariant, as an operation that finds a sheet in the  *)
(* facade's catalog uses it in the planned one.                            *)
(***************************************************************************)
CatalogInv == TypeOK /\ CatalogsAgree

LEMMA InitCatalog == Init => CatalogInv
BY InitType, NamesAssumption DEF CatalogInv, Init, CatalogsAgree

\* A step that changes neither names nor plan keeps the plan's part.
LEMMA PlanTypeUnchanged ==
    ASSUME PlanTypeOK, output \in Packages, UNCHANGED <<planVars, output>>
    PROVE  PlanTypeOK' /\ output' \in Packages
BY DEF PlanTypeOK, planVars, workbookVars, Packages, SheetXml, SheetData

LEMMA SessionEditedKeeps ==
    ASSUME CatalogInv, SessionEdited, store' \in [Names -> SheetData],
           dirty' \subseteq materialized
    PROVE  CatalogInv'
<1>1. PlanTypeOK' /\ output' \in Packages
  BY PlanTypeUnchanged, TypeOKParts DEF CatalogInv, SessionEdited
<1>2. FacadeTypeOK'
  BY TypeOKParts DEF CatalogInv, SessionEdited, FacadeTypeOK, queueVars, countVars
<1>3. CatalogsAgree'
  BY DEF CatalogInv, CatalogsAgree, SessionEdited, planVars, workbookVars
<1> QED BY <1>1, <1>2, <1>3, TypeOKPartsNext DEF CatalogInv

LEMMA WorksheetKeeps ==
    ASSUME CatalogInv, NEW n \in Names, Worksheet(n)
    PROVE  CatalogInv'
<1>1. PlanTypeOK' /\ output' \in Packages
  BY PlanTypeUnchanged, TypeOKParts DEF CatalogInv, Worksheet
<1>2. SheetOf(n) \in Sheets
  BY SheetOfType DEF CatalogInv, Worksheet
<1>3. store' \in [Names -> SheetData]
  BY <1>2, SourceDataType DEF CatalogInv, Worksheet, TypeOK
<1>4. FacadeTypeOK'
  BY <1>3, TypeOKParts DEF CatalogInv, Worksheet, FacadeTypeOK, queueVars, countVars
<1>5. CatalogsAgree'
  BY DEF CatalogInv, CatalogsAgree, Worksheet, planVars, workbookVars
<1> QED BY <1>1, <1>4, <1>5, TypeOKPartsNext DEF CatalogInv

LEMMA SetCellKeeps ==
    ASSUME CatalogInv, NEW n \in Names, NEW c \in Cells, NEW v \in Inputs, SetCell(n, c, v)
    PROVE  CatalogInv'
<1>1. store' \in [Names -> SheetData]
  BY SourceAssumption DEF CatalogInv, TypeOK, SetCell, SheetData
<1>2. dirty' \subseteq materialized
  BY DEF CatalogInv, TypeOK, SetCell
<1> QED BY <1>1, <1>2, SessionEditedKeeps DEF SetCell

LEMMA EraseCellKeeps ==
    ASSUME CatalogInv, NEW n \in Names, NEW c \in Cells, EraseCell(n, c)
    PROVE  CatalogInv'
<1>1. store' \in [Names -> SheetData]
  BY DEF CatalogInv, TypeOK, EraseCell, SheetData
<1>2. dirty' \subseteq materialized
  BY DEF CatalogInv, TypeOK, EraseCell
<1> QED BY <1>1, <1>2, SessionEditedKeeps DEF EraseCell

LEMMA MoveCellsFromKeeps ==
    ASSUME CatalogInv, NEW n \in Names, NEW c \in Cells, NEW m \in Names, NEW d \in Cells,
           MoveCellsFrom(n, c, m, d)
    PROVE  CatalogInv'
<1>1. store' \in [Names -> SheetData]
  <2>1. store[n][c] \in CellValues \cup {NoCell, BrokenCell}
    BY DEF CatalogInv, TypeOK, SheetData
  <2> QED BY <2>1 DEF CatalogInv, TypeOK, MoveCellsFrom, SheetData
<1>2. dirty' \subseteq materialized
  BY DEF CatalogInv, TypeOK, MoveCellsFrom
<1> QED BY <1>1, <1>2, SessionEditedKeeps DEF MoveCellsFrom

LEMMA OutputUnchangedType ==
    ASSUME output \in Packages, UNCHANGED output
    PROVE  output' \in Packages
BY DEF Packages, SheetXml, SheetData

LEMMA ReplaceSheetDataKeeps ==
    ASSUME CatalogInv, NEW n \in Names, NEW data \in [Cells -> Inputs \cup {NoCell}],
           ReplaceSheetData(n, data)
    PROVE  CatalogInv'
<1>1. PlannedSheetOf(n) \in Sheets
  BY PlannedSheetOfType DEF CatalogInv, ReplaceSheetData
<1>2. data \in SheetXml
  BY SourceAssumption DEF SheetXml, XmlCells
<1>3. PlanTypeOK'
  BY <1>1, <1>2, PlanSheetDataType, TypeOKParts DEF CatalogInv, ReplaceSheetData
<1>4. output' \in Packages
  BY OutputUnchangedType DEF CatalogInv, TypeOK, ReplaceSheetData, EditCounted
<1>5. FacadeTypeOK'
  BY TypeOKParts, CountType
     DEF CatalogInv, ReplaceSheetData, FacadeTypeOK, sessionVars
<1>6. CatalogsAgree'
  BY DEF CatalogInv, CatalogsAgree, ReplaceSheetData, PlanSheetData
<1> QED BY <1>3, <1>4, <1>5, <1>6, TypeOKPartsNext DEF CatalogInv

LEMMA ReplaceCellsKeeps ==
    ASSUME CatalogInv, NEW n \in Names, NEW patch \in Patches, NEW insertMissing \in BOOLEAN,
           ReplaceCells(n, patch, insertMissing)
    PROVE  CatalogInv'
<1> DEFINE s == PlannedSheetOf(n)
           data == [c \in Cells |-> IF c \in DOMAIN patch THEN patch[c] ELSE planXml[s][c]]
<1>1. s \in Sheets
  BY PlannedSheetOfType DEF CatalogInv, ReplaceCells
<1>2. planXml[s] \in SheetXml
  BY <1>1, TypeOKParts DEF CatalogInv, PlanTypeOK
<1>3. PICK C \in SUBSET Cells : patch \in [C -> Inputs]
  BY DEF Patches
<1>4. data \in SheetXml
  BY <1>2, <1>3, SourceAssumption DEF SheetXml, XmlCells
<1>5. PlanSheetData(s, data)
  BY DEF ReplaceCells, PlanCells
<1>6. PlanTypeOK'
  BY <1>1, <1>4, <1>5, PlanSheetDataType, TypeOKParts DEF CatalogInv
<1>7. output' \in Packages
  BY OutputUnchangedType DEF CatalogInv, TypeOK, ReplaceCells, EditCounted
<1>8. targeted' \in [Names -> SUBSET Cells]
  BY <1>3 DEF CatalogInv, TypeOK, ReplaceCells
<1>9. FacadeTypeOK'
  BY <1>8, TypeOKParts, CountType
     DEF CatalogInv, ReplaceCells, FacadeTypeOK, sessionVars
<1>10. CatalogsAgree'
  BY <1>5 DEF CatalogInv, CatalogsAgree, ReplaceCells, PlanSheetData
<1> QED BY <1>6, <1>7, <1>9, <1>10, TypeOKPartsNext DEF CatalogInv

LEMMA ReplaceNoCellsKeeps ==
    ASSUME CatalogInv, (\E n \in Names : ReplaceNoCells(n)) \/ EditFails
    PROVE  CatalogInv'
<1>1. PlanTypeOK' /\ output' \in Packages
  BY PlanTypeUnchanged, TypeOKParts DEF CatalogInv, ReplaceNoCells, EditFails
<1>2. FacadeTypeOK'
  BY TypeOKParts
     DEF CatalogInv, ReplaceNoCells, EditFails, FacadeTypeOK, queueVars, countVars, sessionVars
<1>3. CatalogsAgree'
  BY DEF CatalogInv, CatalogsAgree, ReplaceNoCells, EditFails, planVars, workbookVars
<1> QED BY <1>1, <1>2, <1>3, TypeOKPartsNext DEF CatalogInv

LEMMA PackageEditKeeps ==
    ASSUME CatalogInv,
           \/ RequestFullCalculation
           \/ \E p \in Properties : SetDocumentProperties(p)
           \/ \E bytes \in Images : ReplaceImage(bytes)
    PROVE  CatalogInv'
<1> USE DEF RequestFullCalculation, SetDocumentProperties, ReplaceImage
<1>1. PlanTypeOK'
  BY TypeOKParts
     DEF CatalogInv, PlanTypeOK, PlanFullCalculation, PlanDocumentProperties, PlanMediaPart,
         workbookVars
<1>2. output' \in Packages
  BY OutputUnchangedType DEF CatalogInv, TypeOK, EditCounted
<1>3. FacadeTypeOK'
  BY TypeOKParts, CountType DEF CatalogInv, FacadeTypeOK, sessionVars, queueVars
<1>4. CatalogsAgree'
  BY DEF CatalogInv, CatalogsAgree, PlanFullCalculation, PlanDocumentProperties,
         PlanMediaPart, workbookVars
<1> QED BY <1>1, <1>2, <1>3, <1>4, TypeOKPartsNext DEF CatalogInv

\* Both catalogs find the same sheet under a name, and only that one.
LEMMA SameSheet ==
    ASSUME CatalogInv, NEW n \in CurrentNames
    PROVE  /\ SheetOf(n) \in Sheets
           /\ catalog[SheetOf(n)] = n
           /\ PlannedSheetOf(n) = SheetOf(n)
           /\ \A s \in Sheets : catalog[s] = n => s = SheetOf(n)
<1>1. SheetOf(n) \in Sheets /\ catalog[SheetOf(n)] = n
  BY SheetOfType DEF CatalogInv
<1>2. PlannedSheetOf(n) = SheetOf(n)
  BY DEF CatalogInv, CatalogsAgree, PlannedSheetOf, SheetOf
<1>3. \A s \in Sheets : catalog[s] = n => s = SheetOf(n)
  BY <1>1 DEF CatalogInv, CatalogsAgree
<1> QED BY <1>1, <1>2, <1>3

LEMMA RenameSheetKeeps ==
    ASSUME CatalogInv, NEW old \in Names, NEW new \in Names, NEW policy \in FormulaPolicies,
           RenameSheet(old, new, policy)
    PROVE  CatalogInv'
<1> DEFINE s == SheetOf(old)
<1>1. /\ old \in CurrentNames
      /\ PlanRename(s, old, new, policy)
      /\ catalog' = [catalog EXCEPT ![s] = new]
      /\ payloads' = MigratedPayloads(old, new)
      /\ targeted' = MigratedPatches(old, new)
      /\ store' = RewrittenStore(s, old, new, policy)
      /\ EditCounted
      /\ materialized' = materialized
  BY DEF RenameSheet
<1>2. s \in Sheets /\ catalog[s] = old /\ PlannedSheetOf(old) = s
  BY <1>1, SameSheet
<1>3. PlanTypeOK'
  BY <1>1, <1>2, TypeOKParts
     DEF CatalogInv, PlanTypeOK, PlanRename, RewrittenName
<1>4. output' \in Packages
  BY <1>1, OutputUnchangedType DEF CatalogInv, TypeOK, EditCounted
<1>5. store' \in [Names -> SheetData]
  <2>1. ASSUME NEW x \in CellValues \cup {NoCell, BrokenCell}
        PROVE  RewrittenCell(s, old, new, x) \in CellValues \cup {NoCell, BrokenCell}
    BY <2>1 DEF RewrittenCell, RewrittenName, FormulaCell, CellValues, NoCell, BrokenCell
  <2>2. \A n \in Names, c \in Cells : store[n][c] \in CellValues \cup {NoCell, BrokenCell}
    BY DEF CatalogInv, TypeOK, SheetData
  <2>3. \A n \in Names : store[n] \in SheetData
    BY DEF CatalogInv, TypeOK
  <2> QED BY <1>1, <2>1, <2>2, <2>3 DEF RewrittenStore, SheetData
<1>6. dirty' \subseteq materialized
  BY DEF CatalogInv, TypeOK, RenameSheet, Requotable
<1>7. payloads' \subseteq Names /\ targeted' \in [Names -> SUBSET Cells]
  BY <1>1 DEF CatalogInv, TypeOK, MigratedPayloads, MigratedPatches
<1>8. catalog' \in [Sheets -> Names] /\ materialized' \subseteq Names
  BY <1>1 DEF CatalogInv, TypeOK
<1>9. FacadeTypeOK'
  BY <1>1, <1>5, <1>6, <1>7, <1>8, TypeOKParts, CountType DEF CatalogInv, FacadeTypeOK
<1>10. catalog' = planNames'
  BY <1>1, <1>2 DEF CatalogInv, CatalogsAgree, PlanRename
<1>11. \A s1, s2 \in Sheets : CaseKey[catalog'[s1]] = CaseKey[catalog'[s2]] => s1 = s2
  <2>1. \A t \in Sheets \ {s} : CaseKey[catalog[t]] # CaseKey[new]
    <3>1. \A t \in Sheets \ {s} : catalog[t] # old
      BY <1>1, SameSheet
    <3> QED BY <1>1, <3>1 DEF PlanRename, RenameAccepted, CatalogInv, CatalogsAgree
  <2>2. \A t \in Sheets : catalog'[t] = IF t = s THEN new ELSE catalog[t]
    BY <1>1 DEF CatalogInv, TypeOK
  <2> QED BY <2>1, <2>2 DEF CatalogInv, CatalogsAgree
<1>12. CatalogsAgree'
  BY <1>10, <1>11 DEF CatalogsAgree
<1> QED BY <1>3, <1>4, <1>9, <1>12, TypeOKPartsNext DEF CatalogInv

\* The part projected from a session that is being flushed has cells of the
\* right type: every text of it is in the planned table.
LEMMA ProjectedXmlType ==
    ASSUME CatalogInv, NEW s \in Sheets, planNames[s] \in dirty
    PROVE  ProjectedXml(s) \in SheetXml
<1> DEFINE n == planNames[s]
<1>1. n \in Names /\ store[n] \in SheetData
  BY TypeOKParts DEF CatalogInv, PlanTypeOK, FacadeTypeOK
<1>2. ASSUME NEW c \in Cells
      PROVE  ProjectedCell(store[n][c]) \in XmlCells \cup {BrokenCell}
  <2> DEFINE x == store[n][c]
  <2>1. x \in CellValues \cup {NoCell, BrokenCell}
    BY <1>1 DEF SheetData
  <2>2. CASE x.kind = "text" /\ UsesSharedStrings
    <3>1. x.of \in Texts /\ x = TextCell(x.of)
      BY <2>1, <2>2 DEF CellValues, TextCell, NoCell, BrokenCell
    <3>2. x.of \in DirtyTexts
      BY <3>1 DEF DirtyTexts
    <3>3. FirstIndex(ProjectedStrings, x.of) \in DOMAIN ProjectedStrings
      BY <3>2, ProjectedStringsLists, FirstIndexFinds
    <3>4. FirstIndex(ProjectedStrings, x.of) \in Nat
      BY <3>3, ProjectedStringsLists
    <3> QED BY <2>2, <3>4 DEF ProjectedCell, SharedCell, XmlCells
  <2>3. CASE ~(x.kind = "text" /\ UsesSharedStrings)
    BY <2>1, <2>3 DEF ProjectedCell, XmlCells
  <2> QED BY <2>2, <2>3
<1> QED BY <1>2 DEF ProjectedXml, SheetXml

\* Staging flushed sessions keeps the plan's type.
LEMMA StageSessionsKeeps ==
    ASSUME CatalogInv, NEW staged \in SUBSET dirty, NEW strings \in Seq(Texts),
           StageSessions(staged, strings)
    PROVE  PlanTypeOK' /\ CatalogsAgree'
<1>1. \A s \in Sheets : planNames[s] \in staged => ProjectedXml(s) \in SheetXml
  BY ProjectedXmlType
<1>2. planXml' \in [Sheets -> SheetXml]
  BY <1>1, TypeOKParts DEF CatalogInv, PlanTypeOK, StageSessions, PlanWorksheets
<1>3. planFullCalc' \in BOOLEAN
  BY TypeOKParts DEF CatalogInv, PlanTypeOK, StageSessions, PlanWorksheets
<1>4. planStrings' \in Seq(Texts)
  BY DEF StageSessions
<1>5. PlanTypeOK'
  BY <1>2, <1>3, <1>4, TypeOKParts DEF CatalogInv, PlanTypeOK, StageSessions
<1>6. CatalogsAgree'
  BY DEF CatalogInv, CatalogsAgree, StageSessions
<1> QED BY <1>5, <1>6

LEMMA StagedStringsType == CatalogInv => StagedStrings \in Seq(Texts)
BY ProjectedStringsLists, TypeOKParts DEF CatalogInv, PlanTypeOK, StagedStrings

LEMMA SaveAsKeeps == CatalogInv /\ SaveAs => CatalogInv'
<1> SUFFICES ASSUME CatalogInv, SaveAs PROVE CatalogInv'
  OBVIOUS
<1>1. StageSessions(dirty, StagedStrings)
  BY DEF SaveAs
<1>2. PlanTypeOK' /\ CatalogsAgree'
  BY <1>1, StageSessionsKeeps, StagedStringsType
<1>3. output' \in Packages
  BY <1>2 DEF SaveAs, PlanTypeOK, PlannedPackage, Packages
<1>4. Cardinality(dirty) \in Nat
  BY NamesAssumption, FS_Subset, FS_CardinalityType DEF CatalogInv, TypeOK
<1>5. pending' \in 0..MaxEdits /\ saved' \in 0..pending'
  <2>1. pending \in Nat /\ MaxEdits \in Nat
    BY SourceAssumption DEF CatalogInv, TypeOK
  <2>2. /\ pending + Cardinality(dirty) <= MaxEdits
        /\ pending' = pending + Cardinality(dirty) /\ saved' = pending'
    BY DEF SaveAs
  <2> QED BY <1>4, <2>1, <2>2
<1>6. FacadeTypeOK'
  BY <1>1, <1>5, TypeOKParts
     DEF CatalogInv, FacadeTypeOK, SaveAs, StageSessions, queueVars
<1> QED BY <1>2, <1>3, <1>6, TypeOKPartsNext DEF CatalogInv

LEMMA SaveAsFailsKeeps ==
    ASSUME CatalogInv, NEW staged \in SUBSET dirty,
           SaveAsFailsStaging(staged) \/ SaveAsFailsWriting
    PROVE  CatalogInv'
<1>1. \E S \in SUBSET dirty, strings \in Seq(Texts) : StageSessions(S, strings)
  BY StagedStringsType, TypeOKParts
     DEF CatalogInv, PlanTypeOK, SaveAsFailsStaging, SaveAsFailsWriting
<1>2. PlanTypeOK' /\ CatalogsAgree'
  BY <1>1, StageSessionsKeeps
<1>3. output' \in Packages
  BY OutputUnchangedType DEF CatalogInv, TypeOK, SaveAsFailsStaging, SaveAsFailsWriting
<1>4. FacadeTypeOK'
  BY TypeOKParts
     DEF CatalogInv, FacadeTypeOK, SaveAsFailsStaging, SaveAsFailsWriting, StageSessions,
         queueVars, countVars
<1> QED BY <1>2, <1>3, <1>4, TypeOKPartsNext DEF CatalogInv

LEMMA NextCatalog == CatalogInv /\ [Next]_vars => CatalogInv'
<1> SUFFICES ASSUME CatalogInv, [Next]_vars PROVE CatalogInv'
  OBVIOUS
<1>1. CASE \E n \in Names : Worksheet(n)
  BY <1>1, WorksheetKeeps
<1>2. CASE \E n \in Names : ReplaceNoCells(n)
  BY <1>2, ReplaceNoCellsKeeps
<1>3. CASE \E n \in Names, c \in Cells : EraseCell(n, c)
  BY <1>3, EraseCellKeeps
<1>4. CASE \E n \in Names, c \in Cells, v \in Inputs : SetCell(n, c, v)
  BY <1>4, SetCellKeeps
<1>5. CASE \E n, m \in Names, c, d \in Cells : MoveCellsFrom(n, c, m, d)
  BY <1>5, MoveCellsFromKeeps
<1>6. CASE \E n \in Names, data \in [Cells -> Inputs \cup {NoCell}] : ReplaceSheetData(n, data)
  BY <1>6, ReplaceSheetDataKeeps
<1>7. CASE \E n \in Names, patch \in Patches, insertMissing \in BOOLEAN :
              ReplaceCells(n, patch, insertMissing)
  BY <1>7, ReplaceCellsKeeps
<1>8. CASE \E n \in Names, new \in Names, policy \in FormulaPolicies :
              RenameSheet(n, new, policy)
  BY <1>8, RenameSheetKeeps
<1>9. CASE \/ RequestFullCalculation
           \/ \E p \in Properties : SetDocumentProperties(p)
           \/ \E bytes \in Images : ReplaceImage(bytes)
  BY <1>9, PackageEditKeeps
<1>10. CASE EditFails
  BY <1>10, ReplaceNoCellsKeeps
<1>11. CASE SaveAs
  BY <1>11, SaveAsKeeps
<1>12. CASE SaveAsFailsWriting \/ \E staged \in SUBSET dirty : SaveAsFailsStaging(staged)
  BY <1>12, SaveAsFailsKeeps
<1>13. CASE UNCHANGED vars
  <2>1. PlanTypeOK' /\ output' \in Packages
    BY <1>13, PlanTypeUnchanged, TypeOKParts DEF CatalogInv, vars
  <2>2. FacadeTypeOK'
    BY <1>13, TypeOKParts
       DEF CatalogInv, FacadeTypeOK, vars, sessionVars, queueVars, countVars
  <2>3. CatalogsAgree'
    BY <1>13 DEF CatalogInv, CatalogsAgree, vars, planVars, workbookVars
  <2> QED BY <2>1, <2>2, <2>3, TypeOKPartsNext DEF CatalogInv
<1> QED
  BY <1>1, <1>2, <1>3, <1>4, <1>5, <1>6, <1>7, <1>8, <1>9, <1>10, <1>11, <1>12, <1>13
     DEF Next

\* Every variable has its type in every state of the editor.
THEOREM TypeCorrect == Spec => []TypeOK
<1>1. CatalogInv => TypeOK
  BY DEF CatalogInv
<1> QED BY <1>1, InitCatalog, NextCatalog, PTL DEF Spec

\* The facade's catalog and the planned workbook.xml never disagree about a
\* name, and no two sheets have names that differ at most in case, whatever
\* sequence of renames succeeds, fails or is saved.
THEOREM CatalogsStayInStep == Spec => []CatalogsAgree
<1>1. CatalogInv => CatalogsAgree
  BY DEF CatalogInv
<1> QED BY <1>1, InitCatalog, NextCatalog, PTL DEF Spec
-----------------------------------------------------------------------------
(***************************************************************************)
(* One staging mode per sheet.  The invariant is inductive once catalogs   *)
(* and types are known: a name leaves CurrentNames only by a rename, which *)
(* moves the queues keyed by it and is refused while it has a session.     *)
(***************************************************************************)
StagingInv == CatalogInv /\ OneStagingMode

LEMMA InitStaging == Init => StagingInv
BY InitCatalog DEF StagingInv, OneStagingMode, Init, CurrentNames

\* A step that opens no session, moves no queue and renames nothing keeps it.
LEMMA StagingUnchanged ==
    ASSUME OneStagingMode, UNCHANGED <<catalog, materialized, queueVars>>
    PROVE  OneStagingMode'
BY DEF OneStagingMode, CurrentNames, queueVars

LEMMA WorksheetStaging ==
    ASSUME StagingInv, NEW n \in Names, Worksheet(n)
    PROVE  OneStagingMode'
BY DEF StagingInv, OneStagingMode, CurrentNames, Worksheet, queueVars

LEMMA ReplaceSheetDataStaging ==
    ASSUME StagingInv, NEW n \in Names, NEW data, ReplaceSheetData(n, data)
    PROVE  OneStagingMode'
BY DEF StagingInv, OneStagingMode, CurrentNames, ReplaceSheetData, sessionVars

LEMMA ReplaceCellsStaging ==
    ASSUME StagingInv, NEW n \in Names, NEW patch \in Patches, NEW insertMissing,
           ReplaceCells(n, patch, insertMissing)
    PROVE  OneStagingMode'
<1>1. /\ n \in CurrentNames /\ n \notin payloads /\ n \notin materialized
      /\ targeted' = [targeted EXCEPT ![n] = @ \cup DOMAIN patch]
      /\ UNCHANGED <<catalog, materialized, payloads>>
  BY DEF ReplaceCells, sessionVars
<1>2. \A m \in Names \ {n} : targeted'[m] = targeted[m]
  BY <1>1 DEF StagingInv, CatalogInv, TypeOK
<1> QED BY <1>1, <1>2 DEF StagingInv, CatalogInv, TypeOK, OneStagingMode, CurrentNames

LEMMA RenameSheetStaging ==
    ASSUME StagingInv, NEW old \in Names, NEW new \in Names, NEW policy \in FormulaPolicies,
           RenameSheet(old, new, policy)
    PROVE  OneStagingMode'
<1> DEFINE s == SheetOf(old)
<1>1. /\ old \in CurrentNames /\ old \notin materialized
      /\ catalog' = [catalog EXCEPT ![s] = new]
      /\ payloads' = MigratedPayloads(old, new)
      /\ targeted' = MigratedPatches(old, new)
      /\ materialized' = materialized
      /\ RenameAccepted(old, new)
  BY DEF RenameSheet, PlanRename
<1>2. s \in Sheets /\ catalog[s] = old /\ \A t \in Sheets : catalog[t] = old => t = s
  BY <1>1, SameSheet DEF StagingInv
<1>3. new \notin CurrentNames
  BY <1>1 DEF StagingInv, CatalogInv, CatalogsAgree, RenameAccepted, CurrentNames
<1>4. CurrentNames' = (CurrentNames \ {old}) \cup {new}
  <2>1. \A t \in Sheets : catalog'[t] = IF t = s THEN new ELSE catalog[t]
    BY <1>1 DEF StagingInv, CatalogInv, TypeOK
  <2>2. CurrentNames' \subseteq (CurrentNames \ {old}) \cup {new}
    BY <1>2, <2>1 DEF CurrentNames
  <2>3. (CurrentNames \ {old}) \cup {new} \subseteq CurrentNames'
    BY <1>2, <2>1 DEF CurrentNames
  <2> QED BY <2>2, <2>3
<1>5. new \notin materialized /\ new \notin payloads /\ targeted[new] = {}
  BY <1>3 DEF StagingInv, OneStagingMode
<1>6. \A n \in Names : targeted'[n] = IF n = new THEN targeted[old]
                                      ELSE IF n = old THEN {} ELSE targeted[n]
  BY <1>1, <1>5, <1>3 DEF StagingInv, CatalogInv, TypeOK, MigratedPatches
<1>7. payloads' \subseteq CurrentNames'
  BY <1>1, <1>4 DEF StagingInv, OneStagingMode, MigratedPayloads
<1>8. materialized' \subseteq CurrentNames'
  BY <1>1, <1>4 DEF StagingInv, OneStagingMode
<1>9. {n \in Names : targeted'[n] # {}} \subseteq CurrentNames'
  BY <1>4, <1>6 DEF StagingInv, OneStagingMode
<1>10. \A n \in materialized' : n \notin payloads' /\ targeted'[n] = {}
  BY <1>1, <1>5, <1>6 DEF StagingInv, CatalogInv, TypeOK, OneStagingMode, MigratedPayloads
<1>11. \A n \in payloads' : targeted'[n] = {}
  BY <1>1, <1>3, <1>6 DEF StagingInv, CatalogInv, TypeOK, OneStagingMode, MigratedPayloads
<1> QED BY <1>7, <1>8, <1>9, <1>10, <1>11 DEF OneStagingMode

\* The steps that leave names, sessions' keys and queues alone.
LEMMA QuietSteps ==
    ASSUME \/ \E n \in Names : ReplaceNoCells(n)
           \/ \E n \in Names, c \in Cells : EraseCell(n, c)
           \/ \E n \in Names, c \in Cells, v \in Inputs : SetCell(n, c, v)
           \/ \E n, m \in Names, c, d \in Cells : MoveCellsFrom(n, c, m, d)
           \/ RequestFullCalculation
           \/ \E p \in Properties : SetDocumentProperties(p)
           \/ \E bytes \in Images : ReplaceImage(bytes)
           \/ EditFails
           \/ SaveAs
           \/ SaveAsFailsWriting \/ \E staged \in SUBSET dirty : SaveAsFailsStaging(staged)
           \/ UNCHANGED vars
    PROVE  UNCHANGED <<catalog, materialized, queueVars>>
BY DEF ReplaceNoCells, EraseCell, SetCell, MoveCellsFrom, SessionEdited,
       RequestFullCalculation, SetDocumentProperties, ReplaceImage, EditFails,
       SaveAs, SaveAsFailsWriting, SaveAsFailsStaging, StageSessions, vars,
       sessionVars, queueVars

LEMMA NextStaging == StagingInv /\ [Next]_vars => StagingInv'
<1> SUFFICES ASSUME StagingInv, [Next]_vars PROVE OneStagingMode'
  BY NextCatalog DEF StagingInv
<1>1. CASE \E n \in Names : Worksheet(n)
  BY <1>1, WorksheetStaging
<1>2. CASE \E n \in Names, data \in [Cells -> Inputs \cup {NoCell}] : ReplaceSheetData(n, data)
  BY <1>2, ReplaceSheetDataStaging
<1>3. CASE \E n \in Names, patch \in Patches, insertMissing \in BOOLEAN :
              ReplaceCells(n, patch, insertMissing)
  BY <1>3, ReplaceCellsStaging
<1>4. CASE \E n \in Names, new \in Names, policy \in FormulaPolicies :
              RenameSheet(n, new, policy)
  BY <1>4, RenameSheetStaging
<1>5. CASE UNCHANGED <<catalog, materialized, queueVars>>
  BY <1>5, StagingUnchanged DEF StagingInv
<1> QED BY <1>1, <1>2, <1>3, <1>4, <1>5, QuietSteps DEF Next

\* No sheet is ever edited in two ways at once, and a name that a rename has
\* freed carries no session, payload or patch to the sheet that gets it next.
THEOREM StagingModesExclude == Spec => []OneStagingMode
<1>1. StagingInv => OneStagingMode
  BY DEF StagingInv
<1> QED BY <1>1, InitStaging, NextStaging, PTL DEF Spec
-----------------------------------------------------------------------------
(***************************************************************************)
(* A sheet without queued edits and without a session has the worksheet    *)
(* part of the source.                                                     *)
(***************************************************************************)
SourceInv == StagingInv /\ OpenedSheetsReadThePlan

LEMMA InitSource == Init => SourceInv
BY InitStaging DEF SourceInv, Init, OpenedSheetsReadThePlan

\* Only sheets with a dirty session get another part from a flush.
LEMMA FlushedParts ==
    ASSUME CatalogInv, NEW staged \in SUBSET dirty, NEW strings, StageSessions(staged, strings),
           NEW s \in Sheets, catalog[s] \notin staged
    PROVE  planXml'[s] = planXml[s]
BY DEF CatalogInv, CatalogsAgree, StageSessions, PlanWorksheets

LEMMA FlushSteps ==
    ASSUME SaveAs \/ SaveAsFailsWriting \/ \E staged \in SUBSET dirty : SaveAsFailsStaging(staged)
    PROVE  \E staged, strings : staged \in SUBSET dirty /\ StageSessions(staged, strings)
BY DEF SaveAs, SaveAsFailsWriting, SaveAsFailsStaging

\* The steps that leave all worksheet parts alone.
LEMMA PartsUnchanged ==
    ASSUME \/ \E n \in Names : Worksheet(n) \/ ReplaceNoCells(n)
           \/ \E n \in Names, c \in Cells : EraseCell(n, c)
           \/ \E n \in Names, c \in Cells, v \in Inputs : SetCell(n, c, v)
           \/ \E n, m \in Names, c, d \in Cells : MoveCellsFrom(n, c, m, d)
           \/ \E n \in Names, new \in Names, policy \in FormulaPolicies :
                 RenameSheet(n, new, policy)
           \/ RequestFullCalculation
           \/ \E p \in Properties : SetDocumentProperties(p)
           \/ \E bytes \in Images : ReplaceImage(bytes)
           \/ EditFails
           \/ UNCHANGED vars
    PROVE  UNCHANGED <<planXml, planStrings>>
BY DEF Worksheet, ReplaceNoCells, EraseCell, SetCell, MoveCellsFrom, SessionEdited, RenameSheet,
       PlanRename, RequestFullCalculation, SetDocumentProperties, ReplaceImage, EditFails,
       PlanFullCalculation, PlanDocumentProperties, PlanMediaPart, vars, planVars

\* A replacement of one sheet's part leaves the other parts alone.
LEMMA OtherParts ==
    ASSUME CatalogInv, NEW n \in CurrentNames, NEW data, PlanSheetData(PlannedSheetOf(n), data),
           NEW s \in Sheets, catalog[s] # n
    PROVE  planXml'[s] = planXml[s]
BY SameSheet DEF PlanSheetData, PlanWorksheets

LEMMA NextSource == SourceInv /\ [Next]_vars => SourceInv'
<1> SUFFICES ASSUME SourceInv, [Next]_vars,
                    NEW s \in Sheets,
                    (catalog[s] \notin payloads)', (targeted[catalog[s]] = {})',
                    (catalog[s] \notin materialized)'
             PROVE  planXml'[s] = SourceXml[s]
  BY NextStaging DEF SourceInv, OpenedSheetsReadThePlan
<1> USE DEF SourceInv, StagingInv
<1> DEFINE Closed == /\ catalog[s] \notin payloads
                     /\ targeted[catalog[s]] = {}
                     /\ catalog[s] \notin materialized
<1>1. Closed => planXml[s] = SourceXml[s]
  BY DEF OpenedSheetsReadThePlan
<1>2. CASE \E n \in Names : Worksheet(n)
  BY <1>1, <1>2, PartsUnchanged DEF Worksheet, queueVars
<1>3. CASE \E n \in Names, data \in [Cells -> Inputs \cup {NoCell}] : ReplaceSheetData(n, data)
  <2>1. PICK n \in Names, data \in [Cells -> Inputs \cup {NoCell}] : ReplaceSheetData(n, data)
    BY <1>3
  <2>2. catalog[s] # n /\ Closed
    BY <2>1 DEF ReplaceSheetData, sessionVars
  <2>3. planXml'[s] = planXml[s]
    BY <2>1, <2>2, OtherParts DEF ReplaceSheetData
  <2> QED BY <1>1, <2>2, <2>3
<1>4. CASE \E n \in Names, patch \in Patches, insertMissing \in BOOLEAN :
              ReplaceCells(n, patch, insertMissing)
  <2>1. PICK n \in Names, patch \in Patches, insertMissing \in BOOLEAN :
                ReplaceCells(n, patch, insertMissing)
    BY <1>4
  <2>2. targeted'[n] # {} /\ \A m \in Names \ {n} : targeted'[m] = targeted[m]
    BY <2>1 DEF CatalogInv, TypeOK, ReplaceCells, PlanCells
  <2>3. catalog[s] \in Names
    BY DEF CatalogInv, TypeOK
  <2>4. catalog[s] # n /\ Closed
    BY <2>1, <2>2, <2>3 DEF ReplaceCells, sessionVars
  <2>5. planXml'[s] = planXml[s]
    BY <2>1, <2>4, OtherParts DEF ReplaceCells, PlanCells
  <2> QED BY <1>1, <2>4, <2>5
<1>5. CASE \E n \in Names, new \in Names, policy \in FormulaPolicies :
              RenameSheet(n, new, policy)
  <2>1. PICK old \in Names, new \in Names, policy \in FormulaPolicies :
                RenameSheet(old, new, policy)
    BY <1>5
  <2>2. /\ old \in CurrentNames /\ old \notin materialized
        /\ materialized' = materialized
        /\ catalog' = [catalog EXCEPT ![SheetOf(old)] = new]
        /\ payloads' = MigratedPayloads(old, new)
        /\ targeted' = MigratedPatches(old, new)
        /\ RenameAccepted(old, new)
    BY <2>1 DEF RenameSheet, PlanRename
  <2>3. old # new
    BY <2>2 DEF RenameAccepted
  <2>4. /\ targeted'[new] = targeted[new] \cup targeted[old]
        /\ \A m \in Names \ {old, new} : targeted'[m] = targeted[m]
    BY <2>2 DEF CatalogInv, TypeOK, MigratedPatches
  <2>5. Closed
    <3>1. CASE s = SheetOf(old)
      <4>1. catalog[s] = old /\ catalog'[s] = new
        BY <2>2, <3>1, SameSheet DEF CatalogInv, TypeOK
      <4> QED BY <2>2, <2>4, <4>1 DEF MigratedPayloads
    <3>2. CASE s # SheetOf(old)
      <4>1. catalog'[s] = catalog[s] /\ catalog[s] # old /\ catalog[s] \in Names
        BY <2>2, <3>2, SameSheet DEF CatalogInv, TypeOK
      <4>2. catalog[s] # new
        BY <2>2 DEF CatalogInv, CatalogsAgree, RenameAccepted
      <4> QED BY <2>2, <2>4, <4>1, <4>2 DEF MigratedPayloads
    <3> QED BY <3>1, <3>2
  <2> QED BY <1>1, <1>5, <2>5, PartsUnchanged
<1>6. CASE SaveAs \/ SaveAsFailsWriting \/ \E staged \in SUBSET dirty : SaveAsFailsStaging(staged)
  <2>1. PICK staged, strings : staged \in SUBSET dirty /\ StageSessions(staged, strings)
    BY <1>6, FlushSteps
  <2>2. Closed
    BY <2>1 DEF StageSessions, queueVars
  <2>3. catalog[s] \notin staged
    BY <2>1, <2>2 DEF CatalogInv, TypeOK
  <2> QED BY <1>1, <2>1, <2>2, <2>3, FlushedParts
<1>7. CASE UNCHANGED <<catalog, materialized, queueVars>> /\ UNCHANGED <<planXml, planStrings>>
  BY <1>1, <1>7 DEF queueVars
<1> QED BY <1>2, <1>3, <1>4, <1>5, <1>6, <1>7, QuietSteps, PartsUnchanged DEF Next

\* worksheet() reads the source package, and no edit queued before it is lost:
\* a sheet it may open still has its source part in the plan.
THEOREM MaterializationReadsThePlan == Spec => []OpenedSheetsReadThePlan
<1>1. SourceInv => OpenedSheetsReadThePlan
  BY DEF SourceInv
<1> QED BY <1>1, InitSource, NextSource, PTL DEF Spec
-----------------------------------------------------------------------------
(***************************************************************************)
(* The sharedStrings table.                                                *)
(***************************************************************************)

\* The planned table is the source table or one save's extension of it.
StringsInv == CatalogInv /\ SourceStringsKept

LEMMA PrefixElements ==
    ASSUME NEW u \in Seq(Texts), NEW v \in Seq(Texts), IsPrefix(u, v),
           NEW i \in DOMAIN u
    PROVE  i \in DOMAIN v /\ v[i] = u[i]
<1>1. Len(u) \in Nat /\ Len(v) \in Nat /\ Len(u) <= Len(v) /\ i \in 1..Len(u)
  BY DEF IsPrefix
<1>2. SubSeq(u, 1, Len(u))[i] = SubSeq(v, 1, Len(u))[i]
  BY DEF IsPrefix
<1> QED BY <1>1, <1>2

LEMMA ExtensionIsPrefix == IsPrefix(SourceStrings, ProjectedStrings)
<1>1. AppendedStrings \in Seq(Texts) /\ SourceStrings \in Seq(Texts)
  BY ProjectedStringsLists, SourceAssumption
<1>2. /\ Len(SourceStrings) <= Len(ProjectedStrings)
      /\ \A i \in 1..Len(SourceStrings) : ProjectedStrings[i] = SourceStrings[i]
  BY <1>1, ConcatProperties DEF ProjectedStrings
<1>3. SubSeq(SourceStrings, 1, Len(SourceStrings)) = SourceStrings
  BY <1>1, SubSeqFull
<1>4. SubSeq(ProjectedStrings, 1, Len(SourceStrings)) = SourceStrings
  BY <1>1, <1>2
<1> QED BY <1>2, <1>3, <1>4 DEF IsPrefix

LEMMA SourceIsPrefix == IsPrefix(SourceStrings, SourceStrings)
BY SourceAssumption DEF IsPrefix

LEMMA InitStrings == Init => StringsInv
BY InitCatalog, SourceIsPrefix DEF StringsInv, SourceStringsKept, Init

\* A flush leaves the planned table alone or replaces it by the projection.
LEMMA FlushedStrings ==
    ASSUME SaveAs \/ SaveAsFailsWriting \/ \E staged \in SUBSET dirty : SaveAsFailsStaging(staged)
    PROVE  planStrings' \in {planStrings, ProjectedStrings}
BY DEF SaveAs, SaveAsFailsWriting, SaveAsFailsStaging, StageSessions, StagedStrings

LEMMA NextStrings == StringsInv /\ [Next]_vars => StringsInv'
<1> SUFFICES ASSUME StringsInv, [Next]_vars PROVE SourceStringsKept'
  BY NextCatalog DEF StringsInv
<1>1. CASE SaveAs \/ SaveAsFailsWriting \/ \E staged \in SUBSET dirty : SaveAsFailsStaging(staged)
  BY <1>1, FlushedStrings, ExtensionIsPrefix DEF StringsInv, SourceStringsKept
<1>2. CASE UNCHANGED <<planXml, planStrings>>
  BY <1>2 DEF StringsInv, SourceStringsKept
<1>3. CASE \/ \E n \in Names, data \in [Cells -> Inputs \cup {NoCell}] : ReplaceSheetData(n, data)
           \/ \E n \in Names, patch \in Patches, insertMissing \in BOOLEAN :
                 ReplaceCells(n, patch, insertMissing)
  BY <1>3 DEF StringsInv, SourceStringsKept, ReplaceSheetData, ReplaceCells, PlanCells,
              PlanSheetData
<1> QED BY <1>1, <1>2, <1>3, PartsUnchanged DEF Next

\* However many saves extend the table, and whichever of them fail, the t="s"
\* cells of the worksheet parts copied from the source keep their texts.
THEOREM SourceIndexesAreStable == Spec => []SourceStringsKept
<1>1. StringsInv => SourceStringsKept
  BY DEF StringsInv
<1> QED BY <1>1, InitStrings, NextStrings, PTL DEF Spec

\* What ProjectedCell writes for a cell of a dirty session, a reader of the
\* table staged by the same save decodes to that cell.
LEMMA ProjectionRoundTrips ==
    ASSUME StringsInv, NEW n \in dirty, NEW c \in Cells
    PROVE  DecodeCell(ProjectedCell(store[n][c]), StagedStrings) = store[n][c]
<1> DEFINE x == store[n][c]
<1>1. x \in CellValues \cup {NoCell, BrokenCell}
  BY DEF StringsInv, CatalogInv, TypeOK, SheetData
<1>2. CASE x.kind = "text" /\ UsesSharedStrings
  <2>1. x.of \in DirtyTexts /\ x = TextCell(x.of)
    <3>1. x.of \in Texts /\ x = TextCell(x.of)
      BY <1>1, <1>2 DEF CellValues, TextCell, NoCell, BrokenCell
    <3> QED BY <3>1 DEF DirtyTexts
  <2> DEFINE i == FirstIndex(ProjectedStrings, x.of)
  <2>2. i \in DOMAIN ProjectedStrings /\ ProjectedStrings[i] = x.of
    BY <2>1, ProjectedStringsLists, FirstIndexFinds
  <2>3. i \in DOMAIN StagedStrings /\ StagedStrings[i] = x.of
    <3>1. CASE AppendedStrings # <<>>
      BY <1>2, <2>2, <3>1 DEF StagedStrings
    <3>2. CASE AppendedStrings = <<>>
      <4>1. ProjectedStrings = SourceStrings
        BY <3>2, SourceAssumption, ConcatEmptySeq DEF ProjectedStrings
      <4>2. StagedStrings = planStrings
        BY <3>2 DEF StagedStrings
      <4>3. planStrings \in Seq(Texts)
        BY TypeOKParts DEF StringsInv, CatalogInv, PlanTypeOK
      <4> QED BY <2>2, <4>1, <4>2, <4>3, PrefixElements, SourceAssumption
              DEF StringsInv, SourceStringsKept
    <3> QED BY <3>1, <3>2
  <2>4. ProjectedCell(x) = SharedCell(i)
    BY <1>2 DEF ProjectedCell
  <2> QED BY <2>1, <2>3, <2>4 DEF DecodeCell, SharedCell
<1>3. CASE ~(x.kind = "text" /\ UsesSharedStrings)
  <2>1. x.kind # "shared"
    BY <1>1 DEF CellValues, NoCell, BrokenCell
  <2> QED BY <1>3, <2>1 DEF ProjectedCell, DecodeCell
<1> QED BY <1>2, <1>3

\* Every session flushed by a save reads back from the written package with the
\* cells it holds, for every table, every set of texts and every history of
\* earlier saves and failed saves.
THEOREM FlushedSheetsReadBack == Spec => FlushedSheetsAreWritten
<1> DEFINE Written == \A s \in Sheets :
                         catalog[s] \in dirty \ dirty'
                            => Decoded(output').sheets[s] = store[catalog[s]]
<1>1. ASSUME StringsInv, SaveAs
      PROVE  Written
  <2> SUFFICES ASSUME NEW s \in Sheets, catalog[s] \in dirty
               PROVE  Decoded(output').sheets[s] = store[catalog[s]]
    OBVIOUS
  <2>1. catalog[s] = planNames[s]
    BY <1>1 DEF StringsInv, CatalogInv, CatalogsAgree
  <2>2. planXml'[s] = ProjectedXml(s) /\ planStrings' = StagedStrings
    BY <1>1, <2>1 DEF SaveAs, StageSessions, PlanWorksheets
  <2>3. output'.xml = planXml' /\ output'.strings = planStrings'
    BY <1>1 DEF SaveAs, PlannedPackage
  <2>4. Decoded(output').sheets[s] = DecodeSheet(ProjectedXml(s), StagedStrings)
    BY <2>2, <2>3 DEF Decoded
  <2>5. store[catalog[s]] \in SheetData
    BY <1>1 DEF StringsInv, CatalogInv, TypeOK
  <2> QED BY <1>1, <2>1, <2>4, <2>5, ProjectionRoundTrips
          DEF DecodeSheet, ProjectedXml, SheetData
<1>2. ASSUME StringsInv, [Next]_vars, ~SaveAs
      PROVE  dirty \subseteq dirty'
  BY <1>2, ZenonT(30) DEF Next, Worksheet, ReplaceNoCells, EraseCell, SetCell, MoveCellsFrom,
              ReplaceSheetData, ReplaceCells, RenameSheet, RequestFullCalculation,
              SetDocumentProperties, ReplaceImage, EditFails, SaveAsFailsWriting,
              SaveAsFailsStaging, vars, sessionVars
<1>3. StringsInv /\ [Next]_vars => Written
  BY <1>1, <1>2
<1> QED BY <1>3, InitStrings, NextStrings, PTL DEF Spec, FlushedSheetsAreWritten
-----------------------------------------------------------------------------
(***************************************************************************)
(* Sessions and the plan, and the plan and the output.  A save that        *)
(* extends the table a second time breaks both (see the run `drift'), so   *)
(* these theorems are about the sources where no save extends it.          *)
(***************************************************************************)
NoStringsAdded == ~Projectable \/ Texts \subseteq Range(SourceStrings)

LEMMA TableIsNeverExtended ==
    ASSUME NoStringsAdded
    PROVE  UsesSharedStrings => AppendedStrings = <<>>
<1>1. CASE ~Projectable
  BY <1>1 DEF UsesSharedStrings
<1>2. CASE Texts \subseteq Range(SourceStrings)
  <2>1. DirtyTexts \ Range(SourceStrings) = {}
    BY <1>2 DEF DirtyTexts
  <2>2. AppendedStrings \in Seq({})
    BY <2>1, DirtyTextsFinite, SetToSeqLists DEF AppendedStrings
  <2>3. AppendedStrings = <<>>
    <3>1. Len(AppendedStrings) \in Nat /\ \A i \in 1..Len(AppendedStrings) : FALSE
      BY <2>2, ElementOfSeq
    <3>2. Len(AppendedStrings) = 0
      <4>1. CASE Len(AppendedStrings) > 0
        <5>1. 1 \in 1..Len(AppendedStrings)
          BY <3>1, <4>1
        <5> QED BY <3>1, <5>1
      <4> QED BY <3>1, <4>1
    <3> QED BY <2>2, <3>2, EmptySeq
  <2> QED BY <2>3
<1> QED BY <1>1, <1>2 DEF NoStringsAdded

\* The planned table stays the source table, and clean sessions hold what is
\* planned for their sheets.
SessionInv ==
    /\ SourceInv
    /\ planStrings = SourceStrings
    /\ CleanSessionsArePlanned

LEMMA InitSession == Init => SessionInv
BY InitSource DEF SessionInv, CleanSessionsArePlanned, Init

LEMMA SessionIsStrings == SessionInv => StringsInv
BY SourceIsPrefix DEF SessionInv, SourceInv, StagingInv, StringsInv, SourceStringsKept

LEMMA TableUnchanged ==
    ASSUME NoStringsAdded, SessionInv, [Next]_vars
    PROVE  planStrings' = SourceStrings
<1>1. CASE SaveAs \/ SaveAsFailsWriting \/ \E staged \in SUBSET dirty : SaveAsFailsStaging(staged)
  <2>1. StagedStrings = planStrings
    BY TableIsNeverExtended DEF StagedStrings
  <2> QED BY <1>1, <2>1
          DEF SessionInv, SaveAs, SaveAsFailsWriting, SaveAsFailsStaging, StageSessions
<1>2. CASE UNCHANGED <<planXml, planStrings>>
  BY <1>2 DEF SessionInv
<1>3. CASE \/ \E n \in Names, data \in [Cells -> Inputs \cup {NoCell}] : ReplaceSheetData(n, data)
           \/ \E n \in Names, patch \in Patches, insertMissing \in BOOLEAN :
                 ReplaceCells(n, patch, insertMissing)
  BY <1>3 DEF SessionInv, ReplaceSheetData, ReplaceCells, PlanCells, PlanSheetData
<1> QED BY <1>1, <1>2, <1>3, PartsUnchanged DEF Next

\* A step that leaves sheet s with the same part and a clean session with the
\* same cells.
LEMMA CleanUnchanged ==
    ASSUME SessionInv, NEW s \in Sheets,
           catalog[s] \in materialized \ dirty,
           planXml'[s] = planXml[s], planStrings' = planStrings, catalog'[s] = catalog[s],
           store'[catalog[s]] = store[catalog[s]]
    PROVE  DecodeSheet(planXml'[s], planStrings') = store'[catalog'[s]]
BY DEF SessionInv, CleanSessionsArePlanned

\* A sheet whose session is flushed gets the cells the session holds.
LEMMA FlushedDecodes ==
    ASSUME NoStringsAdded, SessionInv, NEW s \in Sheets, catalog[s] \in dirty
    PROVE  DecodeSheet(ProjectedXml(s), SourceStrings) = store[catalog[s]]
<1>1. StagedStrings = SourceStrings
  BY TableIsNeverExtended DEF StagedStrings, SessionInv
<1>2. catalog[s] = planNames[s]
  BY DEF SessionInv, SourceInv, StagingInv, CatalogInv, CatalogsAgree
<1>3. store[catalog[s]] \in SheetData
  BY DEF SessionInv, SourceInv, StagingInv, CatalogInv, TypeOK
<1> QED BY <1>1, <1>2, <1>3, ProjectionRoundTrips, SessionIsStrings
        DEF DecodeSheet, ProjectedXml, SheetData

\* A flush of some sessions changes the parts of exactly those sheets.
LEMMA FlushChanges ==
    ASSUME SessionInv, NEW staged \in SUBSET dirty, NEW strings, StageSessions(staged, strings),
           NEW s \in Sheets
    PROVE  planXml'[s] = IF catalog[s] \in staged THEN ProjectedXml(s) ELSE planXml[s]
BY DEF SessionInv, SourceInv, StagingInv, CatalogInv, CatalogsAgree, StageSessions, PlanWorksheets

LEMMA NextSession ==
    ASSUME NoStringsAdded, SessionInv, [Next]_vars
    PROVE  SessionInv'
<1> SUFFICES ASSUME NEW s \in Sheets, (catalog[s] \in materialized \ dirty)'
             PROVE  DecodeSheet(planXml'[s], planStrings') = store'[catalog'[s]]
  BY NextSource, TableUnchanged DEF SessionInv, CleanSessionsArePlanned
<1> USE DEF SessionInv, SourceInv, StagingInv, CatalogInv
<1>1. planStrings' = planStrings /\ planStrings = SourceStrings
  BY TableUnchanged
<1>2. catalog[s] \in Names
  BY DEF TypeOK
<1>3. CASE \E n \in Names : Worksheet(n)
  <2>1. PICK n \in Names : Worksheet(n)
    BY <1>3
  <2>2. UNCHANGED <<planXml, catalog, dirty>>
    BY <2>1, PartsUnchanged DEF Worksheet
  <2>3. CASE catalog[s] = n
    <3>1. s = SheetOf(n)
      BY <2>1, <2>3, SameSheet DEF Worksheet
    <3>2. store'[n] = SourceData(s)
      BY <2>1, <3>1 DEF Worksheet, TypeOK
    <3>3. planXml[s] = SourceXml[s]
      BY <2>1, <2>3 DEF Worksheet, OpenedSheetsReadThePlan
    <3> QED BY <1>1, <2>2, <2>3, <3>2, <3>3 DEF SourceData
  <2>4. CASE catalog[s] # n
    <3>1. store'[catalog[s]] = store[catalog[s]] /\ catalog[s] \in materialized \ dirty
      BY <1>2, <2>1, <2>2, <2>4 DEF Worksheet, TypeOK
    <3> QED BY <1>1, <2>2, <3>1, CleanUnchanged
  <2> QED BY <2>3, <2>4
<1>4. CASE \/ \E n \in Names, c \in Cells, v \in Inputs : SetCell(n, c, v)
           \/ \E n \in Names, c \in Cells : EraseCell(n, c)
           \/ \E n, m \in Names, c, d \in Cells : MoveCellsFrom(n, c, m, d)
  <2>1. UNCHANGED <<planXml, catalog, materialized>>
    BY <1>4, PartsUnchanged DEF SetCell, EraseCell, MoveCellsFrom, SessionEdited
  <2>2. catalog[s] \in materialized \ dirty
    BY <1>4, <2>1 DEF SetCell, EraseCell, MoveCellsFrom
  <2>3. store'[catalog[s]] = store[catalog[s]]
    <3>1. CASE \E n \in Names, c \in Cells, v \in Inputs : SetCell(n, c, v)
      BY <1>2, <2>1, <3>1 DEF SetCell, TypeOK
    <3>2. CASE \E n \in Names, c \in Cells : EraseCell(n, c)
      <4>1. PICK n \in Names, c \in Cells : EraseCell(n, c)
        BY <3>2
      <4>2. CASE catalog[s] = n
        <5>1. store[n][c] = NoCell
          BY <2>1, <4>1, <4>2 DEF EraseCell
        <5>2. store[n] \in SheetData
          BY DEF TypeOK
        <5>3. [store[n] EXCEPT ![c] = NoCell] = store[n]
          BY <5>1, <5>2 DEF SheetData
        <5>4. store'[n] = [store[n] EXCEPT ![c] = NoCell]
          BY <4>1 DEF EraseCell, TypeOK
        <5> QED BY <4>2, <5>3, <5>4
      <4>3. CASE catalog[s] # n
        BY <1>2, <4>1, <4>3 DEF EraseCell, TypeOK
      <4> QED BY <4>2, <4>3
    <3>3. CASE \E n, m \in Names, c, d \in Cells : MoveCellsFrom(n, c, m, d)
      BY <1>2, <2>1, <3>3 DEF MoveCellsFrom, TypeOK
    <3> QED BY <1>4, <3>1, <3>2, <3>3
  <2> QED BY <1>1, <2>1, <2>2, <2>3, CleanUnchanged
<1>5. CASE \/ \E n \in Names, data \in [Cells -> Inputs \cup {NoCell}] : ReplaceSheetData(n, data)
           \/ \E n \in Names, patch \in Patches, insertMissing \in BOOLEAN :
                 ReplaceCells(n, patch, insertMissing)
  <2>1. PICK n, data : /\ n \in CurrentNames /\ n \notin materialized
                      /\ PlanSheetData(PlannedSheetOf(n), data)
    BY <1>5 DEF ReplaceSheetData, ReplaceCells, PlanCells
  <2>2. UNCHANGED <<catalog, sessionVars>>
    BY <1>5 DEF ReplaceSheetData, ReplaceCells
  <2>3. catalog[s] \in materialized \ dirty /\ catalog[s] # n
    BY <2>1, <2>2 DEF sessionVars
  <2>4. planXml'[s] = planXml[s]
    BY <2>1, <2>3, OtherParts
  <2> QED BY <1>1, <2>2, <2>3, <2>4, CleanUnchanged DEF sessionVars
<1>6. CASE \E n \in Names, new \in Names, policy \in FormulaPolicies :
              RenameSheet(n, new, policy)
  <2>1. PICK old \in Names, new \in Names, policy \in FormulaPolicies :
                RenameSheet(old, new, policy)
    BY <1>6
  <2>2. /\ old \in CurrentNames /\ materialized' = materialized
        /\ catalog' = [catalog EXCEPT ![SheetOf(old)] = new]
        /\ RenameAccepted(old, new)
    BY <2>1 DEF RenameSheet, PlanRename
  <2>3. new \notin materialized
    BY <2>2 DEF OneStagingMode, CatalogsAgree, RenameAccepted, CurrentNames
  <2>4. catalog'[s] = catalog[s]
    BY <2>2, <2>3 DEF TypeOK
  <2>5. catalog[s] \in materialized \ dirty /\ store'[catalog[s]] = store[catalog[s]]
    BY <2>1, <2>2, <2>4 DEF RenameSheet
  <2>6. planXml' = planXml
    BY <2>1 DEF RenameSheet, PlanRename
  <2> QED BY <1>1, <2>4, <2>5, <2>6, CleanUnchanged
<1>7. CASE SaveAs \/ SaveAsFailsWriting \/ \E staged \in SUBSET dirty : SaveAsFailsStaging(staged)
  <2>1. PICK staged, strings :
                /\ staged \in SUBSET dirty
                /\ StageSessions(staged, strings)
                /\ dirty \ staged \subseteq dirty'
    BY <1>7 DEF SaveAs, SaveAsFailsWriting, SaveAsFailsStaging
  <2>2. UNCHANGED <<catalog, materialized, store>>
    BY <2>1 DEF StageSessions
  <2>3. CASE catalog[s] \in staged
    BY <1>1, <2>1, <2>2, <2>3, FlushChanges, FlushedDecodes
  <2>4. CASE catalog[s] \notin staged
    <3>1. planXml'[s] = planXml[s] /\ catalog[s] \in materialized \ dirty
      BY <2>1, <2>2, <2>4, FlushChanges
    <3> QED BY <1>1, <2>2, <3>1, CleanUnchanged
  <2> QED BY <2>3, <2>4
<1>8. CASE \/ \E n \in Names : ReplaceNoCells(n)
           \/ RequestFullCalculation
           \/ \E p \in Properties : SetDocumentProperties(p)
           \/ \E bytes \in Images : ReplaceImage(bytes)
           \/ EditFails
           \/ UNCHANGED vars
  <2>1. UNCHANGED <<catalog, sessionVars>>
    BY <1>8 DEF ReplaceNoCells, RequestFullCalculation, SetDocumentProperties, ReplaceImage,
                EditFails, vars, sessionVars
  <2>2. planXml' = planXml
    BY <1>8, PartsUnchanged
  <2> QED BY <1>1, <2>1, <2>2, CleanUnchanged DEF sessionVars
<1> QED BY <1>3, <1>4, <1>5, <1>6, <1>7, <1>8 DEF Next

\* A clean session and the part planned for its sheet hold the same cells, in
\* every editor of a source whose table no save extends.
THEOREM CleanSessionsPlanned == NoStringsAdded => (Spec => []CleanSessionsArePlanned)
<1> SUFFICES ASSUME NoStringsAdded PROVE Spec => []CleanSessionsArePlanned
  OBVIOUS
<1>1. SessionInv => CleanSessionsArePlanned
  BY DEF SessionInv
<1>2. SessionInv /\ [Next]_vars => SessionInv'
  BY NextSession
<1> QED BY <1>1, <1>2, InitSession, PTL DEF Spec

\* While no edit is queued since the last save, the output is the plan, but for
\* the sheets of the sessions that a failed save has staged.
OutputIsPlan ==
    pending = saved =>
       /\ output.names = planNames
       /\ output.refs = planRefs
       /\ output.strings = planStrings
       /\ output.props = planProps
       /\ output.image = planImage
       /\ dirty = {} => output.fullCalc = planFullCalc
       /\ \A s \in Sheets : catalog[s] \notin dirty => output.xml[s] = planXml[s]

OutputInv == SessionInv /\ OutputIsPlan

LEMMA InitOutput == Init => OutputInv
BY InitSession DEF OutputInv, OutputIsPlan, Init, PlannedPackage

\* A counted edit makes the two counters differ.
LEMMA CountedIsUnsaved ==
    ASSUME TypeOK, EditCounted
    PROVE  pending' # saved'
<1>1. pending \in Nat /\ saved \in Nat /\ saved <= pending
  BY SourceAssumption DEF TypeOK
<1>2. pending' = pending + 1 /\ saved' = saved
  BY DEF EditCounted
<1> QED BY <1>1, <1>2

\* Nothing but the dirty flags changes, and they only grow.
LEMMA OutputUnchanged ==
    ASSUME OutputIsPlan, dirty \subseteq dirty',
           UNCHANGED <<catalog, countVars, planVars, output>>
    PROVE  OutputIsPlan'
BY DEF OutputIsPlan, countVars, planVars, workbookVars

LEMMA NextOutput ==
    ASSUME NoStringsAdded, OutputInv, [Next]_vars
    PROVE  OutputInv'
<1> SUFFICES OutputIsPlan'
  BY NextSession DEF OutputInv
<1> USE DEF OutputInv, SessionInv, SourceInv, StagingInv, CatalogInv
<1>1. CASE EditCounted
  BY <1>1, CountedIsUnsaved DEF OutputIsPlan
<1>2. CASE \/ \E n \in Names : Worksheet(n) \/ ReplaceNoCells(n)
           \/ \E n \in Names, c \in Cells, v \in Inputs : SetCell(n, c, v)
           \/ \E n \in Names, c \in Cells : EraseCell(n, c)
           \/ \E n, m \in Names, c, d \in Cells : MoveCellsFrom(n, c, m, d)
           \/ EditFails
           \/ UNCHANGED vars
  <2>1. UNCHANGED <<catalog, countVars, planVars, output>>
    BY <1>2 DEF Worksheet, ReplaceNoCells, SetCell, EraseCell, MoveCellsFrom, SessionEdited,
                EditFails, vars
  <2>2. dirty \subseteq dirty'
    BY <1>2 DEF Worksheet, ReplaceNoCells, SetCell, EraseCell, MoveCellsFrom, EditFails, vars,
                sessionVars
  <2> QED BY <2>1, <2>2, OutputUnchanged
<1>3. CASE SaveAs
  <2>1. output' = PlannedPackage'
    BY <1>3 DEF SaveAs
  <2> QED BY <2>1 DEF OutputIsPlan, PlannedPackage
<1>4. CASE SaveAsFailsWriting \/ \E staged \in SUBSET dirty : SaveAsFailsStaging(staged)
  <2>1. PICK staged, strings : staged \in SUBSET dirty /\ StageSessions(staged, strings)
    BY <1>4, FlushSteps
  <2>2. UNCHANGED <<catalog, dirty, countVars, output, planNames, planRefs, planProps, planImage>>
    BY <1>4 DEF SaveAsFailsWriting, SaveAsFailsStaging, StageSessions
  <2>3. planStrings' = planStrings
    BY TableUnchanged
  <2>4. dirty = {} => planFullCalc' = planFullCalc
    <3> SUFFICES ASSUME dirty = {} PROVE planFullCalc' = planFullCalc
      OBVIOUS
    <3>1. {s \in Sheets : planNames[s] \in staged} = {}
      BY <2>1
    <3>2. planFullCalc' = (planFullCalc \/ FALSE)
      BY <2>1, <3>1 DEF StageSessions, PlanWorksheets
    <3>3. planFullCalc \in BOOLEAN
      BY TypeOKParts DEF PlanTypeOK
    <3> QED BY <3>2, <3>3
  <2>5. \A s \in Sheets : catalog[s] \notin dirty => planXml'[s] = planXml[s]
    BY <2>1, FlushedParts
  <2> QED BY <2>2, <2>3, <2>4, <2>5 DEF OutputIsPlan, countVars
<1> QED BY <1>1, <1>2, <1>3, <1>4
        DEF Next, ReplaceSheetData, ReplaceCells, RenameSheet, RequestFullCalculation,
            SetDocumentProperties, ReplaceImage

\* When has_unsaved_changes() is false, the package last written reads back as
\* the document the caller has edited: no history of edits, saves and saves that
\* failed while staging or while writing loses or invents anything.
THEOREM SavedMeansWritten == NoStringsAdded => (Spec => []SavedOutputIsDocument)
<1> SUFFICES ASSUME NoStringsAdded PROVE Spec => []SavedOutputIsDocument
  OBVIOUS
<1>1. OutputInv => SavedOutputIsDocument
  <2> SUFFICES ASSUME OutputInv, pending = saved, dirty = {}
               PROVE  Decoded(output) = Document
    BY DEF SavedOutputIsDocument, HasUnsavedChanges
  <2> USE DEF OutputInv, SessionInv, SourceInv, StagingInv, CatalogInv
  <2>1. /\ output.names = planNames /\ output.refs = planRefs
        /\ output.strings = planStrings /\ output.props = planProps
        /\ output.image = planImage /\ output.fullCalc = planFullCalc
        /\ \A s \in Sheets : output.xml[s] = planXml[s]
    BY DEF OutputIsPlan
  <2>2. planNames = catalog
    BY DEF CatalogsAgree
  <2>3. \A s \in Sheets : DocumentSheet(s) = DecodeSheet(planXml[s], planStrings)
    BY DEF DocumentSheet, CleanSessionsArePlanned
  <2>4. (planFullCalc \/ dirty # {}) = planFullCalc
    BY TypeOKParts DEF PlanTypeOK
  <2> QED BY <2>1, <2>2, <2>3, <2>4 DEF Decoded, Document
<1>2. OutputInv /\ [Next]_vars => OutputInv'
  BY NextOutput
<1> QED BY <1>1, <1>2, InitOutput, PTL DEF Spec
-----------------------------------------------------------------------------
(***************************************************************************)
(* References follow a renamed sheet.                                      *)
(***************************************************************************)

\* A reference that resolves to the sheet named old, and to no other, is one
\* that the rename rewrites; the new name resolves to that sheet alone.
LEMMA RewrittenTargets ==
    ASSUME CatalogInv, NEW old \in Names, NEW new \in Names, NEW policy \in FormulaPolicies,
           RenameSheet(old, new, policy), NEW name \in Names,
           Targets(catalog, name) = {s \in Sheets : catalog[s] = old}
    PROVE  /\ RewrittenName(SheetOf(old), old, new, name) = new
           /\ Targets(catalog', new) = {s \in Sheets : catalog[s] = old}
<1> DEFINE s == SheetOf(old)
<1>1. s \in Sheets /\ catalog[s] = old /\ \A t \in Sheets : catalog[t] = old => t = s
  BY SameSheet DEF RenameSheet
<1>2. s \in Targets(catalog, name)
  BY <1>1
<1>3. CaseKey[name] = CaseKey[old]
  BY <1>1, <1>2 DEF Targets
<1>4. \A t \in Sheets : catalog'[t] = IF t = s THEN new ELSE catalog[t]
  BY DEF CatalogInv, TypeOK, RenameSheet
<1>5. \A t \in Sheets \ {s} : CaseKey[catalog[t]] # CaseKey[new]
  BY <1>1 DEF RenameSheet, PlanRename, RenameAccepted, CatalogInv, CatalogsAgree
<1>6. Targets(catalog', new) = {s}
  BY <1>1, <1>4, <1>5 DEF Targets
<1>7. {t \in Sheets : catalog[t] = old} = {s}
  BY <1>1
<1> QED BY <1>3, <1>6, <1>7 DEF RewrittenName, RewritesName

LEMMA FormulaNames ==
    ASSUME TypeOK, NEW f \in SessionFormulas
    PROVE  /\ f[1] \in materialized /\ f[1] \in Names /\ f[2] \in Cells
           /\ store[f[1]][f[2]].of \in Names
           /\ store[f[1]][f[2]].kind = "formula"
<1>1. f[1] \in materialized /\ f[1] \in Names /\ f[2] \in Cells
      /\ store[f[1]][f[2]].kind = "formula"
  BY DEF TypeOK, SessionFormulas
<1>2. store[f[1]][f[2]] \in CellValues \cup {NoCell, BrokenCell}
  BY <1>1 DEF TypeOK, SheetData
<1>3. store[f[1]][f[2]].of \in Names
  BY <1>1, <1>2 DEF CellValues, NoCell, BrokenCell
<1> QED BY <1>1, <1>3

\* A rename with a rewriting policy takes every reference to the sheet along,
\* whatever case it is spelled in and however often sheets have been renamed.
THEOREM ReferencesFollowRenames == Spec => RenameFollowsSheet
<1>1. ASSUME CatalogInv, NEW old \in Names, NEW new \in Names,
             RenameSheet(old, new, RewriteDefinedNames), NEW d \in DefinedNames,
             Targets(catalog, planRefs[d]) = {s \in Sheets : catalog[s] = old}
      PROVE  Targets(catalog', planRefs'[d]) = {s \in Sheets : catalog[s] = old}
  <2>1. planRefs[d] \in Names
    BY <1>1, TypeOKParts DEF CatalogInv, PlanTypeOK
  <2>2. RewriteDefinedNames \in FormulaPolicies /\ RewriteDefinedNames # AuditOnly
    BY DEF FormulaPolicies, RewriteDefinedNames, AuditOnly
  <2>3. planRefs'[d] = RewrittenName(SheetOf(old), old, new, planRefs[d])
    BY <1>1, <2>2 DEF RenameSheet, PlanRename
  <2> QED BY <1>1, <2>1, <2>2, <2>3, RewrittenTargets
<1>2. ASSUME CatalogInv, NEW old \in Names, NEW new \in Names,
             RenameSheet(old, new, RewriteAll), NEW f \in SessionFormulas,
             Targets(catalog, store[f[1]][f[2]].of) = {s \in Sheets : catalog[s] = old}
      PROVE  Targets(catalog', store'[f[1]][f[2]].of) = {s \in Sheets : catalog[s] = old}
  <2> DEFINE x == store[f[1]][f[2]]
  <2>1. f[1] \in materialized /\ f[1] \in Names /\ f[2] \in Cells
        /\ x.of \in Names /\ x.kind = "formula"
    BY <1>2, FormulaNames DEF CatalogInv
  <2>2. RewriteAll \in FormulaPolicies
    BY DEF FormulaPolicies
  <2>3. store'[f[1]][f[2]] = RewrittenCell(SheetOf(old), old, new, x)
    BY <1>2, <2>1 DEF RenameSheet, RewrittenStore
  <2>4. store'[f[1]][f[2]].of = RewrittenName(SheetOf(old), old, new, x.of)
    BY <2>1, <2>3 DEF RewrittenCell, FormulaCell
  <2> QED BY <1>2, <2>1, <2>2, <2>4, RewrittenTargets
<1> DEFINE Follows == catalog' # catalog => \A old, new \in Names :
          LET renamed == {s \in Sheets : catalog[s] = old} IN
          /\ RenameSheet(old, new, RewriteDefinedNames) =>
                \A d \in DefinedNames :
                   Targets(catalog, planRefs[d]) = renamed
                      => Targets(catalog', planRefs'[d]) = renamed
          /\ RenameSheet(old, new, RewriteAll) =>
                \A f \in SessionFormulas :
                   Targets(catalog, store[f[1]][f[2]].of) = renamed
                      => Targets(catalog', store'[f[1]][f[2]].of) = renamed
<1>3. CatalogInv => Follows
  BY <1>1, <1>2
<1> QED BY <1>3, InitCatalog, NextCatalog, PTL DEF Spec, RenameFollowsSheet

(***************************************************************************)
(* The refinement of WorkbookDocument, for every source whose              *)
(* sharedStrings table no save extends: each step of the editor is the     *)
(* step of the document that its name says, or leaves the document alone.  *)
(***************************************************************************)
Contents == [Cells -> CellValues \cup {NoCell, BrokenCell}]

\* What the invariants say of the state a step starts from.
LEMMA Facts ==
    ASSUME OutputInv
    PROVE  /\ CatalogInv /\ TypeOK /\ OneStagingMode
           /\ planNames = catalog /\ planStrings = SourceStrings
           /\ planFullCalc \in BOOLEAN
           /\ \A s \in Sheets : catalog[s] \in Names
           /\ \A n \in materialized : n \in CurrentNames /\ n \in Names
           /\ dirty \subseteq materialized
BY TypeOKParts
   DEF OutputInv, SessionInv, SourceInv, StagingInv, CatalogInv, CatalogsAgree, PlanTypeOK,
       FacadeTypeOK, OneStagingMode

LEMMA DecodedType ==
    ASSUME NEW xml \in SheetXml, NEW strings \in Seq(Texts)
    PROVE  DecodeSheet(xml, strings) \in Contents
<1>1. ASSUME NEW x \in XmlCells \cup {BrokenCell}
      PROVE  DecodeCell(x, strings) \in CellValues \cup {NoCell, BrokenCell}
  <2>1. CASE x.kind # "shared"
    BY <2>1 DEF DecodeCell, XmlCells
  <2>2. CASE x.kind = "shared" /\ x.of \in DOMAIN strings
    BY <2>2, ElementOfSeq DEF DecodeCell, TextCell, CellValues
  <2>3. CASE x.kind = "shared" /\ x.of \notin DOMAIN strings
    BY <2>3 DEF DecodeCell
  <2> QED BY <2>1, <2>2, <2>3
<1> QED BY <1>1 DEF SheetXml, DecodeSheet, Contents

\* The document's cells have their type.
LEMMA DocumentType ==
    ASSUME CatalogInv, NEW s \in Sheets
    PROVE  DocumentSheet(s) \in Contents
<1>1. CASE catalog[s] \in materialized
  <2>1. store[catalog[s]] \in SheetData
    BY DEF CatalogInv, TypeOK
  <2> QED BY <1>1, <2>1 DEF DocumentSheet, SheetData, Contents
<1>2. CASE catalog[s] \notin materialized
  <2>1. planXml[s] \in SheetXml /\ planStrings \in Seq(Texts)
    BY TypeOKParts DEF CatalogInv, PlanTypeOK
  <2> QED BY <1>2, <2>1, DecodedType DEF DocumentSheet
<1> QED BY <1>1, <1>2

DocumentTypeOK == \A s \in Sheets : DocumentSheet(s) \in Contents

LEMMA DocumentTyped == CatalogInv => DocumentTypeOK
BY DocumentType DEF DocumentTypeOK

LEMMA DocumentTypedNext == CatalogInv' => DocumentTypeOK'
BY DocumentTyped, PTL

LEMMA SheetsNext ==
    ASSUME CatalogInv'
    PROVE  [s \in Sheets |-> DocumentSheet(s)]' \in [Sheets -> Contents]
BY DocumentTypedNext DEF DocumentTypeOK

\* A step that edits the cells of the sheets in S and nothing else.
LEMMA EditsSheets ==
    ASSUME CatalogInv', NEW S \in SUBSET Sheets,
           \A s \in Sheets \ S : DocumentSheet(s)' = DocumentSheet(s),
           UNCHANGED <<catalog, planRefs, planProps, planImage, output>>,
           (planFullCalc \/ dirty # {})' = TRUE,
           HasUnsavedChanges' = TRUE
    PROVE  Abstract!EditSheets(S)
<1>1. Abstract!OnlySheets(S)
  BY SheetsNext DEF Abstract!OnlySheets, Contents
<1>2. UNCHANGED Decoded(output)
  BY DEF Decoded
<1> QED BY <1>1, <1>2 DEF Abstract!EditSheets, Abstract!Edited

\* A step that changes neither document nor output.
LEMMA Stutters ==
    ASSUME \A s \in Sheets : DocumentSheet(s)' = DocumentSheet(s),
           UNCHANGED <<catalog, planRefs, planProps, planImage, output>>,
           (planFullCalc \/ dirty # {})' = (planFullCalc \/ dirty # {}),
           HasUnsavedChanges' = HasUnsavedChanges
    PROVE  UNCHANGED Abstract!vars
<1>1. UNCHANGED Decoded(output)
  BY DEF Decoded
<1> QED BY <1>1 DEF Abstract!vars, Abstract!document

LEMMA InitRefines == Init => Abstract!Init
<1> SUFFICES ASSUME Init PROVE Abstract!Init
  OBVIOUS
<1>1. \A s \in Sheets : DocumentSheet(s) = SourceData(s)
  BY DEF Init, DocumentSheet, SourceData
<1>2. (planFullCalc \/ dirty # {}) = FALSE
  BY DEF Init
<1>3. Abstract!Document = SourceDocument
  BY <1>1, <1>2 DEF Abstract!Document, SourceDocument, Init
<1>4. Decoded(output) = SourceDocument
  BY DEF Init, Decoded, SourceDocument, SourceData, PlannedPackage
<1>5. HasUnsavedChanges = FALSE
  BY DEF Init, HasUnsavedChanges
<1> QED BY <1>3, <1>4, <1>5 DEF Abstract!Init

LEMMA WorksheetRefines ==
    ASSUME OutputInv, NEW n \in Names, Worksheet(n)
    PROVE  UNCHANGED Abstract!vars
<1>1. UNCHANGED <<catalog, dirty, countVars, planVars, output>>
  BY DEF Worksheet
<1>2. ASSUME NEW s \in Sheets
      PROVE  DocumentSheet(s)' = DocumentSheet(s)
  <2>1. CASE catalog[s] = n
    <3>1. s = SheetOf(n)
      BY <2>1, Facts, SameSheet DEF Worksheet
    <3>2. store'[n] = SourceData(s) /\ n \in materialized'
      BY <3>1, Facts DEF Worksheet, TypeOK
    <3>3. planXml[s] = SourceXml[s] /\ planStrings = SourceStrings
      BY <2>1, Facts
         DEF Worksheet, OutputInv, SessionInv, SourceInv, OpenedSheetsReadThePlan
    <3>4. DocumentSheet(s) = SourceData(s)
      BY <2>1, <3>3 DEF Worksheet, DocumentSheet, SourceData
    <3> QED BY <1>1, <2>1, <3>2, <3>4 DEF DocumentSheet
  <2>2. CASE catalog[s] # n
    <3>1. /\ store'[catalog[s]] = store[catalog[s]]
          /\ catalog[s] \in materialized' <=> catalog[s] \in materialized
      BY <2>2, Facts DEF Worksheet, TypeOK
    <3> QED BY <1>1, <3>1 DEF DocumentSheet, planVars
  <2> QED BY <2>1, <2>2
<1>3. UNCHANGED HasUnsavedChanges
  BY <1>1 DEF HasUnsavedChanges, countVars
<1> QED BY <1>1, <1>2, <1>3, Stutters DEF planVars, workbookVars

LEMMA QuietRefines ==
    ASSUME (\E n \in Names : ReplaceNoCells(n)) \/ EditFails \/ UNCHANGED vars
    PROVE  UNCHANGED Abstract!vars
<1>1. UNCHANGED <<catalog, sessionVars, countVars, planVars, output>>
  BY DEF ReplaceNoCells, EditFails, vars
<1>2. \A s \in Sheets : DocumentSheet(s)' = DocumentSheet(s)
  BY <1>1 DEF DocumentSheet, sessionVars, planVars
<1>3. UNCHANGED HasUnsavedChanges
  BY <1>1 DEF HasUnsavedChanges, countVars, sessionVars
<1> QED BY <1>1, <1>2, <1>3, Stutters DEF planVars, workbookVars, sessionVars

\* Edits of sessions change the document on the sheets whose stores change.
LEMMA SessionEditRefines ==
    ASSUME OutputInv, CatalogInv', SessionEdited, dirty' # {}, NEW N \in SUBSET CurrentNames,
           \A m \in Names \ N : store'[m] = store[m],
           {SheetOf(n) : n \in N} \in Abstract!EditedSheets
    PROVE  \E S \in Abstract!EditedSheets : Abstract!EditSheets(S)
<1> DEFINE S == {SheetOf(n) : n \in N}
<1>1. S \subseteq Sheets
  BY SheetOfType, Facts
<1>2. UNCHANGED <<catalog, materialized, planVars, output>>
  BY DEF SessionEdited
<1>3. \A s \in Sheets \ S : DocumentSheet(s)' = DocumentSheet(s)
  <2> SUFFICES ASSUME NEW s \in Sheets \ S
               PROVE  DocumentSheet(s)' = DocumentSheet(s)
    OBVIOUS
  <2>1. catalog[s] \notin N
    <3> SUFFICES ASSUME catalog[s] \in N PROVE FALSE
      OBVIOUS
    <3>1. s = SheetOf(catalog[s])
      BY Facts, SameSheet
    <3> QED BY <3>1
  <2>2. store'[catalog[s]] = store[catalog[s]]
    BY <2>1, Facts
  <2> QED BY <1>2, <2>2 DEF DocumentSheet, planVars
<1>4. (planFullCalc \/ dirty # {})' = TRUE /\ HasUnsavedChanges' = TRUE
  BY DEF HasUnsavedChanges
<1>5. Abstract!EditSheets(S)
  BY <1>1, <1>2, <1>3, <1>4, EditsSheets DEF planVars, workbookVars
<1> QED BY <1>5

LEMMA SetCellRefines ==
    ASSUME OutputInv, CatalogInv', NEW n \in Names, NEW c \in Cells, NEW v \in Inputs,
           SetCell(n, c, v)
    PROVE  \E S \in Abstract!EditedSheets : Abstract!EditSheets(S)
<1>1. n \in CurrentNames /\ SheetOf(n) \in Sheets
  BY Facts, SheetOfType DEF SetCell
<1>2. {SheetOf(m) : m \in {n}} = {SheetOf(n), SheetOf(n)}
  OBVIOUS
<1>3. {SheetOf(m) : m \in {n}} \in Abstract!EditedSheets
  BY <1>1, <1>2 DEF Abstract!EditedSheets
<1>4. SessionEdited /\ dirty' # {} /\ \A m \in Names \ {n} : store'[m] = store[m]
  BY Facts DEF SetCell, TypeOK
<1> QED BY <1>1, <1>3, <1>4, SessionEditRefines

LEMMA EraseCellRefines ==
    ASSUME OutputInv, CatalogInv', NEW n \in Names, NEW c \in Cells, EraseCell(n, c)
    PROVE  \/ \E S \in Abstract!EditedSheets : Abstract!EditSheets(S)
           \/ UNCHANGED Abstract!vars
<1>1. CASE store[n][c] # NoCell
  <2>1. n \in CurrentNames /\ SheetOf(n) \in Sheets
    BY Facts, SheetOfType DEF EraseCell
  <2>2. {SheetOf(m) : m \in {n}} = {SheetOf(n), SheetOf(n)}
    OBVIOUS
  <2>3. {SheetOf(m) : m \in {n}} \in Abstract!EditedSheets
    BY <2>1, <2>2 DEF Abstract!EditedSheets
  <2>4. SessionEdited /\ dirty' # {} /\ \A m \in Names \ {n} : store'[m] = store[m]
    BY <1>1, Facts DEF EraseCell, TypeOK
  <2> QED BY <2>1, <2>3, <2>4, SessionEditRefines
<1>2. CASE store[n][c] = NoCell
  <2>1. store[n] \in SheetData
    BY Facts DEF TypeOK
  <2>2. [store[n] EXCEPT ![c] = NoCell] = store[n]
    BY <1>2, <2>1 DEF SheetData
  <2>3. store' = store
    BY <2>2, Facts DEF EraseCell, TypeOK
  <2>4. UNCHANGED <<catalog, sessionVars, countVars, planVars, output>>
    BY <1>2, <2>3 DEF EraseCell, SessionEdited, sessionVars
  <2>5. \A s \in Sheets : DocumentSheet(s)' = DocumentSheet(s)
    BY <2>4 DEF DocumentSheet, sessionVars, planVars
  <2>6. UNCHANGED HasUnsavedChanges
    BY <2>4 DEF HasUnsavedChanges, countVars, sessionVars
  <2> QED BY <2>4, <2>5, <2>6, Stutters DEF planVars, workbookVars, sessionVars
<1> QED BY <1>1, <1>2

LEMMA MoveCellsFromRefines ==
    ASSUME OutputInv, CatalogInv', NEW n \in Names, NEW m \in Names, NEW c \in Cells,
           NEW d \in Cells, MoveCellsFrom(n, c, m, d)
    PROVE  \/ \E S \in Abstract!EditedSheets : Abstract!EditSheets(S)
           \/ UNCHANGED Abstract!vars
<1>1. CASE store[n][c] # NoCell
  <2>1. /\ {n, m} \subseteq CurrentNames
        /\ SheetOf(n) \in Sheets /\ SheetOf(m) \in Sheets
    BY Facts, SheetOfType DEF MoveCellsFrom
  <2>2. {SheetOf(k) : k \in {n, m}} = {SheetOf(n), SheetOf(m)}
    OBVIOUS
  <2>3. {SheetOf(k) : k \in {n, m}} \in Abstract!EditedSheets
    BY <2>1, <2>2 DEF Abstract!EditedSheets
  <2>4. SessionEdited /\ dirty' # {} /\ \A k \in Names \ {n, m} : store'[k] = store[k]
    BY <1>1, Facts DEF MoveCellsFrom, TypeOK
  <2> QED BY <2>1, <2>3, <2>4, SessionEditRefines
<1>2. CASE store[n][c] = NoCell
  <2>1. UNCHANGED <<catalog, sessionVars, countVars, planVars, output>>
    BY <1>2 DEF MoveCellsFrom, SessionEdited, sessionVars
  <2>2. \A s \in Sheets : DocumentSheet(s)' = DocumentSheet(s)
    BY <2>1 DEF DocumentSheet, sessionVars, planVars
  <2>3. UNCHANGED HasUnsavedChanges
    BY <2>1 DEF HasUnsavedChanges, countVars, sessionVars
  <2> QED BY <2>1, <2>2, <2>3, Stutters DEF planVars, workbookVars, sessionVars
<1> QED BY <1>1, <1>2

LEMMA CountedHasUnsaved ==
    ASSUME OutputInv, EditCounted
    PROVE  HasUnsavedChanges' = TRUE
BY Facts, CountedIsUnsaved DEF HasUnsavedChanges

LEMMA QueuedRefines ==
    ASSUME OutputInv, CatalogInv',
           \/ \E n \in Names, data \in [Cells -> Inputs \cup {NoCell}] : ReplaceSheetData(n, data)
           \/ \E n \in Names, patch \in Patches, insertMissing \in BOOLEAN :
                 ReplaceCells(n, patch, insertMissing)
    PROVE  \E S \in Abstract!EditedSheets : Abstract!EditSheets(S)
<1>1. PICK n \in CurrentNames :
              /\ n \notin materialized
              /\ \E data : PlanSheetData(PlannedSheetOf(n), data)
  BY DEF ReplaceSheetData, ReplaceCells, PlanCells
<1>2. UNCHANGED <<catalog, sessionVars>> /\ EditCounted
  BY DEF ReplaceSheetData, ReplaceCells
<1> DEFINE s == SheetOf(n)
<1>3. s \in Sheets /\ PlannedSheetOf(n) = s
  BY Facts, SameSheet
<1>4. UNCHANGED <<planNames, planRefs, planStrings, planProps, planImage, output>>
  BY <1>1, <1>2 DEF PlanSheetData, EditCounted
<1>5. planFullCalc' = TRUE
  BY <1>1, <1>3 DEF PlanSheetData, PlanWorksheets
<1>6. \A t \in Sheets \ {s} : DocumentSheet(t)' = DocumentSheet(t)
  <2>1. \A t \in Sheets \ {s} : planXml'[t] = planXml[t]
    BY <1>1, <1>3 DEF PlanSheetData, PlanWorksheets
  <2> QED BY <1>2, <1>4, <2>1 DEF DocumentSheet, sessionVars
<1>7. HasUnsavedChanges' = TRUE
  BY <1>2, CountedHasUnsaved
<1>8. Abstract!EditSheets({s})
  BY <1>2, <1>3, <1>4, <1>5, <1>6, <1>7, EditsSheets
<1>9. {s} = {s, s} /\ {s} \in SUBSET Sheets
  BY <1>3
<1>10. {s} \in Abstract!EditedSheets
  BY <1>3, <1>9 DEF Abstract!EditedSheets
<1> QED BY <1>8, <1>10

LEMMA PackageEditRefines ==
    ASSUME OutputInv,
           \/ RequestFullCalculation
           \/ \E p \in Properties : SetDocumentProperties(p)
           \/ \E bytes \in Images : ReplaceImage(bytes)
    PROVE  Abstract!Next
<1>1. UNCHANGED <<catalog, sessionVars, planXml, planStrings, planRefs, output>> /\ EditCounted
  BY DEF RequestFullCalculation, SetDocumentProperties, ReplaceImage, EditCounted, workbookVars,
         PlanFullCalculation, PlanDocumentProperties, PlanMediaPart
<1>2. \A s \in Sheets : DocumentSheet(s)' = DocumentSheet(s)
  BY <1>1 DEF DocumentSheet, sessionVars
<1>3. [s \in Sheets |-> DocumentSheet(s)]' = [s \in Sheets |-> DocumentSheet(s)]
  BY <1>2
<1>4. Abstract!Edited
  BY <1>1, CountedHasUnsaved DEF Abstract!Edited, Decoded
<1>5. CASE RequestFullCalculation
  <2>1. Abstract!RequestFullCalculation
    BY <1>1, <1>3, <1>4, <1>5
       DEF Abstract!RequestFullCalculation, RequestFullCalculation, PlanFullCalculation
  <2> QED BY <2>1 DEF Abstract!Next
<1>6. CASE \E p \in Properties : SetDocumentProperties(p)
  <2>1. PICK p \in Properties : SetDocumentProperties(p)
    BY <1>6
  <2>2. Abstract!SetDocumentProperties(p)
    BY <1>1, <1>3, <1>4, <2>1
       DEF Abstract!SetDocumentProperties, SetDocumentProperties, PlanDocumentProperties,
           workbookVars, sessionVars
  <2> QED BY <2>2 DEF Abstract!Next
<1>7. CASE \E bytes \in Images : ReplaceImage(bytes)
  <2>1. PICK bytes \in Images : ReplaceImage(bytes)
    BY <1>7
  <2>2. Abstract!ReplaceImage(bytes)
    BY <1>1, <1>3, <1>4, <2>1
       DEF Abstract!ReplaceImage, ReplaceImage, PlanMediaPart, workbookVars, sessionVars
  <2> QED BY <2>2 DEF Abstract!Next
<1> QED BY <1>5, <1>6, <1>7

\* The sheets whose sessions a rename makes dirty are those it may rewrite.
LEMMA RenameSheetRefines ==
    ASSUME OutputInv, CatalogInv', NEW old \in Names, NEW new \in Names,
           NEW policy \in FormulaPolicies, RenameSheet(old, new, policy)
    PROVE  \E s \in Sheets, S \in SUBSET Sheets : Abstract!RenameSheet(s, new, S)
<1> DEFINE s == SheetOf(old)
           rewritten == RewrittenStore(s, old, new, policy)
<1>1. PICK requoted \in SUBSET Requotable(s, old, new, policy) :
              dirty' = dirty \cup requoted \cup {n \in materialized : rewritten[n] # store[n]}
  BY DEF RenameSheet
<1> DEFINE touched == requoted \cup {n \in materialized : rewritten[n] # store[n]}
           S == {t \in Sheets : catalog[t] \in touched}
<1>2. /\ old \in CurrentNames /\ old \notin materialized
      /\ PlanRename(s, old, new, policy)
      /\ catalog' = [catalog EXCEPT ![s] = new]
      /\ store' = rewritten
      /\ EditCounted
      /\ materialized' = materialized
  BY DEF RenameSheet
<1>3. s \in Sheets /\ catalog[s] = old /\ \A t \in Sheets : catalog[t] = old => t = s
  BY <1>2, Facts, SameSheet
<1>4. \A t \in Sheets \ {s} : CaseKey[catalog[t]] # CaseKey[new]
  BY <1>2, <1>3, Facts DEF PlanRename, RenameAccepted
<1>5. \A t \in Sheets : catalog'[t] = IF t = s THEN new ELSE catalog[t]
  BY <1>2, Facts DEF TypeOK
<1>6. new \notin CurrentNames
  BY <1>2, Facts DEF PlanRename, RenameAccepted, CurrentNames
<1>7. touched \subseteq materialized
  BY <1>1 DEF Requotable
<1>8. UNCHANGED <<planFullCalc, planXml, planStrings, planProps, planImage, output>>
  BY <1>2 DEF PlanRename, EditCounted
<1>9. ASSUME NEW t \in Sheets
      PROVE  /\ catalog[t] \in materialized => DocumentSheet(t)' = rewritten[catalog[t]]
             /\ catalog[t] \in materialized => DocumentSheet(t) = store[catalog[t]]
             /\ catalog[t] \notin materialized => DocumentSheet(t)' = DocumentSheet(t)
  <2>1. CASE t = s
    <3>1. catalog'[t] \notin materialized /\ catalog[t] \notin materialized
      BY <1>2, <1>3, <1>5, <1>6, <2>1, Facts
    <3> QED BY <1>2, <1>8, <3>1 DEF DocumentSheet
  <2>2. CASE t # s
    BY <1>2, <1>5, <1>8, <2>2 DEF DocumentSheet
  <2> QED BY <2>1, <2>2
<1>10. \A t \in Sheets \ S : DocumentSheet(t)' = DocumentSheet(t)
  BY <1>9
<1>11. Abstract!OnlySheets(S)
  BY <1>10, SheetsNext DEF Abstract!OnlySheets, Contents
<1>12. ASSUME NEW t \in S, NEW c \in Cells
       PROVE  \/ DocumentSheet(t)'[c] = DocumentSheet(t)[c]
              \/ /\ DocumentSheet(t)[c].kind = "formula"
                 /\ DocumentSheet(t)'[c] = Abstract!FormulaCell(new)
  <2> DEFINE n == catalog[t]
  <2>1. t \in Sheets /\ n \in materialized /\ n \in Names
    BY <1>7, Facts
  <2>2. DocumentSheet(t)' = rewritten[n] /\ DocumentSheet(t) = store[n]
    BY <1>9, <2>1
  <2>3. store[n] \in SheetData
    BY <2>1, Facts DEF TypeOK
  <2>4. rewritten[n][c] \in {store[n][c], RewrittenCell(s, old, new, store[n][c])}
    BY <2>1 DEF RewrittenStore
  <2>5. CASE store[n][c].kind = "formula"
    <3>1. store[n][c] \in CellValues
      BY <2>3, <2>5 DEF SheetData, NoCell, BrokenCell
    <3>2. store[n][c] = FormulaCell(store[n][c].of)
      BY <2>5, <3>1 DEF CellValues, FormulaCell
    <3>3. RewrittenCell(s, old, new, store[n][c]) \in {store[n][c], FormulaCell(new)}
      BY <2>5, <3>2 DEF RewrittenCell, RewrittenName
    <3> QED BY <2>2, <2>4, <2>5, <3>3 DEF Abstract!FormulaCell, FormulaCell
  <2>6. CASE store[n][c].kind # "formula"
    BY <2>2, <2>4, <2>6 DEF RewrittenCell
  <2> QED BY <2>5, <2>6
<1>13. ((planFullCalc \/ dirty # {}) \/ S # {}) = (planFullCalc \/ dirty # {})'
  <2>1. touched # {} <=> S # {}
    <3>1. \A n \in touched : \E t \in Sheets : catalog[t] = n
      BY <1>7, Facts DEF CurrentNames
    <3> QED BY <3>1
  <2>2. dirty' = dirty \cup touched
    BY <1>1
  <2>3. planFullCalc' = planFullCalc
    BY <1>8
  <2> HIDE DEF touched, S
  <2> QED BY <2>1, <2>2, <2>3
<1>14. /\ planRefs' \in [DefinedNames -> Names]
       /\ \A d \in DefinedNames : planRefs'[d] \in {planRefs[d], new}
  BY <1>2, TypeOKParts, Facts DEF PlanRename, RewrittenName, CatalogInv, PlanTypeOK
<1>15. Abstract!Edited
  BY <1>2, <1>8, CountedHasUnsaved DEF Abstract!Edited, Decoded
<1>16. \A t \in S, c \in Cells :
          \/ [r \in Sheets |-> DocumentSheet(r)]'[t][c] = [r \in Sheets |-> DocumentSheet(r)][t][c]
          \/ /\ [r \in Sheets |-> DocumentSheet(r)][t][c].kind = "formula"
             /\ [r \in Sheets |-> DocumentSheet(r)]'[t][c] = Abstract!FormulaCell(new)
  BY <1>12
<1> HIDE DEF S
<1>17. Abstract!RenameSheet(s, new, S)
  BY <1>2, <1>3, <1>4, <1>8, <1>11, <1>13, <1>14, <1>15, <1>16 DEF Abstract!RenameSheet
<1> USE DEF S
<1>18. S \in SUBSET Sheets
  OBVIOUS
<1> QED BY <1>3, <1>17, <1>18

\* A flush moves cells from sessions to parts, and the document sees neither.
LEMMA FlushKeepsDocument ==
    ASSUME OutputInv, NEW staged \in SUBSET dirty, NEW strings, StageSessions(staged, strings)
    PROVE  \A s \in Sheets : catalog[s] \notin materialized => planXml'[s] = planXml[s]
BY Facts, FlushedParts

LEMMA SaveAsRefines ==
    ASSUME NoStringsAdded, OutputInv, SaveAs
    PROVE  Abstract!Save
<1>1. /\ StageSessions(dirty, StagedStrings)
      /\ output' = PlannedPackage'
      /\ dirty' = {} /\ saved' = pending'
  BY DEF SaveAs
<1>2. StagedStrings = planStrings /\ planStrings = SourceStrings
  BY TableIsNeverExtended, Facts DEF StagedStrings
<1>3. /\ UNCHANGED <<catalog, materialized, store, planNames, planRefs, planProps, planImage>>
      /\ planStrings' = planStrings
  BY <1>1, <1>2 DEF StageSessions
<1>4. ASSUME NEW s \in Sheets
      PROVE  /\ DocumentSheet(s)' = DocumentSheet(s)
             /\ DecodeSheet(planXml'[s], planStrings') = DocumentSheet(s)
  <2>1. planXml'[s] = IF catalog[s] \in dirty THEN ProjectedXml(s) ELSE planXml[s]
    BY <1>1, FlushChanges DEF OutputInv
  <2>2. CASE catalog[s] \in dirty
    <3>1. DecodeSheet(planXml'[s], planStrings') = store[catalog[s]]
      BY <1>2, <1>3, <2>1, <2>2, FlushedDecodes DEF OutputInv
    <3> QED BY <1>3, <2>2, <3>1, Facts DEF DocumentSheet
  <2>3. CASE catalog[s] \in materialized \ dirty
    <3>1. DecodeSheet(planXml[s], planStrings) = store[catalog[s]]
      BY <2>3 DEF OutputInv, SessionInv, CleanSessionsArePlanned
    <3> QED BY <1>3, <2>1, <2>3, <3>1 DEF DocumentSheet
  <2>4. CASE catalog[s] \notin materialized
    <3>1. catalog[s] \notin dirty
      BY <2>4, Facts
    <3> QED BY <1>3, <2>1, <2>4, <3>1 DEF DocumentSheet
  <2> QED BY <2>2, <2>3, <2>4
<1>5. planFullCalc' = (planFullCalc \/ dirty # {})
  <2>1. {s \in Sheets : planNames[s] \in dirty} # {} <=> dirty # {}
    BY Facts DEF CurrentNames
  <2>2. planFullCalc' = (planFullCalc \/ {s \in Sheets : planNames[s] \in dirty} # {})
    BY <1>1 DEF StageSessions, PlanWorksheets
  <2> QED BY <2>1, <2>2
<1>6. (planFullCalc \/ dirty # {})' = (planFullCalc \/ dirty # {})
  BY <1>1, <1>5
<1>7. UNCHANGED Abstract!document
  BY <1>3, <1>4, <1>6 DEF Abstract!document
<1>8. Decoded(output)' = Abstract!Document
  <2>1. /\ output'.names = catalog /\ output'.refs = planRefs
        /\ output'.xml = planXml' /\ output'.strings = planStrings'
        /\ output'.fullCalc = planFullCalc' /\ output'.props = planProps
        /\ output'.image = planImage
    BY <1>1, <1>3, Facts DEF PlannedPackage
  <2>2. [s \in Sheets |-> DecodeSheet(output'.xml[s], output'.strings)] =
          [s \in Sheets |-> DocumentSheet(s)]
    BY <1>4, <2>1
  <2> QED BY <1>5, <2>1, <2>2 DEF Decoded, Abstract!Document
<1>9. HasUnsavedChanges' = FALSE
  BY <1>1 DEF HasUnsavedChanges
<1> QED BY <1>7, <1>8, <1>9 DEF Abstract!Save

LEMMA SaveAsFailsRefines ==
    ASSUME NoStringsAdded, OutputInv, [Next]_vars,
           SaveAsFailsWriting \/ \E staged \in SUBSET dirty : SaveAsFailsStaging(staged)
    PROVE  UNCHANGED Abstract!vars
<1>1. PICK staged, strings : staged \in SUBSET dirty /\ StageSessions(staged, strings)
  BY FlushSteps
<1>2. UNCHANGED <<catalog, materialized, store, dirty, countVars, output,
                  planNames, planRefs, planProps, planImage>>
  BY DEF SaveAsFailsWriting, SaveAsFailsStaging, StageSessions
<1>3. planStrings' = planStrings
  BY TableUnchanged, Facts DEF OutputInv
<1>4. ASSUME NEW s \in Sheets
      PROVE  DocumentSheet(s)' = DocumentSheet(s)
  <2>1. catalog[s] \notin materialized => planXml'[s] = planXml[s]
    BY <1>1, FlushKeepsDocument
  <2> QED BY <1>2, <1>3, <2>1 DEF DocumentSheet
<1>5. (planFullCalc \/ dirty # {})' = (planFullCalc \/ dirty # {})
  <2>1. CASE dirty # {}
    BY <1>2, <2>1
  <2>2. CASE dirty = {}
    <3>1. {s \in Sheets : planNames[s] \in staged} = {}
      BY <1>1, <2>2
    <3>2. planFullCalc' = (planFullCalc \/ FALSE)
      BY <1>1, <3>1 DEF StageSessions, PlanWorksheets
    <3> QED BY <1>2, <3>2, Facts
  <2> QED BY <2>1, <2>2
<1>6. UNCHANGED HasUnsavedChanges
  BY <1>2 DEF HasUnsavedChanges, countVars
<1> QED BY <1>2, <1>4, <1>5, <1>6, Stutters

LEMMA NextRefines ==
    ASSUME NoStringsAdded, OutputInv, [Next]_vars
    PROVE  Abstract!Next \/ UNCHANGED Abstract!vars
<1>1. OutputInv' /\ CatalogInv'
  BY NextOutput DEF OutputInv, SessionInv, SourceInv, StagingInv
<1>2. CASE \E n \in Names : Worksheet(n)
  BY <1>2, WorksheetRefines
<1>3. CASE (\E n \in Names : ReplaceNoCells(n)) \/ EditFails \/ UNCHANGED vars
  BY <1>3, QuietRefines
<1>4. CASE \E n \in Names, c \in Cells, v \in Inputs : SetCell(n, c, v)
  BY <1>1, <1>4, SetCellRefines DEF Abstract!Next
<1>5. CASE \E n \in Names, c \in Cells : EraseCell(n, c)
  BY <1>1, <1>5, EraseCellRefines DEF Abstract!Next
<1>6. CASE \E n, m \in Names, c, d \in Cells : MoveCellsFrom(n, c, m, d)
  BY <1>1, <1>6, MoveCellsFromRefines DEF Abstract!Next
<1>7. CASE \/ \E n \in Names, data \in [Cells -> Inputs \cup {NoCell}] : ReplaceSheetData(n, data)
           \/ \E n \in Names, patch \in Patches, insertMissing \in BOOLEAN :
                 ReplaceCells(n, patch, insertMissing)
  BY <1>1, <1>7, QueuedRefines DEF Abstract!Next
<1>8. CASE \E n \in Names, new \in Names, policy \in FormulaPolicies :
              RenameSheet(n, new, policy)
  <2>1. PICK n \in Names, new \in Names, policy \in FormulaPolicies :
                RenameSheet(n, new, policy)
    BY <1>8
  <2> QED BY <1>1, <2>1, RenameSheetRefines DEF Abstract!Next
<1>9. CASE \/ RequestFullCalculation
           \/ \E p \in Properties : SetDocumentProperties(p)
           \/ \E bytes \in Images : ReplaceImage(bytes)
  BY <1>9, PackageEditRefines
<1>10. CASE SaveAs
  BY <1>10, SaveAsRefines DEF Abstract!Next
<1>11. CASE SaveAsFailsWriting \/ \E staged \in SUBSET dirty : SaveAsFailsStaging(staged)
  BY <1>11, SaveAsFailsRefines
<1> QED BY <1>2, <1>3, <1>4, <1>5, <1>6, <1>7, <1>8, <1>9, <1>10, <1>11 DEF Next

\* The editor is one document that edits change sheet by sheet and save_as
\* writes in one step, for every source whose table no save extends.
THEOREM EditorImplementsDocument == NoStringsAdded => (Spec => ImplementsDocument)
<1> SUFFICES ASSUME NoStringsAdded PROVE Spec => ImplementsDocument
  OBVIOUS
<1>1. OutputInv /\ [Next]_vars => OutputInv'
  BY NextOutput
<1>2. OutputInv /\ [Next]_vars => [Abstract!Next]_(Abstract!vars)
  BY NextRefines
<1> QED BY <1>1, <1>2, InitRefines, InitOutput, PTL DEF Spec, ImplementsDocument, Abstract!Spec
=============================================================================

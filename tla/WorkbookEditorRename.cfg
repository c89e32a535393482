\* Renames over a case variant and over names that other sheets have freed, and
\* saves that extend the sharedStrings table with new texts.
SPECIFICATION Spec
CONSTANTS
    Sheets = {"A", "B"}
    Names = {"A", "B", "C", "a"}
    CaseKey <- MCCaseKey
    Cells = {1}
    Texts = {"old", "new", "newer"}
    Numbers = {}
    Inputs <- NewTexts
    DefinedNames = {"d"}
    Properties = {}
    Images = {}
    SourceXml <- CrossXml
    SourceStrings <- OneString
    SourceRefs <- RefsToLowerA
    Projectable = TRUE
    MaxEdits = 3
INVARIANTS CatalogsAgree OneStagingMode OpenedSheetsReadThePlan SourceStringsKept
PROPERTIES RenameFollowsSheet FlushedSheetsAreWritten

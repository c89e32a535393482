\* A source whose sharedStrings table cannot be extended: the texts of sessions
\* are written inline.
SPECIFICATION Spec
CONSTANTS
    Sheets = {"A", "B"}
    Names = {"A", "B", "C"}
    CaseKey <- MCCaseKey
    Cells = {1}
    Texts = {"old", "new"}
    Numbers = {1}
    Inputs <- TextAndNumber
    DefinedNames = {"d"}
    Properties = {"props"}
    Images = {"png"}
    SourceXml <- SharedXml
    SourceStrings <- OneString
    SourceRefs <- RefsToA
    Projectable = FALSE
    MaxEdits = 3
INVARIANTS CleanSessionsArePlanned SavedOutputIsDocument
PROPERTY ImplementsDocument

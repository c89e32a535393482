\* Two saves, each with a new text, over a table that can be extended.
SPECIFICATION Spec
CONSTANTS
    Sheets = {"A", "B"}
    Names = {"A", "B"}
    CaseKey <- MCCaseKey
    Cells = {1}
    Texts = {"old", "new", "newer"}
    Numbers = {}
    Inputs <- TextInputs
    DefinedNames = {}
    Properties = {}
    Images = {}
    SourceXml <- SharedXml
    SourceStrings <- OneString
    SourceRefs <- RefsToA
    Projectable = TRUE
    MaxEdits = 2
INVARIANT SavedOutputIsDocument

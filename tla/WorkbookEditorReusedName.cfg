\* A sheet takes a name another sheet had in the source, which is renamed again.
SPECIFICATION Spec
CONSTANTS
    Sheets = {"A", "B"}
    Names = {"A", "B", "C", "D"}
    CaseKey <- MCCaseKey
    Cells = {1}
    Texts = {"old"}
    Numbers = {}
    Inputs <- NoInputs
    DefinedNames = {"d"}
    Properties = {}
    Images = {}
    SourceXml <- CrossXml
    SourceStrings <- OneString
    SourceRefs <- RefsToB
    Projectable = FALSE
    MaxEdits = 3
PROPERTY RenameKeepsOtherTargets

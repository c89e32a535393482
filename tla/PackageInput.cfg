SPECIFICATION Spec
CONSTANTS
    Gone = Gone
    Unset = Unset
    MaxField = 60
    MaxComment = 2
    DirectoryNames <- Directories
    InvalidNames <- Invalid
    ContentTypes = "types"
    Scenes <- MCScenes
    Faults <- ReportedFaults
    BufferSize = 1
    MaxChanges = 1
CHECK_DEADLOCK FALSE
INVARIANTS
    PackagesReadAsWritten
    ReplayIsPromised
    ExtractionIsWhole
PROPERTY
    PatchIsTheSplice

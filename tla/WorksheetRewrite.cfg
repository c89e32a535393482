SPECIFICATION FairSpec
CONSTANTS
    Requests <- MCRequests
    MaxWindow = 3
    MaxPayload = 8
INVARIANTS
    PatchedSheetReads
    OutputIsAWorksheet
    DimensionCoversCells
    OnlyLargePiecesOverflow
PROPERTIES
    ScanEnds

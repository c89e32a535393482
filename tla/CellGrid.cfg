SPECIFICATION Spec
CONSTANTS
    MaxRow = 3
    MaxColumn = 2
    Here = Here
    NoStyle = NoStyle
    NoCell = NoCell
    Refused = Refused
    MaxCells = 4
    Budget = 16
    Styles <- MCStyles
    Numerals <- MCNumerals
    Indexes <- MCIndexes
    Sheets <- MCSheets
    Packages <- MCPackages
    Values <- MCValues
    Rows <- MCRows
    Batches <- MCBatches
    Ranges <- MCRanges
    MaxEdits = 2
INVARIANTS
    StoresAreSound
    CleanSheetsReload
PROPERTIES
    LoadedSheetReads
    ReferencesFollowCells
    TransfersConserve
CHECK_DEADLOCK FALSE

SPECIFICATION Spec
CONSTANTS
    Package = Package
    Workbook = Workbook
    Sheet = Sheet
    CalcChain = CalcChain
    Core = Core
    App = App
    Media = Media
    Sources <- AnySource
    MaxEdits = 4
CHECK_DEADLOCK FALSE
INVARIANT OutputFollowsManifest
INVARIANT PlanFollowsOutput
INVARIANT FullCalculationKept
INVARIANT StagedFilesOwned
INVARIANT DanglingSheetLinksReported

CONSTANTS
  Entries <- ThreeEntries
  Kind <- ThreeKinds
  Backend = "minizip"
  Faults <- Survived
  Candidates = 1
  MaxSaves = 2
  Nothing = Nothing
SPECIFICATION Spec
INVARIANTS SavedOutputIsComplete NothingLeftBehind OutputUnderItsName

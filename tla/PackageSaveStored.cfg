CONSTANTS
  Entries <- TwoEntries
  Kind <- TwoKinds
  Backend = "stored"
  Faults <- NoFlush
  Candidates = 2
  MaxSaves = 3
  Nothing = Nothing
SPECIFICATION Spec
PROPERTIES ImplementsOutput LeftoversStay

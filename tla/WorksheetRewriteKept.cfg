SPECIFICATION Spec
CONSTANTS
    Requests <- MCRequests
    MaxWindow = 3
    MaxPayload = 8
INVARIANTS
    NonTargetsAreKept

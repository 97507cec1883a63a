SPECIFICATION Spec
CONSTANTS
    MaxUnits = 1
    MaxEvents = 1
    MaxChunks = 1
INVARIANTS
    ResetIsHeard
CHECK_DEADLOCK FALSE

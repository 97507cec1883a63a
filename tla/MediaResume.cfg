SPECIFICATION Spec
CONSTANTS
    UnitSamples = 2
    FrameSizes = {1, 3}
    ClientVideoMode = "omni"
    MaxPending = 2
    MinGap = 2
    MaxNow = 5
    MaxShots = 2
    MaxChanges = 2
    MaxWire = 2
INVARIANTS
    ResumedIsHeard
CHECK_DEADLOCK FALSE

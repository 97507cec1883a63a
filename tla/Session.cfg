SPECIFICATION MCSpec
CONSTANTS
    c1 = c1
    c2 = c2
    c3 = c3
    s1 = s1
    Conns = {c1, c2, c3}
    Nobody = Nobody
    Ids = {s1}
    SessionId <- SameId
    MaxUnits = 2
    MaxEvents = 1
    MaxChunks = 1
    UnitSamples = 2
    FrameSizes = {1, 3}
    ClientVideoMode = "omni"
    MaxPending = 2
    MinGap = 2
    MaxNow = 5
    MaxShots = 2
    MaxChanges = 1
    MaxWire = 2
INVARIANTS
    ThinkerHasSlot
    ParkedIsWatched
    SpeechKept
    SeenInTime
PROPERTIES
    KeepsSlot
    SlotComesBack
    NoStaleAudio
CHECK_DEADLOCK FALSE

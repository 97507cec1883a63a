SPECIFICATION FairSpec
CONSTANTS
    t1 = t1
    t2 = t2
    Turns = {t1, t2}
    NoTurn = NoTurn
    MaxTurns = 2
    MaxCalls = 3
    MaxDeaths = 1
    MaxCrashes = 1
INVARIANTS
    TurnsHandled
PROPERTIES
    TurnsAnswered
    WaitersReturn
CHECK_DEADLOCK FALSE

SPECIFICATION Spec
CONSTANTS
    t1 = t1
    t2 = t2
    Turns = {t1, t2}
    NoTurn = NoTurn
    MaxTurns = 2
    MaxCalls = 2
    MaxDeaths = 0
    MaxCrashes = 0
INVARIANTS
    PlanIsOwn
CHECK_DEADLOCK FALSE

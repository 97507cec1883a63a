CONSTANTS
    Updates <- MCUpdates
    Queries <- MCQueries
    Asks <- MCAsks
    Questions <- MCQuestions
    MaxDeaths = 1
    MaxOps = 2
SPECIFICATION FairSpec
INVARIANTS RequestsServed CancelStops
PROPERTY RunEnds
CHECK_DEADLOCK FALSE

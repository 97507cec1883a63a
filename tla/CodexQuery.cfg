CONSTANTS
    Updates = {}
    Queries <- TwoQueries
    Asks = {}
    Questions <- NoQuestions
    MaxDeaths = 0
    MaxOps = 2
SPECIFICATION Spec
INVARIANTS QueriesStayAside
CHECK_DEADLOCK FALSE

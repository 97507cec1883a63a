SPECIFICATION MCSpec
CONSTANTS
    news = news
    question = question
    Deliveries = {news, question}
    NoDelivery = NoDelivery
    Interrupts = {question}
    Questions = {question}
    Malformed = {news}
    Lean = TRUE
    MaxAttempts = 3
    MaxCalls = 1
    MaxDrops = 1
    MaxCrashes = 1
    ToolUnits = 2
    MaxTurns = 2
    MaxRaises = 1
    MaxUnfit = 1
    Grace = TRUE
INVARIANTS
    DeliveredIsHeard
    HeardOnce
    ClaimsHeld
    CallsBound
PROPERTIES
    SettledStays
    EventuallyHeard
    CallsAnswered
CHECK_DEADLOCK FALSE

SPECIFICATION FairSpec
CONSTANTS
    question = question
    approval = approval
    Asks = {question, approval}
    Permissions = {approval}
    Routes <- AnyRoute
    Turns = {"t1", "t2"}
    Decisions = {"allow", "deny"}
    Says <- Spoken
    MaxCrashes = 2
INVARIANTS
    AnsweredAsRecorded
    PromptsFit
PROPERTIES
    SettledStays
    ResolutionEnds
CHECK_DEADLOCK FALSE

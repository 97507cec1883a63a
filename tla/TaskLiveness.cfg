SPECIFICATION FairSpec
CONSTANTS
    t1 = t1
    t2 = t2
    w1 = w1
    w2 = w2
    Tasks = {t1, t2}
    Runs = {r1, r2}
    NoRun = NoRun
    NoTask = NoTask
    Workspaces = {w1, w2}
    Workspace <- OwnWorkspace
    Slots = 1
    Outcomes = {"completed"}
    Resumable = {t2}
    MaxCrashes = 1
PROPERTIES
    EventuallySettled
    EventuallyTold
    KeepsPromise

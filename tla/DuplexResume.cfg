SPECIFICATION Spec
CONSTANTS
    c1 = c1
    c2 = c2
    c3 = c3
    s1 = s1
    Conns = {c1, c2, c3}
    Nobody = Nobody
    Ids = {s1}
    SessionId <- SameId
INVARIANTS
    ResumedIsWhole
CHECK_DEADLOCK FALSE

CONSTANTS
    c1 = c1
    c2 = c2
    c3 = c3
    r1 = r1
    r2 = r2
    r3 = r3
    Call = {c1, c2}
    RunId = {r1, r2}
    RunOf <- Repeated
    NoCall = NoCall
    Legacy = Legacy
    LegacyRuns = 0
    Capacity = 2
    Assessments = 1
    AtOnce = 2
    Incidents = 2
SPECIFICATION Spec
INVARIANT CancelledOnlyIfCalledOff
CHECK_DEADLOCK FALSE

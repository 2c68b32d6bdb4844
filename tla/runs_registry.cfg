CONSTANTS
    c1 = c1
    c2 = c2
    c3 = c3
    r1 = r1
    r2 = r2
    r3 = r3
    Call = {c1, c2, c3}
    RunId = {r1, r2, r3}
    RunOf <- Distinct
    NoCall = NoCall
    Legacy = Legacy
    LegacyRuns = 1
    Capacity = 2
    Assessments = 1
    AtOnce = 2
    Incidents = 1
SYMMETRY Alike
SPECIFICATION Spec
INVARIANT TypeOK
INVARIANT OneAtATime
INVARIANT RunningIsProcessing
INVARIANT StopsForCause
INVARIANT ApprovedIsKept
CHECK_DEADLOCK FALSE

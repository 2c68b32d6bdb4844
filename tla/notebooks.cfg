CONSTANTS
    d1 = d1
    d2 = d2
    t1 = t1
    t2 = t2
    t3 = t3
    Source = {d1, d2}
    Order <- MCOrder
    Weight <- MCWeight
    Huge <- MCHuge
    MaxBytes = 4
    TaskId = {t1, t2, t3}
    MaxTasks = 2
    MaxVersion = 3
    MaxRounds = 3
SYMMETRY MCSymmetry
SPECIFICATION Spec
INVARIANT TypeOK
INVARIANT FactsAreFresh
PROPERTY ActiveTasksStay
CHECK_DEADLOCK FALSE

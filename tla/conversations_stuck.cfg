CONSTANTS
    m1 = m1
    m2 = m2
    g1 = g1
    g2 = g2
    g3 = g3
    general = general
    owner = owner
    General = {general}
    Admin = {owner}
    Request = {m1, m2, g1, g2, g3}
    MutsuRequest = {m1, m2}
    TargetOf <- MCTargetOf
    NoRun = NoRun
    Window = 2
    Faults = 1
    Crashes = 1
SPECIFICATION Spec
PROPERTY BusyIsTrue
CHECK_DEADLOCK FALSE

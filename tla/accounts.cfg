CONSTANTS
    i1 = i1
    i2 = i2
    i3 = i3
    h1 = h1
    h2 = h2
    b1 = b1
    b2 = b2
    p = p
    q = q
    Id = {i1, i2, i3}
    Name = {"Mutsu", "ann"}
    Password = {p, q}
    Permission = {"accounts.manage"}
    Handler = {h1, h2}
    Request = {r}
    Setup = {b1, b2}
    None = None
    LockAt = 2
    MaxRecent = 1
    MaxToken = 3
    MaxVersion = 2
    MaxLogins = 3
SYMMETRY MCSymmetry
SPECIFICATION Spec
INVARIANT TypeOK
INVARIANT SessionsAreCurrent
INVARIANT LockFollowsFailures
INVARIANT OneSuper
INVARIANT BoundedGuesses
CHECK_DEADLOCK FALSE

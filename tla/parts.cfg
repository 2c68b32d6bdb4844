CONSTANTS
    j1 = j1
    j2 = j2
    c1 = c1
    k1 = k1
    lean = lean
    plain = plain
    Model = {lean, plain}
    Compact = {lean}
    Key = {k1}
    Job = {j1, j2}
    Call = {c1}
    None = None
    Torn = Torn
    Unset = Unset
    Junk = Junk
    MaxCrashes = 1
    MaxPages = 2
    Document <- MCDocument
    Answer <- MCAnswer
    Window = {w1, w2}
    Recorder = {r1}
    Configuration = {v1, v2}
    Default = v1
    Entry = {x1, x2}
    NoWindow = NoWindow
    MaxEntries = 1
    PageSize = 2
    MaxEvents = 3
    Resolution = {1, 2, 4}
    Retention <- MCRetention
    Chart <- MCChart
    PruneEvery = 2
    Value = {1, 4}
    Null = Null
    MaxSamples = 3
    MaxTime = 7
    Piece = {p1, p2}
    MaxPieces = 2
    MaxWire = 2
SPECIFICATION Spec
INVARIANT TypeOK
INVARIANT RemovalHolds
INVARIANT ResultIsCoherent
INVARIANT BothFormsAgree
INVARIANT PagingIsComplete
INVARIANT HistoryIsTrue
PROPERTY NoLostUpdate
PROPERTY KeepsPromise
CHECK_DEADLOCK FALSE

SPECIFICATION Spec
CONSTANTS
    Transaction <- MCTransaction
    Receipt <- MCReceipt
    Group <- MCGroup
    NoGroup = "none"
    Source <- MCSource
    TxOf <- MCTxOf
    ReceiptsOf <- MCReceiptsOf
    GroupOf <- MCGroupOf
    ConfirmedTx = {}
    ConfirmedReceipt = {}
    Task = {"k1", "k2"}
    KernelTask = "kernel-unassigned"
    Operation = {"search_amount"}
    Commands <- MCCommands
    Claims <- MCClaims
    Verdicts <- MCVerdicts
    Rank <- MCRank
    MaxChunkTx = 2
    MaxChunkSize = 4
    MaxChunks = 3
    PriorApproved = {}
INVARIANT TypeOK
INVARIANT NoDoubleUse
INVARIANT WholeRelations
INVARIANT MatchesAreFounded
INVARIANT SettledIsNotSent
INVARIANT DependenciesFirst
INVARIANT CompletedMeansReviewed
INVARIANT QuietAfterStop
PROPERTY PassedIsSettled
CHECK_DEADLOCK FALSE

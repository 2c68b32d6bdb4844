SPECIFICATION Spec
CONSTANTS
    Transaction <- MCTransaction
    Receipt <- MCReceipt
    Group <- MCGroup
    NoGroup = "none"
    Source <- PairSource
    TxOf <- MCTxOf
    ReceiptsOf <- MCReceiptsOf
    GroupOf <- MCGroupOf
    ConfirmedTx = {}
    ConfirmedReceipt = {}
    Task = {"k1", "k2"}
    KernelTask = "kernel-unassigned"
    Operation = {"search_amount"}
    Commands <- EmptyCommands
    Claims <- PairClaims
    Verdicts <- PairVerdicts
    Rank <- MCRank
    MaxChunkTx = 2
    MaxChunkSize = 4
    MaxChunks = 3
    PriorApproved = {}
INVARIANT BlockedHasCause
CHECK_DEADLOCK FALSE

SPECIFICATION Spec
CONSTANTS
    Transaction <- MCTransaction
    Receipt <- MCReceipt
    Group <- MCGroup
    NoGroup = "none"
    Source <- PairSource
    TxOf <- MCTxOf
    ReceiptsOf <- MCReceiptsOf
    GroupOf <- MCGroupOf
    ConfirmedTx = {}
    ConfirmedReceipt = {}
    Task = {"k1"}
    KernelTask = "kernel-unassigned"
    Operation = {"search_amount"}
    Commands <- PairCommands
    Claims <- PairClaims
    Verdicts <- PairVerdicts
    Rank <- MCRank
    MaxChunkTx = 2
    MaxChunkSize = 4
    MaxChunks = 3
    PriorApproved <- PairApproved
INVARIANT CompletedTaskIsDone
CHECK_DEADLOCK FALSE

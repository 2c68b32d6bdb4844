SPECIFICATION FairSpec
CONSTANTS
    Transaction <- MCTransaction
    Receipt <- MCReceipt
    Group <- MCGroup
    NoGroup = "none"
    Source <- MCSource
    TxOf <- MCTxOf
    ReceiptsOf <- MCReceiptsOf
    GroupOf <- MCGroupOf
    ConfirmedTx = {}
    ConfirmedReceipt = {"r3"}
    Task = {"k1", "k2"}
    KernelTask = "kernel-unassigned"
    Operation = {"search_amount"}
    Commands <- MCCommands
    Claims <- MCClaims
    Verdicts <- MCVerdicts
    Rank <- MCRank
    MaxChunkTx = 2
    MaxChunkSize = 4
    MaxChunks = 3
    PriorApproved <- PairApproved
PROPERTY KeepsLedger
PROPERTY Termination
CHECK_DEADLOCK FALSE

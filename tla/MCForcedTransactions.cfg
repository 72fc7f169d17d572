SPECIFICATION FairSpec
CONSTANTS
    None = None
    MaxFtx = 2
    MaxIdleBlocks = 1
    TxLimitToSendPerTick = 2
    BlocksPerBatch = 2
    MaxRestarts = 1
INVARIANTS
    IInv
    SettledInOrder
    RecordedWithoutGaps
    NoForcedTransactionIsPassedUninterrupted
    RequestsListTheirForcedTransactions
    ForcedTransactionsStartBatches
    LockIsBelowStatuses
 
CHECK_DEADLOCK FALSE

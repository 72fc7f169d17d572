SPECIFICATION Spec
CONSTANTS
    None = None
    MaxFtx = 1
    MaxIdleBlocks = 2
    TxLimitToSendPerTick = 1
    BlocksPerBatch = 2
    MaxRestarts = 1
INVARIANTS
    NoForcedTransactionIsPassed
CHECK_DEADLOCK FALSE

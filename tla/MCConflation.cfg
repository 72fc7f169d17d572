SPECIFICATION FairSpec
CONSTANTS
    None = None
    MaxBlock = 3
    BlockKinds <- MCBlockKinds
    BlocksLimit = 2
    TracesLimit = 3
    DataLimit = 4
    BatchOverhead = 1
    BatchesLimit = 2
    TargetEndBlocks = {2}
    FetchLimit = 3
    DeadlineChecks = {d1, d2}
INVARIANTS
    IInv
    BatchesPartitionTheBlocks
    BatchesFollowOneChain
    BlobsHoldTheirBatches
    LimitsAreKept
    AppendNeverThrows
    ForksAndTargetsStartBlobs
 
CHECK_DEADLOCK FALSE

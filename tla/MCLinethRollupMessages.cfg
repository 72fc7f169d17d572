SPECIFICATION FairSpec
CONSTANTS
    g = g
    r1 = r1
    r2 = r2
    r3 = r3
    alice = alice
    bob = bob
    t1 = t1
    t2 = t2
    m1 = m1
    m2 = m2
    w1 = w1
    w2 = w2
    op = op
    rec = rec
    Message = {m1, m2}
    L2Message = {w1, w2}
    Address = {alice, bob}
    Root = {g, r1, r2, r3}
    GenesisRoot = g
    From <- MCFrom
    To <- MCTo
    Executable <- MCExecutable
    Operators = {op}
    RecoveryOperator = rec
    L2_BLOCK_DURATION_SECONDS = 1
    BLOCK_NUMBER_DEADLINE_BUFFER = 1
    Blob <- MessageBlobs
    Submissions <- MessageSubmissions
    Transaction = {t1, t2}
    ProofTypes = {0, 1}
    PauseTypes = {"GENERAL", "FINALIZATION", "STATE_DATA_SUBMISSION", "L1_L2"}
    L2_BLOCK_BUFFER = 1
    SIX_MONTHS_IN_SECONDS = 2
    InitialFields = {5}
    MaxL2Block = 3
    MaxTime = 4
    MaxMessages = 2
    MaxForcedTransactions = 0
    MaxShnarfs = 2
    MaxAdminActions = 1
INVARIANTS
    FinalizedStateIsL2State
    FinalizedDataAvailable
    MerkleRootsPartitionMessages
PROPERTIES
    LivenessIsRecovered
CHECK_DEADLOCK FALSE

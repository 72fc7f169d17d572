SPECIFICATION FairSpec
CONSTANTS
    m = m
    n = n
    l = l
    e1 = e1
    e2 = e2
    a1 = a1
    None = None
    Controller = {m, n, l}
    CanRunFullLarge = {l}
    Unstable = {m}
    Request = {e1, e2}
    Kind <- ExecutionOnly
    End <- Ends
    JobToWatch <- Watches
    KeepTracesUntilBlock = 0
    FailureCodes = {2, 137}
    RetryLocallyWithLargeCodes = {77}
    DeferToOtherLargeCodes = {137}
    Signals = {"SIGTERM"}
    MaxSignals = 1
    MaxCrashes = 1
INVARIANTS
    IInv
    ProvenByOneController
    StoppedHoldsNoLock
    ProvenIsNotFailed
    SuccessHasResponse
    TraceKeptUntilProven
    QueuedIsPickedUp
 
CHECK_DEADLOCK FALSE

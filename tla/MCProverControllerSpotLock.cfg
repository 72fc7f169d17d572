SPECIFICATION Spec
CONSTANTS
    m = m
    n = n
    l = l
    e1 = e1
    e2 = e2
    a1 = a1
    None = None
    Controller = {m, l}
    CanRunFullLarge = {l}
    Unstable = {}
    Request = {e1}
    Kind <- ExecutionOnly
    End <- Ends
    JobToWatch <- Watches
    KeepTracesUntilBlock = 0
    FailureCodes = {2}
    RetryLocallyWithLargeCodes = {77}
    DeferToOtherLargeCodes = {137}
    Signals = {"SIGUSR1"}
    MaxSignals = 1
    MaxCrashes = 0
INVARIANT StoppedHoldsNoLock
CHECK_DEADLOCK FALSE

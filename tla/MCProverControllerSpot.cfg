SPECIFICATION Spec
CONSTANTS
    m = m
    n = n
    l = l
    e1 = e1
    e2 = e2
    a1 = a1
    None = None
    Controller = {m, l}
    CanRunFullLarge = {l}
    Unstable = {m, l}
    Request = {e1, a1}
    Kind <- Mixed
    End <- Ends
    JobToWatch <- Watches
    KeepTracesUntilBlock = 0
    FailureCodes = {2, 77, 137}
    RetryLocallyWithLargeCodes = {77}
    DeferToOtherLargeCodes = {137}
    Signals = {"SIGTERM", "SIGUSR1"}
    MaxSignals = 2
    MaxCrashes = 1
INVARIANT ResponseIsOfItsRequest
PROPERTY FiledIsFinal
CHECK_DEADLOCK FALSE

\* The processing lock against the final flush.
CONSTANTS
    r1 = r1
    r2 = r2
    RequestIds = {r1, r2}
    Sources <- MCSources
    None = None
    Capacity = 2
    MaxTimeouts = 2
    Invocations = 2
    RequestOf <- MCDistinct
    PostsCarryId = TRUE
    MaxSignals = 0
    ChannelSize = 1
    MaxQueueEntries = 2

SPECIFICATION LifecycleSpec

CHECK_DEADLOCK FALSE

INVARIANT NoFlushMidProcessing

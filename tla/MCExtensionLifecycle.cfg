\* Two invocations with ids of their own, wrappers that send theirs, one signal.
CONSTANTS
    r1 = r1
    r2 = r2
    RequestIds = {r1, r2}
    Sources <- MCSources
    None = None
    Capacity = 2
    MaxTimeouts = 2
    Invocations = 2
    RequestOf <- MCDistinct
    PostsCarryId = TRUE
    MaxSignals = 1
    ChannelSize = 1
    MaxQueueEntries = 2

SPECIFICATION LifecycleFairSpec

\* The extension exits after SHUTDOWN.
CHECK_DEADLOCK FALSE

INVARIANTS
    HoldOutlastsFunction
    InFlightFlushed

PROPERTIES
    HealthIsFair
    HandlerReturns

\* One extension that subscribes up to twice, three events, a buffer and a capture of two.
CONSTANTS
    Extensions = {e1}
    MaxTasks = 2
    MaxEvents = 3
    MaxItems = 2
    MaxCaptured = 2
    MaxAttempts = 2
    Policies = {"none", "delay", "suppress"}
    Outcomes = {"ok", "rejected", "answerLost"}

SPECIFICATION DeliverySpec

INVARIANTS
    BufferIsNewest
    OneTaskKeepsOrder

PROPERTIES
    DuplicateOnlyOnRetry
    ShutdownCompletes
    EventsMoveOn

CHECK_DEADLOCK FALSE

\* One extension for both events and one for INVOKE only, two pipelined invocations.
CONSTANTS
    Extensions = {e1, e2}
    InvokeSubscribers = {e1, e2}
    ShutdownSubscribers = {e1}
    Invocations = 2

SPECIFICATION SimulatorFairSpec

\* Clients may stop polling.
CHECK_DEADLOCK FALSE

INVARIANTS
    ReadinessEarned
    NewestKeepsReadiness

PROPERTIES
    PollsAnswered
    ResponseReported

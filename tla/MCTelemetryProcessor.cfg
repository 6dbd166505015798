\* Two requests whose events come in up to three batches, one of them possibly twice.
CONSTANTS
    Ids = {"a", "b"}
    Requests = {1, 2}
    TraceHeaders <- MCTraceHeaders
    Statuses = {"success", "timeout", "none"}
    MaxBatches = 3
    MaxRedeliveries = 1

SPECIFICATION ProcessorSpec

INVARIANTS
    SpansJoinOneRequest
    OnlyOpenStartsKept
    CompletedMeansAdded
    DeliveredIsConverted

CHECK_DEADLOCK FALSE

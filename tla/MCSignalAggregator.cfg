\* A budget of 5 bytes and 3 entries, batches of 2 bytes and 2 entries: both
\* budgets and both batch limits bind, and t3 is larger than a batch.
CONSTANTS
    Signals <- MCSignals
    KindOf <- MCKindOf
    SizeOf <- MCSizeOf
    None = None
    MaxQueueBytes = 5
    MaxQueueEntries = 3
    MaxBatchBytes = 2
    MaxBatchEntries = 2

SPECIFICATION AggregatorFairSpec

INVARIANTS
    BudgetRespected
    OldestGoesFirst

PROPERTIES
    DrainTakesAllOwed
    MutexReleased
    ImplementsLossyBuffer

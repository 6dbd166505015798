\* Times in units of the exporter's backoff: an invocation of five units, budgets and
\* settle delays of one to three, a clock of ten; a tracker of two signals.
CONSTANTS
    MaxRetries = 3
    InitialBackoff = 1
    MinBudget = 1
    Timeout = 2
    Answers = {200, 503}
    HistorySize = 2
    FrequentThreshold = 1
    DeadlineBuffer = 1
    Interval = 1
    MaxBatchEntries = 2
    Strategies = {"default", "end", "periodic"}
    FlushBudget = 3
    Settle = 1
    TickFloor = 1
    ShutdownMargin = 1
    ProcessingCap = 2
    Allowances = {5}
    Caps <- CapChoices
    MaxSignals = 2
    MaxTime = 10

SPECIFICATION ControlSpec

INVARIANTS
    FlushKeepsItsDeadline
    HoldPathBounded
    HeldSignalsFresh

PROPERTY
    EndLeavesNothing

CHECK_DEADLOCK FALSE

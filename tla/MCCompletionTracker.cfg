\* Three request ids against a memory of two: evictions, retries, duplicates.
CONSTANTS
    RequestIds = {r1, r2, r3}
    Sources <- MCSources
    None = None
    Capacity = 2
    MaxTimeouts = 2

SPECIFICATION TrackerFairSpec

INVARIANTS
    CurrentAgreesWithMemory
    FreshSignalRestoresHealth

PROPERTIES
    FirstSourceWins
    SignalledNeverPenalised
    WaitEnds

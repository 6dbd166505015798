\* Operations that do not overlap, one invocation at a time; report tasks may still
\* wait for their extensions when the next invocation or the shutdown comes.
CONSTANTS
    NumPids = 2
    Freezers = {f1, f2}
    Thawers = {t1}
    MaxInvocations = 3
    MaxPending = 1
    Overlap = FALSE

SPECIFICATION FreezeSpec

\* The simulator stops after its last invocation.
CHECK_DEADLOCK FALSE

INVARIANTS
    NoStopWithWork
    ShutdownLeavesRunning

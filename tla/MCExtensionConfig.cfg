\* Every combination of file, OTEL_ variables and none, one or two LAMBDA_OTEL_ variables.
CONSTANTS
    Files <- MCFiles
    OtelEnvs <- MCOtelEnvs
    Prefixed <- MCPrefixed
    Memory = {0, 128}

SPECIFICATION ConfigSpec

INVARIANTS
    HighestSourceWins
    HeadersAreJoined
    FailedStartExplained

CHECK_DEADLOCK FALSE

\* The fields the future records when the handler fails.
CONSTANTS
    Ids = {"a", "b"}
    Calls = {c1, c2}
    Events <- MCEvents
    Configs <- MCConfigs
    MaxTasks = 1

SYMMETRY CallSymmetry

SPECIFICATION TowerSpec

INVARIANT StatusReachesSpan

CHECK_DEADLOCK FALSE

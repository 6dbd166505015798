\* Two concurrent calls, every kind of event, every setting of the layer.
CONSTANTS
    Ids = {"a", "b"}
    Calls = {c1, c2}
    Events <- MCEvents
    Configs <- MCConfigs
    MaxTasks = 1

SYMMETRY CallSymmetry

SPECIFICATION TowerSpec

INVARIANTS
    OneColdStart
    EventAttributesReachSpan
    ContextIsTheSenders

PROPERTY
    FlushedBeforeResponse

CHECK_DEADLOCK FALSE

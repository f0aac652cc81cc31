\* Two agg() calls on one groupby, every request class, one or two keys,
\* both pandas versions, any order of tiling and execution.
CONSTANTS
    Requests = {"plain", "ignoring", "failing", "selcount"}
    ByCounts = {1, 2}
    MaxCalls = 2
SPECIFICATION Spec
INVARIANTS
    TypeOK
    IndexLevelsMatchKeys
\* The session ends after its bounded agg() calls have run.
CHECK_DEADLOCK FALSE

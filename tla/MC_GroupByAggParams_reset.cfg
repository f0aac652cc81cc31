\* One agg() call on a fresh groupby: does the output honour as_index?
CONSTANTS
    Requests = {"plain", "ignoring", "failing", "selcount"}
    ByCounts = {1, 2}
    MaxCalls = 1
SPECIFICATION Spec
INVARIANTS
    ResetAsRequested
CHECK_DEADLOCK FALSE

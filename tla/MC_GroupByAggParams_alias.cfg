\* Two agg() calls on one groupby: does the first leak into the second?
CONSTANTS
    Requests = {"plain", "ignoring", "failing", "selcount"}
    ByCounts = {1, 2}
    MaxCalls = 2
SPECIFICATION Spec
INVARIANTS
    CallsIndependent
CHECK_DEADLOCK FALSE

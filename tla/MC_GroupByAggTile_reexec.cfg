\* A probe output lost after the planner resumed is recomputed.
CONSTANTS
    ChunkCounts = {3}
    CombineSize = 2
    ChunkStoreLimit = 24
    AggSizes = {1}
    Methods = {"auto"}
    MaxCrash = 0
    MaxLoss = 1
SPECIFICATION GFairSpec
INVARIANTS
    ProbesReexecutable
CHECK_DEADLOCK FALSE

\* A probe retried after it recorded: does the plan still follow from the
\* input alone?
CONSTANTS
    ChunkCounts = {5}
    CombineSize = 2
    ChunkStoreLimit = 24
    AggSizes = {1, 2}
    Methods = {"auto"}
    MaxCrash = 1
    MaxLoss = 0
SPECIFICATION GFairSpec
INVARIANTS
    PlanMatchesReference
CHECK_DEADLOCK FALSE

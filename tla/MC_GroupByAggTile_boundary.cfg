\* Auto tiling whose size estimate can land exactly on the budget.
CONSTANTS
    ChunkCounts = {5}
    CombineSize = 2
    ChunkStoreLimit = 24
    AggSizes = {1, 2, 3}
    Methods = {"auto"}
    MaxCrash = 0
    MaxLoss = 0
SPECIFICATION GFairSpec
INVARIANTS
    TreeFanInBounded
CHECK_DEADLOCK FALSE

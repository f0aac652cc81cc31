\* The sort-shuffle map declares the input frame's chunk count as its
\* shuffle_size, in the auto fall back after a combine round.
CONSTANTS
    ChunkCounts = {1, 2, 3, 4, 5}
    CombineSize = 2
    ChunkStoreLimit = 10
    AggSizes = {1, 2, 3}
    Methods = {"auto", "tree", "shuffle"}
    MaxCrash = 0
    MaxLoss = 0
SPECIFICATION GSpec
INVARIANTS
    ShuffleWidthsAgree
\* Tiling ends: once the plan is built nothing is left to do.
CHECK_DEADLOCK FALSE

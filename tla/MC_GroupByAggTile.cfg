\* Tiling without faults: every method, 1 to 5 input chunks, every
\* assignment of sizes to the two probe chunks.  A chunk_store_limit of 10
\* against probe sizes 1 to 3 makes auto over 5 chunks fall back to the
\* shuffle after 0, 1 or 2 combine rounds, or finish as a tree.
CONSTANTS
    ChunkCounts = {1, 2, 3, 4, 5}
    CombineSize = 2
    ChunkStoreLimit = 10
    AggSizes = {1, 2, 3}
    Methods = {"auto", "tree", "shuffle"}
    MaxCrash = 0
    MaxLoss = 0
SPECIFICATION GFairSpec
INVARIANTS
    LineageExactlyOnce
    PlanMatchesReference
    ShuffleTopology
    ShuffleInv
PROPERTIES
    PlanningTerminates
    ImplementsPlan
\* Tiling ends: once the plan is built nothing is left to do.
CHECK_DEADLOCK FALSE

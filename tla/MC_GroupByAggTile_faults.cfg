\* Auto tiling with a probe that crashes after recording and a stored probe
\* output that is lost, before or after the planner resumed.
CONSTANTS
    ChunkCounts = {3, 4, 5}
    CombineSize = 2
    ChunkStoreLimit = 24
    AggSizes = {1, 2, 3}
    Methods = {"auto"}
    MaxCrash = 1
    MaxLoss = 1
SPECIFICATION GFairSpec
INVARIANTS
    TypeOK
    LineageExactlyOnce
    RecorderInv
PROPERTIES
    PlanningTerminates
    ResumeWithEverySize
\* Tiling ends: once the plan is built nothing is left to do.
CHECK_DEADLOCK FALSE

\* As MC_GroupByAggStages.cfg, with custom steps declaring output_limit 2.
CONSTANTS
    MaxSteps = 4
    Limits = {1, 2}
    MaxRounds = 2
SPECIFICATION Spec
INVARIANTS
    StagesAligned
CHECK_DEADLOCK FALSE

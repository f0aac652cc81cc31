\* One to four agg steps, plain or custom, every output_limit 1, the map
\* stage followed by up to two combine rounds and the agg stage.
CONSTANTS
    MaxSteps = 4
    Limits = {1}
    MaxRounds = 2
SPECIFICATION Spec
INVARIANTS
    StagesAligned
\* The chain ends with its agg stage.
CHECK_DEADLOCK FALSE

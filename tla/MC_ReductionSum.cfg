\* Columns of up to 3 chunks of up to 2 values from {1, 2, NaN}, every
\* skipna, and min_count 0 to 3 (above any one chunk's count).
CONSTANTS
    NaN = NaN
    NoValue = NoValue
    Numbers = {1, 2}
    MaxChunks = 3
    MaxLen = 2
    MinCounts = {0, 1, 2, 3}
SPECIFICATION Spec
INVARIANTS
    SumMatchesPandas
\* The reduction ends once the column is reduced.
CHECK_DEADLOCK FALSE

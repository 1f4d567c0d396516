SPECIFICATION FramesSpec
CONSTANTS
    MostFrames = 6
    TokenCounts = {0, 2, 3, 4}
    Path = Path
INVARIANTS
    BudgetKept
PROPERTIES
    CoversVideo
\* The loop ends with a result or an error.
CHECK_DEADLOCK FALSE

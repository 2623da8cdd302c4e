SPECIFICATION MCSpec
CONSTANTS
    h1 = h1
    h2 = h2
    Handlers <- MCHandlers
    MaxRuns = 1
CHECK_DEADLOCK FALSE
INVARIANTS
    CacheNeverAhead
    LoopEndsWithTheRun
PROPERTIES
    OnlyOverlapSetsBack
    LoopLearnsTheEnd

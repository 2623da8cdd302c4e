SPECIFICATION Spec
CONSTANTS
    h1 = h1
    h2 = h2
    Handlers <- MCHandlers
    MaxRuns = 2
    MaxRequests = 4
    MaxLives = 2
SYMMETRY Symmetry
CHECK_DEADLOCK FALSE
INVARIANTS
    OneTerminalEvent
    TrackedStepsUnique
    ServedIsDurable

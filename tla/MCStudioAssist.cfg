\* Two asks against a session limit and a tenant cap of one; two sessions in a
\* store of one; a session is idle, a window over and a day gone after one
\* instant; a queue longer than the largest batch the BFF takes.
SPECIFICATION Spec
CONSTANTS
    MaxTime = 1
    DayLength = 1
    Idle = 0
    MaxSessions = 1
    MaxSignIns = 2
    MaxHits = 1
    Window = 1
    Limit = 1
    Cap = 1
    MaxAsks = 2
    MaxEvents = 1
    QueueMax = 2
    BatchSize = 2
INVARIANTS CallsAreAccounted
PROPERTIES  EverythingSettles
CHECK_DEADLOCK FALSE

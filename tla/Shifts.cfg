CONSTANTS
    Employee = {e1}
    Worker = {w1, w2}
    Req = {r1, r2}
    Event = {v1}
    Redis = Redis
    NoWorker = NoWorker
    MaxSessions = 3
    MaxSockets = 2
    Mixed = FALSE
    MaxFaults = 1
SPECIFICATION NoticesSpec
SYMMETRY Symmetry
INVARIANTS
    OpenIsKnown
    ToldOnce
PROPERTIES
    LogoutsLast
    OneSessionEach
CHECK_DEADLOCK FALSE

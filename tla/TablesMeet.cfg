CONSTANTS
    Row = {r1, r2}
    BatchSize = 1
    MaxTries = 1
    MaxClock = 3
    MaxEdits = 2
    MaxFaults = 1
SPECIFICATION Spec
CHECK_DEADLOCK FALSE
INVARIANTS
    BehindCheckpoint
PROPERTIES
    NeverBack
    ChangesArrive

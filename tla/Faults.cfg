SPECIFICATION Spec
CONSTANTS
    l1 = l1
    l2 = l2
    Cart = {c1}
    Loop = {l1, l2}
    MaxRows = 2
    Browser = TRUE
    MaxAttempts = 2
    Many = 2
    Faults = {"lost", "refuse", "expire", "restart", "leave", "store", "again"}
    NoCart = NoCart
SYMMETRY LoopSymmetry
INVARIANTS
    NothingLost
    SoldOnce
    TypeOK
PROPERTIES
    StaysSafe

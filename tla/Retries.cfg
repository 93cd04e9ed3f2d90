SPECIFICATION LiveSpec
CONSTANTS
    l1 = l1
    l2 = l2
    Cart = {c1}
    Loop = {l1}
    MaxRows = 1
    Browser = FALSE
    MaxAttempts = 2
    Many = 2
    Faults = {}
    NoCart = NoCart
PROPERTIES
    FailedIsRetried

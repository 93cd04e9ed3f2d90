SPECIFICATION Spec
CONSTANTS
    s1 = s1
    s2 = s2
    p1 = p1
    p2 = p2
    c1 = c1
    t1 = t1
    l1 = l1
    l2 = l2
    l3 = l3
    r1 = r1
    r2 = r2
    r3 = r3
    q1 = q1
    q2 = q2
    Nobody = Nobody
    Sale = {s1, s2}
    Product = {p1, p2}
    Customer = {c1}
    Till = {t1}
    Line = {l1, l2, l3}
    Return = {r1, r2, r3}
    Request <- Slots
    Sold <- Sales2
    LineOf <- Lines3
    Asked <- Returns3
    InitStock <- Stock2
    InitWallet <- Purse
    Float <- Till5
SYMMETRY SlotSymmetry
CHECK_DEADLOCK FALSE
INVARIANTS
    StockIsLedger
    PostedOnce
    CeilingAlone
    ReturnsMatch
PROPERTIES
    DecidedIsFinal

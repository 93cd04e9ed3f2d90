SPECIFICATION Spec
CONSTANTS
    s1 = s1
    s2 = s2
    s3 = s3
    s4 = s4
    p1 = p1
    p2 = p2
    c1 = c1
    t1 = t1
    r1 = r1
    r2 = r2
    NoRequest = NoRequest
    Sale = {s1, s2}
    Product <- Products2
    Customer = {c1}
    Session = {t1}
    Request <- Slots
    Basket <- MpesaAndCredit
    InitStock <- ThreeEach
    OpeningFloat <- Float
    CreditLimit <- Limit
    InitWallet <- Purse
    Ops = {"create", "void", "confirm", "callback", "fail", "cleanup", "push"}
    MaxPush = 1
    Isolated = FALSE
    StockCheck = TRUE
    EnforceWidth = FALSE
CHECK_DEADLOCK FALSE
SYMMETRY SlotSymmetry
INVARIANTS
    TypeOK
    StockIsLedger
    CompletedIsPosted
    ReversedAtMostOnce

CONSTANTS
    Expense = {"6600"}
    Session = {s1, s2}
    Sale = {1, 2}
    Customer = {c1}
    Payment = {p1}
    Voucher = {v1}
    Period = {q1, q2}
    Handler = {h1, h2}
    None = None
    Basket <- Baskets
    OpeningFloat = {2}
    Miscount <- Short
    Threshold = 0
    Limit = 4
    Wallet = 2
    Amount = {2}
    Delta <- Shift
    MaxTime = 2
    MaxEvents = 4
SPECIFICATION Spec
SYMMETRY Symmetric
CHECK_DEADLOCK FALSE
INVARIANTS
    TillsAccounted
    CustomersAccounted
    VouchersNetOut
    BooksBalance
    TapesMatchBooks

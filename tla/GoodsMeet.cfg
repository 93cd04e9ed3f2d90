CONSTANTS
    Order = {o1}
    Note = {n1, n2}
    Product = {p1, p2}
    Invoice = {i1}
    Handler = {h1, h2}
    NoOrder = NoOrder
    NoNote = NoNote
    NoItem = NoItem
    EnforceWidth = TRUE
    p1 = p1
    p2 = p2
    Sheet <- Sheets
    Cost = {1}
    Named <- Misnamed
    MaxEvents = 3
SPECIFICATION Spec
SYMMETRY Symmetric
CHECK_DEADLOCK FALSE
INVARIANTS
    StockMatchesNotes
    BooksMatchNotes
    StatusMatchesNotes
PROPERTIES
    SubmittedIsFrozen

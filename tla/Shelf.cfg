CONSTANTS
    p1 = p1
    p2 = p2
    b1 = b1
    n1 = n1
    Product = {p1, p2}
    Barcode = {b1}
    Name = {n1}
    Price = {1, 2}
    Lowest = 1
    Quantity <- MCQuantity
    Opening = 1
    Delta <- MCDelta
    CsvRow <- MCRow
    Req = {r1, r2}
    ListTTL = 1
    BarcodeTTL = 2
    MaxTime = 3
    MaxChanges = 2
    NULL = NULL
SPECIFICATION CatalogSpec
SYMMETRY Symmetry
INVARIANTS
    StockIsMovements
    ScansGrowOld
CHECK_DEADLOCK FALSE

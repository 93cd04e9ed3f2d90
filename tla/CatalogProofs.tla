---------------------------- MODULE CatalogProofs ----------------------------
(***************************************************************************)
(* What holds of the products of a shop (Catalog) and of the copies of its *)
(* tables in the cloud (TableSync), for any products, requests, batches,   *)
(* edits and faults.  First the shop: the stock of a product is the sum of *)
(* its movements, and a scan is answered with what the table said a short  *)
(* while ago.  Then the copies: what lies before the checkpoint has been   *)
(* brought to the cloud, and no customer goes back to an older edit.       *)
(***************************************************************************)
EXTENDS Catalog, TableSync, SumTheorems, SequenceTheorems, TLAPS

-----------------------------------------------------------------------------
(* The stock of a product is the sum of its movements.                       *)

Fields == {"price", "barcode", "stock"}
ProductRow == [price : Price, barcode : Codes, stock : Int]

\* Fields with values a product may have.
IsPatch(f) == /\ DOMAIN f \subseteq Fields
              /\ "price" \in DOMAIN f => f["price"] \in Price
              /\ "barcode" \in DOMAIN f => f["barcode"] \in Codes
              /\ "stock" \in DOMAIN f => f["stock"] \in Int

\* What a request knows of the products between its reading and its commit.
\* No product that exists goes away, so what was there when it read still is.
Knows(q) ==
    /\ q.op = "create" => /\ q.p \in Product /\ q.price \in Price /\ q.barcode \in Codes
                          /\ q.qty \in Quantity
    /\ q.op = "update" => q.p \in Product /\ Exists(q.p) /\ IsPatch(q.set)
    /\ q.op = "adjust" => q.p \in Product /\ Exists(q.p) /\ q.delta \in Int /\ q.seen \in Int
    /\ q.op \in {"import", "script"} =>
          /\ DOMAIN q.set \subseteq Product /\ q.new \subseteq DOMAIN q.set
          /\ \A p \in q.new : q.set[p] \in CsvRow
          /\ \A p \in DOMAIN q.set \ q.new :
                /\ Exists(p) /\ IsPatch(q.set[p])
                /\ q.op = "import" => "stock" \notin DOMAIN q.set[p]

ShelfInv ==
    /\ products \in [Product -> ProductRow \cup {NULL}] /\ Unique(products)
    /\ moved \in [Product -> [Kind -> Int]] /\ posted \in [Product -> Int]
    /\ DOMAIN req = Req /\ \A r \in Req : Knows(req[r])
    /\ StockIsMovements

LEMMA OverlayIsProduct ==
    ASSUME NEW old \in ProductRow, NEW f, IsPatch(f)
    PROVE  /\ Overlay(old, f) \in ProductRow
           /\ "stock" \notin DOMAIN f => Overlay(old, f).stock = old.stock
  BY DEF ProductRow, IsPatch, Fields, Overlay

LEMMA ChangedIsPatch ==
    ASSUME NEW seen, NEW f, IsPatch(f)
    PROVE  /\ IsPatch(Changed(seen, f)) /\ DOMAIN Changed(seen, f) \subseteq DOMAIN f
  BY DEF IsPatch, Changed

LEMMA IdleKnows == Knows(Idle)
  BY DEF Knows, Idle

\* A request that begins, or ends without having changed anything.
LEMMA RequestsTurn ==
    ASSUME ShelfInv, NEW r \in Req, NEW s, Become(r, s), Knows(s),
           UNCHANGED <<products, moved, posted, apart>>
    PROVE  ShelfInv'
<1>1. DOMAIN req' = Req /\ \A q \in Req : req'[q] = req[q] \/ req'[q] = s
  BY DEF ShelfInv, Become
<1>2. \A q \in Req : Knows(req'[q])
  BY <1>1 DEF ShelfInv
<1>3. (\A q \in Req : Knows(req[q]))'
  BY <1>2 DEF Knows, Exists
<1> QED
  BY <1>1, <1>3 DEF ShelfInv, StockIsMovements, Exists, Total

\* A request that commits: rows change, none goes away.
LEMMA ShelfCommits ==
    ASSUME ShelfInv, DOMAIN req' = Req, \A q \in Req : req'[q] = req[q] \/ req'[q] = Idle,
           products' \in [Product -> ProductRow \cup {NULL}], Unique(products'),
           \A p \in Product : Exists(p) => products'[p] # NULL,
           moved' \in [Product -> [Kind -> Int]], posted' \in [Product -> Int],
           StockIsMovements'
    PROVE  ShelfInv'
<1>1. ASSUME NEW q \in Req PROVE Knows(req[q])'
  <2>1. \A p \in Product : Exists(p) => Exists(p)'
    BY DEF Exists
  <2>2. Knows(req[q])
    BY DEF ShelfInv
  <2>3. CASE req'[q] = Idle
    BY <2>3 DEF Knows, Idle
  <2>4. CASE req'[q] = req[q]
    BY <2>1, <2>2, <2>4 DEF Knows
  <2> QED
    BY <2>3, <2>4
<1> QED
  BY <1>1 DEF ShelfInv, Unique

\* The stock of one product becomes n.
LEMMA StockSet ==
    ASSUME ShelfInv, NEW p \in Product, Exists(p), NEW n \in Int
    PROVE  /\ [products EXCEPT ![p].stock = n] \in [Product -> ProductRow \cup {NULL}]
           /\ Unique([products EXCEPT ![p].stock = n])
           /\ \A q \in Product : Exists(q) => [products EXCEPT ![p].stock = n][q] # NULL
           /\ [products EXCEPT ![p].stock = n][p].stock = n
           /\ \A q \in Product \ {p} : [products EXCEPT ![p].stock = n][q] = products[q]
<1> DEFINE b == [products[p] EXCEPT !.stock = n]
           t == [products EXCEPT ![p].stock = n]
<1>1. products[p] \in ProductRow
  BY DEF ShelfInv, Exists
<1>2. b \in ProductRow /\ b.barcode = products[p].barcode /\ b.stock = n
  BY <1>1 DEF ProductRow
<1>3. b # NULL
  BY <1>2, CatalogAssumption DEF ProductRow, Codes
<1>4. t = [products EXCEPT ![p] = b]
  OBVIOUS
<1> HIDE DEF b
<1>5. /\ t \in [Product -> ProductRow \cup {NULL}] /\ t[p] = b
      /\ \A q \in Product \ {p} : t[q] = products[q]
  BY <1>2, <1>4 DEF ShelfInv
<1> HIDE DEF t
<1>6. Unique(t)
  BY <1>2, <1>5 DEF ShelfInv, Unique, Exists
<1>7. \A q \in Product : Exists(q) => t[q] # NULL
  BY <1>3, <1>5 DEF Exists
<1>8. t[p].stock = n
  BY <1>2, <1>5
<1> QED
  BY <1>5, <1>6, <1>7, <1>8 DEF t

\* What a commit makes of the rows and the requests, whether the constraint
\* accepts the rows or not.
LEMMA CommitsRows ==
    ASSUME ShelfInv, NEW r \in Req, NEW t, NEW after, Commit(r, t, after),
           t \in [Product -> ProductRow \cup {NULL}],
           \A p \in Product : Exists(p) => t[p] # NULL
    PROVE  /\ DOMAIN req' = Req /\ \A q \in Req : req'[q] = req[q] \/ req'[q] = Idle
           /\ products' \in [Product -> ProductRow \cup {NULL}] /\ Unique(products')
           /\ \A p \in Product : Exists(p) => products'[p] # NULL
           /\ products' = IF Unique(t) THEN t ELSE products
  BY DEF ShelfInv, Commit, Become, Write, Exists

LEMMA QuantitiesAreNumbers == \A n \in Quantity : n \in Int /\ Floor(n) \in Nat
<1>1. Quantity \subseteq Int
  BY CatalogAssumption
<1> QED
  BY <1>1 DEF Floor

LEMMA CreateReadKeeps ==
    ASSUME ShelfInv, NEW r \in Req, NEW p \in Product, CreateRead(r, p)
    PROVE  ShelfInv'
<1>1. PICK price \in Price, code \in Codes, qty \in Quantity :
          Begin(r, [op |-> "create", p |-> p, price |-> price, barcode |-> code, qty |-> qty])
  BY DEF CreateRead
<1> DEFINE s == [op |-> "create", p |-> p, price |-> price, barcode |-> code, qty |-> qty]
<1>2. Knows(s)
  BY DEF Knows
<1> QED
  BY <1>1, <1>2, RequestsTurn DEF Begin, stock

LEMMA UpdateReadKeeps ==
    ASSUME ShelfInv, NEW r \in Req, NEW p \in Product, UpdateRead(r, p)
    PROVE  ShelfInv'
<1>1. PICK patch \in Patch :
          Begin(r, [op |-> "update", p |-> p, set |-> Changed(products[p], patch)])
  BY DEF UpdateRead
<1> DEFINE s == [op |-> "update", p |-> p, set |-> Changed(products[p], patch)]
<1>2. IsPatch(patch)
  BY CatalogAssumption DEF Patch, IsPatch, Fields
<1>3. IsPatch(Changed(products[p], patch))
  BY <1>2, ChangedIsPatch
<1>4. Knows(s)
  BY <1>3 DEF Knows, UpdateRead
<1> QED
  BY <1>1, <1>4, RequestsTurn DEF Begin, stock

LEMMA AdjustReadKeeps ==
    ASSUME ShelfInv, NEW r \in Req, NEW p \in Product, AdjustRead(r, p)
    PROVE  ShelfInv'
<1>1. PICK d \in Delta :
          Begin(r, [op |-> "adjust", p |-> p, delta |-> d, seen |-> products[p].stock])
  BY DEF AdjustRead
<1> DEFINE s == [op |-> "adjust", p |-> p, delta |-> d, seen |-> products[p].stock]
<1>2. products[p] \in ProductRow
  BY DEF AdjustRead, ShelfInv, Exists
<1>3. Knows(s)
  BY <1>2, CatalogAssumption DEF Knows, AdjustRead, ProductRow
<1> QED
  BY <1>1, <1>3, RequestsTurn DEF Begin, stock

LEMMA ImportingKnows ==
    ASSUME ShelfInv, NEW rows, NEW columns, NEW op \in {"import", "script"},
           DOMAIN rows \subseteq Product, \A p \in DOMAIN rows : rows[p] \in CsvRow,
           \A p \in DOMAIN rows :
               IsPatch(columns[p]) /\ (op = "import" => "stock" \notin DOMAIN columns[p])
    PROVE  Knows(Importing(op, rows, columns))
<1> DEFINE q == Importing(op, rows, columns)
<1>1. /\ q.op = op /\ q.new = {p \in DOMAIN rows : ~Exists(p)} /\ DOMAIN q.set = DOMAIN rows
      /\ \A p \in DOMAIN rows :
            q.set[p] = IF Exists(p) THEN Changed(products[p], columns[p]) ELSE rows[p]
  BY DEF Importing
<1>2. \A p \in q.new : q.set[p] \in CsvRow
  BY <1>1
<1>3. ASSUME NEW p \in DOMAIN q.set \ q.new
      PROVE  /\ Exists(p) /\ IsPatch(q.set[p])
             /\ op = "import" => "stock" \notin DOMAIN q.set[p]
  <2>1. Exists(p) /\ q.set[p] = Changed(products[p], columns[p]) /\ p \in DOMAIN rows
    BY <1>1, <1>3
  <2>2. /\ IsPatch(Changed(products[p], columns[p]))
        /\ DOMAIN Changed(products[p], columns[p]) \subseteq DOMAIN columns[p]
    BY <2>1, ChangedIsPatch
  <2> QED
    BY <2>1, <2>2
<1> HIDE DEF q
<1> QED
  BY <1>1, <1>2, <1>3 DEF Knows, q

LEMMA FilesTaken ==
    ASSUME NEW file \in File, NEW overwrite
    PROVE  /\ DOMAIN Taken(file, overwrite) \subseteq Product
           /\ \A p \in DOMAIN Taken(file, overwrite) : Taken(file, overwrite)[p] \in CsvRow
<1>1. PICK S \in SUBSET Product : file \in [S -> CsvRow]
  BY DEF File
<1> QED
  BY <1>1 DEF Taken

LEMMA ImportReadKeeps ==
    ASSUME ShelfInv, NEW r \in Req, ImportRead(r)
    PROVE  ShelfInv'
<1>1. PICK file \in File, overwrite \in BOOLEAN :
          LET rows == Taken(file, overwrite)
          IN  Begin(r, Importing("import", rows, [p \in DOMAIN rows |-> Edited(rows[p])]))
  BY DEF ImportRead
<1> DEFINE rows == Taken(file, overwrite)
           columns == [p \in DOMAIN rows |-> Edited(rows[p])]
<1>2. DOMAIN rows \subseteq Product /\ \A p \in DOMAIN rows : rows[p] \in CsvRow
  BY FilesTaken
<1> HIDE DEF rows
<1>3. ASSUME NEW p \in DOMAIN rows
      PROVE  IsPatch(columns[p]) /\ "stock" \notin DOMAIN columns[p]
  BY <1>2, CatalogAssumption DEF IsPatch, Edited, Fields, Codes
<1>4. Knows(Importing("import", rows, columns))
  BY <1>2, <1>3, ImportingKnows
<1> QED
  BY <1>1, <1>4, RequestsTurn DEF Begin, stock, rows

LEMMA ScriptReadKeeps ==
    ASSUME ShelfInv, NEW r \in Req, ScriptRead(r)
    PROVE  ShelfInv'
<1>1. PICK file \in File, overwrite \in BOOLEAN :
          LET rows == Taken(file, overwrite)
          IN  Begin(r, Importing("script", rows, [p \in DOMAIN rows |-> Columns(rows[p])]))
  BY DEF ScriptRead
<1> DEFINE rows == Taken(file, overwrite)
           columns == [p \in DOMAIN rows |-> Columns(rows[p])]
<1>2. DOMAIN rows \subseteq Product /\ \A p \in DOMAIN rows : rows[p] \in CsvRow
  BY FilesTaken
<1> HIDE DEF rows
<1>3. ASSUME NEW p \in DOMAIN rows
      PROVE  IsPatch(columns[p])
  <2>1. /\ rows[p].price \in Price /\ rows[p].barcode \in Codes /\ rows[p].stock \in Quantity
        /\ columns[p] = Columns(rows[p])
    BY <1>2, CatalogAssumption DEF Codes
  <2>2. rows[p].stock \in Int
    BY <2>1, QuantitiesAreNumbers
  <2> HIDE DEF columns
  <2> QED
    BY <2>1, <2>2 DEF IsPatch, Columns, Fields
<1>4. Knows(Importing("script", rows, columns))
  BY <1>2, <1>3, ImportingKnows
<1> QED
  BY <1>1, <1>4, RequestsTurn DEF Begin, stock, rows

LEMMA CreateCommitKeeps ==
    ASSUME ShelfInv, NEW r \in Req, CreateCommit(r)
    PROVE  ShelfInv'
<1> DEFINE q == req[r]
           new == [price |-> q.price, barcode |-> q.barcode, stock |-> CreatedStock(q.qty)]
           t == [products EXCEPT ![q.p] = new]
<1>1. /\ q.p \in Product /\ q.price \in Price /\ q.barcode \in Codes /\ q.qty \in Quantity
  BY DEF CreateCommit, ShelfInv, Knows
<1> DEFINE n == Floor(q.qty)
<1>4. n \in Int
  BY <1>1, QuantitiesAreNumbers
<1>2. CASE Exists(q.p)
  <2>1. Become(r, Idle) /\ UNCHANGED <<products, moved, posted, apart>>
    BY <1>2 DEF CreateCommit, stock
  <2> QED
    BY <2>1, RequestsTurn, IdleKnows
<1>3. CASE ~Exists(q.p)
  <2>1. /\ Commit(r, t, Invalidated)
        /\ IF Unique(t) THEN Move(q.p, "purchase", n) ELSE UNCHANGED moved
        /\ UNCHANGED <<posted, apart>>
    BY <1>3 DEF CreateCommit
  <2>2. new \in ProductRow /\ new.stock = n
    <3>1. q.qty \in Int
      BY <1>1, QuantitiesAreNumbers
    <3>2. CreatedStock(q.qty) = n
      BY <3>1 DEF CreatedStock
    <3> QED
      BY <1>1, <1>4, <3>2 DEF ProductRow
  <2>3. new # NULL
    BY <2>2, CatalogAssumption DEF ProductRow, Codes
  <2> HIDE DEF new, n, q
  <2>4. /\ t \in [Product -> ProductRow \cup {NULL}] /\ t[q.p] = new
        /\ \A p \in Product \ {q.p} : t[p] = products[p]
    BY <1>1, <2>2 DEF ShelfInv
  <2>5. \A p \in Product : Exists(p) => t[p] # NULL
    BY <2>3, <2>4 DEF Exists
  <2> HIDE DEF t
  <2>6. /\ DOMAIN req' = Req /\ \A d \in Req : req'[d] = req[d] \/ req'[d] = Idle
        /\ products' \in [Product -> ProductRow \cup {NULL}] /\ Unique(products')
        /\ \A p \in Product : Exists(p) => products'[p] # NULL
        /\ products' = IF Unique(t) THEN t ELSE products
    BY <2>1, <2>4, <2>5, CommitsRows
  <2>7. CASE ~Unique(t)
    <3>1. UNCHANGED <<products, moved, posted, apart>>
      BY <2>1, <2>6, <2>7
    <3>2. StockIsMovements'
      BY <3>1 DEF ShelfInv, StockIsMovements, Exists, Total
    <3> QED
      BY <2>6, <3>1, <3>2, ShelfCommits DEF ShelfInv
  <2>8. CASE Unique(t)
    <3>1. products' = t /\ moved' = [moved EXCEPT ![q.p]["purchase"] = @ + n]
      BY <2>1, <2>6, <2>8 DEF Move
    <3>2. /\ moved' \in [Product -> [Kind -> Int]]
          /\ moved'[q.p]["purchase"] = moved[q.p]["purchase"] + n
          /\ moved'[q.p]["sale"] = moved[q.p]["sale"]
          /\ moved'[q.p]["adjustment"] = moved[q.p]["adjustment"]
          /\ \A p \in Product \ {q.p} : moved'[p] = moved[p]
      BY <1>1, <1>4, <3>1 DEF ShelfInv, Kind
    <3>3. ASSUME NEW p \in Product
          PROVE  /\ products'[p] # NULL /\ p \notin apart => products'[p].stock = Total(p)'
                 /\ products'[p] = NULL => Total(p)' = 0
                 /\ posted[p] = moved'[p]["adjustment"]
      <4>1. CASE p = q.p
        <5>1. Total(p) = 0 /\ posted[p] = moved[p]["adjustment"]
          BY <1>3, <4>1, <3>3 DEF ShelfInv, StockIsMovements
        <5>2. moved[p] \in [Kind -> Int]
          BY DEF ShelfInv
        <5>3. Total(p)' = n
          BY <5>1, <5>2, <3>2, <4>1, <1>4 DEF Total, Kind
        <5> QED
          BY <5>1, <5>3, <3>1, <3>2, <4>1, <2>2, <2>3, <2>4
      <4>2. CASE p # q.p
        BY <4>2, <3>1, <3>2, <2>4 DEF ShelfInv, StockIsMovements, Exists, Total
      <4> QED
        BY <4>1, <4>2
    <3>4. StockIsMovements'
      BY <2>1, <3>3 DEF StockIsMovements, Exists
    <3> QED
      BY <2>1, <2>6, <3>2, <3>4, ShelfCommits DEF ShelfInv
  <2> QED
    BY <2>7, <2>8
<1> QED
  BY <1>2, <1>3

LEMMA UpdateCommitKeeps ==
    ASSUME ShelfInv, NEW r \in Req, UpdateCommit(r)
    PROVE  ShelfInv'
<1> DEFINE q == req[r]
           new == Overlay(products[q.p], q.set)
           t == [products EXCEPT ![q.p] = new]
<1>1. q.p \in Product /\ Exists(q.p) /\ IsPatch(q.set)
  BY DEF UpdateCommit, ShelfInv, Knows
<1>2. products[q.p] \in ProductRow
  BY <1>1 DEF ShelfInv, Exists
<1>3. new \in ProductRow /\ ("stock" \notin DOMAIN q.set => new.stock = products[q.p].stock)
  BY <1>1, <1>2, OverlayIsProduct
<1>4. new # NULL
  BY <1>3, CatalogAssumption DEF ProductRow, Codes
<1>5. /\ Commit(r, t, Invalidated) /\ UNCHANGED <<moved, posted>>
      /\ apart' = IF "stock" \in DOMAIN q.set THEN apart \cup {q.p} ELSE apart
  BY DEF UpdateCommit
<1> HIDE DEF new, q
<1>6. /\ t \in [Product -> ProductRow \cup {NULL}] /\ t[q.p] = new
      /\ \A p \in Product \ {q.p} : t[p] = products[p]
  BY <1>1, <1>3 DEF ShelfInv
<1>7. \A p \in Product : Exists(p) => t[p] # NULL
  BY <1>4, <1>6 DEF Exists
<1> HIDE DEF t
<1>8. /\ DOMAIN req' = Req /\ \A d \in Req : req'[d] = req[d] \/ req'[d] = Idle
      /\ products' \in [Product -> ProductRow \cup {NULL}] /\ Unique(products')
      /\ \A p \in Product : Exists(p) => products'[p] # NULL
      /\ products' = IF Unique(t) THEN t ELSE products
  BY <1>5, <1>6, <1>7, CommitsRows
<1>9. ASSUME NEW p \in Product
      PROVE  /\ products'[p] # NULL /\ p \notin apart' => products'[p].stock = Total(p)
             /\ products'[p] = NULL => Total(p) = 0
             /\ posted[p] = moved[p]["adjustment"]
  <2>1. /\ Exists(p) /\ p \notin apart => products[p].stock = Total(p)
        /\ ~Exists(p) => Total(p) = 0
        /\ posted[p] = moved[p]["adjustment"]
    BY <1>9 DEF ShelfInv, StockIsMovements
  <2>2. CASE products'[p] = products[p]
    BY <1>5, <2>1, <2>2 DEF Exists
  <2>3. CASE products'[p] # products[p]
    <3>1. p = q.p /\ products'[p] = new
      BY <1>8, <1>6, <2>3
    <3> QED
      BY <1>1, <1>3, <1>4, <1>5, <2>1, <3>1
  <2> QED
    BY <2>2, <2>3
<1>10. StockIsMovements'
  BY <1>5, <1>9 DEF StockIsMovements, Exists, Total
<1> QED
  BY <1>5, <1>8, <1>10, ShelfCommits DEF ShelfInv

LEMMA AdjustCommitKeeps ==
    ASSUME ShelfInv, NEW r \in Req, AdjustCommit(r)
    PROVE  ShelfInv'
<1> DEFINE q == req[r]
           after == Floor(q.seen + q.delta)
           left == IF after = q.seen THEN products[q.p].stock ELSE after
           t == [products EXCEPT ![q.p].stock = left]
<1>1. q.p \in Product /\ Exists(q.p) /\ q.delta \in Int /\ q.seen \in Int
  BY DEF AdjustCommit, ShelfInv, Knows
<1>2. products[q.p].stock \in Int
  BY <1>1 DEF ShelfInv, Exists, ProductRow
<1>3. left \in Int
  BY <1>1, <1>2 DEF Floor
<1>4. /\ Commit(r, t, Invalidated) /\ Move(q.p, "adjustment", q.delta)
      /\ posted' = InventoryEntry(q.p, q.delta)
      /\ apart' = IF left = products[q.p].stock + q.delta THEN apart ELSE apart \cup {q.p}
  BY DEF AdjustCommit
<1> HIDE DEF left, q
<1>5. /\ t \in [Product -> ProductRow \cup {NULL}] /\ Unique(t)
      /\ \A p \in Product : Exists(p) => t[p] # NULL
      /\ t[q.p].stock = left
      /\ \A p \in Product \ {q.p} : t[p] = products[p]
  BY <1>1, <1>3, StockSet
<1> HIDE DEF t
<1>6. /\ DOMAIN req' = Req /\ \A d \in Req : req'[d] = req[d] \/ req'[d] = Idle
      /\ products' \in [Product -> ProductRow \cup {NULL}] /\ Unique(products')
      /\ \A p \in Product : Exists(p) => products'[p] # NULL
      /\ products' = t
  BY <1>4, <1>5, CommitsRows
<1>7. /\ moved' \in [Product -> [Kind -> Int]]
      /\ moved'[q.p]["purchase"] = moved[q.p]["purchase"]
      /\ moved'[q.p]["sale"] = moved[q.p]["sale"]
      /\ moved'[q.p]["adjustment"] = moved[q.p]["adjustment"] + q.delta
      /\ \A p \in Product \ {q.p} : moved'[p] = moved[p]
  BY <1>1, <1>4 DEF ShelfInv, Kind, Move
<1>8. /\ posted' \in [Product -> Int] /\ posted'[q.p] = posted[q.p] + q.delta
      /\ \A p \in Product \ {q.p} : posted'[p] = posted[p]
  BY <1>1, <1>4 DEF ShelfInv, InventoryEntry
<1>9. ASSUME NEW p \in Product
      PROVE  /\ products'[p] # NULL /\ p \notin apart' => products'[p].stock = Total(p)'
             /\ products'[p] = NULL => Total(p)' = 0
             /\ posted'[p] = moved'[p]["adjustment"]
  <2>1. /\ Exists(p) /\ p \notin apart => products[p].stock = Total(p)
        /\ ~Exists(p) => Total(p) = 0
        /\ posted[p] = moved[p]["adjustment"]
    BY <1>9 DEF ShelfInv, StockIsMovements
  <2>2. moved[p] \in [Kind -> Int]
    BY DEF ShelfInv
  <2>3. CASE p = q.p
    <3>1. Total(p)' = Total(p) + q.delta
      BY <1>1, <1>7, <2>2, <2>3 DEF Total, Kind
    <3> QED
      BY <1>1, <1>4, <1>5, <1>6, <1>7, <1>8, <2>1, <2>3, <3>1
  <2>4. CASE p # q.p
    <3>1. products'[p] = products[p] /\ Total(p)' = Total(p)
      BY <1>5, <1>6, <1>7, <2>4 DEF Total
    <3> QED
      BY <1>4, <1>7, <1>8, <2>1, <2>4, <3>1 DEF Exists
  <2> QED
    BY <2>3, <2>4
<1>10. StockIsMovements'
  BY <1>9 DEF StockIsMovements, Exists
<1> QED
  BY <1>6, <1>7, <1>8, <1>10, ShelfCommits

\* The rows an import writes.
LEMMA ImportedRows ==
    ASSUME ShelfInv, NEW q, Knows(q), q.op \in {"import", "script"}
    PROVE  /\ Imported(q) \in [Product -> ProductRow \cup {NULL}]
           /\ \A p \in Product : Exists(p) => Imported(q)[p] # NULL
           /\ \A p \in q.new : /\ p \in Product /\ q.set[p].stock \in Int
                               /\ Imported(q)[p].stock = q.set[p].stock /\ Imported(q)[p] # NULL
           /\ \A p \in DOMAIN q.set \ q.new :
                 /\ p \in Product /\ Exists(p) /\ Imported(q)[p] # NULL
                 /\ "stock" \notin DOMAIN q.set[p] => Imported(q)[p].stock = products[p].stock
           /\ \A p \in Product \ DOMAIN q.set : Imported(q)[p] = products[p]
<1> DEFINE t == Imported(q)
<1>1. /\ DOMAIN q.set \subseteq Product /\ q.new \subseteq DOMAIN q.set
      /\ \A p \in q.new : q.set[p] \in CsvRow
      /\ \A p \in DOMAIN q.set \ q.new : Exists(p) /\ IsPatch(q.set[p])
  BY DEF Knows
<1>2. /\ DOMAIN t = Product /\ t = [p \in Product |-> t[p]]
      /\ \A p \in q.new : t[p] = Columns(q.set[p])
      /\ \A p \in DOMAIN q.set \ q.new : t[p] = Overlay(products[p], q.set[p])
      /\ \A p \in Product \ DOMAIN q.set : t[p] = products[p]
  BY <1>1 DEF Imported
<1> HIDE DEF t
<1>3. ASSUME NEW p \in q.new
      PROVE  t[p] \in ProductRow /\ t[p].stock = q.set[p].stock /\ q.set[p].stock \in Int
  <2>1. q.set[p] \in CsvRow
    BY <1>1
  <2>2. /\ q.set[p].price \in Price /\ q.set[p].barcode \in Codes
        /\ q.set[p].stock \in Quantity
    BY <2>1, CatalogAssumption DEF Codes
  <2>3. q.set[p].stock \in Int
    BY <2>2, QuantitiesAreNumbers
  <2>4. PICK line : line = q.set[p]
    OBVIOUS
  <2>5. t[p] = Columns(line)
    BY <1>2, <2>4
  <2>6. Columns(line) \in ProductRow /\ Columns(line).stock = line.stock
    BY <2>2, <2>3, <2>4 DEF Columns, ProductRow
  <2> QED
    BY <2>3, <2>4, <2>5, <2>6
<1>4. ASSUME NEW p \in DOMAIN q.set \ q.new
      PROVE  /\ t[p] \in ProductRow /\ Exists(p) /\ p \in Product
             /\ "stock" \notin DOMAIN q.set[p] => t[p].stock = products[p].stock
  <2>1. products[p] \in ProductRow /\ IsPatch(q.set[p])
    BY <1>1 DEF ShelfInv, Exists
  <2>2. PICK f : f = q.set[p]
    OBVIOUS
  <2>3. /\ Overlay(products[p], f) \in ProductRow
        /\ "stock" \notin DOMAIN f => Overlay(products[p], f).stock = products[p].stock
    BY <2>1, <2>2, OverlayIsProduct
  <2>4. t[p] = Overlay(products[p], f)
    BY <1>2, <2>2
  <2> QED
    BY <1>1, <2>2, <2>3, <2>4
<1>5. NULL \notin ProductRow
  BY CatalogAssumption DEF ProductRow, Codes
<1>6. \A p \in Product : t[p] \in ProductRow \cup {NULL}
  BY <1>2, <1>3, <1>4 DEF ShelfInv
<1> QED
  BY <1>1, <1>2, <1>3, <1>4, <1>5, <1>6 DEF t, Exists

LEMMA ImportCommitKeeps ==
    ASSUME ShelfInv, NEW r \in Req, ImportCommit(r)
    PROVE  ShelfInv'
<1> DEFINE q == req[r]
<1>1. Knows(q) /\ q.op = "import"
  BY DEF ImportCommit, ShelfInv
<1>2. CASE ImportFails(q)
  <2>1. Become(r, Idle) /\ UNCHANGED <<products, moved, posted, apart>>
    BY <1>2 DEF ImportCommit, stock
  <2> QED
    BY <2>1, RequestsTurn, IdleKnows
<1>3. CASE ~ImportFails(q)
  <2>1. /\ Commit(r, Imported(q), Invalidated) /\ UNCHANGED <<moved, posted>>
        /\ apart' = IF Unique(Imported(q)) THEN apart \cup Restocked(q) ELSE apart
    BY <1>3 DEF ImportCommit
  <2> HIDE DEF q
  <2>2. \A p \in q.new : ~Exists(p) /\ ~(q.set[p].stock > 0)
    BY <1>3 DEF ImportFails
  <2>3. \A p \in DOMAIN q.set \ q.new : "stock" \notin DOMAIN q.set[p]
    BY <1>1 DEF Knows
  <2> DEFINE t == Imported(q)
  <2>4. /\ t \in [Product -> ProductRow \cup {NULL}]
        /\ \A p \in Product : Exists(p) => t[p] # NULL
        /\ \A p \in q.new : /\ p \in Product /\ q.set[p].stock \in Int
                            /\ t[p].stock = q.set[p].stock /\ t[p] # NULL
        /\ \A p \in DOMAIN q.set \ q.new :
              p \in Product /\ Exists(p) /\ t[p] # NULL /\ t[p].stock = products[p].stock
        /\ \A p \in Product \ DOMAIN q.set : t[p] = products[p]
    BY <1>1, <2>3, ImportedRows
  <2> HIDE DEF t
  <2>5. /\ DOMAIN req' = Req /\ \A d \in Req : req'[d] = req[d] \/ req'[d] = Idle
        /\ products' \in [Product -> ProductRow \cup {NULL}] /\ Unique(products')
        /\ \A p \in Product : Exists(p) => products'[p] # NULL
        /\ products' = IF Unique(t) THEN t ELSE products
    BY <2>1, <2>4, CommitsRows DEF t
  <2>6. ASSUME NEW p \in Product
        PROVE  /\ products'[p] # NULL /\ p \notin apart' => products'[p].stock = Total(p)
               /\ products'[p] = NULL => Total(p) = 0
               /\ posted[p] = moved[p]["adjustment"]
    <3>1. /\ Exists(p) /\ p \notin apart => products[p].stock = Total(p)
          /\ ~Exists(p) => Total(p) = 0
          /\ posted[p] = moved[p]["adjustment"]
      BY <2>6 DEF ShelfInv, StockIsMovements
    <3>2. apart \subseteq apart' /\ (Unique(t) => Restocked(q) \subseteq apart')
      BY <2>1 DEF t
    <3>3. CASE products'[p] = products[p]
      BY <3>1, <3>2, <3>3 DEF Exists
    <3>4. CASE Unique(t) /\ products'[p] = t[p] /\ p \in q.new
      <4>1. q.set[p].stock # 0 => p \in apart'
        BY <3>2, <3>4 DEF Restocked
      <4> QED
        BY <2>2, <2>4, <3>1, <3>4, <4>1
    <3>5. CASE products'[p] = t[p] /\ p \in DOMAIN q.set \ q.new
      BY <2>4, <3>1, <3>2, <3>5
    <3> QED
      BY <2>4, <2>5, <3>3, <3>4, <3>5
  <2>7. StockIsMovements'
    BY <2>1, <2>6 DEF StockIsMovements, Exists, Total
  <2> QED
    BY <2>1, <2>5, <2>7, ShelfCommits DEF ShelfInv
<1> QED
  BY <1>2, <1>3

LEMMA ScriptCommitKeeps ==
    ASSUME ShelfInv, NEW r \in Req, ScriptCommit(r)
    PROVE  ShelfInv'
<1> DEFINE q == req[r]
<1>1. Knows(q) /\ q.op = "script"
  BY DEF ScriptCommit, ShelfInv
<1>2. CASE \E p \in q.new : Exists(p)
  <2>1. Become(r, Idle) /\ UNCHANGED <<products, moved, posted, apart>>
    BY <1>2 DEF ScriptCommit, stock
  <2> QED
    BY <2>1, RequestsTurn, IdleKnows
<1>3. CASE \A p \in q.new : ~Exists(p)
  <2>1. /\ Commit(r, Imported(q), {list}) /\ UNCHANGED <<moved, posted>>
        /\ apart' = IF Unique(Imported(q)) THEN apart \cup Restocked(q) ELSE apart
    BY <1>3 DEF ScriptCommit
  <2> HIDE DEF q
  <2> DEFINE t == Imported(q)
  <2>4. /\ t \in [Product -> ProductRow \cup {NULL}]
        /\ \A p \in Product : Exists(p) => t[p] # NULL
        /\ \A p \in q.new : /\ p \in Product /\ q.set[p].stock \in Int
                            /\ t[p].stock = q.set[p].stock /\ t[p] # NULL
        /\ \A p \in DOMAIN q.set \ q.new :
              /\ p \in Product /\ Exists(p) /\ t[p] # NULL
              /\ "stock" \notin DOMAIN q.set[p] => t[p].stock = products[p].stock
        /\ \A p \in Product \ DOMAIN q.set : t[p] = products[p]
    BY <1>1, ImportedRows
  <2> HIDE DEF t
  <2>5. /\ DOMAIN req' = Req /\ \A d \in Req : req'[d] = req[d] \/ req'[d] = Idle
        /\ products' \in [Product -> ProductRow \cup {NULL}] /\ Unique(products')
        /\ \A p \in Product : Exists(p) => products'[p] # NULL
        /\ products' = IF Unique(t) THEN t ELSE products
    BY <2>1, <2>4, CommitsRows DEF t
  <2>6. ASSUME NEW p \in Product
        PROVE  /\ products'[p] # NULL /\ p \notin apart' => products'[p].stock = Total(p)
               /\ products'[p] = NULL => Total(p) = 0
               /\ posted[p] = moved[p]["adjustment"]
    <3>1. /\ Exists(p) /\ p \notin apart => products[p].stock = Total(p)
          /\ ~Exists(p) => Total(p) = 0
          /\ posted[p] = moved[p]["adjustment"]
      BY <2>6 DEF ShelfInv, StockIsMovements
    <3>2. apart \subseteq apart'
      BY <2>1
    <3>3. CASE products'[p] = products[p]
      BY <3>1, <3>2, <3>3 DEF Exists
    <3>4. CASE products'[p] # products[p] /\ p \in q.new
      <4>1. products'[p] = t[p] /\ (q.set[p].stock # 0 => p \in apart')
        BY <2>1, <2>5, <3>4 DEF Restocked, t
      <4> QED
        BY <1>3, <2>4, <3>1, <3>4, <4>1
    <3>5. CASE products'[p] # products[p] /\ p \in DOMAIN q.set \ q.new
      <4>1. products'[p] = t[p] /\ ("stock" \in DOMAIN q.set[p] => p \in apart')
        BY <2>1, <2>5, <3>5 DEF Restocked, t
      <4> QED
        BY <2>4, <3>1, <3>2, <3>5, <4>1
    <3> QED
      BY <2>4, <2>5, <3>3, <3>4, <3>5
  <2>7. StockIsMovements'
    BY <2>1, <2>6 DEF StockIsMovements, Exists, Total
  <2> QED
    BY <2>1, <2>5, <2>7, ShelfCommits DEF ShelfInv
<1> QED
  BY <1>2, <1>3

LEMMA SellKeeps ==
    ASSUME ShelfInv, NEW p \in Product, Sell(p)
    PROVE  ShelfInv'
<1> DEFINE left == products[p].stock - 1
           t == [products EXCEPT ![p].stock = left]
<1>1. products[p].stock \in Int /\ Exists(p)
  BY DEF ShelfInv, Exists, ProductRow, Sell
<1>2. left \in Int
  BY <1>1
<1>3. products' = t /\ Move(p, "sale", -1) /\ UNCHANGED <<posted, apart, req>>
  BY DEF Sell, Write
<1>4. left = products[p].stock - 1
  OBVIOUS
<1> HIDE DEF left
<1>5. /\ t \in [Product -> ProductRow \cup {NULL}] /\ Unique(t)
      /\ \A q \in Product : Exists(q) => t[q] # NULL
      /\ t[p].stock = left
      /\ \A q \in Product \ {p} : t[q] = products[q]
  BY <1>1, <1>2, StockSet
<1> HIDE DEF t
<1>6. /\ moved' \in [Product -> [Kind -> Int]]
      /\ moved'[p]["purchase"] = moved[p]["purchase"]
      /\ moved'[p]["sale"] = moved[p]["sale"] - 1
      /\ moved'[p]["adjustment"] = moved[p]["adjustment"]
      /\ \A q \in Product \ {p} : moved'[q] = moved[q]
  BY <1>3 DEF ShelfInv, Kind, Move
<1>7. ASSUME NEW q \in Product
      PROVE  /\ products'[q] # NULL /\ q \notin apart => products'[q].stock = Total(q)'
             /\ products'[q] = NULL => Total(q)' = 0
             /\ posted[q] = moved'[q]["adjustment"]
  <2>1. /\ Exists(q) /\ q \notin apart => products[q].stock = Total(q)
        /\ ~Exists(q) => Total(q) = 0
        /\ posted[q] = moved[q]["adjustment"]
    BY <1>7 DEF ShelfInv, StockIsMovements
  <2>2. moved[q] \in [Kind -> Int]
    BY DEF ShelfInv
  <2>3. CASE q = p
    <3>1. Total(q)' = Total(q) - 1
      BY <1>6, <2>2, <2>3 DEF Total, Kind
    <3>2. Total(q) \in Int
      BY <2>2 DEF Total, Kind
    <3> QED
      BY <1>1, <1>3, <1>4, <1>5, <1>6, <2>1, <2>3, <3>1, <3>2
  <2>4. CASE q # p
    <3>1. products'[q] = products[q] /\ Total(q)' = Total(q)
      BY <1>3, <1>5, <1>6, <2>4 DEF Total
    <3> QED
      BY <1>6, <2>1, <2>4, <3>1 DEF Exists
  <2> QED
    BY <2>3, <2>4
<1>8. StockIsMovements'
  BY <1>3, <1>7 DEF StockIsMovements, Exists
<1> QED
  BY <1>3, <1>5, <1>6, <1>8, ShelfCommits DEF ShelfInv

\* Scans, lists, names and time leave products and movements alone.
LEMMA OthersKeep ==
    ASSUME ShelfInv, UNCHANGED <<products, moved, posted, apart, req>>
    PROVE  ShelfInv'
<1>1. (\A r \in Req : Knows(req[r]))'
  BY DEF ShelfInv, Knows, Exists
<1> QED
  BY <1>1 DEF ShelfInv, StockIsMovements, Exists, Total, Unique

LEMMA ScansKeep ==
    ASSUME ShelfInv, NEW r \in Req,
           ScanStore(r) \/ \E b \in Barcode : ScanHit(r, b) \/ ScanMiss(r, b)
    PROVE  ShelfInv'
<1>1. CASE ScanStore(r)
  BY <1>1, RequestsTurn, IdleKnows DEF ScanStore, stock
<1>2. ASSUME NEW b \in Barcode, ScanHit(r, b) PROVE ShelfInv'
  BY <1>2, OthersKeep DEF ScanHit, stock
<1>3. ASSUME NEW b \in Barcode, ScanMiss(r, b) PROVE ShelfInv'
  <2>1. PICK a \in Truth(b) : Become(r, [op |-> "scan", b |-> b, answer |-> a])
    BY <1>3 DEF ScanMiss
  <2>2. Knows([op |-> "scan", b |-> b, answer |-> a])
    BY DEF Knows
  <2> QED
    BY <1>3, <2>1, <2>2, RequestsTurn DEF ScanMiss, stock
<1> QED
  BY <1>1, <1>2, <1>3

LEMMA ShelfStarts == CatalogInit => ShelfInv
<1> SUFFICES ASSUME CatalogInit PROVE ShelfInv
  OBVIOUS
<1>1. Opening \in Nat /\ Opening \in Int /\ Lowest \in Price
  BY CatalogAssumption, QuantitiesAreNumbers
<1>2. products \in [Product -> [price : {Lowest}, barcode : Codes, stock : {Opening}] \cup {NULL}]
  BY DEF CatalogInit
<1>3. \A p \in Product : products[p] \in ProductRow \cup {NULL} /\ (Exists(p) => products[p].stock = Opening)
  BY <1>1, <1>2 DEF ProductRow, Exists
<1>4. products \in [Product -> ProductRow \cup {NULL}]
  BY <1>2, <1>3
<1>5. ASSUME NEW p \in Product
      PROVE  /\ moved[p] \in [Kind -> Int] /\ moved[p]["adjustment"] = 0
             /\ Total(p) = IF Exists(p) THEN Opening ELSE 0
  BY <1>1, <1>3 DEF CatalogInit, Kind, Total
<1>6. moved \in [Product -> [Kind -> Int]] /\ posted = [p \in Product |-> 0]
  BY <1>5 DEF CatalogInit
<1>7. StockIsMovements
  BY <1>3, <1>5, <1>6 DEF StockIsMovements
<1>8. Unique(products) /\ DOMAIN req = Req /\ \A r \in Req : req[r] = Idle
  BY DEF CatalogInit
<1> QED
  BY <1>4, <1>6, <1>7, <1>8, IdleKnows DEF ShelfInv

LEMMA ShelfStays == ShelfInv /\ [CatalogNext]_catalogVars => ShelfInv'
<1> SUFFICES ASSUME ShelfInv, [CatalogNext]_catalogVars PROVE ShelfInv'
  OBVIOUS
<1>1. ASSUME NEW n \in Name, CreateName(n) PROVE ShelfInv'
  BY <1>1, OthersKeep DEF CreateName, stock
<1>2. ASSUME NEW p \in Product, Sell(p) PROVE ShelfInv'
  BY <1>2, SellKeeps
<1>3. ASSUME NEW r \in Req, NEW p \in Product, CreateRead(r, p) \/ UpdateRead(r, p) \/ AdjustRead(r, p)
      PROVE  ShelfInv'
  BY <1>3, CreateReadKeeps, UpdateReadKeeps, AdjustReadKeeps
<1>4. ASSUME NEW r \in Req, CreateCommit(r) \/ UpdateCommit(r) \/ AdjustCommit(r)
      PROVE  ShelfInv'
  BY <1>4, CreateCommitKeeps, UpdateCommitKeeps, AdjustCommitKeeps
<1>5. ASSUME NEW r \in Req, ImportRead(r) \/ ImportCommit(r) \/ ScriptRead(r) \/ ScriptCommit(r)
      PROVE  ShelfInv'
  BY <1>5, ImportReadKeeps, ImportCommitKeeps, ScriptReadKeeps, ScriptCommitKeeps
<1>6. ASSUME NEW r \in Req, ScanStore(r) \/ \E b \in Barcode : ScanHit(r, b) \/ ScanMiss(r, b)
      PROVE  ShelfInv'
  BY <1>6, ScansKeep
<1>7. ASSUME List \/ TimePasses \/ UNCHANGED catalogVars PROVE ShelfInv'
  BY <1>7, OthersKeep DEF List, TimePasses, catalogVars, stock
<1> QED
  BY <1>1, <1>2, <1>3, <1>4, <1>5, <1>6, <1>7 DEF CatalogNext

LEMMA ShelfHolds == CatalogSpec => []ShelfInv
  BY ShelfStarts, ShelfStays, PTL DEF CatalogSpec

(* The stock of a product is the sum of its movements, and the inventory     *)
(* account has every adjustment, in every interleaving of creations, updates,*)
(* adjustments, sales and imports, but for the products named in apart       *)
(* (routers/products.py, scripts/import_products_csv.py).                    *)
THEOREM ProductsAgree == CatalogSpec => []StockIsMovements
<1>1. ShelfInv => StockIsMovements
  BY DEF ShelfInv
<1> QED
  BY <1>1, ShelfHolds, PTL

-----------------------------------------------------------------------------
(* A scan shows what the table said at most BARCODE_LOOKUP_TTL ago.          *)

\* Answer a about barcode b is what the table says, or was since this time.
Fresh(b, a, since) ==
    /\ b \in Barcode /\ a \in Answer
    /\ a \in Truth(b) \/ (lastTrue[b][a] \in Nat /\ lastTrue[b][a] >= since)

\* When request r read what it knows, at the latest.
ReadAt(r) == IF r \in late THEN now - 1 ELSE now

ScanKnows(r) == req[r].op = "scan" => Fresh(req[r].b, req[r].answer, ReadAt(r))

CacheKnows(b) ==
    scans[b] # NULL =>
        /\ scans[b].until \in Nat /\ now < scans[b].until /\ scans[b].until <= now + BarcodeTTL
        /\ Fresh(b, scans[b].answer, scans[b].until - BarcodeTTL - 1)

ScanInv ==
    /\ now \in Nat /\ late \subseteq Req
    /\ lastTrue \in [Barcode -> [Answer -> Int]]
    /\ \A r \in Req : ScanKnows(r)
    /\ scans = [b \in Barcode |-> scans[b]] /\ \A b \in Barcode : CacheKnows(b)
    /\ oldest \in Int /\ oldest <= BarcodeTTL

\* Rows are written while an answer is held.
LEMMA WritesKeepFresh ==
    ASSUME ScanInv, NEW t, Write(t), NEW b, NEW a \in Held(b), NEW since \in Int, since <= now,
           Fresh(b, a, since)
    PROVE  Fresh(b, a, since)'
<1>1. b \in Barcode /\ a \in Answer
  BY DEF Fresh
<1>2. lastTrue'[b][a] = IF a \in Truth(b) THEN now ELSE lastTrue[b][a]
  BY <1>1 DEF Write
<1>3. lastTrue'[b][a] \in Nat /\ lastTrue'[b][a] >= since
  BY <1>2 DEF Fresh, ScanInv
<1> QED
  BY <1>1, <1>3 DEF Fresh

LEMMA BarcodesLast == BarcodeTTL \in Nat /\ BarcodeTTL >= 1
  BY CatalogAssumption

LEMMA AnswersAreHeld ==
    ASSUME ScanInv
    PROVE  /\ \A b \in Barcode : scans[b] # NULL => scans[b].answer \in Held(b)
           /\ \A r \in Req : req[r].op = "scan" => req[r].answer \in Held(req[r].b)
  BY DEF Held

\* A step that reads or writes rows and leaves cache, clock and scans alone.
LEMMA CacheRests ==
    ASSUME ScanInv, UNCHANGED <<scans, now, oldest>>, late' \subseteq Req,
           UNCHANGED <<products, lastTrue>> \/ \E t : Write(t),
           \A r \in Req : \/ req'[r].op # "scan"
                          \/ req'[r] = req[r] /\ (r \in late' <=> r \in late)
    PROVE  ScanInv'
<1>1. lastTrue' \in [Barcode -> [Answer -> Int]]
  BY DEF ScanInv, Write
<1>2. ASSUME NEW b, NEW a \in Held(b), NEW since \in Int, since <= now, Fresh(b, a, since)
      PROVE  Fresh(b, a, since)'
  <2>1. CASE UNCHANGED <<products, lastTrue>>
    BY <1>2, <2>1 DEF Fresh, Truth, Exists
  <2>2. CASE \E t : Write(t)
    BY <1>2, <2>2, WritesKeepFresh
  <2> QED
    BY <2>1, <2>2
<1>3. ASSUME NEW r \in Req
      PROVE  ScanKnows(r)'
  <2> SUFFICES ASSUME req'[r].op = "scan"
               PROVE  ScanKnows(r)'
    BY DEF ScanKnows
  <2>1. req'[r] = req[r] /\ ReadAt(r)' = ReadAt(r) /\ ReadAt(r) \in Int /\ ReadAt(r) <= now
    BY DEF ReadAt, ScanInv
  <2>2. Fresh(req[r].b, req[r].answer, ReadAt(r)) /\ req[r].answer \in Held(req[r].b)
    BY <2>1, AnswersAreHeld DEF ScanInv, ScanKnows
  <2>3. PICK b, a, since : b = req[r].b /\ a = req[r].answer /\ since = ReadAt(r)
    OBVIOUS
  <2>4. Fresh(b, a, since)'
    BY <2>1, <2>2, <2>3, <1>2
  <2> QED
    BY <2>1, <2>3, <2>4 DEF ScanKnows, Fresh, Truth, Exists
<1>4. ASSUME NEW b \in Barcode
      PROVE  CacheKnows(b)'
  <2> SUFFICES ASSUME scans[b] # NULL
               PROVE  CacheKnows(b)'
    BY DEF CacheKnows
  <2>1. /\ scans[b].until \in Nat /\ now < scans[b].until /\ scans[b].until <= now + BarcodeTTL
        /\ Fresh(b, scans[b].answer, scans[b].until - BarcodeTTL - 1)
        /\ scans[b].answer \in Held(b)
    BY AnswersAreHeld DEF ScanInv, CacheKnows
  <2>2. PICK a, since : a = scans[b].answer /\ since = scans[b].until - BarcodeTTL - 1
    OBVIOUS
  <2>3. since \in Int /\ since <= now
    BY <2>1, <2>2, BarcodesLast DEF ScanInv
  <2>4. Fresh(b, a, since)'
    BY <2>1, <2>2, <2>3, <1>2
  <2> QED
    BY <2>1, <2>2, <2>4 DEF CacheKnows, Fresh, Truth, Exists
<1> QED
  BY <1>1, <1>3, <1>4 DEF ScanInv

LEMMA ReadersBegin ==
    ASSUME ShelfInv, ScanInv, NEW r \in Req, NEW s, Begin(r, s), s.op # "scan"
    PROVE  ScanInv'
<1>1. /\ late' \subseteq Req
      /\ \A q \in Req : req'[q].op # "scan" \/ (req'[q] = req[q] /\ (q \in late' <=> q \in late))
  BY DEF ShelfInv, ScanInv, Begin, Become
<1> QED
  BY <1>1, CacheRests DEF Begin, caches

LEMMA WritersEnd ==
    ASSUME ShelfInv, ScanInv, NEW r \in Req, Become(r, Idle), UNCHANGED <<scans, now, oldest>>,
           UNCHANGED <<products, lastTrue>> \/ \E t : Write(t)
    PROVE  ScanInv'
<1>1. late' \subseteq Req
  BY DEF ScanInv, Become
<1>2. ASSUME NEW q \in Req
      PROVE  req'[q].op # "scan" \/ (req'[q] = req[q] /\ (q \in late' <=> q \in late))
  BY DEF ShelfInv, Become, Idle
<1> QED
  BY <1>1, <1>2, CacheRests

LEMMA WritersCommit ==
    ASSUME ShelfInv, ScanInv, NEW r \in Req, NEW t, NEW after, Commit(r, t, after)
    PROVE  ScanInv'
  BY WritersEnd DEF Commit

LEMMA HandlersKeepScans ==
    ASSUME ShelfInv, ScanInv, NEW r \in Req,
           \/ \E p \in Product : CreateRead(r, p) \/ UpdateRead(r, p) \/ AdjustRead(r, p)
           \/ CreateCommit(r) \/ UpdateCommit(r) \/ AdjustCommit(r)
           \/ ImportRead(r) \/ ImportCommit(r) \/ ScriptRead(r) \/ ScriptCommit(r)
    PROVE  ScanInv'
<1>1. ASSUME NEW p \in Product, CreateRead(r, p) PROVE ScanInv'
  BY <1>1, ReadersBegin DEF CreateRead
<1>2. ASSUME NEW p \in Product, UpdateRead(r, p) PROVE ScanInv'
  BY <1>2, ReadersBegin DEF UpdateRead
<1>3. ASSUME NEW p \in Product, AdjustRead(r, p) PROVE ScanInv'
  BY <1>3, ReadersBegin DEF AdjustRead
<1>4. ASSUME CreateCommit(r) PROVE ScanInv'
  BY <1>4, WritersCommit, WritersEnd DEF CreateCommit, caches
<1>5. ASSUME UpdateCommit(r) PROVE ScanInv'
  BY <1>5, WritersCommit DEF UpdateCommit
<1>6. ASSUME AdjustCommit(r) PROVE ScanInv'
  BY <1>6, WritersCommit DEF AdjustCommit
<1>7. ASSUME ImportRead(r) PROVE ScanInv'
  BY <1>7, ReadersBegin DEF ImportRead, Importing
<1>8. ASSUME ImportCommit(r) PROVE ScanInv'
  BY <1>8, WritersCommit, WritersEnd DEF ImportCommit, caches
<1>9. ASSUME ScriptRead(r) PROVE ScanInv'
  BY <1>9, ReadersBegin DEF ScriptRead, Importing
<1>10. ASSUME ScriptCommit(r) PROVE ScanInv'
  BY <1>10, WritersCommit, WritersEnd DEF ScriptCommit, caches
<1> QED
  BY <1>1, <1>2, <1>3, <1>4, <1>5, <1>6, <1>7, <1>8, <1>9, <1>10

LEMMA SellsKeepScans ==
    ASSUME ScanInv, NEW p \in Product, Sell(p)
    PROVE  ScanInv'
  BY CacheRests DEF Sell, caches, ScanInv

\* The answers there are about a barcode are products with their prices.
LEMMA TruthsAreAnswers ==
    ASSUME ShelfInv, NEW b
    PROVE  Truth(b) \subseteq Answer
  BY DEF ShelfInv, Truth, Answer, Exists, ProductRow

LEMMA ScanMissKeeps ==
    ASSUME ShelfInv, ScanInv, NEW r \in Req, NEW b \in Barcode, ScanMiss(r, b)
    PROVE  ScanInv'
<1>1. PICK a \in Truth(b) : Become(r, [op |-> "scan", b |-> b, answer |-> a])
  BY DEF ScanMiss
<1>2. a \in Answer
  BY TruthsAreAnswers
<1>3. UNCHANGED <<products, scans, now, oldest, lastTrue>>
  BY DEF ScanMiss, caches
<1>4. /\ late' \subseteq Req /\ req'[r] = [op |-> "scan", b |-> b, answer |-> a]
      /\ \A q \in Req \ {r} : req'[q] = req[q] /\ (q \in late' <=> q \in late)
  BY <1>1 DEF ShelfInv, ScanInv, Become
<1>5. \A c, d, since : Fresh(c, d, since)' <=> Fresh(c, d, since)
  BY <1>3 DEF Fresh, Truth, Exists
<1>6. ASSUME NEW q \in Req PROVE ScanKnows(q)'
  <2>1. CASE q = r
    BY <1>2, <1>3, <1>4, <2>1 DEF ScanKnows, Fresh, Truth, Exists
  <2>2. CASE q # r
    <3>1. ScanKnows(q) /\ req'[q] = req[q] /\ ReadAt(q)' = ReadAt(q)
      BY <1>3, <1>4, <2>2 DEF ScanInv, ReadAt
    <3> QED
      BY <1>3, <3>1 DEF ScanKnows, Fresh, Truth, Exists
  <2> QED
    BY <2>1, <2>2
<1>7. ASSUME NEW c \in Barcode PROVE CacheKnows(c)'
  BY <1>3 DEF ScanInv, CacheKnows, Fresh, Truth, Exists
<1> QED
  BY <1>3, <1>4, <1>6, <1>7 DEF ScanInv

\* How old an answer is that is what the table says, or was since some time.
LEMMA FreshIsYoung ==
    ASSUME ScanInv, NEW b, NEW a, NEW since \in Int, Fresh(b, a, since),
           since >= now - BarcodeTTL
    PROVE  Age(b, a) \in Int /\ Age(b, a) <= BarcodeTTL
<1>1. CASE a \in Truth(b)
  <2>1. Age(b, a) = 0
    BY <1>1 DEF Age
  <2> QED
    BY <2>1, BarcodesLast
<1>2. CASE a \notin Truth(b)
  <2>1. lastTrue[b][a] \in Nat /\ lastTrue[b][a] >= since
    BY <1>2 DEF Fresh
  <2>2. lastTrue[b][a] # -1
    BY <2>1
  <2>3. Age(b, a) = now - lastTrue[b][a]
    BY <1>2, <2>2 DEF Age
  <2> QED
    BY <2>1, <2>3, BarcodesLast DEF ScanInv
<1> QED
  BY <1>1, <1>2

LEMMA AnswersAreYoung ==
    ASSUME ScanInv, NEW age \in Int, age <= BarcodeTTL, Answered(age)
    PROVE  oldest' \in Int /\ oldest' <= BarcodeTTL
  BY DEF Answered, ScanInv

LEMMA ScanHitKeeps ==
    ASSUME ShelfInv, ScanInv, NEW r \in Req, NEW b \in Barcode, ScanHit(r, b)
    PROVE  ScanInv'
<1>1. /\ scans[b].until \in Nat /\ now < scans[b].until
      /\ Fresh(b, scans[b].answer, scans[b].until - BarcodeTTL - 1)
  BY DEF ScanHit, ScanInv, CacheKnows
<1>2. PICK since : since = scans[b].until - BarcodeTTL - 1
  OBVIOUS
<1>3. since \in Int /\ since >= now - BarcodeTTL
  BY <1>1, <1>2, BarcodesLast DEF ScanInv
<1>4. oldest' \in Int /\ oldest' <= BarcodeTTL
  BY <1>1, <1>2, <1>3, FreshIsYoung, AnswersAreYoung DEF ScanHit
<1>5. UNCHANGED <<products, scans, now, req, late, lastTrue>>
  BY DEF ScanHit, Kept, ScanInv
<1>6. \A q \in Req : ScanKnows(q)'
  BY <1>5 DEF ScanInv, ScanKnows, ReadAt, Fresh, Truth, Exists
<1>7. \A c \in Barcode : CacheKnows(c)'
  BY <1>5 DEF ScanInv, CacheKnows, Fresh, Truth, Exists
<1> QED
  BY <1>4, <1>5, <1>6, <1>7 DEF ScanInv

LEMMA ScanStoreKeeps ==
    ASSUME ShelfInv, ScanInv, NEW r \in Req, ScanStore(r)
    PROVE  ScanInv'
<1> DEFINE q == req[r]
           entry == [answer |-> q.answer, until |-> now + BarcodeTTL]
<1>1. Fresh(q.b, q.answer, ReadAt(r)) /\ q.b \in Barcode
  BY DEF ScanStore, ScanInv, ScanKnows, Fresh
<1>2. ReadAt(r) \in Int /\ ReadAt(r) >= now - 1
  BY DEF ReadAt, ScanInv
<1>3. ReadAt(r) >= now - BarcodeTTL
  BY <1>2, BarcodesLast DEF ScanInv
<1>4. Answered(Age(q.b, q.answer))
  BY DEF ScanStore
<1>5. oldest' \in Int /\ oldest' <= BarcodeTTL
  BY <1>1, <1>2, <1>3, <1>4, FreshIsYoung, AnswersAreYoung
<1>6. UNCHANGED <<products, now, lastTrue>> /\ Become(r, Idle)
      /\ scans' \in {scans, [scans EXCEPT ![q.b] = entry]}
  BY DEF ScanStore
<1> HIDE DEF q
<1>7. ASSUME NEW d \in Req PROVE ScanKnows(d)'
  <2>1. CASE d = r
    BY <1>6, <2>1 DEF Become, ShelfInv, Idle, ScanKnows
  <2>2. CASE d # r
    <3>1. ScanKnows(d) /\ req'[d] = req[d] /\ ReadAt(d)' = ReadAt(d)
      BY <1>6, <2>2 DEF ScanInv, ShelfInv, Become, ReadAt
    <3> QED
      BY <1>6, <3>1 DEF ScanKnows, Fresh, Truth, Exists
  <2> QED
    BY <2>1, <2>2
<1>8. ASSUME NEW c \in Barcode PROVE CacheKnows(c)'
  <2>1. CASE scans'[c] = scans[c]
    BY <1>6, <2>1 DEF ScanInv, CacheKnows, Fresh, Truth, Exists
  <2>2. CASE scans'[c] # scans[c]
    <3>1. c = q.b /\ scans'[c] = entry
      BY <1>1, <1>6, <2>2 DEF ScanInv
    <3>2. /\ entry.until = now + BarcodeTTL /\ entry.answer = q.answer
          /\ entry.until - BarcodeTTL - 1 = now - 1
      BY BarcodesLast DEF ScanInv
    <3>3. Fresh(c, q.answer, now - 1)
      BY <1>1, <1>2, <3>1 DEF Fresh, ScanInv
    <3>4. PICK a, since : a = q.answer /\ since = now - 1
      OBVIOUS
    <3>5. Fresh(c, a, since)'
      BY <1>6, <3>3, <3>4 DEF Fresh, Truth, Exists
    <3>6. PICK e : e = entry
      OBVIOUS
    <3>7. /\ e.until \in Nat /\ now < e.until /\ e.until <= now + BarcodeTTL
          /\ e.answer = a /\ e.until - BarcodeTTL - 1 = since
      BY <3>2, <3>4, <3>6, BarcodesLast DEF ScanInv
    <3> QED
      BY <1>6, <3>1, <3>5, <3>6, <3>7 DEF CacheKnows
  <2> QED
    BY <2>1, <2>2
<1>9. late' \subseteq Req /\ scans' = [c \in Barcode |-> scans'[c]]
  BY <1>6 DEF Become, ScanInv
<1> QED
  BY <1>5, <1>6, <1>7, <1>8, <1>9 DEF ScanInv

LEMMA TickKeeps ==
    ASSUME ShelfInv, ScanInv, TimePasses
    PROVE  ScanInv'
<1>1. /\ late = {} /\ now' = now + 1 /\ late' = {r \in Req : req[r] # Idle}
      /\ UNCHANGED <<products, req, oldest>>
      /\ scans' = [b \in Barcode |-> IF Live(scans[b]) THEN scans[b] ELSE NULL]
      /\ lastTrue' = [b \in Barcode |-> [a \in Answer |->
                        IF a \in Held(b) THEN lastTrue[b][a] ELSE -1]]
  BY DEF TimePasses
<1>2. lastTrue' \in [Barcode -> [Answer -> Int]]
  BY <1>1 DEF ScanInv
<1>3. ASSUME NEW b, NEW a \in Held(b), NEW since, Fresh(b, a, since)
      PROVE  Fresh(b, a, since)'
  BY <1>1, <1>3 DEF Fresh, Truth, Exists
<1>4. ASSUME NEW r \in Req PROVE ScanKnows(r)'
  <2> SUFFICES ASSUME req[r].op = "scan" PROVE ScanKnows(r)'
    BY <1>1 DEF ScanKnows
  <2>1. ReadAt(r) = now /\ ReadAt(r)' = now
    <3>1. Idle.op = "idle" /\ r \notin late
      BY <1>1 DEF Idle
    <3>2. req[r] # Idle
      BY <3>1
    <3>3. r \in late'
      BY <1>1, <3>2
    <3>4. now \in Nat /\ now' = now + 1
      BY <1>1 DEF ScanInv
    <3> QED
      BY <3>1, <3>3, <3>4 DEF ReadAt
  <2>2. Fresh(req[r].b, req[r].answer, now) /\ req[r].answer \in Held(req[r].b)
    BY <2>1, AnswersAreHeld DEF ScanInv, ScanKnows
  <2>3. PICK b, a, since : b = req[r].b /\ a = req[r].answer /\ since = now
    OBVIOUS
  <2>4. Fresh(b, a, since)'
    BY <2>2, <2>3, <1>3
  <2> QED
    BY <1>1, <2>1, <2>3, <2>4 DEF ScanKnows, Fresh, Truth, Exists
<1>5. ASSUME NEW b \in Barcode PROVE CacheKnows(b)'
  <2> SUFFICES ASSUME scans'[b] # NULL PROVE CacheKnows(b)'
    BY DEF CacheKnows
  <2>1. scans'[b] = scans[b] /\ scans[b] # NULL /\ now' < scans[b].until
    BY <1>1 DEF Live
  <2>2. /\ scans[b].until \in Nat /\ scans[b].until <= now + BarcodeTTL
        /\ Fresh(b, scans[b].answer, scans[b].until - BarcodeTTL - 1)
        /\ scans[b].answer \in Held(b)
    BY <2>1, AnswersAreHeld DEF ScanInv, CacheKnows
  <2>3. PICK a, since : a = scans[b].answer /\ since = scans[b].until - BarcodeTTL - 1
    OBVIOUS
  <2>4. Fresh(b, a, since)'
    BY <2>2, <2>3, <1>3
  <2>5. scans[b].until <= now' + BarcodeTTL
    BY <1>1, <2>2, BarcodesLast DEF ScanInv
  <2> QED
    BY <2>1, <2>2, <2>3, <2>4, <2>5 DEF CacheKnows, Fresh, Truth, Exists
<1>6. now' \in Nat /\ late' \subseteq Req /\ scans' = [b \in Barcode |-> scans'[b]]
  BY <1>1 DEF ScanInv
<1> QED
  BY <1>1, <1>2, <1>4, <1>5, <1>6 DEF ScanInv

LEMMA ScansStart == CatalogInit => ScanInv
  BY BarcodesLast DEF CatalogInit, ScanInv, ScanKnows, CacheKnows, Idle

LEMMA ScansStay == ShelfInv /\ ScanInv /\ [CatalogNext]_catalogVars => ScanInv'
<1> SUFFICES ASSUME ShelfInv, ScanInv, [CatalogNext]_catalogVars PROVE ScanInv'
  OBVIOUS
<1>1. ASSUME NEW n \in Name, CreateName(n) PROVE ScanInv'
  BY <1>1, CacheRests DEF CreateName, caches, ScanInv
<1>2. ASSUME NEW p \in Product, Sell(p) PROVE ScanInv'
  BY <1>2, SellsKeepScans
<1>3. ASSUME NEW r \in Req, NEW p \in Product, CreateRead(r, p) \/ UpdateRead(r, p) \/ AdjustRead(r, p)
      PROVE  ScanInv'
  BY <1>3, HandlersKeepScans
<1>4. ASSUME NEW r \in Req, CreateCommit(r) \/ UpdateCommit(r) \/ AdjustCommit(r)
      PROVE  ScanInv'
  BY <1>4, HandlersKeepScans
<1>5. ASSUME NEW r \in Req, ImportRead(r) \/ ImportCommit(r) \/ ScriptRead(r) \/ ScriptCommit(r)
      PROVE  ScanInv'
  BY <1>5, HandlersKeepScans
<1>6. ASSUME NEW r \in Req, NEW b \in Barcode, ScanHit(r, b) \/ ScanMiss(r, b) PROVE ScanInv'
  BY <1>6, ScanHitKeeps, ScanMissKeeps
<1>7. ASSUME NEW r \in Req, ScanStore(r) PROVE ScanInv'
  BY <1>7, ScanStoreKeeps
<1>8. ASSUME TimePasses PROVE ScanInv'
  BY <1>8, TickKeeps
<1>9. ASSUME List \/ UNCHANGED catalogVars PROVE ScanInv'
  BY <1>9, CacheRests DEF List, catalogVars, ScanInv
<1> QED
  BY <1>1, <1>2, <1>3, <1>4, <1>5, <1>6, <1>7, <1>8, <1>9 DEF CatalogNext

(* A scan never shows what the table stopped saying longer than              *)
(* BARCODE_LOOKUP_TTL ago, although no writer drops a cached barcode         *)
(* (get_by_barcode, core/cache.py).                                          *)
THEOREM ScansAreYoung == CatalogSpec => []ScansGrowOld
<1>1. CatalogInit => ShelfInv /\ ScanInv
  BY ShelfStarts, ScansStart
<1>2. (ShelfInv /\ ScanInv) /\ [CatalogNext]_catalogVars => (ShelfInv /\ ScanInv)'
  BY ShelfStays, ScansStay
<1>3. ShelfInv /\ ScanInv => ScansGrowOld
  BY DEF ScanInv, ScansGrowOld
<1> QED
  BY <1>1, <1>2, <1>3, PTL DEF CatalogSpec

-----------------------------------------------------------------------------
(* A finite set of numbers that is not empty has a largest one.              *)

HasMax(S) == \E x \in S : \A y \in S : x >= y

LEMMA FiniteHasMax ==
    ASSUME NEW S, IsFiniteSet(S), S \subseteq Int, S # {}
    PROVE  HasMax(S)
<1> DEFINE B == {s \in SUBSET S : s # {} /\ ~HasMax(s)}
<1>1. ASSUME B # {} PROVE FALSE
  <2>1. B \subseteq SUBSET S
    OBVIOUS
  <2>2. PICK s \in B : \A r \in SUBSET s : r # s => r \notin B
    <3> HIDE DEF B
    <3> QED
      BY <1>1, <2>1, LeastBad
  <2>3. PICK x \in s : TRUE
    OBVIOUS
  <2>4. CASE s = {x}
    BY <2>2, <2>4 DEF HasMax
  <2>5. CASE s # {x}
    <3>1. s \ {x} \in SUBSET s /\ s \ {x} # s /\ s \ {x} # {} /\ s \ {x} \in SUBSET S
      BY <2>3, <2>5
    <3>2. HasMax(s \ {x})
      BY <2>2, <3>1
    <3>3. PICK m \in s \ {x} : \A y \in s \ {x} : m >= y
      BY <3>2 DEF HasMax
    <3>4. x \in Int /\ m \in Int /\ s \subseteq Int
      BY <2>2, <2>3
    <3>5. CASE x >= m
      <4>1. \A y \in s : x >= y
        BY <3>3, <3>4, <3>5
      <4> QED
        BY <2>2, <2>3, <4>1 DEF HasMax
    <3>6. CASE m >= x
      <4>1. \A y \in s : m >= y
        BY <3>3, <3>4, <3>6
      <4> QED
        BY <2>2, <3>3, <4>1 DEF HasMax
    <3> QED
      BY <3>4, <3>5, <3>6
  <2> QED
    BY <2>4, <2>5
<1> QED
  BY <1>1

LEMMA MaxIsLargest ==
    ASSUME NEW S, IsFiniteSet(S), S \subseteq Int, S # {}
    PROVE  Max(S) \in S /\ \A y \in S : Max(S) >= y
  BY FiniteHasMax DEF Max, HasMax

LEMMA MaxOfTwo ==
    ASSUME NEW a \in Int, NEW b \in Int
    PROVE  Max({a, b}) \in {a, b} /\ Max({a, b}) >= a /\ Max({a, b}) >= b
<1>1. IsFiniteSet({a, b}) /\ {a, b} \subseteq Int /\ {a, b} # {}
  BY FS_Singleton, FS_AddElement, IsFiniteSet({a}) /\ {a, b} = {a} \cup {b}
<1> QED
  BY <1>1, MaxIsLargest

-----------------------------------------------------------------------------
(* What the two tables, the agent and the cloud hold.                        *)

Parcel == [key : Time \X Nat, rows : Batch, tries : Nat]
Request == [rows : Batch, pc : {"begin", "read"}, read : Batch, heard : BOOLEAN]

\* Rows, queues and requests are of their types; an item that is posted has rows.
TablesTyped ==
    /\ entity \in {"products", "customers"}
    /\ clock \in Time /\ edits \in Edit
    /\ row \in [Row -> Content] /\ cloud \in [Row -> Content] /\ open \in [Row -> Time]
    /\ DOMAIN checkpoint = {"push", "pull"} /\ checkpoint["push"] \in Time
    /\ push \in [pc : {"idle", "drain", "replay", "post"}, todo : Seq(Parcel), item : Parcel]
    /\ retry \in Seq(Parcel)
    /\ sent \subseteq Request
    /\ pull \in Batch
    /\ applied \in [Row -> Edit] /\ excused \subseteq Row /\ raced \in BOOLEAN

\* The agent listens to one request at most, that of the batch it waits for.
OneIsHeard ==
    /\ \A c \in sent : c.heard => push.pc \in {"replay", "post"} /\ c.rows = push.item.rows
    /\ \A c, d \in sent : c.heard /\ d.heard => c = d
    /\ push.pc = "post" => DOMAIN push.item.rows # {}
    /\ \A c \in sent : c.pc = "read" => DOMAIN c.read = DOMAIN c.rows

LEMMA NothingIsBatch == <<>> \in Batch
<1>1. <<>> \in [{} -> Content]
  OBVIOUS
<1> QED
  BY <1>1 DEF Batch

LEMMA BatchOf ==
    ASSUME NEW b, b \subseteq Row, NEW t \in [Row -> Content]
    PROVE  [r \in b |-> t[r]] \in Batch
<1>1. [r \in b |-> t[r]] \in [b -> Content]
  OBVIOUS
<1> QED
  BY <1>1 DEF Batch

LEMMA BatchHas ==
    ASSUME NEW f \in Batch
    PROVE  DOMAIN f \subseteq Row /\ \A r \in DOMAIN f : f[r] \in Content
  BY DEF Batch

\* The latest time of a batch that has rows.
LEMMA LatestOf ==
    ASSUME NEW f \in Batch, DOMAIN f # {}
    PROVE  /\ Latest(f) \in Time /\ \A r \in DOMAIN f : f[r].ts <= Latest(f)
           /\ \E r \in DOMAIN f : f[r].ts = Latest(f)
<1> DEFINE S == {f[r].ts : r \in DOMAIN f}
<1>1. S \subseteq Time /\ S # {}
  BY BatchHas DEF Content
<1>2. Time \subseteq Int /\ IsFiniteSet(Time)
  BY FS_Interval, TableSyncAssumption DEF Time
<1>3. IsFiniteSet(S)
  BY <1>1, <1>2, FS_Subset
<1>4. Max(S) \in S /\ \A y \in S : Max(S) >= y
  BY <1>1, <1>2, <1>3, MaxIsLargest
<1>5. \A r \in DOMAIN f : f[r].ts \in Int
  BY <1>1, <1>2
<1>6. Max(S) \in Int
  BY <1>1, <1>2, <1>4
<1> QED
  BY <1>1, <1>4, <1>5, <1>6 DEF Latest

LEMMA MillisecondOf ==
    ASSUME NEW t \in Time
    PROVE  /\ ToMillisecond(t) \in Time /\ ToMillisecond(t) <= t
           /\ t % 2 # 0 => ToMillisecond(t) < t
<1>1. t \in Nat /\ t <= MaxClock /\ MaxClock \in Nat
  BY TableSyncAssumption DEF Time
<1>2. t % 2 \in {0, 1} /\ (t = 0 => t % 2 = 0)
  BY <1>1
<1> QED
  BY <1>1, <1>2 DEF ToMillisecond, Time

\* What is left of a queue was in it before.
LEMMA WithoutKeeps ==
    ASSUME NEW S, NEW s \in Seq(S), NEW key
    PROVE  Without(s, key) \in Seq(S)
<1>1. CASE \E n \in DOMAIN s : s[n].key = key
  <2>1. PICK i : i = CHOOSE n \in DOMAIN s : s[n].key = key
    OBVIOUS
  <2>2. i \in 1 .. Len(s)
    BY <1>1, <2>1
  <2>3. RemoveAt(s, i) \in Seq(S)
    BY <2>2 DEF RemoveAt
  <2> QED
    BY <1>1, <2>1, <2>3 DEF Without
<1>2. CASE ~ \E n \in DOMAIN s : s[n].key = key
  BY <1>2 DEF Without
<1> QED
  BY <1>1, <1>2

TablesHold == TablesTyped /\ OneIsHeard

LEMMA NoItemIsParcel == NoItem \in Parcel /\ NoItem.rows = <<>>
<1>1. 0 \in Time
  BY TableSyncAssumption DEF Time
<1> QED
  BY <1>1, NothingIsBatch DEF NoItem, Parcel

LEMMA RestingFits ==
    /\ Resting \in [pc : {"idle", "drain", "replay", "post"}, todo : Seq(Parcel), item : Parcel]
    /\ Resting.pc = "idle" /\ Resting.todo = <<>> /\ Resting.item = NoItem
  BY NoItemIsParcel DEF Resting

LEMMA EditsCount ==
    ASSUME TablesTyped, edits < MaxEdits
    PROVE  edits + 1 \in Edit /\ edits \in Nat /\ edits + 1 > edits
  BY TableSyncAssumption DEF TablesTyped, Edit

LEMMA TickHolds == ASSUME TablesHold, Tick PROVE TablesHold'
<1>1. clock' \in Time
  BY TableSyncAssumption DEF Tick, TablesHold, TablesTyped, Time
<1> QED
  BY <1>1 DEF Tick, TablesHold, TablesTyped, OneIsHeard, shopVars, agentVars, cloudVars

LEMMA ChangeBeginHolds ==
    ASSUME TablesHold, NEW r \in Row, ChangeBegin(r) PROVE TablesHold'
<1>1. open' \in [Row -> Time]
  BY DEF ChangeBegin, TablesHold, TablesTyped
<1> QED
  BY <1>1 DEF ChangeBegin, TablesHold, TablesTyped, OneIsHeard, agentVars, cloudVars

LEMMA JumpsAreRows ==
    ASSUME TablesTyped, NEW K, K \subseteq Row, NEW ts
    PROVE  Jumped(K, ts) \subseteq Row
  BY DEF Jumped, Twins, TablesTyped

LEMMA ChangeCommitHolds ==
    ASSUME TablesHold, NEW r \in Row, ChangeCommit(r) PROVE TablesHold'
<1>1. TablesTyped /\ OneIsHeard /\ 0 \in Time
  BY TableSyncAssumption DEF TablesHold, Time
<1>2. edits' \in Edit
  BY <1>1, EditsCount DEF ChangeCommit
<1>3. row' \in [Row -> Content]
  BY <1>1, EditsCount DEF ChangeCommit, TablesTyped, Content
<1>4. open' \in [Row -> Time]
  BY <1>1 DEF ChangeCommit, TablesTyped
<1>5. excused' \subseteq Row
  BY <1>1, JumpsAreRows DEF ChangeCommit
<1> QED
  BY <1>1, <1>2, <1>3, <1>4, <1>5
  DEF ChangeCommit, TablesHold, TablesTyped, OneIsHeard, agentVars, cloudVars

LEMMA ManagerEditsHolds ==
    ASSUME TablesHold, NEW r \in Row, ManagerEdits(r) PROVE TablesHold'
<1>1. TablesTyped
  BY DEF TablesHold
<1>2. edits' \in Edit
  BY <1>1, EditsCount DEF ManagerEdits
<1>3. cloud' \in [Row -> Content]
  BY <1>1, EditsCount DEF ManagerEdits, TablesTyped, Content
<1> QED
  BY <1>1, <1>2, <1>3
  DEF ManagerEdits, TablesHold, TablesTyped, OneIsHeard, agentVars, shopVars

LEMMA StartCycleHolds == ASSUME TablesHold, StartCycle PROVE TablesHold'
<1>1. push' \in [pc : {"idle", "drain", "replay", "post"}, todo : Seq(Parcel), item : Parcel]
      /\ push'.pc = "drain"
  BY DEF StartCycle, TablesHold, TablesTyped
<1> QED
  BY <1>1 DEF StartCycle, TablesHold, TablesTyped, OneIsHeard, shopVars, cloudVars

LEMMA PromoteHolds == ASSUME TablesHold, Promote PROVE TablesHold'
<1>1. push' \in [pc : {"idle", "drain", "replay", "post"}, todo : Seq(Parcel), item : Parcel]
      /\ push'.pc = "drain" /\ push.pc = "drain"
  <2>1. Tail(push.todo) \in Seq(Parcel)
    BY DEF Promote, TablesHold, TablesTyped
  <2> QED
    BY <2>1 DEF Promote, TablesHold, TablesTyped
<1>2. retry' \in Seq(Parcel)
  BY WithoutKeeps DEF Promote, TablesHold, TablesTyped
<1> QED
  BY <1>1, <1>2 DEF Promote, TablesHold, TablesTyped, OneIsHeard, shopVars, cloudVars

\* A request leaves while none is heard.
LEMMA PostHolds ==
    ASSUME TablesTyped, OneIsHeard, push.pc = "drain", NEW i \in Parcel, Post(i.rows),
           push' \in [pc : {"replay", "post"}, todo : Seq(Parcel), item : {i}],
           push'.pc = "post" => DOMAIN i.rows # {}
    PROVE  sent' \subseteq Request /\ OneIsHeard'
<1> DEFINE c == [rows |-> i.rows, pc |-> "begin", read |-> <<>>, heard |-> TRUE]
<1>1. sent' = sent \cup {c} /\ c \in Request
  BY NothingIsBatch DEF Post, Request, Parcel
<1>2. c.rows = i.rows /\ c.pc = "begin"
  OBVIOUS
<1> HIDE DEF c
<1>3. \A d \in sent : ~d.heard
  BY DEF OneIsHeard
<1> QED
  BY <1>1, <1>2, <1>3 DEF TablesTyped, OneIsHeard

LEMMA ReplayHolds == ASSUME TablesHold, Replay PROVE TablesHold'
<1> DEFINE i == Head(push.todo)
<1>1. i \in Parcel /\ Tail(push.todo) \in Seq(Parcel)
  BY DEF Replay, TablesHold, TablesTyped
<1>2. push' \in [pc : {"replay"}, todo : Seq(Parcel), item : {i}]
  BY <1>1 DEF Replay, TablesHold, TablesTyped
<1>3. Post(i.rows) /\ push.pc = "drain"
  BY DEF Replay
<1> HIDE DEF i
<1>4. sent' \subseteq Request /\ OneIsHeard'
  BY <1>1, <1>2, <1>3, PostHolds DEF TablesHold
<1> QED
  BY <1>1, <1>2, <1>4 DEF Replay, TablesHold, TablesTyped, shopVars

LEMMA PostBatchHolds == ASSUME TablesHold, PostBatch PROVE TablesHold'
<1>1. PICK b \in FirstOf(row, checkpoint["push"]) :
          LET rows == [r \in b |-> row[r]] IN
          /\ Post(rows)
          /\ push' = [Resting EXCEPT !.pc = "post",
                !.item = [key |-> <<checkpoint["push"], Cardinality(b)>>,
                          rows |-> rows, tries |-> 0]]
  BY DEF PostBatch
<1> DEFINE rows == [r \in b |-> row[r]]
           i == [key |-> <<checkpoint["push"], Cardinality(b)>>, rows |-> rows, tries |-> 0]
<1>2. b \subseteq Row /\ b # {}
  BY DEF FirstOf, Due
<1>3. Cardinality(b) \in Nat
  BY <1>2, FS_Subset, FS_CardinalityType, TableSyncAssumption
<1>4. rows \in Batch /\ DOMAIN rows = b
  BY <1>2, BatchOf DEF TablesHold, TablesTyped
<1> HIDE DEF rows
<1>5. i \in Parcel /\ i.rows = rows
  BY <1>3, <1>4 DEF Parcel, TablesHold, TablesTyped
<1>6. push' \in [pc : {"post"}, todo : Seq(Parcel), item : {i}]
  BY <1>1, RestingFits DEF rows
<1>7. Post(i.rows) /\ push.pc = "drain"
  BY <1>1, <1>5 DEF PostBatch, rows
<1> HIDE DEF i
<1>8. sent' \subseteq Request /\ OneIsHeard'
  BY <1>2, <1>4, <1>5, <1>6, <1>7, PostHolds DEF TablesHold
<1> QED
  BY <1>5, <1>6, <1>8 DEF PostBatch, TablesHold, TablesTyped, shopVars

LEMMA NothingDueHolds == ASSUME TablesHold, NothingDue PROVE TablesHold'
  BY RestingFits DEF NothingDue, TablesHold, TablesTyped, OneIsHeard, shopVars, cloudVars

\* What an answer or its failure makes of the loop.
LEMMA FailsFits ==
    ASSUME TablesTyped, Fails, push.pc \in {"replay", "post"}
    PROVE  /\ push' \in [pc : {"idle", "drain"}, todo : Seq(Parcel), item : Parcel]
           /\ retry' \in Seq(Parcel)
<1>1. CASE push.pc = "replay"
  <2>1. push' = [push EXCEPT !.pc = "drain", !.item = NoItem]
        /\ retry' = [n \in DOMAIN retry |->
                        IF retry[n].key = push.item.key
                        THEN [retry[n] EXCEPT !.tries = @ + 1] ELSE retry[n]]
    BY <1>1 DEF Fails
  <2>2. push' \in [pc : {"idle", "drain"}, todo : Seq(Parcel), item : Parcel]
    BY <2>1, NoItemIsParcel DEF TablesTyped
  <2>3. retry \in Seq(Parcel) /\ DOMAIN retry = 1 .. Len(retry) /\ Len(retry) \in Nat
    BY DEF TablesTyped
  <2>4. ASSUME NEW i \in Parcel PROVE [i EXCEPT !.tries = @ + 1] \in Parcel
    BY DEF Parcel
  <2>5. \A n \in 1 .. Len(retry) : retry[n] \in Parcel
    BY <2>3
  <2>6. retry' \in [1 .. Len(retry) -> Parcel]
    BY <2>1, <2>3, <2>4, <2>5
  <2>7. retry' \in Seq(Parcel)
    BY <2>3, <2>6
  <2> QED
    BY <2>2, <2>7
<1>2. CASE push.pc = "post"
  <2>1. push' = Resting
        /\ retry' = IF \E n \in DOMAIN retry : retry[n].key = push.item.key
                    THEN retry ELSE Append(retry, push.item)
    BY <1>2 DEF Fails
  <2> QED
    BY <2>1, RestingFits DEF TablesTyped
<1> QED
  BY <1>1, <1>2

LEMMA HearsFits ==
    ASSUME TablesTyped, OneIsHeard, Hears, push.pc \in {"replay", "post"}
    PROVE  /\ push' \in [pc : {"idle", "drain"}, todo : Seq(Parcel), item : Parcel]
           /\ retry' \in Seq(Parcel)
           /\ DOMAIN checkpoint' = {"push", "pull"} /\ checkpoint'["push"] \in Time
           /\ checkpoint'["push"] = IF push.pc = "post" THEN ToMillisecond(Latest(push.item.rows))
                                    ELSE checkpoint["push"]
<1>1. CASE push.pc = "replay"
  <2>1. /\ push' = [push EXCEPT !.pc = "drain", !.item = NoItem]
        /\ retry' = Without(retry, push.item.key) /\ UNCHANGED checkpoint
    BY <1>1 DEF Hears
  <2>2. push' \in [pc : {"idle", "drain"}, todo : Seq(Parcel), item : Parcel]
    BY <2>1, NoItemIsParcel DEF TablesTyped
  <2>3. retry' \in Seq(Parcel)
    BY <2>1, WithoutKeeps DEF TablesTyped
  <2> QED
    BY <1>1, <2>1, <2>2, <2>3 DEF TablesTyped
<1>2. CASE push.pc = "post"
  <2>1. push.item.rows \in Batch /\ DOMAIN push.item.rows # {}
    BY <1>2 DEF TablesTyped, OneIsHeard, Parcel
  <2>2. ToMillisecond(Latest(push.item.rows)) \in Time
    BY <2>1, LatestOf, MillisecondOf
  <2>3. push' = Resting /\ SaveCheckpoint("push", push.item.rows) /\ UNCHANGED retry
    BY <1>2 DEF Hears
  <2> QED
    BY <1>2, <2>2, <2>3, RestingFits DEF SaveCheckpoint, TablesTyped
<1> QED
  BY <1>1, <1>2

LEMMA BreaksHolds == ASSUME TablesHold, Breaks PROVE TablesHold'
<1>1. PICK c \in sent :
          /\ c.heard
          /\ \/ sent' = (sent \ {c}) \cup {[c EXCEPT !.heard = FALSE]}
             \/ sent' = sent \ {c}
  BY DEF Breaks
<1>2. c \in Request /\ push.pc \in {"replay", "post"}
  BY <1>1 DEF TablesHold, TablesTyped, OneIsHeard
<1>3. PICK d : d = [c EXCEPT !.heard = FALSE]
  OBVIOUS
<1>4. d \in Request /\ ~d.heard /\ d.rows = c.rows /\ d.pc = c.pc /\ d.read = c.read
  BY <1>2, <1>3 DEF Request
<1>5. \A e \in sent' : e = d \/ (e \in sent /\ e # c)
  BY <1>1, <1>3
<1>6. \A e \in sent' : ~e.heard
  BY <1>1, <1>4, <1>5 DEF TablesHold, OneIsHeard
<1>7. sent' \subseteq Request /\ \A e \in sent' : e.pc = "read" => DOMAIN e.read = DOMAIN e.rows
  BY <1>1, <1>4, <1>5 DEF TablesHold, TablesTyped, OneIsHeard
<1>8. /\ push' \in [pc : {"idle", "drain"}, todo : Seq(Parcel), item : Parcel]
      /\ retry' \in Seq(Parcel)
  BY <1>2, FailsFits DEF Breaks, TablesHold
<1>9. UNCHANGED <<entity, clock, edits, shopVars, checkpoint, pull, cloud, applied, raced, excused>>
  BY DEF Breaks
<1> QED
  BY <1>6, <1>7, <1>8, <1>9 DEF TablesHold, TablesTyped, OneIsHeard, shopVars

LEMMA CrashHolds == ASSUME TablesHold, Crash PROVE TablesHold'
<1>1. \A c \in sent : c \in Request
  BY DEF TablesHold, TablesTyped
<1>2. ASSUME NEW e \in sent'
      PROVE  e \in Request /\ ~e.heard /\ (e.pc = "read" => DOMAIN e.read = DOMAIN e.rows)
  <2>1. PICK c \in sent : e = [c EXCEPT !.heard = FALSE]
    BY DEF Crash
  <2>2. e \in Request /\ ~e.heard /\ e.pc = c.pc /\ e.read = c.read /\ e.rows = c.rows
    BY <1>1, <2>1 DEF Request
  <2> QED
    BY <2>2 DEF TablesHold, OneIsHeard
<1>3. push' = Resting /\ pull' = <<>>
      /\ UNCHANGED <<entity, clock, edits, shopVars, checkpoint, retry, cloud, applied, raced, excused>>
  BY DEF Crash
<1> QED
  BY <1>2, <1>3, RestingFits, NothingIsBatch DEF TablesHold, TablesTyped, OneIsHeard, shopVars

LEMMA ReadRowsHolds ==
    ASSUME TablesHold, NEW c \in sent, ReadRows(c)
    PROVE  TablesHold'
<1> DEFINE copy == [r \in DOMAIN c.rows |-> cloud[r]]
<1>1. c \in Request /\ c.pc = "begin"
  BY DEF TablesHold, TablesTyped, ReadRows
<1>2. PICK d : d = [c EXCEPT !.pc = "read", !.read = copy]
  OBVIOUS
<1>3. copy \in Batch /\ DOMAIN copy = DOMAIN c.rows
  <2>1. DOMAIN c.rows \subseteq Row
    BY <1>1, BatchHas DEF Request
  <2> QED
    BY <2>1, BatchOf DEF TablesHold, TablesTyped
<1>4. sent' = (sent \ {c}) \cup {d}
  BY <1>2 DEF ReadRows
<1> HIDE DEF copy
<1>5. d \in Request /\ d.rows = c.rows /\ d.read = copy /\ d.heard = c.heard
  BY <1>1, <1>2, <1>3 DEF Request
<1>6. UNCHANGED <<entity, clock, edits, shopVars, agentVars, cloud, applied, excused>> /\ raced' \in BOOLEAN
  BY DEF ReadRows, TablesHold, TablesTyped
<1>7. sent' \subseteq Request
  BY <1>4, <1>5 DEF TablesHold, TablesTyped
<1>8. OneIsHeard'
  BY <1>3, <1>4, <1>5, <1>6 DEF TablesHold, OneIsHeard, agentVars
<1> QED
  BY <1>6, <1>7, <1>8 DEF TablesHold, TablesTyped, agentVars, shopVars

\* What the cloud makes of two values is one of them.
LEMMA UpsertedIsOne ==
    ASSUME NEW mine \in Content, NEW theirs \in Content
    PROVE  /\ Upserted(mine, theirs) \in {mine.val, theirs.val}
           /\ entity = "customers" /\ mine # Absent =>
                 Upserted(mine, theirs) = IF theirs.ts <= mine.ts THEN mine.val ELSE theirs.val
<1>1. ProductValue(mine, theirs) \in {mine.val, theirs.val}
  <2>1. PolicyOf("products", "catalogue") = "cloud_wins"
    BY DEF PolicyOf, Manifest
  <2> QED
    BY <2>1 DEF ProductValue, Resolve
<1> QED
  BY <1>1 DEF Upserted, CustomerValue, Stale

LEMMA CommitRowsFits ==
    ASSUME TablesTyped, NEW c \in Request, DOMAIN c.read = DOMAIN c.rows, CommitRows(c)
    PROVE  /\ cloud' \in [Row -> Content] /\ applied' \in [Row -> Edit]
           /\ \A r \in Row : applied'[r] >= applied[r]
           /\ \A r \in DOMAIN c.rows : r \in Row => Written(c, r) \in {c.read[r].val, c.rows[r].val}
<1>1. ASSUME NEW r \in Row, r \in DOMAIN c.rows
      PROVE  c.rows[r] \in Content /\ c.read[r] \in Content
             /\ Written(c, r) \in {c.read[r].val, c.rows[r].val}
  <2>1. c.rows[r] \in Content /\ c.read[r] \in Content
    BY <1>1, BatchHas DEF Request
  <2> QED
    BY <2>1, UpsertedIsOne DEF Written
<1>2. ASSUME NEW r \in Row
      PROVE  cloud'[r] \in Content
  BY <1>1, <1>2 DEF CommitRows, TablesTyped, Content
<1>3. ASSUME NEW r \in Row
      PROVE  applied'[r] \in Edit /\ applied'[r] >= applied[r]
  <2>1. applied[r] \in Edit /\ Edit \subseteq Int /\ applied[r] \in Int
    BY <1>3 DEF TablesTyped, Edit
  <2>2. CASE r \in DOMAIN c.rows /\ Written(c, r) = c.rows[r].val
    <3>1. c.rows[r].val \in Edit
      BY <1>1, <2>2 DEF Content
    <3>2. applied'[r] = Max({applied[r], c.rows[r].val})
      BY <2>2 DEF CommitRows
    <3>3. PICK a \in Int, b \in Int : a = applied[r] /\ b = c.rows[r].val
      BY <2>1, <3>1
    <3> QED
      BY <2>1, <3>1, <3>2, <3>3, MaxOfTwo
  <2>3. CASE ~(r \in DOMAIN c.rows /\ Written(c, r) = c.rows[r].val)
    <3>1. applied'[r] = applied[r]
      BY <2>3 DEF CommitRows
    <3> QED
      BY <2>1, <3>1
  <2> QED
    BY <2>2, <2>3
<1>4. cloud' = [r \in Row |-> cloud'[r]] /\ applied' = [r \in Row |-> applied'[r]]
  BY DEF CommitRows
<1> QED
  BY <1>1, <1>2, <1>3, <1>4

\* A request is answered, with its rows written or not.
LEMMA ServeWrites ==
    ASSUME TablesHold, NEW c \in sent, Serve(c)
    PROVE  /\ cloud' \in [Row -> Content] /\ applied' \in [Row -> Edit]
           /\ \A r \in Row : applied'[r] >= applied[r]
<1>1. c \in Request /\ DOMAIN c.read = DOMAIN c.rows /\ TablesTyped
  BY DEF TablesHold, TablesTyped, OneIsHeard, Serve
<1>2. CASE CommitRows(c)
  BY <1>1, <1>2, CommitRowsFits
<1>3. CASE UNCHANGED <<cloud, applied>>
  BY <1>3 DEF TablesHold, TablesTyped, Edit
<1> QED
  BY <1>2, <1>3 DEF Serve

LEMMA ServeHolds ==
    ASSUME TablesHold, NEW c \in sent, Serve(c)
    PROVE  TablesHold'
<1>1. c \in Request /\ TablesTyped /\ OneIsHeard /\ sent' = sent \ {c}
  BY DEF TablesHold, TablesTyped, Serve
<1>2. cloud' \in [Row -> Content] /\ applied' \in [Row -> Edit]
  BY ServeWrites
<1>3. excused' \subseteq Row
  <2>1. Dropped(c) \subseteq Row
    BY <1>1, BatchHas DEF Dropped, Request
  <2> QED
    BY <1>1, <2>1 DEF Serve, TablesTyped
<1>4. UNCHANGED <<entity, clock, edits, shopVars, pull, raced>>
  BY DEF Serve
<1>5. CASE c.heard
  <2>1. Hears /\ push.pc \in {"replay", "post"}
    BY <1>1, <1>5 DEF Serve, OneIsHeard
  <2>2. /\ push' \in [pc : {"idle", "drain"}, todo : Seq(Parcel), item : Parcel]
        /\ retry' \in Seq(Parcel)
        /\ DOMAIN checkpoint' = {"push", "pull"} /\ checkpoint'["push"] \in Time
    BY <1>1, <2>1, HearsFits
  <2>3. \A d \in sent' : ~d.heard
    BY <1>1, <1>5 DEF OneIsHeard
  <2> QED
    BY <1>1, <1>2, <1>3, <1>4, <2>2, <2>3 DEF TablesHold, TablesTyped, OneIsHeard, shopVars
<1>6. CASE ~c.heard
  <2>1. UNCHANGED <<push, retry, checkpoint>>
    BY <1>6 DEF Serve
  <2> QED
    BY <1>1, <1>2, <1>3, <1>4, <2>1 DEF TablesHold, TablesTyped, OneIsHeard, shopVars
<1> QED
  BY <1>1, <1>5, <1>6 DEF Request

LEMMA FetchHolds == ASSUME TablesHold, Fetch PROVE TablesHold'
<1>1. PICK b \in FirstOf(cloud, checkpoint["pull"]) : pull' = [r \in b |-> cloud[r]]
  BY DEF Fetch
<1>2. b \subseteq Row
  BY DEF FirstOf, Due
<1>3. pull' \in Batch
  BY <1>1, <1>2, BatchOf DEF TablesHold, TablesTyped
<1> QED
  BY <1>3 DEF Fetch, TablesHold, TablesTyped, OneIsHeard, shopVars, cloudVars

\* What a pull makes of the shop's rows.
LEMMA ApplyWrites ==
    ASSUME TablesHold, Apply
    PROVE  \E K \in SUBSET Row :
              /\ row' = [r \in Row |-> IF r \in K THEN [val |-> pull[r].val, ts |-> clock]
                                       ELSE row[r]]
              /\ \A r \in K : pull[r] \in Content
              /\ excused' = IF K = {} THEN excused ELSE Jumped(K, clock)
<1> DEFINE Here == {r \in DOMAIN pull : row[r] # Absent}
<1>1. pull \in Batch /\ row \in [Row -> Content]
  BY DEF TablesHold, TablesTyped
<1>2. Here \in SUBSET Row /\ \A r \in Here : pull[r] \in Content
  BY <1>1, BatchHas
<1>3. CASE UNCHANGED <<row, excused>>
  <2>1. row' = [r \in Row |-> IF r \in {} THEN [val |-> pull[r].val, ts |-> clock] ELSE row[r]]
    BY <1>1, <1>3
  <2> QED
    BY <1>3, <2>1
<1>4. CASE /\ row' = [r \in Row |-> IF r \in Here THEN [val |-> pull[r].val, ts |-> clock]
                                   ELSE row[r]]
           /\ excused' = IF Here = {} THEN excused ELSE Jumped(Here, clock)
  BY <1>2, <1>4
<1> QED
  BY <1>3, <1>4 DEF Apply

LEMMA ApplyHolds == ASSUME TablesHold, Apply PROVE TablesHold'
<1>1. PICK K \in SUBSET Row :
          /\ row' = [r \in Row |-> IF r \in K THEN [val |-> pull[r].val, ts |-> clock] ELSE row[r]]
          /\ \A r \in K : pull[r] \in Content
          /\ excused' = IF K = {} THEN excused ELSE Jumped(K, clock)
  BY ApplyWrites
<1>2. row' \in [Row -> Content]
  BY <1>1 DEF TablesHold, TablesTyped, Content
<1>3. excused' \subseteq Row
  BY <1>1, JumpsAreRows DEF TablesHold, TablesTyped
<1>4. DOMAIN checkpoint' = {"push", "pull"} /\ checkpoint'["push"] = checkpoint["push"]
  BY DEF Apply, SaveCheckpoint, TablesHold, TablesTyped
<1>5. pull' \in Batch /\ UNCHANGED <<entity, clock, edits, open, push, retry, cloudVars>>
  BY NothingIsBatch DEF Apply
<1> QED
  BY <1>2, <1>3, <1>4, <1>5 DEF TablesHold, TablesTyped, OneIsHeard, cloudVars

LEMMA TablesStart == Init => TablesHold
<1> SUFFICES ASSUME Init PROVE TablesHold
  OBVIOUS
<1>1. 0 \in Time /\ 0 \in Edit /\ Absent \in Content
  BY TableSyncAssumption DEF Time, Edit, Absent, Content
<1>2. clock \in Time
  BY TableSyncAssumption DEF Init, Time
<1> QED
  BY <1>1, <1>2, RestingFits, NothingIsBatch DEF Init, TablesHold, TablesTyped, OneIsHeard

LEMMA TablesStay == TablesHold /\ [Next]_vars => TablesHold'
<1> SUFFICES ASSUME TablesHold, [Next]_vars PROVE TablesHold'
  OBVIOUS
<1>1. CASE UNCHANGED vars
  BY <1>1 DEF vars, shopVars, agentVars, cloudVars, TablesHold, TablesTyped, OneIsHeard
<1>2. CASE \E r \in Row : ChangeBegin(r) \/ ChangeCommit(r) \/ ManagerEdits(r)
  BY <1>2, ChangeBeginHolds, ChangeCommitHolds, ManagerEditsHolds
<1>3. CASE PushStep
  BY <1>3, StartCycleHolds, PromoteHolds, ReplayHolds, PostBatchHolds, NothingDueHolds DEF PushStep
<1>4. CASE CloudStep
  BY <1>4, ReadRowsHolds, ServeHolds DEF CloudStep
<1>5. CASE PullStep
  BY <1>5, FetchHolds, ApplyHolds DEF PullStep
<1> QED
  BY <1>1, <1>2, <1>3, <1>4, <1>5, TickHolds, BreaksHolds, CrashHolds DEF Next

-----------------------------------------------------------------------------
(* What the checkpoint has passed.                                           *)

\* Two changes of one time on a whole millisecond are both excused.
TwinsAreExcused ==
    \A r, o \in Row : r # o /\ row[r].ts = row[o].ts /\ row[r].ts # 0 /\ row[r].ts % 2 = 0
                          => r \in excused

\* Of what the checkpoint will pass when the batch is answered, each change is
\* in the cloud, in the batch as it is in the shop, or excused.
BatchCovers ==
    push.pc = "post" =>
        \A r \in Row : row[r].ts <= ToMillisecond(Latest(push.item.rows)) =>
            \/ r \in excused \/ applied[r] >= row[r].val
            \/ r \in DOMAIN push.item.rows /\ row[r] = push.item.rows[r]

BehindHolds == TwinsAreExcused /\ BatchCovers /\ BehindCheckpoint

\* The excuses of the rows of K, which all change to the time ts.
LEMMA JumpedExcuses ==
    ASSUME TablesTyped, NEW K \in SUBSET Row, K # {}, NEW ts
    PROVE  /\ excused \ K \subseteq Jumped(K, ts)
           /\ Overtaken(ts) => K \subseteq Jumped(K, ts)
           /\ ts % 2 = 0 =>
                 \A r, o \in K \cup Twins(ts) : r # o => r \in Jumped(K, ts)
<1>1. ASSUME NEW r \in K \cup Twins(ts), NEW o \in K \cup Twins(ts), r # o
      PROVE  Cardinality(K \cup Twins(ts)) > 1
  <2>1. IsFiniteSet(K \cup Twins(ts))
    BY FS_Subset, TableSyncAssumption DEF Twins
  <2>2. {r, o} \subseteq K \cup Twins(ts) /\ IsFiniteSet({r, o})
    BY <1>1, <2>1, FS_Subset
  <2>3. Cardinality({r, o}) = 2
    <3>1. {r, o} = {r} \cup {o} /\ o \notin {r}
      BY <1>1
    <3>2. IsFiniteSet({r}) /\ Cardinality({r}) = 1
      BY FS_Singleton
    <3>3. Cardinality({r} \cup {o}) = 2
      BY <3>1, <3>2, FS_AddElement
    <3> QED
      BY <3>1, <3>3
  <2>4. Cardinality({r, o}) <= Cardinality(K \cup Twins(ts))
    BY <2>1, <2>2, FS_Subset
  <2>5. Cardinality(K \cup Twins(ts)) \in Nat
    BY <2>1, FS_CardinalityType
  <2> QED
    BY <2>3, <2>4, <2>5
<1>2. ASSUME ts % 2 = 0, NEW r \in K \cup Twins(ts), NEW o \in K \cup Twins(ts), r # o
      PROVE  r \in Jumped(K, ts)
  BY <1>1, <1>2 DEF Jumped
<1> QED
  BY <1>2 DEF Jumped

\* Rows of the shop change to the time ts.
LEMMA ChangesStayBehind ==
    ASSUME TablesHold, BehindHolds, NEW K \in SUBSET Row, K # {}, NEW ts \in Time,
           row' \in [Row -> Content],
           \A r \in K : row'[r].ts = ts, \A r \in Row \ K : row'[r] = row[r],
           excused' = Jumped(K, ts),
           UNCHANGED <<push, applied>>, checkpoint'["push"] = checkpoint["push"]
    PROVE  BehindHolds'
<1>1. TablesTyped /\ ts \in Nat /\ \A r \in Row : row[r].ts \in Nat
  BY DEF TablesHold, TablesTyped, Content, Time
<1>2. /\ excused \ K \subseteq excused' /\ (Overtaken(ts) => K \subseteq excused')
      /\ ts % 2 = 0 => \A r, o \in K \cup Twins(ts) : r # o => r \in excused'
  BY <1>1, JumpedExcuses
<1>3. ASSUME NEW r \in Row, NEW o \in Row, r # o, row'[r].ts = row'[o].ts, row'[r].ts # 0,
             row'[r].ts % 2 = 0
      PROVE  r \in excused'
  <2>1. CASE r \notin K /\ o \notin K
    BY <1>2, <1>3, <2>1 DEF BehindHolds, TwinsAreExcused
  <2>2. CASE r \in K \/ o \in K
    <3>1. row'[r].ts = ts
      BY <1>3, <2>2
    <3>2. {r, o} \subseteq K \cup Twins(ts)
      BY <1>3, <3>1 DEF Twins
    <3> QED
      BY <1>2, <1>3, <3>1, <3>2
  <2> QED
    BY <2>1, <2>2
<1>4. ASSUME NEW r \in Row, row'[r].ts <= checkpoint["push"]
      PROVE  applied[r] >= row'[r].val \/ r \in excused'
  <2>1. CASE r \in K
    BY <1>2, <1>4, <2>1 DEF Overtaken
  <2>2. CASE r \notin K
    BY <1>2, <1>4, <2>2 DEF BehindHolds, BehindCheckpoint
  <2> QED
    BY <2>1, <2>2
<1>5. ASSUME push.pc = "post", NEW r \in Row, row'[r].ts <= ToMillisecond(Latest(push.item.rows))
      PROVE  \/ r \in excused' \/ applied[r] >= row'[r].val
             \/ r \in DOMAIN push.item.rows /\ row'[r] = push.item.rows[r]
  <2>1. CASE r \in K
    <3>1. push.item.rows \in Batch /\ DOMAIN push.item.rows # {}
      BY <1>5 DEF TablesHold, TablesTyped, OneIsHeard, Parcel
    <3>2. PICK latest : latest = Latest(push.item.rows)
      OBVIOUS
    <3>3. latest \in Time
      BY <3>1, <3>2, LatestOf
    <3>4. ToMillisecond(latest) \in Time /\ ToMillisecond(latest) <= latest
      BY <3>3, MillisecondOf
    <3>5. ts <= latest
      BY <1>1, <1>5, <2>1, <3>2, <3>3, <3>4 DEF Time
    <3> QED
      BY <1>2, <1>5, <2>1, <3>2, <3>5 DEF Overtaken
  <2>2. CASE r \notin K
    BY <1>2, <1>5, <2>2 DEF BehindHolds, BatchCovers
  <2> QED
    BY <2>1, <2>2
<1> QED
  BY <1>3, <1>4, <1>5 DEF BehindHolds, TwinsAreExcused, BatchCovers, BehindCheckpoint

\* Steps in which no row changes, no checkpoint moves and no batch is posted.
LEMMA OthersStayBehind ==
    ASSUME TablesHold, BehindHolds, UNCHANGED <<row, checkpoint, excused>>,
           \A r \in Row : applied'[r] \in Edit /\ applied'[r] >= applied[r],
           push'.pc = "post" => UNCHANGED push
    PROVE  BehindHolds'
<1>1. \A r \in Row : applied[r] \in Int /\ applied'[r] \in Int /\ row[r].val \in Int
  BY DEF TablesHold, TablesTyped, Content, Edit
<1>2. \A r \in Row : applied[r] >= row[r].val => applied'[r] >= row[r].val
  BY <1>1
<1>3. BatchCovers'
  BY <1>2 DEF BehindHolds, BatchCovers
<1> QED
  BY <1>2, <1>3 DEF BehindHolds, TwinsAreExcused, BehindCheckpoint

\* A batch is posted: the earliest rows after the checkpoint.
LEMMA PostBatchStaysBehind ==
    ASSUME TablesHold, BehindHolds, PostBatch
    PROVE  BehindHolds'
<1>1. PICK b \in FirstOf(row, checkpoint["push"]) :
          push' = [Resting EXCEPT !.pc = "post",
                !.item = [key |-> <<checkpoint["push"], Cardinality(b)>>,
                          rows |-> [r \in b |-> row[r]], tries |-> 0]]
  BY DEF PostBatch
<1>2. PICK f : f = [r \in b |-> row[r]]
  OBVIOUS
<1>3. /\ b \subseteq Row /\ b # {}
      /\ \A r \in b : row[r].ts > checkpoint["push"]
      /\ \A r \in b, o \in Row \ b : row[o].ts > checkpoint["push"] => row[r].ts <= row[o].ts
  BY DEF FirstOf, Due
<1>4. f \in Batch /\ DOMAIN f = b /\ \A r \in b : f[r] = row[r]
  BY <1>2, <1>3, BatchOf DEF TablesHold, TablesTyped
<1>5. push'.item.rows = f
  BY <1>1, <1>2 DEF Resting
<1>6. /\ Latest(f) \in Time /\ \A r \in b : row[r].ts <= Latest(f)
  BY <1>3, <1>4, LatestOf
<1>7. PICK o \in b : row[o].ts = Latest(f)
  BY <1>3, <1>4, LatestOf
<1>8. PICK latest : latest = Latest(f)
  OBVIOUS
<1>9. /\ latest \in Nat /\ ToMillisecond(latest) \in Nat /\ ToMillisecond(latest) <= latest
      /\ latest % 2 # 0 => ToMillisecond(latest) < latest
      /\ checkpoint["push"] \in Nat
      /\ \A r \in Row : row[r].ts \in Nat
  BY <1>6, <1>8, MillisecondOf DEF Time, TablesHold, TablesTyped, Content
<1>10. ASSUME NEW r \in Row, row[r].ts <= ToMillisecond(latest)
       PROVE  \/ r \in excused \/ applied[r] >= row[r].val
              \/ r \in DOMAIN f /\ row[r] = f[r]
  <2>1. CASE r \in b
    BY <1>4, <2>1
  <2>2. CASE row[r].ts <= checkpoint["push"]
    BY <2>2 DEF BehindHolds, BehindCheckpoint
  <2>3. CASE r \notin b /\ row[r].ts > checkpoint["push"]
    <3>1. row[o].ts <= row[r].ts /\ row[o].ts = latest
      BY <1>3, <1>7, <1>8, <2>3
    <3>2. row[r].ts = latest /\ latest % 2 = 0 /\ latest # 0
      BY <1>9, <1>10, <2>3, <3>1
    <3> QED
      BY <1>3, <1>7, <2>3, <3>1, <3>2 DEF BehindHolds, TwinsAreExcused
  <2> QED
    BY <1>9, <2>1, <2>2, <2>3
<1>11. UNCHANGED <<row, checkpoint, applied, excused>>
  BY DEF PostBatch, shopVars
<1> QED
  BY <1>5, <1>8, <1>10, <1>11 DEF BehindHolds, TwinsAreExcused, BatchCovers, BehindCheckpoint

\* An answer arrives: what the checkpoint passes was in the batch or is excused.
LEMMA ServeStaysBehind ==
    ASSUME TablesHold, BehindHolds, NEW c \in sent, Serve(c)
    PROVE  BehindHolds'
<1>1. /\ UNCHANGED row /\ TablesTyped /\ OneIsHeard
      /\ \A r \in Row : applied'[r] \in Edit /\ applied'[r] >= applied[r]
  BY ServeWrites DEF Serve, shopVars, TablesHold
<1>2. CASE ~c.heard
  <2>1. UNCHANGED <<push, checkpoint, excused>>
    BY <1>2 DEF Serve
  <2> QED
    BY <1>1, <2>1, OthersStayBehind
<1>3. CASE c.heard
  <2>1. /\ Hears /\ push.pc \in {"replay", "post"} /\ c.rows = push.item.rows
        /\ excused' = excused \cup Dropped(c)
    BY <1>1, <1>3 DEF Serve, OneIsHeard
  <2>2. /\ push'.pc \in {"idle", "drain"}
        /\ checkpoint'["push"] = IF push.pc = "post" THEN ToMillisecond(Latest(push.item.rows))
                                 ELSE checkpoint["push"]
    BY <1>1, <2>1, HearsFits
  <2>3. \A r \in Row : applied[r] \in Int /\ applied'[r] \in Int /\ row[r].val \in Int
    BY <1>1 DEF TablesTyped, Content, Edit
  <2>4. ASSUME NEW r \in Row, row[r].ts <= checkpoint'["push"]
        PROVE  applied'[r] >= row[r].val \/ r \in excused'
    <3>1. CASE applied[r] >= row[r].val \/ r \in excused
      BY <1>1, <2>1, <2>3, <3>1
    <3>2. CASE r \in DOMAIN c.rows /\ row[r] = c.rows[r]
      BY <2>1, <2>3, <3>2 DEF Dropped
    <3> QED
      BY <2>1, <2>2, <2>4, <3>1, <3>2 DEF BehindHolds, BehindCheckpoint, BatchCovers
  <2> QED
    BY <1>1, <2>1, <2>2, <2>4 DEF BehindHolds, TwinsAreExcused, BatchCovers, BehindCheckpoint
<1> QED
  BY <1>1, <1>2, <1>3

LEMMA BehindStarts == Init => BehindHolds
  BY DEF Init, BehindHolds, TwinsAreExcused, BatchCovers, BehindCheckpoint, Absent, Resting

LEMMA BehindStays == TablesHold /\ BehindHolds /\ [Next]_vars => BehindHolds'
<1> SUFFICES ASSUME TablesHold, BehindHolds, [Next]_vars PROVE BehindHolds'
  OBVIOUS
<1>1. \A r \in Row : applied[r] \in Edit /\ applied[r] >= applied[r]
  BY DEF TablesHold, TablesTyped, Edit
<1>2. CASE \/ UNCHANGED vars \/ Tick \/ Fetch
           \/ \E r \in Row : ChangeBegin(r) \/ ManagerEdits(r)
           \/ \E c \in sent : ReadRows(c)
  <2>1. UNCHANGED <<row, checkpoint, excused, applied, push>>
    BY <1>2 DEF vars, Tick, Fetch, ChangeBegin, ManagerEdits, ReadRows, shopVars, agentVars, cloudVars
  <2> QED
    BY <1>1, <2>1, OthersStayBehind
<1>3. ASSUME NEW r \in Row, ChangeCommit(r) PROVE BehindHolds'
  <2> DEFINE K == {r}
  <2>1. row'[r].ts = open[r] /\ \A o \in Row \ {r} : row'[o] = row[o]
    BY <1>3 DEF ChangeCommit, TablesHold, TablesTyped
  <2>2. row' \in [Row -> Content] /\ open[r] \in Time
    BY <1>3, ChangeCommitHolds DEF TablesHold, TablesTyped
  <2>3. UNCHANGED <<push, applied, checkpoint>> /\ excused' = Jumped({r}, open[r])
    BY <1>3 DEF ChangeCommit, agentVars, cloudVars
  <2> QED
    BY <2>1, <2>2, <2>3, ChangesStayBehind
<1>4. CASE Apply
  <2>1. PICK K \in SUBSET Row :
            /\ row' = [r \in Row |-> IF r \in K THEN [val |-> pull[r].val, ts |-> clock] ELSE row[r]]
            /\ \A r \in K : pull[r] \in Content
            /\ excused' = IF K = {} THEN excused ELSE Jumped(K, clock)
    BY <1>4, ApplyWrites
  <2>2. UNCHANGED <<push, applied>> /\ checkpoint'["push"] = checkpoint["push"]
    BY <1>4 DEF Apply, SaveCheckpoint, TablesHold, TablesTyped, cloudVars
  <2>3. CASE K = {}
    <3>1. \A r \in Row : row'[r] = row[r]
      BY <2>1, <2>3
    <3>2. UNCHANGED excused
      BY <2>1, <2>3
    <3> QED
      BY <2>2, <3>1, <3>2 DEF BehindHolds, TwinsAreExcused, BatchCovers, BehindCheckpoint
  <2>4. CASE K # {}
    <3>1. row' \in [Row -> Content] /\ clock \in Time
      BY <1>4, ApplyHolds DEF TablesHold, TablesTyped
    <3>2. (\A r \in K : row'[r].ts = clock) /\ (\A r \in Row \ K : row'[r] = row[r])
      BY <2>1
    <3> QED
      BY <2>1, <2>2, <2>4, <3>1, <3>2, ChangesStayBehind
  <2> QED
    BY <2>3, <2>4
<1>5. CASE StartCycle \/ Promote \/ Replay \/ NothingDue \/ Crash
  <2>1. UNCHANGED <<row, checkpoint, excused, applied>> /\ push'.pc # "post"
    BY <1>5, RestingFits DEF StartCycle, Promote, Replay, NothingDue, Crash, shopVars, cloudVars,
       TablesHold, TablesTyped
  <2> QED
    BY <1>1, <2>1, OthersStayBehind
<1>6. CASE Breaks
  <2>1. TablesTyped /\ Fails /\ push.pc \in {"replay", "post"}
    BY <1>6 DEF Breaks, TablesHold, OneIsHeard
  <2>2. push'.pc \in {"idle", "drain"}
    BY <2>1, FailsFits
  <2>3. UNCHANGED <<row, checkpoint, excused, applied>>
    BY <1>6 DEF Breaks, shopVars
  <2> QED
    BY <1>1, <2>2, <2>3, OthersStayBehind
<1> QED
  BY <1>2, <1>3, <1>4, <1>5, <1>6, PostBatchStaysBehind, ServeStaysBehind
  DEF Next, PushStep, CloudStep, PullStep

LEMMA TablesAlwaysHold == Spec => []TablesHold
  BY TablesStart, TablesStay, PTL DEF Spec

(* What lies before the checkpoint of the pushes is in the cloud, but for    *)
(* the changes named in excused (syncEntity, saveCheckpoint, sync_products,  *)
(* sync_customers).                                                          *)
THEOREM CheckpointsCover == Spec => []BehindCheckpoint
<1>1. Init => TablesHold /\ BehindHolds
  BY TablesStart, BehindStarts
<1>2. (TablesHold /\ BehindHolds) /\ [Next]_vars => (TablesHold /\ BehindHolds)'
  BY TablesStay, BehindStays
<1>3. TablesHold /\ BehindHolds => BehindCheckpoint
  BY DEF BehindHolds
<1> QED
  BY <1>1, <1>2, <1>3, PTL DEF Spec

-----------------------------------------------------------------------------
(* No customer goes back.                                                    *)

\* The batches in the queue, in the loop and in the cloud.
LoadsOf(items) == {items[n].rows : n \in DOMAIN items}
Loads == LoadsOf(retry) \cup LoadsOf(push.todo) \cup {push.item.rows} \cup {c.rows : c \in sent}

\* The contents of r that are in the shop or on their way to the cloud.
Copies(r) == {row[r]} \cup {f[r] : f \in {g \in Loads : r \in DOMAIN g}}

\* Edits of a row come one after the other, and so do their times.
InOrder(r) ==
    /\ \A x, y \in Copies(r) : x.val < y.val => x.ts <= y.ts
    /\ \A x \in Copies(r) : x.val <= edits /\ x.ts <= clock /\ (open[r] # 0 => x.ts <= open[r])
    /\ open[r] <= clock

\* Contents m of the cloud's row r are later than all they were made from.
Later(r, m) ==
    /\ m \in Content /\ m.val <= edits /\ m.ts <= clock
    /\ m = Absent => applied[r] = 0
    /\ \A x \in Copies(r) : x.val < applied[r] \/ x.val = m.val => x.ts <= m.ts

\* The only request that has read compares with what it read, not with what is there.
ReadsInOrder ==
    /\ \A c \in sent : c.pc = "read" =>
          \A r \in DOMAIN c.rows : /\ Later(r, c.read[r]) /\ c.read[r].ts <= cloud[r].ts
                                   /\ c.read[r] # Absent => cloud[r] # Absent
    /\ \A c, d \in sent : c.pc = "read" /\ d.pc = "read" => c = d

CloudInOrder ==
    /\ \A r \in Row : Later(r, cloud[r]) /\ applied[r] <= edits
    /\ ReadsInOrder

CustomersHold ==
    entity = "customers" =>
        /\ pull = <<>> /\ clock > 0
        /\ \A r \in Row : InOrder(r)
        /\ ~raced => CloudInOrder

LEMMA CopiesAreContents ==
    ASSUME TablesHold, NEW r \in Row
    PROVE  Copies(r) \subseteq Content
<1>1. ASSUME NEW f \in Loads PROVE f \in Batch
  <2>1. \A i \in Parcel : i.rows \in Batch
    BY DEF Parcel
  <2>2. ASSUME NEW s \in Seq(Parcel) PROVE LoadsOf(s) \subseteq Batch
    <3>1. \A n \in DOMAIN s : s[n] \in Parcel
      OBVIOUS
    <3> QED
      BY <2>1, <3>1 DEF LoadsOf
  <2>3. retry \in Seq(Parcel) /\ push.todo \in Seq(Parcel) /\ push.item \in Parcel
    BY DEF TablesHold, TablesTyped
  <2>4. \A c \in sent : c.rows \in Batch
    BY DEF TablesHold, TablesTyped, Request
  <2> QED
    BY <1>1, <2>1, <2>2, <2>3, <2>4 DEF Loads
<1>2. ASSUME NEW f \in Loads, r \in DOMAIN f PROVE f[r] \in Content
  BY <1>1, <1>2, BatchHas
<1> QED
  BY <1>2 DEF Copies, TablesHold, TablesTyped

\* The batches of a queue without one item were in it before.
LEMMA WithoutLoads ==
    ASSUME NEW items \in Seq(Parcel), NEW key
    PROVE  LoadsOf(Without(items, key)) \subseteq LoadsOf(items)
<1> DEFINE S == {items[n] : n \in DOMAIN items}
           rest == Without(items, key)
<1>1. items \in Seq(S)
  OBVIOUS
<1> HIDE DEF S
<1>2. rest \in Seq(S)
  BY <1>1, WithoutKeeps
<1> HIDE DEF rest
<1>3. \A n \in DOMAIN rest : rest[n] \in S
  BY <1>2
<1> QED
  BY <1>3 DEF LoadsOf, S, rest

LEMMA TailLoads ==
    ASSUME NEW items \in Seq(Parcel), items # <<>>
    PROVE  /\ LoadsOf(Tail(items)) \subseteq LoadsOf(items)
           /\ Head(items).rows \in LoadsOf(items)
<1>1. \A n \in DOMAIN Tail(items) : Tail(items)[n] = items[n + 1] /\ n + 1 \in DOMAIN items
  OBVIOUS
<1>2. Head(items) = items[1] /\ 1 \in DOMAIN items
  OBVIOUS
<1> QED
  BY <1>1, <1>2 DEF LoadsOf

\* A batch brings no contents but those there are.
Known(f) == f \in Loads \/ f = <<>> \/ \A r \in DOMAIN f : f[r] = row[r]

LEMMA CopiesStay ==
    ASSUME NEW r, row'[r] = row[r], \A f \in Loads' : Known(f)
    PROVE  Copies(r)' \subseteq Copies(r)
<1>1. DOMAIN <<>> = {}
  OBVIOUS
<1> QED
  BY <1>1 DEF Copies, Known

\* What the failure of a request leaves in the queue.
LEMMA FailsLoads ==
    ASSUME TablesTyped, Fails, push.pc \in {"replay", "post"}, {c.rows : c \in sent'} \subseteq Loads
    PROVE  \A f \in Loads' : Known(f)
<1>1. CASE push.pc = "replay"
  <2>1. push' = [push EXCEPT !.pc = "drain", !.item = NoItem]
        /\ retry' = [n \in DOMAIN retry |->
                        IF retry[n].key = push.item.key
                        THEN [retry[n] EXCEPT !.tries = @ + 1] ELSE retry[n]]
    BY <1>1 DEF Fails
  <2>2. push'.todo = push.todo /\ push'.item = NoItem
    BY <2>1 DEF TablesTyped
  <2>3. DOMAIN retry' = DOMAIN retry
    BY <2>1
  <2>4. ASSUME NEW n \in DOMAIN retry PROVE retry'[n].rows = retry[n].rows
    <3>1. retry[n] \in Parcel
      BY <2>4 DEF TablesTyped
    <3> QED
      BY <2>1, <3>1 DEF Parcel
  <2>5. LoadsOf(retry)' = LoadsOf(retry)
    BY <2>3, <2>4 DEF LoadsOf
  <2> QED
    BY <2>2, <2>5, NoItemIsParcel DEF Loads, Known, LoadsOf
<1>2. CASE push.pc = "post"
  <2>1. push' = Resting
        /\ retry' = IF \E n \in DOMAIN retry : retry[n].key = push.item.key
                    THEN retry ELSE Append(retry, push.item)
    BY <1>2 DEF Fails
  <2>2. LoadsOf(retry)' \subseteq LoadsOf(retry) \cup {push.item.rows}
    BY <2>1 DEF LoadsOf, TablesTyped
  <2>3. LoadsOf(<<>>) = {}
    BY DEF LoadsOf
  <2>4. LoadsOf(push.todo)' = {} /\ push'.item.rows = <<>>
    BY <2>1, <2>3, RestingFits, NoItemIsParcel DEF LoadsOf
  <2> QED
    BY <2>2, <2>4 DEF Loads, Known
<1> QED
  BY <1>1, <1>2

LEMMA HearsLoads ==
    ASSUME TablesTyped, Hears, push.pc \in {"replay", "post"}, {c.rows : c \in sent'} \subseteq Loads
    PROVE  \A f \in Loads' : Known(f)
<1>1. CASE push.pc = "replay"
  <2>1. /\ push' = [push EXCEPT !.pc = "drain", !.item = NoItem]
        /\ retry' = Without(retry, push.item.key)
    BY <1>1 DEF Hears
  <2>2. push'.todo = push.todo /\ push'.item = NoItem
    BY <2>1 DEF TablesTyped
  <2>3. LoadsOf(retry)' \subseteq LoadsOf(retry)
    <3>1. LoadsOf(Without(retry, push.item.key)) \subseteq LoadsOf(retry)
      BY WithoutLoads DEF TablesTyped
    <3> QED
      BY <2>1, <3>1 DEF LoadsOf
  <2> QED
    BY <2>2, <2>3, NoItemIsParcel DEF Loads, Known, LoadsOf
<1>2. CASE push.pc = "post"
  <2>1. push' = Resting /\ UNCHANGED retry
    BY <1>2 DEF Hears
  <2>2. LoadsOf(<<>>) = {}
    BY DEF LoadsOf
  <2>3. LoadsOf(push.todo)' = {} /\ push'.item.rows = <<>> /\ LoadsOf(retry)' = LoadsOf(retry)
    BY <2>1, <2>2, RestingFits, NoItemIsParcel DEF LoadsOf
  <2> QED
    BY <2>3 DEF Loads, Known
<1> QED
  BY <1>1, <1>2

\* No step of the agent or the cloud brings new contents.
LEMMA LoadsAreKnown ==
    ASSUME TablesHold, PushStep \/ CloudStep \/ Breaks \/ Crash
    PROVE  \A f \in Loads' : Known(f)
<1>1. TablesTyped /\ retry \in Seq(Parcel) /\ push.todo \in Seq(Parcel) /\ push.item \in Parcel
      /\ \A c \in sent : c.rows \in Loads
  BY DEF TablesHold, TablesTyped, Loads
<1>2. LoadsOf(<<>>) = {}
  BY DEF LoadsOf
<1>3. CASE StartCycle
  <2>1. push'.todo = retry /\ push'.item = push.item /\ UNCHANGED <<retry, sent>>
    BY <1>1, <1>3 DEF StartCycle, cloudVars, TablesTyped
  <2> QED
    BY <2>1 DEF Loads, LoadsOf, Known
<1>4. CASE Promote
  <2>1. push'.todo = Tail(push.todo) /\ push'.item = push.item /\ UNCHANGED sent
        /\ retry' = Without(retry, Head(push.todo).key) /\ push.todo # <<>>
    BY <1>1, <1>4 DEF Promote, cloudVars, TablesTyped
  <2>2. LoadsOf(retry)' \subseteq LoadsOf(retry) /\ LoadsOf(push.todo)' \subseteq LoadsOf(push.todo)
    <3>1. LoadsOf(Without(retry, Head(push.todo).key)) \subseteq LoadsOf(retry)
      BY <1>1, WithoutLoads
    <3>2. LoadsOf(Tail(push.todo)) \subseteq LoadsOf(push.todo)
      BY <1>1, <2>1, TailLoads
    <3> QED
      BY <2>1, <3>1, <3>2 DEF LoadsOf
  <2> QED
    BY <2>1, <2>2 DEF Loads, Known
<1>5. CASE Replay
  <2>1. push'.todo = Tail(push.todo) /\ push'.item = Head(push.todo) /\ UNCHANGED retry
        /\ push.todo # <<>>
        /\ sent' = sent \cup {[rows |-> Head(push.todo).rows, pc |-> "begin", read |-> <<>>, heard |-> TRUE]}
    BY <1>1, <1>5 DEF Replay, Post, TablesTyped
  <2>2. LoadsOf(push.todo)' \subseteq LoadsOf(push.todo) /\ Head(push.todo).rows \in LoadsOf(push.todo)
        /\ LoadsOf(retry)' = LoadsOf(retry)
    BY <1>1, <2>1, TailLoads DEF LoadsOf
  <2>3. {c.rows : c \in sent'} \subseteq {c.rows : c \in sent} \cup {Head(push.todo).rows}
    BY <2>1
  <2> QED
    BY <2>1, <2>2, <2>3 DEF Loads, Known
<1>6. CASE PostBatch
  <2>1. PICK b \in FirstOf(row, checkpoint["push"]) :
            LET rows == [r \in b |-> row[r]] IN
            /\ Post(rows)
            /\ push' = [Resting EXCEPT !.pc = "post",
                  !.item = [key |-> <<checkpoint["push"], Cardinality(b)>>,
                            rows |-> rows, tries |-> 0]]
    BY <1>6 DEF PostBatch
  <2>2. PICK g : g = [r \in b |-> row[r]]
    OBVIOUS
  <2>3. \A r \in DOMAIN g : g[r] = row[r]
    BY <2>2
  <2>4. push'.todo = <<>> /\ push'.item.rows = g
    BY <2>1, <2>2 DEF Resting
  <2>5. sent' = sent \cup {[rows |-> g, pc |-> "begin", read |-> <<>>, heard |-> TRUE]}
    BY <2>1, <2>2 DEF Post
  <2>6. {c.rows : c \in sent'} \subseteq {c.rows : c \in sent} \cup {g}
    BY <2>5
  <2>7. LoadsOf(retry)' = LoadsOf(retry) /\ LoadsOf(push.todo)' = {}
    BY <1>2, <1>6, <2>4 DEF PostBatch, LoadsOf
  <2> QED
    BY <2>3, <2>4, <2>6, <2>7 DEF Loads, Known
<1>7. CASE NothingDue
  <2>1. push' = Resting /\ UNCHANGED <<retry, sent>>
    BY <1>7 DEF NothingDue, cloudVars
  <2>2. LoadsOf(push.todo)' = {} /\ push'.item.rows = <<>> /\ LoadsOf(retry)' = LoadsOf(retry)
    BY <1>2, <2>1, RestingFits, NoItemIsParcel DEF LoadsOf
  <2> QED
    BY <2>1, <2>2 DEF Loads, Known
<1>8. ASSUME NEW c \in sent, ReadRows(c) PROVE \A f \in Loads' : Known(f)
  <2>1. PICK d : d = [c EXCEPT !.pc = "read", !.read = [r \in DOMAIN c.rows |-> cloud[r]]]
    OBVIOUS
  <2>2. c \in Request
    BY DEF TablesHold, TablesTyped
  <2>3. d.rows = c.rows
    BY <2>1, <2>2 DEF Request
  <2>4. sent' = (sent \ {c}) \cup {d} /\ UNCHANGED <<push, retry>>
    BY <1>8, <2>1 DEF ReadRows, agentVars
  <2> QED
    BY <2>3, <2>4 DEF Loads, LoadsOf, Known
<1>9. ASSUME NEW c \in sent, Serve(c) PROVE \A f \in Loads' : Known(f)
  <2>1. sent' = sent \ {c}
    BY <1>9 DEF Serve
  <2>2. {d.rows : d \in sent'} \subseteq Loads
    BY <1>1, <2>1
  <2>3. CASE c.heard
    BY <1>1, <1>9, <2>2, <2>3, HearsLoads DEF Serve, TablesHold, OneIsHeard
  <2>4. CASE ~c.heard
    <3>1. UNCHANGED <<push, retry>>
      BY <1>9, <2>4 DEF Serve
    <3> QED
      BY <2>1, <3>1 DEF Loads, LoadsOf, Known
  <2> QED
    BY <2>3, <2>4
<1>10. CASE Breaks
  <2>1. PICK c \in sent :
            /\ c.heard
            /\ \/ sent' = (sent \ {c}) \cup {[c EXCEPT !.heard = FALSE]}
               \/ sent' = sent \ {c}
    BY <1>10 DEF Breaks
  <2>2. PICK d : d = [c EXCEPT !.heard = FALSE]
    OBVIOUS
  <2>3. c \in Request
    BY DEF TablesHold, TablesTyped
  <2>4. d.rows = c.rows
    BY <2>2, <2>3 DEF Request
  <2>5. {e.rows : e \in sent'} \subseteq Loads
    BY <1>1, <2>1, <2>2, <2>4
  <2>6. Fails /\ push.pc \in {"replay", "post"}
    BY <1>10, <2>1 DEF Breaks, TablesHold, OneIsHeard
  <2> QED
    BY <1>1, <2>5, <2>6, FailsLoads
<1>11. CASE Crash
  <2>1. push' = Resting /\ UNCHANGED retry /\ sent' = {[c EXCEPT !.heard = FALSE] : c \in sent}
    BY <1>11 DEF Crash
  <2>2. ASSUME NEW e \in sent' PROVE e.rows \in {c.rows : c \in sent}
    <3>1. PICK c \in sent : e = [c EXCEPT !.heard = FALSE]
      BY <2>1
    <3>2. c \in Request
      BY DEF TablesHold, TablesTyped
    <3> QED
      BY <3>1, <3>2 DEF Request
  <2>3. LoadsOf(push.todo)' = {} /\ push'.item.rows = <<>> /\ LoadsOf(retry)' = LoadsOf(retry)
    BY <1>2, <2>1, RestingFits, NoItemIsParcel DEF LoadsOf
  <2> QED
    BY <2>2, <2>3 DEF Loads, Known
<1> QED
  BY <1>3, <1>4, <1>5, <1>6, <1>7, <1>8, <1>9, <1>10, <1>11 DEF PushStep, CloudStep

LEMMA ContentsAreNumbers ==
    /\ \A x \in Content : x.val \in Nat /\ x.ts \in Nat
    /\ \A v \in Edit, t \in Time : /\ [val |-> v, ts |-> t] \in Content
                                   /\ v # 0 \/ t # 0 => [val |-> v, ts |-> t] # Absent
<1>1. Edit \subseteq Nat /\ Time \subseteq Nat
  BY TableSyncAssumption DEF Edit, Time
<1>2. ASSUME NEW v \in Edit, NEW t \in Time, v # 0 \/ t # 0
      PROVE  [val |-> v, ts |-> t] # Absent
  <2>1. [val |-> v, ts |-> t].val = v /\ [val |-> v, ts |-> t].ts = t
    OBVIOUS
  <2>2. Absent.val = 0 /\ Absent.ts = 0
    BY DEF Absent
  <2> QED
    BY <1>2, <2>1, <2>2
<1> QED
  BY <1>1, <1>2 DEF Content

LEMMA CountsAreNumbers ==
    ASSUME TablesTyped
    PROVE  /\ edits \in Nat /\ clock \in Nat
           /\ \A r \in Row : applied[r] \in Nat /\ open[r] \in Nat
           /\ \A r \in Row : cloud[r] \in Content /\ row[r] \in Content
<1>1. Edit \subseteq Nat /\ Time \subseteq Nat
  BY TableSyncAssumption DEF Edit, Time
<1> QED
  BY <1>1 DEF TablesTyped

\* Without a change of the shop, the order of the contents stays.
LEMMA OrderStays ==
    ASSUME TablesHold, TablesHold', \A r \in Row : InOrder(r),
           UNCHANGED <<row, open>>, edits' >= edits, clock' >= clock,
           \A f \in Loads' : Known(f)
    PROVE  \A r \in Row : InOrder(r)'
<1> SUFFICES ASSUME NEW r \in Row PROVE InOrder(r)'
  OBVIOUS
<1>1. Copies(r)' \subseteq Copies(r)
  BY CopiesStay
<1>2. Copies(r) \subseteq Content
  BY CopiesAreContents
<1>3. \A x \in Copies(r)' : x \in Copies(r) /\ x.val \in Nat /\ x.ts \in Nat
  BY <1>1, <1>2, ContentsAreNumbers
<1>4. edits \in Nat /\ clock \in Nat /\ open[r] \in Nat /\ edits' \in Nat /\ clock' \in Nat
  BY CountsAreNumbers DEF TablesHold, TablesTyped, Edit, Time
<1> QED
  BY <1>3, <1>4 DEF InOrder

\* No edit that a push has brought is later than these contents.
Newer(r) == {x \in Content : x.val > edits}

\* Without a write to the cloud, what it holds stays later than the copies.
LEMMA CloudStays ==
    ASSUME TablesHold, TablesHold', CloudInOrder, UNCHANGED <<cloud, applied>>,
           edits' >= edits, clock' >= clock,
           \A r \in Row : Copies(r)' \subseteq Copies(r) \cup Newer(r),
           \A e \in sent' : e.pc = "read" =>
               \E c \in sent : c.pc = "read" /\ e.read = c.read /\ e.rows = c.rows,
           \A c, d \in sent' : c.pc = "read" /\ d.pc = "read" => c = d
    PROVE  CloudInOrder'
<1>1. edits \in Nat /\ clock \in Nat /\ edits' \in Nat /\ clock' \in Nat
      /\ \A r \in Row : applied[r] \in Nat
  BY CountsAreNumbers DEF TablesHold, TablesTyped, Edit, Time
<1>2. ASSUME NEW r \in Row, NEW m, Later(r, m) PROVE Later(r, m)'
  <2>1. m \in Content /\ m.val \in Nat /\ m.ts \in Nat /\ m.val <= edits /\ m.ts <= clock
    BY <1>2, ContentsAreNumbers DEF Later
  <2>2. ASSUME NEW x \in Copies(r)', x.val < applied[r] \/ x.val = m.val PROVE x.ts <= m.ts
    <3>1. applied[r] <= edits
      BY DEF CloudInOrder
    <3>2. CASE x \in Newer(r)
      BY <1>1, <2>1, <2>2, <3>1, <3>2, ContentsAreNumbers DEF Newer
    <3>3. CASE x \in Copies(r)
      BY <1>2, <2>2, <3>3 DEF Later
    <3> QED
      BY <2>2, <3>2, <3>3
  <2> QED
    BY <1>1, <1>2, <2>1, <2>2 DEF Later
<1>3. \A r \in Row : Later(r, cloud[r])' /\ applied'[r] <= edits'
  <2> SUFFICES ASSUME NEW r \in Row PROVE Later(r, cloud[r])' /\ applied'[r] <= edits'
    OBVIOUS
  <2>1. PICK m : m = cloud[r]
    OBVIOUS
  <2>2. Later(r, m)'
    BY <1>2, <2>1 DEF CloudInOrder
  <2> QED
    BY <1>1, <2>1, <2>2 DEF Later, CloudInOrder
<1>4. ReadsInOrder'
  <2>1. ASSUME NEW e \in sent', e.pc = "read", NEW r \in DOMAIN e.rows
        PROVE  /\ Later(r, e.read[r])' /\ e.read[r].ts <= cloud'[r].ts
               /\ e.read[r] # Absent => cloud'[r] # Absent
    <3>1. PICK c \in sent : c.pc = "read" /\ e.read = c.read /\ e.rows = c.rows
      BY <2>1
    <3>2. r \in Row
      BY <2>1, BatchHas DEF TablesHold, TablesTyped, Request
    <3>3. PICK m : m = c.read[r]
      OBVIOUS
    <3>4. Later(r, m) /\ m.ts <= cloud[r].ts /\ (m # Absent => cloud[r] # Absent)
      BY <2>1, <3>1, <3>3 DEF CloudInOrder, ReadsInOrder
    <3>5. Later(r, m)'
      BY <1>2, <3>2, <3>4
    <3> QED
      BY <3>1, <3>3, <3>4, <3>5 DEF Later
  <2> QED
    BY <2>1 DEF ReadsInOrder
<1> QED
  BY <1>3, <1>4 DEF CloudInOrder

LEMMA CopiesIfUnchanged ==
    ASSUME UNCHANGED <<retry, push, sent>>
    PROVE  \A f \in Loads' : Known(f)
  BY DEF Loads, LoadsOf, Known

LEMMA TickInOrder ==
    ASSUME TablesHold, TablesHold', CustomersHold, Tick PROVE CustomersHold'
<1> SUFFICES ASSUME entity = "customers" PROVE CustomersHold'
  BY DEF Tick, CustomersHold
<1>1. UNCHANGED <<entity, edits, row, open, retry, push, sent, pull, cloud, applied, raced>>
  BY DEF Tick, shopVars, agentVars, cloudVars
<1>2. clock \in Nat /\ edits \in Nat
  BY CountsAreNumbers DEF TablesHold
<1>3. clock' = clock + 1 /\ clock' >= clock /\ clock' > 0 /\ edits' >= edits
  BY <1>1, <1>2 DEF Tick
<1>4. \A f \in Loads' : Known(f)
  BY <1>1, CopiesIfUnchanged
<1>5. \A r \in Row : InOrder(r)'
  BY <1>1, <1>3, <1>4, OrderStays DEF CustomersHold
<1>6. \A r \in Row : Copies(r)' \subseteq Copies(r) \cup Newer(r)
  BY <1>1, <1>4, CopiesStay
<1>7. ASSUME ~raced PROVE CloudInOrder'
  BY <1>1, <1>3, <1>6, <1>7, CloudStays DEF CustomersHold, CloudInOrder, ReadsInOrder
<1> QED
  BY <1>1, <1>3, <1>5, <1>7 DEF CustomersHold

LEMMA ChangeBeginInOrder ==
    ASSUME TablesHold, TablesHold', CustomersHold, NEW r \in Row, ChangeBegin(r)
    PROVE  CustomersHold'
<1> SUFFICES ASSUME entity = "customers" PROVE CustomersHold'
  BY DEF ChangeBegin, CustomersHold
<1>1. UNCHANGED <<entity, edits, clock, row, retry, push, sent, pull, cloud, applied, raced>>
      /\ open' = [open EXCEPT ![r] = clock]
  BY DEF ChangeBegin, agentVars, cloudVars
<1>2. clock \in Nat /\ edits \in Nat
  BY CountsAreNumbers DEF TablesHold
<1>3. \A f \in Loads' : Known(f)
  BY <1>1, CopiesIfUnchanged
<1>4. \A o \in Row : Copies(o)' \subseteq Copies(o)
  BY <1>1, <1>3, CopiesStay
<1>5. ASSUME NEW o \in Row PROVE InOrder(o)'
  <2>1. InOrder(o) /\ \A x \in Copies(o)' : x \in Copies(o)
    BY <1>4 DEF CustomersHold
  <2>2. open'[o] = open[o] \/ open'[o] = clock
    BY <1>1 DEF TablesHold, TablesTyped
  <2> QED
    BY <1>1, <1>2, <2>1, <2>2 DEF InOrder
<1>6. ASSUME ~raced PROVE CloudInOrder'
  BY <1>1, <1>2, <1>4, <1>6, CloudStays DEF CustomersHold, CloudInOrder, ReadsInOrder
<1> QED
  BY <1>1, <1>5, <1>6 DEF CustomersHold

LEMMA ChangeCommitInOrder ==
    ASSUME TablesHold, TablesHold', CustomersHold, NEW r \in Row, ChangeCommit(r)
    PROVE  CustomersHold'
<1> SUFFICES ASSUME entity = "customers" PROVE CustomersHold'
  BY DEF ChangeCommit, CustomersHold
<1>1. UNCHANGED <<entity, clock, retry, push, sent, pull, cloud, applied, raced>>
      /\ open[r] # 0 /\ edits' = edits + 1
  BY DEF ChangeCommit, agentVars, cloudVars
<1>2. PICK new : new = [val |-> edits + 1, ts |-> open[r]]
  OBVIOUS
<1>3. /\ \A o \in Row \ {r} : row'[o] = row[o] /\ open'[o] = open[o]
      /\ row'[r] = new /\ open'[r] = 0
  BY <1>2 DEF ChangeCommit, TablesHold, TablesTyped
<1>4. /\ clock \in Nat /\ edits \in Nat /\ \A o \in Row : open[o] \in Nat
      /\ new \in Content /\ new.val = edits + 1 /\ new.ts = open[r]
  <2>1. edits + 1 \in Edit /\ open[r] \in Time
    BY EditsCount DEF ChangeCommit, TablesHold, TablesTyped
  <2> QED
    BY <1>2, <2>1, CountsAreNumbers, ContentsAreNumbers DEF TablesHold
<1>5. Loads' = Loads
  BY <1>1 DEF Loads, LoadsOf
<1>6. \A o \in Row : Copies(o)' \subseteq Copies(o) \cup (IF o = r THEN {new} ELSE {})
  BY <1>3, <1>5 DEF Copies
<1>7. ASSUME NEW o \in Row PROVE InOrder(o)'
  <2>1. InOrder(o) /\ Copies(o) \subseteq Content
    BY CopiesAreContents DEF CustomersHold
  <2>2. \A x \in Copies(o) : x.val \in Nat /\ x.ts \in Nat /\ x.val <= edits /\ x.ts <= clock
    BY <2>1, ContentsAreNumbers DEF InOrder
  <2>3. CASE o # r
    BY <1>1, <1>3, <1>4, <1>6, <2>1, <2>2, <2>3 DEF InOrder
  <2>4. CASE o = r
    <3>1. \A x \in Copies(r) : x.ts <= open[r]
      BY <1>1, <2>1, <2>4 DEF InOrder
    <3>2. \A x \in Copies(r)' : x \in Copies(r) \/ x = new
      BY <1>6
    <3>3. \A x, y \in Copies(r)' : x.val < y.val => x.ts <= y.ts
      <4>1. \A x, y \in Copies(r) : x.val < y.val => x.ts <= y.ts
        BY <2>1, <2>4 DEF InOrder
      <4> QED
        BY <1>4, <2>2, <2>4, <3>1, <3>2, <4>1
    <3>4. open[r] <= clock
      BY <2>1, <2>4 DEF InOrder
    <3>5. \A x \in Copies(r)' : x.val <= edits' /\ x.ts <= clock'
      BY <1>1, <1>4, <2>2, <2>4, <3>2, <3>4
    <3> QED
      BY <1>1, <1>3, <1>4, <2>4, <3>3, <3>5 DEF InOrder
  <2> QED
    BY <2>3, <2>4
<1>8. ASSUME ~raced PROVE CloudInOrder'
  <2>1. new \in Newer(r)
    BY <1>4 DEF Newer
  <2>2. \A o \in Row : Copies(o)' \subseteq Copies(o) \cup Newer(o)
    BY <1>6, <2>1
  <2> QED
    BY <1>1, <1>4, <1>8, <2>2, CloudStays DEF CustomersHold, CloudInOrder, ReadsInOrder
<1> QED
  BY <1>1, <1>7, <1>8 DEF CustomersHold

\* The steps of the agent, and those of the cloud that write nothing.
LEMMA AgentInOrder ==
    ASSUME TablesHold, TablesHold', CustomersHold, UNCHANGED <<entity, row, open, edits, clock>>,
           pull' \in {pull, <<>>},
           \A f \in Loads' : Known(f), UNCHANGED <<cloud, applied>>, raced' = raced,
           \A e \in sent' : e.pc = "read" =>
               \E c \in sent : c.pc = "read" /\ e.read = c.read /\ e.rows = c.rows,
           (\A c, d \in sent : c.pc = "read" /\ d.pc = "read" => c = d)
               => \A x, y \in sent' : x.pc = "read" /\ y.pc = "read" => x = y
    PROVE  CustomersHold'
<1> SUFFICES ASSUME entity = "customers" PROVE CustomersHold'
  BY DEF CustomersHold
<1>1. clock \in Nat /\ edits \in Nat
  BY CountsAreNumbers DEF TablesHold
<1>2. \A r \in Row : InOrder(r)'
  BY <1>1, OrderStays DEF CustomersHold
<1>3. \A r \in Row : Copies(r)' \subseteq Copies(r) \cup Newer(r)
  BY CopiesStay
<1>4. ASSUME ~raced PROVE CloudInOrder'
  BY <1>1, <1>3, <1>4, CloudStays DEF CustomersHold, CloudInOrder, ReadsInOrder
<1> QED
  BY <1>2, <1>4 DEF CustomersHold

LEMMA AgentStepsInOrder ==
    ASSUME TablesHold, TablesHold', CustomersHold,
           PushStep \/ Breaks \/ Crash \/ \E c \in sent : Serve(c) /\ UNCHANGED <<cloud, applied>>
    PROVE  CustomersHold'
<1>1. \A f \in Loads' : Known(f)
  BY LoadsAreKnown DEF CloudStep
<1>2. CASE StartCycle \/ Promote \/ NothingDue
  <2>1. UNCHANGED <<entity, row, open, edits, clock, pull, cloud, applied, raced, sent>>
    BY <1>2 DEF StartCycle, Promote, NothingDue, shopVars, cloudVars
  <2> QED
    BY <1>1, <2>1, AgentInOrder
<1>3. CASE Replay \/ PostBatch
  <2>1. UNCHANGED <<entity, row, open, edits, clock, pull, cloud, applied, raced>>
    BY <1>3 DEF Replay, PostBatch, shopVars
  <2>2. PICK c : sent' = sent \cup {c} /\ c.pc = "begin"
    <3>1. PICK rows : Post(rows)
      BY <1>3 DEF Replay, PostBatch
    <3>2. PICK c : c = [rows |-> rows, pc |-> "begin", read |-> <<>>, heard |-> TRUE]
      OBVIOUS
    <3>3. sent' = sent \cup {c} /\ c.pc = "begin"
      BY <3>1, <3>2 DEF Post
    <3> QED
      BY <3>3
  <2>3. \A e \in sent' : e.pc = "read" => e \in sent
    BY <2>2
  <2> QED
    BY <1>1, <2>1, <2>3, AgentInOrder
<1>4. ASSUME NEW c \in sent, Serve(c), UNCHANGED <<cloud, applied>> PROVE CustomersHold'
  <2>1. UNCHANGED <<entity, row, open, edits, clock, pull, raced>> /\ sent' = sent \ {c}
    BY <1>4 DEF Serve, shopVars
  <2>2. \A e \in sent' : e \in sent
    BY <2>1
  <2> QED
    BY <1>1, <1>4, <2>1, <2>2, AgentInOrder
<1>5. CASE Breaks
  <2>1. UNCHANGED <<entity, row, open, edits, clock, pull, cloud, applied, raced>>
    BY <1>5 DEF Breaks, shopVars
  <2>2. PICK c \in sent :
            \/ sent' = (sent \ {c}) \cup {[c EXCEPT !.heard = FALSE]}
            \/ sent' = sent \ {c}
    BY <1>5 DEF Breaks
  <2>3. PICK d : d = [c EXCEPT !.heard = FALSE]
    OBVIOUS
  <2>4. d.pc = c.pc /\ d.read = c.read /\ d.rows = c.rows
    BY <2>3 DEF TablesHold, TablesTyped, Request
  <2>5. \A e \in sent' : (e \in sent /\ e # c) \/ e = d
    BY <2>2, <2>3
  <2>6. \A e \in sent' : e.pc = "read" =>
            \E g \in sent : g.pc = "read" /\ e.read = g.read /\ e.rows = g.rows
    BY <2>4, <2>5
  <2>7. (\A g, h \in sent : g.pc = "read" /\ h.pc = "read" => g = h)
        => \A x, y \in sent' : x.pc = "read" /\ y.pc = "read" => x = y
    BY <2>4, <2>5
  <2> QED
    BY <1>1, <2>1, <2>6, <2>7, AgentInOrder
<1>6. CASE Crash
  <2>1. UNCHANGED <<entity, row, open, edits, clock, cloud, applied, raced>> /\ pull' = <<>>
        /\ sent' = {[c EXCEPT !.heard = FALSE] : c \in sent}
    BY <1>6 DEF Crash, shopVars
  <2>2. ASSUME NEW e \in sent'
        PROVE  \E c \in sent : /\ e = [c EXCEPT !.heard = FALSE]
                               /\ e.pc = c.pc /\ e.read = c.read /\ e.rows = c.rows
    <3>1. PICK c \in sent : e = [c EXCEPT !.heard = FALSE]
      BY <2>1
    <3>2. c \in Request
      BY DEF TablesHold, TablesTyped
    <3>3. e.pc = c.pc /\ e.read = c.read /\ e.rows = c.rows
      BY <3>1, <3>2 DEF Request
    <3> QED
      BY <3>1, <3>3
  <2>3. \A e \in sent' : e.pc = "read" =>
            \E g \in sent : g.pc = "read" /\ e.read = g.read /\ e.rows = g.rows
    BY <2>2
  <2>4. (\A g, h \in sent : g.pc = "read" /\ h.pc = "read" => g = h)
        => \A x, y \in sent' : x.pc = "read" /\ y.pc = "read" => x = y
    <3> SUFFICES ASSUME \A g, h \in sent : g.pc = "read" /\ h.pc = "read" => g = h,
                        NEW x \in sent', NEW y \in sent', x.pc = "read", y.pc = "read"
                 PROVE  x = y
      OBVIOUS
    <3>1. PICK g \in sent : x = [g EXCEPT !.heard = FALSE] /\ x.pc = g.pc
      BY <2>2
    <3>2. PICK h \in sent : y = [h EXCEPT !.heard = FALSE] /\ y.pc = h.pc
      BY <2>2
    <3>3. g = h
      BY <3>1, <3>2
    <3> QED
      BY <3>1, <3>2, <3>3
  <2> QED
    BY <1>1, <2>1, <2>3, <2>4, AgentInOrder
<1> QED
  BY <1>2, <1>3, <1>4, <1>5, <1>6 DEF PushStep

\* A manager's edit, in the cloud, is later than all there was.
LEMMA ManagerEditsInOrder ==
    ASSUME TablesHold, TablesHold', CustomersHold, NEW r \in Row, ManagerEdits(r)
    PROVE  /\ CustomersHold'
           /\ entity = "customers" /\ ~raced => cloud'[r].val >= applied[r]
<1> SUFFICES ASSUME entity = "customers"
             PROVE  CustomersHold' /\ (~raced => cloud'[r].val >= applied[r])
  BY DEF ManagerEdits, CustomersHold
<1>1. UNCHANGED <<entity, clock, row, open, retry, push, sent, pull, applied, raced>>
      /\ edits' = edits + 1 /\ clock \in Nat /\ edits \in Nat
      /\ (\A o \in Row : applied[o] \in Nat)
  BY CountsAreNumbers DEF ManagerEdits, shopVars, agentVars, TablesHold
<1>2. PICK new : new = [val |-> edits + 1, ts |-> clock]
  OBVIOUS
<1>3. cloud'[r] = new /\ \A o \in Row \ {r} : cloud'[o] = cloud[o]
  BY <1>2 DEF ManagerEdits, TablesHold, TablesTyped
<1>4. new \in Content /\ new.val = edits + 1 /\ new.ts = clock /\ new # Absent
  <2>1. edits + 1 \in Edit /\ clock \in Time /\ edits + 1 # 0
    BY EditsCount DEF ManagerEdits, TablesHold, TablesTyped
  <2> QED
    BY <1>2, <2>1, ContentsAreNumbers
<1>5. \A f \in Loads' : Known(f)
  BY <1>1, CopiesIfUnchanged
<1>6. \A o \in Row : InOrder(o)'
  BY <1>1, <1>5, OrderStays DEF CustomersHold
<1>7. \A o \in Row : Copies(o)' \subseteq Copies(o)
  BY <1>1, <1>5, CopiesStay
<1>8. \A o \in Row : \A x \in Copies(o) : x.val \in Nat /\ x.ts \in Nat /\ x.val <= edits /\ x.ts <= clock
  BY CopiesAreContents, ContentsAreNumbers DEF CustomersHold, InOrder
<1>9. ASSUME ~raced PROVE CloudInOrder' /\ cloud'[r].val >= applied[r]
  <2>1. CloudInOrder
    BY <1>9 DEF CustomersHold
  <2>2. ASSUME NEW o \in Row, NEW m, Later(o, m) PROVE Later(o, m)' /\ m.ts <= clock /\ m.ts \in Nat
    <3>1. m \in Content /\ m.val \in Nat /\ m.ts \in Nat /\ m.val <= edits /\ m.ts <= clock
      BY <2>2, ContentsAreNumbers DEF Later
    <3> QED
      BY <1>1, <1>7, <2>2, <3>1 DEF Later
  <2>3. Later(r, new)'
    <3>1. \A x \in Copies(r)' : x.ts <= new.ts
      BY <1>4, <1>7, <1>8
    <3> QED
      BY <1>1, <1>4, <3>1 DEF Later
  <2>4. ASSUME NEW o \in Row PROVE Later(o, cloud[o])' /\ applied'[o] <= edits'
    <3>1. applied'[o] <= edits'
      BY <1>1, <2>1 DEF CloudInOrder
    <3>2. CASE o = r
      BY <1>3, <2>3, <3>1, <3>2 DEF Later
    <3>3. CASE o # r
      <4>1. PICK m : m = cloud[o]
        OBVIOUS
      <4>2. Later(o, m)'
        BY <2>1, <2>2, <4>1 DEF CloudInOrder
      <4>3. cloud'[o] = m
        BY <1>3, <3>3, <4>1
      <4> QED
        BY <3>1, <4>2, <4>3 DEF Later
    <3> QED
      BY <3>2, <3>3
  <2>5. ASSUME NEW e \in sent', e.pc = "read", NEW o \in DOMAIN e.rows
        PROVE  /\ Later(o, e.read[o])' /\ e.read[o].ts <= cloud'[o].ts
               /\ e.read[o] # Absent => cloud'[o] # Absent
    <3>1. e \in sent /\ o \in Row
      BY <1>1, <2>5, BatchHas DEF TablesHold, TablesTyped, Request
    <3>2. PICK m : m = e.read[o]
      OBVIOUS
    <3>3. Later(o, m) /\ m.ts <= cloud[o].ts /\ (m # Absent => cloud[o] # Absent)
      BY <2>1, <2>5, <3>1, <3>2 DEF CloudInOrder, ReadsInOrder
    <3>4. Later(o, m)' /\ m.ts <= clock
      BY <2>2, <3>1, <3>3
    <3>5. m.ts <= cloud'[o].ts /\ (m # Absent => cloud'[o] # Absent)
      BY <1>3, <1>4, <3>1, <3>3, <3>4
    <3> QED
      BY <3>2, <3>4, <3>5 DEF Later
  <2>6. ReadsInOrder'
    BY <1>1, <2>1, <2>5 DEF CloudInOrder, ReadsInOrder
  <2>7. cloud'[r].val >= applied[r]
    BY <1>1, <1>3, <1>4, <2>1 DEF CloudInOrder
  <2> QED
    BY <2>4, <2>6, <2>7 DEF CloudInOrder
<1> QED
  BY <1>1, <1>6, <1>9 DEF CustomersHold

LEMMA ReadRowsInOrder ==
    ASSUME TablesHold, TablesHold', CustomersHold, NEW c \in sent, ReadRows(c)
    PROVE  CustomersHold'
<1> SUFFICES ASSUME entity = "customers" PROVE CustomersHold'
  BY DEF ReadRows, CustomersHold
<1>1. UNCHANGED <<entity, clock, edits, row, open, retry, push, pull, cloud, applied>>
      /\ edits \in Nat /\ clock \in Nat
  BY CountsAreNumbers DEF ReadRows, shopVars, agentVars, TablesHold
<1>2. \A f \in Loads' : Known(f)
  BY LoadsAreKnown DEF CloudStep
<1>3. \A r \in Row : InOrder(r)'
  BY <1>1, <1>2, OrderStays DEF CustomersHold
<1>4. \A r \in Row : Copies(r)' \subseteq Copies(r)
  BY <1>1, <1>2, CopiesStay
<1>5. PICK d : d = [c EXCEPT !.pc = "read", !.read = [r \in DOMAIN c.rows |-> cloud[r]]]
  OBVIOUS
<1>6. c \in Request /\ DOMAIN c.rows \subseteq Row
  BY BatchHas DEF TablesHold, TablesTyped, Request
<1>7. d.rows = c.rows /\ d.read = [r \in DOMAIN c.rows |-> cloud[r]]
  BY <1>5, <1>6 DEF Request
<1>8. sent' = (sent \ {c}) \cup {d} /\ raced' = (raced \/ \E o \in sent : o.pc = "read")
  BY <1>5 DEF ReadRows
<1>9. ASSUME ~raced' PROVE CloudInOrder'
  <2>1. CloudInOrder /\ \A o \in sent : o.pc # "read"
    BY <1>8, <1>9 DEF CustomersHold
  <2>2. ASSUME NEW r \in Row PROVE Later(r, cloud[r])' /\ applied'[r] <= edits'
    <3>1. Later(r, cloud[r]) /\ applied[r] <= edits
      BY <2>1 DEF CloudInOrder
    <3> QED
      BY <1>1, <1>4, <3>1 DEF Later
  <2>3. ASSUME NEW e \in sent', e.pc = "read" PROVE e = d
    BY <1>8, <2>1, <2>3
  <2>4. ASSUME NEW r \in DOMAIN d.rows
        PROVE  /\ Later(r, d.read[r])' /\ d.read[r].ts <= cloud'[r].ts
               /\ d.read[r] # Absent => cloud'[r] # Absent
    <3>1. d.read[r] = cloud[r] /\ r \in Row
      BY <1>6, <1>7, <2>4
    <3>2. PICK m : m = cloud[r]
      OBVIOUS
    <3>3. Later(r, m)'
      BY <1>1, <2>2, <3>1, <3>2 DEF Later
    <3>4. m.ts \in Nat
      BY <3>1, <3>2, ContentsAreNumbers, CountsAreNumbers DEF TablesHold
    <3> QED
      BY <1>1, <3>1, <3>2, <3>3, <3>4 DEF Later
  <2>5. ReadsInOrder'
    BY <2>3, <2>4 DEF ReadsInOrder
  <2> QED
    BY <2>2, <2>5 DEF CloudInOrder
<1> QED
  BY <1>1, <1>3, <1>9 DEF CustomersHold

\* What one request may make of a customer: nothing; a note that the contents it
\* brings are there; or a write of contents no older than any it has brought.
Untouched(r) == cloud'[r] = cloud[r] /\ applied'[r] = applied[r]
Confirmed(r, th) == /\ cloud'[r] = cloud[r] /\ applied'[r] = Max({applied[r], th.val})
                    /\ cloud[r] # Absent /\ th.ts <= cloud[r].ts
                    /\ \A x \in Copies(r) : x.val < th.val => x.ts <= cloud[r].ts
Refreshed(r, th) == /\ cloud'[r] = [val |-> th.val, ts |-> clock] /\ applied'[r] = th.val
                  /\ th.val >= applied[r]

LEMMA CommitsInOrder ==
    ASSUME TablesHold, CustomersHold, entity = "customers", ~raced,
           NEW c \in sent, c.pc = "read", ~Collides(c), CommitRows(c), NEW r \in Row
    PROVE  Untouched(r) \/ (r \in DOMAIN c.rows /\ (Confirmed(r, c.rows[r]) \/ Refreshed(r, c.rows[r])))
<1>1. CloudInOrder /\ InOrder(r) /\ clock > 0
  BY DEF CustomersHold
<1>2. cloud'[r] = IF r \in DOMAIN c.rows /\ Written(c, r) # c.read[r].val
                  THEN [val |-> Written(c, r), ts |-> clock] ELSE cloud[r]
  BY DEF CommitRows
<1>3. applied'[r] = IF r \in DOMAIN c.rows /\ Written(c, r) = c.rows[r].val
                    THEN Max({applied[r], c.rows[r].val}) ELSE applied[r]
  BY DEF CommitRows
<1>4. CASE r \notin DOMAIN c.rows
  BY <1>2, <1>3, <1>4 DEF Untouched
<1>5. CASE r \in DOMAIN c.rows
  <2>1. PICK m, th : m = c.read[r] /\ th = c.rows[r]
    OBVIOUS
  <2>2. Later(r, m) /\ m.ts <= cloud[r].ts /\ (m # Absent => cloud[r] # Absent)
    BY <1>1, <1>5, <2>1 DEF CloudInOrder, ReadsInOrder
  <2>3. th \in Copies(r)
    BY <1>5, <2>1 DEF Copies, Loads
  <2>4. /\ m \in Content /\ th \in Content /\ Copies(r) \subseteq Content /\ cloud[r] \in Content
        /\ m.val \in Nat /\ m.ts \in Nat /\ th.val \in Nat /\ th.ts \in Nat
        /\ cloud[r].ts \in Nat /\ applied[r] \in Nat
        /\ \A x \in Copies(r) : x.val \in Nat /\ x.ts \in Nat
    BY <2>2, <2>3, CopiesAreContents, ContentsAreNumbers, CountsAreNumbers DEF Later, TablesHold
  <2>5. /\ Max({applied[r], th.val}) \in {applied[r], th.val}
        /\ Max({applied[r], th.val}) >= applied[r] /\ Max({applied[r], th.val}) >= th.val
    BY <2>4, MaxOfTwo
  <2>6. Written(c, r) = IF m = Absent THEN th.val ELSE IF th.ts <= m.ts THEN m.val ELSE th.val
    BY <2>1 DEF Written, Upserted, CustomerValue, Stale
  <2>7. CASE m = Absent
    <3>1. cloud[r] = Absent /\ Absent.val = 0
      BY <1>5, <2>1, <2>7 DEF Collides, Absent
    <3>2. applied[r] = 0
      BY <1>1, <3>1 DEF CloudInOrder, Later
    <3>3. Written(c, r) = th.val /\ applied'[r] = th.val
      BY <1>3, <1>5, <2>1, <2>4, <2>5, <2>6, <2>7, <3>2
    <3>4. CASE th.val = 0
      BY <1>2, <2>1, <2>7, <3>1, <3>2, <3>3, <3>4 DEF Untouched
    <3>5. CASE th.val # 0
      BY <1>2, <1>5, <2>1, <2>4, <2>7, <3>1, <3>2, <3>3, <3>5 DEF Refreshed
    <3> QED
      BY <3>4, <3>5
  <2>8. CASE m # Absent /\ th.ts <= m.ts
    <3>1. Written(c, r) = m.val /\ cloud'[r] = cloud[r]
      BY <1>2, <2>1, <2>6, <2>8
    <3>2. CASE m.val = th.val
      <4>1. applied'[r] = Max({applied[r], th.val})
        BY <1>3, <1>5, <2>1, <3>1, <3>2
      <4>2. ASSUME NEW x \in Copies(r), x.val < th.val PROVE x.ts <= cloud[r].ts
        <5>1. x.ts <= th.ts
          BY <1>1, <2>3, <4>2 DEF InOrder
        <5> QED
          BY <2>2, <2>4, <2>8, <5>1
      <4> QED
        BY <1>5, <2>1, <2>2, <2>4, <2>8, <3>1, <4>1, <4>2 DEF Confirmed
    <3>3. CASE m.val # th.val
      BY <1>3, <2>1, <3>1, <3>3 DEF Untouched
    <3> QED
      BY <3>2, <3>3
  <2>9. CASE m # Absent /\ ~(th.ts <= m.ts)
    <3>1. Written(c, r) = th.val
      BY <2>6, <2>9
    <3>2. th.val >= applied[r] /\ th.val # m.val
      BY <2>2, <2>3, <2>4, <2>9 DEF Later
    <3>3. applied'[r] = th.val
      BY <1>3, <1>5, <2>1, <2>4, <2>5, <3>1, <3>2
    <3> QED
      BY <1>2, <1>5, <2>1, <3>1, <3>2, <3>3 DEF Refreshed
  <2> QED
    BY <2>7, <2>8, <2>9
<1> QED
  BY <1>4, <1>5

\* A commit leaves the contents in order, and takes no customer back.
LEMMA ServeInOrder ==
    ASSUME TablesHold, TablesHold', CustomersHold, NEW c \in sent, Serve(c)
    PROVE  /\ CustomersHold'
           /\ entity = "customers" /\ ~raced =>
                  \A r \in Row : cloud'[r].val # cloud[r].val => cloud'[r].val >= applied[r]
<1>1. CASE UNCHANGED <<cloud, applied>>
  BY <1>1, AgentStepsInOrder
<1>2. CASE ~Collides(c) /\ CommitRows(c)
  <2> SUFFICES ASSUME entity = "customers"
               PROVE  /\ CustomersHold'
                      /\ ~raced => \A r \in Row : cloud'[r].val # cloud[r].val => cloud'[r].val >= applied[r]
    BY DEF Serve, CustomersHold
  <2>1. UNCHANGED <<entity, clock, edits, row, open, pull, raced>> /\ sent' = sent \ {c}
        /\ c.pc = "read"
    BY DEF Serve, shopVars
  <2>2. /\ edits \in Nat /\ clock \in Nat /\ edits \in Edit /\ clock \in Time
        /\ \A r \in Row : applied[r] \in Nat
    BY CountsAreNumbers DEF TablesHold, TablesTyped
  <2>3. \A f \in Loads' : Known(f)
    BY LoadsAreKnown DEF CloudStep
  <2>4. \A r \in Row : InOrder(r)'
    BY <2>1, <2>2, <2>3, OrderStays DEF CustomersHold
  <2>5. \A r \in Row : Copies(r)' \subseteq Copies(r)
    BY <2>1, <2>3, CopiesStay
  <2>6. ASSUME ~raced, NEW r \in Row
        PROVE  /\ Later(r, cloud[r])' /\ applied'[r] <= edits'
               /\ cloud'[r].val # cloud[r].val => cloud'[r].val >= applied[r]
    <3>1. /\ InOrder(r) /\ Later(r, cloud[r]) /\ applied[r] <= edits /\ clock > 0
          /\ Copies(r) \subseteq Content /\ cloud[r] \in Content
      BY <2>6, CopiesAreContents, CountsAreNumbers DEF CustomersHold, CloudInOrder, TablesHold
    <3>2. /\ \A x \in Copies(r) : x.val \in Nat /\ x.ts \in Nat /\ x.val <= edits /\ x.ts <= clock
          /\ cloud[r].val \in Nat /\ cloud[r].ts \in Nat
      BY <3>1, ContentsAreNumbers DEF InOrder
    <3>3. CASE Untouched(r)
      BY <2>1, <2>5, <3>1, <3>3 DEF Untouched, Later
    <3>4. ASSUME r \in DOMAIN c.rows, Confirmed(r, c.rows[r]) \/ Refreshed(r, c.rows[r])
          PROVE  /\ Later(r, cloud[r])' /\ applied'[r] <= edits'
                 /\ cloud'[r].val # cloud[r].val => cloud'[r].val >= applied[r]
      <4>1. PICK th : th = c.rows[r]
        OBVIOUS
      <4>2. th \in Copies(r) /\ th \in Content
        BY <3>1, <3>4, <4>1 DEF Copies, Loads
      <4>3. th.val \in Nat /\ th.ts \in Nat /\ th.val <= edits /\ th.val \in Edit
        BY <3>2, <4>2 DEF Content
      <4>4. CASE Confirmed(r, th)
        <5>1. Max({applied[r], th.val}) \in {applied[r], th.val}
          <6>1. applied[r] \in Int /\ th.val \in Int
            BY <2>2, <4>3
          <6> QED
            BY <6>1, MaxOfTwo
        <5>2. applied'[r] \in {applied[r], th.val} /\ cloud'[r] = cloud[r] /\ cloud[r] # Absent
          BY <4>4, <5>1 DEF Confirmed
        <5>3. applied'[r] <= edits'
          BY <2>1, <2>2, <3>1, <4>3, <5>2
        <5>4. ASSUME NEW x \in Copies(r)', x.val < applied'[r] \/ x.val = cloud[r].val
              PROVE  x.ts <= cloud[r].ts
          <6>1. x \in Copies(r)
            BY <2>5
          <6>2. CASE x.val < th.val
            BY <4>4, <6>1, <6>2 DEF Confirmed
          <6>3. CASE x.val < applied[r] \/ x.val = cloud[r].val
            BY <3>1, <6>1, <6>3 DEF Later
          <6> QED
            BY <5>2, <5>4, <6>2, <6>3
        <5> QED
          BY <2>1, <3>1, <5>2, <5>3, <5>4 DEF Later
      <4>5. CASE Refreshed(r, th)
        <5>1. PICK new : new = [val |-> th.val, ts |-> clock]
          OBVIOUS
        <5>2. new \in Content /\ new # Absent /\ new.val = th.val /\ new.ts = clock
          BY <2>2, <3>1, <4>3, <5>1, ContentsAreNumbers
        <5>3. cloud'[r] = new /\ applied'[r] = th.val /\ th.val >= applied[r]
          BY <4>5, <5>1 DEF Refreshed
        <5>4. \A x \in Copies(r)' : x.ts <= new.ts
          BY <2>5, <3>2, <5>2
        <5>5. new.val <= edits' /\ new.ts <= clock'
          BY <2>1, <2>2, <4>3, <5>2
        <5>6. Later(r, cloud[r])'
          BY <5>2, <5>3, <5>4, <5>5 DEF Later
        <5> QED
          BY <2>1, <4>3, <5>2, <5>3, <5>6
      <4> QED
        BY <3>4, <4>1, <4>4, <4>5
    <3> QED
      BY <1>2, <2>1, <2>6, <3>3, <3>4, CommitsInOrder
  <2>7. ASSUME ~raced PROVE CloudInOrder'
    <3>1. \A e \in sent' : e.pc # "read"
      BY <2>1, <2>7 DEF CustomersHold, CloudInOrder, ReadsInOrder
    <3> QED
      BY <2>6, <2>7, <3>1 DEF CloudInOrder, ReadsInOrder
  <2> QED
    BY <2>1, <2>4, <2>6, <2>7 DEF CustomersHold
<1> QED
  BY <1>1, <1>2 DEF Serve

LEMMA CustomersStart == Init => CustomersHold
<1> SUFFICES ASSUME Init PROVE CustomersHold
  OBVIOUS
<1>1. LoadsOf(<<>>) = {} /\ NoItem.rows = <<>> /\ DOMAIN <<>> = {}
  BY NoItemIsParcel DEF LoadsOf
<1>2. \A f \in Loads : f = <<>>
  BY <1>1, RestingFits DEF Init, Loads
<1>3. \A r \in Row : Copies(r) = {Absent}
  BY <1>1, <1>2 DEF Init, Copies
<1>4. Absent.val = 0 /\ Absent.ts = 0 /\ Absent \in Content
  BY TablesStart, CountsAreNumbers, TableSyncAssumption
  DEF TablesHold, TablesTyped, Init, Absent, Content, Edit, Time
<1> QED
  BY <1>3, <1>4 DEF Init, CustomersHold, InOrder, CloudInOrder, ReadsInOrder, Later

LEMMA CustomersStay ==
    TablesHold /\ CustomersHold /\ [Next]_vars => CustomersHold'
<1> SUFFICES ASSUME TablesHold, CustomersHold, [Next]_vars PROVE CustomersHold'
  OBVIOUS
<1>1. TablesHold'
  BY TablesStay
<1>2. CASE UNCHANGED vars
  <2>1. \A f \in Loads' : Known(f)
    BY <1>2, CopiesIfUnchanged DEF vars, agentVars, cloudVars
  <2>2. UNCHANGED <<entity, row, open, edits, clock, cloud, applied, sent, raced, pull>>
    BY <1>2 DEF vars, shopVars, agentVars, cloudVars
  <2> QED
    BY <1>1, <2>1, <2>2, AgentInOrder
<1>3. CASE Fetch \/ Apply
  BY <1>3 DEF Fetch, Apply, CustomersHold
<1> QED
  BY <1>1, <1>2, <1>3, TickInOrder, ChangeBeginInOrder, ChangeCommitInOrder, ManagerEditsInOrder,
     AgentStepsInOrder, ReadRowsInOrder, ServeInOrder
  DEF Next, PushStep, CloudStep, PullStep

(* No push takes a customer of the cloud back to an older edit of the shop,  *)
(* as long as requests are carried out one at a time (sync_customers).       *)
THEOREM NoCustomerGoesBack == Spec => NeverBack
<1>1. TablesHold /\ CustomersHold /\ [Next]_vars =>
          (entity = "customers" /\ ~raced' =>
             \A r \in Row : cloud'[r].val # cloud[r].val => cloud'[r].val >= applied[r])
  <2> SUFFICES ASSUME TablesHold, CustomersHold, [Next]_vars, entity = "customers", ~raced',
                      NEW r \in Row, cloud'[r].val # cloud[r].val
               PROVE  cloud'[r].val >= applied[r]
    OBVIOUS
  <2>1. TablesHold'
    BY TablesStay
  <2>2. CASE \E o \in Row : ManagerEdits(o)
    <3>1. PICK o \in Row : ManagerEdits(o)
      BY <2>2
    <3>2. UNCHANGED raced /\ (o # r => cloud'[r] = cloud[r])
      BY <3>1 DEF ManagerEdits, TablesHold, TablesTyped
    <3> QED
      BY <2>1, <3>1, <3>2, ManagerEditsInOrder
  <2>3. CASE \E c \in sent : Serve(c)
    <3>1. UNCHANGED raced
      BY <2>3 DEF Serve
    <3> QED
      BY <2>1, <2>3, <3>1, ServeInOrder
  <2>4. CASE \/ UNCHANGED vars \/ Tick \/ PushStep \/ PullStep \/ Breaks \/ Crash
             \/ \E o \in Row : ChangeBegin(o) \/ ChangeCommit(o)
             \/ \E c \in sent : ReadRows(c)
    <3>1. UNCHANGED cloud
      BY <2>4 DEF vars, Tick, PushStep, PullStep, Breaks, Crash, ChangeBegin, ChangeCommit, ReadRows,
         StartCycle, Promote, Replay, PostBatch, NothingDue, Fetch, Apply, cloudVars
    <3> QED
      BY <3>1
  <2> QED
    BY <2>2, <2>3, <2>4 DEF Next, CloudStep
<1>2. Init => CustomersHold
  BY CustomersStart
<1>3. TablesHold /\ CustomersHold /\ [Next]_vars => CustomersHold'
  BY CustomersStay
<1>4. Spec => []TablesHold
  BY TablesAlwaysHold
<1>5. Spec => []CustomersHold
  BY <1>2, <1>3, <1>4, PTL DEF Spec
<1>6. Spec => [][TablesHold /\ CustomersHold /\ [Next]_vars]_vars
  BY <1>4, <1>5, PTL DEF Spec
<1> QED
  BY <1>1, <1>6, PTL DEF NeverBack

==============================================================================

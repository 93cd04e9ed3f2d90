------------------------------ MODULE Catalog ------------------------------
(* The product catalogue: routers/products.py with its Redis cache           *)
(* (core/cache.py), the CSV import of the API and the import script          *)
(* scripts/import_products_csv.py.  The API runs in several worker           *)
(* processes, so every handler that reads and then commits is two steps.  A  *)
(* request that is refused (role, closed period, unknown product) changes    *)
(* nothing and is not a step.                                                *)
EXTENDS Integers, FiniteSets

CONSTANTS Product,      \* SKUs of one store, which may or may not exist yet
          Barcode,      \* barcodes, unique in the store
          Name,         \* categories and suppliers an import row may name
          Price, Lowest,  \* selling prices, and that of the products there are at first
          Quantity, Opening,  \* stocks a request may name, also negative, and that of the first products
          Delta,        \* quantity_change of an adjustment
          CsvRow,          \* rows of a CSV file: [price, barcode, stock, name]
          Req,          \* requests served at the same time
          ListTTL, BarcodeTTL,  \* PRODUCT_LIST_TTL and BARCODE_LOOKUP_TTL, in ticks of 5 minutes
          MaxTime,      \* bound on the clock
          MaxChanges,   \* bound on the requests that change something
          NULL

ASSUME CatalogAssumption ==
    /\ ListTTL \in Nat \ {0} /\ BarcodeTTL \in Nat \ {0}
    /\ MaxTime \in Nat /\ MaxChanges \in Nat
    /\ Quantity \subseteq Int /\ Delta \subseteq Int
    /\ CsvRow \subseteq [price : Price, barcode : Barcode \cup {NULL}, stock : Quantity, name : Name \cup {NULL}]
    /\ NULL \notin Product \cup Barcode \cup Name
    /\ NULL \notin [price : Price, barcode : Barcode \cup {NULL}, stock : Int]
    /\ NULL \notin [answer : Product \X Price, until : Nat]
    /\ Lowest \in Price /\ Opening \in Quantity \cap Nat

VARIABLES products, \* price, barcode, stock_quantity, or NULL
          names,    \* categories and suppliers that exist
          moved,    \* stock_movements: the sum of qty_delta, by product and kind
          posted,   \* the inventory account: quantities posted by adjustments
          scans,    \* the cached answers of the barcode lookup, with their expiry
          list,     \* when the cached product list expires (0: no cached list)
          req,      \* the requests in flight
          late,     \* those that were in flight at the last tick
          now, changes,
          oldest,   \* how old an answer of the barcode lookup has been, at most
          lastTrue, \* when an answer about a barcode was last what the table said
          apart     \* products whose stock left its movements in a way named below

catalogVars == <<products, names, moved, posted, scans, list, req, late, now, changes, oldest, lastTrue, apart>>
stock == <<moved, posted, apart>>
caches == <<scans, list>>

Kind == {"purchase", "sale", "adjustment"}
Idle == [op |-> "idle"]
Codes == Barcode \cup {NULL}
Answer == Product \X Price
Floor(n) == IF n < 0 THEN 0 ELSE n
Total(p) == moved[p]["purchase"] + moved[p]["sale"] + moved[p]["adjustment"]
Exists(p) == products[p] # NULL

\* The one product that carries barcode b, and its price.
Truth(b) == {<<p, products[p].price>> : p \in {q \in Product : Exists(q) /\ products[q].barcode = b}}

\* uq_product_barcode_per_store
Unique(t) ==
    \A p, q \in Product :
        (p # q /\ t[p] # NULL /\ t[q] # NULL /\ t[p].barcode # NULL) => t[p].barcode # t[q].barcode

\* A store with some products, whose opening stock was moved in.
CatalogInit ==
    /\ products \in [Product -> [price : {Lowest}, barcode : Codes, stock : {Opening}] \cup {NULL}]
    /\ Unique(products)
    /\ names = {}
    /\ moved = [p \in Product |-> [k \in Kind |->
                   IF k = "purchase" /\ Exists(p) THEN products[p].stock ELSE 0]]
    /\ posted = [p \in Product |-> 0]
    /\ scans = [b \in Barcode |-> NULL]
    /\ list = 0
    /\ req = [r \in Req |-> Idle]
    /\ late = {}
    /\ now = 0 /\ changes = 0 /\ oldest = 0
    /\ lastTrue = [b \in Barcode |-> [a \in Answer |-> -1]]
    /\ apart = {}

\* Request r goes on as s.
Become(r, s) ==
    /\ req' = [req EXCEPT ![r] = s]
    /\ late' = IF s = Idle THEN late \ {r} ELSE late

\* A request that will change something begins as s.
Begin(r, s) ==
    /\ req[r] = Idle
    /\ changes < MaxChanges
    /\ changes' = changes + 1
    /\ Become(r, s)
    /\ UNCHANGED <<products, names, stock, caches, now, oldest, lastTrue>>

\* Answers about barcode b that are cached or on their way.
Held(b) ==
    {scans[c].answer : c \in {d \in {b} : scans[d] # NULL}}
    \cup {req[r].answer : r \in {q \in Req : req[q].op = "scan" /\ req[q].b = b}}

\* The rows of the products become t.
Write(t) ==
    /\ products' = t
    /\ lastTrue' = [b \in Barcode |-> [a \in Answer |->
                        IF a \in Truth(b) \cap Held(b) THEN now ELSE lastTrue[b][a]]]

\* invalidate_prefix drops the cached lists of the store, and only those; with
\* Redis unreachable, or the worker killed after the commit, they stay.
Invalidated == {0, list}

\* Request r commits the rows t and goes on with the list as one of after; the
\* constraint refuses the rows with an error and a roll-back.
Commit(r, t, after) ==
    /\ IF Unique(t)
          THEN Write(t) /\ list' \in after
          ELSE UNCHANGED <<products, lastTrue, list>>
    /\ Become(r, Idle)
    /\ UNCHANGED <<names, scans, now, oldest, changes>>

Move(p, kind, n) == moved' = [moved EXCEPT ![p][kind] = @ + n]

-----------------------------------------------------------------------------
(* Categories, suppliers and products. *)

\* create_category and create_supplier.
CreateName(n) ==
    /\ n \notin names /\ changes < MaxChanges
    /\ changes' = changes + 1
    /\ names' = names \cup {n}
    /\ UNCHANGED <<products, stock, caches, req, late, now, oldest, lastTrue>>

\* create_product finds no product with this SKU.
CreateRead(r, p) ==
    \E price \in Price, code \in Codes, qty \in Quantity :
        /\ ~Exists(p)
        /\ Begin(r, [op |-> "create", p |-> p, price |-> price, barcode |-> code, qty |-> qty])

\* Mistake: the opening stock stays in the new row and is then moved in again.
CreatedTwice(qty) == Floor(qty + qty)

\* _apply_stock_movement on a product that starts with no stock.
CreatedStock(qty) == Floor(0 + qty)

\* create_product commits, unless another request made the SKU meanwhile.  A
\* negative opening stock is neither kept nor moved.
CreateCommit(r) ==
    /\ req[r].op = "create"
    /\ LET q == req[r]
           new == [price |-> q.price, barcode |-> q.barcode, stock |-> CreatedStock(q.qty)]
           t == [products EXCEPT ![q.p] = new]
       IN  IF Exists(q.p)
             THEN /\ Become(r, Idle)
                  /\ UNCHANGED <<products, names, stock, caches, now, oldest, changes, lastTrue>>
             ELSE /\ Commit(r, t, Invalidated)
                  /\ IF Unique(t) THEN Move(q.p, "purchase", Floor(q.qty)) ELSE UNCHANGED moved
                  /\ UNCHANGED <<posted, apart>>

\* The fields of ProductUpdate a request may set; stock_quantity is one of them.
Patch == [{"price"} -> Price] \cup [{"barcode"} -> Codes] \cup [{"stock"} -> Quantity]

\* What ORM writes for a PATCH: the fields that differ from the row it read.
Changed(seen, patch) == [f \in {g \in DOMAIN patch : patch[g] # seen[g]} |-> patch[f]]

\* update_product reads the row without a lock and sets the fields.
UpdateRead(r, p) ==
    /\ Exists(p)
    /\ \E patch \in Patch :
          Begin(r, [op |-> "update", p |-> p, set |-> Changed(products[p], patch)])

\* row with the fields of set written over it
Overlay(old, set) == [f \in DOMAIN old |-> IF f \in DOMAIN set THEN set[f] ELSE old[f]]

\* update_product commits; a PATCHed stock has no movement.
UpdateCommit(r) ==
    /\ req[r].op = "update"
    /\ LET q == req[r]
           t == [products EXCEPT ![q.p] = Overlay(@, q.set)]
       IN  /\ Commit(r, t, Invalidated)
           /\ apart' = IF "stock" \in DOMAIN q.set THEN apart \cup {q.p} ELSE apart
           /\ UNCHANGED <<moved, posted>>

-----------------------------------------------------------------------------
(* Stock. *)

\* adjust_stock reads the stock without a lock.
AdjustRead(r, p) ==
    /\ Exists(p)
    /\ \E d \in Delta :
          Begin(r, [op |-> "adjust", p |-> p, delta |-> d, seen |-> products[p].stock])

\* post_stock_adjustment, in units instead of money.
InventoryEntry(p, delta) == [posted EXCEPT ![p] = @ + delta]

\* adjust_stock writes what it computed from the stock it read, which it keeps
\* at zero or more; the movement and the entry carry the whole change.
AdjustCommit(r) ==
    /\ req[r].op = "adjust"
    /\ LET q == req[r]
           after == Floor(q.seen + q.delta)
           left == IF after = q.seen THEN products[q.p].stock ELSE after
       IN  /\ Commit(r, [products EXCEPT ![q.p].stock = left], Invalidated)
           /\ Move(q.p, "adjustment", q.delta)
           /\ posted' = InventoryEntry(q.p, q.delta)
           /\ apart' = IF left = products[q.p].stock + q.delta THEN apart ELSE apart \cup {q.p}

\* A sale of one unit, with the row locked (transactions.py); prices and lists
\* stay in the cache as they are.
Sell(p) ==
    /\ Exists(p) /\ products[p].stock >= 1 /\ changes < MaxChanges
    /\ changes' = changes + 1
    /\ Write([products EXCEPT ![p].stock = @ - 1])
    /\ Move(p, "sale", -1)
    /\ UNCHANGED <<names, posted, apart, caches, req, late, now, oldest>>

-----------------------------------------------------------------------------
(* The two imports.  A file has one row for each product of its domain: a    *)
(* second row of the same SKU is an error of that row.                       *)

File == UNION {[S -> CsvRow] : S \in (SUBSET Product) \ {{}}}

\* The columns of products that parse_csv_row makes of a row; an empty cell is
\* the default, and an amount, a number or a flag that is none makes it an error.
Columns(line) == [price |-> line.price, barcode |-> line.barcode, stock |-> line.stock]

\* A row whose category or supplier is not known is an error.
RowFits(line) == line.name \in names \cup {NULL}

\* The rows of a file that are not skipped: those in order, and existing products
\* only with update_existing.
Taken(file, overwrite) ==
    [p \in {q \in DOMAIN file : RowFits(file[q]) /\ (Exists(q) => overwrite)} |-> file[p]]

\* An import of these rows under way: what it will write, and for which new
\* products.  Of an existing product the ORM writes what differs from the row it read.
Importing(op, rows, columns) ==
    [op |-> op, new |-> {p \in DOMAIN rows : ~Exists(p)},
     set |-> [p \in DOMAIN rows |-> IF Exists(p) THEN Changed(products[p], columns[p]) ELSE rows[p]]]

\* The rows of the products after the commit of an import.
Imported(q) ==
    [p \in Product |-> CASE p \in q.new -> Columns(q.set[p])
                         [] p \in DOMAIN q.set \ q.new -> Overlay(products[p], q.set[p])
                         [] OTHER -> products[p]]

\* The columns import_products_csv sets in a product that exists: not the stock.
Edited(line) == [price |-> line.price, barcode |-> line.barcode]

\* import_products_csv reads the categories, the suppliers and, row by row, the
\* products; a row in error is skipped.
ImportRead(r) ==
    \E file \in File, overwrite \in BOOLEAN :
        LET rows == Taken(file, overwrite)
        IN  Begin(r, Importing("import", rows, [p \in DOMAIN rows |-> Edited(rows[p])]))

\* The movement of a new product is built before the product has an id, so the
\* commit of any file with one fails, and with it every other row.
ImportFails(q) ==
    \E p \in q.new : Exists(p) \/ q.set[p].stock > 0

\* Products whose stock an import sets to something else without a movement: the
\* script's, and from the API new ones with a negative stock.
Restocked(q) ==
    {p \in q.new : q.set[p].stock # 0} \cup {p \in DOMAIN q.set \ q.new : "stock" \in DOMAIN q.set[p]}

\* import_products_csv commits all rows or none; existing products keep their stock.
ImportCommit(r) ==
    /\ req[r].op = "import"
    /\ IF ImportFails(req[r])
         THEN /\ Become(r, Idle)
              /\ UNCHANGED <<products, names, stock, caches, now, oldest, changes, lastTrue>>
         ELSE /\ Commit(r, Imported(req[r]), Invalidated)
              /\ apart' = IF Unique(Imported(req[r])) THEN apart \cup Restocked(req[r]) ELSE apart
              /\ UNCHANGED <<moved, posted>>

\* import_products_from_csv reads like the import; a row in error stops it unless
\* skip_errors.  An existing product gets every column of the file.
ScriptRead(r) ==
    \E file \in File, overwrite, skip \in BOOLEAN :
        LET rows == Taken(file, overwrite)
        IN  /\ skip \/ \A p \in DOMAIN file : RowFits(file[p])
            /\ Begin(r, Importing("script", rows, [p \in DOMAIN rows |-> Columns(rows[p])]))

\* import_products_from_csv commits all rows or none, and does not know the cache.
ScriptCommit(r) ==
    /\ req[r].op = "script"
    /\ LET q == req[r]
       IN  IF \E p \in q.new : Exists(p)
             THEN /\ Become(r, Idle)
                  /\ UNCHANGED <<products, names, stock, caches, now, oldest, changes, lastTrue>>
             ELSE /\ Commit(r, Imported(q), {list})
                  /\ apart' = IF Unique(Imported(q)) THEN apart \cup Restocked(q) ELSE apart
                  /\ UNCHANGED <<moved, posted>>

-----------------------------------------------------------------------------
(* The cache.  A call may find Redis unreachable: a lookup then misses, a    *)
(* store does nothing.                                                       *)

\* How long ago answer a about barcode b was what the table says.
Age(b, a) == CASE a \in Truth(b) -> 0
               [] a \notin Truth(b) /\ lastTrue[b][a] = -1 -> MaxTime + BarcodeTTL + 1
               [] OTHER -> now - lastTrue[b][a]

\* A client is given an answer of this age.
Answered(age) == oldest' = IF age > oldest THEN age ELSE oldest

\* Mistake: a lookup renews the entry it finds.
Renewed(entry) == [entry EXCEPT !.until = now + BarcodeTTL]

\* The entry of the cache after a lookup found it there.
Kept(entry) == entry

\* get_by_barcode answers from the cache.
ScanHit(r, b) ==
    /\ req[r] = Idle
    /\ scans[b] # NULL
    /\ Answered(Age(b, scans[b].answer))
    /\ UNCHANGED <<req, late>>
    /\ scans' = [scans EXCEPT ![b] = Kept(@)]
    /\ UNCHANGED <<products, names, stock, list, now, changes, lastTrue>>

\* get_by_barcode misses and reads the product.
ScanMiss(r, b) ==
    /\ req[r] = Idle
    /\ \E a \in Truth(b) : Become(r, [op |-> "scan", b |-> b, answer |-> a])
    /\ UNCHANGED <<products, names, stock, caches, now, oldest, changes, lastTrue>>

\* get_by_barcode stores what it read and answers.
ScanStore(r) ==
    /\ req[r].op = "scan"
    /\ LET q == req[r] IN
          /\ scans' \in {scans, [scans EXCEPT ![q.b] = [answer |-> q.answer, until |-> now + BarcodeTTL]]}
          /\ Answered(Age(q.b, q.answer))
          /\ Become(r, Idle)
    /\ UNCHANGED <<products, names, stock, list, now, changes, lastTrue>>

\* list_products finds no cached list, reads the products and stores them.  While
\* they are stored the request fails: the entry is a bare list of products, which
\* is not the ProductListResponse the endpoint declares.
List ==
    /\ list = 0
    /\ list' = now + ListTTL
    /\ UNCHANGED <<products, names, stock, scans, req, late, now, oldest, changes, lastTrue>>

\* Redis keeps an entry to the end of its time.
Live(entry) == entry # NULL /\ now' < entry.until

\* Five minutes pass, and Redis drops what has expired.  No request lasts as
\* long as two ticks (statement_timeout).
TimePasses ==
    /\ now < MaxTime /\ late = {}
    /\ now' = now + 1
    /\ late' = {r \in Req : req[r] # Idle}
    /\ scans' = [b \in Barcode |-> IF Live(scans[b]) THEN scans[b] ELSE NULL]
    /\ list' = IF now' < list THEN list ELSE 0
    /\ lastTrue' = [b \in Barcode |-> [a \in Answer |->
                        IF a \in Held(b) THEN lastTrue[b][a] ELSE -1]]
    /\ UNCHANGED <<products, names, stock, req, changes, oldest>>

CatalogNext ==
    \/ \E n \in Name : CreateName(n)
    \/ \E p \in Product : Sell(p)
    \/ \E r \in Req, p \in Product : CreateRead(r, p) \/ UpdateRead(r, p) \/ AdjustRead(r, p)
    \/ \E r \in Req : CreateCommit(r) \/ UpdateCommit(r) \/ AdjustCommit(r)
    \/ \E r \in Req : ImportRead(r) \/ ImportCommit(r) \/ ScriptRead(r) \/ ScriptCommit(r)
    \/ \E r \in Req, b \in Barcode : ScanHit(r, b) \/ ScanMiss(r, b)
    \/ \E r \in Req : ScanStore(r)
    \/ List \/ TimePasses

CatalogSpec == CatalogInit /\ [][CatalogNext]_catalogVars

-----------------------------------------------------------------------------
(* "product.stock_quantity is kept as a fast-read cache; this table is       *)
(* authoritative" (StockMovement): the stock of a product is the sum of its  *)
(* movements and the inventory account has every adjustment, unless an       *)
(* adjustment was cut off at zero or written over a stock that had changed   *)
(* since it was read, a PATCH or the import script set the stock, or the     *)
(* CSV import of the API made the product with a negative stock.  No overlap *)
(* of creations, sales, imports and updates adds to that list.               *)
StockIsMovements ==
    \A p \in Product :
        /\ Exists(p) /\ p \notin apart => products[p].stock = Total(p)
        /\ ~Exists(p) => Total(p) = 0
        /\ posted[p] = moved[p]["adjustment"]

(* A scan never shows a product or a price that the table stopped having     *)
(* longer than BARCODE_LOOKUP_TTL ago, the time of the request that filled   *)
(* the cache included, although nothing drops a cached barcode: whichever    *)
(* writer changed the price or moved the barcode to another product, and     *)
(* however the lookup that filled the cache overlapped with it.              *)
ScansGrowOld == oldest <= BarcodeTTL

=============================================================================

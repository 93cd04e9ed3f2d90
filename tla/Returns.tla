------------------------------- MODULE Returns -------------------------------
(***************************************************************************)
(* Returns and refunds: create_return, approve_and_complete and            *)
(* reject_return of services/returns.py, and void_transaction, which meets *)
(* them on the same goods.                                                 *)
(*                                                                         *)
(* A request is one database transaction under READ COMMITTED.  The return *)
(* and the sale are read without a lock; an approval then sums, for each   *)
(* line, what was returned before, locks the line, and compares the two;   *)
(* it locks the products it restores, and writes everything at its commit. *)
(* Customer, till and return row are locked or written last and held to    *)
(* the commit, and are part of it.                                         *)
(***************************************************************************)
EXTENDS Integers, FiniteSets, Functions

CONSTANTS
    Sale, Product, Customer, Till,
    Line,          \* transaction_items
    Return,        \* bound: returns that are asked for
    Request,       \* bound: requests served at once
    Sold,          \* [Sale -> [method, customer, till]]
    LineOf,        \* [Line -> [sale, product, qty, price]], price with VAT
    Asked,         \* [Return -> [qty : [Line -> Nat], damaged : SUBSET Line]]
    InitStock, InitWallet, Float,
    Nobody         \* no customer, no till, no holder of a lock

RefundMethod == {"cash", "mpesa", "card", "credit_note", "store_credit"}

(* _ALLOWED_REFUND_METHODS *)
Allowed(method) ==
    CASE method = "cash"         -> {"cash", "store_credit"}
      [] method = "mpesa"        -> {"mpesa", "store_credit", "credit_note"}
      [] method = "card"         -> {"card", "store_credit", "credit_note"}
      [] method = "credit"       -> {"store_credit", "credit_note"}
      [] method = "store_credit" -> {"store_credit"}
      [] method = "split"        -> RefundMethod

PaymentMethod == {"cash", "mpesa", "card", "credit", "store_credit", "split"}

LinesOf(r) == {l \in Line : Asked[r].qty[l] > 0}

ASSUME ReturnsAssumption ==
    /\ Sold \in [Sale -> [method : PaymentMethod, customer : Customer \cup {Nobody},
                          till : Till \cup {Nobody}]]
    /\ LineOf \in [Line -> [sale : Sale, product : Product, qty : Nat \ {0}, price : Nat]]
    /\ Asked \in [Return -> [qty : [Line -> Nat], damaged : SUBSET Line]]
    /\ \A r \in Return : LinesOf(r) # {}
    /\ \A r \in Return : \A k, l \in LinesOf(r) : LineOf[k].sale = LineOf[l].sale
    /\ InitStock \in [Product -> Int]
    /\ InitWallet \in [Customer -> Int]
    /\ Float \in [Till -> Int]
    /\ Nobody \notin Customer \cup Till \cup Request
    /\ IsFiniteSet(Line) /\ IsFiniteSet(Sale) /\ IsFiniteSet(Return)

VARIABLES
    status,        \* of each sale
    ret,           \* status and refund method of each return
    stock,         \* products.stock_quantity
    moved,         \* sum of the stock movements since the start
    wallet,        \* customers.store_credit_balance
    cash,          \* cash_sessions.expected_cash
    open,          \* tills whose session is open
    posted,        \* journal entries of each return
    lineLock, productLock,
    req,           \* the requests being served
    raced          \* history: requests on the same lines have overlapped

books == <<status, ret, stock, moved, wallet, cash, open, posted>>
vars == <<books, lineLock, productLock, req, raced>>

SaleOf(r) == LineOf[CHOOSE l \in LinesOf(r) : TRUE].sale
SaleLines(s) == {l \in Line : LineOf[l].sale = s}

(* _qty_already_returned *)
Returned(l) ==
    SumFunctionOnSet([r \in Return |-> Asked[r].qty[l]], {r \in Return : ret[r].status = "completed"})

Worth(r) == SumFunctionOnSet([l \in Line |-> Asked[r].qty[l] * LineOf[l].price], LinesOf(r))

(* What a return puts back on the shelf. *)
RestorableAll(r) == LinesOf(r)   \* mutant: damaged goods are put on sale again

Restorable(r) == LinesOf(r) \ Asked[r].damaged

Shelved(r) == {LineOf[l].product : l \in Restorable(r)}

Back(r, p) == SumFunctionOnSet(Asked[r].qty, {l \in Restorable(r) : LineOf[l].product = p})

(* What a void puts back, and pays back: the sales here were paid without    *)
(* change, which Sales models.                                               *)
ProductsOf(s) == {LineOf[l].product : l \in SaleLines(s)}

SoldQty(s, p) ==
    SumFunctionOnSet([l \in Line |-> LineOf[l].qty], {l \in SaleLines(s) : LineOf[l].product = p})

Price(s) == SumFunctionOnSet([l \in Line |-> LineOf[l].qty * LineOf[l].price], SaleLines(s))

-----------------------------------------------------------------------------
(* Requests and locks *)

NoRequest == [op |-> "none"]

Free(q) == req[q].op = "none"

At(q, op, phase) == req[q].op = op /\ req[q].phase = phase

Becomes(q, what) == req' = [req EXCEPT ![q] = what]

Meets(lines) == \E q \in Request : ~Free(q) /\ req[q].lines \cap lines # {}

Starts(lines) == raced' = (raced \/ Meets(lines))

(* A lock that is free or the request's own is granted. *)
Granted(lock, x, q) == lock[x] \in {Nobody, q}

Released(lock, q) == [x \in DOMAIN lock |-> IF lock[x] = q THEN Nobody ELSE lock[x]]

Finish(q) ==
    /\ Becomes(q, NoRequest)
    /\ lineLock' = Released(lineLock, q)
    /\ productLock' = Released(productLock, q)

(* An error of the handler, a lock timeout, a deadlock or a lost connection. *)
Abort(q) ==
    /\ ~Free(q)
    /\ Finish(q)
    /\ UNCHANGED <<books, raced>>

-----------------------------------------------------------------------------
(* create_return *)

CreateBegin(q, r) ==
    /\ Free(q)
    /\ ret[r].status = "absent"
    /\ status[SaleOf(r)] = "COMPLETED"
    /\ \A l \in LinesOf(r) : Asked[r].qty[l] <= LineOf[l].qty - Returned(l)
    /\ Becomes(q, [op |-> "create", phase |-> "checked", ret |-> r, lines |-> LinesOf(r)])
    /\ Starts(LinesOf(r))
    /\ UNCHANGED <<books, lineLock, productLock>>

CreateCommit(q) ==
    /\ At(q, "create", "checked")
    /\ ret[req[q].ret].status = "absent"
    /\ ret' = [ret EXCEPT ![req[q].ret].status = "pending"]
    /\ Finish(q)
    /\ UNCHANGED <<status, stock, moved, wallet, cash, open, posted, raced>>

-----------------------------------------------------------------------------
(* approve_and_complete *)

ApproveBeginAnyStatus(q, r, method) ==   \* mutant: a rejected return can be approved
    /\ Free(q)
    /\ ret[r].status \notin {"absent", "completed"}
    /\ method \in Allowed(Sold[SaleOf(r)].method)
    /\ Becomes(q, [op |-> "approve", phase |-> "sum", ret |-> r, lines |-> LinesOf(r),
                   method |-> method, todo |-> LinesOf(r), line |-> Nobody, fits |-> FALSE,
                   shelf |-> [p \in Product |-> 0]])
    /\ Starts(LinesOf(r))
    /\ UNCHANGED <<books, lineLock, productLock>>

ApproveBegin(q, r, method) ==
    /\ Free(q)
    /\ ret[r].status = "pending"
    /\ method \in Allowed(Sold[SaleOf(r)].method)
    /\ Becomes(q, [op |-> "approve", phase |-> "sum", ret |-> r, lines |-> LinesOf(r),
                   method |-> method, todo |-> LinesOf(r), line |-> Nobody, fits |-> FALSE,
                   shelf |-> [p \in Product |-> 0]])
    /\ Starts(LinesOf(r))
    /\ UNCHANGED <<books, lineLock, productLock>>

FitsAlways(r, l) == TRUE   \* mutant: no ceiling at the approval

Fits(r, l) == Returned(l) + Asked[r].qty[l] <= LineOf[l].qty

(* The completed returns of the line are summed, and only then the line is   *)
(* locked: what is compared under the lock is the sum from before.           *)
ApproveSum(q, l) ==
    /\ At(q, "approve", "sum")
    /\ l \in req[q].todo
    /\ Becomes(q, [req[q] EXCEPT !.phase = "lock", !.line = l, !.fits = Fits(req[q].ret, l)])
    /\ UNCHANGED <<books, lineLock, productLock, raced>>

(* A sum that does not fit is a 409: Abort is all that is left. *)
ApproveLock(q) ==
    LET l == req[q].line
        left == req[q].todo \ {l}
    IN
    /\ At(q, "approve", "lock")
    /\ Granted(lineLock, l, q)
    /\ req[q].fits
    /\ lineLock' = [lineLock EXCEPT ![l] = q]
    /\ Becomes(q, IF left # {}
                  THEN [req[q] EXCEPT !.phase = "sum", !.todo = left, !.line = Nobody]
                  ELSE [req[q] EXCEPT !.phase = "shelve", !.todo = Restorable(req[q].ret),
                                      !.line = Nobody])
    /\ UNCHANGED <<books, productLock, raced>>

(* The product of a restorable line is locked and read. *)
ApproveShelveUnlocked(q, l) ==   \* mutant: the product is read without FOR UPDATE
    LET p == LineOf[l].product IN
    /\ At(q, "approve", "shelve")
    /\ l \in req[q].todo
    /\ Becomes(q, [req[q] EXCEPT !.todo = @ \ {l}, !.shelf = [@ EXCEPT ![p] = stock[p]]])
    /\ UNCHANGED <<books, lineLock, productLock, raced>>

ApproveShelve(q, l) ==
    LET p == LineOf[l].product IN
    /\ At(q, "approve", "shelve")
    /\ l \in req[q].todo
    /\ Granted(productLock, p, q)
    /\ productLock' = [productLock EXCEPT ![p] = q]
    /\ Becomes(q, [req[q] EXCEPT !.todo = @ \ {l}, !.shelf = [@ EXCEPT ![p] = stock[p]]])
    /\ UNCHANGED <<books, lineLock, raced>>

(* post_return: nothing for a return of no value, or one that has an entry.  *)
PostReturnUnguarded(r) ==   \* mutant: no idempotency guard
    posted' = IF Worth(r) > 0 THEN [posted EXCEPT ![r] = @ + 1] ELSE posted

PostReturn(r) ==
    posted' = IF Worth(r) > 0 /\ posted[r] = 0 THEN [posted EXCEPT ![r] = 1] ELSE posted

RefundTillOfAny(r, method) ==   \* mutant: any refund is taken from the till
    LET t == Sold[SaleOf(r)].till IN
    cash' = IF t \in open THEN [cash EXCEPT ![t] = @ - Worth(r)] ELSE cash

(* A cash refund is taken from the till of the sale if it is still open.     *)
RefundTill(r, method) ==
    LET t == Sold[SaleOf(r)].till IN
    cash' = IF method = "cash" /\ t \in open THEN [cash EXCEPT ![t] = @ - Worth(r)] ELSE cash

RefundWallet(r, method) ==
    LET c == Sold[SaleOf(r)].customer IN
    /\ method = "store_credit" => c # Nobody
    /\ wallet' = IF method = "store_credit" THEN [wallet EXCEPT ![c] = @ + Worth(r)] ELSE wallet

ApproveCommit(q) ==
    LET r == req[q].ret IN
    /\ At(q, "approve", "shelve")
    /\ req[q].todo = {}
    /\ stock' = [p \in Product |-> IF p \in Shelved(r) THEN req[q].shelf[p] + Back(r, p) ELSE stock[p]]
    /\ moved' = [p \in Product |-> IF p \in Shelved(r) THEN moved[p] + Back(r, p) ELSE moved[p]]
    /\ RefundWallet(r, req[q].method)
    /\ RefundTill(r, req[q].method)
    /\ PostReturn(r)
    /\ ret' = [ret EXCEPT ![r] = [status |-> "completed", method |-> req[q].method]]
    /\ Finish(q)
    /\ UNCHANGED <<status, open, raced>>

-----------------------------------------------------------------------------
(* reject_return *)

RejectBegin(q, r) ==
    /\ Free(q)
    /\ ret[r].status = "pending"
    /\ Becomes(q, [op |-> "reject", phase |-> "checked", ret |-> r, lines |-> LinesOf(r)])
    /\ Starts(LinesOf(r))
    /\ UNCHANGED <<books, lineLock, productLock>>

RejectCommit(q) ==
    /\ At(q, "reject", "checked")
    /\ ret' = [ret EXCEPT ![req[q].ret].status = "rejected"]
    /\ Finish(q)
    /\ UNCHANGED <<status, stock, moved, wallet, cash, open, posted, raced>>

-----------------------------------------------------------------------------
(* void_transaction, which does not ask for returns; close of a till *)

VoidBegin(q, s) ==
    /\ Free(q)
    /\ status[s] # "VOIDED"
    /\ Becomes(q, [op |-> "void", phase |-> "checked", sale |-> s, lines |-> SaleLines(s)])
    /\ Starts(SaleLines(s))
    /\ UNCHANGED <<books, lineLock, productLock>>

(* The products are locked together; what is read under the locks is written *)
(* at the commit, with the refund.                                           *)
VoidCommit(q) ==
    LET s == req[q].sale
        b == Sold[s]
    IN
    /\ At(q, "void", "checked")
    /\ \A p \in ProductsOf(s) : Granted(productLock, p, q)
    /\ stock' = [p \in Product |-> IF p \in ProductsOf(s) THEN stock[p] + SoldQty(s, p) ELSE stock[p]]
    /\ moved' = [p \in Product |-> IF p \in ProductsOf(s) THEN moved[p] + SoldQty(s, p) ELSE moved[p]]
    /\ wallet' = IF b.method = "store_credit" /\ b.customer # Nobody
                 THEN [wallet EXCEPT ![b.customer] = @ + Price(s)] ELSE wallet
    /\ cash' = IF b.method = "cash" /\ b.till # Nobody
               THEN [cash EXCEPT ![b.till] = @ - Price(s)] ELSE cash
    /\ status' = [status EXCEPT ![s] = "VOIDED"]
    /\ Finish(q)
    /\ UNCHANGED <<ret, open, posted, raced>>

CloseTill(t) ==
    /\ t \in open
    /\ open' = open \ {t}
    /\ UNCHANGED <<status, ret, stock, moved, wallet, cash, posted, lineLock, productLock, req, raced>>

-----------------------------------------------------------------------------
Init ==
    /\ status = [s \in Sale |-> "COMPLETED"]
    /\ ret = [r \in Return |-> [status |-> "absent", method |-> "none"]]
    /\ stock = InitStock
    /\ moved = [p \in Product |-> 0]
    /\ wallet = InitWallet
    /\ cash = Float
    /\ open = Till
    /\ posted = [r \in Return |-> 0]
    /\ lineLock = [l \in Line |-> Nobody]
    /\ productLock = [p \in Product |-> Nobody]
    /\ req = [q \in Request |-> NoRequest]
    /\ raced = FALSE

Serve(q) ==
    \/ \E r \in Return : CreateBegin(q, r) \/ RejectBegin(q, r)
    \/ \E r \in Return, method \in RefundMethod : ApproveBegin(q, r, method)
    \/ \E l \in Line : ApproveSum(q, l) \/ ApproveShelve(q, l)
    \/ \E s \in Sale : VoidBegin(q, s)
    \/ CreateCommit(q) \/ ApproveLock(q) \/ ApproveCommit(q) \/ RejectCommit(q) \/ VoidCommit(q)
    \/ Abort(q)

Next == (\E q \in Request : Serve(q)) \/ (\E t \in Till : CloseTill(t))

Spec == Init /\ [][Next]_vars

-----------------------------------------------------------------------------
(* Properties *)

Completed == {r \in Return : ret[r].status = "completed"}
Voided == {s \in Sale : status[s] = "VOIDED"}

(* What a request may be. *)
Served ==
    [op : {"none"}]
    \cup [op : {"create", "reject"}, phase : {"checked"}, ret : Return, lines : SUBSET Line]
    \cup [op : {"void"}, phase : {"checked"}, sale : Sale, lines : SUBSET Line]
    \cup [op : {"approve"}, phase : {"sum", "lock", "shelve"}, ret : Return, lines : SUBSET Line,
          method : RefundMethod, todo : SUBSET Line, line : Line \cup {Nobody}, fits : BOOLEAN,
          shelf : [Product -> Int]]

(* The shape of the state. *)
TypeOK ==
    /\ status \in [Sale -> {"COMPLETED", "VOIDED"}]
    /\ ret \in [Return -> [status : {"absent", "pending", "completed", "rejected"},
                           method : RefundMethod \cup {"none"}]]
    /\ stock \in [Product -> Int] /\ moved \in [Product -> Int]
    /\ wallet \in [Customer -> Int] /\ cash \in [Till -> Int] /\ open \subseteq Till
    /\ posted \in [Return -> Nat]
    /\ lineLock \in [Line -> Request \cup {Nobody}]
    /\ productLock \in [Product -> Request \cup {Nobody}]
    /\ req \in [Request -> Served]
    /\ raced \in BOOLEAN

(* In every interleaving of approvals, rejections and voids the quantity on  *)
(* the shelf is what the movements say: read and written under one lock.     *)
StockIsLedger == \A p \in Product : stock[p] = InitStock[p] + moved[p]

(* "Accounting, stock restoration, and status update are committed           *)
(* atomically": in every interleaving a completed return of some value has   *)
(* exactly one entry, and two approvals of one return post it once.          *)
PostedOnce ==
    \A r \in Return :
        /\ posted[r] <= 1
        /\ r \in Completed /\ Worth(r) > 0 => posted[r] = 1

(* "Qty ceiling": of no line comes back more than was sold, however many     *)
(* returns are pending at once.                                              *)
QtyCeiling == \A l \in Line : Returned(l) <= LineOf[l].qty

(* As long as no two requests on the same lines overlap, the ceiling holds.  *)
CeilingAlone == ~raced => QtyCeiling

\* What a completed return brings back of a product undamaged.
Intact(r, p) ==
    SumFunctionOnSet(Asked[r].qty, {l \in Line : LineOf[l].product = p} \ Asked[r].damaged)

\* The shelf has what completed returns brought back undamaged and voids brought back.
GoodsMatch ==
    \A p \in Product :
        stock[p] = InitStock[p] + SumFunctionOnSet([r \in Return |-> Intact(r, p)], Completed)
                                + SumFunctionOnSet([s \in Sale |-> SoldQty(s, p)], Voided)

\* What returns and voids are worth together.
Refunded(returns, sales) ==
    SumFunctionOnSet([r \in Return |-> Worth(r)], returns)
        + SumFunctionOnSet([s \in Sale |-> Price(s)], sales)

CreditedTo(c) == {r \in Completed : ret[r].method = "store_credit" /\ Sold[SaleOf(r)].customer = c}
VoidedTo(c) == {s \in Voided : Sold[s].method = "store_credit" /\ Sold[s].customer = c}
PaidFrom(t) == {r \in Completed : ret[r].method = "cash" /\ Sold[SaleOf(r)].till = t}
VoidedFrom(t) == {s \in Voided : Sold[s].method = "cash" /\ Sold[s].till = t}

\* Customers and open tills are short or richer by exactly what the completed
\* returns and the voids refunded by each method.
RefundsMatch ==
    /\ \A c \in Customer : wallet[c] = InitWallet[c] + Refunded(CreditedTo(c), VoidedTo(c))
    /\ \A t \in open : cash[t] = Float[t] - Refunded(PaidFrom(t), VoidedFrom(t))

(* As long as no two requests on the same lines overlap, goods and money     *)
(* come back together: shelves, wallets and tills have exactly what the      *)
(* completed returns and the voids brought back and paid out.                *)
ReturnsMatch == ~raced => GoodsMatch /\ RefundsMatch

(* "Completed and rejected returns are permanently immutable", as long as no *)
(* two requests on the same lines overlap.                                   *)
DecidedIsFinal ==
    [][~raced' => \A r \in Return : ret[r].status \in {"completed", "rejected"} => ret'[r] = ret[r]]_vars

=============================================================================

------------------------------- MODULE Sales -------------------------------
(***************************************************************************)
(* The life of a sale in the cloud backend: create_transaction,            *)
(* void_transaction and mpesa_confirm (routers/transactions.py), the STK   *)
(* push and the Daraja callback (routers/mpesa.py), the start-up clean-up  *)
(* of stale M-PESA sales (main.py), the journal entries they post          *)
(* (services/accounting.py) and the closing of the accounting period.      *)
(*                                                                         *)
(* A request is a thread of one of the uvicorn workers with a database     *)
(* session of its own.  Under PostgreSQL's READ COMMITTED a handler's      *)
(* plain reads see what is committed when they run and stay in the         *)
(* session's identity map afterwards; SELECT ... FOR UPDATE and UPDATE     *)
(* take row locks that are held until commit; nothing it writes is seen by *)
(* others before commit.  A handler is therefore a few steps: Begin (the   *)
(* plain reads and early returns), Lock (the products, and the reads made  *)
(* under their locks), Flush (the UPDATE of the sale's row) and Commit.    *)
(* A lock that is granted and the reads after it are one step: taking a    *)
(* lock commutes with what other requests do before those reads.  The      *)
(* products of a sale are locked together: line by line, two sales that    *)
(* list them in opposite orders can deadlock, and PostgreSQL then aborts   *)
(* one, which is Abort.                                                    *)
(***************************************************************************)
EXTENDS Integers, FiniteSets

CONSTANTS
    Sale,         \* transaction numbers: each is the Idempotency-Key of one basket
    Product, Customer, Session,
    Request,      \* request slots: how many handlers are in flight at once
    Basket,       \* what each sale sells, see BasketRecords
    InitStock, OpeningFloat, CreditLimit, InitWallet,
    Ops,          \* the handlers that run
    MaxPush,      \* bound: STK pushes per sale
    Isolated,     \* TRUE: requests that share a sale or a till do not overlap
    StockCheck,   \* TRUE: schema with CHECK (stock_quantity >= 0) (legacy profile)
    EnforceWidth, \* TRUE: VARCHAR lengths are enforced (PostgreSQL, not SQLite)
    NoRequest

Methods == {"CASH", "MPESA", "CARD", "CREDIT", "STORE_CREDIT"}

(* qty[p] is the number of units of p over all lines of the sale, largest[p] *)
(* the number on its largest single line, total and change in money.         *)
BasketRecords ==
    [method : Methods, qty : [Product -> Nat], largest : [Product -> Nat],
     total : Nat, change : Nat, customer : Customer, till : Session]

Handlers == {"create", "void", "confirm", "callback", "fail", "cleanup", "push"}

ASSUME BasketAssumption ==
    /\ Basket \in [Sale -> BasketRecords]
    /\ \A s \in Sale : \E p \in Product : Basket[s].qty[p] > 0
    /\ \A s \in Sale, p \in Product :
          /\ Basket[s].largest[p] <= Basket[s].qty[p]
          /\ Basket[s].qty[p] > 0 => Basket[s].largest[p] > 0

ASSUME OpeningAssumption ==
    /\ InitStock \in [Product -> Nat]
    /\ OpeningFloat \in [Session -> Nat]
    /\ CreditLimit \in [Customer -> Nat]
    /\ InitWallet \in [Customer -> Nat]

ASSUME ParameterAssumption ==
    /\ NoRequest \notin Request
    /\ Ops \subseteq Handlers
    /\ MaxPush \in Nat
    /\ {Isolated, StockCheck, EnforceWidth} \subseteq BOOLEAN

VARIABLES
    sale,         \* transactions: status, and the checkout id stored for callbacks
    stock,        \* products.stock_quantity
    moved,        \* sum of qty_delta over the product's stock_movements rows
    restored,     \* how often movements put the sale's lines back on the shelf
    entries,      \* journal_entries with this sale as ref_id: sales and reversals
    expected,     \* cash_sessions.expected_cash
    credit,       \* customers.credit_balance
    wallet,       \* customers.store_credit_balance
    periodOpen,   \* whether today's accounting period accepts entries
    push,         \* STK pushes Daraja accepted for the sale (checkout ids 1..push)
    req,          \* the handlers in flight, and what each has read
    productLock, rowLock

dbVars    == <<sale, stock, moved, restored, entries, expected, credit, wallet>>
lockVars  == <<productLock, rowLock>>
vars      == <<dbVars, periodOpen, push, req, lockVars>>

Statuses == {"absent", "PENDING", "COMPLETED", "VOIDED"}
Stages   == {"begun", "locked", "flushed"}

NoUnits == [p \in Product |-> 0]

(* A slot with no request in it.  In a request: shelf is stock_quantity as   *)
(* the session's Product objects hold it, delta what its movements add up    *)
(* to, cash the till's expected cash as read, posted, reversed and open what *)
(* the journal and period queries answered.                                  *)
Idle == [op |-> "none", stage |-> "begun", sales |-> {}, todo |-> {},
         shelf |-> NoUnits, delta |-> NoUnits, cash |-> 0, posted |-> FALSE,
         reversed |-> FALSE, open |-> FALSE, checkout |-> 0]

InFlight(r) == req[r].op # "none"

-----------------------------------------------------------------------------
(* Locks *)

Needed(s) == {p \in Product : Basket[s].qty[p] > 0}

Granted(lock, r, rows) == \A x \in rows : lock[x] \in {NoRequest, r}

Take(lock, r, rows) == [x \in DOMAIN lock |-> IF x \in rows THEN r ELSE lock[x]]

Release(lock, r) == [x \in DOMAIN lock |-> IF lock[x] = r THEN NoRequest ELSE lock[x]]

ReleaseLocks(r) ==
    /\ productLock' = Release(productLock, r)
    /\ rowLock' = Release(rowLock, r)

-----------------------------------------------------------------------------
(* Requests *)

SameTill(s, t) ==
    /\ Basket[s].method = "CASH" /\ Basket[t].method = "CASH"
    /\ Basket[s].till = Basket[t].till

Overlaps(r, S) ==
    \E s \in S, t \in req[r].sales \cup req[r].todo : s = t \/ SameTill(s, t)

Admit(r, op, S) ==
    /\ op \in Ops /\ ~InFlight(r)
    /\ Isolated => \A q \in Request : ~Overlaps(q, S)

Start(r, op, s) == [Idle EXCEPT !.op = op, !.sales = {s}]

At(r, op, stage) == req[r].op = op /\ req[r].stage = stage

(* The one sale a request other than the clean-up is about. *)
Of(r) == CHOOSE s \in Sale : req[r].sales = {s}

Finish(r) == req' = [req EXCEPT ![r] = Idle] /\ ReleaseLocks(r)

(* The session's rollback: locks go, nothing was written.  It stands for a   *)
(* lost connection, a lock timeout, a deadlock victim, a worker that dies.   *)
Abort(r) ==
    /\ InFlight(r)
    /\ Finish(r)
    /\ UNCHANGED <<dbVars, periodOpen, push>>

-----------------------------------------------------------------------------
(* Stock, its movements and the journal *)

(* Commit of the movements: the UPDATE writes the number the session         *)
(* computed, shelf + delta, whatever the row holds by then.                  *)
Move(r) ==
    /\ stock' = [p \in Product |-> IF req[r].delta[p] # 0
                                   THEN req[r].shelf[p] + req[r].delta[p] ELSE stock[p]]
    /\ moved' = [p \in Product |-> moved[p] + req[r].delta[p]]

SetStatusFailed(S, status) ==   \* mutant: "mark them FAILED/VOIDED"
    sale' = [s \in Sale |-> IF s \in S
                            THEN [sale[s] EXCEPT !.status = IF status = "VOIDED"
                                                            THEN "FAILED" ELSE status]
                            ELSE sale[s]]

SetStatus(S, status) ==
    sale' = [s \in Sale |-> IF s \in S THEN [sale[s] EXCEPT !.status = status] ELSE sale[s]]

(* post_transaction: one entry unless the query saw one. *)
PostSaleNotFromCallback(r, s) ==   \* mutant: the callback forgets the journal
    entries' = IF req[r].posted \/ req[r].op = "callback"
               THEN entries ELSE [entries EXCEPT ![s].sales = @ + 1]

PostSale(r, s) ==
    entries' = IF req[r].posted THEN entries ELSE [entries EXCEPT ![s].sales = @ + 1]

(* A closed period raises, and the caller rolls the whole sale back. *)
MayPost(r) == req[r].posted \/ req[r].open

(* post_transaction_void: a reversal if the queries saw an entry and no      *)
(* reversal; a closed period is logged and swallowed.                        *)
PostReversal(r, s) ==
    entries' = IF req[r].posted /\ ~req[r].reversed /\ req[r].open
               THEN [entries EXCEPT ![s].reversals = @ + 1] ELSE entries

(* stock_movements.movement_type is VARCHAR(20); the failure callback writes *)
(* "mpesa_failed_restore", the clean-up "mpesa_timeout_restore".             *)
ColumnWidth == 20
RestoreTypeLength(op) == IF op = "cleanup" THEN 21 ELSE 20

Storable(op) == EnforceWidth => RestoreTypeLength(op) <= ColumnWidth

(* SELECT ... FOR UPDATE on the products of s: an object already in the      *)
(* session keeps its value, a new one is read under the lock.  sign is what  *)
(* the handler does with the lines: -1 takes them, 1 puts them back.         *)
LockProductsUnlocked(r, s) == UNCHANGED productLock   \* mutant: no FOR UPDATE

LockProducts(r, s) ==
    /\ Granted(productLock, r, Needed(s))
    /\ productLock' = Take(productLock, r, Needed(s))

WithLines(q, s, sign) ==
    [q EXCEPT !.shelf = [p \in Product |->
                            IF p \in Needed(s) /\ q.delta[p] = 0 THEN stock[p] ELSE @[p]],
              !.delta = [p \in Product |-> @[p] + sign * Basket[s].qty[p]]]

WithJournalNoVoidQuery(q, s) ==   \* mutant: the void query is dropped
    [q EXCEPT !.stage = "locked", !.posted = entries[s].sales > 0, !.open = periodOpen]

WithJournal(q, s) ==
    [q EXCEPT !.stage = "locked", !.posted = entries[s].sales > 0,
              !.reversed = entries[s].reversals > 0, !.open = periodOpen]

(* The UPDATE of the transactions rows waits for their row locks.  A void    *)
(* asks for the period after it, in the reversal.                            *)
Flush(r) ==
    /\ \E op \in {"void", "fail", "confirm", "cleanup"} : At(r, op, "locked")
    /\ Granted(rowLock, r, req[r].sales)
    /\ rowLock' = Take(rowLock, r, req[r].sales)
    /\ req' = [req EXCEPT ![r].stage = "flushed",
                          ![r].open = IF req[r].op = "void" THEN periodOpen ELSE @]
    /\ UNCHANGED <<dbVars, periodOpen, push, productLock>>

-----------------------------------------------------------------------------
(* POST /transactions *)

(* The idempotency check: an existing number is answered without a change. *)
CreateBegin(r, s) ==
    /\ Admit(r, "create", {s})
    /\ sale[s].status = "absent"
    /\ req' = [req EXCEPT ![r] = Start(r, "create", s)]
    /\ UNCHANGED <<dbVars, periodOpen, push, lockVars>>

(* Every line is compared with the stock before the sale. *)
AvailableUnchecked(s) == TRUE   \* mutant: no stock check

Available(s) == \A p \in Needed(s) : stock[p] >= Basket[s].largest[p]

(* Products are locked line by line; the till is then read without a lock    *)
(* and stays in the session, so that its expected cash is the one seen here. *)
CreateLock(r) ==
    LET s == Of(r) IN
    /\ At(r, "create", "begun")
    /\ LockProducts(r, s)
    /\ Available(s)
    /\ req' = [req EXCEPT ![r] = [WithLines(@, s, -1) EXCEPT !.stage = "locked",
                                   !.cash = expected[Basket[s].till], !.open = periodOpen]]
    /\ UNCHANGED <<dbVars, periodOpen, push, rowLock>>

(* Checked under the customer's row lock, which is held until commit. *)
WithinCredit(s) ==
    LET c == Basket[s].customer IN
    CASE Basket[s].method = "CREDIT" ->
            CreditLimit[c] > 0 => credit[c] + Basket[s].total <= CreditLimit[c]
      [] Basket[s].method = "STORE_CREDIT" -> wallet[c] >= Basket[s].total
      [] OTHER -> TRUE

Paid(s) == Basket[s].method # "MPESA"

(* The number is unique; stock may have a CHECK; the period must be open.    *)
CreateAllowed(r) ==
    LET s == Of(r) IN
    /\ sale[s].status = "absent"
    /\ StockCheck => \A p \in Product : req[r].shelf[p] + req[r].delta[p] >= 0
    /\ WithinCredit(s)
    /\ Paid(s) => MayPost(r)

ChargeCustomer(b) ==
    /\ credit' = IF b.method = "CREDIT"
                 THEN [credit EXCEPT ![b.customer] = @ + b.total] ELSE credit
    /\ wallet' = IF b.method = "STORE_CREDIT"
                 THEN [wallet EXCEPT ![b.customer] = @ - b.total] ELSE wallet

(* The insert, the movements, the customer, the till and the journal in one  *)
(* commit.  An expected cash that does not change is not written.            *)
CreateCommit(r) ==
    LET s == Of(r)
        b == Basket[s]
    IN
    /\ At(r, "create", "locked")
    /\ CreateAllowed(r)
    /\ SetStatus({s}, IF Paid(s) THEN "COMPLETED" ELSE "PENDING")
    /\ Move(r)
    /\ expected' = IF b.method = "CASH" /\ b.total # b.change
                   THEN [expected EXCEPT ![b.till] = req[r].cash + b.total - b.change]
                   ELSE expected
    /\ ChargeCustomer(b)
    /\ IF Paid(s) THEN PostSale(r, s) ELSE UNCHANGED entries
    /\ Finish(r)
    /\ UNCHANGED <<restored, periodOpen, push>>

-----------------------------------------------------------------------------
(* POST /transactions/{id}/void *)

(* The sale is read without a lock; only a voided one is refused. *)
VoidBeginAnyStatus(r, s) ==   \* mutant: a voided sale is not refused
    /\ Admit(r, "void", {s})
    /\ sale[s].status # "absent"
    /\ req' = [req EXCEPT ![r] = Start(r, "void", s)]
    /\ UNCHANGED <<dbVars, periodOpen, push, lockVars>>

VoidBegin(r, s) ==
    /\ Admit(r, "void", {s})
    /\ sale[s].status \in {"PENDING", "COMPLETED"}
    /\ req' = [req EXCEPT ![r] = Start(r, "void", s)]
    /\ UNCHANGED <<dbVars, periodOpen, push, lockVars>>

VoidLock(r) ==
    /\ At(r, "void", "begun")
    /\ LockProducts(r, Of(r))
    /\ req' = [req EXCEPT ![r] = WithJournal(WithLines(@, Of(r), 1), Of(r))]
    /\ UNCHANGED <<dbVars, periodOpen, push, rowLock>>

RefundCustomerCreditOnly(b) ==   \* mutant: the wallet is not paid back
    /\ credit' = IF b.method = "CREDIT"
                 THEN [credit EXCEPT ![b.customer] = @ - b.total] ELSE credit
    /\ UNCHANGED wallet

RefundCustomer(b) ==
    LET owed == credit[b.customer] - b.total IN
    /\ credit' = IF b.method = "CREDIT"
                 THEN [credit EXCEPT ![b.customer] = IF owed > 0 THEN owed ELSE 0] ELSE credit
    /\ wallet' = IF b.method = "STORE_CREDIT"
                 THEN [wallet EXCEPT ![b.customer] = @ + b.total] ELSE wallet

RefundTillGross(b) ==   \* mutant: the change is forgotten
    expected' = IF b.method = "CASH" THEN [expected EXCEPT ![b.till] = @ - b.total] ELSE expected

RefundTill(b) ==
    expected' = IF b.method = "CASH"
                THEN [expected EXCEPT ![b.till] = @ - (b.total - b.change)] ELSE expected

VoidCommit(r) ==
    LET s == Of(r)
        b == Basket[s]
    IN
    /\ At(r, "void", "flushed")
    /\ SetStatus({s}, "VOIDED")
    /\ Move(r)
    /\ restored' = [restored EXCEPT ![s] = @ + 1]
    /\ RefundCustomer(b)
    /\ RefundTill(b)
    /\ PostReversal(r, s)
    /\ Finish(r)
    /\ UNCHANGED <<periodOpen, push>>

-----------------------------------------------------------------------------
(* A payment is recorded: the Daraja success callback, or the manager's      *)
(* manual confirmation.                                                      *)

(* The callback locks the row, SKIP LOCKED: a locked row is "not found", and *)
(* a sale that is not PENDING is left alone.  Either way the answer to       *)
(* Safaricom is 200 and nothing changes.                                     *)
CallbackBeginUnlocked(r, s) ==   \* mutant: a plain SELECT
    /\ Admit(r, "callback", {s})
    /\ push[s] > 0
    /\ sale[s].status = "PENDING"
    /\ req' = [req EXCEPT ![r] = Start(r, "callback", s)]
    /\ UNCHANGED <<dbVars, periodOpen, push, lockVars>>

CallbackBegin(r, s) ==
    /\ Admit(r, "callback", {s})
    /\ push[s] > 0
    /\ rowLock[s] = NoRequest
    /\ sale[s].status = "PENDING"
    /\ rowLock' = Take(rowLock, r, {s})
    /\ req' = [req EXCEPT ![r] = Start(r, "callback", s)]
    /\ UNCHANGED <<dbVars, periodOpen, push, productLock>>

(* The manual path reads the sale without a lock. *)
ConfirmBeginVoided(r, s) ==   \* mutant: only COMPLETED is refused
    /\ Admit(r, "confirm", {s})
    /\ sale[s].status \in {"PENDING", "VOIDED"}
    /\ req' = [req EXCEPT ![r] = Start(r, "confirm", s)]
    /\ UNCHANGED <<dbVars, periodOpen, push, lockVars>>

ConfirmBegin(r, s) ==
    /\ Admit(r, "confirm", {s})
    /\ sale[s].status = "PENDING"
    /\ req' = [req EXCEPT ![r] = Start(r, "confirm", s)]
    /\ UNCHANGED <<dbVars, periodOpen, push, lockVars>>

(* post_transaction's queries: is there an entry, is the period open. *)
PaymentPrepare(r) ==
    /\ At(r, "callback", "begun") \/ At(r, "confirm", "begun")
    /\ req' = [req EXCEPT ![r] = WithJournal(@, Of(r))]
    /\ UNCHANGED <<dbVars, periodOpen, push, lockVars>>

PaymentCommit(r) ==
    /\ At(r, "callback", "locked") \/ At(r, "confirm", "flushed")
    /\ MayPost(r)
    /\ SetStatus(req[r].sales, "COMPLETED")
    /\ PostSale(r, Of(r))
    /\ Finish(r)
    /\ UNCHANGED <<stock, moved, restored, expected, credit, wallet, periodOpen, push>>

-----------------------------------------------------------------------------
(* The Daraja failure callback: correlated by the stored checkout id, read   *)
(* without a lock.                                                           *)
FailBeginRowFirst(r, s, checkout) ==   \* mutant: the row is locked before the products
    /\ Admit(r, "fail", {s})
    /\ checkout \in 1..push[s] /\ sale[s].checkout = checkout
    /\ sale[s].status = "PENDING"
    /\ Granted(rowLock, r, {s})
    /\ rowLock' = Take(rowLock, r, {s})
    /\ req' = [req EXCEPT ![r] = Start(r, "fail", s)]
    /\ UNCHANGED <<dbVars, periodOpen, push, productLock>>

FailBegin(r, s, checkout) ==
    /\ Admit(r, "fail", {s})
    /\ checkout \in 1..push[s]
    /\ sale[s].checkout = checkout
    /\ sale[s].status = "PENDING"
    /\ req' = [req EXCEPT ![r] = Start(r, "fail", s)]
    /\ UNCHANGED <<dbVars, periodOpen, push, lockVars>>

FailLock(r) ==
    /\ At(r, "fail", "begun")
    /\ LockProducts(r, Of(r))
    /\ req' = [req EXCEPT ![r] = [WithLines(@, Of(r), 1) EXCEPT !.stage = "locked"]]
    /\ UNCHANGED <<dbVars, periodOpen, push, rowLock>>

-----------------------------------------------------------------------------
(* Start-up clean-up, run by the lifespan of every worker.  Age is not       *)
(* modelled: any set of the pending M-PESA sales may be the stale ones.      *)
CleanupBegin(r, S) ==
    /\ Admit(r, "cleanup", S)
    /\ S # {}
    /\ \A s \in S : sale[s].status = "PENDING" /\ Basket[s].method = "MPESA"
    /\ req' = [req EXCEPT ![r] = [Idle EXCEPT !.op = "cleanup", !.todo = S]]
    /\ UNCHANGED <<dbVars, periodOpen, push, lockVars>>

(* After the turn of s, sales are what the session will void. *)
AfterTurn(q, s, sales) ==
    [q EXCEPT !.todo = @ \ {s}, !.sales = sales,
              !.stage = IF q.todo \ {s} = {} THEN "locked" ELSE "begun"]

(* One turn of the loop: lock the sale's products, put its lines back. *)
CleanupTake(r, s) ==
    /\ At(r, "cleanup", "begun")
    /\ s \in req[r].todo
    /\ LockProducts(r, s)
    /\ req' = [req EXCEPT ![r] = AfterTurn(WithLines(@, s, 1), s, @.sales \cup {s})]
    /\ UNCHANGED <<dbVars, periodOpen, push, rowLock>>

(* A turn that raises: rollback; continue.  The rollback drops what earlier  *)
(* turns did, and their sales are not tried again.                           *)
CleanupSkip(r, s) ==
    /\ At(r, "cleanup", "begun")
    /\ s \in req[r].todo
    /\ req' = [req EXCEPT ![r] =
                  AfterTurn([Idle EXCEPT !.op = "cleanup", !.todo = req[r].todo], s, {})]
    /\ ReleaseLocks(r)
    /\ UNCHANGED <<dbVars, periodOpen, push>>

(* The failure callback and the clean-up end alike: the lines are back on    *)
(* the shelf and the sales VOIDED, or the rows are refused and nothing is.   *)
RestoreCommit(r) ==
    /\ At(r, "fail", "flushed") \/ At(r, "cleanup", "flushed")
    /\ Storable(req[r].op)
    /\ SetStatus(req[r].sales, "VOIDED")
    /\ Move(r)
    /\ restored' = [s \in Sale |-> IF s \in req[r].sales THEN restored[s] + 1 ELSE restored[s]]
    /\ Finish(r)
    /\ UNCHANGED <<entries, expected, credit, wallet, periodOpen, push>>

-----------------------------------------------------------------------------
(* POST /mpesa/stk-push: the sale is checked, Daraja is awaited, and only    *)
(* then is the checkout id stored (over an earlier one).                     *)
PushBegin(r, s) ==
    /\ Admit(r, "push", {s})
    /\ push[s] < MaxPush
    /\ sale[s].status = "PENDING"
    /\ req' = [req EXCEPT ![r] = Start(r, "push", s)]
    /\ UNCHANGED <<dbVars, periodOpen, push, lockVars>>

PushAccepted(r) ==
    LET s == Of(r) IN
    /\ At(r, "push", "begun")
    /\ push[s] < MaxPush
    /\ push' = [push EXCEPT ![s] = @ + 1]
    /\ req' = [req EXCEPT ![r].stage = "locked", ![r].checkout = push[s] + 1]
    /\ UNCHANGED <<dbVars, periodOpen, lockVars>>

PushCommit(r) ==
    LET s == Of(r) IN
    /\ At(r, "push", "locked")
    /\ Granted(rowLock, r, {s})
    /\ sale' = [sale EXCEPT ![s].checkout = req[r].checkout]
    /\ Finish(r)
    /\ UNCHANGED <<stock, moved, restored, entries, expected, credit, wallet, periodOpen, push>>

(* PATCH /reconciliation/period/{id}/close.  No route opens it again. *)
ClosePeriod ==
    /\ periodOpen
    /\ periodOpen' = FALSE
    /\ UNCHANGED <<dbVars, push, req, lockVars>>

-----------------------------------------------------------------------------
Init ==
    /\ sale = [s \in Sale |-> [status |-> "absent", checkout |-> 0]]
    /\ stock = InitStock
    /\ moved = NoUnits
    /\ restored = [s \in Sale |-> 0]
    /\ entries = [s \in Sale |-> [sales |-> 0, reversals |-> 0]]
    /\ expected = OpeningFloat
    /\ credit = [c \in Customer |-> 0]
    /\ wallet = InitWallet
    /\ periodOpen = TRUE
    /\ push = [s \in Sale |-> 0]
    /\ req = [r \in Request |-> Idle]
    /\ productLock = [p \in Product |-> NoRequest]
    /\ rowLock = [s \in Sale |-> NoRequest]

Begin(r) ==
    \/ \E s \in Sale :
          CreateBegin(r, s) \/ VoidBegin(r, s) \/ CallbackBegin(r, s)
          \/ ConfirmBegin(r, s) \/ PushBegin(r, s)
    \/ \E s \in Sale, checkout \in 1..MaxPush : FailBegin(r, s, checkout)
    \/ \E S \in SUBSET Sale : CleanupBegin(r, S)

(* The steps of a handler that has begun, each towards its commit. *)
Proceed(r) ==
    \/ CreateLock(r) \/ VoidLock(r) \/ FailLock(r) \/ PaymentPrepare(r) \/ PushAccepted(r)
    \/ \E s \in Sale : CleanupTake(r, s)
    \/ Flush(r)
    \/ CreateCommit(r) \/ VoidCommit(r) \/ PaymentCommit(r) \/ RestoreCommit(r)
    \/ PushCommit(r)

(* The handlers' own refusals once begun: HTTP 4xx or 500 and a rollback. *)
Refused(r) ==
    \/ At(r, "create", "begun") /\ Granted(productLock, r, Needed(Of(r))) /\ ~Available(Of(r))
    \/ At(r, "create", "locked") /\ ~CreateAllowed(r)
    \/ (At(r, "callback", "locked") \/ At(r, "confirm", "flushed")) /\ ~MayPost(r)
    \/ At(r, "cleanup", "flushed") /\ ~Storable("cleanup")
    \/ At(r, "push", "begun") /\ push[Of(r)] = MaxPush

Reject(r) ==
    /\ Refused(r)
    /\ Finish(r)
    /\ UNCHANGED <<dbVars, periodOpen, push>>

Interrupt(r) == Abort(r) \/ \E s \in Sale : CleanupSkip(r, s)

Next ==
    \/ \E r \in Request : Begin(r) \/ Proceed(r) \/ Reject(r) \/ Interrupt(r)
    \/ ClosePeriod

Spec == Init /\ [][Next]_vars

(* PostgreSQL grants a lock to its waiters in turn and a handler's thread    *)
(* runs on: a step that keeps becoming possible is taken.  Nothing obliges   *)
(* requests to begin, connections to break or a period to close.             *)
FairHandlers == \A r \in Request : SF_vars(Proceed(r) \/ Reject(r))

(* As long as nothing breaks. *)
CalmNext ==
    \/ \E r \in Request : Begin(r) \/ Proceed(r) \/ Reject(r)
    \/ ClosePeriod

CalmSpec == Init /\ [][CalmNext]_vars /\ FairHandlers

-----------------------------------------------------------------------------
(* Properties *)

(* The shape of the state: what the tables, the locks and the sessions hold. *)
RequestRecords ==
    [op : Handlers \cup {"none"}, stage : Stages, sales : SUBSET Sale, todo : SUBSET Sale,
     shelf : [Product -> Int], delta : [Product -> Int], cash : Int, posted : BOOLEAN,
     reversed : BOOLEAN, open : BOOLEAN, checkout : Nat]

TypeOK ==
    /\ sale \in [Sale -> [status : Statuses, checkout : Nat]]
    /\ stock \in [Product -> Int]
    /\ moved \in [Product -> Int]
    /\ restored \in [Sale -> Nat]
    /\ entries \in [Sale -> [sales : Nat, reversals : Nat]]
    /\ expected \in [Session -> Int]
    /\ credit \in [Customer -> Int]
    /\ wallet \in [Customer -> Int]
    /\ periodOpen \in BOOLEAN
    /\ push \in [Sale -> Nat]
    /\ req \in [Request -> RequestRecords]
    /\ productLock \in [Product -> Request \cup {NoRequest}]
    /\ rowLock \in [Sale -> Request \cup {NoRequest}]

(* The fast-read cache products.stock_quantity agrees with the authoritative *)
(* stock_movements table whatever the interleaving of sales, voids, failed   *)
(* payments and clean-ups: every handler writes a number computed from a     *)
(* read under the product's row lock.                                        *)
StockIsLedger == \A p \in Product : stock[p] = InitStock[p] + moved[p]

(* A COMPLETED sale is in the journal, whichever of the create, the callback *)
(* and the manual confirmation completed it: posting is atomic with the      *)
(* status, and a period that is closed refuses both.                         *)
CompletedIsPosted ==
    \A s \in Sale : sale[s].status = "COMPLETED" => entries[s].sales >= 1

(* A sale is reversed at most once in the journal, and only if it was        *)
(* posted: the locks on its products also serialise the journal queries of   *)
(* concurrent voids.                                                         *)
ReversedAtMostOnce ==
    \A s \in Sale : entries[s].reversals <= 1 /\ entries[s].reversals <= entries[s].sales

(* A sale is posted at most once.  "Idempotency guard - never double-post".  *)
PostedAtMostOnce == \A s \in Sale : entries[s].sales <= 1

(* The lines of a sale go back on the shelf at most once.                    *)
RestoredAtMostOnce == \A s \in Sale : restored[s] <= 1

(* A void is final: no later step gives the sale another status. *)
VoidedIsFinal ==
    [][\A s \in Sale : sale[s].status = "VOIDED" => sale'[s].status = "VOIDED"]_vars

(* No entry is posted into a period that is closed. *)
NoEntryInClosedPeriod == [][~periodOpen => UNCHANGED entries]_vars

(* No handler waits for ever on another: products are locked before the      *)
(* sale's row, and whoever holds a row needs no product any more.            *)
HandlersEnd == \A r \in Request : InFlight(r) ~> ~InFlight(r)

(* "Restore their stock movements, and mark them" voided (main.py line 155): *)
(* each stale sale the clean-up found ends VOIDED or, if a payment was       *)
(* recorded meanwhile, COMPLETED.  The code keeps this only on a database    *)
(* that does not enforce lengths, and as long as no turn fails: on           *)
(* PostgreSQL every commit of the clean-up is refused.                       *)
StaleSalesSettle ==
    \A r \in Request, s \in Sale :
        s \in req[r].todo ~> sale[s].status \in {"VOIDED", "COMPLETED"}

=============================================================================

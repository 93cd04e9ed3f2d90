# SmartLynx POS in TLA+

SmartLynx is a point of sale for shops: terminals (React in an Electron shell or a
browser), a FastAPI backend on PostgreSQL that keeps stock, customers, tills and books, an
M-PESA gateway (Daraja), the tax authority's eTIMS service, and an agent that synchronises
a shop's local database with the cloud. This directory specifies the parts of it where a
test hardly reaches what can go wrong: database transactions that interleave, callbacks
that come late or twice, queues that are posted again, decisions taken on what was read
before a lock, caches and lists kept in several workers, and books that must agree with
the documents they are about.

Everything is translated from the code. A module's comments say where it abstracts, and
`map` in PROJECT.json says which lines a definition stands for.

## The system

| Component | State | Operations | Talks to |
|---|---|---|---|
| Sales (`routers/transactions.py`) | `transactions`, `transaction_items` | create, void, confirm an M-PESA payment by hand | stock, customers, tills, accounting, eTIMS |
| M-PESA gateway (`routers/mpesa.py`) | `mpesa_checkout_id` of a sale | STK push, callback (success and failure) | Daraja; sales, stock, accounting, notices |
| Start-up clean-up (`main.py:153`) | none | voids M-PESA sales pending for ten minutes and restores their stock | sales, stock; runs in every worker |
| Accounting (`services/accounting.py`) | `accounts`, `journal_entries`, lines | one posting for each kind of document; ledgers, trial balance, statements, aging; deactivate an account | called inside the caller's transaction; asks for the period |
| Periods, reconciliation (`services/reconciliation.py`) | `accounting_periods` | create, close, lock; `assert_period_open`; integrity reports | every posting |
| Stock ledger (`models/product.py`) | `products.stock_quantity`, `stock_movements` | a movement with every change of the quantity | sales, returns, procurement, adjustments |
| Returns (`services/returns.py`) | `return_transactions`, `return_items` | create, approve and complete, reject | sale lines, stock, customer, till, accounting |
| Cash sessions (`routers/cash_sessions.py`) | `cash_sessions` with `expected_cash` | open, close and count | sales, voids, refunds, accounting |
| Customers (`routers/customers.py`) | `credit_balance`, `store_credit_balance` | adjust the balance, payment | sales, voids, refunds, accounting |
| Expenses (`routers/expenses.py`) | `expense_vouchers` | create, void | accounting |
| Procurement (`services/procurement.py`) | purchase orders, goods received notes, invoice matches | create, update, submit, approve, cancel; post and cancel a note; match | stock, cost, accounting |
| Products (`routers/products.py`, `scripts/import_products_csv.py`) | `products`, Redis entries for the list and for barcodes | create, patch, adjust, import, look up | cache, stock ledger, accounting |
| Authentication (`routers/auth.py`, `core/distributed_auth.py`) | `refresh_sessions`, revocation lists in Redis and in each worker, tickets | login, refresh, logout, logout-all; deactivate an employee | every route |
| Notices (`routers/ws.py`, `core/notifier.py`, `core/pubsub.py`, `useMpesaSocket.js`) | sockets, one registry per worker, a Redis channel | open, send, publish, subscribe, reconnect | M-PESA callbacks, terminal |
| eTIMS (`routers/etims.py`, `services/etims.py`) | receipt columns of a sale, audit rows | submit, retry-all, automatic submission and retry | the tax authority |
| Synchronisation (`sync-agent/`, `routers/sync.py`) | `checkpoints.json`, retry queue, dead letters; idempotency keys in the cloud | push sales, push and pull products and customers, drain retries, resolve conflicts | local database, cloud |
| Terminal: sale flow (`POSTerminal.jsx`) | the sale on the screen | scan, complete, receipt, reset | API client, offline queue |
| Terminal: offline queue (`useOfflineQueue.js`, `electron/main.js`) | rows of `offline_queue`, running `syncQueue` calls | enqueue, post, clear, mark failed | API client; survives restarts |
| Terminal: API client (`api/client.js`) | the session's tokens | request, refresh on 401 | backend |
| Reports (`routers/reports.py`) | none | z-tape, weekly, VAT | sales |
| Subscriptions, registration, platform, costing, tax engine, screens, scripts | see PROJECT.json | | |

What is hard here:

* **Interleavings.** Each request has a session of its own under READ COMMITTED, without
  autoflush, in one of four worker processes. Plain reads are committed values that stay in
  the identity map; row locks are held to the commit. Handlers differ in what they lock:
  `create` locks products, `mpesa_callback` locks the sale only on success, `void` and
  `mpesa_confirm` never lock it, an approval of a return locks a line *after* it has summed
  what came back before, the handlers of a purchase order, a cash session, a refresh token
  and a stock adjustment decide by what they read and lock nothing.
* **Delivery.** Daraja may answer twice, late, or before the checkout id is stored. The
  terminal's POST carries no key the server could recognise. A request the agent gave up
  after fifteen seconds may still be carried out in the cloud, beside its own repetition.
* **Failure in the middle.** Any handler may be cut off by a lock timeout
  (`database.py:42`, 10 s), a deadlock or a lost connection; some go on with the next
  record, and some answer 200 all the same.
* **Restarts.** The terminal's queue, the agent's checkpoints and retry queue survive;
  screens, running calls, tickets and the lists in a worker's memory do not. Redis may
  forget everything.
* **Time.** Checkpoints are timestamps cut to milliseconds; rows become visible later than
  their `updated_at`; the shop's day, the UTC day and the day of an entry differ at night.
* **Limits.** `stock_movements.movement_type` has 20 characters; the retry counters end;
  stock, balances and credit are cut off at zero in some places and not in others.

What makes each component correct: stock equals its ledger, and both what the documents
say; a sale is posted once when complete and reversed at most once; what a void or a refund
gives back is what the sale took; no sale is lost, entered twice or counted twice in the
cloud; a filed sale stays filed; nothing comes back more often than it was sold; ledger,
statement, z-tape and VAT report tell the same story; a login that ended stays
ended; an event reaches the socket that is open, once; every handler ends. The list of
hazards, each at its line with the properties that watch it, is in PROJECT.json.

## The modules

| Module | What it is |
|---|---|
| `Sales` | The life of a sale in the backend: create, void, both confirmations, both callback branches, STK push, clean-up, the closing of the period |
| `SaleContract` | What that promises, without requests, locks or tables: ring, pay, cancel |
| `SaleAccounts` | What stock, customers and tills must add up to, and `Sales` as an implementation of `SaleContract` |
| `Returns` | Create, approve and reject a return, and the void of the sale it is about |
| `Terminal` | The sale on the screen, the offline queue, `syncQueue` and `request()` |
| `Etims` | The four ways a sale is submitted to the tax authority |
| `Outbox` | Extends `Etims`: the agent's transaction push, its retry queue, and the cloud's ingest with its idempotency keys |
| `TableSync` | Products and customers pushed and pulled between shop and cloud |
| `Procurement` | Purchase orders, goods received notes, invoice matches, and the entry a note makes |
| `Books` | The general ledger as pure operators: entries, balances, statements, reports |
| `CashDesk` | Extends `Books`: cash sessions, customers' money, vouchers, periods, and the money side of sales |
| `Catalog` | Products, their cached reads, adjustments and both imports |
| `Access` | Logins and refresh sessions over several workers |
| `Notices` | Extends `Access`: a terminal's sockets and the events sent to them |
| `MC...` | Small instances for TLC |
| `SalesProofs` | Theorems about `Sales` and `SaleAccounts`, and the refinement of `SaleContract` |
| `ReturnsProofs`, `ProcurementProofs` | Theorems about `Returns` and `Procurement` |
| `TerminalProofs` | Theorems about a till: `Terminal`, and `Access` with `Notices` |
| `OutboxProofs` | Theorems about `Etims` and `Outbox` |
| `CatalogProofs` | Theorems about `Catalog` and `TableSync`, the products and their copies |
| `CashDeskProofs` | Theorems about `Books` and `CashDesk` |
| `SumTheorems` | Sums over finite sets, used by four of them |

Operators marked "mutant" in a comment are plausible bugs, used by no action; PROJECT.json
names the definition each would replace, and the property that then fails.

### Sales

`sale` is the row of `transactions` (status and checkout id), `stock` and `moved` the
quantity and the sum of its movements, `entries` the sales and reversal entries of the
journal, `expected`, `credit` and `wallet` the till and customer columns. `req` holds
request slots: a handler in flight, the sales it is about, and what its session read.
A handler is three or four steps. *Begin* is the plain reads and early returns; *Lock*
takes the product locks and reads under them; *Flush* is the UPDATE of the sale's row where
the code flushes before its commit, and takes the row lock; *Commit* writes. `Reject` is a
refusal of the handler, `Abort` anything that cuts it off, both with a rollback.
Taking a lock and reading after it are one step: the lock alone commutes with the others.

| Action | Code |
|---|---|
| `CreateBegin`, `CreateLock`, `CreateCommit` | `create_transaction`: idempotency query; products, customer, cash session; insert to commit |
| `VoidBegin`, `VoidLock`, `VoidCommit` | `void_transaction` |
| `CallbackBegin`, `ConfirmBegin`, `PaymentPrepare`, `PaymentCommit` | success branch of `mpesa_callback`; `mpesa_confirm`; `post_transaction` |
| `FailBegin`, `FailLock`, `RestoreCommit` | failure branch of `mpesa_callback` |
| `CleanupBegin`, `CleanupTake`, `CleanupSkip`, `RestoreCommit` | `_cleanup_stale_mpesa`: the query, a turn, a turn that failed and rolled back, the commit |
| `PushBegin`, `PushAccepted`, `PushCommit` | `initiate_stk_push` before, at and after its `await` |
| `ClosePeriod` | `close_period` for today's period |

A basket is its quantities, its largest line, its total and its change; prices, VAT and
discounts are in the total. The 21-character type of the clean-up meets `ColumnWidth` only
if `EnforceWidth` says that the database enforces lengths (PostgreSQL does, SQLite does
not). `StockCheck` is the CHECK of the legacy migrations, which the bootstrap one lacks.

`Isolated` admits a request only if no other on the same sale or till is in flight. It is a
restriction of the instance, not of the code: `AccountsMatchSales` and `KeepsContract` are
claimed only for such histories, because concurrent requests on one sale break them.

### Returns

`ret` is status and refund method of each return; `Asked` fixes its lines, quantities and
damaged lines, and `schemas/returns.py` makes the lines distinct. `ApproveBegin` reads return and sale
without a lock. For each line `ApproveSum` adds up what completed returns brought back and
`ApproveLock` then locks the line and compares: in this order, as
`_qty_already_returned` does. `ApproveShelve` locks and reads the product of each restorable
line, and `ApproveCommit` is everything the code writes: stock and movements, wallet or
till, the entry, the status. `CloseTill` is there because a cash refund leaves a closed
session alone. `raced` remembers that two requests on the same lines have overlapped.
Sales here were paid without change, all in one accounting period that stays open: a period
that is closed makes an approval fail, which is `Abort`.

### Terminal

`till` is the sale on the screen, `queue` the rows of `offline_queue`, `loops` the running
`syncQueue` calls (`mine` marks those of the page that is mounted), `length` and `due`
the React state that triggers the effect, `recorded` the transactions the cloud has of each
purchase. `Record` is the server carrying out a POST: always one more transaction, because
`client.js:311` passes the key's header where `request()` expects `retry401`. `Faults`
selects what may go wrong; each is described beside `AllFaults`. The network comes and goes
at any time. `doubtful` remembers the carts that met one of four mishaps, after which the code
may sell a purchase again: its answer was lost, a restart came before its sale or its item was
settled, the page was left then (by the cashier, or for the login), or F9 was pressed on its receipt. `unkept` remembers
those whose item `enqueue` did not store, or `syncQueue` took for synced on an expired session.

### Etims and Outbox

In `Etims` a `task` is a handler: a request, the task of a new sale, retry-all, or a retry
that looks, sleeps, and submits without looking again. `SubmitInvoice` is the await: the
authority files or not, and its answer arrives or not. `CommitResults` writes what came
back over whatever the row has become. Retry-all reads its sales once and commits every
`RetryBatch` of them (fifty in the code); after the first commit (mode `"later"`) it loads each
row again without looking whether it has been filed meanwhile. `filed` are the rows it loaded so: for
them a failure is written over the receipt. `LoseBatch` is a commit that fails, after which it
goes on. Invoice number, QR code and flag are one receipt.

`Outbox` adds the agent's cycle (`StartCycle`, `Replay`, `Promote`, `PostBatch`,
`Answered`, `Acknowledge`) and requests in the cloud, which take a sale at a time:
`LookUpKey`, `LookUpSale`, `Ingest` (a savepoint; the unique `txn_number` makes a second
insert wait), `CommitBatch`, `StoreKey`. A batch's key is the set of its sale numbers and
its load what the rows say, so a filing between two attempts gives an old key a new load,
which the cloud refuses. `Refused`, `TimesOut`, `Resends`, `Crash`, `CutOff` and
`FailCommit` are the failures: the agent gives a request up while the cloud goes on.

The agent names statuses in lower case, and the tables store the upper-case names of the
enumerations, so that PostgreSQL refuses both its read of the sales and its acknowledgement.
`LabelsFit` says whether they agree. In the code it is FALSE: a cycle ends in `ReadFails` and no
sale reaches the cloud. The run sets it TRUE, to check the protocol the code means to follow,
and claims safety only; the theorems hold either way.

### TableSync

One table is watched, of products or of customers. A millisecond is two ticks of `clock`:
`updated_at` is finer than a checkpoint, which JavaScript cuts to milliseconds.
`ChangeBegin` takes the time of a change and `ChangeCommit` makes it visible. The loop that
pushes drains the retry queue (`Replay`, `Promote`), then posts the earliest rows after the
checkpoint (`PostBatch`); `ReadRows` and `Serve` are the cloud, with the merge of
`sync_products` or `sync_customers`; `Fetch` and `Apply` pull the cloud's products.
`excused` names rows whose last change the code itself may drop: they became visible
behind the checkpoint, stood beside another row in a millisecond that filled the batch, the
cloud answered 200 without taking them, they were pulled over before they were sent, or
their batch went to the dead letters.

### Procurement

The handlers of an order are two steps, `LoadPO` and `WritePO`: none locks the row, and
`raced` remembers a write over a row that had changed. `PostBegin` locks a note, `PostLine`
a product each, `PostCommit` writes stock, cost, received quantities, the order's status
and the entry, or leaves `pending` when the entry fails (the accounting period may be closed at any
posting). A line of a note names an item of any order, or none (`item`, `NoItem`; `Named` bounds
what the instance tries): `post_grn` raises the received quantity of the item that is named and computes
the status of the note's own order only. `strayed` remembers the orders a note of another one
reached last. With `EnforceWidth`, the type of a movement of damaged goods does not fit its column
and the posting is refused (`Fits`). `Sell` and `EditCost` are the other
writers of stock and cost. Purchase units, half units and turned-away goods are in the
sheets: `BaseUnits` rounds as `convert_to_base_units` does.

### Books and CashDesk

An entry is its type, document, day and lines (a function from account codes to amounts, a
debit positive). `Books` has the accounts a cash desk touches, the trial balance,
profit, balance sheet, VAT and account ledgers of `services/accounting.py`, the statement
of a customer, and the tapes of `routers/reports.py`, which are read from
sales by the shop's day while entries carry the UTC day: `time` counts half days, the
second half being the night in which the two differ.

`CashDesk` has two steps, a reading and a commit, for every handler that decides by what it
did not lock (`OpenRead`/`OpenCommit`, `CashSaleRead`/`CashSaleCommit`,
`FailRead`/`FailCommit`, `AdjustRead`/..., `VoidVoucherRead`/..., `DeactivateRead`/...,
`CreatePeriodRead`/...). A confirmation by hand and a void have three, `ConfirmRead`,
`ConfirmLook`, `ConfirmCommit` and `VoidRead`, `VoidLook`, `VoidCommit`: after the row of the sale they look for
its entries, and each may be overtaken by the other, by the callback or by a failure between any two.
The others are one step (`Close`, `Pay`, `OtherSale`, `Callback`, which locks the sale,
`CreateVoucher`, `ClosePeriod`, `LockPeriod`). A payment carries the date the client gives it, which may be any
day. `Post` is `_post_entry` with its period and
account checks; `PostOrNote` is the session's entry, which becomes an audit row when it
fails. The histories `raced`, `crossed`, `late`, `edited` and `waived` say which rows were written
over, which sales a confirmation, a failure or a void wrote after row or entries had changed,
which sessions were reached when closed, which balances were set by hand or taken back twice, and what
the floor of a void cut off. Payments are taken to have different references: the client's reference
is the document number of the entry, so that two with one reference would share it.

### Catalog

Every handler that reads and then commits is two steps; `Commit` drops the cached list and
leaves the barcodes, as `cache.py` does. `ScanHit`, `ScanMiss` and `ScanStore` are
`get_by_barcode`: the table is read, and the answer stored with a time to live after
whatever has happened in between. Stocks named in a request or a file may be negative: creating a
product cuts them off at zero, the API's import keeps them and moves positive ones only.
`apart` collects the ways in which stock leaves its movements (adjustments cut off at zero or written
over a changed stock, PATCH, the import script, a negative stock imported by the API);
`oldest` is the age of the oldest answer given.

### Access and Notices

A refresh token is the index of its row in `session`. `RefreshRead` finds it valid in some
worker, `RefreshCommit` ends it and starts the next of the family, `RefreshFails` is a
rollback after the token was put on the revocation list. `revoked` is the list in Redis,
`fallback` the dictionary a worker uses when Redis fails; `WorkerStarts` and `RedisForgets`
empty them.

In `Notices` a socket is asked for with a ticket (`Ask`, in Redis or in one worker's
memory), accepted by a worker (`Handshake`), registered (`Connect`, which closes the one
before), cut (`Cut`), and forgotten by the `finally` of its handler (`HandlerEnds`), which
pops whatever is registered by then. `Publish` puts an event on the channel, or sends it
directly when Redis fails; `SendBegin`, `SendWorks` and `SendFails` are `manager.send` with
its unregistering; `SubscriberEnds` is the loop that never starts again.

## What is checked

Every run of handlers has two request slots, loops, tasks or workers: the races of this
code are between two actors, and a third can only repeat the part of one of them. Except
for `Terminal`, every instance is finite (so many sales, notes, sessions, events) and may
stop when they are used up, so those runs do not check deadlock; `HandlersEnd` and the other
liveness properties check that no handler waits for ever. The runs of `Terminal` check it.

| Run | Instance | Question |
|---|---|---|
| `concurrent` | an M-PESA and a credit sale on shared products, every handler, one push | Does the shelf agree with the ledger, is a complete sale posted, is none reversed twice, in every interleaving? |
| `one_at_a_time` | one sale of each method, `Isolated` | Do shelves, customers and tills hold what the sales as they stand took, and is each commit a step of `SaleContract`? |
| `progress` | two M-PESA sales, no `mpesa_confirm`, lengths enforced as PostgreSQL does, nothing else breaks, fair locks | Is a sale posted once under duplicated callbacks; does each handler end, the clean-up included, whose commits are all refused? |
| `returns_meet` | a cash sale and a wallet sale on a shared product, two returns that together ask for too much of one line, one with a damaged line, voids | Ledger and entries in every interleaving; ceiling, goods, refunds and final decisions as long as no two requests on the same lines overlap |
| `terminal_faults` | one purchase, two rows, two calls, every fault | Which receipts have no sale, which purchases are sold twice, and does what is safe stay safe until the session ends? |
| `terminal_retries` | one purchase, one row, one call, a network that goes and comes back, fair timers | Is a failed item retried while the terminal stays online? No: this run ends in a violation (see below) |
| `sales_to_cloud` | two sales, two eTIMS tasks, retry-all in batches of one, two requests, batches of two, labels that fit, two failures or other events | Is a sale in the cloud at most once, and there when it is marked synced; what takes a receipt away? |
| `tables_meet` | two rows of either table, batches of one, two edits in the two halves of a millisecond, a fault and a failed replay | Is what the checkpoint passed in the cloud; does a customer never go back; does every change arrive? |
| `goods_meet` | an order, two notes for two products, an invoice, half packs, turned-away and damaged units, lines that name other items or none, three other events, entries that fail | Do stock, inventory account and reconciliation follow the posted notes, and does the order follow them? |
| `desk_day` | two sessions, two sales of any method, one customer, payment and voucher, two periods, a day and a half, four other events, two requests at once | Do till, customer, voucher and ledger agree, and the reports read from each? |
| `shelf` | two products, a barcode, a category, stocks from -1 to 1, three ticks of five minutes, two changes | Where does stock leave its movements, and how old is what a scan shows? |
| `shifts` | one employee, two workers, two refreshes, three sessions, one fault; or two sockets and an event | Does a login that ended stay ended; does a login have one session; does a worker know the socket it holds, and is an event told once? |

The bounds. In `Sales` each method of payment occurs once, and a void, a clean-up and a
callback can all meet one sale. Quantities of one or two per line are enough to be short by
one; three units of stock let every sale succeed and the last be refused. One push per sale
is enough for a callback before, during and after it. Two rows of the offline queue are
enough for a call to have an item behind the one it posts, being one purchase rung twice with
F9; with one row and one call `terminal_retries` shows its overlap already. In the Electron shell
attempts are written and never read back; the browser's cap is `Browser`.
Two sales let a batch grow between a post and its repetition, which makes two
keys for one sale, and one replay ends in the dead letters; with `RetryBatch` 1 the second sale
of a retry-all is in a later batch. Batches of one row make every
tie of two rows as large as a batch, and the two ticks of a millisecond let two rows differ
where a checkpoint does not. Two notes can together receive too much of an order; a pack of
three taken by halves rounds. Amounts of the cash desk are chosen so that a float, a
total, a change and a limit are told apart, the customer's limit allows one credit sale with the payment
after it or a second; `MaxTime` 2 covers a day, its night and the next day. Cached entries live one and two
ticks of three. `MaxEvents`, `MaxFaults` and `MaxChanges` bound what the environment does
(at the cash desk the closing of a session is not counted: there are two sessions). In `shifts` `Mixed` is FALSE: logins are
checked in behaviours without sockets and the other way round, because a logout does not
touch a socket and a socket's ticket is asked for by any signed-in employee.
Symmetry is used for slots, notes, sessions, workers and products, in runs without liveness.

Exceptions a property makes are histories the model records (`raced`, `crossed`, `strayed`,
`late`, `edited`, `excused`, `apart`, `orphans`, `doubtful`, `unkept`), and each stands for an overlap
or a failure the code does not prevent: often the very one a hazard names. Outside of them the property
holds in every interleaving, so it says that nothing else breaks it; what happens inside is
listed below.

Fairness. In `Sales`, `FairHandlers` is strong: PostgreSQL grants a lock to its waiters in order and a
handler's thread runs on, so a step that keeps becoming possible is taken. Weak fairness
would be too little, because a lock can be taken and freed again and again by others before
a waiter's turn. Nothing makes requests begin, connections break or a period close. In `Terminal` the
effect, the ten-second poll and the running calls are weakly fair (timers and promises run,
a request ends in an answer or an error); the network, the cashier and the faults are free,
and the retry is asked for only while the network stays. In
`TableSync` the agent's cycle is weakly fair, being started by a timer for as long as the
agent runs and restarted by its supervisor, and so is a request that has reached the
cloud; faults are bounded and never fair. `ChangesArrive` names what it
does not promise: a row the code itself dropped, more ties in one millisecond than a batch holds.
`Outbox` has no fairness: with the labels of the code no sale arrives, and with others the cloud may
remember an answer that leaves a sale out.

### Where code and documents disagree

Met while modelling, visible in the models. The first is a run of its own; the four after it can be
reproduced by the change described, after which TLC finds the definition named violated.

* *Never retried.* "Failed syncs are retried" (`useOfflineQueue.js:10`): not when the network
  comes back while the call in which the item failed still runs, because the listener's call is then
  dropped (line 139) and the length of the queue does not change. Run `terminal_retries`, `FailedIsRetried`.
* *Lost sale.* "sales are NEVER lost" (`useOfflineQueue.js:5`): when the session ends while
  the queue is posted, `request()` returns `null` and the item is marked synced; and the result of
  `enqueue` is not looked at, so that with a queue that is not ready the receipt is given and the sale is
  nowhere. `NothingLost` without `unkept`, on the instance of `terminal_faults`.
* *Double sale.* "Every enqueued sale has a unique idempotency_key — no double-posting"
  (`useOfflineQueue.js:9`): the header never leaves the client. `SoldOnce` without `doubtful`, on the same instance.
* *Failure callback twice.* "SELECT FOR UPDATE prevents duplicate processing of the same
  callback" (`mpesa.py:139`) is so for the success branch only; two failures restore the
  stock twice. `RestoredAtMostOnce` with `JustMpesa`, `Ops = {"create", "fail", "push"}`.
* *Over-return.* "Lock items FIRST, then recompute qty_already_returned while locked"
  (`returns.py:383`): `_qty_already_returned` sums first. `QtyCeiling` on the instance of `returns_meet`.

Texts that PostgreSQL refuses:

* *Clean-up.* "restore their stock movements, and mark them FAILED/VOIDED"
  (`main.py:155`): `mpesa_timeout_restore` (`main.py:201`) has 21 characters and
  `movement_type` is `String(20)` (`models/product.py:119`), so no stale sale is ever cleaned up. In `progress`
  every commit of the clean-up is refused; `StaleSalesSettle` states the promise.
* *Damaged goods.* `purchase_receive_damaged` (`procurement.py:538`) has 24: a note with damaged units is never
  posted. In `goods_meet` such a note stays a draft.
* *Labels.* The enumerations are stored by their upper-case names
  (`versions_bootstrap/1000_initial_bootstrap.py:42`), and some statements compare with lower case. The agent's read of
  the sales to push and its acknowledgement (`syncLoop.js:299`, 381) are refused, so no sale reaches the cloud
  (`LabelsFit`). The agings of receivables (`accounting.py:1326`) and payables (1226) are refused,
  and on SQLite the former finds no sale; `tests/test_finance_controls.py:59` expects 120.0 for a customer
  without one. Neither aging is modelled.

Sales and returns:

* `mpesa_confirm` reads the sale without a lock: beside a callback or another confirmation
  it posts the sale a second time ("never double-post", `accounting.py:254`), and it
  completes a sale that was voided after the read (`VoidedIsFinal`). `progress` leaves it out for that reason; in
  `desk_day` it is there, and the sale is then `crossed`.
* `assert_period_open` looks at the period without a lock, which may be closed before the
  entry commits (`NoEntryInClosedPeriod`).
* Without the legacy CHECK, two lines of one product can take the stock below zero. The
  server takes the client's `unit_price` as it comes.
* A cash sale adds `total - change_given` to the expected cash although the drawer keeps `total`.
* A sale that is voided before or after its return is approved gives goods and money back
  twice: neither handler looks at the other. `ReturnsMatch` counts both.
* In the browser an item with five attempts is skipped for ever.

Synchronisation and eTIMS:

* The cloud remembers an answer that leaves a sale out under the key of the batch: "These
  stay PENDING — they'll be retried next cycle" (`syncLoop.js:401`) and "a completed sale is
  NEVER silently dropped" (284) hold only once the batch changes. A filing changes
  the load of a known key, which is then answered 409 for as long as the batch stays.
* The drain clears an item on any 200, although "200 with synced > 0" (`syncLoop.js:14`) is asked for.
  Errors of the retry queue itself are only logged.
* Retry-all (`etims.py:383-414`) goes on after each commit with rows it does not look at again: a sale filed by
  another task meanwhile is submitted once more, and a failure then clears its receipt. `FiledStays` says
  that nothing else does.
* A failed automatic submission logs "will retry" (`etims.py:227`) and schedules nothing.
* A sale voided after it was sent stays completed in the cloud.
* `sync_products` passes its arguments to `resolve` the other way round: "CLOUD WINS: price"
  (`sync.py:121`) is reversed. Products and customers are answered 200 with `synced` 0 when
  the commit failed, and the agent advances its checkpoint; the pull saves its checkpoint
  after a rollback. Rows that commit late, or tie on a millisecond at the end of a batch, are never
  sent; the last row of a batch is sent again every cycle; a retry replays an older batch over a newer
  one; a pull overwrites an edit that was not sent. "Last write" is compared with the cloud's write time.
* `detect_oversells`, "called after every sync batch", is called by `POST /reconciliation/run` only.

Procurement:

* `GoodsReceivedNote` has no `total_received_cost`: paying a supplier
  (`routers/procurement.py:770`), the supplier's statement (`accounting.py:1410`) and the aging of payables (1222)
  fail once a supplier has a posted note. `send_purchase_order_email` calls `get_po`, which does not exist.
* A line of a note may name an item of another order (`procurement.py:459`, 560): that order receives goods and
  its status does not change (`strayed`).
* `_compute_variance` compares the received totals while the books owe the accepted ones; base units
  are "rounded up" by `ROUND_HALF_UP`; `post_grn` does not look at the order's status; an audit row "pending_retry" is never retried.
* Handlers of one order that overlap write over each other; a total is not always the sum of its
  items; the audit of a cancellation logs the new status as the old. `post_grn` overwrites a cost
  price edited meanwhile, which revalues the stock and posts nothing. No code sets `products.wac`.

Cash desk and books:

* `as_of_date` of the trial balance filters nothing (`accounting.py:473`). Entries of sales carry the UTC day
  although `database.py:74` promises the business date; the JSON z-tape and the PDF z-tape use different days.
  The VAT of a voided sale is shown as input VAT. The cash-session account collects floats and variances
  and never gives a float back.
* A void in a closed period leaves the entry unreversed. A void floors the balance at zero. An adjustment
  clamps to `credit_limit` even when 0 means no limit. A late sale or void changes a session already closed.
* Accounts that sessions need can be deactivated: their entries then become audit rows nobody retries (the
  vouchers of the model are not booked to account 2300). A deactivated account can receive vouchers. Voiding a voucher twice at once posts two reversals.
* "exactly one OPEN period" and "closing requires an open period for next month"
  (`models/inventory.py:214`), and a reopening by the platform owner, are nowhere in the code; two requests at
  once can create overlapping periods. The closing balance of an account ledger is that of its first
  `limit` lines. The customers' `/aging` route is shadowed by `/{customer_id}`.

Products:

* A cached product list is answered in a shape its response model refuses: a server error until the
  entry expires. Barcode lookups are cached for ten minutes and never dropped, though `cache.py:9`
  says never stale for more than five.
* An adjustment writes back the stock it read, floored at zero, while movement and entry carry the whole
  change. PATCH and the import script set the stock without a movement ("this table is authoritative").
  A new row of the API's import with a negative stock keeps it and moves nothing (`products.py:698`, 782).
  One new row with stock makes the whole CSV import fail; the script promises to create categories and
  suppliers and raises instead.

Logins and notices:

* Two overlapping refreshes fork a login (the replay branch cannot be reached); a refresh in flight survives a logout;
  deactivation leaves sessions that revive on reactivation and sockets that stay open; a
  new password ends no session.
* `auth.create_employee` passes a keyword `Employee` does not have, registering a shop sets no `user_name` (NOT NULL), and
  upgrading a subscription calls `stk_push` without its `store`: each fails every time.
  Reinstating a store replaces a paid subscription by a trial.
* The late `finally` of a socket's handler closes the socket that replaced it (`ws.py:107`); a failed
  send unregisters a newer one (`notifier.py:106`); a ticket in one worker's memory is refused by
  another, and the client then stops trying; the loop of a subscriber ends for ever at the first Redis error and events
  are lost (`pubsub.py:186`), though "no message is silently dropped"; an error after Redis took an event sends it twice.
  Each new receipt reopens the page's socket, whose old `onclose` then opens another with the callbacks of the old receipt.

## What is proved

Every invariant and every action property of the runs is a theorem, for all values of the
constants that satisfy the ASSUMEs of the module. The assumptions are shapes: baskets have
quantities, a return has lines of one sale, sentinel values are not elements, and what is summed
or compared is finite (sales, lines, returns, products, notes, payments, expense accounts, refresh
requests, synchronised rows). TLC evaluates them on the instances. Three theorems have a hypothesis
besides; it is the restriction under which the run checks the property, and each is a setting of
the constants that the run uses.

| Module | Theorem | States | Hypothesis |
|---|---|---|---|
| `SalesProofs` | `TypesCorrect` | `Spec => []TypeOK` | |
| | `LedgerAgrees` | `Spec => []StockIsLedger` | |
| | `CompletedSalesArePosted` | `Spec => []CompletedIsPosted` | |
| | `SalesAreReversedOnce` | `Spec => []ReversedAtMostOnce` | |
| | `CallbacksPostOnce` | `Spec => []PostedAtMostOnce` | no `"confirm"` in `Ops` |
| | `SalesKeepTheContract` | `Spec => KeepsContract`: the refinement of `SaleContract` | `Isolated` |
| | `AccountsAgree` | `Spec => []AccountsMatchSales` | `Isolated`, `EnoughForAll` |
| `ReturnsProofs` | `TypesCorrect`, `LedgerAgrees`, `ReturnsPostedOnce` | types, `StockIsLedger`, `PostedOnce` | |
| | `CeilingHolds`, `ReturnsAgree` | `CeilingAlone`, `ReturnsMatch` | |
| | `DecisionsStay` | `Spec => DecidedIsFinal` | |
| `TerminalProofs` | `TypesCorrect` | `Spec => []TypeOK` | |
| | `SafeSalesStay` | `Spec => StaysSafe`, under every fault | |
| | `NothingIsLost` | `Spec => []NothingLost`, under every fault | |
| | `SoldAtMostOnce` | `Spec => []SoldOnce`, under every fault | |
| | `EndedLoginsStayEnded`, `LoginsKeepOneSession` | `NoticesSpec => LogoutsLast`, `OneSessionEach` | |
| | `RegistryKnowsItsSocket`, `EventsAreToldOnce` | `OpenIsKnown`, `ToldOnce` | |
| `OutboxProofs` | `CloudCountsOnce`, `FiledSalesStay` | `SyncedIsPostedOnce`, `FiledStays` | |
| `CatalogProofs` | `ProductsAgree`, `ScansAreYoung` | `StockIsMovements`, `ScansGrowOld` | |
| | `CheckpointsCover` | `Spec => []BehindCheckpoint` of `TableSync` | |
| | `NoCustomerGoesBack` | `Spec => NeverBack` of `TableSync` | |
| `ProcurementProofs` | `TypesCorrect` | `Spec => []TypeOK` | |
| | `StockIsDeliveries`, `BooksAreDeliveries` | `StockMatchesNotes`, `BooksMatchNotes` | |
| | `OrdersTellTheirNotes`, `OrdersStayFrozen` | `StatusMatchesNotes`, `SubmittedIsFrozen` | |
| `CashDeskProofs` | `TillsAgree`, `CustomersAgree`, `VouchersAgree` | `TillsAccounted`, `CustomersAccounted`, `VouchersNetOut` | |
| | `StatementsBalance`, `TapesAgree` | `BooksBalance`, `TapesMatchBooks` | |

`EnoughForAll` says that either the CHECK on stock is there or no sale has two lines of one product
(without both, stock does go below zero).

`SumTheorems` is a theory of `SumFunctionOnSet`, the fold in which the models add up. The
induction theorems of the library cannot be used here, because they take the induction
hypothesis as an operator. The module argues by the least counterexample instead: a set of finite
sets that is not empty has a member none of whose proper subsets is in it (`LeastBad`), since proper
inclusion is well-founded on finite sets. From it follow that sums exist and are integers, and how a
sum changes with one summand, one member, or a union. The largest member of a finite
set (`MaxIsLargest`, used for the checkpoints) is found the same way.

The arguments:

* *Ledger of sales.* A handler writes a number it computed from an earlier read, so the agreement is not
  inductive alone. `HoldsWhatItRead` is added: whoever has movements of a product pending holds its lock,
  and what it read is still on the shelf.
* *Journal.* Two voids of one sale may both have passed the status check. `VoidSeen`
  and `VoidHoldsLines` say that a void past its locks holds the products of its sale and
  knows of any reversal; with `FreshSession` and `JournalSeen` a second reversal is
  impossible. It is the product locks that serialise voids: nothing locks the sale.
* *Posting.* `RowInv`: a callback holds the row of its sale from its read to its commit, so that a sale
  it found pending is pending when it posts, and a pending sale has no entry.
* *Contract and accounts of sales.* `IsolatedInv` says what one request knows of its sales when no other
  is about them (`Apart`, `Fits`), and which entries a sale of each status has. Under it every
  commit of a handler is one step of `SaleContract`, or a stutter, and adds to shelves, tills
  and customers what the sums over live and completed sales change by.
* *Returns.* `ShelfHeld`: what an approval has read of the shelf is locked by it and
  unchanged. `AloneInv` holds until two requests on the same lines overlap: each knows what
  was returned before it, so the ceiling holds and the sums over decided returns move with the shelves.
* *Till.* `LoopBacked`: a running call is at a row that was filled, and once the answer is on
  its way the purchase is in the cloud; so clearing an item never takes the last trace of
  a sale. `SureInv` adds, for the purchases that are not doubtful, that one call at most posts
  the row of one, that it is in at most one row, and that while it is on the screen unsent or in a row
  still to be sent the cloud does not have it.
* *Logins and notices.* `FamilyStep`: no step makes a session active again or moves it to another login,
  and only a refresh in flight adds one. `SocketInv` places every served socket in a worker and
  every registered one among its open sockets; `EventInv` counts, for every event and
  socket, the calls that have sent it and those that still may.
* *Sales to the cloud.* `CloudInv` follows a request from looking up to committing: what it has not
  committed it holds in its session, and the unique number lets one request at a time insert a
  sale; what the agent hears as taken is there. A receipt is written only over a row that had none, or by a
  later batch of retry-all that loaded the row filed.
* *Shop and stock ledger.* `ShelfInv`: a request knows products that still exist, and no import
  carries a stock for one; only the steps that put a product into `apart` write stock
  otherwise. `ScanInv`: an answer in flight or in the cache was what the table said at a moment
  no earlier than its reading, and a request lives for one tick at most.
* *Copies of the tables.* `BehindHolds`: a row the checkpoint has passed is in the cloud or excused, the
  batch that is posted has every row not later than its last one, and of two rows of
  one time on a whole millisecond both are excused. `CustomersHold`: among all contents of a customer in the shop, in
  the queue, in the loop and in the requests, a later edit has no earlier time; what the cloud holds, and
  what a request has read of it, is later than all contents older than what was brought. So
  contents that win by time are no older an edit.
* *Procurement.* `Locks`: a posting has read what the products it has locked still hold, and no two post one
  note. `Booked` and `Valued` follow the entries and the value of the stock, `Told` what the notes that name an order's
  items brought it, until a handler writes over a change it had not seen; its status is that of the last
  note made out to it, which is why `strayed` is excepted. An order for
  zero quantities is "received" with its first posted note, which `StatusMatchesNotes` says.
* *Cash desk.* `DeskInv` says, document by document, which entries the journal has: of a
  session, a sale of each status that is not crossed, a payment, a voucher, and what each till and customer owes them.
  A confirmation or a void in flight has seen the entries its sale has, or crosses it.
  The reports then follow in one state: the sum of a customer's account is the sum over his documents,
  debits equal credits entry by entry, and the tapes add the same sales as the ledger.

Some of these proofs corrected the models. The ages of `Catalog` were chosen by two cases that
overlap: which one TLC took was an accident of their order. The property of an order's status did not
know of orders for nothing. `clearRetryItem` deletes one item, which is now what `Without` does.

Model-checked only, and out of the prover's reach: the liveness properties `HandlersEnd` and
`ChangesArrive`, which rest on fairness and ENABLED. `FailedIsRetried` is refuted. Not stated by any theorem,
since they do not hold, are the properties listed above with the code and documents that disagree.

What may follow: abstract specifications of what the agent and the returns promise, refined as
`SaleContract` is; the contract without `Isolated`, for sales whose requests do not overlap in one behaviour
where others do; and a lock discipline stated once for `Sales`, `Returns` and `Procurement`.

## What is not modelled

* *Data.* Discounts, rounding of single amounts, names and texts. VAT is
  one number per sale in `CashDesk`.
* *Checks that come first.* Roles, stores and validation of input: each handler checks them
  first and changes nothing when they fail. Passwords, PINs, rate limits, and the expiry of tokens by the clock.
* *Locks that only wait.* The order in which two lines of one sale are locked (a deadlock it can
  cause is an `Abort`); connection pooling.
* *Other systems.* Daraja's and the authority's signatures and amounts: both are what they may
  answer. Redis is what it holds and whether it fails.
* *What keeps no shared state.* Logging, audit rows that stand for nothing due, PDF, e-mail and
  CSV output, screens, holds, the Electron shell, set-up, the back office's socket, scripts run by one operator.
* *Administration.* Employees' names and roles, categories and suppliers beyond their creation, packaging of
  products, seeding of accounts: single rows of one request. Subscriptions and registration fail at
  their first step, supplier payments at their first posted note (see above): there is no behaviour after it.
* *Code without a caller.* `services/costing.py`, `services/tax_engine.py`, `backend/reports.py`, `notify_low_stock`.
* *Statements the database refuses.* The agings of receivables and payables and the clean-up's restoring on
  PostgreSQL (see above); `Sales` has the latter for databases that do not enforce lengths.
* *Beyond one count.* What the ingest of a sale does to the cloud's own stock (which it may take
  below zero) and balances (`sync.py:505`), and oversell events, which are only written when an operator runs the reconciliation.
* *Composition.* `Sales`, `Returns`, `Procurement` and `Catalog` each have the stock ledger with their own writers; the
  writers share a discipline (lock the product, write stock and movement in one commit), which
  the adjustment, PATCH and the script break (`apart`). Together they exceed what TLC can enumerate.

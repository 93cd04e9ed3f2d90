-------------------------------- MODULE CashDesk --------------------------------
(***************************************************************************)
(* Cash sessions, what customers owe, expense vouchers, and the entries    *)
(* they make: routers/cash_sessions.py, routers/customers.py,              *)
(* routers/expenses.py, the money side of a sale in                        *)
(* routers/transactions.py, and services/accounting.py.                    *)
(*                                                                         *)
(* Goods are left out: Sales and Procurement have them.  A request that    *)
(* reads a row without a lock and decides by it is two steps, its reading  *)
(* and its commit; one that locks what it reads, or only inserts, is one.  *)
(***************************************************************************)
EXTENDS Books

CONSTANTS
    Session, Sale, Customer, Payment, Voucher, Period, Handler,
    None,
    Basket,       \* sales as they are typed in
    OpeningFloat, Miscount,   \* floats; counted cash less the expected cash
    Threshold,    \* CASH_VARIANCE_THRESHOLD
    Limit, Wallet,    \* credit limit and initial store credit of a customer
    Amount,       \* of payments and vouchers
    Delta,        \* of credit adjustments
    MaxTime, MaxEvents   \* bounds: halves of a day; requests, but for closings of sessions

ASSUME CashDeskAssumption ==
    /\ Sale \subseteq Nat /\ None \notin Session \cup Sale \cup Customer \cup Voucher
    /\ Basket \subseteq [method: {"cash", "credit", "store_credit", "mpesa"},
                         total: Nat \ {0}, vat: Nat, change: Nat]
    /\ \A b \in Basket : b.vat < b.total
    /\ OpeningFloat \subseteq Nat /\ Miscount \subseteq Int /\ Threshold \in Nat
    /\ Limit \in Nat /\ Wallet \in Nat /\ Amount \subseteq Nat \ {0} /\ Delta \subseteq Int
    /\ MaxTime \in Nat /\ MaxEvents \in Nat
    /\ IsFiniteSet(Sale) /\ IsFiniteSet(Payment)

VARIABLES
    session,   \* cash_sessions of one cashier at one terminal
    sale,      \* transactions
    customer,  \* credit_balance and store_credit_balance
    payment,   \* customer_payments
    voucher,   \* expense_vouchers
    journal,
    inactive,  \* accounts that are not is_active
    pending,   \* audit rows accounting_pending_cash_session_open and _close
    period,    \* accounting_periods: all days up to one of them
    handler,   \* requests between their reading and their commit
    time, events,
    raced,     \* history: documents written from a row that had changed
    crossed,   \* history: sales written so by a confirmation, a failure or a void
    late,      \* history: sessions that a sale or a void reached when closed
    edited,    \* history: customers whose balance was set by hand or taken back twice
    waived     \* history: what the floor of a void cut off, by customer

vars == <<session, sale, customer, payment, voucher, journal, inactive, pending, period,
          handler, time, events, raced, crossed, late, edited, waived>>
docs == <<session, sale, customer, payment, voucher>>
ledger == <<journal, inactive, pending, period>>
history == <<raced, crossed, late, edited, waived>>

Day == 0 .. (MaxTime + 1) \div 2
NoPeriod == [status |-> "none", last |-> 0]
Idle == [op |-> "idle", on |-> None, seen |-> 0]

Event == events < MaxEvents /\ events' = events + 1

NoSession == [status |-> "none", float |-> 0, expected |-> 0, counted |-> 0, variance |-> 0]
NoBasket == [method |-> "cash", total |-> 0, vat |-> 0, change |-> 0]
NoSale == [status |-> "none", basket |-> NoBasket, session |-> None, customer |-> None,
           created |-> 0, done |-> 0]
NoPayment == [customer |-> None, amount |-> 0]
NoVoucher == [status |-> "none", account |-> None, amount |-> 0, day |-> 0]

Init ==
    /\ session = [s \in Session |-> NoSession] /\ sale = [t \in Sale |-> NoSale]
    /\ customer = [c \in Customer |-> [balance |-> 0, wallet |-> Wallet]]
    /\ payment = [p \in Payment |-> NoPayment] /\ voucher = [v \in Voucher |-> NoVoucher]
    /\ journal = {} /\ inactive = {} /\ pending = {}
    /\ period = [q \in Period |-> NoPeriod]
    /\ handler = [h \in Handler |-> Idle]
    /\ time = 0 /\ events = 0
    /\ raced = {} /\ crossed = {} /\ late = {} /\ edited = {} /\ waived = [c \in Customer |-> 0]

Today == ShopDay(time)

-------------------------------------------------------------------------------
(* Posting. *)

\* The answers of assert_period_open: it takes one row that has the day, and
\* none counts as open.
Verdicts(day) ==
    LET rows == {q \in Period : period[q].status # "none" /\ day <= period[q].last}
    IN  IF rows = {} THEN {TRUE} ELSE {period[q].status = "open" : q \in rows}
Writable(day) == TRUE \in Verdicts(day)

\* _get_account and _check_period: whether lines can be posted on a day.
Postable(accounts, day) == accounts \cap inactive = {} /\ Writable(day)

Entry(type, ref, day, lines) ==
    [type |-> type, ref |-> ref, day |-> day, lines |-> lines,
     copy |-> Cardinality(About(journal, {type}, {ref}))]

Post(type, ref, day, lines) ==
    /\ Balances(lines)
    /\ journal' = journal \cup {Entry(type, ref, day, lines)}

PaidInto == [cash |-> "1000", mpesa |-> "1010", credit |-> "1100", store_credit |-> "1400"]

\* post_transaction: dated by the UTC day of completion.
SaleLines(b) ==
    [a \in {PaidInto[b.method], "4000", "2100"} |->
        CASE a = "4000" -> b.vat - b.total
          [] a = "2100" -> -b.vat
          [] OTHER      -> b.total]

\* The entries of the other documents, each paid in cash.
FloatLines(amount) == Transfer("1040", "1000", amount)
VarianceLines(variance) == Transfer("1040", "2300", variance)
PaymentLines(amount) == Transfer("1000", "1100", amount)
VoucherLines(account, amount) == Transfer(account, "1000", amount)

Start(h, op, on, seen) ==
    /\ handler[h] = Idle /\ Event
    /\ handler' = [handler EXCEPT ![h] = [op |-> op, on |-> on, seen |-> seen]]

Finish(h) == handler' = [handler EXCEPT ![h] = Idle] /\ UNCHANGED <<time, events>>

\* The session posts fail inside a try: the request goes on with an audit row.
PostOrNote(type, s, day, lines) ==
    \/ Postable(DOMAIN lines, day) /\ Post(type, s, day, lines) /\ UNCHANGED pending
    \/ /\ DOMAIN lines \cap inactive # {} \/ FALSE \in Verdicts(day)
       /\ pending' = pending \cup {<<type, s>>}
       /\ UNCHANGED journal

-------------------------------------------------------------------------------
(* Cash sessions. *)

OpenSessions == {s \in Session : session[s].status = "open"}

\* open_cash_session looks for an open session of the cashier at the terminal.
OpenRead(h) ==
    /\ OpenSessions = {}
    /\ \E s \in Session : session[s].status = "none"
    /\ Start(h, "open", None, 0)
    /\ UNCHANGED <<docs, ledger, history, time>>

OpenCommit(h, s) ==
    /\ handler[h].op = "open" /\ session[s].status = "none"
    /\ \E f \in OpeningFloat :
          /\ session' = [session EXCEPT ![s] = [NoSession EXCEPT !.status = "open",
                                                  !.float = f, !.expected = f]]
          /\ IF f = 0 THEN UNCHANGED <<journal, pending>>
             ELSE PostOrNote("cash_session_open", s, Today, FloatLines(f))
    /\ raced' = raced \cup (IF OpenSessions = {} THEN {} ELSE {"open"})
    /\ Finish(h)
    /\ UNCHANGED <<sale, customer, payment, voucher, inactive, period, crossed, late, edited,
                   waived>>

\* close_cash_session, under the lock of the row.  A cashier may not close with
\* a variance over the threshold; a supervisor may.
CountedByFloat(s, cash) ==   \* mutant: counted against the opening float
    [session[s] EXCEPT !.status = "closed", !.counted = cash,
        !.variance = cash - session[s].float]
Counted(s, cash) ==
    [session[s] EXCEPT !.status = "closed", !.counted = cash,
        !.variance = cash - session[s].expected]

Close(s) ==
    /\ session[s].status = "open"
    /\ \E m \in Miscount, supervisor \in BOOLEAN :
          LET row == Counted(s, Most(0, session[s].expected + m)) IN
          /\ supervisor \/ Most(row.variance, -row.variance) <= Threshold
          /\ session' = [session EXCEPT ![s] = row]
          /\ IF row.variance = 0 THEN UNCHANGED <<journal, pending>>
             ELSE PostOrNote("cash_session_close", s, Today, VarianceLines(row.variance))
    /\ UNCHANGED <<sale, customer, payment, voucher, inactive, period, handler, time, events,
                   history>>

-------------------------------------------------------------------------------
(* Sales. *)

NewSale(b, s, c, status) ==
    [status |-> status, basket |-> b, session |-> s, customer |-> c,
     created |-> time, done |-> time]

IsNext(t) == sale[t].status = "none" /\ \A u \in Sale : sale[u].status = "none" => t <= u

\* A cash sale reads its session before it inserts, and writes the expected
\* cash from that reading: the lock it takes later does not refresh the row.
CashSaleRead(h, s) ==
    /\ session[s].status = "open"
    /\ \E t \in Sale : sale[t].status = "none"
    /\ Start(h, "sell", s, session[s].expected)
    /\ UNCHANGED <<docs, ledger, history, time>>

CashSaleCommit(h, t) ==
    /\ handler[h].op = "sell" /\ IsNext(t)
    /\ LET s == handler[h].on IN
       \E b \in Basket :
          /\ b.method = "cash"
          /\ Postable(DOMAIN SaleLines(b), UtcDay(time))
          /\ sale' = [sale EXCEPT ![t] = NewSale(b, s, None, "completed")]
          /\ session' = [session EXCEPT ![s].expected = handler[h].seen + b.total - b.change]
          /\ Post("transaction", t, UtcDay(time), SaleLines(b))
          /\ raced' = raced \cup (IF handler[h].seen = session[s].expected THEN {} ELSE {s})
          /\ late' = late \cup (IF session[s].status = "open" THEN {} ELSE {s})
    /\ Finish(h)
    /\ UNCHANGED <<customer, payment, voucher, inactive, pending, period, crossed, edited, waived>>

\* A sale on credit or from the wallet holds the lock of the customer's row; an
\* M-PESA sale stays pending.
WithinLimit(c, total) == Limit = 0 \/ customer[c].balance + total <= Limit

OtherSale(t) ==
    /\ IsNext(t) /\ Event
    /\ \E b \in Basket, c \in Customer :
          /\ b.method # "cash"
          /\ b.method = "credit" => WithinLimit(c, b.total)
          /\ b.method = "store_credit" => customer[c].wallet >= b.total
          /\ customer' = [customer EXCEPT
                ![c].balance = IF b.method = "credit" THEN @ + b.total ELSE @,
                ![c].wallet = IF b.method = "store_credit" THEN @ - b.total ELSE @]
          /\ IF b.method = "mpesa"
             THEN /\ sale' = [sale EXCEPT ![t] = NewSale(b, None, None, "pending")]
                  /\ UNCHANGED journal
             ELSE /\ Postable(DOMAIN SaleLines(b), UtcDay(time))
                  /\ sale' = [sale EXCEPT ![t] = NewSale(b, None, c, "completed")]
                  /\ Post("transaction", t, UtcDay(time), SaleLines(b))
    /\ UNCHANGED <<session, payment, voucher, inactive, pending, period, handler, time, history>>

\* The entries of a sale that post_transaction and post_transaction_void look for.
Originals(t) == About(journal, {"transaction"}, {t})

\* The answer of Daraja that an M-PESA payment came: under the row's lock.
Callback(t) ==
    /\ sale[t].status = "pending"
    /\ LET b == sale[t].basket IN
       /\ Postable(DOMAIN SaleLines(b), UtcDay(time))
       /\ Post("transaction", t, UtcDay(time), SaleLines(b))
    /\ sale' = [sale EXCEPT ![t].status = "completed", ![t].done = time]
    /\ UNCHANGED <<session, customer, payment, voucher, inactive, pending, period, handler,
                   time, events, history>>

\* The answer that it did not, and the clean-up of stale sales: both read the row
\* without a lock, and neither looks at the journal.
FailRead(h, t) ==
    /\ sale[t].status = "pending"
    /\ Start(h, "fail", t, 0)
    /\ UNCHANGED <<docs, ledger, history, time>>

FailCommit(h) ==
    /\ handler[h].op = "fail"
    /\ LET t == handler[h].on IN
       /\ sale' = [sale EXCEPT ![t].status = "voided"]
       /\ crossed' = crossed \cup (IF sale[t].status = "completed" THEN {t} ELSE {})
    /\ Finish(h)
    /\ UNCHANGED <<session, customer, payment, voucher, ledger, raced, late, edited, waived>>

\* mpesa_confirm reads the sale, then looks for its entry, and takes the row's lock
\* only as it writes: by then the payment may have come, or the sale be void.
ConfirmRead(h, t) ==
    /\ sale[t].status = "pending"
    /\ Start(h, "confirm", t, 0)
    /\ UNCHANGED <<docs, ledger, history, time>>

Looked(h, op) ==
    handler' = [handler EXCEPT ![h] = [op |-> op, on |-> handler[h].on,
                                       seen |-> Cardinality(Originals(handler[h].on))]]

ConfirmLook(h) ==
    /\ handler[h].op = "confirm"
    /\ Looked(h, "settle")
    /\ UNCHANGED <<docs, ledger, history, time, events>>

ConfirmCommit(h) ==
    /\ handler[h].op = "settle"
    /\ LET t == handler[h].on
           lines == SaleLines(sale[t].basket)
       IN /\ sale' = [sale EXCEPT ![t].status = "completed", ![t].done = time]
          /\ IF handler[h].seen > 0 THEN UNCHANGED journal
             ELSE /\ Postable(DOMAIN lines, UtcDay(time))
                  /\ Post("transaction", t, UtcDay(time), lines)
          /\ crossed' = crossed \cup (IF sale[t].status = "pending" THEN {} ELSE {t})
    /\ Finish(h)
    /\ UNCHANGED <<session, customer, payment, voucher, inactive, pending, period, raced, late,
                   edited, waived>>

-------------------------------------------------------------------------------
(* Voiding a sale. *)

VoidRead(h, t) ==
    /\ sale[t].status \in {"pending", "completed"}
    /\ Start(h, "void", t, 0)
    /\ UNCHANGED <<docs, ledger, history, time>>

\* It looks for the entry under the locks of the sale's products, which other voids
\* of the sale wait for and confirmations do not.
VoidLook(h) ==
    /\ handler[h].op = "void"
    /\ \A g \in Handler : handler[g].op = "unsell" => handler[g].on # handler[h].on
    /\ Looked(h, "unsell")
    /\ UNCHANGED <<docs, ledger, history, time, events>>

\* post_transaction_void: nothing when it found no entry to reverse, when it is
\* reversed already, or when today's period is closed.
VoidEntry(t, seen) ==
    IF seen = 0 \/ About(journal, {"void"}, {t}) # {} THEN UNCHANGED journal
    ELSE \/ FALSE \in Verdicts(Today) /\ UNCHANGED journal
         \/ Writable(Today) /\ \E e \in Originals(t) : Post("void", t, Today, Reversal(e.lines))

\* The balance is not taken below zero.
Unfloored(c, total) == customer[c].balance - total   \* mutant: it is
Floored(c, total) == Most(0, customer[c].balance - total)

VoidedSession(s, b) == [session EXCEPT ![s].expected = @ - (b.total - b.change)]

VoidCommit(h) ==
    /\ handler[h].op = "unsell"
    /\ LET t == handler[h].on
           b == sale[t].basket
           s == sale[t].session
           c == sale[t].customer
           again == sale[t].status = "voided"
       IN /\ sale' = [sale EXCEPT ![t].status = "voided"]
          /\ VoidEntry(t, handler[h].seen)
          /\ crossed' = crossed \cup
                (IF Cardinality(Originals(t)) = handler[h].seen THEN {} ELSE {t})
          /\ IF b.method = "cash"
             THEN /\ session' = VoidedSession(s, b)
                  /\ late' = late \cup (IF session[s].status = "open" THEN {} ELSE {s})
                  /\ raced' = raced \cup (IF again THEN {s} ELSE {})
             ELSE UNCHANGED <<session, late, raced>>
          /\ IF c # None
             THEN /\ customer' = [customer EXCEPT
                        ![c].balance = IF b.method = "credit" THEN Floored(c, b.total) ELSE @,
                        ![c].wallet = IF b.method = "store_credit" THEN @ + b.total ELSE @]
                  /\ edited' = edited \cup (IF again THEN {c} ELSE {})
                  /\ waived' = IF b.method # "credit" THEN waived
                               ELSE [waived EXCEPT ![c] = @ + Most(0, b.total - customer[c].balance)]
             ELSE UNCHANGED <<customer, edited, waived>>
    /\ Finish(h)
    /\ UNCHANGED <<payment, voucher, inactive, pending, period>>

-------------------------------------------------------------------------------
(* Customers. *)

\* create_customer_payment, under the lock of the customer, on a day of the
\* client's choice.
Pay(p) ==
    /\ payment[p] = NoPayment /\ Event
    /\ \E c \in Customer, a \in Amount, day \in Day :
          /\ a <= customer[c].balance
          /\ Postable({"1100", "1000"}, day)
          /\ payment' = [payment EXCEPT ![p] = [customer |-> c, amount |-> a]]
          /\ customer' = [customer EXCEPT ![c].balance = @ - a]
          /\ Post("customer_payment", p, day, PaymentLines(a))
    /\ UNCHANGED <<session, sale, voucher, inactive, pending, period, handler, time, history>>

\* update_customer_credit_balance: reads without a lock, posts nothing.
AdjustRead(h, c) ==
    /\ Start(h, "adjust", c, customer[c].balance)
    /\ UNCHANGED <<docs, ledger, history, time>>

Adjusted(seen, delta) == Most(0, Least(Limit, seen + delta))

AdjustCommit(h) ==
    /\ handler[h].op = "adjust"
    /\ \E d \in Delta :
          customer' = [customer EXCEPT ![handler[h].on].balance = Adjusted(handler[h].seen, d)]
    /\ edited' = edited \cup {handler[h].on}
    /\ Finish(h)
    /\ UNCHANGED <<session, sale, payment, voucher, ledger, raced, crossed, late, waived>>

-------------------------------------------------------------------------------
(* Expense vouchers. *)

\* create_expense: any day in an open period, and an account that need not be
\* active.
CreateVoucher(v) ==
    /\ voucher[v].status = "none" /\ Event
    /\ \E a \in Amount, code \in Expense, day \in Day :
          /\ Writable(day)
          /\ voucher' = [voucher EXCEPT ![v] =
                [status |-> "live", account |-> code, amount |-> a, day |-> day]]
          /\ Post("expense_voucher", v, day, VoucherLines(code, a))
    /\ UNCHANGED <<session, sale, customer, payment, inactive, pending, period, handler, time,
                   history>>

\* void_expense looks for a reversal that is there already, and not at is_void.
Reversals(v) == About(journal, {"expense_void"}, {v})

VoidVoucherRead(h, v) ==
    /\ voucher[v].status # "none" /\ Writable(voucher[v].day)
    /\ Start(h, "unspend", v, Cardinality(Reversals(v)))
    /\ UNCHANGED <<docs, ledger, history, time>>

NeverReversed(h) == FALSE   \* mutant: the reversal is not looked for
AlreadyReversed(h) == handler[h].seen > 0

VoidVoucherCommit(h) ==
    /\ handler[h].op = "unspend"
    /\ LET v == handler[h].on IN
       /\ voucher' = [voucher EXCEPT ![v].status = "void"]
       /\ IF AlreadyReversed(h) THEN UNCHANGED <<journal, raced>>
          ELSE /\ Writable(Today)
               /\ Post("expense_void", v, Today,
                       Reversal(VoucherLines(voucher[v].account, voucher[v].amount)))
               /\ raced' = raced \cup
                     (IF Cardinality(Reversals(v)) = handler[h].seen THEN {} ELSE {v})
    /\ Finish(h)
    /\ UNCHANGED <<session, sale, customer, payment, inactive, pending, period, crossed, late,
                   edited, waived>>

-------------------------------------------------------------------------------
(* Accounts, periods and the clock. *)

\* deactivate_account: not one of the system's, and without lines when it looks.
DeactivateRead(h, a) ==
    /\ a \notin System \cup inactive /\ a \notin Touched(journal)
    /\ Start(h, "deactivate", a, 0)
    /\ UNCHANGED <<docs, ledger, history, time>>

DeactivateCommit(h) ==
    /\ handler[h].op = "deactivate"
    /\ inactive' = inactive \cup {handler[h].on}
    /\ raced' = raced \cup ({handler[h].on} \cap Touched(journal))
    /\ Finish(h)
    /\ UNCHANGED <<docs, journal, pending, period, crossed, late, edited, waived>>

\* create_period looks for a period that overlaps: any that is there does, for all
\* begin before time 0.  Two requests may both find none.
CreatePeriodRead(h) ==
    /\ \A q \in Period : period[q].status = "none"
    /\ Start(h, "period", None, 0)
    /\ UNCHANGED <<docs, ledger, history, time>>

CreatePeriodCommit(h, q) ==
    /\ handler[h].op = "period" /\ period[q].status = "none"
    /\ \E day \in Day : period' = [period EXCEPT ![q] = [status |-> "open", last |-> day]]
    /\ Finish(h)
    /\ UNCHANGED <<docs, journal, inactive, pending, history>>

ClosePeriod(q) ==
    /\ period[q].status = "open" /\ Event
    /\ period' = [period EXCEPT ![q].status = "closed"]
    /\ UNCHANGED <<docs, journal, inactive, pending, handler, time, history>>

\* lock_period, by the owner of the platform.
LockPeriod(q) ==
    /\ period[q].status = "closed" /\ Event
    /\ period' = [period EXCEPT ![q].status = "locked"]
    /\ UNCHANGED <<docs, journal, inactive, pending, handler, time, history>>

\* A request that is refused at its commit: nothing is written.
Refuse(h) ==
    /\ handler[h] # Idle /\ Finish(h)
    /\ UNCHANGED <<docs, ledger, history>>

Tick ==
    /\ time < MaxTime /\ time' = time + 1
    /\ UNCHANGED <<docs, ledger, handler, events, history>>

Next ==
    \/ \E h \in Handler :
          \/ OpenRead(h) \/ VoidLook(h) \/ VoidCommit(h) \/ FailCommit(h)
          \/ ConfirmLook(h) \/ ConfirmCommit(h) \/ AdjustCommit(h)
          \/ VoidVoucherCommit(h) \/ DeactivateCommit(h) \/ Refuse(h) \/ CreatePeriodRead(h)
          \/ \E q \in Period : CreatePeriodCommit(h, q)
          \/ \E s \in Session : OpenCommit(h, s) \/ CashSaleRead(h, s)
          \/ \E t \in Sale : CashSaleCommit(h, t) \/ VoidRead(h, t) \/ FailRead(h, t)
                                   \/ ConfirmRead(h, t)
          \/ \E c \in Customer : AdjustRead(h, c)
          \/ \E v \in Voucher : VoidVoucherRead(h, v)
          \/ \E a \in AccountCode : DeactivateRead(h, a)
    \/ \E s \in Session : Close(s)
    \/ \E t \in Sale : OtherSale(t) \/ Callback(t)
    \/ \E p \in Payment : Pay(p)
    \/ \E v \in Voucher : CreateVoucher(v)
    \/ \E q \in Period : ClosePeriod(q) \/ LockPeriod(q)
    \/ Tick

Spec == Init /\ [][Next]_vars

-------------------------------------------------------------------------------
(* What must hold. *)

\* What should be in the till by the sales of a session.
Due(s) ==
    session[s].float + SumOver({t \in CompletedIn(sale, Sale) : sale[t].session = s},
                               LAMBDA t : sale[t].basket.total - sale[t].basket.change)

\* The entry of a session's opening or closing is in the journal or noted as due.
Accounted(s, type, amount) ==
    LET posted == About(journal, {type}, {s}) IN
    IF amount = 0 THEN posted = {} /\ <<type, s>> \notin pending
    ELSE /\ (posted = {}) = (<<type, s>> \in pending)
         /\ posted = {} \/ Net(posted, {"1040"}) = amount

\* cash_sessions.py, and the session's part in transactions.py: a cashier has one
\* open session at a till, its expected cash is the float and the sales that
\* stand, its variance is what was counted less that, and the ledger has the
\* float and the variance or an audit row says they are due.  Excepted are
\* requests that wrote over a row that had changed since they read it, and for
\* the variance, sales and voids that reach a session already closed.
TillsAccounted ==
    /\ "open" \notin raced => Cardinality(OpenSessions) <= 1
    /\ \A s \in Session :
          LET row == session[s] IN
          /\ s \notin raced => row.expected = Due(s)
          /\ row.status = "closed" /\ s \notin raced \cup late =>
                row.variance = row.counted - Due(s)
          /\ Accounted(s, "cash_session_open", row.float)
          /\ Accounted(s, "cash_session_close", row.variance)

SalesOf(c, method) ==
    {t \in CompletedIn(sale, Sale) : sale[t].customer = c /\ sale[t].basket.method = method}

Owed(c) == [t \in SalesOf(c, "credit") |-> sale[t].basket.total]

PaymentsOf(c) == {p \in Payment : payment[p].customer = c}
Paid(c) == SumOver(PaymentsOf(c), LAMBDA p : payment[p].amount)

\* A sale that was voided while today's period was closed keeps its entry, and so
\* may one that was completed while it was voided.
Unreversed == {t \in Sale : /\ sale[t].status = "voided"
                            /\ Originals(t) # {}
                            /\ About(journal, {"void"}, {t}) = {}}

Receivable(c) ==
    Net(About(journal, {"customer_payment"}, PaymentsOf(c))
          \cup About(journal, {"transaction", "void"}, {t \in Sale : sale[t].customer = c}), {"1100"})

\* customers.py, transactions.py and get_customer_statement: what a customer owes
\* is the same on the row, on the statement and in the ledger.  A void may not
\* take the row below zero: the row then shows more than the statement, by what
\* was cut off.  Excepted are rows set by hand or taken back twice, and for the
\* ledger, voids in a closed period.
CustomersAccounted ==
    \A c \in Customer :
       LET due == Statement(Owed(c), Paid(c)) IN
       /\ Limit > 0 => customer[c].balance <= Limit
       /\ c \notin edited =>
             /\ customer[c].balance = due + waived[c]
             /\ customer[c].wallet = Wallet - Gross(sale, SalesOf(c, "store_credit"))
       /\ (\A t \in Unreversed : sale[t].customer # c) => Receivable(c) = due

\* check_finance_control_integrity: documents whose entry is not in the journal.
Missing ==
    {v \in Voucher : voucher[v].status = "live" /\ About(journal, {"expense_voucher"}, {v}) = {}}
    \cup {p \in Payment : /\ payment[p] # NoPayment
                          /\ About(journal, {"customer_payment"}, {p}) = {}}
    \cup {s \in Session : /\ session[s].status = "closed" /\ session[s].variance # 0
                          /\ About(journal, {"cash_session_close"}, {s}) = {}}

\* expenses.py: a voucher that stands is in its account once and a void one not
\* at all, however often it is voided, unless two voids overlapped.  The check of
\* reconciliation.py finds no document without its entry but the closings whose
\* audit row says so.
VouchersNetOut ==
    /\ Missing = {s \in Session : <<"cash_session_close", s>> \in pending}
    /\ \A v \in Voucher : voucher[v].status # "none" /\ v \notin raced =>
          Net(About(journal, {"expense_voucher", "expense_void"}, {v}), {voucher[v].account})
             = IF voucher[v].status = "live" THEN voucher[v].amount ELSE 0

Last == (MaxTime + 1) \div 2

\* What the account ledgers of some accounts add up to over all days: one without
\* lines adds nothing.
Ledgers(accounts) ==
    SumOver(accounts \cap Touched(journal), LAMBDA a : AccountLedger(journal, a, 0, Last))

\* accounting.py: the account ledgers add up to equal debits and credits, the
\* trial balance balances, and so does the balance sheet of today, unless an
\* account was deactivated that has lines, or a voucher is dated ahead.  An
\* inactive account has lines only when a voucher was booked to it, or when its
\* first line came while it was being deactivated.
BooksBalance ==
    LET hidden == inactive \cap Touched(journal) IN
    /\ Ledgers(DebitNormal) = Ledgers(AccountCode \ DebitNormal)
    /\ hidden = {} => TrialBalance(journal, inactive) = 0
    /\ hidden = {} /\ (\A v \in Voucher : voucher[v].day <= Today) =>
          BalanceSheet(journal, inactive, Today) = 0
    /\ hidden \subseteq raced \cup {voucher[v].account : v \in Voucher}

Booked(entries, from, to) ==
    -Net(Between(About(entries, {"transaction", "void"}, Sale), from, to), {"4000", "2100"})

\* reports.py against accounting.py: the day reports, the PDF reports and the
\* ledger agree on what was sold and on its VAT over all days, but for voids made
\* in a closed period and for crossed sales: one whose confirmation wrote over a
\* row already confirmed may be in the ledger twice, and one that was confirmed
\* while it was voided stays in it, or stands with its entry reversed.  They agree
\* day by day when no sale was made between midnight in the shop and midnight UTC,
\* none was voided, and each was completed on the day it was created.
TapesMatchBooks ==
    LET calm == Sale \ crossed
        books == journal \ About(journal, {"transaction", "void"}, crossed)
        all == Tape(sale, calm, 0, Last)
        kept == Unreversed \ crossed
        made == {t \in Sale : sale[t].status # "none"}
    IN  /\ (\A q \in Period : period[q].status \in {"none", "open"}) => kept = {}
        /\ Tape(sale, Sale, 0, Last) = PdfTape(sale, Sale, 0, Last)
        /\ Gross(sale, all) + Gross(sale, kept) = Booked(books, 0, Last)
        /\ VatCollected(sale, all) + VatCollected(sale, kept) = NetVat(books, 0, Last)
        /\ (\A t \in made : /\ ~AtNight(sale[t].done) /\ sale[t].status # "voided"
                            /\ ShopDay(sale[t].done) = UtcDay(sale[t].created)) =>
              \A d \in Day :
                 /\ Gross(sale, Tape(sale, calm, d, d)) = Booked(books, d, d)
                 /\ PdfTape(sale, Sale, d, d) = Tape(sale, Sale, d, d)

================================================================================

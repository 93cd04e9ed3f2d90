--------------------------------- MODULE Books ---------------------------------
(***************************************************************************)
(* The general ledger of a shop and the statements read from it:           *)
(* models/accounting.py, the reports of services/accounting.py, and the    *)
(* day and VAT reports of routers/reports.py, which are read from the      *)
(* sales instead.                                                          *)
(*                                                                         *)
(* A journal is a set of entries.  An entry has a type, the document it is *)
(* about, a date and lines: a function from account codes to amounts, a    *)
(* debit positive and a credit negative.  "copy" tells two entries of the  *)
(* same document and type apart.                                           *)
(***************************************************************************)
EXTENDS Integers, FiniteSets, Functions

CONSTANTS
    Expense    \* codes of the expense accounts a voucher may be booked to

\* DEFAULT_ACCOUNTS, the accounts that the modelled entries touch.
Asset == {"1000", "1010", "1040", "1100"}
Liability == {"1400", "2100"}
Result == {"2300", "4000"} \cup Expense       \* revenue and expenses
AccountCode == Asset \cup Liability \cup Result

\* NORMAL_BALANCE_MAP: the accounts that grow by debits.
DebitNormal == AccountCode \ (Liability \cup {"4000"})

\* is_system: the seeded accounts that deactivate_account refuses.
System == {"1000", "1010", "1100", "2100", "4000"}

ASSUME BooksAssumption ==
    /\ IsFiniteSet(Expense)
    /\ Expense \cap (Asset \cup Liability \cup {"2300", "4000"}) = {}

\* Time passes in halves of a UTC day.  The second half ends after midnight in
\* the shop (Africa/Nairobi is ahead of UTC): it belongs to the shop's next day.
UtcDay(t) == t \div 2
ShopDay(t) == (t + 1) \div 2      \* business_date, merchant_today, utc_to_merchant_date
AtNight(t) == UtcDay(t) # ShopDay(t)

SumOver(S, Value(_)) == SumFunctionOnSet([x \in S |-> Value(x)], S)

-------------------------------------------------------------------------------
(* The ledger. *)

Transfer(debit, credit, amount) ==
    [a \in {debit, credit} |-> IF a = debit THEN amount ELSE -amount]

Reversal(lines) == [a \in DOMAIN lines |-> -lines[a]]

\* _post_entry refuses lines that do not add up.
Balances(lines) == SumOver(DOMAIN lines, LAMBDA a : lines[a]) = 0

On(e, accounts) == SumOver(DOMAIN e.lines \cap accounts, LAMBDA a : e.lines[a])

\* The sum of the lines on some accounts in some entries.
Net(entries, accounts) == SumOver(entries, LAMBDA e : On(e, accounts))

Between(entries, from, to) == {e \in entries : e.day >= from /\ e.day <= to}

About(entries, types, refs) == {e \in entries : e.type \in types /\ e.ref \in refs}

Touched(entries) == UNION {DOMAIN e.lines : e \in entries}

-------------------------------------------------------------------------------
(* Reports of the ledger.  Only accounts that are active are read.  The     *)
(* trial balance and the balance sheet join the lines to their accounts    *)
(* before they look at dates, and keep every line: their date selects      *)
(* nothing.                                                                *)

TrialBalance(entries, inactive) == Net(entries, AccountCode \ inactive)

\* get_pl: income less expenses dated between two days.
NetProfitBefore(entries, inactive, from, to) ==   \* mutant: the last day is left out
    -Net(Between(entries, from, to - 1), Result \ inactive)
NetProfit(entries, inactive, from, to) ==
    -Net(Between(entries, from, to), Result \ inactive)

\* get_balance_sheet: assets less liabilities and less the profit up to a day.
BalanceSheet(entries, inactive, asOf) ==
    Net(entries, (Asset \cup Liability) \ inactive) - NetProfit(entries, inactive, 0, asOf)

\* get_vat_summary: what is owed for a range of days.
NetVat(entries, from, to) == -Net(Between(entries, from, to), {"2100"})

\* get_account_ledger: the closing balance of one account, active or not, signed by
\* its normal balance (of no more lines than its limit: more than there are here).
AccountLedger(entries, a, from, to) ==
    LET debits == Net(Between(entries, from, to), {a})
    IN  IF a \in DebitNormal THEN debits ELSE -debits

-------------------------------------------------------------------------------
(* Reports of the sales.  A sale has a status, a total, a VAT amount, and   *)
(* the times it was created and completed.                                 *)

MadeIn(sales, S) == {t \in S : sales[t].status # "none"}   \* mutant: whatever its status
CompletedIn(sales, S) == {t \in S : sales[t].status = "completed"}

\* z_tape, weekly_summary and vat_report: by the shop's day of completion.
Tape(sales, S, from, to) ==
    {t \in CompletedIn(sales, S) : ShopDay(sales[t].done) \in from .. to}

\* z_tape_pdf, weekly_pdf and vat_pdf: by the database's day of creation.
PdfTape(sales, S, from, to) ==
    {t \in CompletedIn(sales, S) : UtcDay(sales[t].created) \in from .. to}

Gross(sales, S) == SumOver(S, LAMBDA t : sales[t].basket.total)
VatCollected(sales, S) == SumOver(S, LAMBDA t : sales[t].basket.vat)

-------------------------------------------------------------------------------
(* What customers owe. *)

\* get_customer_statement: credit sales less payments.
Statement(owed, paid) == SumFunction(owed) - paid

Least(a, b) == IF a < b THEN a ELSE b
Most(a, b) == IF a > b THEN a ELSE b

================================================================================

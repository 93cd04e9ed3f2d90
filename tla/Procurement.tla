------------------------------ MODULE Procurement ------------------------------
(***************************************************************************)
(* Purchase orders, goods received notes and supplier invoices:            *)
(* services/procurement.py, routers/procurement.py, models/procurement.py  *)
(* and the entry a posted note makes (services/accounting.py: post_grn).   *)
(*                                                                         *)
(* post_grn and cancel_grn lock the rows they change.  The handlers of a   *)
(* purchase order do not: each loads the order, decides, and writes its    *)
(* columns at the commit, whatever the row has become in between.          *)
(* A handler that inserts rows, or that holds the lock of the only row it  *)
(* reads, is one step.                                                     *)
(***************************************************************************)
EXTENDS Integers, FiniteSets, Functions

CONSTANTS
    Order, Note, Product, Invoice, Handler,
    NoOrder, NoNote, NoItem,
    Sheet,      \* orders and deliveries as they are typed in: for each product half
                \* purchase units, their type and size, base units turned away, and
                \* whether some of these are damaged
    Cost,       \* cost prices of a base unit
    EnforceWidth,  \* the database checks the width of stock_movements.movement_type
    Named,      \* bound: pairs of the product of a line and that of the item it names
    MaxEvents   \* bound: orders loaded, sales and invoice steps

ASSUME ProcurementAssumption ==
    /\ NoOrder \notin Order /\ NoNote \notin Note /\ NoItem \notin Order \X Product
    /\ EnforceWidth \in BOOLEAN
    /\ \A t \in Sheet : /\ DOMAIN t \subseteq Product /\ DOMAIN t # {}
                        /\ \A p \in DOMAIN t : t[p] \in [halves: Nat, type: {"unit", "pack"},
                                                        size: Nat \ {0}, bad: Nat,
                                                        damaged: BOOLEAN]
    /\ Cost \subseteq Nat /\ Cost # {} /\ MaxEvents \in Nat
    /\ IsFiniteSet(Product) /\ IsFiniteSet(Note)

VARIABLES
    order,     \* purchase_orders with their items
    note,      \* goods_received_notes with their items
    stock, cost,   \* of the products
    entries,   \* the value of the journal entry of a note, where there is one
    pending,   \* notes with an audit row accounting_pending_grn_post
    invoice,   \* supplier_invoice_matches
    handler,   \* requests between their first read and their commit
    events,
    cogs,      \* what the entries of sales have taken from the inventory account
    sold,      \* history: units taken from stock by others
    raced,     \* history: orders written by a handler that had read an older row
    strayed    \* history: orders that a note made out to another order, or to none, has
               \* brought goods to since their status was last worked out

vars == <<order, note, stock, cost, entries, pending, invoice, handler, events,
          cogs, sold, raced, strayed>>

Event == events < MaxEvents /\ events' = events + 1

Open == {"approved", "partially_received", "fully_received"}
Statuses == {"none", "draft", "submitted", "cancelled"} \cup Open

NoItems == [p \in {} |-> 0]
NewOrder == [status |-> "none", items |-> NoItems, received |-> NoItems, total |-> 0]
NewNote == [status |-> "none", order |-> NoOrder, lines |-> NoItems]
NewInvoice == [status |-> "none", order |-> NoOrder, note |-> NoNote]
Idle == [op |-> "idle", on |-> NoOrder, seen |-> NewOrder, read |-> NoItems]

Item == [qty: Nat, cost: Cost]
Line == [qty: Nat, bad: Nat, damaged: BOOLEAN, cost: Cost,
         item: (Order \X Product) \cup {NoItem}]

IsOrder(o) ==
    /\ o.status \in Statuses /\ o.total \in Nat
    /\ DOMAIN o.items \subseteq Product /\ \A p \in DOMAIN o.items : o.items[p] \in Item
    /\ DOMAIN o.received = DOMAIN o.items /\ \A p \in DOMAIN o.items : o.received[p] \in Nat

IsNote(n) ==
    /\ n.status \in {"none", "draft", "posted", "cancelled"}
    /\ n.order \in Order \cup {NoOrder}
    /\ DOMAIN n.lines \subseteq Product /\ \A p \in DOMAIN n.lines : n.lines[p] \in Line

TypeOK ==
    /\ \A o \in Order : IsOrder(order[o])
    /\ \A n \in Note : IsNote(note[n])
    /\ stock \in [Product -> Nat] /\ sold \in [Product -> Nat] /\ cogs \in Nat
    /\ cost \in [Product -> Cost]
    /\ DOMAIN entries \subseteq Note /\ \A n \in DOMAIN entries : entries[n] \in Nat \ {0}
    /\ pending \subseteq Note
    /\ invoice \in [Invoice -> [status: {"none", "unmatched", "partial", "matched", "disputed"},
                                order: Order \cup {NoOrder}, note: Note \cup {NoNote}]]
    /\ events \in 0 .. MaxEvents /\ raced \subseteq Order
    /\ strayed \subseteq Order
    /\ \A h \in Handler :
          /\ handler[h].op \in {"idle", "submit", "approve", "cancel", "update", "post"}
          /\ handler[h].on \in Order \cup Note \cup {NoOrder}
          /\ IsOrder(handler[h].seen)
          /\ DOMAIN handler[h].read \subseteq Product

Init ==
    /\ order = [o \in Order |-> NewOrder] /\ note = [n \in Note |-> NewNote]
    /\ stock = [p \in Product |-> 0] /\ sold = stock /\ cogs = 0
    /\ cost \in [Product -> Cost]
    /\ entries = <<>> /\ pending = {}
    /\ invoice = [i \in Invoice |-> NewInvoice]
    /\ handler = [h \in Handler |-> Idle]
    /\ events = 0 /\ raced = {} /\ strayed = {}

-------------------------------------------------------------------------------
(* Quantities and totals. *)

\* resolve_base_units: a "unit" is cut to a whole number, other types are
\* multiplied by their size and rounded, a half up.
BaseUnits(d) ==
    IF d.type = "unit" THEN d.halves \div 2 ELSE (d.halves * d.size + 1) \div 2

Accepted(l) == l.qty - l.bad

TotalOf(items) == SumFunction([p \in DOMAIN items |-> items[p].qty * items[p].cost])

\* accounting.post_grn: accepted units at the cost of the line.
ValueOfReceived(lines) == TotalOf(lines)   \* mutant: what was received is owed
EntryValue(lines) == SumFunction([p \in DOMAIN lines |-> Accepted(lines[p]) * lines[p].cost])

\* The items of an order from what is typed in, at the products' cost prices.
ItemsOf(typed) == [p \in DOMAIN typed |-> [qty |-> BaseUnits(typed[p]), cost |-> cost[p]]]

-------------------------------------------------------------------------------
(* Purchase orders. *)

Start(h, op, on, seen) ==
    /\ handler[h] = Idle
    /\ handler' = [handler EXCEPT ![h] = [Idle EXCEPT !.op = op, !.on = on, !.seen = seen]]

CreatePO(o) ==
    /\ order[o].status = "none"
    /\ \E t \in Sheet :
          order' = [order EXCEPT ![o] =
             [status |-> "draft", items |-> ItemsOf(t), received |-> [p \in DOMAIN t |-> 0],
              total |-> TotalOf(ItemsOf(t))]]
    /\ UNCHANGED <<note, stock, cost, entries, pending, invoice, handler, events,
                   cogs, sold, raced, strayed>>

\* The checks of update_po, submit_po, approve_po and cancel_po.
EditableLonger(s) == s \in {"draft", "submitted"}   \* mutant: also once submitted
Editable(s) == s = "draft"

Allowed(op, s) ==
    CASE op = "update"  -> Editable(s)
      [] op = "submit"  -> s = "draft"
      [] op = "approve" -> s = "submitted"
      [] op = "cancel"  -> s \notin {"none", "cancelled", "fully_received"}

LoadPO(h, op, o) ==
    /\ Allowed(op, order[o].status)
    /\ Start(h, op, o, order[o])
    /\ Event
    /\ UNCHANGED <<order, note, stock, cost, entries, pending, invoice, cogs, sold, raced, strayed>>

\* The items are replaced; the total is taken from the collection that was
\* loaded before, which the session does not refresh: from the old items.
Updated(seen, row, typed) ==
    [row EXCEPT !.items = ItemsOf(typed), !.received = [p \in DOMAIN typed |-> 0],
                !.total = TotalOf(seen.items)]

NewStatus(op) ==
    CASE op = "submit" -> "submitted" [] op = "approve" -> "approved"
      [] op = "cancel" -> "cancelled"

\* The items of an order, as lines of notes name them.
ItemsIn(o) == {o} \X Product

\* Postings by other handlers that have not committed have not locked any of them.
ItemsFree(h, items) ==
    \A g \in Handler \ {h} : \A p \in DOMAIN handler[g].read :
        note[handler[g].on].lines[p].item \notin items

\* Lines of notes that named an item lose the reference when it is replaced.
Unlink(l, o) == [l EXCEPT !.item = IF @ \in ItemsIn(o) THEN NoItem ELSE @]
Unlinked(o) ==
    [n \in Note |-> [note[n] EXCEPT !.lines = [p \in DOMAIN @ |-> Unlink(@[p], o)]]]

WritePO(h) ==
    LET o == handler[h].on
        op == handler[h].op IN
    /\ op \in {"update", "submit", "approve", "cancel"}
    /\ IF op = "update"
       THEN /\ ItemsFree(h, ItemsIn(o))
            /\ \E t \in Sheet :
                  order' = [order EXCEPT ![o] = Updated(handler[h].seen, @, t)]
            /\ note' = Unlinked(o) /\ strayed' = strayed \ {o}
       ELSE /\ order' = [order EXCEPT ![o].status = NewStatus(op)]
            /\ UNCHANGED <<note, strayed>>
    /\ raced' = IF order[o] = handler[h].seen THEN raced ELSE raced \cup {o}
    /\ handler' = [handler EXCEPT ![h] = Idle]
    /\ UNCHANGED <<stock, cost, entries, pending, invoice, events, cogs, sold>>

-------------------------------------------------------------------------------
(* Goods received notes. *)

\* The items there are.
Items == {i \in Order \X Product : i[2] \in DOMAIN order[i[1]].items}

\* Against an order of the supplier that is approved, or against none; a line may
\* name an item of any order, or none.
CreateGRN(n) ==
    /\ note[n].status = "none"
    /\ \E o \in {NoOrder} \cup {x \in Order : order[x].status \in {"approved", "partially_received"}},
          t \in Sheet :
          /\ \A p \in DOMAIN t : t[p].bad <= BaseUnits(t[p])
          /\ \E item \in [DOMAIN t -> Items \cup {NoItem}] :
                /\ \A p \in DOMAIN t : item[p] # NoItem => <<p, item[p][2]>> \in Named
                /\ note' = [note EXCEPT ![n] =
                      [status |-> "draft", order |-> o,
                       lines |-> [p \in DOMAIN t |->
                          [qty |-> BaseUnits(t[p]), bad |-> t[p].bad, damaged |-> t[p].damaged,
                           cost |-> cost[p], item |-> item[p]]]]]
    /\ UNCHANGED <<order, stock, cost, entries, pending, invoice, handler, events,
                   cogs, sold, raced, strayed>>

\* Rows held by postings that have not committed.
NeverLocked(n) == TRUE   \* mutant: the note is read without its lock
NoteFree(n) == \A h \in Handler : handler[h].op = "post" => handler[h].on # n

ProductFree(p) == \A h \in Handler : p \notin DOMAIN handler[h].read

\* post_grn: the note is locked and looked at, then each product is locked and its
\* stock is read, with the item the line names, and everything is written in one
\* commit.
PostBegin(h, n) ==
    /\ NoteFree(n)
    /\ note[n].status = "draft"
    /\ Start(h, "post", n, NewOrder)
    /\ UNCHANGED <<order, note, stock, cost, entries, pending, invoice, events,
                   cogs, sold, raced, strayed>>

PostLine(h, p) ==
    /\ handler[h].op = "post"
    /\ p \in DOMAIN note[handler[h].on].lines \ DOMAIN handler[h].read
    /\ ProductFree(p)
    /\ ItemsFree(h, {note[handler[h].on].lines[p].item} \cap (Order \X Product))
    /\ handler' = [handler EXCEPT ![h].read =
          [q \in DOMAIN @ \cup {p} |-> IF q = p THEN stock[p] ELSE @[q]]]
    /\ UNCHANGED <<order, note, stock, cost, entries, pending, invoice, events,
                   cogs, sold, raced, strayed>>

\* _recompute_po_status.
FullyEarly(row) == \E p \in DOMAIN row.items : row.received[p] >= row.items[p].qty   \* mutant: any
Fully(row) == \A p \in DOMAIN row.items : row.received[p] >= row.items[p].qty

Recomputed(row) ==
    IF row.status = "cancelled" THEN row
    ELSE IF Fully(row) THEN [row EXCEPT !.status = "fully_received"]
    ELSE IF \E p \in DOMAIN row.items : row.received[p] > 0
    THEN [row EXCEPT !.status = "partially_received"]
    ELSE IF row.status = "partially_received" THEN [row EXCEPT !.status = "approved"]
    ELSE row

\* Every item named is raised, whatever product the line is for.
Naming(lines, i) == {p \in DOMAIN lines : lines[p].item = i}
BroughtBy(lines, i) == SumFunction([p \in Naming(lines, i) |-> lines[p].qty])

Receive(o, lines) ==
    [order[o] EXCEPT !.received = [p \in DOMAIN @ |-> @[p] + BroughtBy(lines, <<o, p>>)]]

\* The movement type "purchase_receive_damaged" is too long for its column.
Fits(lines) == EnforceWidth => \A p \in DOMAIN lines : ~lines[p].damaged

\* The entry, none for nothing.  When it fails, as it does in a closed period, the
\* failure is only recorded.
PostEntry(n, value) ==
    IF n \in DOMAIN entries \/ value = 0 THEN UNCHANGED <<entries, pending>>
    ELSE \/ /\ entries' = [m \in DOMAIN entries \cup {n} |-> IF m = n THEN value ELSE entries[m]]
            /\ UNCHANGED pending
         \/ pending' = pending \cup {n} /\ UNCHANGED entries

PostCommit(h) ==
    LET n == handler[h].on
        lines == note[n].lines
        read == handler[h].read IN
    /\ handler[h].op = "post" /\ DOMAIN read = DOMAIN lines /\ Fits(lines)
    /\ stock' = [p \in Product |->
          IF p \in DOMAIN lines THEN read[p] + Accepted(lines[p]) ELSE stock[p]]
    /\ cost' = [p \in Product |->
          IF p \in DOMAIN lines /\ lines[p].cost > 0 THEN lines[p].cost ELSE cost[p]]
    /\ order' = [o \in Order |->
          IF o = note[n].order THEN Recomputed(Receive(o, lines)) ELSE Receive(o, lines)]
    /\ strayed' = (strayed \cup {o \in Order : \E p \in DOMAIN lines : lines[p].item \in ItemsIn(o)})
                     \ {note[n].order}
    /\ note' = [note EXCEPT ![n].status = "posted"]
    /\ PostEntry(n, EntryValue(lines))
    /\ handler' = [handler EXCEPT ![h] = Idle]
    /\ UNCHANGED <<invoice, events, cogs, sold, raced>>

Cancellable(s) == s = "draft"

CancelGRN(n) ==
    /\ NoteFree(n)
    /\ Cancellable(note[n].status)
    /\ note' = [note EXCEPT ![n].status = "cancelled"]
    /\ UNCHANGED <<order, stock, cost, entries, pending, invoice, handler, events,
                   cogs, sold, raced, strayed>>

-------------------------------------------------------------------------------
(* Supplier invoices. *)

\* _compute_variance: against the total of the order and the lines of the note.
Discrepancy(o, n, amount) ==
    \/ o # NoOrder /\ amount # order[o].total
    \/ n # NoNote /\ amount # TotalOf(note[n].lines)

CreateInvoiceMatch(i) ==
    /\ invoice[i].status = "none"
    /\ Event
    /\ \E o \in {NoOrder} \cup {x \in Order : order[x].status # "none"},
          n \in {NoNote} \cup {x \in Note : note[x].status = "posted"} :
       LET amounts == {order[x].total : x \in {o} \cap Order}
                          \cup {TotalOf(note[x].lines) : x \in {n} \cap Note} \cup {0} IN
       \E amount \in amounts :
          invoice' = [invoice EXCEPT ![i] =
             [order |-> o, note |-> n,
              status |-> IF ~Discrepancy(o, n, amount) THEN "matched"
                         ELSE IF o # NoOrder \/ n # NoNote THEN "partial" ELSE "unmatched"]]
    /\ UNCHANGED <<order, note, stock, cost, entries, pending, handler, cogs, sold, raced, strayed>>

ResolveInvoiceMatch(i, s) ==
    /\ invoice[i].status # "none" /\ s \in {"matched", "disputed"}
    /\ Event
    /\ invoice' = [invoice EXCEPT ![i].status = s]
    /\ UNCHANGED <<order, note, stock, cost, entries, pending, handler, cogs, sold, raced, strayed>>

-------------------------------------------------------------------------------
(* Around them: a sale under the product's lock, an edit of the cost price, and *)
(* a request that fails or is the victim of a deadlock: it is rolled back.      *)

Sell(p) ==
    /\ ProductFree(p) /\ stock[p] > 0
    /\ Event
    /\ stock' = [stock EXCEPT ![p] = @ - 1]
    /\ sold' = [sold EXCEPT ![p] = @ + 1] /\ cogs' = cogs + cost[p]
    /\ UNCHANGED <<order, note, cost, entries, pending, invoice, handler, raced, strayed>>

EditCost(p, c) ==
    /\ ProductFree(p)
    /\ cost' = [cost EXCEPT ![p] = c]
    /\ UNCHANGED <<order, note, stock, entries, pending, invoice, handler, events, cogs, sold, raced, strayed>>

Rollback(h) ==
    /\ handler[h] # Idle
    /\ handler' = [handler EXCEPT ![h] = Idle]
    /\ UNCHANGED <<order, note, stock, cost, entries, pending, invoice, events, cogs, sold, raced, strayed>>

Next ==
    \/ \E o \in Order : CreatePO(o)
    \/ \E n \in Note : CreateGRN(n) \/ CancelGRN(n)
    \/ \E i \in Invoice :
          CreateInvoiceMatch(i) \/ \E s \in {"matched", "disputed"} : ResolveInvoiceMatch(i, s)
    \/ \E h \in Handler :
          \/ \E o \in Order, op \in {"update", "submit", "approve", "cancel"} : LoadPO(h, op, o)
          \/ WritePO(h)
          \/ \E n \in Note : PostBegin(h, n)
          \/ \E p \in Product : PostLine(h, p)
          \/ PostCommit(h)
          \/ Rollback(h)
    \/ \E p \in Product : Sell(p) \/ \E c \in Cost : EditCost(p, c)

Spec == Init /\ [][Next]_vars

-------------------------------------------------------------------------------
Posted == {n \in Note : note[n].status = "posted"}
LinesOf(p, S) == {n \in S : p \in DOMAIN note[n].lines}

\* The stock of a product is what the posted notes have accepted, each once, less
\* what was taken, under every overlap of postings and sales (procurement.py:499-582).
StockMatchesNotes ==
    \A p \in Product :
        stock[p] + sold[p] =
            SumFunction([n \in LinesOf(p, Posted) |-> note[n].lines[p].qty - note[n].lines[p].bad])

\* The accepted units of a note, or of some notes, at cost.
Worth(n) ==
    SumFunction([p \in DOMAIN note[n].lines |->
        (note[n].lines[p].qty - note[n].lines[p].bad) * note[n].lines[p].cost])
WorthOf(S) == SumFunction([n \in S |-> Worth(n)])

\* reconciliation.py: get_inventory_ledger_diff, the stock at cost prices (no code
\* sets a product's wac) less the balance of the inventory account.
InventoryDiff ==
    SumFunction([p \in Product |-> stock[p] * cost[p]]) - (SumFunction(entries) - cogs)

\* The books and the stock agree: the inventory account holds the accepted units of
\* every posted note at cost, except notes whose entry is recorded as pending, and
\* the reconciliation reports what those are worth and nothing else, as long as the
\* cost price never changes (a new price revalues the stock and posts nothing).
BooksMatchNotes ==
    /\ DOMAIN entries \cap pending = {}
    /\ SumFunction(entries) = WorthOf(Posted \ pending)
    /\ (\A c, d \in Cost : c = d) => InventoryDiff = WorthOf(pending)

\* What posted notes have brought for an item of an order, whatever order they are
\* made out to.
Brought(o, p) == SumFunction([n \in Posted |-> BroughtBy(note[n].lines, <<o, p>>)])

\* An order that no two handlers overlapped on has received what the posted notes
\* that name its items have brought, and its status says so: it is fully received
\* when and only when every item is (procurement.py:128).  Two exceptions for the
\* status.  A note made out to another order, or to none, raises the items it names
\* and leaves the status as it was until the order's own next note
\* (procurement.py:560-591).  Half a "unit" is cut to nothing: an order of nothing
\* else is received from the start, and its status says so only with the next note.
StatusMatchesNotes ==
    \A o \in Order \ raced :
        LET items == order[o].items IN
        /\ \A p \in DOMAIN items : order[o].received[p] = Brought(o, p)
        /\ order[o].status \in Open /\ o \notin strayed /\ (\E p \in DOMAIN items : items[p].qty > 0) =>
              /\ order[o].status = "fully_received" <=>
                    \A p \in DOMAIN items : Brought(o, p) >= items[p].qty
              /\ order[o].status = "approved" <=> \A p \in DOMAIN items : Brought(o, p) = 0

\* An order that no two handlers overlapped on keeps the items it was submitted
\* with, and never leaves "cancelled" (procurement.py:302-304, 349-382).
SubmittedIsFrozen ==
    [][\A o \in Order \ raced' :
         /\ order[o].status \notin {"none", "draft"} =>
               order'[o].items = order[o].items /\ order'[o].status \notin {"none", "draft"}
         /\ order[o].status = "cancelled" => order'[o].status = "cancelled"]_vars

===============================================================================

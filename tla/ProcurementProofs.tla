------------------------- MODULE ProcurementProofs -------------------------
(***************************************************************************)
(* What holds of Procurement for any orders, notes, products and handlers: *)
(* its types, the stock against the posted notes, the books against the    *)
(* stock, the status of an order against what its notes have brought, and  *)
(* that an order keeps the items it was submitted with.                    *)
(***************************************************************************)
EXTENDS Procurement, SumTheorems, TLAPS

(***************************************************************************)
(* TypeOK says what the rows hold; Shape also says what they are: records, *)
(* in functions on the whole table.                                        *)
(***************************************************************************)
PerProduct(S) == UNION {[D -> S] : D \in SUBSET Product}

Row == [status: Statuses, items: PerProduct(Item), received: PerProduct(Nat), total: Nat]
Rows == {r \in Row : DOMAIN r.received = DOMAIN r.items}
Slip == [status: {"none", "draft", "posted", "cancelled"}, order: Order \cup {NoOrder},
         lines: PerProduct(Line)]
Work == [op: {"idle", "submit", "approve", "cancel", "update", "post"},
         on: Order \cup Note \cup {NoOrder}, seen: Rows, read: PerProduct(Nat)]

Shape ==
    /\ order \in [Order -> Rows] /\ note \in [Note -> Slip]
    /\ stock \in [Product -> Nat] /\ sold \in [Product -> Nat] /\ cogs \in Nat
    /\ cost \in [Product -> Cost]
    /\ entries \in [DOMAIN entries -> Nat \ {0}] /\ DOMAIN entries \subseteq Note
    /\ pending \subseteq Note
    /\ invoice \in [Invoice -> [status: {"none", "unmatched", "partial", "matched", "disputed"},
                                order: Order \cup {NoOrder}, note: Note \cup {NoNote}]]
    /\ events \in 0 .. MaxEvents /\ raced \subseteq Order /\ strayed \subseteq Order
    /\ handler \in [Handler -> Work]

LEMMA FromPerProduct ==
    ASSUME NEW S, NEW f \in PerProduct(S)
    PROVE  DOMAIN f \subseteq Product /\ f \in [DOMAIN f -> S] /\ \A p \in DOMAIN f : f[p] \in S
  BY DEF PerProduct

LEMMA ToPerProduct ==
    ASSUME NEW S, NEW D \in SUBSET Product, NEW f \in [D -> S]
    PROVE  f \in PerProduct(S)
  BY DEF PerProduct

LEMMA NoItemsShape == ASSUME NEW S PROVE NoItems \in PerProduct(S) /\ DOMAIN NoItems = {}
<1>1. NoItems \in [{} -> S] /\ DOMAIN NoItems = {}
  BY DEF NoItems
<1> QED
  BY <1>1, ToPerProduct

(* The shape is at least as much as the type invariant. *)
LEMMA ShapeIsTyped == Shape => TypeOK
<1> SUFFICES ASSUME Shape PROVE TypeOK
  OBVIOUS
<1>1. ASSUME NEW r \in Rows PROVE IsOrder(r)
  <2>1. r.items \in PerProduct(Item) /\ r.received \in PerProduct(Nat)
        /\ r.status \in Statuses /\ r.total \in Nat /\ DOMAIN r.received = DOMAIN r.items
    BY DEF Rows, Row
  <2>2. DOMAIN r.items \subseteq Product /\ (\A p \in DOMAIN r.items : r.items[p] \in Item)
        /\ (\A p \in DOMAIN r.items : r.received[p] \in Nat)
    BY <2>1, FromPerProduct
  <2> QED BY <2>1, <2>2 DEF IsOrder
<1>2. ASSUME NEW n \in Note PROVE IsNote(note[n])
  <2>1. note[n] \in Slip
    BY DEF Shape
  <2>2. note[n].lines \in PerProduct(Line) /\ note[n].order \in Order \cup {NoOrder}
        /\ note[n].status \in {"none", "draft", "posted", "cancelled"}
    BY <2>1 DEF Slip
  <2>3. DOMAIN note[n].lines \subseteq Product
        /\ \A p \in DOMAIN note[n].lines : note[n].lines[p] \in Line
    BY <2>2, FromPerProduct
  <2> QED BY <2>2, <2>3 DEF IsNote
<1>3. \A o \in Order : IsOrder(order[o])
  BY <1>1 DEF Shape
<1>4. ASSUME NEW h \in Handler
      PROVE  /\ handler[h].op \in {"idle", "submit", "approve", "cancel", "update", "post"}
             /\ handler[h].on \in Order \cup Note \cup {NoOrder}
             /\ IsOrder(handler[h].seen)
             /\ DOMAIN handler[h].read \subseteq Product
  <2>1. handler[h] \in Work
    BY DEF Shape
  <2>2. handler[h].seen \in Rows /\ handler[h].read \in PerProduct(Nat)
        /\ handler[h].op \in {"idle", "submit", "approve", "cancel", "update", "post"}
        /\ handler[h].on \in Order \cup Note \cup {NoOrder}
    BY <2>1 DEF Work
  <2> QED BY <1>1, <2>2, FromPerProduct
<1>5. /\ stock \in [Product -> Nat] /\ sold \in [Product -> Nat] /\ cogs \in Nat
      /\ cost \in [Product -> Cost]
      /\ DOMAIN entries \subseteq Note /\ (\A n \in DOMAIN entries : entries[n] \in Nat \ {0})
      /\ pending \subseteq Note
      /\ invoice \in [Invoice -> [status: {"none", "unmatched", "partial", "matched", "disputed"},
                                  order: Order \cup {NoOrder}, note: Note \cup {NoNote}]]
      /\ events \in 0 .. MaxEvents /\ raced \subseteq Order /\ strayed \subseteq Order
  BY DEF Shape
<1> QED
  BY <1>2, <1>3, <1>4, <1>5 DEF TypeOK

-----------------------------------------------------------------------------
(* Quantities and totals are numbers. *)

LEMMA Numbers ==
    /\ \A c \in Cost : c \in Nat
    /\ \A x, y \in Nat : x * y \in Nat
    /\ \A i \in Item : i.qty \in Nat /\ i.cost \in Cost
    /\ \A l \in Line : l.qty \in Nat /\ l.bad \in Nat /\ l.cost \in Cost
                       /\ l.item \in (Order \X Product) \cup {NoItem}
  BY ProcurementAssumption DEF Item, Line

(* Functions on products are finite. *)
LEMMA ProductsFinite ==
    ASSUME NEW D \in SUBSET Product PROVE IsFiniteSet(D)
  BY ProcurementAssumption, FS_Subset

LEMMA TypedUnits ==
    ASSUME NEW t \in Sheet
    PROVE  /\ DOMAIN t \in SUBSET Product
           /\ \A p \in DOMAIN t : BaseUnits(t[p]) \in Nat /\ t[p].bad \in Nat /\ t[p].damaged \in BOOLEAN
<1>1. /\ DOMAIN t \subseteq Product
      /\ \A p \in DOMAIN t : /\ t[p].halves \in Nat /\ t[p].size \in Nat /\ t[p].bad \in Nat /\ t[p].damaged \in BOOLEAN
  BY ProcurementAssumption
<1>2. ASSUME NEW p \in DOMAIN t PROVE BaseUnits(t[p]) \in Nat
  <2>1. t[p].halves * t[p].size \in Nat /\ t[p].halves \in Nat
    BY <1>1, Numbers
  <2>2. \A x \in Nat : x \div 2 \in Nat /\ (x + 1) \div 2 \in Nat
    OBVIOUS
  <2> QED BY <2>1, <2>2 DEF BaseUnits
<1> QED BY <1>1, <1>2

LEMMA TotalIsNat ==
    ASSUME NEW items \in PerProduct(Item) PROVE TotalOf(items) \in Nat
<1> DEFINE f == [p \in DOMAIN items |-> items[p].qty * items[p].cost]
<1>1. DOMAIN items \in SUBSET Product /\ \A p \in DOMAIN items : items[p] \in Item
  BY FromPerProduct
<1>2. \A p \in DOMAIN items : items[p].qty \in Nat /\ items[p].cost \in Nat
  BY <1>1, Numbers
<1>3. \A p \in DOMAIN items : f[p] \in Nat
  BY <1>2, Numbers
<1>4. TotalOf(items) = SumFunctionOnSet(f, DOMAIN items)
  BY DEF TotalOf, SumFunction
<1>5. IsFiniteSet(DOMAIN items)
  BY <1>1, ProductsFinite
<1> HIDE DEF f
<1> QED BY <1>3, <1>4, <1>5, SumNat

LEMMA ItemsShape ==
    ASSUME Shape, NEW t \in Sheet
    PROVE  /\ ItemsOf(t) \in PerProduct(Item) /\ DOMAIN ItemsOf(t) = DOMAIN t
           /\ [p \in DOMAIN t |-> 0] \in PerProduct(Nat)
           /\ TotalOf(ItemsOf(t)) \in Nat
<1>1. \A p \in DOMAIN t : [qty |-> BaseUnits(t[p]), cost |-> cost[p]] \in Item
  BY TypedUnits DEF Item, Shape
<1>2. ItemsOf(t) \in [DOMAIN t -> Item] /\ DOMAIN ItemsOf(t) = DOMAIN t
  BY <1>1 DEF ItemsOf
<1>3. [p \in DOMAIN t |-> 0] \in [DOMAIN t -> Nat]
  OBVIOUS
<1>4. ItemsOf(t) \in PerProduct(Item) /\ [p \in DOMAIN t |-> 0] \in PerProduct(Nat)
  BY <1>2, <1>3, TypedUnits, ToPerProduct
<1> QED BY <1>2, <1>4, TotalIsNat

(* The accepted units of some lines at cost. *)
LEMMA EntryValueIsNat ==
    ASSUME NEW lines \in PerProduct(Line), \A p \in DOMAIN lines : lines[p].bad <= lines[p].qty
    PROVE  EntryValue(lines) \in Nat
<1> DEFINE f == [p \in DOMAIN lines |-> Accepted(lines[p]) * lines[p].cost]
<1>1. DOMAIN lines \in SUBSET Product /\ \A p \in DOMAIN lines : lines[p] \in Line
  BY FromPerProduct
<1>2. \A p \in DOMAIN lines : Accepted(lines[p]) \in Nat /\ lines[p].cost \in Nat
  BY <1>1, Numbers DEF Accepted
<1>3. \A p \in DOMAIN lines : f[p] \in Nat
  BY <1>2, Numbers
<1>4. EntryValue(lines) = SumFunctionOnSet(f, DOMAIN lines)
  BY DEF EntryValue, SumFunction
<1>5. IsFiniteSet(DOMAIN lines)
  BY <1>1, ProductsFinite
<1> HIDE DEF f
<1> QED BY <1>3, <1>4, <1>5, SumNat

(* It depends on the quantities and costs, not on the references. *)
LEMMA EntryValueSame ==
    ASSUME NEW a \in PerProduct(Line), NEW b, DOMAIN a = DOMAIN b,
           \A p \in DOMAIN a : a[p].qty = b[p].qty /\ a[p].bad = b[p].bad /\ a[p].cost = b[p].cost
    PROVE  EntryValue(a) = EntryValue(b)
<1> DEFINE f == [p \in DOMAIN a |-> Accepted(a[p]) * a[p].cost]
           g == [p \in DOMAIN b |-> Accepted(b[p]) * b[p].cost]
<1>1. EntryValue(a) = SumFunctionOnSet(f, DOMAIN a) /\ EntryValue(b) = SumFunctionOnSet(g, DOMAIN a)
  BY DEF EntryValue, SumFunction
<1>2. \A p \in DOMAIN a : f[p] = g[p]
  BY DEF Accepted
<1>3. IsFiniteSet(DOMAIN a)
  BY FromPerProduct, ProductsFinite
<1> HIDE DEF f, g
<1> QED BY <1>1, <1>2, <1>3, SumSame

-----------------------------------------------------------------------------
(* A posting holds its note, in draft, and the products it has read, whose   *)
(* stock is still what it read.                                              *)
Posting(h) == handler[h].op = "post"

Holds(h) ==
    IF Posting(h)
    THEN /\ handler[h].on \in Note /\ note[handler[h].on].status = "draft"
         /\ DOMAIN handler[h].read \subseteq DOMAIN note[handler[h].on].lines
         /\ \A p \in DOMAIN handler[h].read : handler[h].read[p] = stock[p]
    ELSE DOMAIN handler[h].read = {}

(* No two handlers hold the same note or the same product. *)
Apart ==
    \A g, h \in Handler : g # h =>
        /\ Posting(g) /\ Posting(h) => handler[g].on # handler[h].on
        /\ DOMAIN handler[g].read \cap DOMAIN handler[h].read = {}

(* No note turns away more than was delivered. *)
Counted ==
    \A n \in Note : \A p \in DOMAIN note[n].lines : note[n].lines[p].bad <= note[n].lines[p].qty

(* A handler of an order goes by what it has read, which its check allowed.  *)
OrderOps == {"update", "submit", "approve", "cancel"}
Loaded(h) ==
    handler[h].op \in OrderOps =>
        handler[h].on \in Order /\ Allowed(handler[h].op, handler[h].seen.status)

Locks == Shape /\ (\A h \in Handler : Holds(h) /\ Loaded(h)) /\ Apart /\ Counted

LEMMA RowFields ==
    ASSUME NEW r \in Rows
    PROVE  /\ r.status \in Statuses /\ r.items \in PerProduct(Item) /\ r.received \in PerProduct(Nat)
           /\ r.total \in Nat /\ DOMAIN r.received = DOMAIN r.items
           /\ DOMAIN r.items \in SUBSET Product
           /\ \A p \in DOMAIN r.items : r.items[p] \in Item /\ r.received[p] \in Nat
<1>1. /\ r.status \in Statuses /\ r.items \in PerProduct(Item) /\ r.received \in PerProduct(Nat)
      /\ r.total \in Nat /\ DOMAIN r.received = DOMAIN r.items
  BY DEF Rows, Row
<1> QED BY <1>1, FromPerProduct

LEMMA SlipFields ==
    ASSUME NEW s \in Slip
    PROVE  /\ s.status \in {"none", "draft", "posted", "cancelled"}
           /\ s.order \in Order \cup {NoOrder} /\ s.lines \in PerProduct(Line)
           /\ DOMAIN s.lines \in SUBSET Product
           /\ \A p \in DOMAIN s.lines : s.lines[p] \in Line
<1>1. /\ s.status \in {"none", "draft", "posted", "cancelled"}
      /\ s.order \in Order \cup {NoOrder} /\ s.lines \in PerProduct(Line)
  BY DEF Slip
<1> QED BY <1>1, FromPerProduct

LEMMA WorkFields ==
    ASSUME NEW w \in Work
    PROVE  /\ w.op \in {"idle", "submit", "approve", "cancel", "update", "post"}
           /\ w.on \in Order \cup Note \cup {NoOrder} /\ w.seen \in Rows
           /\ w.read \in PerProduct(Nat) /\ DOMAIN w.read \in SUBSET Product
           /\ \A p \in DOMAIN w.read : w.read[p] \in Nat
<1>1. /\ w.op \in {"idle", "submit", "approve", "cancel", "update", "post"}
      /\ w.on \in Order \cup Note \cup {NoOrder} /\ w.seen \in Rows
      /\ w.read \in PerProduct(Nat)
  BY DEF Work
<1> QED BY <1>1, FromPerProduct

LEMMA EmptyShapes ==
    /\ NewOrder \in Rows /\ NewNote \in Slip /\ Idle \in Work
    /\ DOMAIN Idle.read = {} /\ Idle.op = "idle"
<1>1. NewOrder \in Rows
  <2>1. NewOrder \in Row
    BY NoItemsShape DEF NewOrder, Row, Statuses, Open
  <2> QED BY <2>1, NoItemsShape DEF NewOrder, Rows
<1>2. NewNote \in Slip
  BY NoItemsShape DEF NewNote, Slip
<1>3. Idle \in Work
  BY <1>1, NoItemsShape DEF Idle, Work
<1> QED BY <1>1, <1>2, <1>3, NoItemsShape DEF Idle

LEMMA InitLocks == Init => Locks
<1> SUFFICES ASSUME Init PROVE Locks
  OBVIOUS
<1>1. Shape
  <2>1. entries \in [{} -> Nat \ {0}] /\ DOMAIN entries = {}
    BY DEF Init
  <2>2. order \in [Order -> Rows] /\ note \in [Note -> Slip] /\ handler \in [Handler -> Work]
    BY EmptyShapes DEF Init
  <2>3. /\ stock \in [Product -> Nat] /\ sold \in [Product -> Nat] /\ cogs \in Nat
        /\ cost \in [Product -> Cost] /\ pending \subseteq Note
        /\ raced \subseteq Order /\ strayed \subseteq Order
    BY DEF Init
  <2>4. events \in 0 .. MaxEvents
    BY ProcurementAssumption DEF Init
  <2>5. invoice \in [Invoice -> [status: {"none", "unmatched", "partial", "matched", "disputed"},
                                order: Order \cup {NoOrder}, note: Note \cup {NoNote}]]
    BY DEF Init, NewInvoice
  <2> QED BY <2>1, <2>2, <2>3, <2>4, <2>5 DEF Shape
<1>2. \A h \in Handler : handler[h].op = "idle" /\ DOMAIN handler[h].read = {}
  BY EmptyShapes DEF Init
<1>3. Counted
  BY NoItemsShape DEF Init, Counted, NewNote
<1>4. \A h \in Handler : Holds(h) /\ Loaded(h)
  BY <1>2 DEF Holds, Loaded, Posting, OrderOps
<1>5. Apart
  BY <1>2 DEF Apart, Posting
<1> QED BY <1>1, <1>3, <1>4, <1>5 DEF Locks

(* What the handlers hold stays true of a note, a stock and handlers that    *)
(* did not change where it matters.                                          *)
LEMMA StillHolds ==
    ASSUME Locks, NEW h \in Handler, handler'[h] = handler[h],
           Posting(h) =>
              /\ note'[handler[h].on].status = note[handler[h].on].status
              /\ DOMAIN note'[handler[h].on].lines = DOMAIN note[handler[h].on].lines
              /\ \A p \in DOMAIN handler[h].read : stock'[p] = stock[p]
    PROVE  Holds(h)' /\ Loaded(h)'
<1>1. Holds(h) /\ Loaded(h)
  BY DEF Locks
<1>2. Loaded(h)'
  BY <1>1 DEF Loaded
<1>3. CASE Posting(h)
  BY <1>1, <1>2, <1>3 DEF Holds, Posting
<1>4. CASE ~Posting(h)
  BY <1>1, <1>2, <1>4 DEF Holds, Posting
<1> QED BY <1>3, <1>4

(* A handler that becomes idle holds nothing. *)
LEMMA GoesIdle ==
    ASSUME Locks, NEW h \in Handler, handler' = [handler EXCEPT ![h] = Idle]
    PROVE  /\ handler' \in [Handler -> Work] /\ Apart' /\ Holds(h)' /\ Loaded(h)'
           /\ \A g \in Handler : g # h => handler'[g] = handler[g]
<1>1. handler \in [Handler -> Work]
  BY DEF Locks, Shape
<1>2. handler'[h] = Idle /\ \A g \in Handler : g # h => handler'[g] = handler[g]
  BY <1>1
<1>3. handler' \in [Handler -> Work]
  BY <1>1, EmptyShapes
<1>4. handler'[h].op = "idle" /\ DOMAIN handler'[h].read = {}
  BY <1>2, EmptyShapes
<1>5. Apart'
  BY <1>2, <1>4 DEF Locks, Apart, Posting
<1>6. Holds(h)' /\ Loaded(h)'
  BY <1>4 DEF Holds, Loaded, Posting, OrderOps
<1> QED BY <1>2, <1>3, <1>5, <1>6

-----------------------------------------------------------------------------
(* Every step keeps the locks. *)

LEMMA CreatePOKeepsLocks ==
    ASSUME Locks, NEW o \in Order, CreatePO(o) PROVE Locks'
<1>1. PICK t \in Sheet :
          order' = [order EXCEPT ![o] =
             [status |-> "draft", items |-> ItemsOf(t), received |-> [p \in DOMAIN t |-> 0],
              total |-> TotalOf(ItemsOf(t))]]
  BY DEF CreatePO
<1>2. [status |-> "draft", items |-> ItemsOf(t), received |-> [p \in DOMAIN t |-> 0],
       total |-> TotalOf(ItemsOf(t))] \in Rows
  BY ItemsShape DEF Locks, Rows, Row, Statuses
<1>3. Shape'
  BY <1>1, <1>2 DEF Locks, Shape, CreatePO
<1> QED
  BY <1>3 DEF Locks, CreatePO, Holds, Posting, Loaded, Apart, Counted

LEMMA StartedWork ==
    ASSUME NEW op, NEW on, NEW seen
    PROVE  [Idle EXCEPT !.op = op, !.on = on, !.seen = seen] \in
               [op: {op}, on: {on}, seen: {seen}, read: {NoItems}]
  BY DEF Idle

LEMMA LoadPOKeepsLocks ==
    ASSUME Locks, NEW h \in Handler, NEW o \in Order, NEW op \in OrderOps, LoadPO(h, op, o)
    PROVE  Locks'
<1> DEFINE w == [Idle EXCEPT !.op = op, !.on = o, !.seen = order[o]]
<1>1. /\ handler[h] = Idle /\ handler' = [handler EXCEPT ![h] = w]
      /\ Allowed(op, order[o].status) /\ events < MaxEvents /\ events' = events + 1
      /\ UNCHANGED <<order, note, stock, cost, entries, pending, invoice, cogs, sold, raced, strayed>>
  BY DEF LoadPO, Start, Event
<1>2. order[o] \in Rows /\ handler \in [Handler -> Work]
  BY DEF Locks, Shape
<1>3. w \in [op: {op}, on: {o}, seen: {order[o]}, read: {NoItems}]
  BY StartedWork
<1>4. w.op = op /\ w.on = o /\ w.seen = order[o] /\ w.read = NoItems
  BY <1>3
<1>5. w \in Work
  BY <1>2, <1>3, NoItemsShape DEF Work, OrderOps
<1> HIDE DEF w
<1>6. handler'[h] = w /\ \A g \in Handler : g # h => handler'[g] = handler[g]
  BY <1>1, <1>2
<1>7. Shape'
  <2>1. handler' \in [Handler -> Work]
    BY <1>1, <1>2, <1>5
  <2>2. events' \in 0 .. MaxEvents
    BY <1>1, ProcurementAssumption DEF Locks, Shape
  <2> QED BY <1>1, <2>1, <2>2 DEF Locks, Shape
<1>8. Counted'
  BY <1>1 DEF Locks, Counted
<1>9. ~Posting(h)' /\ DOMAIN handler'[h].read = {}
  BY <1>4, <1>6, NoItemsShape DEF Posting, OrderOps
<1>10. Holds(h)' /\ Loaded(h)'
  BY <1>1, <1>4, <1>6, <1>9 DEF Holds, Loaded
<1>11. \A g \in Handler : Holds(g)' /\ Loaded(g)'
  <2> SUFFICES ASSUME NEW g \in Handler, g # h PROVE Holds(g)' /\ Loaded(g)'
    BY <1>10
  <2> QED BY <1>1, <1>6, StillHolds
<1>12. Apart'
  BY <1>6, <1>9 DEF Locks, Apart, Posting
<1> QED BY <1>7, <1>8, <1>11, <1>12 DEF Locks

(* Unlinked changes references of lines and nothing else. *)
LEMMA UnlinkedLine ==
    ASSUME NEW l \in Line, NEW o
    PROVE  /\ Unlink(l, o) \in Line /\ Unlink(l, o).qty = l.qty
           /\ Unlink(l, o).item = IF l.item \in ItemsIn(o) THEN NoItem ELSE l.item
           /\ Unlink(l, o).bad = l.bad /\ Unlink(l, o).cost = l.cost
<1> DEFINE i == IF l.item \in ItemsIn(o) THEN NoItem ELSE l.item
<1>1. i \in (Order \X Product) \cup {NoItem}
  BY Numbers
<1>2. Unlink(l, o) = [l EXCEPT !.item = i]
  BY DEF Unlink
<1> HIDE DEF i
<1>3. /\ Unlink(l, o) \in Line /\ Unlink(l, o).qty = l.qty /\ Unlink(l, o).item = i
      /\ Unlink(l, o).bad = l.bad /\ Unlink(l, o).cost = l.cost
  BY <1>1, <1>2 DEF Line
<1> QED BY <1>3 DEF i

LEMMA UnlinkedKeeps ==
    ASSUME Shape, NEW o
    PROVE  /\ Unlinked(o) \in [Note -> Slip]
           /\ \A n \in Note :
                 /\ Unlinked(o)[n].status = note[n].status
                 /\ Unlinked(o)[n].order = note[n].order
                 /\ DOMAIN Unlinked(o)[n].lines = DOMAIN note[n].lines
                 /\ \A p \in DOMAIN note[n].lines :
                       /\ Unlinked(o)[n].lines[p].item =
                             IF note[n].lines[p].item \in ItemsIn(o) THEN NoItem ELSE note[n].lines[p].item
                       /\ Unlinked(o)[n].lines[p].qty = note[n].lines[p].qty
                       /\ Unlinked(o)[n].lines[p].bad = note[n].lines[p].bad
                       /\ Unlinked(o)[n].lines[p].cost = note[n].lines[p].cost
<1>1. ASSUME NEW n \in Note
      PROVE  /\ Unlinked(o)[n] \in Slip
             /\ Unlinked(o)[n].status = note[n].status
             /\ Unlinked(o)[n].order = note[n].order
             /\ DOMAIN Unlinked(o)[n].lines = DOMAIN note[n].lines
             /\ \A p \in DOMAIN note[n].lines :
                   /\ Unlinked(o)[n].lines[p].item =
                         IF note[n].lines[p].item \in ItemsIn(o) THEN NoItem ELSE note[n].lines[p].item
                   /\ Unlinked(o)[n].lines[p].qty = note[n].lines[p].qty
                   /\ Unlinked(o)[n].lines[p].bad = note[n].lines[p].bad
                   /\ Unlinked(o)[n].lines[p].cost = note[n].lines[p].cost
  <2>1. note[n] \in Slip
    BY DEF Shape
  <2>2. DOMAIN note[n].lines \in SUBSET Product /\ \A p \in DOMAIN note[n].lines : note[n].lines[p] \in Line
    BY <2>1, SlipFields
  <2> DEFINE ls == [p \in DOMAIN note[n].lines |-> Unlink(note[n].lines[p], o)]
  <2>3. ASSUME NEW p \in DOMAIN note[n].lines
        PROVE  /\ ls[p] \in Line /\ ls[p].qty = note[n].lines[p].qty
               /\ ls[p].item = IF note[n].lines[p].item \in ItemsIn(o) THEN NoItem
                               ELSE note[n].lines[p].item
               /\ ls[p].bad = note[n].lines[p].bad /\ ls[p].cost = note[n].lines[p].cost
    BY <2>2, UnlinkedLine
  <2>4. ls \in [DOMAIN note[n].lines -> Line] /\ DOMAIN ls = DOMAIN note[n].lines
    BY <2>3
  <2>5. ls \in PerProduct(Line)
    BY <2>2, <2>4, ToPerProduct
  <2>6. Unlinked(o)[n] = [note[n] EXCEPT !.lines = ls]
    BY DEF Unlinked
  <2> HIDE DEF ls
  <2>7. /\ Unlinked(o)[n] \in Slip /\ Unlinked(o)[n].lines = ls
        /\ Unlinked(o)[n].status = note[n].status /\ Unlinked(o)[n].order = note[n].order
    BY <2>1, <2>5, <2>6 DEF Slip
  <2> QED BY <2>3, <2>4, <2>7
<1>2. DOMAIN Unlinked(o) = Note /\ Unlinked(o) = [n \in Note |-> Unlinked(o)[n]]
  BY DEF Unlinked
<1> QED BY <1>1, <1>2

LEMMA UpdatedRow ==
    ASSUME NEW r \in Row, NEW a, NEW b, NEW c
    PROVE  [r EXCEPT !.items = a, !.received = b, !.total = c] \in
               [status: {r.status}, items: {a}, received: {b}, total: {c}]
  BY DEF Row

(* What a handler writes over an order. *)
LEMMA WrittenRow ==
    ASSUME Locks, NEW h \in Handler, WritePO(h)
    PROVE  /\ handler[h].on \in Order /\ handler[h].op \in OrderOps
           /\ order' \in [Order -> Rows]
           /\ \A o \in Order : o # handler[h].on => order'[o] = order[o]
           /\ handler[h].op # "update" =>
                 /\ order'[handler[h].on] =
                       [order[handler[h].on] EXCEPT !.status = NewStatus(handler[h].op)]
                 /\ note' = note
           /\ handler[h].op = "update" =>
                 /\ order'[handler[h].on].status = order[handler[h].on].status
                 /\ \A p \in DOMAIN order'[handler[h].on].items : order'[handler[h].on].received[p] = 0
                 /\ note' = Unlinked(handler[h].on)
<1> DEFINE o == handler[h].on
           op == handler[h].op
<1>1. op \in OrderOps /\ o \in Order
  BY DEF Locks, Loaded, WritePO, OrderOps
<1>2. order \in [Order -> Rows] /\ order[o] \in Rows /\ handler[h].seen \in Rows /\ Shape
  BY <1>1, WorkFields DEF Locks, Shape
<1>3. CASE op = "update"
  <2>1. PICK t \in Sheet : order' = [order EXCEPT ![o] = Updated(handler[h].seen, order[o], t)]
    BY <1>1, <1>2, <1>3 DEF WritePO
  <2> DEFINE row == Updated(handler[h].seen, order[o], t)
  <2>2. TotalOf(handler[h].seen.items) \in Nat
    BY <1>2, RowFields, TotalIsNat
  <2>3. ItemsOf(t) \in PerProduct(Item) /\ DOMAIN ItemsOf(t) = DOMAIN t
        /\ [p \in DOMAIN t |-> 0] \in PerProduct(Nat)
    BY <1>2, ItemsShape
  <2>4. row \in [status: {order[o].status}, items: {ItemsOf(t)},
                 received: {[p \in DOMAIN t |-> 0]}, total: {TotalOf(handler[h].seen.items)}]
    <3>1. order[o] \in Row
      BY <1>2 DEF Rows
    <3> QED BY <3>1, UpdatedRow DEF Updated
  <2>5. row \in Rows
    BY <1>2, <2>2, <2>3, <2>4, RowFields DEF Rows, Row
  <2>6. row.status = order[o].status /\ \A p \in DOMAIN row.items : row.received[p] = 0
    BY <2>3, <2>4
  <2> HIDE DEF row
  <2>7. order' = [order EXCEPT ![o] = row] /\ note' = Unlinked(o)
    BY <1>3, <2>1 DEF WritePO, row
  <2> QED BY <1>1, <1>2, <1>3, <2>5, <2>6, <2>7
<1>4. CASE op # "update"
  <2>1. order' = [order EXCEPT ![o].status = NewStatus(op)] /\ note' = note
    BY <1>4 DEF WritePO
  <2>2. NewStatus(op) \in Statuses
    BY <1>1, <1>4 DEF NewStatus, OrderOps, Statuses, Open
  <2>3. [order[o] EXCEPT !.status = NewStatus(op)] \in Rows
    BY <1>2, <2>2 DEF Rows, Row
  <2>4. order' = [order EXCEPT ![o] = [order[o] EXCEPT !.status = NewStatus(op)]]
    BY <1>2, <2>1
  <2> QED BY <1>1, <1>2, <1>4, <2>1, <2>3, <2>4
<1> QED BY <1>3, <1>4

LEMMA WritePOKeepsLocks ==
    ASSUME Locks, NEW h \in Handler, WritePO(h) PROVE Locks'
<1>1. handler' = [handler EXCEPT ![h] = Idle]
  BY DEF WritePO
<1>2. /\ handler' \in [Handler -> Work] /\ Apart' /\ Holds(h)' /\ Loaded(h)'
      /\ \A g \in Handler : g # h => handler'[g] = handler[g]
  BY <1>1, GoesIdle
<1>3. Shape
  BY DEF Locks
<1>4. /\ note' \in [Note -> Slip]
      /\ \A n \in Note :
            /\ note'[n].status = note[n].status
            /\ DOMAIN note'[n].lines = DOMAIN note[n].lines
            /\ \A p \in DOMAIN note[n].lines :
                  note'[n].lines[p].qty = note[n].lines[p].qty
                  /\ note'[n].lines[p].bad = note[n].lines[p].bad
  <2>1. note \in [Note -> Slip]
    BY <1>3 DEF Shape
  <2>2. note' = note \/ note' = Unlinked(handler[h].on)
    BY WrittenRow
  <2> QED BY <1>3, <2>1, <2>2, UnlinkedKeeps
<1>5. Shape'
  <2>1. order' \in [Order -> Rows] /\ handler[h].on \in Order
    BY WrittenRow
  <2>2. raced' \subseteq Order /\ strayed' \subseteq Order
    BY <1>3, <2>1 DEF WritePO, Shape
  <2> QED BY <1>2, <1>3, <1>4, <2>1, <2>2 DEF Shape, WritePO
<1>6. Counted'
  BY <1>4 DEF Locks, Counted
<1>7. \A g \in Handler : Holds(g)' /\ Loaded(g)'
  <2> SUFFICES ASSUME NEW g \in Handler, g # h PROVE Holds(g)' /\ Loaded(g)'
    BY <1>2
  <2>1. stock' = stock
    BY DEF WritePO
  <2>2. Posting(g) => handler[g].on \in Note
    BY DEF Locks, Holds
  <2> QED BY <1>2, <1>4, <2>1, <2>2, StillHolds
<1> QED BY <1>2, <1>5, <1>6, <1>7 DEF Locks

(* A new note is a draft, of no order or of one that is approved. *)
LEMMA CreatedNote ==
    ASSUME Locks, NEW n \in Note, CreateGRN(n)
    PROVE  /\ note' \in [Note -> Slip] /\ note[n].status = "none" /\ note'[n].status = "draft"
           /\ \A m \in Note : m # n => note'[m] = note[m]
           /\ \A p \in DOMAIN note'[n].lines : note'[n].lines[p].bad <= note'[n].lines[p].qty
           /\ \A p \in DOMAIN note'[n].lines : LET i == note'[n].lines[p].item IN
                 i # NoItem => i \in Order \X Product /\ i[2] \in DOMAIN order[i[1]].items
           /\ note'[n].order \in Order =>
                 order[note'[n].order].status \in {"approved", "partially_received"}
<1>0. PICK o \in {NoOrder} \cup {x \in Order : order[x].status \in {"approved", "partially_received"}},
           t \in Sheet :
          /\ \A p \in DOMAIN t : t[p].bad <= BaseUnits(t[p])
          /\ \E item \in [DOMAIN t -> Items \cup {NoItem}] :
                /\ \A p \in DOMAIN t : item[p] # NoItem => <<p, item[p][2]>> \in Named
                /\ note' = [note EXCEPT ![n] =
                      [status |-> "draft", order |-> o,
                       lines |-> [p \in DOMAIN t |->
                          [qty |-> BaseUnits(t[p]), bad |-> t[p].bad, damaged |-> t[p].damaged,
                           cost |-> cost[p], item |-> item[p]]]]]
  BY DEF CreateGRN
<1>1. PICK item \in [DOMAIN t -> Items \cup {NoItem}] :
          note' = [note EXCEPT ![n] =
             [status |-> "draft", order |-> o,
              lines |-> [p \in DOMAIN t |->
                 [qty |-> BaseUnits(t[p]), bad |-> t[p].bad, damaged |-> t[p].damaged,
                  cost |-> cost[p], item |-> item[p]]]]]
  BY <1>0
<1> DEFINE ls == [p \in DOMAIN t |->
                     [qty |-> BaseUnits(t[p]), bad |-> t[p].bad, damaged |-> t[p].damaged,
                      cost |-> cost[p], item |-> item[p]]]
           s == [status |-> "draft", order |-> o, lines |-> ls]
<1>2. /\ UNCHANGED <<order, stock, cost, entries, pending, invoice, handler, events,
                     cogs, sold, raced, strayed>>
      /\ note[n].status = "none" /\ Shape /\ Counted
  BY DEF CreateGRN, Locks
<1>3. ASSUME NEW p \in DOMAIN t
      PROVE  /\ ls[p] \in Line /\ ls[p].bad <= ls[p].qty
             /\ ls[p].item # NoItem =>
                   ls[p].item \in Order \X Product /\ ls[p].item[2] \in DOMAIN order[ls[p].item[1]].items
  <2>1. BaseUnits(t[p]) \in Nat /\ t[p].bad \in Nat /\ t[p].damaged \in BOOLEAN /\ cost[p] \in Cost
    BY <1>2, TypedUnits DEF Shape
  <2>0. item[p] = NoItem \/ item[p] \in Items
    <3>1. item \in [DOMAIN t -> Items \cup {NoItem}] /\ p \in DOMAIN t
      OBVIOUS
    <3> HIDE DEF ls
    <3> QED BY <3>1
  <2>2. item[p] # NoItem =>
            item[p] \in Order \X Product /\ item[p][2] \in DOMAIN order[item[p][1]].items
    BY <2>0 DEF Items
  <2>3. ls[p] = [qty |-> BaseUnits(t[p]), bad |-> t[p].bad, damaged |-> t[p].damaged,
                 cost |-> cost[p], item |-> item[p]]
    OBVIOUS
  <2>4. [qty |-> BaseUnits(t[p]), bad |-> t[p].bad, damaged |-> t[p].damaged,
         cost |-> cost[p], item |-> item[p]] \in Line
    BY <2>1, <2>2, Zenon DEF Line
  <2> QED BY <1>0, <2>2, <2>3, <2>4
<1>4. ls \in PerProduct(Line) /\ DOMAIN ls = DOMAIN t
  <2>1. ls \in [DOMAIN t -> Line]
    BY <1>3
  <2> QED BY <2>1, TypedUnits, ToPerProduct
<1> HIDE DEF ls
<1>5. s \in Slip /\ s.status = "draft" /\ s.order = o /\ s.lines = ls
  BY <1>4 DEF Slip
<1>6. note' = [note EXCEPT ![n] = s]
  BY <1>1 DEF ls
<1> HIDE DEF s
<1>7. note \in [Note -> Slip]
  BY <1>2 DEF Shape
<1>8. note' \in [Note -> Slip] /\ note'[n] = s /\ \A m \in Note : m # n => note'[m] = note[m]
  BY <1>5, <1>6, <1>7
<1> QED BY <1>2, <1>3, <1>4, <1>5, <1>8, ProcurementAssumption

LEMMA CreateGRNKeepsLocks ==
    ASSUME Locks, NEW n \in Note, CreateGRN(n) PROVE Locks'
<1>1. /\ UNCHANGED <<order, stock, cost, entries, pending, invoice, handler, events,
                     cogs, sold, raced, strayed>>
      /\ Shape /\ Counted
  BY DEF CreateGRN, Locks
<1>2. /\ note' \in [Note -> Slip] /\ note[n].status = "none"
      /\ \A m \in Note : m # n => note'[m] = note[m]
      /\ \A p \in DOMAIN note'[n].lines : note'[n].lines[p].bad <= note'[n].lines[p].qty
  BY CreatedNote
<1>3. Shape'
  BY <1>1, <1>2 DEF Shape
<1>4. Counted'
  BY <1>1, <1>2 DEF Counted
<1>5. \A g \in Handler : Holds(g)' /\ Loaded(g)'
  <2> SUFFICES ASSUME NEW g \in Handler PROVE Holds(g)' /\ Loaded(g)'
    OBVIOUS
  <2>1. Posting(g) => handler[g].on # n
    BY <1>2 DEF Locks, Holds
  <2>2. Posting(g) => note'[handler[g].on] = note[handler[g].on]
    BY <1>2, <2>1 DEF Locks, Holds
  <2>3. handler'[g] = handler[g] /\ stock' = stock
    BY <1>1
  <2> QED BY <2>2, <2>3, StillHolds
<1>6. Apart'
  BY <1>1 DEF Locks, Apart, Posting
<1> QED BY <1>3, <1>4, <1>5, <1>6 DEF Locks

LEMMA CancelGRNKeepsLocks ==
    ASSUME Locks, NEW n \in Note, CancelGRN(n) PROVE Locks'
<1>1. /\ note' = [note EXCEPT ![n].status = "cancelled"] /\ NoteFree(n)
      /\ UNCHANGED <<order, stock, cost, entries, pending, invoice, handler, events,
                     cogs, sold, raced, strayed>>
      /\ note \in [Note -> Slip]
  BY DEF CancelGRN, Locks, Shape
<1>2. /\ note'[n].lines = note[n].lines /\ note'[n].order = note[n].order /\ note'[n] \in Slip
      /\ \A m \in Note : m # n => note'[m] = note[m]
  BY <1>1 DEF Slip
<1>3. Shape'
  BY <1>1, <1>2 DEF Locks, Shape
<1>4. Counted'
  BY <1>1, <1>2 DEF Locks, Counted
<1>5. \A g \in Handler : Holds(g)' /\ Loaded(g)'
  <2> SUFFICES ASSUME NEW g \in Handler PROVE Holds(g)' /\ Loaded(g)'
    OBVIOUS
  <2>1. Posting(g) => handler[g].on # n
    BY <1>1 DEF NoteFree, Posting
  <2>2. Posting(g) => note'[handler[g].on] = note[handler[g].on]
    BY <1>2, <2>1 DEF Locks, Holds
  <2>3. handler'[g] = handler[g] /\ stock' = stock
    BY <1>1
  <2> QED BY <2>2, <2>3, StillHolds
<1>6. Apart'
  BY <1>1 DEF Locks, Apart, Posting
<1> QED BY <1>3, <1>4, <1>5, <1>6 DEF Locks

LEMMA PostBeginKeepsLocks ==
    ASSUME Locks, NEW h \in Handler, NEW n \in Note, PostBegin(h, n) PROVE Locks'
<1> DEFINE w == [Idle EXCEPT !.op = "post", !.on = n, !.seen = NewOrder]
<1>1. /\ handler[h] = Idle /\ handler' = [handler EXCEPT ![h] = w]
      /\ note[n].status = "draft" /\ NoteFree(n)
      /\ UNCHANGED <<order, note, stock, cost, entries, pending, invoice, events,
                     cogs, sold, raced, strayed>>
      /\ handler \in [Handler -> Work]
  BY DEF PostBegin, Start, Locks, Shape
<1>2. w \in [op: {"post"}, on: {n}, seen: {NewOrder}, read: {NoItems}]
  BY StartedWork
<1>3. w.op = "post" /\ w.on = n /\ w.read = NoItems
  BY <1>2
<1>4. w \in Work
  BY <1>2, NoItemsShape, EmptyShapes DEF Work
<1> HIDE DEF w
<1>5. handler'[h] = w /\ (\A g \in Handler : g # h => handler'[g] = handler[g])
      /\ handler' \in [Handler -> Work]
  BY <1>1, <1>4
<1>6. Shape' /\ Counted'
  BY <1>1, <1>5 DEF Locks, Shape, Counted
<1>7. Holds(h)' /\ Loaded(h)'
  BY <1>1, <1>3, <1>5, NoItemsShape DEF Holds, Loaded, Posting, OrderOps
<1>8. \A g \in Handler : Holds(g)' /\ Loaded(g)'
  <2> SUFFICES ASSUME NEW g \in Handler, g # h PROVE Holds(g)' /\ Loaded(g)'
    BY <1>7
  <2> QED BY <1>1, <1>5, StillHolds
<1>9. Apart'
  <2>1. \A g \in Handler : Posting(g) => handler[g].on # n
    BY <1>1 DEF NoteFree, Posting
  <2> QED BY <1>3, <1>5, <2>1, NoItemsShape DEF Locks, Apart, Posting
<1> QED BY <1>6, <1>8, <1>9 DEF Locks

LEMMA PostLineKeepsLocks ==
    ASSUME Locks, NEW h \in Handler, NEW p \in Product, PostLine(h, p) PROVE Locks'
<1> DEFINE read == [q \in DOMAIN handler[h].read \cup {p} |->
                       IF q = p THEN stock[p] ELSE handler[h].read[q]]
           w == [handler[h] EXCEPT !.read = read]
<1>1. /\ Posting(h) /\ p \in DOMAIN note[handler[h].on].lines \ DOMAIN handler[h].read
      /\ ProductFree(p)
      /\ UNCHANGED <<order, note, stock, cost, entries, pending, invoice, events,
                     cogs, sold, raced, strayed>>
      /\ handler \in [Handler -> Work] /\ handler[h] \in Work /\ Shape /\ Holds(h)
  BY DEF PostLine, Posting, Locks, Shape
<1>2. handler' = [handler EXCEPT ![h] = w]
  BY <1>1 DEF PostLine
<1>3. read \in PerProduct(Nat) /\ DOMAIN read = DOMAIN handler[h].read \cup {p}
      /\ \A q \in DOMAIN read : read[q] = stock[q]
  <2>1. DOMAIN handler[h].read \in SUBSET Product /\ \A q \in DOMAIN handler[h].read : handler[h].read[q] \in Nat
    BY <1>1, WorkFields
  <2>2. read \in [DOMAIN handler[h].read \cup {p} -> Nat]
    BY <1>1, <2>1 DEF Shape
  <2>3. read \in PerProduct(Nat)
    BY <2>1, <2>2, ToPerProduct
  <2> QED BY <1>1, <2>1, <2>3 DEF Holds
<1> HIDE DEF read
<1>4. w \in Work /\ w.op = handler[h].op /\ w.on = handler[h].on /\ w.read = read
  BY <1>1, <1>3 DEF Work
<1> HIDE DEF w
<1>5. handler'[h] = w /\ (\A g \in Handler : g # h => handler'[g] = handler[g])
      /\ handler' \in [Handler -> Work]
  BY <1>1, <1>2, <1>4
<1>6. Shape' /\ Counted'
  BY <1>1, <1>5 DEF Locks, Shape, Counted
<1>7. Holds(h)' /\ Loaded(h)'
  BY <1>1, <1>3, <1>4, <1>5 DEF Holds, Loaded, Posting, OrderOps
<1>8. \A g \in Handler : Holds(g)' /\ Loaded(g)'
  <2> SUFFICES ASSUME NEW g \in Handler, g # h PROVE Holds(g)' /\ Loaded(g)'
    BY <1>7
  <2> QED BY <1>1, <1>5, StillHolds
<1>9. Apart'
  BY <1>1, <1>3, <1>4, <1>5 DEF Locks, Apart, Posting, ProductFree
<1> QED BY <1>6, <1>8, <1>9 DEF Locks

(* What some lines bring for an item. *)
LEMMA BroughtByIsNat ==
    ASSUME NEW lines \in PerProduct(Line), NEW i
    PROVE  /\ BroughtBy(lines, i) \in Nat
           /\ (\A p \in DOMAIN lines : lines[p].item # i) => BroughtBy(lines, i) = 0
<1> DEFINE f == [p \in Naming(lines, i) |-> lines[p].qty]
<1>1. Naming(lines, i) \in SUBSET Product /\ \A p \in Naming(lines, i) : f[p] \in Nat
  BY FromPerProduct, Numbers DEF Naming
<1>2. BroughtBy(lines, i) = SumFunctionOnSet(f, Naming(lines, i)) /\ IsFiniteSet(Naming(lines, i))
  BY <1>1, ProductsFinite DEF BroughtBy, SumFunction
<1>3. (\A p \in DOMAIN lines : lines[p].item # i) => Naming(lines, i) = {}
  BY DEF Naming
<1> HIDE DEF f
<1> QED BY <1>1, <1>2, <1>3, SumNat, SumOfNone

(* Receiving keeps the items of an order and adds to what they have received. *)
LEMMA ReceivedRow ==
    ASSUME Shape, NEW o \in Order, NEW lines \in PerProduct(Line)
    PROVE  LET row == order[o]
               got == Receive(o, lines)
               new == Recomputed(got) IN
           /\ got \in Rows /\ got.items = row.items /\ got.status = row.status
           /\ new \in Rows /\ new.items = row.items
           /\ \A p \in DOMAIN row.items :
                 /\ got.received[p] = row.received[p] + BroughtBy(lines, <<o, p>>)
                 /\ new.received[p] = row.received[p] + BroughtBy(lines, <<o, p>>)
           /\ (\A p \in DOMAIN row.items : BroughtBy(lines, <<o, p>>) = 0) => got = row
           /\ row.status = "cancelled" => new.status = "cancelled"
           /\ row.status # "cancelled" =>
                 new.status = IF Fully(new) THEN "fully_received"
                              ELSE IF \E p \in DOMAIN new.items : new.received[p] > 0
                              THEN "partially_received"
                              ELSE IF row.status = "partially_received" THEN "approved"
                              ELSE row.status
<1> DEFINE row == order[o]
           rec == [p \in DOMAIN row.received |-> row.received[p] + BroughtBy(lines, <<o, p>>)]
           got == [row EXCEPT !.received = rec]
<1>1. Receive(o, lines) = got
  BY DEF Receive
<1>2. /\ row \in Rows /\ row.received \in PerProduct(Nat)
      /\ \A p \in DOMAIN row.items : row.received[p] \in Nat
      /\ DOMAIN row.received = DOMAIN row.items /\ DOMAIN row.items \in SUBSET Product
  BY RowFields DEF Shape
<1>3. \A p : BroughtBy(lines, <<o, p>>) \in Nat
  BY BroughtByIsNat
<1>4. rec \in PerProduct(Nat) /\ DOMAIN rec = DOMAIN row.items
  <2>1. rec \in [DOMAIN row.items -> Nat]
    BY <1>2, <1>3
  <2> QED BY <1>2, <2>1, ToPerProduct
<1>5. \A p \in DOMAIN row.items : rec[p] = row.received[p] + BroughtBy(lines, <<o, p>>)
  BY <1>2
<1>0. (\A p \in DOMAIN row.items : BroughtBy(lines, <<o, p>>) = 0) => rec = row.received
  <2> SUFFICES ASSUME \A p \in DOMAIN row.items : BroughtBy(lines, <<o, p>>) = 0
               PROVE  rec = row.received
    OBVIOUS
  <2>1. \A p \in DOMAIN row.items : rec[p] = row.received[p]
    BY <1>2
  <2>2. row.received = [p \in DOMAIN row.received |-> row.received[p]]
    BY <1>2, FromPerProduct
  <2> HIDE DEF row
  <2>3. rec = [p \in DOMAIN row.received |-> row.received[p]]
    BY <1>2, <2>1
  <2> QED BY <2>2, <2>3
<1> HIDE DEF rec
<1>6. /\ got \in Rows /\ got.items = row.items /\ got.received = rec
      /\ got.status = row.status
      /\ rec = row.received => got = row
  BY <1>2, <1>4 DEF Rows, Row
<1> HIDE DEF got
<1>7. ASSUME NEW s \in {"fully_received", "partially_received", "approved"}
      PROVE  LET x == [got EXCEPT !.status = s] IN
             x \in Rows /\ x.items = got.items /\ x.received = got.received /\ x.status = s
  <2>1. s \in Statuses
    BY DEF Statuses, Open
  <2> QED BY <1>6, <2>1 DEF Rows, Row
<1> DEFINE new == Recomputed(got)
<1>8. new \in Rows /\ new.items = got.items /\ new.received = got.received
  BY <1>6, <1>7 DEF Recomputed
<1>9. Fully(new) = Fully(got)
  BY <1>8 DEF Fully
<1>10. got.status = "cancelled" => new.status = "cancelled"
  BY DEF Recomputed
<1>11. got.status # "cancelled" =>
           new.status = IF Fully(got) THEN "fully_received"
                        ELSE IF \E p \in DOMAIN got.items : got.received[p] > 0
                        THEN "partially_received"
                        ELSE IF got.status = "partially_received" THEN "approved"
                        ELSE got.status
  BY <1>7 DEF Recomputed
<1> HIDE DEF new
<1> QED BY <1>0, <1>1, <1>5, <1>6, <1>8, <1>9, <1>10, <1>11 DEF new

(* A posting that commits has locked and read all there is to change. *)
LEMMA Committed ==
    ASSUME Locks, NEW h \in Handler, PostCommit(h)
    PROVE  LET n == handler[h].on
               lines == note[n].lines IN
           /\ n \in Note /\ note[n].status = "draft" /\ note[n] \in Slip
           /\ DOMAIN handler[h].read = DOMAIN lines
           /\ \A p \in DOMAIN lines : Accepted(lines[p]) \in Nat
           /\ stock' \in [Product -> Nat]
           /\ \A p \in Product :
                 stock'[p] = IF p \in DOMAIN lines THEN stock[p] + Accepted(lines[p]) ELSE stock[p]
           /\ cost' \in [Product -> Cost]
           /\ note' \in [Note -> Slip]
           /\ note'[n].status = "posted" /\ note'[n].order = note[n].order /\ note'[n].lines = lines
           /\ \A m \in Note : m # n => note'[m] = note[m]
           /\ EntryValue(lines) \in Nat
<1> DEFINE n == handler[h].on
           lines == note[n].lines
           read == handler[h].read
<1>1. Shape /\ Holds(h) /\ Counted /\ Posting(h)
  BY DEF Locks, PostCommit, Posting
<1>2. n \in Note /\ note[n].status = "draft" /\ \A p \in DOMAIN read : read[p] = stock[p]
  BY <1>1 DEF Holds
<1>3. DOMAIN read = DOMAIN lines
  BY DEF PostCommit
<1>4. note \in [Note -> Slip] /\ note[n] \in Slip
  BY <1>1, <1>2 DEF Shape
<1>5. /\ lines \in PerProduct(Line) /\ DOMAIN lines \in SUBSET Product
      /\ \A p \in DOMAIN lines : lines[p] \in Line
  BY <1>4, SlipFields
<1>6. \A p \in DOMAIN lines : lines[p].bad <= lines[p].qty
  BY <1>1, <1>2 DEF Counted
<1>7. \A p \in DOMAIN lines : Accepted(lines[p]) \in Nat
  BY <1>5, <1>6, Numbers DEF Accepted
<1>8. stock' = [p \in Product |-> IF p \in DOMAIN lines THEN read[p] + Accepted(lines[p]) ELSE stock[p]]
  BY DEF PostCommit
<1>9. \A p \in Product : stock'[p] = IF p \in DOMAIN lines THEN stock[p] + Accepted(lines[p]) ELSE stock[p]
  BY <1>2, <1>3, <1>8
<1>10. stock' \in [Product -> Nat]
  <2>1. \A p \in Product : stock[p] \in Nat
    BY <1>1 DEF Shape
  <2>2. \A p \in Product : stock'[p] \in Nat
    BY <1>7, <1>9, <2>1
  <2> QED BY <1>8, <2>2
<1>11. cost' \in [Product -> Cost]
  <2>1. \A p \in DOMAIN lines : lines[p].cost \in Cost
    BY <1>5, Numbers
  <2> QED BY <1>1, <2>1 DEF Shape, PostCommit
<1>12. note' = [note EXCEPT ![n].status = "posted"]
  BY DEF PostCommit
<1>13. /\ note' \in [Note -> Slip]
       /\ note'[n].status = "posted" /\ note'[n].order = note[n].order /\ note'[n].lines = lines
       /\ \A m \in Note : m # n => note'[m] = note[m]
  BY <1>2, <1>4, <1>12 DEF Slip
<1>14. EntryValue(lines) \in Nat
  BY <1>5, <1>6, EntryValueIsNat
<1> QED BY <1>2, <1>3, <1>4, <1>7, <1>9, <1>10, <1>11, <1>13, <1>14

LEMMA PostCommitKeepsLocks ==
    ASSUME Locks, NEW h \in Handler, PostCommit(h) PROVE Locks'
<1> DEFINE n == handler[h].on
           lines == note[n].lines
<1>1. Shape /\ handler' = [handler EXCEPT ![h] = Idle]
  BY DEF Locks, PostCommit
<1>2. /\ n \in Note /\ note[n].status = "draft" /\ note[n] \in Slip
      /\ DOMAIN handler[h].read = DOMAIN lines
      /\ stock' \in [Product -> Nat] /\ cost' \in [Product -> Cost]
      /\ \A p \in Product : p \notin DOMAIN lines => stock'[p] = stock[p]
      /\ note' \in [Note -> Slip] /\ note'[n].lines = lines
      /\ \A m \in Note : m # n => note'[m] = note[m]
      /\ EntryValue(lines) \in Nat
  BY Committed
<1>3. /\ handler' \in [Handler -> Work] /\ Apart' /\ Holds(h)' /\ Loaded(h)'
      /\ \A g \in Handler : g # h => handler'[g] = handler[g]
  BY <1>1, GoesIdle
<1>4. order' \in [Order -> Rows]
  <2>1. lines \in PerProduct(Line)
    BY <1>2, SlipFields
  <2>2. \A o \in Order : Receive(o, lines) \in Rows /\ Recomputed(Receive(o, lines)) \in Rows
    BY <1>1, <2>1, ReceivedRow
  <2> QED BY <2>2 DEF PostCommit
<1>5. /\ entries' \in [DOMAIN entries' -> Nat \ {0}] /\ DOMAIN entries' \subseteq Note
      /\ pending' \subseteq Note
  <2>1. PostEntry(n, EntryValue(lines))
    BY DEF PostCommit
  <2>2. entries \in [DOMAIN entries -> Nat \ {0}] /\ DOMAIN entries \subseteq Note /\ pending \subseteq Note
    BY <1>1 DEF Shape
  <2> QED BY <1>2, <2>1, <2>2 DEF PostEntry
<1>6. Shape'
  BY <1>1, <1>2, <1>3, <1>4, <1>5 DEF Shape, PostCommit
<1>7. Counted'
  BY <1>2 DEF Locks, Counted
<1>8. \A g \in Handler : Holds(g)' /\ Loaded(g)'
  <2> SUFFICES ASSUME NEW g \in Handler, g # h PROVE Holds(g)' /\ Loaded(g)'
    BY <1>3
  <2>1. handler[g] \in Work /\ Posting(h)
    BY <1>1 DEF Shape, PostCommit, Posting
  <2>2. Posting(g) => handler[g].on # n
    BY <2>1 DEF Locks, Apart
  <2>3. Posting(g) => note'[handler[g].on] = note[handler[g].on]
    BY <1>2, <2>2 DEF Locks, Holds
  <2>4. DOMAIN handler[g].read \in SUBSET Product
    BY <2>1, WorkFields
  <2>5. DOMAIN handler[g].read \cap DOMAIN lines = {}
    BY <1>2 DEF Locks, Apart
  <2>6. \A p \in DOMAIN handler[g].read : stock'[p] = stock[p]
    BY <1>2, <2>4, <2>5
  <2> QED BY <1>3, <2>3, <2>6, StillHolds
<1> QED BY <1>3, <1>6, <1>7, <1>8 DEF Locks

LEMMA RollbackKeepsLocks ==
    ASSUME Locks, NEW h \in Handler, Rollback(h) PROVE Locks'
<1>1. /\ handler' = [handler EXCEPT ![h] = Idle]
      /\ UNCHANGED <<order, note, stock, cost, entries, pending, invoice, events, cogs, sold, raced, strayed>>
  BY DEF Rollback
<1>2. /\ handler' \in [Handler -> Work] /\ Apart' /\ Holds(h)' /\ Loaded(h)'
      /\ \A g \in Handler : g # h => handler'[g] = handler[g]
  BY <1>1, GoesIdle
<1>4. Shape' /\ Counted'
  BY <1>1, <1>2 DEF Locks, Shape, Counted
<1>5. \A g \in Handler : Holds(g)' /\ Loaded(g)'
  <2> SUFFICES ASSUME NEW g \in Handler, g # h PROVE Holds(g)' /\ Loaded(g)'
    BY <1>2
  <2> QED BY <1>1, <1>2, StillHolds
<1> QED BY <1>2, <1>4, <1>5 DEF Locks

(* Sales and edits of the price wait for a posting that has read the product. *)
LEMMA AroundKeepsLocks ==
    ASSUME Locks,
           \/ \E p \in Product : Sell(p) \/ \E c \in Cost : EditCost(p, c)
           \/ \E i \in Invoice :
                 CreateInvoiceMatch(i) \/ \E s \in {"matched", "disputed"} : ResolveInvoiceMatch(i, s)
    PROVE  Locks'
<1>1. /\ Event \/ events' = events
      /\ UNCHANGED <<order, note, entries, pending, handler, raced, strayed>>
  BY DEF Sell, EditCost, CreateInvoiceMatch, ResolveInvoiceMatch
<1>2. Shape
  BY DEF Locks
<1>3. events' \in 0 .. MaxEvents
  BY <1>1, <1>2, ProcurementAssumption DEF Shape, Event
<1> DEFINE Invoices == [status: {"none", "unmatched", "partial", "matched", "disputed"},
                        order: Order \cup {NoOrder}, note: Note \cup {NoNote}]
<1> DEFINE Kept ==
             /\ stock' \in [Product -> Nat] /\ sold' \in [Product -> Nat] /\ cogs' \in Nat
             /\ cost' \in [Product -> Cost] /\ invoice' \in [Invoice -> Invoices]
             /\ \A g \in Handler : \A p \in DOMAIN handler[g].read : stock'[p] = stock[p]
<1>4. Kept
  <2>1. ASSUME NEW p \in Product, Sell(p) PROVE Kept
    <3>1. /\ stock[p] > 0 /\ ProductFree(p) /\ stock' = [stock EXCEPT ![p] = stock[p] - 1]
          /\ sold' = [sold EXCEPT ![p] = sold[p] + 1] /\ cogs' = cogs + cost[p]
          /\ UNCHANGED <<cost, invoice>>
      BY <1>2, <2>1 DEF Sell, Shape
    <3>2. \A q \in Product : stock[q] \in Nat /\ sold[q] \in Nat /\ cost[q] \in Cost /\ cost[q] \in Nat
      BY <1>2, Numbers DEF Shape
    <3>3. stock' \in [Product -> Nat] /\ sold' \in [Product -> Nat] /\ cogs' \in Nat
      BY <1>2, <3>1, <3>2 DEF Shape
    <3>4. \A g \in Handler : \A q \in DOMAIN handler[g].read : stock'[q] = stock[q]
      <4> SUFFICES ASSUME NEW g \in Handler, NEW q \in DOMAIN handler[g].read PROVE stock'[q] = stock[q]
        OBVIOUS
      <4>1. handler[g] \in Work
        BY <1>2 DEF Shape
      <4>2. q \in Product /\ q # p
        BY <3>1, <4>1, WorkFields DEF ProductFree
      <4> QED BY <1>2, <3>1, <4>2 DEF Shape
    <3> QED BY <1>2, <3>1, <3>3, <3>4 DEF Shape
  <2>2. ASSUME NEW p \in Product, NEW c \in Cost, EditCost(p, c) PROVE Kept
    BY <1>2, <2>2 DEF EditCost, Shape
  <2>3. ASSUME NEW i \in Invoice, CreateInvoiceMatch(i) PROVE Kept
    <3>1. UNCHANGED <<stock, sold, cogs, cost>>
      BY <2>3 DEF CreateInvoiceMatch
    <3>2. PICK o \in {NoOrder} \cup {x \in Order : order[x].status # "none"},
               n \in {NoNote} \cup {x \in Note : note[x].status = "posted"},
               s \in {"matched", "partial", "unmatched"} :
              invoice' = [invoice EXCEPT ![i] = [order |-> o, note |-> n, status |-> s]]
      BY <2>3 DEF CreateInvoiceMatch
    <3>3. [order |-> o, note |-> n, status |-> s] \in Invoices
      OBVIOUS
    <3>4. invoice' \in [Invoice -> Invoices]
      BY <1>2, <3>2, <3>3 DEF Shape
    <3> QED BY <1>2, <3>1, <3>4 DEF Shape
  <2>4. ASSUME NEW i \in Invoice, NEW s \in {"matched", "disputed"}, ResolveInvoiceMatch(i, s) PROVE Kept
    BY <1>2, <2>4 DEF ResolveInvoiceMatch, Shape
  <2> HIDE DEF Kept
  <2> QED BY <2>1, <2>2, <2>3, <2>4
<1>5. Shape'
  BY <1>1, <1>2, <1>3, <1>4 DEF Shape
<1>6. Counted' /\ Apart'
  BY <1>1 DEF Locks, Counted, Apart, Posting
<1>7. \A g \in Handler : Holds(g)' /\ Loaded(g)'
  <2> SUFFICES ASSUME NEW g \in Handler PROVE Holds(g)' /\ Loaded(g)'
    OBVIOUS
  <2> QED BY <1>1, <1>4, StillHolds
<1> QED BY <1>5, <1>6, <1>7 DEF Locks

LEMMA StutterKeepsLocks == ASSUME Locks, UNCHANGED vars PROVE Locks'
  BY DEF Locks, vars, Shape, Holds, Loaded, Posting, Apart, Counted

LEMMA LocksKept == Locks /\ [Next]_vars => Locks'
<1> SUFFICES ASSUME Locks, [Next]_vars PROVE Locks'
  OBVIOUS
<1>1. ASSUME NEW o \in Order, CreatePO(o) PROVE Locks'
  BY <1>1, CreatePOKeepsLocks
<1>2. ASSUME NEW n \in Note, CreateGRN(n) \/ CancelGRN(n) PROVE Locks'
  BY <1>2, CreateGRNKeepsLocks, CancelGRNKeepsLocks
<1>3. ASSUME NEW h \in Handler, NEW o \in Order, NEW op \in OrderOps, LoadPO(h, op, o) PROVE Locks'
  BY <1>3, LoadPOKeepsLocks
<1>4. ASSUME NEW h \in Handler, WritePO(h) PROVE Locks'
  BY <1>4, WritePOKeepsLocks
<1>5. ASSUME NEW h \in Handler, NEW n \in Note, PostBegin(h, n) PROVE Locks'
  BY <1>5, PostBeginKeepsLocks
<1>6. ASSUME NEW h \in Handler, NEW p \in Product, PostLine(h, p) PROVE Locks'
  BY <1>6, PostLineKeepsLocks
<1>7. ASSUME NEW h \in Handler, PostCommit(h) PROVE Locks'
  BY <1>7, PostCommitKeepsLocks
<1>8. ASSUME NEW h \in Handler, Rollback(h) PROVE Locks'
  BY <1>8, RollbackKeepsLocks
<1>9. CASE \/ \E p \in Product : Sell(p) \/ \E c \in Cost : EditCost(p, c)
           \/ \E i \in Invoice :
                 CreateInvoiceMatch(i) \/ \E s \in {"matched", "disputed"} : ResolveInvoiceMatch(i, s)
  BY <1>9, AroundKeepsLocks
<1>10. CASE UNCHANGED vars
  BY <1>10, StutterKeepsLocks
<1> QED
  BY <1>1, <1>2, <1>3, <1>4, <1>5, <1>6, <1>7, <1>8, <1>9, <1>10 DEF Next, OrderOps

(* The type invariant: what the tables and the handlers can hold             *)
(* (models/procurement.py).                                                  *)
THEOREM TypesCorrect == Spec => []TypeOK
<1>1. Locks => TypeOK
  BY ShapeIsTyped DEF Locks
<1> QED BY <1>1, InitLocks, LocksKept, PTL DEF Spec

-----------------------------------------------------------------------------
(* The posted notes are what they were: which they are, and what they say. *)
SameDeliveries ==
    \A n \in Note :
        /\ note'[n].status = "posted" <=> note[n].status = "posted"
        /\ note[n].status = "posted" =>
              /\ DOMAIN note'[n].lines = DOMAIN note[n].lines
              /\ \A p \in DOMAIN note[n].lines :
                    /\ note'[n].lines[p].qty = note[n].lines[p].qty
                    /\ note'[n].lines[p].bad = note[n].lines[p].bad
                    /\ note'[n].lines[p].cost = note[n].lines[p].cost

(* A step commits a posting, or leaves the posted notes and the books as they are. *)
LEMMA StepKinds ==
    ASSUME Locks, [Next]_vars
    PROVE  \/ \E h \in Handler : PostCommit(h)
           \/ /\ SameDeliveries /\ UNCHANGED <<entries, pending>>
              /\ \/ \E p \in Product : Sell(p)
                 \/ /\ UNCHANGED <<stock, sold, cogs>>
                    /\ cost' = cost \/ \E p \in Product, c \in Cost : EditCost(p, c)
<1> DEFINE Other == /\ SameDeliveries /\ UNCHANGED <<entries, pending>>
                    /\ \/ \E p \in Product : Sell(p)
                       \/ /\ UNCHANGED <<stock, sold, cogs>>
                          /\ cost' = cost \/ \E p \in Product, c \in Cost : EditCost(p, c)
<1>0. ASSUME note' = note PROVE SameDeliveries
  BY <1>0 DEF SameDeliveries
<1>1. ASSUME NEW o \in Order, CreatePO(o) PROVE Other
  BY <1>0, <1>1 DEF CreatePO
<1>2. ASSUME NEW n \in Note, CreateGRN(n) PROVE Other
  <2>1. SameDeliveries
    BY <1>2, CreatedNote DEF SameDeliveries
  <2> QED BY <1>2, <2>1 DEF CreateGRN
<1>3. ASSUME NEW n \in Note, CancelGRN(n) PROVE Other
  <2>1. note \in [Note -> Slip]
    BY DEF Locks, Shape
  <2>2. /\ note' = [note EXCEPT ![n].status = "cancelled"] /\ note[n].status = "draft"
        /\ UNCHANGED <<stock, cost, entries, pending, cogs, sold>>
    BY <1>3 DEF CancelGRN, Cancellable
  <2>3. note'[n].status = "cancelled" /\ \A m \in Note : m # n => note'[m] = note[m]
    BY <2>1, <2>2 DEF Slip
  <2>4. SameDeliveries
    BY <2>2, <2>3 DEF SameDeliveries
  <2> QED BY <2>2, <2>4
<1>4. ASSUME NEW h \in Handler, NEW o \in Order, NEW op \in OrderOps, LoadPO(h, op, o) PROVE Other
  BY <1>0, <1>4 DEF LoadPO
<1>5. ASSUME NEW h \in Handler, WritePO(h) PROVE Other
  <2>1. note' = note \/ note' = Unlinked(handler[h].on)
    BY <1>5, WrittenRow
  <2>2. SameDeliveries
    BY <1>0, <2>1, UnlinkedKeeps DEF Locks, SameDeliveries
  <2> QED BY <1>5, <2>2 DEF WritePO
<1>6. ASSUME NEW h \in Handler, NEW n \in Note, PostBegin(h, n) PROVE Other
  BY <1>0, <1>6 DEF PostBegin
<1>7. ASSUME NEW h \in Handler, NEW p \in Product, PostLine(h, p) PROVE Other
  BY <1>0, <1>7 DEF PostLine
<1>8. ASSUME NEW h \in Handler, Rollback(h) PROVE Other
  BY <1>0, <1>8 DEF Rollback
<1>9. ASSUME NEW p \in Product, Sell(p) PROVE Other
  BY <1>0, <1>9 DEF Sell
<1>10. ASSUME NEW p \in Product, NEW c \in Cost, EditCost(p, c) PROVE Other
  BY <1>0, <1>10 DEF EditCost
<1>11. ASSUME NEW i \in Invoice,
              CreateInvoiceMatch(i) \/ \E s \in {"matched", "disputed"} : ResolveInvoiceMatch(i, s)
       PROVE  Other
  BY <1>0, <1>11 DEF CreateInvoiceMatch, ResolveInvoiceMatch
<1>12. ASSUME UNCHANGED vars PROVE Other
  BY <1>0, <1>12 DEF vars
<1> HIDE DEF Other
<1>13. Other \/ \E h \in Handler : PostCommit(h)
  BY <1>1, <1>2, <1>3, <1>4, <1>5, <1>6, <1>7, <1>8, <1>9, <1>10, <1>11, <1>12 DEF Next, OrderOps
<1> QED BY <1>13 DEF Other

(* Deliveries of a product, as a sum over some notes of a table of notes. *)
Delivered(p, table, S) ==
    SumFunctionOnSet([n \in S |-> table[n].lines[p].qty - table[n].lines[p].bad], S)

LEMMA StockSums ==
    StockMatchesNotes <=>
        \A p \in Product : stock[p] + sold[p] = Delivered(p, note, LinesOf(p, Posted))
<1>1. \A p \in Product :
          SumFunction([n \in LinesOf(p, Posted) |-> note[n].lines[p].qty - note[n].lines[p].bad])
              = Delivered(p, note, LinesOf(p, Posted))
  BY DEF SumFunction, Delivered
<1> QED BY <1>1, Zenon DEF StockMatchesNotes

LEMMA LinesAreNumbers ==
    ASSUME Shape, NEW n \in Note
    PROVE  /\ DOMAIN note[n].lines \in SUBSET Product
           /\ \A p \in DOMAIN note[n].lines :
                 /\ note[n].lines[p].qty \in Nat /\ note[n].lines[p].bad \in Nat
                 /\ note[n].lines[p].cost \in Cost /\ note[n].lines[p].cost \in Nat
<1>1. note[n] \in Slip
  BY DEF Shape
<1> QED BY <1>1, SlipFields, Numbers

LEMMA NotesFinite ==
    ASSUME NEW S \in SUBSET Note PROVE IsFiniteSet(S)
  BY ProcurementAssumption, FS_Subset

LEMMA DeliveredSame ==
    ASSUME Shape, SameDeliveries, NEW p \in Product
    PROVE  Delivered(p, note', LinesOf(p, Posted)') = Delivered(p, note, LinesOf(p, Posted))
<1> DEFINE S == LinesOf(p, Posted)
           f == [n \in S |-> note[n].lines[p].qty - note[n].lines[p].bad]
           g == [n \in S |-> note'[n].lines[p].qty - note'[n].lines[p].bad]
<1>1. LinesOf(p, Posted)' = S /\ S \in SUBSET Note
  BY DEF SameDeliveries, LinesOf, Posted
<1>2. \A n \in S : f[n] = g[n]
  BY DEF SameDeliveries, LinesOf, Posted
<1>3. IsFiniteSet(S)
  BY <1>1, NotesFinite
<1>4. /\ Delivered(p, note, LinesOf(p, Posted)) = SumFunctionOnSet(f, S)
      /\ Delivered(p, note', LinesOf(p, Posted)') = SumFunctionOnSet(g, S)
  BY <1>1 DEF Delivered
<1> HIDE DEF S, f, g
<1> QED BY <1>2, <1>3, <1>4, SumSame

LEMMA InitStock == Init => StockMatchesNotes
<1> SUFFICES ASSUME Init PROVE StockMatchesNotes
  OBVIOUS
<1>1. Posted = {}
  BY DEF Init, Posted, NewNote
<1>2. ASSUME NEW p \in Product PROVE stock[p] + sold[p] = Delivered(p, note, LinesOf(p, Posted))
  <2> DEFINE f == [n \in LinesOf(p, Posted) |-> note[n].lines[p].qty - note[n].lines[p].bad]
  <2>1. LinesOf(p, Posted) = {}
    BY <1>1 DEF LinesOf
  <2>2. Delivered(p, note, LinesOf(p, Posted)) = SumFunctionOnSet(f, {})
    BY <2>1 DEF Delivered
  <2> HIDE DEF f
  <2>3. SumFunctionOnSet(f, {}) = 0
    BY SumOfNone
  <2>4. stock[p] = 0 /\ sold[p] = 0
    BY DEF Init
  <2> QED BY <2>2, <2>3, <2>4
<1> QED BY <1>2, StockSums

LEMMA PostingDelivers ==
    ASSUME Locks, NEW h \in Handler, PostCommit(h), NEW p \in Product
    PROVE  LET lines == note[handler[h].on].lines IN
           /\ Delivered(p, note, LinesOf(p, Posted)) \in Int
           /\ Delivered(p, note', LinesOf(p, Posted)') =
                  Delivered(p, note, LinesOf(p, Posted))
                      + (IF p \in DOMAIN lines THEN Accepted(lines[p]) ELSE 0)
<1> DEFINE n == handler[h].on
           lines == note[n].lines
           S == LinesOf(p, Posted)
           f == [m \in S |-> note[m].lines[p].qty - note[m].lines[p].bad]
<1>1. /\ n \in Note /\ note[n].status = "draft"
      /\ \A q \in DOMAIN lines : Accepted(lines[q]) \in Nat
      /\ note'[n].status = "posted" /\ note'[n].lines = lines
      /\ \A m \in Note : m # n => note'[m] = note[m]
  BY Committed
<1>2. S \in SUBSET Note /\ n \notin S /\ \A m \in S : note'[m] = note[m] /\ p \in DOMAIN note[m].lines
  BY <1>1 DEF LinesOf, Posted
<1>3. \A m \in S : f[m] \in Int
  <2>1. Shape
    BY DEF Locks
  <2>2. \A m \in S : note[m].lines[p].qty \in Nat /\ note[m].lines[p].bad \in Nat
    BY <1>2, <2>1, LinesAreNumbers
  <2> QED BY <2>2
<1>4. Delivered(p, note, LinesOf(p, Posted)) = SumFunctionOnSet(f, S)
  BY DEF Delivered
<1>5. IsFiniteSet(S)
  BY <1>2, NotesFinite
<1>6. CASE p \in DOMAIN lines
  <2> DEFINE g == [m \in S \cup {n} |-> note'[m].lines[p].qty - note'[m].lines[p].bad]
  <2>1. LinesOf(p, Posted)' = S \cup {n}
    BY <1>1, <1>6 DEF LinesOf, Posted
  <2>2. Delivered(p, note', LinesOf(p, Posted)') = SumFunctionOnSet(g, S \cup {n})
    BY <2>1 DEF Delivered
  <2>3. g[n] = Accepted(lines[p]) /\ g[n] \in Int
    BY <1>1, <1>6 DEF Accepted
  <2>4. \A m \in S : f[m] \in Int /\ g[m] = f[m]
    BY <1>2, <1>3
  <2> HIDE DEF f, g, S
  <2>5. SumFunctionOnSet(g, S \cup {n}) = SumFunctionOnSet(f, S) + g[n]
    <3>1. n \notin S
      BY <1>2
    <3>2. g[n] \in Int
      BY <2>3
    <3> HIDE DEF n
    <3> QED BY <1>5, <2>4, <3>1, <3>2, SumExtends
  <2>6. SumFunctionOnSet(f, S) \in Int
    BY <1>5, <2>4, SumInt
  <2> QED BY <1>4, <1>6, <2>2, <2>3, <2>5, <2>6
<1>7. CASE p \notin DOMAIN lines
  <2> DEFINE g == [m \in S |-> note'[m].lines[p].qty - note'[m].lines[p].bad]
  <2>1. LinesOf(p, Posted)' = S
    BY <1>1, <1>7 DEF LinesOf, Posted
  <2>2. Delivered(p, note', LinesOf(p, Posted)') = SumFunctionOnSet(g, S)
    BY <2>1 DEF Delivered
  <2>3. \A m \in S : f[m] \in Int /\ f[m] = g[m]
    BY <1>2, <1>3
  <2> HIDE DEF f, g, S
  <2>4. SumFunctionOnSet(f, S) = SumFunctionOnSet(g, S)
    BY <1>5, <2>3, SumSame
  <2>5. SumFunctionOnSet(f, S) \in Int
    BY <1>5, <2>3, SumInt
  <2> QED BY <1>4, <1>7, <2>2, <2>4, <2>5
<1> QED BY <1>6, <1>7

LEMMA StockKept == Locks /\ StockMatchesNotes /\ [Next]_vars => StockMatchesNotes'
<1> SUFFICES ASSUME Locks, StockMatchesNotes, [Next]_vars PROVE StockMatchesNotes'
  OBVIOUS
<1>1. Shape
  BY DEF Locks
<1> SUFFICES ASSUME NEW p \in Product
             PROVE  stock'[p] + sold'[p] = Delivered(p, note', LinesOf(p, Posted)')
  <2>1. (\A p \in Product : stock[p] + sold[p] = Delivered(p, note, LinesOf(p, Posted)))'
    BY DEF Delivered
  <2>2. StockMatchesNotes' <=>
           (\A p \in Product : stock[p] + sold[p] = Delivered(p, note, LinesOf(p, Posted)))'
    BY StockSums, PTL
  <2> QED BY <2>1, <2>2
<1>2. stock[p] + sold[p] = Delivered(p, note, LinesOf(p, Posted)) /\ stock[p] \in Nat /\ sold[p] \in Nat
  BY <1>1, StockSums DEF Shape
<1>3. ASSUME NEW h \in Handler, PostCommit(h)
      PROVE  stock'[p] + sold'[p] = Delivered(p, note', LinesOf(p, Posted)')
  <2> DEFINE lines == note[handler[h].on].lines
  <2>1. sold' = sold
    BY <1>3 DEF PostCommit
  <2>2. /\ stock'[p] = IF p \in DOMAIN lines THEN stock[p] + Accepted(lines[p]) ELSE stock[p]
        /\ p \in DOMAIN lines => Accepted(lines[p]) \in Nat
    BY <1>3, Committed
  <2>3. Delivered(p, note', LinesOf(p, Posted)') =
            Delivered(p, note, LinesOf(p, Posted))
                + (IF p \in DOMAIN lines THEN Accepted(lines[p]) ELSE 0)
    BY <1>3, PostingDelivers
  <2> QED BY <1>2, <2>1, <2>2, <2>3
<1>4. ASSUME SameDeliveries, NEW q \in Product, Sell(q)
      PROVE  stock'[p] + sold'[p] = Delivered(p, note', LinesOf(p, Posted)')
  <2>1. Delivered(p, note', LinesOf(p, Posted)') = Delivered(p, note, LinesOf(p, Posted))
    BY <1>1, <1>4, DeliveredSame
  <2>2. stock'[p] + sold'[p] = stock[p] + sold[p]
    BY <1>1, <1>2, <1>4 DEF Sell, Shape
  <2> QED BY <1>2, <2>1, <2>2
<1>5. ASSUME SameDeliveries, UNCHANGED <<stock, sold, cogs>>
      PROVE  stock'[p] + sold'[p] = Delivered(p, note', LinesOf(p, Posted)')
  <2>1. Delivered(p, note', LinesOf(p, Posted)') = Delivered(p, note, LinesOf(p, Posted))
    BY <1>1, <1>5, DeliveredSame
  <2> QED BY <1>2, <1>5, <2>1
<1> QED BY <1>3, <1>4, <1>5, StepKinds

(* The stock of a product is what the posted notes have accepted, each once, *)
(* less what was taken, under every overlap of postings, cancellations,      *)
(* sales and roll-backs (services/procurement.py: post_grn).                 *)
THEOREM StockIsDeliveries == Spec => []StockMatchesNotes
<1>1. Locks /\ StockMatchesNotes /\ [Next]_vars => (Locks /\ StockMatchesNotes)'
  BY LocksKept, StockKept
<1> QED BY <1>1, InitLocks, InitStock, PTL DEF Spec

-----------------------------------------------------------------------------
(* Every posted note has its entry, or is recorded as pending, or is worth   *)
(* nothing; and nothing else is in the books.                                *)
Booked ==
    /\ DOMAIN entries \subseteq Posted /\ pending \subseteq Posted
    /\ DOMAIN entries \cap pending = {}
    /\ \A n \in DOMAIN entries : entries[n] = EntryValue(note[n].lines)
    /\ \A n \in Posted \ (DOMAIN entries \cup pending) : EntryValue(note[n].lines) = 0

(* The value of some notes of a table of notes. *)
Values(table, S) == SumFunctionOnSet([n \in S |-> EntryValue(table[n].lines)], S)

(* With one price the stock at cost, and what sales took at cost, are what   *)
(* the posted notes are worth.                                               *)
StockValue == SumFunction([p \in Product |-> stock[p] * cost[p]])
Valued == (\A c, d \in Cost : c = d) => StockValue + cogs = Values(note, Posted)

LEMMA WorthIsValue ==
    /\ \A n : Worth(n) = EntryValue(note[n].lines)
    /\ \A S : WorthOf(S) = Values(note, S)
<1>1. \A n : Worth(n) = EntryValue(note[n].lines)
  BY DEF Worth, EntryValue, Accepted
<1>2. \A S : WorthOf(S) = SumFunctionOnSet([n \in S |-> Worth(n)], S)
  BY DEF WorthOf, SumFunction
<1> QED BY <1>1, <1>2 DEF Values

LEMMA ValueIsNat ==
    ASSUME Locks, NEW n \in Note
    PROVE  EntryValue(note[n].lines) \in Nat /\ note[n].lines \in PerProduct(Line)
<1>1. note[n].lines \in PerProduct(Line)
  BY SlipFields DEF Locks, Shape
<1>2. \A p \in DOMAIN note[n].lines : note[n].lines[p].bad <= note[n].lines[p].qty
  BY DEF Locks, Counted
<1> QED BY <1>1, <1>2, EntryValueIsNat

LEMMA ValuesIsNat ==
    ASSUME Locks, NEW S \in SUBSET Note PROVE Values(note, S) \in Nat
<1> DEFINE f == [n \in S |-> EntryValue(note[n].lines)]
<1>1. \A n \in S : f[n] \in Nat
  BY ValueIsNat
<1>2. IsFiniteSet(S)
  BY NotesFinite
<1>3. Values(note, S) = SumFunctionOnSet(f, S)
  BY DEF Values
<1> HIDE DEF f
<1> QED BY <1>1, <1>2, <1>3, SumNat

LEMMA ValueSame ==
    ASSUME Locks, SameDeliveries
    PROVE  /\ Posted' = Posted
           /\ \A n \in Posted : EntryValue(note'[n].lines) = EntryValue(note[n].lines)
<1>1. Posted' = Posted
  BY DEF SameDeliveries, Posted
<1>2. ASSUME NEW n \in Posted PROVE EntryValue(note'[n].lines) = EntryValue(note[n].lines)
  <2> DEFINE a == note[n].lines
             b == note'[n].lines
  <2>1. n \in Note /\ note[n].status = "posted"
    BY DEF Posted
  <2>2. a \in PerProduct(Line)
    BY <2>1, ValueIsNat
  <2>3. /\ DOMAIN a = DOMAIN b
        /\ \A p \in DOMAIN a : a[p].qty = b[p].qty /\ a[p].bad = b[p].bad /\ a[p].cost = b[p].cost
    BY <2>1 DEF SameDeliveries
  <2> HIDE DEF a, b
  <2>4. EntryValue(a) = EntryValue(b)
    BY <2>2, <2>3, EntryValueSame
  <2> QED BY <2>4 DEF a, b
<1> QED BY <1>1, <1>2

LEMMA ValuesSame ==
    ASSUME Locks, SameDeliveries
    PROVE  Values(note', Posted') = Values(note, Posted)
<1> DEFINE f == [n \in Posted |-> EntryValue(note[n].lines)]
           g == [n \in Posted |-> EntryValue(note'[n].lines)]
<1>1. \A n \in Posted : f[n] = g[n]
  BY ValueSame
<1>2. IsFiniteSet(Posted)
  BY NotesFinite DEF Posted
<1>3. Values(note, Posted) = SumFunctionOnSet(f, Posted)
  BY DEF Values
<1>4. Values(note', Posted') = SumFunctionOnSet(g, Posted)
  BY ValueSame DEF Values
<1> HIDE DEF f, g
<1> QED BY <1>1, <1>2, <1>3, <1>4, SumSame

LEMMA PostingAddsValue ==
    ASSUME Locks, NEW h \in Handler, PostCommit(h)
    PROVE  LET n == handler[h].on IN
           /\ Posted' = Posted \cup {n} /\ n \notin Posted /\ n \in Note
           /\ \A m \in Posted \cup {n} : EntryValue(note'[m].lines) = EntryValue(note[m].lines)
           /\ Values(note', Posted') = Values(note, Posted) + EntryValue(note[n].lines)
<1> DEFINE n == handler[h].on
           f == [m \in Posted |-> EntryValue(note[m].lines)]
           g == [m \in Posted \cup {n} |-> EntryValue(note'[m].lines)]
<1>1. /\ n \in Note /\ note[n].status = "draft"
      /\ note'[n].status = "posted" /\ note'[n].lines = note[n].lines
      /\ \A m \in Note : m # n => note'[m] = note[m]
  BY Committed
<1>2. Posted' = Posted \cup {n} /\ n \notin Posted
  BY <1>1 DEF Posted
<1>3. \A m \in Posted : m \in Note /\ m # n
  BY <1>2 DEF Posted
<1>4. \A m \in Posted \cup {n} : EntryValue(note'[m].lines) = EntryValue(note[m].lines)
  BY <1>1, <1>3
<1>5. \A m \in Posted : f[m] \in Int /\ g[m] = f[m]
  BY <1>3, <1>4, ValueIsNat
<1>6. g[n] \in Int /\ g[n] = EntryValue(note[n].lines)
  BY <1>1, <1>4, ValueIsNat
<1>7. IsFiniteSet(Posted)
  BY NotesFinite DEF Posted
<1>8. Values(note, Posted) = SumFunctionOnSet(f, Posted)
  BY DEF Values
<1>9. Values(note', Posted') = SumFunctionOnSet(g, Posted \cup {n})
  BY <1>2 DEF Values
<1> HIDE DEF f, g
<1>10. SumFunctionOnSet(g, Posted \cup {n}) = SumFunctionOnSet(f, Posted) + g[n]
  <2>1. n \notin Posted
    BY <1>2
  <2>2. g[n] \in Int
    BY <1>6
  <2> HIDE DEF n
  <2> QED BY <1>5, <1>7, <2>1, <2>2, SumExtends
<1> QED BY <1>1, <1>2, <1>4, <1>6, <1>8, <1>9, <1>10

LEMMA BookedKept == Locks /\ Booked /\ [Next]_vars => Booked'
<1> SUFFICES ASSUME Locks, Booked, [Next]_vars PROVE Booked'
  OBVIOUS
<1>1. ASSUME NEW h \in Handler, PostCommit(h) PROVE Booked'
  <2> DEFINE n == handler[h].on
             v == EntryValue(note[n].lines)
  <2>1. /\ Posted' = Posted \cup {n} /\ n \notin Posted /\ n \in Note
        /\ \A m \in Posted \cup {n} : EntryValue(note'[m].lines) = EntryValue(note[m].lines)
    BY <1>1, PostingAddsValue
  <2>2. PostEntry(n, v)
    BY <1>1 DEF PostCommit
  <2>3. v \in Nat
    BY <2>1, ValueIsNat
  <2>4. n \notin DOMAIN entries /\ n \notin pending
    BY <2>1 DEF Booked
  <2> HIDE DEF v
  <2>5. CASE v = 0
    <3>1. entries' = entries /\ pending' = pending
      BY <2>2, <2>3, <2>5 DEF PostEntry
    <3> QED BY <2>1, <2>5, <3>1 DEF Booked, v
  <2>6. CASE v # 0 /\ pending' = pending \cup {n} /\ entries' = entries
    BY <2>1, <2>4, <2>6 DEF Booked
  <2>7. CASE /\ v # 0 /\ pending' = pending
             /\ entries' = [m \in DOMAIN entries \cup {n} |-> IF m = n THEN v ELSE entries[m]]
    <3>1. /\ DOMAIN entries' = DOMAIN entries \cup {n} /\ entries'[n] = v
          /\ \A m \in DOMAIN entries : entries'[m] = entries[m]
      BY <2>4, <2>7
    <3> QED BY <2>1, <2>4, <2>7, <3>1 DEF Booked, v
  <2> QED BY <2>2, <2>4, <2>5, <2>6, <2>7 DEF PostEntry
<1>2. ASSUME SameDeliveries, UNCHANGED <<entries, pending>> PROVE Booked'
  <2>1. /\ Posted' = Posted
        /\ \A n \in Posted : EntryValue(note'[n].lines) = EntryValue(note[n].lines)
    BY <1>2, ValueSame
  <2> QED BY <1>2, <2>1 DEF Booked
<1> QED BY <1>1, <1>2, StepKinds

LEMMA Distributes == \A x, y, z \in Int : (x + y) * z = x * z + y * z
  OBVIOUS

LEMMA StockValueIsSum ==
    ASSUME Shape
    PROVE  /\ StockValue = SumFunctionOnSet([p \in Product |-> stock[p] * cost[p]], Product)
           /\ \A p \in Product : stock[p] * cost[p] \in Nat /\ stock[p] \in Nat /\ cost[p] \in Nat
           /\ StockValue \in Int
<1> DEFINE f == [p \in Product |-> stock[p] * cost[p]]
<1>1. StockValue = SumFunctionOnSet(f, Product)
  BY DEF StockValue, SumFunction
<1>2. \A p \in Product : stock[p] \in Nat /\ cost[p] \in Nat
  BY Numbers DEF Shape
<1>3. \A p \in Product : stock[p] * cost[p] \in Nat
  BY <1>2, Numbers
<1>4. \A p \in Product : f[p] \in Int
  BY <1>3
<1> HIDE DEF f
<1>5. SumFunctionOnSet(f, Product) \in Int
  BY <1>4, SumInt, ProcurementAssumption
<1> QED BY <1>1, <1>2, <1>3, <1>5 DEF f

LEMMA StockValueNext ==
    StockValue' = SumFunctionOnSet([p \in Product |-> stock'[p] * cost'[p]], Product)
  BY DEF StockValue, SumFunction

(* What a posting adds to the stock at cost is what the note is worth. *)
LEMMA PostingAddsStockValue ==
    ASSUME Locks, NEW h \in Handler, PostCommit(h), \A c, d \in Cost : c = d
    PROVE  StockValue' = StockValue + EntryValue(note[handler[h].on].lines)
<1> DEFINE n == handler[h].on
           lines == note[n].lines
           f == [p \in Product |-> stock[p] * cost[p]]
           g == [p \in Product |-> stock'[p] * cost'[p]]
           added == [p \in Product |->
                        IF p \in DOMAIN lines THEN Accepted(lines[p]) * lines[p].cost ELSE 0]
           own == [p \in DOMAIN lines |-> Accepted(lines[p]) * lines[p].cost]
<1>1. /\ n \in Note /\ \A p \in DOMAIN lines : Accepted(lines[p]) \in Nat
      /\ \A p \in Product :
            stock'[p] = IF p \in DOMAIN lines THEN stock[p] + Accepted(lines[p]) ELSE stock[p]
      /\ cost' \in [Product -> Cost]
  BY Committed
<1>2. Shape
  BY DEF Locks
<1>3. /\ DOMAIN lines \in SUBSET Product
      /\ \A p \in DOMAIN lines : lines[p].cost \in Cost /\ lines[p].cost \in Nat
  BY <1>1, <1>2, LinesAreNumbers
<1>4. \A p \in Product : cost[p] \in Cost /\ cost'[p] \in Cost
  BY <1>1, <1>2 DEF Shape
<1>5. \A p \in Product : cost'[p] = cost[p] /\ (p \in DOMAIN lines => lines[p].cost = cost[p])
  BY <1>3, <1>4
<1>6. \A p \in Product : stock[p] * cost[p] \in Nat /\ stock[p] \in Nat /\ cost[p] \in Nat
  BY <1>2, StockValueIsSum
<1>7. ASSUME NEW p \in Product
      PROVE  f[p] \in Int /\ added[p] \in Int /\ g[p] = f[p] + added[p]
  <2>1. CASE p \in DOMAIN lines
    <3>1. Accepted(lines[p]) * cost[p] \in Nat
      BY <1>1, <1>6, <2>1, Numbers
    <3>2. (stock[p] + Accepted(lines[p])) * cost[p] = stock[p] * cost[p] + Accepted(lines[p]) * cost[p]
      BY <1>1, <1>6, <2>1, Distributes
    <3>3. g[p] = (stock[p] + Accepted(lines[p])) * cost[p] /\ added[p] = Accepted(lines[p]) * cost[p]
          /\ f[p] = stock[p] * cost[p]
      BY <1>1, <1>5, <2>1
    <3> HIDE DEF f, g, added
    <3> QED BY <1>6, <3>1, <3>2, <3>3
  <2>2. CASE p \notin DOMAIN lines
    <3>1. g[p] = stock[p] * cost[p] /\ added[p] = 0 /\ f[p] = stock[p] * cost[p]
      BY <1>1, <1>5, <2>2
    <3> HIDE DEF f, g, added
    <3> QED BY <1>6, <3>1
  <2> QED BY <2>1, <2>2
<1>8. /\ StockValue = SumFunctionOnSet(f, Product) /\ StockValue' = SumFunctionOnSet(g, Product)
      /\ EntryValue(lines) = SumFunctionOnSet(own, DOMAIN lines)
  BY <1>2, StockValueIsSum, StockValueNext DEF EntryValue, SumFunction
<1>9. \A p \in Product \ DOMAIN lines : added[p] = 0
  OBVIOUS
<1>10. \A p \in DOMAIN lines : added[p] = own[p]
  BY <1>3
<1> HIDE DEF f, g, added, own
<1>11. SumFunctionOnSet(g, Product) = SumFunctionOnSet(f, Product) + SumFunctionOnSet(added, Product)
  BY <1>7, SumOfBoth, ProcurementAssumption
<1>12. SumFunctionOnSet(added, Product) = SumFunctionOnSet(added, DOMAIN lines)
  <2>1. DOMAIN lines \subseteq Product /\ \A p \in Product : added[p] \in Int
    BY <1>3, <1>7
  <2> HIDE DEF lines
  <2> QED BY <1>9, <2>1, SumSkipsZeros, ProcurementAssumption
<1>13. SumFunctionOnSet(added, DOMAIN lines) = SumFunctionOnSet(own, DOMAIN lines)
  <2>1. IsFiniteSet(DOMAIN lines)
    BY <1>3, ProductsFinite
  <2> HIDE DEF lines
  <2> QED BY <1>10, <2>1, SumSame
<1> QED BY <1>8, <1>11, <1>12, <1>13

(* A sale takes from the stock at cost what it books. *)
LEMMA SaleMovesValue ==
    ASSUME Shape, NEW q \in Product, Sell(q)
    PROVE  StockValue' + cogs' = StockValue + cogs
<1> DEFINE f == [p \in Product |-> stock[p] * cost[p]]
           g == [p \in Product |-> stock'[p] * cost'[p]]
<1>1. /\ stock' = [stock EXCEPT ![q] = stock[q] - 1] /\ cogs' = cogs + cost[q] /\ cost' = cost
      /\ stock[q] > 0
  BY DEF Sell, Shape
<1>2. \A p \in Product : stock[p] * cost[p] \in Nat /\ stock[p] \in Nat /\ cost[p] \in Nat
  BY StockValueIsSum
<1>3. stock'[q] = stock[q] - 1 /\ \A p \in Product \ {q} : stock'[p] = stock[p]
  BY <1>1 DEF Shape
<1>4. \A p \in Product \ {q} : f[p] = g[p]
  BY <1>1, <1>3
<1>5. g[q] = stock[q] * cost[q] - cost[q] /\ f[q] = stock[q] * cost[q]
  <2>1. (stock[q] + (0 - 1)) * cost[q] = stock[q] * cost[q] + (0 - 1) * cost[q]
    BY <1>2, Distributes
  <2>2. stock[q] + (0 - 1) = stock'[q] /\ (0 - 1) * cost[q] = 0 - cost[q]
    BY <1>2, <1>3
  <2>3. g[q] = stock'[q] * cost[q] /\ f[q] = stock[q] * cost[q]
    BY <1>1
  <2> HIDE DEF f, g
  <2> QED BY <1>2, <2>1, <2>2, <2>3
<1>6. StockValue = SumFunctionOnSet(f, Product) /\ StockValue' = SumFunctionOnSet(g, Product)
      /\ StockValue \in Int
  BY StockValueIsSum, StockValueNext
<1>7. \A p \in Product : f[p] \in Int
  BY <1>2
<1> HIDE DEF f, g
<1>8. \A p \in Product : f[p] \in Int /\ g[p] \in Int
  <2>1. g[q] \in Int
    BY <1>2, <1>5
  <2> QED BY <1>4, <1>7, <2>1
<1>9. SumFunctionOnSet(g, Product) = SumFunctionOnSet(f, Product) + (g[q] - f[q])
  BY <1>4, <1>8, SumChanges, ProcurementAssumption
<1>10. cogs \in Nat
  BY DEF Shape
<1> QED BY <1>1, <1>2, <1>5, <1>6, <1>9, <1>10

LEMMA ValuedKept == Locks /\ Valued /\ [Next]_vars => Valued'
<1> SUFFICES ASSUME Locks, Valued, [Next]_vars, \A c, d \in Cost : c = d
             PROVE  StockValue' + cogs' = Values(note', Posted')
  BY DEF Valued, Values
<1>1. Shape /\ StockValue + cogs = Values(note, Posted)
  BY DEF Locks, Valued
<1>2. ASSUME NEW h \in Handler, PostCommit(h)
      PROVE  StockValue' + cogs' = Values(note', Posted')
  <2> DEFINE v == EntryValue(note[handler[h].on].lines)
  <2>1. StockValue' = StockValue + v
    BY <1>2, PostingAddsStockValue
  <2>2. handler[h].on \in Note /\ Values(note', Posted') = Values(note, Posted) + v
    BY <1>2, PostingAddsValue
  <2>3. cogs' = cogs /\ cogs \in Nat
    BY <1>1, <1>2 DEF PostCommit, Shape
  <2>4. v \in Nat /\ StockValue \in Int
    BY <1>1, <2>2, ValueIsNat, StockValueIsSum
  <2> HIDE DEF v
  <2> QED BY <1>1, <2>1, <2>2, <2>3, <2>4
<1>3. ASSUME SameDeliveries, NEW q \in Product, Sell(q)
      PROVE  StockValue' + cogs' = Values(note', Posted')
  BY <1>1, <1>3, SaleMovesValue, ValuesSame
<1>4. ASSUME SameDeliveries, UNCHANGED <<stock, sold, cogs>>,
             cost' = cost \/ \E p \in Product, c \in Cost : EditCost(p, c)
      PROVE  StockValue' + cogs' = Values(note', Posted')
  <2>1. cost \in [Product -> Cost]
    BY <1>1 DEF Shape
  <2>2. cost' \in [Product -> Cost]
    BY <1>4, <2>1 DEF EditCost
  <2>3. \A p \in Product : cost'[p] = cost[p]
    BY <2>1, <2>2
  <2>4. StockValue' = StockValue
    <3>1. [p \in Product |-> stock'[p] * cost'[p]] = [p \in Product |-> stock[p] * cost[p]]
      BY <1>4, <2>3
    <3> QED BY <1>1, <3>1, StockValueIsSum, StockValueNext
  <2> QED BY <1>1, <1>4, <2>4, ValuesSame
<1> QED BY <1>2, <1>3, <1>4, StepKinds

LEMMA InitBooks == Init => Booked /\ Valued
<1> SUFFICES ASSUME Init PROVE Booked /\ Valued
  OBVIOUS
<1>1. Posted = {} /\ DOMAIN entries = {} /\ pending = {} /\ cogs = 0
  BY DEF Init, Posted, NewNote
<1>2. Booked
  BY <1>1 DEF Booked
<1>3. Shape
  BY InitLocks DEF Locks
<1>4. StockValue = 0
  <2> DEFINE f == [p \in Product |-> stock[p] * cost[p]]
  <2>1. \A p \in Product : stock[p] = 0 /\ cost[p] \in Nat
    BY <1>3, StockValueIsSum DEF Init
  <2>2. \A p \in Product : f[p] = 0
    BY <2>1
  <2>3. StockValue = SumFunctionOnSet(f, Product)
    BY <1>3, StockValueIsSum
  <2> HIDE DEF f
  <2> QED BY <2>2, <2>3, SumOfZeros, ProcurementAssumption
<1>5. Values(note, Posted) = 0
  <2> DEFINE g == [n \in Posted |-> EntryValue(note[n].lines)]
  <2>1. Values(note, Posted) = SumFunctionOnSet(g, {})
    BY <1>1 DEF Values
  <2> HIDE DEF g
  <2> QED BY <2>1, SumOfNone
<1> QED BY <1>1, <1>2, <1>4, <1>5 DEF Valued

(* From what each note has, to the totals the reconciliation compares. *)
LEMMA BooksAgree == Locks /\ Booked /\ Valued => BooksMatchNotes
<1> SUFFICES ASSUME Locks, Booked, Valued PROVE BooksMatchNotes
  OBVIOUS
<1> DEFINE paid == DOMAIN entries
           done == Posted \ pending
           value == [n \in Posted |-> EntryValue(note[n].lines)]
<1>1. /\ Posted \in SUBSET Note /\ done \in SUBSET Note /\ pending \in SUBSET Note
      /\ paid \subseteq done /\ paid \in SUBSET Note
  BY DEF Booked, Posted
<1>2. IsFiniteSet(Posted) /\ IsFiniteSet(done) /\ IsFiniteSet(pending) /\ IsFiniteSet(paid)
  BY <1>1, NotesFinite
<1>3. \A n \in Posted : value[n] \in Int
  BY <1>1, ValueIsNat
<1>4. \A S \in SUBSET Posted : Values(note, S) = SumFunctionOnSet(value, S)
  <2> SUFFICES ASSUME NEW S \in SUBSET Posted
               PROVE  Values(note, S) = SumFunctionOnSet(value, S)
    OBVIOUS
  <2> DEFINE f == [n \in S |-> EntryValue(note[n].lines)]
  <2>1. \A n \in S : f[n] = value[n]
    OBVIOUS
  <2>2. IsFiniteSet(S)
    BY <1>1, NotesFinite
  <2>3. Values(note, S) = SumFunctionOnSet(f, S)
    BY DEF Values
  <2> HIDE DEF f, value
  <2> QED BY <2>1, <2>2, <2>3, SumSame
<1>5. \A n \in done \ paid : value[n] = 0
  BY DEF Booked
<1>6. \A n \in paid : entries[n] = value[n]
  BY <1>1 DEF Booked
<1>7. SumFunction(entries) = SumFunctionOnSet(entries, paid)
  BY DEF SumFunction
<1>8. pending \in SUBSET Posted /\ done \in SUBSET Posted /\ pending \cap done = {}
      /\ pending \cup done = Posted
  BY DEF Booked
<1> HIDE DEF paid, done, value
<1>9. SumFunctionOnSet(entries, paid) = SumFunctionOnSet(value, paid)
  BY <1>2, <1>6, SumSame
<1>10. SumFunctionOnSet(value, done) = SumFunctionOnSet(value, paid)
  <2>1. \A n \in done : value[n] \in Int
    BY <1>3, <1>8
  <2> QED BY <1>1, <1>2, <1>5, <2>1, SumSkipsZeros
<1>11. SumFunctionOnSet(value, pending \cup done) =
           SumFunctionOnSet(value, pending) + SumFunctionOnSet(value, done)
  <2>1. \A n \in pending \cup done : value[n] \in Int
    BY <1>3, <1>8
  <2> QED BY <1>2, <1>8, <2>1, SumJoins
<1>12. SumFunction(entries) = WorthOf(done)
  BY <1>4, <1>7, <1>8, <1>9, <1>10, WorthIsValue
<1>13. ASSUME \A c, d \in Cost : c = d PROVE InventoryDiff = WorthOf(pending)
  <2>1. StockValue + cogs = Values(note, Posted)
    BY <1>13 DEF Valued
  <2>2. Values(note, Posted) = Values(note, pending) + Values(note, done)
    BY <1>4, <1>8, <1>11
  <2>3. InventoryDiff = StockValue - (SumFunction(entries) - cogs)
    BY DEF InventoryDiff, StockValue
  <2>4. SumFunction(entries) = Values(note, done)
    BY <1>12, WorthIsValue
  <2>5. StockValue \in Int /\ cogs \in Int /\ Values(note, pending) \in Int /\ Values(note, done) \in Int
    BY <1>1, StockValueIsSum, ValuesIsNat DEF Locks, Shape
  <2> QED BY <2>1, <2>2, <2>3, <2>4, <2>5, WorthIsValue
<1>14. DOMAIN entries \cap pending = {}
  BY DEF Booked
<1> QED BY <1>12, <1>13, <1>14 DEF BooksMatchNotes, done

(* The inventory account holds what the posted notes are worth, except the   *)
(* notes recorded as pending, and the reconciliation reports exactly those   *)
(* while the price does not change (services/accounting.py: post_grn;        *)
(* services/reconciliation.py: get_inventory_ledger_diff).                   *)
THEOREM BooksAreDeliveries == Spec => []BooksMatchNotes
<1>1. Locks /\ Booked /\ Valued /\ [Next]_vars => (Locks /\ Booked /\ Valued)'
  BY LocksKept, BookedKept, ValuedKept
<1> QED BY <1>1, InitLocks, InitBooks, BooksAgree, PTL DEF Spec

-----------------------------------------------------------------------------
(* The status of an order nobody overlapped on.  Until it is approved it has *)
(* no notes of its own; what it says it received is what notes brought for   *)
(* its items; one that is fully received stays so; and unless a stray note   *)
(* came since, its status is the one those quantities call for.              *)
Early == {"none", "draft", "submitted"}

NoNotesOf(o) == \A n \in Note : note[n].status # "none" => note[n].order # o

RowTold(row) ==
    (\E p \in DOMAIN row.items : row.items[p].qty > 0) =>
        /\ row.status \in Early \cup {"approved"} => \A p \in DOMAIN row.items : row.received[p] = 0
        /\ row.status = "fully_received" => Fully(row)
        /\ row.status \in Open \ {"fully_received"} => ~Fully(row)
        /\ row.status = "partially_received" => \E p \in DOMAIN row.items : row.received[p] > 0

RowKept(row) == row.status = "fully_received" => Fully(row)

ToldOf(o) ==
    /\ order[o].status \in Early => NoNotesOf(o)
    /\ \A p \in DOMAIN order[o].items : order[o].received[p] = Brought(o, p)
    /\ RowKept(order[o])
    /\ o \notin strayed => RowTold(order[o])

(* Lines name items that there are, and handlers have loaded orders that there are. *)
Rooted ==
    /\ \A h \in Handler : handler[h].op \in OrderOps => order[handler[h].on].status # "none"
    /\ \A o \in Order : order[o].status = "none" => DOMAIN order[o].items = {}
    /\ \A n \in Note : \A p \in DOMAIN note[n].lines :
          LET i == note[n].lines[p].item IN
          i # NoItem => i \in Order \X Product /\ i[2] \in DOMAIN order[i[1]].items

Told == Rooted /\ \A o \in Order \ raced : ToldOf(o)

(* What a posted note brings for an item, in a table of notes. *)
Shares(table, S, i) == SumFunctionOnSet([n \in S |-> BroughtBy(table[n].lines, i)], S)

LEMMA BroughtIsSum ==
    ASSUME NEW o, NEW p PROVE Brought(o, p) = Shares(note, Posted, <<o, p>>)
  BY DEF Brought, SumFunction, Shares

LEMMA BroughtNext ==
    ASSUME NEW o, NEW p PROVE Brought(o, p)' = Shares(note', Posted', <<o, p>>)
  BY DEF Brought, SumFunction, Shares

LEMMA PostedAreNotes ==
    ASSUME Shape, NEW i
    PROVE  /\ Posted \in SUBSET Note /\ IsFiniteSet(Posted)
           /\ \A n \in Note : note[n].lines \in PerProduct(Line) /\ BroughtBy(note[n].lines, i) \in Nat
<1>1. \A n \in Note : note[n].lines \in PerProduct(Line)
  BY SlipFields DEF Shape
<1> QED BY <1>1, BroughtByIsNat, NotesFinite DEF Posted

(* The posted notes bring as much for the items of an order as before. *)
SameFor(o) ==
    /\ Posted' = Posted
    /\ \A n \in Posted : \A p \in Product : BroughtBy(note'[n].lines, <<o, p>>) = BroughtBy(note[n].lines, <<o, p>>)

LEMMA BroughtSame ==
    ASSUME Shape, NEW o, NEW p \in Product, SameFor(o) PROVE Brought(o, p)' = Brought(o, p)
<1> DEFINE f == [n \in Posted |-> BroughtBy(note[n].lines, <<o, p>>)]
           g == [n \in Posted |-> BroughtBy(note'[n].lines, <<o, p>>)]
<1>1. \A n \in Posted : f[n] = g[n]
  BY DEF SameFor
<1>2. Brought(o, p) = SumFunctionOnSet(f, Posted) /\ IsFiniteSet(Posted)
  BY BroughtIsSum, PostedAreNotes DEF Shares
<1>3. Brought(o, p)' = SumFunctionOnSet(g, Posted)
  BY BroughtNext DEF Shares, SameFor
<1> HIDE DEF f, g
<1> QED BY <1>1, <1>2, <1>3, SumSame

(* An item that no line names has been brought nothing. *)
LEMMA BroughtNothing ==
    ASSUME Shape, NEW o, NEW p,
           \A n \in Note : \A q \in DOMAIN note[n].lines : note[n].lines[q].item # <<o, p>>
    PROVE  Brought(o, p) = 0
<1> DEFINE f == [n \in Posted |-> BroughtBy(note[n].lines, <<o, p>>)]
<1>1. \A n \in Posted : f[n] = 0
  BY PostedAreNotes, BroughtByIsNat
<1>2. Brought(o, p) = SumFunctionOnSet(f, Posted) /\ IsFiniteSet(Posted)
  BY BroughtIsSum, PostedAreNotes DEF Shares
<1> HIDE DEF f
<1> QED BY <1>1, <1>2, SumOfZeros

LEMMA PostingBrings ==
    ASSUME Locks, NEW h \in Handler, PostCommit(h), NEW o \in Order, NEW p
    PROVE  Brought(o, p)' = Brought(o, p) + BroughtBy(note[handler[h].on].lines, <<o, p>>)
<1> DEFINE n == handler[h].on
           f == [m \in Posted |-> BroughtBy(note[m].lines, <<o, p>>)]
           g == [m \in Posted \cup {n} |-> BroughtBy(note'[m].lines, <<o, p>>)]
<1>1. /\ n \in Note /\ note[n].status = "draft"
      /\ note'[n].status = "posted" /\ note'[n].lines = note[n].lines
      /\ \A m \in Note : m # n => note'[m] = note[m]
  BY Committed
<1>2. Shape
  BY DEF Locks
<1>3. Posted' = Posted \cup {n} /\ n \notin Posted /\ IsFiniteSet(Posted)
  BY <1>1, <1>2, PostedAreNotes DEF Posted
<1>4. \A m \in Posted : f[m] \in Int /\ g[m] = f[m]
  <2> SUFFICES ASSUME NEW m \in Posted PROVE f[m] \in Int /\ g[m] = f[m]
    OBVIOUS
  <2>1. m \in Note /\ m # n
    BY <1>3 DEF Posted
  <2>2. note'[m] = note[m] /\ BroughtBy(note[m].lines, <<o, p>>) \in Nat
    BY <1>1, <1>2, <2>1, PostedAreNotes
  <2> QED BY <2>2
<1>5. g[n] = BroughtBy(note[n].lines, <<o, p>>) /\ g[n] \in Int
  <2>1. BroughtBy(note[n].lines, <<o, p>>) \in Nat
    BY <1>1, <1>2, PostedAreNotes
  <2> QED BY <1>1, <2>1
<1>6. Brought(o, p) = SumFunctionOnSet(f, Posted) /\ Brought(o, p)' = SumFunctionOnSet(g, Posted \cup {n})
  BY <1>3, BroughtIsSum, BroughtNext DEF Shares
<1> HIDE DEF f, g, n
<1>7. SumFunctionOnSet(g, Posted \cup {n}) = SumFunctionOnSet(f, Posted) + g[n]
  <2>1. n \notin Posted /\ IsFiniteSet(Posted)
    BY <1>3
  <2>2. g[n] \in Int
    BY <1>5
  <2> QED BY <1>4, <2>1, <2>2, SumExtends
<1>8. Brought(o, p)' = Brought(o, p) + BroughtBy(note[n].lines, <<o, p>>)
  BY <1>5, <1>6, <1>7
<1> QED BY <1>8 DEF n

(* An order whose row and whose notes a step leaves alone. *)
LEMMA OrderStays ==
    ASSUME Shape, NEW o \in Order, ToldOf(o), order'[o] = order[o], SameFor(o),
           order[o].status \in Early => NoNotesOf(o)',
           o \notin strayed' => o \notin strayed
    PROVE  ToldOf(o)'
<1>0. DOMAIN order[o].items \in SUBSET Product
  BY RowFields DEF Shape
<1>1. \A p \in Product : Brought(o, p)' = Brought(o, p)
  BY BroughtSame
<1>2. RowKept(order'[o]) /\ (o \notin strayed' => RowTold(order'[o]))
  BY DEF ToldOf
<1>3. \A p \in DOMAIN order'[o].items : order'[o].received[p] = Brought(o, p)'
  BY <1>0, <1>1 DEF ToldOf
<1>4. order'[o].status \in Early => NoNotesOf(o)'
  OBVIOUS
<1>5. RowKept(order[o])' /\ (o \notin strayed' => RowTold(order[o])')
  BY <1>2 DEF RowTold, RowKept, Fully
<1> QED BY <1>3, <1>4, <1>5 DEF ToldOf

LEMMA CreatePOTells ==
    ASSUME Locks, Told, NEW o \in Order, CreatePO(o) PROVE Told'
<1>1. PICK t \in Sheet :
          order' = [order EXCEPT ![o] =
             [status |-> "draft", items |-> ItemsOf(t), received |-> [p \in DOMAIN t |-> 0],
              total |-> TotalOf(ItemsOf(t))]]
  BY DEF CreatePO
<1>2. Shape /\ order[o].status = "none" /\ note' = note /\ raced' = raced /\ strayed' = strayed
  BY DEF Locks, CreatePO
<1>3. DOMAIN ItemsOf(t) = DOMAIN t
  BY DEF ItemsOf
<1>4. /\ order'[o].status = "draft" /\ \A p \in DOMAIN order'[o].items : order'[o].received[p] = 0
      /\ \A x \in Order : x # o => order'[x] = order[x]
  BY <1>1, <1>2, <1>3 DEF Shape
<1>5. \A y : SameFor(y)
  BY <1>2 DEF SameFor, Posted
<1>6. \A y : NoNotesOf(y)' <=> NoNotesOf(y)
  BY <1>2 DEF NoNotesOf
<1>7. \A n \in Note : \A q \in DOMAIN note[n].lines : \A p \in Product : note[n].lines[q].item # <<o, p>>
  <2> SUFFICES ASSUME NEW n \in Note, NEW q \in DOMAIN note[n].lines, NEW p \in Product
               PROVE  note[n].lines[q].item # <<o, p>>
    OBVIOUS
  <2> DEFINE i == note[n].lines[q].item
  <2>1. i # NoItem => i \in Order \X Product /\ i[2] \in DOMAIN order[i[1]].items
    BY DEF Told, Rooted
  <2>2. <<o, p>> # NoItem
    BY ProcurementAssumption
  <2>3. DOMAIN order[o].items = {}
    BY <1>2 DEF Told, Rooted
  <2> HIDE DEF i
  <2>4. i # <<o, p>>
    BY <2>1, <2>2, <2>3
  <2> QED BY <2>4 DEF i
<1>8. Rooted'
  <2>1. \A x \in Order : order'[x].status = "none" => DOMAIN order'[x].items = {}
    BY <1>4 DEF Told, Rooted
  <2>2. ASSUME NEW n \in Note, NEW q \in DOMAIN note[n].lines, note[n].lines[q].item # NoItem
        PROVE  LET i == note[n].lines[q].item IN
               i \in Order \X Product /\ i[2] \in DOMAIN order'[i[1]].items
    <3> DEFINE i == note[n].lines[q].item
    <3>1. i \in Order \X Product /\ i[2] \in DOMAIN order[i[1]].items
      BY <2>2 DEF Told, Rooted
    <3>2. i[1] \in Order /\ i[1] # o
      BY <1>7, <3>1
    <3> QED BY <1>4, <3>1, <3>2
  <2>3. \A h \in Handler : handler'[h].op \in OrderOps => order'[handler'[h].on].status # "none"
    <3>1. handler' = handler /\ \A h \in Handler : handler[h].op \in OrderOps => handler[h].on \in Order
      BY DEF CreatePO, Locks, Loaded
    <3> QED BY <1>4, <3>1 DEF Told, Rooted
  <2> QED BY <1>2, <2>1, <2>2, <2>3 DEF Rooted
<1> SUFFICES ASSUME NEW x \in Order \ raced PROVE ToldOf(x)'
  BY <1>2, <1>8 DEF Told
<1>9. ToldOf(x)
  BY DEF Told
<1>10. CASE x = o
  <2>1. NoNotesOf(o)
    BY <1>2, <1>9, <1>10 DEF ToldOf, Early
  <2>2. \A p \in Product : Brought(o, p)' = 0
    BY <1>2, <1>5, <1>7, BroughtNothing, BroughtSame
  <2>4. DOMAIN order'[o].items \in SUBSET Product
    BY <1>1, <1>2, <1>3, TypedUnits DEF Shape
  <2>3. RowTold(order[o])' /\ RowKept(order[o])'
    BY <1>4 DEF RowTold, RowKept, Open
  <2> QED BY <1>4, <1>6, <1>10, <2>1, <2>2, <2>3, <2>4 DEF ToldOf
<1>11. CASE x # o
  <2>1. order[x].status \in Early => NoNotesOf(x)'
    BY <1>6, <1>9 DEF ToldOf
  <2> QED BY <1>2, <1>4, <1>5, <1>9, <1>11, <2>1, OrderStays
<1> QED BY <1>10, <1>11

LEMMA NotesTell ==
    ASSUME Locks, Told, NEW n \in Note, CreateGRN(n) \/ CancelGRN(n) PROVE Told'
<1>1. UNCHANGED <<order, handler, raced, strayed>> /\ Shape
  BY DEF CreateGRN, CancelGRN, Locks
<1>2. CASE CreateGRN(n)
  <2>1. /\ note[n].status = "none" /\ note'[n].status = "draft"
        /\ \A m \in Note : m # n => note'[m] = note[m]
        /\ \A p \in DOMAIN note'[n].lines : LET i == note'[n].lines[p].item IN
              i # NoItem => i \in Order \X Product /\ i[2] \in DOMAIN order[i[1]].items
        /\ note'[n].order \in Order =>
              order[note'[n].order].status \in {"approved", "partially_received"}
    BY <1>2, CreatedNote
  <2>2. Rooted'
    BY <1>1, <2>1 DEF Told, Rooted
  <2> SUFFICES ASSUME NEW x \in Order \ raced PROVE ToldOf(x)'
    BY <1>1, <2>2 DEF Told
  <2>3. ToldOf(x)
    BY DEF Told
  <2>4. SameFor(x)
    BY <2>1 DEF SameFor, Posted
  <2>5. order[x].status \in Early => NoNotesOf(x)'
    BY <2>1, <2>3 DEF ToldOf, NoNotesOf, Early
  <2> QED BY <1>1, <2>3, <2>4, <2>5, OrderStays
<1>3. CASE CancelGRN(n)
  <2>1. note \in [Note -> Slip]
    BY <1>1 DEF Shape
  <2>2. /\ note[n].status = "draft" /\ note'[n].status = "cancelled" /\ note'[n].order = note[n].order
        /\ note'[n].lines = note[n].lines
        /\ \A m \in Note : m # n => note'[m] = note[m]
    BY <1>3, <2>1 DEF CancelGRN, Cancellable, Slip
  <2>3. Rooted'
    BY <1>1, <2>2 DEF Told, Rooted
  <2> SUFFICES ASSUME NEW x \in Order \ raced PROVE ToldOf(x)'
    BY <1>1, <2>3 DEF Told
  <2>4. ToldOf(x)
    BY DEF Told
  <2>5. SameFor(x)
    BY <2>2 DEF SameFor, Posted
  <2>6. order[x].status \in Early => NoNotesOf(x)'
    BY <2>2, <2>4 DEF ToldOf, NoNotesOf
  <2> QED BY <1>1, <2>4, <2>5, <2>6, OrderStays
<1> QED BY <1>2, <1>3

(* Replacing the items of an order leaves the other orders' items named. *)
LEMMA UnlinkedBrings ==
    ASSUME Shape, NEW o, NEW n \in Note, NEW x \in Order, NEW p \in Product, x # o
    PROVE  BroughtBy(Unlinked(o)[n].lines, <<x, p>>) = BroughtBy(note[n].lines, <<x, p>>)
<1> DEFINE a == note[n].lines
           b == Unlinked(o)[n].lines
           i == <<x, p>>
           f == [q \in Naming(a, i) |-> a[q].qty]
           g == [q \in Naming(b, i) |-> b[q].qty]
<1>1. /\ DOMAIN b = DOMAIN a
      /\ \A q \in DOMAIN a : b[q].qty = a[q].qty
      /\ \A q \in DOMAIN a : b[q].item = IF a[q].item \in ItemsIn(o) THEN NoItem ELSE a[q].item
  BY UnlinkedKeeps
<1>2. /\ \A q \in DOMAIN a : a[q].item \in (Order \X Product) \cup {NoItem}
      /\ DOMAIN a \in SUBSET Product
  BY SlipFields, Numbers DEF Shape
<1>3. i \notin ItemsIn(o) /\ i # NoItem
  BY ProcurementAssumption DEF ItemsIn
<1>4. ASSUME NEW q \in DOMAIN a PROVE b[q].item = i <=> a[q].item = i
  BY <1>1, <1>3
<1>5. Naming(b, i) = Naming(a, i)
  BY <1>1, <1>4 DEF Naming
<1>6. \A q \in Naming(a, i) : f[q] = g[q]
  BY <1>1, <1>5 DEF Naming
<1>7. IsFiniteSet(Naming(a, i))
  BY <1>2, ProductsFinite DEF Naming
<1>8. BroughtBy(a, i) = SumFunctionOnSet(f, Naming(a, i)) /\ BroughtBy(b, i) = SumFunctionOnSet(g, Naming(a, i))
  BY <1>5 DEF BroughtBy, SumFunction
<1> HIDE DEF f, g, a, b
<1>9. BroughtBy(b, i) = BroughtBy(a, i)
  BY <1>6, <1>7, <1>8, SumSame
<1> QED BY <1>9 DEF a, b

(* A handler whose order is still what it read goes by the order's own status. *)
LEMMA WritePOTells ==
    ASSUME Locks, Told, NEW h \in Handler, WritePO(h) PROVE Told'
<1> DEFINE o == handler[h].on
           op == handler[h].op
<1>1. /\ o \in Order /\ op \in OrderOps
      /\ \A x \in Order : x # o => order'[x] = order[x]
      /\ op # "update" =>
            order'[o] = [order[o] EXCEPT !.status = NewStatus(op)] /\ note' = note /\ strayed' = strayed
      /\ op = "update" =>
            /\ order'[o].status = order[o].status
            /\ \A p \in DOMAIN order'[o].items : order'[o].received[p] = 0
            /\ note' = Unlinked(o) /\ strayed' = strayed \ {o}
  BY WrittenRow DEF WritePO
<1>2. Shape /\ Loaded(h) /\ order' \in [Order -> Rows]
  BY WrittenRow DEF Locks
<1>3. raced' = IF order[o] = handler[h].seen THEN raced ELSE raced \cup {o}
  BY DEF WritePO
<1>4. /\ \A m \in Note : note'[m].status = note[m].status /\ note'[m].order = note[m].order
      /\ \A y : NoNotesOf(y) <=> NoNotesOf(y)'
  <2>1. \A m \in Note : note'[m].status = note[m].status /\ note'[m].order = note[m].order
    BY <1>1, <1>2, UnlinkedKeeps
  <2> QED BY <2>1 DEF NoNotesOf
<1>5. \A n \in Note : \A p \in DOMAIN note'[n].lines : LET i == note'[n].lines[p].item IN
          i # NoItem => /\ p \in DOMAIN note[n].lines /\ i = note[n].lines[p].item
                        /\ op = "update" => i \notin ItemsIn(o)
  BY <1>1, <1>2, UnlinkedKeeps
<1>6. order'[o].status # "none" /\ (op # "update" => order'[o].items = order[o].items)
  <2>1. order[o].status # "none"
    BY <1>1 DEF Told, Rooted
  <2>2. CASE op = "update"
    BY <1>1, <2>1, <2>2
  <2>3. CASE op # "update"
    <3>1. order[o] \in Rows
      BY <1>1, <1>2 DEF Shape
    <3>2. order'[o].status = NewStatus(op) /\ order'[o].items = order[o].items
      BY <1>1, <2>3, <3>1 DEF Rows, Row
    <3>3. NewStatus(op) # "none"
      BY <1>1, <2>3 DEF NewStatus, OrderOps
    <3> QED BY <3>2, <3>3
  <2> QED BY <2>2, <2>3
<1>7. Rooted'
  <2>1. \A x \in Order : order'[x].status = "none" => DOMAIN order'[x].items = {}
    BY <1>1, <1>6 DEF Told, Rooted
  <2>2. ASSUME NEW n \in Note, NEW p \in DOMAIN note'[n].lines, note'[n].lines[p].item # NoItem
        PROVE  LET i == note'[n].lines[p].item IN
               i \in Order \X Product /\ i[2] \in DOMAIN order'[i[1]].items
    <3> DEFINE i == note'[n].lines[p].item
    <3>1. p \in DOMAIN note[n].lines /\ i = note[n].lines[p].item /\ (op = "update" => i \notin ItemsIn(o))
      BY <1>5, <2>2
    <3>2. i \in Order \X Product /\ i[2] \in DOMAIN order[i[1]].items
      BY <2>2, <3>1 DEF Told, Rooted
    <3>3. i[1] = o => op # "update"
      BY <3>1, <3>2 DEF ItemsIn
    <3> HIDE DEF i
    <3>4. DOMAIN order'[i[1]].items = DOMAIN order[i[1]].items
      BY <1>1, <1>6, <3>2, <3>3
    <3> QED BY <3>2, <3>4 DEF i
  <2>3. \A g \in Handler : handler'[g].op \in OrderOps => order'[handler'[g].on].status # "none"
    <3> SUFFICES ASSUME NEW g \in Handler, handler'[g].op \in OrderOps
                 PROVE  order'[handler'[g].on].status # "none"
      OBVIOUS
    <3>1. handler' = [handler EXCEPT ![h] = Idle] /\ handler \in [Handler -> Work]
      BY <1>2 DEF WritePO, Shape
    <3>2. g # h /\ handler'[g] = handler[g]
      BY <3>1, EmptyShapes DEF OrderOps
    <3>3. handler[g].on \in Order /\ order[handler[g].on].status # "none"
      BY <3>2 DEF Told, Rooted, Locks, Loaded
    <3> QED BY <1>1, <1>6, <3>2, <3>3
  <2> QED BY <2>1, <2>2, <2>3 DEF Rooted
<1> SUFFICES ASSUME NEW x \in Order \ raced' PROVE ToldOf(x)'
  BY <1>7 DEF Told
<1>8. x \in Order \ raced /\ ToldOf(x)
  BY <1>3 DEF Told
<1>9. CASE x # o
  <2>1. SameFor(x)
    <3>1. Posted' = Posted /\ Posted \in SUBSET Note
      BY <1>4 DEF Posted
    <3>2. ASSUME NEW n \in Posted, NEW p \in Product
          PROVE  BroughtBy(note'[n].lines, <<x, p>>) = BroughtBy(note[n].lines, <<x, p>>)
      <4>1. note' = note \/ note' = Unlinked(o)
        BY <1>1
      <4>2. CASE note' = note
        BY <4>2
      <4>3. CASE note' = Unlinked(o)
        BY <1>2, <1>9, <3>1, <4>3, UnlinkedBrings
      <4> QED BY <4>1, <4>2, <4>3
    <3> QED BY <3>1, <3>2 DEF SameFor
  <2>2. x \notin strayed' => x \notin strayed
    BY <1>1, <1>9
  <2> QED BY <1>1, <1>2, <1>4, <1>8, <1>9, <2>1, <2>2, OrderStays DEF ToldOf
<1>10. CASE x = o
  <2>0. /\ op # "update" =>
              order'[x] = [order[x] EXCEPT !.status = NewStatus(op)] /\ note' = note /\ strayed' = strayed
        /\ op = "update" =>
              /\ order'[x].status = order[x].status
              /\ \A p \in DOMAIN order'[x].items : order'[x].received[p] = 0
    BY <1>1, <1>10
  <2>1. order[x] = handler[h].seen
    BY <1>3, <1>10
  <2>2. Allowed(op, order[x].status) /\ op \in OrderOps
    BY <1>1, <1>2, <2>1 DEF Loaded
  <2>3. CASE op = "update"
    <3>1. order[x].status = "draft" /\ order'[x].status = "draft"
      BY <2>0, <2>2, <2>3 DEF Allowed, Editable
    <3>2. NoNotesOf(x)'
      BY <1>4, <1>8, <3>1 DEF ToldOf, Early
    <3>3. DOMAIN order'[x].items \in SUBSET Product
      BY <1>2, RowFields
    <3>4. \A p \in Product : Brought(x, p)' = 0
      <4> SUFFICES ASSUME NEW p \in Product PROVE Brought(x, p)' = 0
        OBVIOUS
      <4> DEFINE g == [n \in Posted' |-> BroughtBy(note'[n].lines, <<x, p>>)]
      <4>1. Posted' \in SUBSET Note /\ IsFiniteSet(Posted')
        BY NotesFinite DEF Posted
      <4>2. \A n \in Note : note'[n].lines \in PerProduct(Line)
        BY <1>1, <1>2, <2>3, UnlinkedKeeps, SlipFields
      <4>3. <<x, p>> # NoItem /\ <<x, p>> \in ItemsIn(o)
        BY <1>10, ProcurementAssumption DEF ItemsIn
      <4>4. \A n \in Note : \A q \in DOMAIN note'[n].lines : note'[n].lines[q].item # <<x, p>>
        BY <1>5, <2>3, <4>3
      <4>5. \A n \in Posted' : g[n] = 0
        BY <4>1, <4>2, <4>4, BroughtByIsNat
      <4>6. Brought(x, p)' = SumFunctionOnSet(g, Posted')
        BY BroughtNext DEF Shares
      <4> HIDE DEF g
      <4> QED BY <4>1, <4>5, <4>6, SumOfZeros
    <3>5. RowTold(order[x])' /\ RowKept(order[x])'
      BY <2>0, <2>3, <3>1 DEF RowTold, RowKept, Open
    <3> QED BY <2>0, <2>3, <3>1, <3>2, <3>3, <3>4, <3>5 DEF ToldOf
  <2>4. CASE op # "update"
    <3> DEFINE s == NewStatus(op)
    <3>1. order[x] \in Rows
      BY <1>2, <1>8 DEF Shape
    <3>2. /\ order'[x].status = s /\ order'[x].items = order[x].items
          /\ order'[x].received = order[x].received
      BY <2>0, <2>4, <3>1 DEF Rows, Row
    <3>3. SameFor(x)
      BY <2>0, <2>4 DEF SameFor, Posted
    <3>4. DOMAIN order[x].items \in SUBSET Product /\ \A p \in Product : Brought(x, p)' = Brought(x, p)
      BY <1>2, <3>1, <3>3, BroughtSame, RowFields
    <3>5. \/ op = "submit" /\ order[x].status = "draft" /\ s = "submitted"
          \/ op = "approve" /\ order[x].status = "submitted" /\ s = "approved"
          \/ s = "cancelled"
      BY <2>2, <2>4 DEF Allowed, OrderOps, NewStatus
    <3>6. s \in Early => NoNotesOf(x)'
      BY <1>4, <1>8, <3>5 DEF ToldOf, Early
    <3>7. x \notin strayed => RowTold(order'[x])
      <4> SUFFICES ASSUME x \notin strayed, \E p \in DOMAIN order[x].items : order[x].items[p].qty > 0
                   PROVE  /\ s \in Early \cup {"approved"} => \A p \in DOMAIN order[x].items : order[x].received[p] = 0
                          /\ s = "fully_received" => Fully(order'[x])
                          /\ s \in Open \ {"fully_received"} => ~Fully(order'[x])
                          /\ s = "partially_received" => \E p \in DOMAIN order[x].items : order[x].received[p] > 0
        BY <3>2 DEF RowTold
      <4>1. CASE s = "cancelled"
        BY <4>1 DEF Early, Open
      <4>2. CASE s # "cancelled"
        <5>1. \A p \in DOMAIN order[x].items : order[x].received[p] = 0
          BY <1>8, <3>5, <4>2 DEF ToldOf, RowTold, Early
        <5>2. ~Fully(order'[x])
          <6>1. PICK p \in DOMAIN order[x].items : order[x].items[p].qty > 0
            OBVIOUS
          <6>2. order[x].items[p].qty \in Nat /\ order[x].received[p] = 0
            BY <3>1, <5>1, RowFields, Numbers
          <6> QED BY <3>2, <6>1, <6>2 DEF Fully
        <5> QED BY <3>5, <4>2, <5>1, <5>2 DEF Open
      <4> QED BY <4>1, <4>2
    <3>8. \A p \in DOMAIN order'[x].items : order'[x].received[p] = Brought(x, p)'
      BY <1>8, <3>2, <3>4 DEF ToldOf
    <3>9. (x \notin strayed' => RowTold(order[x])') /\ RowKept(order[x])'
      BY <2>0, <2>4, <3>2, <3>5, <3>7 DEF RowTold, RowKept, Fully
    <3>10. order'[x].status \in Early => NoNotesOf(x)'
      BY <3>2, <3>6
    <3> HIDE DEF s
    <3> QED BY <3>8, <3>9, <3>10 DEF ToldOf
  <2> QED BY <2>3, <2>4
<1> QED BY <1>9, <1>10

LEMMA PostCommitTells ==
    ASSUME Locks, Told, NEW h \in Handler, PostCommit(h) PROVE Told'
<1> DEFINE n == handler[h].on
           lines == note[n].lines
<1>1. /\ n \in Note /\ note[n].status = "draft" /\ note[n] \in Slip
      /\ note'[n].status = "posted" /\ note'[n].order = note[n].order /\ note'[n].lines = lines
      /\ \A m \in Note : m # n => note'[m] = note[m]
  BY Committed
<1>2. /\ Shape /\ raced' = raced /\ lines \in PerProduct(Line)
      /\ handler' = [handler EXCEPT ![h] = Idle] /\ handler \in [Handler -> Work]
  BY <1>1, SlipFields DEF Locks, PostCommit, Shape
<1>3. /\ \A o \in Order : order'[o] =
            IF o = note[n].order THEN Recomputed(Receive(o, lines)) ELSE Receive(o, lines)
      /\ strayed' = (strayed \cup {o \in Order : \E p \in DOMAIN lines : lines[p].item \in ItemsIn(o)})
                       \ {note[n].order}
  BY DEF PostCommit
<1>4. ASSUME NEW o \in Order
      PROVE  order'[o].items = order[o].items /\ (order'[o].status = "none" => order[o].status = "none")
  BY <1>2, <1>3, ReceivedRow
<1>5. Rooted'
  <2>1. \A o \in Order : order'[o].status = "none" => DOMAIN order'[o].items = {}
    BY <1>4 DEF Told, Rooted
  <2>2. ASSUME NEW m \in Note, NEW p \in DOMAIN note'[m].lines, note'[m].lines[p].item # NoItem
        PROVE  LET i == note'[m].lines[p].item IN
               i \in Order \X Product /\ i[2] \in DOMAIN order'[i[1]].items
    <3> DEFINE i == note[m].lines[p].item
    <3>1. note'[m].lines = note[m].lines
      BY <1>1
    <3>2. i \in Order \X Product /\ i[2] \in DOMAIN order[i[1]].items
      BY <2>2, <3>1 DEF Told, Rooted
    <3> HIDE DEF i
    <3>3. i[1] \in Order
      BY <3>2
    <3>4. order'[i[1]].items = order[i[1]].items
      BY <1>4, <3>3
    <3> QED BY <3>1, <3>2, <3>4 DEF i
  <2>3. ASSUME NEW g \in Handler, handler'[g].op \in OrderOps PROVE order'[handler'[g].on].status # "none"
    <3>1. handler'[g] = handler[g]
      BY <1>2, <2>3, EmptyShapes DEF OrderOps
    <3>2. handler[g].on \in Order /\ order[handler[g].on].status # "none"
      BY <2>3, <3>1 DEF Told, Rooted, Locks, Loaded
    <3> QED BY <1>4, <3>1, <3>2
  <2> QED BY <2>1, <2>2, <2>3 DEF Rooted
<1> SUFFICES ASSUME NEW o \in Order \ raced PROVE ToldOf(o)'
  BY <1>2, <1>5 DEF Told
<1>6. ToldOf(o) /\ order[o] \in Rows
  BY <1>2 DEF Told, Shape
<1>7. NoNotesOf(o) <=> NoNotesOf(o)'
  BY <1>1 DEF NoNotesOf
<1> DEFINE row == order[o]
           got == Receive(o, lines)
           new == Recomputed(got)
           more(p) == BroughtBy(lines, <<o, p>>)
<1>8. /\ got \in Rows /\ got.items = row.items /\ got.status = row.status
      /\ new \in Rows /\ new.items = row.items
      /\ \A p \in DOMAIN row.items :
            got.received[p] = row.received[p] + more(p) /\ new.received[p] = row.received[p] + more(p)
      /\ (\A p \in DOMAIN row.items : more(p) = 0) => got = row
      /\ row.status = "cancelled" => new.status = "cancelled"
      /\ row.status # "cancelled" =>
            new.status = IF Fully(new) THEN "fully_received"
                         ELSE IF \E p \in DOMAIN new.items : new.received[p] > 0
                         THEN "partially_received"
                         ELSE IF row.status = "partially_received" THEN "approved"
                         ELSE row.status
  BY <1>2, ReceivedRow
<1>9. \A p : Brought(o, p)' = Brought(o, p) + more(p)
  BY PostingBrings
<1>10. \A p \in DOMAIN row.items : more(p) \in Nat /\ row.received[p] \in Nat /\ row.items[p].qty \in Nat
  <2>1. \A p : more(p) \in Nat
    BY <1>2, BroughtByIsNat
  <2>2. \A p \in DOMAIN row.items : row.received[p] \in Nat /\ row.items[p].qty \in Nat
    BY <1>6, RowFields, Numbers
  <2> QED BY <2>1, <2>2
<1> HIDE DEF got, new
<1>11. \A p \in DOMAIN row.items :
           got.received[p] = Brought(o, p)' /\ new.received[p] = Brought(o, p)'
  BY <1>6, <1>8, <1>9 DEF ToldOf
<1>12. CASE note[n].order # o
  <2>1. order'[o] = got
    BY <1>3, <1>12 DEF got
  <2>2. RowKept(got)
    <3> SUFFICES ASSUME got.status = "fully_received", NEW p \in DOMAIN got.items
                 PROVE  got.received[p] >= got.items[p].qty
      BY DEF RowKept, Fully
    <3>1. got.items = row.items /\ row.status = "fully_received" /\ p \in DOMAIN row.items
      BY <1>8
    <3>2. row.received[p] >= row.items[p].qty
      BY <1>6, <3>1 DEF ToldOf, RowKept, Fully
    <3>3. got.received[p] = row.received[p] + more(p)
      BY <1>8, <3>1
    <3>4. more(p) \in Nat /\ row.received[p] \in Nat /\ row.items[p].qty \in Nat
      BY <1>10, <3>1
    <3> HIDE DEF more, row
    <3> QED BY <3>1, <3>2, <3>3, <3>4
  <2>3. ASSUME o \notin strayed' PROVE RowTold(got)
    <3>1. o \notin strayed /\ \A p \in DOMAIN lines : lines[p].item \notin ItemsIn(o)
      <4> DEFINE hit == {x \in Order : \E p \in DOMAIN lines : lines[p].item \in ItemsIn(x)}
                 own == note[n].order
      <4>1. strayed' = (strayed \cup hit) \ {own} /\ own # o
        BY <1>3, <1>12
      <4>2. o \in hit <=> \E p \in DOMAIN lines : lines[p].item \in ItemsIn(o)
        OBVIOUS
      <4> HIDE DEF hit, own
      <4>3. o \notin strayed /\ o \notin hit
        BY <2>3, <4>1
      <4> QED BY <4>2, <4>3
    <3>2. \A p \in DOMAIN row.items : p \in Product
      BY <1>6, RowFields
    <3>3. \A p \in Product : \A q \in DOMAIN lines : lines[q].item # <<o, p>>
      <4> SUFFICES ASSUME NEW p \in Product, NEW q \in DOMAIN lines PROVE lines[q].item # <<o, p>>
        BY Zenon
      <4>1. <<o, p>> \in ItemsIn(o)
        BY Zenon DEF ItemsIn
      <4>2. lines[q].item \notin ItemsIn(o)
        BY <3>1
      <4> HIDE DEF lines
      <4> QED BY <4>1, <4>2
    <3>4. \A p \in DOMAIN row.items : more(p) = 0
      BY <1>2, <3>2, <3>3, BroughtByIsNat
    <3> HIDE DEF more
    <3>5. got = row
      BY <1>8, <3>4
    <3> QED BY <1>6, <3>1, <3>5 DEF ToldOf
  <2>4. RowKept(order[o])' /\ (o \notin strayed' => RowTold(order[o])')
    BY <2>1, <2>2, <2>3 DEF RowTold, RowKept, Fully
  <2>5. \A p \in DOMAIN order'[o].items : order'[o].received[p] = Brought(o, p)'
    BY <1>8, <1>11, <2>1
  <2>6. order'[o].status \in Early => NoNotesOf(o)'
    BY <1>6, <1>7, <1>8, <2>1 DEF ToldOf
  <2> QED BY <2>4, <2>5, <2>6 DEF ToldOf
<1>13. CASE note[n].order = o
  <2>3. order'[o] = new
    BY <1>3, <1>13 DEF new, got
  <2>5. row.status \notin Early
    BY <1>1, <1>6, <1>13 DEF ToldOf, NoNotesOf
  <2>6. row.status \in Open \cup {"cancelled"}
    BY <1>6, <2>5, RowFields DEF Statuses, Early
  <2>8. \A p \in DOMAIN new.items : new.received[p] = Brought(o, p)'
    BY <1>8, <1>11
  <2> HIDE DEF more
  <2>9. new.status \notin Early
    BY <1>8, <2>5, <2>6 DEF Early, Open
  <2>10. RowTold(new) /\ RowKept(new)
    <3>1. CASE row.status = "cancelled"
      BY <1>8, <3>1 DEF RowTold, RowKept, Early, Open
    <3>2. CASE row.status # "cancelled"
      <4>1. row.status = "fully_received" => Fully(row)
        BY <1>6 DEF ToldOf, RowKept
      <4>2. Fully(row) => Fully(new)
        BY <1>8, <1>10 DEF Fully
      <4>3. \A p \in DOMAIN new.items : new.received[p] \in Nat
        BY <1>8, <1>10
      <4>4. CASE Fully(new)
        BY <1>8, <3>2, <4>4 DEF RowTold, RowKept, Early, Open
      <4>5. CASE ~Fully(new) /\ \E p \in DOMAIN new.items : new.received[p] > 0
        BY <1>8, <3>2, <4>5 DEF RowTold, RowKept, Early, Open
      <4>6. CASE ~Fully(new) /\ ~\E p \in DOMAIN new.items : new.received[p] > 0
        <5>1. \A p \in DOMAIN new.items : new.received[p] = 0
          BY <4>3, <4>6
        <5>2. new.status = "approved"
          BY <1>8, <2>6, <3>2, <4>1, <4>2, <4>6 DEF Open
        <5> QED BY <4>6, <5>1, <5>2 DEF RowTold, RowKept
      <4> QED BY <4>4, <4>5, <4>6
    <3> QED BY <3>1, <3>2
  <2>11. RowTold(order[o])' /\ RowKept(order[o])'
    BY <2>3, <2>10 DEF RowTold, RowKept, Fully
  <2> QED BY <2>3, <2>8, <2>9, <2>11 DEF ToldOf
<1> QED BY <1>12, <1>13

LEMMA OthersTell ==
    ASSUME Locks, Told, UNCHANGED <<order, note, raced, strayed>>,
           \A h \in Handler : handler'[h].op \in OrderOps =>
               handler'[h] = handler[h] \/ order[handler'[h].on].status # "none"
    PROVE  Told'
<1>1. Rooted'
  BY DEF Told, Rooted
<1> SUFFICES ASSUME NEW o \in Order \ raced PROVE ToldOf(o)'
  BY <1>1 DEF Told
<1>2. ToldOf(o) /\ Shape
  BY DEF Told, Locks
<1>3. SameFor(o) /\ (NoNotesOf(o) <=> NoNotesOf(o)')
  BY DEF SameFor, NoNotesOf, Posted
<1> QED BY <1>2, <1>3, OrderStays DEF ToldOf

LEMMA ToldKept == Locks /\ Told /\ [Next]_vars => Told'
<1> SUFFICES ASSUME Locks, Told, [Next]_vars PROVE Told'
  OBVIOUS
<1>1. ASSUME NEW o \in Order, CreatePO(o) PROVE Told'
  BY <1>1, CreatePOTells
<1>2. ASSUME NEW n \in Note, CreateGRN(n) \/ CancelGRN(n) PROVE Told'
  BY <1>2, NotesTell
<1>3. ASSUME NEW h \in Handler, WritePO(h) PROVE Told'
  BY <1>3, WritePOTells
<1>4. ASSUME NEW h \in Handler, PostCommit(h) PROVE Told'
  BY <1>4, PostCommitTells
<1>5. ASSUME NEW h \in Handler, NEW o \in Order, NEW op \in OrderOps, LoadPO(h, op, o) PROVE Told'
  <2>1. UNCHANGED <<order, note, raced, strayed>> /\ order[o].status # "none" /\ handler \in [Handler -> Work]
    BY <1>5 DEF LoadPO, Allowed, Editable, OrderOps, Locks, Shape
  <2> DEFINE w == [Idle EXCEPT !.op = op, !.on = o, !.seen = order[o]]
  <2>2. handler' = [handler EXCEPT ![h] = w] /\ w.on = o
    <3>1. w \in [op: {op}, on: {o}, seen: {order[o]}, read: {NoItems}]
      BY StartedWork
    <3> QED BY <1>5, <3>1 DEF LoadPO, Start
  <2> HIDE DEF w
  <2> QED BY <2>1, <2>2, OthersTell
<1>6. ASSUME NEW h \in Handler, NEW n \in Note, PostBegin(h, n) PROVE Told'
  <2>1. UNCHANGED <<order, note, raced, strayed>> /\ handler \in [Handler -> Work]
    BY <1>6 DEF PostBegin, Locks, Shape
  <2> DEFINE w == [Idle EXCEPT !.op = "post", !.on = n, !.seen = NewOrder]
  <2>2. handler' = [handler EXCEPT ![h] = w] /\ w.op = "post"
    <3>1. w \in [op: {"post"}, on: {n}, seen: {NewOrder}, read: {NoItems}]
      BY StartedWork
    <3> QED BY <1>6, <3>1 DEF PostBegin, Start
  <2> HIDE DEF w
  <2> QED BY <2>1, <2>2, OthersTell DEF OrderOps
<1>7. ASSUME NEW h \in Handler, NEW p \in Product, PostLine(h, p) PROVE Told'
  <2>1. UNCHANGED <<order, note, raced, strayed>> /\ handler \in [Handler -> Work] /\ handler[h].op = "post"
    BY <1>7 DEF PostLine, Locks, Shape
  <2>2. /\ \A g \in Handler : g # h => handler'[g] = handler[g]
        /\ handler'[h].op = handler[h].op
    BY <1>7, <2>1 DEF PostLine, Work
  <2> QED BY <2>1, <2>2, OthersTell DEF OrderOps
<1>8. ASSUME NEW h \in Handler, Rollback(h) PROVE Told'
  <2>1. UNCHANGED <<order, note, raced, strayed>> /\ handler \in [Handler -> Work]
        /\ handler' = [handler EXCEPT ![h] = Idle]
    BY <1>8 DEF Rollback, Locks, Shape
  <2> QED BY <2>1, EmptyShapes, OthersTell DEF OrderOps
<1>9. ASSUME NEW p \in Product, Sell(p) \/ \E c \in Cost : EditCost(p, c) PROVE Told'
  BY <1>9, OthersTell DEF Sell, EditCost
<1>10. ASSUME NEW i \in Invoice,
              CreateInvoiceMatch(i) \/ \E s \in {"matched", "disputed"} : ResolveInvoiceMatch(i, s)
       PROVE  Told'
  BY <1>10, OthersTell DEF CreateInvoiceMatch, ResolveInvoiceMatch
<1>11. CASE UNCHANGED vars
  BY <1>11, OthersTell DEF vars
<1> QED
  BY <1>1, <1>2, <1>3, <1>4, <1>5, <1>6, <1>7, <1>8, <1>9, <1>10, <1>11 DEF Next, OrderOps

LEMMA InitTold == Init => Told
<1> SUFFICES ASSUME Init PROVE Told
  OBVIOUS
<1>1. /\ \A o \in Order : order[o].items = NoItems
      /\ \A n \in Note : note[n].status = "none" /\ note[n].lines = NoItems
      /\ \A h \in Handler : handler[h].op = "idle"
  BY EmptyShapes DEF Init, NewOrder, NewNote
<1>2. DOMAIN NoItems = {}
  BY NoItemsShape
<1>3. Rooted
  BY <1>1, <1>2 DEF Rooted, OrderOps
<1>4. ASSUME NEW o \in Order PROVE ToldOf(o)
  <2>1. NoNotesOf(o)
    BY <1>1 DEF NoNotesOf
  <2>2. DOMAIN order[o].items = {}
    BY <1>1, <1>2
  <2> QED BY <2>1, <2>2 DEF ToldOf, RowTold, RowKept, Fully
<1> QED BY <1>3, <1>4 DEF Told

LEMMA ToldIsStatus == Locks /\ Told => StatusMatchesNotes
<1> SUFFICES ASSUME Locks, Told, NEW o \in Order \ raced
             PROVE  LET items == order[o].items IN
                    /\ \A p \in DOMAIN items : order[o].received[p] = Brought(o, p)
                    /\ order[o].status \in Open /\ o \notin strayed /\ (\E p \in DOMAIN items : items[p].qty > 0) =>
                          /\ order[o].status = "fully_received" <=>
                                \A p \in DOMAIN items : Brought(o, p) >= items[p].qty
                          /\ order[o].status = "approved" <=> \A p \in DOMAIN items : Brought(o, p) = 0
  BY DEF StatusMatchesNotes
<1> DEFINE items == order[o].items
<1>1. ToldOf(o) /\ order[o] \in Rows
  BY DEF Told, Locks, Shape
<1>2. \A p \in DOMAIN items : order[o].received[p] = Brought(o, p)
  BY <1>1 DEF ToldOf
<1>3. \A p \in DOMAIN items : items[p].qty \in Nat /\ order[o].received[p] \in Nat
  BY <1>1, RowFields, Numbers
<1>4. Fully(order[o]) <=> \A p \in DOMAIN items : Brought(o, p) >= items[p].qty
  BY <1>2 DEF Fully
<1>5. ASSUME order[o].status \in Open, o \notin strayed, NEW q \in DOMAIN items, items[q].qty > 0
      PROVE  /\ order[o].status = "fully_received" <=> Fully(order[o])
             /\ order[o].status = "approved" <=> \A p \in DOMAIN items : Brought(o, p) = 0
  <2>1. /\ order[o].status = "approved" => \A p \in DOMAIN items : order[o].received[p] = 0
        /\ order[o].status = "fully_received" => Fully(order[o])
        /\ order[o].status \in Open \ {"fully_received"} => ~Fully(order[o])
        /\ order[o].status = "partially_received" => \E p \in DOMAIN items : order[o].received[p] > 0
    BY <1>1, <1>5 DEF ToldOf, RowTold
  <2>2. (\A p \in DOMAIN items : order[o].received[p] = 0) => ~Fully(order[o])
    BY <1>3, <1>5 DEF Fully
  <2>3. order[o].status \in {"approved", "partially_received", "fully_received"}
    BY <1>5 DEF Open
  <2>4. (\A p \in DOMAIN items : Brought(o, p) = 0) <=> (\A p \in DOMAIN items : order[o].received[p] = 0)
    BY <1>2
  <2>5. order[o].status = "fully_received" <=> Fully(order[o])
    BY <1>5, <2>1 DEF Open
  <2>6. order[o].status = "partially_received" =>
            ~\A p \in DOMAIN items : order[o].received[p] = 0
    BY <1>3, <2>1
  <2> QED BY <2>1, <2>2, <2>3, <2>4, <2>5, <2>6
<1> QED BY <1>2, <1>4, <1>5

(* An order that no two handlers overlapped on says what its notes have      *)
(* brought: fully received when and only when every item is, approved when   *)
(* nothing has come (services/procurement.py: _recompute_po_status).         *)
THEOREM OrdersTellTheirNotes == Spec => []StatusMatchesNotes
<1>1. Locks /\ Told /\ [Next]_vars => (Locks /\ Told)'
  BY LocksKept, ToldKept
<1> QED BY <1>1, InitLocks, InitTold, ToldIsStatus, PTL DEF Spec

(* A step of the orders nobody overlapped on. *)
LEMMA FrozenStep ==
    ASSUME Locks, [Next]_vars, NEW o \in Order \ raced'
    PROVE  /\ order[o].status \notin {"none", "draft"} =>
                 order'[o].items = order[o].items /\ order'[o].status \notin {"none", "draft"}
           /\ order[o].status = "cancelled" => order'[o].status = "cancelled"
<1> DEFINE Frozen ==
             /\ order[o].status \notin {"none", "draft"} =>
                   order'[o].items = order[o].items /\ order'[o].status \notin {"none", "draft"}
             /\ order[o].status = "cancelled" => order'[o].status = "cancelled"
<1>0. Shape /\ order[o] \in Rows
  BY DEF Locks, Shape
<1>1. ASSUME NEW x \in Order, CreatePO(x) PROVE Frozen
  BY <1>0, <1>1 DEF CreatePO, Shape
<1>2. ASSUME NEW h \in Handler, WritePO(h) PROVE Frozen
  <2> DEFINE op == handler[h].op
  <2>1. /\ handler[h].on \in Order /\ op \in OrderOps
        /\ handler[h].on # o => order'[o] = order[o]
        /\ handler[h].on = o /\ op # "update" =>
              order'[o] = [order[o] EXCEPT !.status = NewStatus(op)]
    BY <1>2, WrittenRow
  <2>2. CASE handler[h].on # o
    BY <2>1, <2>2
  <2>3. CASE handler[h].on = o
    <3>1. order[o] = handler[h].seen
      BY <1>2, <2>3 DEF WritePO
    <3>2. Allowed(op, order[o].status)
      BY <2>1, <3>1 DEF Locks, Loaded
    <3>3. CASE op = "update"
      BY <3>2, <3>3 DEF Allowed, Editable
    <3>4. CASE op # "update"
      <4>1. order'[o].items = order[o].items /\ order'[o].status = NewStatus(op)
        BY <1>0, <2>1, <2>3, <3>4 DEF Rows, Row
      <4>2. NewStatus(op) \in {"submitted", "approved", "cancelled"}
        BY <2>1, <3>4 DEF NewStatus, OrderOps
      <4>3. order[o].status # "cancelled"
        BY <2>1, <3>2, <3>4 DEF Allowed, OrderOps
      <4> QED BY <4>1, <4>2, <4>3
    <3> QED BY <3>3, <3>4
  <2> QED BY <2>2, <2>3
<1>3. ASSUME NEW h \in Handler, PostCommit(h) PROVE Frozen
  <2> DEFINE lines == note[handler[h].on].lines
             got == Receive(o, lines)
             new == Recomputed(got)
  <2>1. order'[o] = new \/ order'[o] = got
    BY <1>3 DEF PostCommit
  <2>2. lines \in PerProduct(Line)
    BY <1>3, Committed, SlipFields
  <2>3. /\ new.items = order[o].items /\ got.items = order[o].items /\ got.status = order[o].status
        /\ order[o].status = "cancelled" => new.status = "cancelled"
        /\ order[o].status # "cancelled" =>
              new.status \in {"fully_received", "partially_received", "approved", order[o].status}
    BY <1>0, <2>2, ReceivedRow
  <2> HIDE DEF new, got
  <2> QED BY <2>1, <2>3
<1>4. ASSUME order' = order PROVE Frozen
  BY <1>4
<1>5. ASSUME NEW n \in Note, CreateGRN(n) \/ CancelGRN(n) PROVE Frozen
  BY <1>4, <1>5 DEF CreateGRN, CancelGRN
<1>6. ASSUME NEW h \in Handler, NEW x \in Order, NEW op \in OrderOps, LoadPO(h, op, x) PROVE Frozen
  BY <1>4, <1>6 DEF LoadPO
<1>7. ASSUME NEW h \in Handler, NEW n \in Note, PostBegin(h, n) PROVE Frozen
  BY <1>4, <1>7 DEF PostBegin
<1>8. ASSUME NEW h \in Handler, NEW p \in Product, PostLine(h, p) PROVE Frozen
  BY <1>4, <1>8 DEF PostLine
<1>9. ASSUME NEW h \in Handler, Rollback(h) PROVE Frozen
  BY <1>4, <1>9 DEF Rollback
<1>10. ASSUME NEW p \in Product, Sell(p) \/ \E c \in Cost : EditCost(p, c) PROVE Frozen
  BY <1>4, <1>10 DEF Sell, EditCost
<1>11. ASSUME NEW i \in Invoice,
              CreateInvoiceMatch(i) \/ \E s \in {"matched", "disputed"} : ResolveInvoiceMatch(i, s)
       PROVE  Frozen
  BY <1>4, <1>11 DEF CreateInvoiceMatch, ResolveInvoiceMatch
<1>12. ASSUME UNCHANGED vars PROVE Frozen
  BY <1>4, <1>12 DEF vars
<1> HIDE DEF Frozen
<1>13. Frozen
  BY <1>1, <1>2, <1>3, <1>5, <1>6, <1>7, <1>8, <1>9, <1>10, <1>11, <1>12 DEF Next, OrderOps
<1> QED BY <1>13 DEF Frozen

(* An order that no two handlers overlapped on keeps the items it was        *)
(* submitted with, and stays cancelled once it is (routers/procurement.py:   *)
(* update_po, submit_po, approve_po, cancel_po).                             *)
THEOREM OrdersStayFrozen == Spec => SubmittedIsFrozen
<1>1. Locks /\ [Next]_vars =>
        [\A o \in Order \ raced' :
            /\ order[o].status \notin {"none", "draft"} =>
                  order'[o].items = order[o].items /\ order'[o].status \notin {"none", "draft"}
            /\ order[o].status = "cancelled" => order'[o].status = "cancelled"]_vars
  BY FrozenStep
<1> QED BY <1>1, InitLocks, LocksKept, PTL DEF Spec, SubmittedIsFrozen

=============================================================================

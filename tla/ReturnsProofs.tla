--------------------------- MODULE ReturnsProofs ---------------------------
(***************************************************************************)
(* What holds of Returns in every interleaving, for any sales, returns and *)
(* requests: its types, the stock ledger, and one entry for each completed *)
(* return; and what holds as long as no two requests on the same lines     *)
(* overlap: the ceiling, the goods and the money, and that a decision      *)
(* stays.                                                                  *)
(***************************************************************************)
EXTENDS Returns, SumTheorems, TLAPS

Approving == [op : {"approve"}, phase : {"sum", "lock", "shelve"}, ret : Return,
              lines : SUBSET Line, method : RefundMethod, todo : SUBSET Line,
              line : Line \cup {Nobody}, fits : BOOLEAN, shelf : [Product -> Int]]

(* The lines of a return, and the products of its restorable lines.          *)
LEMMA LinesAreLines ==
    ASSUME NEW r \in Return
    PROVE  /\ LinesOf(r) \subseteq Line /\ Restorable(r) \subseteq Line
           /\ \A l \in Line : LineOf[l].product \in Product
  BY ReturnsAssumption DEF LinesOf, Restorable

(* Quantities and amounts are sums of numbers, and so numbers. *)
LEMMA SumsAreNumbers ==
    /\ \A r \in Return, p \in Product : Back(r, p) \in Int /\ Intact(r, p) \in Int
    /\ \A s \in Sale, p \in Product : SoldQty(s, p) \in Int
    /\ \A r \in Return : Worth(r) \in Int
    /\ \A s \in Sale : Price(s) \in Int
<1>1. \A S : S \subseteq Line => IsFiniteSet(S)
  BY ReturnsAssumption, FS_Subset
<1>2. \A l \in Line : LineOf[l].qty \in Int /\ LineOf[l].price \in Int
  BY ReturnsAssumption
<1>3. \A r \in Return, l \in Line : Asked[r].qty[l] \in Int
  BY ReturnsAssumption
<1>4. ASSUME NEW r \in Return, NEW p \in Product
      PROVE  Back(r, p) \in Int /\ Intact(r, p) \in Int
  <2> DEFINE S == {l \in Restorable(r) : LineOf[l].product = p}
             T == {l \in Line : LineOf[l].product = p} \ Asked[r].damaged
  <2>1. S \subseteq Line /\ T \subseteq Line
    BY LinesAreLines
  <2> HIDE DEF S, T
  <2>2. SumFunctionOnSet(Asked[r].qty, S) \in Int /\ SumFunctionOnSet(Asked[r].qty, T) \in Int
    BY <1>1, <1>3, <2>1, SumInt
  <2> QED
    BY <2>2 DEF Back, Intact, S, T
<1>5. ASSUME NEW s \in Sale, NEW p \in Product PROVE SoldQty(s, p) \in Int
  <2> DEFINE S == {l \in SaleLines(s) : LineOf[l].product = p}
             qty == [l \in Line |-> LineOf[l].qty]
  <2>1. S \subseteq Line /\ \A l \in Line : qty[l] \in Int
    BY <1>2 DEF SaleLines
  <2> HIDE DEF S, qty
  <2>2. SumFunctionOnSet(qty, S) \in Int
    BY <1>1, <2>1, SumInt
  <2> QED
    BY <2>2 DEF SoldQty, S, qty
<1>6. ASSUME NEW r \in Return PROVE Worth(r) \in Int
  <2> DEFINE value == [l \in Line |-> Asked[r].qty[l] * LineOf[l].price]
  <2>1. \A l \in Line : value[l] \in Int
    BY <1>2, <1>3
  <2> HIDE DEF value
  <2>2. SumFunctionOnSet(value, LinesOf(r)) \in Int
    BY <1>1, <2>1, LinesAreLines, SumInt
  <2> QED
    BY <2>2 DEF Worth, value
<1>7. ASSUME NEW s \in Sale PROVE Price(s) \in Int
  <2> DEFINE value == [l \in Line |-> LineOf[l].qty * LineOf[l].price]
  <2>1. \A l \in Line : value[l] \in Int
    BY <1>2
  <2> HIDE DEF value
  <2>2. SaleLines(s) \subseteq Line
    BY DEF SaleLines
  <2>3. SumFunctionOnSet(value, SaleLines(s)) \in Int
    BY <1>1, <2>1, <2>2, SumInt
  <2> QED
    BY <2>3 DEF Price, value
<1> QED
  BY <1>4, <1>5, <1>6, <1>7

(* A request that approves has the fields of an approval. *)
LEMMA ApprovalShape ==
    ASSUME NEW q \in Request, req[q] \in Served, req[q].op = "approve"
    PROVE  req[q] \in Approving
  BY DEF Served, Approving

(* A request on a return names one. *)
LEMMA ReturnShape ==
    ASSUME NEW q \in Request, req[q] \in Served, req[q].op \in {"create", "reject", "approve"}
    PROVE  req[q].ret \in Return
  BY DEF Served

LEMMA VoidShape ==
    ASSUME NEW q \in Request, req[q] \in Served, req[q].op = "void"
    PROVE  req[q].sale \in Sale
  BY DEF Served

(* Releasing gives up the request's locks and no other. *)
LEMMA ReleasedLocks ==
    ASSUME NEW X, NEW lock \in [X -> Request \cup {Nobody}], NEW q \in Request
    PROVE  /\ Released(lock, q) \in [X -> Request \cup {Nobody}]
           /\ \A x \in X : \A k \in Request : k # q /\ lock[x] = k => Released(lock, q)[x] = k
  BY ReturnsAssumption DEF Released

LEMMA FinishTypes ==
    ASSUME TypeOK, NEW q \in Request, Finish(q)
    PROVE  /\ req' \in [Request -> Served]
           /\ lineLock' \in [Line -> Request \cup {Nobody}]
           /\ productLock' \in [Product -> Request \cup {Nobody}]
           /\ \A k \in Request : k # q => req'[k] = req[k]
           /\ req'[q] = NoRequest
           /\ \A p \in Product : \A k \in Request :
                  k # q /\ productLock[p] = k => productLock'[p] = k
<1>1. NoRequest \in Served
  BY DEF NoRequest, Served
<1>2. req' \in [Request -> Served] /\ req'[q] = NoRequest
      /\ \A k \in Request : k # q => req'[k] = req[k]
  BY <1>1 DEF Finish, Becomes, TypeOK
<1>3. lineLock \in [Line -> Request \cup {Nobody}] /\ productLock \in [Product -> Request \cup {Nobody}]
  BY DEF TypeOK
<1>4. /\ lineLock' \in [Line -> Request \cup {Nobody}]
      /\ productLock' \in [Product -> Request \cup {Nobody}]
      /\ \A p \in Product : \A k \in Request : k # q /\ productLock[p] = k => productLock'[p] = k
  BY <1>3, ReleasedLocks DEF Finish
<1> QED
  BY <1>2, <1>4

-----------------------------------------------------------------------------
(* What an approval has read is still true: the products of the restorable   *)
(* lines it is done with are locked by it, and on the shelf as it read them. *)
ShelfHeld(q) ==
    (req[q].op = "approve" /\ req[q].phase = "shelve") =>
        \A l \in Restorable(req[q].ret) \ req[q].todo :
            /\ productLock[LineOf[l].product] = q
            /\ req[q].shelf[LineOf[l].product] = stock[LineOf[l].product]

IInv == TypeOK /\ StockIsLedger /\ PostedOnce /\ \A q \in Request : ShelfHeld(q)

LEMMA InitHolds == Init => IInv
<1> SUFFICES ASSUME Init PROVE IInv
  OBVIOUS
<1>1. NoRequest \in Served
  BY DEF NoRequest, Served
<1>2. TypeOK
  <2>1. ret \in [Return -> [status : {"absent", "pending", "completed", "rejected"},
                          method : RefundMethod \cup {"none"}]]
    BY DEF Init
  <2>2. stock \in [Product -> Int] /\ wallet \in [Customer -> Int] /\ cash \in [Till -> Int]
    BY ReturnsAssumption DEF Init
  <2>4. status \in [Sale -> {"COMPLETED", "VOIDED"}]
    BY DEF Init
  <2>5. moved \in [Product -> Int] /\ posted \in [Return -> Nat]
    BY DEF Init
  <2>6. open \subseteq Till
    BY DEF Init
  <2>7. raced \in BOOLEAN
    BY DEF Init
  <2>3. /\ lineLock \in [Line -> Request \cup {Nobody}]
        /\ productLock \in [Product -> Request \cup {Nobody}]
        /\ req \in [Request -> Served]
    BY <1>1 DEF Init
  <2> QED
    BY <2>1, <2>2, <2>3, <2>4, <2>5, <2>6, <2>7 DEF TypeOK
<1>3. StockIsLedger
  BY ReturnsAssumption DEF Init, StockIsLedger
<1>4. PostedOnce
  BY DEF Init, PostedOnce, Completed
<1>5. \A q \in Request : ShelfHeld(q)
  BY DEF Init, ShelfHeld, NoRequest
<1> QED
  BY <1>2, <1>3, <1>4, <1>5 DEF IInv

(* A shelf that others hold is not disturbed by a step that takes no lock    *)
(* away from them and leaves what they locked in place.                      *)
LEMMA OthersHeld ==
    ASSUME IInv, NEW k \in Request, req'[k] = req[k],
           \A p \in Product : productLock[p] = k => productLock'[p] = k /\ stock'[p] = stock[p]
    PROVE  ShelfHeld(k)'
<1> SUFFICES ASSUME req[k].op = "approve", req[k].phase = "shelve",
                    NEW l \in Restorable(req[k].ret) \ req[k].todo
             PROVE  /\ productLock'[LineOf[l].product] = k
                    /\ req[k].shelf[LineOf[l].product] = stock'[LineOf[l].product]
  BY DEF ShelfHeld
<1>1. req[k] \in Approving
  BY ApprovalShape DEF IInv, TypeOK
<1>2. LineOf[l].product \in Product
  BY <1>1, LinesAreLines DEF Approving
<1>3. ShelfHeld(k)
  BY DEF IInv
<1> QED
  BY <1>2, <1>3 DEF ShelfHeld

(* Steps that write neither the books nor the product locks. *)
LEMMA BeginKeeps ==
    ASSUME IInv, NEW q \in Request, NEW what \in Served, Becomes(q, what),
           ~(what.op = "approve" /\ what.phase = "shelve"),
           lineLock' \in [Line -> Request \cup {Nobody}], raced' \in BOOLEAN,
           UNCHANGED <<books, productLock>>
    PROVE  IInv'
<1>1. req' \in [Request -> Served] /\ req'[q] = what /\ \A k \in Request : k # q => req'[k] = req[k]
  BY DEF Becomes, IInv, TypeOK
<1>2. TypeOK' /\ StockIsLedger' /\ PostedOnce'
  BY <1>1 DEF IInv, TypeOK, StockIsLedger, PostedOnce, Completed, books
<1>3. ShelfHeld(q)'
  BY <1>1 DEF ShelfHeld
<1>4. ASSUME NEW k \in Request, k # q PROVE ShelfHeld(k)'
  BY <1>1, <1>4, OthersHeld DEF books
<1> QED
  BY <1>2, <1>3, <1>4 DEF IInv

(* Steps that end a request, and write only products that nobody else has.   *)
LEMMA EndKeepsShelves ==
    ASSUME IInv, NEW q \in Request, Finish(q),
           \A p \in Product : productLock[p] \in {q, Nobody} \/ stock'[p] = stock[p]
    PROVE  \A k \in Request : ShelfHeld(k)'
<1>1. /\ req'[q] = NoRequest
      /\ \A k \in Request : k # q => req'[k] = req[k]
      /\ \A p \in Product : \A k \in Request : k # q /\ productLock[p] = k => productLock'[p] = k
  BY FinishTypes DEF IInv
<1>2. ShelfHeld(q)'
  BY <1>1 DEF ShelfHeld, NoRequest
<1>3. ASSUME NEW k \in Request, k # q PROVE ShelfHeld(k)'
  <2>1. \A p \in Product : productLock[p] = k => productLock'[p] = k /\ stock'[p] = stock[p]
    BY <1>1, <1>3, ReturnsAssumption
  <2> QED
    BY <1>1, <1>3, <2>1, OthersHeld
<1> QED
  BY <1>2, <1>3

LEMMA AbortKeeps ==
    ASSUME IInv, NEW q \in Request, Abort(q)
    PROVE  IInv'
<1>1. Finish(q) /\ UNCHANGED <<books, raced>>
  BY DEF Abort
<1>2. TypeOK'
  BY <1>1, FinishTypes DEF IInv, TypeOK, books
<1>3. StockIsLedger' /\ PostedOnce'
  BY <1>1 DEF IInv, StockIsLedger, PostedOnce, Completed, books
<1>4. \A k \in Request : ShelfHeld(k)'
  BY <1>1, EndKeepsShelves DEF books
<1> QED
  BY <1>2, <1>3, <1>4 DEF IInv

(* A return that changes its status without being completed.                 *)
LEMMA StatusKeeps ==
    ASSUME IInv, NEW q \in Request, CreateCommit(q) \/ RejectCommit(q)
    PROVE  IInv'
<1> DEFINE r == req[q].ret
<1>1. /\ Finish(q)
      /\ UNCHANGED <<status, stock, moved, wallet, cash, open, posted, raced>>
      /\ \/ ret' = [ret EXCEPT ![r].status = "pending"]
         \/ ret' = [ret EXCEPT ![r].status = "rejected"]
  BY DEF CreateCommit, RejectCommit
<1>2. r \in Return
  BY ReturnShape DEF IInv, TypeOK, CreateCommit, RejectCommit, At
<1>3. ret' \in [Return -> [status : {"absent", "pending", "completed", "rejected"},
                         method : RefundMethod \cup {"none"}]]
  BY <1>1, <1>2 DEF IInv, TypeOK
<1>4. \A t \in Return : ret'[t].status = "completed" => ret[t].status = "completed"
  BY <1>1, <1>2 DEF IInv, TypeOK
<1>5. TypeOK'
  BY <1>1, <1>3, FinishTypes DEF IInv, TypeOK
<1>6. StockIsLedger' /\ PostedOnce'
  BY <1>1, <1>4 DEF IInv, StockIsLedger, PostedOnce, Completed
<1>7. \A k \in Request : ShelfHeld(k)'
  BY <1>1, EndKeepsShelves
<1> QED
  BY <1>5, <1>6, <1>7 DEF IInv

LEMMA ShelveKeeps ==
    ASSUME IInv, NEW q \in Request, NEW l \in Line, ApproveShelve(q, l)
    PROVE  IInv'
<1> DEFINE p == LineOf[l].product
           what == [req[q] EXCEPT !.todo = @ \ {l}, !.shelf = [@ EXCEPT ![p] = stock[p]]]
<1>1. /\ req[q].op = "approve" /\ req[q].phase = "shelve" /\ l \in req[q].todo
      /\ productLock[p] \in {Nobody, q} /\ productLock' = [productLock EXCEPT ![p] = q]
      /\ Becomes(q, what)
      /\ UNCHANGED <<books, lineLock, raced>>
  BY DEF ApproveShelve, At, Granted
<1>2. req[q] \in Approving
  BY <1>1, ApprovalShape DEF IInv, TypeOK
<1>3. p \in Product /\ stock[p] \in Int
  BY LinesAreLines, ReturnsAssumption DEF IInv, TypeOK
<1>4. /\ what \in Approving /\ what.ret = req[q].ret /\ what.todo = req[q].todo \ {l}
      /\ what.shelf = [req[q].shelf EXCEPT ![p] = stock[p]]
      /\ what.op = "approve" /\ what.phase = "shelve"
  <2> DEFINE shelf == [req[q].shelf EXCEPT ![p] = stock[p]]
             todo == req[q].todo \ {l}
  <2>1. shelf \in [Product -> Int] /\ todo \in SUBSET Line
    BY <1>2, <1>3 DEF Approving
  <2>2. what = [req[q] EXCEPT !.todo = todo, !.shelf = shelf]
    OBVIOUS
  <2> HIDE DEF shelf, todo, what
  <2>3. what \in Approving /\ what.ret = req[q].ret /\ what.todo = todo /\ what.shelf = shelf
        /\ what.op = req[q].op /\ what.phase = req[q].phase
    BY <1>2, <2>1, <2>2 DEF Approving
  <2> QED
    BY <1>1, <2>3 DEF shelf, todo
<1>5. what \in Served
  BY <1>4 DEF Served, Approving
<1>6. /\ req' \in [Request -> Served] /\ req'[q] = what
      /\ \A k \in Request : k # q => req'[k] = req[k]
  BY <1>1, <1>5 DEF Becomes, IInv, TypeOK
<1>7. productLock' \in [Product -> Request \cup {Nobody}]
  BY <1>1 DEF IInv, TypeOK
<1>8. TypeOK' /\ StockIsLedger' /\ PostedOnce'
  BY <1>1, <1>6, <1>7 DEF IInv, TypeOK, StockIsLedger, PostedOnce, Completed, books
<1>9. ShelfHeld(q)'
  <2> SUFFICES ASSUME NEW m \in Restorable(req[q].ret) \ (req[q].todo \ {l})
               PROVE  /\ productLock'[LineOf[m].product] = q
                      /\ what.shelf[LineOf[m].product] = stock[LineOf[m].product]
    BY <1>1, <1>4, <1>6 DEF ShelfHeld, books
  <2>1. req[q].ret \in Return /\ req[q].shelf \in [Product -> Int]
    BY <1>2 DEF Approving
  <2>2. LineOf[m].product \in Product
    BY <2>1, LinesAreLines
  <2>3. CASE LineOf[m].product = p
    BY <1>1, <1>3, <1>4, <2>1, <2>3 DEF IInv, TypeOK
  <2>4. CASE LineOf[m].product # p
    <3>1. m \in Restorable(req[q].ret) \ req[q].todo
      BY <2>4
    <3>2. /\ productLock[LineOf[m].product] = q
          /\ req[q].shelf[LineOf[m].product] = stock[LineOf[m].product]
      BY <1>1, <3>1 DEF IInv, ShelfHeld
    <3> QED
      BY <1>1, <1>4, <2>1, <2>2, <2>4, <3>2 DEF IInv, TypeOK
  <2> QED
    BY <2>3, <2>4
<1>10. ASSUME NEW k \in Request, k # q PROVE ShelfHeld(k)'
  <2>1. \A x \in Product : productLock[x] = k => productLock'[x] = k /\ stock'[x] = stock[x]
    BY <1>1, <1>10, ReturnsAssumption DEF IInv, TypeOK, books
  <2> QED
    BY <1>6, <1>10, <2>1, OthersHeld
<1> QED
  BY <1>8, <1>9, <1>10 DEF IInv

(* Steps that begin a request, or sum a line for an approval. *)
LEMMA StartTypes ==
    ASSUME IInv, NEW lines, Starts(lines)
    PROVE  raced' \in BOOLEAN
  BY DEF Starts, IInv, TypeOK

LEMMA BeginsKeep ==
    ASSUME IInv, NEW q \in Request,
           \/ \E r \in Return : CreateBegin(q, r) \/ RejectBegin(q, r)
           \/ \E s \in Sale : VoidBegin(q, s)
           \/ \E r \in Return, method \in RefundMethod : ApproveBegin(q, r, method)
    PROVE  IInv'
<1>1. ASSUME NEW r \in Return, CreateBegin(q, r) PROVE IInv'
  <2> DEFINE what == [op |-> "create", phase |-> "checked", ret |-> r, lines |-> LinesOf(r)]
  <2>1. what \in Served
    BY LinesAreLines DEF Served
  <2>2. /\ Becomes(q, what) /\ Starts(LinesOf(r)) /\ UNCHANGED <<books, lineLock, productLock>>
    BY <1>1 DEF CreateBegin
  <2> QED
    BY <2>1, <2>2, BeginKeeps, StartTypes DEF IInv, TypeOK
<1>2. ASSUME NEW r \in Return, RejectBegin(q, r) PROVE IInv'
  <2> DEFINE what == [op |-> "reject", phase |-> "checked", ret |-> r, lines |-> LinesOf(r)]
  <2>1. what \in Served
    BY LinesAreLines DEF Served
  <2>2. /\ Becomes(q, what) /\ Starts(LinesOf(r)) /\ UNCHANGED <<books, lineLock, productLock>>
    BY <1>2 DEF RejectBegin
  <2> QED
    BY <2>1, <2>2, BeginKeeps, StartTypes DEF IInv, TypeOK
<1>3. ASSUME NEW s \in Sale, VoidBegin(q, s) PROVE IInv'
  <2> DEFINE what == [op |-> "void", phase |-> "checked", sale |-> s, lines |-> SaleLines(s)]
  <2>1. what \in Served
    BY DEF Served, SaleLines
  <2>2. /\ Becomes(q, what) /\ Starts(SaleLines(s)) /\ UNCHANGED <<books, lineLock, productLock>>
    BY <1>3 DEF VoidBegin
  <2> QED
    BY <2>1, <2>2, BeginKeeps, StartTypes DEF IInv, TypeOK
<1>4. ASSUME NEW r \in Return, NEW method \in RefundMethod, ApproveBegin(q, r, method) PROVE IInv'
  <2> DEFINE what == [op |-> "approve", phase |-> "sum", ret |-> r, lines |-> LinesOf(r),
                      method |-> method, todo |-> LinesOf(r), line |-> Nobody, fits |-> FALSE,
                      shelf |-> [p \in Product |-> 0]]
  <2>1. what \in Served
    BY LinesAreLines DEF Served
  <2>2. /\ Becomes(q, what) /\ Starts(LinesOf(r)) /\ UNCHANGED <<books, lineLock, productLock>>
    BY <1>4 DEF ApproveBegin
  <2> QED
    BY <2>1, <2>2, BeginKeeps, StartTypes DEF IInv, TypeOK
<1> QED
  BY <1>1, <1>2, <1>3, <1>4

LEMMA SumKeeps ==
    ASSUME IInv, NEW q \in Request, NEW l \in Line, ApproveSum(q, l)
    PROVE  IInv'
<1> DEFINE fits == Fits(req[q].ret, l)
           what == [req[q] EXCEPT !.phase = "lock", !.line = l, !.fits = fits]
<1>1. /\ req[q].op = "approve" /\ Becomes(q, what)
      /\ UNCHANGED <<books, lineLock, productLock, raced>>
  BY DEF ApproveSum, At
<1>2. req[q] \in Approving
  BY <1>1, ApprovalShape DEF IInv, TypeOK
<1>3. fits \in BOOLEAN
  BY DEF Fits
<1>4. what \in Served /\ what.phase = "lock"
  <2> HIDE DEF fits
  <2> QED
    BY <1>2, <1>3 DEF Served, Approving
<1> QED
  BY <1>1, <1>4, BeginKeeps DEF IInv, TypeOK

(* The step that locks a line, and with the last one begins with the shelf,  *)
(* of which nothing is read yet.                                             *)
LEMMA LockKeeps ==
    ASSUME IInv, NEW q \in Request, ApproveLock(q)
    PROVE  IInv'
<1> DEFINE l == req[q].line
           left == req[q].todo \ {l}
           more == [req[q] EXCEPT !.phase = "sum", !.todo = left, !.line = Nobody]
           last == [req[q] EXCEPT !.phase = "shelve", !.todo = Restorable(req[q].ret),
                                !.line = Nobody]
<1>1. /\ req[q].op = "approve" /\ (Becomes(q, more) \/ Becomes(q, last))
      /\ lineLock' = [lineLock EXCEPT ![l] = q] /\ UNCHANGED <<books, productLock, raced>>
  BY DEF ApproveLock, At
<1>2. req[q] \in Approving
  BY <1>1, ApprovalShape DEF IInv, TypeOK
<1>3. Restorable(req[q].ret) \in SUBSET Line /\ left \in SUBSET Line
  BY <1>2, LinesAreLines DEF Approving
<1>4. lineLock' \in [Line -> Request \cup {Nobody}] /\ raced' \in BOOLEAN
  BY <1>1 DEF IInv, TypeOK
<1>5. CASE Becomes(q, more)
  <2>1. more \in Served /\ more.phase = "sum"
    BY <1>2, <1>3 DEF Served, Approving
  <2> QED
    BY <1>1, <1>4, <1>5, <2>1, BeginKeeps
<1>6. CASE Becomes(q, last)
  <2>1. last \in Served /\ last.todo = Restorable(req[q].ret) /\ last.ret = req[q].ret
    BY <1>2, <1>3 DEF Served, Approving
  <2>2. /\ req' \in [Request -> Served] /\ req'[q] = last
        /\ \A k \in Request : k # q => req'[k] = req[k]
    BY <1>6, <2>1 DEF Becomes, IInv, TypeOK
  <2>3. TypeOK' /\ StockIsLedger' /\ PostedOnce'
    BY <1>1, <1>4, <2>2 DEF IInv, TypeOK, StockIsLedger, PostedOnce, Completed, books
  <2>4. ShelfHeld(q)'
    BY <2>1, <2>2 DEF ShelfHeld
  <2>5. ASSUME NEW k \in Request, k # q PROVE ShelfHeld(k)'
    BY <1>1, <2>2, <2>5, OthersHeld DEF books
  <2> QED
    BY <2>3, <2>4, <2>5 DEF IInv
<1> QED
  BY <1>1, <1>5, <1>6

(* Everything an approval read is as it was: it writes what it should.       *)
LEMMA ApproveCommitKeeps ==
    ASSUME IInv, NEW q \in Request, ApproveCommit(q)
    PROVE  IInv'
<1> DEFINE r == req[q].ret
           c == Sold[SaleOf(r)].customer
           t == Sold[SaleOf(r)].till
           method == req[q].method
<1>1. /\ req[q].op = "approve" /\ req[q].phase = "shelve" /\ req[q].todo = {}
      /\ stock' = [p \in Product |-> IF p \in Shelved(r) THEN req[q].shelf[p] + Back(r, p) ELSE stock[p]]
      /\ moved' = [p \in Product |-> IF p \in Shelved(r) THEN moved[p] + Back(r, p) ELSE moved[p]]
      /\ ret' = [ret EXCEPT ![r] = [status |-> "completed", method |-> method]]
      /\ RefundWallet(r, method) /\ RefundTill(r, method) /\ PostReturn(r)
      /\ Finish(q) /\ UNCHANGED <<status, open, raced>>
  BY DEF ApproveCommit, At
<1>2. r \in Return /\ method \in RefundMethod
  BY <1>1, ApprovalShape DEF IInv, TypeOK, Approving
<1>3. \A p \in Shelved(r) : productLock[p] = q /\ req[q].shelf[p] = stock[p]
  BY <1>1 DEF IInv, ShelfHeld, Shelved
<1>4. stock' = [p \in Product |-> IF p \in Shelved(r) THEN stock[p] + Back(r, p) ELSE stock[p]]
  BY <1>1, <1>3
<1>5. /\ stock' \in [Product -> Int] /\ moved' \in [Product -> Int]
      /\ \A p \in Product : stock'[p] = InitStock[p] + moved'[p]
  <2> SUFFICES ASSUME NEW p \in Product
               PROVE  /\ stock'[p] \in Int /\ moved'[p] \in Int
                      /\ stock'[p] = InitStock[p] + moved'[p]
    BY <1>1, <1>4
  <2>1. /\ stock[p] \in Int /\ moved[p] \in Int /\ stock[p] = InitStock[p] + moved[p]
        /\ Back(r, p) \in Int /\ InitStock[p] \in Int
    BY <1>2, SumsAreNumbers, ReturnsAssumption DEF IInv, TypeOK, StockIsLedger
  <2> QED
    BY <1>1, <1>4, <2>1
<1>6. wallet' \in [Customer -> Int]
  <2>1. Worth(r) \in Int /\ wallet \in [Customer -> Int]
    BY <1>2, SumsAreNumbers DEF IInv, TypeOK
  <2>2. wallet' = wallet \/ wallet' = [wallet EXCEPT ![c] = @ + Worth(r)]
    BY <1>1 DEF RefundWallet
  <2> QED
    BY <2>1, <2>2
<1>7. cash' \in [Till -> Int]
  <2>1. Worth(r) \in Int /\ cash \in [Till -> Int]
    BY <1>2, SumsAreNumbers DEF IInv, TypeOK
  <2>2. cash' = cash \/ cash' = [cash EXCEPT ![t] = @ - Worth(r)]
    BY <1>1 DEF RefundTill
  <2> QED
    BY <2>1, <2>2
<1>8. /\ posted' \in [Return -> Nat]
      /\ posted' = IF Worth(r) > 0 /\ posted[r] = 0 THEN [posted EXCEPT ![r] = 1] ELSE posted
  BY <1>1 DEF PostReturn, IInv, TypeOK
<1>9. /\ ret' \in [Return -> [status : {"absent", "pending", "completed", "rejected"},
                             method : RefundMethod \cup {"none"}]]
      /\ \A x \in Return : x # r => ret'[x] = ret[x]
  BY <1>1, <1>2 DEF IInv, TypeOK
<1>10. TypeOK'
  BY <1>1, <1>5, <1>6, <1>7, <1>8, <1>9, FinishTypes DEF IInv, TypeOK
<1>11. PostedOnce'
  <2> SUFFICES ASSUME NEW x \in Return
               PROVE  /\ posted'[x] <= 1
                      /\ ret'[x].status = "completed" /\ Worth(x) > 0 => posted'[x] = 1
    BY DEF PostedOnce, Completed
  <2>1. /\ posted[x] \in Nat /\ posted[x] <= 1 /\ posted \in [Return -> Nat]
        /\ ret[x].status = "completed" /\ Worth(x) > 0 => posted[x] = 1
    BY DEF IInv, TypeOK, PostedOnce, Completed
  <2>2. CASE x = r
    BY <1>8, <2>1, <2>2
  <2>3. CASE x # r
    BY <1>8, <1>9, <2>1, <2>3
  <2> QED
    BY <2>2, <2>3
<1>12. \A k \in Request : ShelfHeld(k)'
  <2>1. \A p \in Product : productLock[p] \in {q, Nobody} \/ stock'[p] = stock[p]
    BY <1>3, <1>4
  <2> QED
    BY <1>1, <2>1, EndKeepsShelves
<1> QED
  BY <1>5, <1>10, <1>11, <1>12 DEF IInv, StockIsLedger

LEMMA VoidCommitKeeps ==
    ASSUME IInv, NEW q \in Request, VoidCommit(q)
    PROVE  IInv'
<1> DEFINE s == req[q].sale
           b == Sold[s]
<1>1. /\ req[q].op = "void" /\ \A p \in ProductsOf(s) : productLock[p] \in {Nobody, q}
      /\ stock' = [p \in Product |-> IF p \in ProductsOf(s) THEN stock[p] + SoldQty(s, p) ELSE stock[p]]
      /\ moved' = [p \in Product |-> IF p \in ProductsOf(s) THEN moved[p] + SoldQty(s, p) ELSE moved[p]]
      /\ wallet' = wallet \/ wallet' = [wallet EXCEPT ![b.customer] = @ + Price(s)]
      /\ cash' = cash \/ cash' = [cash EXCEPT ![b.till] = @ - Price(s)]
      /\ status' = [status EXCEPT ![s] = "VOIDED"]
      /\ Finish(q) /\ UNCHANGED <<ret, open, posted, raced>>
  BY DEF VoidCommit, At, Granted
<1>2. s \in Sale /\ Price(s) \in Int
  BY <1>1, VoidShape, SumsAreNumbers DEF IInv, TypeOK
<1>3. /\ stock' \in [Product -> Int] /\ moved' \in [Product -> Int]
      /\ \A p \in Product : stock'[p] = InitStock[p] + moved'[p]
  <2> SUFFICES ASSUME NEW p \in Product
               PROVE  /\ stock'[p] \in Int /\ moved'[p] \in Int
                      /\ stock'[p] = InitStock[p] + moved'[p]
    BY <1>1
  <2>1. /\ stock[p] \in Int /\ moved[p] \in Int /\ stock[p] = InitStock[p] + moved[p]
        /\ SoldQty(s, p) \in Int /\ InitStock[p] \in Int
    BY <1>2, SumsAreNumbers, ReturnsAssumption DEF IInv, TypeOK, StockIsLedger
  <2> QED
    BY <1>1, <2>1
<1>4. wallet' \in [Customer -> Int] /\ cash' \in [Till -> Int]
      /\ status' \in [Sale -> {"COMPLETED", "VOIDED"}]
  BY <1>1, <1>2 DEF IInv, TypeOK
<1>5. TypeOK'
  BY <1>1, <1>3, <1>4, FinishTypes DEF IInv, TypeOK
<1>6. PostedOnce'
  BY <1>1 DEF IInv, PostedOnce, Completed
<1>7. \A k \in Request : ShelfHeld(k)'
  BY <1>1, EndKeepsShelves
<1> QED
  BY <1>3, <1>5, <1>6, <1>7 DEF IInv, StockIsLedger

LEMMA CloseKeeps ==
    ASSUME IInv, NEW t \in Till, CloseTill(t)
    PROVE  IInv'
<1>1. TypeOK'
  BY DEF CloseTill, IInv, TypeOK
<1>2. \A k \in Request : ShelfHeld(k)'
  BY OthersHeld DEF CloseTill
<1> QED
  BY <1>1, <1>2 DEF CloseTill, IInv, StockIsLedger, PostedOnce, Completed

LEMMA NextKeeps == IInv /\ [Next]_vars => IInv'
<1> SUFFICES ASSUME IInv, [Next]_vars PROVE IInv'
  OBVIOUS
<1>1. CASE UNCHANGED vars
  <2>1. TypeOK' /\ StockIsLedger' /\ PostedOnce'
    BY <1>1 DEF IInv, TypeOK, StockIsLedger, PostedOnce, Completed, vars, books
  <2>2. \A k \in Request : ShelfHeld(k)'
    BY <1>1, OthersHeld DEF vars, books
  <2> QED
    BY <2>1, <2>2 DEF IInv
<1>2. ASSUME NEW q \in Request, Serve(q) PROVE IInv'
  BY <1>2, BeginsKeep, SumKeeps, LockKeeps, ShelveKeeps, ApproveCommitKeeps, StatusKeeps,
     VoidCommitKeeps, AbortKeeps
     DEF Serve
<1>3. ASSUME NEW t \in Till, CloseTill(t) PROVE IInv'
  BY <1>3, CloseKeeps
<1> QED
  BY <1>1, <1>2, <1>3 DEF Next

LEMMA Invariant == Spec => []IInv
  BY InitHolds, NextKeeps, PTL DEF Spec

-----------------------------------------------------------------------------
(* The state keeps its shape, whatever requests do to one another. *)
THEOREM TypesCorrect == Spec => []TypeOK
<1>1. IInv => TypeOK
  BY DEF IInv
<1> QED
  BY <1>1, Invariant, PTL

(* approve_and_complete and void_transaction read a product under its lock   *)
(* and write it at the commit: the shelf is always what the movements say.   *)
THEOREM LedgerAgrees == Spec => []StockIsLedger
<1>1. IInv => StockIsLedger
  BY DEF IInv
<1> QED
  BY <1>1, Invariant, PTL

(* post_return in the transaction of the approval: a completed return of     *)
(* some value has exactly one entry, and no return has two.                  *)
THEOREM ReturnsPostedOnce == Spec => []PostedOnce
<1>1. IInv => PostedOnce
  BY DEF IInv
<1> QED
  BY <1>1, Invariant, PTL

-----------------------------------------------------------------------------
(* Requests that have not raced are about different lines. *)
Apart ==
    \A q, k \in Request :
        q # k /\ ~Free(q) /\ ~Free(k) => req[q].lines \cap req[k].lines = {}

(* The lines of an approval that were summed, locked and left behind. *)
Passed(q) ==
    IF req[q].phase = "shelve" THEN LinesOf(req[q].ret) ELSE LinesOf(req[q].ret) \ req[q].todo

(* What a request on lines of its own knows of its return or its sale.  Only *)
(* a sale without lines may be voided behind its back: there is nothing to   *)
(* bring back or to pay.                                                     *)
Knows(q) ==
    /\ req[q].op \in {"create", "reject", "approve"} => req[q].lines = LinesOf(req[q].ret)
    /\ req[q].op \in {"reject", "approve"} => ret[req[q].ret].status = "pending"
    /\ req[q].op = "approve" =>
          /\ req[q].todo \subseteq LinesOf(req[q].ret)
          /\ \A l \in Passed(q) : Fits(req[q].ret, l)
          /\ req[q].phase = "lock" => /\ req[q].line \in LinesOf(req[q].ret)
                                      /\ req[q].fits = Fits(req[q].ret, req[q].line)
    /\ req[q].op = "void" =>
          /\ req[q].lines = SaleLines(req[q].sale)
          /\ req[q].lines # {} => status[req[q].sale] # "VOIDED"

Alone == Apart /\ \A q \in Request : Knows(q)

Agree == QtyCeiling /\ GoodsMatch /\ RefundsMatch

AloneInv == ~raced => Alone /\ Agree

(* What is returned of a line is a number. *)
LEMMA ReturnedIsNumber ==
    ASSUME NEW l \in Line
    PROVE  Returned(l) \in Int
<1> DEFINE qty == [r \in Return |-> Asked[r].qty[l]]
           S == {r \in Return : ret[r].status = "completed"}
<1>1. S \subseteq Return /\ IsFiniteSet(Return) /\ \A r \in Return : qty[r] \in Int
  BY ReturnsAssumption
<1> HIDE DEF qty, S
<1>2. IsFiniteSet(S) /\ \A r \in S : qty[r] \in Int
  BY <1>1, FS_Subset
<1>3. SumFunctionOnSet(qty, S) \in Int
  BY <1>2, SumInt
<1> QED
  BY <1>3 DEF Returned, qty, S

(* A line that a return leaves out has quantity zero. *)
LEMMA LeftOut ==
    ASSUME NEW r \in Return, NEW l \in Line \ LinesOf(r)
    PROVE  Asked[r].qty[l] = 0
<1>1. Asked[r].qty[l] \in Nat
  BY ReturnsAssumption
<1> QED
  BY <1>1 DEF LinesOf

(* What goes back on the shelf is what came back undamaged. *)
LEMMA BackIsIntact ==
    ASSUME NEW r \in Return, NEW p \in Product
    PROVE  /\ Back(r, p) = Intact(r, p)
           /\ p \notin Shelved(r) => Back(r, p) = 0
<1> DEFINE S == {l \in Restorable(r) : LineOf[l].product = p}
           T == {l \in Line : LineOf[l].product = p} \ Asked[r].damaged
<1>1. S \subseteq T /\ T \subseteq Line /\ T \ S \subseteq Line \ LinesOf(r)
  BY LinesAreLines DEF Restorable
<1>2. \A l \in T : Asked[r].qty[l] \in Int
  BY ReturnsAssumption
<1>3. \A l \in T \ S : Asked[r].qty[l] = 0
  BY <1>1, LeftOut
<1>4. IsFiniteSet(T)
  BY <1>1, ReturnsAssumption, FS_Subset
<1>5. p \notin Shelved(r) => S = {}
  BY DEF Shelved
<1> HIDE DEF S, T
<1>6. SumFunctionOnSet(Asked[r].qty, T) = SumFunctionOnSet(Asked[r].qty, S)
  BY <1>1, <1>2, <1>3, <1>4, SumSkipsZeros
<1>7. SumFunctionOnSet(Asked[r].qty, {}) = 0
  BY SumOfNone
<1> QED
  BY <1>5, <1>6, <1>7 DEF Back, Intact, S, T

(* Nothing is brought back or paid for a product, or a sale, with no line.   *)
LEMMA NothingSold ==
    ASSUME NEW s \in Sale
    PROVE  /\ \A p \in Product \ ProductsOf(s) : SoldQty(s, p) = 0
           /\ SaleLines(s) = {} => Price(s) = 0 /\ ProductsOf(s) = {}
<1>1. ASSUME NEW p \in Product \ ProductsOf(s) PROVE SoldQty(s, p) = 0
  <2>1. {l \in SaleLines(s) : LineOf[l].product = p} = {}
    BY DEF ProductsOf
  <2> QED
    BY <2>1, SumOfNone DEF SoldQty
<1>2. ASSUME SaleLines(s) = {} PROVE Price(s) = 0 /\ ProductsOf(s) = {}
  BY <1>2, SumOfNone DEF Price, ProductsOf
<1> QED
  BY <1>1, <1>2

(* What depends on the books stays with them. *)
LEMMA SameBooks ==
    ASSUME UNCHANGED books
    PROVE  /\ Agree => Agree'
           /\ \A l \in Line : Returned(l)' = Returned(l)
<1>1. Completed' = Completed /\ Voided' = Voided
  BY DEF books, Completed, Voided
<1>2. \A l : Returned(l)' = Returned(l)
  BY DEF books, Returned
<1>3. QtyCeiling => QtyCeiling'
  BY <1>2 DEF QtyCeiling
<1>4. GoodsMatch => GoodsMatch'
  BY <1>1 DEF GoodsMatch, books
<1>5. \A c : CreditedTo(c)' = CreditedTo(c) /\ VoidedTo(c)' = VoidedTo(c)
  BY <1>1 DEF CreditedTo, VoidedTo, books
<1>6. \A t : PaidFrom(t)' = PaidFrom(t) /\ VoidedFrom(t)' = VoidedFrom(t)
  BY <1>1 DEF PaidFrom, VoidedFrom, books
<1>7. RefundsMatch => RefundsMatch'
  BY <1>5, <1>6 DEF RefundsMatch, Refunded, books
<1> QED
  BY <1>2, <1>3, <1>4, <1>7 DEF Agree

(* What a request knows stays true when its return, its sale and what was    *)
(* returned of its lines stay.                                               *)
LEMMA KnowsStays ==
    ASSUME NEW k \in Request, TypeOK, Knows(k), req'[k] = req[k],
           req[k].op \in {"reject", "approve"} => ret'[req[k].ret] = ret[req[k].ret],
           req[k].op = "approve" =>
               \A l \in LinesOf(req[k].ret) : Returned(l)' = Returned(l),
           req[k].op = "void" /\ req[k].lines # {} => status'[req[k].sale] = status[req[k].sale]
    PROVE  Knows(k)'
<1>1. req[k].op = "approve" => \A l \in LinesOf(req[k].ret) :
          Fits(req[k].ret, l)' = Fits(req[k].ret, l)
  BY DEF Fits
<1>2. req[k].op = "approve" => Passed(k)' = Passed(k) /\ Passed(k) \subseteq LinesOf(req[k].ret)
  BY DEF Passed
<1>3. req[k].op = "approve" => (\A l \in Passed(k) : Fits(req[k].ret, l))'
  BY <1>1, <1>2 DEF Knows
<1>4. req[k].op = "approve" /\ req[k].phase = "lock" =>
          (req[k].line \in LinesOf(req[k].ret) /\ req[k].fits = Fits(req[k].ret, req[k].line))'
  BY <1>1 DEF Knows
<1> QED
  BY <1>3, <1>4 DEF Knows

(* A request that goes on with its lines, or ends, leaves requests apart. *)
LEMMA ApartStays ==
    ASSUME Apart, NEW q \in Request, \A k \in Request : k # q => req'[k] = req[k],
           Free(q)' \/ (~Free(q) /\ req'[q].lines = req[q].lines)
    PROVE  Apart'
  BY DEF Apart, Free

(* A request that begins without meeting another one is apart from it. *)
LEMMA BeginAlone ==
    ASSUME IInv, AloneInv, ~raced', NEW q \in Request, NEW what \in Served, Becomes(q, what),
           Free(q), Starts(what.lines), Knows(q)', UNCHANGED books
    PROVE  AloneInv'
<1>1. ~raced /\ ~Meets(what.lines)
  BY DEF Starts
<1>2. req'[q] = what /\ \A k \in Request : k # q => req'[k] = req[k]
  BY DEF Becomes, IInv, TypeOK
<1>3. Apart'
  <2> SUFFICES ASSUME NEW k \in Request, NEW m \in Request, k # m, ~Free(k)', ~Free(m)'
               PROVE  req'[k].lines \cap req'[m].lines = {}
    BY DEF Apart
  <2>1. CASE k # q /\ m # q
    BY <1>1, <1>2, <2>1 DEF AloneInv, Alone, Apart, Free
  <2>2. CASE k = q
    BY <1>1, <1>2, <2>2 DEF Meets, Free
  <2>3. CASE m = q
    BY <1>1, <1>2, <2>3 DEF Meets, Free
  <2> QED
    BY <2>1, <2>2, <2>3
<1>4. ASSUME NEW k \in Request, k # q PROVE Knows(k)'
  <2>1. \A l \in Line : Returned(l)' = Returned(l)
    BY SameBooks
  <2>2. req[k].op = "approve" => LinesOf(req[k].ret) \subseteq Line
    BY ReturnShape, LinesAreLines DEF IInv, TypeOK
  <2> QED
    BY <1>1, <1>2, <1>4, <2>1, <2>2, KnowsStays DEF AloneInv, Alone, IInv, books
<1>5. Agree'
  BY <1>1, SameBooks DEF AloneInv
<1> QED
  BY <1>3, <1>4, <1>5 DEF AloneInv, Alone

LEMMA BeginsAlone ==
    ASSUME IInv, AloneInv, ~raced', NEW q \in Request,
           \/ \E r \in Return : CreateBegin(q, r) \/ RejectBegin(q, r)
           \/ \E s \in Sale : VoidBegin(q, s)
           \/ \E r \in Return, method \in RefundMethod : ApproveBegin(q, r, method)
    PROVE  AloneInv'
<1>1. ASSUME NEW r \in Return, CreateBegin(q, r) PROVE AloneInv'
  <2> DEFINE what == [op |-> "create", phase |-> "checked", ret |-> r, lines |-> LinesOf(r)]
  <2>1. what \in Served
    BY LinesAreLines DEF Served
  <2>2. Free(q) /\ Becomes(q, what) /\ Starts(what.lines) /\ UNCHANGED books
    BY <1>1 DEF CreateBegin
  <2>3. Knows(q)'
    BY <2>2 DEF Becomes, Knows, IInv, TypeOK
  <2> QED
    BY <2>1, <2>2, <2>3, BeginAlone
<1>2. ASSUME NEW r \in Return, RejectBegin(q, r) PROVE AloneInv'
  <2> DEFINE what == [op |-> "reject", phase |-> "checked", ret |-> r, lines |-> LinesOf(r)]
  <2>1. what \in Served
    BY LinesAreLines DEF Served
  <2>2. /\ Free(q) /\ Becomes(q, what) /\ Starts(what.lines) /\ UNCHANGED books
        /\ ret[r].status = "pending"
    BY <1>2 DEF RejectBegin
  <2>3. Knows(q)'
    BY <2>2 DEF Becomes, Knows, IInv, TypeOK, books
  <2> QED
    BY <2>1, <2>2, <2>3, BeginAlone
<1>3. ASSUME NEW s \in Sale, VoidBegin(q, s) PROVE AloneInv'
  <2> DEFINE what == [op |-> "void", phase |-> "checked", sale |-> s, lines |-> SaleLines(s)]
  <2>1. what \in Served
    BY DEF Served, SaleLines
  <2>2. /\ Free(q) /\ Becomes(q, what) /\ Starts(what.lines) /\ UNCHANGED books
        /\ status[s] # "VOIDED"
    BY <1>3 DEF VoidBegin
  <2>3. Knows(q)'
    BY <2>2 DEF Becomes, Knows, IInv, TypeOK, books
  <2> QED
    BY <2>1, <2>2, <2>3, BeginAlone
<1>4. ASSUME NEW r \in Return, NEW method \in RefundMethod, ApproveBegin(q, r, method)
      PROVE  AloneInv'
  <2> DEFINE what == [op |-> "approve", phase |-> "sum", ret |-> r, lines |-> LinesOf(r),
                      method |-> method, todo |-> LinesOf(r), line |-> Nobody, fits |-> FALSE,
                      shelf |-> [p \in Product |-> 0]]
  <2>1. what \in Served
    BY LinesAreLines DEF Served
  <2>2. /\ Free(q) /\ Becomes(q, what) /\ Starts(what.lines) /\ UNCHANGED books
        /\ ret[r].status = "pending"
    BY <1>4 DEF ApproveBegin
  <2>3. req'[q] = what
    BY <2>2 DEF Becomes, IInv, TypeOK
  <2>4. Passed(q)' = {}
    BY <2>3 DEF Passed
  <2>5. Knows(q)'
    BY <2>2, <2>3, <2>4 DEF Knows, books
  <2> QED
    BY <2>1, <2>2, <2>5, BeginAlone
<1> QED
  BY <1>1, <1>2, <1>3, <1>4

(* A step within an approval that writes no books. *)
LEMMA WithinAlone ==
    ASSUME IInv, AloneInv, NEW q \in Request, NEW what, Becomes(q, what), ~Free(q),
           what.lines = req[q].lines, Knows(q)' \/ raced, UNCHANGED <<books, raced>>
    PROVE  AloneInv'
<1> SUFFICES ASSUME ~raced PROVE Alone' /\ Agree'
  BY DEF AloneInv
<1>1. req'[q] = what /\ \A k \in Request : k # q => req'[k] = req[k]
  BY DEF Becomes, IInv, TypeOK
<1>2. Apart'
  BY <1>1, ApartStays DEF AloneInv, Alone
<1>3. ASSUME NEW k \in Request, k # q PROVE Knows(k)'
  <2>1. \A l \in Line : Returned(l)' = Returned(l)
    BY SameBooks
  <2>2. req[k].op = "approve" => LinesOf(req[k].ret) \subseteq Line
    BY ReturnShape, LinesAreLines DEF IInv, TypeOK
  <2> QED
    BY <1>1, <1>3, <2>1, <2>2, KnowsStays DEF AloneInv, Alone, IInv, books
<1>4. Agree'
  BY SameBooks DEF AloneInv
<1> QED
  BY <1>2, <1>3, <1>4 DEF Alone

LEMMA ApprovingAlone ==
    ASSUME IInv, AloneInv, NEW q \in Request,
           (\E l \in Line : ApproveSum(q, l) \/ ApproveShelve(q, l)) \/ ApproveLock(q)
    PROVE  AloneInv'
<1>0. /\ req[q].op = "approve" /\ ~Free(q) /\ UNCHANGED <<books, raced>>
  BY DEF ApproveSum, ApproveShelve, ApproveLock, At, Free
<1>1. req[q] \in Approving
  BY <1>0, ApprovalShape DEF IInv, TypeOK
<1> DEFINE r == req[q].ret
<1>2. r \in Return /\ LinesOf(r) \subseteq Line /\ Restorable(r) \subseteq LinesOf(r)
  BY <1>1, LinesAreLines DEF Approving, Restorable
<1>3. ~raced => Knows(q)
  BY DEF AloneInv, Alone
<1>4. \A x \in Return, l \in Line : Fits(x, l)' = Fits(x, l)
  BY <1>0, SameBooks DEF Fits
<1>5. ASSUME NEW l \in Line, ApproveSum(q, l) PROVE AloneInv'
  <2> DEFINE fits == Fits(r, l)
             what == [req[q] EXCEPT !.phase = "lock", !.line = l, !.fits = fits]
  <2>1. Becomes(q, what) /\ req[q].phase = "sum" /\ l \in req[q].todo
    BY <1>5 DEF ApproveSum, At
  <2>2. /\ what.op = "approve" /\ what.phase = "lock" /\ what.ret = r /\ what.todo = req[q].todo
        /\ what.lines = req[q].lines /\ what.line = l /\ what.fits = fits
    <3> HIDE DEF fits
    <3> QED
      BY <1>0, <1>1 DEF Approving
  <2>3. req'[q] = what
    BY <2>1 DEF Becomes, IInv, TypeOK
  <2>4. Passed(q)' = Passed(q)
    BY <2>1, <2>2, <2>3 DEF Passed
  <2> HIDE DEF what
  <2>5. ~raced => Knows(q)'
    BY <1>0, <1>2, <1>3, <1>4, <2>1, <2>2, <2>3, <2>4 DEF Knows, books, Passed
  <2> QED
    BY <1>0, <2>1, <2>2, <2>5, WithinAlone
<1>6. ASSUME NEW l \in Line, ApproveShelve(q, l) PROVE AloneInv'
  <2> DEFINE todo == req[q].todo \ {l}
             shelf == [req[q].shelf EXCEPT ![LineOf[l].product] = stock[LineOf[l].product]]
             what == [req[q] EXCEPT !.todo = todo, !.shelf = shelf]
  <2>1. Becomes(q, what) /\ req[q].phase = "shelve"
    BY <1>6 DEF ApproveShelve, At
  <2>2. /\ what.op = "approve" /\ what.phase = "shelve" /\ what.ret = r /\ what.todo = todo
        /\ what.lines = req[q].lines
    <3> HIDE DEF todo, shelf
    <3> QED
      BY <1>0, <1>1, <2>1 DEF Approving
  <2>3. req'[q] = what
    BY <2>1 DEF Becomes, IInv, TypeOK
  <2>4. Passed(q)' = Passed(q)
    BY <2>1, <2>2, <2>3 DEF Passed
  <2> HIDE DEF what
  <2>5. ~raced => Knows(q)'
    BY <1>0, <1>2, <1>3, <1>4, <2>1, <2>2, <2>3, <2>4 DEF Knows, books, Passed
  <2> QED
    BY <1>0, <2>1, <2>2, <2>5, WithinAlone
<1>7. ASSUME ApproveLock(q) PROVE AloneInv'
  <2> DEFINE left == req[q].todo \ {req[q].line}
             more == [req[q] EXCEPT !.phase = "sum", !.todo = left, !.line = Nobody]
             last == [req[q] EXCEPT !.phase = "shelve", !.todo = Restorable(r), !.line = Nobody]
  <2>1. /\ req[q].phase = "lock" /\ req[q].fits
        /\ IF left # {} THEN Becomes(q, more) ELSE Becomes(q, last)
    BY <1>7 DEF ApproveLock, At
  <2>2. ~raced => \A l \in LinesOf(r) \ left : Fits(r, l)
    BY <1>0, <1>3, <2>1 DEF Knows, Passed
  <2>3. CASE left # {}
    <3>1. /\ more.op = "approve" /\ more.phase = "sum" /\ more.ret = r /\ more.todo = left
          /\ more.lines = req[q].lines
      <4> HIDE DEF left
      <4> QED
        BY <1>0, <1>1 DEF Approving
    <3>2. req'[q] = more
      BY <2>1, <2>3 DEF Becomes, IInv, TypeOK
    <3>3. Passed(q)' = LinesOf(r) \ left
      BY <3>1, <3>2 DEF Passed
    <3> HIDE DEF more
    <3>4. ~raced => Knows(q)'
      BY <1>0, <1>2, <1>3, <1>4, <2>2, <3>1, <3>2, <3>3 DEF Knows, books
    <3> QED
      BY <1>0, <2>1, <2>3, <3>1, <3>4, WithinAlone
  <2>4. CASE left = {}
    <3>1. /\ last.op = "approve" /\ last.phase = "shelve" /\ last.ret = r
          /\ last.todo = Restorable(r) /\ last.lines = req[q].lines
      BY <1>0, <1>1 DEF Approving
    <3>2. req'[q] = last
      BY <2>1, <2>4 DEF Becomes, IInv, TypeOK
    <3>3. Passed(q)' = LinesOf(r)
      BY <3>1, <3>2 DEF Passed
    <3> HIDE DEF last
    <3>4. ~raced => Knows(q)'
      BY <1>0, <1>2, <1>3, <1>4, <2>2, <2>4, <3>1, <3>2, <3>3 DEF Knows, books
    <3> QED
      BY <1>0, <2>1, <2>4, <3>1, <3>4, WithinAlone
  <2> QED
    BY <2>3, <2>4
<1> QED
  BY <1>5, <1>6, <1>7

(* Requests that have not raced are about different returns, with no line in *)
(* common.                                                                   *)
LEMMA OtherReturn ==
    ASSUME IInv, Alone, NEW q \in Request, NEW k \in Request, k # q,
           req[q].op \in {"create", "reject", "approve"},
           req[k].op \in {"create", "reject", "approve"}
    PROVE  /\ req[k].ret # req[q].ret
           /\ LinesOf(req[k].ret) \cap LinesOf(req[q].ret) = {}
<1>1. req[k].lines = LinesOf(req[k].ret) /\ req[q].lines = LinesOf(req[q].ret)
  BY DEF Alone, Knows
<1>2. req[k].lines \cap req[q].lines = {}
  BY DEF Alone, Apart, Free
<1>3. LinesOf(req[q].ret) # {}
  BY ReturnShape, ReturnsAssumption DEF IInv, TypeOK
<1> QED
  BY <1>1, <1>2, <1>3

(* The end of a request: the others know what they knew. *)
LEMMA EndAlone ==
    ASSUME IInv, AloneInv, NEW q \in Request, Finish(q), UNCHANGED raced,
           ~raced => Agree',
           ~raced => \A k \in Request : k # q /\ ~Free(k) =>
               /\ req[k].op \in {"reject", "approve"} => ret'[req[k].ret] = ret[req[k].ret]
               /\ req[k].op = "approve" =>
                      \A l \in LinesOf(req[k].ret) : Returned(l)' = Returned(l)
               /\ req[k].op = "void" /\ req[k].lines # {} =>
                      status'[req[k].sale] = status[req[k].sale]
    PROVE  AloneInv'
<1> SUFFICES ASSUME ~raced PROVE Alone' /\ Agree'
  BY DEF AloneInv
<1>1. req'[q] = NoRequest /\ \A k \in Request : k # q => req'[k] = req[k]
  BY FinishTypes DEF IInv
<1>2. Apart'
  BY <1>1, ApartStays DEF AloneInv, Alone, Free, NoRequest
<1>3. Knows(q)'
  BY <1>1 DEF Knows, NoRequest
<1>4. ASSUME NEW k \in Request, k # q PROVE Knows(k)'
  <2>1. CASE ~Free(k)
    BY <1>1, <1>4, <2>1, KnowsStays DEF AloneInv, Alone, IInv
  <2>2. CASE Free(k)
    BY <1>1, <1>4, <2>2 DEF Knows, Free
  <2> QED
    BY <2>1, <2>2
<1> QED
  BY <1>2, <1>3, <1>4 DEF Alone

LEMMA AbortAlone ==
    ASSUME IInv, AloneInv, NEW q \in Request, Abort(q)
    PROVE  AloneInv'
<1>1. Finish(q) /\ UNCHANGED <<books, raced>>
  BY DEF Abort
<1>2. ~raced => Agree'
  BY <1>1, SameBooks DEF AloneInv
<1>3. \A l \in Line : Returned(l)' = Returned(l)
  BY <1>1, SameBooks
<1>4. \A k \in Request : req[k].op = "approve" => LinesOf(req[k].ret) \subseteq Line
  BY ReturnShape, LinesAreLines DEF IInv, TypeOK
<1> QED
  BY <1>1, <1>2, <1>3, <1>4, EndAlone DEF books

(* A return that is asked for, or rejected, brings nothing back.             *)
LEMMA StatusAlone ==
    ASSUME IInv, AloneInv, NEW q \in Request, CreateCommit(q) \/ RejectCommit(q)
    PROVE  /\ AloneInv'
           /\ ~raced => \A x \in Return :
                  ret[x].status \in {"completed", "rejected"} => ret'[x] = ret[x]
<1> DEFINE r == req[q].ret
<1>1. /\ Finish(q) /\ req[q].op \in {"create", "reject"}
      /\ UNCHANGED <<status, stock, moved, wallet, cash, open, posted, raced>>
      /\ \/ ret' = [ret EXCEPT ![r].status = "pending"] /\ ret[r].status = "absent"
         \/ ret' = [ret EXCEPT ![r].status = "rejected"] /\ req[q].op = "reject"
  BY DEF CreateCommit, RejectCommit, At
<1>2. r \in Return
  BY <1>1, ReturnShape DEF IInv, TypeOK
<1>3. ~raced => ret[r].status \in {"absent", "pending"}
  BY <1>1 DEF AloneInv, Alone, Knows
<1>4. /\ \A x \in Return : x # r => ret'[x] = ret[x]
      /\ ret'[r].status \in {"pending", "rejected"} /\ ret'[r].method = ret[r].method
  BY <1>1, <1>2 DEF IInv, TypeOK
<1>5. ~raced => Completed' = Completed /\ Voided' = Voided
  BY <1>1, <1>2, <1>3, <1>4 DEF Completed, Voided
<1>6. ~raced => \A l : Returned(l)' = Returned(l)
  BY <1>5 DEF Returned, Completed
<1>7. ~raced => Agree'
  <2> SUFFICES ASSUME ~raced PROVE Agree'
    OBVIOUS
  <2>1. Agree
    BY DEF AloneInv
  <2>2. QtyCeiling'
    BY <1>6, <2>1 DEF Agree, QtyCeiling
  <2>3. GoodsMatch'
    BY <1>1, <1>5, <2>1 DEF Agree, GoodsMatch
  <2>4. \A c : CreditedTo(c)' = CreditedTo(c) /\ VoidedTo(c)' = VoidedTo(c)
    BY <1>4, <1>5 DEF CreditedTo, VoidedTo, Completed
  <2>5. \A t : PaidFrom(t)' = PaidFrom(t) /\ VoidedFrom(t)' = VoidedFrom(t)
    BY <1>4, <1>5 DEF PaidFrom, VoidedFrom, Completed
  <2>6. RefundsMatch'
    BY <1>1, <2>1, <2>4, <2>5 DEF Agree, RefundsMatch, Refunded
  <2> QED
    BY <2>2, <2>3, <2>6 DEF Agree
<1>8. ASSUME ~raced, NEW k \in Request, k # q, req[k].op \in {"reject", "approve"}
      PROVE  ret'[req[k].ret] = ret[req[k].ret]
  BY <1>1, <1>4, <1>8, OtherReturn, ReturnShape DEF AloneInv, IInv, TypeOK
<1>9. AloneInv'
  BY <1>1, <1>6, <1>7, <1>8, EndAlone
<1> QED
  BY <1>3, <1>4, <1>9

(* Sums of refunds are numbers. *)
LEMMA RefundedIsNumber ==
    ASSUME NEW R \in SUBSET Return, NEW S \in SUBSET Sale
    PROVE  /\ SumFunctionOnSet([r \in Return |-> Worth(r)], R) \in Int
           /\ SumFunctionOnSet([s \in Sale |-> Price(s)], S) \in Int
<1> DEFINE worth == [r \in Return |-> Worth(r)]
           price == [s \in Sale |-> Price(s)]
<1>1. /\ \A r \in R : worth[r] \in Int
      /\ \A s \in S : price[s] \in Int
      /\ IsFiniteSet(R) /\ IsFiniteSet(S)
  BY SumsAreNumbers, ReturnsAssumption, FS_Subset
<1> HIDE DEF worth, price
<1>2. SumFunctionOnSet(worth, R) \in Int /\ SumFunctionOnSet(price, S) \in Int
  BY <1>1, SumInt
<1> QED
  BY <1>2 DEF worth, price

(* What is refunded grows by the worth of a return or the price of a void.   *)
LEMMA RefundedGrows ==
    ASSUME NEW R \in SUBSET Return, NEW S \in SUBSET Sale
    PROVE  /\ \A r \in Return \ R : Refunded(R \cup {r}, S) = Refunded(R, S) + Worth(r)
           /\ \A s \in Sale \ S : Refunded(R, S \cup {s}) = Refunded(R, S) + Price(s)
           /\ Refunded(R, S) \in Int
<1> DEFINE worth == [r \in Return |-> Worth(r)]
           price == [s \in Sale |-> Price(s)]
<1>1. /\ \A r \in Return : worth[r] = Worth(r) /\ worth[r] \in Int
      /\ \A s \in Sale : price[s] = Price(s) /\ price[s] \in Int
  BY SumsAreNumbers
<1>2. SumFunctionOnSet(worth, R) \in Int /\ SumFunctionOnSet(price, S) \in Int
  BY RefundedIsNumber
<1>3. \A R2, S2 : Refunded(R2, S2) = SumFunctionOnSet(worth, R2) + SumFunctionOnSet(price, S2)
  BY DEF Refunded
<1>f. IsFiniteSet(R) /\ IsFiniteSet(S)
  BY ReturnsAssumption, FS_Subset
<1> HIDE DEF worth, price
<1>4. ASSUME NEW r \in Return \ R PROVE Refunded(R \cup {r}, S) = Refunded(R, S) + Worth(r)
  <2>1. SumFunctionOnSet(worth, R \cup {r}) = SumFunctionOnSet(worth, R) + worth[r]
    BY <1>1, <1>f, SumAdds
  <2>2. worth[r] = Worth(r) /\ worth[r] \in Int
    BY <1>1
  <2> QED
    BY <1>2, <1>3, <2>1, <2>2
<1>5. ASSUME NEW s \in Sale \ S PROVE Refunded(R, S \cup {s}) = Refunded(R, S) + Price(s)
  <2>1. SumFunctionOnSet(price, S \cup {s}) = SumFunctionOnSet(price, S) + price[s]
    BY <1>1, <1>f, SumAdds
  <2>2. price[s] = Price(s) /\ price[s] \in Int
    BY <1>1
  <2> QED
    BY <1>2, <1>3, <2>1, <2>2
<1> QED
  BY <1>2, <1>3, <1>4, <1>5

(* The commit of an approval brings its return back exactly once: the sums   *)
(* it compared still hold, and the return was not completed before.          *)
LEMMA ApproveCommitAlone ==
    ASSUME IInv, AloneInv, NEW q \in Request, ApproveCommit(q)
    PROVE  /\ AloneInv'
           /\ ~raced => \A x \in Return :
                  ret[x].status \in {"completed", "rejected"} => ret'[x] = ret[x]
<1> DEFINE r == req[q].ret
           method == req[q].method
<1>1. /\ req[q].op = "approve" /\ req[q].phase = "shelve" /\ req[q].todo = {}
      /\ stock' = [p \in Product |-> IF p \in Shelved(r) THEN req[q].shelf[p] + Back(r, p) ELSE stock[p]]
      /\ ret' = [ret EXCEPT ![r] = [status |-> "completed", method |-> method]]
      /\ RefundWallet(r, method) /\ RefundTill(r, method)
      /\ Finish(q) /\ UNCHANGED <<status, open, raced>>
  BY DEF ApproveCommit, At
<1>2. r \in Return /\ method \in RefundMethod
  BY <1>1, ApprovalShape DEF IInv, TypeOK, Approving
<1>3. LinesOf(r) \subseteq Line
  BY <1>2, LinesAreLines
<1>4. /\ \A x \in Return : x # r => ret'[x] = ret[x]
      /\ ret'[r] = [status |-> "completed", method |-> method]
  BY <1>1, <1>2 DEF IInv, TypeOK
<1>5. ~raced => ret[r].status = "pending" /\ \A l \in LinesOf(r) : Fits(r, l)
  BY <1>1 DEF AloneInv, Alone, Knows, Passed
<1>6. ~raced => r \notin Completed
  BY <1>5 DEF Completed
<1>7. Completed' = Completed \cup {r} /\ Voided' = Voided
  BY <1>1, <1>2, <1>4 DEF Completed, Voided
<1>8. ASSUME ~raced, NEW l \in Line PROVE Returned(l)' = Returned(l) + Asked[r].qty[l]
  <2> DEFINE qty == [x \in Return |-> Asked[x].qty[l]]
  <2>1. \A x \in Return : qty[x] = Asked[x].qty[l] /\ qty[x] \in Int
    BY ReturnsAssumption
  <2>2. Returned(l) = SumFunctionOnSet(qty, Completed)
    BY DEF Returned, Completed
  <2>3. Returned(l)' = SumFunctionOnSet(qty, Completed')
    BY DEF Returned, Completed
  <2>4. Completed \subseteq Return
    BY DEF Completed
  <2> HIDE DEF qty, r
  <2>5. IsFiniteSet(Completed)
    BY <2>4, ReturnsAssumption, FS_Subset
  <2>6. SumFunctionOnSet(qty, Completed \cup {r}) = SumFunctionOnSet(qty, Completed) + qty[r]
    BY <1>2, <1>6, <1>8, <2>1, <2>4, <2>5, SumAdds
  <2> QED
    BY <1>2, <1>7, <2>1, <2>2, <2>3, <2>6
<1>9. ASSUME ~raced PROVE QtyCeiling'
  <2> SUFFICES ASSUME NEW l \in Line PROVE Returned(l)' <= LineOf[l].qty
    BY DEF QtyCeiling
  <2>1. /\ Returned(l) \in Int /\ Asked[r].qty[l] \in Nat /\ LineOf[l].qty \in Int
        /\ Returned(l) <= LineOf[l].qty
    BY <1>2, <1>9, ReturnedIsNumber, ReturnsAssumption DEF AloneInv, Agree, QtyCeiling
  <2>2. CASE l \in LinesOf(r)
    BY <1>5, <1>8, <1>9, <2>2 DEF Fits
  <2>3. CASE l \notin LinesOf(r)
    BY <1>2, <1>8, <1>9, <2>1, <2>3, LeftOut
  <2> QED
    BY <2>2, <2>3
<1>10. ASSUME ~raced PROVE GoodsMatch'
  <2> SUFFICES ASSUME NEW p \in Product
               PROVE  (stock[p] = InitStock[p] + SumFunctionOnSet([x \in Return |-> Intact(x, p)], Completed)
                                + SumFunctionOnSet([s \in Sale |-> SoldQty(s, p)], Voided))'
    BY DEF GoodsMatch
  <2> DEFINE intact == [x \in Return |-> Intact(x, p)]
             sold == [s \in Sale |-> SoldQty(s, p)]
  <2>1. /\ \A x \in Return : intact[x] = Intact(x, p) /\ intact[x] \in Int
        /\ \A s \in Sale : sold[s] \in Int
    BY SumsAreNumbers
  <2>2. stock[p] = InitStock[p] + SumFunctionOnSet(intact, Completed) + SumFunctionOnSet(sold, Voided)
    BY <1>10 DEF AloneInv, Agree, GoodsMatch
  <2> SUFFICES stock'[p] = InitStock[p] + SumFunctionOnSet(intact, Completed')
                               + SumFunctionOnSet(sold, Voided')
    OBVIOUS
  <2>3. Completed \subseteq Return /\ Voided \subseteq Sale
    BY DEF Completed, Voided
  <2> HIDE DEF intact, sold, r
  <2>4. IsFiniteSet(Completed) /\ IsFiniteSet(Voided)
    BY <2>3, ReturnsAssumption, FS_Subset
  <2>5. SumFunctionOnSet(intact, Completed \cup {r}) = SumFunctionOnSet(intact, Completed) + intact[r]
    BY <1>2, <1>6, <1>10, <2>1, <2>3, <2>4, SumAdds
  <2>6. SumFunctionOnSet(intact, Completed) \in Int /\ SumFunctionOnSet(sold, Voided) \in Int
    BY <2>1, <2>3, <2>4, SumInt
  <2>7. stock'[p] = stock[p] + Intact(r, p)
    <3>1. p \in Shelved(r) => req[q].shelf[p] = stock[p]
      BY <1>1 DEF IInv, ShelfHeld, Shelved, r
    <3>2. Back(r, p) = Intact(r, p) /\ (p \notin Shelved(r) => Back(r, p) = 0)
      BY <1>2, BackIsIntact
    <3>3. stock[p] \in Int
      BY DEF IInv, TypeOK
    <3> QED
      BY <1>1, <3>1, <3>2, <3>3 DEF r
  <2>8. intact[r] = Intact(r, p) /\ intact[r] \in Int /\ InitStock[p] \in Int
    BY <1>2, <2>1, ReturnsAssumption
  <2>9. SumFunctionOnSet(intact, Completed') = SumFunctionOnSet(intact, Completed) + Intact(r, p)
    BY <1>7, <2>5, <2>8
  <2>10. SumFunctionOnSet(sold, Voided') = SumFunctionOnSet(sold, Voided)
    BY <1>7
  <2> QED
    BY <2>2, <2>6, <2>7, <2>8, <2>9, <2>10
<1>11. ASSUME ~raced, NEW c \in Customer
       PROVE  wallet'[c] = InitWallet[c] + Refunded(CreditedTo(c), VoidedTo(c))'
  <2> DEFINE joins == method = "store_credit" /\ Sold[SaleOf(r)].customer = c
             R == CreditedTo(c)
             S == VoidedTo(c)
  <2>1. R \subseteq Completed /\ R \in SUBSET Return /\ S \in SUBSET Sale
    BY DEF CreditedTo, VoidedTo, Completed, Voided
  <2>2. CreditedTo(c)' = (IF joins THEN R \cup {r} ELSE R) /\ VoidedTo(c)' = S
    BY <1>2, <1>4, <1>6, <1>7, <1>11 DEF CreditedTo, VoidedTo, Completed
  <2>3. wallet[c] = InitWallet[c] + Refunded(R, S)
    BY <1>11 DEF AloneInv, Agree, RefundsMatch
  <2>4. wallet'[c] = wallet[c] + (IF joins THEN Worth(r) ELSE 0)
    <3>1. wallet \in [Customer -> Int]
      BY DEF IInv, TypeOK
    <3> QED
      BY <1>1, <3>1 DEF RefundWallet
  <2>5. InitWallet[c] \in Int /\ Worth(r) \in Int
    BY <1>2, ReturnsAssumption, SumsAreNumbers
  <2> HIDE DEF joins, R, S, r
  <2>6. /\ Refunded(IF joins THEN R \cup {r} ELSE R, S)
               = Refunded(R, S) + (IF joins THEN Worth(r) ELSE 0)
        /\ Refunded(R, S) \in Int
    <3>1. r \in Return \ R
      BY <1>2, <1>6, <1>11, <2>1
    <3>2. Refunded(R \cup {r}, S) = Refunded(R, S) + Worth(r) /\ Refunded(R, S) \in Int
      BY <2>1, <3>1, RefundedGrows
    <3> QED
      BY <3>2
  <2>7. Refunded(CreditedTo(c), VoidedTo(c))' = Refunded(IF joins THEN R \cup {r} ELSE R, S)
    BY <2>2 DEF Refunded
  <2> QED
    BY <2>3, <2>4, <2>5, <2>6, <2>7
<1>12. ASSUME ~raced, NEW t \in open
       PROVE  cash'[t] = Float[t] - Refunded(PaidFrom(t), VoidedFrom(t))'
  <2> DEFINE joins == method = "cash" /\ Sold[SaleOf(r)].till = t
             R == PaidFrom(t)
             S == VoidedFrom(t)
  <2>1. R \subseteq Completed /\ R \in SUBSET Return /\ S \in SUBSET Sale
    BY DEF PaidFrom, VoidedFrom, Completed, Voided
  <2>2. PaidFrom(t)' = (IF joins THEN R \cup {r} ELSE R) /\ VoidedFrom(t)' = S
    BY <1>2, <1>4, <1>6, <1>7, <1>12 DEF PaidFrom, VoidedFrom, Completed
  <2>3. cash[t] = Float[t] - Refunded(R, S)
    BY <1>12 DEF AloneInv, Agree, RefundsMatch
  <2>5. Float[t] \in Int /\ Worth(r) \in Int /\ cash \in [Till -> Int] /\ t \in Till
    BY <1>2, ReturnsAssumption, SumsAreNumbers DEF IInv, TypeOK
  <2>4. cash'[t] = cash[t] - (IF joins THEN Worth(r) ELSE 0)
    BY <1>1, <2>5 DEF RefundTill
  <2> HIDE DEF joins, R, S, r
  <2>6. /\ Refunded(IF joins THEN R \cup {r} ELSE R, S)
               = Refunded(R, S) + (IF joins THEN Worth(r) ELSE 0)
        /\ Refunded(R, S) \in Int
    <3>1. r \in Return \ R
      BY <1>2, <1>6, <1>12, <2>1
    <3>2. Refunded(R \cup {r}, S) = Refunded(R, S) + Worth(r) /\ Refunded(R, S) \in Int
      BY <2>1, <3>1, RefundedGrows
    <3> QED
      BY <3>2
  <2>7. Refunded(PaidFrom(t), VoidedFrom(t))' = Refunded(IF joins THEN R \cup {r} ELSE R, S)
    BY <2>2 DEF Refunded
  <2> QED
    BY <2>3, <2>4, <2>5, <2>6, <2>7
<1>13. ~raced => Agree'
  BY <1>1, <1>9, <1>10, <1>11, <1>12 DEF Agree, RefundsMatch
<1>14. ASSUME ~raced, NEW k \in Request, k # q, req[k].op \in {"reject", "approve"}
       PROVE  /\ ret'[req[k].ret] = ret[req[k].ret]
              /\ \A l \in LinesOf(req[k].ret) : Returned(l)' = Returned(l)
  <2>1. /\ req[k].ret # r /\ LinesOf(req[k].ret) \cap LinesOf(r) = {}
        /\ req[k].ret \in Return
    BY <1>1, <1>14, OtherReturn, ReturnShape DEF AloneInv, IInv, TypeOK
  <2>2. \A l \in LinesOf(req[k].ret) : l \in Line \ LinesOf(r)
    BY <2>1, LinesAreLines
  <2>3. \A l \in LinesOf(req[k].ret) : Returned(l)' = Returned(l) + 0
    BY <1>2, <1>8, <1>14, <2>2, LeftOut
  <2> QED
    BY <1>4, <2>1, <2>2, <2>3, ReturnedIsNumber
<1>15. AloneInv'
  BY <1>1, <1>13, <1>14, EndAlone
<1> QED
  BY <1>4, <1>5, <1>15

(* A void that is alone on its lines finds its sale as it was; if another    *)
(* one came first, the sale has no lines.                                    *)
LEMMA VoidCommitAlone ==
    ASSUME IInv, AloneInv, NEW q \in Request, VoidCommit(q)
    PROVE  AloneInv'
<1> DEFINE s == req[q].sale
           b == Sold[s]
<1>1. /\ req[q].op = "void"
      /\ stock' = [p \in Product |-> IF p \in ProductsOf(s) THEN stock[p] + SoldQty(s, p) ELSE stock[p]]
      /\ wallet' = IF b.method = "store_credit" /\ b.customer # Nobody
                   THEN [wallet EXCEPT ![b.customer] = @ + Price(s)] ELSE wallet
      /\ cash' = IF b.method = "cash" /\ b.till # Nobody
                 THEN [cash EXCEPT ![b.till] = @ - Price(s)] ELSE cash
      /\ status' = [status EXCEPT ![s] = "VOIDED"]
      /\ Finish(q) /\ UNCHANGED <<ret, open, raced>>
  BY DEF VoidCommit, At
<1>2. /\ s \in Sale /\ Price(s) \in Int
      /\ \A p \in Product : SoldQty(s, p) \in Int
  BY <1>1, VoidShape, SumsAreNumbers DEF IInv, TypeOK
<1>n. Nobody \notin Customer \cup Till
  BY ReturnsAssumption
<1>3. Completed' = Completed /\ Voided' = Voided \cup {s}
  BY <1>1, <1>2 DEF IInv, TypeOK, Completed, Voided
<1>4. \A l : Returned(l)' = Returned(l)
  BY <1>1 DEF Returned
<1>5. ~raced => /\ req[q].lines = SaleLines(s)
                /\ s \in Voided => SaleLines(s) = {}
  BY <1>1 DEF AloneInv, Alone, Knows, Voided
<1>6. ~raced /\ s \in Voided => /\ Price(s) = 0
                                /\ \A p \in Product : SoldQty(s, p) = 0
  BY <1>2, <1>5, NothingSold
<1>7. ASSUME ~raced PROVE GoodsMatch'
  <2> SUFFICES ASSUME NEW p \in Product
               PROVE  (stock[p] = InitStock[p] + SumFunctionOnSet([x \in Return |-> Intact(x, p)], Completed)
                                + SumFunctionOnSet([x \in Sale |-> SoldQty(x, p)], Voided))'
    BY DEF GoodsMatch
  <2> DEFINE intact == [x \in Return |-> Intact(x, p)]
             sold == [x \in Sale |-> SoldQty(x, p)]
  <2>1. /\ \A x \in Return : intact[x] \in Int
        /\ \A x \in Sale : sold[x] = SoldQty(x, p) /\ sold[x] \in Int
    BY SumsAreNumbers
  <2>2. stock[p] = InitStock[p] + SumFunctionOnSet(intact, Completed) + SumFunctionOnSet(sold, Voided)
    BY <1>7 DEF AloneInv, Agree, GoodsMatch
  <2> SUFFICES stock'[p] = InitStock[p] + SumFunctionOnSet(intact, Completed')
                               + SumFunctionOnSet(sold, Voided')
    OBVIOUS
  <2>3. Completed \subseteq Return /\ Voided \subseteq Sale
    BY DEF Completed, Voided
  <2>4. stock'[p] = stock[p] + SoldQty(s, p) /\ stock[p] \in Int
    <3>1. stock[p] \in Int
      BY DEF IInv, TypeOK
    <3> QED
      BY <1>1, <1>2, <3>1, NothingSold
  <2> HIDE DEF intact, sold, s
  <2>5. IsFiniteSet(Completed) /\ IsFiniteSet(Voided)
    BY <2>3, ReturnsAssumption, FS_Subset
  <2>6. SumFunctionOnSet(intact, Completed) \in Int /\ SumFunctionOnSet(sold, Voided) \in Int
    BY <2>1, <2>3, <2>5, SumInt
  <2>7. sold[s] = SoldQty(s, p) /\ sold[s] \in Int /\ InitStock[p] \in Int
    BY <1>2, <2>1, ReturnsAssumption
  <2>8. SumFunctionOnSet(sold, Voided') = SumFunctionOnSet(sold, Voided) + SoldQty(s, p)
    <3>1. CASE s \in Voided
      <4>1. Voided' = Voided /\ SoldQty(s, p) = 0
        BY <1>3, <1>6, <1>7, <3>1
      <4> QED
        BY <2>6, <4>1
    <3>2. CASE s \notin Voided
      <4>1. SumFunctionOnSet(sold, Voided \cup {s}) = SumFunctionOnSet(sold, Voided) + sold[s]
        BY <1>2, <2>1, <2>3, <2>5, <3>2, SumAdds
      <4> QED
        BY <1>3, <2>7, <4>1
    <3> QED
      BY <3>1, <3>2
  <2>9. SumFunctionOnSet(intact, Completed') = SumFunctionOnSet(intact, Completed)
    BY <1>3
  <2> QED
    BY <2>2, <2>4, <2>6, <2>7, <2>8, <2>9
<1>8. ASSUME ~raced, NEW c \in Customer
      PROVE  wallet'[c] = InitWallet[c] + Refunded(CreditedTo(c), VoidedTo(c))'
  <2> DEFINE joins == b.method = "store_credit" /\ b.customer = c
             R == CreditedTo(c)
             S == VoidedTo(c)
  <2>1. R \in SUBSET Return /\ S \in SUBSET Sale /\ S \subseteq Voided
    BY DEF CreditedTo, VoidedTo, Completed, Voided
  <2>2. CreditedTo(c)' = R /\ VoidedTo(c)' = (IF joins THEN S \cup {s} ELSE S)
    BY <1>1, <1>3 DEF CreditedTo, VoidedTo
  <2>3. wallet[c] = InitWallet[c] + Refunded(R, S)
    BY <1>8 DEF AloneInv, Agree, RefundsMatch
  <2>4. wallet'[c] = wallet[c] + (IF joins THEN Price(s) ELSE 0)
    <3>1. wallet \in [Customer -> Int]
      BY DEF IInv, TypeOK
    <3> QED
      BY <1>1, <1>n, <3>1
  <2>5. joins /\ s \in Voided => s \in S
    BY DEF VoidedTo
  <2> HIDE DEF joins, R, S, s
  <2>6. Refunded(R, S) \in Int /\ InitWallet[c] \in Int
    BY <2>1, RefundedGrows, ReturnsAssumption
  <2>7. Refunded(R, IF joins THEN S \cup {s} ELSE S) = Refunded(R, S) + (IF joins THEN Price(s) ELSE 0)
    <3>1. CASE joins /\ s \notin Voided
      BY <1>2, <2>1, <3>1, RefundedGrows
    <3>2. CASE joins /\ s \in Voided
      <4>1. S \cup {s} = S /\ Price(s) = 0
        BY <1>6, <1>8, <2>5, <3>2
      <4>2. Refunded(R, S \cup {s}) = Refunded(R, S)
        BY <4>1
      <4>3. Refunded(R, S) = Refunded(R, S) + Price(s)
        BY <2>6, <4>1
      <4> QED
        BY <3>2, <4>2, <4>3
    <3>3. CASE ~joins
      BY <2>6, <3>3
    <3> QED
      BY <3>1, <3>2, <3>3
  <2>8. Refunded(CreditedTo(c), VoidedTo(c))' = Refunded(R, IF joins THEN S \cup {s} ELSE S)
    BY <2>2 DEF Refunded
  <2> QED
    BY <1>2, <2>3, <2>4, <2>6, <2>7, <2>8
<1>9. ASSUME ~raced, NEW t \in open
      PROVE  cash'[t] = Float[t] - Refunded(PaidFrom(t), VoidedFrom(t))'
  <2> DEFINE joins == b.method = "cash" /\ b.till = t
             R == PaidFrom(t)
             S == VoidedFrom(t)
  <2>1. R \in SUBSET Return /\ S \in SUBSET Sale /\ S \subseteq Voided
    BY DEF PaidFrom, VoidedFrom, Completed, Voided
  <2>2. PaidFrom(t)' = R /\ VoidedFrom(t)' = (IF joins THEN S \cup {s} ELSE S)
    BY <1>1, <1>3 DEF PaidFrom, VoidedFrom
  <2>3. cash[t] = Float[t] - Refunded(R, S)
    BY <1>9 DEF AloneInv, Agree, RefundsMatch
  <2>4. cash \in [Till -> Int] /\ t \in Till /\ Float[t] \in Int
    BY ReturnsAssumption DEF IInv, TypeOK
  <2>5. cash'[t] = cash[t] - (IF joins THEN Price(s) ELSE 0)
    BY <1>1, <1>n, <2>4
  <2>6. joins /\ s \in Voided => s \in S
    BY DEF VoidedFrom
  <2> HIDE DEF joins, R, S, s
  <2>7. Refunded(R, S) \in Int
    BY <2>1, RefundedGrows
  <2>8. Refunded(R, IF joins THEN S \cup {s} ELSE S) = Refunded(R, S) + (IF joins THEN Price(s) ELSE 0)
    <3>1. CASE joins /\ s \notin Voided
      BY <1>2, <2>1, <3>1, RefundedGrows
    <3>2. CASE joins /\ s \in Voided
      <4>1. S \cup {s} = S /\ Price(s) = 0
        BY <1>6, <1>9, <2>6, <3>2
      <4>2. Refunded(R, S \cup {s}) = Refunded(R, S)
        BY <4>1
      <4>3. Refunded(R, S) = Refunded(R, S) + Price(s)
        BY <2>7, <4>1
      <4> QED
        BY <3>2, <4>2, <4>3
    <3>3. CASE ~joins
      BY <2>7, <3>3
    <3> QED
      BY <3>1, <3>2, <3>3
  <2>9. Refunded(PaidFrom(t), VoidedFrom(t))' = Refunded(R, IF joins THEN S \cup {s} ELSE S)
    BY <2>2 DEF Refunded
  <2> QED
    BY <1>2, <2>3, <2>4, <2>5, <2>7, <2>8, <2>9
<1>10. ~raced => Agree'
  BY <1>1, <1>4, <1>7, <1>8, <1>9 DEF Agree, RefundsMatch, QtyCeiling, AloneInv
<1>11. ASSUME ~raced, NEW k \in Request, k # q, req[k].op = "void", req[k].lines # {}
       PROVE  status'[req[k].sale] = status[req[k].sale]
  <2>1. req[k].sale # s
    BY <1>1, <1>5, <1>11 DEF AloneInv, Alone, Knows, Apart, Free
  <2>2. req[k].sale \in Sale
    BY <1>11, VoidShape DEF IInv, TypeOK
  <2> QED
    BY <1>1, <2>1, <2>2 DEF IInv, TypeOK
<1> QED
  BY <1>1, <1>4, <1>10, <1>11, EndAlone

LEMMA CloseAlone ==
    ASSUME IInv, AloneInv, NEW t \in Till, CloseTill(t)
    PROVE  AloneInv'
<1>1. /\ open' \subseteq open
      /\ UNCHANGED <<status, ret, stock, moved, wallet, cash, posted, req, raced>>
  BY DEF CloseTill
<1>2. Completed' = Completed /\ Voided' = Voided /\ \A l : Returned(l)' = Returned(l)
  BY <1>1 DEF Completed, Voided, Returned
<1>3. Alone => Alone'
  BY <1>1, <1>2 DEF Alone, Apart, Knows, Free, Passed, Fits
<1>4. /\ \A c : CreditedTo(c)' = CreditedTo(c) /\ VoidedTo(c)' = VoidedTo(c)
      /\ \A x : PaidFrom(x)' = PaidFrom(x) /\ VoidedFrom(x)' = VoidedFrom(x)
  BY <1>1, <1>2 DEF CreditedTo, VoidedTo, PaidFrom, VoidedFrom
<1>5. RefundsMatch => RefundsMatch'
  BY <1>1, <1>4 DEF RefundsMatch, Refunded
<1>6. (QtyCeiling => QtyCeiling') /\ (GoodsMatch => GoodsMatch')
  BY <1>1, <1>2 DEF QtyCeiling, GoodsMatch
<1> QED
  BY <1>1, <1>3, <1>5, <1>6 DEF AloneInv, Agree

LEMMA InitAlone == Init => AloneInv
<1> SUFFICES ASSUME Init PROVE Alone /\ Agree
  BY DEF AloneInv
<1>1. Completed = {} /\ Voided = {}
  BY DEF Init, Completed, Voided
<1>2. Alone
  BY DEF Init, Alone, Apart, Knows, Free, NoRequest
<1>3. \A l \in Line : Returned(l) = 0 /\ 0 <= LineOf[l].qty
  <2>1. \A l \in Line : Returned(l) = 0
    BY <1>1, SumOfNone DEF Returned, Completed
  <2> QED
    BY <2>1, ReturnsAssumption
<1>4. QtyCeiling
  BY <1>3 DEF QtyCeiling
<1>5. \A p \in Product : stock[p] = InitStock[p] /\ stock[p] \in Int
  BY ReturnsAssumption DEF Init
<1>6. GoodsMatch
  BY <1>1, <1>5, SumOfNone DEF GoodsMatch
<1>7. /\ \A c : CreditedTo(c) = {} /\ VoidedTo(c) = {}
      /\ \A t : PaidFrom(t) = {} /\ VoidedFrom(t) = {}
  BY <1>1 DEF CreditedTo, VoidedTo, PaidFrom, VoidedFrom
<1>8. Refunded({}, {}) = 0
  BY SumOfNone DEF Refunded
<1>9. /\ \A c \in Customer : wallet[c] = InitWallet[c] /\ wallet[c] \in Int
      /\ \A t \in open : cash[t] = Float[t] /\ cash[t] \in Int
  BY ReturnsAssumption DEF Init
<1>10. RefundsMatch
  <2>1. /\ \A c : Refunded(CreditedTo(c), VoidedTo(c)) = 0
        /\ \A t : Refunded(PaidFrom(t), VoidedFrom(t)) = 0
    BY <1>7, <1>8
  <2> QED
    BY <1>9, <2>1 DEF RefundsMatch
<1> QED
  BY <1>2, <1>4, <1>6, <1>10 DEF Agree

(* Once raced, always raced: what holds alone is kept while it is claimed,   *)
(* and a decided return stays as it is.                                      *)
LEMMA NextAlone ==
    ASSUME IInv, AloneInv, [Next]_vars
    PROVE  /\ AloneInv'
           /\ ~raced' => \A r \in Return :
                  ret[r].status \in {"completed", "rejected"} => ret'[r] = ret[r]
<1> DEFINE Final == ~raced' => \A r \in Return :
                        ret[r].status \in {"completed", "rejected"} => ret'[r] = ret[r]
<1>1. CASE UNCHANGED vars
  <2>1. (Alone => Alone') /\ (Agree => Agree')
    BY <1>1, SameBooks DEF vars, books, Alone, Apart, Knows, Free, Passed, Fits, Returned
  <2> QED
    BY <1>1, <2>1 DEF vars, books, AloneInv
<1>2. ASSUME NEW q \in Request, Serve(q) PROVE AloneInv' /\ Final
  <2>1. CASE \/ \E r \in Return : CreateBegin(q, r) \/ RejectBegin(q, r)
             \/ \E s \in Sale : VoidBegin(q, s)
             \/ \E r \in Return, method \in RefundMethod : ApproveBegin(q, r, method)
    <3>1. UNCHANGED ret
      BY <2>1 DEF CreateBegin, RejectBegin, VoidBegin, ApproveBegin, books
    <3>2. ~raced' => AloneInv'
      BY <2>1, BeginsAlone
    <3> QED
      BY <3>1, <3>2 DEF AloneInv
  <2>2. CASE (\E l \in Line : ApproveSum(q, l) \/ ApproveShelve(q, l)) \/ ApproveLock(q)
    BY <2>2, ApprovingAlone DEF ApproveSum, ApproveShelve, ApproveLock, books
  <2>3. CASE CreateCommit(q) \/ RejectCommit(q)
    BY <2>3, StatusAlone DEF CreateCommit, RejectCommit
  <2>4. CASE ApproveCommit(q)
    BY <2>4, ApproveCommitAlone DEF ApproveCommit
  <2>5. CASE VoidCommit(q)
    BY <2>5, VoidCommitAlone DEF VoidCommit
  <2>6. CASE Abort(q)
    BY <2>6, AbortAlone DEF Abort, books
  <2> QED
    BY <1>2, <2>1, <2>2, <2>3, <2>4, <2>5, <2>6 DEF Serve
<1>3. ASSUME NEW t \in Till, CloseTill(t) PROVE AloneInv' /\ Final
  BY <1>3, CloseAlone DEF CloseTill
<1> QED
  BY <1>1, <1>2, <1>3 DEF Next

LEMMA AloneInvariant == Spec => [](IInv /\ AloneInv)
<1>1. IInv /\ AloneInv /\ [Next]_vars => (IInv /\ AloneInv)'
  BY NextKeeps, NextAlone
<1> QED
  BY <1>1, InitHolds, InitAlone, PTL DEF Spec

-----------------------------------------------------------------------------
(* "Qty ceiling": without overlapping requests on the same lines, the        *)
(* approvals never let more of a line come back than was sold, however many  *)
(* returns were pending at once.                                             *)
THEOREM CeilingHolds == Spec => []CeilingAlone
<1>1. AloneInv => CeilingAlone
  BY DEF AloneInv, Agree, CeilingAlone
<1> QED
  BY <1>1, AloneInvariant, PTL

(* Without such overlaps goods and money come back together: shelves,        *)
(* wallets and open tills have exactly what the completed returns and the    *)
(* voids brought back and paid out.                                          *)
THEOREM ReturnsAgree == Spec => []ReturnsMatch
<1>1. AloneInv => ReturnsMatch
  BY DEF AloneInv, Agree, ReturnsMatch
<1> QED
  BY <1>1, AloneInvariant, PTL

(* Without such overlaps a completed or rejected return never changes.       *)
THEOREM DecisionsStay == Spec => DecidedIsFinal
<1>1. IInv /\ AloneInv /\ [Next]_vars =>
          [~raced' => \A r \in Return :
              ret[r].status \in {"completed", "rejected"} => ret'[r] = ret[r]]_vars
  BY NextAlone
<1> QED
  BY <1>1, AloneInvariant, PTL DEF Spec, DecidedIsFinal

=============================================================================

---------------------------- MODULE SalesProofs ----------------------------
(***************************************************************************)
(* What holds of Sales for any sales, products, customers, tills, request  *)
(* slots and parameters, and in the last part, what holds of SaleAccounts  *)
(* when two requests on the same sale, or on the same till, do not overlap *)
(* (Isolated): the sales implement SaleContract, and shelves, tills and    *)
(* customers' accounts are what the sales took and gave.                   *)
(***************************************************************************)
EXTENDS SaleAccounts, SumTheorems, TLAPS

USE DEF Stages, Statuses, Handlers

-----------------------------------------------------------------------------
(* A handler other than the clean-up is about one sale.                    *)
OneSale ==
    \A r \in Request : req[r].op \notin {"none", "cleanup"} => \E s \in Sale : req[r].sales = {s}

LEMMA OfType ==
    ASSUME OneSale, NEW r \in Request, req[r].op \notin {"none", "cleanup"}
    PROVE  Of(r) \in Sale /\ req[r].sales = {Of(r)}
<1>1. PICK s \in Sale : req[r].sales = {s}
  BY DEF OneSale
<1> QED
  BY <1>1 DEF Of

LEMMA IdleType == Idle \in RequestRecords /\ Idle.delta = NoUnits
<1>1. NoUnits \in [Product -> Int]
  BY DEF NoUnits
<1> QED
  BY <1>1 DEF Idle, RequestRecords

LEMMA LineType ==
    ASSUME NEW s \in Sale, NEW p \in Product
    PROVE  Basket[s].qty[p] \in Nat
BY BasketAssumption DEF BasketRecords

LEMMA ReleaseType ==
    ASSUME TypeOK, NEW r \in Request
    PROVE  /\ Release(productLock, r) \in [Product -> Request \cup {NoRequest}]
           /\ Release(rowLock, r) \in [Sale -> Request \cup {NoRequest}]
BY DEF TypeOK, Release

LEMMA TakeType ==
    ASSUME TypeOK, NEW r \in Request, NEW rows
    PROVE  /\ Take(productLock, r, rows) \in [Product -> Request \cup {NoRequest}]
           /\ Take(rowLock, r, rows) \in [Sale -> Request \cup {NoRequest}]
BY DEF TypeOK, Take

LEMMA LinesType ==
    ASSUME TypeOK, NEW q \in RequestRecords, NEW s \in Sale, NEW sign \in {-1, 1}
    PROVE  /\ WithLines(q, s, sign) \in RequestRecords
           /\ WithLines(q, s, sign).op = q.op
           /\ WithLines(q, s, sign).sales = q.sales
           /\ WithLines(q, s, sign).posted = q.posted
<1>1. ASSUME NEW p \in Product
      PROVE  q.delta[p] + sign * Basket[s].qty[p] \in Int /\ q.shelf[p] \in Int /\ stock[p] \in Int
  <2>1. q.delta[p] \in Int /\ q.shelf[p] \in Int /\ stock[p] \in Int
    BY DEF TypeOK, RequestRecords
  <2>2. sign * Basket[s].qty[p] \in Int
    BY LineType
  <2> QED
    BY <2>1, <2>2
<1>2. [p \in Product |-> q.delta[p] + sign * Basket[s].qty[p]] \in [Product -> Int]
  BY <1>1
<1>3. [p \in Product |-> IF p \in Needed(s) /\ q.delta[p] = 0 THEN stock[p] ELSE q.shelf[p]]
          \in [Product -> Int]
  BY <1>1
<1> QED
  BY <1>2, <1>3 DEF WithLines, RequestRecords

LEMMA JournalType ==
    ASSUME TypeOK, NEW q \in RequestRecords, NEW s \in Sale
    PROVE  /\ WithJournal(q, s) \in RequestRecords
           /\ WithJournal(q, s).op = q.op
           /\ WithJournal(q, s).sales = q.sales
           /\ WithJournal(q, s).shelf = q.shelf
           /\ WithJournal(q, s).delta = q.delta
<1>1. (entries[s].sales > 0) \in BOOLEAN /\ (entries[s].reversals > 0) \in BOOLEAN
  OBVIOUS
<1>2. periodOpen \in BOOLEAN
  BY DEF TypeOK
<1> DEFINE a == entries[s].sales > 0
           b == entries[s].reversals > 0
           new == [q EXCEPT !.stage = "locked", !.posted = a, !.reversed = b,
                            !.open = periodOpen]
<1>3. new \in RequestRecords
  <2> HIDE DEF a, b
  <2>1. a \in BOOLEAN /\ b \in BOOLEAN
    BY <1>1 DEF a, b
  <2> QED
    BY <1>2, <2>1, Zenon DEF RequestRecords
<1>4. new.op = q.op /\ new.sales = q.sales /\ new.shelf = q.shelf /\ new.delta = q.delta
  <2> HIDE DEF a, b
  <2> QED
    BY DEF RequestRecords
<1> QED
  BY <1>3, <1>4 DEF WithJournal

LEMMA TurnType ==
    ASSUME NEW q \in RequestRecords, NEW s, NEW sales \in SUBSET Sale
    PROVE  /\ AfterTurn(q, s, sales) \in RequestRecords
           /\ AfterTurn(q, s, sales).op = q.op
BY DEF AfterTurn, RequestRecords

LEMMA FinishType ==
    ASSUME TypeOK, OneSale, NEW r \in Request, Finish(r)
    PROVE  /\ req' \in [Request -> RequestRecords]
           /\ productLock' \in [Product -> Request \cup {NoRequest}]
           /\ rowLock' \in [Sale -> Request \cup {NoRequest}]
           /\ OneSale'
<1>1. req' \in [Request -> RequestRecords]
  BY IdleType DEF TypeOK, Finish
<1>2. OneSale'
  BY DEF TypeOK, Finish, OneSale, Idle
<1> QED
  BY <1>1, <1>2, ReleaseType DEF Finish, ReleaseLocks

LEMMA MoveType ==
    ASSUME TypeOK, NEW r \in Request, Move(r)
    PROVE  stock' \in [Product -> Int] /\ moved' \in [Product -> Int]
BY DEF TypeOK, Move, RequestRecords

LEMMA SetStatusType ==
    ASSUME TypeOK, NEW S, NEW status \in Statuses, SetStatus(S, status)
    PROVE  sale' \in [Sale -> [status : Statuses, checkout : Nat]]
BY DEF TypeOK, SetStatus

LEMMA PostType ==
    ASSUME TypeOK, NEW r \in Request, NEW s \in Sale, PostSale(r, s) \/ PostReversal(r, s)
    PROVE  entries' \in [Sale -> [sales : Nat, reversals : Nat]]
BY DEF TypeOK, PostSale, PostReversal

(* A request that begins on one sale.                                      *)
LEMMA StartType ==
    ASSUME TypeOK, OneSale, NEW r \in Request, NEW s \in Sale, NEW op \in Handlers,
           req' = [req EXCEPT ![r] = Start(r, op, s)]
    PROVE  req' \in [Request -> RequestRecords] /\ OneSale'
<1>1. Start(r, op, s) \in RequestRecords /\ Start(r, op, s).sales = {s}
  BY IdleType DEF Start, Idle, RequestRecords
<1> QED
  BY <1>1 DEF TypeOK, OneSale

(* A request whose record changes and stays about the same sale.           *)
LEMMA StepType ==
    ASSUME TypeOK, OneSale, NEW r \in Request, NEW q \in RequestRecords,
           q.op = req[r].op, q.sales = req[r].sales \/ q.op = "cleanup",
           req' = [req EXCEPT ![r] = q]
    PROVE  req' \in [Request -> RequestRecords] /\ OneSale'
BY DEF TypeOK, OneSale

-----------------------------------------------------------------------------
(* Types                                                                   *)

TypeInv == TypeOK /\ OneSale

LEMMA BeginType ==
    ASSUME TypeInv, NEW r \in Request, Begin(r)
    PROVE  TypeInv'
<1> USE DEF TypeInv
<1>1. ASSUME NEW s \in Sale, CreateBegin(r, s) PROVE TypeInv'
  BY <1>1, StartType DEF CreateBegin, dbVars, lockVars, TypeOK
<1>2. ASSUME NEW s \in Sale, VoidBegin(r, s) PROVE TypeInv'
  BY <1>2, StartType DEF VoidBegin, dbVars, lockVars, TypeOK
<1>3. ASSUME NEW s \in Sale, CallbackBegin(r, s) PROVE TypeInv'
  BY <1>3, StartType, TakeType DEF CallbackBegin, dbVars, TypeOK
<1>4. ASSUME NEW s \in Sale, ConfirmBegin(r, s) PROVE TypeInv'
  BY <1>4, StartType DEF ConfirmBegin, dbVars, lockVars, TypeOK
<1>5. ASSUME NEW s \in Sale, PushBegin(r, s) PROVE TypeInv'
  BY <1>5, StartType DEF PushBegin, dbVars, lockVars, TypeOK
<1>6. ASSUME NEW s \in Sale, NEW checkout \in 1..MaxPush, FailBegin(r, s, checkout) PROVE TypeInv'
  BY <1>6, StartType DEF FailBegin, dbVars, lockVars, TypeOK
<1>7. ASSUME NEW S \in SUBSET Sale, CleanupBegin(r, S) PROVE TypeInv'
  <2>1. [Idle EXCEPT !.op = "cleanup", !.todo = S] \in RequestRecords
    BY IdleType DEF Idle, RequestRecords
  <2>2. req' \in [Request -> RequestRecords] /\ OneSale'
    BY <1>7, <2>1 DEF CleanupBegin, TypeOK, OneSale, Idle
  <2> QED
    BY <1>7, <2>2 DEF CleanupBegin, dbVars, lockVars, TypeOK
<1> QED
  BY <1>1, <1>2, <1>3, <1>4, <1>5, <1>6, <1>7 DEF Begin

(* The steps that take locks and read.                                     *)
LEMMA ReadType ==
    ASSUME TypeInv, NEW r \in Request,
           \/ CreateLock(r) \/ VoidLock(r) \/ FailLock(r) \/ PaymentPrepare(r) \/ PushAccepted(r)
           \/ Flush(r) \/ \E s \in Sale : CleanupTake(r, s)
    PROVE  TypeInv'
<1> USE DEF TypeInv
<1>0. req[r] \in RequestRecords
  BY DEF TypeOK
<1>1. CASE CreateLock(r)
  <2>1. Of(r) \in Sale /\ req[r].op = "create"
    BY <1>1, OfType DEF CreateLock, At
  <2> DEFINE w == WithLines(req[r], Of(r), -1)
             q == [w EXCEPT !.stage = "locked", !.cash = expected[Basket[Of(r)].till],
                            !.open = periodOpen]
  <2>2. w \in RequestRecords /\ w.op = req[r].op /\ w.sales = req[r].sales
    BY <1>0, <2>1, LinesType
  <2>3. expected[Basket[Of(r)].till] \in Int
    BY <2>1, BasketAssumption DEF BasketRecords, TypeOK
  <2>4. q \in RequestRecords /\ q.op = req[r].op /\ q.sales = req[r].sales
    <3> HIDE DEF w
    <3> QED
      BY <2>2, <2>3 DEF RequestRecords, TypeOK
  <2>5. req' = [req EXCEPT ![r] = q]
    BY <1>1 DEF CreateLock
  <2>6. req' \in [Request -> RequestRecords] /\ OneSale'
    <3> HIDE DEF q
    <3> QED
      BY <2>4, <2>5, StepType
  <2> QED
    BY <1>1, <2>6, TakeType DEF CreateLock, LockProducts, dbVars, TypeOK
<1>2. CASE VoidLock(r)
  <2>1. Of(r) \in Sale
    BY <1>2, OfType DEF VoidLock, At
  <2> DEFINE w == WithLines(req[r], Of(r), 1)
             q == WithJournal(w, Of(r))
  <2>2. w \in RequestRecords /\ w.op = req[r].op /\ w.sales = req[r].sales
    BY <1>0, <2>1, LinesType
  <2>3. q \in RequestRecords /\ q.op = req[r].op /\ q.sales = req[r].sales
    BY <2>1, <2>2, JournalType
  <2>4. req' = [req EXCEPT ![r] = q]
    BY <1>2 DEF VoidLock
  <2>5. req' \in [Request -> RequestRecords] /\ OneSale'
    <3> HIDE DEF q
    <3> QED
      BY <2>3, <2>4, StepType
  <2> QED
    BY <1>2, <2>5, TakeType DEF VoidLock, LockProducts, dbVars, TypeOK
<1>3. CASE FailLock(r)
  <2>1. Of(r) \in Sale
    BY <1>3, OfType DEF FailLock, At
  <2> DEFINE w == WithLines(req[r], Of(r), 1)
             q == [w EXCEPT !.stage = "locked"]
  <2>2. w \in RequestRecords /\ w.op = req[r].op /\ w.sales = req[r].sales
    BY <1>0, <2>1, LinesType
  <2>3. q \in RequestRecords /\ q.op = req[r].op /\ q.sales = req[r].sales
    <3> HIDE DEF w
    <3> QED
      BY <2>2 DEF RequestRecords
  <2>4. req' = [req EXCEPT ![r] = q]
    BY <1>3 DEF FailLock
  <2>5. req' \in [Request -> RequestRecords] /\ OneSale'
    <3> HIDE DEF q
    <3> QED
      BY <2>3, <2>4, StepType
  <2> QED
    BY <1>3, <2>5, TakeType DEF FailLock, LockProducts, dbVars, TypeOK
<1>4. CASE PaymentPrepare(r)
  <2>1. Of(r) \in Sale
    BY <1>4, OfType DEF PaymentPrepare, At
  <2> DEFINE q == WithJournal(req[r], Of(r))
  <2>2. q \in RequestRecords /\ q.op = req[r].op /\ q.sales = req[r].sales
    BY <1>0, <2>1, JournalType
  <2>3. req' = [req EXCEPT ![r] = q]
    BY <1>4 DEF PaymentPrepare
  <2>4. req' \in [Request -> RequestRecords] /\ OneSale'
    <3> HIDE DEF q
    <3> QED
      BY <2>2, <2>3, StepType
  <2> QED
    BY <1>4, <2>4 DEF PaymentPrepare, dbVars, lockVars, TypeOK
<1>5. CASE PushAccepted(r)
  <2>1. Of(r) \in Sale
    BY <1>5, OfType DEF PushAccepted, At
  <2> DEFINE q == [req[r] EXCEPT !.stage = "locked", !.checkout = push[Of(r)] + 1]
  <2>2. q \in RequestRecords /\ q.op = req[r].op /\ q.sales = req[r].sales
    <3>1. push[Of(r)] + 1 \in Nat
      BY <2>1 DEF TypeOK
    <3> QED
      BY <1>0, <3>1 DEF RequestRecords
  <2>3. req' = [req EXCEPT ![r] = q]
    BY <1>5, <1>0 DEF PushAccepted, TypeOK
  <2>4. req' \in [Request -> RequestRecords] /\ OneSale'
    <3> HIDE DEF q
    <3> QED
      BY <2>2, <2>3, StepType
  <2>5. push' \in [Sale -> Nat]
    BY <1>5, <2>1 DEF PushAccepted, TypeOK
  <2> QED
    BY <1>5, <2>4, <2>5 DEF PushAccepted, dbVars, lockVars, TypeOK
<1>6. CASE Flush(r)
  <2> DEFINE q == [req[r] EXCEPT !.stage = "flushed",
                                 !.open = IF req[r].op = "void" THEN periodOpen ELSE @]
  <2>1. q \in RequestRecords /\ q.op = req[r].op /\ q.sales = req[r].sales
    BY <1>0 DEF RequestRecords, TypeOK
  <2>2. req' = [req EXCEPT ![r] = q]
    BY <1>6, <1>0 DEF Flush, TypeOK
  <2>3. req' \in [Request -> RequestRecords] /\ OneSale'
    <3> HIDE DEF q
    <3> QED
      BY <2>1, <2>2, StepType
  <2> QED
    BY <1>6, <2>3, TakeType DEF Flush, dbVars, TypeOK
<1>7. ASSUME NEW s \in Sale, CleanupTake(r, s) PROVE TypeInv'
  <2> DEFINE w == WithLines(req[r], s, 1)
             q == AfterTurn(w, s, req[r].sales \cup {s})
  <2>1. w \in RequestRecords /\ w.op = "cleanup"
    BY <1>0, <1>7, LinesType DEF CleanupTake, At
  <2>2. req[r].sales \cup {s} \in SUBSET Sale
    BY <1>0 DEF RequestRecords
  <2>3. q \in RequestRecords /\ q.op = "cleanup"
    BY <2>1, <2>2, TurnType
  <2>4. req' = [req EXCEPT ![r] = q] /\ req[r].op = "cleanup"
    BY <1>7 DEF CleanupTake, At
  <2>5. req' \in [Request -> RequestRecords] /\ OneSale'
    <3> HIDE DEF q
    <3> QED
      BY <2>3, <2>4, StepType
  <2> QED
    BY <1>7, <2>5, TakeType DEF CleanupTake, LockProducts, dbVars, TypeOK
<1> QED
  BY <1>1, <1>2, <1>3, <1>4, <1>5, <1>6, <1>7

(* The commits.                                                            *)
LEMMA CommitType ==
    ASSUME TypeInv, NEW r \in Request,
           CreateCommit(r) \/ VoidCommit(r) \/ PaymentCommit(r) \/ RestoreCommit(r) \/ PushCommit(r)
    PROVE  TypeInv'
<1> USE DEF TypeInv
<1>0. ASSUME NEW s \in Sale
      PROVE  /\ Basket[s].till \in Session /\ Basket[s].customer \in Customer
             /\ Basket[s].total \in Nat /\ Basket[s].change \in Nat
  BY BasketAssumption DEF BasketRecords
<1>1. CASE CreateCommit(r)
  <2>1. Of(r) \in Sale
    BY <1>1, OfType DEF CreateCommit, At
  <2>2. sale' \in [Sale -> [status : Statuses, checkout : Nat]]
    BY <1>1, SetStatusType DEF CreateCommit
  <2>3. expected' \in [Session -> Int]
    <3>1. req[r].cash \in Int
      BY DEF TypeOK, RequestRecords
    <3> QED
      BY <1>0, <1>1, <2>1, <3>1 DEF CreateCommit, TypeOK
  <2>4. credit' \in [Customer -> Int] /\ wallet' \in [Customer -> Int]
    BY <1>0, <1>1, <2>1 DEF CreateCommit, ChargeCustomer, TypeOK
  <2>5. entries' \in [Sale -> [sales : Nat, reversals : Nat]]
    BY <1>1, <2>1, PostType DEF CreateCommit, TypeOK
  <2> QED
    BY <1>1, <2>2, <2>3, <2>4, <2>5, MoveType, FinishType DEF CreateCommit, TypeOK
<1>2. CASE VoidCommit(r)
  <2>1. Of(r) \in Sale
    BY <1>2, OfType DEF VoidCommit, At
  <2>2. sale' \in [Sale -> [status : Statuses, checkout : Nat]]
    BY <1>2, SetStatusType DEF VoidCommit
  <2>3. expected' \in [Session -> Int]
    BY <1>0, <1>2, <2>1 DEF VoidCommit, RefundTill, TypeOK
  <2>4. credit' \in [Customer -> Int] /\ wallet' \in [Customer -> Int]
    BY <1>0, <1>2, <2>1 DEF VoidCommit, RefundCustomer, TypeOK
  <2>5. entries' \in [Sale -> [sales : Nat, reversals : Nat]]
    BY <1>2, <2>1, PostType DEF VoidCommit
  <2>6. restored' \in [Sale -> Nat]
    BY <1>2, <2>1 DEF VoidCommit, TypeOK
  <2> QED
    BY <1>2, <2>2, <2>3, <2>4, <2>5, <2>6, MoveType, FinishType DEF VoidCommit, TypeOK
<1>3. CASE PaymentCommit(r)
  <2>1. Of(r) \in Sale
    BY <1>3, OfType DEF PaymentCommit, At
  <2>2. sale' \in [Sale -> [status : Statuses, checkout : Nat]]
    BY <1>3, SetStatusType DEF PaymentCommit
  <2>3. entries' \in [Sale -> [sales : Nat, reversals : Nat]]
    BY <1>3, <2>1, PostType DEF PaymentCommit
  <2> QED
    BY <1>3, <2>2, <2>3, FinishType DEF PaymentCommit, TypeOK
<1>4. CASE RestoreCommit(r)
  <2>1. sale' \in [Sale -> [status : Statuses, checkout : Nat]]
    BY <1>4, SetStatusType DEF RestoreCommit
  <2>2. restored' \in [Sale -> Nat]
    BY <1>4 DEF RestoreCommit, TypeOK
  <2> QED
    BY <1>4, <2>1, <2>2, MoveType, FinishType DEF RestoreCommit, TypeOK
<1>5. CASE PushCommit(r)
  <2>1. Of(r) \in Sale /\ req[r].checkout \in Nat
    BY <1>5, OfType DEF PushCommit, At, TypeOK, RequestRecords
  <2>2. sale' \in [Sale -> [status : Statuses, checkout : Nat]]
    BY <1>5, <2>1 DEF PushCommit, TypeOK
  <2> QED
    BY <1>5, <2>2, FinishType DEF PushCommit, TypeOK
<1> QED
  BY <1>1, <1>2, <1>3, <1>4, <1>5

(* Refusals, faults and the closing of the period.                         *)
LEMMA EndType ==
    ASSUME TypeInv,
           ClosePeriod \/ \E r \in Request : Reject(r) \/ Interrupt(r)
    PROVE  TypeInv'
<1> USE DEF TypeInv
<1>1. ASSUME NEW r \in Request, Reject(r) \/ Abort(r) PROVE TypeInv'
  BY <1>1, FinishType DEF Reject, Abort, dbVars, TypeOK
<1>2. ASSUME NEW r \in Request, NEW s \in Sale, CleanupSkip(r, s) PROVE TypeInv'
  <2> DEFINE w == [Idle EXCEPT !.op = "cleanup", !.todo = req[r].todo]
             q == AfterTurn(w, s, {})
  <2>1. w \in RequestRecords /\ w.op = "cleanup"
    BY IdleType DEF Idle, RequestRecords, TypeOK
  <2>2. q \in RequestRecords /\ q.op = "cleanup"
    BY <2>1, TurnType
  <2>3. req' = [req EXCEPT ![r] = q] /\ req[r].op = "cleanup"
    BY <1>2 DEF CleanupSkip, At
  <2>4. req' \in [Request -> RequestRecords] /\ OneSale'
    <3> HIDE DEF q
    <3> QED
      BY <2>2, <2>3, StepType
  <2> QED
    BY <1>2, <2>4, ReleaseType DEF CleanupSkip, ReleaseLocks, dbVars, TypeOK
<1>3. CASE ClosePeriod
  BY <1>3 DEF ClosePeriod, dbVars, lockVars, TypeOK, OneSale
<1> QED
  BY <1>1, <1>2, <1>3 DEF Interrupt

LEMMA StutterType == TypeInv /\ UNCHANGED vars => TypeInv'
BY DEF TypeInv, TypeOK, OneSale, vars, dbVars, lockVars

LEMMA InitType == Init => TypeInv
BY IdleType, OpeningAssumption DEF Init, TypeInv, TypeOK, OneSale, NoUnits, Idle

LEMMA NextType == TypeInv /\ [Next]_vars => TypeInv'
BY BeginType, ReadType, CommitType, EndType, StutterType DEF Next, Proceed

(* The tables, locks and sessions keep their shape: for all sales, stocks, *)
(* schemas and numbers of concurrent requests.                             *)
THEOREM TypesCorrect == Spec => []TypeOK
<1>1. Spec => []TypeInv
  BY InitType, NextType, PTL DEF Spec
<1>2. TypeInv => TypeOK
  BY DEF TypeInv
<1> QED
  BY <1>1, <1>2, PTL


-----------------------------------------------------------------------------
(* products.stock_quantity agrees with the stock_movements table in every  *)
(* interleaving.  A handler's UPDATE writes a number computed from what its  *)
(* session read, so the agreement alone is not inductive: it needs that    *)
(* nobody else changed the row in between, that is, that a request with    *)
(* movements of a product holds the product's lock and that what it read is  *)
(* still there.                                                            *)

HoldsWhatItRead ==
    \A r \in Request, p \in Product :
        req[r].delta[p] # 0 => productLock[p] = r /\ req[r].shelf[p] = stock[p]

LedgerInv == TypeInv /\ HoldsWhatItRead /\ StockIsLedger

USE DEF LedgerInv

(* Dropping a request's reads and locks leaves the others' alone.          *)
LEMMA DropKeepsReads ==
    ASSUME LedgerInv, NEW r \in Request, UNCHANGED <<stock, moved>>,
           NEW q \in RequestRecords, q.delta = NoUnits,
           req' = [req EXCEPT ![r] = q], ReleaseLocks(r)
    PROVE  HoldsWhatItRead' /\ StockIsLedger'
BY DEF TypeInv, TypeOK, HoldsWhatItRead, StockIsLedger, ReleaseLocks, Release, NoUnits

LEMMA FinishKeepsReads ==
    ASSUME LedgerInv, NEW r \in Request, UNCHANGED <<stock, moved>>, Finish(r)
    PROVE  HoldsWhatItRead' /\ StockIsLedger'
BY DropKeepsReads, IdleType DEF Finish, Idle

(* A commit of movements: what it writes is what is there plus its delta.  *)
LEMMA MoveKeepsLedger ==
    ASSUME LedgerInv, NEW r \in Request, Move(r), Finish(r)
    PROVE  HoldsWhatItRead' /\ StockIsLedger'
<1>1. \A p \in Product : stock'[p] = stock[p] + req[r].delta[p]
  BY DEF TypeInv, TypeOK, RequestRecords, HoldsWhatItRead, Move
<1>2. StockIsLedger'
  <2> SUFFICES ASSUME NEW p \in Product
               PROVE  stock'[p] = InitStock[p] + moved'[p]
    BY DEF StockIsLedger
  <2>1. /\ InitStock[p] \in Int /\ stock[p] \in Int /\ moved[p] \in Int
        /\ req[r].delta[p] \in Int
    BY OpeningAssumption DEF TypeInv, TypeOK, RequestRecords
  <2>2. stock[p] = InitStock[p] + moved[p] /\ moved'[p] = moved[p] + req[r].delta[p]
    BY DEF StockIsLedger, Move
  <2> QED
    BY <1>1, <2>1, <2>2
<1>3. HoldsWhatItRead'
  <2> SUFFICES ASSUME NEW q \in Request, NEW p \in Product, req'[q].delta[p] # 0
               PROVE  productLock'[p] = q /\ req'[q].shelf[p] = stock'[p]
    BY DEF HoldsWhatItRead
  <2>1. q # r /\ req'[q] = req[q]
    BY DEF Finish, Idle, NoUnits, TypeInv, TypeOK
  <2>2. productLock[p] = q /\ req[q].shelf[p] = stock[p]
    BY <2>1 DEF HoldsWhatItRead
  <2>3. req[r].delta[p] = 0
    BY <2>1, <2>2 DEF HoldsWhatItRead
  <2>4. stock'[p] = stock[p]
    BY <2>3 DEF Move
  <2>5. productLock'[p] = q
    BY <2>1, <2>2 DEF Finish, ReleaseLocks, Release, TypeInv, TypeOK
  <2> QED
    BY <2>1, <2>2, <2>4, <2>5
<1> QED
  BY <1>2, <1>3

(* Taking the lines of a sale reads its products under their locks.        *)
LEMMA LinesKeepReads ==
    ASSUME LedgerInv, NEW r \in Request, NEW s \in Sale, NEW sign \in {-1, 1},
           LockProducts(r, s), UNCHANGED <<stock, moved>>,
           NEW q \in RequestRecords, req' = [req EXCEPT ![r] = q],
           q.shelf = WithLines(req[r], s, sign).shelf,
           q.delta = WithLines(req[r], s, sign).delta
    PROVE  HoldsWhatItRead' /\ StockIsLedger'
<1>1. StockIsLedger'
  BY DEF StockIsLedger
<1>2. ASSUME NEW p \in Product, q.delta[p] # 0
      PROVE  productLock'[p] = r /\ q.shelf[p] = stock[p]
  <2>0. req[r] \in RequestRecords
    BY DEF TypeInv, TypeOK
  <2>1. /\ q.shelf[p] = IF p \in Needed(s) /\ req[r].delta[p] = 0
                        THEN stock[p] ELSE req[r].shelf[p]
        /\ q.delta[p] = req[r].delta[p] + sign * Basket[s].qty[p]
    BY <2>0 DEF WithLines, RequestRecords
  <2>2. CASE req[r].delta[p] # 0
    BY <2>1, <2>2 DEF HoldsWhatItRead, LockProducts, Take, TypeInv, TypeOK
  <2>3. CASE req[r].delta[p] = 0
    <3>1. Basket[s].qty[p] \in Nat /\ Basket[s].qty[p] # 0
      BY <1>2, <2>1, <2>3, LineType
    <3>2. p \in Needed(s)
      BY <3>1 DEF Needed
    <3> QED
      BY <2>1, <2>3, <3>2 DEF LockProducts, Take, TypeInv, TypeOK
  <2> QED
    BY <2>2, <2>3
<1>3. ASSUME NEW o \in Request, o # r, NEW p \in Product, req[o].delta[p] # 0
      PROVE  productLock'[p] = o
  <2>1. productLock[p] = o
    BY <1>3 DEF HoldsWhatItRead
  <2>2. p \notin Needed(s)
    BY <1>3, <2>1, ParameterAssumption DEF LockProducts, Granted
  <2> QED
    BY <2>1, <2>2 DEF LockProducts, Take, TypeInv, TypeOK
<1> QED
  BY <1>1, <1>2, <1>3 DEF HoldsWhatItRead, TypeInv, TypeOK

(* Other steps of one request move nothing and read no product.            *)
LEMMA OtherStepsKeepReads ==
    ASSUME LedgerInv, NEW r \in Request, UNCHANGED <<stock, moved, productLock>>,
           NEW q \in RequestRecords, req' = [req EXCEPT ![r] = q],
           q.delta = NoUnits \/ (q.delta = req[r].delta /\ q.shelf = req[r].shelf)
    PROVE  HoldsWhatItRead' /\ StockIsLedger'
BY DEF HoldsWhatItRead, StockIsLedger, TypeInv, TypeOK, NoUnits

-----------------------------------------------------------------------------
LEMMA LedgerBegin ==
    ASSUME LedgerInv, NEW r \in Request, Begin(r)
    PROVE  HoldsWhatItRead' /\ StockIsLedger'
<1>1. ASSUME NEW op \in Handlers, NEW s \in Sale
      PROVE  Start(r, op, s) \in RequestRecords /\ Start(r, op, s).delta = NoUnits
  BY IdleType DEF Start, Idle, RequestRecords
<1>2. ASSUME NEW s \in Sale,
             \/ CreateBegin(r, s) \/ VoidBegin(r, s) \/ CallbackBegin(r, s)
             \/ ConfirmBegin(r, s) \/ PushBegin(r, s)
             \/ \E checkout \in 1..MaxPush : FailBegin(r, s, checkout)
      PROVE  HoldsWhatItRead' /\ StockIsLedger'
  <2>1. PICK op \in Handlers : req' = [req EXCEPT ![r] = Start(r, op, s)]
    <3>1. \/ req' = [req EXCEPT ![r] = Start(r, "create", s)]
          \/ req' = [req EXCEPT ![r] = Start(r, "void", s)]
          \/ req' = [req EXCEPT ![r] = Start(r, "callback", s)]
          \/ req' = [req EXCEPT ![r] = Start(r, "confirm", s)]
          \/ req' = [req EXCEPT ![r] = Start(r, "push", s)]
          \/ req' = [req EXCEPT ![r] = Start(r, "fail", s)]
      BY <1>2 DEF CreateBegin, VoidBegin, CallbackBegin, ConfirmBegin, PushBegin, FailBegin
    <3> QED
      BY <3>1
  <2>2. UNCHANGED <<stock, moved, productLock>>
    BY <1>2 DEF CreateBegin, VoidBegin, CallbackBegin, ConfirmBegin, PushBegin, FailBegin,
                dbVars, lockVars
  <2> QED
    BY <1>1, <2>1, <2>2, OtherStepsKeepReads
<1>3. ASSUME NEW S \in SUBSET Sale, CleanupBegin(r, S)
      PROVE  HoldsWhatItRead' /\ StockIsLedger'
  <2> DEFINE q == [Idle EXCEPT !.op = "cleanup", !.todo = S]
  <2>1. q \in RequestRecords /\ q.delta = NoUnits
    BY IdleType DEF RequestRecords
  <2>2. req' = [req EXCEPT ![r] = q] /\ UNCHANGED <<stock, moved, productLock>>
    BY <1>3 DEF CleanupBegin, dbVars, lockVars
  <2> HIDE DEF q
  <2> QED
    BY <2>1, <2>2, OtherStepsKeepReads
<1> QED
  BY <1>2, <1>3 DEF Begin

LEMMA LedgerRead ==
    ASSUME LedgerInv, NEW r \in Request,
           \/ CreateLock(r) \/ VoidLock(r) \/ FailLock(r) \/ PaymentPrepare(r) \/ PushAccepted(r)
           \/ Flush(r) \/ \E s \in Sale : CleanupTake(r, s)
    PROVE  HoldsWhatItRead' /\ StockIsLedger'
<1>0. TypeInv' /\ req[r] \in RequestRecords
  BY ReadType DEF TypeInv, TypeOK
<1>a. req'[r] \in RequestRecords
  BY <1>0 DEF TypeInv, TypeOK
<1>1. CASE CreateLock(r) \/ VoidLock(r) \/ FailLock(r)
  <2>1. Of(r) \in Sale
    BY <1>1, OfType DEF CreateLock, VoidLock, FailLock, At, TypeInv
  <2>2. PICK sign \in {-1, 1} :
           /\ req' = [req EXCEPT ![r] = req'[r]]
           /\ req'[r].shelf = WithLines(req[r], Of(r), sign).shelf
           /\ req'[r].delta = WithLines(req[r], Of(r), sign).delta
    <3> DEFINE a == WithLines(req[r], Of(r), -1)
               b == WithLines(req[r], Of(r), 1)
    <3>1. a \in RequestRecords /\ b \in RequestRecords
      BY <1>0, <2>1, LinesType DEF TypeInv
    <3>2. /\ CreateLock(r) => req' = [req EXCEPT ![r] = [a EXCEPT !.stage = "locked",
                 !.cash = expected[Basket[Of(r)].till], !.open = periodOpen]]
          /\ VoidLock(r) => req' = [req EXCEPT ![r] = WithJournal(b, Of(r))]
          /\ FailLock(r) => req' = [req EXCEPT ![r] = [b EXCEPT !.stage = "locked"]]
      BY DEF CreateLock, VoidLock, FailLock
    <3>a. WithJournal(b, Of(r)).shelf = b.shelf /\ WithJournal(b, Of(r)).delta = b.delta
      BY <2>1, <3>1, JournalType DEF TypeInv
    <3> HIDE DEF a, b
    <3>3. \/ req'[r].shelf = a.shelf /\ req'[r].delta = a.delta
          \/ req'[r].shelf = b.shelf /\ req'[r].delta = b.delta
      <4>1. CASE CreateLock(r)
        <5>1. req'[r] = [a EXCEPT !.stage = "locked",
                 !.cash = expected[Basket[Of(r)].till], !.open = periodOpen]
          BY <4>1, <3>2 DEF TypeInv, TypeOK
        <5> QED
          BY <3>1, <5>1 DEF RequestRecords
      <4>2. CASE VoidLock(r)
        BY <4>2, <3>2, <3>a DEF TypeInv, TypeOK
      <4>3. CASE FailLock(r)
        BY <4>3, <3>1, <3>2 DEF RequestRecords, TypeInv, TypeOK
      <4> QED
        BY <1>1, <4>1, <4>2, <4>3
    <3>4. req' = [req EXCEPT ![r] = req'[r]]
      BY <1>1, <3>2 DEF TypeInv, TypeOK
    <3> QED
      BY <3>3, <3>4 DEF a, b
  <2>3. LockProducts(r, Of(r)) /\ UNCHANGED <<stock, moved>>
    BY <1>1 DEF CreateLock, VoidLock, FailLock, dbVars
  <2> QED
    BY <1>a, <2>1, <2>2, <2>3, LinesKeepReads
<1>2. CASE PaymentPrepare(r) \/ PushAccepted(r) \/ Flush(r)
  <2>1. /\ req' = [req EXCEPT ![r] = req'[r]]
        /\ req'[r].delta = req[r].delta /\ req'[r].shelf = req[r].shelf
    <3>1. CASE PaymentPrepare(r)
      <4>1. Of(r) \in Sale
        BY <3>1, OfType DEF PaymentPrepare, At, TypeInv
      <4>2. req' = [req EXCEPT ![r] = WithJournal(req[r], Of(r))]
        BY <3>1 DEF PaymentPrepare
      <4> QED
        BY <1>0, <4>1, <4>2, JournalType DEF TypeInv, TypeOK
    <3>2. CASE PushAccepted(r) \/ Flush(r)
      BY <1>0, <3>2 DEF PushAccepted, Flush, RequestRecords, TypeInv, TypeOK
    <3> QED
      BY <1>2, <3>1, <3>2
  <2>2. UNCHANGED <<stock, moved, productLock>>
    BY <1>2 DEF PaymentPrepare, PushAccepted, Flush, dbVars, lockVars
  <2> QED
    BY <1>a, <2>1, <2>2, OtherStepsKeepReads
<1>3. ASSUME NEW s \in Sale, CleanupTake(r, s)
      PROVE  HoldsWhatItRead' /\ StockIsLedger'
  <2> DEFINE w == WithLines(req[r], s, 1)
  <2>1. w \in RequestRecords
    BY <1>0, LinesType DEF TypeInv
  <2>2. req' = [req EXCEPT ![r] = AfterTurn(w, s, req[r].sales \cup {s})]
    BY <1>3 DEF CleanupTake
  <2>3. /\ req' = [req EXCEPT ![r] = req'[r]]
        /\ req'[r].delta = w.delta /\ req'[r].shelf = w.shelf
    <3> HIDE DEF w
    <3> QED
      BY <2>1, <2>2 DEF AfterTurn, RequestRecords, TypeInv, TypeOK
  <2>4. LockProducts(r, s) /\ UNCHANGED <<stock, moved>>
    BY <1>3 DEF CleanupTake, dbVars
  <2> QED
    BY <1>a, <2>3, <2>4, LinesKeepReads
<1> QED
  BY <1>1, <1>2, <1>3

LEMMA LedgerCommit ==
    ASSUME LedgerInv, NEW r \in Request,
           \/ CreateCommit(r) \/ VoidCommit(r) \/ PaymentCommit(r) \/ RestoreCommit(r)
           \/ PushCommit(r) \/ Reject(r) \/ Abort(r)
    PROVE  HoldsWhatItRead' /\ StockIsLedger'
<1>1. CASE CreateCommit(r) \/ VoidCommit(r) \/ RestoreCommit(r)
  BY <1>1, MoveKeepsLedger DEF CreateCommit, VoidCommit, RestoreCommit
<1>2. CASE PaymentCommit(r) \/ PushCommit(r) \/ Reject(r) \/ Abort(r)
  BY <1>2, FinishKeepsReads DEF PaymentCommit, PushCommit, Reject, Abort, dbVars
<1> QED
  BY <1>1, <1>2

LEMMA LedgerSkip ==
    ASSUME LedgerInv, NEW r \in Request, NEW s \in Sale, CleanupSkip(r, s)
    PROVE  HoldsWhatItRead' /\ StockIsLedger'
<1> DEFINE w == [Idle EXCEPT !.op = "cleanup", !.todo = req[r].todo]
           q == AfterTurn(w, s, {})
<1>1. w \in RequestRecords /\ w.delta = NoUnits
  BY IdleType DEF RequestRecords, TypeInv, TypeOK
<1>2. q \in RequestRecords /\ q.delta = NoUnits
  <2> HIDE DEF w
  <2> QED
    BY <1>1, TurnType DEF AfterTurn, RequestRecords
<1>3. req' = [req EXCEPT ![r] = q] /\ ReleaseLocks(r) /\ UNCHANGED <<stock, moved>>
  BY DEF CleanupSkip, dbVars
<1> HIDE DEF q
<1> QED
  BY <1>2, <1>3, DropKeepsReads

LEMMA LedgerNext == LedgerInv /\ [Next]_vars => LedgerInv'
<1> SUFFICES ASSUME LedgerInv, [Next]_vars PROVE LedgerInv'
  OBVIOUS
<1>1. TypeInv'
  BY NextType
<1>2. ASSUME NEW r \in Request, Begin(r) \/ Proceed(r) \/ Reject(r) \/ Interrupt(r)
      PROVE  HoldsWhatItRead' /\ StockIsLedger'
  BY <1>2, LedgerBegin, LedgerRead, LedgerCommit, LedgerSkip DEF Proceed, Interrupt
<1>3. CASE ClosePeriod \/ UNCHANGED vars
  <2>1. UNCHANGED <<stock, moved, productLock, req>>
    BY <1>3 DEF ClosePeriod, vars, dbVars, lockVars
  <2>2. HoldsWhatItRead'
    BY <2>1 DEF HoldsWhatItRead
  <2>3. StockIsLedger'
    BY <2>1 DEF StockIsLedger
  <2> QED
    BY <1>1, <2>2, <2>3
<1> QED
  BY <1>1, <1>2, <1>3 DEF Next

LEMMA LedgerInit == Init => LedgerInv
<1> SUFFICES ASSUME Init PROVE HoldsWhatItRead /\ StockIsLedger
  BY InitType
<1>1. HoldsWhatItRead
  BY DEF Init, HoldsWhatItRead, Idle, NoUnits
<1>2. StockIsLedger
  BY OpeningAssumption DEF Init, StockIsLedger, NoUnits
<1> QED
  BY <1>1, <1>2

(* The cache and the ledger agree: no sale, void, failed payment or clean-up *)
(* ever overwrites another's change of a product's stock, for any number of  *)
(* sales, products and concurrent requests and under either schema.        *)
THEOREM LedgerAgrees == Spec => []StockIsLedger
<1>1. Spec => []LedgerInv
  BY LedgerInit, LedgerNext, PTL DEF Spec
<1>2. LedgerInv => StockIsLedger
  OBVIOUS
<1> QED
  BY <1>1, <1>2, PTL

HIDE DEF LedgerInv

-----------------------------------------------------------------------------
(* The journal in every interleaving: a completed sale is posted, and a sale *)
(* is reversed at most once.  The second needs the locks: two voids of one *)
(* sale may both have passed the status check, but the queries for earlier *)
(* entries run while the products are locked, so that the second void sees *)
(* the first one's reversal.                                               *)

(* What a query found stays found: entries are never deleted.              *)
JournalSeen ==
    \A r \in Request : req[r].op # "cleanup" /\ req[r].posted =>
        \A s \in req[r].sales : entries[s].sales > 0

FreshSession ==
    \A r \in Request : req[r].op # "cleanup" /\ req[r].stage = "begun" => req[r].delta = NoUnits

VoidPastLocks(r) == req[r].op = "void" /\ req[r].stage # "begun"

VoidHoldsLines ==
    \A r \in Request : VoidPastLocks(r) =>
        \A s \in req[r].sales : \A p \in Needed(s) : req[r].delta[p] # 0

VoidSeen ==
    \A r \in Request : VoidPastLocks(r) =>
        \A s \in req[r].sales : entries[s].reversals > 0 => req[r].reversed

JournalInv ==
    /\ LedgerInv
    /\ JournalSeen
    /\ FreshSession
    /\ VoidHoldsLines
    /\ VoidSeen
    /\ CompletedIsPosted
    /\ ReversedAtMostOnce

ReadsInv == JournalSeen /\ FreshSession /\ VoidHoldsLines /\ VoidSeen
BooksInv == CompletedIsPosted /\ ReversedAtMostOnce


(* One request changes and the journal does not.                           *)
LEMMA RequestStep ==
    ASSUME JournalInv, NEW r \in Request, NEW q \in RequestRecords,
           req' = [req EXCEPT ![r] = q], UNCHANGED entries,
           q.op # "cleanup" /\ q.posted => \A s \in q.sales : entries[s].sales > 0,
           q.op # "cleanup" /\ q.stage = "begun" => q.delta = NoUnits,
           q.op = "void" /\ q.stage # "begun" =>
               /\ \A s \in q.sales : \A p \in Needed(s) : q.delta[p] # 0
               /\ \A s \in q.sales : entries[s].reversals > 0 => q.reversed
    PROVE  ReadsInv'
<1> USE DEF JournalInv, LedgerInv, TypeInv, TypeOK
<1>1. \A o \in Request : req'[o] = IF o = r THEN q ELSE req[o]
  OBVIOUS
<1>2. JournalSeen'
  BY <1>1 DEF JournalSeen
<1>3. FreshSession'
  BY <1>1 DEF FreshSession, NoUnits
<1>4. VoidHoldsLines'
  BY <1>1 DEF VoidHoldsLines, VoidPastLocks, Needed
<1>5. VoidSeen'
  BY <1>1 DEF VoidSeen, VoidPastLocks
<1> QED
  BY <1>2, <1>3, <1>4, <1>5 DEF ReadsInv

(* One request ends, and sales it holds the lines of may be reversed.      *)
LEMMA RequestEnds ==
    ASSUME JournalInv, NEW r \in Request, Finish(r), NEW s \in Sale,
           entries' \in [Sale -> [sales : Nat, reversals : Nat]],
           \A t \in Sale : entries'[t].sales >= entries[t].sales,
           \A t \in Sale : entries'[t].reversals = entries[t].reversals
                           \/ (t = s /\ \A p \in Needed(s) : req[r].delta[p] # 0)
    PROVE  ReadsInv'
<1> USE DEF JournalInv, LedgerInv, TypeInv, TypeOK
<1>1. \A o \in Request : req'[o] = IF o = r THEN Idle ELSE req[o]
  BY DEF Finish
<1>0. Idle.op = "none" /\ Idle.delta = NoUnits
  BY IdleType DEF Idle
<1>2. JournalSeen'
  <2> SUFFICES ASSUME NEW o \in Request, req'[o].op # "cleanup", req'[o].posted,
                      NEW t \in req'[o].sales
               PROVE  entries'[t].sales > 0
    BY DEF JournalSeen
  <2>1. o # r
    BY <1>1 DEF Idle
  <2>2. t \in Sale /\ entries[t].sales > 0
    BY <1>1, <2>1 DEF JournalSeen, RequestRecords
  <2>3. entries[t].sales \in Nat /\ entries'[t].sales \in Nat
    BY <2>2
  <2> QED
    BY <2>2, <2>3
<1>3. FreshSession'
  BY <1>0, <1>1 DEF FreshSession
<1>4. VoidHoldsLines'
  <2> SUFFICES ASSUME NEW o \in Request, VoidPastLocks(o)', NEW t \in req'[o].sales,
                      NEW p \in Needed(t)
               PROVE  req'[o].delta[p] # 0
    BY DEF VoidHoldsLines, Needed
  <2>1. req'[o] = req[o] /\ VoidPastLocks(o)
    BY <1>0, <1>1 DEF VoidPastLocks
  <2> QED
    BY <2>1 DEF VoidHoldsLines
<1>5. VoidSeen'
  <2> SUFFICES ASSUME NEW o \in Request, VoidPastLocks(o)', NEW t \in req'[o].sales,
                      entries'[t].reversals > 0
               PROVE  req'[o].reversed
    BY DEF VoidSeen
  <2>1. o # r /\ req'[o] = req[o]
    BY <1>1 DEF VoidPastLocks, Idle
  <2>2. t \in Sale /\ VoidPastLocks(o)
    BY <2>1 DEF VoidPastLocks, RequestRecords
  <2>3. PICK p \in Product : p \in Needed(t)
    BY <2>2, BasketAssumption DEF Needed
  <2>4. productLock[p] = o
    BY <2>1, <2>2, <2>3 DEF VoidHoldsLines, HoldsWhatItRead
  <2>5. req[r].delta[p] = 0
    BY <2>1, <2>4 DEF HoldsWhatItRead
  <2>6. entries'[t].reversals = entries[t].reversals
    BY <2>2, <2>3, <2>5
  <2> QED
    BY <2>1, <2>2, <2>6 DEF VoidSeen
<1> QED
  BY <1>2, <1>3, <1>4, <1>5 DEF ReadsInv

LEMMA EndKeepsReads ==
    ASSUME JournalInv, NEW r \in Request, Finish(r), UNCHANGED entries
    PROVE  ReadsInv'
<1>1. Idle \in RequestRecords /\ Idle.op = "none" /\ Idle.delta = NoUnits /\ ~Idle.posted
  BY IdleType DEF Idle
<1>2. req' = [req EXCEPT ![r] = Idle]
  BY DEF Finish
<1> QED
  BY <1>1, <1>2, RequestStep

-----------------------------------------------------------------------------
LEMMA JournalBegin ==
    ASSUME JournalInv, NEW r \in Request, Begin(r)
    PROVE  ReadsInv' /\ BooksInv'
<1>1. ASSUME NEW op \in Handlers, NEW s \in Sale
      PROVE  /\ Start(r, op, s) \in RequestRecords
             /\ Start(r, op, s).delta = NoUnits /\ ~Start(r, op, s).posted
             /\ Start(r, op, s).stage = "begun"
  <2>1. ~Idle.posted /\ Idle.stage = "begun"
    BY DEF Idle
  <2> QED
    BY <2>1, IdleType DEF Start, RequestRecords
<1>2. ASSUME NEW s \in Sale,
             \/ CreateBegin(r, s) \/ VoidBegin(r, s) \/ CallbackBegin(r, s)
             \/ ConfirmBegin(r, s) \/ PushBegin(r, s)
             \/ \E checkout \in 1..MaxPush : FailBegin(r, s, checkout)
      PROVE  ReadsInv' /\ UNCHANGED <<sale, entries>>
  <2>1. PICK op \in Handlers : req' = [req EXCEPT ![r] = Start(r, op, s)]
    <3>1. \/ req' = [req EXCEPT ![r] = Start(r, "create", s)]
          \/ req' = [req EXCEPT ![r] = Start(r, "void", s)]
          \/ req' = [req EXCEPT ![r] = Start(r, "callback", s)]
          \/ req' = [req EXCEPT ![r] = Start(r, "confirm", s)]
          \/ req' = [req EXCEPT ![r] = Start(r, "push", s)]
          \/ req' = [req EXCEPT ![r] = Start(r, "fail", s)]
      BY <1>2 DEF CreateBegin, VoidBegin, CallbackBegin, ConfirmBegin, PushBegin, FailBegin
    <3> QED
      BY <3>1
  <2>2. UNCHANGED <<sale, entries>>
    BY <1>2 DEF CreateBegin, VoidBegin, CallbackBegin, ConfirmBegin, PushBegin, FailBegin, dbVars
  <2> QED
    BY <1>1, <2>1, <2>2, RequestStep
<1>3. ASSUME NEW S \in SUBSET Sale, CleanupBegin(r, S)
      PROVE  ReadsInv' /\ UNCHANGED <<sale, entries>>
  <2> DEFINE q == [Idle EXCEPT !.op = "cleanup", !.todo = S]
  <2>1. q \in RequestRecords /\ q.op = "cleanup"
    BY IdleType DEF RequestRecords
  <2>2. req' = [req EXCEPT ![r] = q] /\ UNCHANGED <<sale, entries>>
    BY <1>3 DEF CleanupBegin, dbVars
  <2> HIDE DEF q
  <2> QED
    BY <2>1, <2>2, RequestStep
<1>4. ReadsInv' /\ UNCHANGED <<sale, entries>>
  BY <1>2, <1>3 DEF Begin
<1> QED
  BY <1>4 DEF JournalInv, BooksInv, CompletedIsPosted, ReversedAtMostOnce

LEMMA JournalAnswers ==
    ASSUME NEW q \in RequestRecords, NEW s \in Sale
    PROVE  /\ WithJournal(q, s).stage = "locked"
           /\ WithJournal(q, s).posted => entries[s].sales > 0
           /\ entries[s].reversals > 0 => WithJournal(q, s).reversed
<1> DEFINE a == entries[s].sales > 0
           b == entries[s].reversals > 0
           new == [q EXCEPT !.stage = "locked", !.posted = a, !.reversed = b,
                            !.open = periodOpen]
<1>1. new.stage = "locked" /\ new.posted = a /\ new.reversed = b
  <2> HIDE DEF a, b
  <2> QED
    BY DEF RequestRecords
<1>2. WithJournal(q, s) = new
  BY DEF WithJournal
<1> HIDE DEF new
<1> QED
  BY <1>1, <1>2

LEMMA JournalRead ==
    ASSUME JournalInv, NEW r \in Request,
           \/ CreateLock(r) \/ VoidLock(r) \/ FailLock(r) \/ PaymentPrepare(r) \/ PushAccepted(r)
           \/ Flush(r) \/ \E s \in Sale : CleanupTake(r, s)
    PROVE  ReadsInv' /\ BooksInv'
<1> USE DEF JournalInv, LedgerInv
<1>0. req[r] \in RequestRecords /\ req'[r] \in RequestRecords
  BY ReadType DEF TypeInv, TypeOK
<1>a. UNCHANGED <<sale, entries>>
  BY DEF CreateLock, VoidLock, FailLock, PaymentPrepare, PushAccepted, Flush, CleanupTake, dbVars
<1>b. \A s \in req[r].sales : s \in Sale
  BY <1>0 DEF RequestRecords
<1>1. CASE CreateLock(r) \/ FailLock(r)
  <2>1. Of(r) \in Sale
    BY <1>1, OfType DEF CreateLock, FailLock, At, TypeInv
  <2> DEFINE a == WithLines(req[r], Of(r), -1)
             b == WithLines(req[r], Of(r), 1)
  <2>2. /\ a \in RequestRecords /\ b \in RequestRecords
        /\ a.op = req[r].op /\ b.op = req[r].op
        /\ a.sales = req[r].sales /\ b.sales = req[r].sales
        /\ a.posted = req[r].posted /\ b.posted = req[r].posted
    BY <1>0, <2>1, LinesType DEF TypeInv
  <2>3. /\ req' = [req EXCEPT ![r] = req'[r]]
        /\ \/ req'[r] = [a EXCEPT !.stage = "locked",
                        !.cash = expected[Basket[Of(r)].till], !.open = periodOpen]
           \/ req'[r] = [b EXCEPT !.stage = "locked"]
    <3> HIDE DEF a, b
    <3>1. \/ req' = [req EXCEPT ![r] = [a EXCEPT !.stage = "locked",
                        !.cash = expected[Basket[Of(r)].till], !.open = periodOpen]]
          \/ req' = [req EXCEPT ![r] = [b EXCEPT !.stage = "locked"]]
      BY <1>1 DEF CreateLock, FailLock, a, b
    <3> QED
      BY <3>1 DEF TypeInv, TypeOK
  <2>4. req[r].op \in {"create", "fail"}
    BY <1>1 DEF CreateLock, FailLock, At
  <2>5. /\ req'[r].op \in {"create", "fail"} /\ req'[r].stage = "locked"
        /\ req'[r].sales = req[r].sales /\ req'[r].posted = req[r].posted
    <3> HIDE DEF a, b
    <3> QED
      BY <2>2, <2>3, <2>4 DEF RequestRecords
  <2>6. req'[r].posted => \A s \in req'[r].sales : entries[s].sales > 0
    BY <2>4, <2>5 DEF JournalSeen
  <2> QED
    BY <1>0, <1>a, <2>3, <2>5, <2>6, RequestStep DEF BooksInv, CompletedIsPosted, ReversedAtMostOnce
<1>2. CASE VoidLock(r)
  <2>1. Of(r) \in Sale /\ req[r].sales = {Of(r)} /\ req[r].op = "void"
    BY <1>2, OfType DEF VoidLock, At, TypeInv
  <2> DEFINE w == WithLines(req[r], Of(r), 1)
             q == WithJournal(w, Of(r))
  <2>2. w \in RequestRecords /\ w.op = "void" /\ w.sales = {Of(r)}
    BY <1>0, <2>1, LinesType DEF TypeInv
  <2>3. \A p \in Needed(Of(r)) : w.delta[p] # 0
    <3> SUFFICES ASSUME NEW p \in Needed(Of(r)) PROVE w.delta[p] # 0
      OBVIOUS
    <3>1. p \in Product /\ Basket[Of(r)].qty[p] \in Nat /\ Basket[Of(r)].qty[p] > 0
      BY <2>1, LineType DEF Needed
    <3>2. req[r].delta[p] = 0
      BY <1>2, <2>1, <3>1 DEF FreshSession, VoidLock, At, NoUnits
    <3>3. w.delta[p] = req[r].delta[p] + 1 * Basket[Of(r)].qty[p]
      BY <1>0, <3>1 DEF WithLines, RequestRecords
    <3> QED
      BY <3>1, <3>2, <3>3
  <2>4. req' = [req EXCEPT ![r] = q] /\ q = req'[r]
    BY <1>2 DEF VoidLock, TypeInv, TypeOK
  <2> HIDE DEF w
  <2>5. q \in RequestRecords /\ q.op = "void" /\ q.sales = {Of(r)} /\ q.delta = w.delta
    BY <2>1, <2>2, JournalType DEF TypeInv
  <2>6. /\ q.stage = "locked" /\ (q.posted => entries[Of(r)].sales > 0)
        /\ (entries[Of(r)].reversals > 0 => q.reversed)
    BY <2>1, <2>2, JournalAnswers
  <2> HIDE DEF q
  <2> QED
    BY <1>a, <2>3, <2>4, <2>5, <2>6, RequestStep DEF BooksInv, CompletedIsPosted, ReversedAtMostOnce
<1>3. CASE PaymentPrepare(r)
  <2>1. Of(r) \in Sale /\ req[r].sales = {Of(r)} /\ req[r].op \in {"callback", "confirm"}
    BY <1>3, OfType DEF PaymentPrepare, At, TypeInv
  <2> DEFINE q == WithJournal(req[r], Of(r))
  <2>2. req' = [req EXCEPT ![r] = q] /\ q = req'[r]
    BY <1>3 DEF PaymentPrepare, TypeInv, TypeOK
  <2>3. /\ q \in RequestRecords /\ q.op \in {"callback", "confirm"} /\ q.sales = {Of(r)}
        /\ q.stage = "locked" /\ (q.posted => entries[Of(r)].sales > 0)
    BY <1>0, <2>1, JournalType, JournalAnswers DEF TypeInv
  <2> HIDE DEF q
  <2> QED
    BY <1>a, <2>2, <2>3, RequestStep DEF BooksInv, CompletedIsPosted, ReversedAtMostOnce
<1>4. CASE PushAccepted(r) \/ Flush(r)
  <2>1. /\ req' = [req EXCEPT ![r] = req'[r]]
        /\ req'[r].op = req[r].op /\ req'[r].sales = req[r].sales
        /\ req'[r].delta = req[r].delta /\ req'[r].posted = req[r].posted
        /\ req'[r].reversed = req[r].reversed
        /\ req'[r].stage # "begun"
        /\ req[r].stage # "begun" \/ req[r].op = "push"
    BY <1>0, <1>4 DEF PushAccepted, Flush, At, RequestRecords, TypeInv, TypeOK
  <2>2. req'[r].op # "cleanup" /\ req'[r].posted => \A s \in req'[r].sales : entries[s].sales > 0
    BY <2>1 DEF JournalSeen
  <2>3. req'[r].op = "void" =>
            /\ \A s \in req'[r].sales : \A p \in Needed(s) : req'[r].delta[p] # 0
            /\ \A s \in req'[r].sales : entries[s].reversals > 0 => req'[r].reversed
    BY <2>1 DEF VoidHoldsLines, VoidSeen, VoidPastLocks
  <2> QED
    BY <1>0, <1>a, <2>1, <2>2, <2>3, RequestStep DEF BooksInv, CompletedIsPosted, ReversedAtMostOnce
<1>5. ASSUME NEW s \in Sale, CleanupTake(r, s)
      PROVE  ReadsInv' /\ BooksInv'
  <2>1. req[r].op = "cleanup" /\ req' = [req EXCEPT ![r] = req'[r]]
    BY <1>5 DEF CleanupTake, At, TypeInv, TypeOK
  <2>2. req'[r].op = "cleanup"
    <3> DEFINE w == WithLines(req[r], s, 1)
    <3>1. w \in RequestRecords /\ w.op = "cleanup"
      BY <1>0, <2>1, LinesType DEF TypeInv
    <3>2. req'[r] = AfterTurn(w, s, req[r].sales \cup {s})
      BY <1>5 DEF CleanupTake, TypeInv, TypeOK
    <3> HIDE DEF w
    <3> QED
      BY <3>1, <3>2 DEF AfterTurn, RequestRecords
  <2> QED
    BY <1>0, <1>a, <2>1, <2>2, RequestStep DEF BooksInv, CompletedIsPosted, ReversedAtMostOnce
<1> QED
  BY <1>1, <1>2, <1>3, <1>4, <1>5

(* What a commit does to one sale's entries and status.                    *)
LEMMA BooksStep ==
    ASSUME JournalInv, NEW r \in Request, NEW s \in Sale,
           \A t \in Sale \ {s} : entries'[t] = entries[t],
           \A t \in Sale \ {s} : sale'[t].status # sale[t].status => sale'[t].status # "COMPLETED",
           sale'[s].status = "COMPLETED" => entries'[s].sales >= 1,
           entries'[s].reversals <= 1 /\ entries'[s].reversals <= entries'[s].sales
    PROVE  BooksInv'
BY DEF JournalInv, BooksInv, CompletedIsPosted, ReversedAtMostOnce

LEMMA SalesGrow ==
    ASSUME JournalInv, NEW s \in Sale,
           \A t \in Sale \ {s} : entries'[t] = entries[t],
           entries'[s].sales >= entries[s].sales
    PROVE  \A t \in Sale : entries'[t].sales >= entries[t].sales
<1> SUFFICES ASSUME NEW t \in Sale PROVE entries'[t].sales >= entries[t].sales
  OBVIOUS
<1>1. entries[t].sales \in Nat
  BY DEF JournalInv, LedgerInv, TypeInv, TypeOK
<1>2. CASE t = s
  BY <1>2
<1>3. CASE t # s
  <2>1. entries'[t].sales = entries[t].sales
    BY <1>3
  <2> QED
    BY <1>1, <2>1
<1> QED
  BY <1>2, <1>3

LEMMA PostSaleAdds ==
    ASSUME JournalInv, NEW r \in Request, NEW s \in Sale, PostSale(r, s)
    PROVE  /\ entries' \in [Sale -> [sales : Nat, reversals : Nat]]
           /\ \A t \in Sale \ {s} : entries'[t] = entries[t]
           /\ entries'[s].sales >= entries[s].sales
           /\ entries'[s].reversals = entries[s].reversals
           /\ ~req[r].posted => entries'[s].sales >= 1
<1> USE DEF JournalInv, LedgerInv, TypeInv, TypeOK
<1>1. entries[s].sales \in Nat
  OBVIOUS
<1>2. entries' \in [Sale -> [sales : Nat, reversals : Nat]]
  BY PostType
<1>3. CASE req[r].posted
  BY <1>1, <1>2, <1>3 DEF PostSale
<1>4. CASE ~req[r].posted
  <2>1. entries' = [entries EXCEPT ![s].sales = @ + 1]
    BY <1>4 DEF PostSale
  <2> QED
    BY <1>1, <1>2, <2>1
<1> QED
  BY <1>3, <1>4

LEMMA JournalCreate ==
    ASSUME JournalInv, NEW r \in Request, CreateCommit(r)
    PROVE  ReadsInv' /\ BooksInv'
<1> USE DEF JournalInv, LedgerInv
<1> DEFINE s == Of(r)
<1>1. s \in Sale /\ req[r].sales = {s} /\ req[r].op = "create"
  BY OfType DEF CreateCommit, At, TypeInv
<1>2. Finish(r) /\ SetStatus({s}, IF Paid(s) THEN "COMPLETED" ELSE "PENDING")
  BY DEF CreateCommit
<1>3. IF Paid(s) THEN PostSale(r, s) ELSE UNCHANGED entries
  BY DEF CreateCommit
<1>4. req[r].posted => entries[s].sales > 0
  BY <1>1 DEF JournalSeen
<1> HIDE DEF s
<1>5. /\ entries' \in [Sale -> [sales : Nat, reversals : Nat]]
      /\ \A t \in Sale \ {s} : entries'[t] = entries[t]
      /\ entries'[s].sales >= entries[s].sales
      /\ entries'[s].reversals = entries[s].reversals
      /\ Paid(s) /\ ~req[r].posted => entries'[s].sales >= 1
  BY <1>1, <1>3, PostSaleAdds DEF TypeInv, TypeOK
<1>6. entries[s].sales \in Nat /\ entries[s].reversals \in Nat
      /\ entries'[s].sales \in Nat /\ entries'[s].reversals \in Nat
  BY <1>1, <1>5 DEF TypeInv, TypeOK
<1>7. ReadsInv'
  <2>1. \A t \in Sale : entries'[t].sales >= entries[t].sales
    BY <1>1, <1>5, SalesGrow
  <2>2. ASSUME NEW t \in Sale PROVE entries'[t].reversals = entries[t].reversals
    <3>1. CASE t = s
      BY <1>5, <3>1
    <3>2. CASE t # s
      BY <1>5, <3>2
    <3> QED
      BY <3>1, <3>2
  <2>3. \A t \in Sale : entries'[t].reversals = entries[t].reversals
                         \/ (t = s /\ \A p \in Needed(s) : req[r].delta[p] # 0)
    BY <2>2
  <2> QED
    BY <1>1, <1>2, <1>5, <2>1, <2>3, RequestEnds
<1>8. BooksInv'
  <2>1. /\ \A t \in Sale \ {s} : sale'[t].status = sale[t].status
        /\ sale'[s].status = "COMPLETED" => Paid(s)
    BY <1>1, <1>2 DEF SetStatus, TypeInv, TypeOK
  <2>2. entries'[s].reversals <= 1 /\ entries'[s].reversals <= entries'[s].sales
    BY <1>1, <1>5, <1>6 DEF ReversedAtMostOnce
  <2>3. Paid(s) => entries'[s].sales >= 1
    BY <1>4, <1>5, <1>6
  <2> QED
    BY <1>1, <1>5, <2>1, <2>2, <2>3, BooksStep
<1> QED
  BY <1>7, <1>8

LEMMA JournalPayment ==
    ASSUME JournalInv, NEW r \in Request, PaymentCommit(r)
    PROVE  ReadsInv' /\ BooksInv'
<1> USE DEF JournalInv, LedgerInv
<1> DEFINE s == Of(r)
<1>1. s \in Sale /\ req[r].sales = {s} /\ req[r].op \in {"callback", "confirm"}
  BY OfType DEF PaymentCommit, At, TypeInv
<1>2. Finish(r) /\ SetStatus({s}, "COMPLETED") /\ PostSale(r, s)
  BY <1>1 DEF PaymentCommit
<1>3. req[r].posted => entries[s].sales > 0
  BY <1>1 DEF JournalSeen
<1> HIDE DEF s
<1>4. /\ entries' \in [Sale -> [sales : Nat, reversals : Nat]]
      /\ \A t \in Sale \ {s} : entries'[t] = entries[t]
      /\ entries'[s].sales >= entries[s].sales
      /\ entries'[s].reversals = entries[s].reversals
      /\ ~req[r].posted => entries'[s].sales >= 1
  BY <1>1, <1>2, PostSaleAdds
<1>5. entries[s].sales \in Nat /\ entries[s].reversals \in Nat
      /\ entries'[s].sales \in Nat /\ entries'[s].reversals \in Nat
  BY <1>1, <1>4 DEF TypeInv, TypeOK
<1>6. ReadsInv'
  <2>1. \A t \in Sale : entries'[t].sales >= entries[t].sales
    BY <1>1, <1>4, SalesGrow
  <2>2. ASSUME NEW t \in Sale PROVE entries'[t].reversals = entries[t].reversals
    <3>1. CASE t = s
      BY <1>4, <3>1
    <3>2. CASE t # s
      BY <1>4, <3>2
    <3> QED
      BY <3>1, <3>2
  <2>3. \A t \in Sale : entries'[t].reversals = entries[t].reversals
                         \/ (t = s /\ \A p \in Needed(s) : req[r].delta[p] # 0)
    BY <2>2
  <2> QED
    BY <1>1, <1>2, <1>4, <2>1, <2>3, RequestEnds
<1>7. BooksInv'
  <2>1. \A t \in Sale \ {s} : sale'[t].status = sale[t].status
    BY <1>1, <1>2 DEF SetStatus, TypeInv, TypeOK
  <2>2. entries'[s].reversals <= 1 /\ entries'[s].reversals <= entries'[s].sales
    BY <1>1, <1>4, <1>5 DEF ReversedAtMostOnce
  <2>3. entries'[s].sales >= 1
    BY <1>3, <1>4, <1>5
  <2> QED
    BY <1>1, <1>4, <2>1, <2>2, <2>3, BooksStep
<1> QED
  BY <1>6, <1>7

LEMMA JournalVoid ==
    ASSUME JournalInv, NEW r \in Request, VoidCommit(r)
    PROVE  ReadsInv' /\ BooksInv'
<1> USE DEF JournalInv, LedgerInv
<1> DEFINE s == Of(r)
<1>1. s \in Sale /\ req[r].sales = {s} /\ VoidPastLocks(r)
  BY OfType DEF VoidCommit, At, TypeInv, VoidPastLocks
<1>2. Finish(r) /\ SetStatus({s}, "VOIDED") /\ PostReversal(r, s)
  BY <1>1 DEF VoidCommit
<1>3. /\ req[r].posted => entries[s].sales > 0
      /\ ~req[r].reversed => ~(entries[s].reversals > 0)
      /\ \A p \in Needed(s) : req[r].delta[p] # 0
  BY <1>1 DEF JournalSeen, VoidSeen, VoidHoldsLines, VoidPastLocks
<1> HIDE DEF s
<1>4. entries[s].sales \in Nat /\ entries[s].reversals \in Nat
  BY <1>1 DEF TypeInv, TypeOK
<1>5. /\ entries' \in [Sale -> [sales : Nat, reversals : Nat]]
      /\ \A t \in Sale \ {s} : entries'[t] = entries[t]
      /\ entries'[s].sales = entries[s].sales
      /\ \/ entries'[s].reversals = entries[s].reversals
         \/ /\ req[r].posted /\ ~req[r].reversed
            /\ entries'[s].reversals = entries[s].reversals + 1
  BY <1>1, <1>2, <1>4, PostType DEF PostReversal, TypeInv, TypeOK
<1>6. ReadsInv'
  <2>1. \A t \in Sale : entries'[t].sales >= entries[t].sales
    BY <1>1, <1>4, <1>5, SalesGrow
  <2>2. \A t \in Sale : entries'[t].reversals = entries[t].reversals
                         \/ (t = s /\ \A p \in Needed(s) : req[r].delta[p] # 0)
    BY <1>3, <1>5
  <2>3. \A t \in Sale : entries'[t].reversals = entries[t].reversals
                         \/ (t = s /\ \A p \in Needed(s) : req[r].delta[p] # 0)
    BY <2>2
  <2> QED
    BY <1>1, <1>2, <1>5, <2>1, <2>3, RequestEnds
<1>7. BooksInv'
  <2>1. /\ \A t \in Sale \ {s} : sale'[t].status = sale[t].status
        /\ sale'[s].status = "VOIDED"
    BY <1>1, <1>2 DEF SetStatus, TypeInv, TypeOK
  <2>2. entries'[s].reversals <= 1 /\ entries'[s].reversals <= entries'[s].sales
    <3>1. CASE entries'[s].reversals = entries[s].reversals
      BY <1>1, <1>5, <3>1 DEF ReversedAtMostOnce
    <3>2. CASE /\ req[r].posted /\ ~req[r].reversed
               /\ entries'[s].reversals = entries[s].reversals + 1
      BY <1>3, <1>4, <1>5, <3>2
    <3> QED
      BY <1>5, <3>1, <3>2
  <2> QED
    BY <1>1, <1>5, <2>1, <2>2, BooksStep
<1> QED
  BY <1>6, <1>7

(* The failure callback and the clean-up leave the journal alone.          *)
LEMMA JournalRestore ==
    ASSUME JournalInv, NEW r \in Request, RestoreCommit(r)
    PROVE  ReadsInv' /\ BooksInv'
<1> USE DEF JournalInv, LedgerInv
<1>1. Finish(r) /\ SetStatus(req[r].sales, "VOIDED") /\ UNCHANGED entries
  BY DEF RestoreCommit
<1>2. ReadsInv'
  BY <1>1, EndKeepsReads
<1>3. BooksInv'
  <2>1. \A t \in Sale : sale'[t].status = "COMPLETED" => sale[t].status = "COMPLETED"
    BY <1>1 DEF SetStatus, TypeInv, TypeOK
  <2> QED
    BY <1>1, <2>1 DEF BooksInv, CompletedIsPosted, ReversedAtMostOnce
<1> QED
  BY <1>2, <1>3

LEMMA JournalEnd ==
    ASSUME JournalInv, NEW r \in Request, PushCommit(r) \/ Reject(r) \/ Abort(r)
    PROVE  ReadsInv' /\ BooksInv'
<1> USE DEF JournalInv, LedgerInv
<1>1. Finish(r) /\ UNCHANGED entries
  BY DEF PushCommit, Reject, Abort, dbVars
<1>2. ReadsInv'
  BY <1>1, EndKeepsReads
<1>3. \A t \in Sale : sale'[t].status = sale[t].status
  <2>1. CASE PushCommit(r)
    <3>1. sale' = [sale EXCEPT ![Of(r)].checkout = req[r].checkout]
      BY <2>1 DEF PushCommit
    <3> QED
      BY <3>1 DEF TypeInv, TypeOK
  <2>2. CASE Reject(r) \/ Abort(r)
    BY <2>2 DEF Reject, Abort, dbVars
  <2> QED
    BY <2>1, <2>2
<1> QED
  BY <1>1, <1>2, <1>3 DEF BooksInv, CompletedIsPosted, ReversedAtMostOnce

LEMMA JournalSkip ==
    ASSUME JournalInv, NEW r \in Request, NEW s \in Sale, CleanupSkip(r, s)
    PROVE  ReadsInv' /\ BooksInv'
<1> USE DEF JournalInv, LedgerInv
<1> DEFINE w == [Idle EXCEPT !.op = "cleanup", !.todo = req[r].todo]
           q == AfterTurn(w, s, {})
<1>1. w \in RequestRecords /\ w.op = "cleanup"
  BY IdleType DEF RequestRecords, TypeInv, TypeOK
<1>2. q \in RequestRecords /\ q.op = "cleanup"
  BY <1>1, TurnType
<1>3. req' = [req EXCEPT ![r] = q] /\ UNCHANGED <<sale, entries>>
  BY DEF CleanupSkip, dbVars
<1> HIDE DEF q
<1> QED
  BY <1>2, <1>3, RequestStep DEF BooksInv, CompletedIsPosted, ReversedAtMostOnce

LEMMA JournalNext == JournalInv /\ [Next]_vars => JournalInv'
<1> SUFFICES ASSUME JournalInv, [Next]_vars PROVE JournalInv'
  OBVIOUS
<1>1. LedgerInv'
  BY LedgerNext DEF JournalInv
<1>2. ReadsInv' /\ BooksInv'
  <2>1. ASSUME NEW r \in Request, Begin(r) \/ Proceed(r) \/ Reject(r) \/ Interrupt(r)
        PROVE  ReadsInv' /\ BooksInv'
    BY <2>1, JournalBegin, JournalRead, JournalCreate, JournalPayment, JournalVoid,
       JournalRestore, JournalEnd, JournalSkip DEF Proceed, Interrupt
  <2>2. CASE ClosePeriod \/ UNCHANGED vars
    <3>1. UNCHANGED <<sale, entries, req>>
      BY <2>2 DEF ClosePeriod, vars, dbVars
    <3>2. ReadsInv'
      BY <3>1 DEF JournalInv, ReadsInv, JournalSeen, FreshSession, VoidHoldsLines, VoidSeen,
                  VoidPastLocks, Needed
    <3> QED
      BY <3>1, <3>2 DEF JournalInv, BooksInv, CompletedIsPosted, ReversedAtMostOnce
  <2> QED
    BY <2>1, <2>2 DEF Next
<1> QED
  BY <1>1, <1>2 DEF JournalInv, ReadsInv, BooksInv

LEMMA JournalInit == Init => JournalInv
<1> SUFFICES ASSUME Init PROVE JournalInv
  OBVIOUS
<1>1. \A r \in Request : /\ req[r].op = "none" /\ req[r].stage = "begun" /\ ~req[r].posted
                         /\ req[r].delta = NoUnits
  BY IdleType DEF Init, Idle
<1>2. ReadsInv
  BY <1>1 DEF ReadsInv, JournalSeen, FreshSession, VoidHoldsLines, VoidSeen, VoidPastLocks
<1>3. BooksInv
  BY DEF Init, BooksInv, CompletedIsPosted, ReversedAtMostOnce
<1> QED
  BY <1>2, <1>3, LedgerInit DEF JournalInv, ReadsInv, BooksInv

(* Every completed sale has its entry, and no sale is reversed twice or    *)
(* without having been posted: for any sales, any number of concurrent     *)
(* requests on them, and a period that closes at any moment.               *)
THEOREM CompletedSalesArePosted == Spec => []CompletedIsPosted
<1>1. Spec => []JournalInv
  BY JournalInit, JournalNext, PTL DEF Spec
<1>2. JournalInv => CompletedIsPosted
  BY DEF JournalInv
<1> QED
  BY <1>1, <1>2, PTL

(* Two voids of one sale reverse its entry once, although both may have    *)
(* found it not yet voided.                                                *)
THEOREM SalesAreReversedOnce == Spec => []ReversedAtMostOnce
<1>1. Spec => []JournalInv
  BY JournalInit, JournalNext, PTL DEF Spec
<1>2. JournalInv => ReversedAtMostOnce
  BY DEF JournalInv
<1> QED
  BY <1>1, <1>2, PTL


-----------------------------------------------------------------------------
(* A sale is posted once, as long as no manager confirms a payment by hand: *)
(* the callback locks the sale's row before it looks at the status and keeps *)
(* it until it has committed, and whoever else changes the status of a     *)
(* pending sale must have the row.  The manual confirmation reads without a *)
(* lock, which is why it is left out.                                      *)

NoneConfirms == \A r \in Request : req[r].op # "confirm"

HoldsItsRows ==
    \A r \in Request : req[r].op = "callback" \/ req[r].stage = "flushed" =>
        \A s \in req[r].sales : rowLock[s] = r

CallbackWaits ==
    \A r \in Request : req[r].op = "callback" => \A s \in req[r].sales : sale[s].status = "PENDING"

Unposted == \A s \in Sale : sale[s].status \in {"absent", "PENDING"} => entries[s].sales = 0

RowInv ==
    /\ TypeInv /\ NoneConfirms /\ HoldsItsRows /\ CallbackWaits /\ Unposted /\ PostedAtMostOnce

RowParts == NoneConfirms /\ HoldsItsRows /\ CallbackWaits /\ Unposted /\ PostedAtMostOnce

(* A request changes, and takes or drops rows, but no sale does.           *)
LEMMA RowStep ==
    ASSUME RowInv, NEW r \in Request, NEW q,
           req' = [req EXCEPT ![r] = q], UNCHANGED <<sale, entries>>, q.op # "confirm",
           \A s \in Sale : rowLock[s] \in Request \ {r} => rowLock'[s] = rowLock[s],
           q.op = "callback" \/ q.stage = "flushed" => \A s \in q.sales : rowLock'[s] = r,
           q.op = "callback" => \A s \in q.sales : sale[s].status = "PENDING"
    PROVE  RowParts'
<1> USE DEF RowInv, TypeInv, TypeOK
<1>1. \A o \in Request : req'[o] = IF o = r THEN q ELSE req[o]
  OBVIOUS
<1>2. NoneConfirms'
  BY <1>1 DEF NoneConfirms
<1>3. HoldsItsRows'
  <2> SUFFICES ASSUME NEW o \in Request, req'[o].op = "callback" \/ req'[o].stage = "flushed",
                      NEW s \in req'[o].sales
               PROVE  rowLock'[s] = o
    BY DEF HoldsItsRows
  <2>1. CASE o = r
    BY <1>1, <2>1
  <2>2. CASE o # r
    <3>1. req'[o] = req[o] /\ s \in Sale
      BY <1>1, <2>2 DEF RequestRecords
    <3>2. rowLock[s] = o
      BY <3>1 DEF HoldsItsRows
    <3> QED
      BY <2>2, <3>1, <3>2
  <2> QED
    BY <2>1, <2>2
<1>4. CallbackWaits'
  BY <1>1 DEF CallbackWaits
<1>5. Unposted' /\ PostedAtMostOnce'
  BY DEF Unposted, PostedAtMostOnce
<1> QED
  BY <1>2, <1>3, <1>4, <1>5 DEF RowParts

(* A request ends and may change its sales, and has the rows of those that *)
(* were pending.                                                           *)
LEMMA RowEnd ==
    ASSUME RowInv, NEW r \in Request, Finish(r),
           \A s \in Sale : sale[s].status = "PENDING" /\ sale'[s].status # "PENDING" =>
               rowLock[s] = r,
           \A s \in Sale : \/ entries'[s].sales = entries[s].sales
                           \/ entries'[s].sales = entries[s].sales + 1
                              /\ sale[s].status \in {"absent", "PENDING"}
                              /\ sale'[s].status = "COMPLETED",
           \A s \in Sale : sale'[s].status \in {"absent", "PENDING"} =>
               sale[s].status \in {"absent", "PENDING"}
    PROVE  RowParts'
<1> USE DEF RowInv, TypeInv, TypeOK
<1>1. \A o \in Request : req'[o] = IF o = r THEN Idle ELSE req[o]
  BY DEF Finish
<1>0. Idle.op = "none" /\ Idle.stage = "begun" /\ Idle.sales = {}
  BY DEF Idle
<1>2. NoneConfirms'
  BY <1>0, <1>1 DEF NoneConfirms
<1>3. ASSUME NEW o \in Request, o # r, NEW s \in Sale, rowLock[s] = o
      PROVE  rowLock'[s] = o
  BY <1>3 DEF Finish, ReleaseLocks, Release
<1>4. HoldsItsRows'
  <2> SUFFICES ASSUME NEW o \in Request, req'[o].op = "callback" \/ req'[o].stage = "flushed",
                      NEW s \in req'[o].sales
               PROVE  rowLock'[s] = o
    BY DEF HoldsItsRows
  <2>1. o # r /\ req'[o] = req[o] /\ s \in Sale
    BY <1>0, <1>1 DEF RequestRecords
  <2>2. rowLock[s] = o
    BY <2>1 DEF HoldsItsRows
  <2> QED
    BY <1>3, <2>1, <2>2
<1>5. CallbackWaits'
  <2> SUFFICES ASSUME NEW o \in Request, req'[o].op = "callback", NEW s \in req'[o].sales
               PROVE  sale'[s].status = "PENDING"
    BY DEF CallbackWaits
  <2>1. o # r /\ req'[o] = req[o] /\ s \in Sale
    BY <1>0, <1>1 DEF RequestRecords
  <2>2. rowLock[s] = o /\ sale[s].status = "PENDING"
    BY <2>1 DEF HoldsItsRows, CallbackWaits
  <2> QED
    BY <2>1, <2>2
<1>6. ASSUME NEW s \in Sale
      PROVE  /\ sale'[s].status \in {"absent", "PENDING"} => entries'[s].sales = 0
             /\ entries'[s].sales <= 1
  <2>1. entries[s].sales \in Nat /\ entries[s].sales <= 1
        /\ (sale[s].status \in {"absent", "PENDING"} => entries[s].sales = 0)
    BY DEF Unposted, PostedAtMostOnce
  <2> QED
    BY <2>1
<1>7. Unposted' /\ PostedAtMostOnce'
  BY <1>6 DEF Unposted, PostedAtMostOnce
<1> QED
  BY <1>2, <1>4, <1>5, <1>7 DEF RowParts

LEMMA RowTaken ==
    ASSUME TypeOK, NEW r \in Request, NEW rows, Granted(rowLock, r, rows), rows \in SUBSET Sale,
           rowLock' = Take(rowLock, r, rows)
    PROVE  /\ \A s \in Sale : rowLock[s] \in Request \ {r} => rowLock'[s] = rowLock[s]
           /\ \A s \in rows : rowLock'[s] = r
BY ParameterAssumption DEF Granted, Take, TypeOK

LEMMA RowBegin ==
    ASSUME "confirm" \notin Ops, RowInv, NEW r \in Request, Begin(r)
    PROVE  RowParts'
<1> USE DEF RowInv, TypeInv
<1>1. ASSUME NEW op \in Handlers, NEW s \in Sale
      PROVE  /\ Start(r, op, s).op = op /\ Start(r, op, s).stage = "begun"
             /\ Start(r, op, s).sales = {s}
  <2>1. Idle.stage = "begun"
    BY DEF Idle
  <2> QED
    BY <2>1, IdleType DEF Start, RequestRecords
<1>2. ASSUME NEW s \in Sale, NEW op \in Handlers \ {"callback"}, Admit(r, op, {s}),
             req' = [req EXCEPT ![r] = Start(r, op, s)], UNCHANGED <<sale, entries, rowLock>>
      PROVE  RowParts'
  <2>1. op # "confirm"
    BY <1>2 DEF Admit
  <2> PICK q : q = Start(r, op, s)
    OBVIOUS
  <2>2. req' = [req EXCEPT ![r] = q] /\ q.op = op /\ q.stage = "begun"
    BY <1>1, <1>2
  <2> QED
    BY <1>2, <2>1, <2>2, RowStep
<1>3. ASSUME NEW s \in Sale, CallbackBegin(r, s) PROVE RowParts'
  <2> PICK q : q = Start(r, "callback", s)
    OBVIOUS
  <2>1. req' = [req EXCEPT ![r] = q] /\ q.op = "callback" /\ q.sales = {s}
    BY <1>1, <1>3 DEF CallbackBegin
  <2>2. UNCHANGED <<sale, entries>> /\ sale[s].status = "PENDING"
    BY <1>3 DEF CallbackBegin, dbVars
  <2>3. /\ \A t \in Sale : rowLock[t] \in Request \ {r} => rowLock'[t] = rowLock[t]
        /\ \A t \in {s} : rowLock'[t] = r
    <3>1. Granted(rowLock, r, {s}) /\ rowLock' = Take(rowLock, r, {s})
      BY <1>3 DEF CallbackBegin, Granted
    <3> QED
      BY <3>1, RowTaken
  <2> QED
    BY <2>1, <2>2, <2>3, RowStep
<1>4. ASSUME NEW s \in Sale, CreateBegin(r, s) PROVE RowParts'
  BY <1>2, <1>4 DEF CreateBegin, dbVars, lockVars
<1>5. ASSUME NEW s \in Sale, VoidBegin(r, s) PROVE RowParts'
  BY <1>2, <1>5 DEF VoidBegin, dbVars, lockVars
<1>6. ASSUME NEW s \in Sale, ConfirmBegin(r, s) PROVE RowParts'
  BY <1>2, <1>6 DEF ConfirmBegin, dbVars, lockVars
<1>7. ASSUME NEW s \in Sale, PushBegin(r, s) PROVE RowParts'
  BY <1>2, <1>7 DEF PushBegin, dbVars, lockVars
<1>8. ASSUME NEW s \in Sale, NEW checkout \in 1..MaxPush, FailBegin(r, s, checkout)
      PROVE  RowParts'
  BY <1>2, <1>8 DEF FailBegin, dbVars, lockVars
<1>9. ASSUME NEW S \in SUBSET Sale, CleanupBegin(r, S) PROVE RowParts'
  <2> PICK q : q = [Idle EXCEPT !.op = "cleanup", !.todo = S]
    OBVIOUS
  <2>1. q.op = "cleanup" /\ q.stage = "begun"
    BY IdleType DEF Idle
  <2>2. req' = [req EXCEPT ![r] = q] /\ UNCHANGED <<sale, entries, rowLock>>
    BY <1>9 DEF CleanupBegin, dbVars, lockVars
  <2> QED
    BY <2>1, <2>2, RowStep
<1> QED
  BY <1>3, <1>4, <1>5, <1>6, <1>7, <1>8, <1>9 DEF Begin

LEMMA RowRead ==
    ASSUME RowInv, NEW r \in Request,
           \/ CreateLock(r) \/ VoidLock(r) \/ FailLock(r) \/ PaymentPrepare(r) \/ PushAccepted(r)
           \/ Flush(r) \/ \E s \in Sale : CleanupTake(r, s) \/ CleanupSkip(r, s)
    PROVE  RowParts'
<1> USE DEF RowInv, TypeInv
<1>1. req[r] \in RequestRecords /\ UNCHANGED <<sale, entries>>
  BY DEF CreateLock, VoidLock, FailLock, PaymentPrepare, PushAccepted, Flush, CleanupTake,
         CleanupSkip, dbVars, TypeOK
<1>2. CASE CreateLock(r) \/ VoidLock(r) \/ FailLock(r) \/ PaymentPrepare(r) \/ PushAccepted(r)
  <2>1. Of(r) \in Sale /\ req[r].sales = {Of(r)}
    BY <1>2, OfType DEF CreateLock, VoidLock, FailLock, PaymentPrepare, PushAccepted, At
  <2> PICK a : a = WithLines(req[r], Of(r), -1)
    OBVIOUS
  <2> PICK b : b = WithLines(req[r], Of(r), 1)
    OBVIOUS
  <2>2. /\ a \in RequestRecords /\ b \in RequestRecords
        /\ a.op = req[r].op /\ b.op = req[r].op
    BY <1>1, <2>1, LinesType
  <2> PICK q : q = req'[r]
    OBVIOUS
  <2>3. /\ req' = [req EXCEPT ![r] = q] /\ q.op = req[r].op /\ q.stage = "locked"
        /\ q.op = "callback" => q.sales = req[r].sales
    <3>1. CASE CreateLock(r)
      <4>1. q = [a EXCEPT !.stage = "locked", !.cash = expected[Basket[Of(r)].till],
                          !.open = periodOpen]
            /\ req' = [req EXCEPT ![r] = q] /\ req[r].op = "create"
        BY <3>1 DEF CreateLock, At, TypeOK
      <4> QED
        BY <2>2, <4>1 DEF RequestRecords
    <3>2. CASE VoidLock(r)
      <4>1. q = WithJournal(b, Of(r)) /\ req' = [req EXCEPT ![r] = q] /\ req[r].op = "void"
        BY <3>2 DEF VoidLock, At, TypeOK
      <4> QED
        BY <2>1, <2>2, <4>1, JournalType, JournalAnswers
    <3>3. CASE FailLock(r)
      <4>1. q = [b EXCEPT !.stage = "locked"] /\ req' = [req EXCEPT ![r] = q]
            /\ req[r].op = "fail"
        BY <3>3 DEF FailLock, At, TypeOK
      <4> QED
        BY <2>2, <4>1 DEF RequestRecords
    <3>4. CASE PaymentPrepare(r)
      <4>1. q = WithJournal(req[r], Of(r)) /\ req' = [req EXCEPT ![r] = q]
        BY <3>4 DEF PaymentPrepare, TypeOK
      <4> QED
        BY <1>1, <2>1, <4>1, JournalType, JournalAnswers
    <3>5. CASE PushAccepted(r)
      BY <1>1, <3>5 DEF PushAccepted, At, TypeOK, RequestRecords
    <3> QED
      BY <1>2, <3>1, <3>2, <3>3, <3>4, <3>5
  <2>4. UNCHANGED rowLock
    BY <1>2 DEF CreateLock, VoidLock, FailLock, PaymentPrepare, PushAccepted, lockVars
  <2>5. q.op = "callback" => \A s \in q.sales : rowLock'[s] = r /\ sale[s].status = "PENDING"
    BY <2>3, <2>4 DEF HoldsItsRows, CallbackWaits
  <2>6. q.op # "confirm"
    BY <2>3 DEF NoneConfirms
  <2> QED
    BY <1>1, <2>3, <2>4, <2>5, <2>6, RowStep
<1>3. CASE Flush(r)
  <2> PICK q : q = req'[r]
    OBVIOUS
  <2>1. /\ req' = [req EXCEPT ![r] = q] /\ q.op = req[r].op /\ q.sales = req[r].sales
        /\ q.op \notin {"confirm", "callback"} /\ req[r].sales \in SUBSET Sale
        /\ Granted(rowLock, r, req[r].sales) /\ rowLock' = Take(rowLock, r, req[r].sales)
    BY <1>1, <1>3 DEF Flush, At, NoneConfirms, TypeOK, RequestRecords
  <2>2. /\ \A t \in Sale : rowLock[t] \in Request \ {r} => rowLock'[t] = rowLock[t]
        /\ \A t \in req[r].sales : rowLock'[t] = r
    BY <2>1, RowTaken
  <2> QED
    BY <1>1, <2>1, <2>2, RowStep
<1>4. ASSUME NEW s \in Sale, CleanupTake(r, s) \/ CleanupSkip(r, s) PROVE RowParts'
  <2> PICK q : q = req'[r]
    OBVIOUS
  <2>1. req' = [req EXCEPT ![r] = q] /\ q.op = "cleanup" /\ q.stage # "flushed"
    <3>1. ASSUME NEW w \in RequestRecords, w.op = "cleanup", NEW sales
          PROVE  AfterTurn(w, s, sales).op = "cleanup" /\ AfterTurn(w, s, sales).stage # "flushed"
      BY <3>1 DEF AfterTurn, RequestRecords
    <3>2. CASE CleanupTake(r, s)
      <4> PICK w : w = WithLines(req[r], s, 1)
        OBVIOUS
      <4>1. w \in RequestRecords /\ w.op = "cleanup"
        BY <1>1, <3>2, LinesType DEF CleanupTake, At
      <4>2. q = AfterTurn(w, s, req[r].sales \cup {s}) /\ req' = [req EXCEPT ![r] = q]
        BY <3>2 DEF CleanupTake, TypeOK
      <4> QED
        BY <3>1, <4>1, <4>2
    <3>3. CASE CleanupSkip(r, s)
      <4> PICK w : w = [Idle EXCEPT !.op = "cleanup", !.todo = req[r].todo]
        OBVIOUS
      <4>1. w \in RequestRecords /\ w.op = "cleanup"
        BY <1>1, IdleType DEF RequestRecords
      <4>2. q = AfterTurn(w, s, {}) /\ req' = [req EXCEPT ![r] = q]
        BY <3>3 DEF CleanupSkip, TypeOK
      <4> QED
        BY <3>1, <4>1, <4>2
    <3> QED
      BY <1>4, <3>2, <3>3
  <2>2. \A t \in Sale : rowLock[t] \in Request \ {r} => rowLock'[t] = rowLock[t]
    BY <1>4 DEF CleanupTake, CleanupSkip, ReleaseLocks, Release, TypeOK
  <2> QED
    BY <1>1, <2>1, <2>2, RowStep
<1> QED
  BY <1>2, <1>3, <1>4

LEMMA RowCommit ==
    ASSUME RowInv, NEW r \in Request,
           \/ CreateCommit(r) \/ VoidCommit(r) \/ PaymentCommit(r) \/ RestoreCommit(r)
           \/ PushCommit(r) \/ Reject(r) \/ Abort(r)
    PROVE  RowParts'
<1> USE DEF RowInv, TypeInv
<1>1. Finish(r)
  BY DEF CreateCommit, VoidCommit, PaymentCommit, RestoreCommit, PushCommit, Reject, Abort
<1>2. ASSUME NEW s \in Sale, PostSale(r, s)
      PROVE  /\ \A t \in Sale \ {s} : entries'[t].sales = entries[t].sales
             /\ entries'[s].sales = entries[s].sales \/ entries'[s].sales = entries[s].sales + 1
  BY <1>2 DEF PostSale, TypeOK
<1>3. ASSUME NEW S, NEW status, SetStatus(S, status)
      PROVE  \A t \in Sale : sale'[t].status = IF t \in S THEN status ELSE sale[t].status
  BY <1>3 DEF SetStatus, TypeOK
<1>4. CASE CreateCommit(r)
  <2> PICK s : s = Of(r)
    OBVIOUS
  <2>1. /\ s \in Sale /\ sale[s].status = "absent"
        /\ SetStatus({s}, IF Paid(s) THEN "COMPLETED" ELSE "PENDING")
        /\ IF Paid(s) THEN PostSale(r, s) ELSE UNCHANGED entries
    BY <1>4, OfType DEF CreateCommit, CreateAllowed, At
  <2>2. \A t \in Sale : sale'[t].status = IF t = s
                           THEN (IF Paid(s) THEN "COMPLETED" ELSE "PENDING") ELSE sale[t].status
    BY <1>3, <2>1
  <2>3. \A t \in Sale : \/ entries'[t].sales = entries[t].sales
                        \/ entries'[t].sales = entries[t].sales + 1 /\ t = s /\ Paid(s)
    BY <1>2, <2>1
  <2> QED
    BY <1>1, <2>1, <2>2, <2>3, RowEnd
<1>5. CASE PaymentCommit(r)
  <2> PICK s : s = Of(r)
    OBVIOUS
  <2>1. /\ s \in Sale /\ req[r].sales = {s} /\ req[r].op = "callback"
        /\ SetStatus({s}, "COMPLETED") /\ PostSale(r, s)
    BY <1>5, OfType DEF PaymentCommit, At, NoneConfirms
  <2>2. sale[s].status = "PENDING" /\ rowLock[s] = r
    BY <2>1 DEF CallbackWaits, HoldsItsRows
  <2>3. \A t \in Sale : sale'[t].status = IF t = s THEN "COMPLETED" ELSE sale[t].status
    BY <1>3, <2>1
  <2>4. \A t \in Sale : \/ entries'[t].sales = entries[t].sales
                        \/ entries'[t].sales = entries[t].sales + 1 /\ t = s
    BY <1>2, <2>1
  <2> QED
    BY <1>1, <2>2, <2>3, <2>4, RowEnd
<1>6. CASE VoidCommit(r) \/ RestoreCommit(r)
  <2> PICK S : S = req[r].sales
    OBVIOUS
  <2>1. SetStatus(S, "VOIDED") /\ req[r].stage = "flushed"
    BY <1>6, OfType DEF VoidCommit, RestoreCommit, At
  <2>2. \A t \in Sale : sale'[t].status = IF t \in S THEN "VOIDED" ELSE sale[t].status
    BY <1>3, <2>1
  <2>3. \A t \in S : rowLock[t] = r
    BY <2>1 DEF HoldsItsRows
  <2>4. \A t \in Sale : entries'[t].sales = entries[t].sales
    BY <1>6, OfType DEF VoidCommit, RestoreCommit, PostReversal, At, TypeOK
  <2> QED
    BY <1>1, <2>2, <2>3, <2>4, RowEnd
<1>7. CASE PushCommit(r) \/ Reject(r) \/ Abort(r)
  <2>1. UNCHANGED entries /\ \A t \in Sale : sale'[t].status = sale[t].status
    BY <1>7 DEF PushCommit, Reject, Abort, dbVars, TypeOK
  <2> QED
    BY <1>1, <2>1, RowEnd
<1> QED
  BY <1>4, <1>5, <1>6, <1>7

LEMMA RowNext == "confirm" \notin Ops /\ RowInv /\ [Next]_vars => RowInv'
<1> SUFFICES ASSUME "confirm" \notin Ops, RowInv, [Next]_vars PROVE RowInv'
  OBVIOUS
<1>1. TypeInv'
  BY NextType DEF RowInv
<1>2. ASSUME NEW r \in Request, Begin(r) \/ Proceed(r) \/ Reject(r) \/ Interrupt(r)
      PROVE  RowParts'
  BY <1>2, RowBegin, RowRead, RowCommit DEF Proceed, Interrupt
<1>3. ASSUME ClosePeriod \/ UNCHANGED vars
      PROVE  RowParts'
  <2>1. UNCHANGED <<sale, entries, req, rowLock>>
    BY <1>3 DEF ClosePeriod, vars, dbVars, lockVars
  <2> QED
    BY <2>1 DEF RowInv, RowParts, NoneConfirms, HoldsItsRows, CallbackWaits, Unposted,
                PostedAtMostOnce
<1>4. RowParts'
  BY <1>2, <1>3 DEF Next
<1> QED
  BY <1>1, <1>4 DEF RowInv, RowParts

LEMMA RowInit == Init => RowInv
<1> SUFFICES ASSUME Init PROVE RowInv
  OBVIOUS
<1>1. \A r \in Request : req[r].op = "none" /\ req[r].stage = "begun"
  BY DEF Init, Idle
<1> QED
  BY <1>1, InitType DEF Init, RowInv, NoneConfirms, HoldsItsRows, CallbackWaits, Unposted,
                        PostedAtMostOnce

(* However many callbacks, voids, failures and clean-ups meet on a sale, and *)
(* however often a connection breaks, it is posted at most once, unless a  *)
(* manager confirms payments by hand.                                      *)
THEOREM CallbacksPostOnce ==
    ASSUME "confirm" \notin Ops
    PROVE  Spec => []PostedAtMostOnce
<1>1. RowInv /\ [Next]_vars => RowInv'
  BY RowNext
<1>2. RowInv => PostedAtMostOnce
  BY DEF RowInv
<1> QED
  BY <1>1, <1>2, RowInit, PTL DEF Spec


-----------------------------------------------------------------------------
(* The accounts of isolated requests.  The invariant says that what a        *)
(* request found when it began and read when it took its locks is still so   *)
(* when it commits.                                                          *)

\* The sales a request is about, done and to be done.
About(q) == q.sales \cup q.todo

Apart ==
    \A r, o \in Request : r # o =>
        \A s \in About(req[r]), t \in About(req[o]) : s # t /\ ~SameTill(s, t)

\* What it found when it began.
Standing(q) ==
    /\ q.op = "create" => \A s \in q.sales : sale[s].status = "absent"
    /\ q.op = "void" => \A s \in q.sales : sale[s].status \in {"PENDING", "COMPLETED"}
    /\ q.op \in {"confirm", "callback", "fail", "push", "cleanup"} =>
           \A s \in About(q) : sale[s].status = "PENDING"
    /\ q.todo \cap q.sales = {}

\* What the journal answered.
Answered(q) ==
    /\ q.op = "create" => ~q.posted
    /\ q.op \in {"confirm", "callback", "void"} /\ q.stage # "begun" =>
           \A s \in q.sales : q.posted <=> entries[s].sales > 0
    /\ q.op = "void" /\ q.stage # "begun" =>
           \A s \in q.sales : q.reversed <=> entries[s].reversals > 0

\* What it saw in the till.
Counted(q) ==
    q.op = "create" /\ q.stage = "locked" =>
        \A s \in q.sales : Basket[s].method = "CASH" => q.cash = expected[Basket[s].till]

\* What it takes from the shelves or puts back.
UnitsOf(p) == [s \in Sale |-> Basket[s].qty[p]]
Carried(q) ==
    /\ q.op \in {"create", "void", "fail"} /\ q.stage = "begun" => q.delta = NoUnits
    /\ q.op = "create" /\ q.stage # "begun" =>
           \A s \in q.sales : \A p \in Product : q.delta[p] = -Basket[s].qty[p]
    /\ q.op \in {"void", "fail"} /\ q.stage # "begun" =>
           \A s \in q.sales : \A p \in Product : q.delta[p] = Basket[s].qty[p]
    /\ q.op = "cleanup" => \A p \in Product : q.delta[p] = SumFunctionOnSet(UnitsOf(p), q.sales)

\* Each line of its basket was on the shelf.
Enough(q) ==
    q.op = "create" /\ q.stage = "locked" =>
        \A s \in q.sales : \A p \in Needed(s) : q.shelf[p] >= Basket[s].largest[p]

Fits(q) == Standing(q) /\ Answered(q) /\ Counted(q) /\ Carried(q) /\ Enough(q)

\* The journal of a sale is that of its status.
Booked(s) ==
    LET e == entries[s] IN
    /\ sale[s].status \in {"absent", "PENDING"} => e.sales = 0 /\ e.reversals = 0
    /\ sale[s].status = "COMPLETED" => e.sales = 1 /\ e.reversals = 0
    /\ sale[s].status = "VOIDED" => e.sales <= 1 /\ e.reversals <= e.sales
    /\ sale[s].status = "PENDING" => ~Paid(s)

IsolatedInv ==
    /\ LedgerInv /\ Apart
    /\ \A r \in Request : Fits(req[r])
    /\ \A s \in Sale : Booked(s)


-----------------------------------------------------------------------------
(* The records of requests *)

LEMMA NeverBegun == Idle.op = "none" /\ Idle.stage = "begun" /\ Idle.sales = {} /\ Idle.todo = {}
                    /\ ~Idle.posted /\ Idle.delta = NoUnits
BY DEF Idle

LEMMA LinesFields ==
    ASSUME NEW q \in RequestRecords, NEW s \in Sale, NEW sign
    PROVE  /\ WithLines(q, s, sign).op = q.op
           /\ WithLines(q, s, sign).stage = q.stage
           /\ WithLines(q, s, sign).sales = q.sales
           /\ WithLines(q, s, sign).todo = q.todo
           /\ WithLines(q, s, sign).posted = q.posted
           /\ WithLines(q, s, sign).reversed = q.reversed
           /\ \A p \in Product :
                 /\ WithLines(q, s, sign).delta[p] = q.delta[p] + sign * Basket[s].qty[p]
                 /\ WithLines(q, s, sign).shelf[p] =
                        IF p \in Needed(s) /\ q.delta[p] = 0 THEN stock[p] ELSE q.shelf[p]
<1> DEFINE sh == [p \in Product |->
                     IF p \in Needed(s) /\ q.delta[p] = 0 THEN stock[p] ELSE q.shelf[p]]
           dl == [p \in Product |-> q.delta[p] + sign * Basket[s].qty[p]]
<1>1. WithLines(q, s, sign) = [q EXCEPT !.shelf = sh, !.delta = dl]
  BY DEF WithLines
<1>2. \A p \in Product :
         /\ dl[p] = q.delta[p] + sign * Basket[s].qty[p]
         /\ sh[p] = IF p \in Needed(s) /\ q.delta[p] = 0 THEN stock[p] ELSE q.shelf[p]
  OBVIOUS
<1> HIDE DEF sh, dl
<1>3. /\ WithLines(q, s, sign).shelf = sh /\ WithLines(q, s, sign).delta = dl
      /\ WithLines(q, s, sign).op = q.op /\ WithLines(q, s, sign).stage = q.stage
      /\ WithLines(q, s, sign).sales = q.sales /\ WithLines(q, s, sign).todo = q.todo
      /\ WithLines(q, s, sign).posted = q.posted /\ WithLines(q, s, sign).reversed = q.reversed
  BY <1>1 DEF RequestRecords
<1> QED
  BY <1>2, <1>3

LEMMA JournalFields ==
    ASSUME NEW q \in RequestRecords, NEW s \in Sale
    PROVE  /\ WithJournal(q, s).op = q.op
           /\ WithJournal(q, s).stage = "locked"
           /\ WithJournal(q, s).sales = q.sales
           /\ WithJournal(q, s).todo = q.todo
           /\ WithJournal(q, s).delta = q.delta
           /\ WithJournal(q, s).posted <=> entries[s].sales > 0
           /\ WithJournal(q, s).reversed <=> entries[s].reversals > 0
<1> DEFINE a == entries[s].sales > 0
           b == entries[s].reversals > 0
           new == [q EXCEPT !.stage = "locked", !.posted = a, !.reversed = b,
                            !.open = periodOpen]
<1>1. /\ new.op = q.op /\ new.stage = "locked" /\ new.sales = q.sales /\ new.todo = q.todo
      /\ new.delta = q.delta /\ new.posted = a /\ new.reversed = b
  <2> HIDE DEF a, b
  <2> QED
    BY DEF RequestRecords
<1>2. WithJournal(q, s) = new
  BY DEF WithJournal
<1> HIDE DEF new
<1> QED
  BY <1>1, <1>2

LEMMA UnitsType ==
    ASSUME NEW p \in Product, NEW s \in Sale
    PROVE  UnitsOf(p)[s] = Basket[s].qty[p] /\ Basket[s].qty[p] \in Nat
BY LineType DEF UnitsOf

-----------------------------------------------------------------------------
(* What a request's step does to what the others rely on *)

Fitting == \A o \in Request : Fits(req[o])
AllBooked == \A s \in Sale : Booked(s)

(* One request changes, and neither sales nor books do. *)
LEMMA OneMoves ==
    ASSUME IsolatedInv, NEW r \in Request, NEW q,
           req' = [req EXCEPT ![r] = q], UNCHANGED <<sale, entries, expected>>,
           Fits(q),
           About(q) \subseteq About(req[r]) \/ \A o \in Request : ~Overlaps(o, About(q))
    PROVE  Apart' /\ Fitting' /\ AllBooked'
<1> USE DEF IsolatedInv, LedgerInv, TypeInv, TypeOK
<1>1. \A o \in Request : req'[o] = IF o = r THEN q ELSE req[o]
  OBVIOUS
<1>2. Apart'
  <2>1. ASSUME NEW o \in Request, o # r, NEW s \in About(q), NEW t \in About(req[o])
        PROVE  s # t /\ ~SameTill(s, t) /\ ~SameTill(t, s)
    <3>1. CASE About(q) \subseteq About(req[r])
      BY <2>1, <3>1 DEF Apart, SameTill
    <3>2. CASE \A x \in Request : ~Overlaps(x, About(q))
      BY <2>1, <3>2 DEF Overlaps, About, SameTill
    <3> QED
      BY <3>1, <3>2
  <2>2. ASSUME NEW o \in Request, NEW x \in Request, o # x,
               NEW s \in About(req'[o]), NEW t \in About(req'[x])
        PROVE  s # t /\ ~SameTill(s, t)
    <3>1. CASE o = r
      BY <1>1, <2>1, <2>2, <3>1
    <3>2. CASE x = r
      <4>1. t \in About(q) /\ s \in About(req[o])
        BY <1>1, <2>2, <3>2
      <4> QED
        BY <2>1, <2>2, <3>2, <4>1
    <3>3. CASE o # r /\ x # r
      BY <1>1, <2>2, <3>3 DEF Apart
    <3> QED
      BY <3>1, <3>2, <3>3
  <2> QED
    BY <2>2 DEF Apart, About, SameTill
<1>3. Fitting'
  <2> SUFFICES ASSUME NEW o \in Request PROVE Fits(req[o])'
    BY DEF Fitting
  <2>1. PICK w : w = req'[o]
    OBVIOUS
  <2>2. Fits(w)
    BY <1>1, <2>1
  <2>3. Fits(w)'
    BY <2>2 DEF Fits, Standing, Answered, Counted, Carried, Enough, About, UnitsOf, Needed
  <2>4. w' = w
    OBVIOUS
  <2> QED
    BY <2>1, <2>3 DEF Fits, Standing, Answered, Counted, Carried, Enough, About, UnitsOf, Needed
<1>4. AllBooked'
  BY DEF AllBooked, Booked, Paid
<1> QED
  BY <1>2, <1>3, <1>4

LEMMA IdleFits == Fits(Idle)
BY NeverBegun DEF Fits, Standing, Answered, Counted, Carried, Enough

(* A request ends, and what it changes is its own sales and their till. *)
LEMMA OneEnds ==
    ASSUME IsolatedInv, NEW r \in Request, Finish(r),
           \A s \in Sale \ req[r].sales : sale'[s].status = sale[s].status /\ entries'[s] = entries[s],
           \A t \in Session : expected'[t] = expected[t]
               \/ \E s \in req[r].sales : Basket[s].method = "CASH" /\ Basket[s].till = t
    PROVE  Apart' /\ Fitting'
<1> USE DEF IsolatedInv, LedgerInv, TypeInv, TypeOK
<1>1. \A o \in Request : req'[o] = IF o = r THEN Idle ELSE req[o]
  BY DEF Finish
<1>0. About(Idle) = {}
  BY NeverBegun DEF About
<1>2. Apart'
  <2>1. ASSUME NEW o \in Request, NEW x \in Request, o # x,
               NEW s \in About(req'[o]), NEW t \in About(req'[x])
        PROVE  s # t /\ ~SameTill(s, t)
    BY <1>0, <1>1, <2>1 DEF Apart
  <2> QED
    BY <2>1 DEF Apart, About, SameTill
<1>3. ASSUME NEW o \in Request, o # r
      PROVE  Fits(req[o])'
  <2>1. PICK w : w = req[o]
    OBVIOUS
  <2>2. w = req'[o] /\ Fits(w) /\ w \in RequestRecords
    BY <1>1, <1>3, <2>1
  <2>3. ASSUME NEW s \in About(w)
        PROVE  s \in Sale /\ sale'[s].status = sale[s].status /\ entries'[s] = entries[s]
    <3>1. s \in Sale
      BY <2>2 DEF About, RequestRecords
    <3>2. s \notin req[r].sales
      BY <1>3, <2>1, <2>3 DEF Apart, About
    <3> QED
      BY <3>1, <3>2
  <2>4. ASSUME NEW s \in w.sales, Basket[s].method = "CASH"
        PROVE  expected'[Basket[s].till] = expected[Basket[s].till]
    <3>1. s \in Sale /\ s \in About(w) /\ Basket[s].till \in Session
      BY <2>2, BasketAssumption DEF About, RequestRecords, BasketRecords
    <3>2. ASSUME NEW t \in req[r].sales PROVE ~(Basket[t].method = "CASH" /\ Basket[t].till = Basket[s].till)
      <4>1. ~SameTill(t, s)
        BY <1>3, <2>1, <3>1 DEF Apart, About
      <4> QED
        BY <2>4, <4>1 DEF SameTill
    <3> QED
      BY <3>1, <3>2
  <2>5. w.sales \subseteq About(w)
    BY DEF About
  <2>6. Standing(w)'
    BY <2>2, <2>3, <2>5 DEF Fits, Standing, About
  <2>7. Answered(w)'
    BY <2>2, <2>3, <2>5 DEF Fits, Answered
  <2>8. Counted(w)'
    BY <2>2, <2>4 DEF Fits, Counted
  <2>9. Carried(w)' /\ Enough(w)'
    BY <2>2 DEF Fits, Carried, Enough, UnitsOf, Needed
  <2> QED
    BY <2>2, <2>6, <2>7, <2>8, <2>9
    DEF Fits, Standing, Answered, Counted, Carried, Enough, About, UnitsOf, Needed
<1>4. Fits(req[r])'
  BY <1>1, NeverBegun DEF Fits, Standing, Answered, Counted, Carried, Enough, UnitsOf
<1> QED
  BY <1>2, <1>3, <1>4 DEF Fitting


-----------------------------------------------------------------------------
(* The steps that change no sale *)

LEMMA StartFits ==
    ASSUME NEW r, NEW op \in Handlers \ {"cleanup"}, NEW s \in Sale,
           op = "create" => sale[s].status = "absent",
           op = "void" => sale[s].status \in {"PENDING", "COMPLETED"},
           op \notin {"create", "void"} => sale[s].status = "PENDING"
    PROVE  Fits(Start(r, op, s)) /\ About(Start(r, op, s)) = {s}
<1> DEFINE q == Start(r, op, s)
<1>1. /\ q.op = op /\ q.stage = "begun" /\ q.sales = {s} /\ q.todo = {} /\ ~q.posted
      /\ q.delta = NoUnits
  <2>1. Idle \in RequestRecords
    BY IdleType
  <2>2. q = [Idle EXCEPT !.op = op, !.sales = {s}]
    BY DEF Start
  <2> HIDE DEF q
  <2> QED
    BY <2>1, <2>2, NeverBegun DEF RequestRecords
<1> HIDE DEF q
<1>2. About(q) = {s}
  BY <1>1 DEF About
<1>3. Standing(q)
  BY <1>1, <1>2 DEF Standing
<1>4. Answered(q) /\ Counted(q) /\ Carried(q) /\ Enough(q)
  BY <1>1 DEF Answered, Counted, Carried, Enough
<1> QED
  BY <1>2, <1>3, <1>4 DEF Fits, q

LEMMA IsolatedBegin ==
    ASSUME Isolated, IsolatedInv, NEW r \in Request, Begin(r)
    PROVE  Apart' /\ Fitting' /\ AllBooked'
<1>1. ASSUME NEW s \in Sale, NEW op \in Handlers \ {"cleanup"}, Admit(r, op, {s}),
             req' = [req EXCEPT ![r] = Start(r, op, s)], UNCHANGED dbVars,
             op = "create" => sale[s].status = "absent",
             op = "void" => sale[s].status \in {"PENDING", "COMPLETED"},
             op \notin {"create", "void"} => sale[s].status = "PENDING"
      PROVE  Apart' /\ Fitting' /\ AllBooked'
  <2> DEFINE q == Start(r, op, s)
  <2>1. Fits(q) /\ About(q) = {s}
    BY <1>1, StartFits
  <2>2. req' = [req EXCEPT ![r] = q]
    BY <1>1
  <2>3. \A o \in Request : ~Overlaps(o, {s})
    BY <1>1 DEF Admit
  <2>4. UNCHANGED <<sale, entries, expected>>
    BY <1>1 DEF dbVars
  <2> HIDE DEF q
  <2> QED
    BY <2>1, <2>2, <2>3, <2>4, OneMoves
<1>2. ASSUME NEW s \in Sale, CreateBegin(r, s) PROVE Apart' /\ Fitting' /\ AllBooked'
  BY <1>1, <1>2 DEF CreateBegin
<1>3. ASSUME NEW s \in Sale, VoidBegin(r, s) PROVE Apart' /\ Fitting' /\ AllBooked'
  BY <1>1, <1>3 DEF VoidBegin
<1>4. ASSUME NEW s \in Sale, CallbackBegin(r, s) PROVE Apart' /\ Fitting' /\ AllBooked'
  BY <1>1, <1>4 DEF CallbackBegin
<1>5. ASSUME NEW s \in Sale, ConfirmBegin(r, s) PROVE Apart' /\ Fitting' /\ AllBooked'
  BY <1>1, <1>5 DEF ConfirmBegin
<1>6. ASSUME NEW s \in Sale, PushBegin(r, s) PROVE Apart' /\ Fitting' /\ AllBooked'
  BY <1>1, <1>6 DEF PushBegin
<1>7. ASSUME NEW s \in Sale, NEW checkout \in 1..MaxPush, FailBegin(r, s, checkout)
      PROVE  Apart' /\ Fitting' /\ AllBooked'
  BY <1>1, <1>7 DEF FailBegin
<1>8. ASSUME NEW S \in SUBSET Sale, CleanupBegin(r, S) PROVE Apart' /\ Fitting' /\ AllBooked'
  <2> DEFINE q == [Idle EXCEPT !.op = "cleanup", !.todo = S]
  <2>1. /\ q.op = "cleanup" /\ q.stage = "begun" /\ q.sales = {} /\ q.todo = S
        /\ q.delta = NoUnits
    BY IdleType, NeverBegun DEF RequestRecords
  <2>2. req' = [req EXCEPT ![r] = q] /\ UNCHANGED <<sale, entries, expected>>
    BY <1>8 DEF CleanupBegin, dbVars
  <2>3. \A o \in Request : ~Overlaps(o, S)
    BY <1>8 DEF CleanupBegin, Admit
  <2> HIDE DEF q
  <2>4. About(q) = S
    BY <2>1 DEF About
  <2>5. Standing(q)
    BY <1>8, <2>1, <2>4 DEF Standing, CleanupBegin
  <2>6. Carried(q)
    BY <2>1, SumOfNone DEF Carried, NoUnits
  <2>7. Answered(q) /\ Counted(q) /\ Enough(q)
    BY <2>1 DEF Answered, Counted, Enough
  <2> QED
    BY <2>2, <2>3, <2>4, <2>5, <2>6, <2>7, OneMoves DEF Fits
<1> QED
  BY <1>2, <1>3, <1>4, <1>5, <1>6, <1>7, <1>8 DEF Begin

LEMMA IsolatedLocks ==
    ASSUME IsolatedInv, NEW r \in Request, CreateLock(r) \/ VoidLock(r) \/ FailLock(r)
    PROVE  Apart' /\ Fitting' /\ AllBooked'
<1> USE DEF IsolatedInv, LedgerInv
<1> DEFINE s == Of(r)
<1>1. /\ s \in Sale /\ req[r].sales = {s} /\ req[r] \in RequestRecords
      /\ req[r].stage = "begun" /\ req[r].op \in {"create", "void", "fail"}
      /\ Fits(req[r])
  BY OfType DEF CreateLock, VoidLock, FailLock, At, TypeInv, TypeOK
<1>2. UNCHANGED <<sale, entries, expected>>
  BY DEF CreateLock, VoidLock, FailLock, dbVars
<1>3. ASSUME NEW sign \in {-1, 1}, NEW w, w = WithLines(req[r], s, sign)
      PROVE  /\ w \in RequestRecords /\ w.op = req[r].op /\ w.sales = {s}
             /\ w.todo = req[r].todo /\ w.posted = req[r].posted
             /\ \A p \in Product : w.delta[p] = sign * Basket[s].qty[p]
             /\ \A p \in Needed(s) : w.shelf[p] = stock[p]
  <2>1. req[r].delta = NoUnits
    BY <1>1 DEF Fits, Carried
  <2>2. \A p \in Product : req[r].delta[p] = 0
    BY <2>1 DEF NoUnits
  <2> HIDE DEF s
  <2>3. /\ w \in RequestRecords /\ w.op = req[r].op /\ w.sales = {s}
        /\ w.todo = req[r].todo /\ w.posted = req[r].posted
    BY <1>1, <1>3, LinesFields, LinesType DEF TypeInv
  <2>4. ASSUME NEW p \in Product
        PROVE  /\ w.delta[p] = sign * Basket[s].qty[p]
               /\ p \in Needed(s) => w.shelf[p] = stock[p]
    <3>1. /\ w.delta[p] = req[r].delta[p] + sign * Basket[s].qty[p]
          /\ w.shelf[p] = IF p \in Needed(s) /\ req[r].delta[p] = 0 THEN stock[p]
                          ELSE req[r].shelf[p]
      BY <1>1, <1>3, LinesFields
    <3>2. Basket[s].qty[p] \in Nat /\ req[r].delta[p] = 0
      BY <1>1, <2>2, LineType
    <3> QED
      BY <3>1, <3>2
  <2> QED
    BY <2>3, <2>4 DEF Needed
<1>4. CASE CreateLock(r)
  <2>0. req[r].op = "create"
    BY <1>4 DEF CreateLock, At
  <2> PICK sign \in {-1, 1} : sign = -1
    OBVIOUS
  <2> PICK w : w = WithLines(req[r], s, sign)
    OBVIOUS
  <2>1. /\ w \in RequestRecords /\ w.op = "create" /\ w.sales = {s}
        /\ w.todo = req[r].todo /\ w.posted = req[r].posted
        /\ \A p \in Product : w.delta[p] = sign * Basket[s].qty[p]
        /\ \A p \in Needed(s) : w.shelf[p] = stock[p]
    BY <1>3, <2>0
  <2> DEFINE q == [w EXCEPT !.stage = "locked", !.cash = expected[Basket[s].till],
                            !.open = periodOpen]
  <2>2. req' = [req EXCEPT ![r] = q]
    BY <1>4 DEF CreateLock
  <2>3. Available(s)
    BY <1>4 DEF CreateLock
  <2> HIDE DEF s
  <2>4. /\ q.op = "create" /\ q.stage = "locked" /\ q.sales = {s} /\ q.todo = w.todo
        /\ q.posted = w.posted /\ q.delta = w.delta /\ q.shelf = w.shelf
        /\ q.cash = expected[Basket[s].till]
    BY <2>1 DEF RequestRecords
  <2> HIDE DEF q
  <2>5. Standing(q) /\ About(q) = About(req[r])
    BY <1>1, <2>0, <2>1, <2>4 DEF Fits, Standing, About
  <2>6. Answered(q)
    BY <1>1, <2>0, <2>1, <2>4 DEF Fits, Answered
  <2>7. Counted(q)
    BY <2>4 DEF Counted
  <2>8. Carried(q)
    <3>1. \A p \in Product : q.delta[p] = -Basket[s].qty[p]
      BY <1>1, <2>1, <2>4, LineType
    <3> QED
      BY <2>4, <3>1 DEF Carried
  <2>9. Enough(q)
    BY <2>1, <2>3, <2>4 DEF Enough, Available
  <2> QED
    BY <1>2, <2>2, <2>5, <2>6, <2>7, <2>8, <2>9, OneMoves DEF Fits
<1>5. CASE VoidLock(r)
  <2>0. req[r].op = "void"
    BY <1>5 DEF VoidLock, At
  <2> PICK w : w = WithLines(req[r], s, 1)
    OBVIOUS
  <2>1. /\ w \in RequestRecords /\ w.op = "void" /\ w.sales = {s} /\ w.todo = req[r].todo
        /\ \A p \in Product : w.delta[p] = 1 * Basket[s].qty[p]
    BY <1>3, <2>0
  <2> PICK q : q = WithJournal(w, s)
    OBVIOUS
  <2>2. req' = [req EXCEPT ![r] = q]
    BY <1>5 DEF VoidLock
  <2> HIDE DEF s
  <2>4. /\ q.op = "void" /\ q.stage = "locked" /\ q.sales = {s} /\ q.todo = w.todo
        /\ q.delta = w.delta /\ (q.posted <=> entries[s].sales > 0)
        /\ (q.reversed <=> entries[s].reversals > 0)
    BY <1>1, <2>1, JournalFields
  <2>5. Standing(q) /\ About(q) = About(req[r])
    BY <1>1, <2>0, <2>1, <2>4 DEF Fits, Standing, About
  <2>6. Answered(q)
    BY <2>4 DEF Answered
  <2>7. Counted(q) /\ Enough(q)
    BY <2>4 DEF Counted, Enough
  <2>8. Carried(q)
    <3>1. \A p \in Product : q.delta[p] = Basket[s].qty[p]
      BY <1>1, <2>1, <2>4, LineType
    <3> QED
      BY <2>4, <3>1 DEF Carried
  <2> QED
    BY <1>2, <2>2, <2>5, <2>6, <2>7, <2>8, OneMoves DEF Fits
<1>6. CASE FailLock(r)
  <2>0. req[r].op = "fail"
    BY <1>6 DEF FailLock, At
  <2> PICK w : w = WithLines(req[r], s, 1)
    OBVIOUS
  <2>1. /\ w \in RequestRecords /\ w.op = "fail" /\ w.sales = {s} /\ w.todo = req[r].todo
        /\ \A p \in Product : w.delta[p] = 1 * Basket[s].qty[p]
    BY <1>3, <2>0
  <2> DEFINE q == [w EXCEPT !.stage = "locked"]
  <2>2. req' = [req EXCEPT ![r] = q]
    BY <1>6 DEF FailLock
  <2> HIDE DEF s
  <2>4. /\ q.op = "fail" /\ q.stage = "locked" /\ q.sales = {s} /\ q.todo = w.todo
        /\ q.delta = w.delta
    BY <2>1 DEF RequestRecords
  <2> HIDE DEF q
  <2>5. Standing(q) /\ About(q) = About(req[r])
    BY <1>1, <2>0, <2>1, <2>4 DEF Fits, Standing, About
  <2>6. Answered(q) /\ Counted(q) /\ Enough(q)
    BY <2>4 DEF Answered, Counted, Enough
  <2>7. Carried(q)
    <3>1. \A p \in Product : q.delta[p] = Basket[s].qty[p]
      BY <1>1, <2>1, <2>4, LineType
    <3> QED
      BY <2>4, <3>1 DEF Carried
  <2> QED
    BY <1>2, <2>2, <2>5, <2>6, <2>7, OneMoves DEF Fits
<1> QED
  BY <1>4, <1>5, <1>6


LEMMA IsolatedSteps ==
    ASSUME IsolatedInv, NEW r \in Request, PaymentPrepare(r) \/ PushAccepted(r) \/ Flush(r)
    PROVE  Apart' /\ Fitting' /\ AllBooked'
<1> USE DEF IsolatedInv, LedgerInv
<1>1. req[r] \in RequestRecords /\ Fits(req[r]) /\ UNCHANGED <<sale, entries, expected>>
  BY DEF PaymentPrepare, PushAccepted, Flush, TypeInv, TypeOK, dbVars
<1>2. CASE PaymentPrepare(r)
  <2>1. /\ Of(r) \in Sale /\ req[r].sales = {Of(r)} /\ req[r].op \in {"callback", "confirm"}
    BY <1>2, OfType DEF PaymentPrepare, At, TypeInv
  <2> PICK q : q = WithJournal(req[r], Of(r))
    OBVIOUS
  <2>2. req' = [req EXCEPT ![r] = q]
    BY <1>2 DEF PaymentPrepare
  <2>3. /\ q.op = req[r].op /\ q.sales = {Of(r)} /\ q.todo = req[r].todo
        /\ (q.posted <=> entries[Of(r)].sales > 0)
    BY <1>1, <2>1, JournalFields
  <2>4. Standing(q) /\ About(q) = About(req[r])
    BY <1>1, <2>1, <2>3 DEF Fits, Standing, About
  <2>5. Answered(q)
    BY <2>1, <2>3 DEF Answered
  <2>6. Counted(q) /\ Carried(q) /\ Enough(q)
    BY <2>1, <2>3 DEF Counted, Carried, Enough
  <2> QED
    BY <1>1, <2>2, <2>4, <2>5, <2>6, OneMoves DEF Fits
<1>3. CASE PushAccepted(r) \/ Flush(r)
  <2> PICK q : q = req'[r]
    OBVIOUS
  <2>1. /\ req' = [req EXCEPT ![r] = q]
        /\ q.op = req[r].op /\ q.sales = req[r].sales /\ q.todo = req[r].todo
        /\ q.posted = req[r].posted /\ q.reversed = req[r].reversed /\ q.delta = req[r].delta
        /\ q.op \in {"push", "void", "fail", "confirm", "cleanup"}
        /\ q.op # "push" => req[r].stage # "begun" /\ q.stage # "begun"
    BY <1>1, <1>3 DEF PushAccepted, Flush, At, RequestRecords, TypeInv, TypeOK
  <2>2. Standing(q) /\ About(q) = About(req[r])
    BY <1>1, <2>1 DEF Fits, Standing, About
  <2>3. Answered(q)
    BY <1>1, <2>1 DEF Fits, Answered
  <2>4. Counted(q) /\ Enough(q)
    BY <2>1 DEF Counted, Enough
  <2>5. Carried(q)
    BY <1>1, <2>1 DEF Fits, Carried
  <2> QED
    BY <1>1, <2>1, <2>2, <2>3, <2>4, <2>5, OneMoves DEF Fits
<1> QED
  BY <1>2, <1>3

LEMMA TurnFields ==
    ASSUME NEW q \in RequestRecords, NEW s, NEW sales
    PROVE  /\ AfterTurn(q, s, sales).op = q.op
           /\ AfterTurn(q, s, sales).sales = sales
           /\ AfterTurn(q, s, sales).todo = q.todo \ {s}
           /\ AfterTurn(q, s, sales).delta = q.delta
BY DEF AfterTurn, RequestRecords

LEMMA IsolatedTurns ==
    ASSUME IsolatedInv, NEW r \in Request, NEW s \in Sale, CleanupTake(r, s) \/ CleanupSkip(r, s)
    PROVE  Apart' /\ Fitting' /\ AllBooked'
<1> USE DEF IsolatedInv, LedgerInv
<1>1. /\ req[r] \in RequestRecords /\ Fits(req[r]) /\ req[r].op = "cleanup" /\ s \in req[r].todo
      /\ UNCHANGED <<sale, entries, expected>>
  BY DEF CleanupTake, CleanupSkip, At, TypeInv, TypeOK, dbVars
<1>2. ASSUME NEW q, req' = [req EXCEPT ![r] = q], q.op = "cleanup",
             q.todo = req[r].todo \ {s}, q.sales = {} \/ q.sales = req[r].sales \cup {s},
             \A p \in Product : q.delta[p] = SumFunctionOnSet(UnitsOf(p), q.sales)
      PROVE  Apart' /\ Fitting' /\ AllBooked'
  <2>1. About(q) \subseteq About(req[r])
    BY <1>1, <1>2 DEF About
  <2>2. Standing(q)
    BY <1>1, <1>2, <2>1 DEF Fits, Standing
  <2>3. Answered(q) /\ Counted(q) /\ Enough(q)
    BY <1>2 DEF Answered, Counted, Enough
  <2>4. Carried(q)
    BY <1>2 DEF Carried
  <2> QED
    BY <1>1, <1>2, <2>1, <2>2, <2>3, <2>4, OneMoves DEF Fits
<1>3. CASE CleanupTake(r, s)
  <2> PICK w : w = WithLines(req[r], s, 1)
    OBVIOUS
  <2> PICK q : q = AfterTurn(w, s, req[r].sales \cup {s})
    OBVIOUS
  <2>1. /\ w \in RequestRecords /\ w.op = "cleanup" /\ w.todo = req[r].todo
        /\ \A p \in Product : w.delta[p] = req[r].delta[p] + 1 * Basket[s].qty[p]
    BY <1>1, LinesFields, LinesType DEF TypeInv
  <2>2. req' = [req EXCEPT ![r] = q]
    BY <1>3, <2>1 DEF CleanupTake
  <2>3. /\ q.op = "cleanup" /\ q.todo = req[r].todo \ {s} /\ q.sales = req[r].sales \cup {s}
        /\ q.delta = w.delta
    BY <2>1, TurnFields
  <2>4. ASSUME NEW p \in Product
        PROVE  q.delta[p] = SumFunctionOnSet(UnitsOf(p), q.sales)
    <3>1. req[r].delta[p] = SumFunctionOnSet(UnitsOf(p), req[r].sales)
      BY <1>1 DEF Fits, Carried
    <3>2. s \notin req[r].sales /\ req[r].sales \subseteq Sale
      BY <1>1 DEF Fits, Standing, RequestRecords
    <3>3. IsFiniteSet(req[r].sales)
      BY <3>2, SalesAssumption, FS_Subset
    <3>4. \A x \in req[r].sales \cup {s} : UnitsOf(p)[x] \in Int
      BY <3>2, UnitsType
    <3>5. SumFunctionOnSet(UnitsOf(p), req[r].sales \cup {s})
              = SumFunctionOnSet(UnitsOf(p), req[r].sales) + UnitsOf(p)[s]
      BY <3>2, <3>3, <3>4, SumAdds
    <3>6. UnitsOf(p)[s] = Basket[s].qty[p] /\ Basket[s].qty[p] \in Nat
      BY UnitsType
    <3>7. req[r].delta[p] \in Int
      BY <1>1 DEF RequestRecords
    <3>8. q.delta[p] = req[r].delta[p] + Basket[s].qty[p]
      BY <2>1, <2>3, <3>6, <3>7
    <3> QED
      BY <2>3, <3>1, <3>5, <3>6, <3>8
  <2> QED
    BY <1>2, <2>2, <2>3, <2>4
<1>4. CASE CleanupSkip(r, s)
  <2> DEFINE b == [Idle EXCEPT !.op = "cleanup", !.todo = req[r].todo]
  <2> PICK q : q = AfterTurn(b, s, {})
    OBVIOUS
  <2>1. b \in RequestRecords /\ b.op = "cleanup" /\ b.todo = req[r].todo /\ b.delta = NoUnits
    BY <1>1, IdleType DEF RequestRecords
  <2>2. req' = [req EXCEPT ![r] = q]
    BY <1>4 DEF CleanupSkip
  <2> HIDE DEF b
  <2>3. q.op = "cleanup" /\ q.todo = req[r].todo \ {s} /\ q.sales = {} /\ q.delta = NoUnits
    BY <2>1, TurnFields
  <2>4. \A p \in Product : q.delta[p] = SumFunctionOnSet(UnitsOf(p), q.sales)
    BY <2>3, SumOfNone DEF NoUnits
  <2> QED
    BY <1>2, <2>2, <2>3, <2>4
<1> QED
  BY <1>3, <1>4

LEMMA IsolatedEnds ==
    ASSUME IsolatedInv, NEW r \in Request, Reject(r) \/ Abort(r) \/ PushCommit(r)
    PROVE  /\ Apart' /\ Fitting' /\ AllBooked'
           /\ \A s \in Sale : sale'[s].status = sale[s].status
           /\ UNCHANGED <<stock, entries, expected, credit, wallet>>
<1> USE DEF IsolatedInv, LedgerInv
<1>1. Finish(r) /\ UNCHANGED <<stock, entries, expected, credit, wallet>>
  BY DEF Reject, Abort, PushCommit, dbVars
<1>2. \A s \in Sale : sale'[s].status = sale[s].status
  <2>1. CASE PushCommit(r)
    <3>1. sale' = [sale EXCEPT ![Of(r)].checkout = req[r].checkout]
      BY <2>1 DEF PushCommit
    <3> QED
      BY <3>1 DEF TypeInv, TypeOK
  <2>2. CASE Reject(r) \/ Abort(r)
    BY <2>2 DEF Reject, Abort, dbVars
  <2> QED
    BY <2>1, <2>2
<1>3. Apart' /\ Fitting'
  BY <1>1, <1>2, OneEnds
<1>4. AllBooked'
  BY <1>1, <1>2 DEF AllBooked, Booked, Paid
<1> QED
  BY <1>1, <1>2, <1>3, <1>4


-----------------------------------------------------------------------------
(* What the commits come to, when nobody interferes *)

OthersStay(S) ==
    \A t \in Sale \ S : sale'[t].status = sale[t].status /\ entries'[t] = entries[t]

Rings(s) ==
    /\ sale[s].status = "absent" /\ entries[s].sales = 0 /\ entries[s].reversals = 0
    /\ sale'[s].status = IF Paid(s) THEN "COMPLETED" ELSE "PENDING"
    /\ entries'[s].sales = (IF Paid(s) THEN 1 ELSE 0) /\ entries'[s].reversals = 0
    /\ \A p \in Product : stock'[p] = stock[p] - Basket[s].qty[p]
    /\ \A p \in Needed(s) : stock[p] >= Basket[s].largest[p]
    /\ StockCheck => \A p \in Needed(s) : stock'[p] >= 0
    /\ expected' = IF Basket[s].method = "CASH"
                   THEN [expected EXCEPT ![Basket[s].till] = @ + (Basket[s].total - Basket[s].change)]
                   ELSE expected
    /\ WithinCredit(s) /\ ChargeCustomer(Basket[s])
    /\ OthersStay({s})

Pays(s) ==
    /\ sale[s].status = "PENDING" /\ ~Paid(s) /\ entries[s].sales = 0 /\ entries[s].reversals = 0
    /\ sale'[s].status = "COMPLETED" /\ entries'[s].sales = 1 /\ entries'[s].reversals = 0
    /\ UNCHANGED <<stock, expected, credit, wallet>>
    /\ OthersStay({s})

Voids(s) ==
    /\ sale[s].status \in {"PENDING", "COMPLETED"}
    /\ sale'[s].status = "VOIDED" /\ entries'[s].sales = entries[s].sales
    /\ \/ entries'[s].reversals = entries[s].reversals
       \/ sale[s].status = "COMPLETED" /\ entries'[s].reversals = 1
    /\ \A p \in Product : stock'[p] = stock[p] + Basket[s].qty[p]
    /\ RefundCustomer(Basket[s]) /\ RefundTill(Basket[s])
    /\ OthersStay({s})

Restores(S) ==
    /\ \A s \in S : sale[s].status = "PENDING" /\ sale'[s].status = "VOIDED"
    /\ \A p \in Product : stock'[p] = stock[p] + SumFunctionOnSet(UnitsOf(p), S)
    /\ UNCHANGED <<entries, expected, credit, wallet>>
    /\ OthersStay(S)

LEMMA Moved ==
    ASSUME LedgerInv, NEW r \in Request, Move(r)
    PROVE  \A p \in Product : stock'[p] = stock[p] + req[r].delta[p]
BY DEF LedgerInv, TypeInv, TypeOK, RequestRecords, HoldsWhatItRead, Move

LEMMA CreateRings ==
    ASSUME IsolatedInv, NEW r \in Request, CreateCommit(r)
    PROVE  \E s \in Sale : req[r].sales = {s} /\ Rings(s)
<1> USE DEF IsolatedInv, LedgerInv
<1> PICK s : s = Of(r)
  OBVIOUS
<1>1. /\ s \in Sale /\ req[r].sales = {s} /\ req[r].op = "create" /\ req[r].stage = "locked"
      /\ req[r] \in RequestRecords /\ Fits(req[r]) /\ Booked(s)
  BY OfType DEF CreateCommit, At, TypeInv, TypeOK
<1>2. /\ sale[s].status = "absent" /\ WithinCredit(s)
      /\ StockCheck => \A p \in Product : req[r].shelf[p] + req[r].delta[p] >= 0
      /\ SetStatus({s}, IF Paid(s) THEN "COMPLETED" ELSE "PENDING") /\ Move(r)
      /\ ChargeCustomer(Basket[s])
      /\ IF Paid(s) THEN PostSale(r, s) ELSE UNCHANGED entries
  BY DEF CreateCommit, CreateAllowed
<1>3. expected' = IF Basket[s].method = "CASH" /\ Basket[s].total # Basket[s].change
                  THEN [expected EXCEPT ![Basket[s].till]
                           = req[r].cash + Basket[s].total - Basket[s].change]
                  ELSE expected
  BY DEF CreateCommit
<1>4. entries[s].sales = 0 /\ entries[s].reversals = 0 /\ ~req[r].posted
  BY <1>1, <1>2 DEF Booked, Fits, Answered
<1>5. /\ sale'[s].status = IF Paid(s) THEN "COMPLETED" ELSE "PENDING"
      /\ \A t \in Sale \ {s} : sale'[t].status = sale[t].status
  BY <1>1, <1>2 DEF SetStatus, TypeInv, TypeOK
<1>6. /\ entries'[s].sales = (IF Paid(s) THEN 1 ELSE 0) /\ entries'[s].reversals = 0
      /\ \A t \in Sale \ {s} : entries'[t] = entries[t]
  BY <1>1, <1>2, <1>4 DEF PostSale, TypeInv, TypeOK
<1>7. ASSUME NEW p \in Product
      PROVE  /\ stock'[p] = stock[p] - Basket[s].qty[p]
             /\ p \in Needed(s) => stock[p] >= Basket[s].largest[p]
             /\ StockCheck /\ p \in Needed(s) => stock'[p] >= 0
  <2>1. req[r].delta[p] = -Basket[s].qty[p] /\ Basket[s].qty[p] \in Nat /\ stock[p] \in Int
    BY <1>1, LineType DEF Fits, Carried, TypeInv, TypeOK
  <2>2. stock'[p] = stock[p] + req[r].delta[p]
    BY <1>2, Moved
  <2>3. stock'[p] = stock[p] - Basket[s].qty[p]
    BY <2>1, <2>2
  <2>4. ASSUME p \in Needed(s) PROVE req[r].shelf[p] = stock[p]
    <3>1. req[r].delta[p] # 0
      BY <2>1, <2>4 DEF Needed
    <3> QED
      BY <3>1 DEF HoldsWhatItRead
  <2>5. p \in Needed(s) => stock[p] >= Basket[s].largest[p]
    BY <1>1, <2>4 DEF Fits, Enough
  <2>6. StockCheck /\ p \in Needed(s) => stock'[p] >= 0
    BY <1>2, <2>2, <2>4
  <2> QED
    BY <2>3, <2>5, <2>6
<1>8. expected' = IF Basket[s].method = "CASH"
                  THEN [expected EXCEPT ![Basket[s].till] = @ + (Basket[s].total - Basket[s].change)]
                  ELSE expected
  <2>1. /\ Basket[s].till \in Session /\ Basket[s].total \in Nat /\ Basket[s].change \in Nat
        /\ expected \in [Session -> Int]
    BY <1>1, BasketAssumption DEF BasketRecords, TypeInv, TypeOK
  <2>2. Basket[s].method = "CASH" => req[r].cash = expected[Basket[s].till]
    BY <1>1 DEF Fits, Counted
  <2>3. CASE Basket[s].method # "CASH"
    BY <1>3, <2>3
  <2>4. CASE Basket[s].method = "CASH" /\ Basket[s].total # Basket[s].change
    BY <1>3, <2>1, <2>2, <2>4
  <2>5. CASE Basket[s].method = "CASH" /\ Basket[s].total = Basket[s].change
    <3>1. expected' = expected
      BY <1>3, <2>5
    <3>2. expected[Basket[s].till] + (Basket[s].total - Basket[s].change) = expected[Basket[s].till]
      BY <2>1, <2>5
    <3> QED
      BY <2>1, <2>5, <3>1, <3>2
  <2> QED
    BY <2>3, <2>4, <2>5
<1> QED
  BY <1>1, <1>2, <1>4, <1>5, <1>6, <1>7, <1>8 DEF Rings, OthersStay, Needed

LEMMA PaymentPays ==
    ASSUME IsolatedInv, NEW r \in Request, PaymentCommit(r)
    PROVE  \E s \in Sale : req[r].sales = {s} /\ Pays(s)
<1> USE DEF IsolatedInv, LedgerInv
<1> PICK s : s = Of(r)
  OBVIOUS
<1>1. /\ s \in Sale /\ req[r].sales = {s} /\ req[r].op \in {"callback", "confirm"}
      /\ req[r].stage # "begun" /\ Fits(req[r]) /\ Booked(s)
  BY OfType DEF PaymentCommit, At, TypeInv
<1>2. /\ SetStatus({s}, "COMPLETED") /\ PostSale(r, s)
      /\ UNCHANGED <<stock, expected, credit, wallet>>
  BY <1>1 DEF PaymentCommit
<1>3. sale[s].status = "PENDING" /\ ~Paid(s) /\ entries[s].sales = 0 /\ entries[s].reversals = 0
  BY <1>1 DEF Fits, Standing, About, Booked
<1>4. ~req[r].posted
  BY <1>1, <1>3 DEF Fits, Answered
<1>5. /\ sale'[s].status = "COMPLETED"
      /\ \A t \in Sale \ {s} : sale'[t].status = sale[t].status
  BY <1>1, <1>2 DEF SetStatus, TypeInv, TypeOK
<1>6. /\ entries'[s].sales = 1 /\ entries'[s].reversals = 0
      /\ \A t \in Sale \ {s} : entries'[t] = entries[t]
  BY <1>1, <1>2, <1>3, <1>4 DEF PostSale, TypeInv, TypeOK
<1> QED
  BY <1>1, <1>2, <1>3, <1>5, <1>6 DEF Pays, OthersStay

LEMMA VoidVoids ==
    ASSUME IsolatedInv, NEW r \in Request, VoidCommit(r)
    PROVE  \E s \in Sale : req[r].sales = {s} /\ Voids(s)
<1> USE DEF IsolatedInv, LedgerInv
<1> PICK s : s = Of(r)
  OBVIOUS
<1>1. /\ s \in Sale /\ req[r].sales = {s} /\ req[r].op = "void" /\ req[r].stage # "begun"
      /\ Fits(req[r]) /\ Booked(s)
  BY OfType DEF VoidCommit, At, TypeInv
<1>2. /\ SetStatus({s}, "VOIDED") /\ Move(r) /\ RefundCustomer(Basket[s])
      /\ RefundTill(Basket[s]) /\ PostReversal(r, s)
  BY DEF VoidCommit
<1>3. /\ sale[s].status \in {"PENDING", "COMPLETED"}
      /\ (req[r].posted <=> entries[s].sales > 0) /\ (req[r].reversed <=> entries[s].reversals > 0)
  BY <1>1 DEF Fits, Standing, Answered
<1>4. /\ sale'[s].status = "VOIDED"
      /\ \A t \in Sale \ {s} : sale'[t].status = sale[t].status
  BY <1>1, <1>2 DEF SetStatus, TypeInv, TypeOK
<1>5. /\ entries'[s].sales = entries[s].sales
      /\ \/ entries'[s].reversals = entries[s].reversals
         \/ sale[s].status = "COMPLETED" /\ entries'[s].reversals = 1
      /\ \A t \in Sale \ {s} : entries'[t] = entries[t]
  <2>1. entries[s].sales \in Nat /\ entries[s].reversals \in Nat
    BY <1>1 DEF TypeInv, TypeOK
  <2>2. CASE req[r].posted /\ ~req[r].reversed /\ req[r].open
    <3>1. entries' = [entries EXCEPT ![s].reversals = @ + 1]
      BY <1>2, <2>2 DEF PostReversal
    <3>2. sale[s].status = "COMPLETED" /\ entries[s].reversals = 0
      BY <1>1, <1>3, <2>1, <2>2 DEF Booked
    <3> QED
      BY <1>1, <2>1, <3>1, <3>2 DEF TypeInv, TypeOK
  <2>3. CASE ~(req[r].posted /\ ~req[r].reversed /\ req[r].open)
    BY <1>2, <2>3 DEF PostReversal
  <2> QED
    BY <2>2, <2>3
<1>6. \A p \in Product : stock'[p] = stock[p] + Basket[s].qty[p]
  <2>1. \A p \in Product : req[r].delta[p] = Basket[s].qty[p]
    BY <1>1 DEF Fits, Carried
  <2> QED
    BY <1>2, <2>1, Moved
<1> QED
  BY <1>1, <1>2, <1>3, <1>4, <1>5, <1>6 DEF Voids, OthersStay

LEMMA RestoreRestores ==
    ASSUME IsolatedInv, NEW r \in Request, RestoreCommit(r)
    PROVE  req[r].sales \in SUBSET Sale /\ Restores(req[r].sales)
<1> USE DEF IsolatedInv, LedgerInv
<1>1. /\ req[r].op \in {"fail", "cleanup"} /\ req[r].stage # "begun"
      /\ Fits(req[r]) /\ req[r] \in RequestRecords
  BY DEF RestoreCommit, At, TypeInv, TypeOK
<1>2. /\ SetStatus(req[r].sales, "VOIDED") /\ Move(r)
      /\ UNCHANGED <<entries, expected, credit, wallet>>
  BY DEF RestoreCommit
<1>3. /\ req[r].sales \in SUBSET Sale
      /\ \A s \in req[r].sales : sale[s].status = "PENDING"
  BY <1>1 DEF Fits, Standing, About, RequestRecords
<1>4. /\ \A s \in req[r].sales : sale'[s].status = "VOIDED"
      /\ \A t \in Sale \ req[r].sales : sale'[t].status = sale[t].status
  BY <1>2, <1>3 DEF SetStatus, TypeInv, TypeOK
<1>5. ASSUME NEW p \in Product
      PROVE  req[r].delta[p] = SumFunctionOnSet(UnitsOf(p), req[r].sales)
  <2>1. CASE req[r].op = "cleanup"
    BY <1>1, <2>1 DEF Fits, Carried
  <2>2. CASE req[r].op = "fail"
    <3>1. PICK s \in Sale : req[r].sales = {s}
      BY <2>2 DEF TypeInv, OneSale
    <3>2. req[r].delta[p] = Basket[s].qty[p]
      BY <1>1, <2>2, <3>1 DEF Fits, Carried
    <3>3. UnitsOf(p)[s] = Basket[s].qty[p] /\ Basket[s].qty[p] \in Nat
      BY UnitsType
    <3>4. SumFunctionOnSet(UnitsOf(p), {} \cup {s}) = SumFunctionOnSet(UnitsOf(p), {}) + UnitsOf(p)[s]
      <4>1. IsFiniteSet({}) /\ s \notin {} /\ \A x \in {} \cup {s} : UnitsOf(p)[x] \in Int
        BY <3>3, FS_EmptySet
      <4> QED
        BY <4>1, SumAdds
    <3>5. {} \cup {s} = {s} /\ SumFunctionOnSet(UnitsOf(p), {}) = 0
      BY SumOfNone
    <3> QED
      BY <3>1, <3>2, <3>3, <3>4, <3>5
  <2> QED
    BY <1>1, <2>1, <2>2
<1>6. \A p \in Product : stock'[p] = stock[p] + SumFunctionOnSet(UnitsOf(p), req[r].sales)
  BY <1>2, <1>5, Moved
<1> QED
  BY <1>2, <1>3, <1>4, <1>6 DEF Restores, OthersStay


-----------------------------------------------------------------------------
(* The invariant *)

LEMMA BookedAfter ==
    ASSUME IsolatedInv, NEW S \in SUBSET Sale, OthersStay(S), \A s \in S : Booked(s)'
    PROVE  AllBooked'
<1> SUFFICES ASSUME NEW t \in Sale PROVE Booked(t)'
  BY DEF AllBooked
<1>1. CASE t \in S
  BY <1>1
<1>2. CASE t \notin S
  <2>1. sale'[t].status = sale[t].status /\ entries'[t] = entries[t]
    BY <1>2 DEF OthersStay
  <2>2. Booked(t)
    BY DEF IsolatedInv
  <2> QED
    BY <2>1, <2>2 DEF Booked, Paid
<1> QED
  BY <1>1, <1>2

LEMMA IsolatedCommits ==
    ASSUME IsolatedInv, NEW r \in Request,
           CreateCommit(r) \/ VoidCommit(r) \/ PaymentCommit(r) \/ RestoreCommit(r)
    PROVE  Apart' /\ Fitting' /\ AllBooked'
<1>1. Finish(r)
  BY DEF CreateCommit, VoidCommit, PaymentCommit, RestoreCommit
<1>2. ASSUME NEW s \in Sale, req[r].sales = {s},
             UNCHANGED expected
             \/ \E x : Basket[s].method = "CASH" /\ expected' = [expected EXCEPT ![Basket[s].till] = x],
             OthersStay({s}), Booked(s)'
      PROVE  Apart' /\ Fitting' /\ AllBooked'
  <2>1. \A t \in Session : expected'[t] = expected[t]
            \/ (Basket[s].method = "CASH" /\ Basket[s].till = t)
    BY <1>2 DEF IsolatedInv, LedgerInv, TypeInv, TypeOK
  <2>2. Apart' /\ Fitting'
    BY <1>1, <1>2, <2>1, OneEnds DEF OthersStay
  <2> QED
    BY <1>2, <2>2, BookedAfter
<1>3. CASE CreateCommit(r)
  <2>1. PICK s \in Sale : req[r].sales = {s} /\ Rings(s)
    BY <1>3, CreateRings
  <2>2. Booked(s)'
    BY <2>1 DEF Rings, Booked, Paid
  <2> QED
    BY <1>2, <2>1, <2>2 DEF Rings
<1>4. CASE VoidCommit(r)
  <2>1. PICK s \in Sale : req[r].sales = {s} /\ Voids(s)
    BY <1>4, VoidVoids
  <2>2. Booked(s)'
    <3>1. Booked(s) /\ entries[s].sales \in Nat
      BY DEF IsolatedInv, LedgerInv, TypeInv, TypeOK
    <3> QED
      BY <2>1, <3>1 DEF Voids, Booked, Paid
  <2> QED
    BY <1>2, <2>1, <2>2 DEF Voids, RefundTill
<1>5. CASE PaymentCommit(r)
  <2>1. PICK s \in Sale : req[r].sales = {s} /\ Pays(s)
    BY <1>5, PaymentPays
  <2>2. Booked(s)'
    BY <2>1 DEF Pays, Booked, Paid
  <2> QED
    BY <1>2, <2>1, <2>2 DEF Pays
<1>6. CASE RestoreCommit(r)
  <2>1. req[r].sales \in SUBSET Sale /\ Restores(req[r].sales)
    BY <1>6, RestoreRestores
  <2>2. ASSUME NEW s \in req[r].sales PROVE Booked(s)'
    <3>1. Booked(s) /\ UNCHANGED entries
      BY <2>1 DEF IsolatedInv, Restores
    <3> QED
      BY <2>1, <3>1 DEF Restores, Booked, Paid
  <2>3. Apart' /\ Fitting'
    BY <1>1, <2>1, OneEnds DEF Restores, OthersStay
  <2>4. PICK S : S = req[r].sales
    OBVIOUS
  <2>5. S \in SUBSET Sale /\ OthersStay(S) /\ \A s \in S : Booked(s)'
    BY <2>1, <2>2, <2>4 DEF Restores
  <2>6. AllBooked'
    BY <2>5, BookedAfter
  <2> QED
    BY <2>3, <2>6
<1> QED
  BY <1>3, <1>4, <1>5, <1>6

LEMMA IsolatedNext == Isolated /\ IsolatedInv /\ [Next]_vars => IsolatedInv'
<1> SUFFICES ASSUME Isolated, IsolatedInv, [Next]_vars PROVE IsolatedInv'
  OBVIOUS
<1>1. LedgerInv'
  BY LedgerNext DEF IsolatedInv
<1>2. ASSUME NEW r \in Request, Begin(r) \/ Proceed(r) \/ Reject(r) \/ Interrupt(r)
      PROVE  Apart' /\ Fitting' /\ AllBooked'
  BY <1>2, IsolatedBegin, IsolatedLocks, IsolatedSteps, IsolatedTurns, IsolatedEnds,
     IsolatedCommits DEF Proceed, Interrupt
<1>3. ASSUME ClosePeriod \/ UNCHANGED vars
      PROVE  Apart' /\ Fitting' /\ AllBooked'
  <2>1. UNCHANGED <<sale, entries, expected, req>>
    BY <1>3 DEF ClosePeriod, vars, dbVars
  <2>2. Apart'
    BY <2>1 DEF IsolatedInv, Apart, About, SameTill
  <2>3. Fitting'
    <3> SUFFICES ASSUME NEW o \in Request PROVE Fits(req[o])'
      BY DEF Fitting
    <3>1. Fits(req[o])
      BY DEF IsolatedInv
    <3> QED
      BY <2>1, <3>1
      DEF Fits, Standing, Answered, Counted, Carried, Enough, About, UnitsOf, Needed
  <2>4. AllBooked'
    BY <2>1 DEF IsolatedInv, AllBooked, Booked, Paid
  <2> QED
    BY <2>2, <2>3, <2>4
<1>4. Apart' /\ Fitting' /\ AllBooked'
  BY <1>2, <1>3 DEF Next
<1> QED
  BY <1>1, <1>4 DEF IsolatedInv, Fitting, AllBooked

LEMMA IsolatedInit == Init => IsolatedInv
<1> SUFFICES ASSUME Init PROVE IsolatedInv
  OBVIOUS
<1>1. \A o \in Request : req[o] = Idle
  BY DEF Init
<1>2. Apart
  BY <1>1, NeverBegun DEF Apart, About
<1>3. \A o \in Request : Fits(req[o])
  BY <1>1, IdleFits
<1>4. \A s \in Sale : Booked(s)
  BY DEF Init, Booked
<1> QED
  BY <1>2, <1>3, <1>4, LedgerInit DEF IsolatedInv


-----------------------------------------------------------------------------
(* The sales implement SaleContract *)

StatusNow == [s \in Sale |-> sale[s].status]
BooksNow  == [s \in Sale |-> BookOf(s)]

LEMMA SeenAs ==
    ASSUME NEW s \in Sale
    PROVE  StatusNow[s] = sale[s].status /\ BooksNow[s] = BookOf(s)
BY DEF StatusNow, BooksNow

LEMMA SeenAsAfter ==
    ASSUME NEW s \in Sale
    PROVE  StatusNow'[s] = sale'[s].status /\ BooksNow'[s] = BookOf(s)'
BY DEF StatusNow, BooksNow

LEMMA OthersSeenSame ==
    ASSUME NEW S, OthersStay(S), NEW t \in Sale \ S
    PROVE  StatusNow'[t] = StatusNow[t] /\ BooksNow'[t] = BooksNow[t]
BY SeenAs, SeenAsAfter DEF OthersStay, BookOf

\* Two functions on sales are equal when they agree on each.
LEMMA StepOfOne ==
    ASSUME NEW s \in Sale, OthersStay({s}), NEW x, NEW y,
           StatusNow'[s] = x, BooksNow'[s] = y
    PROVE  StatusNow' = [StatusNow EXCEPT ![s] = x] /\ BooksNow' = [BooksNow EXCEPT ![s] = y]
<1>1. \A t \in Sale \ {s} : StatusNow'[t] = StatusNow[t] /\ BooksNow'[t] = BooksNow[t]
  BY OthersSeenSame
<1>2. StatusNow' = [t \in Sale |-> StatusNow'[t]] /\ BooksNow' = [t \in Sale |-> BooksNow'[t]]
  BY DEF StatusNow, BooksNow
<1>3. /\ [StatusNow EXCEPT ![s] = x] = [t \in Sale |-> IF t = s THEN x ELSE StatusNow[t]]
      /\ [BooksNow EXCEPT ![s] = y] = [t \in Sale |-> IF t = s THEN y ELSE BooksNow[t]]
  BY DEF StatusNow, BooksNow
<1>4. \A t \in Sale : /\ StatusNow'[t] = IF t = s THEN x ELSE StatusNow[t]
                      /\ BooksNow'[t] = IF t = s THEN y ELSE BooksNow[t]
  BY <1>1
<1> QED
  BY <1>2, <1>3, <1>4

LEMMA RingsAsPromised ==
    ASSUME NEW s \in Sale, Rings(s)
    PROVE  Contract!Ring(s)
<1>1. /\ StatusNow[s] = "absent" /\ StatusNow'[s] = (IF Paid(s) THEN "COMPLETED" ELSE "PENDING")
      /\ BooksNow[s] = "empty" /\ BooksNow'[s] = IF Paid(s) THEN "sale" ELSE "empty"
  BY SeenAs, SeenAsAfter DEF Rings, BookOf
<1>2. /\ StatusNow' = [StatusNow EXCEPT ![s] = IF Paid(s) THEN "COMPLETED" ELSE "PENDING"]
      /\ BooksNow' = [BooksNow EXCEPT ![s] = IF Paid(s) THEN "sale" ELSE "empty"]
  BY <1>1, StepOfOne DEF Rings
<1>3. s \in {t \in Sale : Paid(t)} <=> Paid(s)
  OBVIOUS
<1>4. [BooksNow EXCEPT ![s] = "empty"] = BooksNow
  BY <1>1 DEF BooksNow
<1>5. BooksNow' = IF Paid(s) THEN [BooksNow EXCEPT ![s] = "sale"] ELSE BooksNow
  BY <1>2, <1>4
<1> QED
  BY <1>1, <1>2, <1>3, <1>5 DEF Contract!Ring, StatusNow, BooksNow

LEMMA PaysAsPromised ==
    ASSUME NEW s \in Sale, Pays(s)
    PROVE  Contract!Pay(s)
<1>1. /\ StatusNow[s] = "PENDING" /\ StatusNow'[s] = "COMPLETED" /\ BooksNow'[s] = "sale"
  BY SeenAs, SeenAsAfter DEF Pays, BookOf
<1>2. /\ StatusNow' = [StatusNow EXCEPT ![s] = "COMPLETED"]
      /\ BooksNow' = [BooksNow EXCEPT ![s] = "sale"]
  BY <1>1, StepOfOne DEF Pays
<1> QED
  BY <1>1, <1>2 DEF Contract!Pay, StatusNow, BooksNow

LEMMA CancelsAsPromised ==
    ASSUME NEW S \in SUBSET Sale, S # {}, OthersStay(S), NEW late \in BOOLEAN,
           \A s \in S : /\ StatusNow[s] \in {"PENDING", "COMPLETED"} /\ StatusNow'[s] = "VOIDED"
                        /\ BooksNow'[s] = IF BooksNow[s] = "sale" /\ ~late THEN "reversed"
                                          ELSE BooksNow[s]
    PROVE  Contract!Cancel(S)
<1>1. \A t \in Sale \ S : StatusNow'[t] = StatusNow[t] /\ BooksNow'[t] = BooksNow[t]
  BY OthersSeenSame
<1>2. StatusNow' = [t \in Sale |-> StatusNow'[t]] /\ BooksNow' = [t \in Sale |-> BooksNow'[t]]
  BY DEF StatusNow, BooksNow
<1>3. StatusNow' = [t \in Sale |-> IF t \in S THEN "VOIDED" ELSE StatusNow[t]]
  BY <1>1, <1>2
<1>4. BooksNow' = [t \in Sale |-> IF t \in S /\ BooksNow[t] = "sale" /\ ~late
                                  THEN "reversed" ELSE BooksNow[t]]
  BY <1>1, <1>2
<1> QED
  BY <1>3, <1>4 DEF Contract!Cancel, StatusNow, BooksNow

LEMMA VoidsAsPromised ==
    ASSUME IsolatedInv, NEW s \in Sale, Voids(s)
    PROVE  Contract!Cancel({s})
<1>1. /\ Booked(s) /\ entries[s].sales \in Nat /\ entries[s].reversals \in Nat
  BY DEF IsolatedInv, LedgerInv, TypeInv, TypeOK
<1>2. StatusNow[s] \in {"PENDING", "COMPLETED"} /\ StatusNow'[s] = "VOIDED"
  BY SeenAs, SeenAsAfter DEF Voids
<1>3. CASE entries'[s].reversals = entries[s].reversals
  <2>1. BooksNow'[s] = BooksNow[s]
    BY <1>3, SeenAs, SeenAsAfter DEF Voids, BookOf
  <2> QED
    BY <1>2, <2>1, CancelsAsPromised DEF Voids
<1>4. CASE sale[s].status = "COMPLETED" /\ entries'[s].reversals = 1
  <2>1. entries[s].sales = 1 /\ entries[s].reversals = 0 /\ entries'[s].sales = 1
    BY <1>1, <1>4 DEF Booked, Voids
  <2>2. BooksNow[s] = "sale" /\ BooksNow'[s] = "reversed"
    BY <1>4, <2>1, SeenAs, SeenAsAfter DEF BookOf
  <2> QED
    BY <1>2, <2>2, CancelsAsPromised DEF Voids
<1> QED
  BY <1>3, <1>4 DEF Voids

LEMMA RestoresAsPromised ==
    ASSUME NEW S \in SUBSET Sale, S # {}, Restores(S)
    PROVE  Contract!Cancel(S)
<1>1. ASSUME NEW s \in S
      PROVE  /\ StatusNow[s] \in {"PENDING", "COMPLETED"} /\ StatusNow'[s] = "VOIDED"
             /\ BooksNow'[s] = BooksNow[s]
  BY SeenAs, SeenAsAfter DEF Restores, BookOf
<1> QED
  BY <1>1, CancelsAsPromised DEF Restores

LEMMA NothingSeen ==
    ASSUME \A s \in Sale : sale'[s].status = sale[s].status, UNCHANGED entries
    PROVE  UNCHANGED Contract!vars
<1>1. StatusNow' = StatusNow
  BY DEF StatusNow
<1>2. BooksNow' = BooksNow
  BY DEF BooksNow, BookOf
<1> QED
  BY <1>1, <1>2 DEF Contract!vars, StatusNow, BooksNow

LEMMA StepsAsPromised ==
    ASSUME IsolatedInv, [Next]_vars
    PROVE  [Contract!Next]_(Contract!vars)
<1>1. ASSUME NEW r \in Request, CreateCommit(r) PROVE Contract!Next
  BY <1>1, CreateRings, RingsAsPromised DEF Contract!Next
<1>2. ASSUME NEW r \in Request, PaymentCommit(r) PROVE Contract!Next
  BY <1>2, PaymentPays, PaysAsPromised DEF Contract!Next
<1>3. ASSUME NEW r \in Request, VoidCommit(r) PROVE Contract!Next
  BY <1>3, VoidVoids, VoidsAsPromised DEF Contract!Next
<1>4. ASSUME NEW r \in Request, RestoreCommit(r)
      PROVE  Contract!Next \/ UNCHANGED Contract!vars
  <2>1. PICK S \in SUBSET Sale : Restores(S)
    BY <1>4, RestoreRestores
  <2>2. CASE S # {}
    BY <2>1, <2>2, RestoresAsPromised DEF Contract!Next
  <2>3. CASE S = {}
    BY <2>1, <2>3, NothingSeen DEF Restores, OthersStay
  <2> QED
    BY <2>2, <2>3
<1>5. ASSUME NEW r \in Request, Reject(r) \/ Abort(r) \/ PushCommit(r)
      PROVE  UNCHANGED Contract!vars
  BY <1>5, IsolatedEnds, NothingSeen
<1>6. ASSUME UNCHANGED <<sale, entries>>
      PROVE  UNCHANGED Contract!vars
  BY <1>6, NothingSeen
<1>7. ASSUME NEW r \in Request,
             \/ Begin(r) \/ CreateLock(r) \/ VoidLock(r) \/ FailLock(r) \/ PaymentPrepare(r)
             \/ PushAccepted(r) \/ Flush(r)
             \/ \E s \in Sale : CleanupTake(r, s) \/ CleanupSkip(r, s)
      PROVE  UNCHANGED <<sale, entries>>
  BY <1>7 DEF Begin, CreateBegin, VoidBegin, CallbackBegin, ConfirmBegin, PushBegin, FailBegin,
     CleanupBegin, CreateLock, VoidLock, FailLock, PaymentPrepare, PushAccepted, Flush,
     CleanupTake, CleanupSkip, dbVars
<1>8. CASE ClosePeriod \/ UNCHANGED vars
  <2>1. UNCHANGED <<sale, entries>>
    BY <1>8 DEF ClosePeriod, vars, dbVars
  <2> QED
    BY <1>6, <2>1
<1>9. ASSUME NEW r \in Request, Begin(r) \/ Proceed(r) \/ Reject(r) \/ Interrupt(r)
      PROVE  Contract!Next \/ UNCHANGED Contract!vars
  BY <1>1, <1>2, <1>3, <1>4, <1>5, <1>6, <1>7, <1>9 DEF Proceed, Interrupt
<1> QED
  BY <1>8, <1>9 DEF Next

LEMMA StartsAsPromised ==
    ASSUME Init PROVE Contract!Init
<1>1. \A s \in Sale : sale[s].status = "absent" /\ BookOf(s) = "empty"
  BY DEF Init, BookOf
<1> QED
  BY <1>1 DEF Contract!Init

(* Whatever is created, paid, voided, failed, cleaned up, interrupted or     *)
(* refused, each commit is a step of SaleContract or none: a sale is rung up *)
(* once, completed once and cancelled for good, and its books follow.  For   *)
(* any sales and any number of requests that do not overlap.                 *)
THEOREM SalesKeepTheContract ==
    ASSUME Isolated
    PROVE  Spec => KeepsContract
<1>1. IsolatedInv /\ [Next]_vars => IsolatedInv'
  BY IsolatedNext
<1>2. IsolatedInv /\ [Next]_vars => [Contract!Next]_(Contract!vars)
  BY StepsAsPromised
<1>3. Init => Contract!Init
  BY StartsAsPromised
<1> QED
  BY <1>1, <1>2, <1>3, IsolatedInit, PTL DEF Spec, KeepsContract, Contract!Spec


-----------------------------------------------------------------------------
(* Shelves, customers and tills hold what the sales took or gave *)

Totals   == [s \in Sale |-> Basket[s].total]
Takings  == [s \in Sale |-> Basket[s].total - Basket[s].change]
Owing(c) == {s \in Completed : Basket[s].method = "CREDIT" /\ Basket[s].customer = c}
Spent(c) == {s \in Completed : Basket[s].method = "STORE_CREDIT" /\ Basket[s].customer = c}
Rung(t)  == {s \in Completed : Basket[s].method = "CASH" /\ Basket[s].till = t}

ShelfKept(p) == stock[p] = InitStock[p] - SumFunctionOnSet(UnitsOf(p), Live) /\ stock[p] >= 0
CustomerKept(c) ==
    /\ credit[c] = SumFunctionOnSet(Totals, Owing(c))
    /\ wallet[c] = InitWallet[c] - SumFunctionOnSet(Totals, Spent(c))
    /\ wallet[c] >= 0
TillKept(t) == expected[t] = OpeningFloat[t] + SumFunctionOnSet(Takings, Rung(t))

AccountsKept ==
    /\ \A p \in Product : ShelfKept(p)
    /\ \A c \in Customer : CustomerKept(c)
    /\ \A t \in Session : TillKept(t)

LEMMA KeptIsMatched == AccountsKept => AccountsMatchSales
<1> SUFFICES ASSUME AccountsKept PROVE AccountsMatchSales
  OBVIOUS
<1>1. ShelvesMatch
  BY DEF AccountsKept, ShelfKept, ShelvesMatch, UnitsOf
<1>2. CustomersMatch
  BY DEF AccountsKept, CustomerKept, CustomersMatch, TotalOf, Owing, Spent, Totals
<1>3. TillsMatch
  BY DEF AccountsKept, TillKept, TillsMatch, Rung, Takings
<1> QED
  BY <1>1, <1>2, <1>3 DEF AccountsMatchSales

LEMMA BasketType ==
    ASSUME NEW s \in Sale
    PROVE  /\ Basket[s].total \in Nat /\ Basket[s].change \in Nat
           /\ Basket[s].till \in Session /\ Basket[s].customer \in Customer
           /\ Basket[s].method \in Methods
           /\ Totals[s] = Basket[s].total /\ Takings[s] = Basket[s].total - Basket[s].change
BY BasketAssumption DEF BasketRecords, Totals, Takings

LEMMA MoneyType == \A x \in Sale : Totals[x] \in Nat /\ Totals[x] \in Int /\ Takings[x] \in Int
BY BasketType

LEMMA StateType ==
    ASSUME IsolatedInv
    PROVE  /\ \A p \in Product : stock[p] \in Int /\ InitStock[p] \in Int
           /\ \A c \in Customer : credit[c] \in Int /\ wallet[c] \in Int /\ InitWallet[c] \in Int
           /\ \A t \in Session : expected[t] \in Int /\ OpeningFloat[t] \in Int
BY OpeningAssumption DEF IsolatedInv, LedgerInv, TypeInv, TypeOK

\* What a sale adds to a sum over sales, and what it leaves.
LEMMA OneMore ==
    ASSUME NEW T \in SUBSET Sale, NEW s \in Sale \ T, NEW f, \A x \in Sale : f[x] \in Int
    PROVE  /\ SumFunctionOnSet(f, T \cup {s}) = SumFunctionOnSet(f, T) + f[s]
           /\ SumFunctionOnSet(f, T) \in Int
<1>1. IsFiniteSet(T)
  BY SalesAssumption, FS_Subset
<1>2. \A x \in T \cup {s} : f[x] \in Int
  OBVIOUS
<1> QED
  BY <1>1, <1>2, SumAdds, SumInt

LEMMA SomeLess ==
    ASSUME NEW T \in SUBSET Sale, NEW S \in SUBSET T, NEW f, \A x \in Sale : f[x] \in Int
    PROVE  /\ SumFunctionOnSet(f, T \ S) = SumFunctionOnSet(f, T) - SumFunctionOnSet(f, S)
           /\ SumFunctionOnSet(f, T) \in Int /\ SumFunctionOnSet(f, S) \in Int
<1>1. IsFiniteSet(T) /\ IsFiniteSet(S) /\ IsFiniteSet(T \ S)
  BY SalesAssumption, FS_Subset
<1>2. \A x \in (T \ S) \cup S : f[x] \in Int
  OBVIOUS
<1>3. (T \ S) \cap S = {} /\ (T \ S) \cup S = T
  OBVIOUS
<1>4. SumFunctionOnSet(f, (T \ S) \cup S) = SumFunctionOnSet(f, T \ S) + SumFunctionOnSet(f, S)
  BY <1>1, <1>2, <1>3, SumJoins
<1>5. /\ SumFunctionOnSet(f, T \ S) \in Int /\ SumFunctionOnSet(f, T) \in Int
      /\ SumFunctionOnSet(f, S) \in Int
  BY <1>1, SumInt
<1>6. SumFunctionOnSet(f, T) = SumFunctionOnSet(f, T \ S) + SumFunctionOnSet(f, S)
  <2>1. PICK U : U = (T \ S) \cup S
    OBVIOUS
  <2>2. SumFunctionOnSet(f, U) = SumFunctionOnSet(f, T \ S) + SumFunctionOnSet(f, S)
    BY <1>4, <2>1
  <2>3. U = T
    BY <1>3, <2>1
  <2> QED
    BY <2>2, <2>3
<1> QED
  BY <1>5, <1>6

LEMMA OneLess ==
    ASSUME NEW T \in SUBSET Sale, NEW s \in T, NEW f, \A x \in Sale : f[x] \in Int
    PROVE  /\ SumFunctionOnSet(f, T \ {s}) = SumFunctionOnSet(f, T) - f[s]
           /\ SumFunctionOnSet(f, T) \in Int /\ SumFunctionOnSet(f, T \ {s}) \in Int
<1>1. IsFiniteSet(T) /\ IsFiniteSet(T \ {s})
  BY SalesAssumption, FS_Subset
<1>2. SumFunctionOnSet(f, T) = f[s] + SumFunctionOnSet(f, T \ {s})
  BY <1>1, SumSplits
<1>3. SumFunctionOnSet(f, T) \in Int /\ SumFunctionOnSet(f, T \ {s}) \in Int
  BY <1>1, SumInt
<1> QED
  BY <1>2, <1>3

\* Which sales count after a step.
LEMMA CountedAfterRing ==
    ASSUME NEW s \in Sale, Rings(s)
    PROVE  /\ s \notin Live /\ Live' = Live \cup {s}
           /\ s \notin Completed /\ Completed' = IF Paid(s) THEN Completed \cup {s} ELSE Completed
BY DEF Rings, OthersStay, Live, Completed

LEMMA CountedAfterPay ==
    ASSUME NEW s \in Sale, Pays(s)
    PROVE  Live' = Live /\ Completed' = Completed \cup {s}
BY DEF Pays, OthersStay, Live, Completed

LEMMA CountedAfterVoid ==
    ASSUME NEW s \in Sale, Voids(s), Booked(s)
    PROVE  /\ s \in Live /\ Live' = Live \ {s} /\ Completed' = Completed \ {s}
           /\ Paid(s) => s \in Completed
BY DEF Voids, Booked, OthersStay, Live, Completed

LEMMA CountedAfterRestore ==
    ASSUME NEW S \in SUBSET Sale, Restores(S)
    PROVE  S \subseteq Live /\ Live' = Live \ S /\ Completed' = Completed
BY DEF Restores, OthersStay, Live, Completed

LEMMA KeptAfterRing ==
    ASSUME IsolatedInv, AccountsKept, NEW s \in Sale, Rings(s),
           StockCheck \/ \A p \in Product : Basket[s].largest[p] = Basket[s].qty[p]
    PROVE  AccountsKept'
<1>1. ASSUME NEW p \in Product PROVE ShelfKept(p)'
  <2>1. /\ stock[p] = InitStock[p] - SumFunctionOnSet(UnitsOf(p), Live)
        /\ stock'[p] = stock[p] - Basket[s].qty[p] /\ stock[p] >= 0
        /\ stock[p] \in Int /\ InitStock[p] \in Int
    BY StateType DEF AccountsKept, ShelfKept, Rings
  <2>2. Basket[s].qty[p] \in Nat /\ UnitsOf(p)[s] = Basket[s].qty[p] /\ \A x \in Sale : UnitsOf(p)[x] \in Int
    BY UnitsType
  <2>3. Live \in SUBSET Sale /\ s \in Sale \ Live
    BY CountedAfterRing DEF Live
  <2>4. /\ SumFunctionOnSet(UnitsOf(p), Live') = SumFunctionOnSet(UnitsOf(p), Live) + Basket[s].qty[p]
        /\ SumFunctionOnSet(UnitsOf(p), Live) \in Int
    <3>1. Live' = Live \cup {s}
      BY CountedAfterRing
    <3>2. /\ SumFunctionOnSet(UnitsOf(p), Live \cup {s})
                = SumFunctionOnSet(UnitsOf(p), Live) + UnitsOf(p)[s]
          /\ SumFunctionOnSet(UnitsOf(p), Live) \in Int
      BY <2>2, <2>3, OneMore
    <3> QED
      BY <2>2, <3>1, <3>2
  <2>5. stock'[p] = InitStock[p] - SumFunctionOnSet(UnitsOf(p), Live')
    BY <2>1, <2>2, <2>4
  <2>6. stock'[p] >= 0
    <3>1. CASE p \in Needed(s)
      BY <2>1, <2>2, <3>1 DEF Rings
    <3>2. CASE p \notin Needed(s)
      BY <2>1, <2>2, <3>2 DEF Needed
    <3> QED
      BY <3>1, <3>2
  <2> QED
    BY <2>5, <2>6 DEF ShelfKept, UnitsOf
<1>2. ASSUME NEW c \in Customer PROVE CustomerKept(c)'
  <2>1. /\ CustomerKept(c) /\ ChargeCustomer(Basket[s]) /\ WithinCredit(s)
        /\ credit[c] \in Int /\ wallet[c] \in Int /\ InitWallet[c] \in Int
        /\ credit \in [Customer -> Int] /\ wallet \in [Customer -> Int]
        /\ Basket[s].total \in Nat /\ Totals[s] = Basket[s].total
    BY BasketType, StateType DEF AccountsKept, Rings, IsolatedInv, LedgerInv, TypeInv, TypeOK
  <2>2. \A x \in Sale : Totals[x] \in Int
    BY MoneyType
  <2>3. /\ Owing(c) \in SUBSET Sale /\ s \notin Owing(c)
        /\ Spent(c) \in SUBSET Sale /\ s \notin Spent(c)
    BY CountedAfterRing DEF Owing, Spent, Completed
  <2>4. CASE Basket[s].method = "CREDIT" /\ Basket[s].customer = c
    <3>1. Owing(c)' = Owing(c) \cup {s} /\ Spent(c)' = Spent(c)
      BY <2>4, CountedAfterRing DEF Owing, Spent, Paid
    <3>2. credit'[c] = credit[c] + Basket[s].total /\ wallet'[c] = wallet[c]
      BY <2>1, <2>4 DEF ChargeCustomer
    <3>3. /\ SumFunctionOnSet(Totals, Owing(c) \cup {s})
                = SumFunctionOnSet(Totals, Owing(c)) + Totals[s]
          /\ SumFunctionOnSet(Totals, Owing(c)) \in Int
      BY <2>2, <2>3, OneMore
    <3> QED
      BY <2>1, <3>1, <3>2, <3>3 DEF CustomerKept, Totals
  <2>5. CASE Basket[s].method = "STORE_CREDIT" /\ Basket[s].customer = c
    <3>1. Owing(c)' = Owing(c) /\ Spent(c)' = Spent(c) \cup {s}
      BY <2>5, CountedAfterRing DEF Owing, Spent, Paid
    <3>2. /\ credit'[c] = credit[c] /\ wallet'[c] = wallet[c] - Basket[s].total
          /\ wallet[c] >= Basket[s].total
      BY <2>1, <2>5 DEF ChargeCustomer, WithinCredit
    <3>3. /\ SumFunctionOnSet(Totals, Spent(c) \cup {s})
                = SumFunctionOnSet(Totals, Spent(c)) + Totals[s]
          /\ SumFunctionOnSet(Totals, Spent(c)) \in Int
      BY <2>2, <2>3, OneMore
    <3>4. wallet'[c] >= 0
      BY <2>1, <3>2
    <3>5. wallet'[c] = InitWallet[c] - (SumFunctionOnSet(Totals, Spent(c)) + Totals[s])
      BY <2>1, <3>2, <3>3 DEF CustomerKept
    <3> QED
      BY <2>1, <3>1, <3>2, <3>3, <3>4, <3>5 DEF CustomerKept, Totals
  <2>6. CASE Basket[s].customer # c \/ Basket[s].method \notin {"CREDIT", "STORE_CREDIT"}
    <3>1. Owing(c)' = Owing(c) /\ Spent(c)' = Spent(c)
      BY <2>6, CountedAfterRing DEF Owing, Spent
    <3>2. credit'[c] = credit[c] /\ wallet'[c] = wallet[c]
      BY <2>1, <2>6 DEF ChargeCustomer
    <3> QED
      BY <2>1, <3>1, <3>2 DEF CustomerKept, Totals
  <2> QED
    BY <2>4, <2>5, <2>6
<1>3. ASSUME NEW t \in Session PROVE TillKept(t)'
  <2>1. /\ TillKept(t) /\ expected \in [Session -> Int] /\ OpeningFloat[t] \in Int
        /\ Takings[s] = Basket[s].total - Basket[s].change
        /\ Takings[s] \in Int /\ \A x \in Sale : Takings[x] \in Int
    BY BasketType, MoneyType, StateType DEF AccountsKept, IsolatedInv, LedgerInv, TypeInv, TypeOK
  <2>2. CASE Basket[s].method = "CASH" /\ Basket[s].till = t
    <3>1. Rung(t)' = Rung(t) \cup {s}
      BY <2>2, CountedAfterRing DEF Rung, Paid
    <3>2. Rung(t) \in SUBSET Sale /\ s \in Sale \ Rung(t)
      BY CountedAfterRing DEF Rung, Completed
    <3>3. /\ SumFunctionOnSet(Takings, Rung(t) \cup {s})
                = SumFunctionOnSet(Takings, Rung(t)) + Takings[s]
          /\ SumFunctionOnSet(Takings, Rung(t)) \in Int
      BY <2>1, <3>2, OneMore
    <3>4. expected'[t] = expected[t] + Takings[s]
      BY <2>1, <2>2 DEF Rings
    <3> QED
      BY <2>1, <3>1, <3>3, <3>4 DEF TillKept, Takings
  <2>3. CASE ~(Basket[s].method = "CASH" /\ Basket[s].till = t)
    <3>1. Rung(t)' = Rung(t)
      BY <2>3, CountedAfterRing DEF Rung
    <3>2. expected'[t] = expected[t]
      BY <2>1, <2>3 DEF Rings
    <3> QED
      BY <2>1, <3>1, <3>2 DEF TillKept, Takings
  <2> QED
    BY <2>2, <2>3
<1> QED
  BY <1>1, <1>2, <1>3 DEF AccountsKept


\* When the completed sales, or those with an account or in a till, stay the
\* same, so do the customers and the tills.
LEMMA KeptCustomers ==
    ASSUME AccountsKept, UNCHANGED <<credit, wallet, expected>>,
           \A c \in Customer : Owing(c)' = Owing(c) /\ Spent(c)' = Spent(c),
           \A t \in Session : Rung(t)' = Rung(t)
    PROVE  (\A c \in Customer : CustomerKept(c)') /\ (\A t \in Session : TillKept(t)')
BY DEF AccountsKept, CustomerKept, TillKept, Totals, Takings

LEMMA KeptAfterPay ==
    ASSUME AccountsKept, NEW s \in Sale, Pays(s)
    PROVE  AccountsKept'
<1>1. Live' = Live /\ Completed' = Completed \cup {s}
  BY CountedAfterPay
<1>2. Basket[s].method = "MPESA" /\ UNCHANGED <<stock, credit, wallet, expected>>
  BY DEF Pays, Paid
<1>3. \A p \in Product : ShelfKept(p)'
  BY <1>1, <1>2 DEF AccountsKept, ShelfKept, UnitsOf
<1>4. /\ \A c \in Customer : Owing(c)' = Owing(c) /\ Spent(c)' = Spent(c)
      /\ \A t \in Session : Rung(t)' = Rung(t)
  BY <1>1, <1>2 DEF Owing, Spent, Rung
<1> QED
  BY <1>2, <1>3, <1>4, KeptCustomers DEF AccountsKept

LEMMA KeptAfterRestore ==
    ASSUME IsolatedInv, AccountsKept, NEW S \in SUBSET Sale, Restores(S)
    PROVE  AccountsKept'
<1>1. S \subseteq Live /\ Live' = Live \ S /\ Completed' = Completed
  BY CountedAfterRestore
<1>2. UNCHANGED <<credit, wallet, expected>>
  BY DEF Restores
<1>3. ASSUME NEW p \in Product PROVE ShelfKept(p)'
  <2>1. /\ ShelfKept(p) /\ stock'[p] = stock[p] + SumFunctionOnSet(UnitsOf(p), S)
        /\ stock[p] \in Int /\ InitStock[p] \in Int
    BY StateType DEF AccountsKept, Restores
  <2>2. \A x \in Sale : UnitsOf(p)[x] \in Int /\ UnitsOf(p)[x] \in Nat
    BY UnitsType
  <2>3. Live \in SUBSET Sale /\ S \in SUBSET Live
    BY <1>1 DEF Live
  <2>4. /\ SumFunctionOnSet(UnitsOf(p), Live \ S)
                = SumFunctionOnSet(UnitsOf(p), Live) - SumFunctionOnSet(UnitsOf(p), S)
        /\ SumFunctionOnSet(UnitsOf(p), Live) \in Int
    BY <2>2, <2>3, SomeLess
  <2>5. SumFunctionOnSet(UnitsOf(p), S) \in Nat
    <3>1. IsFiniteSet(S) /\ \A x \in S : UnitsOf(p)[x] \in Nat
      BY <2>2, SalesAssumption, FS_Subset
    <3> QED
      BY <3>1, SumNat
  <2>6. stock'[p] = InitStock[p] - SumFunctionOnSet(UnitsOf(p), Live \ S) /\ stock'[p] >= 0
    BY <2>1, <2>4, <2>5 DEF ShelfKept
  <2> QED
    BY <1>1, <2>6 DEF ShelfKept, UnitsOf
<1>4. /\ \A c \in Customer : Owing(c)' = Owing(c) /\ Spent(c)' = Spent(c)
      /\ \A t \in Session : Rung(t)' = Rung(t)
  BY <1>1 DEF Owing, Spent, Rung
<1> QED
  BY <1>2, <1>3, <1>4, KeptCustomers DEF AccountsKept

\* What a customer owes is at least each of the sales that are owed.
LEMMA OwesEach ==
    ASSUME NEW T \in SUBSET Sale, NEW s \in T
    PROVE  SumFunctionOnSet(Totals, T) - Totals[s] >= 0
<1>1. /\ SumFunctionOnSet(Totals, T \ {s}) = SumFunctionOnSet(Totals, T) - Totals[s]
      /\ SumFunctionOnSet(Totals, T) \in Int
  BY MoneyType, OneLess
<1>2. SumFunctionOnSet(Totals, T \ {s}) \in Nat
  <2>1. IsFiniteSet(T \ {s}) /\ \A x \in T \ {s} : Totals[x] \in Nat
    BY MoneyType, SalesAssumption, FS_Subset
  <2> QED
    BY <2>1, SumNat
<1> QED
  BY <1>1, <1>2

LEMMA KeptAfterVoid ==
    ASSUME IsolatedInv, AccountsKept, NEW s \in Sale, Voids(s)
    PROVE  AccountsKept'
<1>0. /\ s \in Live /\ Live' = Live \ {s} /\ Completed' = Completed \ {s}
      /\ Paid(s) => s \in Completed
  BY CountedAfterVoid DEF IsolatedInv
<1>1. ASSUME NEW p \in Product PROVE ShelfKept(p)'
  <2>1. /\ ShelfKept(p) /\ stock'[p] = stock[p] + Basket[s].qty[p]
        /\ stock[p] \in Int /\ InitStock[p] \in Int
    BY StateType DEF AccountsKept, Voids
  <2>2. /\ Basket[s].qty[p] \in Nat /\ UnitsOf(p)[s] = Basket[s].qty[p]
        /\ \A x \in Sale : UnitsOf(p)[x] \in Int
    BY UnitsType
  <2>3. Live \in SUBSET Sale
    BY DEF Live
  <2>4. /\ SumFunctionOnSet(UnitsOf(p), Live \ {s})
                = SumFunctionOnSet(UnitsOf(p), Live) - UnitsOf(p)[s]
        /\ SumFunctionOnSet(UnitsOf(p), Live) \in Int
    BY <1>0, <2>2, <2>3, OneLess
  <2>5. stock'[p] = InitStock[p] - SumFunctionOnSet(UnitsOf(p), Live \ {s}) /\ stock'[p] >= 0
    BY <2>1, <2>2, <2>4 DEF ShelfKept
  <2> QED
    BY <1>0, <2>5 DEF ShelfKept, UnitsOf
<1>2. ASSUME NEW c \in Customer PROVE CustomerKept(c)'
  <2>1. /\ CustomerKept(c) /\ RefundCustomer(Basket[s])
        /\ credit[c] \in Int /\ wallet[c] \in Int /\ InitWallet[c] \in Int
        /\ credit \in [Customer -> Int] /\ wallet \in [Customer -> Int]
        /\ Basket[s].total \in Nat /\ Totals[s] = Basket[s].total
    BY BasketType, StateType DEF AccountsKept, Voids, IsolatedInv, LedgerInv, TypeInv, TypeOK
  <2>2. \A x \in Sale : Totals[x] \in Int
    BY MoneyType
  <2>3. Owing(c) \in SUBSET Sale /\ Spent(c) \in SUBSET Sale
    BY DEF Owing, Spent, Completed
  <2>4. CASE Basket[s].method = "CREDIT" /\ Basket[s].customer = c
    <3>1. s \in Owing(c) /\ Owing(c)' = Owing(c) \ {s} /\ Spent(c)' = Spent(c)
      BY <1>0, <2>4 DEF Owing, Spent, Paid
    <3>2. /\ SumFunctionOnSet(Totals, Owing(c) \ {s})
                = SumFunctionOnSet(Totals, Owing(c)) - Totals[s]
          /\ SumFunctionOnSet(Totals, Owing(c)) \in Int
          /\ SumFunctionOnSet(Totals, Owing(c)) - Totals[s] >= 0
      BY <2>2, <2>3, <3>1, OneLess, OwesEach
    <3>3. credit[c] - Basket[s].total = SumFunctionOnSet(Totals, Owing(c)) - Totals[s]
      BY <2>1, <3>2 DEF CustomerKept
    <3>4. wallet'[c] = wallet[c]
          /\ credit'[c] = IF credit[c] - Basket[s].total > 0 THEN credit[c] - Basket[s].total ELSE 0
      BY <2>1, <2>4 DEF RefundCustomer
    <3>5. credit'[c] = SumFunctionOnSet(Totals, Owing(c)) - Totals[s]
      BY <2>1, <3>2, <3>3, <3>4
    <3> QED
      BY <2>1, <3>1, <3>2, <3>4, <3>5 DEF CustomerKept, Totals
  <2>5. CASE Basket[s].method = "STORE_CREDIT" /\ Basket[s].customer = c
    <3>1. s \in Spent(c) /\ Owing(c)' = Owing(c) /\ Spent(c)' = Spent(c) \ {s}
      BY <1>0, <2>5 DEF Owing, Spent, Paid
    <3>2. credit'[c] = credit[c] /\ wallet'[c] = wallet[c] + Basket[s].total
      BY <2>1, <2>5 DEF RefundCustomer
    <3>3. /\ SumFunctionOnSet(Totals, Spent(c) \ {s})
                = SumFunctionOnSet(Totals, Spent(c)) - Totals[s]
          /\ SumFunctionOnSet(Totals, Spent(c)) \in Int
      BY <2>2, <2>3, <3>1, OneLess
    <3>4. /\ wallet'[c] = InitWallet[c] - (SumFunctionOnSet(Totals, Spent(c)) - Totals[s])
          /\ wallet'[c] >= 0
      BY <2>1, <3>2, <3>3 DEF CustomerKept
    <3> QED
      BY <2>1, <3>1, <3>2, <3>3, <3>4 DEF CustomerKept, Totals
  <2>6. CASE Basket[s].customer # c \/ Basket[s].method \notin {"CREDIT", "STORE_CREDIT"}
    <3>1. Owing(c)' = Owing(c) /\ Spent(c)' = Spent(c)
      BY <1>0, <2>6 DEF Owing, Spent
    <3>2. credit'[c] = credit[c] /\ wallet'[c] = wallet[c]
      BY <2>1, <2>6 DEF RefundCustomer
    <3> QED
      BY <2>1, <3>1, <3>2 DEF CustomerKept, Totals
  <2> QED
    BY <2>4, <2>5, <2>6
<1>3. ASSUME NEW t \in Session PROVE TillKept(t)'
  <2>1. /\ TillKept(t) /\ expected \in [Session -> Int] /\ OpeningFloat[t] \in Int
        /\ RefundTill(Basket[s])
        /\ Takings[s] = Basket[s].total - Basket[s].change
        /\ Takings[s] \in Int /\ \A x \in Sale : Takings[x] \in Int
    BY BasketType, MoneyType, StateType
    DEF AccountsKept, Voids, IsolatedInv, LedgerInv, TypeInv, TypeOK
  <2>2. CASE Basket[s].method = "CASH" /\ Basket[s].till = t
    <3>1. s \in Rung(t) /\ Rung(t)' = Rung(t) \ {s}
      BY <1>0, <2>2 DEF Rung, Paid
    <3>2. Rung(t) \in SUBSET Sale
      BY DEF Rung, Completed
    <3>3. /\ SumFunctionOnSet(Takings, Rung(t) \ {s})
                = SumFunctionOnSet(Takings, Rung(t)) - Takings[s]
          /\ SumFunctionOnSet(Takings, Rung(t)) \in Int
      BY <2>1, <3>1, <3>2, OneLess
    <3>4. expected'[t] = expected[t] - Takings[s]
      BY <2>1, <2>2 DEF RefundTill
    <3> QED
      BY <2>1, <3>1, <3>3, <3>4 DEF TillKept, Takings
  <2>3. CASE ~(Basket[s].method = "CASH" /\ Basket[s].till = t)
    <3>1. Rung(t)' = Rung(t)
      BY <1>0, <2>3 DEF Rung
    <3>2. expected'[t] = expected[t]
      BY <2>1, <2>3 DEF RefundTill
    <3> QED
      BY <2>1, <3>1, <3>2 DEF TillKept, Takings
  <2> QED
    BY <2>2, <2>3
<1> QED
  BY <1>1, <1>2, <1>3 DEF AccountsKept

LEMMA KeptWhenIdle ==
    ASSUME AccountsKept, \A s \in Sale : sale'[s].status = sale[s].status,
           UNCHANGED <<stock, expected, credit, wallet>>
    PROVE  AccountsKept'
<1>1. Live' = Live /\ Completed' = Completed
  BY DEF Live, Completed
<1> QED
  BY <1>1 DEF AccountsKept, ShelfKept, CustomerKept, TillKept, Owing, Spent, Rung, Totals,
              Takings, UnitsOf

\* Every line of a sale was compared with the shelf, but not their sum: either
\* the schema does that, or no sale lists a product twice.
EnoughForAll ==
    StockCheck \/ \A s \in Sale, p \in Product : Basket[s].largest[p] = Basket[s].qty[p]

LEMMA AccountsNext ==
    ASSUME EnoughForAll, IsolatedInv, AccountsKept, [Next]_vars
    PROVE  AccountsKept'
<1>1. ASSUME NEW r \in Request, CreateCommit(r) PROVE AccountsKept'
  <2>1. PICK s \in Sale : Rings(s)
    BY <1>1, CreateRings
  <2> QED
    BY <2>1, KeptAfterRing DEF EnoughForAll
<1>2. ASSUME NEW r \in Request, PaymentCommit(r) PROVE AccountsKept'
  BY <1>2, PaymentPays, KeptAfterPay
<1>3. ASSUME NEW r \in Request, VoidCommit(r) PROVE AccountsKept'
  BY <1>3, VoidVoids, KeptAfterVoid
<1>4. ASSUME NEW r \in Request, RestoreCommit(r) PROVE AccountsKept'
  BY <1>4, RestoreRestores, KeptAfterRestore
<1>5. ASSUME NEW r \in Request, Reject(r) \/ Abort(r) \/ PushCommit(r) PROVE AccountsKept'
  BY <1>5, IsolatedEnds, KeptWhenIdle
<1>6. ASSUME NEW r \in Request,
             \/ Begin(r) \/ CreateLock(r) \/ VoidLock(r) \/ FailLock(r) \/ PaymentPrepare(r)
             \/ PushAccepted(r) \/ Flush(r)
             \/ \E s \in Sale : CleanupTake(r, s) \/ CleanupSkip(r, s)
      PROVE  AccountsKept'
  <2>1. UNCHANGED dbVars
    BY <1>6 DEF Begin, CreateBegin, VoidBegin, CallbackBegin, ConfirmBegin, PushBegin, FailBegin,
       CleanupBegin, CreateLock, VoidLock, FailLock, PaymentPrepare, PushAccepted, Flush,
       CleanupTake, CleanupSkip
  <2> QED
    BY <2>1, KeptWhenIdle DEF dbVars
<1>7. CASE ClosePeriod \/ UNCHANGED vars
  <2>1. UNCHANGED dbVars
    BY <1>7 DEF ClosePeriod, vars
  <2> QED
    BY <2>1, KeptWhenIdle DEF dbVars
<1> QED
  BY <1>1, <1>2, <1>3, <1>4, <1>5, <1>6, <1>7 DEF Next, Proceed, Interrupt

LEMMA AccountsInit == Init => AccountsKept
<1> SUFFICES ASSUME Init PROVE AccountsKept
  OBVIOUS
<1>1. Live = {} /\ Completed = {}
  BY DEF Init, Live, Completed
<1>2. /\ \A p \in Product : SumFunctionOnSet(UnitsOf(p), Live) = 0
      /\ \A c \in Customer : Owing(c) = {} /\ Spent(c) = {}
      /\ \A t \in Session : Rung(t) = {}
  BY <1>1, SumOfNone DEF Owing, Spent, Rung
<1>3. SumFunctionOnSet(Totals, {}) = 0 /\ SumFunctionOnSet(Takings, {}) = 0
  BY SumOfNone
<1>4. /\ \A p \in Product : stock[p] = InitStock[p] /\ InitStock[p] \in Nat
      /\ \A c \in Customer : credit[c] = 0 /\ wallet[c] = InitWallet[c] /\ InitWallet[c] \in Nat
      /\ \A t \in Session : expected[t] = OpeningFloat[t] /\ OpeningFloat[t] \in Nat
  BY OpeningAssumption DEF Init
<1>5. ASSUME NEW p \in Product PROVE ShelfKept(p)
  BY <1>2, <1>4 DEF ShelfKept
<1>6. ASSUME NEW c \in Customer PROVE CustomerKept(c)
  BY <1>2, <1>3, <1>4 DEF CustomerKept
<1>7. ASSUME NEW t \in Session PROVE TillKept(t)
  BY <1>2, <1>3, <1>4 DEF TillKept
<1> QED
  BY <1>5, <1>6, <1>7 DEF AccountsKept

(* In any history of requests that do not overlap, with their interruptions  *)
(* and refusals, shelves, tills and customers' accounts are exactly what the *)
(* sales as they stand took and gave, and neither a shelf nor a wallet is    *)
(* ever overdrawn: for any number of sales, products, customers and tills.   *)
THEOREM AccountsAgree ==
    ASSUME Isolated, EnoughForAll
    PROVE  Spec => []AccountsMatchSales
<1>1. IsolatedInv /\ [Next]_vars => IsolatedInv'
  BY IsolatedNext
<1>2. IsolatedInv /\ AccountsKept /\ [Next]_vars => AccountsKept'
  BY AccountsNext
<1> QED
  BY <1>1, <1>2, IsolatedInit, AccountsInit, KeptIsMatched, PTL DEF Spec

=============================================================================

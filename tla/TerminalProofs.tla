--------------------------- MODULE TerminalProofs ---------------------------
(***************************************************************************)
(* What holds of a till: of its sales (Terminal), for any purchases, rows, *)
(* calls of syncQueue and faults, and of the logins it works under and the *)
(* notices it is sent (Access, Notices), for any staff, workers, requests  *)
(* and events.  First the sales: their types, that a sale which is safe    *)
(* stays safe while the session lasts, that no receipt is given for a sale *)
(* that is lost, and that no sale is sold twice, apart from the purchases  *)
(* the history variables single out.  Then the logins and the notices: a   *)
(* login that ended stays ended and has one live session, the registry of  *)
(* a worker knows its open socket, and an event is neither written twice   *)
(* nor missed.                                                             *)
(***************************************************************************)
EXTENDS Terminal, Notices, TLAPS, FiniteSetTheorems

(* Where a running call of syncQueue stands: the items it still has and the  *)
(* one it is at are rows that were filled, and stay the same cart's; when    *)
(* the server's answer is on its way, that cart has been recorded.           *)
LoopBacked(l) ==
    /\ \A i \in loops[l].todo : queue[i].status # "free"
    /\ loops[l].phase \in {"sent", "recorded"} =>
           /\ loops[l].row \in Row
           /\ queue[loops[l].row].status # "free"
    /\ loops[l].phase = "recorded" => recorded[queue[loops[l].row].cart] > 0

(* A row that is not free is a cart's. *)
RowsFilled == \A i \in Row : queue[i].status # "free" => queue[i].cart \in Cart

(* The sale on the screen has a cart. *)
TillFilled == till.phase # "empty" => till.cart \in Cart

IInv == TypeOK /\ RowsFilled /\ TillFilled /\ \A l \in Loop : LoopBacked(l)

QueueType == [Row -> [cart : Cart \cup {NoCart},
                      status : {"free", "pending", "failed", "synced"},
                      attempts : 0..MaxAttempts]]

-----------------------------------------------------------------------------
(* The number of items in a queue is a number. *)
LEMMA LengthIsNat ==
    ASSUME NEW q PROVE Cardinality(Unsynced(q)) \in Nat
<1>1. IsFiniteSet(Row)
  BY TerminalAssumption, FS_Interval DEF Row
<1>2. Unsynced(q) \subseteq Row
  BY DEF Unsynced
<1>3. IsFiniteSet(Unsynced(q))
  BY <1>1, <1>2, FS_Subset
<1> QED
  BY <1>3, FS_CardinalityType

(* Recording a purchase counts it, for itself and for nobody else. *)
LEMMA RecordCounts ==
    ASSUME NEW c \in Cart, recorded \in [Cart -> 0..Many], Record(c)
    PROVE  /\ recorded' \in [Cart -> 0..Many]
           /\ recorded'[c] > 0
           /\ \A d \in Cart : recorded[d] > 0 => recorded'[d] > 0
  BY TerminalAssumption DEF Record, Count

(* What a new row changes. *)
LEMMA InsertFills ==
    ASSUME NEW c \in Cart, queue \in QueueType, RowsFilled, Insert(c)
    PROVE  /\ queue' \in QueueType
           /\ RowsFilled'
           /\ \A i \in Row : queue[i].status # "free" => queue'[i] = queue[i]
           /\ \E i \in Unsynced(queue') : queue'[i].cart = c
<1>1. PICK i \in Row : /\ queue[i].status = "free"
                       /\ queue' = [queue EXCEPT ![i] = [cart |-> c, status |-> "pending", attempts |-> 0]]
  BY DEF Insert
<1>2. queue' \in QueueType
  BY <1>1, TerminalAssumption DEF QueueType
<1>3. queue'[i] = [cart |-> c, status |-> "pending", attempts |-> 0]
  BY <1>1 DEF QueueType
<1>4. \A j \in Row : j # i => queue'[j] = queue[j]
  BY <1>1 DEF QueueType
<1>5. i \in Unsynced(queue') /\ queue'[i].cart = c
  BY <1>3 DEF Unsynced
<1>6. RowsFilled'
  BY <1>3, <1>4 DEF RowsFilled
<1>7. \A j \in Row : queue[j].status # "free" => queue'[j] = queue[j]
  BY <1>1, <1>4
<1> QED
  BY <1>2, <1>5, <1>6, <1>7

(* What a change of status leaves. *)
LEMMA MarkFailedKeeps ==
    ASSUME NEW i \in Row, queue \in QueueType, RowsFilled, queue[i].status # "free", MarkFailed(i)
    PROVE  /\ queue' \in QueueType
           /\ RowsFilled'
           /\ \A j \in Row : /\ queue'[j].cart = queue[j].cart
                             /\ queue[j].status # "free" => queue'[j].status # "free"
           /\ \A j \in Unsynced(queue) : j \in Unsynced(queue')
<1> DEFINE failed(a) == [cart |-> queue[i].cart, status |-> "failed", attempts |-> a]
<1>1. PICK a \in 0..MaxAttempts : queue' = [queue EXCEPT ![i] = failed(a)]
  <2>1. queue[i] \in [cart : Cart \cup {NoCart}, status : {"free", "pending", "failed", "synced"},
                      attempts : 0..MaxAttempts]
    BY DEF QueueType
  <2>2. queue' = [queue EXCEPT ![i] = failed(Counted(queue[i].attempts))]
    BY <2>1 DEF MarkFailed, QueueType
  <2>3. Counted(queue[i].attempts) \in 0..MaxAttempts
    BY <2>1, TerminalAssumption DEF Counted
  <2> QED
    BY <2>2, <2>3
<1>2. queue[i].cart \in Cart \cup {NoCart}
  BY DEF QueueType
<1>3. queue' \in QueueType
  BY <1>1, <1>2 DEF QueueType
<1>4. \A j \in Row : j # i => queue'[j] = queue[j]
  BY <1>1 DEF QueueType
<1>5. queue'[i].cart = queue[i].cart /\ queue'[i].status = "failed"
  BY <1>1 DEF QueueType
<1>6. RowsFilled'
  BY <1>4, <1>5 DEF RowsFilled
<1>7. \A j \in Unsynced(queue) : j \in Unsynced(queue')
  BY <1>4, <1>5 DEF Unsynced
<1>8. \A j \in Row : /\ queue'[j].cart = queue[j].cart
                     /\ queue[j].status # "free" => queue'[j].status # "free"
  BY <1>4, <1>5
<1> QED
  BY <1>3, <1>6, <1>7, <1>8

LEMMA ClearKeeps ==
    ASSUME NEW i \in Row, queue \in QueueType, RowsFilled, queue[i].status # "free", Clear(i)
    PROVE  /\ queue' \in QueueType
           /\ RowsFilled'
           /\ \A j \in Row : /\ queue'[j].cart = queue[j].cart
                             /\ queue[j].status # "free" => queue'[j].status # "free"
           /\ \A j \in Unsynced(queue) : j # i => j \in Unsynced(queue')
<1>1. queue' \in QueueType
  BY DEF Clear, QueueType
<1>2. \A j \in Row : j # i => queue'[j] = queue[j]
  BY DEF Clear, QueueType
<1>3. queue'[i].cart = queue[i].cart /\ queue'[i].status = "synced"
  BY DEF Clear, QueueType
<1> QED
  BY <1>1, <1>2, <1>3 DEF RowsFilled, Unsynced

(* A call of syncQueue that begins has a snapshot of filled rows. *)
LEMMA SyncQueueBacked ==
    ASSUME loops \in [Loop -> [phase : LoopPhases, mine : BOOLEAN, todo : SUBSET Row,
                               row : Row \cup {0}]],
           \A l \in Loop : LoopBacked(l), SyncQueue, UNCHANGED <<queue, recorded>>
    PROVE  /\ loops' \in [Loop -> [phase : LoopPhases, mine : BOOLEAN, todo : SUBSET Row,
                                   row : Row \cup {0}]]
           /\ \A l \in Loop : LoopBacked(l)'
<1>1. CASE UNCHANGED loops
  BY <1>1 DEF LoopBacked
<1>2. CASE \E l \in Loop : /\ loops[l].phase = "idle"
                           /\ loops' = [loops EXCEPT ![l] = [phase |-> "next", mine |-> TRUE,
                                                             todo |-> Snapshot, row |-> 0]]
  <2>1. PICK l \in Loop : loops' = [loops EXCEPT ![l] = [phase |-> "next", mine |-> TRUE,
                                                         todo |-> Snapshot, row |-> 0]]
    BY <1>2
  <2>2. Snapshot \in SUBSET Row /\ \A i \in Snapshot : queue[i].status # "free"
    BY DEF Snapshot, Unsynced
  <2>3. loops' \in [Loop -> [phase : LoopPhases, mine : BOOLEAN, todo : SUBSET Row,
                             row : Row \cup {0}]]
    BY <2>1, <2>2 DEF LoopPhases
  <2>4. \A k \in Loop : LoopBacked(k)'
    BY <2>1, <2>2 DEF LoopBacked
  <2> QED
    BY <2>3, <2>4
<1> QED
  BY <1>1, <1>2 DEF SyncQueue

(* What every step leaves as it is: a filled row stays its cart's, and what  *)
(* was recorded stays recorded.                                              *)
Grows ==
    /\ \A i \in Row : queue[i].status # "free" =>
           queue'[i].status # "free" /\ queue'[i].cart = queue[i].cart
    /\ \A c \in Cart : recorded[c] > 0 => recorded'[c] > 0

(* A call that goes no further than to its next item. *)
Eases(l) ==
    /\ loops'[l].todo \subseteq loops[l].todo
    /\ \/ loops'[l].phase = loops[l].phase /\ loops'[l].row = loops[l].row
       \/ loops'[l].phase \in {"idle", "next"}

LEMMA EasedIsBacked ==
    ASSUME IInv, Grows, NEW l \in Loop, Eases(l)
    PROVE  LoopBacked(l)'
<1>1. LoopBacked(l)
  BY DEF IInv
<1>2. loops[l].todo \subseteq Row
  BY DEF IInv, TypeOK
<1>3. \A i \in loops'[l].todo : queue'[i].status # "free"
  BY <1>1, <1>2 DEF Eases, Grows, LoopBacked
<1>4. CASE loops'[l].phase \in {"idle", "next"}
  BY <1>3, <1>4 DEF LoopBacked
<1>5. CASE loops'[l].phase = loops[l].phase /\ loops'[l].row = loops[l].row
  <2>1. ASSUME loops[l].phase \in {"sent", "recorded"}
        PROVE  /\ loops[l].row \in Row
               /\ queue'[loops[l].row].status # "free"
               /\ queue'[loops[l].row].cart = queue[loops[l].row].cart
               /\ queue[loops[l].row].cart \in Cart
    BY <1>1, <2>1 DEF LoopBacked, Grows, IInv, RowsFilled
  <2>2. ASSUME loops[l].phase = "recorded"
        PROVE  recorded'[queue'[loops[l].row].cart] > 0
    BY <1>1, <2>1, <2>2 DEF LoopBacked, Grows
  <2> QED
    BY <1>3, <1>5, <2>1, <2>2 DEF LoopBacked
<1> QED
  BY <1>4, <1>5 DEF Eases

LEMMA SameGrows ==
    ASSUME IInv, UNCHANGED <<queue, recorded>>
    PROVE  Grows /\ RowsFilled'
  BY DEF Grows, IInv, RowsFilled

LoopsType == [Loop -> [phase : LoopPhases, mine : BOOLEAN, todo : SUBSET Row,
                       row : Row \cup {0}]]

LEMMA SameLoopsBacked ==
    ASSUME IInv, Grows, UNCHANGED loops
    PROVE  \A l \in Loop : LoopBacked(l)'
  BY EasedIsBacked DEF Eases

(* The page is left: its calls run on. *)
LEMMA LeftLoopsBacked ==
    ASSUME IInv, Grows, loops' = [l \in Loop |-> [loops[l] EXCEPT !.mine = FALSE]]
    PROVE  loops' \in LoopsType /\ \A l \in Loop : LoopBacked(l)'
<1>1. \A l \in Loop : loops[l] \in [phase : LoopPhases, mine : BOOLEAN, todo : SUBSET Row,
                                    row : Row \cup {0}]
  BY DEF IInv, TypeOK
<1>2. \A l \in Loop : Eases(l)
  BY <1>1 DEF Eases
<1>3. loops' \in LoopsType
  BY <1>1 DEF LoopsType
<1> QED
  BY <1>2, <1>3, EasedIsBacked

(* Initially, and after every step, the invariant holds; the steps also grow. *)
Kept == TypeOK' /\ TillFilled' /\ RowsFilled' /\ Grows /\ \A l \in Loop : LoopBacked(l)'

LEMMA InitBacked == Init => IInv
  BY TerminalAssumption
  DEF Init, IInv, TypeOK, RowsFilled, TillFilled, LoopBacked, NoSale, NoRow, NoLoop, Phases,
      LoopPhases

(* What the history lists are carts. *)
LEMMA MarkedAreCarts ==
    ASSUME IInv
    PROVE  /\ Undecided \subseteq Cart
           /\ \A rows \in {Posting, Answered} : {queue[i].cart : i \in rows} \subseteq Cart
<1>1. \A l \in Loop : LoopBacked(l) /\ loops[l].todo \subseteq Row
  BY DEF IInv, TypeOK
<1>2. ASSUME NEW i \in Posting \cup Answered PROVE queue[i].cart \in Cart
  <2>1. i \in Row /\ queue[i].status # "free"
    BY <1>1 DEF Posting, Held, Answered, LoopBacked
  <2> QED
    BY <2>1 DEF IInv, RowsFilled
<1> QED
  BY <1>2 DEF Undecided

LEMMA ScanKeeps ==
    ASSUME IInv, NEW c \in Cart, Scan(c)
    PROVE  Kept
<1>1. UNCHANGED <<queue, recorded, loops>>
  BY DEF Scan
<1>2. TypeOK'
  BY DEF history, IInv, TypeOK, Scan, Phases
<1>3. TillFilled'
  BY DEF TillFilled, Scan
<1> QED
  BY <1>1, <1>2, <1>3, SameGrows, SameLoopsBacked DEF Kept

(* Steps that touch neither the queue nor the calls of syncQueue. *)
LEMMA QuietKeeps ==
    ASSUME IInv,
           \/ TillPost \/ Receipt \/ TillFailed \/ RingAgain \/ Reset
           \/ Poll \/ GoOffline \/ Expire \/ SignIn \/ Enter
    PROVE  Kept
<1>1. UNCHANGED <<queue, recorded, loops>>
  BY DEF TillPost, Receipt, TillFailed, RingAgain, Reset, Poll, GoOffline, Expire, SignIn, Enter
<1>2. TypeOK'
  <2>1. CASE TillPost
    BY <2>1, LengthIsNat DEF history, IInv, TypeOK, TillFilled, TillPost, Shows, TillGoes, RefreshStats, Phases, NoSale
  <2>2. CASE Receipt
    BY <2>2, LengthIsNat DEF history, IInv, TypeOK, TillFilled, Receipt, Shows, TillGoes, RefreshStats, Phases, NoSale
  <2>3. CASE TillFailed
    BY <2>3, MarkedAreCarts DEF IInv, TypeOK, TillFailed, Shows, TillGoes, Phases
  <2>4. CASE RingAgain
    BY <2>4, LengthIsNat DEF IInv, TypeOK, TillFilled, RingAgain, Shows, TillGoes, RefreshStats, Phases, NoSale
  <2>5. CASE Reset
    BY <2>5, LengthIsNat DEF history, IInv, TypeOK, TillFilled, Reset, Shows, RefreshStats, Phases, NoSale
  <2>6. CASE Poll
    BY <2>6, LengthIsNat DEF history, IInv, TypeOK, TillFilled, Poll, RefreshStats, Phases, NoSale
  <2>7. CASE GoOffline
    BY <2>7, LengthIsNat DEF history, IInv, TypeOK, TillFilled, GoOffline, RefreshStats, Phases, NoSale
  <2>8. CASE Expire
    BY <2>8, LengthIsNat DEF IInv, TypeOK, TillFilled, Expire, pageVars, history, RefreshStats, Phases, NoSale
  <2>9. CASE SignIn
    BY <2>9, LengthIsNat DEF IInv, TypeOK, TillFilled, SignIn, pageVars, history, RefreshStats, Phases, NoSale
  <2>10. CASE Enter
    BY <2>10, LengthIsNat DEF history, IInv, TypeOK, TillFilled, Enter, RefreshStats, Phases, NoSale
  <2> QED
    BY <2>1, <2>2, <2>3, <2>4, <2>5, <2>6, <2>7, <2>8, <2>9, <2>10
<1>3. TillFilled'
  BY DEF IInv, TillFilled, TillPost, Receipt, TillFailed, RingAgain, Reset, Poll, GoOffline, Expire,
         SignIn, Enter, Shows, TillGoes, NoSale, TypeOK, pageVars
<1> QED
  BY <1>1, <1>2, <1>3, SameGrows, SameLoopsBacked DEF Kept

LEMMA StoreKeeps ==
    ASSUME IInv, Store
    PROVE  Kept
<1>1. till.cart \in Cart
  BY DEF IInv, TillFilled, Store, Shows
<1>2. /\ queue' \in QueueType
      /\ RowsFilled'
      /\ \A i \in Row : queue[i].status # "free" => queue'[i] = queue[i]
  <2>1. queue \in QueueType /\ RowsFilled
    BY DEF IInv, TypeOK, QueueType
  <2>2. CASE Insert(till.cart)
    BY <1>1, <2>1, <2>2, InsertFills
  <2>3. CASE UNCHANGED queue
    BY <2>1, <2>3 DEF RowsFilled
  <2> QED
    BY <2>2, <2>3 DEF Store
<1>3. Grows
  BY <1>2 DEF Grows, Store
<1>4. TypeOK'
  BY <1>1, <1>2, LengthIsNat DEF IInv, TypeOK, QueueType, Store, Shows, TillGoes, RefreshStats, Phases
<1>5. TillFilled'
  BY DEF IInv, TypeOK, TillFilled, Store, Shows, TillGoes
<1> QED
  BY <1>2, <1>3, <1>4, <1>5, SameLoopsBacked DEF Kept, Store

LEMMA TillRecordedKeeps ==
    ASSUME IInv, TillRecorded
    PROVE  Kept
<1>1. till.cart \in Cart
  BY DEF IInv, TillFilled, TillRecorded, Shows
<1>2. recorded' \in [Cart -> 0..Many] /\ \A d \in Cart : recorded[d] > 0 => recorded'[d] > 0
  BY <1>1, RecordCounts DEF IInv, TypeOK, TillRecorded
<1>3. Grows /\ RowsFilled'
  BY <1>2 DEF Grows, IInv, RowsFilled, TillRecorded
<1>4. TypeOK'
  BY <1>2 DEF history, IInv, TypeOK, TillRecorded, Shows, TillGoes, Phases
<1>5. TillFilled'
  BY DEF IInv, TypeOK, TillFilled, TillRecorded, Shows, TillGoes
<1> QED
  BY <1>3, <1>4, <1>5, SameLoopsBacked DEF Kept, TillRecorded

(* A page that is left. *)
LEMMA LeavingKeeps ==
    ASSUME IInv, Leave \/ TillExpired
    PROVE  Kept
<1>1. /\ UNCHANGED <<queue, recorded, online, signedIn, given>>
      /\ LeavePage(Posting)
      /\ unkept' = unkept
      /\ loops' = [l \in Loop |-> [loops[l] EXCEPT !.mine = FALSE]]
  BY DEF Leave, TillExpired
<1>2. Grows /\ RowsFilled'
  BY <1>1, SameGrows
<1>3. loops' \in LoopsType /\ \A l \in Loop : LoopBacked(l)'
  BY <1>1, <1>2, LeftLoopsBacked
<1>4. TypeOK'
  BY <1>1, <1>3, MarkedAreCarts DEF IInv, TypeOK, LoopsType, LeavePage, NoSale, Phases
<1>5. TillFilled'
  BY <1>1 DEF TillFilled, LeavePage, NoSale
<1> QED
  BY <1>2, <1>3, <1>4, <1>5 DEF Kept

LEMMA RestartKeeps ==
    ASSUME IInv, Restart
    PROVE  Kept
<1>1. Grows /\ RowsFilled'
  BY SameGrows DEF Restart
<1>2. loops' \in LoopsType /\ \A l \in Loop : LoopBacked(l)'
  BY DEF Restart, NoLoop, LoopsType, LoopPhases, LoopBacked
<1>3. TypeOK'
  BY <1>2, MarkedAreCarts DEF IInv, TypeOK, LoopsType, Restart, LeavePage, NoSale, Phases
<1>4. TillFilled'
  BY DEF TillFilled, Restart, LeavePage, NoSale
<1> QED
  BY <1>1, <1>2, <1>3, <1>4 DEF Kept

(* Steps that may begin a call of syncQueue. *)
LEMMA BeginningKeeps ==
    ASSUME IInv, Effect \/ GoOnline
    PROVE  Kept
<1>1. UNCHANGED <<queue, recorded, till, given, signedIn, open, doubtful, unkept>> /\ length' = length
  BY DEF Effect, GoOnline, history
<1>2. Grows /\ RowsFilled'
  BY <1>1, SameGrows
<1>3. loops' \in LoopsType /\ \A l \in Loop : LoopBacked(l)'
  <2>1. CASE SyncQueue
    BY <1>1, <2>1, SyncQueueBacked DEF IInv, TypeOK, LoopsType
  <2>2. CASE UNCHANGED loops
    BY <1>2, <2>2, SameLoopsBacked DEF IInv, TypeOK, LoopsType
  <2> QED
    BY <2>1, <2>2 DEF Effect, GoOnline
<1>4. online' \in BOOLEAN /\ due' \in BOOLEAN
  BY DEF IInv, TypeOK, Effect, GoOnline
<1>5. TypeOK'
  BY <1>1, <1>3, <1>4 DEF IInv, TypeOK, LoopsType
<1>6. TillFilled'
  BY <1>1 DEF IInv, TillFilled
<1> QED
  BY <1>2, <1>3, <1>5, <1>6 DEF Kept

(* The other calls of syncQueue, while one takes a step. *)
LEMMA OtherLoopsBacked ==
    ASSUME IInv, Grows, NEW l \in Loop, LoopBacked(l)',
           \A k \in Loop : k # l => loops'[k] = loops[k]
    PROVE  \A k \in Loop : LoopBacked(k)'
<1>1. ASSUME NEW k \in Loop, k # l PROVE LoopBacked(k)'
  BY <1>1, EasedIsBacked DEF Eases
<1> QED
  BY <1>1

LEMMA LoopPostKeeps ==
    ASSUME IInv, NEW l \in Loop, NEW i \in Row, LoopPost(l, i)
    PROVE  Kept
<1>1. Grows /\ RowsFilled'
  BY SameGrows DEF LoopPost
<1>2. /\ loops' \in LoopsType
      /\ \A k \in Loop : k # l => loops'[k] = loops[k]
      /\ loops'[l].phase = "sent" /\ loops'[l].row = i /\ loops'[l].todo \subseteq loops[l].todo
  BY DEF IInv, TypeOK, LoopPost, LoopsType, LoopPhases
<1>3. LoopBacked(l) /\ queue' = queue /\ i \in loops[l].todo
  BY DEF IInv, LoopPost
<1>4. LoopBacked(l)'
  BY <1>2, <1>3 DEF LoopBacked
<1>5. TypeOK' /\ TillFilled'
  BY <1>2 DEF IInv, TypeOK, TillFilled, LoopsType, LoopPost, pageVars
<1> QED
  BY <1>1, <1>2, <1>4, <1>5, OtherLoopsBacked DEF Kept

LEMMA LoopRecordedKeeps ==
    ASSUME IInv, NEW l \in Loop, LoopRecorded(l)
    PROVE  Kept
<1> DEFINE c == queue[loops[l].row].cart
<1>1. LoopBacked(l) /\ loops[l].phase = "sent"
  BY DEF IInv, LoopRecorded, InLoop
<1>2. loops[l].row \in Row /\ c \in Cart
  BY <1>1 DEF LoopBacked, IInv, RowsFilled
<1>3. /\ recorded' \in [Cart -> 0..Many] /\ recorded'[c] > 0
      /\ \A d \in Cart : recorded[d] > 0 => recorded'[d] > 0
  BY <1>2, RecordCounts DEF IInv, TypeOK, LoopRecorded
<1>4. Grows /\ RowsFilled'
  BY <1>3 DEF Grows, IInv, RowsFilled, LoopRecorded
<1>5. /\ loops' \in LoopsType
      /\ \A k \in Loop : k # l => loops'[k] = loops[k]
      /\ loops'[l].phase = "recorded" /\ loops'[l].row = loops[l].row
      /\ loops'[l].todo = loops[l].todo
  BY DEF IInv, TypeOK, LoopRecorded, Goes, LoopsType, LoopPhases
<1>6. LoopBacked(l)'
  BY <1>1, <1>2, <1>3, <1>5 DEF LoopBacked, LoopRecorded
<1>7. TypeOK' /\ TillFilled'
  BY <1>3, <1>5 DEF history, IInv, TypeOK, TillFilled, LoopsType, LoopRecorded, pageVars
<1> QED
  BY <1>4, <1>5, <1>6, <1>7, OtherLoopsBacked DEF Kept

LEMMA LoopClearKeeps ==
    ASSUME IInv, NEW l \in Loop, LoopClear(l)
    PROVE  Kept
<1>1. LoopBacked(l) /\ loops[l].phase \in {"sent", "recorded"}
  BY DEF IInv, LoopClear, InLoop
<1>2. loops[l].row \in Row /\ queue[loops[l].row].status # "free"
  BY <1>1 DEF LoopBacked
<1>3. queue \in QueueType /\ RowsFilled /\ Clear(loops[l].row)
  BY DEF IInv, TypeOK, QueueType, LoopClear
<1>4. /\ queue' \in QueueType
      /\ RowsFilled'
      /\ \A j \in Row : /\ queue'[j].cart = queue[j].cart
                        /\ queue[j].status # "free" => queue'[j].status # "free"
  BY <1>2, <1>3, ClearKeeps
<1>5. Grows
  BY <1>4 DEF Grows, LoopClear
<1>6. /\ loops' \in LoopsType
      /\ \A k \in Loop : k # l => loops'[k] = loops[k]
      /\ Eases(l)
  BY DEF IInv, TypeOK, LoopClear, Goes, LoopsType, LoopPhases, Eases
<1>7. TypeOK' /\ TillFilled'
  BY <1>4, <1>6 DEF history, IInv, TypeOK, TillFilled, QueueType, LoopsType, LoopClear, pageVars
<1> QED
  BY <1>4, <1>5, <1>6, <1>7, EasedIsBacked, OtherLoopsBacked DEF Kept

LEMMA LoopFailedKeeps ==
    ASSUME IInv, NEW l \in Loop, LoopFailed(l)
    PROVE  Kept
<1>1. LoopBacked(l) /\ loops[l].phase \in {"sent", "recorded"}
  BY DEF IInv, LoopFailed, NoAnswer, InLoop
<1>2. loops[l].row \in Row /\ queue[loops[l].row].status # "free"
  BY <1>1 DEF LoopBacked
<1>3. queue \in QueueType /\ RowsFilled /\ MarkFailed(loops[l].row)
  BY DEF IInv, TypeOK, QueueType, LoopFailed
<1>4. /\ queue' \in QueueType
      /\ RowsFilled'
      /\ \A j \in Row : /\ queue'[j].cart = queue[j].cart
                        /\ queue[j].status # "free" => queue'[j].status # "free"
  BY <1>2, <1>3, MarkFailedKeeps
<1>5. Grows
  BY <1>4 DEF Grows, LoopFailed
<1>6. /\ loops' \in LoopsType
      /\ \A k \in Loop : k # l => loops'[k] = loops[k]
      /\ Eases(l)
  BY DEF IInv, TypeOK, LoopFailed, Goes, LoopsType, LoopPhases, Eases
<1>7. queue[loops[l].row].cart \in Cart
  BY <1>2 DEF IInv, RowsFilled
<1>8. TypeOK' /\ TillFilled'
  BY <1>4, <1>6, <1>7 DEF IInv, TypeOK, TillFilled, QueueType, LoopsType, LoopFailed, pageVars
<1> QED
  BY <1>4, <1>5, <1>6, <1>8, EasedIsBacked, OtherLoopsBacked DEF Kept

LEMMA LoopExpiredKeeps ==
    ASSUME IInv, NEW l \in Loop, LoopExpired(l)
    PROVE  Kept
<1>1. LoopBacked(l) /\ loops[l].phase = "sent"
  BY DEF IInv, LoopExpired, InLoop
<1>2. loops[l].row \in Row /\ queue[loops[l].row].status # "free"
  BY <1>1 DEF LoopBacked
<1>3. queue \in QueueType /\ RowsFilled /\ Clear(loops[l].row)
  BY DEF IInv, TypeOK, QueueType, LoopExpired
<1>4. /\ queue' \in QueueType
      /\ RowsFilled'
      /\ \A j \in Row : /\ queue'[j].cart = queue[j].cart
                        /\ queue[j].status # "free" => queue'[j].status # "free"
  BY <1>2, <1>3, ClearKeeps
<1>5. Grows
  BY <1>4 DEF Grows, LoopExpired
<1>6. loops' \in LoopsType /\ \A k \in Loop : Eases(k)
  <2>1. \A k \in Loop : loops[k] \in [phase : LoopPhases, mine : BOOLEAN, todo : SUBSET Row,
                                      row : Row \cup {0}]
    BY DEF IInv, TypeOK
  <2>2. ASSUME NEW k \in Loop
        PROVE  /\ loops'[k] \in [phase : LoopPhases, mine : BOOLEAN, todo : SUBSET Row,
                                 row : Row \cup {0}]
               /\ Eases(k)
    BY <2>1 DEF LoopExpired, LoopPhases, Eases
  <2>3. loops' = [k \in Loop |-> loops'[k]]
    BY DEF LoopExpired
  <2> QED
    BY <2>2, <2>3 DEF LoopsType
<1>7. queue[loops[l].row].cart \in Cart
  BY <1>2 DEF IInv, RowsFilled
<1>8. TypeOK' /\ TillFilled'
  BY <1>4, <1>6, <1>7, MarkedAreCarts DEF IInv, TypeOK, TillFilled, QueueType, LoopsType, LoopExpired, LeavePage, NoSale,
                    Phases
<1> QED
  BY <1>4, <1>5, <1>6, <1>8, EasedIsBacked DEF Kept

LEMMA LoopEndKeeps ==
    ASSUME IInv, NEW l \in Loop, LoopEnd(l)
    PROVE  Kept
<1>1. Grows /\ RowsFilled'
  BY SameGrows DEF LoopEnd
<1>2. /\ loops' \in LoopsType
      /\ \A k \in Loop : k # l => loops'[k] = loops[k]
      /\ loops'[l] = NoLoop
  BY DEF IInv, TypeOK, LoopEnd, LoopsType, LoopPhases, NoLoop
<1>3. LoopBacked(l)'
  BY <1>2 DEF LoopBacked, NoLoop
<1>4. length' \in Nat /\ due' \in BOOLEAN
  BY LengthIsNat DEF IInv, TypeOK, LoopEnd, RefreshStats
<1>5. TypeOK' /\ TillFilled'
  BY <1>2, <1>4 DEF history, IInv, TypeOK, TillFilled, LoopsType, LoopEnd
<1> QED
  BY <1>1, <1>2, <1>3, <1>5, OtherLoopsBacked DEF Kept

LEMMA NextKeeps ==
    ASSUME IInv, [Next]_vars
    PROVE  Kept
<1>1. CASE Effect \/ GoOnline
  BY <1>1, BeginningKeeps
<1>2. CASE \/ TillPost \/ Receipt \/ TillFailed \/ RingAgain \/ Reset
           \/ Poll \/ GoOffline \/ Expire \/ SignIn \/ Enter
  BY <1>2, QuietKeeps
<1>3. CASE Leave \/ TillExpired
  BY <1>3, LeavingKeeps
<1>4. CASE Restart
  BY <1>4, RestartKeeps
<1>5. CASE Store
  BY <1>5, StoreKeeps
<1>6. CASE TillRecorded
  BY <1>6, TillRecordedKeeps
<1>7. ASSUME NEW c \in Cart, Scan(c) PROVE Kept
  BY <1>7, ScanKeeps
<1>8. ASSUME NEW l \in Loop, LoopStep(l) PROVE Kept
  BY <1>8, LoopPostKeeps, LoopRecordedKeeps, LoopClearKeeps, LoopFailedKeeps, LoopExpiredKeeps,
     LoopEndKeeps DEF LoopStep
<1>9. CASE UNCHANGED vars
  <2>1. TypeOK' /\ TillFilled'
    BY <1>9 DEF history, IInv, TypeOK, TillFilled, vars, pageVars
  <2> QED
    BY <1>9, <2>1, SameGrows, SameLoopsBacked DEF Kept, vars
<1> QED
  BY <1>1, <1>2, <1>3, <1>4, <1>5, <1>6, <1>7, <1>8, <1>9 DEF Next, TillStep, Surroundings

(* Types, and what the rows, the screen and the calls stand for, hold always. *)
THEOREM Backed == Spec => []IInv
<1>1. IInv /\ [Next]_vars => IInv'
  BY NextKeeps DEF Kept, IInv
<1> QED
  BY InitBacked, <1>1, PTL DEF Spec

THEOREM TypesCorrect == Spec => []TypeOK
<1>1. IInv => TypeOK
  BY DEF IInv
<1> QED
  BY <1>1, Backed, PTL

-----------------------------------------------------------------------------
(* What the queue holds stays there until it is in the cloud.                *)
LEMMA UnsyncedStays ==
    ASSUME IInv, [Next]_vars, NEW i \in Row, i \in Unsynced(queue)
    PROVE  \/ i \in Unsynced(queue') \/ recorded[queue[i].cart] > 0
           \/ ~signedIn /\ queue[i].cart \in unkept'
<1>1. queue \in QueueType /\ RowsFilled
  BY DEF IInv, TypeOK, QueueType
<1>2. queue[i].status # "free"
  BY DEF Unsynced
<1>3. CASE UNCHANGED queue
  BY <1>3
<1>4. CASE Store
  <2>1. ASSUME Insert(till.cart) PROVE i \in Unsynced(queue')
    <3>1. till.cart \in Cart
      BY <1>4 DEF IInv, TillFilled, Store, Shows
    <3>2. queue'[i] = queue[i]
      BY <1>1, <1>2, <2>1, <3>1, InsertFills
    <3> QED
      BY <3>2 DEF Unsynced
  <2> QED
    BY <1>3, <1>4, <2>1 DEF Store
<1>5. ASSUME NEW l \in Loop, LoopClear(l)
      PROVE  i \in Unsynced(queue') \/ recorded[queue[i].cart] > 0
  <2>1. LoopBacked(l) /\ loops[l].phase = "recorded"
    BY <1>5 DEF IInv, LoopClear, InLoop
  <2>2. /\ loops[l].row \in Row /\ queue[loops[l].row].status # "free"
        /\ recorded[queue[loops[l].row].cart] > 0
    BY <2>1 DEF LoopBacked
  <2>3. i # loops[l].row => i \in Unsynced(queue')
    BY <1>1, <1>5, <2>2, ClearKeeps DEF LoopClear
  <2> QED
    BY <2>2, <2>3
<1>6. ASSUME NEW l \in Loop, LoopFailed(l) PROVE i \in Unsynced(queue')
  <2>1. LoopBacked(l) /\ loops[l].phase \in {"sent", "recorded"}
    BY <1>6 DEF IInv, LoopFailed, NoAnswer, InLoop
  <2>2. loops[l].row \in Row /\ queue[loops[l].row].status # "free"
    BY <2>1 DEF LoopBacked
  <2> QED
    BY <1>1, <1>6, <2>2, MarkFailedKeeps DEF LoopFailed
<1>7. ASSUME NEW l \in Loop, LoopStep(l)
      PROVE  \/ i \in Unsynced(queue') \/ recorded[queue[i].cart] > 0
             \/ ~signedIn /\ queue[i].cart \in unkept'
  <2>1. ASSUME LoopExpired(l)
        PROVE  i \in Unsynced(queue') \/ (~signedIn /\ queue[i].cart \in unkept')
    <3>1. LoopBacked(l) /\ loops[l].phase = "sent"
      BY <2>1 DEF IInv, LoopExpired, InLoop
    <3>2. loops[l].row \in Row /\ queue[loops[l].row].status # "free"
      BY <3>1 DEF LoopBacked
    <3>3. i # loops[l].row => i \in Unsynced(queue')
      BY <1>1, <2>1, <3>2, ClearKeeps DEF LoopExpired
    <3> QED
      BY <2>1, <3>3 DEF LoopExpired
  <2>2. CASE (\E j \in Row : LoopPost(l, j)) \/ LoopRecorded(l) \/ LoopEnd(l)
    BY <1>3, <2>2 DEF LoopPost, LoopRecorded, LoopEnd
  <2> QED
    BY <1>5, <1>6, <1>7, <2>1, <2>2 DEF LoopStep
<1>8. CASE TillStep
  BY <1>3, <1>4, <1>8
  DEF TillStep, Scan, TillPost, TillRecorded, Receipt, TillFailed, TillExpired, RingAgain, Reset
<1>9. CASE Surroundings \/ Effect \/ Poll
  BY <1>3, <1>9
  DEF Surroundings, Effect, Poll, GoOnline, GoOffline, Expire, Leave, Restart, SignIn, Enter
<1>10. CASE UNCHANGED vars
  BY <1>3, <1>10 DEF vars
<1> QED
  BY <1>7, <1>8, <1>9, <1>10 DEF Next

LEMMA SafeIsKept ==
    ASSUME IInv, [Next]_vars, NEW c \in Cart, Safe(c)
    PROVE  Safe(c)' \/ (~signedIn /\ c \in unkept')
<1>1. Grows
  BY NextKeeps DEF Kept
<1>2. CASE recorded[c] > 0
  BY <1>1, <1>2 DEF Grows, Safe
<1>3. ASSUME NEW i \in Unsynced(queue), queue[i].cart = c
      PROVE  Safe(c)' \/ (~signedIn /\ c \in unkept')
  <2>1. i \in Row /\ queue[i].status # "free"
    BY DEF Unsynced
  <2>2. queue'[i].cart = c
    BY <1>1, <1>3, <2>1 DEF Grows
  <2>3. i \in Unsynced(queue') \/ recorded'[c] > 0 \/ (~signedIn /\ c \in unkept')
    BY <1>1, <1>3, <2>1, UnsyncedStays DEF Grows
  <2> QED
    BY <2>2, <2>3 DEF Safe
<1> QED
  BY <1>2, <1>3 DEF Safe

(* A sale that is in the queue or in the cloud stays in one of them, for any *)
(* number of overlapping calls of syncQueue, restarts, lost and refused      *)
(* answers: clearItem runs only for an item the cloud has, and markFailed    *)
(* never takes an item out.  Only the end of the session is an exception.    *)
THEOREM SafeSalesStay == Spec => StaysSafe
<1>1. IInv /\ [Next]_vars => [signedIn => \A c \in Cart : Safe(c) => Safe(c)']_vars
  BY SafeIsKept
<1> QED
  BY <1>1, Backed, PTL DEF Spec, StaysSafe

-----------------------------------------------------------------------------
(* What is on the screen as a receipt to come is safe already, and so is     *)
(* every receipt given, apart from what was not stored or taken for synced.  *)
ReceiptsSafe ==
    /\ till.phase \in {"stored", "recorded"} /\ till.cart \notin unkept => Safe(till.cart)
    /\ NothingLost

LEMMA ReceiptsStaySafe ==
    ASSUME IInv, ReceiptsSafe, [Next]_vars
    PROVE  ReceiptsSafe'
<1>1. \A c \in Cart : Safe(c) => Safe(c)' \/ c \in unkept'
  BY SafeIsKept
<1>2. unkept \subseteq unkept'
  BY DEF Next, TillStep, LoopStep, Surroundings, Effect, Poll, LoopPost, LoopRecorded,
         LoopClear, LoopFailed, LoopExpired, LoopEnd, Scan, Store, TillPost, TillRecorded, Receipt,
         TillFailed, TillExpired, RingAgain, Reset, GoOnline, GoOffline, Expire, Leave, Restart,
         SignIn, Enter, vars, history
<1>3. given \subseteq Cart /\ (till.phase # "empty" => till.cart \in Cart)
  BY DEF IInv, TypeOK, TillFilled
<1>4. CASE Store
  <2>1. till.cart \in Cart /\ till'.cart = till.cart /\ given' = given
    BY <1>3, <1>4 DEF Store, Shows, TillGoes, IInv, TypeOK
  <2>2. Safe(till.cart)' \/ till.cart \in unkept'
    BY <1>4, <2>1, InsertFills DEF IInv, TypeOK, QueueType, Safe, Store
  <2> QED
    BY <1>1, <1>2, <1>3, <2>1, <2>2 DEF ReceiptsSafe, NothingLost
<1>5. CASE TillRecorded
  <2>1. till.cart \in Cart /\ till'.cart = till.cart /\ given' = given
    BY <1>3, <1>5 DEF TillRecorded, Shows, TillGoes, IInv, TypeOK
  <2>2. Safe(till.cart)'
    BY <1>5, <2>1, RecordCounts DEF IInv, TypeOK, TillRecorded, Safe
  <2> QED
    BY <1>1, <1>2, <1>3, <2>1, <2>2 DEF ReceiptsSafe, NothingLost
<1>6. CASE Receipt
  <2>1. /\ till.cart \in Cart /\ (till.cart \notin unkept => Safe(till.cart))
        /\ given' = given \cup {till.cart} /\ till'.phase = "receipt"
    BY <1>3, <1>6 DEF ReceiptsSafe, Receipt, Shows, TillGoes, IInv, TypeOK
  <2> QED
    BY <1>1, <1>2, <1>3, <2>1 DEF ReceiptsSafe, NothingLost
<1>7. CASE given' = given /\ (till' = till \/ till'.phase \notin {"stored", "recorded"})
  BY <1>1, <1>2, <1>3, <1>7 DEF ReceiptsSafe, NothingLost
<1>8. Store \/ TillRecorded \/ Receipt
      \/ (given' = given /\ (till' = till \/ till'.phase \notin {"stored", "recorded"}))
  <2>1. till \in [cart : Cart \cup {NoCart}, phase : Phases]
    BY DEF IInv, TypeOK
  <2>2. CASE TillStep
    BY <2>1, <2>2 DEF TillStep, Scan, TillPost, TillFailed, TillExpired, RingAgain, Reset, Shows,
                      TillGoes, LeavePage, NoSale
  <2>3. ASSUME NEW l \in Loop, LoopStep(l)
        PROVE  given' = given /\ (till' = till \/ till'.phase \notin {"stored", "recorded"})
    <3>1. CASE LoopExpired(l)
      BY <3>1 DEF LoopExpired, LeavePage, NoSale
    <3>2. CASE LoopEnd(l)
      BY <3>2 DEF LoopEnd
    <3>3. CASE ~LoopExpired(l) /\ ~LoopEnd(l)
      BY <2>3, <3>3 DEF LoopStep, LoopPost, LoopRecorded, LoopClear, LoopFailed, pageVars
    <3> QED
      BY <3>1, <3>2, <3>3
  <2>4. CASE Surroundings \/ Effect \/ Poll
    BY <2>4 DEF Surroundings, Effect, Poll, GoOnline, GoOffline, Expire, Leave, Restart, SignIn, Enter,
                LeavePage, NoSale, pageVars
  <2>5. CASE UNCHANGED vars
    BY <2>5 DEF vars, pageVars
  <2> QED
    BY <2>2, <2>3, <2>4, <2>5 DEF Next
<1> QED
  BY <1>4, <1>5, <1>6, <1>7, <1>8

(* "Sales are NEVER lost", but for two ways the history names: the receipt   *)
(* every other customer leaves with is backed by a transaction or by an item *)
(* of the queue, for any purchases, rows, calls of syncQueue and faults.     *)
THEOREM NothingIsLost == Spec => []NothingLost
<1>1. Init => ReceiptsSafe
  BY DEF Init, ReceiptsSafe, NothingLost, NoSale
<1>2. IInv /\ ReceiptsSafe /\ [Next]_vars => ReceiptsSafe'
  BY ReceiptsStaySafe
<1>3. ReceiptsSafe => NothingLost
  BY DEF ReceiptsSafe
<1> QED
  BY <1>1, <1>2, <1>3, Backed, PTL DEF Spec

-----------------------------------------------------------------------------
(* A purchase that met no mishap of its own is sold once.  The invariant is  *)
(* about such purchases only; all that is asked of the others is that they   *)
(* stay on the list, however many calls of pages long left post their rows.  *)
Sure(c) == c \notin doubtful

(* syncingRef: one call at most belongs to the page that is open. *)
OneCall ==
    /\ \A l \in Loop : loops[l].mine => loops[l].phase # "idle"
    /\ \A l, k \in Loop : loops[l].mine /\ loops[k].mine => k = l

(* A purchase that the queue or the cloud was given. *)
Taken(c) == c \in given \/ (till.cart = c /\ till.phase \in {"stored", "recorded"})

(* What is on its way to be paid has no receipt; a receipt shown is given. *)
Rung ==
    /\ till.phase \in {"ready", "sent"} /\ Sure(till.cart) => till.cart \notin given
    /\ till.phase = "receipt" => till.cart \in given

(* The cloud has a purchase once, and only one that was taken. *)
TakenOnce ==
    \A c \in Cart : Sure(c) => recorded[c] <= 1 /\ (recorded[c] > 0 => Taken(c))

(* A purchase has one row, and only when it was taken. *)
FiledOnce ==
    \A i \in Row : queue[i].status # "free" /\ Sure(queue[i].cart) =>
        /\ Taken(queue[i].cart)
        /\ \A j \in Row : queue[j].status # "free" /\ queue[j].cart = queue[i].cart => j = i

Flying(l, i) == loops[l].phase \in {"sent", "recorded"} /\ loops[l].row = i

(* Its row is in the hands of the call of the open page alone, once, and     *)
(* still to be synced.                                                       *)
Ahead ==
    \A l \in Loop :
        /\ loops[l].phase = "idle" => loops[l].todo = {}
        /\ \A i \in Row : (i \in loops[l].todo \/ Flying(l, i)) /\ Sure(queue[i].cart) =>
               /\ loops[l].mine
               /\ i \in Unsynced(queue)
               /\ ~(i \in loops[l].todo /\ Flying(l, i))

(* An item that is still to be synced is not in the cloud, unless a call has *)
(* the answer for it.                                                        *)
Unsent ==
    \A i \in Unsynced(queue) : Sure(queue[i].cart) =>
        \/ recorded[queue[i].cart] = 0
        \/ \E l \in Loop : loops[l].phase = "recorded" /\ loops[l].row = i

SureOnce == OneCall /\ Rung /\ TakenOnce /\ FiledOnce /\ Ahead /\ Unsent

SureInv == IInv /\ SureOnce

LEMMA InitSure == Init => SureOnce
  BY DEF Init, SureOnce, OneCall, Rung, TakenOnce, FiledOnce, Ahead, Flying, Unsent, Unsynced, NoSale,
         NoRow, NoLoop, Taken

(* The purchase that is rung up is neither in the queue nor in the cloud. *)
LEMMA RungIsNew ==
    ASSUME SureInv, till.phase \in {"ready", "sent"}, Sure(till.cart)
    PROVE  /\ till.cart \in Cart /\ ~Taken(till.cart) /\ recorded[till.cart] = 0
           /\ \A i \in Row : queue[i].status # "free" => queue[i].cart # till.cart
<1>1. till.cart \in Cart
  BY DEF SureInv, IInv, TillFilled
<1>2. ~Taken(till.cart)
  BY DEF SureInv, SureOnce, Rung, Taken
<1>3. recorded[till.cart] = 0
  BY <1>1, <1>2, TerminalAssumption DEF SureInv, SureOnce, TakenOnce, IInv, TypeOK
<1>4. \A i \in Row : queue[i].status # "free" => queue[i].cart # till.cart
  BY <1>2 DEF SureInv, SureOnce, FiledOnce
<1> QED
  BY <1>1, <1>2, <1>3, <1>4

(* A row that is still to be synced is in the hands of one call. *)
LEMMA OneHand ==
    ASSUME SureInv, NEW i \in Row, Sure(queue[i].cart), NEW k \in Loop, NEW l \in Loop,
           i \in loops[k].todo \/ Flying(k, i), i \in loops[l].todo \/ Flying(l, i)
    PROVE  k = l
  BY DEF SureInv, SureOnce, Ahead, OneCall

(* Steps that leave rows, calls and the cloud alone, and forget nothing that *)
(* was taken.                                                                *)
LEMMA QuietIsSure ==
    ASSUME SureInv, UNCHANGED <<queue, loops, recorded>>, doubtful \subseteq doubtful', Rung',
           \A c \in Cart : c \notin doubtful' /\ Taken(c) => Taken(c)'
    PROVE  SureOnce'
<1>1. \A i \in Row : queue[i].status # "free" => queue[i].cart \in Cart
  BY DEF SureInv, IInv, RowsFilled
<1>2. OneCall' /\ Ahead' /\ Unsent'
  BY DEF SureInv, SureOnce, OneCall, Ahead, Flying, Unsent, Unsynced, Sure
<1>3. TakenOnce'
  BY DEF SureInv, SureOnce, TakenOnce, Sure
<1>4. FiledOnce'
  BY <1>1 DEF SureInv, SureOnce, FiledOnce, Sure
<1> QED
  BY <1>2, <1>3, <1>4 DEF SureOnce

LEMMA TillIsSure ==
    ASSUME SureInv,
           \/ \E c \in Cart : Scan(c)
           \/ TillPost \/ Receipt \/ Reset \/ TillFailed \/ RingAgain
           \/ GoOffline \/ Poll \/ Expire \/ SignIn \/ Enter
    PROVE  SureOnce'
<1>1. till \in [cart : Cart \cup {NoCart}, phase : Phases]
      /\ (till.phase # "empty" => till.cart \in Cart)
  BY DEF SureInv, IInv, TypeOK, TillFilled
<1>2. UNCHANGED <<queue, loops, recorded>> /\ doubtful \subseteq doubtful'
  BY DEF Scan, TillPost, Receipt, Reset, TillFailed, RingAgain, GoOffline, Poll, Expire, SignIn, Enter,
         history
<1>3. Rung
  BY DEF SureInv, SureOnce
<1>4. ASSUME NEW c \in Cart, Scan(c) PROVE SureOnce'
  BY <1>1, <1>2, <1>4, QuietIsSure DEF Scan, Rung, Taken, Shows
<1>5. CASE TillPost
  BY <1>1, <1>2, <1>3, <1>5, QuietIsSure DEF TillPost, Rung, Taken, Shows, TillGoes, Sure, history
<1>6. CASE Receipt
  BY <1>1, <1>2, <1>3, <1>6, QuietIsSure DEF Receipt, Rung, Taken, Shows, TillGoes, Sure
<1>7. CASE Reset
  BY <1>1, <1>2, <1>3, <1>7, QuietIsSure DEF Reset, Rung, Taken, Shows, NoSale, Sure
<1>8. CASE TillFailed
  <2>1. till'.cart = till.cart /\ till'.phase = "ready" /\ given' = given
        /\ till.phase \in {"sent", "recorded"}
    BY <1>1, <1>8 DEF TillFailed, Shows, TillGoes
  <2>2. till.phase = "recorded" => till.cart \in doubtful'
    BY <1>1, <1>8 DEF TillFailed, Undecided
  <2>3. Rung'
    BY <1>1, <1>2, <1>3, <2>1, <2>2 DEF Rung, Sure, SureInv, SureOnce
  <2> QED
    BY <1>2, <2>1, <2>2, <2>3, QuietIsSure DEF Taken
<1>9. CASE RingAgain
  BY <1>1, <1>2, <1>3, <1>9, QuietIsSure DEF RingAgain, Rung, Taken, Shows, TillGoes, Sure
<1>10. CASE GoOffline \/ Poll \/ Expire \/ SignIn \/ Enter
  BY <1>1, <1>2, <1>3, <1>10, QuietIsSure
  DEF GoOffline, Poll, Expire, SignIn, Enter, pageVars, history, Rung, Taken, Sure
<1> QED
  BY <1>4, <1>5, <1>6, <1>7, <1>8, <1>9, <1>10

LEMMA StoreIsSure ==
    ASSUME SureInv, Store
    PROVE  SureOnce'
<1> DEFINE c == till.cart
<1>1. /\ till.phase = "ready" /\ till'.phase = "stored" /\ till'.cart = c
      /\ UNCHANGED <<given, loops, recorded, doubtful>>
  BY DEF Store, Shows, TillGoes, SureInv, IInv, TypeOK
<1>2. c \in Cart /\ (Sure(c) => ~Taken(c) /\ recorded[c] = 0
                     /\ \A i \in Row : queue[i].status # "free" => queue[i].cart # c)
  <2>1. c \in Cart
    BY <1>1 DEF SureInv, IInv, TillFilled
  <2> QED
    BY <1>1, <2>1, RungIsNew
<1>3. Taken(c)' /\ \A d \in Cart : Taken(d) => Taken(d)'
  BY <1>1 DEF Taken
<1>4. Rung' /\ TakenOnce' /\ OneCall'
  BY <1>1, <1>3 DEF SureInv, SureOnce, Rung, TakenOnce, OneCall, Sure
<1>5. queue \in QueueType /\ RowsFilled
  BY DEF SureInv, IInv, TypeOK, QueueType
<1>6. CASE UNCHANGED queue
  <2>1. Ahead' /\ Unsent'
    BY <1>1, <1>6 DEF SureInv, SureOnce, Ahead, Flying, Unsent, Unsynced, Sure
  <2>2. FiledOnce'
    BY <1>1, <1>3, <1>5, <1>6 DEF SureInv, SureOnce, FiledOnce, RowsFilled, Sure
  <2> QED
    BY <1>4, <2>1, <2>2 DEF SureOnce
<1>7. CASE Insert(c)
  <2>1. PICK i \in Row : /\ queue[i].status = "free"
                         /\ queue' = [queue EXCEPT ![i] = [cart |-> c, status |-> "pending", attempts |-> 0]]
    BY <1>7 DEF Insert
  <2>2. queue'[i].cart = c /\ queue'[i].status = "pending" /\ \A j \in Row : j # i => queue'[j] = queue[j]
    BY <1>5, <2>1 DEF QueueType
  <2>3. Unsynced(queue') = Unsynced(queue) \cup {i} /\ i \notin Unsynced(queue)
    BY <2>1, <2>2 DEF Unsynced
  <2>4. FiledOnce'
    <3>1. ASSUME NEW j \in Row, queue'[j].status # "free", queue'[j].cart \notin doubtful
          PROVE  /\ Taken(queue[j].cart)'
                 /\ \A k \in Row : queue'[k].status # "free" /\ queue'[k].cart = queue'[j].cart => k = j
      <4>1. CASE j = i
        BY <1>1, <1>2, <2>2, <3>1, <4>1 DEF Taken, Sure
      <4>2. CASE j # i
        <5>1. queue'[j] = queue[j] /\ queue[j].cart \in Cart /\ queue[j].cart # c
          BY <1>2, <1>5, <2>2, <3>1, <4>2 DEF RowsFilled, Sure
        <5>2. Taken(queue[j].cart)
          BY <3>1, <5>1 DEF SureInv, SureOnce, FiledOnce, Sure
        <5> QED
          BY <1>1, <2>2, <3>1, <5>1, <5>2 DEF SureInv, SureOnce, FiledOnce, Taken, Sure
      <4> QED
        BY <4>1, <4>2
    <3> QED
      BY <1>1, <3>1 DEF FiledOnce, Sure
  <2>5. Ahead'
    <3>1. \A l \in Loop : i \notin loops[l].todo /\ ~Flying(l, i)
      BY <2>1 DEF SureInv, IInv, LoopBacked, Flying
    <3> QED
      BY <1>1, <2>2, <2>3, <3>1 DEF SureInv, SureOnce, Ahead, Flying, Sure
  <2>6. Unsent'
    BY <1>1, <1>2, <2>2, <2>3 DEF SureInv, SureOnce, Unsent, Unsynced, Sure
  <2> QED
    BY <1>4, <2>4, <2>5, <2>6 DEF SureOnce
<1> QED
  BY <1>6, <1>7 DEF Store

LEMMA TillRecordedIsSure ==
    ASSUME SureInv, TillRecorded
    PROVE  SureOnce'
<1> DEFINE c == till.cart
<1>1. /\ till.phase = "sent" /\ till'.phase = "recorded" /\ till'.cart = c
      /\ UNCHANGED <<given, loops, queue, doubtful>> /\ Record(c)
  BY DEF TillRecorded, Shows, TillGoes, SureInv, IInv, TypeOK, history
<1>2. c \in Cart /\ (Sure(c) => ~Taken(c) /\ recorded[c] = 0
                     /\ \A i \in Row : queue[i].status # "free" => queue[i].cart # c)
  <2>1. c \in Cart
    BY <1>1 DEF SureInv, IInv, TillFilled
  <2> QED
    BY <1>1, <2>1, RungIsNew
<1>3. Taken(c)' /\ \A d \in Cart : Taken(d) => Taken(d)'
  BY <1>1 DEF Taken
<1>4. (Sure(c) => recorded'[c] = 1) /\ \A d \in Cart : d # c => recorded'[d] = recorded[d]
  BY <1>1, <1>2, TerminalAssumption DEF Record, Count, SureInv, IInv, TypeOK
<1>5. Rung' /\ OneCall' /\ Ahead'
  BY <1>1 DEF SureInv, SureOnce, Rung, OneCall, Ahead, Flying, Unsynced, Sure
<1>6. TakenOnce'
  BY <1>1, <1>3, <1>4 DEF SureInv, SureOnce, TakenOnce, Sure
<1>7. RowsFilled
  BY DEF SureInv, IInv
<1>8. FiledOnce'
  BY <1>1, <1>3, <1>7 DEF SureInv, SureOnce, FiledOnce, RowsFilled, Sure
<1>9. Unsent'
  <2>1. ASSUME NEW i \in Unsynced(queue), Sure(queue[i].cart)
        PROVE  recorded'[queue[i].cart] = recorded[queue[i].cart]
    BY <1>2, <1>4, <1>7, <2>1 DEF RowsFilled, Unsynced
  <2> QED
    BY <1>1, <2>1 DEF SureInv, SureOnce, Unsent, Unsynced, Sure
<1> QED
  BY <1>5, <1>6, <1>8, <1>9 DEF SureOnce

(* What a step of a call leaves of the purchases. *)
LEMMA LoopIsSure ==
    ASSUME SureInv, UNCHANGED <<till, given, recorded>>, doubtful \subseteq doubtful',
           \A i \in Row : queue'[i].cart = queue[i].cart
                          /\ (queue'[i].status = "free" <=> queue[i].status = "free"),
           OneCall', Ahead', Unsent'
    PROVE  SureOnce'
<1>1. Rung' /\ TakenOnce'
  BY DEF SureInv, SureOnce, Rung, TakenOnce, Taken, Sure
<1>2. FiledOnce'
  BY DEF SureInv, SureOnce, FiledOnce, Taken, Sure
<1> QED
  BY <1>1, <1>2 DEF SureOnce

(* The page is left, and with it the purchases it was about to settle.  The  *)
(* calls run on, but what they still hold is on the list.                    *)
LEMMA LeavingIsSure ==
    ASSUME SureInv, LeavePage(Posting), UNCHANGED <<given, recorded>>,
           \A l \in Loop : /\ ~loops'[l].mine
                           /\ loops'[l].todo = loops[l].todo
                           /\ loops'[l].phase = "idle" => loops[l].phase = "idle"
                           /\ loops'[l].phase \in {"sent", "recorded"} =>
                                  loops'[l].phase = loops[l].phase /\ loops'[l].row = loops[l].row,
           \A i \in Row : /\ queue'[i].cart = queue[i].cart
                          /\ queue'[i].status = "free" <=> queue[i].status = "free",
           Unsynced(queue') \subseteq Unsynced(queue)
    PROVE  SureOnce'
<1>1. /\ till'.phase = "empty" /\ doubtful \subseteq doubtful'
      /\ \A c \in Cart : c \notin doubtful' /\ Taken(c) => c \in given
      /\ \A l \in Loop, i \in Row : (i \in loops[l].todo \/ Flying(l, i)) => queue[i].cart \in doubtful'
  BY DEF LeavePage, NoSale, Undecided, Taken, Posting, Held, Flying
<1>2. OneCall' /\ Rung'
  BY <1>1 DEF OneCall, Rung
<1>3. TakenOnce'
  BY <1>1 DEF SureInv, SureOnce, TakenOnce, Taken, Sure
<1>4. \A i \in Row : queue[i].status # "free" => queue[i].cart \in Cart
  BY DEF SureInv, IInv, RowsFilled
<1>5. FiledOnce'
  BY <1>1, <1>4 DEF SureInv, SureOnce, FiledOnce, Taken, Sure
<1>6. Ahead'
  BY <1>1 DEF SureInv, SureOnce, Ahead, Flying, Sure
<1>7. Unsent'
  <2>1. ASSUME NEW i \in Unsynced(queue), queue[i].cart \notin doubtful'
        PROVE  recorded[queue[i].cart] = 0
    <3>1. i \in Row /\ Sure(queue[i].cart)
      BY <1>1, <2>1 DEF Unsynced, Sure
    <3> QED
      BY <1>1, <2>1, <3>1 DEF SureInv, SureOnce, Unsent, Flying
  <2> QED
    BY <2>1 DEF Unsent, Unsynced, Sure
<1> QED
  BY <1>2, <1>3, <1>5, <1>6, <1>7 DEF SureOnce

LEMMA PageLeftIsSure ==
    ASSUME SureInv, Leave \/ TillExpired
    PROVE  SureOnce'
<1>1. /\ UNCHANGED <<queue, recorded, given>> /\ LeavePage(Posting)
      /\ loops' = [l \in Loop |-> [loops[l] EXCEPT !.mine = FALSE]]
  BY DEF Leave, TillExpired
<1>2. \A l \in Loop : loops[l] \in [phase : LoopPhases, mine : BOOLEAN, todo : SUBSET Row,
                                    row : Row \cup {0}]
  BY DEF SureInv, IInv, TypeOK
<1>3. \A l \in Loop : /\ ~loops'[l].mine /\ loops'[l].todo = loops[l].todo
                      /\ loops'[l].phase = loops[l].phase /\ loops'[l].row = loops[l].row
  BY <1>1, <1>2
<1> QED
  BY <1>1, <1>3, LeavingIsSure

(* The app dies: the queue is what it was, and what had an answer is listed. *)
LEMMA RestartIsSure ==
    ASSUME SureInv, Restart
    PROVE  SureOnce'
<1>1. /\ till'.phase = "empty" /\ doubtful \subseteq doubtful'
      /\ UNCHANGED <<queue, given, recorded>>
      /\ \A c \in Cart : c \notin doubtful' /\ Taken(c) => c \in given
      /\ \A l \in Loop, i \in Row : loops[l].phase = "recorded" /\ loops[l].row = i => queue[i].cart \in doubtful'
      /\ \A l \in Loop : ~loops'[l].mine /\ loops'[l].todo = {} /\ loops'[l].phase = "idle"
  BY DEF Restart, LeavePage, NoSale, NoLoop, Undecided, Taken, Answered
<1>2. OneCall' /\ Rung' /\ Ahead'
  BY <1>1 DEF OneCall, Rung, Ahead, Flying
<1>3. TakenOnce'
  BY <1>1 DEF SureInv, SureOnce, TakenOnce, Taken, Sure
<1>4. \A i \in Row : queue[i].status # "free" => queue[i].cart \in Cart
  BY DEF SureInv, IInv, RowsFilled
<1>5. FiledOnce'
  BY <1>1, <1>4 DEF SureInv, SureOnce, FiledOnce, Taken, Sure
<1>6. Unsent'
  BY <1>1 DEF SureInv, SureOnce, Unsent, Unsynced, Sure
<1> QED
  BY <1>2, <1>3, <1>5, <1>6 DEF SureOnce

(* A call begins, or is dropped because one runs. *)
LEMMA BeginningIsSure ==
    ASSUME SureInv, Effect \/ GoOnline
    PROVE  SureOnce'
<1>1. UNCHANGED <<queue, recorded, till, given, doubtful>>
  BY DEF Effect, GoOnline, history
<1>2. CASE UNCHANGED loops
  BY <1>1, <1>2, QuietIsSure DEF SureInv, SureOnce, Rung, Taken, Sure
<1>3. ASSUME ~Running, NEW l \in Loop, loops[l].phase = "idle",
             loops' = [loops EXCEPT ![l] = [phase |-> "next", mine |-> TRUE,
                                            todo |-> Snapshot, row |-> 0]]
      PROVE  SureOnce'
  <2>1. \A k \in Loop : ~loops[k].mine
    BY <1>3 DEF Running, SureInv, SureOnce, OneCall
  <2>2. /\ loops'[l] = [phase |-> "next", mine |-> TRUE, todo |-> Snapshot, row |-> 0]
        /\ \A k \in Loop : k # l => loops'[k] = loops[k]
    BY <1>3 DEF SureInv, IInv, TypeOK
  <2>3. Snapshot \subseteq Unsynced(queue)
    BY DEF Snapshot
  <2>4. OneCall'
    BY <2>1, <2>2 DEF OneCall
  <2>5. Ahead'
    BY <1>1, <2>2, <2>3 DEF SureInv, SureOnce, Ahead, Flying, Sure
  <2>6. Unsent'
    BY <1>1, <1>3, <2>2 DEF SureInv, SureOnce, Unsent, Sure
  <2> QED
    BY <1>1, <2>4, <2>5, <2>6, LoopIsSure
<1> QED
  BY <1>2, <1>3 DEF Effect, GoOnline, SyncQueue

LEMMA LoopPostIsSure ==
    ASSUME SureInv, NEW l \in Loop, NEW i \in Row, LoopPost(l, i)
    PROVE  SureOnce'
<1>1. /\ UNCHANGED <<till, given, queue, recorded, doubtful>>
      /\ loops[l].phase = "next" /\ i \in loops[l].todo
      /\ loops'[l] = [loops[l] EXCEPT !.phase = "sent", !.row = i, !.todo = @ \ {i}]
      /\ \A k \in Loop : k # l => loops'[k] = loops[k]
  BY DEF LoopPost, InLoop, SureInv, IInv, TypeOK, pageVars, history
<1>2. /\ loops'[l].phase = "sent" /\ loops'[l].row = i /\ loops'[l].todo = loops[l].todo \ {i}
      /\ loops'[l].mine = loops[l].mine
  BY <1>1 DEF SureInv, IInv, TypeOK
<1>3. OneCall'
  BY <1>1, <1>2 DEF SureInv, SureOnce, OneCall
<1>4. Ahead'
  <2>1. ASSUME NEW k \in Loop, NEW j \in Row, j \in loops'[k].todo \/ Flying(k, j)'
        PROVE  /\ j \in loops[k].todo \/ Flying(k, j)
               /\ j \in loops'[k].todo /\ Flying(k, j)' => j \in loops[k].todo /\ Flying(k, j)
    BY <1>1, <1>2, <2>1 DEF Flying
  <2>2. \A k \in Loop : /\ loops'[k].mine = loops[k].mine
                        /\ loops'[k].phase = "idle" => loops[k].phase = "idle" /\ loops'[k].todo = loops[k].todo
    BY <1>1, <1>2
  <2> QED
    BY <1>1, <2>1, <2>2 DEF SureInv, SureOnce, Ahead, Sure
<1>5. Unsent'
  BY <1>1, <1>2 DEF SureInv, SureOnce, Unsent, Sure
<1> QED
  BY <1>1, <1>3, <1>4, <1>5, LoopIsSure

LEMMA LoopRecordedIsSure ==
    ASSUME SureInv, NEW l \in Loop, LoopRecorded(l)
    PROVE  SureOnce'
<1> DEFINE r == loops[l].row
<1> DEFINE c == queue[r].cart
<1>1. /\ UNCHANGED <<till, given, queue, doubtful>> /\ Record(c)
      /\ loops[l].phase = "sent"
      /\ loops'[l] = [loops[l] EXCEPT !.phase = "recorded"]
      /\ \A k \in Loop : k # l => loops'[k] = loops[k]
  BY DEF LoopRecorded, InLoop, Goes, SureInv, IInv, TypeOK, pageVars, history
<1>2. /\ loops'[l].phase = "recorded" /\ loops'[l].row = r
      /\ loops'[l].todo = loops[l].todo /\ loops'[l].mine = loops[l].mine
  BY <1>1 DEF SureInv, IInv, TypeOK
<1>3. r \in Row /\ queue[r].status # "free" /\ c \in Cart /\ Flying(l, r)
  BY <1>1 DEF SureInv, IInv, LoopBacked, RowsFilled, Flying
<1>4. Sure(c) => /\ r \in Unsynced(queue) /\ loops[l].mine /\ Taken(c)
                 /\ \A i \in Row : queue[i].status # "free" /\ queue[i].cart = c => i = r
  BY <1>3 DEF SureInv, SureOnce, Ahead, FiledOnce
<1>5. Sure(c) => recorded[c] = 0
  <2>1. ASSUME Sure(c), NEW k \in Loop, loops[k].phase = "recorded", loops[k].row = r PROVE FALSE
    BY <1>1, <1>3, <2>1, OneHand DEF Flying
  <2> QED
    BY <1>4, <2>1 DEF SureInv, SureOnce, Unsent
<1>6. (Sure(c) => recorded'[c] = 1) /\ \A d \in Cart : d # c => recorded'[d] = recorded[d]
  BY <1>1, <1>3, <1>5, TerminalAssumption DEF Record, Count, SureInv, IInv, TypeOK
<1>7. OneCall'
  BY <1>1, <1>2 DEF SureInv, SureOnce, OneCall
<1>8. Ahead'
  <2>1. ASSUME NEW k \in Loop, NEW j \in Row, j \in loops'[k].todo \/ Flying(k, j)'
        PROVE  /\ j \in loops[k].todo \/ Flying(k, j)
               /\ j \in loops'[k].todo /\ Flying(k, j)' => j \in loops[k].todo /\ Flying(k, j)
    BY <1>1, <1>2, <2>1 DEF Flying
  <2>2. \A k \in Loop : /\ loops'[k].mine = loops[k].mine
                        /\ loops'[k].phase = "idle" => loops[k].phase = "idle" /\ loops'[k].todo = loops[k].todo
    BY <1>1, <1>2
  <2> QED
    BY <1>1, <2>1, <2>2 DEF SureInv, SureOnce, Ahead, Sure
<1>9. Unsent'
  <2>1. ASSUME NEW i \in Unsynced(queue), Sure(queue[i].cart), i # r
        PROVE  recorded'[queue[i].cart] = recorded[queue[i].cart]
    BY <1>4, <1>6, <2>1 DEF SureInv, IInv, RowsFilled, Unsynced
  <2>2. ASSUME NEW i \in Unsynced(queue), Sure(queue[i].cart)
        PROVE  recorded'[queue[i].cart] = 0 \/ \E k \in Loop : loops'[k].phase = "recorded" /\ loops'[k].row = i
    <3>1. CASE i = r
      BY <1>2, <3>1
    <3>2. ASSUME i # r, NEW k \in Loop, loops[k].phase = "recorded", loops[k].row = i
          PROVE  loops'[k].phase = "recorded" /\ loops'[k].row = i
      BY <1>1, <3>2
    <3> QED
      BY <2>1, <2>2, <3>1, <3>2 DEF SureInv, SureOnce, Unsent
  <2> QED
    BY <1>1, <2>2 DEF Unsent, Sure
<1>10. Rung' /\ FiledOnce'
  BY <1>1 DEF SureInv, SureOnce, Rung, FiledOnce, Taken, Sure
<1>11. TakenOnce'
  BY <1>1, <1>4, <1>6 DEF SureInv, SureOnce, TakenOnce, Taken, Sure
<1> QED
  BY <1>7, <1>8, <1>9, <1>10, <1>11 DEF SureOnce

(* The item is done with: synced after the answer, failed after a refusal,   *)
(* without a route or without an answer.                                     *)
LEMMA LoopAnsweredIsSure ==
    ASSUME SureInv, NEW l \in Loop, LoopClear(l) \/ LoopFailed(l)
    PROVE  SureOnce'
<1> DEFINE i == loops[l].row
<1>1. /\ UNCHANGED <<till, given, recorded>> /\ doubtful \subseteq doubtful'
      /\ loops[l].phase \in {"sent", "recorded"}
      /\ loops'[l] = [loops[l] EXCEPT !.phase = "next"]
      /\ \A k \in Loop : k # l => loops'[k] = loops[k]
  BY DEF LoopClear, LoopFailed, NoAnswer, InLoop, Goes, SureInv, IInv, TypeOK, pageVars, history
<1>2. /\ loops'[l].phase = "next" /\ loops'[l].row = i
      /\ loops'[l].todo = loops[l].todo /\ loops'[l].mine = loops[l].mine
  BY <1>1 DEF SureInv, IInv, TypeOK
<1>3. i \in Row /\ queue[i].status # "free" /\ Flying(l, i)
  BY <1>1 DEF SureInv, IInv, LoopBacked, Flying
<1>4. queue \in QueueType
  BY DEF SureInv, IInv, TypeOK, QueueType
<1>5. /\ queue'[i].cart = queue[i].cart /\ queue'[i].status \in {"synced", "failed"}
      /\ LoopClear(l) => queue'[i].status = "synced"
      /\ \A j \in Row : j # i => queue'[j] = queue[j]
  <2>1. CASE LoopClear(l)
    BY <1>3, <1>4, <2>1 DEF LoopClear, Clear, QueueType
  <2>2. CASE LoopFailed(l) /\ ~LoopClear(l)
    <3>1. queue[i].cart \in Cart \cup {NoCart}
      BY <1>3, <1>4 DEF QueueType
    <3>2. PICK a : queue' = [queue EXCEPT ![i] = [cart |-> queue[i].cart, status |-> "failed", attempts |-> a]]
      BY <1>3, <1>4, <2>2 DEF LoopFailed, MarkFailed, QueueType
    <3>3. queue'[i] = [cart |-> queue[i].cart, status |-> "failed", attempts |-> a]
      BY <1>3, <1>4, <3>2 DEF QueueType
    <3>4. \A j \in Row : j # i => queue'[j] = queue[j]
      BY <1>3, <1>4, <3>2 DEF QueueType
    <3> QED
      BY <2>2, <3>3, <3>4
  <2> QED
    BY <2>1, <2>2
<1>6. Sure(queue[i].cart) =>
        /\ i \in Unsynced(queue) /\ i \notin loops[l].todo
        /\ \A k \in Loop : k # l => i \notin loops[k].todo /\ ~Flying(k, i)
  BY <1>3, OneHand DEF SureInv, SureOnce, Ahead
<1>7. OneCall'
  BY <1>1, <1>2 DEF SureInv, SureOnce, OneCall
<1>8. Ahead'
  <2>1. ASSUME NEW k \in Loop, NEW j \in Row, j \in loops'[k].todo \/ Flying(k, j)',
               queue'[j].cart \notin doubtful'
        PROVE  /\ loops'[k].mine /\ j \in Unsynced(queue')
               /\ ~(j \in loops'[k].todo /\ Flying(k, j)')
    <3>1. queue'[j].cart = queue[j].cart /\ Sure(queue[j].cart)
      BY <1>1, <1>5, <2>1 DEF Sure
    <3>2. j \in loops[k].todo \/ Flying(k, j)
      BY <1>1, <1>2, <2>1 DEF Flying
    <3>3. j # i
      BY <1>1, <1>2, <1>6, <2>1, <3>1 DEF Flying
    <3>4. queue'[j] = queue[j] /\ loops'[k].mine = loops[k].mine /\ loops'[k].todo = loops[k].todo
          /\ (Flying(k, j)' => Flying(k, j))
      BY <1>1, <1>2, <1>5, <3>3 DEF Flying
    <3> QED
      BY <3>1, <3>2, <3>4 DEF SureInv, SureOnce, Ahead, Unsynced
  <2>2. \A k \in Loop : loops'[k].phase = "idle" => loops'[k].todo = {}
    BY <1>1, <1>2 DEF SureInv, SureOnce, Ahead
  <2> QED
    BY <2>1, <2>2 DEF Ahead, Sure
<1>9. Unsent'
  <2>1. ASSUME NEW j \in Unsynced(queue'), queue'[j].cart \notin doubtful'
        PROVE  \/ recorded[queue[j].cart] = 0
               \/ \E k \in Loop : loops'[k].phase = "recorded" /\ loops'[k].row = j
    <3>1. j \in Row /\ queue'[j].cart = queue[j].cart /\ Sure(queue[j].cart)
      BY <1>1, <1>5, <2>1 DEF Sure, Unsynced
    <3>2. CASE j = i
      <4>1. LoopFailed(l) /\ i \in Unsynced(queue)
        BY <1>5, <1>6, <2>1, <3>1, <3>2 DEF Unsynced
      <4>2. loops[l].phase # "recorded"
        BY <2>1, <3>1, <3>2, <4>1 DEF LoopFailed, Answered
      <4>3. \A k \in Loop : loops[k].phase = "recorded" => loops[k].row # i
        BY <1>6, <3>1, <3>2, <4>2 DEF Flying
      <4> QED
        BY <3>1, <3>2, <4>1, <4>3 DEF SureInv, SureOnce, Unsent
    <3>3. CASE j # i
      <4>1. j \in Unsynced(queue)
        BY <1>5, <2>1, <3>1, <3>3 DEF Unsynced
      <4> QED
        BY <1>1, <3>1, <3>3, <4>1 DEF SureInv, SureOnce, Unsent
    <3> QED
      BY <3>2, <3>3
  <2>2. \A j \in Unsynced(queue') : queue'[j].cart = queue[j].cart
    BY <1>5 DEF Unsynced
  <2> QED
    BY <1>1, <2>1, <2>2 DEF Unsent, Sure
<1>10. \A j \in Row : queue'[j].cart = queue[j].cart /\ (queue'[j].status = "free" <=> queue[j].status = "free")
  BY <1>3, <1>5
<1> QED
  BY <1>1, <1>7, <1>8, <1>9, <1>10, LoopIsSure

(* The session has ended, and the call takes its item for synced. *)
LEMMA LoopExpiredIsSure ==
    ASSUME SureInv, NEW l \in Loop, LoopExpired(l)
    PROVE  SureOnce'
<1>1. \A k \in Loop : loops[k] \in [phase : LoopPhases, mine : BOOLEAN, todo : SUBSET Row,
                                    row : Row \cup {0}]
  BY DEF SureInv, IInv, TypeOK
<1>2. \A k \in Loop : /\ ~loops'[k].mine /\ loops'[k].todo = loops[k].todo /\ loops'[k].row = loops[k].row
                      /\ loops'[k].phase = loops[k].phase \/ (k = l /\ loops'[k].phase = "next")
  BY <1>1 DEF LoopExpired
<1>3. /\ LeavePage(Posting) /\ UNCHANGED <<given, recorded>>
      /\ loops[l].row \in Row /\ queue[loops[l].row].status # "free" /\ Clear(loops[l].row)
  BY DEF LoopExpired, InLoop, SureInv, IInv, LoopBacked
<1>4. queue \in QueueType
  BY DEF SureInv, IInv, TypeOK, QueueType
<1>5. \A i \in Row : /\ queue'[i].cart = queue[i].cart
                     /\ queue'[i].status = queue[i].status
                        \/ (i = loops[l].row /\ queue'[i].status = "synced")
  BY <1>3, <1>4 DEF Clear, QueueType
<1>6. Unsynced(queue') \subseteq Unsynced(queue)
  BY <1>5 DEF Unsynced
<1> QED
  BY <1>2, <1>3, <1>5, <1>6, LeavingIsSure

LEMMA LoopEndIsSure ==
    ASSUME SureInv, NEW l \in Loop, LoopEnd(l)
    PROVE  SureOnce'
<1>1. /\ UNCHANGED <<till, given, queue, recorded, doubtful>>
      /\ loops[l].phase = "next"
      /\ loops'[l] = NoLoop
      /\ \A k \in Loop : k # l => loops'[k] = loops[k]
  BY DEF LoopEnd, InLoop, SureInv, IInv, TypeOK, history
<1>2. loops'[l].phase = "idle" /\ loops'[l].todo = {} /\ ~loops'[l].mine
  BY <1>1 DEF NoLoop
<1>3. OneCall'
  BY <1>1, <1>2 DEF SureInv, SureOnce, OneCall
<1>4. Ahead'
  BY <1>1, <1>2 DEF SureInv, SureOnce, Ahead, Flying, Sure
<1>5. Unsent'
  BY <1>1, <1>2 DEF SureInv, SureOnce, Unsent, Sure
<1> QED
  BY <1>1, <1>3, <1>4, <1>5, LoopIsSure

LEMMA NextIsSure ==
    ASSUME SureInv, [Next]_vars
    PROVE  SureOnce'
<1>1. CASE Effect \/ GoOnline
  BY <1>1, BeginningIsSure
<1>2. CASE TillStep
  BY <1>2, TillIsSure, StoreIsSure, TillRecordedIsSure, PageLeftIsSure DEF TillStep
<1>3. CASE Poll \/ GoOffline \/ Expire \/ SignIn \/ Enter
  BY <1>3, TillIsSure
<1>4. CASE Leave \/ Restart
  BY <1>4, PageLeftIsSure, RestartIsSure
<1>5. ASSUME NEW l \in Loop, LoopStep(l) PROVE SureOnce'
  BY <1>5, LoopPostIsSure, LoopRecordedIsSure, LoopAnsweredIsSure, LoopExpiredIsSure, LoopEndIsSure
  DEF LoopStep
<1>6. CASE UNCHANGED vars
  BY <1>6, QuietIsSure DEF vars, pageVars, history, SureInv, SureOnce, Rung, Taken, Sure
<1> QED
  BY <1>1, <1>2, <1>3, <1>4, <1>5, <1>6 DEF Next, Surroundings

(* "No double-posting", whatever fails: for any purchases, rows, calls of    *)
(* syncQueue and faults, a purchase that met none of the four mishaps of its *)
(* own is one transaction in the cloud.  syncingRef keeps the open page to   *)
(* one call, a row is cleared before the next is posted, a refused or        *)
(* unroutable item was not recorded, and a purchase is either posted from    *)
(* the screen or put in the queue, once; a purchase beside it that did meet  *)
(* one, and the calls of pages long left, do not touch it.                   *)
THEOREM SoldAtMostOnce == Spec => []SoldOnce
<1>1. Init => SureInv
  BY InitBacked, InitSure DEF SureInv
<1>2. SureInv /\ [Next]_vars => SureInv'
  BY NextKeeps, NextIsSure DEF SureInv, Kept, IInv
<1>3. SureInv => SoldOnce
  BY DEF SureInv, SureOnce, TakenOnce, SoldOnce, Sure
<1> QED
  BY <1>1, <1>2, <1>3, PTL DEF Spec

-----------------------------------------------------------------------------
(* The logins of the staff, and the notices their pages are sent.            *)

(* The sessions, and the refreshes in flight: each presents a token that was *)
(* once given out.                                                           *)
Refresh == [token : Token, worker : Worker]

AccessInv ==
    /\ session \in Seq(Session)
    /\ Len(session) <= MaxSessions
    /\ \A t \in Token : session[t].family <= t
    /\ req \in [Req -> {Idle} \cup Refresh]

LEMMA TokenRange == ASSUME AccessInv PROVE Token = 1 .. Len(session) /\ Len(session) \in Nat
  BY DEF AccessInv, Token

LEMMA FamilyRange ==
    ASSUME AccessInv, NEW t \in Token
    PROVE  session[t].employee \in Employee /\ session[t].family \in 1 .. MaxSessions /\ session[t].family <= t
<1>1. session[t] \in Session /\ session[t].family <= t
  BY TokenRange DEF AccessInv
<1> QED
  BY <1>1 DEF Session

LEMMA RefreshNotIdle ==
    ASSUME AccessInv, NEW r \in Req, req[r] # Idle
    PROVE  req[r] \in Refresh /\ req[r].token \in Token /\ req[r].worker \in Worker
  BY DEF AccessInv, Refresh

LEMMA IdleIsNoRefresh == ASSUME AccessInv PROVE Idle \notin Refresh
  BY TokenRange DEF Idle, Refresh

-----------------------------------------------------------------------------
(* What a step does to the sessions: none is ever made active again or moved *)
(* to another family; one may be added.                                      *)
LEMMA StartedGrows ==
    ASSUME NEW ss \in Seq(Session), NEW e \in Employee, NEW f \in 1 .. MaxSessions,
           Len(ss) < MaxSessions, \A t \in DOMAIN ss : ss[t].family <= t, f <= Len(ss) + 1
    PROVE  LET after == Started(ss, e, f)
               n == Len(ss) + 1
           IN  /\ after \in Seq(Session)
               /\ Len(after) = n
               /\ DOMAIN after = DOMAIN ss \cup {n} /\ n \notin DOMAIN ss
               /\ after[n].family = f /\ after[n].active = TRUE
               /\ \A t \in DOMAIN ss : after[t] = ss[t]
               /\ \A t \in DOMAIN after : after[t].family <= t
<1> DEFINE new == [employee |-> e, family |-> f, active |-> TRUE]
           after == Append(ss, new)
           n == Len(ss) + 1
<1>1. new \in Session
  BY DEF Session
<1>2. after \in Seq(Session) /\ Len(after) = n /\ after[n] = new /\ \A t \in 1 .. Len(ss) : after[t] = ss[t]
  BY <1>1
<1>3. new.family = f /\ new.active = TRUE
  OBVIOUS
<1>4. Len(ss) \in Nat /\ DOMAIN ss = 1 .. Len(ss) /\ DOMAIN after = 1 .. n
  BY <1>2
<1>5. Started(ss, e, f) = after
  BY DEF Started
<1> HIDE DEF new, after
<1>6. DOMAIN after = DOMAIN ss \cup {n} /\ n \notin DOMAIN ss
  BY <1>4
<1>7. \A t \in DOMAIN after : after[t].family <= t
  BY <1>2, <1>3, <1>4, <1>6
<1> QED
  BY <1>2, <1>3, <1>4, <1>5, <1>6, <1>7

LEMMA EndedKeeps ==
    ASSUME NEW ss \in Seq(Session), NEW t \in DOMAIN ss
    PROVE  LET after == Ended(ss, t)
           IN  /\ after \in Seq(Session) /\ Len(after) = Len(ss) /\ DOMAIN after = DOMAIN ss
               /\ \A u \in DOMAIN ss : /\ after[u].family = ss[u].family
                                       /\ after[u].employee = ss[u].employee
                                       /\ (after[u].active <=> ss[u].active /\ u # t)
<1> DEFINE after == [ss EXCEPT ![t].active = FALSE]
<1>1. Ended(ss, t) = after
  BY DEF Ended
<1>2. DOMAIN ss = 1 .. Len(ss) /\ Len(ss) \in Nat /\ \A u \in DOMAIN ss : ss[u] \in Session
  OBVIOUS
<1>3. after = [u \in 1 .. Len(ss) |-> IF u = t THEN [ss[u] EXCEPT !.active = FALSE] ELSE ss[u]]
  BY <1>2
<1>4. \A u \in DOMAIN ss : /\ after[u] \in Session
                           /\ after[u].family = ss[u].family
                           /\ after[u].employee = ss[u].employee
                           /\ (after[u].active <=> ss[u].active /\ u # t)
  BY <1>2, <1>3 DEF Session
<1>5. after \in [1 .. Len(ss) -> Session]
  BY <1>2, <1>3, <1>4
<1> HIDE DEF after
<1>6. after \in Seq(Session) /\ Len(after) = Len(ss) /\ DOMAIN after = DOMAIN ss
  BY <1>2, <1>5
<1> QED
  BY <1>1, <1>4, <1>6


LEMMA RotatedGrows ==
    ASSUME AccessInv, NEW t \in Token, Len(session) < MaxSessions
    PROVE  LET after == Rotated(session, t)
               n == Len(session) + 1
           IN  /\ after \in Seq(Session) /\ Len(after) = n
               /\ DOMAIN after = Token \cup {n} /\ n \notin Token
               /\ after[n].family = session[t].family /\ after[n].active
               /\ \A u \in Token : /\ after[u].family = session[u].family
                                   /\ after[u].active <=> session[u].active /\ u # t
               /\ \A u \in DOMAIN after : after[u].family <= u
<1> DEFINE ended == Ended(session, t)
           e == session[t].employee
           f == session[t].family
<1>1. /\ ended \in Seq(Session) /\ Len(ended) = Len(session) /\ DOMAIN ended = Token
      /\ \A u \in Token : /\ ended[u].family = session[u].family
                          /\ ended[u].employee = session[u].employee
                          /\ ended[u].active <=> session[u].active /\ u # t
  BY EndedKeeps DEF AccessInv, Token
<1>2. e \in Employee /\ f \in 1 .. MaxSessions /\ f <= t /\ t \in 1 .. Len(session)
  BY TokenRange, FamilyRange
<1>3. Len(session) \in Nat
  BY TokenRange
<1>4. Rotated(session, t) = Started(ended, e, f)
  BY DEF Rotated
<1> HIDE DEF ended, e, f
<1>5. \A u \in DOMAIN ended : ended[u].family <= u
  BY <1>1 DEF AccessInv
<1>6. Len(ended) < MaxSessions /\ f <= Len(ended) + 1
  BY <1>1, <1>2, <1>3 DEF AccessInv
<1>7. LET after == Started(ended, e, f)
          n == Len(ended) + 1
      IN  /\ after \in Seq(Session)
          /\ Len(after) = n
          /\ DOMAIN after = DOMAIN ended \cup {n} /\ n \notin DOMAIN ended
          /\ after[n].family = f /\ after[n].active = TRUE
          /\ \A u \in DOMAIN ended : after[u] = ended[u]
          /\ \A u \in DOMAIN after : after[u].family <= u
  BY <1>1, <1>2, <1>5, <1>6, StartedGrows
<1> QED
  BY <1>1, <1>4, <1>7 DEF f

-----------------------------------------------------------------------------
(* Sets with at most one member. *)
Few(S) == \A a, b \in S : a = b

LEMMA FewIsOne ==
    ASSUME NEW S, IsFiniteSet(S)
    PROVE  Cardinality(S) \in Nat /\ (Cardinality(S) <= 1 <=> Few(S)) /\ (Cardinality(S) = 0 <=> S = {})
<1>1. Cardinality(S) \in Nat /\ (Cardinality(S) = 0 <=> S = {})
  BY FS_CardinalityType, FS_EmptySet
<1>2. Cardinality(S) = 1 <=> \E x : S = {x}
  BY FS_Singleton
<1>3. Cardinality(S) <= 1 => Few(S)
  BY <1>1, <1>2 DEF Few
<1>4. ASSUME Few(S), S # {} PROVE Cardinality(S) = 1
  <2>1. PICK x \in S : TRUE
    BY <1>4
  <2>2. S = {x}
    BY <1>4, <2>1 DEF Few
  <2> QED
    BY <1>2, <2>2
<1> QED
  BY <1>1, <1>3, <1>4

LEMMA FewOfTwo ==
    ASSUME NEW S, NEW T, IsFiniteSet(S), IsFiniteSet(T)
    PROVE  Cardinality(S) + Cardinality(T) <= 1 <=> Few(S) /\ Few(T) /\ (S = {} \/ T = {})
<1>1. /\ Cardinality(S) \in Nat /\ (Cardinality(S) <= 1 <=> Few(S)) /\ (Cardinality(S) = 0 <=> S = {})
      /\ Cardinality(T) \in Nat /\ (Cardinality(T) <= 1 <=> Few(T)) /\ (Cardinality(T) = 0 <=> T = {})
  BY FewIsOne
<1> QED
  BY <1>1

(* Refreshes of a family whose session is not active: each may bring one.    *)
Loose(f) == {r \in InFlight(f) : ~session[req[r].token].active}

(* At most one session that is, or may become, active.                       *)
Single(f) == Few(Live(f)) /\ Few(Loose(f)) /\ (Live(f) = {} \/ Loose(f) = {})

LEMMA TokensFinite == ASSUME NEW n \in Nat, NEW S, S \subseteq 1 .. n PROVE IsFiniteSet(S)
<1>1. IsFiniteSet(1 .. n)
  BY FS_Interval
<1> QED
  BY <1>1, FS_Subset

LEMMA RequestsFinite == ASSUME NEW S, S \subseteq Req PROVE IsFiniteSet(S)
  BY AccessAssumption, FS_Subset

LEMMA BranchesAreFew ==
    ASSUME AccessInv, NEW f
    PROVE  (Branches(f) <= 1 <=> Single(f)) /\ (Cardinality(InFlight(f)) <= 1 <=> Few(InFlight(f)))
<1>1. Live(f) \subseteq 1 .. Len(session) /\ Len(session) \in Nat
  BY TokenRange DEF Live
<1>2. IsFiniteSet(Live(f)) /\ IsFiniteSet(Loose(f)) /\ IsFiniteSet(InFlight(f))
  BY <1>1, TokensFinite, RequestsFinite DEF Loose, InFlight
<1>3. Branches(f) = Cardinality(Live(f)) + Cardinality(Loose(f))
  BY DEF Branches, Loose
<1> QED
  BY <1>2, <1>3, FewOfTwo, FewIsOne DEF Single

LEMMA BranchesWillBeFew ==
    ASSUME AccessInv', NEW f
    PROVE  Single(f)' => Branches(f)' <= 1
<1>1. Live(f)' \subseteq 1 .. Len(session') /\ Len(session') \in Nat
  BY DEF AccessInv, Live, Token
<1>2. IsFiniteSet(Live(f)') /\ IsFiniteSet(Loose(f)')
  BY <1>1, TokensFinite, RequestsFinite DEF Loose, InFlight
<1>3. Branches(f)' = Cardinality(Live(f)') + Cardinality(Loose(f)')
  BY DEF Branches, Loose
<1> QED
  BY <1>2, <1>3, FewOfTwo DEF Single


-----------------------------------------------------------------------------
(* The steps, one by one. *)
FamilyStep(f) ==
    /\ Over(f) => Over(f)'
    /\ Single(f) /\ Few(InFlight(f)) => Single(f)'

AccessStep == AccessInv' /\ \A f \in Families : FamilyStep(f)

LEMMA SameAccess ==
    ASSUME AccessInv, UNCHANGED <<session, req>>
    PROVE  AccessStep
<1>1. AccessInv'
  BY DEF AccessInv, Token, Refresh
<1>2. ASSUME NEW f PROVE Live(f)' = Live(f) /\ InFlight(f)' = InFlight(f) /\ Loose(f)' = Loose(f)
  BY DEF Live, InFlight, Loose, Token
<1> QED
  BY <1>1, <1>2 DEF AccessStep, FamilyStep, Over, Single

LEMMA LoginKeeps ==
    ASSUME AccessInv, NEW e \in Employee, Login(e)
    PROVE  AccessStep
<1> DEFINE n == Len(session) + 1
<1>1. Len(session) \in Nat /\ Len(session) < MaxSessions /\ MaxSessions \in Nat /\ Token = 1 .. Len(session)
  BY TokenRange, AccessAssumption DEF Login
<1>2. session' = Started(session, e, n) /\ req' = req
  BY DEF Login
<1>3. /\ session' \in Seq(Session) /\ Len(session') = n
      /\ Token' = Token \cup {n} /\ n \notin Token
      /\ session'[n].family = n
      /\ \A t \in Token : session'[t] = session[t]
      /\ \A t \in Token' : session'[t].family <= t
  <2>1. n \in 1 .. MaxSessions /\ n <= Len(session) + 1
    BY <1>1
  <2>2. session \in Seq(Session) /\ \A t \in DOMAIN session : session[t].family <= t
    BY DEF AccessInv, Token
  <2> HIDE DEF n
  <2>3. LET after == Started(session, e, n)
            m == Len(session) + 1
        IN  /\ after \in Seq(Session)
            /\ Len(after) = m
            /\ DOMAIN after = DOMAIN session \cup {m} /\ m \notin DOMAIN session
            /\ after[m].family = n /\ after[m].active = TRUE
            /\ \A t \in DOMAIN session : after[t] = session[t]
            /\ \A t \in DOMAIN after : after[t].family <= t
    BY <1>1, <2>1, <2>2, StartedGrows
  <2> QED
    BY <1>2, <2>3 DEF Token, n
<1>4. \A t \in Token : session[t].family \in 1 .. MaxSessions /\ session[t].family <= t
  BY FamilyRange
<1>5. req' \in [Req -> {Idle} \cup Refresh']
  BY <1>2, <1>3 DEF AccessInv, Refresh
<1>6. AccessInv'
  BY <1>1, <1>3, <1>5 DEF AccessInv
<1>7. ASSUME NEW f \in Families PROVE FamilyStep(f)
  <2>1. f # n
    BY <1>1, <1>4, <1>7 DEF Families
  <2>2. Live(f)' = Live(f)
    BY <1>3, <2>1 DEF Live
  <2>3. InFlight(f)' = InFlight(f) /\ Loose(f)' = Loose(f)
    BY <1>2, <1>3, RefreshNotIdle DEF InFlight, Loose
  <2> QED
    BY <2>2, <2>3 DEF FamilyStep, Over, Single
<1> QED
  BY <1>6, <1>7 DEF AccessStep

LEMMA RefreshReadKeeps ==
    ASSUME AccessInv, NEW r \in Req, NEW w \in Worker, NEW t \in Token, RefreshRead(r, w, t)
    PROVE  AccessStep
<1> DEFINE q == [token |-> t, worker |-> w]
<1>1. session' = session /\ req' = [req EXCEPT ![r] = q] /\ req[r] = Idle /\ session[t].active
  BY DEF RefreshRead, Honoured
<1>2. q \in Refresh /\ q # Idle /\ q.token = t
  BY IdleIsNoRefresh DEF Refresh
<1> HIDE DEF q
<1>3. Token' = Token /\ Refresh' = Refresh
  BY <1>1 DEF Token, Refresh
<1>4. req \in [Req -> {Idle} \cup Refresh]
  BY DEF AccessInv
<1>5. AccessInv'
  BY <1>1, <1>2, <1>3, <1>4 DEF AccessInv
<1>6. ASSUME NEW f \in Families PROVE FamilyStep(f)
  <2>1. Live(f)' = Live(f)
    BY <1>1, <1>3 DEF Live
  <2>2. Over(f) => InFlight(f)' = InFlight(f)
    BY <1>1, <1>2, <1>3, <1>4 DEF InFlight, Over, Live
  <2>3. Loose(f)' = Loose(f)
    BY <1>1, <1>2, <1>3, <1>4 DEF Loose, InFlight
  <2> QED
    BY <2>1, <2>2, <2>3 DEF FamilyStep, Over, Single
<1> QED
  BY <1>5, <1>6 DEF AccessStep

LEMMA RefreshCommitKeeps ==
    ASSUME AccessInv, NEW r \in Req, RefreshCommit(r)
    PROVE  AccessStep
<1> DEFINE t == req[r].token
           n == Len(session) + 1
<1>1. t \in Token /\ req[r] # Idle /\ Len(session) < MaxSessions
  BY RefreshNotIdle DEF RefreshCommit
<1>2. session' = Rotated(session, t) /\ req' = [req EXCEPT ![r] = Idle]
  BY DEF RefreshCommit
<1>3. Len(session) \in Nat /\ MaxSessions \in Nat /\ Token = 1 .. Len(session)
  BY TokenRange, AccessAssumption
<1>4. /\ session' \in Seq(Session) /\ Len(session') = n
      /\ Token' = Token \cup {n} /\ n \notin Token
      /\ session'[n].family = session[t].family /\ session'[n].active
      /\ \A u \in Token : /\ session'[u].family = session[u].family
                          /\ session'[u].active <=> session[u].active /\ u # t
      /\ \A u \in Token' : session'[u].family <= u
  BY <1>1, <1>2, RotatedGrows DEF Token
<1>5. req \in [Req -> {Idle} \cup Refresh]
  BY DEF AccessInv
<1>6. req' \in [Req -> {Idle} \cup Refresh']
  BY <1>2, <1>4, <1>5 DEF Refresh
<1>7. AccessInv'
  BY <1>1, <1>3, <1>4, <1>6 DEF AccessInv
<1>8. \A p \in Req : req'[p] = (IF p = r THEN Idle ELSE req[p])
  BY <1>2, <1>5
<1>9. \A p \in Req : req[p] # Idle => req[p].token \in Token
  BY RefreshNotIdle
<1> HIDE DEF t, n
<1>10. ASSUME NEW f \in Families PROVE FamilyStep(f)
  <2>1. CASE f # session[t].family
    <3>1. Live(f)' = Live(f)
      BY <1>4, <2>1 DEF Live
    <3>2. InFlight(f)' = InFlight(f)
      BY <1>1, <1>4, <1>8, <1>9, <2>1 DEF InFlight, t
    <3>3. Loose(f)' = Loose(f)
      BY <1>4, <1>8, <1>9, <2>1, <3>2 DEF Loose, InFlight
    <3> QED
      BY <3>1, <3>2, <3>3 DEF FamilyStep, Over, Single
  <2>2. CASE f = session[t].family
    <3>1. r \in InFlight(f)
      BY <1>1, <2>2 DEF InFlight, t
    <3>2. ASSUME Single(f), Few(InFlight(f)) PROVE Single(f)'
      <4>1. Loose(f)' = {}
        BY <1>4, <1>8, <1>9, <3>1, <3>2 DEF Loose, InFlight, Few
      <4>2. session[t].active => t \in Live(f)
        BY <1>1, <2>2 DEF Live
      <4>3. ~session[t].active => r \in Loose(f)
        BY <3>1 DEF Loose, t
      <4>4. Live(f) \subseteq {t}
        BY <3>2, <4>2, <4>3 DEF Single, Few
      <4>5. Live(f)' = {n}
        BY <1>4, <2>2, <4>4 DEF Live
      <4> QED
        BY <4>1, <4>5 DEF Single, Few
    <3> QED
      BY <3>1, <3>2 DEF FamilyStep, Over
  <2> QED
    BY <2>1, <2>2
<1> QED
  BY <1>7, <1>10 DEF AccessStep


(* Refreshes that end with nothing written. *)
LEMMA LosingRequestsKeeps ==
    ASSUME AccessInv, session' = session,
           req' = [p \in Req |-> req'[p]], \A p \in Req : req'[p] \in {Idle, req[p]}
    PROVE  AccessStep
<1>1. Token' = Token /\ Refresh' = Refresh
  BY DEF Token, Refresh
<1>2. AccessInv'
  BY <1>1 DEF AccessInv
<1>3. ASSUME NEW f \in Families PROVE FamilyStep(f)
  <2>1. Live(f)' = Live(f)
    BY <1>1 DEF Live
  <2>2. InFlight(f)' \subseteq InFlight(f) /\ Loose(f)' \subseteq Loose(f)
    BY DEF InFlight, Loose
  <2> QED
    BY <2>1, <2>2 DEF FamilyStep, Over, Single, Few
<1> QED
  BY <1>2, <1>3 DEF AccessStep

(* Sessions that end.  A refresh that had read one of them may yet bring one *)
(* back, but then it was the only one of its family.                         *)
LEMMA EndingSessionsKeeps ==
    ASSUME AccessInv, req' = req, session' \in Seq(Session), Len(session') = Len(session), Token' = Token,
           \A t \in Token : /\ session'[t].family = session[t].family
                            /\ session'[t].active => session[t].active
    PROVE  AccessStep
<1>1. Refresh' = Refresh
  BY DEF Refresh
<1>2. AccessInv'
  BY <1>1 DEF AccessInv
<1>3. \A p \in Req : req[p] # Idle => req[p].token \in Token
  BY RefreshNotIdle
<1>4. ASSUME NEW f \in Families PROVE FamilyStep(f)
  <2>1. Live(f)' \subseteq Live(f)
    BY DEF Live
  <2>2. InFlight(f)' = InFlight(f)
    BY <1>3 DEF InFlight
  <2>3. ASSUME Single(f), Few(InFlight(f)) PROVE Single(f)'
    <3>1. Few(Live(f)') /\ Few(Loose(f)')
      BY <2>1, <2>2, <2>3 DEF Single, Few, Loose
    <3>2. ASSUME NEW r \in Loose(f)', r \notin Loose(f) PROVE Live(f)' = {}
      <4>1. r \in InFlight(f) /\ session[req[r].token].active /\ ~session'[req[r].token].active
        BY <2>2, <3>2 DEF Loose
      <4>2. req[r].token \in Live(f) /\ req[r].token \notin Live(f)'
        BY <1>3, <4>1 DEF Live, InFlight
      <4> QED
        BY <2>1, <2>3, <4>2 DEF Single, Few
    <3>3. Live(f)' = {} \/ Loose(f)' = {}
      BY <2>1, <2>3, <3>2 DEF Single
    <3> QED
      BY <3>1, <3>3 DEF Single
  <2> QED
    BY <2>1, <2>2, <2>3 DEF FamilyStep, Over
<1> QED
  BY <1>2, <1>4 DEF AccessStep

LEMMA LogoutKeeps ==
    ASSUME AccessInv, NEW w \in Worker, NEW t \in Token, Logout(w, t)
    PROVE  AccessStep
<1>1. session' = Ended(session, t) /\ req' = req
  BY DEF Logout
<1>2. session \in Seq(Session) /\ t \in DOMAIN session
  BY DEF AccessInv, Token
<1> QED
  BY <1>1, <1>2, EndedKeeps, EndingSessionsKeeps DEF Token

LEMMA LogoutAllKeeps ==
    ASSUME AccessInv, NEW e \in Employee, LogoutAll(e)
    PROVE  AccessStep
<1>1. req' = req /\ session' = [t \in Token |-> IF session[t].employee = e
                                                 THEN [session[t] EXCEPT !.active = FALSE] ELSE session[t]]
  BY DEF LogoutAll
<1>2. \A t \in Token : session[t] \in Session
  BY TokenRange DEF AccessInv
<1>3. \A t \in Token : /\ session'[t] \in Session
                       /\ session'[t].family = session[t].family
                       /\ session'[t].active => session[t].active
  BY <1>1, <1>2 DEF Session
<1>4. session' \in [1 .. Len(session) -> Session]
  BY <1>1, <1>3, TokenRange
<1>5. session' \in Seq(Session) /\ Len(session') = Len(session) /\ Token' = Token
  BY <1>4, TokenRange DEF Token
<1> QED
  BY <1>1, <1>3, <1>5, EndingSessionsKeeps

LEMMA LoginsKeep ==
    ASSUME AccessInv, Logins
    PROVE  AccessStep
<1>1. CASE \E e \in Employee : Login(e) \/ LogoutAll(e) \/ Deactivate(e) \/ Reactivate(e)
  BY <1>1, LoginKeeps, LogoutAllKeeps, SameAccess DEF Deactivate, Reactivate
<1>2. CASE \E r \in Req, w \in Worker, t \in Token : RefreshRead(r, w, t)
  BY <1>2, RefreshReadKeeps
<1>3. ASSUME NEW r \in Req, RefreshFails(r) PROVE AccessStep
  <2>1. session' = session /\ req' = [req EXCEPT ![r] = Idle] /\ req = [p \in Req |-> req[p]]
    BY <1>3 DEF RefreshFails, AccessInv
  <2>2. req' = [p \in Req |-> req'[p]] /\ \A p \in Req : req'[p] \in {Idle, req[p]}
    BY <2>1
  <2> QED
    BY <2>1, <2>2, LosingRequestsKeeps
<1>4. CASE \E w \in Worker, t \in Token : Logout(w, t)
  BY <1>4, LogoutKeeps
<1> QED
  BY <1>1, <1>2, <1>3, <1>4, RefreshCommitKeeps DEF Logins

LEMMA StartKeepsLogins ==
    ASSUME AccessInv, NEW w \in Worker, WorkerStarts(w)
    PROVE  AccessStep
<1>1. /\ session' = session
      /\ req' = [r \in Req |-> IF req[r] # Idle /\ req[r].worker = w THEN Idle ELSE req[r]]
  BY DEF WorkerStarts
<1>2. req' = [p \in Req |-> req'[p]] /\ \A p \in Req : req'[p] \in {Idle, req[p]}
  BY <1>1
<1> QED
  BY <1>1, <1>2, LosingRequestsKeeps

LEMMA NoticesKeepAccess ==
    ASSUME AccessInv, [NoticesNext]_allVars
    PROVE  AccessStep
<1>1. CASE UNCHANGED allVars
  BY <1>1, SameAccess DEF allVars, accessVars
<1>2. CASE SocketStep
  BY <1>2, SameAccess DEF SocketStep, Ask, Handshake, Connect, Cut, HandlerEnds, accessVars
<1>3. CASE EventStep
  BY <1>3, SameAccess DEF EventStep, Publish, SendBegin, SendWorks, SendFails, SubscriberEnds, accessVars
<1>4. CASE LoginStep
  BY <1>4, LoginsKeep DEF LoginStep
<1>5. CASE \E w \in Worker : WorkerRestarts(w)
  BY <1>5, StartKeepsLogins DEF WorkerRestarts
<1>6. CASE RedisRestarts
  BY <1>6, SameAccess DEF RedisRestarts, RedisForgets
<1> QED
  BY <1>1, <1>2, <1>3, <1>4, <1>5, <1>6 DEF NoticesNext

LEMMA InitAccess == NoticesInit => AccessInv
<1> SUFFICES ASSUME NoticesInit PROVE AccessInv
  OBVIOUS
<1>1. session = <<>> /\ req = [r \in Req |-> Idle]
  BY DEF NoticesInit, AccessInit
<1>2. session \in Seq(Session) /\ Len(session) = 0 /\ Token = {}
  BY <1>1 DEF Token
<1> QED
  BY <1>1, <1>2, AccessAssumption DEF AccessInv

LEMMA AccessHolds == NoticesSpec => []AccessInv
<1>1. AccessInv /\ [NoticesNext]_allVars => AccessInv'
  BY NoticesKeepAccess DEF AccessStep
<1> QED
  BY InitAccess, <1>1, PTL DEF NoticesSpec

(* A login that ended stays ended, whatever is lost, restarted or presented  *)
(* again afterwards (refresh_token, logout, logout_all_sessions).            *)
THEOREM EndedLoginsStayEnded == NoticesSpec => LogoutsLast
<1>1. AccessInv /\ [NoticesNext]_allVars => [\A f \in Families : Over(f) => Over(f)']_accessVars
  <2> SUFFICES ASSUME AccessInv, [NoticesNext]_allVars PROVE \A f \in Families : Over(f) => Over(f)'
    OBVIOUS
  <2> QED
    BY NoticesKeepAccess DEF AccessStep, FamilyStep
<1> QED
  BY <1>1, AccessHolds, PTL DEF NoticesSpec, LogoutsLast

(* A login keeps one session: a second one needs two refreshes that overlap  *)
(* (the rotation in refresh_token).                                          *)
THEOREM LoginsKeepOneSession == NoticesSpec => OneSessionEach
<1> DEFINE One(f) == Branches(f) <= 1 /\ Cardinality(InFlight(f)) <= 1 => Branches(f)' <= 1
<1>1. AccessInv /\ [NoticesNext]_allVars => [\A f \in Families : One(f)]_accessVars
  <2> SUFFICES ASSUME AccessInv, [NoticesNext]_allVars, NEW f \in Families,
                      Branches(f) <= 1, Cardinality(InFlight(f)) <= 1
               PROVE  Branches(f)' <= 1
    OBVIOUS
  <2>1. Single(f) /\ Few(InFlight(f))
    BY BranchesAreFew
  <2>2. AccessInv' /\ Single(f)'
    BY <2>1, NoticesKeepAccess DEF AccessStep, FamilyStep
  <2> QED
    BY <2>2, BranchesWillBeFew
<1> QED
  BY <1>1, AccessHolds, PTL DEF NoticesSpec, OneSessionEach


-----------------------------------------------------------------------------
(* The sockets and the registries.  A socket has a worker from its handshake *)
(* to its end; what a worker has registered is a socket of its own whose     *)
(* handler still runs.                                                       *)
Served == {"accepted", "open", "cut", "closing"}
Handlers == [state : Served \cup {"asked", "ended"}, employee : Employee,
             worker : Worker \cup {NoWorker}, ticket : SUBSET (Worker \cup {Redis})]

Placed == \A s \in DOMAIN sock : sock[s].worker \in Worker <=> sock[s].state \in Served

Registered ==
    \A w \in Worker : registry[w] # 0 =>
        /\ registry[w] \in DOMAIN sock
        /\ sock[registry[w]].worker = w
        /\ sock[registry[w]].state \in {"open", "cut", "closing"}

Known == \A s \in DOMAIN sock \ orphans : sock[s].state = "open" => registry[sock[s].worker] = s

SocketInv ==
    /\ sock \in Seq(Handlers) /\ Len(sock) <= MaxSockets
    /\ registry \in [Worker -> Nat]
    /\ Placed /\ Registered /\ Known

LEMMA SocketInvGivesKnown == SocketInv => OpenIsKnown
<1> SUFFICES ASSUME SocketInv PROVE OpenIsKnown
  OBVIOUS
<1>1. \A s \in DOMAIN sock \ orphans : Is(s, {"open"}) => registry[sock[s].worker] = s
  BY DEF SocketInv, Known, Is
<1>2. \A w \in Worker : registry[w] # 0 => ~Is(registry[w], {"ended"})
  BY DEF SocketInv, Registered, Is
<1> QED
  BY <1>1, <1>2 DEF OpenIsKnown

LEMMA SocketRange ==
    ASSUME SocketInv
    PROVE  /\ DOMAIN sock = 1 .. Len(sock) /\ Len(sock) \in Nat /\ 0 \notin DOMAIN sock
           /\ sock \in [DOMAIN sock -> Handlers] /\ DOMAIN sock \subseteq Socket
<1>1. sock \in Seq(Handlers) /\ Len(sock) <= MaxSockets
  BY DEF SocketInv
<1>2. DOMAIN sock = 1 .. Len(sock) /\ Len(sock) \in Nat /\ sock \in [DOMAIN sock -> Handlers]
  BY <1>1
<1> QED
  BY <1>1, <1>2, NoticesAssumption DEF Socket

LEMMA SameLength ==
    ASSUME SocketInv, NEW f \in [DOMAIN sock -> Handlers]
    PROVE  f \in Seq(Handlers) /\ Len(f) = Len(sock) /\ Len(f) <= MaxSockets /\ DOMAIN f = DOMAIN sock
  BY SocketRange DEF SocketInv

(* What a socket may turn into.                                              *)
Turns(c, d) ==
    \/ d.state = c.state /\ d.worker = c.worker
    \/ d.state = "ended" /\ d.worker = NoWorker
    \/ c.state = "asked" /\ d.state = "accepted"
    \/ /\ d.worker = c.worker
       /\ \/ c.state = "accepted" /\ d.state = "open"
          \/ c.state = "open" /\ d.state = "cut"
          \/ c.state \in {"open", "cut"} /\ d.state = "closing"

Moves ==
    /\ DOMAIN sock \subseteq DOMAIN sock'
    /\ \A s \in DOMAIN sock : Turns(sock[s], sock'[s])

LEMMA GoneFields ==
    ASSUME NEW c \in Handlers
    PROVE  Gone(c) \in Handlers /\ Gone(c).state = "ended" /\ Gone(c).worker = NoWorker
  BY DEF Gone, Handlers, Served

LEMMA ClosedFields ==
    ASSUME NEW D, NEW ss \in [D -> Handlers], 0 \notin D, NEW c \in D \cup {0}
    PROVE  /\ Closed(ss, c) \in [D -> Handlers]
           /\ \A u \in D : /\ Closed(ss, c)[u].worker = ss[u].worker
                           /\ Closed(ss, c)[u].state =
                                 IF u = c /\ ss[u].state \in {"open", "cut"} THEN "closing" ELSE ss[u].state
<1> DEFINE after == [ss EXCEPT ![c].state = "closing"]
<1>1. CASE c # 0 /\ ss[c].state \in {"open", "cut"}
  <2>1. Closed(ss, c) = after
    BY <1>1 DEF Closed
  <2>2. c \in D /\ after = [u \in D |-> IF u = c THEN [ss[u] EXCEPT !.state = "closing"] ELSE ss[u]]
    BY <1>1
  <2>3. \A u \in D : ss[u] \in Handlers
    OBVIOUS
  <2>4. ASSUME NEW u \in D
        PROVE  /\ after[u] \in Handlers /\ after[u].worker = ss[u].worker
               /\ after[u].state = IF u = c THEN "closing" ELSE ss[u].state
    BY <2>2, <2>3 DEF Handlers, Served
  <2> HIDE DEF after
  <2>5. after \in [D -> Handlers]
    BY <2>2, <2>4
  <2> QED
    BY <1>1, <2>1, <2>4, <2>5
<1>2. CASE ~(c # 0 /\ ss[c].state \in {"open", "cut"})
  BY <1>2 DEF Closed
<1> QED
  BY <1>1, <1>2

LEMMA AskKeeps ==
    ASSUME SocketInv, NEW w \in Worker, NEW e \in Employee, Ask(w, e)
    PROVE  SocketInv' /\ Moves
<1> DEFINE n == Len(sock) + 1
<1>1. PICK places \in Places(w) :
          sock' = Append(sock, [state |-> "asked", employee |-> e, worker |-> NoWorker, ticket |-> places])
  BY DEF Ask
<1> DEFINE new == [state |-> "asked", employee |-> e, worker |-> NoWorker, ticket |-> places]
<1>2. new \in Handlers /\ new.state = "asked" /\ new.worker = NoWorker
  BY DEF Places, Handlers, Served
<1>3. registry' = registry /\ orphans' = orphans /\ Len(sock) < MaxSockets /\ sock \in Seq(Handlers)
  BY DEF Ask, SocketInv
<1> HIDE DEF new
<1>4. /\ sock' \in Seq(Handlers) /\ Len(sock') = n /\ DOMAIN sock' = DOMAIN sock \cup {n}
      /\ sock'[n] = new /\ \A s \in DOMAIN sock : sock'[s] = sock[s]
  BY <1>1, <1>2, <1>3 DEF new
<1>5. Len(sock') <= MaxSockets
  BY <1>3, <1>4, SocketRange, NoticesAssumption
<1>6. Placed'
  BY <1>2, <1>4, NoticesAssumption DEF SocketInv, Placed, Served
<1>7. Registered' /\ Known'
  BY <1>2, <1>3, <1>4 DEF SocketInv, Registered, Known
<1>8. Moves
  BY <1>4 DEF Moves, Turns
<1> QED
  BY <1>3, <1>4, <1>5, <1>6, <1>7, <1>8 DEF SocketInv

(* A socket turns and is not open now; the registries stay.                  *)
LEMMA OneTurns ==
    ASSUME SocketInv, NEW s \in DOMAIN sock, sock[s].state \in {"asked", "accepted", "open"},
           NEW d \in Handlers, sock' = [sock EXCEPT ![s] = d], UNCHANGED <<registry, orphans>>,
           d.worker \in Worker <=> d.state \in Served,
           Turns(sock[s], d), d.state # "open",
           sock[s].state = "open" => d.state = "cut"
    PROVE  SocketInv' /\ Moves
<1>1. sock' \in [DOMAIN sock -> Handlers] /\ \A u \in DOMAIN sock : sock'[u] = IF u = s THEN d ELSE sock[u]
  BY SocketRange
<1>2. sock' \in Seq(Handlers) /\ Len(sock') <= MaxSockets /\ DOMAIN sock' = DOMAIN sock
  BY <1>1, SameLength
<1>3. Placed' /\ Known'
  BY <1>1, <1>2 DEF SocketInv, Placed, Known
<1>4. Registered'
  BY <1>1, <1>2 DEF SocketInv, Registered, Turns
<1>5. Moves
  BY <1>1, <1>2 DEF Moves, Turns
<1> QED
  BY <1>2, <1>3, <1>4, <1>5 DEF SocketInv

LEMMA HandshakeKeeps ==
    ASSUME SocketInv, NEW s \in Socket, NEW w \in Worker, Handshake(s, w)
    PROVE  SocketInv' /\ Moves
<1> DEFINE up == [sock[s] EXCEPT !.state = "accepted", !.worker = w, !.ticket = {}]
<1>1. s \in DOMAIN sock /\ sock[s].state = "asked" /\ sock[s] \in Handlers
  BY SocketRange DEF Handshake, Is
<1>2. up \in Handlers /\ up.state = "accepted" /\ up.worker = w
  BY <1>1 DEF Handlers, Served
<1>3. /\ sock' = [sock EXCEPT ![s] = up] \/ sock' = [sock EXCEPT ![s] = Gone(sock[s])]
      /\ UNCHANGED <<registry, orphans>>
  <2>1. PICK known \in Found(s, w) \cup {FALSE} :
          sock' = [sock EXCEPT ![s] =
             IF known /\ sock[s].employee \in active
               THEN [@ EXCEPT !.state = "accepted", !.worker = w, !.ticket = {}] ELSE Gone(@)]
    BY DEF Handshake
  <2>2. CASE known /\ sock[s].employee \in active
    BY <2>1, <2>2 DEF Handshake
  <2>3. CASE ~(known /\ sock[s].employee \in active)
    BY <2>1, <2>3 DEF Handshake
  <2> QED
    BY <2>2, <2>3
<1>4. /\ Turns(sock[s], up) /\ up.worker \in Worker /\ up.state \in Served /\ up.state # "open"
  BY <1>1, <1>2 DEF Turns, Served
<1>5. LET g == Gone(sock[s])
      IN  g \in Handlers /\ Turns(sock[s], g) /\ g.worker \notin Worker /\ g.state \notin Served /\ g.state # "open"
  BY <1>1, GoneFields, NoticesAssumption DEF Turns, Served
<1> HIDE DEF up
<1>6. CASE sock' = [sock EXCEPT ![s] = up]
  BY <1>1, <1>2, <1>3, <1>4, <1>6, OneTurns
<1>7. CASE sock' = [sock EXCEPT ![s] = Gone(sock[s])]
  BY <1>1, <1>3, <1>5, <1>7, OneTurns
<1> QED
  BY <1>3, <1>6, <1>7


LEMMA CutKeeps ==
    ASSUME SocketInv, NEW s \in Socket, Cut(s)
    PROVE  SocketInv' /\ Moves
<1> DEFINE down == [sock[s] EXCEPT !.state = "cut"]
<1>1. s \in DOMAIN sock /\ sock[s].state \in {"accepted", "open"} /\ sock[s] \in Handlers
  BY SocketRange DEF Cut, Is
<1>2. sock[s].worker \in Worker
  BY <1>1 DEF SocketInv, Placed, Served
<1>3. down \in Handlers /\ down.state = "cut" /\ down.worker = sock[s].worker
  BY <1>1 DEF Handlers, Served
<1>4. UNCHANGED <<registry, orphans>>
  BY DEF Cut
<1>5. CASE sock[s].state = "open"
  <2>1. sock' = [sock EXCEPT ![s] = down]
    BY <1>5 DEF Cut
  <2>2. Turns(sock[s], down) /\ down.worker \in Worker /\ down.state \in Served /\ down.state # "open"
    BY <1>2, <1>3, <1>5 DEF Turns, Served
  <2> HIDE DEF down
  <2> QED
    BY <1>1, <1>3, <1>4, <2>1, <2>2, OneTurns
<1>6. CASE sock[s].state = "accepted"
  <2> DEFINE g == Gone(sock[s])
  <2>1. sock' = [sock EXCEPT ![s] = g]
    BY <1>6 DEF Cut
  <2>2. g \in Handlers /\ Turns(sock[s], g) /\ g.worker \notin Worker /\ g.state \notin Served /\ g.state # "open"
    BY <1>1, GoneFields, NoticesAssumption DEF Turns, Served
  <2> HIDE DEF g
  <2> QED
    BY <1>1, <1>4, <1>6, <2>1, <2>2, OneTurns
<1> QED
  BY <1>1, <1>5, <1>6

LEMMA ConnectKeeps ==
    ASSUME SocketInv, NEW s \in Socket, Connect(s)
    PROVE  SocketInv' /\ Moves
<1> DEFINE w == sock[s].worker
           shut == Closed(sock, registry[w])
<1>1. s \in DOMAIN sock /\ sock[s].state = "accepted"
  BY DEF Connect, Is
<1>2. w \in Worker
  BY <1>1 DEF SocketInv, Placed, Served
<1>3. registry[w] \in DOMAIN sock \cup {0}
  BY <1>2 DEF SocketInv, Registered
<1>4. /\ sock' = [shut EXCEPT ![s].state = "open"]
      /\ registry' = [registry EXCEPT ![w] = s] /\ orphans' = orphans
  BY DEF Connect
<1>5. /\ shut \in [DOMAIN sock -> Handlers]
      /\ \A u \in DOMAIN sock : /\ shut[u].worker = sock[u].worker
                                /\ shut[u].state = IF u = registry[w] /\ sock[u].state \in {"open", "cut"}
                                                   THEN "closing" ELSE sock[u].state
  BY <1>3, ClosedFields, SocketRange
<1> HIDE DEF shut
<1>6. \A u \in DOMAIN sock : shut[u] \in Handlers
  BY <1>5
<1>7. /\ sock' = [u \in DOMAIN sock |-> IF u = s THEN [shut[u] EXCEPT !.state = "open"] ELSE shut[u]]
  BY <1>1, <1>4, <1>5
<1>8. \A u \in DOMAIN sock : /\ sock'[u] \in Handlers
                             /\ sock'[u].worker = sock[u].worker
                             /\ sock'[u].state = IF u = s THEN "open" ELSE shut[u].state
  BY <1>5, <1>6, <1>7 DEF Handlers, Served
<1>9. sock' \in [DOMAIN sock -> Handlers]
  BY <1>7, <1>8
<1>10. sock' \in Seq(Handlers) /\ Len(sock') <= MaxSockets /\ DOMAIN sock' = DOMAIN sock
  BY <1>9, SameLength
<1>11. Placed'
  BY <1>1, <1>5, <1>8, <1>10 DEF SocketInv, Placed, Served
<1>12. registry' \in [Worker -> Nat] /\ \A v \in Worker : registry'[v] = IF v = w THEN s ELSE registry[v]
  BY <1>1, <1>2, <1>4, SocketRange DEF SocketInv
<1>13. Registered'
  <2> SUFFICES ASSUME NEW v \in Worker, registry'[v] # 0
               PROVE  /\ registry'[v] \in DOMAIN sock /\ sock'[registry'[v]].worker = v
                      /\ sock'[registry'[v]].state \in {"open", "cut", "closing"}
    BY <1>10 DEF Registered
  <2>1. CASE v = w
    BY <1>1, <1>8, <1>12, <2>1
  <2>2. CASE v # w
    <3>1. /\ registry'[v] = registry[v] /\ registry[v] \in DOMAIN sock
          /\ sock[registry[v]].worker = v /\ sock[registry[v]].state \in {"open", "cut", "closing"}
      BY <1>12, <2>2 DEF SocketInv, Registered
    <3> QED
      BY <1>5, <1>8, <3>1
  <2> QED
    BY <2>1, <2>2
<1>14. Known'
  <2> SUFFICES ASSUME NEW u \in DOMAIN sock, u \notin orphans, sock'[u].state = "open"
               PROVE  registry'[sock'[u].worker] = u
    BY <1>4, <1>10 DEF Known
  <2>1. CASE u = s
    BY <1>2, <1>8, <1>12, <2>1
  <2>2. CASE u # s
    <3>1. sock[u].state = "open" /\ sock'[u].worker = sock[u].worker /\ u # registry[w]
      BY <1>5, <1>8, <2>2
    <3>2. registry[sock[u].worker] = u /\ sock[u].worker \in Worker
      BY <3>1 DEF SocketInv, Known, Placed, Served
    <3> QED
      BY <1>12, <3>1, <3>2
  <2> QED
    BY <2>1, <2>2
<1>15. Moves
  BY <1>1, <1>5, <1>8, <1>10 DEF Moves, Turns
<1> QED
  BY <1>10, <1>11, <1>12, <1>13, <1>14, <1>15 DEF SocketInv

LEMMA HandlerEndsKeeps ==
    ASSUME SocketInv, NEW s \in Socket, HandlerEnds(s)
    PROVE  SocketInv' /\ Moves
<1> DEFINE w == sock[s].worker
           shut == Closed(sock, registry[w])
<1>1. s \in DOMAIN sock /\ sock[s].state \in {"closing", "cut"}
  BY DEF HandlerEnds, Is
<1>2. w \in Worker
  BY <1>1 DEF SocketInv, Placed, Served
<1>3. registry[w] \in DOMAIN sock \cup {0}
  BY <1>2 DEF SocketInv, Registered
<1>4. /\ sock' = [Dropped(sock, registry[w]) EXCEPT ![s] = Gone(@)]
      /\ registry' = [registry EXCEPT ![w] = 0] /\ orphans' = orphans
  BY DEF HandlerEnds
<1>5. /\ shut \in [DOMAIN sock -> Handlers]
      /\ \A u \in DOMAIN sock : /\ shut[u].worker = sock[u].worker
                                /\ shut[u].state = IF u = registry[w] /\ sock[u].state \in {"open", "cut"}
                                                   THEN "closing" ELSE sock[u].state
  BY <1>3, ClosedFields, SocketRange
<1>6. sock' = [shut EXCEPT ![s] = Gone(@)]
  BY <1>4 DEF Dropped
<1> HIDE DEF shut
<1>7. \A u \in DOMAIN sock : /\ sock'[u] \in Handlers
                             /\ sock'[u].worker = IF u = s THEN NoWorker ELSE sock[u].worker
                             /\ sock'[u].state = IF u = s THEN "ended" ELSE shut[u].state
  BY <1>1, <1>5, <1>6, GoneFields
<1>8. sock' \in [DOMAIN sock -> Handlers]
  BY <1>5, <1>6, <1>7
<1>9. sock' \in Seq(Handlers) /\ Len(sock') <= MaxSockets /\ DOMAIN sock' = DOMAIN sock
  BY <1>8, SameLength
<1>10. Placed'
  BY <1>5, <1>7, <1>9, NoticesAssumption DEF SocketInv, Placed, Served
<1>11. registry' \in [Worker -> Nat] /\ \A v \in Worker : registry'[v] = IF v = w THEN 0 ELSE registry[v]
  BY <1>2, <1>4 DEF SocketInv
<1>12. Registered'
  <2> SUFFICES ASSUME NEW v \in Worker, v # w, registry[v] # 0
               PROVE  /\ registry[v] \in DOMAIN sock /\ sock'[registry[v]].worker = v
                      /\ sock'[registry[v]].state \in {"open", "cut", "closing"}
    BY <1>9, <1>11 DEF Registered
  <2>1. /\ registry[v] \in DOMAIN sock /\ sock[registry[v]].worker = v
        /\ sock[registry[v]].state \in {"open", "cut", "closing"}
    BY DEF SocketInv, Registered
  <2>2. registry[v] # s
    BY <2>1
  <2> QED
    BY <1>5, <1>7, <2>1, <2>2
<1>13. Known'
  <2> SUFFICES ASSUME NEW u \in DOMAIN sock, u \notin orphans, sock'[u].state = "open"
               PROVE  registry'[sock'[u].worker] = u
    BY <1>4, <1>9 DEF Known
  <2>1. sock[u].state = "open" /\ sock'[u].worker = sock[u].worker /\ u # registry[w]
    BY <1>5, <1>7
  <2>2. registry[sock[u].worker] = u /\ sock[u].worker \in Worker
    BY <2>1 DEF SocketInv, Known, Placed, Served
  <2> QED
    BY <1>11, <2>1, <2>2
<1>14. Moves
  BY <1>1, <1>5, <1>7, <1>9 DEF Moves, Turns
<1> QED
  BY <1>9, <1>10, <1>11, <1>12, <1>13, <1>14 DEF SocketInv

LEMMA SendFailsKeeps ==
    ASSUME SocketInv, NEW j \in Job, SendFails(j)
    PROVE  SocketInv' /\ Moves
<1> DEFINE w == j[2]
<1>1. w \in Worker
  BY DEF Job
<1>2. /\ sock' = sock /\ registry' = [registry EXCEPT ![w] = 0]
      /\ orphans' = orphans \cup ({registry[w]} \ {0})
  BY DEF SendFails
<1>3. registry' \in [Worker -> Nat] /\ \A v \in Worker : registry'[v] = IF v = w THEN 0 ELSE registry[v]
  BY <1>1, <1>2 DEF SocketInv
<1> HIDE DEF w
<1>4. Known'
  BY <1>2, <1>3, SocketRange DEF SocketInv, Known, Placed, Served
<1>5. Placed' /\ Registered'
  BY <1>2, <1>3 DEF SocketInv, Placed, Registered
<1>6. Moves
  BY <1>2 DEF Moves, Turns
<1> QED
  BY <1>2, <1>3, <1>4, <1>5, <1>6 DEF SocketInv

LEMMA WorkerRestartsKeeps ==
    ASSUME SocketInv, NEW w \in Worker, WorkerRestarts(w)
    PROVE  SocketInv' /\ Moves
<1>1. /\ sock' = [s \in DOMAIN sock |->
            IF sock[s].worker = w THEN Gone(sock[s]) ELSE [sock[s] EXCEPT !.ticket = @ \ {w}]]
      /\ registry' = [registry EXCEPT ![w] = 0] /\ orphans' = orphans
  BY DEF WorkerRestarts
<1>2. \A s \in DOMAIN sock : sock[s] \in Handlers
  BY SocketRange
<1>3. \A s \in DOMAIN sock : sock[s].worker # w =>
          LET d == [sock[s] EXCEPT !.ticket = @ \ {w}]
          IN  d \in Handlers /\ d.state = sock[s].state /\ d.worker = sock[s].worker
  BY <1>2 DEF Handlers
<1>4. \A s \in DOMAIN sock :
          /\ sock'[s] \in Handlers
          /\ sock'[s].state = IF sock[s].worker = w THEN "ended" ELSE sock[s].state
          /\ sock'[s].worker = IF sock[s].worker = w THEN NoWorker ELSE sock[s].worker
  BY <1>1, <1>2, <1>3, GoneFields
<1>5. sock' \in [DOMAIN sock -> Handlers]
  BY <1>1, <1>4
<1>6. sock' \in Seq(Handlers) /\ Len(sock') <= MaxSockets /\ DOMAIN sock' = DOMAIN sock
  BY <1>5, SameLength
<1>7. registry' \in [Worker -> Nat] /\ \A v \in Worker : registry'[v] = IF v = w THEN 0 ELSE registry[v]
  BY <1>1 DEF SocketInv
<1>8. Placed' /\ Registered'
  <2>1. Placed'
    BY <1>4, <1>6, NoticesAssumption DEF SocketInv, Placed, Served
  <2>2. ASSUME NEW v \in Worker, registry'[v] # 0
        PROVE  /\ registry'[v] \in DOMAIN sock'
               /\ sock'[registry'[v]].worker = v
               /\ sock'[registry'[v]].state \in {"open", "cut", "closing"}
    <3>1. v # w /\ registry'[v] = registry[v]
      BY <1>7, <2>2
    <3>2. /\ registry[v] \in DOMAIN sock /\ sock[registry[v]].worker = v
          /\ sock[registry[v]].state \in {"open", "cut", "closing"}
      BY <2>2, <3>1 DEF SocketInv, Registered
    <3> QED
      BY <1>4, <1>6, <3>1, <3>2
  <2> QED
    BY <2>1, <2>2 DEF Registered
<1>9. Known'
  <2> SUFFICES ASSUME NEW s \in DOMAIN sock, s \notin orphans, sock'[s].state = "open"
               PROVE  registry'[sock'[s].worker] = s
    BY <1>1, <1>6 DEF Known
  <2>1. sock[s].state = "open" /\ sock[s].worker # w /\ sock'[s].worker = sock[s].worker
    BY <1>4
  <2>2. registry[sock[s].worker] = s /\ sock[s].worker \in Worker
    BY <2>1 DEF SocketInv, Known, Placed, Served
  <2> QED
    BY <1>7, <2>1, <2>2
<1>10. Moves
  BY <1>4, <1>6 DEF Moves, Turns
<1> QED
  BY <1>6, <1>7, <1>8, <1>9, <1>10 DEF SocketInv

LEMMA RedisRestartsKeeps ==
    ASSUME SocketInv, RedisRestarts
    PROVE  SocketInv' /\ Moves
<1>1. /\ sock' = [s \in DOMAIN sock |-> [sock[s] EXCEPT !.ticket = @ \ {Redis}]]
      /\ registry' = registry /\ orphans' = orphans
  BY DEF RedisRestarts
<1>2. \A s \in DOMAIN sock : sock[s] \in Handlers
  BY SocketRange
<1>3. \A s \in DOMAIN sock : /\ sock'[s] \in Handlers
                             /\ sock'[s].state = sock[s].state /\ sock'[s].worker = sock[s].worker
  BY <1>1, <1>2 DEF Handlers
<1>4. sock' \in [DOMAIN sock -> Handlers]
  BY <1>1, <1>3
<1>5. sock' \in Seq(Handlers) /\ Len(sock') <= MaxSockets /\ DOMAIN sock' = DOMAIN sock
  BY <1>4, SameLength
<1>6. Placed' /\ Registered' /\ Known'
  BY <1>1, <1>3, <1>5 DEF SocketInv, Placed, Registered, Known
<1>7. Moves
  BY <1>3, <1>5 DEF Moves, Turns
<1> QED
  BY <1>1, <1>5, <1>6, <1>7 DEF SocketInv

LEMMA SameSockets ==
    ASSUME SocketInv, UNCHANGED <<sock, registry, orphans>>
    PROVE  SocketInv' /\ Moves
  BY DEF SocketInv, Placed, Registered, Known, Moves, Turns

LEMMA NoticesKeepSockets ==
    ASSUME SocketInv, [NoticesNext]_allVars
    PROVE  SocketInv' /\ Moves
<1>1. CASE UNCHANGED allVars \/ LoginStep
  BY <1>1, SameSockets DEF allVars, noticeVars, LoginStep
<1>2. CASE SocketStep
  BY <1>2, AskKeeps, HandshakeKeeps, ConnectKeeps, CutKeeps, HandlerEndsKeeps DEF SocketStep
<1>3. CASE EventStep
  BY <1>3, SameSockets, SendFailsKeeps DEF EventStep, Publish, SendBegin, SendWorks, SubscriberEnds
<1> QED
  BY <1>1, <1>2, <1>3, WorkerRestartsKeeps, RedisRestartsKeeps DEF NoticesNext

LEMMA InitSockets == NoticesInit => SocketInv
<1> SUFFICES ASSUME NoticesInit PROVE SocketInv
  OBVIOUS
<1>1. sock = <<>> /\ registry = [w \in Worker |-> 0]
  BY DEF NoticesInit
<1>2. sock \in Seq(Handlers) /\ Len(sock) = 0 /\ DOMAIN sock = {}
  BY <1>1
<1> QED
  BY <1>1, <1>2, NoticesAssumption DEF SocketInv, Placed, Registered, Known

LEMMA SocketsHold == NoticesSpec => []SocketInv
<1>1. SocketInv /\ [NoticesNext]_allVars => SocketInv'
  BY NoticesKeepSockets
<1> QED
  BY InitSockets, <1>1, PTL DEF NoticesSpec

(* A worker knows the open socket of the terminal (ConnectionManager in      *)
(* notifier.py), but for a socket that a failed send has orphaned.           *)
THEOREM RegistryKnowsItsSocket == NoticesSpec => []OpenIsKnown
  BY SocketsHold, SocketInvGivesKnown, PTL


-----------------------------------------------------------------------------
(* The events.  What has been written to a socket is bounded by the callers, *)
(* relay and direct, that are spent for it: their calls of manager.send can  *)
(* no longer come to write to it.                                            *)
Calls == [phase : {"none", "queued", "sending", "done"}, on : Nat]

\* connect has put the socket in a registry, now or before.
Attended(s) == s \in DOMAIN sock /\ sock[s].state \notin {"asked", "accepted"}

Calling(e, c) == \E w \in Worker : job[<<e, w, c>>] # NoCall

Sends(e, w, c, s) == job[<<e, w, c>>].phase = "sending" /\ job[<<e, w, c>>].on = s
Queues(e, w, c, s) == job[<<e, w, c>>].phase = "queued" /\ sock[s].worker = w

Spent(e, s, c) ==
    /\ Attended(s) /\ Calling(e, c)
    /\ \A w \in Worker : ~Sends(e, w, c, s) /\ ~Queues(e, w, c, s)

Pending(e, s) == \E w \in Worker, c \in Caller : Sends(e, w, c, s) \/ Queues(e, w, c, s)

Shaped ==
    /\ job \in [Job -> Calls]
    /\ told \in [Event -> [Socket -> Nat]]
    /\ news \in [Event -> [out : BOOLEAN, twice : BOOLEAN, due : SUBSET Nat]]

\* Nothing has happened to an event that is not published.
Unheard ==
    \A e \in Event : ~news[e].out =>
        /\ \A w \in Worker, c \in Caller : job[<<e, w, c>>] = NoCall
        /\ \A s \in Socket : told[e][s] = 0
        /\ news[e].due = {}

OneCaller == \A e \in Event : Calling(e, "relay") /\ Calling(e, "direct") => news[e].twice

\* A call is on a socket of its own worker, until that one's handler is over.
Delivers ==
    \A e \in Event, w \in Worker, c \in Caller : \A s \in Nat : Sends(e, w, c, s) =>
        Attended(s) /\ (sock[s].worker = w \/ sock[s].state = "ended")

DueAttended == \A e \in Event : \A s \in news[e].due : Attended(s)

CallsCounted(e, s) ==
    \/ told[e][s] = 0
    \/ told[e][s] = 1 /\ \E c \in Caller : Spent(e, s, c)
    \/ told[e][s] = 2 /\ \A c \in Caller : Spent(e, s, c)

Owed(e, s) == sock[s].state = "open" => told[e][s] >= 1 \/ Pending(e, s)

CallInv ==
    /\ Shaped /\ Unheard /\ OneCaller /\ Delivers /\ DueAttended
    /\ \A e \in Event, s \in Socket : CallsCounted(e, s)
    /\ \A e \in Event : \A s \in news[e].due \ orphans : Owed(e, s)

LEMMA JobIsCall == ASSUME NEW e \in Event, NEW w \in Worker, NEW c \in Caller PROVE <<e, w, c>> \in Job
  BY DEF Job

LEMMA CallOfJob ==
    ASSUME NEW j \in Job
    PROVE  \E e \in Event, w \in Worker, c \in Caller : j = <<e, w, c>>
  BY DEF Job

LEMMA NoCallFields == NoCall \in Calls /\ NoCall.phase = "none"
  BY DEF NoCall, Calls
LEMMA ReturnedFields == Returned \in Calls /\ Returned.phase = "done" /\ Returned # NoCall
  BY DEF Returned, Calls, NoCall

LEMMA CallInvGivesTold == ASSUME SocketInv, CallInv PROVE ToldOnce
<1> SUFFICES ASSUME NEW e \in Event
             PROVE  /\ \A s \in Socket : told[e][s] <= (IF news[e].twice THEN 2 ELSE 1)
                    /\ Settled(e) => \A s \in news[e].due \ orphans : Is(s, {"open"}) => told[e][s] >= 1
  BY DEF ToldOnce
<1>1. ASSUME NEW s \in Socket PROVE told[e][s] <= (IF news[e].twice THEN 2 ELSE 1)
  <2>1. CallsCounted(e, s) /\ (Calling(e, "relay") /\ Calling(e, "direct") => news[e].twice)
    BY DEF CallInv, OneCaller
  <2>2. (\A c \in Caller : Spent(e, s, c)) => news[e].twice
    BY <2>1 DEF Spent, Caller
  <2> QED
    BY <2>1, <2>2 DEF CallsCounted
<1>2. ASSUME Settled(e), NEW s \in news[e].due \ orphans, Is(s, {"open"}) PROVE told[e][s] >= 1
  <2>1. \A w \in Worker, c \in Caller : job[<<e, w, c>>] \in {NoCall, Returned}
    BY <1>2 DEF Settled, Job
  <2>2. ~Pending(e, s)
    BY <2>1, NoCallFields, ReturnedFields DEF Pending, Sends, Queues
  <2>3. Owed(e, s)
    BY <1>2 DEF CallInv
  <2> QED
    BY <1>2, <2>2, <2>3 DEF Owed, Is
<1> QED
  BY <1>1, <1>2

LEMMA InitCalls == ASSUME NoticesInit PROVE CallInv
<1>1. /\ job = [j \in Job |-> NoCall] /\ news = [e \in Event |-> Unpublished]
      /\ told = [e \in Event |-> [s \in Socket |-> 0]]
  BY DEF NoticesInit
<1>2. Unpublished \in [out : BOOLEAN, twice : BOOLEAN, due : SUBSET Nat] /\ Unpublished.due = {}
  BY DEF Unpublished
<1>3. \A e \in Event, w \in Worker, c \in Caller : job[<<e, w, c>>] = NoCall
  BY <1>1, JobIsCall
<1>4. Shaped
  BY <1>1, <1>2, NoCallFields DEF Shaped
<1>5. \A e \in Event, s \in Socket : told[e][s] = 0
  BY <1>1
<1>6. \A e \in Event : news[e].due = {}
  BY <1>1, <1>2
<1>7. Unheard /\ DueAttended
  BY <1>3, <1>5, <1>6 DEF Unheard, DueAttended
<1>8. OneCaller
  BY <1>3 DEF OneCaller, Calling, Caller
<1>9. Delivers
  BY <1>3, NoCallFields DEF Delivers, Sends
<1> QED
  BY <1>4, <1>5, <1>6, <1>7, <1>8, <1>9 DEF CallInv, CallsCounted

(* Steps of the sockets alone. *)
LEMMA AttendedStays ==
    ASSUME SocketInv, Moves, NEW s, Attended(s)
    PROVE  /\ Attended(s)'
           /\ sock'[s].worker \in {sock[s].worker, NoWorker}
           /\ sock[s].state = "ended" => sock'[s].state = "ended"
           /\ sock'[s].state # "ended" => sock'[s].worker = sock[s].worker
           /\ sock'[s].state = "open" => sock[s].state = "open" /\ sock'[s].worker = sock[s].worker
  BY DEF Moves, Turns, Attended

LEMMA MovesKeepCalls ==
    ASSUME SocketInv, CallInv, Moves, UNCHANGED <<job, news, told>>, orphans \subseteq orphans'
    PROVE  CallInv'
<1>1. Shaped' /\ Unheard' /\ OneCaller'
  BY DEF CallInv, Shaped, Unheard, OneCaller, Calling
<1>2. DueAttended'
  BY AttendedStays DEF CallInv, DueAttended
<1>3. Delivers'
  BY AttendedStays DEF CallInv, Delivers, Sends
<1>4. ASSUME NEW e \in Event, NEW s \in Socket PROVE CallsCounted(e, s)'
  <2>1. \A c \in Caller : Spent(e, s, c) => Spent(e, s, c)'
    BY AttendedStays, NoticesAssumption DEF Spent, Calling, Sends, Queues
  <2>2. CallsCounted(e, s)
    BY DEF CallInv
  <2> QED
    BY <2>1, <2>2 DEF CallsCounted
<1>5. ASSUME NEW e \in Event, NEW s \in news'[e].due \ orphans' PROVE Owed(e, s)'
  <2>1. Owed(e, s) /\ Attended(s)
    BY <1>5 DEF CallInv, DueAttended
  <2> QED
    BY <2>1, AttendedStays DEF Owed, Pending, Sends, Queues
<1> QED
  BY <1>1, <1>2, <1>3, <1>4, <1>5 DEF CallInv


(* Calls advance: a call is taken up with the socket that is registered, or  *)
(* is over, whether or not it wrote.                                         *)
Advances(e, w, c) ==
    LET k == job[<<e, w, c>>]
        l == job'[<<e, w, c>>]
    IN  \/ l = k
        \/ k # NoCall /\ l = Returned
        \/ k.phase = "queued" /\ registry[w] # 0 /\ l = [phase |-> "sending", on |-> registry[w]]

LEMMA AdvanceFields ==
    ASSUME NEW e, NEW w, NEW c, Advances(e, w, c), job[<<e, w, c>>] \in Calls
    PROVE  /\ job'[<<e, w, c>>] = NoCall <=> job[<<e, w, c>>] = NoCall
           /\ job'[<<e, w, c>>].phase = "queued" => job[<<e, w, c>>].phase = "queued"
           /\ \A s : Sends(e, w, c, s)' =>
                 \/ Sends(e, w, c, s)
                 \/ job[<<e, w, c>>].phase = "queued" /\ registry[w] = s /\ s # 0
<1> DEFINE new == [phase |-> "sending", on |-> registry[w]]
<1>1. new.phase = "sending" /\ new.on = registry[w] /\ NoCall.phase = "none" /\ new # NoCall
  BY DEF NoCall
<1>2. Returned.phase = "done" /\ Returned # NoCall
  BY ReturnedFields
<1> DEFINE k == job[<<e, w, c>>]
           l == job'[<<e, w, c>>]
<1>3. l = k \/ (k # NoCall /\ l = Returned) \/ (k.phase = "queued" /\ registry[w] # 0 /\ l = new)
  BY DEF Advances
<1> HIDE DEF new, k, l
<1>4. /\ l = NoCall <=> k = NoCall
      /\ l.phase = "queued" => k.phase = "queued"
      /\ \A s : l.phase = "sending" /\ l.on = s =>
             (k.phase = "sending" /\ k.on = s) \/ (k.phase = "queued" /\ registry[w] = s /\ s # 0)
  BY <1>1, <1>2, <1>3
<1> QED
  BY <1>4 DEF k, l, Sends

LEMMA AdvancingKeepsCalls ==
    ASSUME SocketInv, CallInv, Moves, told' = told, job' \in [Job -> Calls],
           \A e \in Event, w \in Worker, c \in Caller : Advances(e, w, c),
           news' \in [Event -> [out : BOOLEAN, twice : BOOLEAN, due : SUBSET Nat]],
           \A e \in Event : /\ news'[e].out = news[e].out
                            /\ news'[e].twice = news[e].twice
                            /\ news'[e].due \subseteq news[e].due,
           \A e \in Event : \A s \in news'[e].due \ orphans' : Owed(e, s)'
    PROVE  CallInv'
<1>1. ASSUME NEW e \in Event, NEW w \in Worker, NEW c \in Caller
      PROVE  /\ job'[<<e, w, c>>] = NoCall <=> job[<<e, w, c>>] = NoCall
             /\ job'[<<e, w, c>>].phase = "queued" => job[<<e, w, c>>].phase = "queued"
             /\ \A s : Sends(e, w, c, s)' =>
                   \/ Sends(e, w, c, s)
                   \/ job[<<e, w, c>>].phase = "queued" /\ registry[w] = s /\ s # 0
  BY JobIsCall, AdvanceFields DEF CallInv, Shaped
<1>2. \A e \in Event, c \in Caller : Calling(e, c)' <=> Calling(e, c)
  <2>1. \A e \in Event, w \in Worker, c \in Caller : job'[<<e, w, c>>] = NoCall <=> job[<<e, w, c>>] = NoCall
    BY <1>1
  <2> QED
    BY <2>1 DEF Calling
<1>3. Shaped' /\ DueAttended'
  BY AttendedStays DEF CallInv, Shaped, DueAttended
<1>4. Unheard'
  BY <1>1 DEF CallInv, Unheard
<1>5. OneCaller'
  BY <1>2 DEF CallInv, OneCaller, Caller
<1>6. \A w \in Worker : registry[w] # 0 => Attended(registry[w]) /\ sock[registry[w]].worker = w
  BY DEF SocketInv, Registered, Attended
<1>7. Delivers'
  <2> SUFFICES ASSUME NEW e \in Event, NEW w \in Worker, NEW c \in Caller, NEW s \in Nat, Sends(e, w, c, s)'
               PROVE  Attended(s)' /\ (sock'[s].worker = w \/ sock'[s].state = "ended")
    BY DEF Delivers
  <2>1. Sends(e, w, c, s) \/ (registry[w] = s /\ s # 0)
    BY <1>1 DEF Sends
  <2>2. Attended(s) /\ (sock[s].worker = w \/ sock[s].state = "ended")
    BY <1>6, <2>1 DEF CallInv, Delivers
  <2> QED
    BY <2>2, AttendedStays
<1>8. ASSUME NEW e \in Event, NEW s \in Socket PROVE CallsCounted(e, s)'
  <2>1. ASSUME NEW c \in Caller, Spent(e, s, c) PROVE Spent(e, s, c)'
    <3>1. Attended(s)' /\ Calling(e, c)' /\ sock'[s].worker \in {sock[s].worker, NoWorker}
      BY <1>2, <2>1, AttendedStays DEF Spent
    <3>2. ASSUME NEW w \in Worker PROVE ~Sends(e, w, c, s)' /\ ~Queues(e, w, c, s)'
      <4>1. ~Sends(e, w, c, s) /\ ~Queues(e, w, c, s)
        BY <2>1 DEF Spent
      <4>2. ~Queues(e, w, c, s)'
        BY <1>1, <3>1, <4>1, NoticesAssumption DEF Queues
      <4>3. ~(job[<<e, w, c>>].phase = "queued" /\ registry[w] = s /\ s # 0)
        BY <1>6, <4>1 DEF Queues
      <4> QED
        BY <1>1, <4>1, <4>2, <4>3
    <3> QED
      BY <3>1, <3>2 DEF Spent
  <2>2. CallsCounted(e, s)
    BY DEF CallInv
  <2> QED
    BY <2>1, <2>2 DEF CallsCounted
<1> QED
  BY <1>3, <1>4, <1>5, <1>7, <1>8 DEF CallInv

LEMMA SendBeginKeeps ==
    ASSUME SocketInv, CallInv, NEW j \in Job, SendBegin(j)
    PROVE  CallInv'
<1>1. PICK e \in Event, w \in Worker, c \in Caller : j = <<e, w, c>>
  BY CallOfJob
<1> DEFINE k == IF registry[w] = 0 THEN Returned ELSE [phase |-> "sending", on |-> registry[w]]
<1>2. /\ UNCHANGED <<sock, registry, news, told, orphans>>
      /\ job[<<e, w, c>>].phase = "queued" /\ job' = [job EXCEPT ![<<e, w, c>>] = k]
  BY <1>1 DEF SendBegin
<1>3. k \in Calls
  BY ReturnedFields DEF Calls, SocketInv
<1>4. registry[w] # 0 => k.phase = "sending" /\ k.on = registry[w]
  OBVIOUS
<1>5. /\ registry[w] = 0 => k = Returned
      /\ registry[w] # 0 => k = [phase |-> "sending", on |-> registry[w]]
  OBVIOUS
<1> HIDE DEF k
<1>6. job \in [Job -> Calls] /\ news \in [Event -> [out : BOOLEAN, twice : BOOLEAN, due : SUBSET Nat]]
  BY DEF CallInv, Shaped
<1>7. /\ job' \in [Job -> Calls]
      /\ \A f \in Event, v \in Worker, d \in Caller :
            job'[<<f, v, d>>] = IF f = e /\ v = w /\ d = c THEN k ELSE job[<<f, v, d>>]
  <2>1. job' = [job EXCEPT ![<<e, w, c>>] = k]
    BY <1>2
  <2> QED
    BY <1>3, <1>6, <2>1, JobIsCall
<1>8. job[<<e, w, c>>] # NoCall
  BY <1>2, NoCallFields
<1>9. \A f \in Event, v \in Worker, d \in Caller : Advances(f, v, d)
  <2> SUFFICES ASSUME NEW f \in Event, NEW v \in Worker, NEW d \in Caller PROVE Advances(f, v, d)
    OBVIOUS
  <2>1. CASE f = e /\ v = w /\ d = c
    <3>1. job'[<<e, w, c>>] = k
      BY <1>7
    <3> QED
      BY <1>2, <1>5, <1>8, <2>1, <3>1 DEF Advances
  <2>2. CASE ~(f = e /\ v = w /\ d = c)
    <3>1. job'[<<f, v, d>>] = job[<<f, v, d>>]
      BY <1>7, <2>2
    <3> QED
      BY <3>1 DEF Advances
  <2> QED
    BY <2>1, <2>2
<1>10. Moves
  BY <1>2 DEF Moves, Turns
<1>11. ASSUME NEW f \in Event, NEW s \in news[f].due \ orphans PROVE Owed(f, s)'
  <2> SUFFICES ASSUME sock[s].state = "open", Pending(f, s) PROVE Pending(f, s)'
    BY <1>2, <1>11 DEF CallInv, Owed
  <2>1. s \in DOMAIN sock /\ s # 0
    BY <1>11, SocketRange DEF CallInv, DueAttended, Attended
  <2>2. registry[sock[s].worker] = s
    BY <1>11, <2>1 DEF SocketInv, Known
  <2>3. PICK v \in Worker, d \in Caller : Sends(f, v, d, s) \/ Queues(f, v, d, s)
    BY DEF Pending
  <2>4. Sends(f, v, d, s)' \/ Queues(f, v, d, s)'
    <3>1. CASE f = e /\ v = w /\ d = c
      <4>1. Queues(e, w, c, s)
        BY <1>2, <2>3, <3>1 DEF Sends
      <4>2. registry[w] = s
        BY <2>2, <4>1 DEF Queues
      <4> QED
        BY <1>4, <1>7, <2>1, <3>1, <4>2 DEF Sends
    <3>2. CASE ~(f = e /\ v = w /\ d = c)
      BY <1>2, <1>7, <2>3, <3>2 DEF Sends, Queues
    <3> QED
      BY <3>1, <3>2
  <2> QED
    BY <2>4 DEF Pending
<1> QED
  BY <1>2, <1>6, <1>7, <1>9, <1>10, <1>11, AdvancingKeepsCalls


LEMMA SendFailsKeepsCalls ==
    ASSUME SocketInv, CallInv, NEW j \in Job, SendFails(j)
    PROVE  CallInv'
<1>1. PICK e \in Event, w \in Worker, c \in Caller : j = <<e, w, c>>
  BY CallOfJob
<1>2. /\ job[<<e, w, c>>].phase = "sending" /\ Is(job[<<e, w, c>>].on, {"cut", "closing", "ended"})
      /\ job' = [job EXCEPT ![<<e, w, c>>] = Returned]
      /\ orphans \subseteq orphans' /\ UNCHANGED <<sock, news, told>>
  BY <1>1 DEF SendFails
<1>3. job \in [Job -> Calls] /\ news \in [Event -> [out : BOOLEAN, twice : BOOLEAN, due : SUBSET Nat]]
  BY DEF CallInv, Shaped
<1>4. /\ job' \in [Job -> Calls]
      /\ \A f \in Event, v \in Worker, d \in Caller :
            job'[<<f, v, d>>] = IF f = e /\ v = w /\ d = c THEN Returned ELSE job[<<f, v, d>>]
  BY <1>2, <1>3, ReturnedFields, JobIsCall
<1>5. job[<<e, w, c>>] # NoCall
  BY <1>2, NoCallFields
<1>6. \A f \in Event, v \in Worker, d \in Caller : Advances(f, v, d)
  BY <1>4, <1>5 DEF Advances
<1>7. Moves
  BY <1>2 DEF Moves, Turns
<1>8. ASSUME NEW f \in Event, NEW s \in news[f].due \ orphans' PROVE Owed(f, s)'
  <2>1. Owed(f, s)
    BY <1>2, <1>8 DEF CallInv
  <2> SUFFICES ASSUME sock[s].state = "open", Pending(f, s) PROVE Pending(f, s)'
    BY <1>2, <2>1 DEF Owed
  <2>2. PICK v \in Worker, d \in Caller : Sends(f, v, d, s) \/ Queues(f, v, d, s)
    BY DEF Pending
  <2>3. ~(f = e /\ v = w /\ d = c)
    BY <1>2, <2>2 DEF Sends, Queues, Is
  <2>4. Sends(f, v, d, s)' \/ Queues(f, v, d, s)'
    BY <1>2, <1>4, <2>2, <2>3 DEF Sends, Queues
  <2> QED
    BY <2>4 DEF Pending
<1> QED
  BY <1>2, <1>3, <1>4, <1>6, <1>7, <1>8, AdvancingKeepsCalls

LEMMA SubscriberEndsKeepsCalls ==
    ASSUME SocketInv, CallInv, NEW w \in Worker, SubscriberEnds(w)
    PROVE  CallInv'
<1>1. /\ UNCHANGED <<sock, registry, told, orphans>>
      /\ job' = [j \in Job |-> IF Waiting(j, w) THEN Returned ELSE job[j]]
      /\ news' = [e \in Event |->
            IF Waiting(<<e, w, "relay">>, w) THEN [news[e] EXCEPT !.due = @ \ {registry[w]}] ELSE news[e]]
  BY DEF SubscriberEnds
<1>2. job \in [Job -> Calls] /\ news \in [Event -> [out : BOOLEAN, twice : BOOLEAN, due : SUBSET Nat]]
  BY DEF CallInv, Shaped
<1>3. job' \in [Job -> Calls]
  BY <1>1, <1>2, ReturnedFields
<1>4. \A e \in Event, v \in Worker, d \in Caller :
          job'[<<e, v, d>>] = IF v = w /\ d = "relay" /\ job[<<e, v, d>>].phase = "queued"
                              THEN Returned ELSE job[<<e, v, d>>]
  BY <1>1, JobIsCall DEF Waiting
<1>5. \A e \in Event, v \in Worker, d \in Caller : Advances(e, v, d)
  BY <1>4, NoCallFields DEF Advances
<1>6. ASSUME NEW e \in Event
      PROVE  /\ news'[e] \in [out : BOOLEAN, twice : BOOLEAN, due : SUBSET Nat]
             /\ news'[e].out = news[e].out /\ news'[e].twice = news[e].twice
             /\ news'[e].due \subseteq news[e].due
             /\ job[<<e, w, "relay">>].phase = "queued" => registry[w] \notin news'[e].due
  BY <1>1, <1>2 DEF Waiting
<1>7. news' \in [Event -> [out : BOOLEAN, twice : BOOLEAN, due : SUBSET Nat]]
  BY <1>1, <1>6
<1>8. Moves
  BY <1>1 DEF Moves, Turns
<1>9. ASSUME NEW e \in Event, NEW s \in news'[e].due \ orphans' PROVE Owed(e, s)'
  <2>1. Owed(e, s) /\ s \in news[e].due
    BY <1>1, <1>6, <1>9 DEF CallInv
  <2> SUFFICES ASSUME sock[s].state = "open", Pending(e, s) PROVE Pending(e, s)'
    BY <1>1, <2>1 DEF Owed
  <2>2. registry[sock[s].worker] = s
    BY <1>1, <1>9, <2>1 DEF CallInv, DueAttended, Attended, SocketInv, Known
  <2>3. PICK v \in Worker, d \in Caller : Sends(e, v, d, s) \/ Queues(e, v, d, s)
    BY DEF Pending
  <2>4. ~(v = w /\ d = "relay" /\ job[<<e, v, d>>].phase = "queued")
    BY <1>6, <1>9, <2>2, <2>3 DEF Sends, Queues
  <2>5. Sends(e, v, d, s)' \/ Queues(e, v, d, s)'
    BY <1>1, <1>4, <2>3, <2>4 DEF Sends, Queues
  <2> QED
    BY <2>5 DEF Pending
<1> QED
  BY <1>1, <1>3, <1>5, <1>6, <1>7, <1>8, <1>9, AdvancingKeepsCalls

LEMMA WorkerRestartsKeepsCalls ==
    ASSUME SocketInv, CallInv, NEW w \in Worker, WorkerRestarts(w)
    PROVE  CallInv'
<1>1. /\ UNCHANGED <<news, told, orphans>>
      /\ job' = [j \in Job |-> IF j[2] = w /\ job[j] # NoCall THEN Returned ELSE job[j]]
      /\ sock' = [s \in DOMAIN sock |->
            IF sock[s].worker = w THEN Gone(sock[s]) ELSE [sock[s] EXCEPT !.ticket = @ \ {w}]]
  BY DEF WorkerRestarts
<1>2. job \in [Job -> Calls] /\ news \in [Event -> [out : BOOLEAN, twice : BOOLEAN, due : SUBSET Nat]]
  BY DEF CallInv, Shaped
<1>3. job' \in [Job -> Calls]
  BY <1>1, <1>2, ReturnedFields
<1>4. \A e \in Event, v \in Worker, d \in Caller :
          job'[<<e, v, d>>] = IF v = w /\ job[<<e, v, d>>] # NoCall THEN Returned ELSE job[<<e, v, d>>]
  BY <1>1, JobIsCall
<1>5. \A e \in Event, v \in Worker, d \in Caller : Advances(e, v, d)
  BY <1>4 DEF Advances
<1>6. Moves
  BY WorkerRestartsKeeps
<1>7. ASSUME NEW e \in Event, NEW s \in news[e].due \ orphans PROVE Owed(e, s)'
  <2>1. Owed(e, s) /\ Attended(s)
    BY <1>7 DEF CallInv, DueAttended
  <2> SUFFICES ASSUME sock'[s].state = "open", Pending(e, s) PROVE Pending(e, s)'
    BY <1>1, <1>6, <2>1, AttendedStays DEF Owed
  <2>2. sock[s].state = "open" /\ sock'[s].worker = sock[s].worker
    BY <1>6, <2>1, AttendedStays
  <2>3. sock[s].worker # w
    <3>1. sock[s] \in Handlers
      BY <2>1, SocketRange DEF Attended
    <3> QED
      BY <1>1, <2>1, <3>1, GoneFields DEF Attended
  <2>4. PICK v \in Worker, d \in Caller : Sends(e, v, d, s) \/ Queues(e, v, d, s)
    BY DEF Pending
  <2>5. sock[s].worker = v
    <3>1. s \in Nat
      BY <2>1, SocketRange DEF Attended
    <3> QED
      BY <2>2, <2>4, <3>1 DEF CallInv, Delivers, Queues
  <2>6. Sends(e, v, d, s)' \/ Queues(e, v, d, s)'
    BY <1>4, <2>2, <2>3, <2>4, <2>5 DEF Sends, Queues
  <2> QED
    BY <2>6 DEF Pending
<1> QED
  BY <1>1, <1>2, <1>3, <1>5, <1>6, <1>7, AdvancingKeepsCalls

LEMMA SendWorksKeeps ==
    ASSUME SocketInv, CallInv, NEW j \in Job, SendWorks(j)
    PROVE  CallInv'
<1>1. PICK e \in Event, w \in Worker, c \in Caller : j = <<e, w, c>>
  BY CallOfJob
<1>0. PICK t : t = job[<<e, w, c>>].on
  OBVIOUS
<1>2. /\ job[<<e, w, c>>].phase = "sending" /\ Is(t, {"open", "cut"})
      /\ job' = [job EXCEPT ![<<e, w, c>>] = Returned]
      /\ told' = [told EXCEPT ![e][t] = @ + 1]
      /\ UNCHANGED <<sock, registry, news, orphans>>
  BY <1>0, <1>1 DEF SendWorks
<1>3. job \in [Job -> Calls] /\ told \in [Event -> [Socket -> Nat]]
  BY DEF CallInv, Shaped
<1>4. t \in DOMAIN sock /\ t \in Nat /\ t \in Socket /\ sock[t].state \in {"open", "cut"}
  BY <1>2, SocketRange DEF Is
<1>5. Sends(e, w, c, t)
  BY <1>0, <1>2 DEF Sends
<1>6. sock[t].worker = w
  BY <1>4, <1>5 DEF CallInv, Delivers
<1>7. /\ job' \in [Job -> Calls]
      /\ \A f \in Event, v \in Worker, d \in Caller :
            job'[<<f, v, d>>] = IF f = e /\ v = w /\ d = c THEN Returned ELSE job[<<f, v, d>>]
  BY <1>2, <1>3, ReturnedFields, JobIsCall
<1>8. /\ told' \in [Event -> [Socket -> Nat]]
      /\ \A f \in Event, s \in Socket : told'[f][s] = IF f = e /\ s = t THEN told[f][s] + 1 ELSE told[f][s]
  BY <1>2, <1>3, <1>4
<1>9. \A f \in Event, v \in Worker, d \in Caller : job'[<<f, v, d>>] = NoCall <=> job[<<f, v, d>>] = NoCall
  <2>1. job[<<e, w, c>>] # NoCall
    BY <1>2, NoCallFields
  <2> SUFFICES ASSUME NEW f \in Event, NEW v \in Worker, NEW d \in Caller
               PROVE  job'[<<f, v, d>>] = NoCall <=> job[<<f, v, d>>] = NoCall
    OBVIOUS
  <2>2. CASE f = e /\ v = w /\ d = c
    BY <1>7, <2>1, <2>2, ReturnedFields
  <2>3. CASE ~(f = e /\ v = w /\ d = c)
    BY <1>7, <2>3
  <2> QED
    BY <2>2, <2>3
<1>10. \A f \in Event, d \in Caller : Calling(f, d)' <=> Calling(f, d)
  BY <1>9 DEF Calling
<1>11. Shaped' /\ OneCaller' /\ DueAttended'
  <2>1. Shaped' /\ DueAttended'
    BY <1>2, <1>7, <1>8 DEF CallInv, Shaped, DueAttended, Attended
  <2>2. OneCaller'
    BY <1>2, <1>10 DEF CallInv, OneCaller, Caller
  <2> QED
    BY <2>1, <2>2
<1>12. news[e].out
  BY <1>2, NoCallFields DEF CallInv, Unheard
<1>13. Unheard'
  BY <1>2, <1>8, <1>9, <1>12 DEF CallInv, Unheard
<1>14. \A f \in Event, v \in Worker, d \in Caller, s \in Nat :
          /\ (job'[<<f, v, d>>].phase = "sending" /\ job'[<<f, v, d>>].on = s) =>
                 Sends(f, v, d, s) /\ ~(f = e /\ v = w /\ d = c)
          /\ job'[<<f, v, d>>].phase = "queued" => job[<<f, v, d>>].phase = "queued"
          /\ ~(f = e /\ v = w /\ d = c) => job'[<<f, v, d>>] = job[<<f, v, d>>]
  BY <1>7, ReturnedFields DEF Sends
<1>15. Delivers'
  BY <1>2, <1>14 DEF CallInv, Delivers, Sends, Attended
<1>16. \A f \in Event, s \in Socket, d \in Caller : Spent(f, s, d) => Spent(f, s, d)'
  <2> SUFFICES ASSUME NEW f \in Event, NEW s \in Socket, NEW d \in Caller, Spent(f, s, d) PROVE Spent(f, s, d)'
    BY DEF Spent, Attended, Calling, Sends, Queues
  <2>1. s \in Nat
    BY DEF Socket
  <2>2. Attended(s)' /\ Calling(f, d)'
    BY <1>2, <1>10 DEF Spent, Attended
  <2>3. ASSUME NEW v \in Worker PROVE ~Sends(f, v, d, s)' /\ ~Queues(f, v, d, s)'
    BY <1>2, <1>14, <2>1 DEF Spent, Sends, Queues
  <2> QED
    BY <2>2, <2>3 DEF Spent
<1>17. ASSUME NEW f \in Event, NEW s \in Socket PROVE CallsCounted(f, s)'
  <2>1. CallsCounted(f, s)
    BY DEF CallInv
  <2>2. \A d \in Caller : Spent(f, s, d) => Spent(f, s, d)'
    BY <1>16 DEF Spent, Attended, Calling, Sends, Queues
  <2>3. CASE ~(f = e /\ s = t)
    BY <1>8, <2>1, <2>2, <2>3 DEF CallsCounted
  <2>4. CASE f = e /\ s = t
    <3>1. ~Spent(e, t, c)
      BY <1>5 DEF Spent
    <3>2. Attended(t)' /\ Calling(e, c)'
      <4>1. job[<<e, w, c>>] # NoCall
        BY <1>2, NoCallFields
      <4> QED
        BY <1>2, <1>4, <1>10, <4>1 DEF Attended, Calling
    <3>3. ASSUME NEW v \in Worker PROVE ~Sends(e, v, c, t)' /\ ~Queues(e, v, c, t)'
      <4>1. CASE v = w
        BY <1>7, <4>1, ReturnedFields DEF Sends, Queues
      <4>2. CASE v # w
        <5>1. ~Sends(e, v, c, t) /\ ~Queues(e, v, c, t)
          BY <1>4, <1>6, <4>2 DEF CallInv, Delivers, Queues
        <5> QED
          BY <1>2, <1>14, <4>2, <5>1 DEF Sends, Queues
      <4> QED
        BY <4>1, <4>2
    <3>4. Spent(e, t, c)'
      BY <3>2, <3>3 DEF Spent
    <3>5. CASE told[e][t] = 0
      BY <1>8, <2>4, <3>4, <3>5 DEF CallsCounted
    <3>6. CASE told[e][t] = 1 /\ \E d \in Caller : Spent(e, t, d)
      <4>1. \A d \in Caller : Spent(e, t, d)'
        BY <2>2, <2>4, <3>1, <3>4, <3>6 DEF Caller
      <4> QED
        BY <1>8, <2>4, <3>6, <4>1 DEF CallsCounted
    <3> QED
      BY <2>1, <2>4, <3>1, <3>5, <3>6 DEF CallsCounted
  <2> QED
    BY <2>3, <2>4
<1>18. ASSUME NEW f \in Event, NEW s \in news'[f].due \ orphans' PROVE Owed(f, s)'
  <2>1. Owed(f, s) /\ Attended(s) /\ s \in Socket
    BY <1>2, <1>18, SocketRange DEF CallInv, DueAttended, Attended
  <2> SUFFICES ASSUME sock[s].state = "open", ~(told'[f][s] >= 1) PROVE Pending(f, s)'
    BY <1>2 DEF Owed
  <2>2. ~(f = e /\ s = t) /\ ~(told[f][s] >= 1)
    BY <1>3, <1>8, <2>1
  <2>3. PICK v \in Worker, d \in Caller : Sends(f, v, d, s) \/ Queues(f, v, d, s)
    BY <2>1, <2>2 DEF Owed, Pending
  <2>4. ~(f = e /\ v = w /\ d = c)
    BY <1>5, <2>2, <2>3 DEF Sends, Queues
  <2>5. job'[<<f, v, d>>] = job[<<f, v, d>>]
    BY <1>7, <2>4
  <2>6. Sends(f, v, d, s)' \/ Queues(f, v, d, s)'
    BY <1>2, <2>3, <2>5 DEF Sends, Queues
  <2> QED
    BY <2>6 DEF Pending
<1> QED
  BY <1>11, <1>13, <1>15, <1>17, <1>18 DEF CallInv


LEMMA PublishKeeps ==
    ASSUME SocketInv, CallInv, listening \subseteq Worker, NEW e \in Event, NEW w \in Worker, Publish(e, w)
    PROVE  CallInv'
<1> DEFINE queued == [NoCall EXCEPT !.phase = "queued"]
<1>1. queued \in Calls /\ queued.phase = "queued" /\ queued # NoCall
  BY DEF NoCall, Calls
<1>2. PICK relayed, known \in BOOLEAN :
          /\ known => relayed
          /\ w \notin enabled => ~relayed
          /\ LET direct == FallsBack(relayed, known) IN
                /\ job' = [j \in Job |->
                      IF j[1] = e /\ \/ j[3] = "relay" /\ relayed /\ j[2] \in listening
                                     \/ j[3] = "direct" /\ direct /\ j[2] = w
                      THEN [NoCall EXCEPT !.phase = "queued"] ELSE job[j]]
                /\ news' = [news EXCEPT ![e] =
                      [out |-> TRUE, twice |-> relayed /\ ~known,
                       due |-> {registry[v] : v \in Reached(w, relayed, direct)} \ {0}]]
  BY DEF Publish
<1> DEFINE reached == Reached(w, relayed, ~known)
           owing == {registry[v] : v \in reached} \ {0}
<1>3. ~news[e].out /\ UNCHANGED <<sock, registry, told, orphans>>
  BY DEF Publish
<1>4. \A f \in Event, v \in Worker, d \in Caller :
          job'[<<f, v, d>>] = IF f = e /\ \/ d = "relay" /\ relayed /\ v \in listening
                                          \/ d = "direct" /\ ~known /\ v = w
                              THEN queued ELSE job[<<f, v, d>>]
  BY <1>2, JobIsCall DEF FallsBack
<1> HIDE DEF queued
<1>5. /\ \A v \in Worker, c \in Caller : job[<<e, v, c>>] = NoCall
      /\ \A s \in Socket : told[e][s] = 0
  BY <1>3 DEF CallInv, Unheard
<1>6. job \in [Job -> Calls] /\ news \in [Event -> [out : BOOLEAN, twice : BOOLEAN, due : SUBSET Nat]]
  BY DEF CallInv, Shaped
<1>7. job' \in [Job -> Calls]
  BY <1>1, <1>2, <1>6 DEF queued
<1>8. reached \subseteq Worker /\ \A v \in reached : (relayed /\ v \in listening) \/ (~known /\ v = w)
  BY DEF Reached
<1> HIDE DEF reached
<1>9. \A s \in owing : \E v \in reached : s = registry[v] /\ s # 0 /\ Attended(s) /\ sock[s].worker = v /\ s \in Nat
  BY <1>8 DEF SocketInv, Registered, Attended
<1> DEFINE item == [out |-> TRUE, twice |-> (relayed /\ ~known), due |-> owing]
<1>10. item \in [out : BOOLEAN, twice : BOOLEAN, due : SUBSET Nat]
  BY <1>9
<1>11. item.out /\ (item.twice <=> relayed /\ ~known) /\ item.due = owing
  OBVIOUS
<1>12. news' = [news EXCEPT ![e] = item]
  BY <1>2 DEF FallsBack, reached
<1> HIDE DEF item, owing
<1>13. /\ news' \in [Event -> [out : BOOLEAN, twice : BOOLEAN, due : SUBSET Nat]]
       /\ \A f \in Event : news'[f] = IF f = e THEN item ELSE news[f]
  BY <1>6, <1>10, <1>12
<1>14. \A f \in Event, v \in Worker, d \in Caller : f # e => job'[<<f, v, d>>] = job[<<f, v, d>>]
  BY <1>4
<1>15. Shaped'
  BY <1>3, <1>7, <1>13 DEF CallInv, Shaped
<1>16. Unheard'
  BY <1>3, <1>11, <1>13, <1>14 DEF CallInv, Unheard
<1>17. OneCaller'
  <2> SUFFICES ASSUME NEW f \in Event, Calling(f, "relay")', Calling(f, "direct")' PROVE news'[f].twice
    BY DEF OneCaller, Calling
  <2>1. CASE f = e
    <3>1. PICK v \in Worker : job'[<<e, v, "relay">>] # NoCall
      BY <2>1 DEF Calling
    <3>2. PICK u \in Worker : job'[<<e, u, "direct">>] # NoCall
      BY <2>1 DEF Calling
    <3>3. relayed /\ ~known
      BY <1>4, <1>5, <3>1, <3>2 DEF Caller
    <3> QED
      BY <1>11, <1>13, <2>1, <3>3
  <2>2. CASE f # e
    BY <1>13, <1>14, <2>2 DEF CallInv, OneCaller, Calling, Caller
  <2> QED
    BY <2>1, <2>2
<1>18. \A f \in Event, v \in Worker, d \in Caller :
          job'[<<f, v, d>>].phase = "sending" => job'[<<f, v, d>>] = job[<<f, v, d>>]
  BY <1>1, <1>4
<1>19. Delivers'
  BY <1>3, <1>18 DEF CallInv, Delivers, Sends, Attended
<1>20. DueAttended'
  BY <1>3, <1>9, <1>11, <1>13 DEF CallInv, DueAttended, Attended
<1>21. ASSUME NEW f \in Event, NEW s \in Socket PROVE CallsCounted(f, s)'
  <2>1. CASE f = e
    BY <1>3, <1>5, <2>1 DEF CallsCounted
  <2>2. CASE f # e
    <3>1. \A d \in Caller : Spent(f, s, d) => Spent(f, s, d)'
      BY <1>3, <1>14, <2>2 DEF Spent, Attended, Calling, Sends, Queues
    <3>2. CallsCounted(f, s)
      BY DEF CallInv
    <3> QED
      BY <1>3, <3>1, <3>2 DEF CallsCounted
  <2> QED
    BY <2>1, <2>2
<1>22. ASSUME NEW f \in Event, NEW s \in news'[f].due \ orphans' PROVE Owed(f, s)'
  <2>1. CASE f = e
    <3>1. PICK v \in reached : s = registry[v] /\ sock[s].worker = v
      BY <1>9, <1>11, <1>13, <1>22, <2>1
    <3>2. \E d \in Caller : job'[<<e, v, d>>] = queued
      BY <1>4, <1>8 DEF Caller
    <3>3. Pending(e, s)'
      BY <1>1, <1>3, <1>8, <3>1, <3>2 DEF Pending, Queues
    <3> QED
      BY <2>1, <3>3 DEF Owed
  <2>2. CASE f # e
    <3>1. Owed(f, s)
      BY <1>3, <1>13, <1>22, <2>2 DEF CallInv
    <3>2. Pending(f, s) => Pending(f, s)'
      BY <1>3, <1>14, <2>2 DEF Pending, Sends, Queues
    <3> QED
      BY <1>3, <3>1, <3>2 DEF Owed
  <2> QED
    BY <2>1, <2>2
<1> QED
  BY <1>15, <1>16, <1>17, <1>19, <1>20, <1>21, <1>22 DEF CallInv

EventInv == SocketInv /\ CallInv /\ listening \subseteq Worker

LEMMA NoticesKeepEvents ==
    ASSUME EventInv, [NoticesNext]_allVars
    PROVE  EventInv'
<1>1. SocketInv /\ CallInv /\ SocketInv' /\ Moves
  BY NoticesKeepSockets DEF EventInv
<1>2. listening' \subseteq Worker
  BY DEF EventInv, NoticesNext, allVars, noticeVars, LoginStep, SocketStep, Ask, Handshake, Connect, Cut,
         HandlerEnds, EventStep, Publish, SendBegin, SendWorks, SendFails, SubscriberEnds,
         WorkerRestarts, RedisRestarts
<1>3. CASE UNCHANGED allVars \/ LoginStep \/ SocketStep \/ RedisRestarts
  <2>1. UNCHANGED <<job, news, told>> /\ orphans' = orphans
    BY <1>3 DEF allVars, noticeVars, LoginStep, SocketStep, Ask, Handshake, Connect, Cut, HandlerEnds, RedisRestarts
  <2> QED
    BY <1>1, <1>2, <2>1, MovesKeepCalls DEF EventInv
<1>4. CASE EventStep
  BY <1>1, <1>2, <1>4, PublishKeeps, SendBeginKeeps, SendWorksKeeps, SendFailsKeepsCalls, SubscriberEndsKeepsCalls
     DEF EventStep, EventInv
<1>5. CASE \E w \in Worker : WorkerRestarts(w)
  BY <1>1, <1>2, <1>5, WorkerRestartsKeepsCalls DEF EventInv
<1> QED
  BY <1>3, <1>4, <1>5 DEF NoticesNext

(* An event is written to a socket at most once, or twice when Redis took it *)
(* and the publisher did not learn it; and a socket that was registered      *)
(* where it went, and stayed, is not missed (WebSocketPubSub.publish and     *)
(* ConnectionManager.send).                                                  *)
THEOREM EventsAreToldOnce == NoticesSpec => []ToldOnce
<1>1. NoticesInit => EventInv
  BY InitSockets, InitCalls DEF NoticesInit, EventInv
<1>2. EventInv /\ [NoticesNext]_allVars => EventInv'
  BY NoticesKeepEvents
<1>3. EventInv => ToldOnce
  BY CallInvGivesTold DEF EventInv
<1> QED
  BY <1>1, <1>2, <1>3, PTL DEF NoticesSpec

=============================================================================

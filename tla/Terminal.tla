------------------------------ MODULE Terminal ------------------------------
(***************************************************************************)
(* A POS terminal and its offline queue: the sale flow of POSTerminal.jsx, *)
(* the queue hook useOfflineQueue.js over its table in SQLite (Electron)   *)
(* or localStorage (browser), and the requests of api/client.js.           *)
(*                                                                         *)
(* A sale is posted when the terminal is online and stored in the queue    *)
(* when it is not; syncQueue posts what is stored.  The key the terminal   *)
(* draws for a sale never leaves it: client.js passes the options with the *)
(* Idempotency-Key header to request() as its third argument, which looks  *)
(* at retry401 only, and the queue draws a key of its own.  Every POST the *)
(* server carries out therefore records one more transaction.              *)
(*                                                                         *)
(* React state (the sale on the screen, the queue length the effects look  *)
(* at, the running syncQueue calls) is gone when the app restarts; when    *)
(* the page is left, a syncQueue call of it runs on.                       *)
(***************************************************************************)
EXTENDS Naturals, FiniteSets

CONSTANTS
    Cart,         \* one customer's purchase each
    Loop,         \* bound: syncQueue calls that are running at once
    MaxRows,      \* bound: rows of the queue
    Browser,      \* TRUE: localStorage fallback, which reads attempts back
    MaxAttempts,  \* MAX_ATTEMPTS
    Many,         \* bound: transactions of a cart are counted up to here
    Faults,       \* what may go wrong, see AllFaults
    NoCart

(* "lost": an answer does not arrive.  "refuse": the server answers with an  *)
(* error.  "expire": the refresh token ends.  "restart": the app dies.       *)
(* "leave": the cashier opens another page.  "store": the queue's database   *)
(* is not ready.  "again": F9 while the receipt is shown.  The network comes *)
(* and goes in any case.                                                     *)
AllFaults == {"lost", "refuse", "expire", "restart", "leave", "store", "again"}

ASSUME TerminalAssumption ==
    /\ NoCart \notin Cart
    /\ MaxRows \in Nat /\ MaxAttempts \in Nat \ {0} /\ Many \in Nat \ {0}
    /\ Browser \in BOOLEAN
    /\ Faults \subseteq AllFaults

VARIABLES
    online,       \* navigator.onLine, and isOnline with it
    signedIn,     \* whether a 401 can still be answered with a refresh
    open,         \* whether the POS page is mounted
    till,         \* the sale on the screen
    given,        \* carts whose customers left with a receipt
    queue,        \* rows of offline_queue, by id
    loops,        \* syncQueue calls
    length,       \* queueLength, as the page last read it
    due,          \* the effect on [isOnline, queueLength] has not run yet
    recorded,     \* transactions the cloud has of each cart
    doubtful,     \* history: carts that met a mishap after which they may be sold again
    unkept        \* history: carts whose item was not stored, or was taken for synced

pageVars == <<open, till, length, due>>
history == <<doubtful, unkept>>
vars == <<online, signedIn, pageVars, given, queue, loops, recorded, history>>

Row == 1..MaxRows

Phases == {"empty", "ready", "stored", "sent", "recorded", "receipt"}
LoopPhases == {"idle", "next", "sent", "recorded"}

NoSale == [cart |-> NoCart, phase |-> "empty"]
NoLoop == [phase |-> "idle", mine |-> FALSE, todo |-> {}, row |-> 0]
NoRow  == [cart |-> NoCart, status |-> "free", attempts |-> 0]

Unsynced(q) == {i \in Row : q[i].status \in {"pending", "failed"}}

(* For the history: the rows a call of syncQueue has yet to post or has not  *)
(* cleared, and the cart that is in the cloud or the queue without receipt.  *)
Held(l) == loops[l].todo \cup
    {i \in Row : i = loops[l].row /\ loops[l].phase \in {"sent", "recorded"}}
Answered == {i \in Row : \E l \in Loop : loops[l].row = i /\ loops[l].phase = "recorded"}
Undecided == {c \in Cart : till.cart = c /\ till.phase \in {"stored", "recorded"}}

-----------------------------------------------------------------------------
(* The queue *)

(* stats(): pending and failed rows; a new length schedules the effect.      *)
RefreshStats ==
    /\ length' = Cardinality(Unsynced(queue'))
    /\ due' = (due \/ length' # length)

(* INSERT OR IGNORE under a key drawn for the row. *)
Insert(c) ==
    \E i \in Row :
        /\ queue[i].status = "free"
        /\ \A j \in Row : j < i => queue[j].status # "free"
        /\ queue' = [queue EXCEPT ![i] = [cart |-> c, status |-> "pending", attempts |-> 0]]

(* clearItem *)
Clear(i) == queue' = [queue EXCEPT ![i].status = "synced"]

(* SQLite counts attempts as well, but getQueue parses the payload, which    *)
(* never has them.  What matters of the count is whether it is used up.      *)
Counted(attempts) ==
    IF Browser /\ attempts < MaxAttempts THEN attempts + 1 ELSE attempts

MarkFailedError(i) ==   \* mutant: a status stats() and getQueue() do not know
    queue' = [queue EXCEPT ![i].status = "error"]

(* markFailed: whatever the status is. *)
MarkFailed(i) ==
    queue' = [queue EXCEPT ![i] = [cart |-> @.cart, status |-> "failed",
                                   attempts |-> Counted(@.attempts)]]

Count(n) == IF n < Many THEN n + 1 ELSE n

(* The server carries out a POST /transactions without a key. *)
Record(c) == recorded' = [recorded EXCEPT ![c] = Count(@)]

-----------------------------------------------------------------------------
(* syncQueue *)

Running == \E l \in Loop : loops[l].mine /\ loops[l].phase # "idle"

(* getQueue, without the items whose attempts are used up. *)
Snapshot == {i \in Unsynced(queue) : queue[i].attempts < MaxAttempts}

SyncQueueUnguarded ==   \* mutant: no syncingRef
    \E l \in Loop :
        /\ loops[l].phase = "idle"
        /\ loops' = [loops EXCEPT ![l] = [phase |-> "next", mine |-> TRUE,
                                          todo |-> Snapshot, row |-> 0]]

SyncQueue ==
    IF Running THEN UNCHANGED loops
    ELSE \E l \in Loop :
            /\ loops[l].phase = "idle"
            /\ loops' = [loops EXCEPT ![l] = [phase |-> "next", mine |-> TRUE,
                                              todo |-> Snapshot, row |-> 0]]

(* The effect on isOnline and queueLength. *)
Effect ==
    /\ open /\ due
    /\ due' = FALSE
    /\ IF online /\ length > 0 THEN SyncQueue ELSE UNCHANGED loops
    /\ UNCHANGED <<online, signedIn, open, till, given, queue, length, recorded, history>>

(* The page looks at the queue every ten seconds. *)
Poll ==
    /\ open
    /\ UNCHANGED queue
    /\ RefreshStats
    /\ UNCHANGED <<online, signedIn, open, till, given, loops, recorded, history>>

InLoop(l, phase) == loops[l].phase = phase

Goes(l, phase) == loops' = [loops EXCEPT ![l].phase = phase]

LoopPost(l, i) ==
    /\ InLoop(l, "next")
    /\ i \in loops[l].todo
    /\ \A j \in loops[l].todo : i <= j
    /\ loops' = [loops EXCEPT ![l].phase = "sent", ![l].row = i, ![l].todo = @ \ {i}]
    /\ UNCHANGED <<online, signedIn, pageVars, given, queue, recorded, history>>

LoopRecorded(l) ==
    /\ InLoop(l, "sent") /\ online /\ signedIn
    /\ Record(queue[loops[l].row].cart)
    /\ Goes(l, "recorded")
    /\ UNCHANGED <<online, signedIn, pageVars, given, queue, history>>

LoopClear(l) ==
    /\ InLoop(l, "recorded")
    /\ Clear(loops[l].row)
    /\ Goes(l, "next")
    /\ UNCHANGED <<online, signedIn, pageVars, given, recorded, history>>

(* No route to the server, an error status, or no answer: catch. *)
NoAnswer(l) ==
    \/ InLoop(l, "sent") /\ (~online \/ Faults \cap {"refuse", "lost"} # {})
    \/ InLoop(l, "recorded") /\ "lost" \in Faults

LoopFailedCleared(l) ==   \* mutant: a refused item is dropped
    /\ NoAnswer(l)
    /\ Clear(loops[l].row)
    /\ Goes(l, "next")
    /\ UNCHANGED <<online, signedIn, pageVars, given, recorded, history>>

LoopFailed(l) ==
    /\ NoAnswer(l)
    /\ MarkFailed(loops[l].row)
    /\ Goes(l, "next")
    /\ doubtful' = doubtful \cup {queue[i].cart : i \in Answered \cap {loops[l].row}}
    /\ UNCHANGED <<online, signedIn, pageVars, given, recorded, unkept>>

(* The sale on the screen is forgotten, and with it who posts which rows.    *)
LeavePage(rows) ==
    /\ open' = FALSE
    /\ till' = NoSale
    /\ doubtful' = doubtful \cup Undecided \cup {queue[i].cart : i \in rows}
    /\ UNCHANGED <<length, due>>

Posting == UNION {Held(l) : l \in Loop}

(* A 401 that cannot be refreshed: request() clears the session, goes to the *)
(* login page and returns null, which the loop takes for an answer.          *)
LoopExpired(l) ==
    /\ InLoop(l, "sent") /\ online /\ ~signedIn
    /\ Clear(loops[l].row)
    /\ LeavePage(Posting)
    /\ unkept' = unkept \cup {queue[loops[l].row].cart}
    /\ loops' = [k \in Loop |-> IF k = l THEN [loops[k] EXCEPT !.phase = "next", !.mine = FALSE]
                                ELSE [loops[k] EXCEPT !.mine = FALSE]]
    /\ UNCHANGED <<online, signedIn, given, recorded>>

(* finally: the page that is still there looks at the queue. *)
LoopEnd(l) ==
    /\ InLoop(l, "next") /\ loops[l].todo = {}
    /\ loops' = [loops EXCEPT ![l] = NoLoop]
    /\ UNCHANGED queue
    /\ IF loops[l].mine THEN RefreshStats ELSE UNCHANGED <<length, due>>
    /\ UNCHANGED <<online, signedIn, open, till, given, recorded, history>>

-----------------------------------------------------------------------------
(* The sale on the screen *)

Shows(phase) == open /\ till.phase = phase

TillGoes(phase) == till' = [till EXCEPT !.phase = phase]

Scan(c) ==
    /\ Shows("empty")
    /\ c \notin given
    /\ till' = [cart |-> c, phase |-> "ready"]
    /\ UNCHANGED <<online, signedIn, open, given, queue, loops, length, due, recorded, history>>

(* Offline: enqueue, whose result nobody looks at, then the receipt. *)
Store ==
    /\ Shows("ready") /\ ~online
    /\ \/ Insert(till.cart) /\ UNCHANGED unkept
       \/ "store" \in Faults /\ UNCHANGED queue /\ unkept' = unkept \cup {till.cart}
    /\ RefreshStats
    /\ TillGoes("stored")
    /\ UNCHANGED <<online, signedIn, open, given, loops, recorded, doubtful>>

(* Online: the answer brings the receipt. *)
TillPost ==
    /\ Shows("ready") /\ online
    /\ TillGoes("sent")
    /\ UNCHANGED <<online, signedIn, open, given, queue, loops, length, due, recorded, history>>

TillRecorded ==
    /\ Shows("sent") /\ online /\ signedIn
    /\ Record(till.cart)
    /\ TillGoes("recorded")
    /\ UNCHANGED <<online, signedIn, open, given, queue, loops, length, due, history>>

Receipt ==
    /\ Shows("stored") \/ Shows("recorded")
    /\ TillGoes("receipt")
    /\ given' = given \cup {till.cart}
    /\ UNCHANGED <<online, signedIn, open, queue, loops, length, due, recorded, history>>

(* The error is shown and the sale can be completed again. *)
TillFailed ==
    /\ \/ Shows("sent") /\ (~online \/ Faults \cap {"refuse", "lost"} # {})
       \/ Shows("recorded") /\ "lost" \in Faults
    /\ TillGoes("ready")
    /\ doubtful' = doubtful \cup Undecided
    /\ UNCHANGED <<online, signedIn, open, given, queue, loops, length, due, recorded, unkept>>

TillExpired ==
    /\ Shows("sent") /\ online /\ ~signedIn
    /\ LeavePage(Posting)
    /\ loops' = [l \in Loop |-> [loops[l] EXCEPT !.mine = FALSE]]
    /\ UNCHANGED <<online, signedIn, given, queue, recorded, unkept>>

(* F9 opens the payment dialog on the sale whose receipt is shown. *)
RingAgain ==
    /\ Shows("receipt") /\ "again" \in Faults
    /\ TillGoes("ready")
    /\ doubtful' = doubtful \cup {till.cart}
    /\ UNCHANGED <<online, signedIn, open, given, queue, loops, length, due, recorded, unkept>>

(* The reset, five seconds after the receipt. *)
Reset ==
    /\ Shows("receipt")
    /\ till' = NoSale
    /\ UNCHANGED <<online, signedIn, open, given, queue, loops, length, due, recorded, history>>

-----------------------------------------------------------------------------
(* Network, session, pages and restarts *)

(* The listener calls syncQueue; the effect does so as well, if there is a   *)
(* queue.                                                                    *)
GoOnline ==
    /\ ~online
    /\ online' = TRUE
    /\ due' = TRUE
    /\ IF open THEN SyncQueue ELSE UNCHANGED loops
    /\ UNCHANGED <<signedIn, open, till, given, queue, length, recorded, history>>

GoOffline ==
    /\ online
    /\ online' = FALSE
    /\ due' = TRUE
    /\ UNCHANGED <<signedIn, open, till, given, queue, loops, length, recorded, history>>

Expire ==
    /\ "expire" \in Faults /\ signedIn
    /\ signedIn' = FALSE
    /\ UNCHANGED <<online, pageVars, given, queue, loops, recorded, history>>

Leave ==
    /\ "leave" \in Faults /\ open
    /\ LeavePage(Posting)
    /\ loops' = [l \in Loop |-> [loops[l] EXCEPT !.mine = FALSE]]
    /\ UNCHANGED <<online, signedIn, given, queue, recorded, unkept>>

RestartLosesQueue ==   \* mutant: the queue is kept in memory
    /\ "restart" \in Faults
    /\ LeavePage(Answered)
    /\ loops' = [l \in Loop |-> NoLoop]
    /\ queue' = [i \in Row |-> NoRow]
    /\ UNCHANGED <<online, signedIn, given, recorded, unkept>>

Restart ==
    /\ "restart" \in Faults
    /\ LeavePage(Answered)
    /\ loops' = [l \in Loop |-> NoLoop]
    /\ UNCHANGED <<online, signedIn, given, queue, recorded, unkept>>

SignIn ==
    /\ ~open /\ ~signedIn
    /\ signedIn' = TRUE
    /\ UNCHANGED <<online, pageVars, given, queue, loops, recorded, history>>

(* The page is mounted: its effects run, the queue's length is not yet read. *)
Enter ==
    /\ ~open /\ signedIn
    /\ open' = TRUE
    /\ length' = 0
    /\ due' = TRUE
    /\ UNCHANGED <<online, signedIn, till, given, queue, loops, recorded, history>>

-----------------------------------------------------------------------------
Init ==
    /\ online = TRUE
    /\ signedIn = TRUE
    /\ open = TRUE
    /\ till = NoSale
    /\ given = {}
    /\ queue = [i \in Row |-> NoRow]
    /\ loops = [l \in Loop |-> NoLoop]
    /\ length = 0
    /\ due = TRUE
    /\ recorded = [c \in Cart |-> 0]
    /\ doubtful = {}
    /\ unkept = {}

LoopStep(l) ==
    \/ \E i \in Row : LoopPost(l, i)
    \/ LoopRecorded(l) \/ LoopClear(l) \/ LoopFailed(l) \/ LoopExpired(l) \/ LoopEnd(l)

TillStep ==
    \/ \E c \in Cart : Scan(c)
    \/ Store \/ TillPost \/ TillRecorded \/ Receipt \/ TillFailed \/ TillExpired
    \/ RingAgain \/ Reset

Surroundings ==
    GoOnline \/ GoOffline \/ Expire \/ Leave \/ Restart \/ SignIn \/ Enter

Next == Effect \/ Poll \/ (\E l \in Loop : LoopStep(l)) \/ TillStep \/ Surroundings

Spec == Init /\ [][Next]_vars

(* A syncQueue call runs on, requests end one way or the other, effects and  *)
(* timers run.  The network, the cashier and the faults are free.            *)
LiveSpec ==
    /\ Spec
    /\ WF_vars(Effect) /\ WF_vars(Poll)
    /\ \A l \in Loop : WF_vars(LoopStep(l))

-----------------------------------------------------------------------------
(* Properties *)

(* The shape of the state. *)
TypeOK ==
    /\ online \in BOOLEAN /\ signedIn \in BOOLEAN /\ open \in BOOLEAN /\ due \in BOOLEAN
    /\ till \in [cart : Cart \cup {NoCart}, phase : Phases]
    /\ given \subseteq Cart
    /\ queue \in [Row -> [cart : Cart \cup {NoCart},
                          status : {"free", "pending", "failed", "synced"},
                          attempts : 0..MaxAttempts]]
    /\ loops \in [Loop -> [phase : LoopPhases, mine : BOOLEAN, todo : SUBSET Row,
                           row : Row \cup {0}]]
    /\ length \in Nat
    /\ recorded \in [Cart -> 0..Many]
    /\ doubtful \subseteq Cart /\ unkept \subseteq Cart

Safe(c) == recorded[c] > 0 \/ \E i \in Unsynced(queue) : queue[i].cart = c

(* "Sales are NEVER lost": when a customer has left with a receipt, the sale *)
(* is in the cloud, or still in the queue where syncQueue or a person can    *)
(* find it, through lost answers, refusals, restarts and pages left.  Two    *)
(* things lose a sale: enqueue failed and nobody looked, or the item met an  *)
(* expired session, whose null the loop takes for an answer.                 *)
NothingLost == \A c \in given \ unkept : Safe(c)

(* A sale that was safe stays safe whatever happens, other than the end of   *)
(* the session: two calls of syncQueue that overlap, a restart between the   *)
(* answer and clearItem, a failure that is marked on an item already synced. *)
StaysSafe == [][signedIn => \A c \in Cart : Safe(c) => Safe(c)']_vars

(* "No double-posting": a purchase is one transaction in the cloud, however  *)
(* sales, the queue and calls of syncQueue overlap and whatever fails around *)
(* it.  No key protects it, so one of these has to meet the purchase itself  *)
(* before it can be sold twice: the answer to its POST is lost, the app dies *)
(* before it is cleared or its receipt shown, its page is left while it is   *)
(* stored, recorded or in a call of syncQueue, or F9 on its receipt.         *)
SoldOnce == \A c \in Cart \ doubtful : recorded[c] <= 1

(* "Failed syncs are retried ... (not silently dropped)" (useOfflineQueue.js *)
(* line 10): once the network stays, a failed item is synced.                *)
FailedIsRetried ==
    <>[]online => \A i \in Row : (queue[i].status = "failed") ~> (queue[i].status = "synced")

=============================================================================

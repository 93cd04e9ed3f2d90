--------------------------------- MODULE Etims ---------------------------------
(***************************************************************************)
(* The submission of completed sales to the tax authority (KRA eTIMS):     *)
(* routers/etims.py and services/etims.py.  Four handlers submit: the      *)
(* cashier's request, the background task of a sale, the manager's         *)
(* retry-all, and the retry a failed request schedules.  Each reads the    *)
(* sale, awaits the authority and writes what came back, without a lock:   *)
(* in between, another handler may have written, or the sale been voided.  *)
(* retry-all commits every RetryBatch sales, which expires what the session *)
(* has loaded: the rows of later batches are read again, and not checked    *)
(* again.                                                                   *)
(* A sale is filed when it has a receipt: invoice number, QR code and      *)
(* etims_synced are one number here, 0 for none.                           *)
(***************************************************************************)
EXTENDS Naturals, FiniteSets

CONSTANTS
    Sale,          \* the sales of the shop, numbered in the order of created_at
    Task,          \* slots for handlers in flight, taken in the order of their numbers
    RetryBatch,    \* sales that retry-all submits before it commits (50)
    MaxAttempts,   \* attempts after which the retry gives up (10)
    MaxReceipts,   \* bound: receipts the authority issues for one sale
    MaxEvents      \* bound: handlers started, sales voided and faults of a run

ASSUME EtimsAssumption == /\ Sale \subseteq Nat
                          /\ Task \subseteq Nat
                          /\ RetryBatch \in Nat \ {0}
                          /\ MaxAttempts \in Nat
                          /\ MaxReceipts \in Nat
                          /\ MaxEvents \in Nat

VARIABLES
    sale,      \* sale[s]: "none", "completed" or "voided"
    receipt,   \* receipt[s]: the receipt the row holds, 0 before it is filed
    attempts,  \* attempts[s]: audit rows "etims_submit" of the sale
    issued,    \* issued[s]: receipts the authority has issued for it
    task,      \* task[k]: a handler: its mode, the sales it has yet to submit,
               \* the results its session holds and has not committed, and which
               \* of them are of rows that it loaded with a receipt
    events     \* events so far, for the bound

etimsVars == <<sale, receipt, attempts, issued, task>>

Event == events < MaxEvents /\ events' = events + 1

Receipt == 0 .. MaxReceipts
\* "first" and "later" are the batches of retry-all.
Modes == {"request", "once", "first", "later", "retry", "asleep"}

Idle == [mode |-> "idle", todo |-> {}, got |-> <<>>, filed |-> {}]
Busy(m, todo) == [Idle EXCEPT !.mode = m, !.todo = todo]
Result(todo) == UNION {[d -> Receipt] : d \in SUBSET todo}

EtimsTypeOK ==
    /\ sale \in [Sale -> {"none", "completed", "voided"}]
    /\ receipt \in [Sale -> Receipt]
    /\ attempts \in [Sale -> Nat]
    /\ issued \in [Sale -> Receipt]
    /\ task \in [Task -> [mode: Modes \cup {"idle"}, todo: SUBSET Sale,
                       got: Result(Sale), filed: SUBSET Sale]]
    /\ events \in 0 .. MaxEvents

EtimsInit ==
    /\ sale = [s \in Sale |-> "none"]
    /\ receipt = [s \in Sale |-> 0]
    /\ attempts = [s \in Sale |-> 0]
    /\ issued = [s \in Sale |-> 0]
    /\ task = [k \in Task |-> Idle]
    /\ events = 0

Unfiled == {s \in Sale : sale[s] = "completed" /\ receipt[s] = 0}

-------------------------------------------------------------------------------
(* The sales themselves, as far as eTIMS and the synchronisation see them: *)
(* create_transaction or a confirmation completes one, void_transaction    *)
(* voids it.  They are rung up in the order of their numbers.              *)

Ring(s) ==
    /\ sale[s] = "none"
    /\ \A r \in Sale : r < s => sale[r] # "none"
    /\ sale' = [sale EXCEPT ![s] = "completed"]
    /\ UNCHANGED <<receipt, attempts, issued, task, events>>

VoidSale(s) ==
    /\ sale[s] = "completed"
    /\ sale' = [sale EXCEPT ![s] = "voided"]
    /\ Event
    /\ UNCHANGED <<receipt, attempts, issued, task>>

-------------------------------------------------------------------------------
(* Each handler checks status and etims_synced once, before it awaits. *)

Start(k, m, todo) ==
    /\ task[k] = Idle /\ \A j \in Task : j < k => task[j] # Idle
    /\ task' = [task EXCEPT ![k] = Busy(m, todo)]
    /\ Event
    /\ UNCHANGED <<sale, receipt, attempts, issued>>

SubmitToEtims(k, s) == s \in Unfiled /\ Start(k, "request", {s})
AutoSubmit(k, s) == s \in Unfiled /\ Start(k, "once", {s})
RetryAll(k) == Unfiled # {} /\ Start(k, "first", Unfiled)

\* Nothing is left to submit, or the batch is full.
BatchDone(t) ==
    \/ t.todo = {}
    \/ t.mode \in {"first", "later"} /\ Cardinality(DOMAIN t.got) = RetryBatch

\* submit_invoice for the oldest sale, which never raises: the authority files it
\* and the answer arrives, files it and the answer is lost, or does not file it.
\* A later batch reads the row just before (txn.txn_number loads it).
SubmitInvoice(k, s) ==
    /\ s \in task[k].todo /\ \A r \in task[k].todo : s <= r
    /\ task[k].mode # "retry" /\ ~BatchDone(task[k])
    /\ \E files, answers \in BOOLEAN :
          /\ files => issued[s] < MaxReceipts
          /\ issued' = [issued EXCEPT ![s] = IF files THEN @ + 1 ELSE @]
          /\ task' = [task EXCEPT
                ![k].todo = @ \ {s},
                ![k].filed = IF task[k].mode = "later" /\ receipt[s] # 0 THEN @ \cup {s} ELSE @,
                ![k].got = [r \in DOMAIN @ \cup {s} |->
                              IF r # s THEN @[r]
                              ELSE IF files /\ answers THEN issued[s] + 1 ELSE 0]]
    /\ UNCHANGED <<sale, receipt, attempts, events>>

\* What a session writes of a result: assigning what was loaded is no change, so
\* the failure of a sale that it loaded unfiled leaves the columns alone.
WrittenBlindly(s, t) ==   \* mutant: every failed result clears the columns
    IF s \in DOMAIN t.got THEN t.got[s] ELSE receipt[s]

Written(s, t) ==
    IF s \in DOMAIN t.got /\ (t.got[s] # 0 \/ s \in t.filed) THEN t.got[s] ELSE receipt[s]

Failed(t) == \E s \in DOMAIN t.got : t.got[s] = 0

\* A request or a retry that failed goes on to _schedule_etims_retry, retry-all
\* to its next batch; the others end.
Further(t) ==
    IF t.todo # {} THEN Busy("later", t.todo)
    ELSE IF t.mode \in {"request", "asleep"} /\ Failed(t) THEN Busy("retry", DOMAIN t.got)
    ELSE Idle

\* The commit: results and an audit row for each.
CommitResults(k) ==
    LET t == task[k] IN
    /\ t.got # <<>> /\ BatchDone(t)
    /\ receipt' = [s \in Sale |-> Written(s, t)]
    /\ attempts' = [s \in Sale |-> attempts[s] + (IF s \in DOMAIN t.got THEN 1 ELSE 0)]
    /\ task' = [task EXCEPT ![k] = Further(t)]
    /\ UNCHANGED <<sale, issued, events>>

\* A commit of retry-all fails: it is rolled back, and the next batch begins.
LoseBatch(k) ==
    LET t == task[k] IN
    /\ t.mode \in {"first", "later"} /\ t.todo # {}
    /\ t.got # <<>> /\ BatchDone(t)
    /\ task' = [task EXCEPT ![k] = Further(t)]
    /\ Event
    /\ UNCHANGED <<sale, receipt, attempts, issued>>

\* _schedule_etims_retry looks at the sale and its attempts, then sleeps; when
\* it wakes it submits without looking again.
Over(k) == \E s \in task[k].todo : receipt[s] # 0 \/ attempts[s] >= MaxAttempts

ScheduleRetry(k) ==
    /\ task[k].mode = "retry"
    /\ task' = [task EXCEPT ![k] = IF Over(k) THEN Idle ELSE Busy("asleep", @.todo)]
    /\ UNCHANGED <<sale, receipt, attempts, issued, events>>

\* An exception, a failed commit or a restart: the session is rolled back.
LoseTask(k) ==
    /\ task[k] # Idle
    /\ task' = [task EXCEPT ![k] = Idle]
    /\ Event
    /\ UNCHANGED <<sale, receipt, attempts, issued>>

EtimsStep(k) ==
    \/ \E s \in Sale : SubmitInvoice(k, s)
    \/ CommitResults(k)
    \/ ScheduleRetry(k)

EtimsNext ==
    \E k \in Task :
        \/ \E s \in Sale : SubmitToEtims(k, s) \/ AutoSubmit(k, s)
        \/ RetryAll(k)
        \/ EtimsStep(k)
        \/ LoseBatch(k) \/ LoseTask(k)

-------------------------------------------------------------------------------
\* A sale that is filed stays filed, under every overlap of submissions: a late
\* failure takes a receipt away only where a later batch of retry-all had read it
\* and submitted the sale all the same (etims.py:206, 286, 394, 457 assign the
\* failure in every handler).  And a receipt is one the authority issued.
FiledStays ==
    [][\A s \in Sale :
          /\ receipt[s] # 0 /\ receipt'[s] = 0 =>
                \E k \in Task : /\ task[k].mode = "later" /\ task'[k] # task[k]
                               /\ s \in task[k].filed /\ task[k].got[s] = 0
          /\ receipt'[s] <= issued'[s]]_etimsVars

===============================================================================

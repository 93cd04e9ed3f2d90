-------------------------------- MODULE Outbox --------------------------------
(***************************************************************************)
(* The way of a completed sale to the cloud: syncTransactions of the sync  *)
(* agent (sync-agent/src/syncLoop.js), its retry queue (retryQueue.js) and *)
(* sync_transactions of the cloud (routers/sync.py:342).                   *)
(*                                                                         *)
(* The agent posts the oldest pending sales as one batch.  The key of the  *)
(* batch is the set of its sale numbers; its load is what the rows say,    *)
(* which a filing with eTIMS changes.  The cloud answers a key it knows    *)
(* from memory.  A request may go on in the cloud after the agent has      *)
(* given it up.  Back-off and the ten-second schedule are delays only.     *)
(*                                                                         *)
(* The statements of the agent name the statuses in lower case             *)
(* ('completed', 'pending', 'synced'); the tables store the names of the   *)
(* enumerations, in upper case, and PostgreSQL refuses a label it does not *)
(* know.  LabelsFit says whether the two agree.  In the code they do not:  *)
(* a cycle then ends at its read and nothing reaches the cloud.            *)
(***************************************************************************)
EXTENDS Etims, Sequences, SequencesExt, FiniteSetsExt

CONSTANTS
    Request,       \* slots for requests in the cloud, taken in the order of their numbers
    NoRequest,
    LabelsFit,     \* whether the tables know the labels of the agent (FALSE in the code)
    BatchSize,     \* sales of one batch (500)
    MaxTries       \* attempts after which a batch goes to the dead letters (10)

ASSUME OutboxAssumption == /\ Request \subseteq Nat /\ NoRequest \in Nat \ Request
                           /\ LabelsFit \in BOOLEAN
                           /\ BatchSize \in Nat \ {0}
                           /\ MaxTries \in Nat

VARIABLES
    synced,   \* sales whose local row says sync_status = synced
    agent,    \* the running cycle: where it is, the retry items it has yet to
              \* replay, the batch it posts, and the request it waits for
    retry,    \* retry_queue, oldest first
    dead,     \* dead_letter_queue: the keys of its batches
    request,  \* request[q]: a request in the cloud
    posted,   \* posted[s]: rows of the sale in the cloud, each with its stock
              \* movement and its journal entry
    keys      \* sync_idempotency_keys: the load and the answer of each key

agentVars == <<synced, agent, retry, dead>>
cloudVars == <<request, posted, keys>>
outboxVars == <<agentVars, cloudVars>>
vars == <<etimsVars, outboxVars, events>>

Key == SUBSET Sale \ {{}}
Load == UNION {[k -> Receipt] : k \in Key}
Item == [load: Load, tries: 0 .. MaxTries]
NoItem == [load |-> <<>>, tries |-> 0]

\* The batch as it would be read now, and the key of a load.
LoadOf(k) == [s \in k |-> receipt[s]]
KeyOf(load) == DOMAIN load

Resting == [pc |-> "idle", todo |-> <<>>, item |-> NoItem, waits |-> NoRequest, acks |-> {}]
NoCall == [pc |-> "free", load |-> <<>>, todo |-> {}, looked |-> FALSE,
           new |-> {}, confirmed |-> {}]

TypeOK ==
    /\ EtimsTypeOK
    /\ synced \subseteq Sale
    /\ agent \in [pc: {"idle", "drain", "replay", "post", "ack"},
                  todo: Seq(Item), item: Item \cup {NoItem},
                  waits: Request \cup {NoRequest}, acks: SUBSET Sale]
    /\ retry \in Seq(Item)
    /\ dead \subseteq Key
    /\ request \in [Request -> [pc: {"free", "begin", "ingest", "key", "ok", "error"},
                                load: Load \cup {<<>>}, todo: SUBSET Sale,
                                looked: BOOLEAN, new: SUBSET Sale,
                                confirmed: SUBSET Sale]]
    /\ posted \in [Sale -> Nat]
    /\ DOMAIN keys \subseteq Key
    /\ \A k \in DOMAIN keys : keys[k] \in [load: Load, confirmed: SUBSET k]

Init ==
    /\ EtimsInit
    /\ synced = {}
    /\ agent = Resting
    /\ retry = <<>>
    /\ dead = {}
    /\ request = [q \in Request |-> NoCall]
    /\ posted = [s \in Sale |-> 0]
    /\ keys = <<>>

-------------------------------------------------------------------------------
(* The cloud: sync_transactions, one record after the other in a savepoint *)
(* each, one commit for the batch, and then the key.                       *)

\* A POST reaches the cloud in a free slot.
Arrives(q, load) ==
    /\ request[q].pc = "free" /\ \A p \in Request : p < q => request[p].pc # "free"
    /\ request' = [request EXCEPT ![q] = [NoCall EXCEPT !.pc = "begin", !.load = load]]

\* A known key is answered from memory, with 409 if the load is another.
LookUpKey(q) ==
    LET r == request[q]
        k == KeyOf(r.load) IN
    /\ r.pc = "begin"
    /\ request' = [request EXCEPT ![q] =
          IF k \notin DOMAIN keys THEN [r EXCEPT !.pc = "ingest", !.todo = k]
          ELSE IF keys[k].load # r.load THEN [r EXCEPT !.pc = "error"]
          ELSE [r EXCEPT !.pc = "ok", !.confirmed = keys[k].confirmed]]
    /\ UNCHANGED <<posted, keys, events>>

\* The query for the sale: what is there is confirmed and skipped.
LookUpSale(q) ==
    LET r == request[q]
        s == Min(r.todo) IN
    /\ r.pc = "ingest" /\ r.todo # {} /\ ~r.looked
    /\ request' = [request EXCEPT ![q] =
          IF posted[s] = 0 THEN [r EXCEPT !.looked = TRUE]
          ELSE [r EXCEPT !.todo = @ \ {s}, !.confirmed = @ \cup {s}]]
    /\ UNCHANGED <<posted, keys, events>>

\* The savepoint: row, items, stock, customer, till and entry, or nothing.  The
\* unique txn_number makes the second of two inserts wait for the first to
\* commit, and then fail.
Inserting(s, q) == \E p \in Request \ {q} : s \in request[p].new
NeverDuplicate(s) == FALSE   \* mutant: the number is not unique
Duplicate(s) == posted[s] > 0

Ingest(q) ==
    LET r == request[q]
        s == Min(r.todo)
        done == [r EXCEPT !.todo = @ \ {s}, !.looked = FALSE] IN
    /\ r.looked
    /\ ~Inserting(s, q)
    /\ \/ /\ ~Duplicate(s)
          /\ request' = [request EXCEPT ![q] =
                [done EXCEPT !.new = @ \cup {s}, !.confirmed = @ \cup {s}]]
          /\ UNCHANGED events
       \/ /\ Duplicate(s)
          /\ request' = [request EXCEPT ![q] = done]
          /\ UNCHANGED events
       \/ /\ Event
          /\ request' = [request EXCEPT ![q] = done]
    /\ UNCHANGED <<posted, keys>>

CommitBatch(q) ==
    LET r == request[q] IN
    /\ r.pc = "ingest" /\ r.todo = {}
    /\ posted' = [s \in Sale |-> posted[s] + (IF s \in r.new THEN 1 ELSE 0)]
    /\ request' = [request EXCEPT ![q].pc = "key", ![q].new = {}]
    /\ UNCHANGED <<keys, events>>

\* A commit that fails is answered 200 as well, with nothing confirmed and no key.
FailCommit(q) ==
    /\ request[q].pc = "ingest" /\ request[q].todo = {}
    /\ Event
    /\ request' = [request EXCEPT ![q].pc = "ok", ![q].new = {}, ![q].confirmed = {}]
    /\ UNCHANGED <<posted, keys>>

\* The key is unique: the second request that stores it ends in a server error.
StoreKey(q) ==
    LET r == request[q]
        k == KeyOf(r.load) IN
    /\ r.pc = "key"
    /\ IF k \in DOMAIN keys
       THEN /\ request' = [request EXCEPT ![q].pc = "error"]
            /\ UNCHANGED keys
       ELSE /\ keys' = [j \in DOMAIN keys \cup {k} |->
                          IF j = k THEN [load |-> r.load, confirmed |-> r.confirmed]
                          ELSE keys[j]]
            /\ request' = [request EXCEPT ![q].pc = "ok"]
    /\ UNCHANGED <<posted, events>>

\* An exception outside the records or a restart of the server: rolled back.
CutOff(q) ==
    /\ request[q].pc \in {"begin", "ingest", "key"}
    /\ Event
    /\ request' = [request EXCEPT ![q].pc = "error", ![q].todo = {}, ![q].new = {},
                                  ![q].looked = FALSE]
    /\ UNCHANGED <<posted, keys>>

\* An answer nobody waits for.
Unheard(q) ==
    /\ request[q].pc \in {"ok", "error"} /\ agent.waits # q
    /\ request' = [request EXCEPT ![q] = NoCall]
    /\ UNCHANGED <<posted, keys, events>>

Cloud(q) ==
    /\ \/ LookUpKey(q) \/ LookUpSale(q) \/ Ingest(q) \/ CommitBatch(q)
       \/ StoreKey(q) \/ Unheard(q)
    /\ UNCHANGED <<etimsVars, agentVars>>

-------------------------------------------------------------------------------
(* The agent. *)

\* A statement of the agent fails on its labels, or for another reason.
StatementFails == IF LabelsFit THEN Event ELSE UNCHANGED events

Pending == {s \in Sale : sale[s] = "completed" /\ s \notin synced}

\* SELECT ... ORDER BY created_at LIMIT: the oldest pending sales.
Batch == {s \in Pending : Cardinality({p \in Pending : p < s}) < BatchSize}

Without(items, k) == SelectSeq(items, LAMBDA i : KeyOf(i.load) # k)

\* A cycle replays the items of the retry queue as it reads them once.
StartCycle ==
    /\ agent.pc = "idle"
    /\ Pending # {} \/ retry # <<>>   \* another cycle does nothing
    /\ agent' = [agent EXCEPT !.pc = "drain", !.todo = retry]
    /\ UNCHANGED <<synced, retry, dead, cloudVars, events>>

Exhausted(i) == i.tries >= MaxTries

Promote ==
    LET i == Head(agent.todo) IN
    /\ agent.pc = "drain" /\ agent.todo # <<>>
    /\ Exhausted(i)
    /\ dead' = dead \cup {KeyOf(i.load)}
    /\ retry' = Without(retry, KeyOf(i.load))
    /\ agent' = [agent EXCEPT !.todo = Tail(@)]
    /\ UNCHANGED <<synced, cloudVars, events>>

Replay(q) ==
    LET i == Head(agent.todo) IN
    /\ agent.pc = "drain" /\ agent.todo # <<>>
    /\ ~Exhausted(i)
    /\ Arrives(q, i.load)
    /\ agent' = [agent EXCEPT !.pc = "replay", !.todo = Tail(@), !.item = i, !.waits = q]
    /\ UNCHANGED <<synced, retry, dead, posted, keys, events>>

\* The batch of this cycle, or nothing to do.
PostBatch(q) ==
    /\ agent.pc = "drain" /\ agent.todo = <<>>
    /\ LabelsFit /\ Batch # {}
    /\ Arrives(q, LoadOf(Batch))
    /\ agent' = [agent EXCEPT !.pc = "post", !.waits = q,
                              !.item = [load |-> LoadOf(Batch), tries |-> 0]]
    /\ UNCHANGED <<synced, retry, dead, posted, keys, events>>

NothingPending ==
    /\ agent.pc = "drain" /\ agent.todo = <<>>
    /\ LabelsFit /\ Batch = {}
    /\ agent' = Resting
    /\ UNCHANGED <<synced, retry, dead, cloudVars, events>>

\* "DB read failed for transactions": the cycle returns.
ReadFails ==
    /\ agent.pc = "drain" /\ agent.todo = <<>>
    /\ StatementFails
    /\ agent' = Resting
    /\ UNCHANGED <<synced, retry, dead, cloudVars>>

\* The answer 200: a replayed item is cleared, a batch goes on to the local ack.
Answered(q) ==
    LET r == request[q] IN
    /\ agent.waits = q /\ r.pc = "ok"
    /\ request' = [request EXCEPT ![q] = NoCall]
    /\ IF agent.pc = "replay"
       THEN /\ agent' = [agent EXCEPT !.pc = "drain", !.item = NoItem, !.waits = NoRequest]
            /\ retry' = Without(retry, KeyOf(r.load))
       ELSE /\ agent' = [Resting EXCEPT !.pc = "ack", !.acks = r.confirmed]
            /\ UNCHANGED retry
    /\ UNCHANGED <<synced, dead, posted, keys, events>>

\* markRetried; pushRetryQueue, which leaves an item with the same key as it is.
MarkRetried(k) ==
    [n \in DOMAIN retry |-> IF KeyOf(retry[n].load) = k
                            THEN [retry[n] EXCEPT !.tries = @ + 1] ELSE retry[n]]
PushRetry(i) ==
    IF \E n \in DOMAIN retry : KeyOf(retry[n].load) = KeyOf(i.load)
    THEN retry ELSE Append(retry, i)

\* No answer within 15 seconds, a broken connection or an error: the agent gives
\* the request up, whatever the cloud makes of it.
Fails ==
    IF agent.pc = "replay"
    THEN /\ agent' = [agent EXCEPT !.pc = "drain", !.item = NoItem, !.waits = NoRequest]
         /\ retry' = MarkRetried(KeyOf(agent.item.load))
    ELSE /\ agent' = Resting
         /\ retry' = PushRetry(agent.item)

Refused(q) ==
    /\ agent.waits = q /\ request[q].pc = "error"
    /\ request' = [request EXCEPT ![q] = NoCall]
    /\ Fails
    /\ UNCHANGED <<synced, dead, posted, keys, events>>

TimesOut(q) ==
    /\ agent.waits = q
    /\ Event
    /\ Fails
    /\ UNCHANGED <<synced, dead, cloudVars>>

\* axios-retry: the connection breaks and the same request is posted again.
Resends(q, p) ==
    /\ agent.waits = q
    /\ Event
    /\ Arrives(p, request[q].load)
    /\ agent' = [agent EXCEPT !.waits = p]
    /\ UNCHANGED <<synced, retry, dead, posted, keys>>

\* UPDATE transactions SET sync_status = 'synced'; it may fail, and is only logged.
Acknowledge ==
    /\ agent.pc = "ack"
    /\ \/ LabelsFit /\ synced' = synced \cup agent.acks /\ UNCHANGED events
       \/ StatementFails /\ UNCHANGED synced
    /\ agent' = Resting
    /\ UNCHANGED <<retry, dead, cloudVars>>

\* The agent is stopped; the queue and the databases stay.
Crash ==
    /\ agent.pc # "idle"
    /\ Event
    /\ agent' = Resting
    /\ UNCHANGED <<synced, retry, dead, cloudVars>>

AgentStep ==
    /\ \/ StartCycle \/ Promote \/ NothingPending \/ ReadFails \/ Acknowledge
       \/ \E q \in Request : Replay(q) \/ PostBatch(q) \/ Answered(q) \/ Refused(q)
    /\ UNCHANGED etimsVars

Breaks ==
    /\ \/ Crash
       \/ \E q \in Request : TimesOut(q)
       \/ \E q \in Request : (CutOff(q) \/ FailCommit(q)) /\ UNCHANGED agentVars
       \/ \E q, p \in Request : Resends(q, p)
    /\ UNCHANGED etimsVars

-------------------------------------------------------------------------------
Next ==
    \/ /\ \/ \E s \in Sale : Ring(s) \/ VoidSale(s)
          \/ EtimsNext
       /\ UNCHANGED outboxVars
    \/ AgentStep
    \/ \E q \in Request : Cloud(q)
    \/ Breaks

Spec == Init /\ [][Next]_vars

-------------------------------------------------------------------------------
\* A sale is in the cloud at most once however often and however concurrently
\* it is posted, and one that is marked synced is there (sync.py:415-568,
\* syncLoop.js:370-395): stock and books of the cloud count it once.
SyncedIsPostedOnce ==
    \A s \in Sale : posted[s] <= 1 /\ (s \in synced => posted[s] = 1)

===============================================================================

------------------------------- MODULE TableSync -------------------------------
(***************************************************************************)
(* The copying of the product and customer tables between a shop and the   *)
(* cloud: syncEntity, drainRetryQueue and pullCloudUpdates of the agent    *)
(* (sync-agent/src/syncLoop.js), its checkpoints (checkpoint.js), and      *)
(* sync_products, sync_customers and cloud_product_updates of the cloud    *)
(* (routers/sync.py).                                                      *)
(*                                                                         *)
(* A row is sent when its updated_at is later than the checkpoint, which   *)
(* is the time of the last row sent, cut to whole milliseconds by          *)
(* JavaScript.  Here a millisecond is two ticks of one clock.  updated_at  *)
(* is the time the database transaction began, so that rows may become     *)
(* visible out of order.  Contents are the numbers of the edits.           *)
(***************************************************************************)
EXTENDS Naturals, FiniteSets, Sequences, SequencesExt, FiniteSetsExt

CONSTANTS
    Row,        \* products or customers, the same SKUs or phones on both sides
    BatchSize,  \* rows of one batch (500)
    MaxTries,   \* attempts after which a batch goes to the dead letters (10)
    MaxClock,   \* bound: ticks of the clock
    MaxEdits,   \* bound: edits, on either side
    MaxFaults   \* bound: faults of a run, but for failed replays, which MaxTries bounds

ASSUME TableSyncAssumption == /\ BatchSize \in Nat \ {0}
                              /\ {MaxTries, MaxClock, MaxEdits, MaxFaults} \subseteq Nat
                              /\ MaxClock >= 2 /\ IsFiniteSet(Row)

VARIABLES
    entity,      \* the table that is watched: "products" or "customers"
    clock, edits, faults,
    row,         \* row[r]: contents and updated_at of the shop's row
    open,        \* open[r]: when the uncommitted change of r began, 0 if none
    checkpoint,  \* checkpoints.json: of the pushes and of the pulls
    push,        \* the loop that pushes: what it replays, what it waits for
    retry,       \* retry_queue, oldest first
    dead,        \* dead_letter_queue
    sent,        \* requests in the cloud, given up or not
    pull,        \* the records the pulling loop has fetched
    cloud,       \* cloud[r]: contents and updated_at of the cloud's row
    applied,     \* history: the latest edit of r that a push has brought
    excused,     \* history: rows whose last change the code may not carry over
    raced        \* history: two requests were carried out at once

shopVars == <<row, open>>
agentVars == <<checkpoint, push, retry, dead, pull>>
cloudVars == <<sent, cloud, applied, raced>>
vars == <<entity, clock, edits, faults, shopVars, agentVars, cloudVars, excused>>

Time == 0 .. MaxClock
Edit == 0 .. MaxEdits
Content == [val: Edit, ts: Time]
Batch == UNION {[d -> Content] : d \in SUBSET Row}
Item == [key: Time \X Nat, rows: Batch, tries: 0 .. MaxTries]
Call == [rows: Batch, pc: {"begin", "read"}, read: Batch, heard: BOOLEAN]

Absent == [val |-> 0, ts |-> 0]
NoItem == [key |-> <<0, 0>>, rows |-> <<>>, tries |-> 0]
Resting == [pc |-> "idle", todo |-> <<>>, item |-> NoItem]

TypeOK ==
    /\ entity \in {"products", "customers"}
    /\ clock \in Time /\ edits \in Edit /\ faults \in 0 .. MaxFaults
    /\ row \in [Row -> Content] /\ cloud \in [Row -> Content]
    /\ open \in [Row -> Time]
    /\ checkpoint \in [{"push", "pull"} -> Time]
    /\ push \in [pc: {"idle", "drain", "replay", "post"}, todo: Seq(Item), item: Item]
    /\ retry \in Seq(Item) /\ dead \subseteq Item
    /\ sent \subseteq Call
    /\ pull \in Batch
    /\ applied \in [Row -> Edit] /\ excused \subseteq Row /\ raced \in BOOLEAN

Init ==
    /\ entity \in {"products", "customers"}
    /\ clock = 2 /\ edits = 0 /\ faults = 0
    /\ row = [r \in Row |-> Absent] /\ cloud = [r \in Row |-> Absent]
    /\ open = [r \in Row |-> 0]
    /\ checkpoint = [l \in {"push", "pull"} |-> 0]
    /\ push = Resting /\ retry = <<>> /\ dead = {} /\ sent = {} /\ pull = <<>>
    /\ applied = [r \in Row |-> 0] /\ excused = {} /\ raced = FALSE

Fault == faults < MaxFaults /\ faults' = faults + 1

Tick ==
    /\ clock < MaxClock
    /\ clock' = clock + 1
    /\ UNCHANGED <<entity, edits, faults, shopVars, agentVars, cloudVars, excused>>

-------------------------------------------------------------------------------
(* The shop's database, and the managers of the cloud. *)

ChangeBegin(r) ==
    /\ open[r] = 0
    /\ edits < MaxEdits
    /\ open' = [open EXCEPT ![r] = clock]
    /\ UNCHANGED <<entity, clock, edits, faults, row, agentVars, cloudVars, excused>>

Latest(rows) == Max({rows[r].ts : r \in DOMAIN rows})

\* The checkpoint jumps a change that becomes visible when it has come to its
\* time, and may jump one of two changes of one time, on a whole millisecond.
Overtaken(ts) == \/ ts <= checkpoint["push"]
                 \/ push.pc = "post" /\ ts <= Latest(push.item.rows)
Twins(ts) == {o \in Row : row[o].ts = ts /\ ts % 2 = 0}
Jumped(changed, ts) ==
    IF \/ Overtaken(ts)
       \/ ts % 2 = 0 /\ Cardinality(changed \cup Twins(ts)) > 1
    THEN excused \cup changed \cup Twins(ts)
    ELSE excused \ changed

ChangeCommit(r) ==
    /\ open[r] # 0 /\ edits < MaxEdits
    /\ edits' = edits + 1
    /\ row' = [row EXCEPT ![r] = [val |-> edits + 1, ts |-> open[r]]]
    /\ open' = [open EXCEPT ![r] = 0]
    /\ excused' = Jumped({r}, open[r])
    /\ UNCHANGED <<entity, clock, faults, agentVars, cloudVars>>

ManagerEdits(r) ==
    /\ cloud[r] # Absent /\ edits < MaxEdits
    /\ edits' = edits + 1
    /\ cloud' = [cloud EXCEPT ![r] = [val |-> edits + 1, ts |-> clock]]
    /\ UNCHANGED <<entity, clock, faults, shopVars, agentVars, sent, applied, raced, excused>>

-------------------------------------------------------------------------------
(* The agent.  Its loops run beside each other, each one cycle at a time.  *)

CeilToMillisecond(ts) == ts + (ts % 2)   \* mutant: rounded instead of cut
ToMillisecond(ts) == ts - (ts % 2)

SaveCheckpoint(loop, rows) ==
    checkpoint' = [checkpoint EXCEPT ![loop] = ToMillisecond(Latest(rows))]

\* ORDER BY updated_at LIMIT: the earliest rows after the checkpoint.
Due(table, since) == {r \in Row : table[r].ts > since}
FirstOf(table, since) ==
    {b \in SUBSET Due(table, since) :
        /\ b # {}
        /\ \/ b = Due(table, since) /\ Cardinality(b) < BatchSize
           \/ Cardinality(b) = BatchSize
        /\ \A r \in b, o \in Due(table, since) \ b : table[r].ts <= table[o].ts}

\* A request leaves: it reaches the cloud now or later, or never (CutOff).
Post(rows) ==
    sent' = sent \cup {[rows |-> rows, pc |-> "begin", read |-> <<>>, heard |-> TRUE]}

StartCycle ==
    /\ push.pc = "idle"
    /\ push' = [push EXCEPT !.pc = "drain", !.todo = retry]
    /\ UNCHANGED <<entity, clock, edits, faults, shopVars, checkpoint, retry, dead,
                   pull, cloudVars, excused>>

Exhausted(i) == i.tries >= MaxTries

\* clearRetryItem: the one item under this key goes (Fails adds no second one).
Without(items, key) ==
    IF \E n \in DOMAIN items : items[n].key = key
    THEN RemoveAt(items, CHOOSE n \in DOMAIN items : items[n].key = key)
    ELSE items

Promote ==
    LET i == Head(push.todo) IN
    /\ push.pc = "drain" /\ push.todo # <<>> /\ Exhausted(i)
    /\ dead' = dead \cup {i}
    /\ retry' = Without(retry, i.key)
    /\ push' = [push EXCEPT !.todo = Tail(@)]
    /\ UNCHANGED <<entity, clock, edits, faults, shopVars, checkpoint, pull,
                   cloudVars, excused>>

Replay ==
    LET i == Head(push.todo) IN
    /\ push.pc = "drain" /\ push.todo # <<>> /\ ~Exhausted(i)
    /\ Post(i.rows)
    /\ push' = [push EXCEPT !.pc = "replay", !.todo = Tail(@), !.item = i]
    /\ UNCHANGED <<entity, clock, edits, faults, shopVars, checkpoint, retry, dead,
                   pull, cloud, applied, raced, excused>>

\* The batch of this cycle, under the key of its checkpoint and its size.
PostBatch ==
    /\ push.pc = "drain" /\ push.todo = <<>>
    /\ \E b \in FirstOf(row, checkpoint["push"]) :
          LET rows == [r \in b |-> row[r]] IN
          /\ Post(rows)
          /\ push' = [Resting EXCEPT !.pc = "post",
                !.item = [key |-> <<checkpoint["push"], Cardinality(b)>>,
                          rows |-> rows, tries |-> 0]]
    /\ UNCHANGED <<entity, clock, edits, faults, shopVars, checkpoint, retry, dead,
                   pull, cloud, applied, raced, excused>>

NothingDue ==
    /\ push.pc = "drain" /\ push.todo = <<>> /\ Due(row, checkpoint["push"]) = {}
    /\ push' = Resting
    /\ UNCHANGED <<entity, clock, edits, faults, shopVars, checkpoint, retry, dead,
                   pull, cloudVars, excused>>

\* The answer 200: the item is cleared, or the checkpoint advances.
Hears ==
    IF push.pc = "replay"
    THEN /\ push' = [push EXCEPT !.pc = "drain", !.item = NoItem]
         /\ retry' = Without(retry, push.item.key)
         /\ UNCHANGED checkpoint
    ELSE /\ push' = Resting
         /\ SaveCheckpoint("push", push.item.rows)
         /\ UNCHANGED retry

\* No answer: an attempt more, or a new item, unless its key is in the queue.
FailsHanging ==   \* mutant: the running flag of the loop is not cleared
    /\ retry' = Append(retry, push.item)
    /\ UNCHANGED push

Fails ==
    IF push.pc = "replay"
    THEN /\ push' = [push EXCEPT !.pc = "drain", !.item = NoItem]
         /\ retry' = [n \in DOMAIN retry |->
                        IF retry[n].key = push.item.key
                        THEN [retry[n] EXCEPT !.tries = @ + 1] ELSE retry[n]]
    ELSE /\ push' = Resting
         /\ retry' = IF \E n \in DOMAIN retry : retry[n].key = push.item.key
                     THEN retry ELSE Append(retry, push.item)

\* The connection breaks: the request goes on in the cloud, or never got there.
Breaks ==
    /\ IF push.pc = "replay" THEN UNCHANGED faults ELSE Fault
    /\ \E c \in sent :
          /\ c.heard
          /\ \/ sent' = (sent \ {c}) \cup {[c EXCEPT !.heard = FALSE]}
             \/ sent' = sent \ {c}
    /\ Fails
    /\ UNCHANGED <<entity, clock, edits, shopVars, checkpoint, dead, pull, cloud,
                   applied, raced, excused>>

\* The agent is stopped and started: what is in memory is gone.
Crash ==
    /\ Fault
    /\ push' = Resting
    /\ pull' = <<>>
    /\ sent' = {[c EXCEPT !.heard = FALSE] : c \in sent}
    /\ UNCHANGED <<entity, clock, edits, shopVars, checkpoint, retry, dead, cloud, applied,
                   raced, excused>>

-------------------------------------------------------------------------------
(* The cloud carries out a batch: reads the rows, then writes them in one  *)
(* commit.  It answers 200 even when the commit fails (sync.py:224, 332).  *)

\* sync/conflict_policy.py: resolve.
Resolve(policy, local, theirs) ==
    CASE policy = "cloud_wins" -> theirs.val
      [] policy = "local_wins" -> local.val
      [] policy = "immutable"  -> IF theirs.val # 0 THEN theirs.val ELSE local.val
      [] policy = "lww"        -> IF local.ts > theirs.ts THEN local.val ELSE theirs.val

\* MANIFEST: the policy of a field of a table, by kind of field; a field that is
\* not listed has the default.
Manifest ==
    [products  |-> [catalogue |-> "cloud_wins", stock |-> "local_wins", default |-> "cloud_wins"],
     customers |-> [contact |-> "lww", credit |-> "cloud_wins", default |-> "lww"]]
PolicyOf(table, field) ==
    Manifest[table][IF field \in DOMAIN Manifest[table] THEN field ELSE "default"]

\* sync_products passes its own row as "local" and the shop's as "cloud":
\* every field of the manifest it resolves is cloud_wins, so the shop's wins.
ProductValue(mine, theirs) == Resolve(PolicyOf("products", "catalogue"), mine, theirs)

\* sync_customers: a record not newer than the last write is skipped.
NeverStale(mine, theirs) == FALSE   \* mutant: the times are not compared
Stale(mine, theirs) == theirs.ts <= mine.ts

CustomerValue(mine, theirs) == IF Stale(mine, theirs) THEN mine.val ELSE theirs.val

Upserted(mine, theirs) ==
    IF mine = Absent THEN theirs.val
    ELSE IF entity = "products" THEN ProductValue(mine, theirs)
    ELSE CustomerValue(mine, theirs)

\* The rows are read, and written in one commit later.
ReadRows(c) ==
    /\ c.pc = "begin"
    /\ sent' = (sent \ {c}) \cup
          {[c EXCEPT !.pc = "read", !.read = [r \in DOMAIN c.rows |-> cloud[r]]]}
    /\ raced' = (raced \/ \E o \in sent : o.pc = "read")
    /\ UNCHANGED <<entity, clock, edits, faults, shopVars, agentVars, cloud, applied, excused>>

\* Two requests that both insert a row: the second violates the unique key.
Collides(c) == \E r \in DOMAIN c.rows : c.read[r] = Absent /\ cloud[r] # Absent

\* A row is written, and its updated_at with it, if its contents change.
Written(c, r) == Upserted(c.read[r], c.rows[r])

CommitRows(c) ==
    /\ cloud' = [r \in Row |->
          IF r \in DOMAIN c.rows /\ Written(c, r) # c.read[r].val
          THEN [val |-> Written(c, r), ts |-> clock] ELSE cloud[r]]
    /\ applied' = [r \in Row |->
          IF r \in DOMAIN c.rows /\ Written(c, r) = c.rows[r].val
          THEN Max({applied[r], c.rows[r].val}) ELSE applied[r]]

\* Changes the answer says were taken, and that were not: the commit failed, or
\* the record was skipped because it is older than the cloud's last write.
Dropped(c) == {r \in DOMAIN c.rows : row[r] = c.rows[r] /\ applied'[r] < c.rows[r].val}

Serve(c) ==
    /\ c.pc = "read"
    /\ \/ ~Collides(c) /\ CommitRows(c) /\ UNCHANGED faults
       \/ Collides(c) /\ UNCHANGED <<cloud, applied, faults>>
       \/ Fault /\ UNCHANGED <<cloud, applied>>
    /\ IF c.heard THEN Hears ELSE UNCHANGED <<push, retry, checkpoint>>
    /\ sent' = sent \ {c}
    /\ excused' = IF c.heard THEN excused \cup Dropped(c) ELSE excused
    /\ UNCHANGED <<entity, clock, edits, shopVars, dead, pull, raced>>

-------------------------------------------------------------------------------
(* Pulling products: fetch, then apply in one transaction of the shop.     *)

Fetch ==
    /\ entity = "products" /\ pull = <<>>
    /\ \E b \in FirstOf(cloud, checkpoint["pull"]) : pull' = [r \in b |-> cloud[r]]
    /\ UNCHANGED <<entity, clock, edits, faults, shopVars, checkpoint, push, retry,
                   dead, cloudVars, excused>>

\* The rows are updated when no change of them is open.  If one update fails, the
\* transaction is aborted and nothing is written; the checkpoint is saved either way.
Apply ==
    LET Here == {r \in DOMAIN pull : row[r] # Absent} IN
    /\ pull # <<>>
    /\ \/ /\ \A r \in DOMAIN pull : open[r] = 0
          /\ row' = [r \in Row |-> IF r \in Here THEN [val |-> pull[r].val, ts |-> clock]
                                   ELSE row[r]]
          /\ excused' = IF Here = {} THEN excused ELSE Jumped(Here, clock)
          /\ UNCHANGED faults
       \/ Fault /\ UNCHANGED <<row, excused>>
    /\ SaveCheckpoint("pull", pull)
    /\ pull' = <<>>
    /\ UNCHANGED <<entity, clock, edits, open, push, retry, dead, cloudVars>>

-------------------------------------------------------------------------------
PushStep == StartCycle \/ Promote \/ Replay \/ PostBatch \/ NothingDue
CloudStep == \E c \in sent : ReadRows(c) \/ Serve(c)
PullStep == Fetch \/ Apply

Next ==
    \/ Tick
    \/ \E r \in Row : ChangeBegin(r) \/ ChangeCommit(r) \/ ManagerEdits(r)
    \/ PushStep \/ CloudStep \/ PullStep
    \/ Breaks \/ Crash

Fairness == WF_vars(PushStep) /\ WF_vars(CloudStep)

Spec == Init /\ [][Next]_vars /\ Fairness

-------------------------------------------------------------------------------
\* What lies before the checkpoint has been brought to the cloud: whatever broke
\* or was replayed, except changes that became visible late and those the cloud
\* dropped although it answered 200.
BehindCheckpoint ==
    \A r \in Row : row[r].ts <= checkpoint["push"] => applied[r] >= row[r].val \/ r \in excused

\* A customer never goes back to an older edit of the shop, whatever is replayed,
\* as long as no two requests are carried out at once.
NeverBack ==
    [][entity = "customers" /\ ~raced' =>
         \A r \in Row : cloud'[r].val # cloud[r].val => cloud'[r].val >= applied[r]]_vars

\* BatchSize rows inside one millisecond are sent again and again, and no other.
Crowded == \E ms \in Time : Cardinality({r \in Row : row[r].ts = ms + 1 /\ ms % 2 = 0}) >= BatchSize

\* Every change of the shop is brought to the cloud in the end, but for those.
ChangesArrive ==
    []<>(Crowded \/ \A r \in Row : applied[r] >= row[r].val \/ r \in excused)

===============================================================================

---------------------------- MODULE OutboxProofs ----------------------------
(***************************************************************************)
(* What holds of Outbox for any sales, requests and retries: a sale is in  *)
(* the cloud at most once, and is there when it is marked synced; and a    *)
(* sale that is filed with eTIMS stays filed.                              *)
(***************************************************************************)
EXTENDS Outbox, TLAPS

(* A request in the cloud and the cycle of the agent are records. *)
Call(r) ==
    r \in [pc: {"free", "begin", "ingest", "key", "ok", "error"}, load: {r.load}, todo: {r.todo},
           looked: BOOLEAN, new: {r.new}, confirmed: {r.confirmed}]
Cycle(a) ==
    a \in [pc: {a.pc}, todo: {a.todo}, item: {a.item}, waits: {a.waits}, acks: {a.acks}]

CloudShape ==
    /\ request = [q \in Request |-> request[q]] /\ \A q \in Request : Call(request[q])
    /\ Cycle(agent)
    /\ posted \in [Sale -> {0, 1}]

(* What a request has written and not committed is its own, and new.         *)
Uncommitted(q) ==
    /\ request[q].new # {} => request[q].pc = "ingest"
    /\ request[q].looked => request[q].pc = "ingest" /\ request[q].todo # {}
    /\ \A s \in request[q].new : s \in Sale => posted[s] = 0
    /\ \A p \in Request \ {q} : request[q].new \cap request[p].new = {}

(* What a request will confirm is there, or among what it will commit.       *)
Confirms(q) ==
    request[q].pc # "error" =>
        \A s \in request[q].confirmed \ request[q].new : s \in Sale => posted[s] = 1

(* What the cloud remembers, the agent has heard and the rows say, is there. *)
There(S) == \A s \in S : s \in Sale => posted[s] = 1
Heard ==
    /\ \A k \in DOMAIN keys : There(keys[k].confirmed)
    /\ There(agent.acks)
    /\ There(synced)

CloudInv == CloudShape /\ (\A q \in Request : Uncommitted(q) /\ Confirms(q)) /\ Heard

LEMMA NoCallShape ==
    /\ Call(NoCall) /\ NoCall.new = {} /\ NoCall.confirmed = {} /\ NoCall.todo = {}
    /\ NoCall.pc = "free" /\ NoCall.looked = FALSE
  BY DEF NoCall, Call

LEMMA RestingShape == Cycle(Resting) /\ Resting.acks = {}
  BY DEF Resting, Cycle

LEMMA InitCloud == Init => CloudInv
<1> SUFFICES ASSUME Init PROVE CloudInv
  OBVIOUS
<1>1. \A q \in Request : request[q] = NoCall
  BY DEF Init
<1>2. CloudShape
  BY <1>1, NoCallShape, RestingShape DEF Init, CloudShape
<1>3. \A q \in Request : Uncommitted(q) /\ Confirms(q)
  BY <1>1, NoCallShape DEF Uncommitted, Confirms
<1>4. DOMAIN keys = {} /\ synced = {} /\ agent = Resting
  BY DEF Init
<1>5. Heard
  BY <1>4, RestingShape DEF Heard, There
<1> QED BY <1>2, <1>3, <1>5 DEF CloudInv

(* A request that changes without touching the tables or what it has written. *)
LEMMA RequestMoves ==
    ASSUME CloudInv, NEW q \in Request, NEW r, request' = [request EXCEPT ![q] = r],
           posted' = posted, Call(r), r.new = {} \/ (r.new = request[q].new /\ r.pc = "ingest"),
           r.looked => r.pc = "ingest" /\ r.todo # {},
           r.pc # "error" => There(r.confirmed \ r.new)
    PROVE  /\ request' = [p \in Request |-> request'[p]] /\ \A p \in Request : Call(request'[p])
           /\ \A p \in Request : Uncommitted(p)' /\ Confirms(p)'
           /\ request'[q] = r /\ \A p \in Request \ {q} : request'[p] = request[p]
<1>1. request' = [p \in Request |-> IF p = q THEN r ELSE request[p]]
  BY DEF CloudInv, CloudShape
<1>2. request'[q] = r /\ \A p \in Request \ {q} : request'[p] = request[p]
  BY <1>1
<1>3. /\ request' = [p \in Request |-> request'[p]] /\ \A p \in Request : Call(request'[p])
  BY <1>1, <1>2 DEF CloudInv, CloudShape
<1>4. \A p \in Request : request'[p].new = {} \/ request'[p].new = request[p].new
  BY <1>2
<1>5. \A p \in Request : Uncommitted(p)'
  <2> SUFFICES ASSUME NEW p \in Request PROVE Uncommitted(p)'
    OBVIOUS
  <2>1. Uncommitted(p)
    BY DEF CloudInv
  <2>2. request'[p].new # {} => request'[p].pc = "ingest"
    BY <1>2, <2>1 DEF Uncommitted
  <2>3. request'[p].looked => request'[p].pc = "ingest" /\ request'[p].todo # {}
    BY <1>2, <2>1 DEF Uncommitted
  <2>4. \A s \in request'[p].new : s \in Sale => posted'[s] = 0
    BY <1>4, <2>1 DEF Uncommitted
  <2>5. \A x \in Request \ {p} : request'[p].new \cap request'[x].new = {}
    BY <1>4, <2>1 DEF Uncommitted
  <2> QED BY <2>2, <2>3, <2>4, <2>5 DEF Uncommitted
<1>6. \A p \in Request : Confirms(p)'
  BY <1>2 DEF CloudInv, Confirms, There
<1> QED BY <1>2, <1>3, <1>5, <1>6

(* The agent, the keys and the rows, when the cloud's sales stay. *)
LEMMA HeardStays ==
    ASSUME CloudInv, UNCHANGED <<posted, keys, synced>>, There(agent'.acks) PROVE Heard'
  BY DEF CloudInv, Heard, There

LEMMA LookUpKeyKeeps ==
    ASSUME CloudInv, NEW q \in Request, LookUpKey(q), UNCHANGED agentVars PROVE CloudInv'
<1> DEFINE r == request[q]
           k == KeyOf(r.load)
           x == IF k \notin DOMAIN keys THEN [r EXCEPT !.pc = "ingest", !.todo = k]
                ELSE IF keys[k].load # r.load THEN [r EXCEPT !.pc = "error"]
                ELSE [r EXCEPT !.pc = "ok", !.confirmed = keys[k].confirmed]
<1>1. /\ r.pc = "begin" /\ request' = [request EXCEPT ![q] = x]
      /\ UNCHANGED <<posted, keys, synced, agent>> /\ Call(r) /\ Uncommitted(q) /\ Confirms(q)
  BY DEF LookUpKey, agentVars, CloudInv, CloudShape
<1>2. r.new = {} /\ ~r.looked
  BY <1>1 DEF Uncommitted
<1>3. /\ Call(x) /\ x.new = {} /\ ~x.looked
      /\ x.confirmed = r.confirmed \/ (k \in DOMAIN keys /\ x.confirmed = keys[k].confirmed)
  <2>1. CASE k \notin DOMAIN keys
    BY <1>1, <1>2, <2>1 DEF Call
  <2>2. CASE k \in DOMAIN keys /\ keys[k].load # r.load
    BY <1>1, <1>2, <2>2 DEF Call
  <2>3. CASE k \in DOMAIN keys /\ keys[k].load = r.load
    BY <1>1, <1>2, <2>3 DEF Call
  <2> QED BY <2>1, <2>2, <2>3
<1>4. There(r.confirmed)
  BY <1>1, <1>2 DEF Confirms, There
<1>5. There(x.confirmed)
  BY <1>3, <1>4 DEF CloudInv, Heard
<1> HIDE DEF x
<1>6. There(x.confirmed \ x.new)
  BY <1>5 DEF There
<1>7. /\ request' = [p \in Request |-> request'[p]] /\ \A p \in Request : Call(request'[p])
      /\ \A p \in Request : Uncommitted(p)' /\ Confirms(p)'
  BY <1>1, <1>3, <1>6, RequestMoves
<1>8. Heard'
  BY <1>1, HeardStays DEF CloudInv, Heard
<1> QED BY <1>1, <1>7, <1>8 DEF CloudInv, CloudShape

(* The same as a whole, for a step that leaves keys and rows alone. *)
LEMMA MovesKeep ==
    ASSUME CloudInv, NEW q \in Request, NEW r, request' = [request EXCEPT ![q] = r],
           UNCHANGED <<posted, keys, synced>>, Cycle(agent'), There(agent'.acks),
           Call(r), r.new = {} \/ (r.new = request[q].new /\ r.pc = "ingest"),
           r.looked => r.pc = "ingest" /\ r.todo # {},
           r.pc # "error" => There(r.confirmed \ r.new)
    PROVE  CloudInv'
<1>1. /\ request' = [p \in Request |-> request'[p]] /\ \A p \in Request : Call(request'[p])
      /\ \A p \in Request : Uncommitted(p)' /\ Confirms(p)'
  BY RequestMoves
<1>2. Heard'
  BY HeardStays
<1> QED BY <1>1, <1>2 DEF CloudInv, CloudShape

LEMMA LookUpSaleKeeps ==
    ASSUME CloudInv, NEW q \in Request, LookUpSale(q), UNCHANGED agentVars PROVE CloudInv'
<1> DEFINE r == request[q]
           s == Min(r.todo)
           x == IF posted[s] = 0 THEN [r EXCEPT !.looked = TRUE]
                ELSE [r EXCEPT !.todo = r.todo \ {s}, !.confirmed = r.confirmed \cup {s}]
<1>1. /\ r.pc = "ingest" /\ r.todo # {} /\ ~r.looked /\ request' = [request EXCEPT ![q] = x]
      /\ UNCHANGED <<posted, keys, synced, agent>> /\ Call(r) /\ Uncommitted(q) /\ Confirms(q)
      /\ Cycle(agent) /\ There(agent.acks)
  BY DEF LookUpSale, agentVars, CloudInv, CloudShape, Heard
<1>2. There(r.confirmed \ r.new)
  BY <1>1 DEF Confirms, There
<1>3. posted \in [Sale -> {0, 1}]
  BY DEF CloudInv, CloudShape
<1>4. CASE posted[s] = 0
  <2>1. Call(x) /\ x.new = r.new /\ x.pc = "ingest" /\ x.todo = r.todo /\ x.confirmed = r.confirmed
    BY <1>1, <1>4 DEF Call
  <2> HIDE DEF x
  <2> QED BY <1>1, <1>2, <2>1, MovesKeep
<1>5. CASE posted[s] # 0
  <2>1. Call(x) /\ x.new = r.new /\ x.pc = "ingest" /\ ~x.looked /\ x.confirmed = r.confirmed \cup {s}
    BY <1>1, <1>5 DEF Call
  <2>2. There(x.confirmed \ x.new)
    BY <1>2, <1>3, <1>5, <2>1 DEF There
  <2> HIDE DEF x
  <2> QED BY <1>1, <2>1, <2>2, MovesKeep
<1> QED BY <1>4, <1>5

LEMMA IngestKeeps ==
    ASSUME CloudInv, NEW q \in Request, Ingest(q), UNCHANGED agentVars PROVE CloudInv'
<1> DEFINE r == request[q]
           s == Min(r.todo)
           done == [r EXCEPT !.todo = r.todo \ {s}, !.looked = FALSE]
           more == [done EXCEPT !.new = done.new \cup {s}, !.confirmed = done.confirmed \cup {s}]
<1>1. /\ r.looked /\ ~Inserting(s, q)
      /\ \/ ~Duplicate(s) /\ request' = [request EXCEPT ![q] = more]
         \/ request' = [request EXCEPT ![q] = done]
      /\ UNCHANGED <<posted, keys, synced, agent>> /\ Call(r) /\ Uncommitted(q) /\ Confirms(q)
      /\ Cycle(agent) /\ There(agent.acks)
  BY DEF Ingest, agentVars, CloudInv, CloudShape, Heard
<1>2. r.pc = "ingest"
  BY <1>1 DEF Uncommitted
<1>3. There(r.confirmed \ r.new)
  BY <1>1, <1>2 DEF Confirms, There
<1>4. /\ Call(done) /\ done.new = r.new /\ done.pc = "ingest" /\ ~done.looked
      /\ done.confirmed = r.confirmed
  BY <1>1, <1>2 DEF Call
<1>5. /\ Call(more) /\ more.new = r.new \cup {s} /\ more.pc = "ingest" /\ ~more.looked
      /\ more.confirmed = r.confirmed \cup {s}
  <2> HIDE DEF done
  <2> QED BY <1>4 DEF Call
<1>6. CASE request' = [request EXCEPT ![q] = done]
  <2> HIDE DEF done
  <2> QED BY <1>1, <1>3, <1>4, <1>6, MovesKeep
<1>7. CASE ~Duplicate(s) /\ request' = [request EXCEPT ![q] = more]
  <2> HIDE DEF done, more
  <2>1. request = [p \in Request |-> request[p]] /\ posted \in [Sale -> {0, 1}]
    BY DEF CloudInv, CloudShape
  <2>2. request'[q] = more /\ \A p \in Request \ {q} : request'[p] = request[p]
    BY <1>7, <2>1
  <2>3. request' = [p \in Request |-> request'[p]] /\ \A p \in Request : Call(request'[p])
    BY <1>5, <1>7, <2>1, <2>2 DEF CloudInv, CloudShape
  <2>4. s \in Sale => posted[s] = 0
    BY <1>7, <2>1 DEF Duplicate
  <2>5. Uncommitted(q)'
    <3>1. \A t \in request'[q].new : t \in Sale => posted'[t] = 0
      BY <1>1, <1>5, <2>2, <2>4 DEF Uncommitted
    <3>2. \A p \in Request \ {q} : request'[q].new \cap request'[p].new = {}
      BY <1>1, <1>5, <2>2 DEF Uncommitted, Inserting
    <3> QED BY <1>5, <2>2, <3>1, <3>2 DEF Uncommitted
  <2>6. ASSUME NEW p \in Request \ {q} PROVE Uncommitted(p)'
    <3>1. Uncommitted(p) /\ request'[p] = request[p]
      BY <2>2 DEF CloudInv
    <3>2. \A x \in Request \ {p} : request'[p].new \cap request'[x].new = {}
      BY <1>1, <1>5, <2>2, <3>1 DEF Uncommitted, Inserting
    <3> QED BY <1>1, <3>1, <3>2 DEF Uncommitted
  <2>7. \A p \in Request : Confirms(p)'
    BY <1>1, <1>3, <1>5, <2>2 DEF CloudInv, Confirms, There
  <2>8. Heard'
    BY <1>1, HeardStays
  <2>9. \A p \in Request : Uncommitted(p)'
    BY <2>5, <2>6
  <2> QED BY <1>1, <2>1, <2>3, <2>7, <2>8, <2>9 DEF CloudInv, CloudShape
<1> QED BY <1>1, <1>6, <1>7

(* What a request commits was in no table and is no other request's. *)
LEMMA CommitBatchKeeps ==
    ASSUME CloudInv, NEW q \in Request, CommitBatch(q), UNCHANGED agentVars PROVE CloudInv'
<1> DEFINE r == request[q]
           x == [r EXCEPT !.pc = "key", !.new = {}]
<1>1. /\ r.pc = "ingest" /\ r.todo = {} /\ Call(r) /\ Uncommitted(q) /\ Confirms(q)
      /\ posted' = [s \in Sale |-> posted[s] + (IF s \in r.new THEN 1 ELSE 0)]
      /\ UNCHANGED <<keys, synced, agent>>
      /\ request = [p \in Request |-> request[p]] /\ posted \in [Sale -> {0, 1}]
      /\ request' = [request EXCEPT ![q].pc = "key", ![q].new = {}]
  BY DEF CommitBatch, agentVars, CloudInv, CloudShape
<1>2. request'[q] = x /\ \A p \in Request \ {q} : request'[p] = request[p]
  BY <1>1
<1>3. Call(x) /\ x.new = {} /\ x.pc = "key" /\ x.confirmed = r.confirmed /\ x.looked = r.looked
  BY <1>1 DEF Call
<1> HIDE DEF x
<1>4. ~r.looked
  BY <1>1 DEF Uncommitted
<1>5. request' = [p \in Request |-> request'[p]] /\ \A p \in Request : Call(request'[p])
  <2>1. request' = [p \in Request |-> request'[p]]
    BY <1>1
  <2> QED BY <1>2, <1>3, <2>1 DEF CloudInv, CloudShape
<1>6. \A s \in r.new : s \in Sale => posted[s] = 0
  BY <1>1 DEF Uncommitted
<1>7. posted' \in [Sale -> {0, 1}]
  BY <1>1, <1>6
<1>8. /\ \A s \in Sale : posted[s] = 1 => posted'[s] = 1
      /\ \A s \in Sale : s \in r.new => posted'[s] = 1
      /\ \A s \in Sale : s \notin r.new => posted'[s] = posted[s]
  BY <1>1, <1>6
<1>9. ASSUME NEW p \in Request PROVE Uncommitted(p)' /\ Confirms(p)'
  <2>1. CASE p = q
    <3>1. Uncommitted(p)'
      BY <1>2, <1>3, <1>4, <2>1 DEF Uncommitted
    <3>2. Confirms(p)'
      BY <1>1, <1>2, <1>3, <1>8, <2>1 DEF Confirms
    <3> QED BY <3>1, <3>2
  <2>2. CASE p # q
    <3>1. Uncommitted(p) /\ Confirms(p) /\ request'[p] = request[p]
      BY <1>2, <2>2 DEF CloudInv
    <3>2. \A s \in request[p].new : s \notin r.new
      BY <1>1, <2>2 DEF Uncommitted
    <3>3. Uncommitted(p)'
      <4>1. \A s \in request'[p].new : s \in Sale => posted'[s] = 0
        BY <1>8, <3>1, <3>2 DEF Uncommitted
      <4>2. \A y \in Request \ {p} : request'[p].new \cap request'[y].new = {}
        BY <1>2, <1>3, <3>1 DEF Uncommitted
      <4> QED BY <3>1, <4>1, <4>2 DEF Uncommitted
    <3>4. Confirms(p)'
      BY <1>8, <3>1 DEF Confirms
    <3> QED BY <3>3, <3>4
  <2> QED BY <2>1, <2>2
<1>10. Heard'
  BY <1>1, <1>8 DEF CloudInv, Heard, There
<1> QED BY <1>1, <1>5, <1>7, <1>9, <1>10 DEF CloudInv, CloudShape

LEMMA StoreKeyKeeps ==
    ASSUME CloudInv, NEW q \in Request, StoreKey(q), UNCHANGED agentVars PROVE CloudInv'
<1> DEFINE r == request[q]
           k == KeyOf(r.load)
           e == [r EXCEPT !.pc = "error"]
           d == [r EXCEPT !.pc = "ok"]
<1>1. /\ r.pc = "key" /\ UNCHANGED <<posted, synced, agent>> /\ Call(r) /\ Uncommitted(q) /\ Confirms(q)
      /\ Cycle(agent) /\ There(agent.acks) /\ request = [p \in Request |-> request[p]]
  BY DEF StoreKey, agentVars, CloudInv, CloudShape, Heard
<1>2. r.new = {} /\ ~r.looked
  BY <1>1 DEF Uncommitted
<1>3. There(r.confirmed)
  BY <1>1, <1>2 DEF Confirms, There
<1>4. /\ Call(e) /\ e.new = {} /\ ~e.looked /\ e.pc = "error"
      /\ Call(d) /\ d.new = {} /\ ~d.looked /\ d.pc = "ok" /\ d.confirmed = r.confirmed
  BY <1>1, <1>2 DEF Call
<1>5. There(d.confirmed \ d.new)
  BY <1>3, <1>4 DEF There
<1>6. CASE k \in DOMAIN keys
  <2>1. request' = [request EXCEPT ![q] = e] /\ keys' = keys
    BY <1>1, <1>6 DEF StoreKey
  <2> HIDE DEF e
  <2> QED BY <1>1, <1>4, <2>1, MovesKeep
<1>7. CASE k \notin DOMAIN keys
  <2>1. /\ request' = [request EXCEPT ![q] = d]
        /\ keys' = [j \in DOMAIN keys \cup {k} |->
                      IF j = k THEN [load |-> r.load, confirmed |-> r.confirmed] ELSE keys[j]]
    BY <1>1, <1>7 DEF StoreKey
  <2> HIDE DEF d, k
  <2>2. /\ request' = [p \in Request |-> request'[p]] /\ \A p \in Request : Call(request'[p])
        /\ \A p \in Request : Uncommitted(p)' /\ Confirms(p)'
    BY <1>1, <1>4, <1>5, <2>1, RequestMoves
  <2>3. Heard'
    BY <1>1, <1>3, <2>1 DEF CloudInv, Heard, There
  <2> QED BY <1>1, <2>2, <2>3 DEF CloudInv, CloudShape
<1> QED BY <1>6, <1>7

(* A request that is new, done with or broken off holds nothing. *)
LEMMA EmptyCallKeeps ==
    ASSUME CloudInv, NEW q \in Request, NEW r, request' = [request EXCEPT ![q] = r],
           UNCHANGED <<posted, keys, synced>>, Cycle(agent'), There(agent'.acks),
           Call(r), r.new = {}, r.confirmed = {} \/ r.pc = "error", ~r.looked
    PROVE  CloudInv'
<1>1. r.pc # "error" => There(r.confirmed \ r.new)
  BY DEF There
<1> QED BY <1>1, MovesKeep

LEMMA CallsEnd ==
    ASSUME CloudInv, NEW q \in Request, Unheard(q) \/ FailCommit(q) \/ CutOff(q), UNCHANGED agentVars
    PROVE  CloudInv'
<1> DEFINE r == request[q]
<1>1. /\ Call(r) /\ Uncommitted(q) /\ UNCHANGED <<posted, keys, synced, agent>>
      /\ Cycle(agent) /\ There(agent.acks) /\ request = [p \in Request |-> request[p]]
  BY DEF CloudInv, CloudShape, Heard, Unheard, FailCommit, CutOff, agentVars
<1>2. CASE Unheard(q)
  <2>1. request' = [request EXCEPT ![q] = NoCall]
    BY <1>2 DEF Unheard
  <2> QED BY <1>1, <2>1, NoCallShape, EmptyCallKeeps
<1>3. CASE FailCommit(q)
  <2> DEFINE x == [r EXCEPT !.pc = "ok", !.new = {}, !.confirmed = {}]
  <2>1. request' = [request EXCEPT ![q] = x] /\ r.todo = {}
    BY <1>1, <1>3 DEF FailCommit
  <2>2. ~r.looked
    BY <1>1, <2>1 DEF Uncommitted
  <2>3. Call(x) /\ x.new = {} /\ x.confirmed = {} /\ ~x.looked
    BY <1>1, <2>2 DEF Call
  <2> HIDE DEF x
  <2> QED BY <1>1, <2>1, <2>3, EmptyCallKeeps
<1>4. CASE CutOff(q)
  <2> DEFINE x == [r EXCEPT !.pc = "error", !.todo = {}, !.new = {}, !.looked = FALSE]
  <2>1. request' = [request EXCEPT ![q] = x]
    BY <1>1, <1>4 DEF CutOff
  <2>2. Call(x) /\ x.new = {} /\ x.pc = "error" /\ ~x.looked
    BY <1>1 DEF Call
  <2> HIDE DEF x
  <2> QED BY <1>1, <2>1, <2>2, EmptyCallKeeps
<1> QED BY <1>2, <1>3, <1>4

-----------------------------------------------------------------------------
(* The agent.  Where its cycle moves it hears nothing new of a sale.         *)
Onward == Cycle(agent') /\ (agent'.acks = agent.acks \/ agent'.acks = {})

LEMMA OnwardHeard == ASSUME CloudInv, Onward PROVE Cycle(agent') /\ There(agent'.acks)
  BY DEF Onward, CloudInv, Heard, There

LEMMA AgentMoves ==
    ASSUME CloudInv
    PROVE  /\ \A pc, todo : agent' = [agent EXCEPT !.pc = pc, !.todo = todo] => Onward
           /\ \A todo : agent' = [agent EXCEPT !.todo = todo] => Onward
           /\ \A w : agent' = [agent EXCEPT !.waits = w] => Onward
           /\ \A pc, w, i : agent' = [agent EXCEPT !.pc = pc, !.waits = w, !.item = i] => Onward
           /\ \A pc, w, i : agent' = [agent EXCEPT !.pc = pc, !.item = i, !.waits = w] => Onward
           /\ \A pc, t, w, i :
                 agent' = [agent EXCEPT !.pc = pc, !.todo = t, !.item = i, !.waits = w] => Onward
           /\ agent' = Resting => Onward
           /\ agent' = agent => Onward
<1>1. Cycle(agent)
  BY DEF CloudInv, CloudShape
<1>2. /\ \A pc, todo : agent' = [agent EXCEPT !.pc = pc, !.todo = todo] => Onward
      /\ \A todo : agent' = [agent EXCEPT !.todo = todo] => Onward
  BY <1>1 DEF Cycle, Onward
<1>3. \A w : agent' = [agent EXCEPT !.waits = w] => Onward
  BY <1>1 DEF Cycle, Onward
<1>4. \A pc, w, i : agent' = [agent EXCEPT !.pc = pc, !.waits = w, !.item = i] => Onward
  BY <1>1 DEF Cycle, Onward
<1>5. \A pc, w, i : agent' = [agent EXCEPT !.pc = pc, !.item = i, !.waits = w] => Onward
  BY <1>1 DEF Cycle, Onward
<1>6. \A pc, t, w, i :
          agent' = [agent EXCEPT !.pc = pc, !.todo = t, !.item = i, !.waits = w] => Onward
  BY <1>1 DEF Cycle, Onward
<1>7. agent' = Resting => Onward
  BY RestingShape DEF Onward
<1>8. agent' = agent => Onward
  BY <1>1 DEF Onward
<1> QED BY <1>2, <1>3, <1>4, <1>5, <1>6, <1>7, <1>8

LEMMA FailsOnward == ASSUME CloudInv, Fails PROVE Onward
  BY AgentMoves DEF Fails

(* A request that reaches the cloud has done nothing yet. *)
LEMMA ArrivesKeeps ==
    ASSUME CloudInv, NEW q \in Request, NEW load, Arrives(q, load), Onward,
           UNCHANGED <<posted, keys, synced>>
    PROVE  CloudInv'
<1> DEFINE x == [NoCall EXCEPT !.pc = "begin", !.load = load]
<1>1. request' = [request EXCEPT ![q] = x]
  BY DEF Arrives
<1>2. Call(x) /\ x.new = {} /\ x.confirmed = {} /\ ~x.looked
  BY DEF NoCall, Call
<1> HIDE DEF x
<1> QED BY <1>1, <1>2, OnwardHeard, EmptyCallKeeps

(* The cloud does not move: the agent does, or marks what it has heard of.   *)
LEMMA CloudRests ==
    ASSUME CloudInv, Onward, UNCHANGED cloudVars, There(synced') PROVE CloudInv'
<1>1. UNCHANGED <<request, posted, keys>>
  BY DEF cloudVars
<1>2. Cycle(agent') /\ There(agent'.acks)
  BY OnwardHeard
<1>3. CloudShape'
  BY <1>1, <1>2 DEF CloudInv, CloudShape
<1>4. \A q \in Request : Uncommitted(q)' /\ Confirms(q)'
  BY <1>1 DEF CloudInv, Uncommitted, Confirms
<1>5. Heard'
  BY <1>1, <1>2 DEF CloudInv, Heard, There
<1> QED BY <1>3, <1>4, <1>5 DEF CloudInv

LEMMA AnsweredKeeps ==
    ASSUME CloudInv, NEW q \in Request, Answered(q) \/ Refused(q) PROVE CloudInv'
<1> DEFINE r == request[q]
<1>1. /\ request' = [request EXCEPT ![q] = NoCall]
      /\ UNCHANGED <<posted, keys, synced>>
  BY DEF Answered, Refused
<1>2. CASE Refused(q)
  BY <1>1, <1>2, FailsOnward, OnwardHeard, NoCallShape, EmptyCallKeeps DEF Refused
<1>3. CASE Answered(q) /\ agent.pc = "replay"
  <2>0. agent' = [agent EXCEPT !.pc = "drain", !.item = NoItem, !.waits = NoRequest]
    BY <1>3 DEF Answered
  <2>1. Onward
    BY <2>0, AgentMoves
  <2> QED BY <1>1, <2>1, OnwardHeard, NoCallShape, EmptyCallKeeps
<1>4. CASE Answered(q) /\ agent.pc # "replay"
  <2>1. r.pc = "ok" /\ agent' = [Resting EXCEPT !.pc = "ack", !.acks = r.confirmed]
    BY <1>4 DEF Answered
  <2>2. Cycle(agent') /\ agent'.acks = r.confirmed
    BY <2>1 DEF Resting, Cycle
  <2>3. r.new = {} /\ Confirms(q)
    BY <2>1 DEF CloudInv, Uncommitted
  <2>4. There(agent'.acks)
    BY <2>1, <2>2, <2>3 DEF Confirms, There
  <2> QED BY <1>1, <2>2, <2>4, NoCallShape, EmptyCallKeeps
<1> QED BY <1>2, <1>3, <1>4

LEMMA AgentKeeps == ASSUME CloudInv, AgentStep PROVE CloudInv'
<1>0. There(synced) /\ There(agent.acks)
  BY DEF CloudInv, Heard
<1>1. ASSUME StartCycle \/ Promote \/ NothingPending \/ ReadFails PROVE CloudInv'
  <2>1. Onward /\ UNCHANGED cloudVars /\ synced' = synced
    BY <1>1, AgentMoves DEF StartCycle, Promote, NothingPending, ReadFails
  <2>2. There(synced')
    BY <1>0, <2>1 DEF There
  <2> QED BY <2>1, <2>2, CloudRests
<1>2. ASSUME Acknowledge PROVE CloudInv'
  <2>1. Onward /\ UNCHANGED cloudVars /\ synced' \subseteq synced \cup agent.acks
    BY <1>2, AgentMoves DEF Acknowledge
  <2>2. posted' = posted
    BY <2>1 DEF cloudVars
  <2>3. There(synced')
    BY <1>0, <2>1, <2>2 DEF There
  <2> QED BY <2>1, <2>3, CloudRests
<1>3. ASSUME NEW q \in Request, Replay(q) PROVE CloudInv'
  <2>1. PICK load : Arrives(q, load)
    BY <1>3 DEF Replay
  <2>2. Onward /\ UNCHANGED <<posted, keys, synced>>
    BY <1>3, AgentMoves DEF Replay
  <2> QED BY <2>1, <2>2, ArrivesKeeps
<1>4. ASSUME NEW q \in Request, PostBatch(q) PROVE CloudInv'
  <2>1. Arrives(q, LoadOf(Batch))
    BY <1>4 DEF PostBatch
  <2>2. Onward /\ UNCHANGED <<posted, keys, synced>>
    BY <1>4, AgentMoves DEF PostBatch
  <2> QED BY <2>1, <2>2, ArrivesKeeps
<1>5. ASSUME NEW q \in Request, Answered(q) \/ Refused(q) PROVE CloudInv'
  BY <1>5, AnsweredKeeps
<1> QED BY <1>1, <1>2, <1>3, <1>4, <1>5 DEF AgentStep

LEMMA BreaksKeeps == ASSUME CloudInv, Breaks PROVE CloudInv'
<1>0. There(synced)
  BY DEF CloudInv, Heard
<1>1. ASSUME Crash PROVE CloudInv'
  BY <1>0, <1>1, AgentMoves, CloudRests DEF Crash, cloudVars, There
<1>2. ASSUME NEW q \in Request, TimesOut(q) PROVE CloudInv'
  <2>1. Onward /\ UNCHANGED cloudVars /\ synced' = synced /\ posted' = posted
    BY <1>2, FailsOnward DEF TimesOut, cloudVars
  <2> QED BY <1>0, <2>1, CloudRests DEF There
<1>3. ASSUME NEW q \in Request, CutOff(q) \/ FailCommit(q), UNCHANGED agentVars PROVE CloudInv'
  BY <1>3, CallsEnd
<1>4. ASSUME NEW q \in Request, NEW p \in Request, Resends(q, p) PROVE CloudInv'
  <2>1. Arrives(p, request[q].load) /\ Onward /\ UNCHANGED <<posted, keys, synced>>
    BY <1>4, AgentMoves DEF Resends
  <2> QED BY <2>1, ArrivesKeeps
<1> QED BY <1>1, <1>2, <1>3, <1>4 DEF Breaks

LEMMA CloudKept == CloudInv /\ [Next]_vars => CloudInv'
<1> SUFFICES ASSUME CloudInv, [Next]_vars PROVE CloudInv'
  OBVIOUS
<1>1. CASE AgentStep
  BY <1>1, AgentKeeps
<1>2. ASSUME NEW q \in Request, Cloud(q) PROVE CloudInv'
  BY <1>2, LookUpKeyKeeps, LookUpSaleKeeps, IngestKeeps, CommitBatchKeeps, StoreKeyKeeps, CallsEnd
     DEF Cloud
<1>3. CASE Breaks
  BY <1>3, BreaksKeeps
<1>4. CASE UNCHANGED outboxVars
  <2>1. UNCHANGED cloudVars /\ agent' = agent /\ synced' = synced /\ posted' = posted
    BY <1>4 DEF outboxVars, agentVars, cloudVars
  <2>2. Onward /\ There(synced')
    BY <2>1, AgentMoves DEF CloudInv, Heard, There
  <2> QED BY <2>1, <2>2, CloudRests
<1> QED
  BY <1>1, <1>2, <1>3, <1>4 DEF Next, vars

(* However often and however concurrently a sale is posted, with time-outs,  *)
(* requests that go on unheard, replays and restarts: the cloud holds it at  *)
(* most once, and holds it when the agent has marked it synced               *)
(* (routers/sync.py: sync_transactions; syncLoop.js: syncTransactions).      *)
THEOREM CloudCountsOnce == Spec => []SyncedIsPostedOnce
<1>1. CloudInv => SyncedIsPostedOnce
  BY DEF CloudInv, CloudShape, Heard, There, SyncedIsPostedOnce
<1> QED BY <1>1, InitCloud, CloudKept, PTL DEF Spec

-----------------------------------------------------------------------------
(* eTIMS: a row holds no receipt the authority has not issued, and neither   *)
(* does an answer that is yet to be written; and only a later batch of       *)
(* retry-all loads a sale that is filed.                                     *)
Tasks == [mode: Modes \cup {"idle"}, todo: SUBSET Sale, got: Result(Sale), filed: SUBSET Sale]

Issued ==
    /\ EtimsTypeOK
    /\ \A k \in Task : task[k].filed # {} => task[k].mode = "later"
    /\ \A s \in Sale : receipt[s] <= issued[s]
    /\ \A k \in Task : \A s \in DOMAIN task[k].got : task[k].got[s] <= issued[s]

LEMMA InitIssued == Init => Issued
<1> SUFFICES ASSUME Init PROVE Issued
  OBVIOUS
<1>1. 0 \in Receipt /\ 0 \in 0 .. MaxEvents
  BY EtimsAssumption DEF Receipt
<1>2. <<>> \in [{} -> Receipt] /\ DOMAIN <<>> = {}
  OBVIOUS
<1>3. <<>> \in Result(Sale)
  BY <1>2 DEF Result
<1>4. Idle \in Tasks
  BY <1>3 DEF Idle, Tasks
<1>5. EtimsTypeOK
  BY <1>1, <1>4 DEF Init, EtimsInit, EtimsTypeOK, Tasks
<1>6. \A k \in Task : DOMAIN task[k].got = {} /\ task[k].filed = {}
  BY <1>2 DEF Init, EtimsInit, Idle
<1>7. \A s \in Sale : receipt[s] <= issued[s]
  BY DEF Init, EtimsInit
<1> QED BY <1>5, <1>6, <1>7 DEF Issued

(* The fields of a handler. *)
LEMMA TaskFields ==
    ASSUME EtimsTypeOK, NEW k \in Task
    PROVE  /\ task[k] \in Tasks
           /\ task[k].mode \in Modes \cup {"idle"} /\ task[k].todo \in SUBSET Sale
           /\ DOMAIN task[k].got \in SUBSET Sale /\ task[k].filed \in SUBSET Sale
           /\ task[k].got \in [DOMAIN task[k].got -> Receipt]
<1>1. task[k] \in Tasks
  BY DEF EtimsTypeOK, Tasks
<1>2. task[k].got \in Result(Sale)
  BY <1>1 DEF Tasks
<1> QED BY <1>1, <1>2 DEF Result, Tasks

LEMMA BusyShape ==
    ASSUME NEW m \in Modes, NEW todo \in SUBSET Sale
    PROVE  /\ Busy(m, todo) \in Tasks
           /\ Idle \in Tasks
           /\ DOMAIN Busy(m, todo).got = {} /\ DOMAIN Idle.got = {}
           /\ Busy(m, todo).filed = {} /\ Idle.filed = {}
           /\ Busy(m, todo).got = <<>> /\ Idle.got = <<>>
<1>1. <<>> \in [{} -> Receipt] /\ DOMAIN <<>> = {}
  OBVIOUS
<1>2. <<>> \in Result(Sale)
  BY <1>1 DEF Result
<1> QED BY <1>1, <1>2 DEF Busy, Idle, Tasks

(* A handler that starts or ends holds no answers. *)
LEMMA TaskMoves ==
    ASSUME Issued, NEW k \in Task, NEW t, task' = [task EXCEPT ![k] = t],
           t \in Tasks,
           DOMAIN t.got = {}, t.filed = {}, UNCHANGED issued, UNCHANGED sale, attempts' \in [Sale -> Nat],
           events' \in 0 .. MaxEvents,
           receipt' \in [Sale -> Receipt], \A s \in Sale : receipt'[s] <= issued[s]
    PROVE  Issued'
<1>1. EtimsTypeOK'
  BY DEF Issued, EtimsTypeOK, Tasks
<1>2. \A j \in Task : task'[j] = IF j = k THEN t ELSE task[j]
  BY DEF Issued, EtimsTypeOK
<1> QED BY <1>1, <1>2 DEF Issued

LEMMA EventCounts == ASSUME Issued, Event PROVE events' \in 0 .. MaxEvents
  BY EtimsAssumption DEF Issued, EtimsTypeOK, Event

LEMMA StartKeeps ==
    ASSUME Issued, NEW k \in Task, NEW m \in Modes, NEW todo \in SUBSET Sale, Start(k, m, todo)
    PROVE  Issued'
<1>1. /\ task' = [task EXCEPT ![k] = Busy(m, todo)]
      /\ UNCHANGED <<sale, receipt, attempts, issued>> /\ Event
  BY DEF Start
<1>2. /\ receipt \in [Sale -> Receipt] /\ attempts \in [Sale -> Nat]
      /\ \A s \in Sale : receipt[s] <= issued[s]
  BY DEF Issued, EtimsTypeOK
<1> QED BY <1>1, <1>2, BusyShape, TaskMoves, EventCounts

LEMMA SubmitKeeps ==
    ASSUME Issued, NEW k \in Task, NEW s \in Sale, SubmitInvoice(k, s)
    PROVE  Issued' /\ receipt' = receipt
<1> DEFINE t == task[k]
<1>1. PICK files \in BOOLEAN, answers \in BOOLEAN :
          /\ files => issued[s] < MaxReceipts
          /\ issued' = [issued EXCEPT ![s] = IF files THEN issued[s] + 1 ELSE issued[s]]
          /\ task' = [task EXCEPT
                ![k].todo = task[k].todo \ {s},
                ![k].filed = IF task[k].mode = "later" /\ receipt[s] # 0
                             THEN task[k].filed \cup {s} ELSE task[k].filed,
                ![k].got = [r \in DOMAIN task[k].got \cup {s} |->
                              IF r # s THEN task[k].got[r]
                              ELSE IF files /\ answers THEN issued[s] + 1 ELSE 0]]
  BY DEF SubmitInvoice, Issued, EtimsTypeOK
<1> DEFINE got == [r \in DOMAIN t.got \cup {s} |->
                      IF r # s THEN t.got[r] ELSE IF files /\ answers THEN issued[s] + 1 ELSE 0]
           filed == IF t.mode = "later" /\ receipt[s] # 0 THEN t.filed \cup {s} ELSE t.filed
           x == [t EXCEPT !.todo = t.todo \ {s}, !.filed = filed, !.got = got]
<1>2. /\ EtimsTypeOK /\ issued \in [Sale -> Receipt] /\ task = [j \in Task |-> task[j]]
      /\ receipt \in [Sale -> Receipt] /\ UNCHANGED <<sale, receipt, attempts, events>>
      /\ \A r \in Sale : issued[r] \in Nat /\ receipt[r] \in Nat
  BY EtimsAssumption DEF Issued, EtimsTypeOK, SubmitInvoice, Receipt
<1> DEFINE up == IF files THEN issued[s] + 1 ELSE issued[s]
<1>a. /\ up \in Receipt /\ issued[s] <= up /\ up \in Nat
      /\ (IF files /\ answers THEN issued[s] + 1 ELSE 0) \in Receipt
      /\ (IF files /\ answers THEN issued[s] + 1 ELSE 0) <= up
  <2>1. issued[s] \in Receipt /\ issued[s] \in Nat /\ MaxReceipts \in Nat
    BY <1>2, EtimsAssumption
  <2>2. CASE files
    <3>1. issued[s] < MaxReceipts /\ up = issued[s] + 1
      BY <1>1, <2>2
    <3> HIDE DEF up
    <3> QED BY <2>1, <3>1 DEF Receipt
  <2>3. CASE ~files
    <3>1. up = issued[s]
      BY <2>3
    <3> HIDE DEF up
    <3> QED BY <2>1, <2>3, <3>1 DEF Receipt
  <2> QED BY <2>2, <2>3
<1>b. issued' = [issued EXCEPT ![s] = up]
  BY <1>1
<1>3. issued' \in [Sale -> Receipt] /\ (\A r \in Sale : issued[r] <= issued'[r]) /\ issued'[s] = up
  <2> HIDE DEF up
  <2> QED BY <1>2, <1>a, <1>b
<1>4. /\ t \in Tasks
      /\ DOMAIN t.got \in SUBSET Sale /\ t.filed \in SUBSET Sale /\ t.got \in [DOMAIN t.got -> Receipt]
  BY <1>2, TaskFields
<1>5. \A r \in DOMAIN t.got : t.got[r] \in Receipt /\ t.got[r] \in Nat /\ t.got[r] <= issued[r]
  BY <1>4, EtimsAssumption DEF Issued, Receipt
<1>6. got \in [DOMAIN t.got \cup {s} -> Receipt] /\ \A r \in DOMAIN got : got[r] <= issued'[r]
  <2>1. ASSUME NEW r \in DOMAIN t.got \cup {s} PROVE got[r] \in Receipt /\ got[r] <= issued'[r]
    <3>1. CASE r # s
      <4>1. r \in Sale /\ issued[r] <= issued'[r] /\ issued[r] \in Nat /\ issued'[r] \in Nat
        BY <1>2, <1>3, <1>4, <3>1, EtimsAssumption DEF Receipt
      <4> QED BY <1>5, <3>1, <4>1
    <3>2. CASE r = s
      <4>1. got[r] = IF files /\ answers THEN issued[s] + 1 ELSE 0
        BY <3>2
      <4> HIDE DEF got, up
      <4> QED BY <1>3, <1>a, <3>2, <4>1
    <3> QED BY <3>1, <3>2
  <2> QED BY <2>1
<1>7. got \in Result(Sale)
  BY <1>4, <1>6 DEF Result
<1>c. filed \in SUBSET Sale /\ (filed # {} => t.mode = "later")
  BY <1>4 DEF Issued
<1> HIDE DEF got, filed
<1>8. /\ x \in Tasks
      /\ x.got = got /\ (x.filed # {} => x.mode = "later")
  BY <1>4, <1>7, <1>c DEF Tasks
<1>9. task' = [task EXCEPT ![k] = x]
  BY <1>1, <1>2 DEF got, filed
<1> HIDE DEF x, t
<1>10. \A j \in Task : task'[j] = IF j = k THEN x ELSE task[j]
  BY <1>2, <1>9
<1>11. EtimsTypeOK'
  BY <1>2, <1>3, <1>8, <1>9 DEF EtimsTypeOK, Tasks
<1>12. \A j \in Task : \A r \in DOMAIN task'[j].got : task'[j].got[r] <= issued'[r]
  <2> SUFFICES ASSUME NEW j \in Task, NEW r \in DOMAIN task'[j].got
               PROVE  task'[j].got[r] <= issued'[r]
    OBVIOUS
  <2>1. CASE j = k
    BY <1>6, <1>8, <1>10, <2>1
  <2>2. CASE j # k
    <3>1. task'[j] = task[j] /\ r \in Sale /\ task[j].got[r] <= issued[r] /\ task[j].got[r] \in Receipt
      BY <1>2, <1>10, <2>2, TaskFields DEF Issued
    <3> QED BY <1>2, <1>3, <3>1, EtimsAssumption DEF Receipt
  <2> QED BY <2>1, <2>2
<1>13. \A r \in Sale : receipt'[r] <= issued'[r]
  <2> SUFFICES ASSUME NEW r \in Sale PROVE receipt'[r] <= issued'[r]
    OBVIOUS
  <2>1. receipt[r] <= issued[r]
    BY DEF Issued
  <2>2. issued[r] <= issued'[r] /\ issued'[r] \in Receipt
    <3> HIDE DEF up
    <3> QED BY <1>3
  <2>3. \A i \in Receipt : i \in Nat
    BY EtimsAssumption DEF Receipt
  <2> QED BY <1>2, <2>1, <2>2, <2>3
<1>14. \A j \in Task : task'[j].filed # {} => task'[j].mode = "later"
  BY <1>8, <1>10 DEF Issued
<1> QED BY <1>2, <1>11, <1>12, <1>13, <1>14 DEF Issued

(* What a handler goes on to holds no answers. *)
LEMMA FurtherShape ==
    ASSUME EtimsTypeOK, NEW k \in Task
    PROVE  /\ Further(task[k]) \in Tasks
           /\ Further(task[k]).got = <<>> /\ DOMAIN Further(task[k]).got = {}
           /\ Further(task[k]).filed = {}
<1> DEFINE t == task[k]
<1>1. t.todo \in SUBSET Sale /\ DOMAIN t.got \in SUBSET Sale
  BY TaskFields
<1>2. "retry" \in Modes /\ "later" \in Modes
  BY DEF Modes
<1>3. \/ Further(t) = Idle \/ Further(t) = Busy("later", t.todo)
      \/ Further(t) = Busy("retry", DOMAIN t.got)
  BY DEF Further
<1> HIDE DEF t
<1>4. Further(t) \in Tasks /\ Further(t).got = <<>> /\ DOMAIN Further(t).got = {} /\ Further(t).filed = {}
  BY <1>1, <1>2, <1>3, BusyShape
<1> QED BY <1>4 DEF t

(* The answers whose writing would take a receipt away. *)
TakesAway(k, s) ==
    /\ task[k].mode = "later" /\ task'[k] # task[k]
    /\ s \in task[k].filed /\ task[k].got[s] = 0

LEMMA CommitKeeps ==
    ASSUME Issued, NEW k \in Task, CommitResults(k)
    PROVE  Issued' /\ \A s \in Sale : receipt[s] # 0 /\ receipt'[s] = 0 => TakesAway(k, s)
<1> DEFINE t == task[k]
<1>1. /\ receipt' = [s \in Sale |-> Written(s, t)]
      /\ attempts' = [s \in Sale |-> attempts[s] + (IF s \in DOMAIN t.got THEN 1 ELSE 0)]
      /\ UNCHANGED <<sale, issued, events>>
      /\ task' = [task EXCEPT ![k] = Further(t)] /\ t.got # <<>>
      /\ EtimsTypeOK
  BY DEF CommitResults, Issued
<1>2. /\ DOMAIN t.got \in SUBSET Sale /\ t.got \in [DOMAIN t.got -> Receipt]
      /\ \A s \in DOMAIN t.got : t.got[s] <= issued[s]
      /\ t.filed # {} => t.mode = "later"
  BY <1>1, TaskFields DEF Issued
<1>3. /\ receipt \in [Sale -> Receipt] /\ attempts \in [Sale -> Nat] /\ events \in 0 .. MaxEvents
      /\ \A s \in Sale : receipt[s] <= issued[s]
  BY DEF Issued, EtimsTypeOK
<1>4. /\ receipt' \in [Sale -> Receipt] /\ \A s \in Sale : receipt'[s] <= issued[s]
      /\ \A s \in Sale : receipt[s] # 0 /\ receipt'[s] = 0 => s \in t.filed /\ t.got[s] = 0
  BY <1>1, <1>2, <1>3 DEF Written
<1>5. attempts' \in [Sale -> Nat]
  BY <1>1, <1>3
<1>6. /\ Further(t) \in Tasks /\ DOMAIN Further(t).got = {} /\ Further(t).filed = {}
      /\ Further(t).got = <<>>
  BY <1>1, FurtherShape
<1>7. Issued'
  BY <1>1, <1>3, <1>4, <1>5, <1>6, TaskMoves
<1>8. task'[k] # task[k]
  <2>1. task'[k] = Further(t)
    BY <1>1 DEF EtimsTypeOK
  <2> QED BY <1>1, <1>6, <2>1
<1>9. \A s \in Sale : receipt[s] # 0 /\ receipt'[s] = 0 => TakesAway(k, s)
  BY <1>2, <1>4, <1>8 DEF TakesAway
<1> QED BY <1>7, <1>9

LEMMA ScheduleKeeps ==
    ASSUME Issued, NEW k \in Task, ScheduleRetry(k) \/ LoseBatch(k) \/ LoseTask(k)
    PROVE  Issued' /\ receipt' = receipt
<1>0. UNCHANGED <<sale, receipt, attempts, issued>> /\ (events' = events \/ Event)
  BY Zenon DEF ScheduleRetry, LoseBatch, LoseTask
<1>1. /\ EtimsTypeOK /\ UNCHANGED <<sale, receipt, attempts, issued>>
      /\ receipt \in [Sale -> Receipt] /\ attempts \in [Sale -> Nat]
      /\ \A s \in Sale : receipt[s] <= issued[s]
      /\ events \in 0 .. MaxEvents
  BY <1>0 DEF Issued, EtimsTypeOK
<1>2. events' \in 0 .. MaxEvents
  BY <1>0, <1>1, EventCounts
<1>3. task[k].todo \in SUBSET Sale /\ "asleep" \in Modes
  BY <1>1, TaskFields DEF Modes
<1>4. PICK x : /\ task' = [task EXCEPT ![k] = x]
               /\ x = Idle \/ x = Busy("asleep", task[k].todo) \/ x = Further(task[k])
  <2>1. ASSUME ScheduleRetry(k)
        PROVE  \/ task' = [task EXCEPT ![k] = Idle]
               \/ task' = [task EXCEPT ![k] = Busy("asleep", task[k].todo)]
    BY <1>1, <2>1 DEF ScheduleRetry, EtimsTypeOK
  <2>2. ASSUME LoseBatch(k) PROVE task' = [task EXCEPT ![k] = Further(task[k])]
    BY <2>2 DEF LoseBatch
  <2>3. ASSUME LoseTask(k) PROVE task' = [task EXCEPT ![k] = Idle]
    BY <2>3 DEF LoseTask
  <2> QED BY <2>1, <2>2, <2>3
<1>5. x \in Tasks /\ DOMAIN x.got = {} /\ x.filed = {}
  <2>1. CASE x = Further(task[k])
    BY <1>1, <2>1, FurtherShape
  <2>2. CASE x = Idle \/ x = Busy("asleep", task[k].todo)
    <3> DEFINE b == Busy("asleep", task[k].todo)
    <3>1. b \in Tasks /\ DOMAIN b.got = {} /\ b.filed = {}
      BY <1>3, BusyShape
    <3>2. Idle \in Tasks /\ DOMAIN Idle.got = {} /\ Idle.filed = {}
      BY <1>3, BusyShape
    <3> QED BY <2>2, <3>1, <3>2
  <2> QED BY <1>4, <2>1, <2>2
<1> QED BY <1>1, <1>2, <1>4, <1>5, TaskMoves

LEMMA SalesKeep ==
    ASSUME Issued, NEW s \in Sale, Ring(s) \/ VoidSale(s)
    PROVE  Issued' /\ receipt' = receipt
<1>1. /\ UNCHANGED <<receipt, attempts, issued, task>>
      /\ sale' \in [Sale -> {"none", "completed", "voided"}]
      /\ events \in 0 .. MaxEvents
  BY DEF Ring, VoidSale, Issued, EtimsTypeOK
<1>2. events' \in 0 .. MaxEvents
  BY <1>1, EventCounts DEF Ring, VoidSale
<1> QED BY <1>1, <1>2 DEF Issued, EtimsTypeOK

(* Every step keeps a filed sale filed, but for those answers. *)
FiledKept ==
    \A s \in Sale : receipt[s] # 0 /\ receipt'[s] = 0 => \E k \in Task : TakesAway(k, s)

LEMMA FiledStep ==
    ASSUME Issued, [Next]_vars
    PROVE  Issued' /\ FiledKept
<1> DEFINE Kept == Issued' /\ FiledKept
<1>0. receipt' = receipt => FiledKept
  BY DEF FiledKept
<1>1. ASSUME NEW s \in Sale, Ring(s) \/ VoidSale(s) PROVE Kept
  BY <1>0, <1>1, SalesKeep
<1>2. ASSUME NEW k \in Task, NEW s \in Sale, SubmitToEtims(k, s) \/ AutoSubmit(k, s) PROVE Kept
  <2>1. {s} \in SUBSET Sale /\ "request" \in Modes /\ "once" \in Modes
    BY DEF Modes
  <2> QED BY <1>0, <1>2, <2>1, StartKeeps DEF SubmitToEtims, AutoSubmit, Start
<1>3. ASSUME NEW k \in Task, RetryAll(k) PROVE Kept
  <2>1. Unfiled \in SUBSET Sale /\ "first" \in Modes
    BY DEF Modes, Unfiled
  <2> QED BY <1>0, <1>3, <2>1, StartKeeps DEF RetryAll, Start
<1>4. ASSUME NEW k \in Task, NEW s \in Sale, SubmitInvoice(k, s) PROVE Kept
  BY <1>0, <1>4, SubmitKeeps
<1>5. ASSUME NEW k \in Task, CommitResults(k) PROVE Kept
  BY <1>5, CommitKeeps DEF FiledKept
<1>6. ASSUME NEW k \in Task, ScheduleRetry(k) \/ LoseBatch(k) \/ LoseTask(k) PROVE Kept
  BY <1>0, <1>6, ScheduleKeeps
<1>7. ASSUME UNCHANGED etimsVars, events' \in 0 .. MaxEvents PROVE Kept
  BY <1>0, <1>7 DEF etimsVars, Issued, EtimsTypeOK
<1>8. events \in 0 .. MaxEvents
  BY DEF Issued, EtimsTypeOK
<1>9. events' = events \/ Event => events' \in 0 .. MaxEvents
  BY <1>8, EventCounts
<1>10. ASSUME AgentStep PROVE Kept
  <2>1. UNCHANGED etimsVars /\ (events' = events \/ Event)
    BY <1>10 DEF AgentStep, StartCycle, Promote, NothingPending, ReadFails, StatementFails,
                 Acknowledge, Replay, PostBatch, Answered, Refused
  <2> QED BY <1>7, <1>9, <2>1
<1>11. ASSUME NEW q \in Request, Cloud(q) PROVE Kept
  <2>1. UNCHANGED etimsVars /\ (events' = events \/ Event)
    BY <1>11 DEF Cloud, LookUpKey, LookUpSale, Ingest, CommitBatch, StoreKey, Unheard
  <2> QED BY <1>7, <1>9, <2>1
<1>12. ASSUME Breaks PROVE Kept
  <2>1. UNCHANGED etimsVars /\ Event
    BY <1>12 DEF Breaks, Crash, TimesOut, CutOff, FailCommit, Resends
  <2> QED BY <1>7, <1>9, <2>1
<1>13. ASSUME UNCHANGED vars PROVE Kept
  BY <1>7, <1>8, <1>13 DEF vars
<1> HIDE DEF Kept
<1>14. Kept
  BY <1>1, <1>2, <1>3, <1>4, <1>5, <1>6, <1>10, <1>11, <1>12, <1>13 DEF Next, EtimsNext, EtimsStep
<1> QED BY <1>14 DEF Kept

(* A sale that is filed stays filed and its receipt is one the authority     *)
(* issued for it, under every overlap of submissions, failures and voids,    *)
(* but for the failures of a later batch of retry-all that had read the      *)
(* receipt (routers/etims.py, services/etims.py).                            *)
THEOREM FiledSalesStay == Spec => FiledStays
<1>1. Issued /\ [Next]_vars =>
        [\A s \in Sale :
            /\ receipt[s] # 0 /\ receipt'[s] = 0 =>
                  \E k \in Task : /\ task[k].mode = "later" /\ task'[k] # task[k]
                                 /\ s \in task[k].filed /\ task[k].got[s] = 0
            /\ receipt'[s] <= issued'[s]]_etimsVars
  <2> SUFFICES ASSUME Issued, [Next]_vars, NEW s \in Sale
               PROVE  /\ receipt[s] # 0 /\ receipt'[s] = 0 =>
                            \E k \in Task : /\ task[k].mode = "later" /\ task'[k] # task[k]
                                           /\ s \in task[k].filed /\ task[k].got[s] = 0
                      /\ receipt'[s] <= issued'[s]
    OBVIOUS
  <2>1. Issued' /\ FiledKept
    BY FiledStep
  <2> QED BY <2>1 DEF Issued, FiledKept, TakesAway
<1>2. Issued /\ [Next]_vars => Issued'
  BY FiledStep
<1> QED BY <1>1, <1>2, InitIssued, PTL DEF Spec, FiledStays

=============================================================================

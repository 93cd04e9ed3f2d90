------------------------------ MODULE Notices ------------------------------
(* The WebSocket of a terminal and the events sent to it: routers/ws.py,     *)
(* core/notifier.py, core/pubsub.py and the tickets of                       *)
(* core/distributed_auth.py, beside the logins of Access, whose workers,     *)
(* accounts and restarts they share.  One terminal; its page may open        *)
(* another socket whenever it likes, also while the last one is still known  *)
(* to some worker.  A socket is named by its place in sock.                  *)
EXTENDS Access

CONSTANTS Event,      \* payments confirmed or failed, each published by its callback once
          Redis,      \* where a ticket is that is in no worker's memory
          NoWorker,   \* where a socket is before its handshake and after its end
          MaxSockets, \* bound on the sockets ever asked for
          Mixed       \* bound: FALSE keeps logins out of the behaviours with sockets and events

ASSUME NoticesAssumption == MaxSockets \in Nat /\ Mixed \in BOOLEAN 
                     /\ Redis \notin Worker /\ NoWorker \notin Worker

VARIABLES sock,       \* the sockets with their handler in the worker
          registry,   \* ConnectionManager._connections of each worker: a socket, or 0
          enabled,    \* WebSocketPubSub._enabled, set once at the start
          listening,  \* workers whose _subscriber_loop runs
          job,        \* calls of manager.send, by event, worker and caller
          news,       \* history: of a published event, whom it should reach, and whether it went out twice
          told,       \* how often an event was written to a socket
          orphans     \* sockets a failed send to another one has unregistered

noticeVars == <<sock, registry, enabled, listening, job, news, told, orphans>>
allVars == <<accessVars, noticeVars>>

Socket == 1 .. MaxSockets
Caller == {"relay", "direct"}
Job == Event \X Worker \X Caller
NoCall == [phase |-> "none", on |-> 0]
Returned == [phase |-> "done", on |-> 0]
Unpublished == [out |-> FALSE, twice |-> FALSE, due |-> {}]
Is(s, states) == s \in DOMAIN sock /\ sock[s].state \in states

\* Redis is there when the service starts; a worker that restarts may miss it.
NoticesInit ==
    /\ AccessInit
    /\ sock = <<>>
    /\ registry = [w \in Worker |-> 0]
    /\ enabled = Worker /\ listening = Worker
    /\ job = [j \in Job |-> NoCall]
    /\ news = [e \in Event |-> Unpublished]
    /\ told = [e \in Event |-> [s \in Socket |-> 0]]
    /\ orphans = {}

-----------------------------------------------------------------------------
(* Tickets and handshakes. *)

\* get_current_employee
SignedIn(e) == e \in active

\* issue_ws_ticket stores it in Redis; in the memory of the worker when Redis
\* fails; in both when Redis did it and the answer was lost.
Places(w) == {{Redis}, {w}, {Redis, w}}

Ask(w, e) ==
    /\ SignedIn(e)
    /\ Len(sock) < MaxSockets /\ (Mixed \/ session = <<>>)
    /\ \E places \in Places(w) :
          sock' = Append(sock, [state |-> "asked", employee |-> e, worker |-> NoWorker, ticket |-> places])
    /\ UNCHANGED <<accessVars, registry, enabled, listening, job, news, told, orphans>>

\* consume_ws_ticket looks in Redis, or in the worker's memory when Redis fails.
Found(s, w) == {(Redis \in sock[s].ticket), (w \in sock[s].ticket)}

\* The handler of the socket is over.
Gone(c) == [c EXCEPT !.state = "ended", !.worker = NoWorker, !.ticket = {}]

\* pos_websocket consumes the ticket and looks at the account before it accepts;
\* a ticket of 30 seconds may be too old.
Handshake(s, w) ==
    /\ Is(s, {"asked"})
    /\ \E known \in Found(s, w) \cup {FALSE} :
          sock' = [sock EXCEPT ![s] =
             IF known /\ sock[s].employee \in active
               THEN [@ EXCEPT !.state = "accepted", !.worker = w, !.ticket = {}] ELSE Gone(@)]
    /\ UNCHANGED <<accessVars, registry, enabled, listening, job, news, told, orphans>>

\* _TerminalConnection.close: the handler of c will see the disconnection.
Closed(ss, c) ==
    IF c # 0 /\ ss[c].state \in {"open", "cut"} THEN [ss EXCEPT ![c].state = "closing"] ELSE ss

\* ConnectionManager.connect, under the registry's lock.
Connect(s) ==
    /\ Is(s, {"accepted"})
    /\ LET w == sock[s].worker IN
          /\ sock' = [Closed(sock, registry[w]) EXCEPT ![s].state = "open"]
          /\ registry' = [registry EXCEPT ![w] = s]
    /\ UNCHANGED <<accessVars, enabled, listening, job, news, told, orphans>>

\* The page leaves or the line breaks; the worker has not seen it yet.  Before
\* connect has come to the registry the handler just ends.
Cut(s) ==
    /\ Is(s, {"accepted", "open"})
    /\ sock' = [sock EXCEPT ![s] = IF @.state = "open" THEN [@ EXCEPT !.state = "cut"] ELSE Gone(@)]
    /\ UNCHANGED <<accessVars, registry, enabled, listening, job, news, told, orphans>>

\* Mistake: the connection is forgotten and not closed.
Forgotten(ss, c) == ss

\* ConnectionManager.disconnect closes the connection it takes from the registry.
Dropped(ss, c) == Closed(ss, c)

\* The handler sees the disconnection, or no pong comes in time.  Its finally
\* disconnects the terminal, whichever socket is registered for it by now.
HandlerEnds(s) ==
    /\ Is(s, {"closing", "cut"})
    /\ LET w == sock[s].worker IN
          /\ sock' = [Dropped(sock, registry[w]) EXCEPT ![s] = Gone(@)]
          /\ registry' = [registry EXCEPT ![w] = 0]
    /\ UNCHANGED <<accessVars, enabled, listening, job, news, told, orphans>>

-----------------------------------------------------------------------------
(* Events. *)

\* Workers that an event reaches with these callers.
Reached(w, relayed, direct) == (IF relayed THEN listening ELSE {}) \cup (IF direct THEN {w} ELSE {})

\* Mistake: the publisher sends as well as it publishes.
AlwaysDirect(relayed, known) == TRUE

\* WebSocketPubSub.publish falls back to its own worker when Redis did not answer.
FallsBack(relayed, known) == ~known

\* publish: Redis takes the message or not (relayed), and the publisher knows
\* it or not (known).
Publish(e, w) ==
    /\ ~news[e].out /\ (Mixed \/ session = <<>>)
    /\ \E relayed, known \in BOOLEAN :
          /\ known => relayed
          /\ w \notin enabled => ~relayed
          /\ LET direct == FallsBack(relayed, known) IN
                /\ job' = [j \in Job |->
                      IF j[1] = e /\ \/ j[3] = "relay" /\ relayed /\ j[2] \in listening
                                     \/ j[3] = "direct" /\ direct /\ j[2] = w
                      THEN [NoCall EXCEPT !.phase = "queued"] ELSE job[j]]
                /\ news' = [news EXCEPT ![e] =
                      [out |-> TRUE, twice |-> relayed /\ ~known,
                       due |-> {registry[v] : v \in Reached(w, relayed, direct)} \ {0}]]
    /\ UNCHANGED <<accessVars, sock, registry, enabled, listening, told, orphans>>

\* ConnectionManager.send takes the connection that is registered, if there is one.
SendBegin(j) ==
    /\ job[j].phase = "queued"
    /\ job' = [job EXCEPT ![j] =
          IF registry[j[2]] = 0 THEN Returned ELSE [phase |-> "sending", on |-> registry[j[2]]]]
    /\ UNCHANGED <<accessVars, sock, registry, enabled, listening, news, told, orphans>>

\* The message is written to the socket taken, which a broken line may swallow.
SendWorks(j) ==
    /\ job[j].phase = "sending" /\ Is(job[j].on, {"open", "cut"})
    /\ told' = [told EXCEPT ![j[1]][job[j].on] = @ + 1]
    /\ job' = [job EXCEPT ![j] = Returned]
    /\ UNCHANGED <<accessVars, sock, registry, enabled, listening, news, orphans>>

\* The socket taken is dead: whatever is registered now is unregistered, and
\* not closed.
SendFails(j) ==
    /\ job[j].phase = "sending" /\ Is(job[j].on, {"cut", "closing", "ended"})
    /\ job' = [job EXCEPT ![j] = Returned]
    /\ registry' = [registry EXCEPT ![j[2]] = 0]
    /\ orphans' = orphans \cup ({registry[j[2]]} \ {0})
    /\ UNCHANGED <<accessVars, sock, enabled, listening, news, told>>

\* Messages the loop of w has not come to yet.
Waiting(j, w) == j[2] = w /\ j[3] = "relay" /\ job[j].phase = "queued"

\* The loop of a worker ends with the first error of its Redis connection and is
\* never started again, while _enabled stays true; what was on its way is lost.
SubscriberEnds(w) ==
    /\ w \in listening /\ faults < MaxFaults /\ (Mixed \/ session = <<>>)
    /\ \A e \in Event : job[<<e, w, "relay">>].phase # "sending"
    /\ listening' = listening \ {w}
    /\ faults' = faults + 1
    /\ job' = [j \in Job |-> IF Waiting(j, w) THEN Returned ELSE job[j]]
    /\ news' = [e \in Event |->
          IF Waiting(<<e, w, "relay">>, w) THEN [news[e] EXCEPT !.due = @ \ {registry[w]}] ELSE news[e]]
    /\ UNCHANGED <<session, active, lists, req, sock, registry, enabled, told, orphans>>

-----------------------------------------------------------------------------
(* Restarts. *)

\* The sockets, tickets and calls of a worker end with it; it starts anew.
WorkerRestarts(w) ==
    /\ WorkerStarts(w)
    /\ sock' = [s \in DOMAIN sock |->
          IF sock[s].worker = w THEN Gone(sock[s]) ELSE [sock[s] EXCEPT !.ticket = @ \ {w}]]
    /\ registry' = [registry EXCEPT ![w] = 0]
    /\ \E up \in SUBSET {w} : /\ enabled' = (enabled \ {w}) \cup up
                             /\ listening' = (listening \ {w}) \cup up
    /\ job' = [j \in Job |-> IF j[2] = w /\ job[j] # NoCall THEN Returned ELSE job[j]]
    /\ UNCHANGED <<news, told, orphans>>

\* Redis loses its tickets with the rest of its data.
RedisRestarts ==
    /\ RedisForgets
    /\ sock' = [s \in DOMAIN sock |-> [sock[s] EXCEPT !.ticket = @ \ {Redis}]]
    /\ UNCHANGED <<registry, enabled, listening, job, news, told, orphans>>

SocketStep ==
    \/ \E w \in Worker, e \in Employee : Ask(w, e)
    \/ \E s \in Socket, w \in Worker : Handshake(s, w)
    \/ \E s \in Socket : Connect(s) \/ Cut(s) \/ HandlerEnds(s)

EventStep ==
    \/ \E e \in Event, w \in Worker : Publish(e, w)
    \/ \E j \in Job : SendBegin(j) \/ SendWorks(j) \/ SendFails(j)
    \/ \E w \in Worker : SubscriberEnds(w)

LoginStep ==
    /\ Logins
    /\ Mixed \/ session' = <<>> \/ (sock = <<>> /\ \A e \in Event : ~news[e].out)
    /\ UNCHANGED noticeVars

NoticesNext ==
    \/ SocketStep \/ EventStep \/ LoginStep
    \/ \E w \in Worker : WorkerRestarts(w)
    \/ RedisRestarts

NoticesSpec == NoticesInit /\ [][NoticesNext]_allVars

-----------------------------------------------------------------------------
(* "The old socket is explicitly closed before the new one is registered"    *)
(* (notifier.py): a worker has at most one open socket of the terminal, the  *)
(* one in its registry, and a registry never keeps a socket whose handler is *)
(* over, although a handler that ends late disconnects whichever socket is   *)
(* registered by then.  Only a send that fails on the socket before may      *)
(* leave one open that the worker does not know any more.                    *)
OpenIsKnown ==
    /\ \A s \in DOMAIN sock \ orphans : Is(s, {"open"}) => registry[sock[s].worker] = s
    /\ \A w \in Worker : registry[w] # 0 => ~Is(registry[w], {"ended"})

\* No call of manager.send for the event is left.
Settled(e) == news[e].out /\ \A j \in Job : j[1] = e => job[j] \in {NoCall, Returned}

(* An event is written to a socket at most once, twice only when Redis took  *)
(* it and the publisher did not learn it; and a socket that was registered   *)
(* where the event went, and is open when all sends are over, got it,        *)
(* whichever sockets of the terminal came and went meanwhile.                *)
ToldOnce ==
    \A e \in Event :
        /\ \A s \in Socket : told[e][s] <= (IF news[e].twice THEN 2 ELSE 1)
        /\ Settled(e) =>
              \A s \in news[e].due \ orphans : Is(s, {"open"}) => told[e][s] >= 1
=============================================================================

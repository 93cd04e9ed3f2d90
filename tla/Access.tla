------------------------------- MODULE Access -------------------------------
(* Logins of the staff and the life of their refresh sessions:               *)
(* routers/auth.py, core/security.py, core/distributed_auth.py,              *)
(* core/deps.py and the activation of accounts in routers/employees.py.  A   *)
(* login starts a family of refresh tokens; every refresh ends the session   *)
(* of its token and starts the next one of the family.  A token is refused   *)
(* when its session ended (the database) or when its jti is on the           *)
(* revocation list (Redis, or a dictionary of the worker when Redis fails).  *)
EXTENDS Integers, FiniteSets, Sequences

CONSTANTS Employee,     \* staff of one store
          Worker,       \* API processes
          Req,          \* refresh requests that may be in flight together
          MaxSessions,  \* bound on the sessions ever started
          MaxFaults     \* bound on the restarts of Redis and of workers

ASSUME AccessAssumption == MaxSessions \in Nat /\ MaxFaults \in Nat /\ IsFiniteSet(Req)

VARIABLES session,   \* refresh_sessions, in the order they were inserted; its index stands for the token
          active,    \* employees whose is_active is true
          revoked,   \* the revocation list in Redis
          fallback,  \* the revocation list in the memory of each worker
          req,       \* for each refresh in flight the token it presents and its worker
          faults

accessVars == <<session, active, revoked, fallback, req, faults>>
lists == <<revoked, fallback>>

Token == DOMAIN session
Idle == [token |-> 0]
Session == [employee : Employee, family : 1 .. MaxSessions, active : BOOLEAN]

AccessInit ==
    /\ session = <<>>
    /\ active = Employee
    /\ revoked = {}
    /\ fallback = [w \in Worker |-> {}]
    /\ req = [r \in Req |-> Idle]
    /\ faults = 0

\* is_jti_revoked: the answer of Redis, or of the worker's memory when Redis fails.
MayPass(w, t) == t \notin revoked \/ t \notin fallback[w]

\* revoke_jti: in Redis, or in the worker's memory when Redis fails.
Revoke(w, t) ==
    \/ revoked' = revoked \cup {t} /\ UNCHANGED fallback
    \/ fallback' = [fallback EXCEPT ![w] = @ \cup {t}] /\ UNCHANGED revoked

\* _persist_refresh_session for the next token.
Started(ss, e, f) == Append(ss, [employee |-> e, family |-> f, active |-> TRUE])

\* _revoke_session
Ended(ss, t) == [ss EXCEPT ![t].active = FALSE]

-----------------------------------------------------------------------------
(* login: the password is right and the account active. *)
Login(e) ==
    /\ e \in active
    /\ Len(session) < MaxSessions
    /\ session' = Started(session, e, Len(session) + 1)
    /\ UNCHANGED <<active, lists, req, faults>>

\* Mistake: the revocation list is taken for enough.
Listed(w, t) ==
    /\ MayPass(w, t)
    /\ session[t].employee \in active

\* The checks of refresh_token, on what the worker reads without a lock.  The
\* stored fingerprint is always that of the token: every token has a sid of its
\* own, so the replay branch that would end the family is never taken.
Honoured(w, t) ==
    /\ MayPass(w, t)
    /\ session[t].employee \in active
    /\ session[t].active

RefreshRead(r, w, t) ==
    /\ req[r] = Idle
    /\ Honoured(w, t)
    /\ req' = [req EXCEPT ![r] = [token |-> t, worker |-> w]]
    /\ UNCHANGED <<session, active, lists, faults>>

\* Mistake: the session of the old token is left as it is.
AddedOnly(ss, t) == Started(ss, ss[t].employee, ss[t].family)

\* The rotation: the session of the token ends, the next of its family starts.
Rotated(ss, t) == Started(Ended(ss, t), ss[t].employee, ss[t].family)

\* refresh_token revokes the token, then commits the rotation.
RefreshCommit(r) ==
    /\ req[r] # Idle
    /\ Len(session) < MaxSessions
    /\ Revoke(req[r].worker, req[r].token)
    /\ session' = Rotated(session, req[r].token)
    /\ req' = [req EXCEPT ![r] = Idle]
    /\ UNCHANGED <<active, faults>>

\* The commit fails, or the worker is killed before it: the token stays revoked.
RefreshFails(r) ==
    /\ req[r] # Idle /\ faults < MaxFaults
    /\ Revoke(req[r].worker, req[r].token)
    /\ req' = [req EXCEPT ![r] = Idle]
    /\ faults' = faults + 1
    /\ UNCHANGED <<session, active>>

\* logout of an active employee with one of their refresh tokens.  A token that
\* is known to be revoked is answered "logged out" and changes nothing.
Logout(w, t) ==
    /\ session[t].employee \in active
    /\ MayPass(w, t)
    /\ Revoke(w, t)
    /\ session' = Ended(session, t)
    /\ UNCHANGED <<active, req, faults>>

\* logout_all_sessions: one UPDATE of the employee's sessions; no token is revoked.
LogoutAll(e) ==
    /\ e \in active
    /\ session' = [t \in Token |-> IF session[t].employee = e THEN [session[t] EXCEPT !.active = FALSE] ELSE session[t]]
    /\ UNCHANGED <<active, lists, req, faults>>

\* deactivate_employee, or update_employee with is_active false: the sessions stay.
Deactivate(e) ==
    /\ active' = active \ {e}
    /\ UNCHANGED <<session, lists, req, faults>>

\* update_employee with is_active true: the sessions of before are good again.
Reactivate(e) ==
    /\ active' = active \cup {e}
    /\ UNCHANGED <<session, lists, req, faults>>

\* A worker starts again with an empty memory; its requests are lost.
WorkerStarts(w) ==
    /\ faults < MaxFaults
    /\ faults' = faults + 1
    /\ fallback' = [fallback EXCEPT ![w] = {}]
    /\ req' = [r \in Req |-> IF req[r] # Idle /\ req[r].worker = w THEN Idle ELSE req[r]]
    /\ UNCHANGED <<session, active, revoked>>

\* Redis starts again without its data.
RedisForgets ==
    /\ faults < MaxFaults
    /\ faults' = faults + 1
    /\ revoked' = {}
    /\ UNCHANGED <<session, active, fallback, req>>

\* What the staff and their requests do.
Logins ==
    \/ \E e \in Employee : Login(e) \/ LogoutAll(e) \/ Deactivate(e) \/ Reactivate(e)
    \/ \E r \in Req, w \in Worker, t \in Token : RefreshRead(r, w, t)
    \/ \E r \in Req : RefreshCommit(r) \/ RefreshFails(r)
    \/ \E w \in Worker, t \in Token : Logout(w, t)

AccessNext == Logins \/ (\E w \in Worker : WorkerStarts(w)) \/ RedisForgets

AccessSpec == AccessInit /\ [][AccessNext]_accessVars

-----------------------------------------------------------------------------
Families == {session[t].family : t \in Token}
Live(f) == {t \in Token : session[t].family = f /\ session[t].active}
InFlight(f) == {r \in Req : req[r] # Idle /\ session[req[r].token].family = f}

\* No session of the family is active and no refresh of it is under way.
Over(f) == Live(f) = {} /\ InFlight(f) = {}

(* A login that ended stays ended: once a family has no active session and   *)
(* no refresh of it is under way, no token of it is honoured again, in       *)
(* whichever worker it is presented, even when the logout was only noted in  *)
(* the memory of another worker, Redis lost its list or the account was      *)
(* switched off and on.                                                      *)
LogoutsLast == [][\A f \in Families : Over(f) => Over(f)']_accessVars

\* Sessions of the family that are, or may yet become, active.
Branches(f) ==
    Cardinality(Live(f)) + Cardinality({r \in InFlight(f) : ~session[req[r].token].active})

(* A login has one live session: a refresh replaces it.  Only two refreshes  *)
(* of the family that overlap can leave two of them; neither a logout that   *)
(* races a refresh, nor a refresh whose commit fails, nor a restart does.    *)
OneSessionEach ==
    [][\A f \in Families :
          Branches(f) <= 1 /\ Cardinality(InFlight(f)) <= 1 => Branches(f)' <= 1]_accessVars
=============================================================================

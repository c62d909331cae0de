------------------------------ MODULE AdminApi ------------------------------
(***************************************************************************)
(* crates/login_server/src/admin: session keys in Redis, the middleware     *)
(* that asks for one, and the handlers that issue and revoke them.  A       *)
(* request may be cut off at any await, when its client hangs up; a Redis   *)
(* command may fail before or after it took effect.                         *)
(***************************************************************************)
EXTENDS Naturals

CONSTANTS Request,  \* requests that may be in flight at once
          Key,      \* session keys that may be issued
          NoKey,    \* what a client sends that was never issued
          TTL       \* session_key_ttl_minutes, in ticks

ASSUME AdminAssumption == NoKey \notin Key /\ TTL \in Nat \ {0}

VARIABLES request,  \* stage, presented or issued key, of each request
          ttl,      \* what Redis holds: 0 for a key that is not there
          issued,   \* history: keys that were stored
          dead,     \* history: keys that expired or were revoked
          known     \* history: keys some client was told

adminVars == <<request, ttl, issued, dead, known>>

Stages == {"idle", "login", "get", "expire", "run", "reply"}
Idle == [stage |-> "idle", key |-> NoKey, handler |-> "other", late |-> FALSE]

AdminTypeOK ==
    /\ request \in [Request -> [stage : Stages, key : Key \cup {NoKey},
                                handler : {"logout", "other"}, late : BOOLEAN]]
    /\ ttl \in [Key -> 0..TTL]
    /\ issued \subseteq Key /\ dead \subseteq issued /\ known \subseteq issued

AdminInit ==
    /\ request = [r \in Request |-> Idle]
    /\ ttl = [k \in Key |-> 0]
    /\ issued = {} /\ dead = {} /\ known = {}

InRedis(k) == k \in Key /\ ttl[k] > 0

(* Redis cannot tell a key that expires from one that is deleted. *)
Removed(k) ==
    IF InRedis(k)
    THEN ttl' = [ttl EXCEPT ![k] = 0] /\ dead' = dead \cup {k}
    ELSE UNCHANGED <<ttl, dead>>

Proceed(r, stage) == request' = [request EXCEPT ![r].stage = stage]
Answer(r) == request' = [request EXCEPT ![r] = Idle]

-----------------------------------------------------------------------------
(* A request reaches the router.  /api/auth/login and /api/health need no   *)
(* key; a request without the header is refused at once.  "late" records    *)
(* that its key was dead when it came.                                      *)
Arrive(r) ==
    /\ request[r] = Idle
    /\ \/ Proceed(r, "login")
       \/ \E k \in known \cup {NoKey}, h \in {"logout", "other"} :
            request' = [request EXCEPT ![r] =
                [stage |-> "get", key |-> k, handler |-> h, late |-> k \in dead]]
    /\ UNCHANGED <<ttl, issued, dead, known>>

(* validate: GET; a missing key is 401, an error 500. *)
Get(r) ==
    /\ request[r].stage = "get"
    /\ \/ InRedis(request[r].key) /\ Proceed(r, "expire")
       \/ Answer(r)
    /\ UNCHANGED <<ttl, issued, dead, known>>

(* Mutant: the expiry slides by writing the value again. *)
ExpireBySetEx(r) ==
    /\ request[r].stage = "expire"
    /\ \/ /\ ttl' = [ttl EXCEPT ![request[r].key] = TTL]
          /\ Proceed(r, "run") \/ Answer(r)
       \/ Answer(r) /\ UNCHANGED ttl
    /\ UNCHANGED <<issued, dead, known>>

(* validate: EXPIRE, which does nothing to a key that is gone; the request  *)
(* is let through all the same.  An error is 500.                           *)
Expire(r) ==
    /\ request[r].stage = "expire"
    /\ \/ /\ IF InRedis(request[r].key)
             THEN ttl' = [ttl EXCEPT ![request[r].key] = TTL]
             ELSE UNCHANGED ttl
          /\ Proceed(r, "run") \/ Answer(r)
       \/ Answer(r) /\ UNCHANGED ttl
    /\ UNCHANGED <<issued, dead, known>>

(* A handler that leaves the keys alone: notice, disconnect, the queries. *)
Handle(r) ==
    /\ request[r].stage = "run" /\ request[r].handler = "other"
    /\ Answer(r)
    /\ UNCHANGED <<ttl, issued, dead, known>>

(* logout: DEL, 204 or 500. *)
Logout(r) ==
    /\ request[r].stage = "run" /\ request[r].handler = "logout"
    /\ Removed(request[r].key) \/ UNCHANGED <<ttl, dead>>
    /\ Answer(r)
    /\ UNCHANGED <<issued, known>>

(* login: the body, the admin list, the account and the password are        *)
(* checked; any of them, the database or the hash may turn the request away.*)
RefuseLogin(r) ==
    /\ request[r].stage = "login"
    /\ Answer(r)
    /\ UNCHANGED <<ttl, issued, dead, known>>

(* Mutant: SET, with the expiry left to a command that is never sent. *)
IssueNoExpiry(r) ==
    /\ request[r].stage = "login"
    /\ \E k \in Key \ issued :
          /\ ttl' = [ttl EXCEPT ![k] = TTL + 1]
          /\ issued' = issued \cup {k}
          /\ \/ request' = [request EXCEPT ![r] = [Idle EXCEPT !.stage = "reply", !.key = k]]
             \/ Answer(r)
    /\ UNCHANGED <<dead, known>>

(* issue: SETEX of a fresh random key; the reply may be lost (500). *)
Issue(r) ==
    /\ request[r].stage = "login"
    /\ \E k \in Key \ issued :
          /\ ttl' = [ttl EXCEPT ![k] = TTL]
          /\ issued' = issued \cup {k}
          /\ \/ request' = [request EXCEPT ![r] = [Idle EXCEPT !.stage = "reply", !.key = k]]
             \/ Answer(r)
    /\ UNCHANGED <<dead, known>>

(* 200 with the key in it. *)
Reply(r) ==
    /\ request[r].stage = "reply"
    /\ known' = known \cup {request[r].key}
    /\ Answer(r)
    /\ UNCHANGED <<ttl, issued, dead>>

(* The client hangs up: the handler's future is dropped where it waits. *)
Cut(r) ==
    /\ request[r] # Idle
    /\ Answer(r)
    /\ UNCHANGED <<ttl, issued, dead, known>>

(* Redis counts down; a key stored without an expiry stays. *)
Tick ==
    /\ ttl' = [k \in Key |-> IF ttl[k] \in 1..TTL THEN ttl[k] - 1 ELSE ttl[k]]
    /\ dead' = dead \cup {k \in Key : ttl[k] = 1}
    /\ UNCHANGED <<request, issued, known>>

Serve(r) ==
    \/ Get(r) \/ Expire(r) \/ Handle(r) \/ Logout(r)
    \/ RefuseLogin(r) \/ Issue(r) \/ Reply(r) \/ Cut(r)

-----------------------------------------------------------------------------
(* Properties *)

(* A handler runs only for a key that was issued and that was not dead yet  *)
(* when the request came: neither the gap between GET and EXPIRE nor a lost *)
(* reply or a cut request brings a revoked or expired key back (validate,   *)
(* revoke).                                                                 *)
DeadKeyRefused ==
    \A r \in Request : request[r].stage = "run" =>
        request[r].key \in issued /\ ~request[r].late

(* A key nobody was told, because SETEX's reply or the answer was lost,     *)
(* does not stay in Redis (issue).                                          *)
LostKeyDies ==
    \A k \in Key :
        /\ ttl[k] > 0 /\ k \notin known
        /\ \A r \in Request : request[r].key # k
        ~> ttl[k] = 0
=============================================================================

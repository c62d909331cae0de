----------------------------- MODULE LoginServer -----------------------------
(***************************************************************************)
(* crates/login_server: session tasks, the authenticate jobs that run       *)
(* outside the loop (account lookup, password check under the hash limiter, *)
(* ban check, last_login_at, token) and AdminApi's forced disconnect.       *)
(*                                                                         *)
(* A job is <<stage, user, status>>: status is the accounts column as       *)
(* find_account read it (a placeholder before that); the stages that follow *)
(* use that copy.  A job's end is an outcome, in or on its way to the inner *)
(* channel, in any order.                                                   *)
(***************************************************************************)
EXTENDS SessionTask

CONSTANTS Permits,       \* permits of hash_limiter
          Bannable,      \* users whose accounts.status an operator may set
          MaxLogins      \* bound: authenticate jobs that are spawned

ASSUME LoginServerAssumption ==
    /\ Permits \in Nat \ {0}
    /\ Bannable \subseteq User
    /\ MaxLogins \in Nat

VARIABLES jobs,      \* jobs[s][j]: authenticate jobs and outcomes of s
          permits,   \* free permits of hash_limiter
          banned,    \* accounts.status = 1, by user id
          tokens,    \* auth:token:* keys set so far, by the user they name
          spawned    \* how many jobs were spawned

loginVars == <<jobs, permits, banned, tokens, spawned>>
vars == <<registryVars, taskVars, loginVars>>

Stage == {"find", "acquire", "verify", "touch", "issue"}
Status == {"active", "banned"}
Work == Stage \X User \X Status
Success(u) == <<"success", u>>
Failed == <<"failed">>
Outcome == {Success(u) : u \in User} \cup {Failed}
Job == Work \cup Outcome

LoginTypeOK ==
    /\ RegistryTypeOK
    /\ TaskTypeOK
    /\ jobs \in [Session -> [Job -> Nat]]
    /\ permits \in 0..Permits
    /\ banned \subseteq User
    /\ tokens \in [User -> Nat]
    /\ spawned \in Nat

Init ==
    /\ TaskInit
    /\ jobs = [s \in Session |-> [j \in Job |-> 0]]
    /\ permits = Permits
    /\ banned = {}
    /\ tokens = [u \in User |-> 0]
    /\ spawned = 0

-----------------------------------------------------------------------------
(* on_login_request *)

(* An authenticated session, an attempt over the limit (LoginLimit models   *)
(* the limiter; here it may strike at any attempt) and an empty user id or  *)
(* password are refused with an answer.  Otherwise a job is spawned.        *)
LoginRequest(s, u) ==
    /\ pc[s] = "ready"
    /\ \/ /\ Reply(s)
          /\ UNCHANGED <<jobs, spawned>>
       \/ /\ account[s] = NoUser
          /\ spawned < MaxLogins
          /\ spawned' = spawned + 1
          /\ jobs' = [jobs EXCEPT ![s][<<"find", u, "active">>] = @ + 1]
          /\ Continue(s)
    /\ UNCHANGED <<registryVars, account, shutdown, accepting, exited,
                   permits, banned, tokens>>

-----------------------------------------------------------------------------
(* authenticate, one await at a time.  It runs in its own task: the session *)
(* may be gone, but the process must not have returned from main.           *)

(* inner_tx.send: the outcome is dropped once event_loop has returned. *)
Advance(s, j, k) ==
    /\ ~exited
    /\ jobs[s][j] > 0
    /\ jobs' = IF k \in Work \/ InLoop(s)
               THEN [jobs EXCEPT ![s][j] = @ - 1, ![s][k] = @ + 1]
               ELSE [jobs EXCEPT ![s][j] = @ - 1]

(* accounts.status of u at this moment. *)
StatusOf(u) == IF u \in banned THEN "banned" ELSE "active"

(* Mutant: the row is read without accounts.status, or from a cache. *)
FindAccountStale(s, u) ==
    /\ \/ Advance(s, <<"find", u, "active">>, <<"acquire", u, "active">>)
       \/ Advance(s, <<"find", u, "active">>, Failed)
    /\ UNCHANGED <<registryVars, taskVars, permits, banned,
                   tokens, spawned>>

(* find_account: a row with its status, no row, or an error. *)
FindAccount(s, u) ==
    /\ \/ Advance(s, <<"find", u, "active">>, <<"acquire", u, StatusOf(u)>>)
       \/ Advance(s, <<"find", u, "active">>, Failed)
    /\ UNCHANGED <<registryVars, taskVars, permits, banned,
                   tokens, spawned>>

(* Mutant: the check starts without waiting for a permit. *)
AcquirePermitAlways(s, u, st) ==
    /\ permits' = permits - 1
    /\ Advance(s, <<"acquire", u, st>>, <<"verify", u, st>>)
    /\ UNCHANGED <<registryVars, taskVars, banned, tokens,
                   spawned>>

AcquirePermit(s, u, st) ==
    /\ permits > 0
    /\ permits' = permits - 1
    /\ Advance(s, <<"acquire", u, st>>, <<"verify", u, st>>)
    /\ UNCHANGED <<registryVars, taskVars, banned, tokens,
                   spawned>>

(* Mutant: a failed password check keeps its permit. *)
VerifyPasswordLeaks(s, u, st) ==
    /\ \/ st = "active" /\ Advance(s, <<"verify", u, st>>, <<"touch", u, st>>)
          /\ permits' = permits + 1
       \/ Advance(s, <<"verify", u, st>>, Failed) /\ UNCHANGED permits
    /\ UNCHANGED <<registryVars, taskVars, banned, tokens,
                   spawned>>

(* Mutant: the ban check is missing. *)
VerifyPasswordNoBan(s, u, st) ==
    /\ permits' = permits + 1
    /\ \/ Advance(s, <<"verify", u, st>>, <<"touch", u, st>>)
       \/ Advance(s, <<"verify", u, st>>, Failed)
    /\ UNCHANGED <<registryVars, taskVars, banned, tokens,
                   spawned>>

(* The permit is given back when the blocking check ends; then the outcome  *)
(* of the check, and the ban seen by find_account, decide.                  *)
VerifyPassword(s, u, st) ==
    /\ permits' = permits + 1
    /\ \/ st = "active" /\ Advance(s, <<"verify", u, st>>, <<"touch", u, st>>)
       \/ Advance(s, <<"verify", u, st>>, Failed)
    /\ UNCHANGED <<registryVars, taskVars, banned, tokens,
                   spawned>>

TouchLastLogin(s, u, st) ==
    /\ \/ Advance(s, <<"touch", u, st>>, <<"issue", u, st>>)
       \/ Advance(s, <<"touch", u, st>>, Failed)
    /\ UNCHANGED <<registryVars, taskVars, permits, banned,
                   tokens, spawned>>

(* Mutant: SETEX is sent again after a lost reply, under another key. *)
IssueAuthTokenRetried(s, u, st) ==
    /\ \/ /\ Advance(s, <<"issue", u, st>>, Failed)
          /\ UNCHANGED tokens
       \/ /\ \/ Advance(s, <<"issue", u, st>>, Success(u))
             \/ Advance(s, <<"issue", u, st>>, <<"issue", u, st>>)
          /\ tokens' = [tokens EXCEPT ![u] = @ + 1]
    /\ UNCHANGED <<registryVars, taskVars, permits, banned,
                   spawned>>

(* issue_auth_token: SETEX of a fresh key.  When the reply is lost the key  *)
(* may hold a value although the login is answered with ServerError.        *)
IssueAuthToken(s, u, st) ==
    /\ \/ /\ Advance(s, <<"issue", u, st>>, Failed)
          /\ UNCHANGED tokens
       \/ /\ \/ Advance(s, <<"issue", u, st>>, Success(u))
             \/ Advance(s, <<"issue", u, st>>, Failed)
          /\ tokens' = [tokens EXCEPT ![u] = @ + 1]
    /\ UNCHANGED <<registryVars, taskVars, permits, banned,
                   spawned>>

-----------------------------------------------------------------------------
(* on_login_outcome *)

Receive(s, outcome) ==
    /\ pc[s] = "ready"
    /\ jobs[s][outcome] > 0
    /\ jobs' = [jobs EXCEPT ![s][outcome] = @ - 1]

(* Mutant: the account is set without registry.authenticate. *)
OnLoginSuccessUnregistered(s, u) ==
    /\ Receive(s, Success(u))
    /\ account' = [account EXCEPT ![s] = u]
    /\ Reply(s)
    /\ UNCHANGED <<registryVars, shutdown, accepting, exited, permits, banned, tokens, spawned>>

OnLoginSuccess(s, u) ==
    /\ Receive(s, Success(u))
    /\ Authenticate(s, u)
    /\ account' = [account EXCEPT ![s] = u]
    /\ Reply(s)
    /\ UNCHANGED <<shutdown, accepting, exited, permits,
                   banned, tokens, spawned>>

OnLoginFailure(s) ==
    /\ Receive(s, Failed)
    /\ Reply(s)
    /\ UNCHANGED <<registryVars, account, shutdown, accepting, exited,
                   permits, banned, tokens, spawned>>

-----------------------------------------------------------------------------
(* The session task and its surroundings *)

LeaveLoop(s) ==
    /\ Leave(s)
    /\ jobs' = [jobs EXCEPT ![s] = [j \in Job |-> IF j \in Work THEN @[j] ELSE 0]]
    /\ UNCHANGED <<permits, banned, tokens, spawned>>

(* run ends after Writer::close: no logout record here. *)
Close(s) == CloseThen(s, "done") /\ UNCHANGED loginVars

OnRemote(s) ==
    \/ \E u \in User : LoginRequest(s, u)
    \/ KeepAliveRequest(s) /\ UNCHANGED loginVars
    \/ UnhandledFrame(s) /\ UNCHANGED loginVars

OnLoginOutcome(s) == OnLoginFailure(s) \/ \E u \in User : OnLoginSuccess(s, u)

EventLoop(s) ==
    \/ Poll(s) /\ UNCHANGED loginVars
    \/ OnRemote(s)
    \/ OnLoginOutcome(s)
    \/ KeepAliveTimeout(s) /\ UNCHANGED loginVars
    \/ StreamEnd(s) /\ UNCHANGED loginVars
    \/ Pending(s) /\ UNCHANGED loginVars

Run(s) ==
    \/ Start(s) /\ UNCHANGED loginVars
    \/ EventLoop(s)
    \/ LeaveLoop(s)
    \/ Close(s)

WriterTask(s) == (WriterStep(s) \/ WriterFail(s)) /\ UNCHANGED loginVars

AuthenticateJob(s) ==
    \E u \in User :
        \/ FindAccount(s, u)
        \/ \E st \in Status :
              \/ AcquirePermit(s, u, st)
              \/ VerifyPassword(s, u, st)
              \/ TouchLastLogin(s, u, st)
              \/ IssueAuthToken(s, u, st)

(* AdminApi disconnect handler, in the same process. *)
AdminDisconnect(s) ==
    ~exited /\ Disconnect(s) /\ UNCHANGED <<taskVars, loginVars>>

(* An operator sets accounts.status in the database. *)
Ban(u) ==
    /\ ~exited /\ u \in Bannable \ banned
    /\ banned' = banned \cup {u}
    /\ UNCHANGED <<registryVars, taskVars, jobs, permits,
                   tokens, spawned>>

Server ==
    /\ Shutdown \/ AcceptorStop \/ Exit \/ \E s \in Session : Accept(s)
    /\ UNCHANGED loginVars

Terminated == exited /\ UNCHANGED vars

Next ==
    \/ \E s \in Session :
          \/ Run(s) \/ WriterTask(s) \/ AuthenticateJob(s)
          \/ AdminDisconnect(s)
    \/ \E u \in User : Ban(u)
    \/ Server
    \/ Terminated

Spec == Init /\ [][Next]_vars

-----------------------------------------------------------------------------
(* Properties *)

(* One element per job at a place of P: the place, which is a session and a  *)
(* stage, and the job's number among those that share it.                   *)
Copies(P) == UNION {{<<p, n>> : n \in 1..jobs[p[1]][p[2]]} : p \in P}

Verifying == Session \X ({"verify"} \X User \X Status)
Held == Copies(Verifying)

(* Every permit of hash_limiter is free or held by a password check that is *)
(* running: no early return and no session that ends mid-check loses one.   *)
PermitsConserved == permits + Cardinality(Held) = Permits

(* Logins of u whose lookup found the account active, before their token.   *)
SeenActive(u) ==
    Session \X ({"acquire", "verify", "touch", "issue"} \X {u} \X {"active"})
UnderWay(u) == Cardinality(Copies(SeenActive(u)))

(* authenticate reads accounts.status once and waits three times after it   *)
(* (permit, last_login_at, SETEX), so a banned user may still get a token.  *)
(* But only from a lookup made before the ban, and one per lookup: once u   *)
(* is banned, its tokens and the logins that may yet set one never grow,    *)
(* whatever the order of lookups, checks, lost replies and ended sessions.  *)
BanLetsNobodyNewIn ==
    [][\A u \in banned :
           tokens'[u] + UnderWay(u)' <= tokens[u] + UnderWay(u)]_vars

(* Whatever this server does to the registry is a registry call. *)
UsesRegistry == RegistrySpec

(* registry.rs remove: the mapping goes with its session, so no user id is  *)
(* mapped to a session that has ended.                                      *)
MappingReleased ==
    \A u \in User : authenticated[u] \in sessions \cup {NoSession}
=============================================================================

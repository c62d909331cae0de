----------------------------- MODULE GameServer -----------------------------
(***************************************************************************)
(* crates/game_server: session tasks, the DB jobs they spawn and the order  *)
(* in which the server ends.                                                *)
(*                                                                         *)
(* A job is a tokio task of spawn_inner.  While it works it is Take(t) or   *)
(* Save(u); its outcome is Taken(t), Saved or DbError, on its way to or in  *)
(* the session's inner channel.  Jobs finish in any order, so the order of  *)
(* that channel is free and the channel is a bag.                           *)
(***************************************************************************)
EXTENDS SessionTask

CONSTANTS Token,      \* auth tokens LoginServer may issue
          NoToken,    \* the empty token; also "no value" from Redis
          Owner,      \* the account a token's value names, by user id
          MaxJobs     \* bound: jobs of each kind that the clients cause

ASSUME GameServerAssumption ==
    /\ NoToken \notin Token
    /\ Owner \in [Token -> User]
    /\ MaxJobs \in [{"take", "save"} -> Nat]

VARIABLES redis,     \* state of the key auth:token:t
          jobs,      \* jobs[s][j]: how many jobs j session s has outstanding
          asked,     \* how many jobs of each kind were spawned
          tried,     \* sessions whose logout UPDATE has been attempted
          recorded,  \* sessions whose logout is recorded in accounts
          spent      \* history: authentications made with each token

gameVars == <<redis, jobs, asked, tried, recorded, spent>>
vars == <<registryVars, taskVars, gameVars>>

Take(t) == <<"take", t>>
Save(u) == <<"save", u>>
Taken(t) == <<"taken", t>>
Saved == <<"saved">>
DbError == <<"error">>

Work == {Take(t) : t \in Token} \cup {Save(u) : u \in User}
InnerMessage == {Taken(t) : t \in Token \cup {NoToken}} \cup {Saved, DbError}
Job == Work \cup InnerMessage

GameTypeOK ==
    /\ RegistryTypeOK
    /\ TaskTypeOK
    /\ redis \in [Token -> {"live", "gone"}]
    /\ jobs \in [Session -> [Job -> Nat]]
    /\ asked \in [{"take", "save"} -> Nat]
    /\ tried \subseteq Session
    /\ recorded \subseteq tried
    /\ spent \in [Token -> Nat]

Init ==
    /\ TaskInit
    /\ redis = [t \in Token |-> "live"]
    /\ jobs = [s \in Session |-> [j \in Job |-> 0]]
    /\ asked = [kind \in {"take", "save"} |-> 0]
    /\ tried = {}
    /\ recorded = {}
    /\ spent = [t \in Token |-> 0]

-----------------------------------------------------------------------------
(* Jobs outside the session loop *)

SpawnInner(s, j) ==
    /\ asked[j[1]] < MaxJobs[j[1]]
    /\ asked' = [asked EXCEPT ![j[1]] = @ + 1]
    /\ jobs' = [jobs EXCEPT ![s][j] = @ + 1]

(* inner_tx.send fails, and the outcome is dropped, once event_loop has     *)
(* returned and taken the receiver with it.                                 *)
Finish(s, j, message) ==
    /\ ~exited
    /\ jobs[s][j] > 0
    /\ jobs' = IF InLoop(s)
               THEN [jobs EXCEPT ![s][j] = @ - 1, ![s][message] = @ + 1]
               ELSE [jobs EXCEPT ![s][j] = @ - 1]

(* Mutant: GET without DEL. *)
TakeAuthTokenKeeps(s, t) ==
    /\ Finish(s, Take(t), Taken(IF redis[t] = "live" THEN t ELSE NoToken))
    /\ UNCHANGED <<registryVars, taskVars, redis, asked, tried, recorded, spent>>

(* take_auth_token: the Lua script reads and deletes the key in one step. *)
TakeAuthToken(s, t) ==
    /\ Finish(s, Take(t), Taken(IF redis[t] = "live" THEN t ELSE NoToken))
    /\ redis' = [redis EXCEPT ![t] = IF @ = "live" THEN "gone" ELSE @]
    /\ UNCHANGED <<registryVars, taskVars, asked, tried, recorded, spent>>

(* A Redis error: the script may have run although its reply was lost. *)
TakeAuthTokenFails(s, t) ==
    /\ Finish(s, Take(t), DbError)
    /\ \/ UNCHANGED redis
       \/ redis[t] = "live" /\ redis' = [redis EXCEPT ![t] = "gone"]
    /\ UNCHANGED <<registryVars, taskVars, asked, tried, recorded, spent>>

SaveScore(s, u) ==
    /\ Finish(s, Save(u), Saved) \/ Finish(s, Save(u), DbError)
    /\ UNCHANGED <<registryVars, taskVars, redis, asked, tried, recorded, spent>>

(* Redis drops a token when its TTL passes.  LoginServer stored it before   *)
(* any client could present it, so Init has it live.                        *)
ExpireToken(t) ==
    /\ ~exited
    /\ redis[t] = "live"
    /\ redis' = [redis EXCEPT ![t] = "gone"]
    /\ UNCHANGED <<registryVars, taskVars, jobs, asked, tried, recorded, spent>>

-----------------------------------------------------------------------------
(* on_remote *)

(* A session that is authenticated, or an empty token, is answered at once. *)
GameConnectRequest(s, t) ==
    /\ pc[s] = "ready"
    /\ \/ /\ account[s] # NoUser \/ t = NoToken
          /\ Reply(s)
          /\ UNCHANGED <<jobs, asked>>
       \/ /\ account[s] = NoUser /\ t # NoToken
          /\ SpawnInner(s, Take(t))
          /\ Continue(s)
    /\ UNCHANGED <<registryVars, account, shutdown, accepting, exited,
                   redis, tried, recorded, spent>>

(* MoveRequest and EnterWorldRequest answer the sender only; what they      *)
(* store is only logged.                                                    *)
EchoRequest(s) ==
    /\ pc[s] = "ready"
    /\ \/ account[s] # NoUser /\ Reply(s)
       \/ account[s] = NoUser /\ Break(s)
    /\ UNCHANGED <<registryVars, account, shutdown, accepting, exited, gameVars>>

GameOverReport(s) ==
    /\ pc[s] = "ready"
    /\ \/ /\ account[s] # NoUser
          /\ SpawnInner(s, Save(account[s]))
          /\ Continue(s)
       \/ /\ account[s] = NoUser
          /\ Break(s)
          /\ UNCHANGED <<jobs, asked>>
    /\ UNCHANGED <<registryVars, account, shutdown, accepting, exited,
                   redis, tried, recorded, spent>>

-----------------------------------------------------------------------------
(* on_inner *)

Receive(s, message) ==
    /\ pc[s] = "ready"
    /\ jobs[s][message] > 0
    /\ jobs' = [jobs EXCEPT ![s][message] = @ - 1]

(* Mutant: the session serves the user without telling the registry. *)
OnAuthenticatedUnregistered(s, t) ==
    /\ Receive(s, Taken(t))
    /\ account' = [account EXCEPT ![s] = Owner[t]]
    /\ spent' = [spent EXCEPT ![t] = @ + 1]
    /\ Reply(s)
    /\ UNCHANGED <<registryVars, shutdown, accepting, exited,
                   redis, asked, tried, recorded>>

(* TokenTaken(Some): kick the duplicate, then answer.  Whether the session  *)
(* is authenticated already is not looked at.                               *)
OnAuthenticated(s, t) ==
    /\ Receive(s, Taken(t))
    /\ Authenticate(s, Owner[t])
    /\ account' = [account EXCEPT ![s] = Owner[t]]
    /\ spent' = [spent EXCEPT ![t] = @ + 1]
    /\ Reply(s)
    /\ UNCHANGED <<shutdown, accepting, exited, redis, asked, tried, recorded>>

(* TokenTaken(None), ScoreSaved and DbError only answer, and so does a value *)
(* that does not parse, which Taken does not tell from no value.            *)
OnInnerAnswer(s, message) ==
    /\ Receive(s, message)
    /\ Reply(s)
    /\ UNCHANGED <<registryVars, account, shutdown, accepting, exited,
                   redis, asked, tried, recorded, spent>>

-----------------------------------------------------------------------------
(* The end of run: record_logout *)

(* Leaving the loop drops the receiver with what it still holds. *)
LeaveLoop(s) ==
    /\ Leave(s)
    /\ jobs' = [jobs EXCEPT ![s] = [j \in Job |-> IF j \in Work THEN @[j] ELSE 0]]
    /\ UNCHANGED <<redis, asked, tried, recorded, spent>>

(* Mutant: run returns without recording the logout. *)
CloseForgetsLogout(s) ==
    CloseThen(s, "done") /\ UNCHANGED gameVars

Close(s) ==
    /\ CloseThen(s, IF account[s] = NoUser THEN "done" ELSE "logout")
    /\ UNCHANGED gameVars

TouchOk(s) ==
    /\ pc[s] = "logout"
    /\ GoTo(s, "done")
    /\ tried' = tried \cup {s}
    /\ recorded' = recorded \cup {s}
    /\ UNCHANGED <<registryVars, account, queue, writer, shutdown, accepting,
                   exited, redis, jobs, asked, spent>>

TouchFail(s) ==
    /\ pc[s] = "logout"
    /\ GoTo(s, "backoff")
    /\ tried' = tried \cup {s}
    /\ UNCHANGED <<registryVars, account, queue, writer, shutdown, accepting,
                   exited, redis, jobs, asked, recorded, spent>>

(* Mutant: only the sleep is awaited between two attempts. *)
BackoffNoShutdown(s) ==
    /\ pc[s] = "backoff"
    /\ GoTo(s, "logout")
    /\ UNCHANGED <<registryVars, account, queue, writer, shutdown, accepting,
                   exited, gameVars>>

(* Mutant: the task gives up after a failed attempt. *)
BackoffGivesUp(s) ==
    /\ pc[s] = "backoff"
    /\ GoTo(s, "done")
    /\ UNCHANGED <<registryVars, account, queue, writer, shutdown, accepting,
                   exited, gameVars>>

(* The delay of attempt n is finite (at most LOGOUT_RETRY_MAX_DELAY); only  *)
(* shutdown ends the retries.                                               *)
Backoff(s) ==
    /\ pc[s] = "backoff"
    /\ \/ GoTo(s, "logout")
       \/ shutdown /\ GoTo(s, "done")
    /\ UNCHANGED <<registryVars, account, queue, writer, shutdown, accepting,
                   exited, gameVars>>

-----------------------------------------------------------------------------
(* The steps of the session task, as its thread takes them. *)

OnRemote(s) ==
    \/ \E t \in Token \cup {NoToken} : GameConnectRequest(s, t)
    \/ EchoRequest(s)
    \/ GameOverReport(s)
    \/ KeepAliveRequest(s) /\ UNCHANGED gameVars
    \/ UnhandledFrame(s) /\ UNCHANGED gameVars

OnInner(s) ==
    \/ \E t \in Token : OnAuthenticated(s, t)
    \/ \E message \in InnerMessage \ {Taken(t) : t \in Token} :
          OnInnerAnswer(s, message)

LoopStep(s) ==
    \/ Start(s) /\ UNCHANGED gameVars
    \/ Poll(s) /\ UNCHANGED gameVars
    \/ OnRemote(s)
    \/ OnInner(s)
    \/ KeepAliveTimeout(s) /\ UNCHANGED gameVars
    \/ StreamEnd(s) /\ UNCHANGED gameVars
    \/ Pending(s) /\ UNCHANGED gameVars
    \/ LeaveLoop(s)
    \/ Close(s)

LogoutStep(s) == TouchOk(s) \/ TouchFail(s) \/ Backoff(s)

WriterTask(s) == (WriterStep(s) \/ WriterFail(s)) /\ UNCHANGED gameVars

JobStep(s) ==
    \/ \E t \in Token : TakeAuthToken(s, t) \/ TakeAuthTokenFails(s, t)
    \/ \E u \in User : SaveScore(s, u)

Server ==
    /\ Shutdown \/ AcceptorStop \/ Exit \/ \E s \in Session : Accept(s)
    /\ UNCHANGED gameVars

Terminated == exited /\ UNCHANGED vars

Next ==
    \/ \E s \in Session :
          LoopStep(s) \/ LogoutStep(s) \/ WriterTask(s) \/ JobStep(s)
    \/ \E t \in Token : ExpireToken(t)
    \/ Server
    \/ Terminated

Spec == Init /\ [][Next]_vars

(* The runtime keeps scheduling a task that can run; the drain timeout, the *)
(* back-off sleep and every DB call end.                                    *)
Fairness ==
    /\ \A s \in Session : WF_vars(LoopStep(s)) /\ WF_vars(LogoutStep(s))
    /\ \A s \in Session : SF_vars(Backoff(s) /\ pc'[s] = "done")
    /\ WF_vars(AcceptorStop /\ UNCHANGED gameVars)
    /\ WF_vars(Exit /\ UNCHANGED gameVars)

FairSpec == Spec /\ Fairness

(* The database does not fail forever. *)
DbRecovers == \A s \in Session : SF_vars(TouchOk(s))

-----------------------------------------------------------------------------
(* Properties *)

(* A token authenticates one session once, whatever the order in which      *)
(* concurrent take_auth_token jobs, their replies and the sessions' ends    *)
(* interleave (backend.rs GET+DEL script).                                  *)
TokenSingleUse == \A t \in Token : spent[t] <= 1

(* The logout of an authenticated session is recorded before its task ends; *)
(* only shutdown may cut the retries short, and never before one attempt    *)
(* (session.rs record_logout).                                              *)
LogoutRecorded ==
    \A s \in Session :
        pc[s] = "done" /\ account[s] # NoUser
            => s \in tried /\ (s \in recorded \/ shutdown)

(* Whatever the server does to the registry is a registry call: the tasks   *)
(* implement RegistrySpec, so what is proved of it holds here.              *)
UsesRegistry == RegistrySpec

(* spawn_inner: "the DB work itself is carried out to the end" - no job is  *)
(* still at work when the process has returned from main.                   *)
WorkIsCarriedOut ==
    exited => \A s \in Session : \A j \in Work : jobs[s][j] = 0

(* Without a shutdown a failed logout UPDATE is retried until the database  *)
(* takes it (session.rs record_logout).                                     *)
LogoutEventuallyRecorded ==
    DbRecovers => \A s \in Session :
                     (pc[s] = "logout") ~> (s \in recorded \/ shutdown)
=============================================================================

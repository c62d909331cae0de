-------------------------- MODULE GameServerProofs --------------------------
(***************************************************************************)
(* GameServer for any number of sessions, users, tokens and jobs: its tasks *)
(* keep the shared invariant, so the duplicate-login guarantee holds of the *)
(* running loops and the server uses the registry as RegistrySpec allows;   *)
(* and a token authenticates at most once.                                  *)
(***************************************************************************)
EXTENDS GameServer, SessionTaskProofs

(* The variables of GameServer proper are well typed. *)
GameDataOK ==
    /\ redis \in [Token -> {"live", "gone"}]
    /\ jobs \in [Session -> [Job -> Nat]]
    /\ asked \in [{"take", "save"} -> Nat]
    /\ tried \subseteq Session
    /\ recorded \subseteq tried
    /\ spent \in [Token -> Nat]

(* Where a token is: live in Redis, in the hands of one job, or spent.      *)
(* Without the first two parts TokenSingleUse is not inductive.             *)
TokenInv ==
    \A t \in Token :
        /\ redis[t] = "live" =>
              spent[t] = 0 /\ \A s \in Session : jobs[s][Taken(t)] = 0
        /\ \A s \in Session : jobs[s][Taken(t)] # 0 =>
              /\ jobs[s][Taken(t)] = 1
              /\ spent[t] = 0
              /\ \A r \in Session : r # s => jobs[r][Taken(t)] = 0
        /\ spent[t] <= 1

(* Between the first failed attempt and the end, the attempt is on record. *)
LogoutInv ==
    \A s \in Session :
        /\ pc[s] = "backoff" => s \in tried
        /\ pc[s] = "done" /\ account[s] # NoUser =>
              s \in tried /\ (s \in recorded \/ shutdown)

-----------------------------------------------------------------------------
(* Jobs: work and outcomes are different things, and outcomes of different  *)
(* tokens differ.                                                           *)
LEMMA JobFacts ==
    /\ \A t \in Token : Take(t) \in Work /\ Take(t) \in Job /\ Taken(t) \in Job
    /\ \A u \in User : Save(u) \in Work /\ Save(u) \in Job
    /\ Taken(NoToken) \in Job /\ Saved \in Job /\ DbError \in Job
    /\ \A t \in Token : Taken(t) \notin Work
    /\ \A t, r \in Token : Take(t) # Taken(r) /\ (Taken(t) = Taken(r) => t = r)
    /\ \A t \in Token : /\ Taken(t) # Saved /\ Taken(t) # DbError
                        /\ Taken(t) # Taken(NoToken)
    /\ \A t \in Token, u \in User : Taken(t) # Save(u)
BY GameServerAssumption
DEF Take, Taken, Save, Saved, DbError, Work, InnerMessage, Job

(* spawn_inner starts one job of the given kind and no outcome appears. *)
LEMMA SpawnFacts ==
    ASSUME GameDataOK, NEW s \in Session, NEW j \in Work, SpawnInner(s, j)
    PROVE  /\ jobs' \in [Session -> [Job -> Nat]]
           /\ asked' \in [{"take", "save"} -> Nat]
           /\ \A r \in Session, t \in Token : jobs'[r][Taken(t)] = jobs[r][Taken(t)]
<1>1. j \in Job /\ j[1] \in {"take", "save"}
  BY DEF Job, Work, Take, Save
<1>2. \A t \in Token : Taken(t) \in Job /\ Taken(t) # j
  BY JobFacts
<1> QED BY <1>1, <1>2 DEF GameDataOK, SpawnInner

(* A job ends: its outcome may arrive at its own session, nowhere else. *)
LEMMA FinishFacts ==
    ASSUME GameDataOK, NEW s \in Session, NEW j \in Work, NEW m \in Job,
           Finish(s, j, m)
    PROVE  /\ jobs' \in [Session -> [Job -> Nat]]
           /\ \A r \in Session, t \in Token :
                 jobs'[r][Taken(t)] = jobs[r][Taken(t)]
                 \/ (r = s /\ Taken(t) = m
                     /\ jobs'[r][Taken(t)] = jobs[r][Taken(t)] + 1)
<1>1. j \in Job /\ \A t \in Token : Taken(t) \in Job /\ Taken(t) # j
  BY JobFacts DEF Job
<1>2. CASE InLoop(s)
  BY <1>1, <1>2 DEF GameDataOK, Finish
<1>3. CASE ~InLoop(s)
  BY <1>1, <1>3 DEF GameDataOK, Finish
<1> QED BY <1>2, <1>3

(* The loop takes an outcome out of its channel. *)
LEMMA ReceiveFacts ==
    ASSUME GameDataOK, NEW s \in Session, NEW m \in Job, Receive(s, m)
    PROVE  /\ jobs' \in [Session -> [Job -> Nat]]
           /\ \A r \in Session, t \in Token :
                 jobs'[r][Taken(t)] =
                    IF r = s /\ Taken(t) = m THEN jobs[r][Taken(t)] - 1
                    ELSE jobs[r][Taken(t)]
BY JobFacts DEF GameDataOK, Receive

-----------------------------------------------------------------------------
(* Every step keeps the shared invariant of the session tasks. *)

(* Terminated and steps that touch neither tasks nor registry. *)
LEMMA TaskUnchanged ==
    ASSUME TaskInv, UNCHANGED <<registryVars, taskVars>> PROVE TaskInv'
BY DEF TaskInv, RegistryInv, RegistryTypeOK, AbsentHasNoUser, OwnerOrKicked,
       MappingIsCurrent, TaskTypeOK, DirectoryMatchesTasks, StartInvariant,
       ExitInv, registryVars, taskVars

(* record_logout moves the task among places outside the registry. *)
LEMMA LogoutTaskInv ==
    ASSUME TaskInv, NEW s \in Session, LogoutStep(s)
    PROVE  TaskInv'
<1>1. "done" \in PCs /\ "backoff" \in PCs /\ "logout" \in PCs
  BY DEF PCs
<1>2. /\ queue \in [Session -> 0..SendQueueSize]
      /\ writer \in [Session -> {"none", "running", "failed", "ended"}]
      /\ shutdown \in BOOLEAN
  BY DEF TaskInv, TaskTypeOK
<1>3. CASE TouchOk(s)
  BY <1>1, <1>2, <1>3, MoveInv DEF TouchOk, Registered, Unstarted
<1>4. CASE TouchFail(s)
  BY <1>1, <1>2, <1>4, MoveInv DEF TouchFail, Registered, Unstarted
<1>5. CASE Backoff(s)
  <2>1. CASE GoTo(s, "logout")
    BY <1>1, <1>2, <1>5, <2>1, MoveInv DEF Backoff, Registered, Unstarted
  <2>2. CASE GoTo(s, "done")
    BY <1>1, <1>2, <1>5, <2>2, MoveInv DEF Backoff, Registered, Unstarted
  <2> QED BY <1>5, <2>1, <2>2 DEF Backoff
<1> QED BY <1>3, <1>4, <1>5 DEF LogoutStep

(* The session loop, run from its start to Writer::close. *)
LEMMA LoopTaskInv ==
    ASSUME TaskInv, NEW s \in Session, LoopStep(s)
    PROVE  TaskInv'
<1>1. CASE OnRemote(s)
  <2>1. CASE \E t \in Token \cup {NoToken} : GameConnectRequest(s, t)
    BY <2>1, HandlerInv DEF GameConnectRequest
  <2>2. CASE EchoRequest(s) \/ GameOverReport(s)
    BY <2>2, HandlerInv DEF EchoRequest, GameOverReport
  <2> QED BY <1>1, <2>1, <2>2, TaskMoveInv DEF OnRemote
<1>2. CASE OnInner(s)
  <2>1. CASE \E t \in Token : OnAuthenticated(s, t)
    <3>1. PICK t \in Token : OnAuthenticated(s, t)
      BY <2>1
    <3>2. Owner[t] \in User
      BY GameServerAssumption
    <3> QED BY <3>1, <3>2, AuthenticatedInv DEF OnAuthenticated, Receive
  <2>2. CASE \E m \in InnerMessage \ {Taken(t) : t \in Token} : OnInnerAnswer(s, m)
    BY <2>2, HandlerInv DEF OnInnerAnswer, Receive
  <2> QED BY <1>2, <2>1, <2>2 DEF OnInner
<1>3. CASE LeaveLoop(s)
  BY <1>3, LeaveInv DEF LeaveLoop
<1>4. CASE Close(s)
  BY <1>4, CloseInv DEF Close
<1> QED BY <1>1, <1>2, <1>3, <1>4, StartInv, TaskMoveInv DEF LoopStep

(* Every step of GameServer keeps the shared invariant. *)
LEMMA GameTaskInv == TaskInv /\ [Next]_vars => TaskInv'
<1> SUFFICES ASSUME TaskInv, [Next]_vars PROVE TaskInv'
  OBVIOUS
<1>1. CASE UNCHANGED vars
  BY <1>1, TaskUnchanged DEF vars
<1>2. CASE \E s \in Session : LoopStep(s) \/ LogoutStep(s)
  BY <1>2, LoopTaskInv, LogoutTaskInv
<1>3. CASE \E s \in Session : WriterTask(s)
  BY <1>3, WriterInv DEF WriterTask
<1>4. CASE (\E s \in Session : JobStep(s)) \/ (\E t \in Token : ExpireToken(t))
  BY <1>4, TaskUnchanged
  DEF JobStep, TakeAuthToken, TakeAuthTokenFails, SaveScore, ExpireToken
<1>5. CASE Server
  BY <1>5, ServerInv, TaskMoveInv DEF Server
<1> QED BY <1>1, <1>2, <1>3, <1>4, <1>5 DEF Next, Terminated

(* What GameServer does to the registry is a registry call, made while the  *)
(* calling session is registered.                                           *)
LEMMA GameRegistryStep ==
    TaskInv /\ [Next]_vars => [RegistryNext]_registryVars
<1> SUFFICES ASSUME TaskInv, [Next]_vars
             PROVE  [RegistryNext]_registryVars
  OBVIOUS
<1>1. CASE UNCHANGED vars
  BY <1>1 DEF vars
<1>2. CASE \E s \in Session : LoopStep(s)
  <2>1. PICK s \in Session : LoopStep(s)
    BY <1>2
  <2>2. CASE Start(s)
    BY <2>2 DEF Start, RegistryNext
  <2>3. CASE LeaveLoop(s)
    <3>1. s \in sessions
      BY <2>3 DEF LeaveLoop, Leave, TaskInv, DirectoryMatchesTasks
    <3> QED BY <2>3, <3>1 DEF LeaveLoop, Leave, RegistryNext
  <2>4. CASE \E t \in Token : OnAuthenticated(s, t)
    <3>1. PICK t \in Token : OnAuthenticated(s, t)
      BY <2>4
    <3>2. s \in sessions /\ Owner[t] \in User
      BY <3>1, GameServerAssumption
      DEF OnAuthenticated, Receive, TaskInv, DirectoryMatchesTasks
    <3> QED BY <3>1, <3>2 DEF OnAuthenticated, RegistryNext
  <2>5. CASE OnRemote(s)
    BY <2>5 DEF OnRemote, GameConnectRequest, EchoRequest, GameOverReport,
                KeepAliveRequest, UnhandledFrame
  <2>6. CASE Poll(s) \/ KeepAliveTimeout(s) \/ StreamEnd(s) \/ Pending(s)
    BY <2>6 DEF Poll, KeepAliveTimeout, StreamEnd, Pending
  <2>7. CASE Close(s) \/ \E m \in InnerMessage : OnInnerAnswer(s, m)
    BY <2>7 DEF Close, CloseThen, OnInnerAnswer
  <2> QED
    BY <2>1, <2>2, <2>3, <2>4, <2>5, <2>6, <2>7 DEF LoopStep, OnInner
<1>3. CASE \E s \in Session : LogoutStep(s)
  BY <1>3 DEF LogoutStep, TouchOk, TouchFail, Backoff
<1>4. CASE \E s \in Session : WriterTask(s)
  BY <1>4 DEF WriterTask, WriterStep, WriterFail, RegistryNext
<1>5. CASE (\E s \in Session : JobStep(s)) \/ (\E t \in Token : ExpireToken(t))
  BY <1>5 DEF JobStep, TakeAuthToken, TakeAuthTokenFails, SaveScore, ExpireToken
<1>6. CASE Server
  BY <1>6 DEF Server, Shutdown, AcceptorStop, Exit, Accept
<1> QED BY <1>1, <1>2, <1>3, <1>4, <1>5, <1>6 DEF Next, Terminated

-----------------------------------------------------------------------------
(* The theorems about the tasks and the registry *)

(* The session tasks of GameServer keep their invariant in every behaviour. *)
THEOREM GameTasks == Spec => []TaskInv
<1>1. Init => TaskInv
  BY TaskInitInv DEF Init
<1> QED BY <1>1, GameTaskInv, PTL DEF Spec

(* game_server/session.rs never lets two loops serve one user unless one of *)
(* them has been kicked, for any number of sessions and any interleaving.   *)
THEOREM GameOneActiveSession == Spec => []OneActiveSession
BY GameTasks, OneActive, PTL

(* The registry lists exactly the loops that run, under the user they       *)
(* serve (game_server/session.rs run, on_authenticated).                    *)
THEOREM GameDirectory == Spec => []DirectoryMatchesTasks
<1>1. TaskInv => DirectoryMatchesTasks BY DEF TaskInv
<1> QED BY <1>1, GameTasks, PTL

(* game_server serve and main return to an empty registry. *)
THEOREM GameExit == Spec => []ExitIsClean
BY GameTasks, CleanExit, PTL

(* GameServer implements the registry's specification: its steps are        *)
(* registry calls or leave the registry alone.                              *)
THEOREM GameImplementsRegistry == Spec => UsesRegistry
<1>1. Init => RegistryInit
  BY DEF Init, TaskInit
<1> QED
  BY <1>1, GameTasks, GameRegistryStep, PTL DEF Spec, UsesRegistry, RegistrySpec

-----------------------------------------------------------------------------
(* Tokens *)

(* Steps that leave Redis, the token history and the outcomes alone. *)
LEMMA TokenUnchanged ==
    ASSUME TokenInv, UNCHANGED <<redis, spent>>,
           \A r \in Session, t \in Token :
               jobs'[r][Taken(t)] = jobs[r][Taken(t)]
    PROVE  TokenInv'
BY DEF TokenInv

(* The handlers of the session loop. *)
LEMMA LoopTokenInv ==
    ASSUME TaskInv, GameDataOK, TokenInv, NEW s \in Session, LoopStep(s)
    PROVE  GameDataOK' /\ TokenInv'
<1>1. CASE UNCHANGED gameVars
  BY <1>1 DEF gameVars, GameDataOK, TokenInv
<1>2. ASSUME NEW j \in Work, SpawnInner(s, j),
             UNCHANGED <<redis, tried, recorded, spent>>
      PROVE  GameDataOK' /\ TokenInv'
  BY <1>2, SpawnFacts, TokenUnchanged DEF GameDataOK
<1>3. CASE \E t \in Token \cup {NoToken} : GameConnectRequest(s, t)
  <2>1. PICK t \in Token \cup {NoToken} : GameConnectRequest(s, t)
    BY <1>3
  <2>2. CASE UNCHANGED <<jobs, asked>>
    BY <1>1, <2>1, <2>2 DEF GameConnectRequest, gameVars
  <2>3. CASE t # NoToken /\ SpawnInner(s, Take(t))
    BY <1>2, <2>1, <2>3, JobFacts DEF GameConnectRequest
  <2> QED BY <2>1, <2>2, <2>3 DEF GameConnectRequest
<1>4. CASE GameOverReport(s)
  <2>1. CASE UNCHANGED <<jobs, asked>>
    BY <1>1, <1>4, <2>1 DEF GameOverReport, gameVars
  <2>2. CASE account[s] \in User /\ SpawnInner(s, Save(account[s]))
    BY <1>2, <1>4, <2>2, JobFacts DEF GameOverReport
  <2> QED BY <1>4, <2>1, <2>2 DEF GameOverReport, TaskInv, TaskTypeOK
<1>5. CASE \E t \in Token : OnAuthenticated(s, t)
  <2>1. PICK t \in Token : OnAuthenticated(s, t)
    BY <1>5
  <2>2. Taken(t) \in Job /\ Receive(s, Taken(t)) /\ jobs[s][Taken(t)] > 0
    BY <2>1, JobFacts DEF OnAuthenticated, Receive
  <2>3. jobs[s][Taken(t)] \in Nat
    BY <2>2 DEF GameDataOK
  <2>4. /\ jobs[s][Taken(t)] = 1 /\ spent[t] = 0 /\ redis[t] # "live"
        /\ \A r \in Session : r # s => jobs[r][Taken(t)] = 0
    BY <2>2, <2>3 DEF TokenInv
  <2>5. GameDataOK'
    BY <2>1, <2>2, ReceiveFacts DEF OnAuthenticated, GameDataOK
  <2>6. TokenInv'
    BY <2>1, <2>2, <2>4, ReceiveFacts, JobFacts
    DEF OnAuthenticated, TokenInv, GameDataOK
  <2> QED BY <2>5, <2>6
<1>6. CASE \E m \in InnerMessage \ {Taken(t) : t \in Token} : OnInnerAnswer(s, m)
  <2>1. PICK m \in InnerMessage \ {Taken(t) : t \in Token} : OnInnerAnswer(s, m)
    BY <1>6
  <2>2. m \in Job /\ Receive(s, m) /\ \A t \in Token : Taken(t) # m
    BY <2>1 DEF OnInnerAnswer, Job
  <2>3. GameDataOK'
    BY <2>1, <2>2, ReceiveFacts DEF OnInnerAnswer, GameDataOK
  <2> QED
    BY <2>1, <2>2, <2>3, ReceiveFacts, TokenUnchanged DEF OnInnerAnswer
<1>7. CASE LeaveLoop(s)
  <2>1. GameDataOK'
    BY <1>7 DEF LeaveLoop, GameDataOK
  <2>2. \A t \in Token : Taken(t) \in Job
    BY JobFacts
  <2>3. \A r \in Session, t \in Token :
           jobs'[r][Taken(t)] = IF r = s THEN 0 ELSE jobs[r][Taken(t)]
    BY <1>7, <2>2, JobFacts DEF LeaveLoop, GameDataOK
  <2>4. TokenInv'
    BY <1>7, <2>3 DEF LeaveLoop, TokenInv
  <2> QED BY <2>1, <2>4
<1> QED
  BY <1>1, <1>3, <1>4, <1>5, <1>6, <1>7
  DEF LoopStep, OnRemote, OnInner, EchoRequest, Close

(* take_auth_token moves a token from Redis to the one job that took it. *)
LEMMA JobTokenInv ==
    ASSUME GameDataOK, TokenInv, NEW s \in Session, JobStep(s)
    PROVE  GameDataOK' /\ TokenInv'
<1>1. CASE \E t \in Token : TakeAuthToken(s, t)
  <2>1. PICK t \in Token : TakeAuthToken(s, t)
    BY <1>1
  <2>2. CASE redis[t] = "live"
    <3>1. Finish(s, Take(t), Taken(t)) /\ redis' = [redis EXCEPT ![t] = "gone"]
      BY <2>1, <2>2 DEF TakeAuthToken, GameDataOK
    <3>2. GameDataOK'
      BY <2>1, <3>1, FinishFacts, JobFacts DEF TakeAuthToken, GameDataOK
    <3>3. \A r \in Session, q \in Token :
             jobs'[r][Taken(q)] = jobs[r][Taken(q)]
             \/ (r = s /\ q = t /\ jobs'[r][Taken(q)] = jobs[r][Taken(q)] + 1)
      BY <3>1, FinishFacts, JobFacts
    <3>4. spent[t] = 0 /\ \A r \in Session : jobs[r][Taken(t)] = 0
      BY <2>2 DEF TokenInv
    <3>5. TokenInv'
      BY <2>1, <3>1, <3>3, <3>4 DEF TakeAuthToken, TokenInv, GameDataOK
    <3> QED BY <3>2, <3>5
  <2>3. CASE redis[t] # "live"
    <3>1. Finish(s, Take(t), Taken(NoToken)) /\ redis' = redis
      BY <2>1, <2>3 DEF TakeAuthToken, GameDataOK
    <3>2. GameDataOK'
      BY <2>1, <3>1, FinishFacts, JobFacts DEF TakeAuthToken, GameDataOK
    <3>3. \A r \in Session, q \in Token : jobs'[r][Taken(q)] = jobs[r][Taken(q)]
      BY <3>1, FinishFacts, JobFacts
    <3> QED BY <2>1, <3>1, <3>2, <3>3, TokenUnchanged DEF TakeAuthToken
  <2> QED BY <2>2, <2>3
<1>2. CASE \E t \in Token : TakeAuthTokenFails(s, t)
  <2>1. PICK t \in Token : TakeAuthTokenFails(s, t)
    BY <1>2
  <2>2. Finish(s, Take(t), DbError)
    BY <2>1 DEF TakeAuthTokenFails
  <2>3. \A r \in Session, q \in Token : jobs'[r][Taken(q)] = jobs[r][Taken(q)]
    BY <2>2, FinishFacts, JobFacts
  <2>4. GameDataOK'
    BY <2>1, <2>2, FinishFacts, JobFacts DEF TakeAuthTokenFails, GameDataOK
  <2>5. TokenInv'
    BY <2>1, <2>3 DEF TakeAuthTokenFails, TokenInv, GameDataOK
  <2> QED BY <2>4, <2>5
<1>3. CASE \E u \in User : SaveScore(s, u)
  <2>1. PICK u \in User : SaveScore(s, u)
    BY <1>3
  <2>2. PICK m \in {Saved, DbError} : Finish(s, Save(u), m)
    BY <2>1 DEF SaveScore
  <2>3. m \in Job /\ \A q \in Token : Taken(q) # m
    BY JobFacts
  <2>4. /\ jobs' \in [Session -> [Job -> Nat]]
        /\ \A r \in Session, q \in Token : jobs'[r][Taken(q)] = jobs[r][Taken(q)]
    BY <2>2, <2>3, FinishFacts, JobFacts
  <2> QED BY <2>1, <2>4, TokenUnchanged DEF SaveScore, GameDataOK
<1> QED BY <1>1, <1>2, <1>3 DEF JobStep

(* Every step keeps the tokens' whereabouts. *)
LEMMA GameTokenInv ==
    TaskInv /\ GameDataOK /\ TokenInv /\ [Next]_vars => GameDataOK' /\ TokenInv'
<1> SUFFICES ASSUME TaskInv, GameDataOK, TokenInv, [Next]_vars
             PROVE  GameDataOK' /\ TokenInv'
  OBVIOUS
<1>1. CASE UNCHANGED gameVars
  BY <1>1 DEF gameVars, GameDataOK, TokenInv
<1>2. CASE \E s \in Session : LoopStep(s) \/ JobStep(s)
  BY <1>2, LoopTokenInv, JobTokenInv
<1>3. CASE \E s \in Session : LogoutStep(s)
  BY <1>3 DEF LogoutStep, TouchOk, TouchFail, Backoff, gameVars, GameDataOK,
              TokenInv
<1>4. CASE \E t \in Token : ExpireToken(t)
  BY <1>4 DEF ExpireToken, GameDataOK, TokenInv
<1> QED
  BY <1>1, <1>2, <1>3, <1>4 DEF Next, WriterTask, Server, Terminated, vars

(* A token of Redis authenticates at most one session, once, for any number *)
(* of concurrent take_auth_token jobs (backend.rs, session.rs on_inner).    *)
THEOREM GameTokenSingleUse == Spec => []TokenSingleUse
<1>1. Init => GameDataOK /\ TokenInv
  BY JobFacts DEF Init, GameDataOK, TokenInv
<1>2. TokenInv => TokenSingleUse
  BY DEF TokenInv, TokenSingleUse
<1> QED BY <1>1, <1>2, GameTasks, GameTokenInv, PTL DEF Spec

(* All of GameServer's state is well typed. *)
THEOREM GameTyped == Spec => []GameTypeOK
<1>1. Init => TaskInv /\ GameDataOK /\ TokenInv
  BY TaskInitInv, JobFacts DEF Init, GameDataOK, TokenInv
<1>2. TaskInv /\ GameDataOK => GameTypeOK
  BY DEF TaskInv, RegistryInv, GameDataOK, GameTypeOK
<1> QED BY <1>1, <1>2, GameTaskInv, GameTokenInv, PTL DEF Spec

-----------------------------------------------------------------------------
(* The logout record *)

(* A step of session s that does not end its task, or of nobody. *)
LEMMA LogoutElsewhere ==
    ASSUME TaskInv, LogoutInv, NEW s \in Session,
           NEW label \in PCs \ {"backoff", "done"}, GoTo(s, label),
           \A r \in Session : r # s => account'[r] = account[r],
           UNCHANGED <<tried, recorded, shutdown>>
    PROVE  LogoutInv'
BY DEF LogoutInv, GoTo, TaskInv, TaskTypeOK

(* The session loop hands an authenticated session to record_logout. *)
LEMMA LoopLogoutInv ==
    ASSUME TaskInv, LogoutInv, NEW s \in Session, LoopStep(s)
    PROVE  LogoutInv'
<1>1. {"spawned", "select", "ready", "remove", "close", "logout"}
        \subseteq PCs \ {"backoff", "done"}
  BY DEF PCs
<1>2. ASSUME Reply(s) \/ Continue(s) \/ Break(s),
             \A r \in Session : r # s => account'[r] = account[r],
             UNCHANGED <<tried, recorded, shutdown>>
      PROVE  LogoutInv'
  <2>1. GoTo(s, "select") \/ GoTo(s, "remove")
    BY <1>2, FlowShape DEF TaskInv
  <2> QED BY <1>1, <1>2, <2>1, LogoutElsewhere
<1>3. CASE OnRemote(s)
  BY <1>2, <1>3 DEF OnRemote, GameConnectRequest, EchoRequest, GameOverReport,
                    KeepAliveRequest, UnhandledFrame, gameVars
<1>4. CASE OnInner(s)
  <2>1. CASE \E m \in InnerMessage : OnInnerAnswer(s, m)
    BY <1>2, <2>1 DEF OnInnerAnswer
  <2>2. CASE \E t \in Token : OnAuthenticated(s, t)
    BY <1>2, <2>2 DEF OnAuthenticated, TaskInv, TaskTypeOK
  <2> QED BY <1>4, <2>1, <2>2 DEF OnInner
<1>5. CASE (KeepAliveTimeout(s) \/ StreamEnd(s) \/ Pending(s)) /\ UNCHANGED gameVars
  BY <1>2, <1>5 DEF KeepAliveTimeout, StreamEnd, Pending, gameVars
<1>6. CASE (Start(s) \/ Poll(s)) /\ UNCHANGED gameVars
  BY <1>1, <1>6, LogoutElsewhere DEF Start, Poll, gameVars
<1>7. CASE LeaveLoop(s)
  BY <1>1, <1>7, LogoutElsewhere DEF LeaveLoop, Leave
<1>8. CASE Close(s)
  <2>1. CASE account[s] = NoUser
    BY <1>8, <2>1 DEF Close, CloseThen, GoTo, gameVars, LogoutInv, TaskInv,
                      TaskTypeOK
  <2>2. CASE account[s] # NoUser
    BY <1>1, <1>8, <2>2, LogoutElsewhere DEF Close, CloseThen, gameVars
  <2> QED BY <2>1, <2>2
<1> QED BY <1>3, <1>4, <1>5, <1>6, <1>7, <1>8 DEF LoopStep

(* Every step keeps the logout invariant. *)
LEMMA GameLogoutInv == TaskInv /\ LogoutInv /\ [Next]_vars => LogoutInv'
<1> SUFFICES ASSUME TaskInv, LogoutInv, [Next]_vars PROVE LogoutInv'
  OBVIOUS
<1>1. CASE UNCHANGED <<pc, account, tried, recorded, shutdown>>
  BY <1>1 DEF LogoutInv
<1>2. CASE \E s \in Session : LoopStep(s)
  BY <1>2, LoopLogoutInv
<1>3. CASE \E s \in Session : LogoutStep(s)
  BY <1>3 DEF LogoutStep, TouchOk, TouchFail, Backoff, gameVars, GoTo, LogoutInv,
              TaskInv, TaskTypeOK
<1>4. CASE (\E s \in Session : WriterTask(s) \/ JobStep(s))
           \/ (\E t \in Token : ExpireToken(t))
  BY <1>1, <1>4 DEF WriterTask, WriterStep, WriterFail, JobStep, TakeAuthToken,
                    TakeAuthTokenFails, SaveScore, ExpireToken, gameVars, taskVars
<1>5. CASE Server
  <2>1. CASE \E s \in Session : Accept(s)
    <3>1. "spawned" \in PCs \ {"backoff", "done"}
      BY DEF PCs
    <3> QED BY <1>5, <2>1, <3>1, LogoutElsewhere DEF Server, Accept, gameVars
  <2>2. CASE Shutdown \/ AcceptorStop \/ Exit
    BY <1>5, <2>2 DEF Server, Shutdown, AcceptorStop, Exit, gameVars, LogoutInv
  <2> QED BY <1>5, <2>1, <2>2 DEF Server
<1> QED
  BY <1>1, <1>2, <1>3, <1>4, <1>5 DEF Next, Terminated, vars, gameVars, taskVars

(* record_logout: no authenticated session ends without an attempt, and     *)
(* without a stored record only during shutdown.                            *)
THEOREM GameLogoutRecorded == Spec => []LogoutRecorded
<1>1. Init => LogoutInv
  BY DEF Init, TaskInit, LogoutInv
<1>2. LogoutInv => LogoutRecorded
  BY DEF LogoutInv, LogoutRecorded
<1> QED BY <1>1, <1>2, GameTasks, GameLogoutInv, PTL DEF Spec
=============================================================================

-------------------------- MODULE LoginServerProofs --------------------------
(***************************************************************************)
(* LoginServer for any number of sessions, users and login jobs: its tasks  *)
(* keep the shared invariant although AdminApi may cancel any of them, and  *)
(* no login gets past a ban, nor does a check lose its permit.              *)
(***************************************************************************)
EXTENDS LoginServer, SessionTaskProofs, FiniteSetTheorems

(* Login jobs and Redis, which the tasks' invariant does not read. *)
LEMMA LoginTaskUnchanged ==
    ASSUME TaskInv, UNCHANGED <<registryVars, taskVars>> PROVE TaskInv'
BY DEF TaskInv, RegistryInv, RegistryTypeOK, AbsentHasNoUser, OwnerOrKicked,
       MappingIsCurrent, TaskTypeOK, DirectoryMatchesTasks, StartInvariant,
       ExitInv, registryVars, taskVars

(* AdminApi's disconnect cancels a token and leaves the tasks alone. *)
LEMMA AdminDisconnectInv ==
    ASSUME TaskInv, NEW s \in Session, AdminDisconnect(s) PROVE TaskInv'
<1>1. RegistryInv'
  BY CancelInv DEF AdminDisconnect, TaskInv
<1> QED
  BY <1>1 DEF AdminDisconnect, Disconnect, TaskInv, TaskTypeOK, taskVars,
              DirectoryMatchesTasks, StartInvariant, ExitInv

(* The session task, from its start to Writer::close. *)
LEMMA RunTaskInv ==
    ASSUME TaskInv, NEW s \in Session, Run(s) PROVE TaskInv'
<1>1. CASE OnRemote(s)
  <2>1. CASE \E u \in User : LoginRequest(s, u)
    BY <2>1, HandlerInv DEF LoginRequest
  <2> QED BY <1>1, <2>1, TaskMoveInv DEF OnRemote
<1>2. CASE OnLoginOutcome(s)
  <2>1. CASE \E u \in User : OnLoginSuccess(s, u)
    BY <2>1, AuthenticatedInv DEF OnLoginSuccess, Receive
  <2>2. CASE OnLoginFailure(s)
    BY <2>2, HandlerInv DEF OnLoginFailure, Receive
  <2> QED BY <1>2, <2>1, <2>2 DEF OnLoginOutcome
<1>3. CASE LeaveLoop(s)
  BY <1>3, LeaveInv DEF LeaveLoop
<1>4. CASE Close(s)
  BY <1>4, CloseInv DEF Close
<1> QED BY <1>1, <1>2, <1>3, <1>4, StartInv, TaskMoveInv DEF Run, EventLoop

(* Every step of LoginServer keeps the shared invariant. *)
LEMMA LoginTaskInv == TaskInv /\ [Next]_vars => TaskInv'
<1> SUFFICES ASSUME TaskInv, [Next]_vars PROVE TaskInv'
  OBVIOUS
<1>1. CASE UNCHANGED vars
  BY <1>1, LoginTaskUnchanged DEF vars
<1>2. CASE \E s \in Session : Run(s) \/ WriterTask(s) \/ AdminDisconnect(s)
  BY <1>2, RunTaskInv, WriterInv, AdminDisconnectInv DEF WriterTask
<1>3. CASE \E s \in Session : AuthenticateJob(s)
  BY <1>3, LoginTaskUnchanged
  DEF AuthenticateJob, FindAccount, AcquirePermit, VerifyPassword,
      TouchLastLogin, IssueAuthToken
<1>4. CASE \E u \in User : Ban(u)
  BY <1>4, LoginTaskUnchanged DEF Ban
<1>5. CASE Server
  BY <1>5, ServerInv, TaskMoveInv DEF Server
<1> QED BY <1>1, <1>2, <1>3, <1>4, <1>5 DEF Next, Terminated

(* What LoginServer does to the registry is a registry call. *)
LEMMA LoginRegistryStep ==
    TaskInv /\ [Next]_vars => [RegistryNext]_registryVars
<1> SUFFICES ASSUME TaskInv, [Next]_vars
             PROVE  [RegistryNext]_registryVars
  OBVIOUS
<1>1. CASE UNCHANGED vars
  BY <1>1 DEF vars
<1>2. CASE \E s \in Session : Run(s)
  <2>1. PICK s \in Session : Run(s)
    BY <1>2
  <2>2. CASE Start(s)
    BY <2>2 DEF Start, RegistryNext
  <2>3. CASE LeaveLoop(s)
    <3>1. s \in sessions
      BY <2>3 DEF LeaveLoop, Leave, TaskInv, DirectoryMatchesTasks
    <3> QED BY <2>3, <3>1 DEF LeaveLoop, Leave, RegistryNext
  <2>4. CASE \E u \in User : OnLoginSuccess(s, u)
    <3>1. s \in sessions
      BY <2>4 DEF OnLoginSuccess, Receive, TaskInv, DirectoryMatchesTasks
    <3> QED BY <2>4, <3>1 DEF OnLoginSuccess, RegistryNext
  <2>5. CASE OnRemote(s) \/ OnLoginFailure(s) \/ Close(s)
    BY <2>5 DEF OnRemote, LoginRequest, KeepAliveRequest, UnhandledFrame,
                OnLoginFailure, Close, CloseThen
  <2>6. CASE Poll(s) \/ KeepAliveTimeout(s) \/ StreamEnd(s) \/ Pending(s)
    BY <2>6 DEF Poll, KeepAliveTimeout, StreamEnd, Pending
  <2> QED
    BY <2>1, <2>2, <2>3, <2>4, <2>5, <2>6 DEF Run, EventLoop, OnLoginOutcome
<1>3. CASE \E s \in Session : AdminDisconnect(s) \/ WriterTask(s)
  BY <1>3 DEF AdminDisconnect, WriterTask, WriterStep, WriterFail, RegistryNext
<1>4. CASE (\E s \in Session : AuthenticateJob(s)) \/ (\E u \in User : Ban(u))
  BY <1>4 DEF AuthenticateJob, FindAccount, AcquirePermit, VerifyPassword,
              TouchLastLogin, IssueAuthToken, Ban
<1>5. CASE Server
  BY <1>5 DEF Server, Shutdown, AcceptorStop, Exit, Accept
<1> QED BY <1>1, <1>2, <1>3, <1>4, <1>5 DEF Next, Terminated

(* The session tasks of LoginServer keep their invariant. *)
THEOREM LoginTasks == Spec => []TaskInv
<1>1. Init => TaskInv
  BY TaskInitInv DEF Init
<1> QED BY <1>1, LoginTaskInv, PTL DEF Spec

(* login_server/session.rs never lets two loops serve one user unless one   *)
(* of them has been kicked.                                                 *)
THEOREM LoginOneActiveSession == Spec => []OneActiveSession
BY LoginTasks, OneActive, PTL

(* The registry, and so AdminApi's session list, shows exactly the loops    *)
(* that run and the user each serves.                                       *)
THEOREM LoginDirectory == Spec => []DirectoryMatchesTasks
<1>1. TaskInv => DirectoryMatchesTasks BY DEF TaskInv
<1> QED BY <1>1, LoginTasks, PTL

(* LoginServer, AdminApi included, implements the registry's specification. *)
THEOREM LoginImplementsRegistry == Spec => UsesRegistry
<1>1. Init => RegistryInit
  BY DEF Init, TaskInit
<1> QED
  BY <1>1, LoginTasks, LoginRegistryStep, PTL
  DEF Spec, UsesRegistry, RegistrySpec

-----------------------------------------------------------------------------
(* Bans *)

Counts == [Session -> [Job -> Nat]]

(* What stays at zero: a login that saw a ban, after the ban check. *)
PastBan == {"touch", "issue"} \X User \X {"banned"}

(* No login that saw the ban gets to last_login_at or to a token. *)
NoneSawBan ==
    \A s \in Session : \A stage \in {"touch", "issue"}, u \in User :
        jobs[s][<<stage, u, "banned">>] = 0

(* What LoginBan below rests on. *)
BanInv == jobs \in Counts /\ NoneSawBan

(* Work and outcomes are jobs, and no outcome is past the ban check. *)
LEMMA LoginJobFacts ==
    /\ Work \subseteq Job /\ PastBan \subseteq Work
    /\ Failed \in Job /\ \A u \in User : Success(u) \in Job
    /\ Failed \notin PastBan /\ \A u \in User : Success(u) \notin PastBan
BY DEF Work, Job, Outcome, Success, Failed, Stage, Status, PastBan

(* NoneSawBan in terms of PastBan. *)
LEMMA BanShape ==
    NoneSawBan <=> \A s \in Session : \A j \in PastBan : jobs[s][j] = 0
BY DEF NoneSawBan, PastBan

(* A job that moves on to a stage that is not past a seen ban. *)
LEMMA AdvanceInv ==
    ASSUME jobs \in Counts, NoneSawBan, NEW s \in Session,
           NEW j \in Work, NEW k \in Job, k \notin PastBan, Advance(s, j, k)
    PROVE  jobs' \in Counts /\ NoneSawBan'
<1>1. j \in Job /\ PastBan \subseteq Job
  BY LoginJobFacts
<1>2. jobs' \in Counts
  BY <1>1 DEF Advance, Counts
<1>3. ASSUME NEW r \in Session, NEW i \in PastBan PROVE jobs'[r][i] = 0
  <2>1. i # k /\ jobs[r][i] = 0 /\ jobs[s][j] > 0
    BY BanShape DEF Advance
  <2>2. i # j \/ r # s
    BY <2>1
  <2> QED BY <1>1, <2>1, <2>2 DEF Advance, Counts
<1>4. \A r \in Session : \A i \in PastBan : jobs'[r][i] = 0
  BY <1>3
<1> QED BY <1>2, <1>4 DEF NoneSawBan, PastBan

(* authenticate, stage by stage. *)
LEMMA JobBanInv ==
    ASSUME jobs \in Counts, NoneSawBan, NEW s \in Session, AuthenticateJob(s)
    PROVE  jobs' \in Counts /\ NoneSawBan'
<1>1. PICK u \in User :
         \/ FindAccount(s, u)
         \/ \E st \in Status :
               \/ AcquirePermit(s, u, st)
               \/ VerifyPassword(s, u, st)
               \/ TouchLastLogin(s, u, st)
               \/ IssueAuthToken(s, u, st)
  BY DEF AuthenticateJob
<1>2. CASE FindAccount(s, u)
  <2>1. /\ <<"find", u, "active">> \in Work
        /\ <<"acquire", u, StatusOf(u)>> \in Work \ PastBan
    BY DEF Work, Stage, Status, StatusOf, PastBan
  <2> QED BY <1>2, <2>1, AdvanceInv, LoginJobFacts DEF FindAccount
<1>3. ASSUME NEW st \in Status, AcquirePermit(s, u, st)
      PROVE  jobs' \in Counts /\ NoneSawBan'
  <2>1. <<"acquire", u, st>> \in Work /\ <<"verify", u, st>> \in Work \ PastBan
    BY DEF Work, Stage, Status, StatusOf, PastBan
  <2> QED BY <1>3, <2>1, AdvanceInv, LoginJobFacts DEF AcquirePermit
<1>4. ASSUME NEW st \in Status, VerifyPassword(s, u, st)
      PROVE  jobs' \in Counts /\ NoneSawBan'
  <2>1. <<"verify", u, st>> \in Work
    BY DEF Work, Stage, Status
  <2>2. CASE st = "active" /\ Advance(s, <<"verify", u, st>>, <<"touch", u, st>>)
    <3>1. <<"touch", u, st>> \in Work \ PastBan
      BY <2>2 DEF Work, Stage, Status, StatusOf, PastBan
    <3> QED BY <2>1, <2>2, <3>1, AdvanceInv, LoginJobFacts
  <2>3. CASE Advance(s, <<"verify", u, st>>, Failed)
    BY <2>1, <2>3, AdvanceInv, LoginJobFacts
  <2> QED BY <1>4, <2>2, <2>3 DEF VerifyPassword
<1>5. ASSUME NEW st \in Status, TouchLastLogin(s, u, st)
      PROVE  jobs' \in Counts /\ NoneSawBan'
  <2>1. <<"touch", u, st>> \in Work
    BY DEF Work, Stage, Status
  <2>2. CASE Advance(s, <<"touch", u, st>>, <<"issue", u, st>>)
    <3>1. jobs[s][<<"touch", u, st>>] > 0
      BY <2>2 DEF Advance
    <3>2. st = "active"
      BY <3>1 DEF NoneSawBan, Status
    <3>3. <<"issue", u, st>> \in Work \ PastBan
      BY <3>2 DEF Work, Stage, Status, StatusOf, PastBan
    <3> QED BY <2>1, <2>2, <3>3, AdvanceInv, LoginJobFacts
  <2>3. CASE Advance(s, <<"touch", u, st>>, Failed)
    BY <2>1, <2>3, AdvanceInv, LoginJobFacts
  <2> QED BY <1>5, <2>2, <2>3 DEF TouchLastLogin
<1>6. ASSUME NEW st \in Status, IssueAuthToken(s, u, st)
      PROVE  jobs' \in Counts /\ NoneSawBan'
  <2>1. <<"issue", u, st>> \in Work
    BY DEF Work, Stage, Status
  <2> QED BY <1>6, <2>1, AdvanceInv, LoginJobFacts DEF IssueAuthToken
<1> QED BY <1>1, <1>2, <1>3, <1>4, <1>5, <1>6

(* The session loop spawns jobs at the first stage and drops outcomes. *)
LEMMA RunBanInv ==
    ASSUME jobs \in Counts, NoneSawBan, NEW s \in Session, Run(s)
    PROVE  jobs' \in Counts /\ NoneSawBan'
<1>1. CASE jobs' = jobs
  BY <1>1 DEF NoneSawBan
<1>2. CASE \E u \in User : LoginRequest(s, u)
  <2>1. PICK u \in User : LoginRequest(s, u)
    BY <1>2
  <2>2. <<"find", u, "active">> \in Job /\ <<"find", u, "active">> \notin PastBan
    BY LoginJobFacts DEF Work, Stage, Status, StatusOf, PastBan
  <2>3. CASE jobs' = [jobs EXCEPT ![s][<<"find", u, "active">>] = @ + 1]
    <3>1. jobs' \in Counts
      BY <2>2, <2>3 DEF Counts
    <3>2. \A r \in Session : \A i \in PastBan : jobs'[r][i] = jobs[r][i]
      BY <2>2, <2>3 DEF Counts
    <3> QED BY <3>1, <3>2 DEF NoneSawBan, PastBan
  <2> QED BY <1>1, <2>1, <2>3 DEF LoginRequest
<1>3. CASE OnLoginOutcome(s)
  <2>1. PICK m \in Job : m \notin PastBan /\ Receive(s, m)
    BY <1>3, LoginJobFacts DEF OnLoginOutcome, OnLoginFailure, OnLoginSuccess
  <2>2. jobs' \in Counts
    BY <2>1 DEF Receive, Counts
  <2>3. \A r \in Session : \A i \in PastBan : jobs'[r][i] = jobs[r][i]
    BY <2>1 DEF Receive, Counts
  <2> QED BY <2>2, <2>3 DEF NoneSawBan, PastBan
<1>4. CASE LeaveLoop(s)
  <2>1. jobs' \in Counts
    BY <1>4 DEF LeaveLoop, Counts
  <2>2. \A r \in Session : \A i \in PastBan : jobs'[r][i] = jobs[r][i]
    BY <1>4, LoginJobFacts DEF LeaveLoop, Counts
  <2> QED BY <2>1, <2>2 DEF NoneSawBan, PastBan
<1> QED
  BY <1>1, <1>2, <1>3, <1>4 DEF Run, EventLoop, OnRemote, Close, loginVars

(* Whoever moves a job or an outcome leaves no login past a ban it saw. *)
LEMMA BanInvNext == BanInv /\ [Next]_vars => BanInv'
<1> SUFFICES ASSUME BanInv, [Next]_vars PROVE BanInv'
  OBVIOUS
<1>1. CASE jobs' = jobs
  BY <1>1 DEF BanInv, NoneSawBan
<1>2. CASE \E s \in Session : Run(s) \/ AuthenticateJob(s)
  BY <1>2, RunBanInv, JobBanInv DEF BanInv
<1> QED
  BY <1>1, <1>2 DEF Next, WriterTask, AdminDisconnect, Ban, Server, Terminated,
                    vars, loginVars

LEMMA BanInvAlways == Spec => []BanInv
<1>1. Init => BanInv
  <2>1. PastBan \subseteq Job
    BY LoginJobFacts
  <2> QED BY <2>1 DEF Init, Counts, BanInv, NoneSawBan, PastBan
<1> QED BY <1>1, BanInvNext, PTL DEF Spec

-----------------------------------------------------------------------------
(* Counting jobs *)

(* The copies of jobs at the stages of J, as a function of the jobs. *)
CopiesIn(c, J) == UNION {{<<p, n>> : n \in 1..c[p[1]][p[2]]} : p \in Session \X J}

LEMMA CopiesShape ==
    ASSUME NEW c, NEW J, NEW s \in Session, NEW j \in J, NEW n
    PROVE  <<(<<s, j>>), n>> \in CopiesIn(c, J) <=> n \in 1..c[s][j]
<1>1. <<s, j>> \in Session \X J
  OBVIOUS
<1> QED
  BY <1>1 DEF CopiesIn

LEMMA CopiesElements ==
    ASSUME NEW c, NEW J, NEW h \in CopiesIn(c, J)
    PROVE  \E s \in Session, j \in J, n \in Nat : h = <<(<<s, j>>), n>>
<1>1. PICK p \in Session \X J : h \in {<<p, n>> : n \in 1..c[p[1]][p[2]]}
  BY DEF CopiesIn
<1>2. PICK n \in 1..c[p[1]][p[2]] : h = <<p, n>>
  BY <1>1
<1>3. n \in Nat
  BY <1>2
<1>4. p = <<p[1], p[2]>> /\ p[1] \in Session /\ p[2] \in J
  OBVIOUS
<1> QED
  BY <1>2, <1>3, <1>4

(* No job at the stages of J. *)
LEMMA CopiesNone ==
    ASSUME NEW J, NEW c, \A s \in Session, j \in J : c[s][j] = 0
    PROVE  CopiesIn(c, J) = {}
<1>1. ASSUME NEW h \in CopiesIn(c, J) PROVE FALSE
  <2>1. PICK s \in Session, j \in J, n \in Nat : h = <<(<<s, j>>), n>>
    BY CopiesElements
  <2>2. n \in 1..c[s][j]
    BY <2>1, CopiesShape
  <2>3. c[s][j] = 0
    OBVIOUS
  <2> QED
    BY <2>2, <2>3
<1> QED
  BY <1>1

(* c and d have the same jobs at the stages of J. *)
SameAt(c, d, J) == \A s \in Session, j \in J : d[s][j] = c[s][j]

(* Jobs at other stages do not count. *)
LEMMA CopiesSame ==
    ASSUME NEW J, NEW c, NEW d, SameAt(c, d, J)
    PROVE  CopiesIn(d, J) = CopiesIn(c, J)
<1>1. ASSUME NEW h \in CopiesIn(d, J) PROVE h \in CopiesIn(c, J)
  <2>1. PICK s \in Session, j \in J, n \in Nat : h = <<(<<s, j>>), n>>
    BY CopiesElements
  <2> QED
    BY <2>1, CopiesShape DEF SameAt
<1>2. ASSUME NEW h \in CopiesIn(c, J) PROVE h \in CopiesIn(d, J)
  <2>1. PICK s \in Session, j \in J, n \in Nat : h = <<(<<s, j>>), n>>
    BY CopiesElements
  <2> QED
    BY <2>1, CopiesShape DEF SameAt
<1> QED
  BY <1>1, <1>2

(* d has one job j of session s more than c. *)
OneMore(c, d, J, s, j) ==
    /\ c[s][j] \in Nat /\ d[s][j] = c[s][j] + 1
    /\ \A r \in Session, i \in J : r # s \/ i # j => d[r][i] = c[r][i]

LEMMA CopiesMore ==
    ASSUME NEW J, NEW c, NEW d, NEW s \in Session, NEW j \in J,
           OneMore(c, d, J, s, j)
    PROVE  /\ CopiesIn(d, J) = CopiesIn(c, J) \cup {<<(<<s, j>>), d[s][j]>>}
           /\ <<(<<s, j>>), d[s][j]>> \notin CopiesIn(c, J)
<1> DEFINE new == <<(<<s, j>>), d[s][j]>>
<1> USE DEF OneMore
<1>1. ASSUME NEW h \in CopiesIn(d, J), h # new PROVE h \in CopiesIn(c, J)
  <2>1. PICK r \in Session, i \in J, n \in Nat : h = <<(<<r, i>>), n>>
    BY CopiesElements
  <2>2. n \in 1..d[r][i]
    BY <2>1, CopiesShape
  <2>3. CASE r = s /\ i = j
    <3>1. n # d[s][j]
      BY <1>1, <2>1, <2>3
    <3>2. n \in 1..c[s][j]
      BY <3>1, <2>2, <2>3
    <3> QED
      BY <3>2, <2>1, <2>3, CopiesShape
  <2>4. CASE r # s \/ i # j
    BY <2>1, <2>2, <2>4, CopiesShape
  <2> QED
    BY <2>3, <2>4
<1>2. ASSUME NEW h \in CopiesIn(c, J) PROVE h \in CopiesIn(d, J)
  <2>1. PICK r \in Session, i \in J, n \in Nat : h = <<(<<r, i>>), n>>
    BY CopiesElements
  <2>2. n \in 1..c[r][i]
    BY <2>1, CopiesShape
  <2>3. n \in 1..d[r][i]
    BY <2>2
  <2> QED
    BY <2>1, <2>3, CopiesShape
<1>3. new \in CopiesIn(d, J)
  <2>1. d[s][j] \in 1..d[s][j]
    OBVIOUS
  <2> QED
    BY <2>1, CopiesShape
<1>4. new \notin CopiesIn(c, J)
  <2>1. d[s][j] \notin 1..c[s][j]
    OBVIOUS
  <2> QED
    BY <2>1, CopiesShape
<1> QED
  BY <1>1, <1>2, <1>3, <1>4

(* The set grows by one element, and is finite before as after. *)
LEMMA CountMore ==
    ASSUME NEW J, NEW c, NEW d, NEW s \in Session, NEW j \in J,
           OneMore(c, d, J, s, j),
           IsFiniteSet(CopiesIn(c, J)) \/ IsFiniteSet(CopiesIn(d, J))
    PROVE  /\ IsFiniteSet(CopiesIn(c, J)) /\ IsFiniteSet(CopiesIn(d, J))
           /\ Cardinality(CopiesIn(c, J)) \in Nat
           /\ Cardinality(CopiesIn(d, J)) = Cardinality(CopiesIn(c, J)) + 1
<1> DEFINE new == <<(<<s, j>>), d[s][j]>>
           C == CopiesIn(c, J)
           D == CopiesIn(d, J)
<1>1. D = C \cup {new} /\ new \notin C
  BY CopiesMore
<1> HIDE DEF new, C, D
<1>2. IsFiniteSet(C)
  <2>1. CASE IsFiniteSet(C)
    BY <2>1
  <2>2. CASE IsFiniteSet(D)
    <3>1. C = D \ {new}
      BY <1>1
    <3> QED
      BY <2>2, <3>1, FS_RemoveElement
  <2> QED
    BY <2>1, <2>2 DEF C, D
<1>3. IsFiniteSet(D) /\ Cardinality(D) = Cardinality(C) + 1
  BY <1>1, <1>2, FS_AddElement
<1>4. Cardinality(C) \in Nat
  BY <1>2, FS_CardinalityType
<1> QED
  BY <1>2, <1>3, <1>4 DEF C, D

-----------------------------------------------------------------------------
(* The hash limiter *)

USE LoginServerAssumption

VerifyStage == {"verify"} \X User \X Status

(* Permits are conserved, and there are never so many checks that they      *)
(* could not be counted.                                                    *)
PermitInv == permits \in Nat /\ IsFiniteSet(Held) /\ PermitsConserved

LEMMA HeldShape == Held = CopiesIn(jobs, VerifyStage)
BY DEF Held, Copies, Verifying, CopiesIn, VerifyStage

(* A step that starts no check and ends none leaves the permits alone. *)
LEMMA PermitSame ==
    ASSUME PermitInv, permits' = permits, SameAt(jobs, jobs', VerifyStage)
    PROVE  PermitInv'
<1>1. Held' = CopiesIn(jobs', VerifyStage)
  BY DEF Held, Copies, Verifying, CopiesIn, VerifyStage
<1>2. Held' = Held
  BY <1>1, HeldShape, CopiesSame
<1> QED
  BY <1>2 DEF PermitInv, PermitsConserved

LEMMA AcquirePermitInv ==
    ASSUME jobs \in Counts, PermitInv, NEW s \in Session, NEW u \in User,
           NEW st \in Status, AcquirePermit(s, u, st)
    PROVE  PermitInv'
<1> DEFINE i == <<"acquire", u, st>>
           j == <<"verify", u, st>>
<1>1. i \in Job \ VerifyStage /\ j \in VerifyStage /\ i # j /\ VerifyStage \subseteq Job
      /\ j \in Work
  BY DEF Job, Work, Stage, VerifyStage
<1>2. jobs' = [jobs EXCEPT ![s][i] = @ - 1, ![s][j] = @ + 1]
  BY <1>1 DEF AcquirePermit, Advance
<1> HIDE DEF i, j
<1>3. OneMore(jobs, jobs', VerifyStage, s, j)
  BY <1>1, <1>2 DEF Counts, OneMore
<1>4. Held = CopiesIn(jobs, VerifyStage) /\ Held' = CopiesIn(jobs', VerifyStage)
  BY DEF Held, Copies, Verifying, CopiesIn, VerifyStage
<1>5. /\ IsFiniteSet(Held') /\ Cardinality(Held) \in Nat
      /\ Cardinality(Held') = Cardinality(Held) + 1
  BY <1>1, <1>3, <1>4, CountMore DEF PermitInv
<1>6. permits \in Nat /\ permits > 0 /\ permits' = permits - 1
  BY DEF AcquirePermit, PermitInv
<1>7. PermitsConserved'
  BY <1>5, <1>6 DEF PermitInv, PermitsConserved
<1> QED
  BY <1>5, <1>6, <1>7 DEF PermitInv

(* The check ends, whatever it found: one permit and one check less.        *)
LEMMA VerifyPasswordInv ==
    ASSUME jobs \in Counts, PermitInv, NEW s \in Session, NEW u \in User,
           NEW st \in Status, VerifyPassword(s, u, st)
    PROVE  PermitInv'
<1> DEFINE j == <<"verify", u, st>>
<1>1. /\ j \in VerifyStage /\ VerifyStage \subseteq Job
      /\ Failed \in Job \ VerifyStage /\ <<"touch", u, st>> \in Job \ VerifyStage
  BY DEF Job, Work, Stage, VerifyStage, Outcome, Failed
<1>2. PICK k \in Job \ VerifyStage : Advance(s, j, k)
  BY <1>1 DEF VerifyPassword
<1>3. /\ jobs[s][j] > 0
      /\ \/ jobs' = [jobs EXCEPT ![s][j] = @ - 1, ![s][k] = @ + 1]
         \/ jobs' = [jobs EXCEPT ![s][j] = @ - 1]
  BY <1>2 DEF Advance
<1> HIDE DEF j
<1>4. OneMore(jobs', jobs, VerifyStage, s, j)
  BY <1>1, <1>3 DEF Counts, OneMore
<1>5. Held = CopiesIn(jobs, VerifyStage) /\ Held' = CopiesIn(jobs', VerifyStage)
  BY DEF Held, Copies, Verifying, CopiesIn, VerifyStage
<1>6. /\ IsFiniteSet(Held') /\ Cardinality(Held') \in Nat
      /\ Cardinality(Held) = Cardinality(Held') + 1
  BY <1>1, <1>4, <1>5, CountMore DEF PermitInv
<1>7. permits \in Nat /\ permits' = permits + 1
  BY DEF VerifyPassword, PermitInv
<1>8. PermitsConserved'
  BY <1>6, <1>7 DEF PermitInv, PermitsConserved
<1> QED
  BY <1>6, <1>7, <1>8 DEF PermitInv

(* A job that moves between other stages. *)
LEMMA ElsewhereInv ==
    ASSUME jobs \in Counts, PermitInv, permits' = permits, NEW s \in Session,
           NEW j \in Job \ VerifyStage, NEW k \in Job \ VerifyStage, Advance(s, j, k)
    PROVE  PermitInv'
<1>1. VerifyStage \subseteq Job
  BY DEF Job, Work, Stage, VerifyStage
<1>2. ASSUME NEW r \in Session, NEW i \in VerifyStage PROVE jobs'[r][i] = jobs[r][i]
  BY <1>1 DEF Advance, Counts
<1> QED
  BY <1>2, PermitSame DEF SameAt

LEMMA JobPermitInv ==
    ASSUME jobs \in Counts, PermitInv, NEW s \in Session, AuthenticateJob(s)
    PROVE  PermitInv'
<1>1. \A u \in User, st \in Status :
          /\ <<"find", u, st>> \in Job \ VerifyStage
          /\ <<"acquire", u, st>> \in Job \ VerifyStage
          /\ <<"touch", u, st>> \in Job \ VerifyStage
          /\ <<"issue", u, st>> \in Job \ VerifyStage
  BY DEF Job, Work, Stage, VerifyStage
<1>2. Failed \in Job \ VerifyStage /\ \A u \in User : Success(u) \in Job \ VerifyStage
  BY DEF Job, Outcome, Failed, Success, VerifyStage
<1>3. ASSUME NEW u \in User, FindAccount(s, u) PROVE PermitInv'
  <2>1. "active" \in Status /\ StatusOf(u) \in Status
    BY DEF Status, StatusOf
  <2> QED
    BY <1>1, <1>2, <1>3, <2>1, ElsewhereInv DEF FindAccount
<1>4. ASSUME NEW u \in User, NEW st \in Status, TouchLastLogin(s, u, st) PROVE PermitInv'
  BY <1>1, <1>2, <1>4, ElsewhereInv DEF TouchLastLogin
<1>5. ASSUME NEW u \in User, NEW st \in Status, IssueAuthToken(s, u, st) PROVE PermitInv'
  BY <1>1, <1>2, <1>5, ElsewhereInv DEF IssueAuthToken
<1> QED
  BY <1>3, <1>4, <1>5, AcquirePermitInv, VerifyPasswordInv DEF AuthenticateJob

(* The loop starts jobs at the first stage and takes outcomes. *)
LEMMA RunPermitInv ==
    ASSUME jobs \in Counts, PermitInv, NEW s \in Session, Run(s)
    PROVE  PermitInv'
<1>1. VerifyStage \subseteq Work /\ Work \subseteq Job
  BY DEF Job, Work, Stage, VerifyStage
<1>2. permits' = permits
  BY DEF Run, EventLoop, OnRemote, LoginRequest, OnLoginOutcome, OnLoginFailure,
         OnLoginSuccess, LeaveLoop, Close, loginVars
<1>3. ASSUME NEW r \in Session, NEW i \in VerifyStage PROVE jobs'[r][i] = jobs[r][i]
  <2>1. CASE \E u \in User : LoginRequest(s, u)
    <3>1. PICK u \in User : \/ jobs' = jobs
                            \/ jobs' = [jobs EXCEPT ![s][<<"find", u, "active">>] = @ + 1]
      BY <2>1 DEF LoginRequest
    <3>2. i # <<"find", u, "active">>
      BY DEF VerifyStage
    <3> QED
      BY <1>1, <3>1, <3>2 DEF Counts
  <2>2. CASE OnLoginOutcome(s)
    <3>1. PICK m \in Outcome : Receive(s, m)
      BY <2>2 DEF OnLoginOutcome, OnLoginFailure, OnLoginSuccess, Outcome
    <3>2. i # m
      BY DEF VerifyStage, Outcome, Success, Failed
    <3> QED
      BY <1>1, <3>1, <3>2 DEF Receive, Counts
  <2>3. CASE LeaveLoop(s)
    BY <1>1, <2>3 DEF LeaveLoop, Counts
  <2>4. CASE jobs' = jobs
    BY <2>4
  <2> QED
    BY <2>1, <2>2, <2>3, <2>4 DEF Run, EventLoop, OnRemote, Close, loginVars
<1> QED
  BY <1>2, <1>3, PermitSame DEF SameAt

LEMMA PermitInvNext == BanInv /\ PermitInv /\ [Next]_vars => PermitInv'
<1> SUFFICES ASSUME BanInv, PermitInv, [Next]_vars PROVE PermitInv'
  OBVIOUS
<1>1. jobs \in Counts
  BY DEF BanInv
<1>2. CASE \E s \in Session : Run(s) \/ AuthenticateJob(s)
  BY <1>1, <1>2, RunPermitInv, JobPermitInv
<1>3. CASE jobs' = jobs /\ permits' = permits
  BY <1>3, PermitSame DEF SameAt
<1> QED
  BY <1>2, <1>3 DEF Next, WriterTask, AdminDisconnect, Ban, Server, Terminated,
                    vars, loginVars

LEMMA PermitInvInit == Init => PermitInv
<1> SUFFICES ASSUME Init PROVE PermitInv
  OBVIOUS
<1>1. \A s \in Session, j \in VerifyStage : jobs[s][j] = 0
  BY DEF Init, Job, Work, Stage, VerifyStage
<1>2. Held = {}
  BY <1>1, HeldShape, CopiesNone
<1> QED
  BY <1>2, FS_EmptySet DEF Init, PermitInv, PermitsConserved

LEMMA PermitInvAlways == Spec => []PermitInv
  BY PermitInvInit, PermitInvNext, BanInvAlways, PTL DEF Spec

(* Every permit of hash_limiter is free or held by a running check, for any *)
(* number of sessions, logins and permits (session.rs authenticate).        *)
THEOREM NoPermitLost == Spec => []PermitsConserved
<1>1. PermitInv => PermitsConserved
  BY DEF PermitInv
<1> QED
  BY <1>1, PermitInvAlways, PTL

-----------------------------------------------------------------------------
(* Types *)

(* The variables that neither the tasks' nor the jobs' invariant covers.    *)
LoginDataOK == banned \subseteq User /\ tokens \in [User -> Nat] /\ spawned \in Nat

LEMMA LoginDataNext == LoginDataOK /\ [Next]_vars => LoginDataOK'
<1> SUFFICES ASSUME LoginDataOK, [Next]_vars PROVE LoginDataOK'
  OBVIOUS
<1>1. ASSUME NEW s \in Session, Run(s) PROVE LoginDataOK'
  <2>1. UNCHANGED <<banned, tokens>>
    BY <1>1 DEF Run, EventLoop, OnRemote, LoginRequest, OnLoginOutcome,
        OnLoginFailure, OnLoginSuccess, LeaveLoop, Close, loginVars
  <2>2. spawned' = spawned \/ spawned' = spawned + 1
    BY <1>1 DEF Run, EventLoop, OnRemote, LoginRequest, OnLoginOutcome,
        OnLoginFailure, OnLoginSuccess, LeaveLoop, Close, loginVars
  <2> QED
    BY <2>1, <2>2 DEF LoginDataOK
<1>2. ASSUME NEW s \in Session, AuthenticateJob(s) PROVE LoginDataOK'
  <2>1. UNCHANGED <<banned, spawned>>
    BY <1>2 DEF AuthenticateJob, FindAccount, AcquirePermit,
        VerifyPassword, TouchLastLogin, IssueAuthToken
  <2>2. tokens' = tokens \/ \E u \in User : tokens' = [tokens EXCEPT ![u] = @ + 1]
    BY <1>2 DEF AuthenticateJob, FindAccount, AcquirePermit,
        VerifyPassword, TouchLastLogin, IssueAuthToken
  <2> QED
    BY <2>1, <2>2 DEF LoginDataOK
<1>3. ASSUME NEW u \in User, Ban(u) PROVE LoginDataOK'
  BY <1>3 DEF LoginDataOK, Ban
<1>4. CASE UNCHANGED loginVars
  BY <1>4 DEF LoginDataOK, loginVars
<1> QED
  BY <1>1, <1>2, <1>3, <1>4 DEF Next, WriterTask, AdminDisconnect, Server,
                                Terminated, vars

(* LoginServer stays well typed: no count goes below zero and no permit     *)
(* above the limit, although a job may outlive its session.                 *)
THEOREM LoginTyped == Spec => []LoginTypeOK
<1>1. Init => LoginDataOK
  BY DEF Init, LoginDataOK
<1>2. TaskInv /\ BanInv /\ PermitInv /\ LoginDataOK => LoginTypeOK
  <2> SUFFICES ASSUME TaskInv, BanInv, PermitInv, LoginDataOK PROVE LoginTypeOK
    OBVIOUS
  <2>1. RegistryTypeOK /\ TaskTypeOK
    BY DEF TaskInv, RegistryInv
  <2>2. Cardinality(Held) \in Nat
    BY FS_CardinalityType DEF PermitInv
  <2>3. permits \in 0..Permits
    BY <2>2 DEF PermitInv, PermitsConserved
  <2> QED
    BY <2>1, <2>3 DEF LoginTypeOK, LoginDataOK, BanInv, Counts
<1> QED
  BY <1>1, <1>2, LoginDataNext, LoginTasks, BanInvAlways, PermitInvAlways, PTL DEF Spec

-----------------------------------------------------------------------------
(* What a ban lets through *)

(* The stages of SeenActive. *)
SeenStage(u) == {"acquire", "verify", "touch", "issue"} \X {u} \X {"active"}

(* How many jobs c has there, and that they can be counted. *)
Count(c, u) == Cardinality(CopiesIn(c, SeenStage(u)))
Countable(c, u) == IsFiniteSet(CopiesIn(c, SeenStage(u)))

(* One job of session s less at stage j. *)
Dropped(c, s, j) == [c EXCEPT ![s][j] = @ - 1]
Added(c, s, k) == [c EXCEPT ![s][k] = @ + 1]

LEMMA CountDropped ==
    ASSUME NEW c \in Counts, NEW s \in Session, NEW j \in Job, c[s][j] > 0,
           NEW u \in User, Countable(c, u)
    PROVE  /\ Dropped(c, s, j) \in Counts
           /\ Countable(Dropped(c, s, j), u)
           /\ Count(c, u) \in Nat /\ Count(Dropped(c, s, j), u) \in Nat
           /\ j \in SeenStage(u) => Count(Dropped(c, s, j), u) = Count(c, u) - 1
           /\ j \notin SeenStage(u) => Count(Dropped(c, s, j), u) = Count(c, u)
<1> DEFINE d == Dropped(c, s, j)
<1>1. c[s][j] \in Nat /\ SeenStage(u) \subseteq Job
  BY DEF Counts, SeenStage, Job, Work, Stage, Status
<1>2. d \in Counts
  BY <1>1 DEF Counts, Dropped
<1>3. Count(c, u) \in Nat
  BY FS_CardinalityType DEF Countable, Count
<1>4. CASE j \in SeenStage(u)
  <2>1. OneMore(d, c, SeenStage(u), s, j)
    BY <1>1 DEF Counts, Dropped, OneMore
  <2> HIDE DEF d
  <2>2. Countable(d, u) /\ Count(d, u) \in Nat /\ Count(c, u) = Count(d, u) + 1
    BY <1>4, <2>1, CountMore DEF Countable, Count
  <2> QED
    BY <1>2, <1>3, <1>4, <2>2 DEF d
<1>5. CASE j \notin SeenStage(u)
  <2>1. SameAt(c, d, SeenStage(u))
    BY <1>1, <1>5 DEF Counts, Dropped, SameAt
  <2> HIDE DEF d
  <2>2. Countable(d, u) /\ Count(d, u) = Count(c, u)
    BY <2>1, CopiesSame DEF Countable, Count
  <2> QED
    BY <1>2, <1>3, <1>5, <2>2 DEF d
<1> QED
  BY <1>4, <1>5

LEMMA CountAdded ==
    ASSUME NEW c \in Counts, NEW s \in Session, NEW k \in Job,
           NEW u \in User, Countable(c, u)
    PROVE  /\ Countable(Added(c, s, k), u)
           /\ k \in SeenStage(u) => Count(Added(c, s, k), u) = Count(c, u) + 1
           /\ k \notin SeenStage(u) => Count(Added(c, s, k), u) = Count(c, u)
<1> DEFINE d == Added(c, s, k)
<1>1. c[s][k] \in Nat /\ SeenStage(u) \subseteq Job
  BY DEF Counts, SeenStage, Job, Work, Stage, Status
<1>2. CASE k \in SeenStage(u)
  <2>1. OneMore(c, d, SeenStage(u), s, k)
    BY <1>1 DEF Counts, Added, OneMore
  <2> HIDE DEF d
  <2>2. Countable(d, u) /\ Count(d, u) = Count(c, u) + 1
    BY <1>2, <2>1, CountMore DEF Countable, Count
  <2> QED
    BY <1>2, <2>2 DEF d
<1>3. CASE k \notin SeenStage(u)
  <2>1. SameAt(c, d, SeenStage(u))
    BY <1>1, <1>3 DEF Counts, Added, SameAt
  <2> HIDE DEF d
  <2>2. Countable(d, u) /\ Count(d, u) = Count(c, u)
    BY <2>1, CopiesSame DEF Countable, Count
  <2> QED
    BY <1>3, <2>2 DEF d
<1> QED
  BY <1>2, <1>3

(* A job that moves within these stages, into them, out of *)
(* them or elsewhere: the count goes up only for a move into them.          *)
LEMMA AdvanceCount ==
    ASSUME jobs \in Counts, NEW s \in Session, NEW j \in Job, NEW k \in Job,
           Advance(s, j, k), NEW u \in User, Countable(jobs, u)
    PROVE  /\ Countable(jobs', u)
           /\ Count(jobs, u) \in Nat
           /\ k \notin SeenStage(u) \/ j \in SeenStage(u)
                  => Count(jobs', u) <= Count(jobs, u)
           /\ k \notin SeenStage(u) /\ j \in SeenStage(u)
                  => Count(jobs', u) = Count(jobs, u) - 1
<1> DEFINE mid == Dropped(jobs, s, j)
<1>1. /\ mid \in Counts /\ Countable(mid, u)
      /\ Count(jobs, u) \in Nat /\ Count(mid, u) \in Nat
      /\ j \in SeenStage(u) => Count(mid, u) = Count(jobs, u) - 1
      /\ j \notin SeenStage(u) => Count(mid, u) = Count(jobs, u)
  BY CountDropped DEF Advance
<1>2. /\ Countable(Added(mid, s, k), u)
      /\ k \in SeenStage(u) => Count(Added(mid, s, k), u) = Count(mid, u) + 1
      /\ k \notin SeenStage(u) => Count(Added(mid, s, k), u) = Count(mid, u)
  BY <1>1, CountAdded
<1>3. CASE jobs' = [jobs EXCEPT ![s][j] = @ - 1, ![s][k] = @ + 1]
  <2>1. jobs' = Added(mid, s, k)
    BY <1>3 DEF Dropped, Added, Counts
  <2> HIDE DEF mid
  <2> QED
    BY <1>1, <1>2, <2>1
<1>4. CASE jobs' = mid
  <2> HIDE DEF mid
  <2> QED
    BY <1>1, <1>4
<1> QED
  BY <1>3, <1>4 DEF Advance, Dropped

(* What each step keeps, for one user. *)
BanStep(u) ==
    /\ Countable(jobs, u)'
    /\ u \in banned
          => tokens'[u] + Count(jobs, u)' <= tokens[u] + Count(jobs, u)

LEMMA SameCount ==
    ASSUME jobs \in Counts, NEW u \in User, Countable(jobs, u), LoginDataOK,
           SameAt(jobs, jobs', SeenStage(u)), tokens' = tokens
    PROVE  BanStep(u)
<1>1. CopiesIn(jobs', SeenStage(u)) = CopiesIn(jobs, SeenStage(u))
  BY CopiesSame
<1>2. Count(jobs, u) \in Nat
  BY FS_CardinalityType DEF Countable, Count
<1>3. tokens[u] \in Nat
  BY DEF LoginDataOK
<1> QED
  BY <1>1, <1>2, <1>3 DEF BanStep, Countable, Count

(* authenticate, stage by stage. *)
LEMMA JobBanStep ==
    ASSUME BanInv, LoginDataOK, NEW s \in Session, AuthenticateJob(s),
           NEW u \in User, Countable(jobs, u)
    PROVE  BanStep(u)
<1>1. jobs \in Counts /\ tokens[u] \in Nat
  BY DEF BanInv, LoginDataOK
<1>2. ASSUME NEW j \in Job, NEW k \in Job, Advance(s, j, k), tokens' = tokens,
             u \in banned => k \notin SeenStage(u) \/ j \in SeenStage(u)
      PROVE  BanStep(u)
  <2>1. /\ Countable(jobs', u) /\ Count(jobs, u) \in Nat
        /\ u \in banned => Count(jobs', u) <= Count(jobs, u)
    BY <1>1, <1>2, AdvanceCount
  <2>2. Count(jobs', u) \in Nat
    BY <2>1, FS_CardinalityType DEF Countable, Count
  <2>3. Countable(jobs, u)' /\ Count(jobs, u)' = Count(jobs', u)
    BY <2>1 DEF Countable, Count
  <2> QED
    BY <1>1, <1>2, <2>1, <2>2, <2>3 DEF BanStep
<1>3. ASSUME NEW v \in User, FindAccount(s, v) PROVE BanStep(u)
  <2>1. /\ <<"find", v, "active">> \in Job /\ Failed \in Job \ SeenStage(u)
        /\ <<"acquire", v, StatusOf(v)>> \in Job
        /\ u \in banned => <<"acquire", v, StatusOf(v)>> \notin SeenStage(u)
    BY DEF Job, Work, Stage, Status, StatusOf, Outcome, Failed, SeenStage
  <2> QED
    BY <1>2, <1>3, <2>1 DEF FindAccount
<1>4. ASSUME NEW v \in User, NEW st \in Status,
             \/ AcquirePermit(s, v, st)
             \/ VerifyPassword(s, v, st)
             \/ TouchLastLogin(s, v, st)
      PROVE  BanStep(u)
  <2>1. /\ Failed \in Job \ SeenStage(u)
        /\ <<"acquire", v, st>> \in Job /\ <<"verify", v, st>> \in Job
        /\ <<"touch", v, st>> \in Job /\ <<"issue", v, st>> \in Job
    BY DEF Job, Work, Stage, Outcome, Failed, SeenStage
  <2>2. \/ v = u /\ st = "active" 
              /\ <<"acquire", v, st>> \in SeenStage(u) /\ <<"verify", v, st>> \in SeenStage(u)
              /\ <<"touch", v, st>> \in SeenStage(u)
        \/ <<"verify", v, st>> \notin SeenStage(u) /\ <<"touch", v, st>> \notin SeenStage(u)
              /\ <<"issue", v, st>> \notin SeenStage(u)
    BY DEF SeenStage
  <2>3. tokens' = tokens
    BY <1>4 DEF AcquirePermit, VerifyPassword, TouchLastLogin
  <2> QED
    BY <1>2, <1>4, <2>1, <2>2, <2>3 DEF AcquirePermit, VerifyPassword, TouchLastLogin
<1>5. ASSUME NEW v \in User, NEW st \in Status, IssueAuthToken(s, v, st)
      PROVE  BanStep(u)
  <2> DEFINE j == <<"issue", v, st>>
  <2>1. /\ j \in Job /\ Failed \in Job \ SeenStage(u)
        /\ Success(v) \in Job \ SeenStage(u)
    BY DEF Job, Work, Stage, Outcome, Failed, Success, SeenStage
  <2>2. PICK k \in {Failed, Success(v)} :
           /\ Advance(s, j, k)
           /\ tokens' = tokens \/ tokens' = [tokens EXCEPT ![v] = @ + 1]
    BY <1>5 DEF IssueAuthToken
  <2>3. CASE tokens' = tokens
    BY <1>2, <2>1, <2>2, <2>3
  <2>4. CASE tokens' = [tokens EXCEPT ![v] = @ + 1]
    <3>1. st = "active"
      BY <2>2 DEF Advance, BanInv, NoneSawBan, Status
    <3>2. v = u => j \in SeenStage(u)
      BY <3>1 DEF SeenStage
    <3>3. k \in Job \ SeenStage(u)
      BY <2>1
    <3> HIDE DEF j
    <3>4. /\ Countable(jobs', u) /\ Count(jobs, u) \in Nat
          /\ Count(jobs', u) <= Count(jobs, u)
          /\ v = u => Count(jobs', u) = Count(jobs, u) - 1
      BY <1>1, <2>1, <2>2, <3>2, <3>3, AdvanceCount
    <3>5. Count(jobs', u) \in Nat
      BY <3>4, FS_CardinalityType DEF Countable, Count
    <3>6. Countable(jobs, u)' /\ Count(jobs, u)' = Count(jobs', u)
      BY <3>4 DEF Countable, Count
    <3>7. IF v = u THEN tokens'[u] = tokens[u] + 1 ELSE tokens'[u] = tokens[u]
      BY <2>4 DEF LoginDataOK
    <3> QED
      BY <1>1, <3>4, <3>5, <3>6, <3>7 DEF BanStep
  <2> QED
    BY <2>2, <2>3, <2>4
<1> QED
  BY <1>3, <1>4, <1>5 DEF AuthenticateJob

(* The loop adds jobs at the first stage and takes or drops outcomes. *)
LEMMA RunBanStep ==
    ASSUME BanInv, LoginDataOK, NEW s \in Session, Run(s),
           NEW u \in User, Countable(jobs, u)
    PROVE  BanStep(u)
<1>1. SeenStage(u) \subseteq Work /\ Work \subseteq Job /\ jobs \in Counts
  BY DEF Job, Work, Stage, Status, SeenStage, BanInv
<1>2. tokens' = tokens
  BY DEF Run, EventLoop, OnRemote, LoginRequest, OnLoginOutcome, OnLoginFailure,
         OnLoginSuccess, LeaveLoop, Close, loginVars
<1>3. ASSUME NEW r \in Session, NEW i \in SeenStage(u) PROVE jobs'[r][i] = jobs[r][i]
  <2>1. CASE \E v \in User : LoginRequest(s, v)
    <3>1. PICK v \in User : \/ jobs' = jobs
                            \/ jobs' = [jobs EXCEPT ![s][<<"find", v, "active">>] = @ + 1]
      BY <2>1 DEF LoginRequest
    <3>2. i # <<"find", v, "active">>
      BY DEF SeenStage
    <3> QED
      BY <1>1, <3>1, <3>2 DEF Counts
  <2>2. CASE OnLoginOutcome(s)
    <3>1. PICK m \in Outcome : Receive(s, m)
      BY <2>2 DEF OnLoginOutcome, OnLoginFailure, OnLoginSuccess, Outcome
    <3>2. i # m
      BY DEF SeenStage, Outcome, Success, Failed
    <3> QED
      BY <1>1, <3>1, <3>2 DEF Receive, Counts
  <2>3. CASE LeaveLoop(s)
    BY <1>1, <2>3 DEF LeaveLoop, Counts
  <2>4. CASE jobs' = jobs
    BY <2>4
  <2> QED
    BY <2>1, <2>2, <2>3, <2>4 DEF Run, EventLoop, OnRemote, Close, loginVars
<1> QED
  BY <1>1, <1>2, <1>3, SameCount DEF SameAt

(* Every step, for every user. *)
LEMMA BanStepNext ==
    ASSUME BanInv, LoginDataOK, [Next]_vars, NEW u \in User, Countable(jobs, u)
    PROVE  BanStep(u)
<1>1. CASE \E s \in Session : Run(s) \/ AuthenticateJob(s)
  BY <1>1, RunBanStep, JobBanStep
<1>2. CASE jobs' = jobs /\ tokens' = tokens
  BY <1>2, SameCount DEF SameAt, BanInv
<1> QED
  BY <1>1, <1>2 DEF Next, WriterTask, AdminDisconnect, Ban, Server, Terminated,
                    vars, loginVars

(* Only finitely many logins are under way, so that they can be counted. *)
UnderWayCountable == \A u \in User : Countable(jobs, u)

LEMMA UnderWayInit == Init => UnderWayCountable
<1> SUFFICES ASSUME Init, NEW u \in User PROVE Countable(jobs, u)
  BY DEF UnderWayCountable
<1>1. \A s \in Session, j \in SeenStage(u) : jobs[s][j] = 0
  BY DEF Init, Job, Work, Stage, Status, SeenStage
<1> QED
  BY <1>1, CopiesNone, FS_EmptySet DEF Countable

(* After a ban a user's tokens, together with the logins that found the     *)
(* account active before it, never grow (session.rs authenticate), for any  *)
(* number of sessions, users and logins.                                    *)
THEOREM LoginBan == Spec => BanLetsNobodyNewIn
<1>1. BanInv /\ LoginDataOK /\ UnderWayCountable /\ [Next]_vars => UnderWayCountable'
  BY BanStepNext DEF BanStep, UnderWayCountable
<1>2. BanInv /\ LoginDataOK /\ UnderWayCountable /\ [Next]_vars
        => [\A u \in banned :
               tokens'[u] + UnderWay(u)' <= tokens[u] + UnderWay(u)]_vars
  <2> SUFFICES ASSUME BanInv, LoginDataOK, UnderWayCountable, [Next]_vars,
                      NEW u \in banned
               PROVE  tokens'[u] + UnderWay(u)' <= tokens[u] + UnderWay(u)
    OBVIOUS
  <2>1. u \in User /\ BanStep(u)
    BY BanStepNext DEF LoginDataOK, UnderWayCountable
  <2>2. UnderWay(u) = Count(jobs, u) /\ UnderWay(u)' = Count(jobs, u)'
    BY <2>1 DEF UnderWay, Count, Copies, SeenActive, CopiesIn, SeenStage
  <2> QED
    BY <2>1, <2>2 DEF BanStep
<1>3. Init => LoginDataOK
  BY DEF Init, LoginDataOK
<1> QED
  BY <1>1, <1>2, <1>3, UnderWayInit, LoginDataNext, BanInvAlways, PTL
  DEF Spec, BanLetsNobodyNewIn
=============================================================================

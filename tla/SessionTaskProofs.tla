------------------------- MODULE SessionTaskProofs -------------------------
(***************************************************************************)
(* The registry, for any set of sessions and users, and what the shared     *)
(* session task keeps true, whatever server it runs in.  GameServer and     *)
(* LoginServer cite the lemmas of the second part, one per kind of step.    *)
(***************************************************************************)
EXTENDS SessionTask, TLAPS

-----------------------------------------------------------------------------
(* The registry *)

(* The inductive invariant: the type, and for each session that has not     *)
(* been kicked the mapping that OwnerOrKicked asks for.  MappingIsCurrent   *)
(* needs that an unregistered session has no user.                          *)
AbsentHasNoUser ==
    \A s \in Session : s \notin sessions => userOf[s] = NoUser

RegistryInv ==
    /\ RegistryTypeOK
    /\ AbsentHasNoUser
    /\ OwnerOrKicked
    /\ MappingIsCurrent

(* The empty registry satisfies the invariant. *)
LEMMA RegistryInitInv == RegistryInit => RegistryInv
BY RegistryAssumption
DEF RegistryInit, RegistryInv, RegistryTypeOK, AbsentHasNoUser, OwnerOrKicked,
    MappingIsCurrent

(* register: a fresh id enters with no user. *)
LEMMA RegisterInv ==
    ASSUME RegistryInv, NEW s \in Session, Register(s)
    PROVE  RegistryInv'
BY RegistryAssumption
DEF RegistryInv, RegistryTypeOK, AbsentHasNoUser, OwnerOrKicked,
    MappingIsCurrent, Register

(* remove: the mapping of another session of the same user stays. *)
LEMMA RemoveInv ==
    ASSUME RegistryInv, NEW s \in Session, s \in sessions, Remove(s)
    PROVE  RegistryInv'
<1>1. RegistryTypeOK' /\ AbsentHasNoUser'
  BY RegistryAssumption
  DEF RegistryInv, RegistryTypeOK, AbsentHasNoUser, Remove
<1>2. OwnerOrKicked'
  BY RegistryAssumption
  DEF RegistryInv, RegistryTypeOK, OwnerOrKicked, Remove
<1>3. MappingIsCurrent'
  BY RegistryAssumption
  DEF RegistryInv, RegistryTypeOK, AbsentHasNoUser, MappingIsCurrent, Remove
<1> QED BY <1>1, <1>2, <1>3 DEF RegistryInv

(* authenticate: the session that loses the mapping is kicked in the same   *)
(* step, and a session that changes its user is remembered.                 *)
LEMMA AuthenticateInv ==
    ASSUME RegistryInv, NEW s \in Session, NEW u \in User,
           s \in sessions, Authenticate(s, u)
    PROVE  RegistryInv'
<1>1. RegistryTypeOK' /\ AbsentHasNoUser'
  BY RegistryAssumption
  DEF RegistryInv, RegistryTypeOK, AbsentHasNoUser, Authenticate, Displaced
<1>2. OwnerOrKicked'
  BY RegistryAssumption
  DEF RegistryInv, RegistryTypeOK, OwnerOrKicked, Authenticate, Displaced
<1>3. MappingIsCurrent'
  BY RegistryAssumption
  DEF RegistryInv, RegistryTypeOK, AbsentHasNoUser, MappingIsCurrent,
      Authenticate, Displaced
<1> QED BY <1>1, <1>2, <1>3 DEF RegistryInv

(* A step that only cancels tokens keeps the invariant. *)
LEMMA CancelInv ==
    ASSUME RegistryInv, NEW s \in Session, Disconnect(s) \/ CancelKick(s)
    PROVE  RegistryInv'
BY DEF RegistryInv, RegistryTypeOK, AbsentHasNoUser, OwnerOrKicked,
       MappingIsCurrent, Disconnect, CancelKick

(* Every call of the registry keeps the invariant. *)
LEMMA RegistryNextInv ==
    RegistryInv /\ [RegistryNext]_registryVars => RegistryInv'
<1> SUFFICES ASSUME RegistryInv, [RegistryNext]_registryVars
             PROVE  RegistryInv'
  OBVIOUS
<1>1. CASE UNCHANGED registryVars
  BY <1>1 DEF RegistryInv, RegistryTypeOK, AbsentHasNoUser, OwnerOrKicked,
              MappingIsCurrent, registryVars
<1>2. CASE RegistryNext
  <2>1. PICK s \in Session :
           \/ Register(s)
           \/ s \in sessions /\ Remove(s)
           \/ \E u \in User : s \in sessions /\ Authenticate(s, u)
           \/ Disconnect(s)
           \/ CancelKick(s)
    BY <1>2 DEF RegistryNext
  <2> QED
    BY <2>1, RegisterInv, RemoveInv, AuthenticateInv, CancelInv
<1> QED BY <1>1, <1>2

(* The invariant of registry.rs holds whatever sequence of calls is made. *)
THEOREM RegistryInvariant == RegistrySpec => []RegistryInv
BY RegistryInitInv, RegistryNextInv, PTL DEF RegistrySpec

(* registry.rs state is well typed after every call. *)
THEOREM RegistryTyped == RegistrySpec => []RegistryTypeOK
<1>1. RegistryInv => RegistryTypeOK BY DEF RegistryInv
<1> QED BY <1>1, RegistryInvariant, PTL

(* Holding the mapping is exclusive, so the duplicate-login kick of         *)
(* registry.rs leaves at most one session per user that was not kicked.     *)
LEMMA OwnerExclusive == RegistryInv => OneLiveSessionPerUser
BY DEF RegistryInv, RegistryTypeOK, OwnerOrKicked, OneLiveSessionPerUser

(* Duplicate logins: whatever order register, authenticate, remove and      *)
(* disconnect run in, two live sessions of one user never coexist.          *)
THEOREM SingleLogin == RegistrySpec => []OneLiveSessionPerUser
BY RegistryInvariant, OwnerExclusive, PTL

(* Stale entries of Inner.authenticated come from a second authentication   *)
(* under another user id, and from nothing else.                            *)
THEOREM StaleOnlyBySwitch == RegistrySpec => []MappingIsCurrent
<1>1. RegistryInv => MappingIsCurrent BY DEF RegistryInv
<1> QED BY <1>1, RegistryInvariant, PTL

(* A kick by authenticate hits a session of that user, or one that changed  *)
(* its user before.                                                         *)
THEOREM KicksAreDuplicates == RegistrySpec => KickOnlyDuplicates
<1> DEFINE Step == \A s \in sessions, u \in User :
          s \in cancelled' \ cancelled /\ authenticated'[u] # authenticated[u]
              => userOf[s] = u \/ s \in switched
<1>1. RegistryInv /\ [RegistryNext]_registryVars => [Step]_registryVars
  <2> SUFFICES ASSUME RegistryInv, RegistryNext,
                      NEW s \in sessions, NEW u \in User,
                      s \in cancelled' \ cancelled,
                      authenticated'[u] # authenticated[u]
               PROVE  userOf[s] = u \/ s \in switched
    OBVIOUS
  <2>1. PICK t \in Session :
           \/ Register(t)
           \/ t \in sessions /\ Remove(t)
           \/ \E v \in User : t \in sessions /\ Authenticate(t, v)
           \/ Disconnect(t)
           \/ CancelKick(t)
    BY DEF RegistryNext
  <2>2. PICK v \in User : t \in sessions /\ Authenticate(t, v)
    BY <2>1 DEF Register, Remove, Disconnect, CancelKick
  <2>3. u = v /\ authenticated[u] = s
    BY <2>2 DEF Authenticate, Displaced, RegistryInv, RegistryTypeOK
  <2> QED
    BY <2>3 DEF RegistryInv, RegistryTypeOK, MappingIsCurrent
<1> QED BY <1>1, RegistryInvariant, PTL DEF RegistrySpec, KickOnlyDuplicates

-----------------------------------------------------------------------------
(* The session task *)

(* After main has returned nothing runs and nothing can be accepted. *)
ExitInv ==
    exited => ~accepting /\ \A s \in Session : pc[s] \in {"new", "done"}

(* A session id is taken when run starts, not when the stream is accepted;  *)
(* until then the task serves nobody.                                       *)
StartInvariant ==
    \A s \in Session :
        /\ s \notin issued <=> pc[s] \in {"new", "spawned"}
        /\ s \notin issued => account[s] = NoUser

(* The part of the inductive invariant both servers share. *)
TaskInv ==
    /\ RegistryInv
    /\ TaskTypeOK
    /\ DirectoryMatchesTasks
    /\ StartInvariant
    /\ ExitInv

Registered == {"select", "ready", "remove"}
Unstarted == {"new", "spawned"}

(* The empty server of main.rs. *)
LEMMA TaskInitInv == TaskInit => TaskInv
<1> SUFFICES ASSUME TaskInit PROVE TaskInv
  OBVIOUS
<1>1. RegistryInv
  BY RegistryInitInv DEF TaskInit
<1>2. TaskTypeOK
  <2>1. 0 \in 0..SendQueueSize
    BY SessionTaskAssumption
  <2>2. queue \in [Session -> 0..SendQueueSize]
    BY <2>1 DEF TaskInit
  <2>3. /\ pc \in [Session -> PCs]
        /\ account \in [Session -> User \cup {NoUser}]
        /\ writer \in [Session -> {"none", "running", "failed", "ended"}]
    BY DEF TaskInit, PCs
  <2>4. shutdown \in BOOLEAN /\ accepting \in BOOLEAN /\ exited \in BOOLEAN
    BY DEF TaskInit
  <2> QED BY <2>2, <2>3, <2>4 DEF TaskTypeOK
<1>3. DirectoryMatchesTasks /\ StartInvariant /\ ExitInv
  BY DEF TaskInit, RegistryInit, DirectoryMatchesTasks, StartInvariant, ExitInv
<1> QED BY <1>1, <1>2, <1>3 DEF TaskInv

(* A task moves between two places on the same side of the registry and     *)
(* touches nothing else that the invariant reads.                           *)
LEMMA MoveInv ==
    ASSUME TaskInv, NEW s \in Session, NEW label \in PCs,
           GoTo(s, label),
           pc[s] \in Registered <=> label \in Registered,
           pc[s] \in Unstarted <=> label \in Unstarted,
           pc[s] \notin {"new", "done"} \/ (pc[s] = "new" /\ accepting),
           UNCHANGED <<registryVars, account, accepting, exited>>,
           queue' \in [Session -> 0..SendQueueSize],
           writer' \in [Session -> {"none", "running", "failed", "ended"}],
           shutdown' \in BOOLEAN
    PROVE  TaskInv'
<1>1. RegistryInv'
  BY DEF TaskInv, RegistryInv, RegistryTypeOK, AbsentHasNoUser, OwnerOrKicked,
         MappingIsCurrent, registryVars
<1>2. TaskTypeOK'
  BY DEF TaskInv, TaskTypeOK, GoTo
<1>3. DirectoryMatchesTasks'
  BY DEF TaskInv, TaskTypeOK, DirectoryMatchesTasks, GoTo, Registered,
         registryVars
<1>4. StartInvariant'
  BY DEF TaskInv, TaskTypeOK, StartInvariant, GoTo, Unstarted, registryVars
<1>5. ExitInv'
  BY DEF TaskInv, TaskTypeOK, ExitInv, GoTo
<1> QED BY <1>1, <1>2, <1>3, <1>4, <1>5 DEF TaskInv

(* How a handler may end: send_flow, Continue or Break. *)
LEMMA FlowShape ==
    ASSUME TaskTypeOK, NEW s \in Session, Reply(s) \/ Continue(s) \/ Break(s)
    PROVE  /\ GoTo(s, "select") \/ GoTo(s, "remove")
           /\ queue' \in [Session -> 0..SendQueueSize]
           /\ writer' = writer
BY SessionTaskAssumption DEF TaskTypeOK, Reply, Continue, Break, SendOk, GoTo

(* A handler that leaves registry and account alone. *)
LEMMA HandlerInv ==
    ASSUME TaskInv, NEW s \in Session, pc[s] = "ready",
           Reply(s) \/ Continue(s) \/ Break(s),
           UNCHANGED <<registryVars, account, shutdown, accepting, exited>>
    PROVE  TaskInv'
<1>1. TaskTypeOK
  BY DEF TaskInv
<1>2. /\ GoTo(s, "select") \/ GoTo(s, "remove")
      /\ queue' \in [Session -> 0..SendQueueSize]
      /\ writer' \in [Session -> {"none", "running", "failed", "ended"}]
      /\ shutdown' \in BOOLEAN
  BY <1>1, FlowShape DEF TaskTypeOK
<1>3. "select" \in PCs /\ "remove" \in PCs
  BY DEF PCs
<1>4. CASE GoTo(s, "select")
  BY <1>2, <1>3, <1>4, MoveInv DEF Registered, Unstarted
<1>5. CASE GoTo(s, "remove")
  BY <1>2, <1>3, <1>5, MoveInv DEF Registered, Unstarted
<1> QED BY <1>2, <1>4, <1>5

(* A successful authentication: registry and account change together. *)
LEMMA AuthenticatedInv ==
    ASSUME TaskInv, NEW s \in Session, NEW u \in User, pc[s] = "ready",
           Authenticate(s, u),
           account' = [account EXCEPT ![s] = u],
           Reply(s),
           UNCHANGED <<shutdown, accepting, exited>>
    PROVE  TaskInv'
<1>1. s \in sessions
  BY DEF TaskInv, DirectoryMatchesTasks
<1>2. RegistryInv'
  BY <1>1, AuthenticateInv DEF TaskInv
<1>3. /\ GoTo(s, "select") \/ GoTo(s, "remove")
      /\ queue' \in [Session -> 0..SendQueueSize]
      /\ writer' = writer
  BY FlowShape DEF TaskInv
<1>4. TaskTypeOK'
  BY <1>3 DEF TaskInv, TaskTypeOK, GoTo, PCs
<1>5. DirectoryMatchesTasks'
  BY <1>1, <1>3 DEF TaskInv, TaskTypeOK, DirectoryMatchesTasks, GoTo,
                    Authenticate, RegistryInv, RegistryTypeOK
<1>6. StartInvariant'
  BY <1>1, <1>3 DEF TaskInv, TaskTypeOK, StartInvariant, GoTo, Authenticate,
                    RegistryInv, RegistryTypeOK
<1>7. ExitInv'
  BY <1>3 DEF TaskInv, TaskTypeOK, ExitInv, GoTo
<1> QED BY <1>2, <1>4, <1>5, <1>6, <1>7 DEF TaskInv

(* run registers the session; only then is it listed. *)
LEMMA StartInv == ASSUME TaskInv, NEW s \in Session, Start(s) PROVE TaskInv'
<1>1. RegistryInv'
  BY RegisterInv DEF TaskInv, Start
<1>2. TaskTypeOK'
  BY SessionTaskAssumption DEF TaskInv, TaskTypeOK, Start, GoTo, PCs
<1>3. DirectoryMatchesTasks'
  BY DEF TaskInv, TaskTypeOK, DirectoryMatchesTasks, StartInvariant, Start,
         Register, GoTo, RegistryInv, RegistryTypeOK
<1>4. StartInvariant'
  BY DEF TaskInv, TaskTypeOK, StartInvariant, Start, Register, GoTo
<1>5. ExitInv'
  BY DEF TaskInv, TaskTypeOK, ExitInv, Start, GoTo
<1> QED BY <1>1, <1>2, <1>3, <1>4, <1>5 DEF TaskInv

(* run removes the session when its loop has returned. *)
LEMMA LeaveInv == ASSUME TaskInv, NEW s \in Session, Leave(s) PROVE TaskInv'
<1>1. s \in sessions
  BY DEF TaskInv, DirectoryMatchesTasks, Leave
<1>2. RegistryInv'
  BY <1>1, RemoveInv DEF TaskInv, Leave
<1>3. TaskTypeOK'
  BY DEF TaskInv, TaskTypeOK, Leave, GoTo, PCs
<1>4. DirectoryMatchesTasks'
  BY DEF TaskInv, TaskTypeOK, DirectoryMatchesTasks, Leave, Remove, GoTo,
         RegistryInv, RegistryTypeOK
<1>5. StartInvariant'
  BY DEF TaskInv, TaskTypeOK, StartInvariant, Leave, Remove, GoTo
<1>6. ExitInv'
  BY DEF TaskInv, TaskTypeOK, ExitInv, Leave, GoTo
<1> QED BY <1>2, <1>3, <1>4, <1>5, <1>6 DEF TaskInv

(* The other steps of the task that touch neither registry nor account. *)
LEMMA TaskMoveInv ==
    ASSUME TaskInv, NEW s \in Session,
           \/ Accept(s) \/ Poll(s) \/ Pending(s) \/ StreamEnd(s)
           \/ KeepAliveTimeout(s) \/ KeepAliveRequest(s) \/ UnhandledFrame(s)
    PROVE  TaskInv'
<1>1. CASE Accept(s)
  <2>1. "spawned" \in PCs
    BY DEF PCs
  <2> QED
    BY <1>1, <2>1, MoveInv DEF Accept, Registered, Unstarted, TaskInv, TaskTypeOK
<1>2. CASE Poll(s)
  <2>1. "ready" \in PCs /\ "remove" \in PCs
    BY DEF PCs
  <2>2. CASE Kicked(s)
    BY <1>2, <2>1, <2>2, MoveInv
    DEF Poll, Registered, Unstarted, TaskInv, TaskTypeOK
  <2>3. CASE ~Kicked(s)
    BY <1>2, <2>1, <2>3, MoveInv
    DEF Poll, Registered, Unstarted, TaskInv, TaskTypeOK
  <2> QED BY <2>2, <2>3
<1>3. CASE Pending(s) \/ StreamEnd(s) \/ KeepAliveTimeout(s)
           \/ KeepAliveRequest(s) \/ UnhandledFrame(s)
  BY <1>3, HandlerInv
  DEF Pending, StreamEnd, KeepAliveTimeout, KeepAliveRequest, UnhandledFrame
<1> QED BY <1>1, <1>2, <1>3

(* Writer::close, on the way to the logout record or to the end of run. *)
LEMMA CloseInv ==
    ASSUME TaskInv, NEW s \in Session, NEW label \in {"logout", "done"},
           CloseThen(s, label)
    PROVE  TaskInv'
<1>1. /\ queue' \in [Session -> 0..SendQueueSize]
      /\ writer' \in [Session -> {"none", "running", "failed", "ended"}]
  BY SessionTaskAssumption DEF CloseThen, TaskInv, TaskTypeOK
<1>2. label \in PCs
  BY DEF PCs
<1> QED
  BY <1>1, <1>2, MoveInv
  DEF CloseThen, Registered, Unstarted, TaskInv, TaskTypeOK

(* The writer task may fail at any time; it cancels the token and no more. *)
LEMMA WriterInv ==
    ASSUME TaskInv, NEW s \in Session, WriterStep(s) \/ WriterFail(s)
    PROVE  TaskInv'
<1>1. CASE WriterStep(s)
  <2>1. RegistryInv'
    BY <1>1 DEF WriterStep, TaskInv, RegistryInv, RegistryTypeOK,
                AbsentHasNoUser, OwnerOrKicked, MappingIsCurrent, registryVars
  <2>2. TaskTypeOK'
    BY <1>1 DEF WriterStep, TaskInv, TaskTypeOK
  <2> QED
    BY <1>1, <2>1, <2>2 DEF WriterStep, TaskInv, DirectoryMatchesTasks,
                            StartInvariant, ExitInv, registryVars
<1>2. CASE WriterFail(s)
  <2>1. RegistryInv'
    BY <1>2, CancelInv DEF WriterFail, TaskInv
  <2>2. TaskTypeOK'
    BY <1>2, SessionTaskAssumption DEF WriterFail, TaskInv, TaskTypeOK
  <2> QED
    BY <1>2, <2>1, <2>2 DEF WriterFail, CancelKick, TaskInv,
                            DirectoryMatchesTasks, StartInvariant, ExitInv
<1> QED BY <1>1, <1>2

(* main.rs: shutdown, the end of the acceptor, and the return of serve. *)
LEMMA ServerInv ==
    ASSUME TaskInv, Shutdown \/ AcceptorStop \/ Exit
    PROVE  TaskInv'
<1>1. RegistryInv'
  BY DEF Shutdown, AcceptorStop, Exit, TaskInv, RegistryInv, RegistryTypeOK,
         AbsentHasNoUser, OwnerOrKicked, MappingIsCurrent, registryVars
<1>2. TaskTypeOK'
  BY DEF Shutdown, AcceptorStop, Exit, TaskInv, TaskTypeOK
<1>3. DirectoryMatchesTasks' /\ StartInvariant'
  BY DEF Shutdown, AcceptorStop, Exit, TaskInv, DirectoryMatchesTasks,
         StartInvariant, registryVars
<1>4. ExitInv'
  BY DEF Shutdown, AcceptorStop, Exit, TaskInv, TaskTypeOK, ExitInv
<1> QED BY <1>1, <1>2, <1>3, <1>4 DEF TaskInv

(* The registry's exclusive ownership carries over to the loops: what a     *)
(* task serves is what the registry shows.                                  *)
LEMMA OneActive == TaskInv => OneActiveSession
BY DEF TaskInv, RegistryInv, RegistryTypeOK, TaskTypeOK, DirectoryMatchesTasks,
       OwnerOrKicked, OneActiveSession, InLoop, Kicked

(* serve returns to an empty registry. *)
LEMMA CleanExit == TaskInv => ExitIsClean
BY DEF TaskInv, RegistryInv, RegistryTypeOK, DirectoryMatchesTasks, ExitInv,
       ExitIsClean
=============================================================================

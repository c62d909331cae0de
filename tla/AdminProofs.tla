----------------------------- MODULE AdminProofs -----------------------------
(***************************************************************************)
(* AdminApi and LoginServer's main, for every number of requests and keys.  *)
(*                                                                         *)
(* DeadKeyRefused is not inductive: that a late request does not get past   *)
(* GET needs that a dead key is not in Redis, which Expire and Issue keep   *)
(* only because what is in Redis is neither dead nor unknown to `issued`.   *)
(***************************************************************************)
EXTENDS AdminProcess, TLAPS

KeysApart ==
    /\ \A k \in dead : ttl[k] = 0
    /\ \A k \in Key : ttl[k] > 0 => k \in issued

RequestsHonest ==
    \A r \in Request :
        /\ request[r].late => request[r].stage = "get" /\ request[r].key \in dead
        /\ request[r].stage \in {"expire", "run", "reply"} => request[r].key \in issued

AdminInv == AdminTypeOK /\ KeysApart /\ RequestsHonest

USE AdminAssumption

(* Init establishes the invariant (SessionKeyStore::new, router). *)
LEMMA AdminInvInit == AdminInit => AdminInv
  BY DEF AdminInit, AdminInv, AdminTypeOK, KeysApart, RequestsHonest, Idle, Stages

(* A request that is answered, refused or cut leaves nothing behind. *)
LEMMA AnswerKeeps ==
    ASSUME AdminInv, NEW r \in Request, Answer(r),
           UNCHANGED <<ttl, issued, dead, known>>
    PROVE  AdminInv'
  BY DEF Answer, Idle, AdminInv, AdminTypeOK, KeysApart, RequestsHonest, Stages

(* The same, when keys were removed from Redis meanwhile. *)
LEMMA LogoutKeeps ==
    ASSUME AdminInv, NEW r \in Request, Logout(r)
    PROVE  AdminInv'
<1>1. CASE UNCHANGED <<ttl, dead>>
  BY <1>1, AnswerKeeps DEF Logout
<1>2. CASE Removed(request[r].key)
  <2>1. AdminTypeOK'
    BY <1>2 DEF Logout, Removed, InRedis, Answer, Idle, AdminInv, AdminTypeOK,
                RequestsHonest, Stages
  <2>2. KeysApart'
    BY <1>2 DEF Logout, Removed, InRedis, AdminInv, AdminTypeOK, KeysApart
  <2>3. RequestsHonest'
    BY <1>2 DEF Logout, Removed, InRedis, Answer, Idle, AdminInv, AdminTypeOK,
                RequestsHonest
  <2> QED
    BY <2>1, <2>2, <2>3 DEF AdminInv
<1> QED
  BY <1>1, <1>2 DEF Logout

(* The middleware and the handlers keep the invariant. *)
LEMMA ServeKeeps ==
    ASSUME AdminInv, NEW r \in Request, Serve(r)
    PROVE  AdminInv'
<1>1. CASE Get(r)
  <2>1. CASE Answer(r)
    BY <1>1, <2>1, AnswerKeeps DEF Get
  <2>2. CASE InRedis(request[r].key) /\ Proceed(r, "expire")
    <3>1. request[r].key \in issued /\ ~request[r].late
      BY <2>2 DEF InRedis, AdminInv, AdminTypeOK, KeysApart, RequestsHonest
    <3>2. AdminTypeOK'
      BY <1>1, <2>2 DEF Get, Proceed, AdminInv, AdminTypeOK, Stages
    <3>3. KeysApart'
      BY <1>1 DEF Get, AdminInv, KeysApart
    <3>4. RequestsHonest'
      BY <1>1, <2>2, <3>1 DEF Get, Proceed, AdminInv, AdminTypeOK, RequestsHonest
    <3> QED
      BY <3>2, <3>3, <3>4 DEF AdminInv
  <2> QED
    BY <1>1, <2>1, <2>2 DEF Get
<1>2. CASE Expire(r)
  <2>1. request[r].stage = "expire" /\ request[r].key \in issued /\ ~request[r].late
    BY <1>2 DEF Expire, AdminInv, RequestsHonest
  <2>2. AdminTypeOK'
    <3>1. ttl' \in [Key -> 0..TTL]
      BY <1>2 DEF Expire, InRedis, AdminInv, AdminTypeOK
    <3>2. CASE Proceed(r, "run")
      BY <1>2, <3>1, <3>2 DEF Expire, Proceed, AdminInv, AdminTypeOK, Stages
    <3>3. CASE Answer(r)
      BY <1>2, <3>1, <3>3 DEF Expire, Answer, Idle, AdminInv, AdminTypeOK, Stages
    <3> QED
      BY <1>2, <3>2, <3>3 DEF Expire
  <2>3. KeysApart'
    BY <1>2, <2>1 DEF Expire, InRedis, AdminInv, AdminTypeOK, KeysApart
  <2>4. RequestsHonest'
    BY <1>2, <2>1 DEF Expire, Proceed, Answer, Idle, AdminInv, AdminTypeOK, RequestsHonest
  <2> QED
    BY <2>2, <2>3, <2>4 DEF AdminInv
<1>3. CASE Handle(r) \/ RefuseLogin(r) \/ Cut(r)
  BY <1>3, AnswerKeeps DEF Handle, RefuseLogin, Cut
<1>4. CASE Logout(r)
  BY <1>4, LogoutKeeps
<1>5. CASE Issue(r)
  <2>1. PICK k \in Key \ issued :
          /\ ttl' = [ttl EXCEPT ![k] = TTL]
          /\ issued' = issued \cup {k}
          /\ \/ request' = [request EXCEPT ![r] = [Idle EXCEPT !.stage = "reply", !.key = k]]
             \/ Answer(r)
    BY <1>5 DEF Issue
  <2>2. request[r].stage = "login" /\ ~request[r].late /\ UNCHANGED <<dead, known>>
    BY <1>5 DEF Issue, AdminInv, AdminTypeOK, RequestsHonest
  <2>3. AdminTypeOK'
    <3>1. ttl' \in [Key -> 0..TTL]
      BY <2>1 DEF AdminInv, AdminTypeOK
    <3>2. issued' \subseteq Key /\ dead' \subseteq issued' /\ known' \subseteq issued'
      BY <2>1, <2>2 DEF AdminInv, AdminTypeOK
    <3>3. CASE request' = [request EXCEPT ![r] = [Idle EXCEPT !.stage = "reply", !.key = k]]
      BY <3>1, <3>2, <3>3 DEF Idle, AdminInv, AdminTypeOK, Stages
    <3>4. CASE Answer(r)
      BY <3>1, <3>2, <3>4 DEF Answer, Idle, AdminInv, AdminTypeOK, Stages
    <3> QED
      BY <2>1, <3>3, <3>4
  <2>4. KeysApart'
    BY <2>1, <2>2 DEF AdminInv, AdminTypeOK, KeysApart
  <2>5. RequestsHonest'
    <3>1. CASE request' = [request EXCEPT ![r] = [Idle EXCEPT !.stage = "reply", !.key = k]]
      BY <2>1, <2>2, <3>1 DEF Idle, AdminInv, AdminTypeOK, RequestsHonest
    <3>2. CASE Answer(r)
      BY <2>1, <2>2, <3>2 DEF Answer, Idle, AdminInv, AdminTypeOK, RequestsHonest
    <3> QED
      BY <2>1, <3>1, <3>2
  <2> QED
    BY <2>3, <2>4, <2>5 DEF AdminInv
<1>6. CASE Reply(r)
  BY <1>6 DEF Reply, Answer, Idle, AdminInv, AdminTypeOK, KeysApart, RequestsHonest, Stages
<1> QED
  BY <1>1, <1>2, <1>3, <1>4, <1>5, <1>6 DEF Serve

(* A new request may carry any key it was told, dead ones included. *)
LEMMA ArriveKeeps ==
    ASSUME AdminInv, NEW r \in Request, Arrive(r)
    PROVE  AdminInv'
<1>1. CASE Proceed(r, "login")
  <2>1. ~request[r].late
    BY DEF Arrive, Idle
  <2> QED
    BY <1>1, <2>1 DEF Arrive, Proceed, AdminInv, AdminTypeOK, KeysApart, RequestsHonest,
                      Stages
<1>2. ASSUME NEW k \in known \cup {NoKey}, NEW h \in {"logout", "other"},
             request' = [request EXCEPT ![r] =
                 [stage |-> "get", key |-> k, handler |-> h, late |-> k \in dead]]
      PROVE  AdminInv'
  <2>1. AdminTypeOK'
    BY <1>2 DEF Arrive, AdminInv, AdminTypeOK, Stages
  <2>2. KeysApart'
    BY DEF Arrive, AdminInv, KeysApart
  <2>3. RequestsHonest'
    BY <1>2 DEF Arrive, AdminInv, AdminTypeOK, RequestsHonest
  <2> QED
    BY <2>1, <2>2, <2>3 DEF AdminInv
<1> QED
  BY <1>1, <1>2 DEF Arrive

(* Expiry in Redis. *)
LEMMA TickKeeps ==
    ASSUME AdminInv, Tick
    PROVE  AdminInv'
<1>1. AdminTypeOK'
  BY DEF Tick, AdminInv, AdminTypeOK, KeysApart
<1>2. KeysApart'
  BY DEF Tick, AdminInv, AdminTypeOK, KeysApart
<1>3. RequestsHonest'
  BY DEF Tick, AdminInv, RequestsHonest
<1> QED
  BY <1>1, <1>2, <1>3 DEF AdminInv

(* Graceful shutdown drops every request. *)
LEMMA DrainedKeeps ==
    ASSUME AdminInv, Drained
    PROVE  AdminInv'
  BY DEF Drained, Idle, AdminInv, AdminTypeOK, KeysApart, RequestsHonest, Stages

LEMMA AdminInvNext == AdminInv /\ [Next]_vars => AdminInv'
<1> SUFFICES ASSUME AdminInv, [Next]_vars PROVE AdminInv'
  OBVIOUS
<1> USE DEF mainVars, broadcastVars
<1>1. CASE UNCHANGED adminVars
  BY <1>1 DEF adminVars, AdminInv, AdminTypeOK, KeysApart, RequestsHonest
<1>2. CASE ApiStep
  BY <1>2, ServeKeeps, ArriveKeeps DEF ApiStep
<1>3. CASE Drained
  BY <1>3, DrainedKeeps
<1>4. CASE Tick
  BY <1>4, TickKeeps
<1> QED
  BY <1>1, <1>2, <1>3, <1>4
  DEF Next, vars, CtrlC, MainStep, Await, SessionsEnd, MonitorEnds, Drain,
      NoticeStep, Environment

THEOREM AdminInvariant == Spec => []AdminInv
<1>1. Init => AdminInv
  BY AdminInvInit DEF Init
<1> QED
  BY <1>1, AdminInvNext, PTL DEF Spec

(* A dead key never lets a request through that came after its death: for   *)
(* every number of keys and of requests in flight (validate, revoke).       *)
THEOREM DeadKeysStayDead == Spec => []DeadKeyRefused
<1>1. AdminInv => DeadKeyRefused
  BY DEF AdminInv, AdminTypeOK, RequestsHonest, DeadKeyRefused
<1> QED
  BY <1>1, AdminInvariant, PTL

-----------------------------------------------------------------------------
(* The subscriber's back-off stays within its limits (subscribe).          *)
LEMMA BroadcastKeeps ==
    ASSUME BroadcastTypeOK,
           SubscriberStep \/ Cancelled \/ RedisFlips \/ UNCHANGED broadcastVars
    PROVE  BroadcastTypeOK'
<1> USE BroadcastAssumption DEF BroadcastTypeOK
<1>1. CASE Subscribe
  BY <1>1 DEF Subscribe
<1>2. CASE Disconnected
  BY <1>2 DEF Disconnected
<1>3. CASE Retry
  BY <1>3 DEF Retry
<1>4. CASE Cancelled
  BY <1>4 DEF Cancelled
<1>5. CASE RedisFlips
  <2>1. redisUp' \in BOOLEAN
    BY <1>5 DEF RedisFlips
  <2>2. broken' = broken \/ (broken' = TRUE /\ subscriber \in {"subscribing", "listening"})
    BY <1>5 DEF RedisFlips
  <2>3. UNCHANGED <<subscriber, delay, shutdown>>
    BY <1>5 DEF RedisFlips
  <2>4. broken' \in BOOLEAN
    BY <2>2
  <2>5. broken' => subscriber' \in {"subscribing", "listening"}
    BY <2>2, <2>3
  <2> QED
    BY <2>1, <2>3, <2>4, <2>5
<1>6. CASE UNCHANGED broadcastVars
  BY <1>6 DEF broadcastVars
<1> QED
  BY <1>1, <1>2, <1>3, <1>4, <1>5, <1>6 DEF SubscriberStep

(* A request is answered or dropped, or begins while axum serves. *)
LEMMA NoneAfterEnd ==
    ASSUME ProcessTypeOK, ApiStep
    PROVE  axum' = "ended" => \A r \in Request : request'[r] = Idle
<1>1. axum' = axum
  BY DEF ApiStep, mainVars
<1>2. ASSUME axum = "ended" PROVE FALSE
  <2>1. PICK r \in Request : Serve(r)
    BY <1>2 DEF ApiStep
  <2>2. request[r].stage = "idle"
    BY <1>2, <2>1 DEF ProcessTypeOK, Idle
  <2>3. request[r] = Idle
    BY <1>2, <2>1 DEF ProcessTypeOK
  <2> QED
    BY <2>1, <2>2, <2>3 DEF Serve, Get, Expire, Handle, Logout, RefuseLogin, Issue, Reply, Cut
<1> QED
  BY <1>1, <1>2

LEMMA ProcessTypeNext == AdminInv /\ ProcessTypeOK /\ [Next]_vars => ProcessTypeOK'
<1> SUFFICES ASSUME AdminInv, ProcessTypeOK, [Next]_vars PROVE ProcessTypeOK'
  OBVIOUS
<1>1. AdminTypeOK'
  BY AdminInvNext DEF AdminInv
<1>2. BroadcastTypeOK'
  <2>1. UNCHANGED broadcastVars => BroadcastTypeOK'
    BY BroadcastKeeps DEF ProcessTypeOK
  <2>2. SubscriberStep \/ Cancelled \/ RedisFlips => BroadcastTypeOK'
    BY BroadcastKeeps DEF ProcessTypeOK
  <2>3. CASE CtrlC
    BY <2>3 DEF CtrlC, ProcessTypeOK, BroadcastTypeOK
  <2>4. CASE ~CtrlC
    BY <2>1, <2>2, <2>4
    DEF Next, vars, MainStep, Await, SessionsEnd, MonitorEnds, Drain, Drained,
        ApiStep, NoticeStep, Environment
  <2> QED
    BY <2>3, <2>4
<1>3. /\ main' \in {"running", "sessions", "axum", "subscriber", "monitor", "returned"}
      /\ sessions' \in {"serving", "ended"} /\ monitor' \in {"running", "ended"}
      /\ axum' \in {"serving", "draining", "ended"}
  BY DEF ProcessTypeOK, Next, vars, mainVars, CtrlC, MainStep, Await, SessionsEnd,
         MonitorEnds, Drain, Drained, ApiStep, NoticeStep, Environment
<1>4. axum' = "ended" => \A r \in Request : request'[r] = Idle
  <2>1. CASE ApiStep
    BY <2>1, NoneAfterEnd
  <2>2. CASE Drained
    BY <2>2 DEF Drained
  <2>3. CASE UNCHANGED request /\ (axum' = "ended" => axum = "ended")
    BY <2>3 DEF ProcessTypeOK
  <2> QED
    BY <2>1, <2>2, <2>3
    DEF Next, vars, mainVars, adminVars, CtrlC, MainStep, Await, SessionsEnd,
        MonitorEnds, Drain, NoticeStep, Environment, Tick
<1> QED
  BY <1>1, <1>2, <1>3, <1>4 DEF ProcessTypeOK

(* The process keeps its types, and once axum has returned no request is    *)
(* left for main to wait on (run in mod.rs, main's awaits).                 *)
THEOREM ProcessTypeCorrect == Spec => []ProcessTypeOK
<1> DEFINE Inv == AdminInv /\ ProcessTypeOK
<1>1. Init => Inv
  <2>1. Init => AdminInv
    BY AdminInvInit DEF Init
  <2>2. Init => BroadcastTypeOK
    <3>1. MinDelay \in MinDelay..MaxDelay
      BY BroadcastAssumption
    <3> QED
      BY <3>1 DEF Init, BroadcastInit, BroadcastTypeOK
  <2> QED
    BY <2>1, <2>2 DEF Init, AdminInv, ProcessTypeOK
<1>2. Inv /\ [Next]_vars => Inv'
  BY AdminInvNext, ProcessTypeNext
<1>3. Inv => ProcessTypeOK
  OBVIOUS
<1> HIDE DEF Inv
<1> QED
  BY <1>1, <1>2, <1>3, PTL DEF Spec
=============================================================================

---------------------------- MODULE AdminProcess ----------------------------
(***************************************************************************)
(* LoginServer's main (crates/login_server/src/main.rs) around its AdminApi *)
(* and its notice subscriber: main waits for each task in turn after        *)
(* shutdown.  The task of the game port is LoginServer's; here it only ends *)
(* after shutdown.                                                          *)
(***************************************************************************)
EXTENDS AdminApi, Broadcast

VARIABLES main,      \* "running", then the task main awaits, then "returned"
          sessions,  \* the session server: "serving" or "ended"
          axum,      \* AdminApi: "serving", "draining", "ended"
          monitor    \* "running" or "ended"

mainVars == <<main, sessions, axum, monitor>>
vars == <<adminVars, broadcastVars, mainVars>>

ProcessTypeOK ==
    /\ AdminTypeOK
    /\ BroadcastTypeOK
    /\ main \in {"running", "sessions", "axum", "subscriber", "monitor", "returned"}
    /\ sessions \in {"serving", "ended"} /\ monitor \in {"running", "ended"}
    /\ axum \in {"serving", "draining", "ended"}
    /\ axum = "ended" => \A r \in Request : request[r] = Idle

Init ==
    /\ AdminInit /\ BroadcastInit
    /\ main = "running"
    /\ sessions = "serving" /\ axum = "serving" /\ monitor = "running"

-----------------------------------------------------------------------------
CtrlC ==
    /\ main = "running"
    /\ shutdown' = TRUE /\ main' = "sessions"
    /\ UNCHANGED <<adminVars, subscriber, delay, redisUp, broken, sessions, axum, monitor>>

(* server.await, admin.await, notice.await, monitor.await *)
Await ==
    /\ \/ main = "sessions" /\ sessions = "ended" /\ main' = "axum"
       \/ main = "axum" /\ axum = "ended" /\ main' = "subscriber"
       \/ main = "subscriber" /\ subscriber = "ended" /\ main' = "monitor"
       \/ main = "monitor" /\ monitor = "ended" /\ main' = "returned"
    /\ UNCHANGED <<adminVars, broadcastVars, sessions, axum, monitor>>

SessionsEnd ==
    /\ shutdown /\ sessions = "serving"
    /\ sessions' = "ended"
    /\ UNCHANGED <<adminVars, broadcastVars, main, axum, monitor>>

MonitorEnds ==
    /\ shutdown /\ monitor = "running"
    /\ monitor' = "ended"
    /\ UNCHANGED <<adminVars, broadcastVars, main, sessions, axum>>

(* graceful_shutdown: no new requests. *)
Drain ==
    /\ shutdown /\ axum = "serving"
    /\ axum' = "draining"
    /\ UNCHANGED <<adminVars, broadcastVars, main, sessions, monitor>>

(* Mutant: graceful_shutdown(None), which waits for the last request. *)
DrainedNoTimeout ==
    /\ axum = "draining"
    /\ \A r \in Request : request[r] = Idle
    /\ axum' = "ended"
    /\ UNCHANGED <<adminVars, broadcastVars, main, sessions, monitor>>

(* The last request is answered, or GRACEFUL_SHUTDOWN_TIMEOUT cuts the rest. *)
(* The remaining connections are dropped in this step; in the program that  *)
(* happens soon after it, when no request is accepted any more.             *)
Drained ==
    /\ axum = "draining"
    /\ axum' = "ended"
    /\ request' = [r \in Request |-> Idle]
    /\ UNCHANGED <<ttl, issued, dead, known, broadcastVars, main, sessions, monitor>>

ApiStep ==
    /\ \E r \in Request : Serve(r) \/ (axum = "serving" /\ Arrive(r))
    /\ UNCHANGED <<broadcastVars, mainVars>>

NoticeStep ==
    /\ SubscriberStep \/ Cancelled
    /\ UNCHANGED <<adminVars, mainVars>>

(* Time passes, and Redis comes and goes, also when the process is gone. *)
Environment ==
    \/ Tick /\ UNCHANGED <<broadcastVars, mainVars>>
    \/ RedisFlips /\ UNCHANGED <<adminVars, mainVars>>

MainStep == Await \/ SessionsEnd \/ MonitorEnds \/ Drain \/ Drained

Next ==
    \/ main # "returned" /\ (CtrlC \/ MainStep \/ ApiStep \/ NoticeStep)
    \/ Environment

(* Tasks that can run do, timers fire, and time passes; no request is       *)
(* assumed to be answered.  A lost connection of the subscriber is reported *)
(* some time (a peer that closes it, or TCP's own limits), for subscribe    *)
(* sends nothing that would find out.                                       *)
Spec ==
    /\ Init /\ [][Next]_vars
    /\ WF_vars(Await) /\ WF_vars(SessionsEnd) /\ WF_vars(MonitorEnds)
    /\ WF_vars(Drain) /\ WF_vars(Drained)
    /\ WF_vars(SubscriberStep /\ UNCHANGED <<adminVars, mainVars>>)
    /\ WF_vars(Cancelled /\ UNCHANGED <<adminVars, mainVars>>)
    /\ WF_vars(Tick /\ UNCHANGED <<broadcastVars, mainVars>>)

-----------------------------------------------------------------------------
(* Properties *)

(* After Ctrl+C main returns, whatever requests are in flight and whether   *)
(* Redis is there or not (main's awaits, start, subscribe).                 *)
MainReturns == shutdown ~> main = "returned"
=============================================================================

----------------------------- MODULE Broadcast -----------------------------
(***************************************************************************)
(* crates/db/src/broadcast.rs: subscribe keeps a subscription to the notice *)
(* channel alive until shutdown and backs off when Redis is away.           *)
(***************************************************************************)
EXTENDS Naturals

CONSTANTS MinDelay, MaxDelay   \* RESUBSCRIBE_DELAY_MIN, RESUBSCRIBE_DELAY_MAX

ASSUME BroadcastAssumption ==
    MinDelay \in Nat \ {0} /\ MaxDelay \in Nat /\ MinDelay <= MaxDelay

VARIABLES subscriber,  \* "connecting", "subscribing", "listening", "waiting", "ended"
          delay,       \* the next back-off
          redisUp,     \* Redis answers
          broken,      \* the subscription's connection is lost, but not yet noticed
          shutdown     \* the token

broadcastVars == <<subscriber, delay, redisUp, broken, shutdown>>

BroadcastTypeOK ==
    /\ subscriber \in {"connecting", "subscribing", "listening", "waiting", "ended"}
    /\ delay \in MinDelay..MaxDelay
    /\ redisUp \in BOOLEAN /\ broken \in BOOLEAN /\ shutdown \in BOOLEAN
    /\ broken => subscriber \in {"subscribing", "listening"}

BroadcastInit ==
    /\ subscriber = "connecting" /\ delay = MinDelay
    /\ redisUp = TRUE /\ broken = FALSE /\ shutdown = FALSE

Subscribing == subscriber \in {"connecting", "subscribing"}

(* get_async_pubsub, then subscribe, which resets the delay. *)
Subscribe ==
    /\ Subscribing /\ redisUp /\ ~broken
    /\ IF subscriber = "connecting"
       THEN subscriber' = "subscribing" /\ UNCHANGED delay
       ELSE subscriber' = "listening" /\ delay' = MinDelay
    /\ UNCHANGED <<redisUp, broken, shutdown>>

(* Mutant: `?` in the loop instead of in the session ends the task. *)
DisconnectedForGood ==
    /\ Subscribing \/ subscriber = "listening"
    /\ ~redisUp \/ broken
    /\ subscriber' = IF Subscribing THEN "ended" ELSE "waiting"
    /\ broken' = FALSE
    /\ UNCHANGED <<delay, redisUp, shutdown>>

(* A call fails, or the stream of messages ends: at once, or only when      *)
(* Redis is there again.                                                    *)
Disconnected ==
    /\ Subscribing \/ subscriber = "listening"
    /\ ~redisUp \/ broken
    /\ subscriber' = "waiting"
    /\ broken' = FALSE
    /\ UNCHANGED <<delay, redisUp, shutdown>>

(* Mutant: the delay doubles without a limit. *)
RetryUnbounded ==
    /\ subscriber = "waiting"
    /\ subscriber' = "connecting"
    /\ delay' = delay * 2
    /\ UNCHANGED <<redisUp, broken, shutdown>>

(* The sleep is over. *)
Retry ==
    /\ subscriber = "waiting"
    /\ subscriber' = "connecting"
    /\ delay' = IF delay * 2 <= MaxDelay THEN delay * 2 ELSE MaxDelay
    /\ UNCHANGED <<redisUp, broken, shutdown>>

(* Mutant: shutdown is looked at only between two subscriptions. *)
CancelledBetween ==
    /\ shutdown /\ subscriber = "waiting"
    /\ subscriber' = "ended" /\ broken' = FALSE
    /\ UNCHANGED <<delay, redisUp, shutdown>>

(* The shutdown branch of either select!. *)
Cancelled ==
    /\ shutdown /\ subscriber # "ended"
    /\ subscriber' = "ended" /\ broken' = FALSE
    /\ UNCHANGED <<delay, redisUp, shutdown>>

(* A connection may survive that Redis is away for a while, or not.         *)
RedisFlips ==
    /\ redisUp' = ~redisUp
    /\ \/ UNCHANGED broken
       \/ redisUp /\ subscriber \in {"subscribing", "listening"} /\ broken' = TRUE
    /\ UNCHANGED <<subscriber, delay, shutdown>>

SubscriberStep == Subscribe \/ Disconnected \/ Retry

-----------------------------------------------------------------------------
(* Properties *)

(* Once Redis stays up the subscriber listens again, on a connection that   *)
(* is not lost, after any history of failures and however late they are     *)
(* noticed, unless the process is shutting down (subscribe's loop).         *)
SubscriberRecovers ==
    <>[](redisUp /\ ~shutdown) => <>[](subscriber = "listening" /\ ~broken)
=============================================================================

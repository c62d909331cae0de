---------------------------- MODULE SessionInbox ----------------------------
(***************************************************************************)
(* One session and everything that reaches its event loop, in time: frames, *)
(* the bounded inner channel through which jobs hand back their outcomes,   *)
(* and the keep-alive deadline.  The loop is the one of LoginServer, whose  *)
(* LoginRequest goes through LoginLimit; GameServer's is the same but for   *)
(* the limit.                                                               *)
(*                                                                         *)
(* The select! is biased: kick, frame, outcome, deadline, in this order.    *)
(* Each handler is one step, so each disjunct of Loop says in its guard     *)
(* that the branches above it are not ready.                                *)
(***************************************************************************)
EXTENDS LoginLimit, FiniteSets

CONSTANTS Capacity,         \* MAX_MESSAGE_CHANNEL_CAPACITY
          KeepAliveTimeout, \* keep_alive_timeout
          MaxFrames,        \* bound: frames received and not yet handled
          MaxLogins         \* bound: attempts from which no LoginRequest is sent

ASSUME InboxAssumption ==
    /\ Capacity \in Nat \ {0}
    /\ KeepAliveTimeout \in Nat \ {0}
    /\ MaxFrames \in Nat /\ MaxLogins \in Nat

VARIABLES frames,          \* complete frames the reader has not returned yet
          silent,          \* the client will not send any more
          working,         \* authenticate jobs at work
          waiting,         \* waiting[r]: jobs in inner_tx.send with outcome r
          inner,           \* the inner channel
          account,         \* Session.account is set
          last_keep_alive, \* Session.last_keep_alive
          heard,           \* history: last KeepAlive arrived or login succeeded
          produced,        \* history: outcomes the jobs came to
          handled,         \* history: outcomes on_login_outcome was given
          loop             \* "running", "timeout" or "closed"

inboxVars == <<frames, silent, working, waiting, inner, account,
               last_keep_alive, heard, produced, handled, loop>>
vars == <<limitVars, inboxVars>>

Frame == {"login", "keepalive", "other"}
Outcome == {"success", "failure"}

InboxTypeOK ==
    /\ LimitTypeOK
    /\ frames \in Seq(Frame) /\ Len(frames) <= MaxFrames
    /\ silent \in BOOLEAN /\ account \in BOOLEAN
    /\ working \in Nat
    /\ waiting \in [Outcome -> Nat]
    /\ inner \in Seq(Outcome) /\ Len(inner) <= Capacity
    /\ last_keep_alive \in 0..MaxTime /\ heard \in 0..MaxTime
    /\ produced \in [Outcome -> Nat] /\ handled \in [Outcome -> Nat]
    /\ loop \in {"running", "timeout", "closed"}

Init ==
    /\ LimitInit
    /\ frames = <<>> /\ silent = FALSE
    /\ working = 0
    /\ waiting = [r \in Outcome |-> 0]
    /\ inner = <<>>
    /\ account = FALSE
    /\ last_keep_alive = 0 /\ heard = 0
    /\ produced = [r \in Outcome |-> 0]
    /\ handled = [r \in Outcome |-> 0]
    /\ loop = "running"

-----------------------------------------------------------------------------
(* The client and the clock *)

Arrive(f) ==
    /\ loop = "running" /\ ~silent
    /\ Len(frames) < MaxFrames
    /\ f = "login" => Len(granted) + Len(refused) < MaxLogins
    /\ frames' = Append(frames, f)
    /\ heard' = IF f = "keepalive" THEN now ELSE heard
    /\ UNCHANGED <<limitVars, silent, working, waiting, inner, account,
                   last_keep_alive, produced, handled, loop>>

(* The client keeps the connection but sends nothing any more. *)
FallSilent ==
    /\ loop = "running" /\ ~silent
    /\ silent' = TRUE
    /\ UNCHANGED <<limitVars, frames, working, waiting, inner,
                   account, last_keep_alive, heard, produced, handled, loop>>

Tick ==
    /\ loop = "running" /\ now < MaxTime
    /\ now' = now + 1
    /\ UNCHANGED <<login_window, login_attempts, granted, refused, inboxVars>>

-----------------------------------------------------------------------------
(* The jobs: tasks of their own *)

(* authenticate returns with outcome r and the task calls inner_tx.send,    *)
(* which fails at once if event_loop has returned.                          *)
Finish(r) ==
    /\ working > 0
    /\ working' = working - 1
    /\ produced' = [produced EXCEPT ![r] = @ + 1]
    /\ waiting' = IF loop = "running" THEN [waiting EXCEPT ![r] = @ + 1]
                  ELSE waiting
    /\ UNCHANGED <<limitVars, frames, silent, inner, account,
                   last_keep_alive, heard, handled, loop>>

(* Mutant: try_send, and a full channel drops the outcome. *)
PushOrDrop(r) ==
    /\ loop = "running"
    /\ waiting[r] > 0
    /\ waiting' = [waiting EXCEPT ![r] = @ - 1]
    /\ inner' = IF Len(inner) < Capacity THEN Append(inner, r) ELSE inner
    /\ UNCHANGED <<limitVars, frames, silent, working, account,
                   last_keep_alive, heard, produced, handled, loop>>

(* send waits for a place.  Which of several waiting tasks comes first is   *)
(* the scheduler's choice.                                                  *)
Push(r) ==
    /\ loop = "running"
    /\ waiting[r] > 0 /\ Len(inner) < Capacity
    /\ waiting' = [waiting EXCEPT ![r] = @ - 1]
    /\ inner' = Append(inner, r)
    /\ UNCHANGED <<limitVars, frames, silent, working, account,
                   last_keep_alive, heard, produced, handled, loop>>

-----------------------------------------------------------------------------
(* The event loop *)

(* event_loop returns and drops the reader and the channel's receiver; the  *)
(* sends that wait fail.                                                    *)
Return(reason) ==
    /\ loop = "running"
    /\ loop' = reason
    /\ frames' = <<>> /\ inner' = <<>>
    /\ waiting' = [r \in Outcome |-> 0]
    /\ UNCHANGED <<limitVars, silent, working, account,
                   last_keep_alive, heard, produced, handled>>

(* on_login_request; an empty request is refused after it used an attempt. *)
LoginRequest ==
    /\ Head(frames) = "login"
    /\ \/ account /\ UNCHANGED <<limitVars, working>>
       \/ /\ ~account /\ TryConsume
          /\ \/ WithinLimit /\ working' = working + 1
             \/ UNCHANGED working
    /\ UNCHANGED last_keep_alive

KeepAliveRequest ==
    /\ Head(frames) = "keepalive"
    /\ last_keep_alive' = now
    /\ UNCHANGED <<limitVars, working>>

(* A frame without a handler is ignored once the session is authenticated, *)
OtherFrame ==
    /\ Head(frames) = "other" /\ account
    /\ UNCHANGED <<limitVars, working, last_keep_alive>>

(* and ends it before. *)
Forbidden ==
    /\ frames # <<>> /\ Head(frames) = "other" /\ ~account
    /\ Return("closed")

(* reader.next() returns a frame *)
OnRemote ==
    /\ loop = "running" /\ frames # <<>>
    /\ LoginRequest \/ KeepAliveRequest \/ OtherFrame
    /\ frames' = Tail(frames)
    /\ UNCHANGED <<silent, waiting, inner, account, heard, produced,
                   handled, loop>>

(* Mutant: outcomes are polled only until the session is authenticated. *)
OnLoginOutcomeOnce ==
    /\ loop = "running" /\ frames = <<>> /\ inner # <<>> /\ ~account
    /\ LET r == Head(inner) IN
          /\ handled' = [handled EXCEPT ![r] = @ + 1]
          /\ account' = (account \/ r = "success")
          /\ last_keep_alive' = IF r = "success" THEN now ELSE last_keep_alive
          /\ heard' = IF r = "success" THEN now ELSE heard
    /\ inner' = Tail(inner)
    /\ UNCHANGED <<limitVars, frames, silent, working, waiting,
                   produced, loop>>

(* on_login_outcome, when no frame is ready *)
OnLoginOutcome ==
    /\ loop = "running" /\ frames = <<>> /\ inner # <<>>
    /\ LET r == Head(inner) IN
          /\ handled' = [handled EXCEPT ![r] = @ + 1]
          /\ account' = (account \/ r = "success")
          /\ last_keep_alive' = IF r = "success" THEN now ELSE last_keep_alive
          /\ heard' = IF r = "success" THEN now ELSE heard
    /\ inner' = Tail(inner)
    /\ UNCHANGED <<limitVars, frames, silent, working, waiting,
                   produced, loop>>

(* Mutant: the deadline is polled although a frame is ready. *)
DeadlineEager ==
    /\ account
    /\ now >= last_keep_alive + KeepAliveTimeout
    /\ Return("timeout")

(* Mutant: a session with login jobs in flight is spared. *)
DeadlineSparesJobs ==
    /\ frames = <<>> /\ inner = <<>> /\ account
    /\ now >= last_keep_alive + KeepAliveTimeout /\ working = 0
    /\ Return("timeout")

(* sleep_until_opt, when nothing else is ready *)
Deadline ==
    /\ frames = <<>> /\ inner = <<>> /\ account
    /\ now >= last_keep_alive + KeepAliveTimeout
    /\ Return("timeout")

(* Kicked, the stream ended or broke, or a reply found the outbox full: a   *)
(* handler that ends with Break is the handler's step and this one.         *)
Close == Return("closed")

-----------------------------------------------------------------------------
Loop == OnRemote \/ Forbidden \/ OnLoginOutcome \/ Deadline

Jobs == \E r \in Outcome : Finish(r) \/ Push(r)

Stopped == (loop # "running" \/ now = MaxTime) /\ UNCHANGED vars

Next ==
    \/ \E f \in Frame : Arrive(f)
    \/ FallSilent \/ Tick
    \/ Jobs \/ Loop \/ Close
    \/ Stopped

Spec == Init /\ [][Next]_vars

(* Time passes, a ready loop runs and an outcome is sent when there is      *)
(* room.  A job need not end: its database may never answer.                *)
FairSpec ==
    /\ Spec
    /\ WF_vars(Tick) /\ WF_vars(Loop)
    /\ WF_vars(\E r \in Outcome : Push(r))

-----------------------------------------------------------------------------
(* Properties *)

(* The timeout never cuts a client that is alive (session.rs event_loop):   *)
(* for KeepAliveTimeout before it no KeepAliveRequest arrived and no login  *)
(* succeeded, counted from the arrival, not from when the loop read it.     *)
NeverCutAlive == loop = "timeout" => now - heard >= KeepAliveTimeout

(* Where r stands in the queue q. *)
Positions(q, r) == {i \in 1..Len(q) : q[i] = r}

(* A full channel makes jobs wait and loses nothing: what the jobs of a     *)
(* running session came to is waiting, in the channel or handled, once      *)
(* (inner_tx.send, inner_rx.recv).                                          *)
OutcomesKept ==
    loop = "running" =>
        \A r \in Outcome :
            produced[r] = waiting[r] + handled[r] + Cardinality(Positions(inner, r))

(* A client that fell silent is disconnected when its deadline has passed,  *)
(* whatever it left unread and whatever its jobs still send (unless the     *)
(* deadline moves out of the time modelled).                                *)
SilentSessionEnds ==
    (account /\ silent) ~>
        (loop # "running" \/ last_keep_alive + KeepAliveTimeout > MaxTime)

(* No outcome is stuck behind a full channel: once the client pauses, every *)
(* job that waits in send gets its turn.                                    *)
SendersGetTheirTurn ==
    silent ~> (loop # "running" \/ \A r \in Outcome : waiting[r] = 0)

ChannelFull == Len(inner) = Capacity /\ \E r \in Outcome : waiting[r] > 0

(* consts.rs:14, PORTING.md:108: a session whose inner channel overflows is *)
(* closed by force; so it handles none of the outcomes any more.            *)
OverflowEndsSession == [][ChannelFull => UNCHANGED handled]_vars
=============================================================================

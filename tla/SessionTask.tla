----------------------------- MODULE SessionTask -----------------------------
(***************************************************************************)
(* The session task that GameServer and LoginServer share line for line:    *)
(* run and event_loop of session.rs, the parts of outbox.rs the loop        *)
(* depends on, serve and the shutdown order of main.rs.                     *)
(*                                                                         *)
(* One iteration of the biased select! is two steps.  Poll looks at the     *)
(* kick token first; from "ready" the task runs exactly one handler (or     *)
(* finds nothing to do).  Another thread may cancel the token in between.   *)
(* Frames come from the client at will, the outbox is its length, and the   *)
(* keep-alive deadline of an authenticated session may pass at any time.    *)
(***************************************************************************)
EXTENDS Registry

CONSTANTS SendQueueSize    \* MAX_SEND_QUEUE_SIZE

ASSUME SessionTaskAssumption == SendQueueSize \in Nat \ {0}

VARIABLES pc,        \* where the session task is
          account,   \* Session.account, by user id
          queue,     \* messages in the outbox channel
          writer,    \* the writer task
          shutdown,  \* the root CancellationToken is cancelled
          accepting, \* the acceptor loop still runs
          exited     \* main returned and the runtime was dropped

taskVars ==
    <<pc, account, queue, writer, shutdown, accepting, exited>>

(* "new"     not accepted yet     "spawned" tracked, run not started         *)
(* "select"  top of the loop      "ready"   kick polled, not cancelled       *)
(* "remove"  event_loop returned  "close"   out of the registry              *)
(* "logout"  UPDATE in flight     "backoff" waiting to retry it              *)
(* "done"    run returned                                                    *)
PCs == {"new", "spawned", "select", "ready", "remove", "close",
        "logout", "backoff", "done"}

TaskTypeOK ==
    /\ pc \in [Session -> PCs]
    /\ account \in [Session -> User \cup {NoUser}]
    /\ queue \in [Session -> 0..SendQueueSize]
    /\ writer \in [Session -> {"none", "running", "failed", "ended"}]
    /\ shutdown \in BOOLEAN
    /\ accepting \in BOOLEAN
    /\ exited \in BOOLEAN

TaskInit ==
    /\ RegistryInit
    /\ pc = [s \in Session |-> "new"]
    /\ account = [s \in Session |-> NoUser]
    /\ queue = [s \in Session |-> 0]
    /\ writer = [s \in Session |-> "none"]
    /\ shutdown = FALSE
    /\ accepting = TRUE
    /\ exited = FALSE

(* The kick token is a child of the shutdown token. *)
Kicked(s) == s \in cancelled \/ shutdown

InLoop(s) == pc[s] \in {"select", "ready"}

GoTo(s, label) == pc' = [pc EXCEPT ![s] = label]

-----------------------------------------------------------------------------
(* How a handler ends: ControlFlow and Outbox::send_flow. *)

Continue(s) == GoTo(s, "select") /\ UNCHANGED <<queue, writer>>

Break(s) == GoTo(s, "remove") /\ UNCHANGED <<queue, writer>>

(* try_send succeeds unless the queue is full or the writer is gone. *)
SendOk(s) == writer[s] = "running" /\ queue[s] < SendQueueSize

(* Mutant: the outbox channel has no capacity. *)
ReplyUnbounded(s) ==
    \/ /\ writer[s] = "running"
       /\ queue' = [queue EXCEPT ![s] = @ + 1]
       /\ GoTo(s, "select")
       /\ UNCHANGED writer
    \/ writer[s] # "running" /\ Break(s)

(* send_flow: Break when the message was not taken. *)
Reply(s) ==
    \/ /\ SendOk(s)
       /\ queue' = [queue EXCEPT ![s] = @ + 1]
       /\ GoTo(s, "select")
       /\ UNCHANGED writer
    \/ ~SendOk(s) /\ Break(s)

-----------------------------------------------------------------------------
(* serve and run *)

(* The acceptor hands the stream to the tracker.  Its select! is not        *)
(* biased: it may still accept after shutdown was cancelled.                *)
Accept(s) ==
    /\ accepting
    /\ pc[s] = "new"
    /\ GoTo(s, "spawned")
    /\ UNCHANGED <<registryVars, account, queue, writer, shutdown, accepting,
                   exited>>

(* run up to the loop: register, spawn the writer, queue ConnectedResponse. *)
(* That send meets an empty queue and a fresh writer, so its early return   *)
(* is never taken.                                                          *)
Start(s) ==
    /\ pc[s] = "spawned"
    /\ Register(s)
    /\ writer' = [writer EXCEPT ![s] = "running"]
    /\ queue' = [queue EXCEPT ![s] = 1]
    /\ GoTo(s, "select")
    /\ UNCHANGED <<account, shutdown, accepting, exited>>

(* Mutant: the kick branch is dropped from the select!. *)
PollIgnoresKick(s) ==
    /\ pc[s] = "select"
    /\ GoTo(s, "ready")
    /\ UNCHANGED <<registryVars, account, queue, writer, shutdown, accepting,
                   exited>>

(* The first branch of the biased select!. *)
Poll(s) ==
    /\ pc[s] = "select"
    /\ GoTo(s, IF Kicked(s) THEN "remove" ELSE "ready")
    /\ UNCHANGED <<registryVars, account, queue, writer, shutdown, accepting,
                   exited>>

(* No branch is ready: the task sleeps until something wakes it. *)
Pending(s) ==
    /\ pc[s] = "ready"
    /\ Continue(s)
    /\ UNCHANGED <<registryVars, account, shutdown, accepting, exited>>

(* End of stream or a codec error. *)
StreamEnd(s) ==
    /\ pc[s] = "ready"
    /\ Break(s)
    /\ UNCHANGED <<registryVars, account, shutdown, accepting, exited>>

(* Only an authenticated session has a deadline. *)
KeepAliveTimeout(s) ==
    /\ pc[s] = "ready"
    /\ account[s] # NoUser
    /\ Break(s)
    /\ UNCHANGED <<registryVars, account, shutdown, accepting, exited>>

(* KeepAliveRequest moves the deadline and answers nothing. *)
KeepAliveRequest(s) ==
    /\ pc[s] = "ready"
    /\ Continue(s)
    /\ UNCHANGED <<registryVars, account, shutdown, accepting, exited>>

(* A frame without a handler: ignored once authenticated, fatal before. *)
UnhandledFrame(s) ==
    /\ pc[s] = "ready"
    /\ \/ account[s] # NoUser /\ Continue(s)
       \/ account[s] = NoUser /\ Break(s)
    /\ UNCHANGED <<registryVars, account, shutdown, accepting, exited>>

(* Mutant: the session leaves the directory but its mapping stays. *)
LeaveKeepsMapping(s) ==
    /\ pc[s] = "remove"
    /\ RemoveKeepsMapping(s)
    /\ GoTo(s, "close")
    /\ UNCHANGED <<account, queue, writer, shutdown, accepting, exited>>

(* registry.remove, after the loop and before the writer is closed. *)
Leave(s) ==
    /\ pc[s] = "remove"
    /\ Remove(s)
    /\ GoTo(s, "close")
    /\ UNCHANGED <<account, queue, writer, shutdown, accepting, exited>>

(* Writer::close: the writer drained the queue and ended, had failed, or is *)
(* aborted when WRITER_DRAIN_TIMEOUT passes.                                *)
CloseThen(s, label) ==
    /\ pc[s] = "close"
    /\ writer' = [writer EXCEPT ![s] = "ended"]
    /\ queue' = [queue EXCEPT ![s] = 0]
    /\ GoTo(s, label)
    /\ UNCHANGED <<registryVars, account, shutdown, accepting, exited>>

(* write_loop takes messages off the queue. *)
WriterStep(s) ==
    /\ writer[s] = "running"
    /\ \E n \in 0..SendQueueSize :
          n < queue[s] /\ queue' = [queue EXCEPT ![s] = n]
    /\ UNCHANGED <<registryVars, pc, account, writer, shutdown, accepting,
                   exited>>

(* A write error ends write_loop, which drops the queue and cancels kick. *)
WriterFail(s) ==
    /\ writer[s] = "running"
    /\ writer' = [writer EXCEPT ![s] = "failed"]
    /\ queue' = [queue EXCEPT ![s] = 0]
    /\ CancelKick(s)
    /\ UNCHANGED <<pc, account, shutdown, accepting, exited>>

-----------------------------------------------------------------------------
(* main: ctrl_c cancels shutdown, the acceptor stops, serve waits for every *)
(* tracked session task, then main returns and drops what still runs.       *)

Shutdown ==
    /\ ~shutdown
    /\ shutdown' = TRUE
    /\ UNCHANGED <<registryVars, pc, account, queue, writer, accepting, exited>>

AcceptorStop ==
    /\ shutdown /\ accepting
    /\ accepting' = FALSE
    /\ UNCHANGED <<registryVars, pc, account, queue, writer, shutdown, exited>>

(* Mutant: serve returns as soon as the acceptor does. *)
ExitAtOnce ==
    /\ ~accepting /\ ~exited
    /\ exited' = TRUE
    /\ UNCHANGED <<registryVars, pc, account, queue, writer, shutdown,
                   accepting>>

Exit ==
    /\ ~accepting /\ ~exited
    /\ \A s \in Session : pc[s] \in {"new", "done"}
    /\ exited' = TRUE
    /\ UNCHANGED <<registryVars, pc, account, queue, writer, shutdown,
                   accepting>>

-----------------------------------------------------------------------------
(* What both servers promise *)

(* The directory lists a session exactly while its loop runs, under the     *)
(* user the loop serves (session.rs run, registry.rs): a handler never      *)
(* works for a user the registry does not show.                             *)
DirectoryMatchesTasks ==
    \A s \in Session :
        /\ s \in sessions <=> pc[s] \in {"select", "ready", "remove"}
        /\ s \in sessions => userOf[s] = account[s]

(* Two loops never serve one user unless one of them has been told to stop: *)
(* the duplicate-login kick, seen from the tasks.                           *)
OneActiveSession ==
    \A s, t \in Session :
        /\ s # t /\ InLoop(s) /\ InLoop(t)
        /\ account[s] = account[t] /\ account[s] # NoUser
        => Kicked(s) \/ Kicked(t)

(* main returns only when no session task is left and the registry is       *)
(* empty, also for sessions accepted after shutdown was cancelled.          *)
ExitIsClean ==
    exited => sessions = {} /\ \A s \in Session : pc[s] \in {"new", "done"}

(* Graceful shutdown ends: every session notices, closes its writer within  *)
(* the drain timeout and the process returns (lib.rs serve, main.rs).       *)
ShutdownCompletes == shutdown ~> exited

(* A kicked session always leaves the loop, the directory and its           *)
(* connection, whatever its client keeps sending (session.rs event_loop).   *)
KickedSessionEnds ==
    \A s \in Session :
        (s \in cancelled) ~> (pc[s] \in {"logout", "backoff", "done"})
=============================================================================

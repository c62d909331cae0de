------------------------------- MODULE Outbox -------------------------------
(***************************************************************************)
(* crates/net/src/outbox.rs and the encoder of codec.rs: the session task   *)
(* sends into a bounded channel, the writer task batches what it finds      *)
(* there into the FramedWrite buffer and flushes it, and close gives the    *)
(* writer a bounded time to finish.                                         *)
(*                                                                         *)
(* A frame is three units (two of header and the body), so that the socket  *)
(* may take part of one.  Framing adds the reader of the connection.        *)
(***************************************************************************)
EXTENDS Naturals, Sequences, SequencesExt

CONSTANTS Msg,        \* messages the session sends
          TooLarge,   \* those whose body exceeds MAX_MESSAGE_BODY_SIZE
          Capacity,   \* MAX_SEND_QUEUE_SIZE
          HighWater,  \* units from which FramedWrite flushes before it encodes
          MaxSends    \* bound: sends one session makes

ASSUME OutboxAssumption ==
    /\ TooLarge \subseteq Msg
    /\ Capacity \in Nat \ {0}
    /\ HighWater \in Nat \ {0}
    /\ MaxSends \in Nat

VARIABLES sent,    \* history: the messages send accepted
          queue,   \* the mpsc channel
          held,    \* the message write_loop is about to feed, if any
          buffer,  \* FramedWrite's buffer
          wire,    \* units the socket has taken
          writer,  \* "recv", "feed", "flush", "done", "failed", "aborted"
          loop,    \* the session: "running", "closing" (in close), "closed"
          kick     \* the kick token

vars == <<sent, queue, held, buffer, wire, writer, loop, kick>>

Unit == Msg \X (1..3)

WriterAlive == writer \in {"recv", "feed", "flush"}

OutboxTypeOK ==
    /\ sent \in Seq(Msg) /\ Len(sent) <= MaxSends
    /\ queue \in Seq(Msg) /\ Len(queue) <= Capacity
    /\ held \in Seq(Msg) /\ Len(held) <= 1
    /\ buffer \in Seq(Unit)
    /\ wire \in Seq(Unit)
    /\ writer \in {"recv", "feed", "flush", "done", "failed", "aborted"}
    /\ loop \in {"running", "closing", "closed"}
    /\ kick \in BOOLEAN

Init ==
    /\ sent = <<>> /\ queue = <<>> /\ held = <<>>
    /\ buffer = <<>> /\ wire = <<>>
    /\ writer = "recv"
    /\ loop = "running"
    /\ kick = FALSE

(* Two units of header and the body. *)
Bytes(m) == <<<<m, 1>>, <<m, 2>>, <<m, 3>>>>

(* Mutant: encode does not look at the size. *)
FrameAnySize(m) == Bytes(m)

(* MessageCodec::encode drops an oversized message and keeps going. *)
Frame(m) == IF m \in TooLarge THEN <<>> ELSE Bytes(m)

Frames(messages) == FlattenSeq([i \in 1..Len(messages) |-> Frame(messages[i])])

-----------------------------------------------------------------------------
(* The session task *)

(* Mutant: an unbounded channel. *)
SendUnbounded(m) ==
    /\ loop = "running"
    /\ Len(sent) < MaxSends
    /\ \/ /\ WriterAlive
          /\ queue' = Append(queue, m)
          /\ sent' = Append(sent, m)
          /\ UNCHANGED loop
       \/ /\ ~WriterAlive
          /\ loop' = "closing"
          /\ UNCHANGED <<queue, sent>>
    /\ UNCHANGED <<held, buffer, wire, writer, kick>>

(* try_send; a full queue or a writer that is gone ends the session loop,   *)
(* which goes on to Writer::close.                                          *)
Send(m) ==
    /\ loop = "running"
    /\ Len(sent) < MaxSends
    /\ \/ /\ WriterAlive /\ Len(queue) < Capacity
          /\ queue' = Append(queue, m)
          /\ sent' = Append(sent, m)
          /\ UNCHANGED loop
       \/ /\ ~WriterAlive \/ Len(queue) = Capacity
          /\ loop' = "closing"
          /\ UNCHANGED <<queue, sent>>
    /\ UNCHANGED <<held, buffer, wire, writer, kick>>

(* The loop ends for another reason, at the latest when kick is cancelled. *)
EndLoop ==
    /\ loop = "running"
    /\ loop' = "closing"
    /\ UNCHANGED <<sent, queue, held, buffer, wire, writer, kick>>

(* Writer::close: the writer task has ended within WRITER_DRAIN_TIMEOUT ... *)
Closed ==
    /\ loop = "closing" /\ ~WriterAlive
    /\ loop' = "closed"
    /\ UNCHANGED <<sent, queue, held, buffer, wire, writer, kick>>

(* ... or is aborted wherever it waits. *)
DrainTimeout ==
    /\ loop = "closing" /\ WriterAlive
    /\ loop' = "closed"
    /\ writer' = "aborted"
    /\ UNCHANGED <<sent, queue, held, buffer, wire, kick>>

-----------------------------------------------------------------------------
(* The writer task *)

Recv ==
    /\ writer = "recv" /\ queue # <<>>
    /\ held' = <<Head(queue)>>
    /\ queue' = Tail(queue)
    /\ writer' = "feed"
    /\ UNCHANGED <<sent, buffer, wire, loop, kick>>

(* recv returns None: the queue is empty and the sender was dropped. *)
RecvNone ==
    /\ writer = "recv" /\ queue = <<>> /\ loop # "running"
    /\ writer' = "done"
    /\ UNCHANGED <<sent, queue, held, buffer, wire, loop, kick>>

(* Mutant: try_recv drops the message it took before it looks for another. *)
FeedSkips ==
    /\ writer = "feed" /\ Len(buffer) < HighWater
    /\ \/ /\ queue # <<>>
          /\ held' = <<Head(queue)>> /\ queue' = Tail(queue)
          /\ UNCHANGED <<writer, buffer>>
       \/ /\ queue = <<>>
          /\ buffer' = buffer \o Frames(held)
          /\ held' = <<>> /\ writer' = "flush"
          /\ UNCHANGED queue
    /\ UNCHANGED <<sent, wire, loop, kick>>

(* feed encodes the held message, then try_recv looks for the next one. *)
Feed ==
    /\ writer = "feed" /\ Len(buffer) < HighWater
    /\ buffer' = buffer \o Frames(held)
    /\ \/ /\ queue # <<>>
          /\ held' = <<Head(queue)>> /\ queue' = Tail(queue)
          /\ UNCHANGED writer
       \/ /\ queue = <<>>
          /\ held' = <<>> /\ writer' = "flush"
          /\ UNCHANGED queue
    /\ UNCHANGED <<sent, wire, loop, kick>>

(* The writer is in a write: flush, or feed above the high-water mark. *)
Writing ==
    \/ writer = "flush" /\ buffer # <<>>
    \/ writer = "feed" /\ Len(buffer) >= HighWater

(* Mutant: after a partial write the whole buffer is offered again. *)
WriteRepeats ==
    /\ Writing
    /\ Len(wire) < 3 * MaxSends
    /\ \E n \in 1..Len(buffer) :
          /\ wire' = wire \o SubSeq(buffer, 1, n)
          /\ buffer' = IF n = Len(buffer) THEN <<>> ELSE buffer
    /\ UNCHANGED <<sent, queue, held, writer, loop, kick>>

(* The socket takes part of the buffer. *)
Write ==
    /\ Writing
    /\ \E n \in 1..Len(buffer) :
          /\ wire' = wire \o SubSeq(buffer, 1, n)
          /\ buffer' = SubSeq(buffer, n + 1, Len(buffer))
    /\ UNCHANGED <<sent, queue, held, writer, loop, kick>>

(* Mutant: the writer ends after a batch if the session is closing. *)
FlushedQuits ==
    /\ writer = "flush" /\ buffer = <<>>
    /\ writer' = IF loop = "running" THEN "recv" ELSE "done"
    /\ UNCHANGED <<sent, queue, held, buffer, wire, loop, kick>>

Flushed ==
    /\ writer = "flush" /\ buffer = <<>>
    /\ writer' = "recv"
    /\ UNCHANGED <<sent, queue, held, buffer, wire, loop, kick>>

(* Mutant: a write error goes unnoticed by the session. *)
WriteErrorNoKick ==
    /\ Writing
    /\ writer' = "failed"
    /\ UNCHANGED <<sent, queue, held, buffer, wire, loop, kick>>

(* `?` leaves write_loop, which cancels the session's kick token. *)
WriteError ==
    /\ Writing
    /\ writer' = "failed"
    /\ kick' = TRUE
    /\ UNCHANGED <<sent, queue, held, buffer, wire, loop>>

-----------------------------------------------------------------------------
WriterNext == Recv \/ RecvNone \/ Feed \/ Write \/ Flushed \/ WriteError

Finished == loop = "closed" /\ ~WriterAlive /\ UNCHANGED vars

Next ==
    \/ \E m \in Msg : Send(m)
    \/ EndLoop
    \/ Closed
    \/ DrainTimeout
    \/ WriterNext
    \/ Finished

(* The session loop polls kick first; the drain timeout expires.  Nothing   *)
(* is assumed of the socket: a client that stops reading blocks Write.      *)
Fairness ==
    /\ WF_vars(kick /\ EndLoop)
    /\ WF_vars(Closed)
    /\ WF_vars(DrainTimeout)

Spec == Init /\ [][Next]_vars /\ Fairness

-----------------------------------------------------------------------------
(* Properties *)

(* The outbox implements the abstract channel: through the batches and the  *)
(* partial writes of write_loop the socket takes a prefix of what was       *)
(* accepted, and all of it unless a write failed or timed out.              *)
channelState ==
    CASE writer \in {"failed", "aborted"} -> "broken"
      [] writer = "done" -> "complete"
      [] WriterAlive -> IF loop = "running" THEN "open" ELSE "closing"

Channel == INSTANCE OutboxChannel
    WITH accepted <- Frames(sent), delivered <- wire,
         state <- channelState

ImplementsChannel == Channel!ChannelSpec

(* A write error always ends the session, also one whose client is silent   *)
(* and to which nothing more is sent (write_loop's kick.cancel).            *)
WriteErrorEndsSession == (writer = "failed") ~> (loop = "closed")
=============================================================================

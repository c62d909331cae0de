------------------------------- MODULE Framing -------------------------------
(***************************************************************************)
(* crates/net/src/codec.rs at the other end of the connection: FramedRead   *)
(* collects the chunks TCP delivers and MessageCodec::decode cuts them into *)
(* messages.  Composed with the outbox and writer that produce the stream.  *)
(***************************************************************************)
EXTENDS Outbox

(* What another program may send in this framing.  No message of this one   *)
(* has an empty body, for each carries a payload.                           *)
CONSTANTS Garbled,     \* its body is not protobuf
          ZeroLength   \* its header says zero

ASSUME FramingAssumption == (Garbled \cup ZeroLength) \cap Msg = {}

VARIABLES prologue,  \* units of another program in front of the stream
          taken,     \* how many units of the stream the reader has received
          src,       \* FramedRead's buffer
          decoded,   \* the messages decode has returned
          reader     \* "open", "invalid", "torn", "end", "reset"

readerVars == <<prologue, taken, src, decoded, reader>>
allVars == <<vars, readerVars>>

Stream == prologue \o wire

FramingTypeOK ==
    /\ OutboxTypeOK
    /\ taken \in 0..Len(Stream)
    /\ decoded \in Seq(Msg)
    /\ reader \in {"open", "invalid", "torn", "end", "reset"}
    /\ IsSuffix(src, SubSeq(Stream, 1, taken))

Foreign == TooLarge \cup ZeroLength \cup Garbled

FramingInit ==
    /\ Init
    /\ prologue \in {<<>>} \cup {Bytes(m) : m \in Foreign}
    /\ taken = 0 /\ src = <<>> /\ decoded = <<>>
    /\ reader = "open"

-----------------------------------------------------------------------------
(* decode: wait for the header, check the length in it, wait for the body,  *)
(* parse the body.                                                          *)

Header == 2

Invalid ==
    /\ Len(src) >= Header
    /\ \/ src[1][1] \in TooLarge \cup ZeroLength
       \/ src[1][1] \in Garbled /\ Len(src) >= Header + 1

(* Mutant: decode advances past the header before the body is there. *)
CompleteEarly == Len(src) >= Header /\ ~Invalid

Complete == Len(src) >= Header + 1 /\ ~Invalid

(* FramedRead polls the socket only when decode returned None. *)
ReadChunk ==
    /\ reader = "open" /\ ~Complete /\ ~Invalid
    /\ \E n \in taken + 1..Len(Stream) :
          /\ src' = src \o SubSeq(Stream, taken + 1, n)
          /\ taken' = n
    /\ UNCHANGED <<prologue, decoded, reader>>

Decode ==
    /\ reader = "open" /\ Complete
    /\ decoded' = Append(decoded, src[1][1])
    /\ src' = SubSeq(src, Header + 2, Len(src))
    /\ UNCHANGED <<prologue, taken, reader>>

(* InvalidLength or DecodeError ends the stream. *)
Reject ==
    /\ reader = "open" /\ Invalid
    /\ reader' = "invalid"
    /\ UNCHANGED <<prologue, taken, src, decoded>>

(* The writer task ended and its half of the socket with it: decode_eof     *)
(* reports the rest of a torn frame as an error.                            *)
Eof ==
    /\ reader = "open" /\ ~Complete /\ ~Invalid
    /\ ~WriterAlive /\ taken = Len(Stream)
    /\ reader' = IF src = <<>> THEN "end" ELSE "torn"
    /\ UNCHANGED <<prologue, taken, src, decoded>>

(* The connection breaks. *)
Reset ==
    /\ reader = "open"
    /\ reader' = "reset"
    /\ UNCHANGED <<prologue, taken, src, decoded>>

Reading == ReadChunk \/ Decode \/ Reject \/ Eof

FramingNext ==
    \/ Next /\ UNCHANGED readerVars
    \/ (Reading \/ Reset) /\ UNCHANGED vars

(* The peer keeps reading; of the writer's side only what Outbox assumes. *)
FramingSpec ==
    /\ FramingInit /\ [][FramingNext]_allVars
    /\ Fairness
    /\ WF_allVars(Reading /\ UNCHANGED vars)

-----------------------------------------------------------------------------
(* Properties *)

(* The messages encode does not drop. *)
Fitting(messages) ==
    FlattenSeq([i \in 1..Len(messages) |->
                   IF messages[i] \in TooLarge THEN <<>> ELSE <<messages[i]>>])

(* However the stream is cut into chunks, the reader returns the messages    *)
(* that were sent, in their order, without those that are too large, never  *)
(* a message of its own making; it never rejects what this program sent and *)
(* returns nothing of a stream that starts with anything else (decode, and  *)
(* the promise of encode to drop an oversized message and keep the          *)
(* connection).                                                             *)
DecodesWhatWasSent ==
    IF prologue = <<>>
    THEN /\ IsPrefix(decoded, Fitting(sent))
         /\ reader # "invalid"
         /\ reader = "end" => Frames(decoded) = wire
    ELSE decoded = <<>> /\ reader # "end"

(* A session whose writer drained its queue (Writer::close within the drain *)
(* timeout) has told its client everything: the client decodes every        *)
(* message, unless the connection breaks.                                   *)
CleanEndDecodes ==
    writer = "done" ~>
        \/ reader \in {"reset", "invalid"}
        \/ reader = "end" /\ Frames(decoded) = Frames(sent)
=============================================================================

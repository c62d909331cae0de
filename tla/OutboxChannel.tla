---------------------------- MODULE OutboxChannel ----------------------------
(***************************************************************************)
(* What a session may expect of its outbox: the client receives the bytes   *)
(* of the accepted messages in order, without gap or repetition, and all of *)
(* them unless the connection broke or was cut off.                         *)
(***************************************************************************)
EXTENDS Sequences, SequencesExt

VARIABLES accepted,   \* bytes of the messages send has taken
          delivered,  \* bytes the client's socket has been given
          state       \* "open", "closing", "complete" or "broken"

channelVars == <<accepted, delivered, state>>

ChannelInit == accepted = <<>> /\ delivered = <<>> /\ state = "open"

Offer ==
    /\ state = "open"
    /\ IsStrictPrefix(accepted, accepted')
    /\ UNCHANGED <<delivered, state>>

Deliver ==
    /\ state \in {"open", "closing"}
    /\ IsStrictPrefix(delivered, delivered')
    /\ IsPrefix(delivered', accepted)
    /\ UNCHANGED <<accepted, state>>

Close == state = "open" /\ state' = "closing" /\ UNCHANGED <<accepted, delivered>>

Complete ==
    /\ state = "closing" /\ delivered = accepted
    /\ state' = "complete"
    /\ UNCHANGED <<accepted, delivered>>

Cut ==
    /\ state \in {"open", "closing"}
    /\ state' = "broken"
    /\ UNCHANGED <<accepted, delivered>>

ChannelNext == Offer \/ Deliver \/ Close \/ Complete \/ Cut

ChannelSteps == ChannelInit /\ [][ChannelNext]_channelVars

ChannelSpec ==
    /\ ChannelSteps
    /\ WF_channelVars(state = "closing" /\ (Complete \/ Cut))
=============================================================================

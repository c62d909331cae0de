------------------------------ MODULE MCOutbox ------------------------------
(* Three sends into a queue of two: enough for a full queue, a batch of     *)
(* several messages, the high-water mark and a torn frame.                  *)
EXTENDS Framing
=============================================================================

--------------------------- MODULE MCDummyClient ---------------------------
(* Two clients, one of them the player, and room for one move.              *)
EXTENDS DummyClient

(* The monitor is looked at where no terminal is there: the keyboard thread *)
(* counts nothing, and the monitor changes nothing but its own state, which *)
(* no other task reads.  So no order of counting and loading is left out,   *)
(* nor any behaviour of the tasks the liveness properties speak of.         *)
MonitorOrKeyboard == keyboard = "off" \/ monitor = "sleep"
=============================================================================

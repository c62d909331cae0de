---------------------------- MODULE MCLoginLimit ----------------------------
(* A channel of one outcome, so that the second job has to wait; time for   *)
(* two limiter windows and for a keep-alive timeout after a login.          *)
EXTENDS SessionInbox
=============================================================================

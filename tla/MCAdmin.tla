------------------------------ MODULE MCAdmin ------------------------------
(* Two requests at once, one key, a back-off in three steps.                *)
EXTENDS AdminProcess
=============================================================================

--------------------------- MODULE MCEventChannel ---------------------------
(* An instance of EventChannel for TLC: the buffer can overflow.           *)
EXTENDS EventChannel
=============================================================================

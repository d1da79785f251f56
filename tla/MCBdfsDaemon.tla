---------------------------- MODULE MCBdfsDaemon ----------------------------
(* BdfsDaemon on a small pool.  The liveness properties rule out symmetry. *)
EXTENDS BdfsDaemon
=============================================================================

------------------------------ MODULE MCCopyUp ------------------------------
(* An instance of CopyUp for TLC.                                          *)
EXTENDS CopyUp, TLC

CONSTANTS f1, f2

\* Two files of one layer.
DistinctInos == f1 :> 1 @@ f2 :> 2
=============================================================================

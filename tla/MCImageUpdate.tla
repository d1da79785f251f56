--------------------------- MODULE MCImageUpdate ---------------------------
(* Instances of ImageUpdate for TLC.                                       *)
EXTENDS ImageUpdate
=============================================================================

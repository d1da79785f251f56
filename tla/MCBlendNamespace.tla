-------------------------- MODULE MCBlendNamespace --------------------------
(* An instance of BlendNamespace for TLC: directory d is in both lower     *)
(* layers, e in the second one only; the file a is archived in d, in the   *)
(* second layer, and b nowhere.                                            *)
EXTENDS BlendNamespace, TLC

CONSTANTS d, e, a, b

TwoLayers ==
    << d :> {} @@ e :> NoDir,
       d :> {a} @@ e :> {} >>
=============================================================================

---------------------------- MODULE MCImageCache ----------------------------
(* An instance of ImageCache for TLC: two releases of linuxfs; two         *)
(* update-images commands and a mount of one, an update of the other.      *)
EXTENDS ImageCache, TLC

CONSTANTS m1, u1, u2, u3

Releases == m1 :> 1 @@ u1 :> 1 @@ u2 :> 2 @@ u3 :> 1

Symmetry == Permutations({u1, u3})
=============================================================================

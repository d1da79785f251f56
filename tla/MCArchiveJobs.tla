---------------------------- MODULE MCArchiveJobs ----------------------------
(* An instance of ArchiveJobs for TLC: volumes a and b of two file systems *)
(* with one subvolume id, job 3 exports volume a again to the same image   *)
(* name; two stores of that image to one path, an import from the path and *)
(* one from a published image into the same subvolume.                     *)
EXTENDS ArchiveJobs, TLC

CONSTANTS a, b, w1, w2, s1, s2, p, t

ThreeJobs == 1..3
VolumeOf == 1 :> a @@ 2 :> b @@ 3 :> a
IdOf == a :> 256 @@ b :> 256
NameOf == 1 :> 1 @@ 2 :> 2 @@ 3 :> 1

FromFirst == [s \in Stores |-> 1]
ToP == [s \in Stores |-> p]
FromStore == 21 :> p @@ 22 :> 2
IntoT == [i \in Imports |-> t]

\* The workers are alike, and so are the stores.
Symmetry == Permutations({w1, w2}) \cup Permutations({s1, s2})
=============================================================================

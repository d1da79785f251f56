---------------------------- MODULE MCMountJobs ----------------------------
(* MountJobs with symmetric workers and mount points.                      *)
EXTENDS MountJobs, TLC

Symmetry == Permutations(Workers) \cup Permutations(Points)
=============================================================================

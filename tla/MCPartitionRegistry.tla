------------------------ MODULE MCPartitionRegistry ------------------------
(* An instance of PartitionRegistry for TLC.                               *)
EXTENDS PartitionRegistry, TLC

Symmetry == Permutations(Procs) \cup Permutations(MountPoints)
=============================================================================

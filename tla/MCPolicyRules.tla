---------------------------- MODULE MCPolicyRules ----------------------------
(* An instance of PolicyRules for TLC: rules for one name on a partition   *)
(* with two subvolumes, added with and without the partition.              *)
EXTENDS PolicyRules, TLC

CONSTANTS part1, sub1, sub2

InP == sub1 :> part1 @@ sub2 :> part1

Rules == {[part |-> part1, matches |-> {sub1, Zeroed}]}
=============================================================================

-------------------------- MODULE MCLinuxfsMounts --------------------------
(* A small instance of LinuxfsMounts for TLC. *)
EXTENDS LinuxfsMounts, TLC

CONSTANTS m1, m2, u1, c1, d1, d2

On(f, S) == [x \in S |-> f[x]]

\* Two devices.
AllDevices == (m1 :> d1) @@ (m2 :> d2) @@ (u1 :> d1)
MCDeviceOf == On(AllDevices, Mounts \cup Unmounts)
\* --ssh-port given, so that two VMs can run side by side.
MCPortEach == On((m1 :> 10022) @@ (m2 :> 10023), Mounts)

\* Every command has ended, or is a mount waiting for Ctrl+C.
Finished == \A c \in Commands : pc[c] \in {"exited", "done"}
MCNext == Next \/ (Finished /\ UNCHANGED vars)
MCSpec == Init /\ [][MCNext]_vars
=============================================================================

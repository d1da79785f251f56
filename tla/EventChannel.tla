---------------------------- MODULE EventChannel ----------------------------
(***************************************************************************)
(* The way of an event from the kernel to a job of the daemon: multicast   *)
(* by bdfs_emit_event (bdfs_main.c), the receive buffer of the daemon's    *)
(* netlink socket, which drops what does not fit, bdfs_netlink_loop and    *)
(* bdfs_handle_event (bdfs_netlink.c), called from the select loop of      *)
(* bdfs_daemon_run.  Memory allocation succeeds here.                      *)
(***************************************************************************)
EXTENDS Naturals, Sequences

CONSTANTS MaxEvents,  \* bound: events of a run
          BufferSize  \* datagrams the socket holds

VARIABLES sent,  \* number of events emitted
          wire,  \* the socket: datagrams of one netlink message each
          jobs   \* jobs enqueued, each with the number of its event

vars == <<sent, wire, jobs>>

\* bdfs_handle_event: the job that an event asks for.  The two kinds of
\* IMAGE_IMPORTED are told apart by the first word of the message.
JobOf == [SNAPSHOT_EXPORTED |-> "EXPORT_TO_DWARFS",
          IMAGE_MOUNTED     |-> "MOUNT_DWARFS",
          IMAGE_UNMOUNTED   |-> "UMOUNT_DWARFS",
          STORE_REQUESTED   |-> "STORE_IMAGE",
          IMPORT_REQUESTED  |-> "IMPORT_FROM_DWARFS",
          SNAPSHOT_CREATED  |-> "SNAPSHOT_CONTAINER",
          COPYUP_NEEDED     |-> "PROMOTE_COPYUP",
          BLEND_MOUNTED     |-> "none",
          BLEND_UNMOUNTED   |-> "none",
          PARTITION_ADDED   |-> "none",
          PARTITION_REMOVED |-> "none"]

Events == DOMAIN JobOf

Init == sent = 0 /\ wire = <<>> /\ jobs = {}

\* bdfs_emit_event: one message of type NLMSG_DONE.
Emit(evt) ==
    /\ sent < MaxEvents
    /\ sent' = sent + 1
    /\ wire' = IF Len(wire) < BufferSize
               THEN Append(wire, [nlmsg_type |-> "DONE", evt |-> evt, n |-> sent + 1])
               ELSE wire
    /\ UNCHANGED jobs

\* bdfs_netlink_loop takes one datagram; DONE ends the walk over its
\* messages, ERROR is skipped, any other is handled.
Receive ==
    /\ wire # <<>>
    /\ wire' = Tail(wire)
    /\ LET nlh == Head(wire) IN
       jobs' = IF nlh.nlmsg_type \notin {"DONE", "ERROR"} /\ JobOf[nlh.evt] # "none"
               THEN jobs \cup {[n |-> nlh.n, job |-> JobOf[nlh.evt]]} ELSE jobs
    /\ UNCHANGED sent

Next == Receive \/ \E evt \in Events : Emit(evt)

\* The select loop comes back to a readable socket until the daemon ends.
Spec == Init /\ [][Next]_vars /\ WF_vars(Receive)

\* "Emit event so the daemon picks up the export request" (bdfs_dwarfs_part.c,
\* line 163): an export event that reaches the socket of the daemon becomes an
\* export job.
ExportPickedUp ==
    \A k \in 1 .. MaxEvents :
        (\E i \in DOMAIN wire : wire[i].n = k /\ wire[i].evt = "SNAPSHOT_EXPORTED")
            ~> ([n |-> k, job |-> "EXPORT_TO_DWARFS"] \in jobs)
=============================================================================

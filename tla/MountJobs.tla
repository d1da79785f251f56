------------------------------ MODULE MountJobs ------------------------------
(***************************************************************************)
(* The mount and unmount jobs of bdfs_daemon and the mount table d->mounts *)
(* they maintain.  Workers take jobs in FIFO order (BdfsDaemon) but run    *)
(* them concurrently: the tool or system call that changes what is mounted *)
(* and the update of the table under mounts_lock are two separate steps.   *)
(*                                                                         *)
(* bdfs_mount_untrack removes the first entry with the job's mount point,  *)
(* whatever its type, so the table is modelled by the number of entries    *)
(* per mount point.                                                        *)
(***************************************************************************)
EXTENDS Naturals, Sequences, FiniteSets

CONSTANTS Workers,   \* the worker threads
          Points,    \* mount points named by jobs
          MaxJobs    \* bound: mount and unmount jobs in one behaviour

ASSUME MountAssumption == IsFiniteSet(Workers) /\ Points # {} /\ MaxJobs \in Nat

VARIABLES
    queue,      \* the mount and unmount jobs waiting in d->job_queue
    submitted,  \* how many were enqueued
    pc,         \* what a worker does next: "idle", "exec", "track", "untrack"
    job,        \* the job a worker last took
    mounts,     \* what is mounted on a point, the visible mount last
    table,      \* entries of d->mounts per point
    dropped,    \* history: entries bdfs_mount_track could not allocate
    exited,     \* bdfs_daemon_shutdown is over
    overlapped  \* history: points two workers had jobs for at the same time

vars == <<queue, submitted, pc, job, mounts, table, dropped, exited, overlapped>>

Types == {"dwarfs", "blend"}
Jobs  == [op : {"mount", "umount"}, type : Types, point : Points]

Init ==
    /\ queue = <<>>
    /\ submitted = 0
    /\ pc = [w \in Workers |-> "idle"]
    /\ job \in [Workers -> {CHOOSE j \in Jobs : TRUE}]
    /\ mounts = [p \in Points |-> <<>>]
    /\ table = [p \in Points |-> 0]
    /\ dropped = [p \in Points |-> 0]
    /\ exited = FALSE
    /\ overlapped = {}

\* A mount or unmount job is enqueued.
Submit(j) ==
    /\ ~exited
    /\ submitted < MaxJobs
    /\ submitted' = submitted + 1
    /\ queue' = Append(queue, j)
    /\ UNCHANGED <<pc, job, mounts, table, dropped, exited, overlapped>>

\* worker_thread takes the first job.
Take(w) ==
    /\ pc[w] = "idle"
    /\ queue # <<>>
    /\ job' = [job EXCEPT ![w] = Head(queue)]
    /\ queue' = Tail(queue)
    /\ pc' = [pc EXCEPT ![w] = "exec"]
    /\ overlapped' = IF \E v \in Workers :
                           pc[v] # "idle" /\ job[v].point = Head(queue).point
                      THEN overlapped \cup {Head(queue).point}
                      ELSE overlapped
    /\ UNCHANGED <<submitted, mounts, table, dropped, exited>>

At(w, from, to) ==
    /\ pc[w] = from
    /\ pc' = [pc EXCEPT ![w] = to]
    /\ UNCHANGED <<queue, submitted, job, exited, overlapped>>

\* A bug to check against: the mount is recorded before its result is tested.
ExecFailsTracked(w) ==
    /\ At(w, "exec", IF job[w].op = "mount" THEN "track" ELSE "idle")
    /\ UNCHANGED <<mounts, table, dropped>>

\* mkdir, dwarfs, fusermount, mount(2) or umount2 failed: the handler returns
\* the error and leaves the table alone.
ExecFails(w) == At(w, "exec", "idle") /\ UNCHANGED <<mounts, table, dropped>>

\* bdfs_job_mount_dwarfs, bdfs_job_mount_blend: the mount succeeded.
ExecMount(w) ==
    /\ At(w, "exec", "track")
    /\ job[w].op = "mount"
    /\ mounts' = [mounts EXCEPT ![job[w].point] = Append(@, job[w].type)]
    /\ UNCHANGED <<table, dropped>>

\* bdfs_job_umount_dwarfs, bdfs_job_umount_blend: the visible mount is gone.
\* fusermount -u takes only a FUSE mount, umount2 takes either.
ExecUmount(w) ==
    LET p == job[w].point IN
    /\ At(w, "exec", "untrack")
    /\ job[w].op = "umount"
    /\ mounts[p] # <<>>
    /\ job[w].type = "dwarfs" => mounts[p][Len(mounts[p])] = "dwarfs"
    /\ mounts' = [mounts EXCEPT ![p] = SubSeq(@, 1, Len(@) - 1)]
    /\ UNCHANGED <<table, dropped>>

\* bdfs_mount_track.
Track(w) ==
    /\ At(w, "track", "idle")
    /\ table' = [table EXCEPT ![job[w].point] = @ + 1]
    /\ UNCHANGED <<mounts, dropped>>

\* bdfs_mount_track: calloc failed and the mount goes unrecorded.
TrackNoMemory(w) ==
    /\ At(w, "track", "idle")
    /\ dropped' = [dropped EXCEPT ![job[w].point] = @ + 1]
    /\ UNCHANGED <<mounts, table>>

\* A bug to check against: every entry of the point is removed instead of the
\* first.
UntrackAll(w) ==
    /\ At(w, "untrack", "idle")
    /\ table' = [table EXCEPT ![job[w].point] = 0]
    /\ UNCHANGED <<mounts, dropped>>

\* bdfs_mount_untrack: the first entry for the mount point, if there is one.
Untrack(w) ==
    /\ At(w, "untrack", "idle")
    /\ table' = [table EXCEPT ![job[w].point] = IF @ = 0 THEN 0 ELSE @ - 1]
    /\ UNCHANGED <<mounts, dropped>>

Idle == queue = <<>> /\ \A w \in Workers : pc[w] = "idle"

\* bdfs_daemon_shutdown: the workers drained the queue; the entries are freed.
Shutdown ==
    /\ ~exited
    /\ Idle
    /\ exited' = TRUE
    /\ table' = [p \in Points |-> 0]
    /\ UNCHANGED <<queue, submitted, pc, job, mounts, dropped, overlapped>>

Exited == exited /\ UNCHANGED vars

WorkerStep(w) ==
    \/ Take(w) \/ ExecFails(w) \/ ExecMount(w) \/ ExecUmount(w)
    \/ Track(w) \/ TrackNoMemory(w) \/ Untrack(w)

Next ==
    \/ \E j \in Jobs : Submit(j)
    \/ \E w \in Workers : WorkerStep(w)
    \/ Shutdown
    \/ Exited

Spec == Init /\ [][Next]_vars

-----------------------------------------------------------------------------
(* Properties                                                              *)

\* Types: in particular a table count never goes below zero, so
\* bdfs_mount_untrack only removes entries that are there.
TypeOK ==
    /\ queue \in Seq(Jobs)
    /\ submitted \in Nat
    /\ pc \in [Workers -> {"idle", "exec", "track", "untrack"}]
    /\ job \in [Workers -> Jobs]
    /\ mounts \in [Points -> Seq(Types)]
    /\ table \in [Points -> Nat]
    /\ dropped \in [Points -> Nat]
    /\ exited \in BOOLEAN
    /\ overlapped \in SUBSET Points

\* The workers that mounted p and did not yet record it, and the reverse.
Tracking(p)   == {w \in Workers : pc[w] = "track" /\ job[w].point = p}
Untracking(p) == {w \in Workers : pc[w] = "untrack" /\ job[w].point = p}

\* The table never under-reports, however the jobs of several workers
\* interleave: every mount on a point has an entry, or a worker about to add
\* one, or its entry could not be allocated.
NeverUnderReports ==
    ~exited => \A p \in Points :
        Len(mounts[p]) + Cardinality(Untracking(p))
            <= table[p] + Cardinality(Tracking(p)) + dropped[p]

\* What bdfs_daemon.h says the table is for: it "records every DwarFS FUSE
\* mount and blend mount".  When no job is under way, its entries for a point
\* are the mounts that are there (active_mounts of the status command), if no
\* allocation failed and the jobs for that point ran one after the other,
\* whatever two workers did to other points meanwhile.
AccurateUnlessOverlapped ==
    Idle /\ ~exited =>
        \A p \in Points \ overlapped : dropped[p] = 0 => table[p] = Len(mounts[p])
=============================================================================

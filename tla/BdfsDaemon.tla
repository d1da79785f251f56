----------------------------- MODULE BdfsDaemon -----------------------------
(***************************************************************************)
(* The threads of bdfs_daemon: the select() loop of the main thread, the   *)
(* worker pool over the FIFO job queue, the auto-demote policy thread, and *)
(* the shutdown sequence that stops them one after the other.              *)
(*                                                                         *)
(* Every section the code runs under queue_lock is one action here.        *)
(* rules_lock is a variable, because a scan holds it across many calls of  *)
(* bdfs_daemon_enqueue.  A job is named by its position in the order of    *)
(* the enqueue calls; what its handler does is the subject of other        *)
(* modules, so here a job is only started and finished.                    *)
(***************************************************************************)
EXTENDS Naturals, Sequences, FiniteSets

CONSTANTS Workers,   \* the threads of d->workers
          MaxJobs    \* bound: calls of bdfs_daemon_enqueue in one behaviour

ASSUME DaemonAssumption ==
    /\ IsFiniteSet(Workers)
    /\ Workers # {}   \* worker_threads = 0 is replaced by the default
    /\ MaxJobs \in Nat

VARIABLES
    job_queue,   \* d->job_queue, first job at the head
    wstate,      \* where each worker thread is in its loop
    current,     \* the job a worker is executing, 0 when it has none
    shutdown,    \* d->shutdown
    g_shutdown,  \* set by the signal handler
    main,        \* where the main thread is
    policy,      \* where the policy thread is; "absent" for d->policy = NULL
    running,     \* pe->running
    rules_lock,  \* the holder of pe->rules_lock
    ctl_open,    \* d->ctl_fd is an open descriptor
    origin,      \* history: the thread behind each enqueue, in order
    done,        \* history: the jobs whose handler returned
    accepted     \* history: jobs enqueued when d->shutdown was set

pool  == <<job_queue, wstate, current, origin, done>>
ctl   == <<shutdown, g_shutdown, main, ctl_open, accepted>>
engine == <<policy, running, rules_lock>>
vars  == <<job_queue, wstate, current, shutdown, g_shutdown, main, policy,
           running, rules_lock, ctl_open, origin, done, accepted>>

WorkerStates == {"awake", "waiting", "busy", "exited"}
MainStates   == {"loop", "netlink", "socket", "scan_lock", "scanning",
                 "demoting", "shutdown", "joining", "policy_stop",
                 "policy_join", "exited"}
PolicyStates == {"sleeping", "scan_lock", "scanning", "demoting", "stopped",
                 "absent"}

In(state) == {w \in Workers : wstate[w] = state}

\* bdfs_daemon_init: workers spawned; the daemon carries on without a policy
\* engine when bdfs_policy_init fails.
Init ==
    /\ job_queue = <<>>
    /\ wstate = [w \in Workers |-> "awake"]
    /\ current = [w \in Workers |-> 0]
    /\ shutdown = FALSE
    /\ g_shutdown = FALSE
    /\ main = "loop"
    /\ policy \in {"sleeping", "absent"}
    /\ running = (policy # "absent")
    /\ rules_lock = "none"
    /\ ctl_open = TRUE
    /\ origin = <<>>
    /\ done = {}
    /\ accepted = 0

-----------------------------------------------------------------------------
(* The job queue                                                           *)

Insert(thread) ==
    /\ Len(origin) < MaxJobs
    /\ origin' = Append(origin, thread)
    /\ job_queue' = Append(job_queue, Len(origin) + 1)
    /\ UNCHANGED <<current, done>>

\* pthread_cond_signal(&d->queue_cond).
CondSignal ==
    IF In("waiting") = {}
      THEN UNCHANGED wstate
      ELSE \E w \in In("waiting") : wstate' = [wstate EXCEPT ![w] = "awake"]

\* Bugs to check against: the signal is sent only on an empty queue, or never.
EnqueueSignalIfEmpty(thread) ==
    Insert(thread) /\ IF job_queue = <<>> THEN CondSignal ELSE UNCHANGED wstate

EnqueueNoSignal(thread) == Insert(thread) /\ UNCHANGED wstate

\* bdfs_daemon_enqueue: append, then wake one waiter if there is one.  It
\* does not look at d->shutdown.
Enqueue(thread) == Insert(thread) /\ CondSignal

-----------------------------------------------------------------------------
(* worker_thread                                                           *)

Worker(w, from, to) ==
    /\ wstate[w] = from
    /\ wstate' = [wstate EXCEPT ![w] = to]
    /\ UNCHANGED <<origin, ctl, engine>>

\* Nothing queued and no shutdown: wait on queue_cond.
WorkerWait(w) ==
    /\ Worker(w, "awake", "waiting")
    /\ job_queue = <<>>
    /\ ~shutdown
    /\ UNCHANGED <<job_queue, current, done>>

\* pthread_cond_wait may return without a signal.
SpuriousWakeup(w) ==
    /\ Worker(w, "waiting", "awake")
    /\ UNCHANGED <<job_queue, current, done>>

\* A bug to check against: the job taken is not removed from the queue.
WorkerTakeNoRemove(w) ==
    /\ Worker(w, "awake", "busy")
    /\ job_queue # <<>>
    /\ current' = [current EXCEPT ![w] = Head(job_queue)]
    /\ UNCHANGED <<job_queue, done>>

\* Take the first job off the queue and dispatch it.
WorkerTake(w) ==
    /\ Worker(w, "awake", "busy")
    /\ job_queue # <<>>
    /\ current' = [current EXCEPT ![w] = Head(job_queue)]
    /\ job_queue' = Tail(job_queue)
    /\ UNCHANGED done

\* The handler returned: completion callback, bdfs_job_free, next iteration.
WorkerFinish(w) ==
    /\ Worker(w, "busy", "awake")
    /\ done' = done \cup {current[w]}
    /\ current' = [current EXCEPT ![w] = 0]
    /\ UNCHANGED job_queue

\* A bug to check against: shutdown is honoured before the queue is empty.
WorkerExitEarly(w) ==
    /\ Worker(w, "awake", "exited")
    /\ shutdown
    /\ UNCHANGED <<job_queue, current, done>>

\* Shutdown requested and nothing left in the queue.
WorkerExit(w) ==
    /\ Worker(w, "awake", "exited")
    /\ shutdown
    /\ job_queue = <<>>
    /\ UNCHANGED <<job_queue, current, done>>

-----------------------------------------------------------------------------
(* The main thread                                                         *)

\* signal_handler.
Signal ==
    /\ ~g_shutdown
    /\ g_shutdown' = TRUE
    /\ UNCHANGED <<pool, shutdown, main, ctl_open, accepted, engine>>

\* A step of the event loop, which runs before bdfs_daemon_shutdown.
Loop(from, to) ==
    /\ main = from
    /\ main' = to
    /\ UNCHANGED <<shutdown, g_shutdown, ctl_open, accepted, policy, running>>

\* The test at the top of the loop, then select().
LoopTop ==
    /\ Loop("loop", IF g_shutdown THEN "shutdown" ELSE "netlink")
    /\ UNCHANGED <<pool, rules_lock>>

\* select() was interrupted, by the shutdown signal for one.
SelectInterrupted == Loop("netlink", "loop") /\ UNCHANGED <<pool, rules_lock>>

\* select() failed otherwise.
SelectError == Loop("netlink", "shutdown") /\ UNCHANGED <<pool, rules_lock>>

\* A kernel event was translated into a job by bdfs_handle_event.
NetlinkEvent ==
    Loop("netlink", "socket") /\ Enqueue("main") /\ UNCHANGED rules_lock

\* Nothing to read, or an event that makes no job.
NetlinkNothing == Loop("netlink", "socket") /\ UNCHANGED <<pool, rules_lock>>

\* No client, or a request that enqueues nothing.
SocketNothing == Loop("socket", "loop") /\ UNCHANGED <<pool, rules_lock>>

\* The policy-scan request: the scan runs in the main thread.
SocketPolicyScan ==
    /\ Loop("socket", "scan_lock")
    /\ policy # "absent"
    /\ UNCHANGED <<pool, rules_lock>>

MainScanLock ==
    /\ Loop("scan_lock", "scanning")
    /\ rules_lock = "none"
    /\ rules_lock' = "main"
    /\ UNCHANGED pool

\* The next enabled rule: its subvolumes are listed through d->ctl_fd.
MainScanList ==
    Loop("scanning", "demoting") /\ ctl_open /\ UNCHANGED <<pool, rules_lock>>

\* The rule matched a listed subvolume: one export job.
MainScanDemote ==
    Loop("demoting", "demoting") /\ Enqueue("main") /\ UNCHANGED rules_lock

\* The rule's list is exhausted.
MainScanRuleEnd == Loop("demoting", "scanning") /\ UNCHANGED <<pool, rules_lock>>

MainScanEnd ==
    Loop("scanning", "loop") /\ rules_lock' = "none" /\ UNCHANGED pool

\* bdfs_daemon_shutdown: d->shutdown, under queue_lock.
RaiseShutdown ==
    /\ main = "shutdown"
    /\ main' = "joining"
    /\ shutdown' = TRUE
    /\ accepted' = Len(origin)
    /\ UNCHANGED <<job_queue, current, origin, done, g_shutdown, engine>>

\* pthread_cond_broadcast(&d->queue_cond).
CondBroadcast ==
    wstate' = [w \in Workers |->
                 IF wstate[w] = "waiting" THEN "awake" ELSE wstate[w]]

\* A bug to check against: one signal instead of the broadcast.
SetShutdownSignal == RaiseShutdown /\ CondSignal /\ UNCHANGED ctl_open

\* bdfs_daemon_shutdown: the flag and the broadcast, under queue_lock.
SetShutdown == RaiseShutdown /\ CondBroadcast /\ UNCHANGED ctl_open

\* Every worker joined; the descriptors are closed.
JoinWorkers ==
    /\ main = "joining"
    /\ In("exited") = Workers
    /\ main' = IF policy = "absent" THEN "exited" ELSE "policy_stop"
    /\ ctl_open' = FALSE
    /\ UNCHANGED <<pool, shutdown, g_shutdown, accepted, engine>>

\* bdfs_policy_shutdown: running = false.
PolicyStop ==
    /\ main = "policy_stop"
    /\ main' = "policy_join"
    /\ running' = FALSE
    /\ UNCHANGED <<pool, shutdown, g_shutdown, ctl_open, accepted, policy, rules_lock>>

\* bdfs_policy_shutdown: the policy thread joined; rules, mount table, locks
\* freed, and the process ends.
PolicyJoin ==
    /\ main = "policy_join"
    /\ policy = "stopped"
    /\ main' = "exited"
    /\ UNCHANGED <<pool, shutdown, g_shutdown, ctl_open, accepted, engine>>

-----------------------------------------------------------------------------
(* policy_thread, with bdfs_policy_scan                                    *)

Policy(from, to) == policy = from /\ policy' = to /\ UNCHANGED <<ctl, running>>

\* The interval elapsed, or running was found false.
PolicyWake ==
    /\ Policy("sleeping", IF running THEN "scan_lock" ELSE "stopped")
    /\ UNCHANGED <<pool, rules_lock>>

PolicyScanLock ==
    /\ Policy("scan_lock", "scanning")
    /\ rules_lock = "none"
    /\ rules_lock' = "policy"
    /\ UNCHANGED pool

\* As in the main thread, but here d->ctl_fd may be closed already; the list
\* ioctl then fails and the rule is skipped.
PolicyScanList ==
    Policy("scanning", "demoting") /\ ctl_open /\ UNCHANGED <<pool, rules_lock>>

PolicyScanDemote ==
    Policy("demoting", "demoting") /\ Enqueue("policy") /\ UNCHANGED rules_lock

PolicyScanRuleEnd ==
    Policy("demoting", "scanning") /\ UNCHANGED <<pool, rules_lock>>

PolicyScanEnd ==
    Policy("scanning", "sleeping") /\ rules_lock' = "none" /\ UNCHANGED pool

-----------------------------------------------------------------------------

\* The process has ended: nothing more happens.
Exited == main = "exited" /\ UNCHANGED vars

WorkerStep(w) ==
    WorkerWait(w) \/ WorkerTake(w) \/ WorkerFinish(w) \/ WorkerExit(w)

MainStep ==
    \/ LoopTop \/ SelectError \/ SelectInterrupted
    \/ NetlinkEvent \/ NetlinkNothing \/ SocketNothing \/ SocketPolicyScan
    \/ MainScanLock \/ MainScanList \/ MainScanDemote \/ MainScanRuleEnd
    \/ MainScanEnd
    \/ SetShutdown \/ JoinWorkers \/ PolicyStop \/ PolicyJoin

PolicyStep ==
    \/ PolicyWake \/ PolicyScanLock \/ PolicyScanList \/ PolicyScanDemote
    \/ PolicyScanRuleEnd \/ PolicyScanEnd

Next ==
    \/ \E w \in Workers : WorkerStep(w) \/ SpuriousWakeup(w)
    \/ MainStep
    \/ PolicyStep
    \/ Signal
    \/ Exited

Spec == Init /\ [][Next]_vars

(***************************************************************************)
(* Fairness: every thread that can run keeps running, and the tools a job  *)
(* waits for return.  The main thread is strongly fair: the only step of   *)
(* it another thread can disable for a while is taking rules_lock, and the *)
(* policy thread gives that lock up and sleeps for scan_interval_s before  *)
(* it wants it again.  A scan ends, because the rules cannot change while  *)
(* it holds rules_lock.  Signals and spurious wakeups are not assumed.     *)
(***************************************************************************)
Fairness ==
    /\ \A w \in Workers : WF_vars(WorkerStep(w))
    /\ SF_vars(MainStep)
    /\ WF_vars(PolicyStep)
    /\ SF_vars(MainScanEnd)
    /\ SF_vars(PolicyScanEnd)

FairSpec == Spec /\ Fairness

-----------------------------------------------------------------------------
(* Properties                                                              *)

\* Types: in particular what worker_thread reports as finished is a job that
\* was enqueued (jobs are numbered from 1; 0 is no job).
TypeOK ==
    /\ job_queue \in Seq(Nat \ {0})
    /\ wstate \in [Workers -> WorkerStates]
    /\ current \in [Workers -> Nat]
    /\ shutdown \in BOOLEAN
    /\ g_shutdown \in BOOLEAN
    /\ main \in MainStates
    /\ policy \in PolicyStates
    /\ running \in BOOLEAN
    /\ rules_lock \in {"none", "main", "policy"}
    /\ ctl_open \in BOOLEAN
    /\ origin \in Seq({"main", "policy"})
    /\ done \in SUBSET (Nat \ {0})
    /\ accepted \in Nat

\* How many jobs have left the queue.
Started == Len(origin) - Len(job_queue)

\* Jobs leave the queue in the order of the enqueue calls, whichever thread
\* made them: what is queued is exactly the jobs after the ones started.
QueueIsFIFO ==
    /\ Len(job_queue) <= Len(origin)
    /\ \A i \in 1..Len(job_queue) : job_queue[i] = Started + i

\* No job is lost, duplicated or run twice by the pool: the jobs that left
\* the queue are the finished ones and the ones some worker runs, and no two
\* workers ever run the same job.
ExactlyOnce ==
    /\ 1..Started = done \cup {current[w] : w \in In("busy")}
    /\ \A w \in In("busy") : current[w] \notin done
    /\ \A v, w \in In("busy") : current[v] = current[w] => v = w

\* The pool is work-conserving: while some worker sleeps on queue_cond,
\* every queued job has a worker of its own that is awake and about to take
\* it, so pthread_cond_signal in bdfs_daemon_enqueue never strands a job.
WorkConserving ==
    In("waiting") # {} => Len(job_queue) <= Cardinality(In("awake"))

\* Graceful shutdown (bdfs_daemon.8, SIGTERM): once the workers are joined,
\* every job enqueued before d->shutdown was set has been finished, and what
\* the queue still holds was put there by the policy thread.
DrainedWhenJoined ==
    main \in {"policy_stop", "policy_join", "exited"} =>
        /\ 1..accepted \subseteq done
        /\ \A i \in 1..Len(job_queue) : origin[job_queue[i]] = "policy"

\* A job never runs against a closed control device: the copy-up handler
\* reports through d->ctl_fd while it is busy.
CtlOpenWhileBusy == In("busy") # {} => ctl_open

\* A signal (or a broken select) always ends the process: no worker misses
\* the broadcast, and the main and policy threads do not wait on each other.
ShutdownTerminates == (g_shutdown \/ main = "shutdown") ~> (main = "exited")

\* Every job enqueued before the shutdown flag is set is eventually finished.
JobsFinish ==
    \A j \in 1..MaxJobs : (j <= Len(origin) /\ ~shutdown) ~> (j \in done)
=============================================================================

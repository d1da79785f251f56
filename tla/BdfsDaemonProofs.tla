-------------------------- MODULE BdfsDaemonProofs --------------------------
(***************************************************************************)
(* Proofs of the safety properties of BdfsDaemon for every finite,         *)
(* non-empty set of workers and every number of jobs.                      *)
(***************************************************************************)
EXTENDS BdfsDaemon, FiniteSetTheorems, SequenceTheorems, TLAPS

Joined   == {"policy_stop", "policy_join", "exited"}
Stopping == {"joining"} \cup Joined

\* A worker has a job exactly while it is busy.
BusyHasJob == \A w \in Workers : wstate[w] = "busy" <=> current[w] # 0

\* Only the policy thread enqueues once d->shutdown is set.
LateJobsArePolicy ==
    /\ shutdown <=> main \in Stopping
    /\ accepted <= Len(origin)
    /\ shutdown => \A j \in accepted+1 .. Len(origin) : origin[j] = "policy"

\* A worker leaves only when every accepted job has left the queue.
ExitedMeansDrained ==
    In("exited") # {} => shutdown /\ accepted <= Started

\* The main thread passes the join, and closes the control device, only when
\* all workers are gone.
JoinedMeansExited ==
    /\ main \in Joined => In("exited") = Workers
    /\ ~ctl_open => main \in Joined

PoolInv == BusyHasJob /\ QueueIsFIFO /\ ExactlyOnce

StopInv == LateJobsArePolicy /\ ExitedMeansDrained /\ JoinedMeansExited

IInv == TypeOK /\ PoolInv /\ WorkConserving /\ StopInv

-----------------------------------------------------------------------------

(***************************************************************************)
(* Appending to the queue and to the history keeps types, and the length   *)
(* of what left the queue: bdfs_daemon_enqueue.                            *)
(***************************************************************************)
LEMMA InsertFacts ==
    ASSUME TypeOK, NEW t \in {"main", "policy"}, Insert(t)
    PROVE  /\ origin' \in Seq({"main", "policy"})
           /\ job_queue' \in Seq(Nat \ {0})
           /\ Len(origin') = Len(origin) + 1
           /\ Len(job_queue') = Len(job_queue) + 1
           /\ Started' = Started
           /\ \A i \in 1..Len(job_queue) : job_queue'[i] = job_queue[i]
           /\ job_queue'[Len(job_queue) + 1] = Len(origin) + 1
           /\ \A i \in 1..Len(origin) : origin'[i] = origin[i]
           /\ origin'[Len(origin) + 1] = t
<1>1. Len(origin) \in Nat /\ Len(job_queue) \in Nat
  BY LenProperties, Zenon DEF TypeOK
<1>2. Len(origin) + 1 \in Nat \ {0}
  BY <1>1
<1>3. /\ origin' \in Seq({"main", "policy"})
      /\ Len(origin') = Len(origin) + 1
      /\ \A i \in 1..Len(origin) : origin'[i] = origin[i]
      /\ origin'[Len(origin) + 1] = t
  BY AppendProperties DEF TypeOK, Insert
<1>4. /\ job_queue' \in Seq(Nat \ {0})
      /\ Len(job_queue') = Len(job_queue) + 1
      /\ \A i \in 1..Len(job_queue) : job_queue'[i] = job_queue[i]
      /\ job_queue'[Len(job_queue) + 1] = Len(origin) + 1
  BY <1>2, AppendProperties DEF TypeOK, Insert
<1> QED
  BY <1>1, <1>3, <1>4 DEF Started

(***************************************************************************)
(* Taking the head of a FIFO queue starts the job after the last one       *)
(* started: worker_thread.                                                 *)
(***************************************************************************)
LEMMA TakeFacts ==
    ASSUME TypeOK, QueueIsFIFO, job_queue # <<>>,
           job_queue' = Tail(job_queue), UNCHANGED origin
    PROVE  /\ job_queue' \in Seq(Nat \ {0})
           /\ Len(job_queue') = Len(job_queue) - 1
           /\ Started \in Nat
           /\ Started' = Started + 1
           /\ Head(job_queue) = Started + 1
           /\ QueueIsFIFO'
<1>1. Len(origin) \in Nat /\ Len(job_queue) \in Nat /\ Len(job_queue) # 0
  BY LenProperties, EmptySeq, Zenon DEF TypeOK
<1>2. /\ job_queue' \in Seq(Nat \ {0})
      /\ Len(job_queue') = Len(job_queue) - 1
      /\ \A i \in 1..Len(job_queue') : job_queue'[i] = job_queue[i + 1]
  BY HeadTailProperties DEF TypeOK
<1>3. Started \in Nat /\ Started' = Started + 1
  BY <1>1, <1>2 DEF QueueIsFIFO, Started
<1>4. Head(job_queue) = job_queue[1]
  BY DEF TypeOK
<1>5. job_queue[1] = Started + 1
  BY <1>1 DEF QueueIsFIFO
<1>6. QueueIsFIFO'
  <2>1. Len(job_queue)' <= Len(origin)'
    BY <1>1, <1>2 DEF QueueIsFIFO
  <2>2. ASSUME NEW i \in 1..Len(job_queue)'
        PROVE  job_queue'[i] = Started' + i
    <3>1. i + 1 \in 1..Len(job_queue)
      BY <1>1, <1>2
    <3>2. job_queue[i + 1] = Started + (i + 1)
      BY <3>1, Zenon DEF QueueIsFIFO
    <3> QED BY <1>2, <1>3, <3>2
  <2> QED BY <2>1, <2>2 DEF QueueIsFIFO
<1> QED BY <1>2, <1>3, <1>4, <1>5, <1>6

\* The set of workers in a state is finite.
LEMMA FiniteIn == \A s : IsFiniteSet(In(s)) /\ Cardinality(In(s)) \in Nat
  BY FS_Subset, FS_CardinalityType, DaemonAssumption, Zenon DEF In

-----------------------------------------------------------------------------

\* The pool part of the invariant depends on nothing but the pool.
LEMMA PoolUnchanged ==
    ASSUME PoolInv, WorkConserving, UNCHANGED pool
    PROVE  PoolInv' /\ WorkConserving'
  BY DEF PoolInv, WorkConserving, BusyHasJob, QueueIsFIFO, ExactlyOnce,
         Started, In, pool

(***************************************************************************)
(* pthread_cond_signal moves one waiter, if there is one, to the awake.    *)
(***************************************************************************)
LEMMA SignalFacts ==
    ASSUME TypeOK, CondSignal
    PROVE  /\ wstate' \in [Workers -> WorkerStates]
           /\ In("busy")' = In("busy") /\ In("exited")' = In("exited")
           /\ In("waiting") = {} => In("waiting")' = {}
           /\ In("waiting") # {} =>
                Cardinality(In("awake"))' = Cardinality(In("awake")) + 1
<1>1. CASE In("waiting") = {}
  BY <1>1, Zenon DEF CondSignal, In, TypeOK
<1>2. CASE In("waiting") # {}
  <2>1. PICK w \in In("waiting") : wstate' = [wstate EXCEPT ![w] = "awake"]
    BY <1>2, Zenon DEF CondSignal
  <2>2. w \in Workers /\ wstate[w] = "waiting" /\ "awake" \in WorkerStates
    BY Zenon DEF In, WorkerStates
  <2>3. wstate' \in [Workers -> WorkerStates]
    BY <2>1, <2>2, Zenon DEF TypeOK
  <2>4. /\ In("awake")' = In("awake") \cup {w} /\ w \notin In("awake")
        /\ In("busy")' = In("busy") /\ In("exited")' = In("exited")
    BY <2>1, <2>2, Zenon DEF TypeOK, In
  <2>5. Cardinality(In("awake"))' = Cardinality(In("awake")) + 1
    BY <2>4, FiniteIn, FS_AddElement, Zenon
  <2> QED BY <2>3, <2>4, <2>5
<1> QED BY <1>1, <1>2

\* bdfs_daemon_enqueue keeps the pool invariant.
LEMMA EnqueuePreserves ==
    ASSUME TypeOK, PoolInv, WorkConserving,
           NEW t \in {"main", "policy"}, Enqueue(t)
    PROVE  PoolInv' /\ WorkConserving'
<1> USE DEF Enqueue
<1>0. Len(origin) \in Nat /\ Len(job_queue) \in Nat
  BY LenProperties, Zenon DEF TypeOK
<1>1. UNCHANGED <<current, done>>
  BY Zenon DEF Insert
<1>2. In("busy")' = In("busy")
  BY SignalFacts, Zenon
<1>3. BusyHasJob'
  <2>1. \A w \in Workers : wstate'[w] = "busy" <=> wstate[w] = "busy"
    BY <1>2, Zenon DEF In
  <2> QED BY <1>1, <2>1 DEF PoolInv, BusyHasJob
<1>4. QueueIsFIFO'
  <2>1. Len(job_queue') <= Len(origin')
    BY <1>0, InsertFacts DEF PoolInv, QueueIsFIFO
  <2>2. ASSUME NEW i \in 1..Len(job_queue')
        PROVE  job_queue'[i] = Started' + i
    <3>1. CASE i \in 1..Len(job_queue)
      BY <3>1, InsertFacts, Zenon DEF PoolInv, QueueIsFIFO
    <3>2. CASE i = Len(job_queue) + 1
      BY <1>0, <3>2, InsertFacts DEF Started
    <3> QED BY <1>0, <3>1, <3>2, InsertFacts
  <2> QED BY <2>1, <2>2 DEF QueueIsFIFO
<1>5. ExactlyOnce'
  <2>1. Started' = Started
    BY InsertFacts, Zenon
  <2> QED BY <1>1, <1>2, <2>1 DEF PoolInv, ExactlyOnce
<1>6. WorkConserving'
  <2>1. CASE In("waiting") = {}
    BY <2>1, SignalFacts, Zenon DEF WorkConserving
  <2>2. CASE In("waiting") # {}
    <3>1. Cardinality(In("awake"))' = Cardinality(In("awake")) + 1
      BY <2>2, SignalFacts, Zenon
    <3>2. Len(job_queue') = Len(job_queue) + 1
      BY InsertFacts, Zenon
    <3> QED BY <1>0, <2>2, <3>1, <3>2, FiniteIn DEF WorkConserving
  <2> QED BY <2>1, <2>2
<1> QED BY <1>3, <1>4, <1>5, <1>6 DEF PoolInv

\* The broadcast at shutdown keeps it too: nobody is left waiting.
LEMMA BroadcastPreserves ==
    ASSUME TypeOK, PoolInv, WorkConserving, CondBroadcast,
           UNCHANGED <<job_queue, current, origin, done>>
    PROVE  PoolInv' /\ WorkConserving'
<1>1. In("busy")' = In("busy") /\ In("waiting")' = {}
  BY Zenon DEF In, CondBroadcast, TypeOK
<1>2. BusyHasJob'
  <2>1. \A w \in Workers : wstate'[w] = "busy" <=> wstate[w] = "busy"
    BY Zenon DEF CondBroadcast
  <2> QED BY <2>1 DEF PoolInv, BusyHasJob
<1>3. QueueIsFIFO' /\ ExactlyOnce'
  BY <1>1 DEF PoolInv, QueueIsFIFO, ExactlyOnce, Started
<1> QED BY <1>1, <1>2, <1>3 DEF PoolInv, WorkConserving

\* A worker that starts or stops waiting, or leaves with an empty queue, runs
\* no job before or after.
LEMMA IdlePreserves ==
    ASSUME TypeOK, PoolInv, WorkConserving, NEW w \in Workers,
           WorkerWait(w) \/ SpuriousWakeup(w) \/ WorkerExit(w)
    PROVE  PoolInv' /\ WorkConserving'
<1> USE DEF Worker
<1>1. UNCHANGED <<job_queue, current, origin, done>>
  BY Zenon DEF WorkerWait, SpuriousWakeup, WorkerExit
<1>2. In("busy")' = In("busy")
  BY Zenon DEF WorkerWait, SpuriousWakeup, WorkerExit, In, TypeOK
<1>3. BusyHasJob'
  <2>1. \A v \in Workers : wstate'[v] = "busy" <=> wstate[v] = "busy"
    BY <1>2, Zenon DEF In
  <2> QED BY <1>1, <2>1 DEF PoolInv, BusyHasJob
<1>4. QueueIsFIFO' /\ ExactlyOnce'
  BY <1>1, <1>2 DEF PoolInv, QueueIsFIFO, ExactlyOnce, Started
<1>5. WorkConserving'
  <2>1. CASE WorkerWait(w) \/ WorkerExit(w)
    <3>1. Len(job_queue') = 0
      BY <1>1, <2>1, EmptySeq, Zenon DEF WorkerWait, WorkerExit
    <3>2. Cardinality(In("awake"))' \in Nat
      <4>1. IsFiniteSet(In("awake")')
        BY FS_Subset, DaemonAssumption, Zenon DEF In
      <4> QED BY <4>1, FS_CardinalityType
    <3> QED BY <3>1, <3>2 DEF WorkConserving
  <2>2. CASE SpuriousWakeup(w)
    <3>1. In("waiting") # {}
      BY <2>2, Zenon DEF SpuriousWakeup, In
    <3>2. In("awake")' = In("awake") \cup {w} /\ w \notin In("awake")
      BY <2>2, Zenon DEF SpuriousWakeup, In, TypeOK
    <3>3. Cardinality(In("awake"))' = Cardinality(In("awake")) + 1
      BY <3>2, FiniteIn, FS_AddElement, Zenon
    <3>4. Len(job_queue) \in Nat
      BY LenProperties, Zenon DEF TypeOK
    <3> QED BY <1>1, <3>1, <3>3, <3>4, FiniteIn DEF WorkConserving
  <2> QED BY <2>1, <2>2
<1> QED BY <1>3, <1>4, <1>5 DEF PoolInv

\* Taking a job: one job and one awake worker fewer, one busy worker more.
LEMMA TakePreserves ==
    ASSUME TypeOK, PoolInv, WorkConserving, NEW w \in Workers, WorkerTake(w)
    PROVE  PoolInv' /\ WorkConserving'
<1> USE DEF WorkerTake, Worker
<1>1. /\ Len(job_queue') = Len(job_queue) - 1 /\ Len(job_queue) \in Nat
      /\ Started \in Nat /\ Started' = Started + 1
      /\ Head(job_queue) = Started + 1 /\ QueueIsFIFO'
  BY TakeFacts, LenProperties, Zenon DEF PoolInv, TypeOK
<1>2. /\ In("busy")' = In("busy") \cup {w} /\ w \notin In("busy")
      /\ In("awake")' = In("awake") \ {w} /\ w \in In("awake")
      /\ In("waiting")' = In("waiting")
  BY Zenon DEF In, TypeOK
<1>3. /\ current'[w] = Started + 1
      /\ \A v \in Workers : v # w => current'[v] = current[v]
  BY <1>1, Zenon DEF TypeOK
<1>4. BusyHasJob'
  <2>1. \A v \in Workers : v # w => wstate'[v] = wstate[v]
    BY Zenon DEF TypeOK
  <2>2. wstate'[w] = "busy"
    BY Zenon DEF TypeOK
  <2> QED BY <1>1, <1>3, <2>1, <2>2 DEF PoolInv, BusyHasJob
<1>5. ExactlyOnce'
  <2>1. \A v \in In("busy") : current[v] \in 1..Started /\ current[v] \notin done
    BY Zenon DEF PoolInv, ExactlyOnce
  <2>2. done \subseteq 1..Started
    BY Zenon DEF PoolInv, ExactlyOnce
  <2>3. {current'[v] : v \in In("busy")'} =
          {current[v] : v \in In("busy")} \cup {Started + 1}
    BY <1>2, <1>3 DEF In
  <2>4. 1..Started' = 1..Started \cup {Started + 1}
    BY <1>1
  <2>5. 1..Started' = done' \cup {current'[v] : v \in In("busy")'}
    BY <2>3, <2>4, Zenon DEF PoolInv, ExactlyOnce
  <2>6. \A v \in In("busy")' : current'[v] \notin done'
    BY <1>1, <1>2, <1>3, <2>1, <2>2 DEF In
  <2>7. \A u, v \in In("busy")' : current'[u] = current'[v] => u = v
    <3>1. \A v \in In("busy") : v \in Workers /\ v # w /\ current'[v] # Started + 1
      BY <1>1, <1>2, <1>3, <2>1 DEF In
    <3>2. \A u, v \in In("busy") : current'[u] = current'[v] => u = v
      BY <1>3, <3>1, Zenon DEF PoolInv, ExactlyOnce
    <3> QED BY <1>2, <1>3, <3>1, <3>2
  <2> QED BY <2>5, <2>6, <2>7 DEF ExactlyOnce
<1>6. WorkConserving'
  <2>1. Cardinality(In("awake"))' = Cardinality(In("awake")) - 1
    BY <1>2, FiniteIn, FS_RemoveElement, Zenon
  <2> QED BY <1>1, <1>2, <2>1, FiniteIn DEF WorkConserving
<1> QED BY <1>1, <1>4, <1>5, <1>6 DEF PoolInv

\* Finishing a job: it moves from the running ones to the finished ones.
LEMMA FinishPreserves ==
    ASSUME TypeOK, PoolInv, WorkConserving, NEW w \in Workers, WorkerFinish(w)
    PROVE  PoolInv' /\ WorkConserving'
<1> USE DEF WorkerFinish, Worker
<1>1. /\ In("busy")' = In("busy") \ {w} /\ w \in In("busy")
      /\ In("awake")' = In("awake") \cup {w} /\ w \notin In("awake")
      /\ In("waiting")' = In("waiting")
  BY Zenon DEF In, TypeOK
<1>2. /\ current'[w] = 0
      /\ \A v \in Workers : v # w => current'[v] = current[v]
  BY Zenon DEF TypeOK
<1>3. BusyHasJob'
  <2>1. \A v \in Workers : v # w => wstate'[v] = wstate[v]
    BY Zenon DEF TypeOK
  <2>2. wstate'[w] # "busy"
    BY Zenon DEF TypeOK
  <2> QED BY <1>2, <2>1, <2>2 DEF PoolInv, BusyHasJob
<1>4. QueueIsFIFO' /\ Started' = Started
  BY Zenon DEF PoolInv, QueueIsFIFO, Started
<1>5. ExactlyOnce'
  <2>1. \A v \in In("busy")' : v \in In("busy") /\ v # w /\ current'[v] = current[v]
    BY <1>1, <1>2, Zenon DEF In
  <2>2. {current'[v] : v \in In("busy")'} = {current[v] : v \in In("busy") \ {w}}
    BY <1>1, <2>1, Zenon
  <2>3. 1..Started' = done' \cup {current'[v] : v \in In("busy")'}
    BY <1>1, <1>4, <2>2 DEF PoolInv, ExactlyOnce
  <2>4. \A v \in In("busy")' : current'[v] \notin done'
    BY <1>1, <2>1 DEF PoolInv, ExactlyOnce
  <2>5. \A u, v \in In("busy")' : current'[u] = current'[v] => u = v
    BY <2>1, Zenon DEF PoolInv, ExactlyOnce
  <2> QED BY <2>3, <2>4, <2>5 DEF ExactlyOnce
<1>6. WorkConserving'
  <2>1. Cardinality(In("awake"))' = Cardinality(In("awake")) + 1
    BY <1>1, FiniteIn, FS_AddElement, Zenon
  <2>2. Len(job_queue) \in Nat
    BY LenProperties, Zenon DEF TypeOK
  <2> QED BY <1>1, <2>1, <2>2, FiniteIn DEF WorkConserving
<1> QED BY <1>3, <1>4, <1>5, <1>6 DEF PoolInv

-----------------------------------------------------------------------------

\* Every step keeps the pool invariant.
LEMMA PoolStep ==
    ASSUME TypeOK, PoolInv, WorkConserving, [Next]_vars
    PROVE  PoolInv' /\ WorkConserving'
<1>1. CASE UNCHANGED pool
  BY <1>1, PoolUnchanged, Zenon
<1>2. CASE \E t \in {"main", "policy"} : Enqueue(t)
  BY <1>2, EnqueuePreserves, Zenon
<1>3. CASE SetShutdown
  BY <1>3, BroadcastPreserves, Zenon DEF SetShutdown, RaiseShutdown
<1>4. ASSUME NEW w \in Workers, WorkerStep(w) \/ SpuriousWakeup(w)
      PROVE  PoolInv' /\ WorkConserving'
  BY <1>4, IdlePreserves, TakePreserves, FinishPreserves, Zenon DEF WorkerStep
<1>5. CASE MainStep
  <2>1. \/ UNCHANGED pool \/ Enqueue("main") \/ SetShutdown
    BY <1>5, Zenon DEF MainStep, LoopTop, SelectError, SelectInterrupted, NetlinkEvent,
       NetlinkNothing, SocketNothing, SocketPolicyScan, MainScanLock,
       MainScanList, MainScanDemote, MainScanRuleEnd, MainScanEnd, JoinWorkers,
       PolicyStop, PolicyJoin
  <2> QED BY <1>1, <1>2, <1>3, <2>1
<1>6. CASE PolicyStep
  <2>1. \/ UNCHANGED pool \/ Enqueue("policy")
    BY <1>6, Zenon DEF PolicyStep, PolicyWake, PolicyScanLock, PolicyScanList,
       PolicyScanDemote, PolicyScanRuleEnd, PolicyScanEnd
  <2> QED BY <1>1, <1>2, <2>1
<1>7. CASE Signal \/ Exited \/ UNCHANGED vars
  <2>1. UNCHANGED pool
    BY <1>7, Zenon DEF Signal, Exited, vars, pool
  <2> QED BY <1>1, <2>1
<1> QED BY <1>4, <1>5, <1>6, <1>7 DEF Next

\* Every step keeps the types.
LEMMA TypeStep ==
    ASSUME TypeOK, PoolInv, [Next]_vars
    PROVE  TypeOK'
<1> USE DEF WorkerStates, MainStates, PolicyStates
<1>1. ASSUME NEW w \in Workers, WorkerStep(w) \/ SpuriousWakeup(w)
      PROVE  TypeOK'
  <2> USE DEF Worker, ctl, engine
  <2>1. CASE WorkerWait(w) \/ SpuriousWakeup(w) \/ WorkerExit(w)
    <3>1. CASE WorkerWait(w)      BY <3>1 DEF TypeOK, WorkerWait
    <3>2. CASE SpuriousWakeup(w)  BY <3>2 DEF TypeOK, SpuriousWakeup
    <3>3. CASE WorkerExit(w)      BY <3>3 DEF TypeOK, WorkerExit
    <3> QED BY <2>1, <3>1, <3>2, <3>3
  <2>2. CASE WorkerTake(w)
    <3>1. job_queue' \in Seq(Nat \ {0}) /\ Head(job_queue) \in Nat
      BY <2>2, HeadTailProperties DEF WorkerTake, TypeOK
    <3> QED BY <2>2, <3>1 DEF TypeOK, WorkerTake
  <2>3. CASE WorkerFinish(w)
    <3>1. current[w] \in Nat \ {0}
      BY <2>3, Zenon DEF WorkerFinish, TypeOK, PoolInv, BusyHasJob
    <3>2. done' \in SUBSET (Nat \ {0})
      BY <2>3, <3>1, Zenon DEF WorkerFinish, TypeOK
    <3>3. current' \in [Workers -> Nat] /\ wstate' \in [Workers -> WorkerStates]
      BY <2>3, Zenon DEF WorkerFinish, TypeOK
    <3> QED BY <2>3, <3>2, <3>3 DEF TypeOK, WorkerFinish
  <2> QED BY <1>1, <2>1, <2>2, <2>3 DEF WorkerStep
<1>2. ASSUME NEW t \in {"main", "policy"}, Enqueue(t)
      PROVE  /\ job_queue' \in Seq(Nat \ {0})
             /\ origin' \in Seq({"main", "policy"})
             /\ wstate' \in [Workers -> WorkerStates]
             /\ UNCHANGED <<current, done>>
  BY <1>2, InsertFacts, SignalFacts, Zenon DEF Enqueue, Insert
<1>3. CASE MainStep
  <2>1. CASE NetlinkEvent \/ MainScanDemote
    <3>1. Enqueue("main")
      BY <2>1, Zenon DEF NetlinkEvent, MainScanDemote
    <3> QED BY <1>2, <2>1, <3>1, Zenon DEF TypeOK, NetlinkEvent, MainScanDemote, Loop
  <2>2. CASE SetShutdown
    <3>1. Len(origin) \in Nat
      BY LenProperties, Zenon DEF TypeOK
    <3>2. wstate' \in [Workers -> WorkerStates]
      BY <2>2, Zenon DEF SetShutdown, CondBroadcast, TypeOK
    <3> QED BY <2>2, <3>1, <3>2 DEF TypeOK, SetShutdown, RaiseShutdown, engine
  <2>3. CASE JoinWorkers \/ PolicyStop \/ PolicyJoin
    BY <2>3, Zenon DEF TypeOK, JoinWorkers, PolicyStop, PolicyJoin, pool, engine
  <2>4. CASE \/ LoopTop \/ SelectError \/ SelectInterrupted \/ NetlinkNothing
             \/ SocketNothing \/ SocketPolicyScan \/ MainScanLock
             \/ MainScanList \/ MainScanRuleEnd \/ MainScanEnd
    <3> USE DEF TypeOK, Loop, pool
    <3>1. CASE LoopTop            BY <3>1 DEF LoopTop
    <3>2. CASE SelectError        BY <3>2 DEF SelectError
    <3>3. CASE SelectInterrupted  BY <3>3 DEF SelectInterrupted
    <3>4. CASE NetlinkNothing     BY <3>4 DEF NetlinkNothing
    <3>5. CASE SocketNothing      BY <3>5 DEF SocketNothing
    <3>6. CASE SocketPolicyScan   BY <3>6 DEF SocketPolicyScan
    <3>7. CASE MainScanLock       BY <3>7 DEF MainScanLock
    <3>8. CASE MainScanList       BY <3>8 DEF MainScanList
    <3>9. CASE MainScanRuleEnd    BY <3>9 DEF MainScanRuleEnd
    <3>10. CASE MainScanEnd       BY <3>10 DEF MainScanEnd
    <3> HIDE DEF TypeOK, Loop, pool
    <3> QED BY <2>4, <3>1, <3>2, <3>3, <3>4, <3>5, <3>6, <3>7, <3>8, <3>9, <3>10
  <2> QED BY <1>3, <2>1, <2>2, <2>3, <2>4 DEF MainStep
<1>4. CASE PolicyStep
  <2>1. CASE PolicyScanDemote
    <3>1. Enqueue("policy")
      BY <2>1, Zenon DEF PolicyScanDemote
    <3> QED BY <1>2, <2>1, <3>1, Zenon DEF TypeOK, PolicyScanDemote, Policy, ctl
  <2>2. CASE \/ PolicyWake \/ PolicyScanLock \/ PolicyScanList
             \/ PolicyScanRuleEnd \/ PolicyScanEnd
    <3> USE DEF TypeOK, Policy, pool, ctl
    <3>1. CASE PolicyWake         BY <3>1 DEF PolicyWake
    <3>2. CASE PolicyScanLock     BY <3>2 DEF PolicyScanLock
    <3>3. CASE PolicyScanList     BY <3>3 DEF PolicyScanList
    <3>4. CASE PolicyScanRuleEnd  BY <3>4 DEF PolicyScanRuleEnd
    <3>5. CASE PolicyScanEnd      BY <3>5 DEF PolicyScanEnd
    <3> HIDE DEF TypeOK, Policy, pool, ctl
    <3> QED BY <2>2, <3>1, <3>2, <3>3, <3>4, <3>5
  <2> QED BY <1>4, <2>1, <2>2 DEF PolicyStep
<1>5. CASE Signal \/ Exited \/ UNCHANGED vars
  <2>1. CASE Signal
    BY <2>1 DEF TypeOK, Signal, pool, engine
  <2>2. CASE Exited \/ UNCHANGED vars
    <3>1. UNCHANGED vars
      BY <2>2, Zenon DEF Exited
    <3> QED BY <3>1 DEF TypeOK, vars
  <2> QED BY <1>5, <2>1, <2>2
<1> QED BY <1>1, <1>3, <1>4, <1>5 DEF Next

\* The shutdown part of the invariant speaks of the control variables, the
\* exited workers and the two lengths only.
LEMMA StopUnchanged ==
    ASSUME StopInv, UNCHANGED <<shutdown, main, accepted, ctl_open>>,
           UNCHANGED <<job_queue, origin, wstate>>
    PROVE  StopInv'
  BY Zenon DEF StopInv, LateJobsArePolicy, ExitedMeansDrained, JoinedMeansExited,
         Started, In

\* A worker's step: no worker moves once the pool is joined, and the first to
\* leave finds the queue empty.
LEMMA StopWorker ==
    ASSUME TypeOK, PoolInv, StopInv, NEW w \in Workers,
           WorkerStep(w) \/ SpuriousWakeup(w)
    PROVE  StopInv'
<1>0. /\ UNCHANGED <<shutdown, main, accepted, ctl_open, origin>>
      /\ wstate[w] # "exited"
      /\ \/ WorkerExit(w) /\ shutdown /\ job_queue = <<>> /\ job_queue' = <<>>
         \/ In("exited")' = In("exited") /\ job_queue' = job_queue
         \/ In("exited")' = In("exited") /\ WorkerTake(w)
  <2> USE DEF Worker, ctl
  <2>1. CASE WorkerWait(w) \/ SpuriousWakeup(w)
    BY <2>1, Zenon DEF WorkerWait, SpuriousWakeup, In, TypeOK
  <2>2. CASE WorkerTake(w)
    BY <2>2, Zenon DEF WorkerTake, In, TypeOK
  <2>3. CASE WorkerFinish(w)
    BY <2>3, Zenon DEF WorkerFinish, In, TypeOK
  <2>4. CASE WorkerExit(w)
    BY <2>4, Zenon DEF WorkerExit
  <2> QED BY <2>1, <2>2, <2>3, <2>4 DEF WorkerStep
<1>1. LateJobsArePolicy'
  BY <1>0, Zenon DEF StopInv, LateJobsArePolicy
<1>2. main \notin Joined
  BY <1>0, Zenon DEF StopInv, JoinedMeansExited, In
<1>3. JoinedMeansExited'
  BY <1>0, <1>2, Zenon DEF StopInv, JoinedMeansExited
<1>4. ExitedMeansDrained'
  <2>0. Len(origin) \in Nat /\ Len(job_queue) \in Nat /\ accepted \in Nat
    BY LenProperties, Zenon DEF TypeOK
  <2>1. CASE shutdown /\ job_queue' = <<>>
    <3>1. Started' = Len(origin)
      BY <1>0, <2>0, <2>1, EmptySeq DEF Started
    <3> QED BY <1>0, <2>1, <3>1 DEF StopInv, LateJobsArePolicy, ExitedMeansDrained
  <2>2. CASE In("exited")' = In("exited") /\ job_queue' = job_queue
    BY <1>0, <2>2, Zenon DEF StopInv, ExitedMeansDrained, Started
  <2>3. CASE In("exited")' = In("exited") /\ WorkerTake(w)
    <3>1. Started \in Nat /\ Started' = Started + 1
      BY <1>0, <2>3, TakeFacts, Zenon DEF PoolInv, WorkerTake
    <3> QED BY <1>0, <2>0, <2>3, <3>1 DEF StopInv, ExitedMeansDrained
  <2> QED BY <1>0, <2>1, <2>2, <2>3
<1> QED BY <1>1, <1>3, <1>4 DEF StopInv

\* The event loop: the shutdown flag is not yet set and nobody has left.
LEMMA StopLoop ==
    ASSUME TypeOK, StopInv, NEW from, NEW to, Loop(from, to),
           from \notin Stopping, to \notin Stopping,
           UNCHANGED pool \/ Enqueue("main")
    PROVE  StopInv'
<1>1. Len(origin) \in Nat /\ accepted \in Nat
  BY LenProperties, Zenon DEF TypeOK
<1>2. Len(origin) <= Len(origin')
  BY <1>1, InsertFacts DEF Enqueue, pool
<1>3. In("exited")' = In("exited")
  <2>1. CASE UNCHANGED pool  BY <2>1 DEF pool, In
  <2>2. CASE Enqueue("main") BY <2>2, SignalFacts DEF Enqueue
  <2> QED BY <2>1, <2>2
<1>4. ~shutdown /\ In("exited") = {} /\ main' \notin Stopping /\ ~shutdown'
  BY Zenon DEF Loop, StopInv, LateJobsArePolicy, ExitedMeansDrained
<1>5. ctl_open'
  BY <1>4, Zenon DEF Loop, StopInv, JoinedMeansExited, Stopping
<1>6. Len(origin') \in Nat
  BY <1>1, InsertFacts DEF Enqueue, pool
<1>7. LateJobsArePolicy'
  BY <1>1, <1>2, <1>4, <1>6 DEF StopInv, LateJobsArePolicy, Loop
<1> QED BY <1>3, <1>4, <1>5, <1>7
        DEF StopInv, ExitedMeansDrained, JoinedMeansExited, Stopping

\* A job enqueued by the policy thread, before or after the shutdown.
LEMMA StopLate ==
    ASSUME TypeOK, StopInv, Enqueue("policy"),
           UNCHANGED <<shutdown, main, accepted, ctl_open>>
    PROVE  StopInv'
<1>1. Len(origin) \in Nat /\ accepted \in Nat
  BY LenProperties, Zenon DEF TypeOK
<1>2. /\ Len(origin') = Len(origin) + 1 /\ Started' = Started
      /\ \A i \in 1..Len(origin) : origin'[i] = origin[i]
      /\ origin'[Len(origin) + 1] = "policy"
  BY InsertFacts, Zenon DEF Enqueue
<1>3. In("exited")' = In("exited")
  BY SignalFacts, Zenon DEF Enqueue
<1>4. LateJobsArePolicy'
  <2>1. ASSUME shutdown, NEW j \in accepted + 1 .. Len(origin')
        PROVE  origin'[j] = "policy"
    <3>1. CASE j \in accepted + 1 .. Len(origin)
      BY <1>1, <1>2, <2>1, <3>1 DEF StopInv, LateJobsArePolicy
    <3>2. CASE j = Len(origin) + 1
      BY <1>2, <3>2, Zenon
    <3> QED BY <1>1, <1>2, <3>1, <3>2
  <2> QED BY <1>1, <1>2, <2>1 DEF StopInv, LateJobsArePolicy
<1> QED BY <1>2, <1>3, <1>4 DEF StopInv, ExitedMeansDrained, JoinedMeansExited

\* The shutdown sequence of the main thread.
LEMMA StopSequence ==
    ASSUME TypeOK, StopInv, SetShutdown \/ JoinWorkers \/ PolicyStop \/ PolicyJoin
    PROVE  StopInv'
<1>1. CASE SetShutdown
  <2> USE <1>1 DEF SetShutdown, RaiseShutdown
  <2>1. ~shutdown /\ In("exited") = {} /\ ctl_open'
    BY Zenon DEF StopInv, LateJobsArePolicy, ExitedMeansDrained, JoinedMeansExited,
           Stopping, Joined
  <2>2. In("exited")' = {}
    BY <2>1, Zenon DEF CondBroadcast, In
  <2>3. Len(origin) \in Nat
    BY LenProperties, Zenon DEF TypeOK
  <2>4. LateJobsArePolicy'
    BY <2>3 DEF LateJobsArePolicy, Stopping, Joined
  <2> QED BY <2>1, <2>2, <2>4 DEF StopInv, ExitedMeansDrained, JoinedMeansExited,
             Joined
<1>2. CASE JoinWorkers \/ PolicyStop \/ PolicyJoin
  <2>1. UNCHANGED pool /\ UNCHANGED <<shutdown, accepted>>
    BY <1>2, Zenon DEF JoinWorkers, PolicyStop, PolicyJoin
  <2>2. main' \in Joined /\ main \in Stopping
    BY <1>2, Zenon DEF JoinWorkers, PolicyStop, PolicyJoin, Stopping, Joined
  <2>3. In("exited") = Workers
    BY <1>2, Zenon DEF JoinWorkers, PolicyStop, PolicyJoin, StopInv,
                JoinedMeansExited, Joined
  <2>4. In("exited")' = In("exited") /\ Started' = Started
    BY <2>1, Zenon DEF pool, In, Started
  <2>5. LateJobsArePolicy'
    BY <2>1, <2>2, Zenon DEF pool, StopInv, LateJobsArePolicy, Stopping
  <2> QED BY <2>1, <2>2, <2>3, <2>4, <2>5
          DEF StopInv, ExitedMeansDrained, JoinedMeansExited
<1> QED BY <1>1, <1>2

\* Every step keeps the shutdown invariant.
LEMMA StopStep ==
    ASSUME TypeOK, PoolInv, StopInv, [Next]_vars
    PROVE  StopInv'
<1>1. ASSUME NEW w \in Workers, WorkerStep(w) \/ SpuriousWakeup(w)
      PROVE  StopInv'
  BY <1>1, StopWorker, Zenon
<1>2. CASE MainStep
  <2>1. \/ \E from, to \in MainStates \ Stopping :
              Loop(from, to) /\ (UNCHANGED pool \/ Enqueue("main"))
        \/ SetShutdown \/ JoinWorkers \/ PolicyStop \/ PolicyJoin
    <3> USE DEF MainStates, Stopping, Joined
    <3>1. CASE NetlinkEvent       BY <3>1 DEF NetlinkEvent
    <3>2. CASE MainScanDemote     BY <3>2 DEF MainScanDemote
    <3>3. CASE LoopTop            BY <3>3 DEF LoopTop
    <3>4. CASE SelectError        BY <3>4 DEF SelectError
    <3>5. CASE SelectInterrupted  BY <3>5 DEF SelectInterrupted
    <3>6. CASE NetlinkNothing     BY <3>6 DEF NetlinkNothing
    <3>7. CASE SocketNothing      BY <3>7 DEF SocketNothing
    <3>8. CASE SocketPolicyScan   BY <3>8 DEF SocketPolicyScan
    <3>9. CASE MainScanLock       BY <3>9 DEF MainScanLock
    <3>10. CASE MainScanList      BY <3>10 DEF MainScanList
    <3>11. CASE MainScanRuleEnd   BY <3>11 DEF MainScanRuleEnd
    <3>12. CASE MainScanEnd       BY <3>12 DEF MainScanEnd
    <3> QED BY <1>2, <3>1, <3>2, <3>3, <3>4, <3>5, <3>6, <3>7, <3>8, <3>9,
               <3>10, <3>11, <3>12 DEF MainStep
  <2>2. CASE \E from, to \in MainStates \ Stopping :
               Loop(from, to) /\ (UNCHANGED pool \/ Enqueue("main"))
    BY <2>2, StopLoop, Zenon
  <2> QED BY <2>1, <2>2, StopSequence
<1>3. CASE PolicyStep
  <2>1. UNCHANGED <<shutdown, main, accepted, ctl_open>>
    BY <1>3, Zenon DEF PolicyStep, PolicyWake, PolicyScanLock, PolicyScanList,
       PolicyScanDemote, PolicyScanRuleEnd, PolicyScanEnd, Policy, ctl
  <2>2. UNCHANGED <<job_queue, origin, wstate>> \/ Enqueue("policy")
    BY <1>3, Zenon DEF PolicyStep, PolicyWake, PolicyScanLock, PolicyScanList,
       PolicyScanDemote, PolicyScanRuleEnd, PolicyScanEnd, pool
  <2> QED BY <2>1, <2>2, StopUnchanged, StopLate
<1>4. CASE Signal \/ Exited \/ UNCHANGED vars
  BY <1>4, StopUnchanged, Zenon DEF Signal, Exited, vars, pool
<1> QED BY <1>1, <1>2, <1>3, <1>4 DEF Next

-----------------------------------------------------------------------------

LEMMA InitIInv == Init => IInv
<1> SUFFICES ASSUME Init PROVE IInv
  BY Zenon
<1> USE DEF Init
<1>1. job_queue \in Seq(Nat \ {0}) /\ origin \in Seq({"main", "policy"})
  BY EmptySeq, Zenon
<1>2. Len(job_queue) = 0 /\ Len(origin) = 0
  BY EmptySeq, Zenon
<1>3. TypeOK
  BY <1>1, Zenon DEF TypeOK, WorkerStates, MainStates, PolicyStates
<1>4. \A w \in Workers : wstate[w] = "awake" /\ current[w] = 0
  BY Zenon
<1>5. In("busy") = {} /\ In("waiting") = {} /\ In("exited") = {}
  BY <1>4, Zenon DEF In
<1>6. PoolInv
  BY <1>2, <1>4, <1>5 DEF PoolInv, BusyHasJob, QueueIsFIFO, ExactlyOnce, Started
<1>7. WorkConserving
  BY <1>5, Zenon DEF WorkConserving
<1>8. StopInv
  BY <1>2, <1>5 DEF StopInv, LateJobsArePolicy, ExitedMeansDrained,
     JoinedMeansExited, Stopping, Joined
<1> QED BY <1>3, <1>6, <1>7, <1>8 DEF IInv

LEMMA NextIInv == IInv /\ [Next]_vars => IInv'
  BY PoolStep, TypeStep, StopStep, Zenon DEF IInv

\* The inductive invariant holds in every reachable state.
LEMMA InductiveInvariant == Spec => []IInv
  BY InitIInv, NextIInv, PTL DEF Spec

\* The variables of the daemon keep their types.
THEOREM TypeCorrect == Spec => []TypeOK
<1>1. IInv => TypeOK
  BY Zenon DEF IInv
<1> QED BY <1>1, InductiveInvariant, PTL

\* For every pool size: jobs leave the queue in the order bdfs_daemon_enqueue
\* was called, whichever threads called it.
THEOREM QueueOrder == Spec => []QueueIsFIFO
<1>1. IInv => QueueIsFIFO
  BY Zenon DEF IInv, PoolInv
<1> QED BY <1>1, InductiveInvariant, PTL

\* For every pool size: a job that left the queue is run by one worker, once.
THEOREM JobsRunOnce == Spec => []ExactlyOnce
<1>1. IInv => ExactlyOnce
  BY Zenon DEF IInv, PoolInv
<1> QED BY <1>1, InductiveInvariant, PTL

\* For every pool size: the one pthread_cond_signal per job is enough, a job
\* is never left behind while workers sleep.
THEOREM NoStrandedJob == Spec => []WorkConserving
<1>1. IInv => WorkConserving
  BY Zenon DEF IInv
<1> QED BY <1>1, InductiveInvariant, PTL

\* For every pool size: bdfs_daemon_shutdown joins the workers only after all
\* jobs accepted before it have finished; what is left came from policy scans.
THEOREM GracefulShutdown == Spec => []DrainedWhenJoined
<1>1. IInv => DrainedWhenJoined
  <2> SUFFICES ASSUME IInv, main \in Joined
               PROVE  /\ 1..accepted \subseteq done
                      /\ \A i \in 1..Len(job_queue) : origin[job_queue[i]] = "policy"
    BY Zenon DEF DrainedWhenJoined, Joined
  <2>1. Len(origin) \in Nat /\ Len(job_queue) \in Nat /\ accepted \in Nat
    BY LenProperties, Zenon DEF IInv, TypeOK
  <2>2. shutdown /\ In("exited") = Workers /\ In("exited") # {}
    BY DaemonAssumption, Zenon DEF IInv, StopInv, LateJobsArePolicy, JoinedMeansExited,
                            Stopping
  <2>3. accepted <= Started
    BY <2>2, Zenon DEF IInv, StopInv, ExitedMeansDrained
  <2>4. In("busy") = {}
    BY <2>2, Zenon DEF In
  <2>5. done = 1..Started
    BY <2>4, Zenon DEF IInv, PoolInv, ExactlyOnce
  <2>6. 1..accepted \subseteq done
    BY <2>1, <2>3, <2>5 DEF Started
  <2>7. ASSUME NEW i \in 1..Len(job_queue)
        PROVE  origin[job_queue[i]] = "policy"
    <3>1. job_queue[i] = Started + i
      BY Zenon DEF IInv, PoolInv, QueueIsFIFO
    <3>2. job_queue[i] \in accepted + 1 .. Len(origin)
      BY <2>1, <2>3, <3>1 DEF Started
    <3> QED BY <2>2, <3>2 DEF IInv, StopInv, LateJobsArePolicy
  <2> QED BY <2>6, <2>7
<1> QED BY <1>1, InductiveInvariant, PTL

\* For every pool size: no job runs after d->ctl_fd was closed.
THEOREM NoJobOnClosedDevice == Spec => []CtlOpenWhileBusy
<1>1. IInv => CtlOpenWhileBusy
  BY Zenon DEF IInv, StopInv, JoinedMeansExited, CtlOpenWhileBusy, In
<1> QED BY <1>1, InductiveInvariant, PTL

=============================================================================

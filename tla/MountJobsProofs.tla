-------------------------- MODULE MountJobsProofs --------------------------
(***************************************************************************)
(* Proofs about MountJobs, for any number of workers, points and jobs.     *)
(*                                                                         *)
(* Both invariants balance the mounts of a point against its entries, with *)
(* the workers between a mount and its entry on one side and those between *)
(* an unmount and the removal of the entry on the other.                   *)
(***************************************************************************)
EXTENDS MountJobs, Integers, SequenceTheorems, FiniteSetTheorems, TLAPS

\* The entries of a point, with those about to be added, less its mounts and
\* the entries about to be removed.
Balance(p) ==
    table[p] + Cardinality(Tracking(p)) - Len(mounts[p]) - Cardinality(Untracking(p))

\* One worker at a time has a job for a point that is not in overlapped, and
\* there the balance is exact.
BalanceInv ==
    \A p \in Points \ overlapped :
        /\ \A v, w \in Workers :
              pc[v] # "idle" /\ pc[w] # "idle" /\ job[v].point = p /\ job[w].point = p => v = w
        /\ ~exited /\ dropped[p] = 0 => Balance(p) = 0

\* NeverUnderReports, in terms of the balance.
CoverInv == ~exited => \A p \in Points : Balance(p) + dropped[p] >= 0

IInv == TypeOK /\ CoverInv /\ BalanceInv

-----------------------------------------------------------------------------

\* Sets of workers can be counted.
LEMMA Counted ==
    ASSUME NEW p
    PROVE  /\ IsFiniteSet(Tracking(p)) /\ Cardinality(Tracking(p)) \in Nat
           /\ IsFiniteSet(Untracking(p)) /\ Cardinality(Untracking(p)) \in Nat
BY MountAssumption, FS_Subset, FS_CardinalityType, Zenon DEF Tracking, Untracking

\* A worker that enters or leaves a set of workers changes its size by one.
LEMMA Enters ==
    ASSUME NEW S, NEW T, IsFiniteSet(S), NEW w, w \notin S, T = S \cup {w}
    PROVE  Cardinality(T) = Cardinality(S) + 1
BY FS_AddElement, Zenon

LEMMA Leaves ==
    ASSUME NEW S, NEW T, IsFiniteSet(S), NEW w, w \in S, T = S \ {w}
    PROVE  Cardinality(T) = Cardinality(S) - 1
BY FS_RemoveElement, Zenon

\* A step of a worker within its job moves that worker in or out of the sets
\* of its own point and leaves those of the others alone.
LEMMA Counts ==
    ASSUME TypeOK, NEW w \in Workers, NEW from, NEW to, At(w, from, to), from # to,
           NEW q \in Points, q = job[w].point
    PROVE  /\ \A p \in Points : p # q =>
                 Tracking(p)' = Tracking(p) /\ Untracking(p)' = Untracking(p)
           /\ Cardinality(Tracking(q)') =
                 Cardinality(Tracking(q))
                   + IF to = "track" THEN 1 ELSE IF from = "track" THEN 0-1 ELSE 0
           /\ Cardinality(Untracking(q)') =
                 Cardinality(Untracking(q))
                   + IF to = "untrack" THEN 1 ELSE IF from = "untrack" THEN 0-1 ELSE 0
<1> USE DEF At, TypeOK
<1>1. \A p \in Points : p # q => Tracking(p)' = Tracking(p) /\ Untracking(p)' = Untracking(p)
  BY Zenon DEF Tracking, Untracking
<1>2. Cardinality(Tracking(q)') =
         Cardinality(Tracking(q)) + IF to = "track" THEN 1 ELSE IF from = "track" THEN 0-1 ELSE 0
  <2>1. CASE to = "track"
    <3>1. w \notin Tracking(q) /\ Tracking(q)' = Tracking(q) \cup {w}
      BY <2>1, Zenon DEF Tracking
    <3> QED
      BY <2>1, <3>1, Counted, Enters, Zenon
  <2>2. CASE from = "track"
    <3>1. w \in Tracking(q) /\ Tracking(q)' = Tracking(q) \ {w}
      BY <2>2, Zenon DEF Tracking
    <3>2. Cardinality(Tracking(q)') = Cardinality(Tracking(q)) - 1
      BY <3>1, Counted, Leaves, Zenon
    <3> QED
      BY <2>2, <3>2, Counted
  <2>3. CASE to # "track" /\ from # "track"
    <3>1. Tracking(q)' = Tracking(q)
      BY <2>3, Zenon DEF Tracking
    <3> QED
      BY <2>3, <3>1, Counted
  <2> QED
    BY <2>1, <2>2, <2>3, Zenon
<1>3. Cardinality(Untracking(q)') =
         Cardinality(Untracking(q)) + IF to = "untrack" THEN 1 ELSE IF from = "untrack" THEN 0-1 ELSE 0
  <2>1. CASE to = "untrack"
    <3>1. w \notin Untracking(q) /\ Untracking(q)' = Untracking(q) \cup {w}
      BY <2>1, Zenon DEF Untracking
    <3> QED
      BY <2>1, <3>1, Counted, Enters, Zenon
  <2>2. CASE from = "untrack"
    <3>1. w \in Untracking(q) /\ Untracking(q)' = Untracking(q) \ {w}
      BY <2>2, Zenon DEF Untracking
    <3>2. Cardinality(Untracking(q)') = Cardinality(Untracking(q)) - 1
      BY <3>1, Counted, Leaves, Zenon
    <3> QED
      BY <2>2, <3>2, Counted
  <2>3. CASE to # "untrack" /\ from # "untrack"
    <3>1. Untracking(q)' = Untracking(q)
      BY <2>3, Zenon DEF Untracking
    <3> QED
      BY <2>3, <3>1, Counted
  <2> QED
    BY <2>1, <2>2, <2>3, Zenon
<1> QED
  BY <1>1, <1>2, <1>3, Zenon

\* Initially nothing is mounted and nobody works.
LEMMA InitInv == Init => IInv
<1> SUFFICES ASSUME Init PROVE IInv
  BY Zenon
<1>1. TypeOK
  <2>1. (CHOOSE j \in Jobs : TRUE) \in Jobs
    <3>1. PICK p \in Points : TRUE
      BY MountAssumption, Zenon
    <3>2. [op |-> "mount", type |-> "dwarfs", point |-> p] \in Jobs
      BY Zenon DEF Jobs, Types
    <3> QED
      BY <3>2, Zenon
  <2>2. job \in [Workers -> Jobs]
    BY <2>1, Zenon DEF Init
  <2> QED
    BY <2>2, EmptySeq, Zenon DEF Init, TypeOK
<1>2. \A p \in Points : Tracking(p) = {} /\ Untracking(p) = {}
  BY Zenon DEF Init, Tracking, Untracking
<1>3. \A p \in Points : Balance(p) = 0 /\ dropped[p] = 0
  <2>1. \A p \in Points : Cardinality(Tracking(p)) = 0 /\ Cardinality(Untracking(p)) = 0
    BY <1>2, FS_EmptySet, Zenon
  <2> QED
    BY <2>1 DEF Init, Balance
<1>4. CoverInv /\ BalanceInv
  BY <1>3 DEF CoverInv, BalanceInv, Init
<1> QED
  BY <1>1, <1>4, Zenon DEF IInv

\* NeverUnderReports in terms of the balance.
LEMMA Reports == TypeOK => (NeverUnderReports <=> CoverInv)
<1> SUFFICES ASSUME TypeOK, NEW p \in Points
             PROVE  Len(mounts[p]) + Cardinality(Untracking(p))
                       <= table[p] + Cardinality(Tracking(p)) + dropped[p]
                    <=> Balance(p) + dropped[p] >= 0
  BY Zenon DEF NeverUnderReports, CoverInv
<1>1. /\ Len(mounts[p]) \in Nat /\ table[p] \in Nat /\ dropped[p] \in Nat
      /\ Cardinality(Tracking(p)) \in Nat /\ Cardinality(Untracking(p)) \in Nat
  BY Counted DEF TypeOK
<1> QED
  BY <1>1 DEF Balance

\* What a step of a worker within its job may do to the balances: nothing, or
\* lose an entry for want of memory, or find no entry to remove.
LEMMA BalanceKept ==
    ASSUME IInv, TypeOK', NEW w \in Workers, NEW from, NEW to, At(w, from, to),
           from # "idle",
           \A p \in Points :
              \/ Balance(p)' = Balance(p) /\ dropped'[p] = dropped[p]
              \/ Balance(p)' = Balance(p) - 1 /\ dropped'[p] = dropped[p] + 1
              \/ /\ Balance(p)' = Balance(p) + 1 /\ dropped'[p] = dropped[p]
                 /\ p \in overlapped \/ dropped[p] # 0 \/ exited
    PROVE  IInv'
<1>1. job' = job /\ exited' = exited /\ overlapped' = overlapped
  BY Zenon DEF At
<1>2. \A p \in Points : Balance(p) \in Int /\ dropped[p] \in Nat
  BY Counted DEF IInv, TypeOK, Balance
<1>3. CoverInv'
  BY <1>1, <1>2 DEF IInv, CoverInv
<1>4. BalanceInv'
  <2>1. \A u \in Workers : pc'[u] # "idle" => pc[u] # "idle"
    BY Zenon DEF At, IInv, TypeOK
  <2>2. \A p \in Points \ overlapped : \A u, v \in Workers :
          pc'[u] # "idle" /\ pc'[v] # "idle" /\ job'[u].point = p /\ job'[v].point = p => u = v
    BY <1>1, <2>1, Zenon DEF IInv, BalanceInv
  <2>3. \A p \in Points \ overlapped : ~exited /\ dropped'[p] = 0 => Balance(p)' = 0
    BY <1>2 DEF IInv, BalanceInv
  <2> QED
    BY <1>1, <2>2, <2>3, Zenon DEF BalanceInv
<1> QED
  BY <1>3, <1>4, Zenon DEF IInv

\* Every step keeps the invariant.
LEMMA StepInv == IInv /\ [Next]_vars => IInv'
<1> SUFFICES ASSUME IInv, [Next]_vars PROVE IInv'
  BY Zenon
<1> USE DEF IInv
<1>1. ASSUME NEW j \in Jobs, Submit(j)
      PROVE  IInv'
  <2>1. TypeOK'
    BY <1>1 DEF Submit, TypeOK
  <2>2. CoverInv' /\ BalanceInv'
    BY <1>1, Zenon DEF Submit, CoverInv, BalanceInv, Balance, Tracking, Untracking
  <2> QED
    BY <2>1, <2>2, Zenon
<1>2. ASSUME NEW w \in Workers, Take(w)
      PROVE  IInv'
  <2> USE <1>2 DEF Take
  <2>a. Head(queue) \in Jobs /\ Tail(queue) \in Seq(Jobs)
    BY HeadTailProperties, Zenon DEF TypeOK
  <2>0. Head(queue) \in Jobs /\ Tail(queue) \in Seq(Jobs) /\ Head(queue).point \in Points
    BY <2>a, Zenon DEF Jobs
  <2>1. TypeOK'
    BY <2>0, Zenon DEF TypeOK
  <2>2. \A p \in Points : Tracking(p)' = Tracking(p) /\ Untracking(p)' = Untracking(p)
    BY Zenon DEF Tracking, Untracking, TypeOK
  <2>3. CoverInv'
    BY <2>2, Zenon DEF CoverInv, Balance
  <2>4. overlapped \subseteq overlapped'
    BY Zenon
  <2>5. ASSUME NEW p \in Points, p \notin overlapped', NEW u \in Workers, NEW v \in Workers,
               pc'[u] # "idle", pc'[v] # "idle", job'[u].point = p, job'[v].point = p
        PROVE  u = v
    <3>1. CASE Head(queue).point = p
      BY <2>0, <2>5, <3>1 DEF TypeOK
    <3>2. CASE Head(queue).point # p
      BY <2>0, <2>4, <2>5, <3>2 DEF TypeOK, BalanceInv
    <3> QED
      BY <3>1, <3>2, Zenon
  <2>6. BalanceInv'
    BY <2>2, <2>4, <2>5 DEF BalanceInv, Balance
  <2> QED
    BY <2>1, <2>3, <2>6, Zenon
<1>3. ASSUME NEW w \in Workers, ExecFails(w)
      PROVE  IInv'
  <2>1. At(w, "exec", "idle") /\ UNCHANGED <<mounts, table, dropped>>
    BY <1>3, Zenon DEF ExecFails
  <2>2. TypeOK'
    BY <2>1, Zenon DEF At, TypeOK
  <2>3. \A p \in Points : Tracking(p)' = Tracking(p) /\ Untracking(p)' = Untracking(p)
    BY <2>1, Zenon DEF At, Tracking, Untracking, TypeOK
  <2> QED
    BY <2>1, <2>2, <2>3, BalanceKept, Zenon DEF Balance
<1>4. ASSUME NEW w \in Workers, ExecMount(w)
      PROVE  IInv'
  <2>0. At(w, "exec", "track") /\ job[w].point \in Points
    BY <1>4, Zenon DEF ExecMount, At, TypeOK, Jobs
  <2>1. PICK q \in Points : q = job[w].point /\ At(w, "exec", "track")
    BY <2>0, Zenon
  <2>2. /\ Cardinality(Tracking(q)) \in Nat /\ Cardinality(Untracking(q)) \in Nat
        /\ Len(mounts[q]) \in Nat /\ table[q] \in Nat /\ dropped[q] \in Nat
    BY <2>1, Counted DEF TypeOK
  <2>3. TypeOK'
    BY <1>4, <2>1 DEF ExecMount, At, TypeOK, Jobs
  <2>4. /\ Len(mounts'[q]) = Len(mounts[q]) + 1
        /\ \A p \in Points : p # q => mounts'[p] = mounts[p]
        /\ UNCHANGED <<table, dropped>>
    BY <1>4, <2>1 DEF ExecMount, TypeOK, Jobs
  <2>5. ASSUME NEW p \in Points, p # q
        PROVE  Balance(p)' = Balance(p) /\ dropped'[p] = dropped[p]
    BY <2>1, <2>4, <2>5, Counts, Zenon DEF Balance, TypeOK
  <2>c1. PICK t \in Nat, tr \in Nat, m \in Nat, un \in Nat :
            /\ t = table[q] /\ tr = Cardinality(Tracking(q))
            /\ m = Len(mounts[q]) /\ un = Cardinality(Untracking(q))
    BY <2>2, Zenon
  <2>c2. Balance(q) = t + tr - m - un
    BY <2>c1, Zenon DEF Balance
  <2>d. /\ table'[q] = t /\ Cardinality(Tracking(q)') = tr + 1
        /\ Len(mounts'[q]) = m + 1 /\ Cardinality(Untracking(q)') = un
    BY <2>1, <2>4, <2>c1, Counts
  <2>e. Balance(q)' = t + (tr + 1) - (m + 1) - un
    BY <2>d, Zenon DEF Balance
  <2>f. t + (tr + 1) - (m + 1) - un = t + tr - m - un
    OBVIOUS
  <2>6. Balance(q)' = Balance(q) /\ dropped'[q] = dropped[q]
    BY <2>4, <2>c2, <2>e, <2>f, Zenon
  <2> QED
    BY <2>1, <2>3, <2>5, <2>6, BalanceKept, Zenon
<1>5. ASSUME NEW w \in Workers, ExecUmount(w)
      PROVE  IInv'
  <2>0. At(w, "exec", "untrack") /\ job[w].point \in Points
    BY <1>5, Zenon DEF ExecUmount, At, TypeOK, Jobs
  <2>1. PICK q \in Points : q = job[w].point /\ At(w, "exec", "untrack")
    BY <2>0, Zenon
  <2>2. /\ Cardinality(Tracking(q)) \in Nat /\ Cardinality(Untracking(q)) \in Nat
        /\ Len(mounts[q]) \in Nat /\ table[q] \in Nat /\ dropped[q] \in Nat
    BY <2>1, Counted DEF TypeOK
  <2>a. mounts[q] \in Seq(Types) /\ mounts[q] # <<>>
    BY <1>5, <2>1, Zenon DEF ExecUmount, TypeOK
  <2>b. /\ SubSeq(mounts[q], 1, Len(mounts[q]) - 1) \in Seq(Types)
        /\ Len(SubSeq(mounts[q], 1, Len(mounts[q]) - 1)) = Len(mounts[q]) - 1
    <3>1. Len(mounts[q]) \in Nat \ {0}
      BY <2>a, EmptySeq, Zenon
    <3>2. \A i \in 1 .. (Len(mounts[q]) - 1) : mounts[q][i] \in Types
      BY <2>a, <3>1, ElementOfSeq
    <3> QED
      BY <2>a, <3>1, <3>2, SubSeqProperties
  <2>c. mounts' = [mounts EXCEPT ![q] = SubSeq(mounts[q], 1, Len(mounts[q]) - 1)]
    BY <1>5, <2>1, Zenon DEF ExecUmount
  <2>3. TypeOK'
    BY <1>5, <2>1, <2>b, <2>c DEF ExecUmount, At, TypeOK
  <2>4. /\ Len(mounts'[q]) = Len(mounts[q]) - 1
        /\ \A p \in Points : p # q => mounts'[p] = mounts[p]
        /\ UNCHANGED <<table, dropped>>
    BY <1>5, <2>1, <2>b, <2>c, Zenon DEF ExecUmount, TypeOK
  <2>5. ASSUME NEW p \in Points, p # q
        PROVE  Balance(p)' = Balance(p) /\ dropped'[p] = dropped[p]
    BY <2>1, <2>4, <2>5, Counts, Zenon DEF Balance, TypeOK
  <2>c1. PICK t \in Nat, tr \in Nat, m \in Nat, un \in Nat :
            /\ t = table[q] /\ tr = Cardinality(Tracking(q))
            /\ m = Len(mounts[q]) /\ un = Cardinality(Untracking(q))
    BY <2>2, Zenon
  <2>c2. Balance(q) = t + tr - m - un
    BY <2>c1, Zenon DEF Balance
  <2>d. /\ table'[q] = t /\ Cardinality(Tracking(q)') = tr
        /\ Len(mounts'[q]) = m - 1 /\ Cardinality(Untracking(q)') = un + 1
    BY <2>1, <2>4, <2>c1, Counts
  <2>e. Balance(q)' = t + tr - (m - 1) - (un + 1)
    BY <2>d, Zenon DEF Balance
  <2>f. t + tr - (m - 1) - (un + 1) = t + tr - m - un
    OBVIOUS
  <2>6. Balance(q)' = Balance(q) /\ dropped'[q] = dropped[q]
    BY <2>4, <2>c2, <2>e, <2>f, Zenon
  <2> QED
    BY <2>1, <2>3, <2>5, <2>6, BalanceKept, Zenon
<1>6. ASSUME NEW w \in Workers, Track(w)
      PROVE  IInv'
  <2>0. At(w, "track", "idle") /\ job[w].point \in Points
    BY <1>6, Zenon DEF Track, At, TypeOK, Jobs
  <2>1. PICK q \in Points : q = job[w].point /\ At(w, "track", "idle")
    BY <2>0, Zenon
  <2>2. /\ Cardinality(Tracking(q)) \in Nat /\ Cardinality(Untracking(q)) \in Nat
        /\ Len(mounts[q]) \in Nat /\ table[q] \in Nat /\ dropped[q] \in Nat
    BY <2>1, Counted DEF TypeOK
  <2>3. TypeOK'
    BY <1>6, <2>1, <2>2 DEF Track, At, TypeOK
  <2>4. /\ table'[q] = table[q] + 1
        /\ \A p \in Points : p # q => table'[p] = table[p]
        /\ UNCHANGED <<mounts, dropped>>
    BY <1>6, <2>1, Zenon DEF Track, TypeOK
  <2>5. ASSUME NEW p \in Points, p # q
        PROVE  Balance(p)' = Balance(p) /\ dropped'[p] = dropped[p]
    BY <2>1, <2>4, <2>5, Counts, Zenon DEF Balance, TypeOK
  <2>c1. PICK t \in Nat, tr \in Nat, m \in Nat, un \in Nat :
            /\ t = table[q] /\ tr = Cardinality(Tracking(q))
            /\ m = Len(mounts[q]) /\ un = Cardinality(Untracking(q))
    BY <2>2, Zenon
  <2>c2. Balance(q) = t + tr - m - un
    BY <2>c1, Zenon DEF Balance
  <2>d. /\ table'[q] = t + 1 /\ Cardinality(Tracking(q)') = tr - 1
        /\ Len(mounts'[q]) = m /\ Cardinality(Untracking(q)') = un
    BY <2>1, <2>4, <2>c1, Counts
  <2>e. Balance(q)' = (t + 1) + (tr - 1) - m - un
    BY <2>d, Zenon DEF Balance
  <2>f. (t + 1) + (tr - 1) - m - un = t + tr - m - un
    OBVIOUS
  <2>6. Balance(q)' = Balance(q) /\ dropped'[q] = dropped[q]
    BY <2>4, <2>c2, <2>e, <2>f, Zenon
  <2> QED
    BY <2>1, <2>3, <2>5, <2>6, BalanceKept, Zenon
<1>7. ASSUME NEW w \in Workers, TrackNoMemory(w)
      PROVE  IInv'
  <2>0. At(w, "track", "idle") /\ job[w].point \in Points
    BY <1>7, Zenon DEF TrackNoMemory, At, TypeOK, Jobs
  <2>1. PICK q \in Points : q = job[w].point /\ At(w, "track", "idle")
    BY <2>0, Zenon
  <2>2. /\ Cardinality(Tracking(q)) \in Nat /\ Cardinality(Untracking(q)) \in Nat
        /\ Len(mounts[q]) \in Nat /\ table[q] \in Nat /\ dropped[q] \in Nat
    BY <2>1, Counted DEF TypeOK
  <2>3. TypeOK'
    BY <1>7, <2>1, <2>2 DEF TrackNoMemory, At, TypeOK
  <2>4. /\ dropped'[q] = dropped[q] + 1
        /\ \A p \in Points : p # q => dropped'[p] = dropped[p]
        /\ UNCHANGED <<mounts, table>>
    BY <1>7, <2>1, Zenon DEF TrackNoMemory, TypeOK
  <2>5. ASSUME NEW p \in Points, p # q
        PROVE  Balance(p)' = Balance(p) /\ dropped'[p] = dropped[p]
    BY <2>1, <2>4, <2>5, Counts, Zenon DEF Balance, TypeOK
  <2>c1. PICK t \in Nat, tr \in Nat, m \in Nat, un \in Nat :
            /\ t = table[q] /\ tr = Cardinality(Tracking(q))
            /\ m = Len(mounts[q]) /\ un = Cardinality(Untracking(q))
    BY <2>2, Zenon
  <2>c2. Balance(q) = t + tr - m - un
    BY <2>c1, Zenon DEF Balance
  <2>d. /\ table'[q] = t /\ Cardinality(Tracking(q)') = tr - 1
        /\ Len(mounts'[q]) = m /\ Cardinality(Untracking(q)') = un
    BY <2>1, <2>4, <2>c1, Counts
  <2>e. Balance(q)' = t + (tr - 1) - m - un
    BY <2>d, Zenon DEF Balance
  <2>f. t + (tr - 1) - m - un = (t + tr - m - un) - 1
    OBVIOUS
  <2>6. Balance(q)' = Balance(q) - 1 /\ dropped'[q] = dropped[q] + 1
    BY <2>4, <2>c2, <2>e, <2>f, Zenon
  <2> QED
    BY <2>1, <2>3, <2>5, <2>6, BalanceKept, Zenon
<1>8. ASSUME NEW w \in Workers, Untrack(w)
      PROVE  IInv'
  <2>0. At(w, "untrack", "idle") /\ job[w].point \in Points
    BY <1>8, Zenon DEF Untrack, At, TypeOK, Jobs
  <2>1. PICK q \in Points : q = job[w].point /\ At(w, "untrack", "idle")
    BY <2>0, Zenon
  <2>2. /\ Cardinality(Tracking(q)) \in Nat /\ Cardinality(Untracking(q)) \in Nat
        /\ Len(mounts[q]) \in Nat /\ table[q] \in Nat /\ dropped[q] \in Nat
    BY <2>1, Counted DEF TypeOK
  <2>3. TypeOK'
    BY <1>8, <2>1, <2>2 DEF Untrack, At, TypeOK
  <2>4. /\ table'[q] = IF table[q] = 0 THEN 0 ELSE table[q] - 1
        /\ \A p \in Points : p # q => table'[p] = table[p]
        /\ UNCHANGED <<mounts, dropped>>
    BY <1>8, <2>1, Zenon DEF Untrack, TypeOK
  <2>5. ASSUME NEW p \in Points, p # q
        PROVE  Balance(p)' = Balance(p) /\ dropped'[p] = dropped[p]
    BY <2>1, <2>4, <2>5, Counts, Zenon DEF Balance, TypeOK
  <2>c1. PICK t \in Nat, tr \in Nat, m \in Nat, un \in Nat :
            /\ t = table[q] /\ tr = Cardinality(Tracking(q))
            /\ m = Len(mounts[q]) /\ un = Cardinality(Untracking(q))
    BY <2>2, Zenon
  <2>c2. Balance(q) = t + tr - m - un
    BY <2>c1, Zenon DEF Balance
  <2>d. /\ Cardinality(Tracking(q)') = tr /\ Cardinality(Untracking(q)') = un - 1
        /\ Len(mounts'[q]) = m /\ dropped'[q] = dropped[q]
    BY <2>1, <2>4, <2>c1, Counts
  <2>6. t # 0 => Balance(q)' = Balance(q)
    <3>1. t # 0 => table'[q] = t - 1
      BY <2>4, <2>c1, Zenon
    <3>2. t # 0 => Balance(q)' = (t - 1) + tr - m - (un - 1)
      BY <2>d, <3>1, Zenon DEF Balance
    <3>3. (t - 1) + tr - m - (un - 1) = t + tr - m - un
      OBVIOUS
    <3> QED
      BY <2>c2, <3>2, <3>3, Zenon
  <2>7. t = 0 => Balance(q)' = Balance(q) + 1
    <3>1. t = 0 => table'[q] = t
      BY <2>4, <2>c1, Zenon
    <3>2. t = 0 => Balance(q)' = t + tr - m - (un - 1)
      BY <2>d, <3>1, Zenon DEF Balance
    <3>3. t + tr - m - (un - 1) = (t + tr - m - un) + 1
      OBVIOUS
    <3> QED
      BY <2>c2, <3>2, <3>3, Zenon
  <2>8. t = 0 => q \in overlapped \/ dropped[q] # 0 \/ exited
    <3> SUFFICES ASSUME t = 0, q \notin overlapped, dropped[q] = 0, ~exited
                 PROVE  FALSE
      BY Zenon
    <3>1. w \in Untracking(q) /\ Tracking(q) = {}
      BY <2>1, Zenon DEF At, Tracking, Untracking, BalanceInv
    <3>2. tr = 0 /\ un # 0
      BY <2>c1, <3>1, Counted, FS_EmptySet, Zenon
    <3>3. Balance(q) = 0
      BY <2>1, Zenon DEF BalanceInv
    <3>4. t + tr - m - un = 0
      BY <2>c2, <3>3, Zenon
    <3> QED
      BY <3>2, <3>4
  <2> QED
    BY <2>1, <2>3, <2>5, <2>6, <2>7, <2>8, <2>d, BalanceKept, Zenon
<1>9. ASSUME Shutdown
      PROVE  IInv'
  <2> USE <1>9 DEF Shutdown
  <2>1. TypeOK'
    BY Zenon DEF TypeOK
  <2>2. CoverInv' /\ BalanceInv'
    BY Zenon DEF CoverInv, BalanceInv
  <2> QED
    BY <2>1, <2>2, Zenon
<1>10. CASE UNCHANGED vars
  <2> USE <1>10 DEF vars
  <2>1. TypeOK'
    BY Zenon DEF TypeOK
  <2>2. CoverInv' /\ BalanceInv'
    BY Zenon DEF CoverInv, BalanceInv, Balance, Tracking, Untracking
  <2> QED
    BY <2>1, <2>2, Zenon
<1> QED
  BY <1>1, <1>2, <1>3, <1>4, <1>5, <1>6, <1>7, <1>8, <1>9, <1>10, Zenon
     DEF Next, WorkerStep, Exited

\* Type correctness, in particular of the counts of the table.
THEOREM TypeCorrect == Spec => []TypeOK
<1>1. IInv => TypeOK
  BY Zenon DEF IInv
<1> QED
  BY <1>1, InitInv, StepInv, PTL DEF Spec

\* However the jobs of any number of workers interleave, what is mounted has an
\* entry, or a worker about to add one, or its entry could not be allocated.
THEOREM TableCoversMounts == Spec => []NeverUnderReports
<1>1. IInv => NeverUnderReports
  BY Reports, Zenon DEF IInv
<1> QED
  BY <1>1, InitInv, StepInv, PTL DEF Spec

\* When no job is under way the table is exact for every point whose jobs ran
\* one after the other and found memory.
THEOREM TableIsExact == Spec => []AccurateUnlessOverlapped
<1>1. IInv => AccurateUnlessOverlapped
  <2> SUFFICES ASSUME IInv, Idle, ~exited, NEW p \in Points, p \notin overlapped, dropped[p] = 0
               PROVE  table[p] = Len(mounts[p])
    BY Zenon DEF AccurateUnlessOverlapped
  <2>1. Tracking(p) = {} /\ Untracking(p) = {}
    BY Zenon DEF Idle, Tracking, Untracking
  <2>2. Cardinality(Tracking(p)) = 0 /\ Cardinality(Untracking(p)) = 0
    BY <2>1, FS_EmptySet, Zenon
  <2>3. Balance(p) = 0 /\ Len(mounts[p]) \in Nat /\ table[p] \in Nat
    BY DEF IInv, BalanceInv, TypeOK
  <2> QED
    BY <2>2, <2>3 DEF Balance
<1> QED
  BY <1>1, InitInv, StepInv, PTL DEF Spec
=============================================================================

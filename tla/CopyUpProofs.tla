---------------------------- MODULE CopyUpProofs ----------------------------
(***************************************************************************)
(* Proofs about CopyUp, for any number of openers, files and workers.      *)
(*                                                                         *)
(* The completion ioctl only ever takes out an entry whose file it then    *)
(* switches, so the other waiters keep theirs.  A file that one job at a   *)
(* time copies is partial exactly while that job copies it, so whoever     *)
(* completes finds it whole.  With distinct inode numbers the entry found  *)
(* is the entry of the file that was copied, which is what the abstract    *)
(* specification asks.                                                     *)
(***************************************************************************)
EXTENDS CopyUp, SequenceTheorems, TLAPS

\* An opener wants a file exactly while it is in an open, which it asked for,
\* and has an entry of its own only once it has registered.
OpenInv ==
    /\ \A o \in Openers : opc[o] = "idle" <=> want[o] = Lower
    /\ \A o \in Openers : want[o] # Lower => want[o] \in asked
    /\ \A o \in Openers : o \in tracked => opc[o] \in {"emit", "waiting"}

\* Every entry and every job is for a file that somebody asked for.
AskInv ==
    /\ \A i \in DOMAIN table : table[i] \in asked
    /\ \A i \in DOMAIN jobs : jobs[i] \in asked
    /\ \A w \in Workers : wpc[w] # "idle" => work[w] \in asked

\* A file that is copied by one job at a time.
CopyInv ==
    /\ \A w \in Workers : wpc[w] = "copying" /\ work[w] \notin raced => upper[work[w]] = "partial"
    /\ \A w \in Workers : wpc[w] = "complete" /\ work[w] \notin raced => upper[work[w]] = "whole"
    /\ \A v, w \in Workers :
          wpc[v] = "copying" /\ wpc[w] = "copying" /\ work[v] = work[w] /\ work[w] \notin raced => v = w
    /\ \A f \in Files : upper[f] = "partial" /\ f \notin raced =>
          \E w \in Workers : wpc[w] = "copying" /\ work[w] = f

IInv ==
    /\ TypeOK /\ OpenInv /\ AskInv /\ CopyInv
    /\ WaiterStaysFindable /\ WholeUnlessRaced

-----------------------------------------------------------------------------
(* Sequences                                                               *)

\* A subsequence of a sequence.
LEMMA Part ==
    ASSUME NEW S, NEW s, NEW lo \in Int, NEW hi \in Int, \A j \in lo .. hi : s[j] \in S
    PROVE  /\ SubSeq(s, lo, hi) \in Seq(S)
           /\ Len(SubSeq(s, lo, hi)) = IF lo <= hi THEN hi - lo + 1 ELSE 0
           /\ \A j \in 1 .. hi - lo + 1 : SubSeq(s, lo, hi)[j] = s[lo + j - 1]
BY SubSeqProperties, SMT

\* c has what s has, but for elements that equal x.
LosesOnly(S, s, x, c) ==
    /\ c \in Seq(S)
    /\ \A k \in DOMAIN c : \E j \in DOMAIN s : c[k] = s[j]
    /\ \A j \in DOMAIN s : s[j] # x => \E k \in 1 .. Len(c) : c[k] = s[j]

\* c has what s has, and x.
Gains(S, s, x, c) ==
    /\ c \in Seq(S)
    /\ \E k \in 1 .. Len(c) : c[k] = x
    /\ \A j \in 1 .. Len(s) : \E k \in 1 .. Len(c) : c[k] = s[j]
    /\ \A k \in DOMAIN c : c[k] = x \/ \E j \in DOMAIN s : c[k] = s[j]

\* What is left of a sequence without its i-th element.
LEMMA Removed ==
    ASSUME NEW S, NEW s \in Seq(S), NEW i \in 1 .. Len(s)
    PROVE  LosesOnly(S, s, s[i], SubSeq(s, 1, i - 1) \o SubSeq(s, i + 1, Len(s)))
<1>0. Len(s) \in Nat /\ DOMAIN s = 1 .. Len(s) /\ \A j \in 1 .. Len(s) : s[j] \in S
  BY ElementOfSeq, LenProperties, Zenon
<1>n. PICK n \in Nat : n = Len(s) /\ i \in 1 .. n
  BY <1>0, Zenon
<1>m. PICK one \in Int, lo \in Int, hi \in Int : one = 1 /\ lo = i - 1 /\ hi = i + 1
  BY <1>n
<1> DEFINE a == SubSeq(s, one, lo)
           b == SubSeq(s, hi, n)
<1>1. /\ a \in Seq(S) /\ Len(a) = i - 1
      /\ \A j \in 1 .. i - 1 : a[j] = s[j]
  <2>1. \A j \in 1 .. i - 1 : s[j] \in S
    BY <1>0, <1>n
  <2>2. \A j \in one .. lo : s[j] \in S
    BY <1>m, <2>1, Zenon
  <2>3. /\ a \in Seq(S) /\ Len(a) = IF one <= lo THEN lo - one + 1 ELSE 0
        /\ \A j \in 1 .. lo - one + 1 : a[j] = s[one + j - 1]
    BY <2>2, Part
  <2>4. (IF one <= lo THEN lo - one + 1 ELSE 0) = i - 1 /\ lo - one + 1 = i - 1
    BY <1>n, <1>m
  <2>5. \A j \in 1 .. i - 1 : one + j - 1 = j
    BY <1>n, <1>m
  <2> HIDE DEF a
  <2> QED
    BY <2>3, <2>4, <2>5, Zenon
<1>2. /\ b \in Seq(S) /\ Len(b) = n - i
      /\ \A j \in 1 .. n - i : b[j] = s[i + j]
  <2>1. \A j \in i + 1 .. n : s[j] \in S
    BY <1>0, <1>n
  <2>2. n \in Int /\ \A j \in hi .. n : s[j] \in S
    BY <1>m, <2>1
  <2>3. /\ b \in Seq(S) /\ Len(b) = IF hi <= n THEN n - hi + 1 ELSE 0
        /\ \A j \in 1 .. n - hi + 1 : b[j] = s[hi + j - 1]
    BY <2>2, Part
  <2>4. /\ (IF hi <= n THEN n - hi + 1 ELSE 0) = n - i /\ n - hi + 1 = n - i
        /\ \A j \in 1 .. n - i : hi + j - 1 = i + j
    BY <1>n, <1>m
  <2> HIDE DEF b
  <2> QED
    BY <2>3, <2>4, Zenon
<1> HIDE DEF a, b
<1>3. /\ a \o b \in Seq(S) /\ Len(a \o b) = Len(a) + Len(b)
      /\ \A k \in 1 .. Len(a) + Len(b) : (a \o b)[k] = IF k <= Len(a) THEN a[k] ELSE b[k - Len(a)]
  BY <1>1, <1>2, ConcatProperties, Zenon
<1>4. SubSeq(s, 1, i - 1) \o SubSeq(s, i + 1, Len(s)) = a \o b
  BY <1>n, <1>m, Zenon DEF a, b
<1>c. PICK c : c = a \o b
  BY Zenon
<1>5. /\ c \in Seq(S) /\ Len(c) = n - 1
      /\ \A k \in 1 .. n - 1 : c[k] = IF k < i THEN s[k] ELSE s[k + 1]
  <2>1. Len(a) + Len(b) = n - 1
    BY <1>n, <1>1, <1>2
  <2>2. /\ c \in Seq(S) /\ Len(c) = n - 1
        /\ \A k \in 1 .. n - 1 : c[k] = IF k <= Len(a) THEN a[k] ELSE b[k - Len(a)]
    BY <1>3, <1>c, <2>1, Zenon
  <2>3. ASSUME NEW k \in 1 .. n - 1, k < i PROVE c[k] = s[k]
    <3>1. k \in 1 .. i - 1 /\ k <= i - 1
      BY <1>n, <2>3
    <3> QED
      BY <1>1, <2>2, <3>1, Zenon
  <2>4. ASSUME NEW k \in 1 .. n - 1, ~(k < i) PROVE c[k] = s[k + 1]
    <3>1. ~(k <= i - 1) /\ k - (i - 1) \in 1 .. n - i /\ i + (k - (i - 1)) = k + 1
      BY <1>n, <2>4
    <3>2. c[k] = b[k - (i - 1)]
      BY <1>1, <2>2, <3>1, Zenon
    <3> QED
      BY <1>2, <3>1, <3>2, Zenon
  <2> QED
    BY <2>2, <2>3, <2>4, Zenon
<1>6. DOMAIN c = 1 .. n - 1
  BY <1>5, LenProperties, Zenon
<1>7. ASSUME NEW k \in 1 .. n - 1
      PROVE  \E j \in DOMAIN s : c[k] = s[j]
  <2>1. k \in 1 .. n /\ k + 1 \in 1 .. n
    BY <1>n
  <2> QED
    BY <1>0, <1>n, <1>5, <2>1, Zenon
<1>8. ASSUME NEW j \in 1 .. n, s[j] # s[i]
      PROVE  \E k \in 1 .. n - 1 : c[k] = s[j]
  <2>1. CASE j < i
    <3>1. j \in 1 .. n - 1
      BY <1>n, <2>1
    <3> QED
      BY <1>5, <2>1, <3>1, Zenon
  <2>2. CASE j > i
    <3>1. j - 1 \in 1 .. n - 1 /\ ~(j - 1 < i) /\ (j - 1) + 1 = j
      BY <1>n, <2>2
    <3>2. c[j - 1] = s[j]
      BY <1>5, <3>1, Zenon
    <3> QED
      BY <3>1, <3>2, Zenon
  <2>3. j < i \/ j > i
    BY <1>n, <1>8
  <2> QED
    BY <2>1, <2>2, <2>3, Zenon
<1>9. /\ SubSeq(s, 1, i - 1) \o SubSeq(s, i + 1, Len(s)) = c
      /\ DOMAIN s = 1 .. n
  BY <1>0, <1>n, <1>4, <1>c, Zenon
<1>10. LosesOnly(S, s, s[i], c)
  BY <1>5, <1>6, <1>7, <1>8, <1>9, Zenon DEF LosesOnly
<1> QED
  BY <1>9, <1>10, Zenon

\* The entry that bdfs_copyup_register puts at the head.
LEMMA Registered ==
    ASSUME NEW S, NEW s \in Seq(S), NEW x \in S
    PROVE  Gains(S, s, x, <<x>> \o s)
<1>0. PICK n \in Nat : n = Len(s)
  BY LenProperties, Zenon
<1>1. PICK c : c = <<x>> \o s
  BY Zenon
<1>2. /\ c \in Seq(S) /\ Len(c) = 1 + n
      /\ \A k \in 1 .. 1 + n : c[k] = IF k <= 1 THEN x ELSE s[k - 1]
  BY <1>0, <1>1, ConcatProperties
<1>3. DOMAIN s = 1 .. n /\ DOMAIN c = 1 .. 1 + n
  BY <1>0, <1>2, LenProperties, Zenon
<1>4. \A j \in 1 .. n : j + 1 \in 1 .. 1 + n /\ c[j + 1] = s[j]
  BY <1>2
<1>5. ASSUME NEW k \in 1 .. 1 + n PROVE c[k] = x \/ \E j \in 1 .. n : c[k] = s[j]
  <2>1. k = 1 \/ (k - 1 \in 1 .. n /\ ~(k <= 1))
    OBVIOUS
  <2> QED
    BY <1>2, <2>1
<1>6. 1 \in 1 .. 1 + n /\ c[1] = x
  BY <1>2
<1>7. Gains(S, s, x, c)
  BY <1>0, <1>2, <1>3, <1>4, <1>5, <1>6, Zenon DEF Gains
<1> QED
  BY <1>1, <1>7, Zenon

-----------------------------------------------------------------------------
(* The inductive invariant                                                 *)

LEMMA InitInv == Init => IInv
<1> SUFFICES ASSUME Init PROVE IInv
  BY Zenon
<1> USE DEF Init
<1>1. TypeOK
  BY CopyUpAssumption, EmptySeq DEF TypeOK
<1>2. OpenInv /\ AskInv /\ CopyInv
  BY DEF OpenInv, AskInv, CopyInv
<1>3. WaiterStaysFindable /\ WholeUnlessRaced
  BY Zenon DEF WaiterStaysFindable, WholeUnlessRaced
<1> QED
  BY <1>1, <1>2, <1>3, Zenon DEF IInv

\* An opener does nothing to the copies.
LEMMA OpenerKeeps ==
    ASSUME IInv, UNCHANGED <<daemon, backing>>
    PROVE  CopyInv' /\ WholeUnlessRaced'
BY Zenon DEF IInv, CopyInv, WholeUnlessRaced, daemon

\* An opener may start while others wait.
LEMMA OpenKeeps ==
    ASSUME IInv, NEW o \in Openers, NEW f \in Files, OpenUpper(o, f) \/ OpenLower(o, f)
    PROVE  IInv'
<1>1. /\ opc[o] = "idle" /\ opc' = [opc EXCEPT ![o] = IF backing[f] = Lower THEN "register" ELSE "opening"]
      /\ want' = [want EXCEPT ![o] = f] /\ asked' = asked \cup {f}
      /\ asks' = asks \/ (asks < MaxAsks /\ asks' = asks + 1)
      /\ UNCHANGED <<tracked, granted, table, backing, daemon>>
  BY Zenon DEF OpenUpper, OpenLower
<1>2. f # Lower
  BY CopyUpAssumption, Zenon
<1>3. TypeOK'
  BY <1>1, CopyUpAssumption DEF IInv, TypeOK, daemon
<1>4. OpenInv'
  BY <1>1, <1>2, Zenon DEF IInv, TypeOK, OpenInv
<1>5. AskInv'
  BY <1>1, Zenon DEF IInv, AskInv, daemon
<1>6. WaiterStaysFindable'
  BY <1>1, Zenon DEF IInv, TypeOK, WaiterStaysFindable
<1> QED
  BY <1>1, <1>3, <1>4, <1>5, <1>6, OpenerKeeps, Zenon DEF IInv

\* The file that an opener in an open wants.
LEMMA Wanted ==
    ASSUME IInv, NEW o \in Openers, opc[o] # "idle"
    PROVE  want[o] \in Files /\ want[o] \in asked
BY Zenon DEF IInv, TypeOK, OpenInv

\* The new entry is the opener's; the others keep theirs.
LEMMA RegisterKeeps ==
    ASSUME IInv, NEW o \in Openers, Register(o)
    PROVE  IInv'
<1>1. /\ opc[o] = "register" /\ opc' = [opc EXCEPT ![o] = "emit"]
      /\ \/ table' = <<want[o]>> \o table /\ tracked' = tracked \cup {o}
         \/ UNCHANGED <<table, tracked>>
      /\ UNCHANGED <<want, granted, backing, asks, asked, daemon>>
  BY Zenon DEF Register
<1>2. want[o] \in Files /\ want[o] \in asked /\ table \in Seq(Files)
  BY <1>1, Wanted, Zenon DEF IInv, TypeOK
<1>r. PICK c : c = <<want[o]>> \o table /\ Gains(Files, table, want[o], c)
  BY <1>2, Registered, Zenon
<1>t. /\ table' \in Seq(Files)
      /\ \A j \in 1 .. Len(table) : \E k \in 1 .. Len(table') : table'[k] = table[j]
      /\ \A k \in DOMAIN table' : table'[k] = want[o] \/ \E j \in DOMAIN table : table'[k] = table[j]
      /\ tracked' = tracked \/ (tracked' = tracked \cup {o} /\ \E k \in 1 .. Len(table') : table'[k] = want[o])
  <2>1. CASE UNCHANGED <<table, tracked>>
    BY <1>2, <2>1, Zenon
  <2>2. CASE table' = <<want[o]>> \o table /\ tracked' = tracked \cup {o}
    <3>1. Gains(Files, table, want[o], table') /\ tracked' = tracked \cup {o}
      BY <1>r, <2>2, Zenon
    <3> QED
      BY <3>1, Zenon DEF Gains
  <2> QED
    BY <1>1, <2>1, <2>2, Zenon
<1>3. TypeOK'
  BY <1>1, <1>t, Zenon DEF IInv, TypeOK, daemon
<1>4. OpenInv'
  BY <1>1, <1>t, Zenon DEF IInv, TypeOK, OpenInv
<1>5. AskInv'
  BY <1>1, <1>2, <1>t, Zenon DEF IInv, AskInv, daemon
<1>6. WaiterStaysFindable'
  <2> SUFFICES ASSUME NEW p \in Openers, opc'[p] \in {"emit", "waiting"}, p \in tracked',
                      backing'[want'[p]] = Lower
               PROVE  \E k \in 1 .. Len(table') : table'[k] = want'[p]
    BY Zenon DEF WaiterStaysFindable
  <2>1. CASE p = o
    BY <1>1, <1>t, <2>1, Zenon DEF IInv, OpenInv
  <2>2. CASE p # o
    <3>1. p \in tracked /\ opc[p] \in {"emit", "waiting"} /\ backing[want[p]] = Lower
      BY <1>1, <1>t, <2>2 DEF IInv, TypeOK
    <3>2. PICK j \in 1 .. Len(table) : table[j] = want[p]
      BY <3>1, Zenon DEF IInv, WaiterStaysFindable
    <3> QED
      BY <1>1, <1>t, <3>2, Zenon
  <2> QED
    BY <2>1, <2>2, Zenon
<1> QED
  BY <1>1, <1>3, <1>4, <1>5, <1>6, OpenerKeeps, Zenon DEF IInv

\* The queued job is for the opener's file.
LEMMA EmitKeeps ==
    ASSUME IInv, NEW o \in Openers, Emit(o)
    PROVE  IInv'
<1>1. /\ opc[o] = "emit" /\ opc' = [opc EXCEPT ![o] = "waiting"]
      /\ jobs' = Append(jobs, want[o]) \/ jobs' = jobs
      /\ UNCHANGED <<want, tracked, granted, table, backing, asks, asked, wpc, work, upper, raced>>
  BY Zenon DEF Emit
<1>2. want[o] \in Files /\ want[o] \in asked /\ jobs \in Seq(Files)
  BY <1>1, Wanted, Zenon DEF IInv, TypeOK
<1>j. jobs' \in Seq(Files) /\ \A k \in DOMAIN jobs' : jobs'[k] \in asked
  <2>1. CASE jobs' = jobs
    BY <1>2, <2>1, Zenon DEF IInv, AskInv
  <2>2. CASE jobs' = Append(jobs, want[o])
    <3>1. /\ Append(jobs, want[o]) \in Seq(Files)
          /\ \A i \in 1 .. Len(jobs) : Append(jobs, want[o])[i] = jobs[i]
          /\ Append(jobs, want[o])[Len(jobs) + 1] = want[o]
          /\ Len(Append(jobs, want[o])) = Len(jobs) + 1
      BY <1>2, AppendProperties
    <3>2. PICK n \in Nat : n = Len(jobs) /\ DOMAIN jobs = 1 .. n
      BY <1>2, LenProperties, Zenon
    <3>3. DOMAIN Append(jobs, want[o]) = 1 .. n + 1
      BY <3>1, <3>2, LenProperties, Zenon
    <3>4. \A k \in 1 .. n + 1 : k \in 1 .. n \/ k = n + 1
      OBVIOUS
    <3>5. \A i \in 1 .. n : jobs[i] \in asked
      BY <3>2, Zenon DEF IInv, AskInv
    <3>6. \A k \in 1 .. n + 1 : Append(jobs, want[o])[k] \in asked
      BY <1>2, <3>1, <3>2, <3>4, <3>5, Zenon
    <3> QED
      BY <2>2, <3>1, <3>3, <3>6, Zenon
  <2> QED
    BY <1>1, <2>1, <2>2, Zenon
<1>3. TypeOK'
  BY <1>1, <1>j, Zenon DEF IInv, TypeOK
<1>4. OpenInv'
  BY <1>1, Zenon DEF IInv, TypeOK, OpenInv
<1>5. AskInv'
  BY <1>1, <1>j, Zenon DEF IInv, AskInv
<1>6. WaiterStaysFindable'
  BY <1>1, Zenon DEF IInv, TypeOK, WaiterStaysFindable
<1>7. CopyInv' /\ WholeUnlessRaced'
  BY <1>1, Zenon DEF IInv, CopyInv, WholeUnlessRaced
<1> QED
  BY <1>3, <1>4, <1>5, <1>6, <1>7, Zenon DEF IInv

\* An open that returns takes nobody's entry with it.
LEMMA ReturnKeeps ==
    ASSUME IInv, NEW o \in Openers, NEW r \in Files \cup {Lower}, Return(o, r), UNCHANGED table
    PROVE  IInv'
<1> USE DEF Return
<1>3. TypeOK'
  BY Zenon DEF IInv, TypeOK, daemon
<1>4. OpenInv'
  BY Zenon DEF IInv, TypeOK, OpenInv
<1>5. AskInv'
  BY Zenon DEF IInv, AskInv, daemon
<1>6. WaiterStaysFindable'
  BY Zenon DEF IInv, TypeOK, WaiterStaysFindable
<1> QED
  BY <1>3, <1>4, <1>5, <1>6, OpenerKeeps, Zenon DEF IInv

\* The job at the head of the queue, and the rest of it.
LEMMA Queue ==
    ASSUME IInv, jobs # <<>>
    PROVE  /\ Head(jobs) \in Files /\ Head(jobs) \in asked
           /\ Tail(jobs) \in Seq(Files) /\ \A k \in DOMAIN Tail(jobs) : Tail(jobs)[k] \in asked
<1>1. jobs \in Seq(Files) /\ \A i \in DOMAIN jobs : jobs[i] \in asked
  BY Zenon DEF IInv, TypeOK, AskInv
<1>2. PICK n \in Nat : n = Len(jobs) /\ DOMAIN jobs = 1 .. n
  BY <1>1, LenProperties, Zenon
<1>3. n # 0
  BY <1>1, <1>2, EmptySeq, Zenon
<1>4. Head(jobs) \in Files /\ Tail(jobs) \in Seq(Files) /\ Head(jobs) = jobs[1]
  BY <1>1, HeadTailProperties
<1>5. PICK t : t = Tail(jobs)
  BY Zenon
<1>6. t \in Seq(Files) /\ Len(t) = n - 1 /\ \A i \in 1 .. n - 1 : t[i] = jobs[i + 1]
  BY <1>1, <1>2, <1>3, <1>5, HeadTailProperties, Zenon
<1>7. DOMAIN t = 1 .. n - 1
  BY <1>6, LenProperties, Zenon
<1>8. 1 \in 1 .. n /\ \A i \in 1 .. n - 1 : i + 1 \in 1 .. n
  BY <1>3
<1>9. \A i \in 1 .. n - 1 : t[i] \in asked
  BY <1>1, <1>2, <1>6, <1>8, Zenon
<1> QED
  BY <1>1, <1>2, <1>4, <1>5, <1>7, <1>8, <1>9, Zenon

\* A worker does nothing to the openers.
LEMMA WorkerKeeps ==
    ASSUME IInv, UNCHANGED kernel
    PROVE  OpenInv' /\ WaiterStaysFindable'
BY Zenon DEF IInv, OpenInv, WaiterStaysFindable, kernel

\* Whatever becomes of the job, it was asked for, and its file counts as
\* raced if it is being copied.
LEMMA Taken ==
    ASSUME IInv, NEW w \in Workers, NEW next \in {"idle", "copying", "complete"}, Take(w, next)
    PROVE  /\ Head(jobs) \in Files /\ AskInv' /\ jobs' \in Seq(Files)
           /\ wpc' \in [Workers -> {"idle", "copying", "complete"}]
           /\ work' \in [Workers -> Files \cup {Lower}]
           /\ raced \subseteq raced' /\ raced' \in SUBSET Files
           /\ \A v \in Workers : wpc[v] = "copying" /\ work[v] = Head(jobs) => Head(jobs) \in raced'
           /\ wpc[w] = "idle" /\ wpc'[w] = next /\ work'[w] = Head(jobs)
           /\ \A v \in Workers : v # w => wpc'[v] = wpc[v] /\ work'[v] = work[v]
<1>1. PICK h : h = Head(jobs)
  BY Zenon
<1>2. /\ wpc[w] = "idle" /\ jobs # <<>> /\ jobs' = Tail(jobs)
      /\ work' = [work EXCEPT ![w] = h] /\ wpc' = [wpc EXCEPT ![w] = next]
      /\ raced' = raced \cup {work[v] : v \in {u \in Workers : wpc[u] = "copying" /\ work[u] = h}}
      /\ UNCHANGED kernel
  BY <1>1, Zenon DEF Take
<1>3. h \in Files /\ h \in asked /\ jobs' \in Seq(Files) /\ \A k \in DOMAIN jobs' : jobs'[k] \in asked
  BY <1>1, <1>2, Queue, Zenon
<1>4. /\ wpc' \in [Workers -> {"idle", "copying", "complete"}]
      /\ work' \in [Workers -> Files \cup {Lower}]
      /\ wpc'[w] = next /\ work'[w] = h
      /\ \A v \in Workers : v # w => wpc'[v] = wpc[v] /\ work'[v] = work[v]
  BY <1>2, <1>3, Zenon DEF IInv, TypeOK
<1>5. /\ raced \subseteq raced' /\ raced' \in SUBSET Files
      /\ \A v \in Workers : wpc[v] = "copying" /\ work[v] = h => h \in raced'
  BY <1>2, <1>3, Zenon DEF IInv, TypeOK
<1>6. AskInv'
  BY <1>2, <1>3, <1>4, Zenon DEF IInv, AskInv, kernel
<1> QED
  BY <1>1, <1>2, <1>3, <1>4, <1>5, <1>6, Zenon

\* A file is found whole, or the job that copies it makes it a raced one.
LEMMA JobKeeps ==
    ASSUME IInv, NEW w \in Workers, JobFails(w) \/ JobCreates(w) \/ JobFindsCopy(w)
    PROVE  IInv'
<1>1. PICK next \in {"idle", "copying", "complete"} : Take(w, next)
  BY Zenon DEF JobFails, JobCreates, JobFindsCopy
<1>2. PICK h : h = Head(jobs)
  BY Zenon
<1>3. /\ h \in Files /\ AskInv' /\ jobs' \in Seq(Files)
      /\ wpc' \in [Workers -> {"idle", "copying", "complete"}]
      /\ work' \in [Workers -> Files \cup {Lower}]
      /\ raced \subseteq raced' /\ raced' \in SUBSET Files
      /\ \A v \in Workers : wpc[v] = "copying" /\ work[v] = h => h \in raced'
      /\ wpc[w] = "idle" /\ work'[w] = h
      /\ \A v \in Workers : v # w => wpc'[v] = wpc[v] /\ work'[v] = work[v]
  BY <1>1, <1>2, Taken, Zenon
<1>4. UNCHANGED kernel
  BY <1>1, Zenon DEF Take
<1>5. \/ wpc'[w] = "idle" /\ upper' = upper
      \/ wpc'[w] = "copying" /\ upper[h] = "absent" /\ upper' = [upper EXCEPT ![h] = "partial"]
      \/ wpc'[w] = "complete" /\ upper[h] # "absent" /\ upper' = upper
  <2>1. \A n \in {"idle", "copying", "complete"} : Take(w, n) => wpc'[w] = n
    BY Taken, Zenon
  <2> QED
    BY <1>2, <2>1, Zenon DEF JobFails, JobCreates, JobFindsCopy
<1>6. upper \in [Files -> {"absent", "partial", "whole"}]
  BY Zenon DEF IInv, TypeOK
<1>7. TypeOK'
  BY <1>3, <1>4, <1>5, <1>6, Zenon DEF IInv, TypeOK, kernel
<1>8. CopyInv'
  <2> USE DEF IInv, CopyInv
  <2>f. \A v \in Workers : wpc[v] # "idle" => work[v] \in Files
    BY Zenon DEF AskInv, TypeOK
  <2>1. ASSUME NEW v \in Workers, wpc'[v] = "copying", work'[v] \notin raced'
        PROVE  upper'[work'[v]] = "partial"
    <3>1. CASE v = w
      BY <1>3, <1>5, <1>6, <2>1, <3>1
    <3>2. CASE v # w
      <4>1. /\ wpc[v] = "copying" /\ work'[v] = work[v] /\ work[v] \notin raced
            /\ work[v] # h /\ work[v] \in Files /\ upper[work[v]] = "partial"
        BY <1>3, <2>f, <2>1, <3>2
      <4> QED
        BY <1>5, <1>6, <4>1
    <3> QED
      BY <3>1, <3>2, Zenon
  <2>2. ASSUME NEW v \in Workers, wpc'[v] = "complete", work'[v] \notin raced'
        PROVE  upper'[work'[v]] = "whole"
    <3>1. CASE v = w
      <4>1. upper[h] # "absent" /\ upper' = upper /\ h \notin raced' /\ h \notin raced
        BY <1>3, <1>5, <2>2, <3>1, Zenon
      <4>2. upper[h] # "partial"
        BY <1>3, <4>1
      <4> QED
        BY <1>3, <1>6, <3>1, <4>1, <4>2
    <3>2. CASE v # w
      <4>1. /\ wpc[v] = "complete" /\ work'[v] = work[v] /\ work[v] \notin raced
            /\ work[v] \in Files /\ upper[work[v]] = "whole"
        BY <1>3, <2>f, <2>2, <3>2
      <4> QED
        BY <1>3, <1>5, <1>6, <4>1
    <3> QED
      BY <3>1, <3>2, Zenon
  <2>3. \A u, v \in Workers :
           wpc'[u] = "copying" /\ wpc'[v] = "copying" /\ work'[u] = work'[v] /\ work'[v] \notin raced' => u = v
    BY <1>3, <1>5
  <2>4. ASSUME NEW f \in Files, upper'[f] = "partial", f \notin raced'
        PROVE  \E v \in Workers : wpc'[v] = "copying" /\ work'[v] = f
    <3>1. CASE upper[f] = "partial"
      <4>1. PICK u \in Workers : wpc[u] = "copying" /\ work[u] = f
        BY <1>3, <2>4, <3>1, Zenon
      <4> QED
        BY <1>3, <4>1, Zenon
    <3>2. CASE upper[f] # "partial"
      BY <1>3, <1>5, <1>6, <2>4, <3>2
    <3> QED
      BY <3>1, <3>2, Zenon
  <2> QED
    BY <2>1, <2>2, <2>3, <2>4, Zenon
<1>9. WholeUnlessRaced'
  BY <1>3, <1>4, <1>5, <1>6 DEF IInv, TypeOK, WholeUnlessRaced, kernel
<1> QED
  BY <1>3, <1>4, <1>7, <1>8, <1>9, WorkerKeeps, Zenon DEF IInv

\* The job that ends is the only one that copies the file, if no other job
\* was started meanwhile: nobody was pointed at what it unlinks.
LEMMA CopyKeeps ==
    ASSUME IInv, NEW w \in Workers, CopyEnds(w) \/ CopyFails(w)
    PROVE  IInv'
<1>1. PICK f \in Files : f = work[w] /\ f \in asked
  BY Zenon DEF IInv, AskInv, TypeOK, CopyEnds, CopyFails
<1>2. /\ wpc[w] = "copying"
      /\ \/ wpc' = [wpc EXCEPT ![w] = "complete"] /\ upper' = [upper EXCEPT ![f] = "whole"]
         \/ wpc' = [wpc EXCEPT ![w] = "idle"] /\ upper' = [upper EXCEPT ![f] = "absent"]
      /\ UNCHANGED <<jobs, work, raced, kernel>>
  BY <1>1, Zenon DEF CopyEnds, CopyFails
<1>3. TypeOK'
  BY <1>2, Zenon DEF IInv, TypeOK, kernel
<1>4. AskInv'
  BY <1>1, <1>2, Zenon DEF IInv, TypeOK, AskInv, kernel
<1>t. upper \in [Files -> {"absent", "partial", "whole"}] /\ wpc \in [Workers -> {"idle", "copying", "complete"}]
  BY Zenon DEF IInv, TypeOK
<1>5. CopyInv'
  <2> USE DEF IInv, CopyInv
  <2>f. \A v \in Workers : wpc[v] # "idle" => work[v] \in Files
    BY Zenon DEF AskInv, TypeOK
  <2>1. ASSUME NEW v \in Workers, wpc'[v] = "copying", work'[v] \notin raced'
        PROVE  upper'[work'[v]] = "partial"
    <3>1. v # w /\ wpc[v] = "copying" /\ work[v] \notin raced /\ work[v] # f
      BY <1>1, <1>2, <1>t, <2>1
    <3> QED
      BY <1>2, <1>t, <2>f, <3>1
  <2>2. ASSUME NEW v \in Workers, wpc'[v] = "complete", work'[v] \notin raced'
        PROVE  upper'[work'[v]] = "whole"
    <3>1. CASE v = w
      BY <1>1, <1>2, <1>t, <2>2, <3>1
    <3>2. CASE v # w
      <4>1. wpc[v] = "complete" /\ work[v] \notin raced /\ upper[work[v]] = "whole"
        BY <1>2, <1>t, <2>2, <3>2
      <4>2. work[v] # f
        BY <1>1, <1>2, <4>1, Zenon
      <4> QED
        BY <1>2, <1>t, <2>f, <4>1, <4>2, Zenon
    <3> QED
      BY <3>1, <3>2, Zenon
  <2>3. \A u, v \in Workers :
           wpc'[u] = "copying" /\ wpc'[v] = "copying" /\ work'[u] = work'[v] /\ work'[v] \notin raced' => u = v
    BY <1>2, <1>t
  <2>4. ASSUME NEW g \in Files, upper'[g] = "partial", g \notin raced'
        PROVE  \E v \in Workers : wpc'[v] = "copying" /\ work'[v] = g
    <3>1. g # f /\ upper[g] = "partial" /\ g \notin raced
      BY <1>2, <1>t, <2>4
    <3>2. PICK v \in Workers : wpc[v] = "copying" /\ work[v] = g
      BY <3>1, Zenon
    <3> QED
      BY <1>1, <1>2, <1>t, <3>1, <3>2
  <2> QED
    BY <2>1, <2>2, <2>3, <2>4, Zenon
<1>6. WholeUnlessRaced'
  <2> SUFFICES ASSUME NEW g \in Files, backing'[g] # Lower, backing'[g] \notin raced'
               PROVE  upper'[backing'[g]] = "whole"
    BY Zenon DEF WholeUnlessRaced
  <2>1. PICK b : b = backing[g] /\ b = backing'[g] /\ b \in Files /\ b \notin raced /\ upper[b] = "whole"
    BY <1>2 DEF IInv, TypeOK, WholeUnlessRaced, kernel
  <2>2. b # f
    BY <1>1, <1>2, <2>1, Zenon DEF IInv, CopyInv
  <2> QED
    BY <1>2, <1>t, <2>1, <2>2
<1> QED
  BY <1>2, <1>3, <1>4, <1>5, <1>6, WorkerKeeps, Zenon DEF IInv

\* The entry that a completion finds, if it finds one.
LEMMA Completed ==
    ASSUME IInv, NEW w \in Workers, Complete(w)
    PROVE  /\ wpc[w] = "complete" /\ work[w] \in Files /\ work[w] \in asked
           /\ \/ UNCHANGED <<table, backing>>
              \/ \E i \in 1 .. Len(table) :
                    /\ Ino[table[i]] = Ino[work[w]] /\ table[i] \in Files
                    /\ backing' = [backing EXCEPT ![table[i]] = work[w]]
                    /\ table' = Unlinked(i)
<1>1. wpc[w] = "complete" /\ work[w] \in Files /\ work[w] \in asked
  BY Zenon DEF Complete, IInv, AskInv, TypeOK
<1>2. table \in Seq(Files) /\ DOMAIN table = 1 .. Len(table) /\ \A i \in DOMAIN table : table[i] \in Files
  BY LenProperties, ElementOfSeq DEF IInv, TypeOK
<1>3. \A i \in Found(Ino[work[w]]) : i \in 1 .. Len(table) /\ Ino[table[i]] = Ino[work[w]] /\ table[i] \in Files
  BY <1>2, Zenon DEF Found, Matches
<1> QED
  BY <1>1, <1>3, Zenon DEF Complete

\* Only the openers of the switched file lose an entry, and they need it no
\* more.
LEMMA CompleteKeeps ==
    ASSUME IInv, NEW w \in Workers, Complete(w)
    PROVE  IInv'
<1>1. /\ wpc' = [wpc EXCEPT ![w] = "idle"]
      /\ UNCHANGED <<opc, want, tracked, granted, asks, asked, jobs, work, upper, raced>>
  BY Zenon DEF Complete
<1>2. PICK f \in Files : f = work[w] /\ f \in asked /\ f # Lower /\ wpc[w] = "complete"
  BY Completed, CopyUpAssumption, Zenon
<1>3. /\ table \in Seq(Files) /\ backing \in [Files -> Files \cup {Lower}]
      /\ wpc \in [Workers -> {"idle", "copying", "complete"}]
  BY Zenon DEF IInv, TypeOK
<1>4. PICK g \in Files :
         /\ backing' = backing \/ backing' = [backing EXCEPT ![g] = f]
         /\ table' \in Seq(Files)
         /\ \A k \in DOMAIN table' : \E j \in DOMAIN table : table'[k] = table[j]
         /\ \A j \in 1 .. Len(table) :
               (\E k \in 1 .. Len(table') : table'[k] = table[j]) \/ (table[j] = g /\ backing'[g] = f)
  <2>1. CASE UNCHANGED <<table, backing>>
    BY <1>3, <2>1, Zenon
  <2>2. ASSUME NEW i \in 1 .. Len(table), table[i] \in Files,
               backing' = [backing EXCEPT ![table[i]] = f], table' = Unlinked(i)
        PROVE  /\ table' \in Seq(Files)
               /\ \A k \in DOMAIN table' : \E j \in DOMAIN table : table'[k] = table[j]
               /\ \A j \in 1 .. Len(table) : (\E k \in 1 .. Len(table') : table'[k] = table[j])
                                           \/ (table[j] = table[i] /\ backing'[table[i]] = f)
    <3>1. LosesOnly(Files, table, table[i], Unlinked(i))
      BY <1>3, Removed, Zenon DEF Unlinked
    <3>2. LosesOnly(Files, table, table[i], table')
      BY <2>2, <3>1, Zenon
    <3>3. DOMAIN table = 1 .. Len(table)
      BY <1>3, LenProperties, Zenon
    <3>4. backing'[table[i]] = f
      BY <1>3, <2>2, Zenon
    <3> QED
      BY <3>2, <3>3, <3>4, Zenon DEF LosesOnly
  <2>3. \/ UNCHANGED <<table, backing>>
        \/ \E i \in 1 .. Len(table) : /\ table[i] \in Files
                                      /\ backing' = [backing EXCEPT ![table[i]] = f]
                                      /\ table' = Unlinked(i)
    BY <1>2, Completed, Zenon
  <2> QED
    BY <2>1, <2>2, <2>3, Zenon
<1>5. TypeOK'
  BY <1>1, <1>3, <1>4, Zenon DEF IInv, TypeOK
<1>6. OpenInv'
  BY <1>1, Zenon DEF IInv, OpenInv
<1>7. AskInv'
  BY <1>1, <1>3, <1>4, Zenon DEF IInv, AskInv
<1>8. CopyInv'
  BY <1>1, <1>2, <1>3 DEF IInv, CopyInv
<1>9. WaiterStaysFindable'
  <2> SUFFICES ASSUME NEW o \in Openers, opc'[o] \in {"emit", "waiting"}, o \in tracked',
                      backing'[want'[o]] = Lower
               PROVE  \E k \in 1 .. Len(table') : table'[k] = want'[o]
    BY Zenon DEF WaiterStaysFindable
  <2>1. PICK h \in Files : h = want[o] /\ h = want'[o] /\ backing'[h] = Lower
    BY <1>1, Wanted, Zenon
  <2>2. backing[h] = Lower /\ ~(h = g /\ backing'[g] = f)
    BY <1>2, <1>3, <1>4, <2>1, Zenon
  <2>3. PICK j \in 1 .. Len(table) : table[j] = h
    BY <1>1, <2>1, <2>2, Zenon DEF IInv, WaiterStaysFindable
  <2> QED
    BY <1>4, <2>1, <2>2, <2>3, Zenon
<1>10. WholeUnlessRaced'
  <2> SUFFICES ASSUME NEW e \in Files, backing'[e] # Lower, backing'[e] \notin raced'
               PROVE  upper'[backing'[e]] = "whole"
    BY Zenon DEF WholeUnlessRaced
  <2>1. backing'[e] = backing[e] \/ backing'[e] = f
    BY <1>3, <1>4, Zenon
  <2>2. CASE backing'[e] = backing[e]
    BY <1>1, <2>2, Zenon DEF IInv, WholeUnlessRaced
  <2>3. CASE backing'[e] = f
    BY <1>1, <1>2, <2>3 DEF IInv, CopyInv
  <2> QED
    BY <2>1, <2>2, <2>3, Zenon
<1> QED
  BY <1>5, <1>6, <1>7, <1>8, <1>9, <1>10, Zenon DEF IInv

LEMMA StepInv == IInv /\ [Next]_vars => IInv'
<1> SUFFICES ASSUME IInv, [Next]_vars PROVE IInv'
  BY Zenon
<1>1. CASE UNCHANGED vars
  <2>1. UNCHANGED <<opc, want, tracked, granted, table, backing, asks, asked, jobs, wpc, work, upper, raced>>
    BY <1>1, Zenon DEF vars
  <2>2. TypeOK'
    BY <2>1, Zenon DEF IInv, TypeOK
  <2>3. AskInv'
    BY <2>1, Zenon DEF IInv, AskInv
  <2> QED
    BY <2>1, <2>2, <2>3, OpenerKeeps, WorkerKeeps, Zenon DEF IInv, daemon, kernel
<1>2. ASSUME NEW o \in Openers, NEW f \in Files, OpenUpper(o, f) \/ OpenLower(o, f) PROVE IInv'
  BY <1>2, OpenKeeps, Zenon
<1>3. ASSUME NEW o \in Openers, OpenerStep(o) PROVE IInv'
  <2>1. CASE Grant(o) \/ Refuse(o)
    <3>1. PICK r \in Files \cup {Lower} : Return(o, r) /\ UNCHANGED table
      <4>1. CASE Grant(o)
        <5>1. opc[o] # "idle" /\ Return(o, backing[want[o]]) /\ UNCHANGED table
          BY <4>1, Zenon DEF Grant
        <5>2. want[o] \in Files
          BY <5>1, Wanted, Zenon
        <5>3. backing[want[o]] \in Files \cup {Lower}
          BY <5>2, Zenon DEF IInv, TypeOK
        <5> QED
          BY <5>1, <5>3, Zenon
      <4>2. CASE Refuse(o)
        BY <4>2, Zenon DEF Refuse
      <4> QED
        BY <2>1, <4>1, <4>2, Zenon
    <3> QED
      BY <3>1, ReturnKeeps, Zenon
  <2> QED
    BY <1>3, <2>1, RegisterKeeps, EmitKeeps, Zenon DEF OpenerStep
<1>4. ASSUME NEW w \in Workers, WorkerStep(w) PROVE IInv'
  BY <1>4, JobKeeps, CopyKeeps, CompleteKeeps, Zenon DEF WorkerStep
<1> QED
  BY <1>1, <1>2, <1>3, <1>4, Zenon DEF Next, Quiet

LEMMA Invariance == Spec => []IInv
BY InitInv, StepInv, PTL DEF Spec

-----------------------------------------------------------------------------
(* Theorems                                                                *)

\* Inodes, table entries and jobs always refer to files that exist, and an
\* upper file is in one of the states the promote job knows.
THEOREM TypeCorrect == Spec => []TypeOK
<1>1. IInv => TypeOK
  BY Zenon DEF IInv
<1> QED
  BY <1>1, Invariance, PTL

\* bdfs_copyup_lookup_and_remove finds an entry for every opener that still
\* waits on the lower layer and whose registration had memory, whatever
\* timeouts, lost events and completions for other files came before.
THEOREM WaitersFindable == Spec => []WaiterStaysFindable
<1>1. IInv => WaiterStaysFindable
  BY Zenon DEF IInv
<1> QED
  BY <1>1, Invariance, PTL

\* bdfs_copyup_complete switches an inode only to a whole copy, unless a
\* second bdfs_job_promote_copyup was started during the copy.
THEOREM WholeCopies == Spec => []WholeUnlessRaced
<1>1. IInv => WholeUnlessRaced
  BY Zenon DEF IInv
<1> QED
  BY <1>1, Invariance, PTL

-----------------------------------------------------------------------------
(* Refinement                                                              *)

\* The inode numbers of two files of the blend differ.
DistinctInodes == \A f, g \in Files : Ino[f] = Ino[g] => f = g

\* A blend inode is only ever switched to the copy of its own file.
OwnCopy == \A f \in Files : backing[f] \in {Lower, f}

\* With distinct inode numbers a completion switches the file it copied.
LEMMA OwnEntry ==
    ASSUME DistinctInodes, IInv, NEW w \in Workers, Complete(w)
    PROVE  \/ UNCHANGED backing
           \/ work[w] \in Files /\ work[w] \in asked /\ backing' = [backing EXCEPT ![work[w]] = work[w]]
<1>1. work[w] \in Files /\ work[w] \in asked
  BY Completed, Zenon
<1>2. \/ UNCHANGED backing
      \/ \E i \in 1 .. Len(table) : /\ Ino[table[i]] = Ino[work[w]] /\ table[i] \in Files
                                    /\ backing' = [backing EXCEPT ![table[i]] = work[w]]
  BY Completed, Zenon
<1>3. ASSUME NEW i \in 1 .. Len(table), Ino[table[i]] = Ino[work[w]], table[i] \in Files,
             backing' = [backing EXCEPT ![table[i]] = work[w]]
      PROVE  backing' = [backing EXCEPT ![work[w]] = work[w]]
  <2>1. table[i] = work[w]
    BY <1>1, <1>3, Zenon DEF DistinctInodes
  <2> QED
    BY <1>3, <2>1, Zenon
<1> QED
  BY <1>1, <1>2, <1>3, Zenon

\* Only a completion switches an inode.
LEMMA StepOwn ==
    ASSUME DistinctInodes, IInv, OwnCopy, [Next]_vars
    PROVE  OwnCopy'
<1>0. backing \in [Files -> Files \cup {Lower}]
  BY Zenon DEF IInv, TypeOK
<1>1. CASE UNCHANGED backing
  BY <1>1, Zenon DEF OwnCopy
<1>2. ASSUME NEW w \in Workers, Complete(w) PROVE OwnCopy'
  <2>1. ASSUME backing' = [backing EXCEPT ![work[w]] = work[w]] PROVE OwnCopy'
    BY <1>0, <2>1, Zenon DEF OwnCopy
  <2> QED
    BY <1>1, <1>2, <2>1, OwnEntry, Zenon
<1>3. UNCHANGED backing \/ \E w \in Workers : Complete(w)
  BY Zenon DEF Next, OpenUpper, OpenLower, OpenerStep, Register, Emit, Grant, Refuse, Return, WorkerStep,
         JobFails, JobCreates, JobFindsCopy, Take, CopyEnds, CopyFails, Quiet, vars, kernel
<1> QED
  BY <1>1, <1>2, <1>3, Zenon

\* What each step does to the variables of the abstract specification.
LEMMA StepRefines ==
    ASSUME DistinctInodes, IInv, OwnCopy, [Next]_vars
    PROVE  [Abstract!Next]_(Abstract!vars)
<1> USE DEF Abstract!Next, Abstract!vars
<1>1. CASE UNCHANGED <<backing, asked, want, granted>>
  BY <1>1, Zenon
<1>2. ASSUME NEW o \in Openers, NEW f \in Files, OpenUpper(o, f) \/ OpenLower(o, f)
      PROVE  Abstract!Ask(o, f)
  <2>1. want[o] = Lower
    BY <1>2, Zenon DEF OpenUpper, OpenLower, IInv, OpenInv
  <2> QED
    BY <1>2, <2>1, Zenon DEF OpenUpper, OpenLower, Abstract!Ask
<1>3. ASSUME NEW o \in Openers, Grant(o) PROVE Abstract!Grant(o)
  <2>1. want[o] \in Files /\ want[o] # Lower
    BY <1>3, Wanted, CopyUpAssumption, Zenon DEF Grant
  <2>2. backing[want[o]] = want[o]
    BY <1>3, <2>1, Zenon DEF Grant, OwnCopy
  <2> QED
    BY <1>3, <2>1, <2>2, Zenon DEF Grant, Return, Abstract!Grant
<1>4. ASSUME NEW o \in Openers, Refuse(o) PROVE Abstract!Refuse(o)
  <2>1. want[o] # Lower
    BY <1>4, Wanted, CopyUpAssumption, Zenon DEF Refuse
  <2> QED
    BY <1>4, <2>1, Zenon DEF Refuse, Return, Abstract!Refuse
<1>5. ASSUME NEW w \in Workers, Complete(w)
      PROVE  UNCHANGED <<backing, asked, want, granted>> \/ \E f \in Files : Abstract!Promote(f)
  <2>1. UNCHANGED <<asked, want, granted>>
    BY <1>5, Zenon DEF Complete
  <2> QED
    BY <1>5, <2>1, OwnEntry, Zenon DEF Abstract!Promote
<1>6. \/ UNCHANGED <<backing, asked, want, granted>>
      \/ \E o \in Openers : \E f \in Files : OpenUpper(o, f) \/ OpenLower(o, f)
      \/ \E o \in Openers : Grant(o) \/ Refuse(o)
      \/ \E w \in Workers : Complete(w)
  BY Zenon DEF Next, OpenerStep, Register, Emit, WorkerStep,
         JobFails, JobCreates, JobFindsCopy, Take, CopyEnds, CopyFails, Quiet, vars, kernel
<1> QED
  BY <1>1, <1>2, <1>3, <1>4, <1>5, <1>6, Zenon

\* The kernel's table, timeouts and ioctl together with the daemon's promote
\* jobs implement the copy-up specification, when no two files of the blend
\* have the same inode number.
THEOREM CopyUpImplements ==
    ASSUME DistinctInodes PROVE Spec => ImplementsCopyUpSpec
<1>1. Init => OwnCopy /\ Abstract!Init
  BY Zenon DEF Init, OwnCopy, Abstract!Init
<1>2. IInv /\ OwnCopy /\ [Next]_vars => OwnCopy' /\ [Abstract!Next]_(Abstract!vars)
  BY StepOwn, StepRefines, Zenon
<1> QED
  BY <1>1, <1>2, Invariance, PTL DEF Spec, ImplementsCopyUpSpec, Abstract!Spec
=============================================================================

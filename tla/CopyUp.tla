------------------------------- MODULE CopyUp -------------------------------
(***************************************************************************)
(* Copy-up on write in the blend file system: the kernel side              *)
(* (bdfs_blend_open and bdfs_blend_setattr through                         *)
(* bdfs_blend_trigger_copyup, the pending copy-up table, the               *)
(* BDFS_IOC_COPYUP_COMPLETE ioctl) together with the daemon's              *)
(* bdfs_job_promote_copyup, which several workers may run at once.         *)
(*                                                                         *)
(* A file of a lower layer has one blend inode here.  The table is keyed   *)
(* by inode number, which bdfs_blend_make_inode copies from the lower      *)
(* file system: files of two DwarFS layers may have the same one.          *)
(***************************************************************************)
EXTENDS Naturals, Sequences

CONSTANTS Openers,   \* processes that open or change blend files
          Files,     \* files that exist in a DwarFS lower layer only
          Lower,     \* marks a backing that is still the lower file
          Ino,       \* inode number of each file
          Workers,   \* daemon workers running promote jobs
          MaxAsks    \* bound: copy-ups triggered in one behaviour

ASSUME CopyUpAssumption ==
    Lower \notin Files /\ DOMAIN Ino = Files /\ MaxAsks \in Nat

VARIABLES
    opc,      \* where an opener is in bdfs_blend_trigger_copyup
    want,     \* the file it opens
    tracked,  \* openers for whose entry bdfs_copyup_register had memory
    granted,  \* the backing its last open was given, Lower for an error
    table,    \* bdfs_copyup_table, first entry first
    backing,  \* bi->real_path: Lower, or the upper copy of some file
    asks,     \* copy-ups triggered so far
    asked,    \* history: files some opener wanted to write
    jobs,     \* promote jobs queued in the daemon
    wpc,      \* where a worker is in bdfs_job_promote_copyup
    work,     \* the file it promotes
    upper,    \* the file on the upper layer: "absent", "partial", "whole"
    raced     \* history: files a job was started for while another copied them

kernel == <<opc, want, tracked, granted, table, backing, asks, asked>>
daemon == <<jobs, wpc, work, upper, raced>>
vars   == <<opc, want, tracked, granted, table, backing, asks, asked,
            jobs, wpc, work, upper, raced>>

Init ==
    /\ opc = [o \in Openers |-> "idle"]
    /\ want = [o \in Openers |-> Lower]
    /\ tracked = {}
    /\ granted = [o \in Openers |-> Lower]
    /\ table = <<>>
    /\ backing = [f \in Files |-> Lower]
    /\ asks = 0
    /\ asked = {}
    /\ jobs = <<>>
    /\ wpc = [w \in Workers |-> "idle"]
    /\ work = [w \in Workers |-> Lower]
    /\ upper = [f \in Files |-> "absent"]
    /\ raced = {}

-----------------------------------------------------------------------------
(* The kernel: openers                                                     *)

\* bdfs_blend_open for writing, bdfs_blend_setattr: bi->is_upper is set, no
\* copy-up is needed.
OpenUpper(o, f) ==
    /\ opc[o] = "idle"
    /\ backing[f] # Lower
    /\ opc' = [opc EXCEPT ![o] = "opening"]
    /\ want' = [want EXCEPT ![o] = f]
    /\ asked' = asked \cup {f}
    /\ UNCHANGED <<tracked, granted, table, backing, asks, daemon>>

\* The same on a DwarFS-backed inode.
OpenLower(o, f) ==
    /\ opc[o] = "idle"
    /\ backing[f] = Lower
    /\ asks < MaxAsks
    /\ asks' = asks + 1
    /\ opc' = [opc EXCEPT ![o] = "register"]
    /\ want' = [want EXCEPT ![o] = f]
    /\ asked' = asked \cup {f}
    /\ UNCHANGED <<tracked, granted, table, backing, daemon>>

\* bdfs_copyup_register: a new entry at the head, holding the inode; without
\* memory it returns silently.
Register(o) ==
    /\ opc[o] = "register"
    /\ opc' = [opc EXCEPT ![o] = "emit"]
    /\ \/ /\ table' = <<want[o]>> \o table
          /\ tracked' = tracked \cup {o}
       \/ UNCHANGED <<table, tracked>>
    /\ UNCHANGED <<want, granted, backing, asks, asked, daemon>>

\* bdfs_emit_event, bdfs_handle_event: a promote job is queued, unless the
\* event is lost on the way.
Emit(o) ==
    /\ opc[o] = "emit"
    /\ opc' = [opc EXCEPT ![o] = "waiting"]
    /\ \/ jobs' = Append(jobs, want[o])
       \/ UNCHANGED jobs
    /\ UNCHANGED <<want, tracked, granted, table, backing, asks, asked,
                   wpc, work, upper, raced>>

Return(o, result) ==
    /\ opc' = [opc EXCEPT ![o] = "idle"]
    /\ granted' = [granted EXCEPT ![o] = result]
    /\ want' = [want EXCEPT ![o] = Lower]
    /\ tracked' = tracked \ {o}
    /\ UNCHANGED <<backing, asks, asked, daemon>>

\* The wait ends with copyup_done set; the open goes on with bi->real_path.
Grant(o) ==
    /\ opc[o] \in {"waiting", "opening"}
    /\ backing[want[o]] # Lower
    /\ Return(o, backing[want[o]])
    /\ UNCHANGED table

\* A bug to check against: only the partition is compared.
MatchesAny(ino, f) == TRUE

\* The comparison of bdfs_copyup_lookup_and_remove (all files are on one
\* partition here).
Matches(ino, f) == Ino[f] = ino

\* bdfs_copyup_lookup_and_remove: the place of the first entry with the inode
\* number, if there is one.
Found(ino) ==
    {i \in DOMAIN table :
        Matches(ino, table[i]) /\ \A j \in 1 .. i - 1 : ~Matches(ino, table[j])}

\* The table after list_del of the i-th entry.
Unlinked(i) == SubSeq(table, 1, i - 1) \o SubSeq(table, i + 1, Len(table))

\* A bug to check against: the error path drops the first entry for the
\* inode number.
RefuseAndForget(o) ==
    LET found == Found(Ino[want[o]]) IN
    /\ opc[o] = "waiting"
    /\ backing[want[o]] = Lower
    /\ Return(o, Lower)
    /\ IF found = {} THEN UNCHANGED table ELSE \E i \in found : table' = Unlinked(i)

\* A bug to check against: the wait starts again instead of returning.
WaitAgain(o) == opc[o] = "waiting" /\ backing[want[o]] = Lower /\ UNCHANGED vars

\* -ETIMEDOUT after 30 seconds or -EINTR on a signal.  The entry, and the
\* reference it holds, stay in the table.
Refuse(o) ==
    /\ opc[o] = "waiting"
    /\ backing[want[o]] = Lower
    /\ Return(o, Lower)
    /\ UNCHANGED table

-----------------------------------------------------------------------------
(* The daemon: bdfs_job_promote_copyup                                     *)

Take(w, next) ==
    /\ wpc[w] = "idle"
    /\ jobs # <<>>
    /\ jobs' = Tail(jobs)
    /\ work' = [work EXCEPT ![w] = Head(jobs)]
    /\ wpc' = [wpc EXCEPT ![w] = next]
    /\ raced' = raced \cup {work[v] : v \in {u \in Workers :
                                wpc[u] = "copying" /\ work[u] = Head(jobs)}}
    /\ UNCHANGED kernel

\* mkdir, open, fstat or the creation failed: no completion.
JobFails(w) == Take(w, "idle") /\ UNCHANGED upper

\* open(dst, O_CREAT | O_EXCL) made the file.
JobCreates(w) ==
    /\ Take(w, "copying")
    /\ upper[Head(jobs)] = "absent"
    /\ upper' = [upper EXCEPT ![Head(jobs)] = "partial"]

\* open(dst, O_CREAT | O_EXCL) found the file: "already copied".
JobFindsCopy(w) ==
    /\ Take(w, "complete")
    /\ upper[Head(jobs)] # "absent"
    /\ UNCHANGED upper

CopyEnds(w) ==
    /\ wpc[w] = "copying"
    /\ upper' = [upper EXCEPT ![work[w]] = "whole"]
    /\ wpc' = [wpc EXCEPT ![w] = "complete"]
    /\ UNCHANGED <<jobs, work, raced, kernel>>

\* A bug to check against: what was copied before the error is kept.
CopyFailsKeepsFile(w) ==
    /\ wpc[w] = "copying"
    /\ wpc' = [wpc EXCEPT ![w] = "idle"]
    /\ UNCHANGED <<jobs, work, upper, raced, kernel>>

\* A read or write error: unlink(dst), no completion.
CopyFails(w) ==
    /\ wpc[w] = "copying"
    /\ upper' = [upper EXCEPT ![work[w]] = "absent"]
    /\ wpc' = [wpc EXCEPT ![w] = "idle"]
    /\ UNCHANGED <<jobs, work, raced, kernel>>

\* BDFS_IOC_COPYUP_COMPLETE: bdfs_copyup_complete resolves the upper path,
\* takes the entry out of the table and switches that entry's inode; without
\* a path or an entry it changes nothing.
Complete(w) ==
    LET found == Found(Ino[work[w]]) IN
    /\ wpc[w] = "complete"
    /\ wpc' = [wpc EXCEPT ![w] = "idle"]
    /\ IF upper[work[w]] = "absent" \/ found = {}
         THEN UNCHANGED <<table, backing>>
         ELSE \E i \in found : /\ backing' = [backing EXCEPT ![table[i]] = work[w]]
                               /\ table' = Unlinked(i)
    /\ UNCHANGED <<opc, want, tracked, granted, asks, asked, jobs, work, upper, raced>>

-----------------------------------------------------------------------------

\* The bound on copy-ups is reached and everybody is done.
Quiet == (\A o \in Openers : opc[o] = "idle") /\ asks = MaxAsks /\ UNCHANGED vars

OpenerStep(o) == Register(o) \/ Emit(o) \/ Grant(o) \/ Refuse(o)

WorkerStep(w) ==
    \/ JobFails(w) \/ JobCreates(w) \/ JobFindsCopy(w)
    \/ CopyEnds(w) \/ CopyFails(w) \/ Complete(w)

Next ==
    \/ \E o \in Openers : \E f \in Files : OpenUpper(o, f) \/ OpenLower(o, f)
    \/ \E o \in Openers : OpenerStep(o)
    \/ \E w \in Workers : WorkerStep(w)
    \/ Quiet

Spec == Init /\ [][Next]_vars

\* The kernel runs an opener and its 30-second timer; nothing is assumed of
\* the daemon.
FairSpec == Spec /\ \A o \in Openers : WF_vars(OpenerStep(o))

-----------------------------------------------------------------------------
(* Properties                                                              *)

\* Types: an upper file is in one of the three states the job knows, and
\* inodes, table entries and jobs refer to files that exist.
TypeOK ==
    /\ opc \in [Openers -> {"idle", "register", "emit", "waiting", "opening"}]
    /\ want \in [Openers -> Files \cup {Lower}]
    /\ tracked \in SUBSET Openers
    /\ granted \in [Openers -> Files \cup {Lower}]
    /\ table \in Seq(Files)
    /\ backing \in [Files -> Files \cup {Lower}]
    /\ asks \in 0..MaxAsks
    /\ asked \in SUBSET Files
    /\ jobs \in Seq(Files)
    /\ wpc \in [Workers -> {"idle", "copying", "complete"}]
    /\ work \in [Workers -> Files \cup {Lower}]
    /\ upper \in [Files -> {"absent", "partial", "whole"}]
    /\ raced \in SUBSET Files

\* No waiter is lost: as long as an opener waits for a file that is still on
\* the lower layer, and its registration had memory, the completion ioctl
\* finds an entry for the file in the table.
WaiterStaysFindable ==
    \A o \in Openers :
        opc[o] \in {"emit", "waiting"} /\ o \in tracked /\ backing[want[o]] = Lower
            => \E i \in 1..Len(table) : table[i] = want[o]

\* A blend inode that was switched to the upper layer is backed by a whole
\* copy, for every file no second job was started for during a copy ("Already
\* copied by a concurrent thread" holds no further), whatever timeouts, lost
\* events, failed copies and retries came before: a copy that failed is
\* unlinked before anybody can be pointed at it.
WholeUnlessRaced ==
    \A f \in Files : backing[f] # Lower /\ backing[f] \notin raced
        => upper[backing[f]] = "whole"

\* "A crashed daemon does not wedge the process forever": every open returns.
OpenReturns == \A o \in Openers : opc[o] # "idle" ~> opc[o] = "idle"

\* The copy-up protocol implements its abstract specification.
Abstract == INSTANCE CopyUpSpec WITH pending <- want
ImplementsCopyUpSpec == Abstract!Spec
=============================================================================

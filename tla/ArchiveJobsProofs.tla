-------------------------- MODULE ArchiveJobsProofs --------------------------
(***************************************************************************)
(* Proofs about ExportJobs and ArchiveJobs, for any workers, jobs,         *)
(* subvolumes, names and paths.                                            *)
(*                                                                         *)
(* The jobs take no lock.  What keeps them apart is that a taken name is   *)
(* refused.  The snapshot keeps two exports of one subvolume apart, the    *)
(* received subvolume keeps two exports with one subvolume id apart, even  *)
(* of different file systems.  Two stores to a path are kept apart by      *)
(* O_EXCL; two imports to a target by btrfs subvolume create.  The         *)
(* inductive invariants say so.  The exports of ArchiveJobs are those of   *)
(* ExportJobs, so the theorems about ExportJobs hold for it.               *)
(***************************************************************************)
EXTENDS ArchiveJobs, TLAPS

-----------------------------------------------------------------------------
(* Exports                                                                 *)

\* A worker that is inside a job has one.
JobInv == \A w \in Workers : pc[w] # "idle" => job[w] \in Jobs

\* The tree of the subvolume of job j, whole unless its btrfs send died.
Faithful(t, j) == t \in Trees /\ t.vol = Volume[j] /\ (t.whole \/ j \in died)

\* A worker past btrfs receive finds its own tree in the extraction
\* directory, and no other worker uses that directory.
TreeInv ==
    /\ \A w \in Workers : pc[w] \in HoldsTree => Faithful(extract[Id(w)], job[w])
    /\ \A w, u \in Workers :
          pc[w] \in HoldsTree /\ pc[u] \in HoldsTree /\ Id(w) = Id(u) => w = u

\* Every image file was built from the tree of its own job, and has the name
\* that job was given.
FileInv ==
    \A n \in Names :
        /\ tmp[n] # Nothing =>
              Faithful(tmp[n].tree, tmp[n].by) /\ Image[tmp[n].by] = n
        /\ image[n] # Nothing =>
              Faithful(image[n].tree, image[n].by) /\ Image[image[n].by] = n

IInv == TypeOK /\ JobInv /\ SnapshotHasOneOwner /\ TreeInv /\ FileInv

-----------------------------------------------------------------------------

\* The attributes of a job are in the sets derived from them.
LEMMA JobAttributes ==
    ASSUME NEW j \in Jobs
    PROVE  Volume[j] \in Volumes /\ SubvolId[Volume[j]] \in Ids /\ Image[j] \in Names
BY Zenon DEF Volumes, Ids, Names

\* Nothing is no tree, no file and no job.
LEMMA NothingElse ==
    Nothing \notin Trees /\ Nothing \notin Files /\ Nothing \notin Jobs
BY NothingAssumption, Zenon

\* Initially nobody holds anything.
LEMMA InitInv == Init => IInv
BY NothingElse
   DEF Init, IInv, TypeOK, JobInv, SnapshotHasOneOwner, OwnsSnapshot, TreeInv,
       FileInv, HoldsSnapshot, HoldsTree

\* Every step keeps the invariant.
LEMMA StepInv == IInv /\ [Next]_vars => IInv'
<1> SUFFICES ASSUME IInv, [Next]_vars PROVE IInv'
  BY Zenon
<1> USE NothingElse, JobAttributes DEF IInv, HoldsSnapshot, HoldsTree
<1>1. ASSUME NEW w \in Workers, NEW j \in Jobs, Snapshot(w, j)
      PROVE  IInv'
  <2> USE <1>1 DEF Snapshot, Goto
  <2>1. TypeOK'
    BY DEF TypeOK, JobInv, TreeInv, Faithful, Vol, Id, Name, Files, Trees
  <2>2. JobInv'
    BY Zenon DEF TypeOK, JobInv
  <2>3. SnapshotHasOneOwner'
    BY DEF TypeOK, JobInv, SnapshotHasOneOwner, OwnsSnapshot, Vol
  <2>4. TreeInv'
    BY DEF TypeOK, JobInv, TreeInv, Faithful, Vol, Id, Trees
  <2>5. FileInv'
    BY Zenon DEF TypeOK, JobInv, TreeInv, FileInv, Faithful, Vol, Id, Name, Files
  <2> QED
    BY <2>1, <2>2, <2>3, <2>4, <2>5, Zenon
<1>2. ASSUME NEW w \in Workers, NEW j \in Jobs, SnapshotFails(w, j)
      PROVE  IInv'
  <2> USE <1>2 DEF SnapshotFails, Goto, files
  <2>1. TypeOK'
    BY Zenon DEF TypeOK, JobInv, TreeInv, Faithful, Vol, Id, Name, Files, Trees
  <2>2. JobInv'
    BY Zenon DEF TypeOK, JobInv
  <2>3. SnapshotHasOneOwner'
    BY DEF TypeOK, JobInv, SnapshotHasOneOwner, OwnsSnapshot, Vol
  <2>4. TreeInv'
    BY DEF TypeOK, JobInv, TreeInv, Faithful, Vol, Id, Trees
  <2>5. FileInv'
    BY Zenon DEF TypeOK, JobInv, TreeInv, FileInv, Faithful, Vol, Id, Name, Files
  <2> QED
    BY <2>1, <2>2, <2>3, <2>4, <2>5, Zenon
<1>3. ASSUME NEW w \in Workers, SendFails(w)
      PROVE  IInv'
  <2> USE <1>3 DEF SendFails, GiveUp, Goto, Result
  <2>1. TypeOK'
    BY Zenon DEF TypeOK, JobInv, TreeInv, Faithful, Vol, Id, Name, Files, Trees
  <2>2. JobInv'
    BY Zenon DEF TypeOK, JobInv
  <2>3. SnapshotHasOneOwner'
    BY DEF TypeOK, JobInv, SnapshotHasOneOwner, OwnsSnapshot, Vol
  <2>4. TreeInv'
    BY DEF TypeOK, JobInv, TreeInv, Faithful, Vol, Id, Trees
  <2>5. FileInv'
    BY Zenon DEF TypeOK, JobInv, TreeInv, FileInv, Faithful, Vol, Id, Name, Files
  <2> QED
    BY <2>1, <2>2, <2>3, <2>4, <2>5, Zenon
<1>4. ASSUME NEW w \in Workers, Receive(w)
      PROVE  IInv'
  <2> USE <1>4 DEF Receive, Goto
  <2>a. job[w] \in Jobs /\ Id(w) \in Ids /\ Vol(w) \in Volumes
    BY Zenon DEF JobInv, Id, Vol
  <2>b. PICK ok \in BOOLEAN :
          /\ extract' = [extract EXCEPT ![Id(w)] = [vol |-> Vol(w), whole |-> ok]]
          /\ died' = died \cup (IF ok THEN {} ELSE {job[w]})
    BY Zenon
  <2> DEFINE t == [vol |-> Vol(w), whole |-> ok]
  <2>c. /\ t \in Trees /\ t # Nothing /\ t.vol = Volume[job[w]]
        /\ t.whole \/ job[w] \in died'
    BY <2>a, <2>b DEF Trees, Vol
  <2>x. died \subseteq died' /\ died' \in SUBSET Jobs /\ job' = job
    BY <2>a, <2>b, Zenon DEF TypeOK
  <2> HIDE DEF t
  <2>d. \A u \in Workers : pc[u] \in HoldsTree => Id(u) # Id(w) /\ Id(u) \in Ids
    BY Zenon DEF JobInv, TreeInv, Faithful, Id, Vol
  <2>e. /\ extract' = [extract EXCEPT ![Id(w)] = t]
        /\ \A u \in Workers : Id(u)' = Id(u) /\ Vol(u)' = Vol(u)
        /\ \A u \in Workers : pc'[u] \in HoldsTree => u = w \/ pc[u] \in HoldsTree
    BY <2>b, Zenon DEF t, Id, Vol, TypeOK
  <2>1. TypeOK'
    BY <2>a, <2>b, <2>c, <2>x, Zenon DEF TypeOK, t
  <2>2. JobInv'
    BY Zenon DEF TypeOK, JobInv
  <2>3. SnapshotHasOneOwner'
    BY DEF TypeOK, JobInv, SnapshotHasOneOwner, OwnsSnapshot, Vol
  <2>4. TreeInv'
    BY <2>a, <2>c, <2>d, <2>e, <2>x DEF TypeOK, TreeInv, Faithful
  <2>5. FileInv'
    BY <2>x, Zenon DEF TypeOK, FileInv, Faithful
  <2> QED
    BY <2>1, <2>2, <2>3, <2>4, <2>5, Zenon
<1>5. ASSUME NEW w \in Workers, ReceiveFails(w)
      PROVE  IInv'
  <2> USE <1>5 DEF ReceiveFails, GiveUp, Goto, Result
  <2>a. job[w] \in Jobs /\ Id(w) \in Ids /\ Vol(w) \in Volumes
    BY Zenon DEF JobInv, Id, Vol
  <2>b. [vol |-> Vol(w), whole |-> FALSE] \in Trees
    BY <2>a, Zenon DEF Trees
  <2>c. extract' \in [Ids -> Trees \cup {Nothing}]
    BY <2>a, <2>b, Zenon DEF TypeOK
  <2>1. TypeOK'
    BY <2>c, Zenon DEF TypeOK, JobInv, Vol
  <2>2. JobInv'
    BY Zenon DEF TypeOK, JobInv
  <2>3. SnapshotHasOneOwner'
    BY DEF TypeOK, JobInv, SnapshotHasOneOwner, OwnsSnapshot, Vol
  <2>4. TreeInv'
    BY <2>a, <2>b DEF TypeOK, JobInv, TreeInv, Faithful, Vol, Id
  <2>5. FileInv'
    BY Zenon DEF TypeOK, JobInv, TreeInv, FileInv, Faithful, Vol, Id, Name, Files
  <2> QED
    BY <2>1, <2>2, <2>3, <2>4, <2>5, Zenon
<1>6. ASSUME NEW w \in Workers, Mkdwarfs(w)
      PROVE  IInv'
  <2> USE <1>6 DEF Mkdwarfs, Goto, NewImage
  <2>1. TypeOK'
    BY Zenon DEF TypeOK, JobInv, TreeInv, Faithful, Vol, Id, Name, Files, Trees
  <2>2. JobInv'
    BY Zenon DEF TypeOK, JobInv
  <2>3. SnapshotHasOneOwner'
    BY DEF TypeOK, JobInv, SnapshotHasOneOwner, OwnsSnapshot, Vol
  <2>4. TreeInv'
    BY SMTT(20) DEF TypeOK, JobInv, TreeInv, Faithful, Vol, Id, Trees
  <2>5. FileInv'
    BY DEF TypeOK, JobInv, TreeInv, FileInv, Faithful, Vol, Id, Name, Files
  <2> QED
    BY <2>1, <2>2, <2>3, <2>4, <2>5, Zenon
<1>7. ASSUME NEW w \in Workers, MkdwarfsEnds(w)
      PROVE  IInv'
  <2> USE <1>7 DEF MkdwarfsEnds, Goto
  <2>a. ASSUME NEW f \in Files \cup {Nothing}
        PROVE  /\ Written(w, f) \in Files \cup {Nothing}
               /\ Written(w, f) # Nothing =>
                    f # Nothing /\ Written(w, f).tree = f.tree /\ Written(w, f).by = f.by
    BY Zenon DEF Files, Written
  <2>1. TypeOK'
    BY <2>a, Zenon DEF TypeOK
  <2>2. JobInv'
    BY Zenon DEF TypeOK, JobInv
  <2>3. SnapshotHasOneOwner'
    BY DEF TypeOK, JobInv, SnapshotHasOneOwner, OwnsSnapshot, Vol
  <2>4. TreeInv'
    BY DEF TypeOK, JobInv, TreeInv, Faithful, Vol, Id, Trees
  <2>5. FileInv'
    BY <2>a DEF TypeOK, FileInv, Faithful
  <2> QED
    BY <2>1, <2>2, <2>3, <2>4, <2>5, Zenon
<1>8. ASSUME NEW w \in Workers, MkdwarfsFails(w)
      PROVE  IInv'
  <2> USE <1>8 DEF MkdwarfsFails, Result, files
  <2>1. TypeOK'
    BY Zenon DEF TypeOK, JobInv, TreeInv, Faithful, Vol, Id, Name, Files, Trees
  <2>2. JobInv'
    BY Zenon DEF TypeOK, JobInv
  <2>3. SnapshotHasOneOwner'
    BY DEF TypeOK, JobInv, SnapshotHasOneOwner, OwnsSnapshot, Vol
  <2>4. TreeInv'
    BY DEF TypeOK, JobInv, TreeInv, Faithful, Vol, Id, Trees
  <2>5. FileInv'
    BY Zenon DEF TypeOK, JobInv, TreeInv, FileInv, Faithful, Vol, Id, Name, Files
  <2> QED
    BY <2>1, <2>2, <2>3, <2>4, <2>5, Zenon
<1>9. ASSUME NEW w \in Workers, Rename(w)
      PROVE  IInv'
  <2> USE <1>9 DEF Rename, Goto, Result
  <2>1. TypeOK'
    BY Zenon DEF TypeOK, JobInv, TreeInv, Faithful, Vol, Id, Name, Files, Trees
  <2>2. JobInv'
    BY Zenon DEF TypeOK, JobInv
  <2>3. SnapshotHasOneOwner'
    BY DEF TypeOK, JobInv, SnapshotHasOneOwner, OwnsSnapshot, Vol
  <2>4. TreeInv'
    BY SMTT(20) DEF TypeOK, JobInv, TreeInv, Faithful, Vol, Id, Trees
  <2>5. FileInv'
    BY DEF TypeOK, JobInv, TreeInv, FileInv, Faithful, Vol, Id, Name, Files
  <2> QED
    BY <2>1, <2>2, <2>3, <2>4, <2>5, Zenon
<1>10. ASSUME NEW w \in Workers, RenameFails(w)
      PROVE  IInv'
  <2> USE <1>10 DEF RenameFails, Goto, Result, files
  <2>1. TypeOK'
    BY Zenon DEF TypeOK, JobInv, TreeInv, Faithful, Vol, Id, Name, Files, Trees
  <2>2. JobInv'
    BY Zenon DEF TypeOK, JobInv
  <2>3. SnapshotHasOneOwner'
    BY DEF TypeOK, JobInv, SnapshotHasOneOwner, OwnsSnapshot, Vol
  <2>4. TreeInv'
    BY DEF TypeOK, JobInv, TreeInv, Faithful, Vol, Id, Trees
  <2>5. FileInv'
    BY Zenon DEF TypeOK, JobInv, TreeInv, FileInv, Faithful, Vol, Id, Name, Files
  <2> QED
    BY <2>1, <2>2, <2>3, <2>4, <2>5, Zenon
<1>11. ASSUME NEW w \in Workers, DeleteSource(w)
      PROVE  IInv'
  <2> USE <1>11 DEF DeleteSource, Goto
  <2>1. TypeOK'
    BY Zenon DEF TypeOK, JobInv, TreeInv, Faithful, Vol, Id, Name, Files, Trees
  <2>2. JobInv'
    BY Zenon DEF TypeOK, JobInv
  <2>3. SnapshotHasOneOwner'
    BY DEF TypeOK, JobInv, SnapshotHasOneOwner, OwnsSnapshot, Vol
  <2>4. TreeInv'
    BY DEF TypeOK, JobInv, TreeInv, Faithful, Vol, Id, Trees
  <2>5. FileInv'
    BY Zenon DEF TypeOK, JobInv, TreeInv, FileInv, Faithful, Vol, Id, Name, Files
  <2> QED
    BY <2>1, <2>2, <2>3, <2>4, <2>5, Zenon
<1>12. ASSUME NEW w \in Workers, CleanupSnapshot(w)
      PROVE  IInv'
  <2> USE <1>12 DEF CleanupSnapshot, Goto
  <2>1. TypeOK'
    BY Zenon DEF TypeOK, JobInv, TreeInv, Faithful, Vol, Id, Name, Files, Trees
  <2>2. JobInv'
    BY Zenon DEF TypeOK, JobInv
  <2>3. SnapshotHasOneOwner'
    BY DEF TypeOK, JobInv, SnapshotHasOneOwner, OwnsSnapshot, Vol
  <2>4. TreeInv'
    BY DEF TypeOK, JobInv, TreeInv, Faithful, Vol, Id, Trees
  <2>5. FileInv'
    BY Zenon DEF TypeOK, JobInv, TreeInv, FileInv, Faithful, Vol, Id, Name, Files
  <2> QED
    BY <2>1, <2>2, <2>3, <2>4, <2>5, Zenon
<1>13. ASSUME NEW w \in Workers, CleanupTree(w)
      PROVE  IInv'
  <2> USE <1>13 DEF CleanupTree, Goto
  <2>1. TypeOK'
    BY DEF TypeOK, JobInv, TreeInv, Faithful, Vol, Id, Name, Files, Trees
  <2>2. JobInv'
    BY Zenon DEF TypeOK, JobInv
  <2>3. SnapshotHasOneOwner'
    BY SMTT(20) DEF TypeOK, JobInv, SnapshotHasOneOwner, OwnsSnapshot, Vol
  <2>4. TreeInv'
    BY DEF TypeOK, JobInv, TreeInv, Faithful, Vol, Id, Trees
  <2>5. FileInv'
    BY Zenon DEF TypeOK, JobInv, TreeInv, FileInv, Faithful, Vol, Id, Name, Files
  <2> QED
    BY <2>1, <2>2, <2>3, <2>4, <2>5, Zenon
<1>14. ASSUME NEW w \in Workers, CleanupImage(w)
      PROVE  IInv'
  <2> USE <1>14 DEF CleanupImage, Goto
  <2>1. TypeOK'
    BY Zenon DEF TypeOK, JobInv, TreeInv, Faithful, Vol, Id, Name, Files, Trees
  <2>2. JobInv'
    BY Zenon DEF TypeOK, JobInv
  <2>3. SnapshotHasOneOwner'
    BY SMTT(20) DEF TypeOK, JobInv, SnapshotHasOneOwner, OwnsSnapshot, Vol
  <2>4. TreeInv'
    BY DEF TypeOK, JobInv, TreeInv, Faithful, Vol, Id, Trees
  <2>5. FileInv'
    BY SMTT(20) DEF TypeOK, JobInv, TreeInv, FileInv, Faithful, Vol, Id, Name, Files
  <2> QED
    BY <2>1, <2>2, <2>3, <2>4, <2>5, Zenon
<1>15. CASE UNCHANGED vars
  BY <1>15 DEF vars, TypeOK, JobInv, SnapshotHasOneOwner, OwnsSnapshot, TreeInv,
     FileInv, Faithful, Vol, Id
<1> QED
  BY <1>1, <1>2, <1>3, <1>4, <1>5, <1>6, <1>7, <1>8, <1>9, <1>10, <1>11,
     <1>12, <1>13, <1>14, <1>15 DEF Next, Step, AllDone

\* bdfs_job_export_to_dwarfs keeps its files' types: an image file is always
\* that of a job, built from a received tree.
THEOREM TypeCorrect == Spec => []TypeOK
BY InitInv, StepInv, PTL DEF Spec, IInv

\* The snapshot .bdfs_snap_<id> is a lock on its subvolume: it exists exactly
\* while one worker exports the subvolume.
THEOREM SnapshotIsLock == Spec => []SnapshotHasOneOwner
BY InitInv, StepInv, PTL DEF Spec, IInv

\* Every published image holds the tree of the subvolume it was made from,
\* although the extraction directory is named by a subvolume id that two file
\* systems may share, and the whole of it unless btrfs send died half-way.
THEOREM ImagesFaithful == Spec => []ImageIsFaithful
<1>1. IInv => ImageIsFaithful
  BY Zenon DEF IInv, FileInv, Faithful, ImageIsFaithful, Trees, TypeOK
<1> QED
  BY <1>1, InitInv, StepInv, PTL DEF Spec

-----------------------------------------------------------------------------
(* Partial images                                                          *)

\* No two jobs were given one image name.
DistinctNames == \A j, k \in Jobs : Image[j] = Image[k] => j = k

\* A job has one worker; a temporary image carries the name of the job that
\* writes it, and is written when that job is about to rename it.
WriteInv ==
    /\ \A w, u \in Workers : job[w] \in Jobs /\ job[w] = job[u] => w = u
    /\ \A w \in Workers : job[w] \notin todo
    /\ \A n \in Names : tmp[n] # Nothing =>
          /\ Image[tmp[n].by] = n
          /\ \A w \in Workers :
                job[w] = tmp[n].by /\ pc[w] = "rename" => tmp[n].written
    /\ ImageNeverPartial

\* Every step keeps the invariant on image files.
LEMMA WriteStep ==
    ASSUME DistinctNames, IInv, WriteInv, [Next]_vars
    PROVE  WriteInv'
<1> USE NothingElse, JobAttributes DEF IInv, TypeOK, JobInv, WriteInv, ImageNeverPartial
<1>1. ASSUME NEW w \in Workers, NEW j \in Jobs, Snapshot(w, j)
      PROVE  WriteInv'
  BY <1>1 DEF Snapshot, Goto
<1>2. ASSUME NEW w \in Workers, NEW j \in Jobs, SnapshotFails(w, j)
      PROVE  WriteInv'
  BY <1>2 DEF SnapshotFails, Goto, files
<1>3. ASSUME NEW w \in Workers, SendFails(w)
      PROVE  WriteInv'
  BY <1>3 DEF SendFails, GiveUp, Goto, Result
<1>4. ASSUME NEW w \in Workers, Receive(w)
      PROVE  WriteInv'
  BY <1>4 DEF Receive, Goto
<1>5. ASSUME NEW w \in Workers, ReceiveFails(w)
      PROVE  WriteInv'
  BY <1>5 DEF ReceiveFails, GiveUp, Goto, Result
<1>6. ASSUME NEW w \in Workers, Mkdwarfs(w)
      PROVE  WriteInv'
  BY <1>6 DEF Mkdwarfs, Goto, NewImage, Name, Files
<1>7. ASSUME NEW w \in Workers, MkdwarfsEnds(w)
      PROVE  WriteInv'
  <2>1. ASSUME NEW f \in Files \cup {Nothing}
        PROVE  /\ Written(w, f) # Nothing => f # Nothing /\ Written(w, f).by = f.by
               /\ Written(w, f) # Nothing /\ (f.written \/ f.by = job[w])
                    => Written(w, f).written
    BY Zenon DEF Files, Written
  <2> QED
    BY <1>7, <2>1 DEF MkdwarfsEnds, Goto
<1>8. ASSUME NEW w \in Workers, MkdwarfsFails(w)
      PROVE  WriteInv'
  BY <1>8 DEF MkdwarfsFails, Result, files
<1>9. ASSUME NEW w \in Workers, Rename(w)
      PROVE  WriteInv'
  BY <1>9 DEF Rename, Goto, Result, DistinctNames, Name, Files
<1>10. ASSUME NEW w \in Workers, RenameFails(w)
      PROVE  WriteInv'
  BY <1>10 DEF RenameFails, Goto, Result, files
<1>11. ASSUME NEW w \in Workers, DeleteSource(w)
      PROVE  WriteInv'
  BY <1>11 DEF DeleteSource, Goto
<1>12. ASSUME NEW w \in Workers, CleanupSnapshot(w)
      PROVE  WriteInv'
  BY <1>12 DEF CleanupSnapshot, Goto
<1>13. ASSUME NEW w \in Workers, CleanupTree(w)
      PROVE  WriteInv'
  BY <1>13 DEF CleanupTree, Goto
<1>14. ASSUME NEW w \in Workers, CleanupImage(w)
      PROVE  WriteInv'
  BY <1>14 DEF CleanupImage, Goto, Name, Files
<1>15. CASE UNCHANGED vars
  BY <1>15, Zenon DEF vars
<1> QED
  BY <1>1, <1>2, <1>3, <1>4, <1>5, <1>6, <1>7, <1>8, <1>9, <1>10, <1>11,
     <1>12, <1>13, <1>14, <1>15, Zenon DEF Next, Step, AllDone

\* If every job has an image name of its own, the backing store never sees a
\* partial image: the rename publishes only what mkdwarfs has finished.
THEOREM NeverPartial ==
    ASSUME DistinctNames
    PROVE  Spec => []ImageNeverPartial
<1>1. Init => IInv /\ WriteInv
  BY InitInv, NothingElse, Zenon DEF Init, WriteInv, ImageNeverPartial
<1>2. IInv /\ WriteInv /\ [Next]_vars => (IInv /\ WriteInv)'
  BY StepInv, WriteStep, Zenon
<1>3. WriteInv => ImageNeverPartial
  BY Zenon DEF WriteInv
<1> QED
  BY <1>1, <1>2, <1>3, PTL DEF Spec

-----------------------------------------------------------------------------
(* Stores and imports                                                      *)

AtStore  == {"create", "copy"}
AtImport == {"extract", "readonly", "undo"}

\* A worker at a job has it, alone, and the job has no result yet.
RunInv ==
    /\ \A w \in Workers : at[w] \in AtStore => other[w] \in Stores
    /\ \A w \in Workers : at[w] \in AtImport => other[w] \in Imports
    /\ \A w \in Workers : at[w] = "idle" => other[w] = Nothing
    /\ \A w, u \in Workers : other[w] = other[u] /\ other[w] # Nothing => w = u
    /\ \A w \in Workers : other[w] # Nothing => other[w] \notin left /\ result[other[w]] = "none"
    /\ \A o \in left : result[o] = "none"

\* The file at a path is an export's, and belongs to the store that copies it
\* or has copied it.
StoreInv ==
    /\ \A w \in Workers : at[w] \in AtStore =>
          fd[w] \in Files /\ fd[w].tree \in Exported(Dest(w))
    /\ \A w \in Workers : at[w] = "copy" =>
          stored[Dest(w)] # Nothing /\ stored[Dest(w)].by = other[w]
    /\ \A p \in Paths : stored[p] # Nothing => stored[p].file.tree \in Exported(p)
    /\ \A s \in Stores : result[s] = "ok" =>
          stored[To[s]] # Nothing /\ stored[To[s]].by = s /\ stored[To[s]].state = "whole"

\* The subvolume at a target belongs to the import that fills it or has
\* filled it.
ImportInv ==
    /\ \A w \in Workers : at[w] \in AtImport =>
          subvol[Tgt(w)] # Nothing /\ subvol[Tgt(w)].by = other[w]
    /\ \A w \in Workers : at[w] = "readonly" =>
          subvol[Tgt(w)].tree \in Exported(Source[other[w]]) /\ other[w] \in ReadOnly
    /\ \A t \in Targets : subvol[t] # Nothing =>
          subvol[t].by \notin left /\ Target[subvol[t].by] = t
    /\ ImportIsFaithful
    /\ FailedImportLeavesNothing

AInv == ArchiveTypeOK /\ RunInv /\ StoreInv /\ ImportInv

-----------------------------------------------------------------------------
(* What is published and who is at work                                    *)

\* A published image holds an exported tree.
LEMMA PublishedIsExported ==
    ASSUME IInv, NEW n \in Names, image[n] # Nothing
    PROVE  image[n] \in Files /\ image[n].tree \in Exported(n)
<1>1. image[n] \in Files /\ image[n].by \in Jobs
  BY Zenon DEF IInv, TypeOK, Files
<1>2. Faithful(image[n].tree, image[n].by) /\ Image[image[n].by] = n
  BY Zenon DEF IInv, FileInv
<1> QED
  BY <1>1, <1>2, Zenon DEF Faithful, Exported

\* What is published is exported also for a path it is stored to.
LEMMA ExportedAtPath ==
    ASSUME NEW s \in Stores
    PROVE  Exported(From[s]) \subseteq Exported(To[s])
<1> SUFFICES ASSUME NEW t \in Exported(From[s]) PROVE t \in Exported(To[s])
  BY Zenon
<1>1. From[s] \in Names /\ From[s] \notin Paths
  BY ArchiveAssumption, Zenon
<1>2. PICK j \in Jobs : /\ Image[j] = From[s] \/ \E q \in Stores : To[q] = From[s] /\ Image[j] = From[q]
                       /\ t.vol = Volume[j] /\ (t.whole \/ j \in died)
  BY Zenon DEF Exported
<1>3. Image[j] = From[s]
  BY <1>1, <1>2, Zenon DEF Paths
<1> QED
  BY <1>2, <1>3, Zenon DEF Exported

\* Facts about the constants: whose job a job is, and that Nothing is none.
LEMMA Constants ==
    /\ \A s \in Stores : To[s] \in Paths /\ From[s] \in Names /\ s \in Others /\ s \notin Imports
    /\ \A i \in Imports : Target[i] \in Targets /\ i \in Others /\ i \notin Stores
    /\ Nothing \notin Others /\ Nothing \notin Files /\ Nothing \notin Copies
    /\ Nothing \notin Subvols /\ Nothing \notin Trees
    /\ \A o \in Others : o \in Stores \/ o \in Imports
BY ArchiveAssumption, NothingAssumption, NothingAssumption2, Zenon DEF Paths, Targets, Others

\* The types of what all jobs share.
RunType ==
    /\ left \in SUBSET Others
    /\ at \in [Workers -> {"idle", "create", "copy", "extract", "readonly", "undo"}]
    /\ other \in [Workers -> Others \cup {Nothing}]
    /\ result \in [Others -> {"none", "ok", "error"}]

\* Of the four ways in which a worker goes on: it takes a job, which then is
\* its own.
LEMMA TakeRuns ==
    ASSUME AInv, NEW w \in Workers, NEW o \in Others, NEW there, Take(w, o, there),
           \/ o \in Stores /\ there = "create"
           \/ o \in Imports /\ there = "extract"
    PROVE  RunType' /\ RunInv'
<1> USE Constants DEF AInv, ArchiveTypeOK, RunInv, AtStore, AtImport, Take, RunType
<1>1. at' = [at EXCEPT ![w] = there] /\ other' = [other EXCEPT ![w] = o]
      /\ left' = left \ {o} /\ result' = result /\ o \in left /\ result[o] = "none"
  BY Zenon
<1>2. RunType'
  BY <1>1
<1> QED
  BY <1>1, <1>2

\* A job that is refused at its first step is over.
LEMMA RefuseRuns ==
    ASSUME AInv, NEW w \in Workers, NEW o \in Others, Refuse(w, o)
    PROVE  RunType' /\ RunInv'
BY Constants DEF AInv, ArchiveTypeOK, RunInv, AtStore, AtImport, Refuse, RunType

\* A worker that moves on has the same job.
LEMMA MoveRuns ==
    ASSUME AInv, NEW w \in Workers, NEW from, NEW to, Move(w, from, to),
           \/ from \in AtStore /\ to \in AtStore
           \/ from \in AtImport /\ to \in AtImport
    PROVE  RunType' /\ RunInv'
BY Constants DEF AInv, ArchiveTypeOK, RunInv, AtStore, AtImport, Move, RunType

\* A worker that returns is free, and its job has a result.
LEMMA ReturnRuns ==
    ASSUME AInv, NEW w \in Workers, NEW from, NEW r \in {"ok", "error"}, Return(w, from, r),
           from \in AtStore \cup AtImport
    PROVE  RunType' /\ RunInv'
<1> USE Constants DEF AInv, ArchiveTypeOK, RunInv, AtStore, AtImport, Return, RunType
<1>1. other[w] \in Others /\ other[w] # Nothing /\ other[w] \notin left
  OBVIOUS
<1>2. /\ at' = [at EXCEPT ![w] = "idle"] /\ other' = [other EXCEPT ![w] = Nothing]
      /\ result' = [result EXCEPT ![other[w]] = r] /\ left' = left
  BY Zenon
<1>3. RunType'
  BY <1>1, <1>2
<1> QED
  BY <1>1, <1>2, <1>3

\* A worker in a store shares neither the job nor the file that it made.
LEMMA StoreWorker ==
    ASSUME AInv, NEW w \in Workers, at[w] \in AtStore
    PROVE  /\ other[w] \in Stores /\ other[w] # Nothing /\ Dest(w) \in Paths
           /\ result[other[w]] = "none"
           /\ fd[w] \in Files /\ fd[w].tree \in Exported(Dest(w))
           /\ \A u \in Workers : u # w => other[u] # other[w]
           /\ at[w] = "copy" => \A u \in Workers : u # w /\ at[u] = "copy" => Dest(u) # Dest(w)
BY Constants DEF AInv, ArchiveTypeOK, RunInv, StoreInv, Dest, AtStore

\* The same for a worker in an import.
LEMMA ImportWorker ==
    ASSUME AInv, NEW w \in Workers, at[w] \in AtImport
    PROVE  /\ other[w] \in Imports /\ other[w] # Nothing /\ Tgt(w) \in Targets
           /\ result[other[w]] = "none" /\ other[w] \notin left
           /\ subvol[Tgt(w)] \in Subvols /\ subvol[Tgt(w)].by = other[w]
           /\ \A u \in Workers : u # w => other[u] # other[w]
           /\ \A u \in Workers : u # w /\ at[u] \in AtImport => Tgt(u) # Tgt(w)
BY Constants, SMTT(20) DEF AInv, ArchiveTypeOK, RunInv, ImportInv, Tgt, AtImport

\* Steps that leave the files and the workers of stores alone.
LEMMA StoresKept ==
    ASSUME AInv, UNCHANGED <<vars, stored>>,
           \A u \in Workers : at'[u] \in AtStore =>
               at[u] = at'[u] /\ other'[u] = other[u] /\ fd'[u] = fd[u],
           \A s \in Stores : result'[s] = "ok" => result[s] = "ok"
    PROVE  StoreInv'
<1>1. \A p : Exported(p)' = Exported(p)
  BY Zenon DEF vars, Exported
<1> QED
  BY <1>1, SMTT(20) DEF AInv, StoreInv, Dest, AtStore

\* The same for the imports; a refused import was never at work.
LEMMA ImportsKept ==
    ASSUME AInv, UNCHANGED <<vars, subvol, kept>>,
           left' \in SUBSET left,
           \A u \in Workers : at'[u] \in AtImport =>
               at[u] = at'[u] /\ other'[u] = other[u],
           \A i \in Imports : result'[i] = result[i]
                                \/ (result'[i] = "error" /\ i \in left)
    PROVE  ImportInv'
<1>1. \A p : Exported(p)' = Exported(p)
  BY Zenon DEF vars, Exported
<1>2. ImportIsFaithful'
  BY <1>1 DEF AInv, ImportInv, ImportIsFaithful
<1>3. FailedImportLeavesNothing'
  BY Constants DEF AInv, ImportInv, FailedImportLeavesNothing, ArchiveTypeOK
<1>4. \A w \in Workers : at'[w] \in AtImport =>
          subvol'[Target[other'[w]]] # Nothing
          /\ subvol'[Target[other'[w]]].by = other'[w]
  BY Zenon DEF AInv, ImportInv, Tgt
<1>5. \A w \in Workers : at'[w] = "readonly" =>
          subvol'[Target[other'[w]]].tree \in Exported(Source[other[w]])
          /\ other'[w] = other[w] /\ other'[w] \in ReadOnly
  BY Zenon DEF AInv, ImportInv, Tgt, AtImport
<1> QED
  BY <1>1, <1>2, <1>3, <1>4, <1>5, Zenon DEF AInv, ImportInv, Tgt, AtImport

\* The record of the file that a store writes.
LEMMA CopyRecord ==
    ASSUME NEW w, other[w] \in Stores, fd[w] \in Files, NEW x \in {"partial", "whole"}
    PROVE  /\ Copy(w, x) \in Copies /\ Copy(w, x) # Nothing
           /\ Copy(w, x).by = other[w] /\ Copy(w, x).file = fd[w] /\ Copy(w, x).state = x
<1>1. Copy(w, x) \in Copies
  BY Zenon DEF Copy, Copies
<1>2. Copy(w, x).by = other[w] /\ Copy(w, x).file = fd[w] /\ Copy(w, x).state = x
  BY Zenon DEF Copy
<1> QED
  BY <1>1, <1>2, Constants, Zenon

\* The record of the subvolume that an import makes.
LEMMA SubvolRecord ==
    ASSUME NEW i \in Imports, NEW t \in Trees \cup {Nothing}, NEW x \in {"rw", "ro"}
    PROVE  /\ New(i, t, x) \in Subvols /\ New(i, t, x) # Nothing
           /\ New(i, t, x).by = i /\ New(i, t, x).tree = t /\ New(i, t, x).mode = x
<1>1. New(i, t, x) \in Subvols
  BY Zenon DEF New, Subvols
<1>2. New(i, t, x).by = i /\ New(i, t, x).tree = t /\ New(i, t, x).mode = x
  BY Zenon DEF New
<1> QED
  BY <1>1, <1>2, Constants, Zenon

\* A job that is refused changes nothing but its result.
LEMMA RefuseKeeps ==
    ASSUME AInv, NEW w \in Workers, NEW o \in Others, Refuse(w, o)
    PROVE  AInv'
<1> USE DEF Refuse
<1>1. RunType' /\ RunInv'
  BY RefuseRuns, Zenon
<1>2. ArchiveTypeOK'
  BY <1>1, Zenon DEF AInv, ArchiveTypeOK, RunType
<1>3. StoreInv'
  BY StoresKept DEF AInv, ArchiveTypeOK
<1>4. ImportInv'
  BY ImportsKept, Constants, Zenon DEF AInv, ArchiveTypeOK
<1> QED
  BY <1>1, <1>2, <1>3, <1>4, Zenon DEF AInv

-----------------------------------------------------------------------------
(* The store jobs                                                          *)

\* The first step of a store: it has an exported tree open.
LEMMA StoreOpenKeeps ==
    ASSUME IInv, AInv, NEW w \in Workers, NEW s \in Stores, StoreOpen(w, s)
    PROVE  AInv'
<1> USE Constants DEF StoreOpen
<1>1. image[From[s]] \in Files /\ image[From[s]].tree \in Exported(To[s])
  BY PublishedIsExported, ExportedAtPath, Zenon
<1>2. RunType' /\ RunInv'
  BY TakeRuns, Zenon
<1>3. ArchiveTypeOK'
  BY <1>1, <1>2, Zenon DEF AInv, ArchiveTypeOK, RunType, Take
<1>4. \A p : Exported(p)' = Exported(p)
  BY Zenon DEF vars, Exported, Take
<1>5. StoreInv'
  <2>1. \A u \in Workers : at'[u] \in AtStore =>
            fd'[u] \in Files /\ fd'[u].tree \in Exported(To[other'[u]])
    BY <1>1 DEF AInv, ArchiveTypeOK, StoreInv, Dest, Take
  <2>2. \A u \in Workers : at'[u] = "copy" =>
            stored'[To[other'[u]]] # Nothing /\ stored'[To[other'[u]]].by = other'[u]
    BY Zenon DEF AInv, ArchiveTypeOK, StoreInv, Dest, Take
  <2> QED
    BY <1>4, <2>1, <2>2, SMTT(20) DEF AInv, StoreInv, Dest, Take
<1>6. ImportInv'
  BY ImportsKept, Zenon DEF Take, AInv, ArchiveTypeOK, AtImport
<1> QED
  BY <1>2, <1>3, <1>5, <1>6, Zenon DEF AInv

\* A worker in a store puts x at its path, where there is no file of another:
\* the invariant only asks about its own.
LEMMA OwnPath ==
    ASSUME AInv, NEW w \in Workers, at[w] \in AtStore, UNCHANGED vars,
           NEW x \in Copies \cup {Nothing},
           x # Nothing => x.by = other[w] /\ x.file.tree \in Exported(Dest(w)),
           stored[Dest(w)] # Nothing => stored[Dest(w)].by = other[w],
           stored' = [stored EXCEPT ![Dest(w)] = x],
           \A u \in Workers : u # w => at'[u] = at[u] /\ other'[u] = other[u] /\ fd'[u] = fd[u],
           at'[w] \in AtStore => x # Nothing /\ other'[w] = other[w] /\ fd'[w] = fd[w],
           \A s \in Stores : s # other[w] => result'[s] = result[s],
           result'[other[w]] = "ok" => x # Nothing /\ x.state = "whole"
    PROVE  StoreInv'
<1>1. \A p : Exported(p)' = Exported(p)
  BY Zenon DEF vars, Exported
<1>2. /\ other[w] \in Stores /\ Dest(w) \in Paths
      /\ fd[w] \in Files /\ fd[w].tree \in Exported(Dest(w))
      /\ \A u \in Workers : u # w => other[u] # other[w]
  BY StoreWorker, Zenon
<1>3. stored'[Dest(w)] = x /\ \A p \in Paths : p # Dest(w) => stored'[p] = stored[p]
  BY <1>2, Zenon DEF AInv, ArchiveTypeOK
<1>4. \A u \in Workers : at'[u] \in AtStore =>
          fd'[u] \in Files /\ fd'[u].tree \in Exported(To[other'[u]])
  BY <1>2, Zenon DEF AInv, StoreInv, Dest
<1>5. ASSUME NEW u \in Workers, at'[u] = "copy"
      PROVE  stored'[To[other'[u]]] # Nothing /\ stored'[To[other'[u]]].by = other'[u]
  <2>1. CASE u = w
    BY <1>3, <1>5, <2>1, Zenon DEF AtStore, Dest
  <2>2. CASE u # w
    <3>1. /\ stored[Dest(u)] # Nothing /\ stored[Dest(u)].by = other[u]
          /\ Dest(u) \in Paths /\ other'[u] = other[u] /\ other[u] # other[w]
      BY <1>2, <1>5, <2>2, StoreWorker, Zenon DEF AInv, StoreInv, AtStore
    <3> QED
      BY <1>3, <3>1, Zenon DEF Dest
  <2> QED
    BY <2>1, <2>2, Zenon
<1>6. \A p \in Paths : stored'[p] # Nothing => stored'[p].file.tree \in Exported(p)
  BY <1>3, Zenon DEF AInv, StoreInv
<1>7. ASSUME NEW s \in Stores, result'[s] = "ok"
      PROVE  stored'[To[s]] # Nothing /\ stored'[To[s]].by = s /\ stored'[To[s]].state = "whole"
  <2>1. CASE s = other[w]
    BY <1>3, <1>7, <2>1, Zenon DEF Dest
  <2>2. CASE s # other[w]
    <3>1. stored[To[s]] # Nothing /\ stored[To[s]].by = s /\ stored[To[s]].state = "whole"
      BY <1>7, <2>2, Zenon DEF AInv, StoreInv
    <3> QED
      BY <1>3, <2>2, <3>1, Constants, Zenon
  <2> QED
    BY <2>1, <2>2, Zenon
<1> QED
  BY <1>1, <1>4, <1>5, <1>6, <1>7, Zenon DEF StoreInv, Dest

\* The file that a store creates is its own, because of O_EXCL.
LEMMA StoreCreateKeeps ==
    ASSUME AInv, NEW w \in Workers, StoreCreate(w)
    PROVE  AInv'
<1>1. /\ Move(w, "create", "copy") /\ stored[Dest(w)] = Nothing
      /\ stored' = [stored EXCEPT ![Dest(w)] = Copy(w, "partial")]
      /\ UNCHANGED <<fd, subvol, kept>>
  BY Zenon DEF StoreCreate
<1>2. at[w] \in AtStore
  BY <1>1, Zenon DEF Move, AtStore
<1>3. /\ other[w] \in Stores /\ Dest(w) \in Paths /\ result[other[w]] = "none"
      /\ fd[w] \in Files /\ fd[w].tree \in Exported(Dest(w))
  BY <1>2, StoreWorker, Zenon
<1>4. RunType' /\ RunInv'
  BY <1>1, MoveRuns, Zenon DEF AtStore
<1> DEFINE c == Copy(w, "partial")
<1>5. c \in Copies /\ c.by = other[w] /\ c.file.tree \in Exported(Dest(w)) /\ c # Nothing
  BY <1>3, CopyRecord, Zenon
<1>6. stored' = [stored EXCEPT ![Dest(w)] = c]
  BY <1>1, Zenon
<1> HIDE DEF c
<1>7. ArchiveTypeOK'
  BY <1>1, <1>3, <1>4, <1>5, <1>6 DEF AInv, ArchiveTypeOK, RunType
<1>8. StoreInv'
  BY <1>1, <1>2, <1>3, <1>5, <1>6, OwnPath, Zenon DEF Move, AInv, ArchiveTypeOK
<1>9. ImportInv'
  BY <1>1, ImportsKept, Zenon DEF Move, AInv, ArchiveTypeOK, AtImport
<1> QED
  BY <1>4, <1>7, <1>8, <1>9, Zenon DEF AInv

\* What is known of a step at which the store of w ends with result r.
StoreEnded(w, from, r) ==
    /\ RunType' /\ RunInv' /\ ImportInv' /\ fd' \in [Workers -> Files \cup {Nothing}]
    /\ at[w] \in AtStore /\ at[w] = from /\ other[w] \in Stores /\ Dest(w) \in Paths
    /\ at'[w] = "idle" /\ result'[other[w]] = r /\ UNCHANGED vars
    /\ \A u \in Workers : u # w => at'[u] = at[u] /\ other'[u] = other[u] /\ fd'[u] = fd[u]
    /\ \A s \in Stores : s # other[w] => result'[s] = result[s]

\* A worker whose store ends is free, and no import notices.
LEMMA StoreReturns ==
    ASSUME AInv, NEW w \in Workers, NEW from \in AtStore, NEW r \in {"ok", "error"},
           Return(w, from, r), UNCHANGED <<subvol, kept>>
    PROVE  StoreEnded(w, from, r)
<1>1. at[w] \in AtStore /\ at[w] = from /\ UNCHANGED <<vars, left>>
  BY Zenon DEF Return
<1>2. other[w] \in Stores /\ Dest(w) \in Paths
  BY <1>1, StoreWorker, Zenon
<1>3. RunType' /\ RunInv'
  BY ReturnRuns, Zenon
<1>4. /\ at'[w] = "idle" /\ result'[other[w]] = r
      /\ \A u \in Workers : u # w => at'[u] = at[u] /\ other'[u] = other[u] /\ fd'[u] = fd[u]
      /\ \A o \in Others : o # other[w] => result'[o] = result[o]
      /\ fd' \in [Workers -> Files \cup {Nothing}]
  BY <1>2, Constants, Zenon DEF Return, AInv, ArchiveTypeOK
<1>5. ImportInv'
  BY <1>1, <1>2, <1>4, ImportsKept, Constants, Zenon DEF AtImport
<1> QED
  BY <1>1, <1>2, <1>3, <1>4, <1>5, Constants, Zenon DEF StoreEnded

\* A store that could not create its file changes none.
LEMMA StoreCreateFailsKeeps ==
    ASSUME AInv, NEW w \in Workers, StoreCreateFails(w)
    PROVE  AInv'
<1>1. Return(w, "create", "error") /\ UNCHANGED <<stored, subvol, kept>>
  BY Zenon DEF StoreCreateFails
<1>2. StoreEnded(w, "create", "error")
  BY <1>1, StoreReturns, Zenon DEF AtStore
<1>3. ArchiveTypeOK'
  BY <1>1, <1>2, Zenon DEF AInv, ArchiveTypeOK, RunType, StoreEnded
<1>4. StoreInv'
  BY <1>1, <1>2, StoresKept, Zenon DEF AtStore, StoreEnded
<1> QED
  BY <1>2, <1>3, <1>4, Zenon DEF AInv, StoreEnded

\* A store that copied its file, or failed to and unlinked it if that worked,
\* touches no file but its own.
LEMMA StoreEndKeeps ==
    ASSUME AInv, NEW w \in Workers, StoreCopy(w) \/ StoreCopyFails(w)
    PROVE  AInv'
<1>1. PICK r \in {"ok", "error"} :
        /\ Return(w, "copy", r) /\ UNCHANGED <<subvol, kept>>
        /\ \/ r = "error" /\ stored' = stored
           \/ r = "error" /\ stored' = [stored EXCEPT ![Dest(w)] = Nothing]
           \/ r = "ok" /\ stored' = [stored EXCEPT ![Dest(w)] = Copy(w, "whole")]
  BY Zenon DEF StoreCopy, StoreCopyFails
<1>2. StoreEnded(w, "copy", r)
  BY <1>1, StoreReturns, Zenon DEF AtStore
<1>3. /\ stored[Dest(w)] # Nothing /\ stored[Dest(w)].by = other[w]
      /\ stored[Dest(w)] \in Copies \cup {Nothing}
      /\ stored[Dest(w)].file.tree \in Exported(Dest(w))
  BY <1>2, Zenon DEF AInv, StoreInv, ArchiveTypeOK, StoreEnded
<1>4. fd[w] \in Files /\ fd[w].tree \in Exported(Dest(w))
  BY <1>2, StoreWorker, Zenon DEF StoreEnded
<1>5. /\ Copy(w, "whole") \in Copies /\ Copy(w, "whole").by = other[w]
      /\ Copy(w, "whole").file = fd[w] /\ Copy(w, "whole").state = "whole"
  BY <1>2, <1>4, CopyRecord, Zenon DEF StoreEnded
<1>6. stored = [stored EXCEPT ![Dest(w)] = stored[Dest(w)]]
  BY <1>2, Zenon DEF AInv, ArchiveTypeOK, StoreEnded
<1>7. PICK x \in Copies \cup {Nothing} :
        /\ stored' = [stored EXCEPT ![Dest(w)] = x]
        /\ x # Nothing => x.by = other[w] /\ x.file.tree \in Exported(Dest(w))
        /\ r = "ok" => x # Nothing /\ x.state = "whole"
  BY <1>1, <1>3, <1>4, <1>5, <1>6, Constants, Zenon
<1>8. ArchiveTypeOK'
  BY <1>1, <1>2, <1>7, Zenon DEF AInv, ArchiveTypeOK, RunType, StoreEnded
<1>9. StoreInv'
  BY <1>2, <1>3, <1>7, OwnPath, Zenon DEF AtStore, StoreEnded
<1> QED
  BY <1>2, <1>8, <1>9, Zenon DEF AInv, StoreEnded

-----------------------------------------------------------------------------
(* The steps of exports                                                    *)

\* A step of a store or an import leaves the exports alone.
LEMMA StepOfExports == [ArchiveNext]_allvars => [Next]_vars
<1>1. ASSUME NEW w \in Workers, OtherStep(w) PROVE UNCHANGED vars
  BY <1>1, Zenon DEF OtherStep, StoreOpen, StoreOpenFails, StoreCreate, StoreCreateFails,
     StoreCopy, StoreCopyFails, ImportCreate, ImportCreateFails, ImportExtract, ImportFails,
     ImportReadOnly, ImportUndo, Take, Refuse, Move, Return
<1>2. ASSUME NEW w \in Workers, ExportStep(w) PROVE Next
  BY <1>2, Zenon DEF ExportStep, Next
<1>3. AllIdle \/ UNCHANGED allvars => UNCHANGED vars
  BY Zenon DEF AllIdle, allvars
<1> QED
  BY <1>1, <1>2, <1>3, Zenon DEF ArchiveNext

\* A death of btrfs send stays in the log, so what counts as exported grows.
LEMMA ExportedGrows ==
    ASSUME [Next]_vars, NEW p
    PROVE  Exported(p) \subseteq Exported(p)'
<1>1. died \subseteq died'
  BY Zenon DEF Next, Step, AllDone, vars, Snapshot, SnapshotFails, SendFails, GiveUp,
     Receive, ReceiveFails, Mkdwarfs, MkdwarfsEnds, MkdwarfsFails, Rename,
     RenameFails, DeleteSource, CleanupSnapshot, CleanupTree, CleanupImage
<1> QED
  BY <1>1, Zenon DEF Exported

\* The steps of exports keep the invariant of the other jobs.
LEMMA ExportKeeps ==
    ASSUME AInv, [Next]_vars, UNCHANGED archive
    PROVE  AInv'
<1> USE DEF archive
<1>1. \A p : Exported(p) \subseteq Exported(p)'
  BY ExportedGrows, Zenon
<1>2. ArchiveTypeOK' /\ RunInv'
  BY Zenon DEF AInv, ArchiveTypeOK, RunInv
<1>3. StoreInv'
  BY <1>1, Zenon DEF AInv, StoreInv, Dest
<1>4. ImportInv'
  BY <1>1, Zenon DEF AInv, ImportInv, ImportIsFaithful, FailedImportLeavesNothing, Tgt
<1> QED
  BY <1>2, <1>3, <1>4, Zenon DEF AInv

-----------------------------------------------------------------------------
(* The import jobs                                                         *)

\* What dwarfsextract reads was exported to that image.
LEMMA ReadableIsExported ==
    ASSUME IInv, AInv, NEW i \in Imports, NEW t \in Readable(Source[i])
    PROVE  t \in Exported(Source[i]) /\ t \in Trees
<1>1. Source[i] \in Names \/ (Source[i] \notin Names /\ Source[i] \in Paths)
  BY ArchiveAssumption, Zenon
<1>2. CASE Source[i] \in Names
  BY <1>2, PublishedIsExported, Zenon DEF Readable, Exported
<1>3. CASE Source[i] \notin Names /\ Source[i] \in Paths
  BY <1>3, Zenon DEF Readable, AInv, StoreInv, Exported
<1> QED
  BY <1>1, <1>2, <1>3, Zenon

\* A worker in an import puts x at its target: no other import has a
\* subvolume there, so the invariant only asks about its own.
LEMMA OwnTarget ==
    ASSUME AInv, NEW w \in Workers, at[w] \in AtImport,
           UNCHANGED <<vars, left>>, kept \subseteq kept',
           NEW x \in Subvols \cup {Nothing}, x # Nothing => x.by = other[w],
           subvol' = [subvol EXCEPT ![Tgt(w)] = x],
           \A u \in Workers : u # w => at'[u] = at[u] /\ other'[u] = other[u],
           at'[w] \in AtImport => x # Nothing /\ other'[w] = other[w],
           at'[w] = "readonly" => x.tree \in Exported(Source[other[w]]) /\ other[w] \in ReadOnly,
           \A i \in Imports : i # other[w] => result'[i] = result[i],
           result'[other[w]] = "ok" =>
               /\ x # Nothing /\ x.tree \in Exported(Source[other[w]])
               /\ other[w] \in ReadOnly => x.mode = "ro",
           result'[other[w]] = "error" /\ other[w] \notin kept' => x = Nothing
    PROVE  ImportInv'
<1>1. \A p : Exported(p)' = Exported(p)
  BY Zenon DEF vars, Exported
<1>2. /\ other[w] \in Imports /\ Tgt(w) \in Targets /\ other[w] \notin left
      /\ subvol[Tgt(w)] \in Subvols /\ subvol[Tgt(w)].by = other[w]
      /\ \A u \in Workers : u # w /\ at[u] \in AtImport => Tgt(u) # Tgt(w) /\ Tgt(u) \in Targets
  BY ImportWorker, Zenon
<1>3. subvol'[Tgt(w)] = x /\ \A t \in Targets : t # Tgt(w) => subvol'[t] = subvol[t]
  BY <1>2, Zenon DEF AInv, ArchiveTypeOK
<1>4. \A u \in Workers : at'[u] \in AtImport =>
          subvol'[Target[other'[u]]] # Nothing /\ subvol'[Target[other'[u]]].by = other'[u]
  BY <1>2, <1>3, SMTT(20) DEF AInv, ImportInv, Tgt
<1>5. \A u \in Workers : at'[u] = "readonly" =>
          subvol'[Target[other'[u]]].tree \in Exported(Source[other'[u]]) /\ other'[u] \in ReadOnly
  BY <1>2, <1>3, SMTT(20) DEF AInv, ImportInv, Tgt, AtImport
<1>6. \A t \in Targets : subvol'[t] # Nothing =>
          subvol'[t].by \notin left' /\ Target[subvol'[t].by] = t
  BY <1>2, <1>3 DEF AInv, ImportInv, Tgt
<1>7. ImportIsFaithful'
  <2> SUFFICES ASSUME NEW i \in Imports, result'[i] = "ok"
               PROVE  /\ subvol'[Target[i]] # Nothing /\ subvol'[Target[i]].by = i
                      /\ subvol'[Target[i]].tree \in Exported(Source[i])
                      /\ i \in ReadOnly => subvol'[Target[i]].mode = "ro"
    BY <1>1 DEF ImportIsFaithful
  <2>1. CASE i = other[w]
    BY <1>3, <2>1, Zenon DEF Tgt
  <2>2. CASE i # other[w]
    <3>1. result[i] = "ok"
      BY <2>2, Zenon
    <3>2. /\ subvol[Target[i]] # Nothing /\ subvol[Target[i]].by = i
          /\ subvol[Target[i]].tree \in Exported(Source[i])
          /\ i \in ReadOnly => subvol[Target[i]].mode = "ro"
      BY <3>1, Zenon DEF AInv, ImportInv, ImportIsFaithful
    <3> QED
      BY <1>2, <1>3, <2>2, <3>2, Constants, Zenon
  <2> QED
    BY <2>1, <2>2, Zenon
<1>8. FailedImportLeavesNothing'
  <2> SUFFICES ASSUME NEW i \in Imports, result'[i] = "error", i \notin kept'
               PROVE  subvol'[Target[i]] = Nothing \/ subvol'[Target[i]].by # i
    BY Zenon DEF FailedImportLeavesNothing
  <2>1. CASE i = other[w]
    BY <1>3, <2>1, Zenon DEF Tgt
  <2>2. CASE i # other[w]
    <3>1. subvol[Target[i]] = Nothing \/ subvol[Target[i]].by # i
      BY <2>2, Zenon DEF AInv, ImportInv, FailedImportLeavesNothing
    <3> QED
      BY <1>2, <1>3, <2>2, <3>1, Constants
  <2> QED
    BY <2>1, <2>2, Zenon
<1> QED
  BY <1>1, <1>4, <1>5, <1>6, <1>7, <1>8, SMTT(20) DEF ImportInv, Tgt

\* An import makes its subvolume where there was none.
LEMMA ImportCreateKeeps ==
    ASSUME AInv, NEW w \in Workers, NEW i \in Imports, ImportCreate(w, i)
    PROVE  AInv'
<1> USE Constants DEF ImportCreate
<1>1. RunType' /\ RunInv'
  BY TakeRuns, Zenon
<1> DEFINE x == New(i, Nothing, "rw")
<1>2. x \in Subvols /\ x.by = i /\ x # Nothing
  BY SubvolRecord
<1>3. subvol' = [subvol EXCEPT ![Target[i]] = x]
  BY Zenon
<1> HIDE DEF x
<1>4. ArchiveTypeOK'
  BY <1>1, <1>2, <1>3 DEF AInv, ArchiveTypeOK, RunType, Take
<1>5. StoreInv'
  BY StoresKept, Zenon DEF Take, AInv, ArchiveTypeOK, AtStore
<1>6. \A p : Exported(p)' = Exported(p)
  BY Zenon DEF vars, Exported, Take
<1>7. subvol'[Target[i]] = x /\ \A t \in Targets : t # Target[i] => subvol'[t] = subvol[t]
  BY <1>3 DEF AInv, ArchiveTypeOK
<1>8. ImportInv'
  <2>1. \A u \in Workers : at'[u] \in AtImport =>
            subvol'[Target[other'[u]]] # Nothing /\ subvol'[Target[other'[u]]].by = other'[u]
    <3>1. \A u \in Workers : u # w /\ at'[u] \in AtImport =>
              /\ other'[u] = other[u] /\ Tgt(u) \in Targets
              /\ subvol[Tgt(u)] # Nothing /\ subvol[Tgt(u)].by = other[u]
      BY ImportWorker DEF Take, AInv, ArchiveTypeOK, ImportInv
    <3>2. other'[w] = i
      BY Zenon DEF Take, AInv, ArchiveTypeOK
    <3> QED
      BY <1>2, <1>7, <3>1, <3>2 DEF Tgt
  <2>2. \A u \in Workers : at'[u] = "readonly" =>
            subvol'[Target[other'[u]]].tree \in Exported(Source[other'[u]]) /\ other'[u] \in ReadOnly
    <3>1. \A u \in Workers : at'[u] = "readonly" =>
              u # w /\ at[u] = "readonly" /\ other'[u] = other[u]
      BY Zenon DEF Take, AInv, ArchiveTypeOK
    <3>2. \A u \in Workers : at[u] = "readonly" =>
              /\ Tgt(u) \in Targets /\ Tgt(u) # Target[i]
              /\ subvol[Tgt(u)].tree \in Exported(Source[other[u]]) /\ other[u] \in ReadOnly
      BY ImportWorker, Zenon DEF AtImport, AInv, ImportInv
    <3> QED
      BY <1>7, <3>1, <3>2 DEF Tgt
  <2>3. \A t \in Targets : subvol'[t] # Nothing =>
            subvol'[t].by \notin left' /\ Target[subvol'[t].by] = t
    BY <1>2, <1>7 DEF AInv, ImportInv, Take
  <2>4. ImportIsFaithful'
    BY <1>6, <1>7, SMTT(20) DEF AInv, ImportInv, ImportIsFaithful, Take
  <2>5. FailedImportLeavesNothing'
    <3>1. result[i] = "none" /\ result' = result /\ kept' = kept
      BY Zenon DEF Take, AInv, RunInv
    <3> QED
      BY <1>2, <1>7, <3>1 DEF AInv, ImportInv, FailedImportLeavesNothing
  <2> QED
    BY <1>6, <2>1, <2>2, <2>3, <2>4, <2>5, SMTT(20) DEF ImportInv, Tgt
<1> QED
  BY <1>1, <1>4, <1>5, <1>8, Zenon DEF AInv

\* An import has extracted an exported tree.
LEMMA ImportExtractKeeps ==
    ASSUME IInv, AInv, NEW w \in Workers, ImportExtract(w)
    PROVE  AInv'
<1> USE Constants
<1>1. /\ at[w] = "extract" /\ at[w] \in AtImport
      /\ other[w] \in Imports /\ Tgt(w) \in Targets /\ result[other[w]] = "none"
  BY ImportWorker, Zenon DEF ImportExtract, AtImport
<1>2. PICK tree \in Readable(Source[other[w]]) :
          subvol' = [subvol EXCEPT ![Tgt(w)] = New(other[w], tree, "rw")]
  BY Zenon DEF ImportExtract
<1>3. tree \in Exported(Source[other[w]]) /\ tree \in Trees
  BY <1>1, ReadableIsExported, Zenon
<1> DEFINE x == New(other[w], tree, "rw")
<1>4. x \in Subvols /\ x # Nothing /\ x.by = other[w] /\ x.tree = tree
  BY <1>1, <1>3, SubvolRecord
<1>5. subvol' = [subvol EXCEPT ![Tgt(w)] = x]
  BY <1>2, Zenon
<1> HIDE DEF x
<1>6. CASE other[w] \in ReadOnly
  <2> USE <1>6
  <2>1. Move(w, "extract", "readonly") /\ UNCHANGED <<fd, stored, kept>>
    BY Zenon DEF ImportExtract
  <2>2. RunType' /\ RunInv'
    BY <2>1, MoveRuns, Zenon DEF AtImport
  <2>3. ArchiveTypeOK'
    BY <1>1, <1>4, <1>5, <2>1, <2>2, Zenon DEF AInv, ArchiveTypeOK, RunType
  <2>4. StoreInv'
    BY <2>1, StoresKept, Zenon DEF Move, AInv, ArchiveTypeOK, AtStore
  <2>5. ImportInv'
    BY <1>1, <1>3, <1>4, <1>5, <2>1, OwnTarget, Zenon DEF Move, AInv, ArchiveTypeOK
  <2> QED
    BY <2>2, <2>3, <2>4, <2>5, Zenon DEF AInv
<1>7. CASE other[w] \notin ReadOnly
  <2> USE <1>7
  <2>1. Return(w, "extract", "ok") /\ UNCHANGED <<stored, kept>>
    BY Zenon DEF ImportExtract
  <2>2. RunType' /\ RunInv'
    BY <2>1, ReturnRuns, Zenon DEF AtImport
  <2>3. ArchiveTypeOK'
    BY <1>1, <1>4, <1>5, <2>1, <2>2, Zenon DEF AInv, ArchiveTypeOK, RunType, Return
  <2>4. StoreInv'
    BY <1>1, <2>1, StoresKept, Zenon DEF Return, AInv, ArchiveTypeOK, AtStore
  <2>5. ImportInv'
    BY <1>1, <1>3, <1>4, <1>5, <2>1, OwnTarget, Zenon DEF Return, AInv, ArchiveTypeOK, AtImport
  <2> QED
    BY <2>2, <2>3, <2>4, <2>5, Zenon DEF AInv
<1> QED
  BY <1>6, <1>7, Zenon

\* An import that fails still has its subvolume.
LEMMA ImportFailsKeeps ==
    ASSUME AInv, NEW w \in Workers, ImportFails(w)
    PROVE  AInv'
<1> USE Constants
<1>1. /\ at[w] \in AtImport /\ Move(w, at[w], "undo") /\ UNCHANGED <<fd, stored, subvol, kept>>
  BY Zenon DEF ImportFails, AtImport
<1>2. /\ other[w] \in Imports /\ Tgt(w) \in Targets /\ result[other[w]] = "none"
      /\ subvol[Tgt(w)] \in Subvols /\ subvol[Tgt(w)].by = other[w]
  BY <1>1, ImportWorker, Zenon
<1>3. RunType' /\ RunInv'
  BY <1>1, MoveRuns, Zenon DEF AtImport
<1>4. ArchiveTypeOK'
  BY <1>1, <1>3, Zenon DEF AInv, ArchiveTypeOK, RunType
<1>5. StoreInv'
  BY <1>1, StoresKept, Zenon DEF Move, AInv, ArchiveTypeOK, AtStore
<1> DEFINE x == subvol[Tgt(w)]
<1>6. x \in Subvols /\ x # Nothing /\ x.by = other[w] /\ subvol' = [subvol EXCEPT ![Tgt(w)] = x]
  BY <1>1, <1>2, Zenon DEF AInv, ArchiveTypeOK
<1> HIDE DEF x
<1>7. ImportInv'
  BY <1>1, <1>2, <1>6, OwnTarget, Zenon DEF Move, AInv, ArchiveTypeOK
<1> QED
  BY <1>3, <1>4, <1>5, <1>7, Zenon DEF AInv

\* An import that made its subvolume read-only has it whole.
LEMMA ImportReadOnlyKeeps ==
    ASSUME AInv, NEW w \in Workers, ImportReadOnly(w)
    PROVE  AInv'
<1> USE Constants
<1>1. /\ at[w] = "readonly" /\ at[w] \in AtImport
      /\ Return(w, "readonly", "ok") /\ UNCHANGED <<stored, kept>>
  BY Zenon DEF ImportReadOnly, Return, AtImport
<1>2. other[w] \in Imports /\ Tgt(w) \in Targets
  BY <1>1, ImportWorker, Zenon
<1>3. subvol[Tgt(w)].tree \in Exported(Source[other[w]])
  BY <1>1, Zenon DEF AInv, ImportInv
<1> DEFINE x == New(other[w], subvol[Tgt(w)].tree, "ro")
<1>4. subvol[Tgt(w)].tree \in Trees
  BY <1>3, Zenon DEF Exported
<1>5. /\ x \in Subvols /\ x # Nothing /\ x.by = other[w]
      /\ x.tree = subvol[Tgt(w)].tree /\ x.mode = "ro"
  BY <1>2, <1>4, SubvolRecord
<1>6. subvol' = [subvol EXCEPT ![Tgt(w)] = x]
  BY <1>2, Zenon DEF ImportReadOnly
<1> HIDE DEF x
<1>7. RunType' /\ RunInv'
  BY <1>1, ReturnRuns, Zenon DEF AtImport
<1>8. ArchiveTypeOK'
  BY <1>1, <1>2, <1>5, <1>6, <1>7, Zenon DEF AInv, ArchiveTypeOK, RunType, Return
<1>9. StoreInv'
  BY <1>1, <1>2, StoresKept, Zenon DEF Return, AInv, ArchiveTypeOK, AtStore
<1>10. ImportInv'
  BY <1>1, <1>2, <1>3, <1>5, <1>6, OwnTarget, Zenon DEF Return, AInv, ArchiveTypeOK, AtImport
<1> QED
  BY <1>7, <1>8, <1>9, <1>10, Zenon DEF AInv

\* An import that failed has deleted its subvolume, or could not.
LEMMA ImportUndoKeeps ==
    ASSUME AInv, NEW w \in Workers, ImportUndo(w)
    PROVE  AInv'
<1> USE Constants
<1>1. /\ at[w] \in AtImport /\ Return(w, "undo", "error") /\ UNCHANGED stored
  BY Zenon DEF ImportUndo, Return, AtImport
<1>2. /\ other[w] \in Imports /\ Tgt(w) \in Targets
      /\ subvol[Tgt(w)] \in Subvols /\ subvol[Tgt(w)].by = other[w]
  BY <1>1, ImportWorker, Zenon
<1>3. PICK x \in Subvols \cup {Nothing} :
        /\ subvol' = [subvol EXCEPT ![Tgt(w)] = x] /\ (x # Nothing => x.by = other[w])
        /\ \/ x = Nothing /\ kept' = kept
           \/ kept' = kept \cup {other[w]}
  <2>1. CASE subvol' = [subvol EXCEPT ![Tgt(w)] = Nothing] /\ UNCHANGED kept
    BY <2>1, Zenon
  <2>2. CASE kept' = kept \cup {other[w]} /\ UNCHANGED subvol
    <3>1. subvol' = [subvol EXCEPT ![Tgt(w)] = subvol[Tgt(w)]]
      BY <1>2, <2>2, Zenon DEF AInv, ArchiveTypeOK
    <3> QED
      BY <1>2, <2>2, <3>1, Zenon
  <2> QED
    BY <2>1, <2>2, Zenon DEF ImportUndo
<1>4. RunType' /\ RunInv'
  BY <1>1, ReturnRuns, Zenon DEF AtImport
<1>5. ArchiveTypeOK'
  BY <1>1, <1>2, <1>3, <1>4 DEF AInv, ArchiveTypeOK, RunType, Return
<1>6. StoreInv'
  BY <1>1, <1>2, StoresKept, Zenon DEF Return, AInv, ArchiveTypeOK, AtStore
<1>7. ImportInv'
  <2>1. /\ UNCHANGED <<vars, left>> /\ kept \subseteq kept'
        /\ at'[w] = "idle" /\ \A u \in Workers : u # w => at'[u] = at[u] /\ other'[u] = other[u]
        /\ result'[other[w]] = "error"
        /\ \A i \in Imports : i # other[w] => result'[i] = result[i]
    BY <1>1, <1>2, <1>3, Zenon DEF Return, AInv, ArchiveTypeOK
  <2>2. other[w] \notin kept' => x = Nothing
    BY <1>3, Zenon
  <2> QED
    BY <1>1, <1>2, <1>3, <2>1, <2>2, OwnTarget, Zenon DEF AtImport
<1> QED
  BY <1>4, <1>5, <1>6, <1>7, Zenon DEF AInv
-----------------------------------------------------------------------------
(* The theorems                                                            *)

\* At start no job is taken.
LEMMA ArchiveStarts == ArchiveInit => AInv
BY Constants DEF ArchiveInit, AInv, ArchiveTypeOK, RunInv, StoreInv, ImportInv,
   ImportIsFaithful, FailedImportLeavesNothing, AtStore, AtImport

\* Every step keeps the invariant.
LEMMA ArchiveKeeps == IInv /\ AInv /\ [ArchiveNext]_allvars => AInv'
<1> SUFFICES ASSUME IInv, AInv, [ArchiveNext]_allvars PROVE AInv'
  BY Zenon
<1>1. CASE UNCHANGED allvars
  BY <1>1, ExportKeeps, Zenon DEF allvars
<1>2. CASE AllIdle
  BY <1>2, ExportKeeps, Zenon DEF AllIdle, allvars
<1>3. ASSUME NEW w \in Workers, ExportStep(w) PROVE AInv'
  BY <1>3, ExportKeeps, Zenon DEF ExportStep, Next
<1>4. ASSUME NEW w \in Workers, OtherStep(w) PROVE AInv'
  <2>1. ASSUME NEW s \in Stores, StoreOpen(w, s) \/ StoreOpenFails(w, s) PROVE AInv'
    BY <2>1, StoreOpenKeeps, RefuseKeeps, Constants, Zenon DEF StoreOpenFails
  <2>2. CASE StoreCreate(w)
    BY <2>2, StoreCreateKeeps, Zenon
  <2>3. CASE StoreCreateFails(w) \/ StoreCopy(w) \/ StoreCopyFails(w)
    BY <2>3, StoreCreateFailsKeeps, StoreEndKeeps, Zenon
  <2>4. ASSUME NEW i \in Imports, ImportCreate(w, i) \/ ImportCreateFails(w, i) PROVE AInv'
    BY <2>4, ImportCreateKeeps, RefuseKeeps, Constants, Zenon DEF ImportCreateFails
  <2>5. CASE ImportExtract(w)
    BY <2>5, ImportExtractKeeps, Zenon
  <2>6. CASE ImportFails(w)
    BY <2>6, ImportFailsKeeps, Zenon
  <2>7. CASE ImportReadOnly(w)
    BY <2>7, ImportReadOnlyKeeps, Zenon
  <2>8. CASE ImportUndo(w)
    BY <2>8, ImportUndoKeeps, Zenon
  <2> QED
    BY <1>4, <2>1, <2>2, <2>3, <2>4, <2>5, <2>6, <2>7, <2>8, Zenon DEF OtherStep
<1> QED
  BY <1>1, <1>2, <1>3, <1>4, Zenon DEF ArchiveNext

\* The invariant holds throughout; it needs that of the exports.
THEOREM ArchiveInvariant == ArchiveSpec => [](IInv /\ AInv)
<1>1. ArchiveInit => IInv /\ AInv
  BY ArchiveStarts, InitInv, Zenon DEF ArchiveInit
<1>2. IInv /\ AInv /\ [ArchiveNext]_allvars => (IInv /\ AInv)'
  BY StepOfExports, ArchiveKeeps, StepInv, Zenon
<1> QED
  BY <1>1, <1>2, PTL DEF ArchiveSpec

\* The archive jobs leave the exports alone, and an export runs as before.
THEOREM Implements == ArchiveSpec => Spec
<1>1. ArchiveInit => Init
  BY Zenon DEF ArchiveInit
<1> QED
  BY <1>1, StepOfExports, PTL DEF ArchiveSpec, Spec

\* Type correctness of the store and import jobs of bdfs_jobs.c.
THEOREM ArchiveTypes == ArchiveSpec => []ArchiveTypeOK
BY ArchiveInvariant, PTL DEF AInv

\* A store that reported success has its path to itself from then on: O_EXCL
\* refuses the others, and their error paths unlink nothing.
THEOREM StoresWhole == ArchiveSpec => []StoredIsWhole
<1>1. AInv => StoredIsWhole
  BY Constants, Zenon DEF AInv, StoreInv, StoredIsWhole
<1> QED
  BY <1>1, ArchiveInvariant, PTL

\* An import that reported success has an exported tree in its subvolume, and
\* has it read-only if asked, whatever exports and stores did to its image.
THEOREM ImportsFaithful == ArchiveSpec => []ImportIsFaithful
BY ArchiveInvariant, PTL DEF AInv, ImportInv

\* An import that reported failure has left no subvolume of its own, unless
\* btrfs could not delete it, and has taken none from another import.
THEOREM FailedImportsClean == ArchiveSpec => []FailedImportLeavesNothing
BY ArchiveInvariant, PTL DEF AInv, ImportInv
=============================================================================

----------------------------- MODULE ExportJobs -----------------------------
(***************************************************************************)
(* bdfs_job_export_to_dwarfs run by several workers: snapshot the          *)
(* subvolume, send | receive it into a directory, build a DwarFS image     *)
(* beside its final place, rename it there, optionally delete the          *)
(* subvolume, clean up.                                                    *)
(*                                                                         *)
(* The jobs share files by name.  The snapshot is                          *)
(* <subvolume>/.bdfs_snap_<id>; the extraction directory                   *)
(* <state_dir>/.bdfs_extract_<id> depends on the subvolume id alone, which *)
(* is unique within one file system only; the temporary image depends on   *)
(* the image name.  What the tools do with a name that is taken is         *)
(* external: btrfs and mkdwarfs (called without --force) refuse it.        *)
(***************************************************************************)
EXTENDS Naturals

CONSTANTS Workers, Jobs,
          Volume,    \* the subvolume a job exports (its path)
          SubvolId,  \* the id of a subvolume
          Image,     \* the image name of a job
          Delete,    \* jobs with BDFS_DEMOTE_DELETE_SUBVOL
          Nothing    \* no file

Volumes == {Volume[j] : j \in Jobs}
Ids     == {SubvolId[v] : v \in Volumes}
Names   == {Image[j] : j \in Jobs}

ASSUME ExportAssumption ==
    /\ DOMAIN Volume = Jobs /\ DOMAIN Image = Jobs /\ DOMAIN SubvolId = Volumes
    /\ Delete \subseteq Jobs

\* The tree of a subvolume, and an image file somebody writes.
Trees == [vol : Volumes, whole : BOOLEAN]
Files == [by : Jobs, tree : Trees, written : BOOLEAN]

ASSUME NothingAssumption == Nothing \notin Trees \cup Files \cup Jobs

VARIABLES
    todo,     \* jobs no worker has taken
    pc,       \* where a worker is in bdfs_job_export_to_dwarfs
    job,      \* the job it runs
    ret,      \* the job's result, as far as it is known
    source,   \* subvolumes that exist
    snap,     \* subvolumes with a .bdfs_snap_<id> inside
    extract,  \* the received tree in .bdfs_extract_<id>
    tmp,      \* <state_dir>/<name>.dwarfs.tmp
    image,    \* the image at its final path
    died      \* jobs whose btrfs send died, as the log says

vars  == <<todo, pc, job, ret, source, snap, extract, tmp, image, died>>
files == <<source, snap, extract, tmp, image>>

Vol(w)  == Volume[job[w]]
Id(w)   == SubvolId[Vol(w)]
Name(w) == Image[job[w]]

Init ==
    /\ todo = Jobs
    /\ pc = [w \in Workers |-> "idle"]
    /\ job = [w \in Workers |-> Nothing]
    /\ ret = [j \in Jobs |-> "none"]
    /\ source = Volumes
    /\ snap = {}
    /\ extract = [i \in Ids |-> Nothing]
    /\ tmp = [n \in Names |-> Nothing]
    /\ image = [n \in Names |-> Nothing]
    /\ died = {}

-----------------------------------------------------------------------------
(* Steps 1 and 2: snapshot, send and receive                               *)

Goto(w, from, to) == pc[w] = from /\ pc' = [pc EXCEPT ![w] = to]

Result(w, r) == ret' = [ret EXCEPT ![job[w]] = r]

\* bdfs_exec_btrfs_snapshot succeeds: the name was free.
Snapshot(w, j) ==
    /\ Goto(w, "idle", "receive")
    /\ j \in todo
    /\ Volume[j] \in source \ snap
    /\ todo' = todo \ {j}
    /\ job' = [job EXCEPT ![w] = j]
    /\ snap' = snap \cup {Volume[j]}
    /\ UNCHANGED <<died, ret, source, extract, tmp, image>>

\* It fails (it must if the snapshot of another job is in the way): return.
SnapshotFails(w, j) ==
    /\ Goto(w, "idle", "idle")
    /\ j \in todo
    /\ todo' = todo \ {j}
    /\ ret' = [ret EXCEPT ![j] = "error"]
    /\ UNCHANGED <<died, job, files>>

\* Delete the snapshot and return an error.
GiveUp(w) ==
    /\ Goto(w, "receive", "idle")
    /\ Result(w, "error")
    /\ snap' = snap \ {Vol(w)}
    /\ job' = [job EXCEPT ![w] = Nothing]
    /\ UNCHANGED <<died, todo, source, tmp, image>>

\* mkdir of the extraction directory or the fork of btrfs send failed.
SendFails(w) == GiveUp(w) /\ UNCHANGED extract

\* btrfs receive succeeds: there was no subvolume of that name.  Of btrfs
\* send that died between two commands the exit status is only logged.
Receive(w) ==
    /\ Goto(w, "receive", "mkdwarfs")
    /\ extract[Id(w)] = Nothing
    /\ \E ok \in BOOLEAN :
         /\ extract' = [extract EXCEPT ![Id(w)] = [vol |-> Vol(w), whole |-> ok]]
         /\ died' = died \cup (IF ok THEN {} ELSE {job[w]})
    /\ UNCHANGED <<todo, job, ret, source, snap, tmp, image>>

\* A bug to check against: the exit status of btrfs receive is only logged.
ReceiveFailsGoesOn(w) ==
    /\ Goto(w, "receive", "mkdwarfs")
    /\ extract[Id(w)] = Nothing
    /\ extract' = [extract EXCEPT ![Id(w)] = [vol |-> Vol(w), whole |-> FALSE]]
    /\ UNCHANGED <<died, todo, job, ret, source, snap, tmp, image>>

\* btrfs receive fails, and leaves what it had received.
ReceiveFails(w) ==
    /\ GiveUp(w)
    /\ \/ UNCHANGED extract
       \/ /\ extract[Id(w)] = Nothing
          /\ extract' = [extract EXCEPT
                           ![Id(w)] = [vol |-> Vol(w), whole |-> FALSE]]

-----------------------------------------------------------------------------
(* Steps 3 and 4: build the image, move it to its final path               *)

NewImage(w) == [by |-> job[w], tree |-> extract[Id(w)], written |-> FALSE]

\* A bug to check against: mkdwarfs writes to the final path.
MkdwarfsInPlace(w) ==
    /\ Goto(w, "mkdwarfs", "building")
    /\ image' = [image EXCEPT ![Name(w)] = NewImage(w)]
    /\ UNCHANGED <<died, todo, job, ret, source, snap, extract, tmp>>

\* mkdwarfs creates its output file.
Mkdwarfs(w) ==
    /\ Goto(w, "mkdwarfs", "building")
    /\ tmp[Name(w)] = Nothing
    /\ tmp' = [tmp EXCEPT ![Name(w)] = NewImage(w)]
    /\ UNCHANGED <<died, todo, job, ret, source, snap, extract, image>>

Written(w, f) ==
    IF f # Nothing /\ f.by = job[w] THEN [f EXCEPT !.written = TRUE] ELSE f

\* mkdwarfs ends; its file may meanwhile have another name, or none.
MkdwarfsEnds(w) ==
    /\ Goto(w, "building", "rename")
    /\ tmp' = [n \in Names |-> Written(w, tmp[n])]
    /\ image' = [n \in Names |-> Written(w, image[n])]
    /\ UNCHANGED <<died, todo, job, ret, source, snap, extract>>

\* It fails, before or after it created the file: goto cleanup.
MkdwarfsFails(w) ==
    /\ pc[w] \in {"mkdwarfs", "building"}
    /\ pc' = [pc EXCEPT ![w] = "cleanup"]
    /\ Result(w, "error")
    /\ UNCHANGED <<died, todo, job, files>>

Rename(w) ==
    /\ Goto(w, "rename", IF job[w] \in Delete THEN "delete" ELSE "cleanup")
    /\ tmp[Name(w)] # Nothing
    /\ image' = [image EXCEPT ![Name(w)] = tmp[Name(w)]]
    /\ tmp' = [tmp EXCEPT ![Name(w)] = Nothing]
    /\ Result(w, "ok")
    /\ UNCHANGED <<died, todo, job, source, snap, extract>>

RenameFails(w) ==
    /\ Goto(w, "rename", "cleanup")
    /\ Result(w, "error")
    /\ UNCHANGED <<died, todo, job, files>>

-----------------------------------------------------------------------------
(* Step 5: delete the source, clean up                                     *)

\* btrfs subvolume delete of the source; an error is only logged.  BTRFS
\* refuses to delete a subvolume that has another one inside (ENOTEMPTY).
DeleteSource(w) ==
    /\ Goto(w, "delete", "cleanup")
    /\ source' = source \ ({Vol(w)} \ snap)
    /\ UNCHANGED <<died, todo, job, ret, snap, extract, tmp, image>>

CleanupSnapshot(w) ==
    /\ Goto(w, "cleanup", "rm")
    /\ snap' = snap \ {Vol(w)}
    /\ UNCHANGED <<died, todo, job, ret, source, extract, tmp, image>>

\* rm -rf of the extraction directory, best effort.
CleanupTree(w) ==
    /\ Goto(w, "rm", "unlink")
    /\ \/ extract' = [extract EXCEPT ![Id(w)] = Nothing]
       \/ UNCHANGED extract
    /\ UNCHANGED <<died, todo, job, ret, source, snap, tmp, image>>

\* After an error the temporary image is unlinked, whoever made it.
CleanupImage(w) ==
    /\ Goto(w, "unlink", "idle")
    /\ tmp' = IF ret[job[w]] = "error" THEN [tmp EXCEPT ![Name(w)] = Nothing] ELSE tmp
    /\ job' = [job EXCEPT ![w] = Nothing]
    /\ UNCHANGED <<died, todo, ret, source, snap, extract, image>>

-----------------------------------------------------------------------------

AllDone == todo = {} /\ (\A w \in Workers : pc[w] = "idle") /\ UNCHANGED vars

Step(w) ==
    \/ SendFails(w) \/ Receive(w) \/ ReceiveFails(w)
    \/ Mkdwarfs(w) \/ MkdwarfsEnds(w) \/ MkdwarfsFails(w)
    \/ Rename(w) \/ RenameFails(w) \/ DeleteSource(w)
    \/ CleanupSnapshot(w) \/ CleanupTree(w) \/ CleanupImage(w)

Next ==
    \/ \E w \in Workers, j \in Jobs : Snapshot(w, j) \/ SnapshotFails(w, j)
    \/ \E w \in Workers : Step(w)
    \/ AllDone

Spec == Init /\ [][Next]_vars

-----------------------------------------------------------------------------
(* Properties                                                              *)

\* Where a worker has its snapshot, and where it uses its extracted tree.
HoldsSnapshot == {"receive", "mkdwarfs", "building", "rename", "delete", "cleanup"}
HoldsTree     == {"mkdwarfs", "building", "rename", "delete", "cleanup", "rm"}

\* Types: in particular a temporary or final image is always the file of a
\* job, built from a tree that was received.
TypeOK ==
    /\ todo \in SUBSET Jobs
    /\ pc \in [Workers -> HoldsSnapshot \cup HoldsTree \cup {"idle", "unlink"}]
    /\ job \in [Workers -> Jobs \cup {Nothing}]
    /\ ret \in [Jobs -> {"none", "ok", "error"}]
    /\ source \in SUBSET Volumes
    /\ snap \in SUBSET Volumes
    /\ extract \in [Ids -> Trees \cup {Nothing}]
    /\ tmp \in [Names -> Files \cup {Nothing}]
    /\ image \in [Names -> Files \cup {Nothing}]
    /\ died \in SUBSET Jobs

OwnsSnapshot(w, v) == pc[w] \in HoldsSnapshot /\ Vol(w) = v

\* The snapshot serialises the exports of a subvolume: it exists exactly
\* while one worker, and no other, works from it.
SnapshotHasOneOwner ==
    \A v \in Volumes :
        /\ v \in snap <=> \E w \in Workers : OwnsSnapshot(w, v)
        /\ \A w, u \in Workers :
              OwnsSnapshot(w, v) /\ OwnsSnapshot(u, v) => w = u

\* "The DwarFS image captures a consistent point-in-time view": a published
\* image holds the tree of the subvolume its job exported, although extraction
\* directories of two file systems may have the same name, and the whole of it
\* unless btrfs send died, which only the log tells.
ImageIsFaithful ==
    \A n \in Names : image[n] # Nothing =>
        /\ image[n].tree.vol = Volume[image[n].by]
        /\ image[n].tree.whole \/ image[n].by \in died

\* "The backing store never sees a partial image."
ImageNeverPartial == \A n \in Names : image[n] # Nothing => image[n].written
=============================================================================

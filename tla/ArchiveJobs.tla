----------------------------- MODULE ArchiveJobs -----------------------------
(***************************************************************************)
(* The other jobs on images, run by the same workers as the exports:       *)
(* bdfs_job_store_image copies an image file to a BTRFS partition, and     *)
(* bdfs_job_import_from_dwarfs extracts an image into a new subvolume.     *)
(*                                                                         *)
(* A store reads an image that an export may replace meanwhile, and writes *)
(* to the final path; an import may read that path before the store ends.  *)
(* dwarfsextract refuses an image that is cut short (external), and an     *)
(* open file keeps its content when its name is given to another.          *)
(***************************************************************************)
EXTENDS ExportJobs

CONSTANTS Stores,     \* store jobs: from a published image to a path
          From, To,
          Imports,    \* import jobs: from a published or stored image
          Source, Target,
          ReadOnly    \* imports with BDFS_IMPORT_READONLY

Others  == Stores \cup Imports
Paths   == {To[s] : s \in Stores}
Targets == {Target[i] : i \in Imports}

ASSUME ArchiveAssumption ==
    /\ From \in [Stores -> Names] /\ DOMAIN To = Stores
    /\ Source \in [Imports -> Names \cup Paths] /\ DOMAIN Target = Imports
    /\ ReadOnly \subseteq Imports
    /\ Stores \cap Imports = {} /\ Names \cap Paths = {} /\ Jobs \cap Others = {}

\* A stored image, and a subvolume that an import made.
Copies  == [by : Stores, file : Files, state : {"partial", "whole"}]
Subvols == [by : Imports, tree : Trees \cup {Nothing}, mode : {"rw", "ro"}]

ASSUME NothingAssumption2 == Nothing \notin Copies \cup Subvols \cup Others

VARIABLES
    left,    \* store and import jobs no worker has taken
    at,      \* where a worker is in such a job
    other,   \* the job it runs
    fd,      \* the source file that a store has open
    result,  \* the results of the jobs
    stored,  \* the files at the destination paths
    subvol,  \* the subvolumes at the import targets
    kept     \* history: imports whose subvolume could not be deleted

archive == <<left, at, other, fd, result, stored, subvol, kept>>
allvars == <<vars, archive>>

ArchiveInit ==
    /\ Init
    /\ left = Others
    /\ at = [w \in Workers |-> "idle"]
    /\ other = [w \in Workers |-> Nothing]
    /\ fd = [w \in Workers |-> Nothing]
    /\ result = [o \in Others |-> "none"]
    /\ stored = [p \in Paths |-> Nothing]
    /\ subvol = [t \in Targets |-> Nothing]
    /\ kept = {}

Dest(w) == To[other[w]]
Tgt(w)  == Target[other[w]]

\* A worker takes o and does its first step, after which it is at there; if
\* that fails the job is over.
Take(w, o, there) ==
    /\ pc[w] = "idle" /\ at[w] = "idle" /\ o \in left
    /\ left' = left \ {o}
    /\ at' = [at EXCEPT ![w] = there]
    /\ other' = [other EXCEPT ![w] = o]
    /\ UNCHANGED <<vars, result, kept>>

Refuse(w, o) ==
    /\ pc[w] = "idle" /\ at[w] = "idle" /\ o \in left
    /\ left' = left \ {o}
    /\ result' = [result EXCEPT ![o] = "error"]
    /\ UNCHANGED <<vars, at, other, fd, stored, subvol, kept>>

Move(w, from, to) ==
    /\ at[w] = from /\ at' = [at EXCEPT ![w] = to]
    /\ UNCHANGED <<vars, left, other, result>>

Return(w, from, r) ==
    /\ at[w] = from /\ at' = [at EXCEPT ![w] = "idle"]
    /\ other' = [other EXCEPT ![w] = Nothing]
    /\ fd' = [fd EXCEPT ![w] = Nothing]
    /\ result' = [result EXCEPT ![other[w]] = r]
    /\ UNCHANGED <<vars, left>>

-----------------------------------------------------------------------------
(* bdfs_job_store_image                                                    *)

StoreOpen(w, s) ==
    /\ Take(w, s, "create")
    /\ image[From[s]] # Nothing
    /\ fd' = [fd EXCEPT ![w] = image[From[s]]]
    /\ UNCHANGED <<stored, subvol>>

\* open or fstat of the source failed.
StoreOpenFails(w, s) == Refuse(w, s)

Copy(w, state) == [by |-> other[w], file |-> fd[w], state |-> state]

\* A bug to check against: O_TRUNC instead of O_EXCL.
StoreCreateOver(w) ==
    /\ Move(w, "create", "copy")
    /\ stored' = [stored EXCEPT ![Dest(w)] = Copy(w, "partial")]
    /\ UNCHANGED <<fd, subvol, kept>>

\* open with O_CREAT | O_EXCL.
StoreCreate(w) ==
    /\ Move(w, "create", "copy")
    /\ stored[Dest(w)] = Nothing
    /\ stored' = [stored EXCEPT ![Dest(w)] = Copy(w, "partial")]
    /\ UNCHANGED <<fd, subvol, kept>>

\* It failed, in particular with EEXIST: dst_fd < 0, nothing is unlinked.
StoreCreateFails(w) ==
    /\ Return(w, "create", "error")
    /\ UNCHANGED <<stored, subvol, kept>>

\* copy_file_range, or sendfile, until st_size bytes are copied.
StoreCopy(w) ==
    /\ Return(w, "copy", "ok")
    /\ stored' = [stored EXCEPT ![Dest(w)] = Copy(w, "whole")]
    /\ UNCHANGED <<subvol, kept>>

\* The copy failed: the file is closed and unlinked, if that works.
StoreCopyFails(w) ==
    /\ Return(w, "copy", "error")
    /\ stored' = [stored EXCEPT ![Dest(w)] = Nothing] \/ UNCHANGED stored
    /\ UNCHANGED <<subvol, kept>>

-----------------------------------------------------------------------------
(* bdfs_job_import_from_dwarfs                                             *)

New(i, tree, mode) == [by |-> i, tree |-> tree, mode |-> mode]

\* btrfs subvolume create refuses a name that is taken.
ImportCreate(w, i) ==
    /\ Take(w, i, "extract")
    /\ subvol[Target[i]] = Nothing
    /\ subvol' = [subvol EXCEPT ![Target[i]] = New(i, Nothing, "rw")]
    /\ UNCHANGED <<fd, stored>>

ImportCreateFails(w, i) == Refuse(w, i)

\* What dwarfsextract can read at the path of an image.
Readable(p) ==
    IF p \in Names THEN IF image[p] # Nothing THEN {image[p].tree} ELSE {}
    ELSE IF stored[p] # Nothing /\ stored[p].state = "whole" THEN {stored[p].file.tree} ELSE {}

ImportExtract(w) ==
    /\ at[w] = "extract"
    /\ \E tree \in Readable(Source[other[w]]) :
          subvol' = [subvol EXCEPT ![Tgt(w)] = New(other[w], tree, "rw")]
    /\ IF other[w] \in ReadOnly THEN Move(w, "extract", "readonly") /\ UNCHANGED fd
       ELSE Return(w, "extract", "ok")
    /\ UNCHANGED <<stored, kept>>

\* dwarfsextract or the ro property failed: the subvolume is to be deleted.
ImportFails(w) ==
    /\ Move(w, at[w], "undo")
    /\ at[w] \in {"extract", "readonly"}
    /\ UNCHANGED <<fd, stored, subvol, kept>>

\* A bug to check against: the result of the property command is only logged.
ImportReadOnlyLogged(w) ==
    /\ Return(w, "readonly", "ok")
    /\ \/ subvol' = [subvol EXCEPT ![Tgt(w)] = New(other[w], @.tree, "ro")]
       \/ UNCHANGED subvol
    /\ UNCHANGED <<stored, kept>>

ImportReadOnly(w) ==
    /\ Return(w, "readonly", "ok")
    /\ subvol' = [subvol EXCEPT ![Tgt(w)] = New(other[w], @.tree, "ro")]
    /\ UNCHANGED <<stored, kept>>

\* A bug to check against: the subvolume is left as it is.
ImportUndoNothing(w) ==
    /\ Return(w, "undo", "error")
    /\ UNCHANGED <<stored, subvol, kept>>

\* bdfs_exec_btrfs_subvol_delete; its result is not looked at.
ImportUndo(w) ==
    /\ Return(w, "undo", "error")
    /\ \/ subvol' = [subvol EXCEPT ![Tgt(w)] = Nothing] /\ UNCHANGED kept
       \/ kept' = kept \cup {other[w]} /\ UNCHANGED subvol
    /\ UNCHANGED stored

-----------------------------------------------------------------------------

OtherStep(w) ==
    \/ \E s \in Stores : StoreOpen(w, s) \/ StoreOpenFails(w, s)
    \/ StoreCreate(w) \/ StoreCreateFails(w) \/ StoreCopy(w) \/ StoreCopyFails(w)
    \/ \E i \in Imports : ImportCreate(w, i) \/ ImportCreateFails(w, i)
    \/ ImportExtract(w) \/ ImportFails(w) \/ ImportReadOnly(w) \/ ImportUndo(w)

\* A worker runs one job at a time.
ExportStep(w) ==
    /\ at[w] = "idle"
    /\ Step(w) \/ \E j \in Jobs : Snapshot(w, j) \/ SnapshotFails(w, j)
    /\ UNCHANGED archive

AllIdle ==
    /\ todo = {} /\ left = {}
    /\ \A w \in Workers : pc[w] = "idle" /\ at[w] = "idle"
    /\ UNCHANGED allvars

ArchiveNext == (\E w \in Workers : ExportStep(w) \/ OtherStep(w)) \/ AllIdle

ArchiveSpec == ArchiveInit /\ [][ArchiveNext]_allvars

-----------------------------------------------------------------------------
(* Properties                                                              *)

\* Types of the store and import jobs; a store at work has its source open.
ArchiveTypeOK ==
    /\ left \in SUBSET Others
    /\ at \in [Workers -> {"idle", "create", "copy", "extract", "readonly", "undo"}]
    /\ other \in [Workers -> Others \cup {Nothing}]
    /\ fd \in [Workers -> Files \cup {Nothing}]
    /\ result \in [Others -> {"none", "ok", "error"}]
    /\ stored \in [Paths -> Copies \cup {Nothing}]
    /\ subvol \in [Targets -> Subvols \cup {Nothing}]
    /\ kept \in SUBSET Imports

\* The trees of the exports that are published or stored at a path: whole,
\* but for those whose btrfs send died.
Exported(p) ==
    {t \in Trees : \E j \in Jobs :
        /\ Image[j] = p \/ \E s \in Stores : To[s] = p /\ Image[j] = From[s]
        /\ t.vol = Volume[j] /\ (t.whole \/ j \in died)}

\* After a store that succeeded its path holds the whole image it read,
\* whatever other stores to that path did, before or since.
StoredIsWhole ==
    \A s \in Stores : result[s] = "ok" =>
        /\ stored[To[s]] # Nothing
        /\ stored[To[s]].by = s /\ stored[To[s]].state = "whole"
        /\ stored[To[s]].file.tree \in Exported(To[s])

\* An import that succeeded has left a subvolume with the tree of a volume
\* that was exported to its image, although exports may replace the image and
\* stores may be at work on it, and has made it read-only if asked:
\* "must not silently receive a writable one".
ImportIsFaithful ==
    \A i \in Imports : result[i] = "ok" =>
        /\ subvol[Target[i]] # Nothing
        /\ subvol[Target[i]].by = i
        /\ subvol[Target[i]].tree \in Exported(Source[i])
        /\ i \in ReadOnly => subvol[Target[i]].mode = "ro"

\* An import that failed leaves no subvolume of its own, unless btrfs failed
\* to delete it, and never takes that of another import away: "The subvolume
\* is deleted so the caller can retry".
FailedImportLeavesNothing ==
    \A i \in Imports : result[i] = "error" /\ i \notin kept =>
        subvol[Target[i]] = Nothing \/ subvol[Target[i]].by # i
=============================================================================

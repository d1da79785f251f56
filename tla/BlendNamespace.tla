--------------------------- MODULE BlendNamespace ---------------------------
(***************************************************************************)
(* The namespace of the blend file system (bdfs_blend.c): a writable BTRFS *)
(* upper layer over read-only DwarFS lower layers, seen through the dentry *)
(* cache of the VFS.                                                       *)
(*                                                                         *)
(* The paths are the directories Dirs inside one directory that exists on  *)
(* the upper layer, and the files Names inside each of them.  The VFS      *)
(* holds the locks of the parent directories around each of the calls      *)
(* below, so a call is one step; the daemon's copy-up is not a call and    *)
(* has steps of its own.  What the VFS does around a call is external: it  *)
(* looks a name up before it uses it, caches the answer (absent names      *)
(* too), drops unused answers, d_delete()s what was unlinked and d_move()s *)
(* what was renamed.  The layers of a mount are constants here: the code   *)
(* that would fill bm->btrfs_mnt and bm->dwarfs_layers is not in the       *)
(* repository.                                                             *)
(***************************************************************************)
EXTENDS Naturals, Sequences, FiniteSetsExt, SequencesExt

CONSTANTS Dirs, Names,
          Lower,   \* Lower[k][d]: names in directory d of lower layer k, or NoDir
          NoDir,
          Buckets  \* the bits of the readdir filter

Layers == 1 .. Len(Lower)

ASSUME BlendAssumption ==
    \A k \in Layers, d \in Dirs : Lower[k][d] = NoDir \/ Lower[k][d] \subseteq Names

VARIABLES
    upperDirs,   \* directories on the upper layer
    upperFiles,  \* files on the upper layer, as <<directory, name>>
    dcache,      \* what the VFS remembers of a path
    pending,     \* paths whose copy-up is done but not completed
    stale        \* history: cached paths a step left behind the layers

vars == <<upperDirs, upperFiles, dcache, pending, stale>>

Files == Dirs \X Names
Paths == Dirs \cup Files

DirOf(p) == IF p \in Files THEN p[1] ELSE p
InDir(d) == {p \in Files : p[1] = d}

\* A dentry: not cached, negative, or a blend inode with its real_path: the
\* layer (0 is BTRFS; is_upper) and the directory there.
None     == [kind |-> "none"]
Negative == [kind |-> "negative"]
Inode(k, d)  == [kind |-> "inode", layer |-> k, dir |-> d]
Dentries == {None, Negative} \cup {Inode(k, d) : k \in 0 .. Len(Lower), d \in Dirs}

Cached(p)   == dcache[p] # None
Positive(p) == dcache[p].kind = "inode"
IsUpper(p)  == Positive(p) /\ dcache[p].layer = 0
IsLower(p)  == Positive(p) /\ dcache[p].layer # 0

LowerHas(k, p) ==
    Lower[k][DirOf(p)] # NoDir /\ (p \in Files => p[2] \in Lower[k][p[1]])

Archived(p) == \E k \in Layers : LowerHas(k, p)

OnUpper(p) == IF p \in Files THEN p \in upperFiles ELSE p \in upperDirs

Init ==
    /\ upperDirs \in SUBSET Dirs
    /\ upperFiles = {}
    /\ dcache = [p \in Paths |-> None]
    /\ pending = {}
    /\ stale = {}

-----------------------------------------------------------------------------
(* Lookup                                                                  *)

\* The first lower layer that has the path, or a negative dentry.
LowerLookup(p) ==
    IF Archived(p)
    THEN Inode(Min({k \in Layers : LowerHas(k, p)}), DirOf(p))
    ELSE Negative

\* A bug to check against: below a directory found on a lower layer only the
\* lower layers are searched.
LowerParentOnly(p) ==
    IF OnUpper(p) /\ ~(p \in Files /\ IsLower(p[1]))
    THEN Inode(0, DirOf(p)) ELSE LowerLookup(p)

\* bdfs_blend_lookup: the upper layer (through the real parent if that is
\* upper, else by the full path), then the lower layers by the full path.
LookupResult(p) ==
    LET upperPath == IF p \in Files /\ IsUpper(p[1])
                     THEN <<dcache[p[1]].dir, p[2]>> ELSE p
    IN IF OnUpper(upperPath) THEN Inode(0, DirOf(upperPath)) ELSE LowerLookup(p)

Lookup(p) ==
    /\ ~Cached(p)
    /\ p \in Files => Positive(p[1])
    /\ dcache' = [dcache EXCEPT ![p] = LookupResult(p)]
    /\ UNCHANGED <<upperDirs, upperFiles, pending, stale>>

\* The VFS drops a dentry that has no cached children.
Evict(p) ==
    /\ Cached(p)
    /\ p \in Dirs => \A q \in InDir(p) : ~Cached(q)
    /\ dcache' = [dcache EXCEPT ![p] = None]
    /\ pending' = pending \ {p}
    /\ stale' = stale \ {p}
    /\ UNCHANGED <<upperDirs, upperFiles>>

-----------------------------------------------------------------------------
(* Operations on files                                                     *)

Forget(P) == [p \in Paths |-> IF p \in P THEN None ELSE dcache[p]]

\* A bug to check against: the parent is not looked up on the upper layer.
CreateNoParent(d, n) ==
    /\ Positive(d) /\ dcache[<<d, n>>] = Negative
    /\ <<d, n>> \notin upperFiles
    /\ upperFiles' = upperFiles \cup {<<d, n>>}
    /\ dcache' = [dcache EXCEPT ![<<d, n>>] = Inode(0, d)]
    /\ stale' = stale \ {<<d, n>>}
    /\ UNCHANGED <<upperDirs, pending>>

\* bdfs_blend_create: the parent must exist on the upper layer (-ENOENT) and
\* not have the name (-EEXIST).
Create(d, n) ==
    /\ Positive(d) /\ dcache[<<d, n>>] = Negative
    /\ d \in upperDirs
    /\ <<d, n>> \notin upperFiles
    /\ upperFiles' = upperFiles \cup {<<d, n>>}
    /\ dcache' = [dcache EXCEPT ![<<d, n>>] = Inode(0, d)]
    /\ stale' = stale \ {<<d, n>>}
    /\ UNCHANGED <<upperDirs, pending>>

\* bdfs_blend_symlink finds the real parent the same way, and also gives the
\* dentry an upper inode.
Symlink(d, n) == Create(d, n)

\* The real parent handed to vfs_unlink or vfs_rename is the victim's, and the
\* victim exists.
RealParent(p) ==
    IsUpper(p[1]) /\ dcache[p[1]].dir = dcache[p].dir /\ p \in upperFiles

\* bdfs_blend_unlink (-EPERM unless upper).  The dentry turns negative, or is
\* unhashed if someone else uses it.  No whiteout is left over an archived
\* name.
Unlink(p) ==
    /\ IsUpper(p) /\ RealParent(p)
    /\ upperFiles' = upperFiles \ {p}
    /\ \/ /\ dcache' = [dcache EXCEPT ![p] = Negative]
          /\ stale' = IF Archived(p) THEN stale \cup {p} ELSE stale \ {p}
       \/ /\ dcache' = [dcache EXCEPT ![p] = None]
          /\ stale' = stale \ {p}
    /\ UNCHANGED <<upperDirs, pending>>

\* bdfs_blend_rename of a file, also over an existing one: source and both
\* parents must be upper.
Rename(p, q) ==
    /\ p # q
    /\ IsUpper(p) /\ RealParent(p)
    /\ IsUpper(q[1]) /\ Cached(q)
    /\ upperFiles' = (upperFiles \ {p}) \cup {q}
    /\ dcache' = [dcache EXCEPT ![p] = None, ![q] = Inode(0, q[1])]
    /\ pending' = pending \ {q}
    /\ stale' = stale \ {p, q}
    /\ UNCHANGED upperDirs

\* bdfs_blend_link makes the name on the upper layer, but does not give the
\* new dentry an inode: it stays negative.
Link(p, q) ==
    /\ IsUpper(p) /\ <<dcache[p].dir, p[2]>> \in upperFiles
    /\ IsUpper(q[1]) /\ dcache[q] = Negative
    /\ q \notin upperFiles
    /\ upperFiles' = upperFiles \cup {q}
    /\ stale' = stale \cup {q}
    /\ UNCHANGED <<upperDirs, dcache, pending>>

-----------------------------------------------------------------------------
(* Operations on directories                                               *)

Mkdir(d) ==
    /\ dcache[d] = Negative
    /\ d \notin upperDirs
    /\ upperDirs' = upperDirs \cup {d}
    /\ dcache' = [dcache EXCEPT ![d] = Inode(0, d)]
    /\ stale' = stale \ {d}
    /\ UNCHANGED <<upperFiles, pending>>

\* bdfs_blend_rmdir: only the upper directory has to be empty.  The VFS prunes
\* the cached children.
Rmdir(d) ==
    /\ IsUpper(d)
    /\ InDir(d) \cap upperFiles = {}
    /\ upperDirs' = upperDirs \ {d}
    /\ dcache' = [Forget(InDir(d)) EXCEPT ![d] = Negative]
    /\ pending' = pending \ InDir(d)
    /\ stale' = (stale \ InDir(d)) \cup (IF Archived(d) THEN {d} ELSE {})
    /\ UNCHANGED upperFiles

\* What was at or below d is at or below e.
Moved(d, e, p) == IF p = d THEN e ELSE IF p \in InDir(d) THEN <<e, p[2]>> ELSE p

\* bdfs_blend_rename of a directory.  The upper subtree and the cached
\* subtree move; the archived files of d stay behind, those of e show through.
RenameDir(d, e) ==
    /\ d # e
    /\ IsUpper(d) /\ Cached(e)
    /\ InDir(e) \cap upperFiles = {}
    /\ upperDirs' = (upperDirs \ {d}) \cup {e}
    /\ upperFiles' = {Moved(d, e, p) : p \in upperFiles}
    /\ LET Real(x) == IF x.kind = "inode" /\ x.layer = 0 /\ x.dir = d
                      THEN Inode(0, e) ELSE x
       IN dcache' = [p \in Paths |->
                       IF p = d \/ p \in InDir(d) THEN None
                       ELSE Real(dcache[Moved(e, d, p)])]
    /\ pending' = {Moved(d, e, p) : p \in pending \ InDir(e)}
    /\ stale' = (stale \ ({d, e} \cup InDir(d) \cup InDir(e))) \cup
                {<<e, n>> : n \in {m \in Names :
                    /\ Cached(<<d, m>>)
                    /\ \/ <<d, m>> \in stale
                       \/ Archived(<<d, m>>) \/ Archived(<<e, m>>)}}

-----------------------------------------------------------------------------
(* Copy-up, by the daemon, for an open or a setattr of a lower file        *)

\* bdfs_job_promote_copyup makes the parents, at the path of the lower file.
CopyUpParents(p) ==
    /\ p \in Files /\ IsLower(p)
    /\ dcache[p].dir \notin upperDirs
    /\ upperDirs' = upperDirs \cup {dcache[p].dir}
    /\ stale' = stale \cup ({dcache[p].dir} \cap {d \in Dirs : Cached(d)})
    /\ UNCHANGED <<upperFiles, dcache, pending>>

\* It makes the file there; one that exists counts as copied.  After a failed
\* copy the job unlinks the file, and only the parents remain.
CopyUpFile(p) ==
    /\ p \in Files /\ IsLower(p) /\ p \notin pending
    /\ dcache[p].dir \in upperDirs
    /\ LET real == <<dcache[p].dir, p[2]>> IN
       /\ upperFiles' = upperFiles \cup {real}
       /\ stale' = stale \cup (IF Cached(real) /\ ~IsUpper(real) THEN {real} ELSE {})
    /\ pending' = pending \cup {p}
    /\ UNCHANGED <<upperDirs, dcache>>

\* bdfs_blend_complete_copyup: the inode now stands for the upper file.
CompleteCopyUp(p) ==
    /\ p \in pending
    /\ <<dcache[p].dir, p[2]>> \in upperFiles
    /\ dcache' = [dcache EXCEPT ![p] = Inode(0, dcache[p].dir)]
    /\ pending' = pending \ {p}
    /\ stale' = IF dcache[p].dir = p[1] THEN stale \ {p} ELSE stale
    /\ UNCHANGED <<upperDirs, upperFiles>>

-----------------------------------------------------------------------------
(* Reading a directory; hash is full_name_hash & BDFS_DEDUP_MASK           *)

\* A bug to check against: the first pass does not record names.
FilldirForgets(acc, n, dedup, hash) ==
    IF dedup /\ hash[n] \in acc.seen THEN acc
    ELSE [out  |-> Append(acc.out, n),
          seen |-> IF dedup THEN acc.seen \cup {hash[n]} ELSE acc.seen]

\* bdfs_filldir with bdfs_dedup_test_set.
Filldir(acc, n, dedup, hash) ==
    IF dedup /\ hash[n] \in acc.seen THEN acc
    ELSE [out |-> Append(acc.out, n), seen |-> acc.seen \cup {hash[n]}]

IterateDir(acc, names, dedup, hash) ==
    FoldLeft(LAMBDA a, n : Filldir(a, n, dedup, hash), acc, SetToSeq(names))

\* bdfs_blend_iterate_shared in one call: the real directory, then every
\* lower layer.
Listing(d, hash) ==
    LET real  == IF IsUpper(d) THEN {p[2] : p \in InDir(d) \cap upperFiles}
                 ELSE Lower[dcache[d].layer][d]
        first == IterateDir([out |-> <<>>, seen |-> {}], real, FALSE, hash)
        Pass(a, layer) ==
            IF layer[d] = NoDir THEN a ELSE IterateDir(a, layer[d], TRUE, hash)
    IN FoldLeft(Pass, first, Lower).out

-----------------------------------------------------------------------------

DirOps(d) == Mkdir(d) \/ Rmdir(d) \/ (\E e \in Dirs : RenameDir(d, e))

CopyUp(p) == CopyUpParents(p) \/ CopyUpFile(p) \/ CompleteCopyUp(p)

FileOps(p) ==
    \/ Create(p[1], p[2]) \/ Symlink(p[1], p[2]) \/ Unlink(p) \/ CopyUp(p)
    \/ \E q \in Files : Rename(p, q) \/ Link(p, q)

Next ==
    \/ \E p \in Paths : Lookup(p) \/ Evict(p)
    \/ \E p \in Files : FileOps(p)
    \/ \E d \in Dirs : DirOps(d)

Spec == Init /\ [][Next]_vars

-----------------------------------------------------------------------------
(* Properties                                                              *)

\* bdfs_resolve_path, the ioctl that names the layer of a path: the upper
\* layer first, then the lower ones, always by the full path.
ResolvePath(p) ==
    IF OnUpper(p) THEN Inode(0, DirOf(p)) ELSE LowerLookup(p)

\* Types, and the shape of a file system tree: the parent of a file exists,
\* the parent of a cached file is cached and positive.
TypeOK ==
    /\ upperDirs \subseteq Dirs
    /\ upperFiles \subseteq Files
    /\ \A p \in upperFiles : p[1] \in upperDirs
    /\ dcache \in [Paths -> Dentries]
    /\ \A p \in Files : Cached(p) => Positive(p[1])
    /\ pending \subseteq {p \in Files : IsLower(p)}
    /\ stale \subseteq {p \in Paths : Cached(p)}

\* What an open file or a cached name stands for is what
\* BDFS_IOC_RESOLVE_PATH answers for its path: BTRFS before DwarFS, the first
\* DwarFS layer before the others, at any depth and whatever was created,
\* renamed or copied up before.  The exceptions, in stale, are an archived
\* name under a deleted or renamed upper one, a new hard link, and what a
\* copy-up has put on the upper layer beside the cached inode.  Unlink, rename
\* and rmdir rely on it: they take the real parent from the parent's inode.
CacheCoherent ==
    \A p \in Paths \ stale : Cached(p) => dcache[p] = ResolvePath(p)

\* Reading a directory gives every name that a lookup would find, once, and
\* no other; only a name whose hash collides with one that is listed may be
\* missing.
ListingMatchesLookup ==
    \A d \in Dirs \ stale, hash \in [Names -> Buckets] : Positive(d) =>
        LET out == Listing(d, hash)
            visible == {n \in Names : ResolvePath(<<d, n>>) # Negative}
        IN /\ ToSet(out) \subseteq visible
           /\ {hash[n] : n \in visible} = {hash[n] : n \in ToSet(out)}
           /\ IsInjective(out)
=============================================================================

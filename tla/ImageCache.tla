----------------------------- MODULE ImageCache -----------------------------
(***************************************************************************)
(* The cache of VM images of linuxfs: ensureImage and downloadFile         *)
(* (vm/image.go), called by a mount that starts a VM (vm/vm.go), and       *)
(* checkAndUpdate of `linuxfs update-images' (cmd/update_images.go).       *)
(*                                                                         *)
(* The commands are processes without a lock between them.  The name of an *)
(* image holds its version, which the release of linuxfs that runs         *)
(* decides, so two releases have two names in one directory; two downloads *)
(* of one version have the same temporary name.  A name refers to an       *)
(* inode, because a download writes to the file it opened.  No provider    *)
(* publishes a SHA-256, so that no download is refused for its content.    *)
(***************************************************************************)
EXTENDS Naturals, Sequences, FiniteSets

CONSTANTS
    Mounts,     \* commands that start a VM
    Updates,    \* `linuxfs update-images' commands
    Version,    \* the version of the image each of them wants
    NChunks,    \* the reads it takes to download an image
    MaxDeaths   \* bound: commands that are killed

ASSUME CacheAssumption ==
    /\ DOMAIN Version = Mounts \cup Updates /\ Mounts \cap Updates = {}
    /\ NChunks \in Nat \ {0} /\ MaxDeaths \in Nat
    /\ \A c \in DOMAIN Version : Version[c] \notin Mounts

Commands == Mounts \cup Updates
Versions == {Version[c] : c \in Commands}
Whole    == 1 .. NChunks

VARIABLES
    image, tmp,  \* the inode of an image and of its .tmp; 0: no such file
    content,     \* inode -> the parts of the image it holds
    pc,          \* where a command is
    fd,          \* the inode its download writes to
    got,         \* the number of parts it has received
    old,         \* currentFiles of an update: versions, and mounts for overlays
    overlay,     \* the mounts whose overlay file exists
    base,        \* the inode of the image that a VM runs on
    deaths,      \* counter for the bound
    shared,      \* history: versions with two downloads at a time
    cut,         \* history: versions of which a shared download was cut short
    fate         \* history: versions that updates removed, and that came back

names == <<image, tmp>>
vms   == <<overlay, base>>
past  == <<deaths, shared, cut, fate>>
vars  == <<image, tmp, content, pc, fd, got, old, overlay, base, deaths, shared, cut,
           fate>>

\* The cache may hold any of the images, whole, from earlier commands; nobody
\* writes to them, so that one inode stands for them all.
Init ==
    /\ \E have \in SUBSET Versions :
          image = [v \in Versions |-> IF v \in have THEN 1 ELSE 0]
    /\ content = <<Whole>>
    /\ tmp = [v \in Versions |-> 0]
    /\ pc = [c \in Commands |-> "start"]
    /\ fd = [c \in Commands |-> 0] /\ got = [c \in Commands |-> 0]
    /\ old = [u \in Updates |-> {}]
    /\ overlay = {} /\ base = [m \in Mounts |-> 0]
    /\ deaths = 0 /\ shared = {} /\ cut = {}
    /\ fate = [v \in Versions |-> "kept"]

Goto(c, from, to) == pc[c] = from /\ pc' = [pc EXCEPT ![c] = to]

Cached(v) == image[v] # 0
Downloads(c, v) == Version[c] = v /\ pc[c] \in {"receive", "rename"}

-----------------------------------------------------------------------------
(* downloadFile                                                            *)

\* The GET or os.Create failed.
GetFails(c) ==
    /\ Goto(c, "get", "failed")
    /\ UNCHANGED <<names, content, fd, got, old, vms, past>>

\* os.Create: the file is made, or the one that is there truncated.
Create(c) ==
    LET v == Version[c]
        i == IF tmp[v] = 0 THEN Len(content) + 1 ELSE tmp[v]
    IN
    /\ Goto(c, "get", "receive")
    /\ tmp' = [tmp EXCEPT ![v] = i]
    /\ content' = IF tmp[v] = 0 THEN Append(content, {}) ELSE [content EXCEPT ![i] = {}]
    /\ fd' = [fd EXCEPT ![c] = i]
    /\ got' = [got EXCEPT ![c] = 0]
    /\ shared' = IF \E d \in Commands : Downloads(d, v) THEN shared \cup {v} ELSE shared
    /\ UNCHANGED <<image, old, vms, deaths, cut, fate>>

\* One read and one write, at the offset of this download.
Receive(c) ==
    /\ pc[c] = "receive" /\ got[c] < NChunks
    /\ got' = [got EXCEPT ![c] = @ + 1]
    /\ content' = [content EXCEPT ![fd[c]] = @ \cup {got[c] + 1}]
    /\ UNCHANGED <<names, pc, fd, old, vms, past>>

\* The file of a download is closed.
Close(c) == fd' = [fd EXCEPT ![c] = 0] /\ got' = [got EXCEPT ![c] = 0]

CutShort(c) == cut' = IF Version[c] \in shared THEN cut \cup {Version[c]} ELSE cut

\* A bug to check against: any error of Read ends the loop like io.EOF.
ReceiveFailsAsEOF(c) ==
    /\ Goto(c, "receive", "rename")
    /\ Close(c)
    /\ UNCHANGED <<names, content, old, vms, past>>

\* Read or Write failed: the deferred function removes .tmp.
ReceiveFails(c) ==
    /\ Goto(c, "receive", "failed")
    /\ tmp' = [tmp EXCEPT ![Version[c]] = 0]
    /\ CutShort(c)
    /\ Close(c)
    /\ UNCHANGED <<image, content, old, vms, deaths, shared, fate>>

\* io.EOF, and f.Close.
Received(c) ==
    /\ Goto(c, "receive", "rename") /\ got[c] = NChunks
    /\ Close(c)
    /\ UNCHANGED <<names, content, old, vms, past>>

\* f.Close failed: .tmp stays.
CloseFails(c) ==
    /\ Goto(c, "receive", "failed") /\ got[c] = NChunks
    /\ CutShort(c)
    /\ Close(c)
    /\ UNCHANGED <<names, content, old, vms, deaths, shared, fate>>

Rename(c) ==
    LET v == Version[c] IN
    /\ Goto(c, "rename", IF c \in Mounts THEN "overlay" ELSE "remove")
    /\ tmp[v] # 0
    /\ image' = [image EXCEPT ![v] = tmp[v]]
    /\ tmp' = [tmp EXCEPT ![v] = 0]
    /\ fate' = [fate EXCEPT ![v] = IF @ = "removed" THEN "back" ELSE @]
    /\ UNCHANGED <<content, fd, got, old, vms, deaths, shared, cut>>

\* .tmp is gone.
RenameFails(c) ==
    /\ Goto(c, "rename", "failed") /\ tmp[Version[c]] = 0
    /\ UNCHANGED <<names, content, fd, got, old, vms, past>>

-----------------------------------------------------------------------------
(* checkAndUpdate                                                          *)

\* filepath.Glob: images, and the overlays beside them, but not .tmp files.
List(u) ==
    /\ Goto(u, "start", "stat")
    /\ old' = [old EXCEPT ![u] = {v \in Versions : Cached(v)} \cup overlay]
    /\ UNCHANGED <<names, content, fd, got, vms, past>>

\* Up to date, or only checked.
UpToDate(u) ==
    /\ Goto(u, "stat", "done")
    /\ old' = [old EXCEPT ![u] = {}]
    /\ UNCHANGED <<names, content, fd, got, vms, past>>

\* A bug to check against: the image is downloaded also when it is there.
OutdatedAlways(u) ==
    /\ Goto(u, "stat", "get")
    /\ UNCHANGED <<names, content, fd, got, old, vms, past>>

Outdated(u) ==
    /\ Goto(u, "stat", "get") /\ ~Cached(Version[u])
    /\ UNCHANGED <<names, content, fd, got, old, vms, past>>

\* os.Remove of f by u, which spares the image it has just downloaded.
Remove(f, u) ==
    /\ image' = [v \in Versions |-> IF v = f /\ v # Version[u] THEN 0 ELSE image[v]]
    /\ fate' = [v \in Versions |->
                   IF Cached(v) /\ image'[v] = 0 /\ fate[v] = "kept"
                   THEN "removed" ELSE fate[v]]

\* A bug to check against: overlays are removed like images.
RemoveAnyOld(u) ==
    /\ pc[u] = "remove"
    /\ \E f \in old[u] :
          /\ old' = [old EXCEPT ![u] = @ \ {f}]
          /\ Remove(f, u)
          /\ overlay' = overlay \ {f}
    /\ UNCHANGED <<tmp, content, pc, fd, got, base, deaths, shared, cut>>

\* The next of currentFiles: neither the new image nor an overlay is removed.
RemoveOld(u) ==
    /\ pc[u] = "remove"
    /\ \E f \in old[u] :
          /\ old' = [old EXCEPT ![u] = @ \ {f}]
          /\ Remove(f, u)
    /\ UNCHANGED <<tmp, content, pc, fd, got, vms, deaths, shared, cut>>

Updated(u) ==
    /\ Goto(u, "remove", "done") /\ old[u] = {}
    /\ UNCHANGED <<names, content, fd, got, old, vms, past>>

-----------------------------------------------------------------------------
(* startQEMU                                                               *)

\* ensureImage: os.Stat.
Ensure(m) ==
    /\ Goto(m, "start", IF Cached(Version[m]) THEN "overlay" ELSE "get")
    /\ UNCHANGED <<names, content, fd, got, old, vms, past>>

\* qemu-img create, which reads the backing file; the overlay is named after
\* the pid.
CreateOverlay(m) ==
    /\ Goto(m, "overlay", "qemu") /\ Cached(Version[m])
    /\ overlay' = overlay \cup {m}
    /\ UNCHANGED <<names, content, fd, got, old, base, past>>

\* QEMU opens the overlay and its base.
StartVM(m) ==
    /\ Goto(m, "qemu", "running") /\ Cached(Version[m]) /\ m \in overlay
    /\ base' = [base EXCEPT ![m] = image[Version[m]]]
    /\ UNCHANGED <<names, content, fd, got, old, overlay, past>>

\* qemu-img or QEMU failed, in particular for want of the image: os.Exit.
StartFails(m) ==
    /\ pc[m] \in {"overlay", "qemu"}
    /\ pc' = [pc EXCEPT ![m] = "failed"]
    /\ UNCHANGED <<names, content, fd, got, old, vms, past>>

\* Stop: QEMU is killed and the overlay removed.
StopVM(m) ==
    /\ Goto(m, "running", "done")
    /\ overlay' = overlay \ {m}
    /\ base' = [base EXCEPT ![m] = 0]
    /\ UNCHANGED <<names, content, fd, got, old, past>>

-----------------------------------------------------------------------------

\* A command is killed; a VM goes on without the one that started it.
Dies(c) ==
    /\ pc[c] \notin {"running", "done", "failed"}
    /\ deaths < MaxDeaths /\ deaths' = deaths + 1
    /\ pc' = [pc EXCEPT ![c] = "failed"]
    /\ IF Downloads(c, Version[c]) THEN CutShort(c) ELSE UNCHANGED cut
    /\ Close(c)
    /\ UNCHANGED <<names, content, old, vms, shared, fate>>

Download(c) ==
    \/ GetFails(c) \/ Create(c) \/ Receive(c) \/ ReceiveFails(c) \/ Received(c)
    \/ CloseFails(c) \/ Rename(c) \/ RenameFails(c)

\* Every command has ended.
Finished ==
    /\ \A c \in Commands : pc[c] \in {"done", "failed"}
    /\ UNCHANGED vars

Next ==
    \/ \E c \in Commands : Download(c) \/ Dies(c)
    \/ \E u \in Updates :
          List(u) \/ UpToDate(u) \/ Outdated(u) \/ RemoveOld(u) \/ Updated(u)
    \/ \E m \in Mounts :
          Ensure(m) \/ CreateOverlay(m) \/ StartVM(m) \/ StartFails(m) \/ StopVM(m)
    \/ Finished

Spec == Init /\ [][Next]_vars

-----------------------------------------------------------------------------
(* Properties                                                              *)

Inodes == 0 .. Len(content)

\* Types: names and downloads refer to files that were made.
TypeOK ==
    /\ content \in Seq(SUBSET Whole)
    /\ image \in [Versions -> Inodes] /\ tmp \in [Versions -> Inodes]
    /\ pc \in [Commands -> {"start", "stat", "get", "receive", "rename", "remove",
                            "overlay", "qemu", "running", "done", "failed"}]
    /\ fd \in [Commands -> Inodes] /\ got \in [Commands -> 0 .. NChunks]
    /\ old \in [Updates -> SUBSET (Versions \cup Mounts)]
    /\ overlay \subseteq Mounts /\ base \in [Mounts -> Inodes]
    /\ deaths \in 0 .. MaxDeaths /\ shared \subseteq Versions /\ cut \subseteq shared
    /\ fate \in [Versions -> {"kept", "removed", "back"}]

\* "DownloadFile downloads url to dest atomically": a cached image is whole.
\* Where two downloads of it ran at a time it may be cached half written, but
\* becomes whole when they end, unless one of them is cut short.
CachedIsWhole ==
    \A v \in Versions : Cached(v) /\ content[image[v]] # Whole =>
        v \in shared /\ (v \in cut \/ \E c \in Commands : Downloads(c, v))

\* "Create a throwaway overlay so the base image is never modified": nor do
\* downloads and updates modify an image that a VM runs on, unless two of them
\* met, and no update takes the overlay of a running VM away ("must not be
\* deleted").
RunningDiskIsKept ==
    \A m \in Mounts : pc[m] = "running" =>
        /\ m \in overlay
        /\ Version[m] \in shared \/ content[base[m]] = Whole

\* "Old images are removed after a successful download": updates, of whatever
\* releases and in whatever order they run, never leave the cache empty, as
\* long as no image that one of them removed was downloaded again: two updates
\* that list each other's image before they download may then remove both.
SomeImageStays ==
    [][(\A v \in Versions : fate[v] # "back") /\ (\E v \in Versions : Cached(v))
         => (\E v \in Versions : Cached(v))']_vars
=============================================================================
